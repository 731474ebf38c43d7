----------------------------- MODULE ChargerMqtt -----------------------------
(***************************************************************************)
(* mqtt_config_task and ota_task of the charger (mqtt_handler.cpp,         *)
(* ota_handler.cpp): the connection to the broker, the callback that       *)
(* stores a command, its dispatch, the relay of an order to the LoRa task  *)
(* with the wait for the mower's acknowledgement, and the status.          *)
(*                                                                         *)
(* Messages are "order" (one of the six the mower is sent), "ota" (an      *)
(* update to a newer version) and "other" (all that is answered from the   *)
(* charger's own state).  PubSubClient reads at most one message per call  *)
(* of loop().                                                              *)
(***************************************************************************)
EXTENDS ChargerState

Messages == {"order", "ota", "other"}

-----------------------------------------------------------------------------
(* The broker and the WiFi link, outside the firmware *)

BrokerSends ==
    \E m \in Messages :
        /\ Feed(m) /\ online
        /\ inbox' = Append(inbox, m)
        /\ UNCHANGED <<mqttPc, online, mqttRxBuffer, mqttCmdQueue, polls,
                       statusCounter, reported, accepted, answered, credited>>
        /\ UNCHANGED <<loraAckResult, otaVars, loraVars, loraQueue, uart, toMower,
                       mowerVars, nvs, bleVars, linkVars>>

\* The connection breaks: what was not read is lost, the session is a clean one.
BrokerDrops ==
    /\ Feed("offline") /\ online
    /\ online' = FALSE /\ inbox' = <<>>
    /\ UNCHANGED <<mqttPc, mqttRxBuffer, mqttCmdQueue, polls, statusCounter,
                   reported, accepted, answered, credited>>
    /\ UNCHANGED <<loraAckResult, otaVars, loraVars, loraQueue, uart, toMower,
                   mowerVars, nvs, bleVars, linkVars>>

-----------------------------------------------------------------------------
(* mqtt_config_task *)

\* The task waits for WiFi before its first connection.
MqttBoots ==
    /\ mqttPc = "boot" /\ link
    /\ mqttPc' = "loop"
    /\ UNCHANGED <<online, inbox, mqttRxBuffer, mqttCmdQueue, polls, statusCounter,
                   reported, accepted, answered, credited>>
    /\ UNCHANGED <<loraAckResult, otaVars, loraVars, loraQueue, uart, toMower,
                   mowerVars, nvs, bleVars, linkVars, fed>>

\* mqttConnect succeeds; a failed attempt waits 5 s and changes nothing.
MqttReconnect ==
    /\ mqttPc = "loop" /\ ~online /\ link
    /\ online' = TRUE
    /\ UNCHANGED <<mqttPc, inbox, mqttRxBuffer, mqttCmdQueue, polls, statusCounter,
                   reported, accepted, answered, credited>>
    /\ UNCHANGED <<loraAckResult, otaVars, loraVars, loraQueue, uart, toMower,
                   mowerVars, nvs, bleVars, linkVars, fed>>

\* Variant: the dispatch waits for a later round.
MqttLoopUndispatched ==
    /\ mqttPc = "loop" /\ online /\ inbox # <<>>
    /\ inbox' = Tail(inbox)
    /\ mqttRxBuffer' = Head(inbox)
    /\ mqttCmdQueue' = IF mqttCmdQueue < 5 THEN mqttCmdQueue + 1 ELSE 5
    /\ UNCHANGED <<mqttPc, online, polls, statusCounter, reported, accepted, answered, credited>>
    /\ UNCHANGED <<loraAckResult, otaVars, loraVars, loraQueue, uart, toMower,
                   mowerVars, nvs, bleVars, linkVars, fed>>

\* mqttLoop, with onMqttMessage for the message it reads: the buffer is overwritten
\* and the task signals itself, unless 5 signals wait.
MqttLoop ==
    /\ mqttPc = "loop" /\ online /\ inbox # <<>>
    /\ mqttPc' = "receive"
    /\ inbox' = Tail(inbox)
    /\ mqttRxBuffer' = Head(inbox)
    /\ mqttCmdQueue' = IF mqttCmdQueue < 5 THEN mqttCmdQueue + 1 ELSE 5
    /\ UNCHANGED <<online, polls, statusCounter, reported, accepted, answered, credited>>
    /\ UNCHANGED <<loraAckResult, otaVars, loraVars, loraQueue, uart, toMower,
                   mowerVars, nvs, bleVars, linkVars, fed>>

\* Variant: the acknowledgement of an earlier order is left.
BeginRelayUncleared == accepted' = accepted + 1 /\ UNCHANGED loraAckResult

\* relayAndWait begins with loraAckResult = 0.
BeginRelay == accepted' = accepted + 1 /\ loraAckResult' = "pending"

\* A signal is taken, and mqttDispatchCommand reads the buffer.
MqttReceive ==
    /\ mqttPc = "receive" /\ mqttCmdQueue > 0
    /\ mqttCmdQueue' = mqttCmdQueue - 1
    /\ mqttPc' = CASE mqttRxBuffer = "order" -> "send"
                   [] mqttRxBuffer = "ota" -> "ota"
                   [] OTHER -> "status"
    /\ IF mqttRxBuffer = "order"
       THEN BeginRelay
       ELSE UNCHANGED <<loraAckResult, accepted>>
    /\ UNCHANGED <<online, inbox, mqttRxBuffer, polls, statusCounter, reported,
                   answered, credited>>
    /\ UNCHANGED <<otaVars, loraVars, loraQueue, uart, toMower, mowerVars, nvs,
                   bleVars, linkVars, fed>>

\* relayAndWait queues the order; a full queue is given up after a second, and the
\* wait for the acknowledgement goes ahead all the same.
RelayOrder ==
    /\ mqttPc = "send"
    /\ mqttPc' = "wait" /\ polls' = AckPolls
    /\ SendOrGiveUp(Order(accepted))
    /\ UNCHANGED <<online, inbox, mqttRxBuffer, mqttCmdQueue, statusCounter, reported,
                   accepted, answered, credited>>
    /\ UNCHANGED <<loraAckResult, otaVars, loraVars, uart, toMower, mowerVars, nvs,
                   bleVars, linkVars, fed>>

\* One look at loraAckResult, a second after the last: the answer when it is set or
\* when this was the last look.
RelayPoll ==
    /\ mqttPc = "wait"
    /\ IF loraAckResult = "pending" /\ polls > 1
       THEN polls' = polls - 1 /\ UNCHANGED <<mqttPc, answered, credited>>
       ELSE /\ polls' = 0 /\ mqttPc' = "status" /\ answered' = answered + 1
            /\ credited' = IF loraAckResult = "ok" THEN credited + 1 ELSE credited
    /\ UNCHANGED <<online, inbox, mqttRxBuffer, mqttCmdQueue, statusCounter, reported,
                   accepted>>
    /\ UNCHANGED <<loraAckResult, otaVars, loraVars, loraQueue, uart, toMower,
                   mowerVars, nvs, bleVars, linkVars, fed>>

\* ota_upgrade_cmd of a newer version: queued, or dropped after a second when one
\* waits already; answered with success either way.
AcceptUpdate ==
    /\ mqttPc = "ota"
    /\ mqttPc' = "status" /\ otaQueue' = TRUE
    /\ UNCHANGED <<online, inbox, mqttRxBuffer, mqttCmdQueue, polls, statusCounter,
                   reported, accepted, answered, credited>>
    /\ UNCHANGED <<otaBusy, loraAckResult, loraVars, loraQueue, uart, toMower,
                   mowerVars, nvs, bleVars, linkVars, fed>>

\* Variant: one miss later.
ShownFrom3(misses) == IF misses < 3 THEN 0 ELSE misses

\* The missed heartbeats are reported as 0 below 2.
Shown(misses) == IF misses < 2 THEN 0 ELSE misses

\* Variant: one round later.
NextCountLate(count) == IF count + 1 > StatusEvery THEN 0 ELSE count + 1

\* statusCounter goes back to 0 when it exceeds 3.
NextCount(count) == IF count + 1 >= StatusEvery THEN 0 ELSE count + 1

\* The end of a round, at once when there was nothing to read: every StatusEvery of
\* them mqttPublishStatus reports the missed heartbeats.
MqttStatus ==
    /\ \/ mqttPc = "status"
       \/ mqttPc = "loop" /\ online /\ inbox = <<>> /\ mqttCmdQueue = 0
    /\ mqttPc' = "loop"
    /\ statusCounter' = NextCount(statusCounter)
    /\ reported' = IF statusCounter' = 0 /\ online
                   THEN Shown(mowerError)
                   ELSE reported
    /\ UNCHANGED <<online, inbox, mqttRxBuffer, mqttCmdQueue, polls, accepted,
                   answered, credited>>
    /\ UNCHANGED <<loraAckResult, otaVars, loraVars, loraQueue, uart, toMower,
                   mowerVars, nvs, bleVars, linkVars, fed>>

-----------------------------------------------------------------------------
(* ota_task *)

OtaTakes ==
    /\ otaQueue /\ ~otaBusy
    /\ otaQueue' = FALSE /\ otaBusy' = TRUE
    /\ UNCHANGED <<mqttVars, loraAckResult, loraVars, loraQueue, uart, toMower,
                   mowerVars, nvs, bleVars, linkVars, fed>>

\* Refused by the server, too large, incomplete, a wrong MD5, or not flashed.
OtaFails ==
    /\ otaBusy /\ otaBusy' = FALSE
    /\ UNCHANGED <<mqttVars, otaQueue, loraAckResult, loraVars, loraQueue, uart,
                   toMower, mowerVars, nvs, bleVars, linkVars, fed>>

-----------------------------------------------------------------------------
MqttNext ==
    \/ MqttBoots \/ MqttReconnect \/ MqttLoop \/ MqttReceive
    \/ RelayOrder \/ RelayPoll \/ AcceptUpdate \/ MqttStatus

OtaNext == OtaTakes \/ OtaFails

BrokerNext == BrokerSends \/ BrokerDrops

=============================================================================
