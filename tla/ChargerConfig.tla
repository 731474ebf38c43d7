---------------------------- MODULE ChargerConfig ----------------------------
(***************************************************************************)
(* Provisioning of the charger: the BLE command callback                   *)
(* (ble_provisioning.cpp), the Arduino loop that relays a committed        *)
(* configuration to the mower and restarts (main.cpp), the WiFi task       *)
(* (wifi_manager.cpp), the storage (nvs_storage.cpp), and the restarts.    *)
(*                                                                         *)
(* The callback runs in the task of the BLE stack, one write at a time.    *)
(* bleStop tears the stack down from the loop: whether a callback that     *)
(* waits then goes on is left open.                                        *)
(***************************************************************************)
EXTENDS ChargerState

noBle == <<mqttVars, loraAckResult, otaVars, loraVars, uart, toMower, mowerVars, linkVars>>

\* The callback is free to take the next write.
Writable == bleActive /\ blePc = "idle"

-----------------------------------------------------------------------------
(* dispatchSharedCommand *)

\* set_wifi_info and set_mqtt_info.
StoreInfo ==
    /\ Writable
    /\ \/ Feed("set_wifi") /\ nvs' = [nvs EXCEPT !.wifi = TRUE]
       \/ Feed("set_mqtt") /\ nvs' = [nvs EXCEPT !.mqtt = TRUE]
    /\ UNCHANGED <<noBle, loraQueue, bleVars>>

\* set_rtk_info queues LORA_Q_CONFIG, which has the mower apply what it was given.
SetRtkInfo ==
    /\ Feed("set_rtk") /\ Writable
    /\ SendOrGiveUp(Command("config"))
    /\ UNCHANGED <<noBle, nvs, bleVars>>

\* set_lora_info queues a scan and waits one second, not for its end.
SetLoraInfo ==
    /\ Feed("set_lora") /\ Writable
    /\ SendOrGiveUp(Command("scan"))
    /\ blePc' = "scan" /\ asked' \in LoraRequests
    /\ UNCHANGED <<noBle, nvs, bleActive, configCommitted>>

\* The settings asked for are stored then, one after the other, and the channel asked
\* for is the answer.
StoreLoraInfo ==
    /\ \/ /\ blePc = "scan" /\ blePc' = "band"
          /\ nvs' = [nvs EXCEPT !.lora = asked.lora]
       \/ /\ blePc = "band" /\ blePc' = "idle"
          /\ nvs' = [nvs EXCEPT !.band = asked.band]
    /\ UNCHANGED <<noBle, loraQueue, bleActive, configCommitted, asked, fed>>

\* set_cfg_info 0: the storage is erased.
ClearConfig ==
    /\ Feed("clear") /\ Writable
    /\ nvs' = [wifi |-> FALSE, mqtt |-> FALSE, lora |-> None, band |-> None]
    /\ UNCHANGED <<noBle, loraQueue, bleVars>>

\* set_cfg_info 1: the flag is set for the loop, then the answer is sent, and after a
\* second the callback restarts the charger by itself (BleRestarts).
CommitConfig ==
    /\ Feed("commit") /\ Writable
    /\ configCommitted' = TRUE /\ blePc' = "committed"
    /\ UNCHANGED <<noBle, nvs, loraQueue, bleActive, asked>>

-----------------------------------------------------------------------------
(* The Arduino loop *)

\* bleStop and bleInit.
StopBle == bleActive' = FALSE /\ UNCHANGED <<configCommitted, blePc>>
InitBle == bleActive' = TRUE /\ configCommitted' = FALSE /\ blePc' \in {blePc, "idle"}

loopOnly == <<mqttVars, loraAckResult, otaVars, loraVars, loraQueue, uart, mowerVars,
              nvs, asked, wifiPc, wifiState, link, outage, fed>>

\* Whether the second half of a round finds anything to do.
LinkMatters == IF bleActive THEN link ELSE ~link /\ lostFor \in {None, LostLimit}

\* Variant: only once there is WiFi.
CommittedOnline == bleActive /\ configCommitted /\ link

\* The flag counts while BLE is up.
Committed == bleActive /\ configCommitted

\* The first question of a round: a committed configuration, with BLE still up.  A
\* round that would do nothing is left out.
LoopCommit ==
    /\ mainPc = "watch"
    /\ IF Committed
       THEN StopBle /\ mainPc' = "send_wifi"
       ELSE /\ LinkMatters /\ mainPc' = "link"
            /\ UNCHANGED <<bleActive, configCommitted, blePc>>
    /\ UNCHANGED <<loopOnly, toMower, lostFor>>

\* Variant: every round without WiFi notes the moment anew.
LossUnseen == TRUE

\* wifiLostTime is 0.
LossUnnoted == lostFor = None

\* The next ones: WiFi is there and stops BLE; or it is gone, and BLE starts when the
\* moment noted in wifiLostTime is LostLimit ago.  Nothing clears that moment when
\* WiFi comes back.
LoopLink ==
    /\ mainPc = "link"
    /\ mainPc' = "watch"
    /\ CASE bleActive /\ link -> StopBle /\ UNCHANGED lostFor
         [] ~bleActive /\ ~link /\ LossUnnoted ->
              lostFor' = 0 /\ UNCHANGED <<bleActive, configCommitted, blePc>>
         [] ~bleActive /\ ~link /\ lostFor = LostLimit -> InitBle /\ lostFor' = None
         [] OTHER -> UNCHANGED <<bleActive, configCommitted, blePc, lostFor>>
    /\ UNCHANGED <<loopOnly, toMower>>

\* sendConfigToMower, a part at a time: what the storage does not hold is left out.
SendPart ==
    /\ \/ /\ mainPc = "send_wifi" /\ mainPc' = "send_mqtt"
          /\ IF nvs.wifi THEN Transmit(Command("wifi")) ELSE UNCHANGED toMower
       \/ /\ mainPc = "send_mqtt" /\ mainPc' = "send_lora"
          /\ IF nvs.mqtt THEN Transmit(Command("mqtt")) ELSE UNCHANGED toMower
       \/ /\ mainPc = "send_lora" /\ mainPc' = "send_apply"
          /\ IF nvs.lora # None
             THEN Transmit([id |-> "lora", n |-> nvs.lora.channel])
             ELSE UNCHANGED toMower
       \/ /\ mainPc = "send_apply" /\ mainPc' = "restart"
          /\ Transmit(Command("apply"))
    /\ UNCHANGED <<loopOnly, bleActive, configCommitted, blePc, lostFor>>

-----------------------------------------------------------------------------
(* wifi_task, and the link *)

wifiOnly == <<mqttPc, mqttRxBuffer, mqttCmdQueue, polls, statusCounter, reported,
              accepted, answered, credited, loraAckResult, otaVars, loraVars, loraQueue,
              uart, toMower, mowerVars, nvs, bleVars, mainPc, lostFor>>

\* staConnect waits up to 55 s for the link, and is tried again only when a link it
\* had is lost.
WifiTask ==
    /\ \/ /\ wifiPc = "connecting" /\ link
          /\ wifiPc' = "monitor" /\ wifiState' = "connected"
       \/ /\ wifiPc = "connecting" /\ ~link
          /\ wifiPc' = "monitor" /\ wifiState' = "disconnected"
       \/ /\ wifiPc = "monitor" /\ wifiState = "connected" /\ ~link
          /\ \/ nvs.wifi /\ wifiPc' = "connecting" /\ wifiState' = "connecting"
             \/ ~nvs.wifi /\ wifiPc' = "monitor" /\ wifiState' = "disconnected"
    /\ UNCHANGED <<wifiOnly, online, inbox, link, outage, fed>>

\* The link comes up once the driver was told to connect, and goes down; the driver
\* may bring it back by itself.
LinkUp ==
    /\ ~link /\ wifiState # "init"
    /\ link' = TRUE /\ outage' = 0
    /\ UNCHANGED <<wifiOnly, online, inbox, wifiPc, wifiState, fed>>

LinkDown ==
    /\ Feed("link") /\ link
    /\ link' = FALSE /\ online' = FALSE /\ inbox' = <<>>
    /\ UNCHANGED <<wifiOnly, wifiPc, wifiState, outage>>

\* A unit of time passes: wifiLostTime ages whether there is a link or not.
Tick ==
    /\ "time" \in DOMAIN Inputs
    /\ lostFor' = IF lostFor = None \/ lostFor = LostLimit THEN lostFor ELSE lostFor + 1
    /\ outage' = IF link \/ outage = LostLimit THEN outage ELSE outage + 1
    /\ <<lostFor, outage>>' # <<lostFor, outage>>
    /\ UNCHANGED <<mqttVars, loraAckResult, otaVars, loraVars, loraQueue, uart, toMower,
                   mowerVars, nvs, bleVars, mainPc, wifiPc, wifiState, link, fed>>

-----------------------------------------------------------------------------
(* ESP.restart(): memory begins anew, the storage and what is on the air stay *)

Restart ==
    /\ Booted(nvs)
    /\ answered' = accepted /\ outage' = 0
    /\ UNCHANGED <<accepted, credited, reported, toMower, mowerVars, nvs, asked>>

\* By the loop, a second after the configuration was sent to the mower.
LoopRestarts == mainPc = "restart" /\ Restart /\ UNCHANGED fed

\* By the BLE callback, a second after it answered set_cfg_info.
BleRestarts == blePc = "committed" /\ Restart /\ UNCHANGED fed

\* By ota_task, a second after the new firmware was flashed.
OtaRestarts == otaBusy /\ Restart /\ UNCHANGED fed

\* The charger loses power, at any moment.
PowerCut == Feed("cut") /\ Restart

-----------------------------------------------------------------------------
BleNext ==
    \/ StoreInfo \/ SetRtkInfo \/ SetLoraInfo \/ StoreLoraInfo
    \/ ClearConfig \/ CommitConfig \/ BleRestarts

LoopNext == LoopCommit \/ LoopLink \/ SendPart \/ LoopRestarts

LinkNext == WifiTask \/ LinkUp \/ LinkDown \/ Tick

=============================================================================
