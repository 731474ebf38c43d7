---------------------------- MODULE ChargerState ----------------------------
(***************************************************************************)
(* State of the charger firmware (firmware/charger/src) and of its radio   *)
(* link to the mower.                                                      *)
(*                                                                         *)
(* Concurrency.  The firmware is a set of FreeRTOS tasks on two cores:     *)
(* mqtt_config_task relays orders from the broker, lora_config_task owns   *)
(* the queue to the radio, ota_task downloads, wifi_task keeps the link,   *)
(* the Arduino loop watches BLE provisioning, and the BLE stack runs its   *)
(* callbacks in a task of its own.  They share globals without a lock.     *)
(* One step is a stretch between two places where another task can change  *)
(* what the next stretch reads.                                            *)
(*                                                                         *)
(* The radio.  A frame in either direction may be lost, and is lost when   *)
(* the two ends are tuned to different channels.  The mower's side is not  *)
(* this firmware: it is modelled by what the frames it sends and takes     *)
(* mean to the charger.                                                    *)
(***************************************************************************)
EXTENDS Integers, Sequences, FiniteSets, Functions

CONSTANTS
    QueueLen,        \* places of loraQueue: 10 in the code
    AckPolls,        \* looks at the acknowledgement, a second apart: 3
    StatusEvery,     \* rounds of mqtt_config_task per status: 4
    HeartbeatTicks,  \* rounds of lora_config_task per heartbeat: 10
    MaxSamples,      \* readings a channel scan may take: 34
    Threshold,       \* the reading below which a channel is taken: 0x92
    Readings,        \* the RSSI readings the module may give
    LoraRequests,    \* the LoRa settings the app may ask for
    Lora0,           \* the LoRa settings an empty storage leaves: all zero
    FirstNvs,        \* the contents of the storage a behaviour may begin with
    LostLimit,       \* units of time without WiFi before BLE comes back: 60 s
    None,
    Inputs,          \* bound: how many inputs of each kind are fed in
    InputTotal,      \* bound: how many inputs altogether
    AirLen,          \* bound: frames under way to the mower
    MissCap          \* bound: heartbeats counted as missed

ASSUME QueueLenAssumption == QueueLen \in Nat \ {0}
ASSUME AckPollsAssumption == AckPolls \in Nat \ {0}
ASSUME StatusEveryAssumption == StatusEvery \in Nat \ {0}
ASSUME HeartbeatTicksAssumption == HeartbeatTicks \in Nat \ {0}
ASSUME MaxSamplesAssumption == MaxSamples \in Nat \ {0}
ASSUME ReadingsAssumption == Readings \subseteq Nat /\ Threshold \in Nat
ASSUME LostLimitAssumption == LostLimit \in Nat \ {0}
ASSUME BoundsAssumption ==
    /\ AirLen \in Nat /\ MissCap \in Nat /\ InputTotal \in Nat
    /\ Inputs \in [DOMAIN Inputs -> Nat] /\ IsFiniteSet(DOMAIN Inputs)

\* LoraConfig: 16 bits of address, 8 of channel.  LoraHcLc: the band to scan.
LoraConfigs == [addr : Nat, channel : Nat]
Bands == [hc : Nat, lc : Nat]

ASSUME LoraAssumption ==
    /\ Lora0 \in LoraConfigs
    /\ LoraRequests \subseteq [lora : LoraConfigs, band : Bands]

\* What the storage holds: settings are there or not, LoRa ones with a value.
Storages ==
    [wifi : BOOLEAN, mqtt : BOOLEAN,
     lora : LoraConfigs \cup {None}, band : Bands \cup {None}]

ASSUME NoneAssumption == None \notin {"ack", "nak", "report", "hall"}

ASSUME StoragesAssumption == FirstNvs \subseteq Storages /\ None \notin LoraConfigs \cup Bands

VARIABLES
    \* mqtt_config_task and ota_task
    mqttPc,         \* where mqtt_config_task is
    online,         \* connected to the broker
    inbox,          \* messages received by TCP, not yet read
    mqttRxBuffer,   \* the command stored by the callback
    mqttCmdQueue,   \* signals to dispatch it
    polls,          \* looks at loraAckResult left
    loraAckResult,  \* "pending" (0), "ok" (1) or "nak" (0x101)
    statusCounter, reported,   \* the heartbeat misses last published
    otaQueue, otaBusy,
    accepted, answered, credited, \* orders accepted, answered, with success
    \* lora_config_task
    loraPc, loraQueue, loraGlobalCfg, loraGlobalHcLc,
    scanning, scan, heartbeatCounter, mowerError,
    radio,          \* the channel the module is set to
    uart,           \* the first frame received and not read; a read drops the rest
    \* the mower
    toMower,        \* frames under way to it
    mowerUp, mowerChannel,
    given,          \* settings received, not yet applied
    lastRun, executed,  \* the last order carried out, and how many
    \* provisioning
    nvs, bleActive, configCommitted,
    blePc, asked,   \* the BLE callback, and the LoRa settings it was asked for
    mainPc,         \* the Arduino loop
    wifiPc, wifiState, link,
    lostFor,        \* age of wifiLostTime, or None when it is 0
    outage,         \* for how long there has been no link
    fed             \* inputs fed in, up to Inputs

mqttVars == <<mqttPc, online, inbox, mqttRxBuffer, mqttCmdQueue, polls,
              statusCounter, reported, accepted, answered, credited>>
otaVars == <<otaQueue, otaBusy>>
loraVars == <<loraPc, loraGlobalCfg, loraGlobalHcLc, scanning, scan,
              heartbeatCounter, mowerError, radio>>
mowerVars == <<mowerUp, mowerChannel, given, lastRun, executed>>
bleVars == <<bleActive, configCommitted, blePc, asked>>
linkVars == <<mainPc, wifiPc, wifiState, link, lostFor, outage>>
vars == <<mqttVars, loraAckResult, otaVars, loraVars, loraQueue, uart, toMower,
          mowerVars, nvs, bleVars, linkVars, fed>>

-----------------------------------------------------------------------------
(* Frames and queue entries *)

\* Entries of loraQueue; only an order carries a number, the model's name for it.
Order(n) == [id |-> "order", n |-> n]
Command(id) == [id |-> id, n |-> 0]
QueueEntries ==
    [id : {"order"}, n : Nat] \cup
    [id : {"hall_ack", "config", "gnss", "scan"}, n : {0}]

\* Frames to the mower: orders, polls, and its settings with the signal to apply them.
MowerFrames ==
    [id : {"order"}, n : Nat] \cup
    [id : {"poll", "hall_ack", "wifi", "mqtt", "apply"}, n : {0}] \cup
    [id : {"lora"}, n : Nat]

\* Frames from the mower.
Replies == {"ack", "nak", "report", "hall"}

\* loraSendPayload: a frame is heard on the mower's channel, or lost.
Transmit(f) ==
    \/ /\ radio = mowerChannel /\ Len(toMower) < AirLen
       /\ toMower' = Append(toMower, f)
    \/ UNCHANGED toMower

\* xQueueSend to loraQueue, of a task that waits a second for a place.
SendOrGiveUp(entry) ==
    IF Len(loraQueue) < QueueLen
    THEN loraQueue' = Append(loraQueue, entry)
    ELSE UNCHANGED loraQueue

\* The inputs of the environment are counted, so that a behaviour has few of them.
Feed(event) ==
    /\ event \in DOMAIN Inputs /\ fed[event] < Inputs[event]
    /\ SumFunction(fed) < InputTotal
    /\ fed' = [fed EXCEPT ![event] = @ + 1]

-----------------------------------------------------------------------------
\* channelScanStep's statics: scanDirection, scanCurrentChannel, the readings, the band.
Samples == [rssi : Nat, channel : Nat]
Scans == [dir : -1..1, cur : Nat, arr : Seq(Samples), hc : Nat, lc : Nat]
NoScan == [dir |-> -1, cur |-> 0, arr |-> <<>>, hc |-> 0, lc |-> 0]

Stored(record, default) == IF record = None THEN default ELSE record

\* The memory of a firmware that starts with the storage s (setup, and the start of
\* lora_config_task, which sets the module to the stored channel).
Booted(s) ==
    /\ mqttPc' = "boot" /\ online' = FALSE /\ inbox' = <<>>
    /\ mqttRxBuffer' = None /\ mqttCmdQueue' = 0 /\ polls' = 0
    /\ statusCounter' = 0 /\ loraAckResult' = "pending"
    /\ otaQueue' = FALSE /\ otaBusy' = FALSE
    /\ loraPc' = "receive" /\ loraQueue' = <<>>
    /\ loraGlobalCfg' = Stored(s.lora, Lora0)
    /\ loraGlobalHcLc' = Stored(s.band, [hc |-> 0, lc |-> 0])
    /\ scanning' = FALSE /\ scan' = NoScan
    /\ heartbeatCounter' = 0 /\ mowerError' = 0
    /\ radio' = Stored(s.lora, Lora0).channel /\ uart' = None
    /\ bleActive' = ~s.wifi /\ configCommitted' = FALSE /\ blePc' = "idle"
    /\ mainPc' = "watch"
    /\ wifiPc' = (IF s.wifi THEN "connecting" ELSE "monitor")
    /\ wifiState' = (IF s.wifi THEN "connecting" ELSE "init")
    /\ link' = FALSE /\ lostFor' = None

=============================================================================
