------------------------------- MODULE Charger -------------------------------
(***************************************************************************)
(* The charger firmware (firmware/charger/src): its tasks, put together.   *)
(*                                                                         *)
(*   broker -> mqtt_config_task -> loraQueue -> lora_config_task -> mower  *)
(*   app (BLE) -> dispatchSharedCommand -> storage, loraQueue              *)
(*   loop -> mower (settings), restart;  ota_task -> restart               *)
(*   lora_config_task -> loraAckResult, mowerError -> mqtt_config_task     *)
(***************************************************************************)
EXTENDS ChargerMqtt, ChargerLora, ChargerConfig

Init ==
    /\ mqttPc = "boot" /\ online = FALSE /\ inbox = <<>>
    /\ mqttRxBuffer = None /\ mqttCmdQueue = 0 /\ polls = 0
    /\ loraAckResult = "pending"
    /\ statusCounter = 0 /\ reported = 0
    /\ otaQueue = FALSE /\ otaBusy = FALSE
    /\ accepted = 0 /\ answered = 0 /\ credited = 0
    /\ loraPc = "receive" /\ loraQueue = <<>>
    /\ nvs \in FirstNvs
    /\ loraGlobalCfg = Stored(nvs.lora, Lora0)
    /\ loraGlobalHcLc = Stored(nvs.band, [hc |-> 0, lc |-> 0])
    /\ scanning = FALSE /\ scan = NoScan
    /\ heartbeatCounter = 0 /\ mowerError = 0
    /\ radio = loraGlobalCfg.channel /\ uart = None
    /\ toMower = <<>> /\ mowerUp = TRUE /\ mowerChannel = radio /\ given = None
    /\ lastRun = 0 /\ executed = 0
    /\ bleActive = ~nvs.wifi /\ configCommitted = FALSE
    /\ blePc = "idle" /\ asked = None
    /\ mainPc = "watch"
    /\ wifiPc = (IF nvs.wifi THEN "connecting" ELSE "monitor")
    /\ wifiState = (IF nvs.wifi THEN "connecting" ELSE "init")
    /\ link = FALSE /\ lostFor = None /\ outage = 0
    /\ fed = [event \in DOMAIN Inputs |-> 0]

Next ==
    \/ MqttNext \/ OtaNext \/ OtaRestarts \/ BrokerNext \/ PowerCut
    \/ LoraNext \/ MowerNext
    \/ BleNext \/ LoopNext \/ LinkNext

Spec == Init /\ [][Next]_vars

\* The scheduler runs every task that is ready, and time passes.  The BLE callback is
\* not among them: the loop may tear its stack down under it.  The mower, the broker,
\* the link and a download owe nothing.
FairSpec ==
    /\ Spec
    /\ WF_vars(MqttNext) /\ WF_vars(LoraNext) /\ WF_vars(LoopNext)
    /\ WF_vars(WifiTask) /\ WF_vars(Tick) /\ WF_vars(OtaTakes)

-----------------------------------------------------------------------------
(* Types *)

MqttTyped ==
    /\ mqttPc \in {"boot", "loop", "receive", "send", "wait", "ota", "status"}
    /\ online \in BOOLEAN /\ inbox \in Seq(Messages)
    /\ mqttRxBuffer \in Messages \cup {None}
    /\ mqttCmdQueue \in 0..5 /\ polls \in 0..AckPolls
    /\ loraAckResult \in {"pending", "ok", "nak"}
    /\ statusCounter \in 0..(StatusEvery - 1) /\ reported \in Nat
    /\ otaQueue \in BOOLEAN /\ otaBusy \in BOOLEAN
    /\ accepted \in Nat /\ answered \in Nat /\ credited \in Nat

LoraTyped ==
    /\ loraPc \in {"receive", "scan", "heartbeat", "reply", "inbound"}
    /\ loraGlobalCfg \in LoraConfigs /\ loraGlobalHcLc \in Bands
    /\ scanning \in BOOLEAN /\ scan \in Scans
    /\ heartbeatCounter \in 0..HeartbeatTicks /\ mowerError \in 0..MissCap
    /\ radio \in Nat

QueuesTyped ==
    /\ loraQueue \in Seq(QueueEntries) /\ toMower \in Seq(MowerFrames)
    /\ uart \in Replies \cup {None}

MowerTyped ==
    /\ mowerUp \in BOOLEAN /\ mowerChannel \in Nat /\ given \in Nat \cup {None}
    /\ lastRun \in Nat /\ executed \in Nat

ConfigTyped ==
    /\ bleActive \in BOOLEAN /\ configCommitted \in BOOLEAN
    /\ blePc \in {"idle", "scan", "band", "committed"} /\ asked \in LoraRequests \cup {None}
    /\ mainPc \in {"watch", "link", "send_wifi", "send_mqtt", "send_lora",
                   "send_apply", "restart"}
    /\ wifiPc \in {"connecting", "monitor"}
    /\ wifiState \in {"init", "connecting", "connected", "disconnected"}
    /\ link \in BOOLEAN
    /\ lostFor \in 0..LostLimit \cup {None} /\ outage \in 0..LostLimit

StoreTyped == nvs \in Storages /\ fed \in [DOMAIN Inputs -> Nat]

\* Every variable keeps its range.
TypeOK ==
    MqttTyped /\ LoraTyped /\ QueuesTyped /\ MowerTyped /\ ConfigTyped /\ StoreTyped

-----------------------------------------------------------------------------
(* The relay of orders *)

\* The tasks, their queue and the radio implement the promise of OrderRelay: whatever
\* is lost, late or cut off by a restart, an order is answered once and runs at most
\* once, and no more orders are answered with success than the mower carried out.
Relay == INSTANCE OrderRelay WITH
    accepted <- accepted, answered <- answered,
    credited <- credited, executed <- executed

RelayKeepsPromise == Relay!Spec

\* The mower carries orders out in the order the broker sent them, and never one
\* again: an order that was given up may run late, but not after a later one.
OrdersRunInSequence == [][executed' # executed => lastRun' > lastRun]_vars

\* A command is not overwritten in mqttRxBuffer before it was dispatched.
CommandIsNotOverwritten ==
    [][mqttRxBuffer' # mqttRxBuffer => mqttCmdQueue = 0 \/ mqttPc' = "boot"]_vars

\* A mower that falls silent for good is reported to the broker, and stays reported.
SilenceIsReported == <>[](~mowerUp /\ online) => <>[](reported >= 2)

-----------------------------------------------------------------------------
(* Scan and provisioning *)

\* A scan begun inside the band measures channels of the band only.
ScanStaysInBand ==
    scanning /\ loraGlobalCfg.channel \in scan.lc..scan.hc => scan.cur \in scan.lc..scan.hc

\* Outside a scan the module listens on the channel the task believes in.
RadioFollowsConfig == ~scanning => radio = loraGlobalCfg.channel

\* A scan comes to an end, from any channel and with any readings, so that heartbeat
\* and acknowledgements are heard again.
ScanEnds == scanning ~> ~scanning

\* A link that is lost for good brings BLE provisioning back.
BleReturns == <>[](~link) => <>[]bleActive

\* A committed configuration is taken up by the loop, unless WiFi comes up and stops
\* BLE first.
CommitIsTakenUp == configCommitted ~> ~configCommitted \/ link

=============================================================================
