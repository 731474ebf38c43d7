------------------------- MODULE ChargerTypes_proofs -------------------------
(***************************************************************************)
(* Type correctness of the charger, for any queue and scan lengths, any    *)
(* storage to begin with, any readings, requests and inputs.               *)
(***************************************************************************)
EXTENDS Charger, TLAPS, WellFoundedInduction

-----------------------------------------------------------------------------
(* The channel scan *)

\* A set of natural numbers that is not empty has a least one.
LEMMA NatLeast ==
    ASSUME NEW T \in SUBSET Nat, T # {}
    PROVE  \E m \in T : \A n \in T : m <= n
<1> DEFINE R == OpToRel(<, Nat)
<1>1. IsWellFoundedOn(R, Nat)
  BY NatLessThanWellFounded
<1>2. PICK m \in T : \A n \in T : <<n, m>> \notin R
  <2> HIDE DEF R
  <2>1. QED  BY <1>1, WFMin
<1>3. \A n \in T : n < m => <<n, m>> \in R
  BY DEF OpToRel
<1>4. QED
  <2> HIDE DEF R
  <2>1. \A n \in T : ~ (n < m)
    BY <1>2, <1>3
  <2>2. QED  BY <2>1

\* The k-th measurement has the lowest reading, and is the first that has.
IsQuietest(arr, k) ==
    /\ k \in DOMAIN arr
    /\ \A j \in DOMAIN arr : \/ arr[k].rssi < arr[j].rssi
                             \/ arr[k].rssi = arr[j].rssi /\ k <= j

\* A scan that measured something has a quietest channel.
LEMMA QuietestExists ==
    ASSUME NEW arr \in Seq(Samples), arr # <<>>
    PROVE  \E k : IsQuietest(arr, k)
<1>1. /\ DOMAIN arr = 1..Len(arr) /\ Len(arr) \in Nat /\ Len(arr) > 0
      /\ \A i \in DOMAIN arr : arr[i] \in Samples
  OBVIOUS
<1>2. PICK m \in {arr[i].rssi : i \in DOMAIN arr} :
           \A n \in {arr[i].rssi : i \in DOMAIN arr} : m <= n
  <2>1. {arr[i].rssi : i \in DOMAIN arr} \in SUBSET Nat
    BY <1>1 DEF Samples
  <2>2. {arr[i].rssi : i \in DOMAIN arr} # {}
    <3>1. 1 \in DOMAIN arr
      BY <1>1
    <3>2. QED  BY <3>1
  <2>3. QED  BY <2>1, <2>2, NatLeast
<1>3. PICK k \in {i \in DOMAIN arr : arr[i].rssi = m} :
           \A n \in {i \in DOMAIN arr : arr[i].rssi = m} : k <= n
  <2>1. {i \in DOMAIN arr : arr[i].rssi = m} \in SUBSET Nat
    BY <1>1
  <2>2. {i \in DOMAIN arr : arr[i].rssi = m} # {}
    BY <1>2
  <2>3. QED  BY <2>1, <2>2, NatLeast
<1>4. IsQuietest(arr, k)
  <2>1. k \in DOMAIN arr /\ arr[k].rssi = m
    BY <1>3
  <2>2. ASSUME NEW j \in DOMAIN arr
        PROVE  \/ arr[k].rssi < arr[j].rssi
               \/ arr[k].rssi = arr[j].rssi /\ k <= j
    <3>1. m <= arr[j].rssi /\ m \in Nat /\ arr[j].rssi \in Nat
      BY <1>1, <1>2 DEF Samples
    <3>2. CASE m = arr[j].rssi
      BY <3>2, <2>1, <1>3
    <3>3. CASE m # arr[j].rssi
      <4>1. m < arr[j].rssi
        BY <3>1, <3>3
      <4>2. arr[k].rssi < arr[j].rssi
        BY <4>1, <2>1, Zenon
      <4>3. QED  BY <4>2, Zenon
    <3>4. QED  BY <3>2, <3>3
  <2>3. QED  BY <2>1, <2>2 DEF IsQuietest
<1>5. QED  BY <1>4

\* So a scan installs a channel.
LEMMA QuietestTyped ==
    ASSUME NEW arr \in Seq(Samples), arr # <<>>
    PROVE  Quietest(arr) \in Nat
<1> DEFINE Best(i) == \A j \in DOMAIN arr : \/ arr[i].rssi < arr[j].rssi
                                            \/ arr[i].rssi = arr[j].rssi /\ i <= j
<1>1. (CHOOSE i \in DOMAIN arr : Best(i)) \in DOMAIN arr
  BY QuietestExists DEF IsQuietest
<1>2. \A i \in DOMAIN arr : arr[i] \in Samples
  OBVIOUS
<1>3. QED  BY <1>1, <1>2 DEF Quietest, Samples

\* Up and down, a scan stays on channels.
LEMMA SweepTyped ==
    ASSUME TypeOK, NEW s \in Scans
    PROVE  Upwards(s) \in Scans /\ Downwards(Upwards(s)) \in Scans
<1>1. loraGlobalCfg.channel \in Nat
  BY DEF TypeOK, LoraTyped, LoraConfigs
<1>2. Upwards(s) \in Scans
  <2>1. [s EXCEPT !.cur = @ + 1] \in Scans
    BY DEF Scans
  <2>2. [s EXCEPT !.dir = 0, !.cur = loraGlobalCfg.channel] \in Scans
    <3>1. [s EXCEPT !.dir = 0] \in Scans
      BY DEF Scans
    <3>2. \A t \in Scans, c \in Nat : [t EXCEPT !.cur = c] \in Scans
      BY DEF Scans
    <3>3. [s EXCEPT !.dir = 0, !.cur = loraGlobalCfg.channel]
            = [[s EXCEPT !.dir = 0] EXCEPT !.cur = loraGlobalCfg.channel]
      OBVIOUS
    <3>4. QED  BY <1>1, <3>1, <3>2, <3>3
  <2>3. QED  BY <2>1, <2>2 DEF Upwards
<1>3. ASSUME NEW t \in Scans PROVE Downwards(t) \in Scans
  <2>1. t.lc < t.cur => [t EXCEPT !.cur = @ - 1] \in Scans
    BY DEF Scans
  <2>2. [t EXCEPT !.dir = -1] \in Scans
    BY DEF Scans
  <2>3. QED  BY <2>1, <2>2 DEF Downwards
<1>4. QED  BY <1>2, <1>3

\* A measurement keeps the scan, the settings and the storage typed.
LEMMA MeasureTyped ==
    ASSUME TypeOK, NEW r \in Readings, Measure(r)
    PROVE  /\ loraGlobalCfg' \in LoraConfigs /\ nvs' \in Storages
           /\ scanning' \in BOOLEAN /\ scan' \in Scans /\ radio' \in Nat
<1> DEFINE arr == WithReading(r)
           next == Downwards(Upwards(scan))
<1>1. /\ loraGlobalCfg \in LoraConfigs /\ nvs \in Storages /\ scanning \in BOOLEAN
      /\ scan \in Scans /\ scan.cur \in Nat /\ scan.arr \in Seq(Samples)
  BY DEF TypeOK, LoraTyped, StoreTyped, Scans
<1>2. [rssi |-> r, channel |-> scan.cur] \in Samples
  BY <1>1, ReadingsAssumption DEF Samples
<1>3. arr \in Seq(Samples) /\ arr # <<>>
  BY <1>1, <1>2, MaxSamplesAssumption DEF WithReading
<1>4. next \in Scans
  BY <1>1, SweepTyped
<1>5. Quietest(arr) \in Nat
  BY <1>3, QuietestTyped
<1>6. ASSUME NEW c \in Nat, Install(c)
      PROVE  /\ loraGlobalCfg' \in LoraConfigs /\ nvs' \in Storages
             /\ scanning' \in BOOLEAN /\ scan' \in Scans /\ radio' \in Nat
  <2>1. loraGlobalCfg' \in LoraConfigs
    BY <1>1, <1>6 DEF Install, LoraConfigs
  <2>2. nvs' \in Storages
    BY <1>1, <1>6, <2>1 DEF Install, Storages
  <2>3. scan' \in Scans
    BY <1>1, <1>6 DEF Install, Scans
  <2>4. QED  BY <1>6, <2>1, <2>2, <2>3 DEF Install
<1>7. CASE Install(scan.cur)
  BY <1>1, <1>6, <1>7
<1>8. CASE Install(Quietest(arr))
  BY <1>5, <1>6, <1>8
<1>9. CASE /\ scan' = [next EXCEPT !.arr = arr] /\ radio' = scan.cur
           /\ UNCHANGED <<loraGlobalCfg, nvs, scanning>>
  <2>1. [next EXCEPT !.arr = arr] \in Scans
    BY <1>3, <1>4 DEF Scans
  <2>2. QED  BY <1>1, <1>9, <2>1
<1>10. Install(scan.cur) \/ Install(Quietest(arr)) \/
       (/\ scan' = [next EXCEPT !.arr = arr] /\ radio' = scan.cur
        /\ UNCHANGED <<loraGlobalCfg, nvs, scanning>>)
  BY DEF Measure
<1>11. QED  BY <1>7, <1>8, <1>9, <1>10

-----------------------------------------------------------------------------
(* What the steps share *)

\* What is not assigned keeps its type.
LEMMA FrameTyped ==
    ASSUME TypeOK
    PROVE  /\ UNCHANGED <<mqttVars, loraAckResult, otaVars>> => MqttTyped'
           /\ UNCHANGED loraVars => LoraTyped'
           /\ UNCHANGED <<loraQueue, uart, toMower>> => QueuesTyped'
           /\ UNCHANGED mowerVars => MowerTyped'
           /\ UNCHANGED <<bleVars, linkVars>> => ConfigTyped'
           /\ UNCHANGED <<nvs, fed>> => StoreTyped'
<1>1. UNCHANGED <<mqttVars, loraAckResult, otaVars>> => MqttTyped'
  BY DEF TypeOK, MqttTyped, mqttVars, otaVars
<1>2. UNCHANGED loraVars => LoraTyped'
  BY DEF TypeOK, LoraTyped, loraVars
<1>3. UNCHANGED <<loraQueue, uart, toMower>> => QueuesTyped'
  BY DEF TypeOK, QueuesTyped
<1>4. UNCHANGED mowerVars => MowerTyped'
  BY DEF TypeOK, MowerTyped, mowerVars
<1>5. UNCHANGED <<bleVars, linkVars>> => ConfigTyped'
  BY DEF TypeOK, ConfigTyped, bleVars, linkVars
<1>6. UNCHANGED <<nvs, fed>> => StoreTyped'
  BY DEF TypeOK, StoreTyped
<1>7. QED  BY <1>1, <1>2, <1>3, <1>4, <1>5, <1>6

\* An entry is queued or given up.
LEMMA SendTyped ==
    ASSUME TypeOK, NEW entry \in QueueEntries, SendOrGiveUp(entry)
    PROVE  loraQueue' \in Seq(QueueEntries)
BY DEF TypeOK, QueuesTyped, SendOrGiveUp

\* A frame is heard or lost.
LEMMA TransmitTyped ==
    ASSUME TypeOK, NEW f \in MowerFrames, Transmit(f)
    PROVE  toMower' \in Seq(MowerFrames)
BY DEF TypeOK, QueuesTyped, Transmit

\* The names of entries and frames.
LEMMA EntriesTyped ==
    /\ \A n \in Nat : Order(n) \in QueueEntries
    /\ \A id \in {"hall_ack", "config", "gnss", "scan"} : Command(id) \in QueueEntries
    /\ \A id \in {"poll", "hall_ack", "wifi", "mqtt", "apply"} : Command(id) \in MowerFrames
    /\ \A c \in Nat : [id |-> "lora", n |-> c] \in MowerFrames
BY DEF Order, Command, QueueEntries, MowerFrames

\* An input is counted.
LEMMA FeedTyped ==
    ASSUME TypeOK, NEW e, Feed(e)
    PROVE  fed' \in [DOMAIN Inputs -> Nat]
BY DEF TypeOK, StoreTyped, Feed

\* A firmware that starts has every variable of its memory typed.
LEMMA RestartTyped ==
    ASSUME TypeOK, Restart
    PROVE  MqttTyped' /\ LoraTyped' /\ QueuesTyped' /\ MowerTyped' /\ ConfigTyped'
           /\ nvs' \in Storages
<1>1. /\ Stored(nvs.lora, Lora0) \in LoraConfigs /\ Stored(nvs.lora, Lora0).channel \in Nat
      /\ Stored(nvs.band, [hc |-> 0, lc |-> 0]) \in Bands /\ nvs.wifi \in BOOLEAN
  BY LoraAssumption DEF TypeOK, StoreTyped, Storages, Stored, LoraConfigs, Bands
<1>2. MqttTyped'
  <2>1. <<>> \in Seq(Messages) /\ 0 \in 0..AckPolls /\ 0 \in 0..(StatusEvery - 1)
    BY AckPollsAssumption, StatusEveryAssumption
  <2>2. /\ mqttPc' = "boot" /\ online' = FALSE /\ inbox' = <<>> /\ mqttRxBuffer' = None
        /\ mqttCmdQueue' = 0 /\ polls' = 0 /\ statusCounter' = 0
        /\ loraAckResult' = "pending" /\ otaQueue' = FALSE /\ otaBusy' = FALSE
        /\ answered' = accepted /\ UNCHANGED <<accepted, credited, reported>>
    BY DEF Restart, Booted
  <2>3. /\ accepted \in Nat /\ credited \in Nat /\ reported \in Nat
    BY DEF TypeOK, MqttTyped
  <2>4. /\ mqttPc' \in {"boot", "loop", "receive", "send", "wait", "ota", "status"}
        /\ mqttRxBuffer' \in Messages \cup {None} /\ mqttCmdQueue' \in 0..5
        /\ loraAckResult' \in {"pending", "ok", "nak"}
    BY <2>2
  <2>5. online' \in BOOLEAN /\ otaQueue' \in BOOLEAN /\ otaBusy' \in BOOLEAN
    BY <2>2, Zenon
  <2>6. /\ inbox' \in Seq(Messages) /\ polls' \in 0..AckPolls
        /\ statusCounter' \in 0..(StatusEvery - 1)
    BY <2>1, <2>2
  <2>7. /\ accepted' \in Nat /\ answered' \in Nat /\ credited' \in Nat /\ reported' \in Nat
    BY <2>2, <2>3
  <2>8. QED  BY <2>4, <2>5, <2>6, <2>7 DEF MqttTyped
<1>3. LoraTyped'
  <2>1. NoScan \in Scans
    BY DEF NoScan, Scans
  <2>2. 0 \in 0..HeartbeatTicks /\ 0 \in 0..MissCap
    BY HeartbeatTicksAssumption, BoundsAssumption
  <2>3. QED  BY <1>1, <2>1, <2>2 DEF Restart, Booted, LoraTyped
<1>4. QueuesTyped'
  BY DEF TypeOK, QueuesTyped, Restart, Booted
<1>5. MowerTyped'
  BY FrameTyped DEF Restart
<1>6. ConfigTyped'
  <2>1. /\ bleActive' = ~nvs.wifi /\ configCommitted' = FALSE /\ blePc' = "idle"
        /\ mainPc' = "watch" /\ link' = FALSE /\ lostFor' = None /\ outage' = 0
        /\ wifiPc' = (IF nvs.wifi THEN "connecting" ELSE "monitor")
        /\ wifiState' = (IF nvs.wifi THEN "connecting" ELSE "init") /\ UNCHANGED asked
    BY DEF Restart, Booted
  <2>2. 0 \in 0..LostLimit
    BY LostLimitAssumption
  <2>3. QED  BY <1>1, <2>1, <2>2 DEF TypeOK, ConfigTyped
<1>7. nvs' \in Storages
  BY DEF TypeOK, StoreTyped, Restart
<1>8. QED  BY <1>2, <1>3, <1>4, <1>5, <1>6, <1>7

-----------------------------------------------------------------------------
(* One lemma per task *)

\* mqtt_config_task assigns its own variables, and queues orders.
LEMMA MqttNextTyped ==
    ASSUME TypeOK, MqttNext
    PROVE  TypeOK'
<1>1. LoraTyped' /\ MowerTyped' /\ ConfigTyped' /\ StoreTyped'
  BY FrameTyped DEF MqttNext, MqttBoots, MqttReconnect, MqttLoop, MqttReceive, RelayOrder,
                    RelayPoll, AcceptUpdate, MqttStatus
<1>2. QueuesTyped'
  <2>1. CASE RelayOrder
    <3>1. Order(accepted) \in QueueEntries
      BY EntriesTyped DEF TypeOK, MqttTyped
    <3>2. loraQueue' \in Seq(QueueEntries)
      BY <2>1, <3>1, SendTyped DEF RelayOrder
    <3>3. QED  BY <2>1, <3>2 DEF RelayOrder, TypeOK, QueuesTyped
  <2>2. CASE ~RelayOrder
    BY <2>2, FrameTyped DEF MqttNext, MqttBoots, MqttReconnect, MqttLoop, MqttReceive,
                            RelayPoll, AcceptUpdate, MqttStatus
  <2>3. QED  BY <2>1, <2>2
<1>3. MqttTyped'
  <2>1. CASE MqttBoots
    BY <2>1 DEF MqttBoots, TypeOK, MqttTyped, otaVars
  <2>2. CASE MqttReconnect
    BY <2>2 DEF MqttReconnect, TypeOK, MqttTyped, otaVars
  <2>3. CASE MqttLoop
    BY <2>3 DEF MqttLoop, TypeOK, MqttTyped, otaVars
  <2>4. CASE MqttReceive
    BY <2>4 DEF MqttReceive, BeginRelay, TypeOK, MqttTyped, otaVars
  <2>5. CASE RelayOrder
    BY <2>5, AckPollsAssumption DEF RelayOrder, TypeOK, MqttTyped, otaVars
  <2>6. CASE RelayPoll
    BY <2>6, AckPollsAssumption DEF RelayPoll, TypeOK, MqttTyped, otaVars
  <2>7. CASE AcceptUpdate
    BY <2>7 DEF AcceptUpdate, TypeOK, MqttTyped
  <2>8. CASE MqttStatus
    <3>1. statusCounter' \in 0..(StatusEvery - 1)
      BY <2>8, StatusEveryAssumption DEF MqttStatus, NextCount, TypeOK, MqttTyped
    <3>2. reported' \in Nat
      BY <2>8, BoundsAssumption DEF MqttStatus, Shown, TypeOK, MqttTyped, LoraTyped
    <3>3. QED  BY <2>8, <3>1, <3>2 DEF MqttStatus, TypeOK, MqttTyped, otaVars
  <2>9. QED
    BY <2>1, <2>2, <2>3, <2>4, <2>5, <2>6, <2>7, <2>8 DEF MqttNext
<1>4. QED  BY <1>1, <1>2, <1>3 DEF TypeOK

\* ota_task, and the broker's side of the connection.
LEMMA OtaBrokerTyped ==
    ASSUME TypeOK, OtaNext \/ BrokerNext
    PROVE  TypeOK'
<1>1. LoraTyped' /\ QueuesTyped' /\ MowerTyped' /\ ConfigTyped'
  BY FrameTyped DEF OtaNext, OtaTakes, OtaFails, BrokerNext, BrokerSends, BrokerDrops
<1>2. StoreTyped'
  BY FrameTyped, FeedTyped
     DEF OtaNext, OtaTakes, OtaFails, BrokerNext, BrokerSends, BrokerDrops,
         TypeOK, StoreTyped
<1>3. MqttTyped'
  <2>1. CASE OtaNext
    BY <2>1 DEF OtaNext, OtaTakes, OtaFails, TypeOK, MqttTyped, mqttVars
  <2>2. CASE BrokerSends
    BY <2>2 DEF BrokerSends, TypeOK, MqttTyped, otaVars
  <2>3. CASE BrokerDrops
    <3>1. inbox' \in Seq(Messages)
      BY <2>3 DEF BrokerDrops
    <3>2. QED  BY <2>3, <3>1 DEF BrokerDrops, TypeOK, MqttTyped, otaVars
  <2>4. QED  BY <2>1, <2>2, <2>3 DEF BrokerNext
<1>4. QED  BY <1>1, <1>2, <1>3 DEF TypeOK

\* lora_config_task owns the scan, and takes and sends what the queue holds.
LEMMA LoraNextTyped ==
    ASSUME TypeOK, LoraNext
    PROVE  TypeOK'
<1>1. MowerTyped' /\ ConfigTyped'
  BY FrameTyped DEF LoraNext, LoraReceive, LoraScan, LoraHeartbeat, LoraReply,
                    LoraInbound, elsewhere
<1>2. StoreTyped'
  <2>1. CASE LoraScan
    <3>1. nvs' \in Storages
      BY <2>1, MeasureTyped DEF LoraScan
    <3>2. QED  BY <2>1, <3>1 DEF LoraScan, TypeOK, StoreTyped
  <2>2. CASE ~LoraScan
    BY <2>2, FrameTyped DEF LoraNext, LoraReceive, LoraHeartbeat, LoraReply, LoraInbound
  <2>3. QED  BY <2>1, <2>2
<1>3. MqttTyped'
  BY DEF LoraNext, LoraReceive, LoraScan, LoraHeartbeat, LoraReply, LoraInbound,
         elsewhere, mqttVars, otaVars, TypeOK, MqttTyped
<1>4. LoraTyped'
  <2>1. CASE LoraReceive
    <3>1. scanning' \in BOOLEAN /\ scan' \in Scans
      <4>1. scanning \in BOOLEAN /\ scan \in Scans
        BY DEF TypeOK, LoraTyped
      <4>2. CASE UNCHANGED <<scanning, scan>>
        BY <4>1, <4>2
      <4>3. CASE StartScan
        <5>1. /\ loraGlobalCfg.channel \in Nat
              /\ loraGlobalHcLc.hc \in Nat /\ loraGlobalHcLc.lc \in Nat
          BY DEF TypeOK, LoraTyped, LoraConfigs, Bands
        <5>2. QED  BY <4>3, <5>1 DEF StartScan, Scans
      <4>4. UNCHANGED <<scanning, scan>> \/ StartScan
        <5>1. CASE loraQueue = <<>>
          BY <2>1, <5>1 DEF LoraReceive
        <5>2. CASE loraQueue # <<>>
          <6>1. Head(loraQueue) \in QueueEntries
            BY <5>2 DEF TypeOK, QueuesTyped
          <6>2. Head(loraQueue).id \in {"order", "hall_ack", "config", "scan", "gnss"}
            BY <6>1 DEF QueueEntries
          <6>3. HandleCommand(Head(loraQueue))
            BY <2>1, <5>2 DEF LoraReceive
          <6>4. QED  BY <6>2, <6>3 DEF HandleCommand
        <5>3. QED  BY <5>1, <5>2
      <4>5. QED  BY <4>2, <4>3, <4>4
    <3>2. QED  BY <2>1, <3>1 DEF LoraReceive, TypeOK, LoraTyped
  <2>2. CASE LoraScan
    <3>1. /\ loraGlobalCfg' \in LoraConfigs /\ scanning' \in BOOLEAN
          /\ scan' \in Scans /\ radio' \in Nat
      BY <2>2, MeasureTyped DEF LoraScan
    <3>2. QED  BY <2>2, <3>1 DEF LoraScan, TypeOK, LoraTyped
  <2>3. CASE LoraHeartbeat
    <3>1. heartbeatCounter' \in 0..HeartbeatTicks
      BY <2>3, HeartbeatTicksAssumption DEF LoraHeartbeat, TypeOK, LoraTyped
    <3>2. loraPc' \in {"reply", "inbound"}
      BY <2>3 DEF LoraHeartbeat
    <3>3. QED  BY <2>3, <3>1, <3>2 DEF LoraHeartbeat, TypeOK, LoraTyped
  <2>4. CASE LoraReply
    <3>1. mowerError' \in 0..MissCap
      BY <2>4, BoundsAssumption DEF LoraReply, TypeOK, LoraTyped
    <3>2. QED  BY <2>4, <3>1 DEF LoraReply, TypeOK, LoraTyped
  <2>5. CASE LoraInbound
    <3>1. mowerError' \in 0..MissCap
      BY <2>5, BoundsAssumption DEF LoraInbound, TypeOK, LoraTyped
    <3>2. QED  BY <2>5, <3>1 DEF LoraInbound, TypeOK, LoraTyped
  <2>6. QED  BY <2>1, <2>2, <2>3, <2>4, <2>5 DEF LoraNext
<1>5. QueuesTyped'
  <2>1. CASE LoraReceive
    <3>1. CASE loraQueue = <<>>
      BY <2>1, <3>1 DEF LoraReceive, TypeOK, QueuesTyped
    <3>2. CASE loraQueue # <<>>
      <4>1. Head(loraQueue) \in QueueEntries /\ loraQueue' \in Seq(QueueEntries)
        BY <2>1, <3>2 DEF LoraReceive, TakeHead, TypeOK, QueuesTyped
      <4>2. HandleCommand(Head(loraQueue))
        BY <2>1, <3>2 DEF LoraReceive
      <4>3. uart' \in Replies \cup {None} /\ toMower' \in Seq(MowerFrames)
        <5>1. uart \in Replies \cup {None} /\ toMower \in Seq(MowerFrames)
          BY DEF TypeOK, QueuesTyped
        <5>2. CASE Head(loraQueue).id = "order"
          <6>1. Head(loraQueue) \in MowerFrames
            BY <4>1, <5>2 DEF QueueEntries, MowerFrames
          <6>2. Transmit(Head(loraQueue)) /\ uart' = None
            BY <4>2, <5>2 DEF HandleCommand
          <6>3. QED  BY <6>1, <6>2, TransmitTyped
        <5>3. CASE Head(loraQueue).id = "hall_ack"
          BY <4>2, <5>1, <5>3, TransmitTyped, EntriesTyped DEF HandleCommand
        <5>4. CASE Head(loraQueue).id = "config"
          BY <4>2, <5>1, <5>4, TransmitTyped, EntriesTyped DEF HandleCommand
        <5>5. CASE Head(loraQueue).id \in {"scan", "gnss"}
          BY <4>2, <5>1, <5>5 DEF HandleCommand
        <5>6. Head(loraQueue).id \in {"order", "hall_ack", "config", "scan", "gnss"}
          BY <4>1 DEF QueueEntries
        <5>7. QED  BY <5>2, <5>3, <5>4, <5>5, <5>6
      <4>4. QED  BY <4>1, <4>3 DEF QueuesTyped
    <3>3. QED  BY <3>1, <3>2
  <2>2. CASE LoraScan
    BY <2>2 DEF LoraScan, TypeOK, QueuesTyped
  <2>3. CASE LoraHeartbeat
    <3>1. toMower' \in Seq(MowerFrames)
      BY <2>3, TransmitTyped, EntriesTyped DEF LoraHeartbeat, TypeOK, QueuesTyped
    <3>2. QED  BY <2>3, <3>1 DEF LoraHeartbeat, TypeOK, QueuesTyped
  <2>4. CASE LoraReply
    BY <2>4 DEF LoraReply, TypeOK, QueuesTyped
  <2>5. CASE LoraInbound
    <3>1. loraQueue' \in Seq(QueueEntries)
      BY <2>5, SendTyped, EntriesTyped DEF LoraInbound, TypeOK, QueuesTyped
    <3>2. uart' \in Replies \cup {None} /\ toMower' = toMower
      BY <2>5 DEF LoraInbound, TypeOK, QueuesTyped
    <3>3. QED  BY <3>1, <3>2 DEF TypeOK, QueuesTyped
  <2>6. QED  BY <2>1, <2>2, <2>3, <2>4, <2>5 DEF LoraNext
<1>6. QED  BY <1>1, <1>2, <1>3, <1>4, <1>5 DEF TypeOK

\* The mower answers, and takes what it is sent.
LEMMA MowerNextTyped ==
    ASSUME TypeOK, MowerNext
    PROVE  TypeOK'
<1>1. LoraTyped' /\ ConfigTyped'
  BY FrameTyped DEF MowerNext, GpsNotifies, MowerTakes, MowerHall, MowerSwitched, elsewhere
<1>2. MqttTyped'
  BY DEF MowerNext, GpsNotifies, MowerTakes, MowerHall, MowerSwitched, elsewhere,
         mqttVars, otaVars, TypeOK, MqttTyped
<1>3. StoreTyped'
  BY FrameTyped, FeedTyped
     DEF MowerNext, GpsNotifies, MowerTakes, MowerHall, MowerSwitched, TypeOK, StoreTyped
<1>4. ASSUME NEW f \in Replies, Reply(f)
      PROVE  uart' \in Replies \cup {None}
  BY <1>4 DEF Reply, TypeOK, QueuesTyped
<1>5. QueuesTyped'
  <2>1. CASE GpsNotifies
    <3>1. loraQueue' \in Seq(QueueEntries)
      BY <2>1, SendTyped, EntriesTyped DEF GpsNotifies
    <3>2. QED  BY <2>1, <3>1 DEF GpsNotifies, TypeOK, QueuesTyped
  <2>2. CASE MowerTakes
    <3>1. toMower' \in Seq(MowerFrames) /\ loraQueue' = loraQueue
      BY <2>2 DEF MowerTakes, TypeOK, QueuesTyped
    <3>2. Reply("ack") \/ Reply("nak") \/ Reply("report") \/ UNCHANGED uart
      BY <2>2 DEF MowerTakes
    <3>3. uart' \in Replies \cup {None}
      BY <3>2, <1>4 DEF Replies, TypeOK, QueuesTyped
    <3>4. QED  BY <3>1, <3>3 DEF TypeOK, QueuesTyped
  <2>3. CASE MowerHall
    <3>1. uart' \in Replies \cup {None}
      BY <2>3, <1>4 DEF MowerHall, Replies
    <3>2. QED  BY <2>3, <3>1 DEF MowerHall, TypeOK, QueuesTyped
  <2>4. CASE MowerSwitched
    BY <2>4 DEF MowerSwitched, TypeOK, QueuesTyped
  <2>5. QED  BY <2>1, <2>2, <2>3, <2>4 DEF MowerNext
<1>6. MowerTyped'
  <2>1. CASE GpsNotifies \/ MowerHall
    BY <2>1 DEF GpsNotifies, MowerHall, mowerVars, TypeOK, MowerTyped
  <2>2. CASE MowerTakes
    <3>1. Head(toMower) \in MowerFrames
      BY <2>2 DEF MowerTakes, TypeOK, QueuesTyped
    <3>2. Head(toMower).n \in Nat
      BY <3>1 DEF MowerFrames
    <3>3. QED
      BY <2>2, <3>2 DEF MowerTakes, ApplyGiven, TypeOK, MowerTyped
  <2>3. CASE MowerSwitched
    BY <2>3 DEF MowerSwitched, TypeOK, MowerTyped
  <2>4. QED  BY <2>1, <2>2, <2>3 DEF MowerNext
<1>7. QED  BY <1>1, <1>2, <1>3, <1>5, <1>6 DEF TypeOK

\* One record of the storage is written.
LEMMA WriteTyped ==
    ASSUME NEW s \in Storages
    PROVE  /\ [s EXCEPT !.wifi = TRUE] \in Storages
           /\ [s EXCEPT !.mqtt = TRUE] \in Storages
           /\ \A c \in LoraConfigs : [s EXCEPT !.lora = c] \in Storages
           /\ \A b \in Bands : [s EXCEPT !.band = b] \in Storages
<1>1. [s EXCEPT !.wifi = TRUE] \in Storages
  BY DEF Storages
<1>2. [s EXCEPT !.mqtt = TRUE] \in Storages
  BY DEF Storages
<1>3. \A c \in LoraConfigs : [s EXCEPT !.lora = c] \in Storages
  BY DEF Storages
<1>4. \A b \in Bands : [s EXCEPT !.band = b] \in Storages
  BY DEF Storages
<1>5. QED  BY <1>1, <1>2, <1>3, <1>4

\* While the BLE callback waits to store LoRa settings it holds those it was asked for.
Held == blePc \in {"scan", "band"} => asked \in LoraRequests

\* The BLE callback writes the storage, queues a configuration or a scan, and restarts.
LEMMA BleNextTyped ==
    ASSUME TypeOK, Held, BleNext
    PROVE  TypeOK'
<1>1. CASE BleRestarts
  BY <1>1, RestartTyped DEF BleRestarts, TypeOK, StoreTyped
<1>2. CASE ~BleRestarts
  <2>1. MqttTyped' /\ LoraTyped' /\ MowerTyped'
    BY <1>2, FrameTyped DEF BleNext, StoreInfo, SetRtkInfo, SetLoraInfo, StoreLoraInfo,
                            ClearConfig, CommitConfig, noBle
  <2>2. QueuesTyped'
    <3>1. loraQueue' \in Seq(QueueEntries)
      <4>1. loraQueue \in Seq(QueueEntries)
        BY DEF TypeOK, QueuesTyped
      <4>2. CASE SendOrGiveUp(Command("config")) \/ SendOrGiveUp(Command("scan"))
        BY <4>2, SendTyped, EntriesTyped
      <4>3. CASE UNCHANGED loraQueue
        BY <4>1, <4>3
      <4>4. QED
        BY <1>2, <4>2, <4>3 DEF BleNext, StoreInfo, SetRtkInfo, SetLoraInfo, StoreLoraInfo,
                                ClearConfig, CommitConfig
    <3>2. UNCHANGED <<uart, toMower>>
      BY <1>2 DEF BleNext, StoreInfo, SetRtkInfo, SetLoraInfo, StoreLoraInfo,
                  ClearConfig, CommitConfig, noBle
    <3>3. QED  BY <3>1, <3>2 DEF TypeOK, QueuesTyped
  <2>3. ConfigTyped'
    <3>1. UNCHANGED linkVars
      BY <1>2 DEF BleNext, StoreInfo, SetRtkInfo, SetLoraInfo, StoreLoraInfo,
                  ClearConfig, CommitConfig, noBle
    <3>2. /\ bleActive' \in BOOLEAN /\ configCommitted' \in BOOLEAN
          /\ blePc' \in {"idle", "scan", "band", "committed"}
          /\ asked' \in LoraRequests \cup {None}
      BY <1>2 DEF BleNext, StoreInfo, SetRtkInfo, SetLoraInfo, StoreLoraInfo,
                  ClearConfig, CommitConfig, bleVars, TypeOK, ConfigTyped
    <3>3. QED  BY <3>1, <3>2 DEF linkVars, TypeOK, ConfigTyped
  <2>4. nvs' \in Storages
    <3>1. nvs \in Storages
      BY DEF TypeOK, StoreTyped
    <3>2. CASE StoreInfo
      BY <3>1, <3>2, WriteTyped DEF StoreInfo
    <3>3. CASE StoreLoraInfo
      <4>1. asked \in LoraRequests
        BY <3>3 DEF StoreLoraInfo, Held
      <4>2. asked.lora \in LoraConfigs /\ asked.band \in Bands
        BY <4>1, LoraAssumption
      <4>3. QED  BY <3>1, <3>3, <4>2, WriteTyped DEF StoreLoraInfo
    <3>4. CASE ClearConfig
      BY <3>4 DEF ClearConfig, Storages
    <3>5. CASE SetRtkInfo \/ SetLoraInfo \/ CommitConfig
      BY <3>1, <3>5 DEF SetRtkInfo, SetLoraInfo, CommitConfig
    <3>6. QED  BY <1>2, <3>2, <3>3, <3>4, <3>5 DEF BleNext
  <2>5. fed' \in [DOMAIN Inputs -> Nat]
    BY <1>2, FeedTyped DEF BleNext, StoreInfo, SetRtkInfo, SetLoraInfo, StoreLoraInfo,
                           ClearConfig, CommitConfig, TypeOK, StoreTyped
  <2>6. QED  BY <2>1, <2>2, <2>3, <2>4, <2>5 DEF TypeOK, StoreTyped
<1>3. QED  BY <1>1, <1>2

\* The callback holds what it was asked for until it has stored it.
LEMMA HeldStep ==
    ASSUME TypeOK, Held, [Next]_vars
    PROVE  Held'
<1>1. CASE UNCHANGED <<blePc, asked>>
  BY <1>1 DEF Held
<1>2. CASE blePc' = "idle"
  BY <1>2 DEF Held
<1>3. CASE SetLoraInfo \/ StoreLoraInfo \/ CommitConfig
  BY <1>3 DEF Held, SetLoraInfo, StoreLoraInfo, CommitConfig
<1>4. CASE Restart
  BY <1>4 DEF Restart, Booted, Held
<1>5. CASE LoopNext
  BY <1>5, <1>1, <1>2, <1>4 DEF LoopNext, LoopCommit, LoopLink, SendPart, LoopRestarts, StopBle,
                    InitBle, loopOnly
<1>6. CASE MqttNext \/ OtaNext \/ BrokerNext
  BY <1>6, <1>1 DEF MqttNext, MqttBoots, MqttReconnect, MqttLoop, MqttReceive, RelayOrder,
                    RelayPoll, AcceptUpdate, MqttStatus, OtaNext, OtaTakes, OtaFails,
                    BrokerNext, BrokerSends, BrokerDrops, bleVars
<1>7. CASE LoraNext \/ MowerNext
  BY <1>7, <1>1 DEF LoraNext, LoraReceive, LoraScan, LoraHeartbeat, LoraReply, LoraInbound,
                    MowerNext, GpsNotifies, MowerTakes, MowerHall, MowerSwitched,
                    elsewhere, bleVars
<1>8. CASE LinkNext
  BY <1>8, <1>1 DEF LinkNext, WifiTask, LinkUp, LinkDown, Tick, wifiOnly, bleVars
<1>9. CASE StoreInfo \/ SetRtkInfo \/ ClearConfig
  BY <1>9, <1>1 DEF StoreInfo, SetRtkInfo, ClearConfig, bleVars
<1>10. CASE UNCHANGED vars
  BY <1>10, <1>1 DEF vars, bleVars
<1>11. QED
  BY <1>3, <1>4, <1>5, <1>6, <1>7, <1>8, <1>9, <1>10
     DEF Next, BleNext, BleRestarts, OtaRestarts, PowerCut

\* The Arduino loop moves between its places, sends the settings and restarts.
LEMMA LoopNextTyped ==
    ASSUME TypeOK, LoopNext
    PROVE  TypeOK'
<1>1. CASE LoopRestarts
  BY <1>1, RestartTyped DEF LoopRestarts, TypeOK, StoreTyped
<1>2. CASE ~LoopRestarts
  <2>1. MqttTyped' /\ LoraTyped' /\ MowerTyped' /\ StoreTyped'
    BY <1>2, FrameTyped DEF LoopNext, LoopCommit, LoopLink, SendPart, loopOnly
  <2>2. QueuesTyped'
    <3>1. toMower' \in Seq(MowerFrames)
      <4>1. toMower \in Seq(MowerFrames)
        BY DEF TypeOK, QueuesTyped
      <4>2. CASE LoopCommit \/ LoopLink
        BY <4>1, <4>2 DEF LoopCommit, LoopLink
      <4>3. CASE SendPart
        <5>1. nvs.lora # None => nvs.lora.channel \in Nat
          BY DEF TypeOK, StoreTyped, Storages, LoraConfigs
        <5>2. \/ UNCHANGED toMower
              \/ Transmit(Command("wifi")) \/ Transmit(Command("mqtt"))
              \/ Transmit(Command("apply"))
              \/ nvs.lora # None /\ Transmit([id |-> "lora", n |-> nvs.lora.channel])
          BY <4>3 DEF SendPart
        <5>3. QED  BY <4>1, <5>1, <5>2, TransmitTyped, EntriesTyped
      <4>4. QED  BY <1>2, <4>2, <4>3 DEF LoopNext
    <3>2. UNCHANGED <<uart, loraQueue>>
      BY <1>2 DEF LoopNext, LoopCommit, LoopLink, SendPart, loopOnly
    <3>3. QED  BY <3>1, <3>2 DEF TypeOK, QueuesTyped
  <2>3. ConfigTyped'
    <3>1. UNCHANGED <<asked, wifiPc, wifiState, link, outage>>
      BY <1>2 DEF LoopNext, LoopCommit, LoopLink, SendPart, loopOnly
    <3>2. bleActive' \in BOOLEAN /\ configCommitted' \in BOOLEAN
      BY <1>2 DEF LoopNext, LoopCommit, LoopLink, SendPart, StopBle, InitBle,
                  TypeOK, ConfigTyped
    <3>3. blePc' \in {"idle", "scan", "band", "committed"}
      BY <1>2 DEF LoopNext, LoopCommit, LoopLink, SendPart, StopBle, InitBle,
                  TypeOK, ConfigTyped
    <3>4. mainPc' \in {"watch", "link", "send_wifi", "send_mqtt", "send_lora",
                        "send_apply", "restart"}
      BY <1>2 DEF LoopNext, LoopCommit, LoopLink, SendPart, TypeOK, ConfigTyped
    <3>5. lostFor' \in 0..LostLimit \cup {None}
      <4>1. 0 \in 0..LostLimit
        BY LostLimitAssumption
      <4>2. lostFor' \in {lostFor, 0, None}
        BY <1>2 DEF LoopNext, LoopCommit, LoopLink, SendPart
      <4>3. QED  BY <4>1, <4>2 DEF TypeOK, ConfigTyped
    <3>6. QED  BY <3>1, <3>2, <3>3, <3>4, <3>5 DEF TypeOK, ConfigTyped
  <2>4. QED  BY <2>1, <2>2, <2>3 DEF TypeOK
<1>3. QED  BY <1>1, <1>2

\* wifi_task, the link and time.
LEMMA LinkNextTyped ==
    ASSUME TypeOK, LinkNext
    PROVE  TypeOK'
<1>1. LoraTyped' /\ QueuesTyped' /\ MowerTyped'
  BY FrameTyped DEF LinkNext, WifiTask, LinkUp, LinkDown, Tick, wifiOnly
<1>2. StoreTyped'
  BY FrameTyped, FeedTyped
     DEF LinkNext, WifiTask, LinkUp, LinkDown, Tick, wifiOnly, TypeOK, StoreTyped
<1>3. MqttTyped'
  <2>1. online' \in BOOLEAN /\ inbox' \in Seq(Messages)
    <3>1. online \in BOOLEAN /\ inbox \in Seq(Messages)
      BY DEF TypeOK, MqttTyped
    <3>2. \/ UNCHANGED <<online, inbox>>
          \/ online' = FALSE /\ inbox' = <<>>
          \/ UNCHANGED mqttVars
      BY DEF LinkNext, WifiTask, LinkUp, LinkDown, Tick
    <3>3. inbox' = <<>> => inbox' \in Seq(Messages)
      OBVIOUS
    <3>4. QED  BY <3>1, <3>2, <3>3 DEF mqttVars
  <2>2. UNCHANGED <<mqttPc, mqttRxBuffer, mqttCmdQueue, polls, statusCounter, reported,
                    accepted, answered, credited, loraAckResult, otaVars>>
    BY DEF LinkNext, WifiTask, LinkUp, LinkDown, Tick, wifiOnly, mqttVars
  <2>3. QED  BY <2>1, <2>2 DEF TypeOK, MqttTyped, otaVars
<1>4. ConfigTyped'
  <2>1. UNCHANGED <<bleVars, mainPc>>
    BY DEF LinkNext, WifiTask, LinkUp, LinkDown, Tick, wifiOnly
  <2>2. /\ wifiPc' \in {"connecting", "monitor"}
        /\ wifiState' \in {"init", "connecting", "connected", "disconnected"}
    BY DEF LinkNext, WifiTask, LinkUp, LinkDown, Tick, TypeOK, ConfigTyped
  <2>3. link' \in BOOLEAN
    BY DEF LinkNext, WifiTask, LinkUp, LinkDown, Tick, TypeOK, ConfigTyped
  <2>4. lostFor' \in 0..LostLimit \cup {None} /\ outage' \in 0..LostLimit
    <3>1. lostFor \in 0..LostLimit \cup {None} /\ outage \in 0..LostLimit
      BY DEF TypeOK, ConfigTyped
    <3>2. CASE Tick
      BY <3>1, <3>2, LostLimitAssumption DEF Tick
    <3>3. CASE ~Tick
      <4>1. UNCHANGED lostFor /\ outage' \in {outage, 0}
        BY <3>3 DEF LinkNext, WifiTask, LinkUp, LinkDown, wifiOnly
      <4>2. QED  BY <3>1, <4>1, LostLimitAssumption
    <3>4. QED  BY <3>2, <3>3
  <2>5. QED  BY <2>1, <2>2, <2>3, <2>4 DEF bleVars, TypeOK, ConfigTyped
<1>5. QED  BY <1>1, <1>2, <1>3, <1>4 DEF TypeOK

\* A restart, whoever asks for it, and a power cut.
LEMMA RestartsTyped ==
    ASSUME TypeOK, OtaRestarts \/ PowerCut
    PROVE  TypeOK'
<1>1. Restart /\ fed' \in [DOMAIN Inputs -> Nat]
  BY FeedTyped DEF OtaRestarts, PowerCut, TypeOK, StoreTyped
<1>2. QED  BY <1>1, RestartTyped DEF TypeOK, StoreTyped

\* The initial states are typed, whatever the storage holds.
LEMMA InitTyped == Init => TypeOK /\ Held
<1> SUFFICES ASSUME Init PROVE TypeOK /\ Held
  OBVIOUS
<1>1. nvs \in Storages
  BY StoragesAssumption DEF Init
<1>2. /\ Stored(nvs.lora, Lora0) \in LoraConfigs /\ Stored(nvs.lora, Lora0).channel \in Nat
      /\ Stored(nvs.band, [hc |-> 0, lc |-> 0]) \in Bands /\ nvs.wifi \in BOOLEAN
  BY <1>1, LoraAssumption DEF Storages, Stored, LoraConfigs, Bands
<1>3. MqttTyped
  <2>1. <<>> \in Seq(Messages) /\ 0 \in 0..AckPolls /\ 0 \in 0..(StatusEvery - 1)
    BY AckPollsAssumption, StatusEveryAssumption
  <2>2. online \in BOOLEAN /\ otaQueue \in BOOLEAN /\ otaBusy \in BOOLEAN
    BY Zenon DEF Init
  <2>3. /\ inbox \in Seq(Messages) /\ polls \in 0..AckPolls
        /\ statusCounter \in 0..(StatusEvery - 1)
    BY <2>1 DEF Init
  <2>4. QED  BY <2>2, <2>3 DEF Init, MqttTyped
<1>4. LoraTyped
  <2>1. NoScan \in Scans
    BY DEF NoScan, Scans
  <2>2. heartbeatCounter \in 0..HeartbeatTicks /\ mowerError \in 0..MissCap
    BY HeartbeatTicksAssumption, BoundsAssumption DEF Init
  <2>3. scanning \in BOOLEAN /\ scan \in Scans
    BY <2>1 DEF Init
  <2>4. /\ loraGlobalCfg \in LoraConfigs /\ loraGlobalHcLc \in Bands
        /\ radio \in Nat /\ loraPc = "receive"
    BY <1>2 DEF Init
  <2>5. QED  BY <2>2, <2>3, <2>4 DEF LoraTyped
<1>5. QueuesTyped
  BY DEF Init, QueuesTyped
<1>6. MowerTyped
  BY <1>2 DEF Init, MowerTyped
<1>7. ConfigTyped /\ Held
  <2>0. outage \in 0..LostLimit
    BY LostLimitAssumption DEF Init
  <2>1. bleActive \in BOOLEAN /\ configCommitted \in BOOLEAN /\ link \in BOOLEAN
    BY <1>2, Zenon DEF Init
  <2>2. /\ wifiPc \in {"connecting", "monitor"}
        /\ wifiState \in {"init", "connecting", "connected", "disconnected"}
    BY DEF Init
  <2>3. asked = None /\ blePc = "idle" /\ mainPc = "watch" /\ lostFor = None
    BY DEF Init
  <2>4. QED  BY <2>0, <2>1, <2>2, <2>3 DEF ConfigTyped, Held
<1>8. StoreTyped
  BY <1>1 DEF Init, StoreTyped
<1>9. QED  BY <1>3, <1>4, <1>5, <1>6, <1>7, <1>8 DEF TypeOK

\* Every step keeps the types.
LEMMA NextTyped ==
    ASSUME TypeOK, Held, [Next]_vars
    PROVE  TypeOK' /\ Held'
<1>1. Held'
  BY HeldStep
<1>2. CASE UNCHANGED vars
  <2>1. /\ UNCHANGED <<mqttVars, loraAckResult, otaVars>> /\ UNCHANGED loraVars
        /\ UNCHANGED <<loraQueue, uart, toMower>> /\ UNCHANGED mowerVars
        /\ UNCHANGED <<bleVars, linkVars>> /\ UNCHANGED <<nvs, fed>>
    BY <1>2 DEF vars
  <2>2. /\ MqttTyped' /\ LoraTyped' /\ QueuesTyped' /\ MowerTyped'
        /\ ConfigTyped' /\ StoreTyped'
    BY <2>1, FrameTyped
  <2>3. QED  BY <1>1, <2>2 DEF TypeOK
<1>3. CASE MqttNext
  BY <1>1, <1>3, MqttNextTyped
<1>4. CASE OtaNext \/ BrokerNext
  BY <1>1, <1>4, OtaBrokerTyped
<1>5. CASE LoraNext
  BY <1>1, <1>5, LoraNextTyped
<1>6. CASE MowerNext
  BY <1>1, <1>6, MowerNextTyped
<1>7. CASE BleNext
  BY <1>1, <1>7, BleNextTyped
<1>8. CASE LoopNext
  BY <1>1, <1>8, LoopNextTyped
<1>9. CASE LinkNext
  BY <1>1, <1>9, LinkNextTyped
<1>10. CASE OtaRestarts \/ PowerCut
  BY <1>1, <1>10, RestartsTyped
<1>11. QED
  BY <1>2, <1>3, <1>4, <1>5, <1>6, <1>7, <1>8, <1>9, <1>10 DEF Next

\* Every variable of the charger keeps its range, in every state that any interleaving of
\* its tasks, the radio, the mower, the broker, the app and the restarts leads to.
THEOREM ChargerTypeCorrect == Spec => []TypeOK
<1>1. Init => TypeOK /\ Held
  BY InitTyped
<1>2. TypeOK /\ Held /\ [Next]_vars => (TypeOK /\ Held)'
  BY NextTyped
<1>3. QED  BY <1>1, <1>2, PTL DEF Spec

=============================================================================
