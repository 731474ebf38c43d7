----------------------------- MODULE ChargerLora -----------------------------
(***************************************************************************)
(* lora_config_task of the charger (main.cpp) and the mower it talks to:   *)
(* the commands taken from loraQueue, the channel scan, the heartbeat and  *)
(* the frames received.  The task goes round "receive", "scan",            *)
(* "heartbeat" (with "reply" after a poll) and "inbound".                  *)
(***************************************************************************)
EXTENDS ChargerState

\* What no step of this task or of the mower touches.
elsewhere == <<mqttVars, otaVars, bleVars, linkVars>>

-----------------------------------------------------------------------------
(* The channel scan *)

\* bubbleSortBestChannel: the channel of the lowest reading, the first of equals.
Quietest(arr) ==
    arr[CHOOSE i \in DOMAIN arr :
            \A j \in DOMAIN arr : \/ arr[i].rssi < arr[j].rssi
                                  \/ arr[i].rssi = arr[j].rssi /\ i <= j].channel

\* Variant: one channel further than hc.
UpwardsPastEnd(s) ==
    CASE s.dir = 1 /\ s.cur <= s.hc -> [s EXCEPT !.cur = @ + 1]
      [] OTHER -> s

\* Up from the first channel to hc; there back to the first, and down in that step.
Upwards(s) ==
    CASE s.dir = 1 /\ s.cur < s.hc -> [s EXCEPT !.cur = @ + 1]
      [] s.dir = 1 /\ s.cur = s.hc -> [s EXCEPT !.dir = 0, !.cur = loraGlobalCfg.channel]
      [] OTHER -> s

\* Down to lc, where the scan is over; from outside the band it does not move.
Downwards(s) ==
    CASE s.dir = 0 /\ s.lc < s.cur -> [s EXCEPT !.cur = @ - 1]
      [] s.dir = 0 /\ s.lc = s.cur -> [s EXCEPT !.dir = -1]
      [] OTHER -> s

\* LORA_Q_SCAN_CHANNEL, also while a scan runs.
StartScan ==
    /\ scanning' = TRUE
    /\ scan' = [dir |-> 1, cur |-> loraGlobalCfg.channel, arr |-> <<>>,
                hc |-> loraGlobalHcLc.hc, lc |-> loraGlobalHcLc.lc]

\* Variant: the module stays on the channel last measured.
InstallUntuned(channel) ==
    /\ loraGlobalCfg' = [loraGlobalCfg EXCEPT !.channel = channel]
    /\ nvs' = [nvs EXCEPT !.lora = loraGlobalCfg']
    /\ scanning' = FALSE /\ scan' = [scan EXCEPT !.dir = -1]
    /\ radio' = scan.cur

\* The end of a scan: the channel is installed, stored with the address the task
\* started with, and set.
Install(channel) ==
    /\ loraGlobalCfg' = [loraGlobalCfg EXCEPT !.channel = channel]
    /\ nvs' = [nvs EXCEPT !.lora = loraGlobalCfg']
    /\ scanning' = FALSE /\ scan' = [scan EXCEPT !.dir = -1]
    /\ radio' = channel

\* The readings with r, where there is a place for it.
WithReading(r) ==
    IF Len(scan.arr) < MaxSamples
    THEN Append(scan.arr, [rssi |-> r, channel |-> scan.cur])
    ELSE scan.arr

\* Variant: the scan goes on when the array is full.
NeverFull(arr) == FALSE

\* LORA_MAX_SCAN_CHANNELS readings.
Full(arr) == Len(arr) >= MaxSamples

\* channelScanStep: the channel is set and its reading r taken.
Measure(r) ==
    LET arr == WithReading(r)
        next == Downwards(Upwards(scan))
    IN  CASE r < Threshold -> Install(scan.cur)
          [] r >= Threshold /\ (Full(arr) \/ next.dir = -1) ->
               Install(Quietest(arr))
          [] OTHER ->
               /\ scan' = [next EXCEPT !.arr = arr]
               /\ radio' = scan.cur
               /\ UNCHANGED <<loraGlobalCfg, nvs, scanning>>

-----------------------------------------------------------------------------
(* lora_config_task *)

\* The command at the head of the queue.  An order's frame is followed by a flush of
\* the receiver.
HandleCommand(entry) ==
    CASE entry.id = "order" ->
           /\ Transmit(entry) /\ uart' = None
           /\ UNCHANGED <<scanning, scan>>
      [] entry.id = "hall_ack" ->
           Transmit(Command("hall_ack")) /\ UNCHANGED <<uart, scanning, scan>>
      [] entry.id = "config" ->
           Transmit(Command("apply")) /\ UNCHANGED <<uart, scanning, scan>>
      [] entry.id = "scan" -> StartScan /\ UNCHANGED <<toMower, uart>>
      \* GNSS bytes and the position: the mower's answer changes nothing here.
      [] entry.id = "gnss" -> UNCHANGED <<toMower, uart, scanning, scan>>

\* Variant: xQueuePeek.
PeekHead == UNCHANGED loraQueue

\* xQueueReceive takes the head of loraQueue.
TakeHead == loraQueue' = Tail(loraQueue)

\* One command, or none after LORA_QUEUE_TIMEOUT ticks.
LoraReceive ==
    /\ loraPc = "receive"
    /\ IF loraQueue = <<>>
       THEN UNCHANGED <<loraQueue, toMower, uart, scanning, scan>>
       ELSE TakeHead /\ HandleCommand(Head(loraQueue))
    /\ loraPc' = IF scanning' THEN "scan" ELSE "heartbeat"
    /\ UNCHANGED <<loraGlobalCfg, loraGlobalHcLc, heartbeatCounter, mowerError, radio>>
    /\ UNCHANGED <<elsewhere, loraAckResult, mowerVars, nvs, fed>>

\* loraQueryRssi flushes the receiver before it asks the module.
LoraScan ==
    /\ loraPc = "scan"
    /\ loraPc' = "heartbeat"
    /\ uart' = None /\ \E r \in Readings : Measure(r)
    /\ UNCHANGED <<loraGlobalHcLc, heartbeatCounter, mowerError>>
    /\ UNCHANGED <<elsewhere, loraAckResult, loraQueue, toMower, mowerVars, fed>>

\* The counter runs on during a scan, the poll waits for its end.
LoraHeartbeat ==
    LET due == heartbeatCounter + 1 >= HeartbeatTicks
    IN  /\ loraPc = "heartbeat"
        /\ IF due /\ ~scanning
           THEN heartbeatCounter' = 0 /\ loraPc' = "reply" /\ Transmit(Command("poll"))
           ELSE /\ heartbeatCounter' = IF due THEN HeartbeatTicks ELSE heartbeatCounter + 1
                /\ loraPc' = "inbound" /\ UNCHANGED toMower
        /\ UNCHANGED <<loraGlobalCfg, loraGlobalHcLc, scanning, scan, mowerError, radio>>
        /\ UNCHANGED <<elsewhere, loraAckResult, loraQueue, uart, mowerVars, nvs, fed>>

\* The reply awaited for 200 ms: a report clears the misses, silence is one more, and
\* any other frame is dropped, an acknowledgement among them.
LoraReply ==
    /\ loraPc = "reply"
    /\ loraPc' = "inbound" /\ uart' = None
    /\ mowerError' = CASE uart = "report" -> 0
                       [] uart = None -> IF mowerError < MissCap THEN mowerError + 1
                                         ELSE MissCap
                       [] OTHER -> mowerError
    /\ UNCHANGED <<loraGlobalCfg, loraGlobalHcLc, scanning, scan, heartbeatCounter, radio>>
    /\ UNCHANGED <<elsewhere, loraAckResult, loraQueue, toMower, mowerVars, nvs, fed>>

\* processInboundLora: the first frame of what was received.  Whatever order an
\* acknowledgement is of, it goes to loraAckResult.
LoraInbound ==
    /\ loraPc = "inbound"
    /\ loraPc' = "receive"
    /\ IF scanning
       THEN UNCHANGED <<uart, loraAckResult, mowerError, loraQueue>>
       ELSE /\ uart' = None
            /\ loraAckResult' = CASE uart = "ack" -> "ok"
                                  [] uart = "nak" -> "nak"
                                  [] OTHER -> loraAckResult
            /\ mowerError' = IF uart = "report" THEN 0 ELSE mowerError
            /\ IF uart = "hall" THEN SendOrGiveUp(Command("hall_ack"))
               ELSE UNCHANGED loraQueue
    /\ UNCHANGED <<loraGlobalCfg, loraGlobalHcLc, scanning, scan, heartbeatCounter, radio>>
    /\ UNCHANGED <<elsewhere, toMower, mowerVars, nvs, fed>>

\* gpsTaskFunc tells the task that bytes or a position wait; a full queue is left alone.
GpsNotifies ==
    /\ Feed("gnss")
    /\ SendOrGiveUp(Command("gnss"))
    /\ UNCHANGED <<elsewhere, loraAckResult, loraVars, uart, toMower, mowerVars, nvs>>

-----------------------------------------------------------------------------
(* The mower *)

\* A frame from the mower: the first not read is the one that counts.
Reply(f) ==
    \/ UNCHANGED uart
    \/ mowerUp /\ radio = mowerChannel /\ uart = None /\ uart' = f

\* The settings received are put to use.
ApplyGiven ==
    /\ mowerChannel' = IF given = None THEN mowerChannel ELSE given
    /\ given' = None

\* The mower takes a frame: an order is carried out and acknowledged, or refused; a
\* poll is answered with a report; settings are kept until they are to be applied.
MowerTakes ==
    /\ toMower # <<>>
    /\ toMower' = Tail(toMower)
    /\ LET f == Head(toMower)
       IN  CASE mowerUp /\ f.id = "order" ->
                  \/ /\ executed' = executed + 1 /\ lastRun' = f.n /\ Reply("ack")
                     /\ UNCHANGED <<mowerChannel, given>>
                  \/ Reply("nak") /\ UNCHANGED <<mowerChannel, given, lastRun, executed>>
             [] mowerUp /\ f.id = "poll" ->
                  Reply("report") /\ UNCHANGED <<mowerChannel, given, lastRun, executed>>
             [] mowerUp /\ f.id = "lora" ->
                  given' = f.n /\ UNCHANGED <<uart, mowerChannel, lastRun, executed>>
             [] mowerUp /\ f.id = "apply" ->
                  ApplyGiven /\ UNCHANGED <<uart, lastRun, executed>>
             [] OTHER -> UNCHANGED <<uart, mowerChannel, given, lastRun, executed>>
    /\ UNCHANGED <<elsewhere, loraAckResult, loraVars, loraQueue, mowerUp, nvs, fed>>

\* The magnet of the charger passes the mower's sensor.
MowerHall ==
    /\ Feed("hall") /\ Reply("hall")
    /\ UNCHANGED <<elsewhere, loraAckResult, loraVars, loraQueue, toMower, mowerVars, nvs>>

\* The mower is switched off, or on.
MowerSwitched ==
    /\ Feed("power")
    /\ mowerUp' = ~mowerUp
    /\ UNCHANGED <<mowerChannel, given, lastRun, executed>>
    /\ UNCHANGED <<elsewhere, loraAckResult, loraVars, loraQueue, uart, toMower, nvs>>

-----------------------------------------------------------------------------
LoraNext == LoraReceive \/ LoraScan \/ LoraHeartbeat \/ LoraReply \/ LoraInbound

MowerNext == GpsNotifies \/ MowerTakes \/ MowerHall \/ MowerSwitched

=============================================================================
