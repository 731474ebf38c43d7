-------------------------- MODULE ChargerScan_proofs --------------------------
(***************************************************************************)
(* The channel scan of the charger, for any bands, channels, readings and  *)
(* limit of samples, and the sort that picks its channel.                  *)
(***************************************************************************)
EXTENDS ChargerTypes_proofs

Sort == INSTANCE ChannelSort

\* Only lora_config_task and a restart touch the scan, the settings and the module.
LEMMA WhoScans ==
    ASSUME [Next]_vars
    PROVE  UNCHANGED loraVars \/ LoraNext \/ Restart
<1>1. CASE MqttNext \/ OtaNext \/ BrokerNext \/ LinkNext
  BY <1>1
  DEF MqttNext, MqttBoots, MqttReconnect, MqttLoop, MqttReceive, RelayOrder, RelayPoll,
      AcceptUpdate, MqttStatus, OtaNext, OtaTakes, OtaFails, BrokerNext, BrokerSends,
      BrokerDrops, LinkNext, WifiTask, LinkUp, LinkDown, Tick, wifiOnly
<1>2. CASE MowerNext
  BY <1>2 DEF MowerNext, GpsNotifies, MowerTakes, MowerHall, MowerSwitched
<1>3. CASE BleNext \/ LoopNext
  BY <1>3 DEF BleNext, StoreInfo, SetRtkInfo, SetLoraInfo, StoreLoraInfo, ClearConfig,
              CommitConfig, BleRestarts, noBle, LoopNext, LoopCommit, LoopLink, SendPart,
              LoopRestarts, loopOnly
<1>4. CASE UNCHANGED vars
  BY <1>4 DEF vars
<1>5. QED  BY <1>1, <1>2, <1>3, <1>4 DEF Next, OtaRestarts, PowerCut

\* The command taken from the queue leaves the scan alone, or starts one.
LEMMA ReceiveScans ==
    ASSUME TypeOK, LoraReceive
    PROVE  /\ UNCHANGED <<loraGlobalCfg, loraGlobalHcLc, radio>>
           /\ UNCHANGED <<scanning, scan>> \/ StartScan
<1>1. CASE loraQueue = <<>>
  BY <1>1 DEF LoraReceive
<1>2. CASE loraQueue # <<>>
  <2>1. Head(loraQueue).id \in {"order", "hall_ack", "config", "scan", "gnss"}
    BY <1>2 DEF TypeOK, QueuesTyped, QueueEntries
  <2>2. HandleCommand(Head(loraQueue))
    BY <1>2 DEF LoraReceive
  <2>3. UNCHANGED <<scanning, scan>> \/ StartScan
    BY <2>1, <2>2 DEF HandleCommand
  <2>4. QED  BY <2>3 DEF LoraReceive
<1>3. QED  BY <1>1, <1>2

\* A measurement ends the scan, or moves it on.
LEMMA MeasureScans ==
    ASSUME NEW r \in Readings, Measure(r)
    PROVE  \/ \E c : Install(c)
           \/ /\ \E arr : scan' = [Downwards(Upwards(scan)) EXCEPT !.arr = arr]
              /\ UNCHANGED <<loraGlobalCfg, scanning>>
<1> DEFINE arr == WithReading(r)
<1>1. \/ Install(scan.cur) \/ Install(Quietest(arr))
      \/ /\ scan' = [Downwards(Upwards(scan)) EXCEPT !.arr = arr]
         /\ UNCHANGED <<loraGlobalCfg, scanning>>
  BY DEF Measure
<1> HIDE DEF arr
<1>2. QED  BY <1>1

\* A sweep keeps the band.
LEMMA SweepBand ==
    ASSUME TypeOK, NEW s \in Scans
    PROVE  /\ Downwards(Upwards(s)).lc = s.lc /\ Downwards(Upwards(s)).hc = s.hc
<1>1. Upwards(s).lc = s.lc /\ Upwards(s).hc = s.hc
  BY DEF Upwards, Scans
<1>2. \A t \in Scans : Downwards(t).lc = t.lc /\ Downwards(t).hc = t.hc
  BY DEF Downwards, Scans
<1>3. QED  BY <1>1, <1>2, SweepTyped

\* From inside the band a scan stays inside.
LEMMA SweepInBand ==
    ASSUME TypeOK, loraGlobalCfg.channel \in scan.lc..scan.hc, scan.cur \in scan.lc..scan.hc
    PROVE  LET next == Downwards(Upwards(scan))
           IN  next \in Scans /\ next.lc = scan.lc /\ next.hc = scan.hc
               /\ next.cur \in scan.lc..scan.hc
<1> DEFINE up == Upwards(scan)
<1>1. scan \in Scans /\ scan.lc \in Nat /\ scan.hc \in Nat /\ scan.cur \in Nat
  BY DEF TypeOK, LoraTyped, Scans
<1>2. up \in Scans /\ Downwards(up) \in Scans
  BY <1>1, SweepTyped
<1>3. up.lc = scan.lc /\ up.hc = scan.hc /\ up.cur \in scan.lc..scan.hc
  <2>1. CASE scan.dir = 1 /\ scan.cur < scan.hc
    <3>1. up = [scan EXCEPT !.cur = @ + 1]
      BY <2>1 DEF Upwards
    <3>2. scan.cur + 1 \in scan.lc..scan.hc
      BY <1>1, <2>1
    <3>3. QED  BY <1>1, <3>1, <3>2 DEF Scans
  <2>2. CASE scan.dir = 1 /\ scan.cur = scan.hc
    <3>1. up = [scan EXCEPT !.dir = 0, !.cur = loraGlobalCfg.channel]
      BY <2>2 DEF Upwards
    <3>2. /\ up.lc = scan.lc /\ up.hc = scan.hc /\ up.cur = loraGlobalCfg.channel
      BY <1>1, <3>1 DEF Scans
    <3>3. QED  BY <3>2
  <2>3. CASE ~(scan.dir = 1 /\ scan.cur < scan.hc) /\ ~(scan.dir = 1 /\ scan.cur = scan.hc)
    BY <1>1, <2>3 DEF Upwards
  <2>4. QED  BY <2>1, <2>2, <2>3
<1> HIDE DEF up
<1>4. /\ Downwards(up).lc = scan.lc /\ Downwards(up).hc = scan.hc
      /\ Downwards(up).cur \in scan.lc..scan.hc
  <2>1. up.cur \in Nat
    BY <1>2 DEF Scans
  <2>2. CASE up.dir = 0 /\ up.lc < up.cur
    <3>1. Downwards(up) = [up EXCEPT !.cur = @ - 1]
      BY <1>1, <1>3, <2>1, <2>2 DEF Downwards
    <3>2. up.cur - 1 \in scan.lc..scan.hc
      BY <1>1, <1>3, <2>1, <2>2
    <3>3. QED  BY <1>2, <1>3, <3>1, <3>2 DEF Scans
  <2>3. CASE up.dir = 0 /\ up.lc = up.cur
    <3>1. Downwards(up) = [up EXCEPT !.dir = -1]
      BY <1>1, <1>3, <2>1, <2>3 DEF Downwards
    <3>2. QED  BY <1>2, <1>3, <3>1 DEF Scans
  <2>4. CASE ~(up.dir = 0 /\ up.lc < up.cur) /\ ~(up.dir = 0 /\ up.lc = up.cur)
    BY <1>3, <2>4 DEF Downwards
  <2>5. QED  BY <2>2, <2>3, <2>4
<1>5. QED  BY <1>2, <1>4 DEF up

-----------------------------------------------------------------------------
(* The inductive invariant *)

\* The task is at the scan only while one runs.
ScanInv == (loraPc = "scan" => scanning) /\ RadioFollowsConfig /\ ScanStaysInBand

LEMMA ScanInit == Init => ScanInv
BY DEF Init, ScanInv, RadioFollowsConfig, ScanStaysInBand

LEMMA ScanStep ==
    ASSUME TypeOK, ScanInv, [Next]_vars
    PROVE  ScanInv'
<1>1. loraGlobalCfg \in LoraConfigs /\ scan \in Scans /\ scanning \in BOOLEAN
  BY DEF TypeOK, LoraTyped
<1>2. CASE UNCHANGED loraVars
  BY <1>2 DEF loraVars, ScanInv, RadioFollowsConfig, ScanStaysInBand
<1>3. CASE Restart
  BY <1>3 DEF Restart, Booted, ScanInv, RadioFollowsConfig, ScanStaysInBand
<1>4. CASE LoraReceive
  <2>1. /\ UNCHANGED <<loraGlobalCfg, loraGlobalHcLc, radio>>
        /\ loraPc' = IF scanning' THEN "scan" ELSE "heartbeat"
    BY <1>4, ReceiveScans DEF LoraReceive
  <2>2. CASE UNCHANGED <<scanning, scan>>
    BY <1>1, <2>1, <2>2 DEF ScanInv, RadioFollowsConfig, ScanStaysInBand
  <2>3. CASE StartScan
    <3>1. /\ scanning' /\ scan'.cur = loraGlobalCfg.channel
      BY <2>3 DEF StartScan
    <3>2. QED  BY <2>1, <3>1 DEF ScanInv, RadioFollowsConfig, ScanStaysInBand
  <2>4. QED  BY <1>4, <2>2, <2>3, ReceiveScans
<1>5. CASE LoraScan
  <2>1. PICK r \in Readings : Measure(r)
    BY <1>5 DEF LoraScan
  <2>2. loraPc = "scan" /\ loraPc' = "heartbeat" /\ scanning
    BY <1>5 DEF LoraScan, ScanInv
  <2>3. CASE \E c : Install(c)
    <3>1. PICK c : Install(c)
      BY <2>3
    <3>2. ~scanning' /\ radio' = c /\ loraGlobalCfg'.channel = c
      BY <1>1, <3>1 DEF Install, LoraConfigs
    <3>3. QED  BY <2>2, <3>2 DEF ScanInv, RadioFollowsConfig, ScanStaysInBand
  <2>4. CASE /\ \E arr : scan' = [Downwards(Upwards(scan)) EXCEPT !.arr = arr]
             /\ UNCHANGED <<loraGlobalCfg, scanning>>
    <3>1. PICK arr : scan' = [Downwards(Upwards(scan)) EXCEPT !.arr = arr]
      BY <2>4
    <3>2. Downwards(Upwards(scan)) \in Scans
      BY <1>1, SweepTyped
    <3>3. ASSUME loraGlobalCfg'.channel \in scan'.lc..scan'.hc
          PROVE  scan'.cur \in scan'.lc..scan'.hc
      <4>1. /\ scan'.lc = Downwards(Upwards(scan)).lc
            /\ scan'.hc = Downwards(Upwards(scan)).hc
            /\ scan'.cur = Downwards(Upwards(scan)).cur
        BY <3>1, <3>2 DEF Scans
      <4>2. scan'.lc = scan.lc /\ scan'.hc = scan.hc
        BY <4>1, SweepBand, <1>1
      <4>3. loraGlobalCfg.channel \in scan.lc..scan.hc
        BY <2>4, <3>3, <4>2
      <4>4. scan.cur \in scan.lc..scan.hc
        BY <2>2, <4>3 DEF ScanInv, ScanStaysInBand
      <4>5. QED  BY <4>1, <4>2, <4>3, <4>4, SweepInBand
    <3>4. QED  BY <2>2, <2>4, <3>3 DEF ScanInv, RadioFollowsConfig, ScanStaysInBand
  <2>5. QED  BY <2>1, <2>3, <2>4, MeasureScans
<1>6. CASE LoraHeartbeat \/ LoraReply \/ LoraInbound
  BY <1>6 DEF LoraHeartbeat, LoraReply, LoraInbound, ScanInv, RadioFollowsConfig,
              ScanStaysInBand
<1>7. QED  BY <1>2, <1>3, <1>4, <1>5, <1>6, WhoScans DEF LoraNext

LEMMA ScanInvariant == Spec => []ScanInv
<1>1. Init => TypeOK /\ Held /\ ScanInv
  BY InitTyped, ScanInit
<1>2. (TypeOK /\ Held /\ ScanInv) /\ [Next]_vars => (TypeOK /\ Held /\ ScanInv)'
  BY NextTyped, ScanStep
<1>3. QED  BY <1>1, <1>2, PTL DEF Spec

-----------------------------------------------------------------------------
(* The sort: its loops, and what each round of them keeps *)

\* Induction up to n, over a set: what holds of 0 and passes to the next number holds of n.
LEMMA Counting ==
    ASSUME NEW n \in Nat, NEW T, 0 \in T, \A m \in 1..n : m - 1 \in T => m \in T
    PROVE  n \in T
<1> DEFINE C == {m \in 0..n : m \notin T}
<1>1. ASSUME C # {} PROVE FALSE
  <2>1. C \in SUBSET Nat
    OBVIOUS
  <2>2. PICK m \in C : \A k \in C : m <= k
    <3> HIDE DEF C
    <3> QED  BY <1>1, <2>1, NatLeast
  <2>3. m \in 1..n /\ m - 1 \in 0..n /\ ~(m <= m - 1)
    BY <2>2
  <2>4. m - 1 \notin C
    BY <2>2, <2>3
  <2>5. QED  BY <2>2, <2>3, <2>4
<1>2. QED  BY <1>1

\* f goes n rounds of step from a, through values of S.
IsLoop(f, n, S, a, step) ==
    /\ f \in [0..n -> S]
    /\ f[0] = a
    /\ \A i \in 1..n : f[i] = step[i][f[i - 1]]

\* Every loop over functions of a set comes to an end.
LEMMA LoopExists ==
    ASSUME NEW n \in Nat, NEW S, NEW a \in S, NEW step \in [1..n -> [S -> S]]
    PROVE  \E f : IsLoop(f, n, S, a, step)
<1> DEFINE T == {m \in 0..n : \E f : IsLoop(f, m, S, a, step)}
<1>1. 0 \in T
  <2>1. IsLoop([i \in 0..0 |-> a], 0, S, a, step)
    BY DEF IsLoop
  <2> QED  BY <2>1
<1>2. ASSUME NEW m \in 1..n, m - 1 \in T PROVE m \in T
  <2>1. PICK f : IsLoop(f, m - 1, S, a, step)
    BY <1>2
  <2>2. m - 1 \in 0..(m - 1) /\ f[m - 1] \in S
    BY <2>1 DEF IsLoop
  <2>3. step[m][f[m - 1]] \in S
    BY <2>2
  <2> DEFINE g == [i \in 0..m |-> IF i = m THEN step[m][f[m - 1]] ELSE f[i]]
  <2>4. g \in [0..m -> S] /\ g[0] = a
    BY <2>1, <2>3 DEF IsLoop
  <2>5. ASSUME NEW i \in 1..m PROVE g[i] = step[i][g[i - 1]]
    <3>1. i - 1 \in 0..m /\ i - 1 # m /\ g[i - 1] = f[i - 1]
      BY <2>1
    <3>2. CASE i = m
      BY <3>1, <3>2
    <3>3. CASE i # m
      <4>1. i \in 1..(m - 1) /\ g[i] = f[i]
        BY <3>3
      <4> QED  BY <2>1, <3>1, <4>1 DEF IsLoop
    <3> QED  BY <3>2, <3>3
  <2>6. IsLoop(g, m, S, a, step)
    <3> HIDE DEF g
    <3> QED  BY <2>4, <2>5 DEF IsLoop
  <2> HIDE DEF g
  <2> QED  BY <2>6
<1>3. n \in T
  <2> HIDE DEF T
  <2> QED  BY <1>1, <1>2, Counting
<1> QED  BY <1>3

\* The arrays of n measurements.
Arrays(n) == [1..n -> Samples]

\* They are sequences.
LEMMA ArrayLength ==
    ASSUME NEW n \in Nat, NEW a \in Arrays(n)
    PROVE  a \in Seq(Samples) /\ Len(a) = n
BY DEF Arrays

\* A comparison swaps two neighbours or leaves the array.
LEMMA ComparedArray ==
    ASSUME NEW n \in Nat, NEW a \in Arrays(n), NEW j \in 1..(n - 1)
    PROVE  LET b == Sort!Compared(a, j) IN
           /\ b \in Arrays(n)
           /\ \A x \in 1..n : x \notin {j, j + 1} => b[x] = a[x]
           /\ \/ a[j + 1].rssi < a[j].rssi /\ b[j] = a[j + 1] /\ b[j + 1] = a[j]
              \/ a[j].rssi <= a[j + 1].rssi /\ b = a
<1>1. /\ a \in [1..n -> Samples] /\ j \in 1..n /\ j + 1 \in 1..n /\ j # j + 1
      /\ a[j].rssi \in Nat /\ a[j + 1].rssi \in Nat
  BY DEF Arrays, Samples
<1>2. CASE a[j + 1].rssi < a[j].rssi
  BY <1>1, <1>2 DEF Arrays, Sort!Compared
<1>3. CASE ~(a[j + 1].rssi < a[j].rssi)
  BY <1>1, <1>3 DEF Arrays, Sort!Compared
<1> QED  BY <1>2, <1>3

\* A pass is a loop of comparisons.
LEMMA PassLoop ==
    ASSUME NEW n \in Nat \ {0}, NEW a \in Arrays(n), NEW i \in 1..n
    PROVE  \E f \in [0..(n - i) -> Arrays(n)] :
              /\ f[0] = a
              /\ \A j \in 1..(n - i) : f[j] = Sort!Compared(f[j - 1], j)
              /\ Sort!Pass(a, i) = f[n - i]
<1> DEFINE step == [j \in 1..(n - i) |-> [b \in Arrays(n) |-> Sort!Compared(b, j)]]
           Body(f) == [j \in 0..(n - i) |-> IF j = 0 THEN a ELSE Sort!Compared(f[j - 1], j)]
<1>0. n - i \in Nat /\ Len(a) = n
  BY ArrayLength
<1>1. step \in [1..(n - i) -> [Arrays(n) -> Arrays(n)]]
  BY ComparedArray
<1>2. PICK f : IsLoop(f, n - i, Arrays(n), a, step)
  <2> HIDE DEF step
  <2> QED  BY <1>0, <1>1, LoopExists
<1>3. ASSUME NEW j \in 1..(n - i) PROVE f[j] = Sort!Compared(f[j - 1], j)
  <2>1. f[j - 1] \in Arrays(n) /\ f[j] = step[j][f[j - 1]]
    <3> HIDE DEF step
    <3>1. j - 1 \in 0..(n - i)
      BY <1>0
    <3> QED  BY <1>2, <3>1 DEF IsLoop
  <2> QED  BY <2>1
<1>4. f = Body(f)
  <2> HIDE DEF step
  <2>1. f = [j \in 0..(n - i) |-> f[j]] /\ f[0] = a
    BY <1>2 DEF IsLoop
  <2>2. ASSUME NEW j \in 0..(n - i)
        PROVE  f[j] = IF j = 0 THEN a ELSE Sort!Compared(f[j - 1], j)
    <3>1. CASE j = 0
      BY <2>1, <3>1
    <3>2. CASE j # 0
      BY <1>0, <1>3, <3>2
    <3> QED  BY <3>1, <3>2
  <2> QED  BY <2>1, <2>2
<1>5. PICK g : g = Body(g) /\ Sort!Pass(a, i) = g[n - i]
  <2> DEFINE after == CHOOSE g : g = Body(g)
  <2>1. after = Body(after)
    <3> HIDE DEF Body
    <3> QED  BY <1>4
  <2>2. Sort!Pass(a, i) = after[n - i]
    BY <1>0 DEF Sort!Pass
  <2> HIDE DEF after
  <2> QED  BY <2>1, <2>2
<1>6. g[0] = a /\ \A j \in 1..(n - i) : g[j] = Sort!Compared(g[j - 1], j)
  BY <1>0, <1>5
<1>7. \A j \in 0..(n - i) : g[j] \in Arrays(n)
  <2> DEFINE T == {j \in 0..(n - i) : g[j] \in Arrays(n)}
  <2>1. ASSUME NEW m \in 0..(n - i) PROVE m \in T
    <3>1. 0 \in T
      BY <1>0, <1>6
    <3>2. ASSUME NEW j \in 1..m, j - 1 \in T PROVE j \in T
      BY <1>0, <1>6, <3>2, ComparedArray
    <3> HIDE DEF T
    <3> QED  BY <1>0, <3>1, <3>2, Counting
  <2> QED  BY <2>1
<1> QED  BY <1>0, <1>5, <1>6, <1>7

\* The last i places are in order, and above the others.
Settled(a, n, i) == \A x \in (n - i + 1)..n : \A y \in 1..x : a[y].rssi <= a[x].rssi

\* The highest of the first j + 1 readings is the last of them.
Risen(a, j) == \A y \in 1..j : a[y].rssi <= a[j + 1].rssi

\* m is the quietest measurement of a, the first taken among equals.
HasQuietest(a, m) == \E k : IsQuietest(a, k) /\ a[k] = m

\* A comparison never moves a measurement before the quietest: equal readings stay in
\* their order.
LEMMA ComparedQuietest ==
    ASSUME NEW n \in Nat, NEW a \in Arrays(n), NEW j \in 1..(n - 1),
           NEW m, HasQuietest(a, m)
    PROVE  HasQuietest(Sort!Compared(a, j), m)
<1> DEFINE b == Sort!Compared(a, j)
<1>1. /\ b \in Arrays(n) /\ j \in 1..n /\ j + 1 \in 1..n
      /\ \A x \in 1..n : x \notin {j, j + 1} => b[x] = a[x]
      /\ \/ a[j + 1].rssi < a[j].rssi /\ b[j] = a[j + 1] /\ b[j + 1] = a[j]
         \/ a[j].rssi <= a[j + 1].rssi /\ b = a
  BY ComparedArray
<1>2. PICK k : IsQuietest(a, k) /\ a[k] = m
  BY DEF HasQuietest
<1>3. /\ DOMAIN a = 1..n /\ DOMAIN b = 1..n
      /\ \A x \in 1..n : a[x].rssi \in Nat /\ b[x].rssi \in Nat
  BY <1>1 DEF Arrays, Samples
<1> HIDE DEF b
<1>4. CASE b = a
  BY <1>2, <1>4 DEF HasQuietest, b
<1>5. CASE a[j + 1].rssi < a[j].rssi /\ b[j] = a[j + 1] /\ b[j + 1] = a[j]
  <2>1. k # j
    BY <1>1, <1>2, <1>3, <1>5 DEF IsQuietest
  <2> DEFINE l == IF k = j + 1 THEN j ELSE k
  <2>2. l \in 1..n /\ b[l] = a[k]
    BY <1>1, <1>2, <1>3, <1>5, <2>1 DEF IsQuietest
  <2>3. ASSUME NEW x \in 1..n
        PROVE  b[l].rssi < b[x].rssi \/ (b[l].rssi = b[x].rssi /\ l <= x)
    <3>1. CASE x = j
      BY <1>1, <1>2, <1>3, <1>5, <2>1, <2>2, <3>1 DEF IsQuietest
    <3>2. CASE x = j + 1
      <4>1. a[k].rssi < a[j].rssi \/ (a[k].rssi = a[j].rssi /\ k <= j)
        BY <1>1, <1>2, <1>3 DEF IsQuietest
      <4>2. b[x] = a[j] /\ b[l] = a[k]
        BY <1>5, <2>2, <3>2
      <4>3. ASSUME a[k].rssi = a[j].rssi PROVE l <= x
        <5>1. ~(a[k].rssi < a[j].rssi)
          BY <1>1, <1>3, <4>3
        <5>2. k <= j /\ k \in 1..n /\ k # j + 1
          BY <1>2, <1>3, <1>5, <4>1, <4>3, <5>1 DEF IsQuietest
        <5>3. l = k
          BY <5>2
        <5> HIDE DEF l
        <5> QED  BY <1>1, <3>2, <5>2, <5>3
      <4> HIDE DEF l
      <4> QED  BY <4>1, <4>2, <4>3
    <3>3. CASE x \notin {j, j + 1}
      BY <1>1, <1>2, <1>3, <1>5, <2>1, <2>2, <3>3 DEF IsQuietest
    <3> QED  BY <3>1, <3>2, <3>3
  <2>4. IsQuietest(b, l)
    BY <1>3, <2>2, <2>3 DEF IsQuietest
  <2> QED  BY <1>2, <2>2, <2>4 DEF HasQuietest, b
<1> QED  BY <1>1, <1>4, <1>5

\* It carries the highest reading one place on, and leaves the places at the end.
LEMMA ComparedRises ==
    ASSUME NEW n \in Nat, NEW a \in Arrays(n), NEW i \in 1..n, NEW j \in 1..(n - i),
           Settled(a, n, i - 1), Risen(a, j - 1)
    PROVE  LET b == Sort!Compared(a, j) IN Settled(b, n, i - 1) /\ Risen(b, j)
<1> DEFINE b == Sort!Compared(a, j)
<1>1. /\ b \in Arrays(n) /\ j \in 1..n /\ j + 1 \in 1..n
      /\ \A x \in 1..n : x \notin {j, j + 1} => b[x] = a[x]
      /\ \/ a[j + 1].rssi < a[j].rssi /\ b[j] = a[j + 1] /\ b[j + 1] = a[j]
         \/ a[j].rssi <= a[j + 1].rssi /\ b = a
  BY ComparedArray
<1>2. \A x \in 1..n : a[x].rssi \in Nat /\ b[x].rssi \in Nat
  BY <1>1 DEF Arrays, Samples
<1>3. ASSUME NEW x \in (n - (i - 1) + 1)..n, NEW y \in 1..x
      PROVE  b[y].rssi <= b[x].rssi
  <2>1. x \in 1..n /\ x > j + 1 /\ b[x] = a[x]
    BY <1>1
  <2>2. \A z \in 1..x : a[z].rssi <= a[x].rssi
    BY DEF Settled
  <2>3. \E z \in 1..x : b[y] = a[z]
    BY <1>1, <2>1
  <2> QED  BY <2>1, <2>2, <2>3
<1>4. ASSUME NEW y \in 1..j PROVE b[y].rssi <= b[j + 1].rssi
  <2>1. y < j => a[y].rssi <= a[j].rssi
    BY DEF Risen
  <2> HIDE DEF b
  <2>2. CASE b = a
    BY <1>1, <1>2, <2>1, <2>2
  <2>3. CASE a[j + 1].rssi < a[j].rssi /\ b[j] = a[j + 1] /\ b[j + 1] = a[j]
    BY <1>1, <1>2, <2>1, <2>3
  <2> QED  BY <1>1, <2>2, <2>3
<1> HIDE DEF b
<1>5. Settled(b, n, i - 1) /\ Risen(b, j)
  BY <1>3, <1>4 DEF Settled, Risen
<1> QED  BY <1>5 DEF b

\* So the i-th pass puts the i-th highest reading in its place.
LEMMA PassSettles ==
    ASSUME NEW n \in Nat \ {0}, NEW a \in Arrays(n), NEW i \in 1..n, NEW m,
           Settled(a, n, i - 1), HasQuietest(a, m)
    PROVE  LET b == Sort!Pass(a, i) IN
           b \in Arrays(n) /\ Settled(b, n, i) /\ HasQuietest(b, m)
<1>1. PICK f \in [0..(n - i) -> Arrays(n)] :
           /\ f[0] = a
           /\ \A j \in 1..(n - i) : f[j] = Sort!Compared(f[j - 1], j)
           /\ Sort!Pass(a, i) = f[n - i]
  BY PassLoop
<1> DEFINE T == {j \in 0..(n - i) : /\ Settled(f[j], n, i - 1) /\ Risen(f[j], j)
                                    /\ HasQuietest(f[j], m)}
<1>2. n - i \in T
  <2>1. 0 \in T
    BY <1>1 DEF Risen
  <2>2. ASSUME NEW j \in 1..(n - i), j - 1 \in T PROVE j \in T
    <3>1. f[j - 1] \in Arrays(n) /\ f[j] = Sort!Compared(f[j - 1], j) /\ j \in 1..(n - 1)
      BY <1>1
    <3>2. Settled(f[j - 1], n, i - 1) /\ Risen(f[j - 1], j - 1) /\ HasQuietest(f[j - 1], m)
      BY <2>2
    <3> QED  BY <3>1, <3>2, ComparedRises, ComparedQuietest
  <2>3. n - i \in Nat
    OBVIOUS
  <2> HIDE DEF T
  <2> QED  BY <2>1, <2>2, <2>3, Counting
<1>3. f[n - i] \in Arrays(n)
  BY <1>1
<1>4. Settled(f[n - i], n, i)
  <2> DEFINE b == f[n - i]
  <2>1. b \in [1..n -> Samples]
    BY <1>3 DEF Arrays
  <2>2. Settled(b, n, i - 1) /\ Risen(b, n - i)
    BY <1>2
  <2> HIDE DEF b
  <2>3. ASSUME NEW x \in (n - i + 1)..n, NEW y \in 1..x PROVE b[y].rssi <= b[x].rssi
    <3>1. y \in 1..n /\ b[y].rssi \in Nat
      BY <2>1 DEF Samples
    <3>2. CASE x > n - i + 1
      <4>1. x \in (n - (i - 1) + 1)..n
        BY <3>2
      <4> QED  BY <2>2, <4>1 DEF Settled
    <3>3. CASE x = n - i + 1 /\ y = x
      BY <3>1, <3>3
    <3>4. CASE x = n - i + 1 /\ y < x
      <4>1. y \in 1..(n - i)
        BY <3>4
      <4>2. b[y].rssi <= b[(n - i) + 1].rssi
        BY <2>2, <4>1 DEF Risen
      <4> QED  BY <3>4, <4>2
    <3> QED  BY <3>2, <3>3, <3>4
  <2>4. Settled(b, n, i)
    BY <2>3, Zenon DEF Settled
  <2> QED  BY <2>4 DEF b
<1> QED  BY <1>1, <1>2, <1>3, <1>4

\* A pass yields an array of the same length.
LEMMA PassArray ==
    ASSUME NEW n \in Nat \ {0}, NEW a \in Arrays(n), NEW i \in 1..n
    PROVE  Sort!Pass(a, i) \in Arrays(n)
<1>1. n - i \in 0..(n - i)
  OBVIOUS
<1> QED  BY <1>1, PassLoop

\* After its passes the array is in order and has kept the quietest measurement.
LEMMA SortedLoop ==
    ASSUME NEW n \in Nat \ {0}, NEW a \in Arrays(n), NEW m, HasQuietest(a, m)
    PROVE  LET b == Sort!BubbleSorted(a) IN
           b \in Arrays(n) /\ Settled(b, n, n) /\ HasQuietest(b, m)
<1> DEFINE step == [i \in 1..n |-> [b \in Arrays(n) |-> Sort!Pass(b, i)]]
           Body(f) == [i \in 0..n |-> IF i = 0 THEN a ELSE Sort!Pass(f[i - 1], i)]
<1>1. step \in [1..n -> [Arrays(n) -> Arrays(n)]]
  BY PassArray
<1>2. PICK f : IsLoop(f, n, Arrays(n), a, step)
  <2> HIDE DEF step
  <2> QED  BY <1>1, LoopExists
<1>3. ASSUME NEW i \in 1..n PROVE f[i] = Sort!Pass(f[i - 1], i)
  <2>1. f[i - 1] \in Arrays(n) /\ f[i] = step[i][f[i - 1]]
    <3> HIDE DEF step
    <3>1. i - 1 \in 0..n
      OBVIOUS
    <3> QED  BY <1>2, <3>1 DEF IsLoop
  <2> QED  BY <2>1
<1>4. f = Body(f)
  <2> HIDE DEF step
  <2>1. f = [i \in 0..n |-> f[i]] /\ f[0] = a
    BY <1>2 DEF IsLoop
  <2>2. ASSUME NEW i \in 0..n PROVE f[i] = IF i = 0 THEN a ELSE Sort!Pass(f[i - 1], i)
    <3>1. CASE i = 0
      BY <2>1, <3>1
    <3>2. CASE i # 0
      BY <1>3, <3>2
    <3> QED  BY <3>1, <3>2
  <2> QED  BY <2>1, <2>2
<1>5. PICK g : g = Body(g) /\ Sort!BubbleSorted(a) = g[n]
  <2> DEFINE after == CHOOSE g : g = Body(g)
  <2>1. after = Body(after)
    <3> HIDE DEF Body
    <3> QED  BY <1>4
  <2>2. Sort!BubbleSorted(a) = after[n]
    BY ArrayLength DEF Sort!BubbleSorted
  <2> HIDE DEF after
  <2> QED  BY <2>1, <2>2
<1>6. g[0] = a /\ \A i \in 1..n : g[i] = Sort!Pass(g[i - 1], i)
  BY <1>5
<1> DEFINE T == {i \in 0..n : /\ g[i] \in Arrays(n)
                              /\ Settled(g[i], n, i) /\ HasQuietest(g[i], m)}
<1>7. n \in T
  <2>1. 0 \in T
    BY <1>6 DEF Settled
  <2>2. ASSUME NEW i \in 1..n, i - 1 \in T PROVE i \in T
    BY <1>6, <2>2, PassSettles
  <2> HIDE DEF T
  <2> QED  BY <2>1, <2>2, Counting
<1> QED  BY <1>5, <1>7

\* The channel that Quietest takes is that of the quietest measurement.
LEMMA QuietestIsTheOne ==
    ASSUME NEW n \in Nat, NEW a \in Arrays(n), NEW k, IsQuietest(a, k)
    PROVE  Quietest(a) = a[k].channel
<1>1. DOMAIN a = 1..n /\ \A x \in 1..n : a[x].rssi \in Nat
  BY DEF Arrays, Samples
<1>2. \A l : IsQuietest(a, l) => l = k
  BY <1>1 DEF IsQuietest
<1>3. \E i \in DOMAIN a : \A j \in DOMAIN a : \/ a[i].rssi < a[j].rssi
                                              \/ a[i].rssi = a[j].rssi /\ i <= j
  BY DEF IsQuietest
<1> DEFINE best == CHOOSE i \in DOMAIN a :
                       \A j \in DOMAIN a : \/ a[i].rssi < a[j].rssi
                                           \/ a[i].rssi = a[j].rssi /\ i <= j
<1>4. IsQuietest(a, best)
  BY <1>3 DEF IsQuietest
<1> QED  BY <1>2, <1>4 DEF Quietest

-----------------------------------------------------------------------------
(* Theorems *)

\* Outside a scan the module listens on the channel that the task believes in and that it
\* stored, whatever the readings were and whenever the charger was restarted.
THEOREM RadioIsTuned == Spec => []RadioFollowsConfig
<1>1. ScanInv => RadioFollowsConfig
  BY DEF ScanInv
<1>2. QED  BY <1>1, ScanInvariant, PTL

\* A scan begun inside the band never measures, and so never takes, a channel outside it,
\* also when another scan is asked for while it runs.
THEOREM ScanInBand == Spec => []ScanStaysInBand
<1>1. ScanInv => ScanStaysInBand
  BY DEF ScanInv
<1>2. QED  BY <1>1, ScanInvariant, PTL

\* The sort that ends a scan in the code puts the quietest channel first, the one measured
\* first among equals, as Quietest says, for any readings and any number of them.
THEOREM SortTakesQuietest ==
    ASSUME NEW arr \in Seq(Samples), arr # <<>>
    PROVE  Sort!bubbleSortBestChannel(arr) = Quietest(arr)
<1> DEFINE n == Len(arr)
           b == Sort!BubbleSorted(arr)
<1>1. n \in Nat \ {0} /\ arr \in Arrays(n)
  BY DEF Arrays
<1>2. PICK k : IsQuietest(arr, k)
  BY QuietestExists DEF IsQuietest
<1>3. b \in Arrays(n) /\ Settled(b, n, n) /\ HasQuietest(b, arr[k])
  <2> HIDE DEF n
  <2>1. HasQuietest(arr, arr[k])
    BY <1>2 DEF HasQuietest
  <2> QED  BY <1>1, <2>1, SortedLoop
<1>4. PICK l : IsQuietest(b, l) /\ b[l] = arr[k]
  BY <1>3 DEF HasQuietest
<1> HIDE DEF n, b
<1>5. l = 1
  <2>1. DOMAIN b = 1..n /\ \A x \in 1..n : b[x].rssi \in Nat
    BY <1>3 DEF Arrays, Samples
  <2>2. 1 \in 1..n /\ l \in 1..n /\ b[1].rssi <= b[l].rssi
    BY <1>1, <1>3, <1>4, <2>1 DEF Settled, IsQuietest
  <2> QED  BY <1>4, <2>1, <2>2 DEF IsQuietest
<1>6. Quietest(arr) = arr[k].channel
  BY <1>1, <1>2, QuietestIsTheOne
<1> QED  BY <1>4, <1>5, <1>6 DEF Sort!bubbleSortBestChannel, b

=============================================================================
