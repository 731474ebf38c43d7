------------------------- MODULE ChargerRelay_proofs -------------------------
(***************************************************************************)
(* The relay of orders by the charger, for any queue length, number of     *)
(* looks at the acknowledgement, and number of inputs: the mower runs      *)
(* orders in the order they came, and the tasks implement OrderRelay.      *)
(*                                                                         *)
(* The argument numbers the orders as they are accepted.  An order is in   *)
(* one line, the frames on the air followed by loraQueue, whose numbers    *)
(* rise and are above the last one carried out; a success is backed by an  *)
(* acknowledgement that no other success used.                             *)
(***************************************************************************)
EXTENDS ChargerTypes_proofs

-----------------------------------------------------------------------------
(* The line of orders: frames on the air, then entries of the queue *)

\* An order is above low, and at most high.
Live(f, low, high) == f.id = "order" => low < f.n /\ f.n <= high

\* Where f and g are orders, f is the earlier.
Before(f, g) == f.id = "order" /\ g.id = "order" => f.n < g.n

Rising(line) == \A i, j \in 1..Len(line) : i < j => Before(line[i], line[j])

LineOf(air, queue, low, high) ==
    /\ \A i \in 1..Len(air) : Live(air[i], low, high)
    /\ \A i \in 1..Len(queue) : Live(queue[i], low, high)
    /\ Rising(air) /\ Rising(queue)
    /\ \A i \in 1..Len(air), j \in 1..Len(queue) : Before(air[i], queue[j])

\* Frames to the mower and entries of the queue.
Things ==
    [id : {"order", "hall_ack", "config", "gnss", "scan", "poll", "wifi", "mqtt",
           "apply", "lora"},
     n : Nat]

\* The rest of a line that rises, rises, above its head.
LEMMA RisingTail ==
    ASSUME NEW s \in Seq(Things), s # <<>>, Rising(s)
    PROVE  /\ Rising(Tail(s)) /\ Len(Tail(s)) = Len(s) - 1
           /\ \A i \in 1..Len(Tail(s)) :
                  i + 1 \in 1..Len(s) /\ Tail(s)[i] = s[i + 1] /\ Before(Head(s), Tail(s)[i])
           /\ Head(s) = s[1] /\ 1 \in 1..Len(s)
<1>1. /\ Len(s) \in Nat /\ Len(s) > 0 /\ Len(Tail(s)) = Len(s) - 1 /\ Head(s) = s[1]
      /\ \A i \in 1..Len(Tail(s)) : Tail(s)[i] = s[i + 1]
  OBVIOUS
<1>2. \A i \in 1..Len(Tail(s)) : i + 1 \in 1..Len(s) /\ 1 < i + 1
  BY <1>1
<1>3. 1 \in 1..Len(s)
  BY <1>1
<1>4. \A i \in 1..Len(Tail(s)) : Before(Head(s), Tail(s)[i])
  BY <1>1, <1>2, <1>3 DEF Rising
<1>5. Rising(Tail(s))
  <2>1. ASSUME NEW i \in 1..Len(Tail(s)), NEW j \in 1..Len(Tail(s)), i < j
        PROVE  Before(Tail(s)[i], Tail(s)[j])
    <3>1. i + 1 \in 1..Len(s) /\ j + 1 \in 1..Len(s) /\ i + 1 < j + 1
      BY <1>1, <2>1
    <3>2. Before(s[i + 1], s[j + 1])
      BY <3>1 DEF Rising
    <3>3. QED  BY <1>1, <3>2
  <2>2. QED  BY <2>1 DEF Rising
<1>6. QED  BY <1>1, <1>2, <1>3, <1>4, <1>5

\* What is put after all that a line holds keeps it rising.
LEMMA RisingAppend ==
    ASSUME NEW s \in Seq(Things), Rising(s), NEW f \in Things,
           \A i \in 1..Len(s) : Before(s[i], f)
    PROVE  /\ Rising(Append(s, f)) /\ Len(Append(s, f)) = Len(s) + 1
           /\ \A i \in 1..Len(Append(s, f)) :
                  \/ i \in 1..Len(s) /\ Append(s, f)[i] = s[i]
                  \/ Append(s, f)[i] = f
<1>1. /\ Len(s) \in Nat /\ Len(Append(s, f)) = Len(s) + 1 /\ Append(s, f)[Len(s) + 1] = f
      /\ \A i \in 1..Len(s) : Append(s, f)[i] = s[i]
  OBVIOUS
<1>2. \A i \in 1..Len(Append(s, f)) : i \in 1..Len(s) \/ i = Len(s) + 1
  BY <1>1
<1>3. Rising(Append(s, f))
  <2>1. ASSUME NEW i \in 1..Len(Append(s, f)), NEW j \in 1..Len(Append(s, f)), i < j
        PROVE  Before(Append(s, f)[i], Append(s, f)[j])
    <3>1. i \in 1..Len(s)
      BY <1>1, <2>1
    <3>2. CASE j \in 1..Len(s)
      BY <1>1, <2>1, <3>1, <3>2 DEF Rising
    <3>3. CASE j = Len(s) + 1
      BY <1>1, <3>1, <3>3
    <3>4. QED  BY <1>2, <3>2, <3>3
  <2>2. QED  BY <2>1 DEF Rising
<1>4. QED  BY <1>1, <1>2, <1>3

\* The first frame is taken from the air; when it is an order, the rest is above it.
LEMMA AirTail ==
    ASSUME NEW air \in Seq(Things), NEW queue \in Seq(Things), NEW low \in Nat, NEW high \in Nat,
           LineOf(air, queue, low, high), air # <<>>
    PROVE  /\ LineOf(Tail(air), queue, low, high)
           /\ Head(air).id = "order" =>
                  /\ low < Head(air).n /\ Head(air).n <= high
                  /\ LineOf(Tail(air), queue, Head(air).n, high)
<1>1. /\ Rising(Tail(air)) /\ Head(air) = air[1] /\ 1 \in 1..Len(air)
      /\ \A i \in 1..Len(Tail(air)) :
             i + 1 \in 1..Len(air) /\ Tail(air)[i] = air[i + 1] /\ Before(Head(air), Tail(air)[i])
  BY RisingTail DEF LineOf
<1>2. LineOf(Tail(air), queue, low, high)
  BY <1>1 DEF LineOf
<1>3. ASSUME Head(air).id = "order"
      PROVE  /\ low < Head(air).n /\ Head(air).n <= high
             /\ LineOf(Tail(air), queue, Head(air).n, high)
  <2>1. low < Head(air).n /\ Head(air).n <= high
    BY <1>1, <1>3 DEF LineOf, Live
  <2>2. \A i \in 1..Len(Tail(air)) : Live(Tail(air)[i], Head(air).n, high)
    BY <1>1, <1>3 DEF LineOf, Live, Before
  <2>3. \A i \in 1..Len(queue) : Live(queue[i], Head(air).n, high)
    BY <1>1, <1>3 DEF LineOf, Live, Before
  <2>4. QED  BY <1>2, <2>1, <2>2, <2>3 DEF LineOf
<1>4. QED  BY <1>2, <1>3

\* The first entry leaves the queue, with or without its frame getting on the air.
LEMMA HandOver ==
    ASSUME NEW air \in Seq(Things), NEW queue \in Seq(Things), NEW low \in Nat, NEW high \in Nat,
           LineOf(air, queue, low, high), queue # <<>>
    PROVE  /\ LineOf(air, Tail(queue), low, high)
           /\ LineOf(Append(air, Head(queue)), Tail(queue), low, high)
<1>1. /\ Rising(Tail(queue)) /\ Head(queue) = queue[1] /\ 1 \in 1..Len(queue)
      /\ \A i \in 1..Len(Tail(queue)) :
             /\ i + 1 \in 1..Len(queue) /\ Tail(queue)[i] = queue[i + 1]
             /\ Before(Head(queue), Tail(queue)[i])
  BY RisingTail DEF LineOf
<1>2. LineOf(air, Tail(queue), low, high)
  BY <1>1 DEF LineOf
<1>3. Head(queue) \in Things
  OBVIOUS
<1>4. \A i \in 1..Len(air) : Before(air[i], Head(queue))
  BY <1>1 DEF LineOf
<1>5. /\ Rising(Append(air, Head(queue)))
      /\ \A i \in 1..Len(Append(air, Head(queue))) :
             \/ i \in 1..Len(air) /\ Append(air, Head(queue))[i] = air[i]
             \/ Append(air, Head(queue))[i] = Head(queue)
  BY <1>3, <1>4, RisingAppend DEF LineOf
<1>6. Live(Head(queue), low, high)
  BY <1>1 DEF LineOf
<1>7. QED
  BY <1>1, <1>2, <1>5, <1>6 DEF LineOf

\* Frames and entries that are no orders do not matter.
LEMMA Bystander ==
    ASSUME NEW air \in Seq(Things), NEW queue \in Seq(Things), NEW low \in Nat, NEW high \in Nat,
           LineOf(air, queue, low, high), NEW f \in Things, f.id # "order"
    PROVE  LineOf(Append(air, f), queue, low, high) /\ LineOf(air, Append(queue, f), low, high)
<1>1. \A g \in Things : Before(f, g) /\ Before(g, f)
  BY DEF Before
<1>2. Live(f, low, high)
  BY DEF Live
<1>3. /\ \A i \in 1..Len(air) : air[i] \in Things
      /\ \A i \in 1..Len(queue) : queue[i] \in Things
  OBVIOUS
<1>4. /\ Rising(Append(air, f))
      /\ \A i \in 1..Len(Append(air, f)) :
             \/ i \in 1..Len(air) /\ Append(air, f)[i] = air[i]
             \/ Append(air, f)[i] = f
  BY <1>1, <1>3, RisingAppend DEF LineOf
<1>5. /\ Rising(Append(queue, f))
      /\ \A i \in 1..Len(Append(queue, f)) :
             \/ i \in 1..Len(queue) /\ Append(queue, f)[i] = queue[i]
             \/ Append(queue, f)[i] = f
  BY <1>1, <1>3, RisingAppend DEF LineOf
<1>6. LineOf(Append(air, f), queue, low, high)
  BY <1>1, <1>2, <1>3, <1>4 DEF LineOf
<1>7. LineOf(air, Append(queue, f), low, high)
  BY <1>1, <1>2, <1>3, <1>5 DEF LineOf
<1>8. QED  BY <1>6, <1>7

\* The next order joins the queue, or is given up.
LEMMA NewOrder ==
    ASSUME NEW air \in Seq(Things), NEW queue \in Seq(Things), NEW low \in Nat, NEW high \in Nat,
           LineOf(air, queue, low, high), low <= high
    PROVE  /\ LineOf(air, Append(queue, Order(high + 1)), low, high + 1)
           /\ LineOf(air, queue, low, high + 1)
<1> DEFINE new == Order(high + 1)
<1>1. new \in Things /\ new.id = "order" /\ new.n = high + 1
  BY DEF Order, Things
<1>2. ASSUME NEW f \in Things, Live(f, low, high)
      PROVE  Before(f, new) /\ Live(f, low, high + 1)
  BY <1>1, <1>2 DEF Live, Before, Things
<1>3. /\ \A i \in 1..Len(air) : air[i] \in Things
      /\ \A i \in 1..Len(queue) : queue[i] \in Things
  OBVIOUS
<1>4. LineOf(air, queue, low, high + 1)
  BY <1>2, <1>3 DEF LineOf
<1>5. \A i \in 1..Len(queue) : Before(queue[i], new)
  BY <1>2, <1>3 DEF LineOf
<1> HIDE DEF new
<1>6. /\ Rising(Append(queue, new))
      /\ \A i \in 1..Len(Append(queue, new)) :
             \/ i \in 1..Len(queue) /\ Append(queue, new)[i] = queue[i]
             \/ Append(queue, new)[i] = new
  BY <1>1, <1>5, RisingAppend DEF LineOf
<1>7. Live(new, low, high + 1)
  BY <1>1 DEF Live
<1>8. \A i \in 1..Len(air) : Before(air[i], new)
  BY <1>2, <1>3 DEF LineOf
<1>9. LineOf(air, Append(queue, new), low, high + 1)
  BY <1>4, <1>6, <1>7, <1>8 DEF LineOf
<1>10. QED  BY <1>4, <1>9 DEF new

-----------------------------------------------------------------------------
(* The inductive invariant *)

\* The last order given to loraQueue, or given up.
Issued == IF mqttPc = "send" THEN accepted - 1 ELSE accepted

\* The broker waits for the answer to the last order, or has it.
AnswersFollow == answered = IF mqttPc \in {"send", "wait"} THEN accepted - 1 ELSE accepted

\* Orders under way are above the last carried out, and in the order they came.
LineRises == LineOf(toMower, loraQueue, lastRun, Issued)

RunsFollow == lastRun <= Issued /\ executed <= lastRun

\* An acknowledgement noted, and one received, that may become a success.
Noted == IF mqttPc \in {"send", "wait"} /\ loraAckResult = "ok" THEN 1 ELSE 0
Received == IF uart = "ack" THEN 1 ELSE 0

CreditsFollow == credited + Noted + Received <= executed

\* A signal waits only between the callback and the dispatch.
SignalsFollow == mqttCmdQueue = IF mqttPc = "receive" THEN 1 ELSE 0

RelayInv == AnswersFollow /\ LineRises /\ RunsFollow /\ CreditsFollow /\ SignalsFollow

relayTask == <<mqttPc, accepted, answered, credited, mqttCmdQueue>>

\* Ranges used throughout.
LEMMA RelayTyped ==
    ASSUME TypeOK, RelayInv
    PROVE  /\ toMower \in Seq(Things) /\ loraQueue \in Seq(Things)
           /\ Issued \in Nat /\ lastRun \in Nat /\ executed \in Nat /\ credited \in Nat
           /\ accepted \in Nat /\ answered \in Nat
<1>1. QueueEntries \subseteq Things /\ MowerFrames \subseteq Things
  BY DEF QueueEntries, MowerFrames, Things
<1>2. toMower \in Seq(Things) /\ loraQueue \in Seq(Things)
  BY <1>1 DEF TypeOK, QueuesTyped
<1>3. /\ lastRun \in Nat /\ executed \in Nat /\ credited \in Nat
      /\ accepted \in Nat /\ answered \in Nat
  BY DEF TypeOK, MowerTyped, MqttTyped
<1>4. Issued \in Nat
  BY <1>3 DEF RelayInv, RunsFollow, Issued
<1>5. QED  BY <1>2, <1>3, <1>4

\* Outside mqtt_config_task and the mower, what matters is the line and what is received.
LEMMA ElsewhereKeeps ==
    ASSUME TypeOK, RelayInv, UNCHANGED <<relayTask, lastRun, executed>>,
           LineOf(toMower', loraQueue', lastRun, Issued),
           credited + Noted' + Received' <= executed
    PROVE  RelayInv'
<1>1. AnswersFollow'
  BY DEF RelayInv, AnswersFollow, relayTask
<1>2. Issued' = Issued
  BY DEF Issued, relayTask
<1>3. LineRises'
  BY <1>2 DEF LineRises
<1>4. RunsFollow'
  BY <1>2 DEF RelayInv, RunsFollow
<1>5. CreditsFollow' /\ SignalsFollow'
  BY DEF RelayInv, CreditsFollow, SignalsFollow, relayTask
<1>6. QED  BY <1>1, <1>3, <1>4, <1>5 DEF RelayInv

\* An entry that is no order is queued or given up.
LEMMA SendKeeps ==
    ASSUME TypeOK, RelayInv, NEW id \in {"hall_ack", "config", "gnss", "scan"},
           SendOrGiveUp(Command(id))
    PROVE  LineOf(toMower, loraQueue', lastRun, Issued)
<1>1. Command(id) \in Things /\ Command(id).id # "order"
  BY DEF Command, Things
<1>2. LineOf(toMower, loraQueue, lastRun, Issued)
  BY DEF RelayInv, LineRises
<1>3. LineOf(toMower, Append(loraQueue, Command(id)), lastRun, Issued)
  BY <1>1, <1>2, RelayTyped, Bystander
<1>4. loraQueue' = loraQueue \/ loraQueue' = Append(loraQueue, Command(id))
  BY DEF SendOrGiveUp
<1>5. QED  BY <1>2, <1>3, <1>4

\* A frame that is no order is heard or lost.
LEMMA TransmitKeeps ==
    ASSUME TypeOK, RelayInv, NEW f \in Things, f.id # "order", Transmit(f)
    PROVE  LineOf(toMower', loraQueue, lastRun, Issued)
<1>1. LineOf(toMower, loraQueue, lastRun, Issued)
  BY DEF RelayInv, LineRises
<1>2. LineOf(Append(toMower, f), loraQueue, lastRun, Issued)
  BY <1>1, RelayTyped, Bystander
<1>3. toMower' = toMower \/ toMower' = Append(toMower, f)
  BY DEF Transmit
<1>4. QED  BY <1>1, <1>2, <1>3

\* What stands for no frame is not a frame.
LEMMA NoneIsNoReply == None # "ack"
BY NoneAssumption

\* An acknowledgement that is dropped, or noted, is not counted twice.
LEMMA CreditsKeep ==
    ASSUME TypeOK, RelayInv, UNCHANGED relayTask,
           \/ UNCHANGED <<uart, loraAckResult>>
           \/ uart' # "ack" /\ UNCHANGED loraAckResult
           \/ uart' # "ack" /\ (loraAckResult' = "ok" => uart = "ack" \/ loraAckResult = "ok")
    PROVE  credited + Noted' + Received' <= executed
<1>1. credited \in Nat /\ executed \in Nat /\ credited + Noted + Received <= executed
  BY RelayTyped DEF RelayInv, CreditsFollow
<1>2. Noted \in 0..1 /\ Received \in 0..1 /\ Noted' \in 0..1 /\ Received' \in 0..1
  BY DEF Noted, Received
<1>3. Noted' + Received' <= Noted + Received
  BY <1>2 DEF Noted, Received, relayTask
<1>4. \A c, e \in Nat, a, b, x, y \in 0..1 :
          c + a + b <= e /\ x + y <= a + b => c + x + y <= e
  OBVIOUS
<1>5. QED  BY <1>1, <1>2, <1>3, <1>4

\* mqtt_config_task: an order joins the line with the next number, and is answered.
LEMMA MqttKeeps ==
    ASSUME TypeOK, RelayInv, MqttNext
    PROVE  RelayInv'
<1>1. /\ toMower \in Seq(Things) /\ loraQueue \in Seq(Things)
      /\ Issued \in Nat /\ lastRun \in Nat /\ executed \in Nat /\ credited \in Nat
      /\ accepted \in Nat /\ answered \in Nat /\ mqttCmdQueue \in 0..5
      /\ LineOf(toMower, loraQueue, lastRun, Issued)
  BY RelayTyped DEF TypeOK, MqttTyped, RelayInv, LineRises
<1>2. Noted \in 0..1 /\ Received \in 0..1 /\ Noted' \in 0..1 /\ Received' \in 0..1
  BY DEF Noted, Received
<1>3. UNCHANGED <<toMower, lastRun, executed, uart>>
  BY DEF MqttNext, MqttBoots, MqttReconnect, MqttLoop, MqttReceive, RelayOrder, RelayPoll,
         AcceptUpdate, MqttStatus, mowerVars
<1>4. CASE MqttBoots \/ MqttReconnect \/ AcceptUpdate \/ MqttStatus \/ MqttLoop
  <2>1. /\ mqttPc \notin {"send", "wait"} /\ mqttPc' \notin {"send", "wait"}
        /\ UNCHANGED <<accepted, answered, credited, loraQueue, loraAckResult>>
    BY <1>4 DEF MqttBoots, MqttReconnect, AcceptUpdate, MqttStatus, MqttLoop
  <2>2. SignalsFollow'
    BY <1>4 DEF RelayInv, SignalsFollow, MqttBoots, MqttReconnect, AcceptUpdate, MqttStatus,
                MqttLoop
  <2>3. Issued' = Issued
    BY <2>1 DEF Issued
  <2>4. LineRises' /\ RunsFollow'
    BY <1>3, <2>1, <2>3 DEF RelayInv, LineRises, RunsFollow
  <2>5. AnswersFollow' /\ CreditsFollow'
    BY <1>3, <2>1 DEF RelayInv, AnswersFollow, CreditsFollow, Noted, Received
  <2>6. QED  BY <2>2, <2>4, <2>5 DEF RelayInv
<1>5. CASE MqttReceive
  <2>1. /\ mqttPc = "receive" /\ mqttCmdQueue' = mqttCmdQueue - 1
        /\ mqttPc' \in {"send", "ota", "status"} /\ UNCHANGED <<answered, credited, loraQueue>>
        /\ IF mqttRxBuffer = "order"
           THEN mqttPc' = "send" /\ loraAckResult' = "pending" /\ accepted' = accepted + 1
           ELSE mqttPc' # "send" /\ UNCHANGED <<loraAckResult, accepted>>
    BY <1>5 DEF MqttReceive, BeginRelay
  <2>2. Issued' = Issued
    BY <1>1, <2>1 DEF Issued
  <2>3. LineRises' /\ RunsFollow'
    BY <1>3, <2>1, <2>2 DEF RelayInv, LineRises, RunsFollow
  <2>4. AnswersFollow'
    BY <1>1, <2>1 DEF RelayInv, AnswersFollow
  <2>5. CreditsFollow'
    BY <1>3, <2>1 DEF RelayInv, CreditsFollow, Noted, Received
  <2>6. SignalsFollow'
    BY <1>1, <2>1 DEF RelayInv, SignalsFollow
  <2>7. QED  BY <2>3, <2>4, <2>5, <2>6 DEF RelayInv
<1>6. CASE RelayOrder
  <2>1. /\ mqttPc = "send" /\ mqttPc' = "wait"
        /\ UNCHANGED <<accepted, answered, credited, loraAckResult, mqttCmdQueue>>
        /\ loraQueue' = loraQueue \/ loraQueue' = Append(loraQueue, Order(accepted))
    BY <1>6 DEF RelayOrder, SendOrGiveUp
  <2>2. Issued' = Issued + 1 /\ accepted = Issued + 1
    BY <1>1, <2>1 DEF Issued
  <2>3. LineRises'
    <3>1. lastRun <= Issued
      BY DEF RelayInv, RunsFollow
    <3>2. /\ LineOf(toMower, Append(loraQueue, Order(Issued + 1)), lastRun, Issued + 1)
          /\ LineOf(toMower, loraQueue, lastRun, Issued + 1)
      BY <1>1, <3>1, NewOrder
    <3>3. QED  BY <1>3, <2>1, <2>2, <3>2 DEF LineRises
  <2>4. RunsFollow'
    BY <1>1, <1>3, <2>2 DEF RelayInv, RunsFollow
  <2>5. AnswersFollow' /\ CreditsFollow' /\ SignalsFollow'
    BY <1>3, <2>1 DEF RelayInv, AnswersFollow, CreditsFollow, SignalsFollow, Noted, Received
  <2>6. QED  BY <2>3, <2>4, <2>5 DEF RelayInv
<1>7. CASE RelayPoll
  <2>1. mqttPc = "wait" /\ UNCHANGED <<accepted, loraAckResult, mqttCmdQueue, loraQueue>>
    BY <1>7 DEF RelayPoll
  <2>2. \/ UNCHANGED <<mqttPc, answered, credited>>
        \/ /\ mqttPc' = "status" /\ answered' = answered + 1
           /\ credited' = IF loraAckResult = "ok" THEN credited + 1 ELSE credited
    BY <1>7 DEF RelayPoll
  <2>3. Issued' = Issued
    BY <2>1, <2>2 DEF Issued
  <2>4. LineRises' /\ RunsFollow'
    BY <1>3, <2>1, <2>3 DEF RelayInv, LineRises, RunsFollow
  <2>5. AnswersFollow' /\ SignalsFollow'
    BY <1>1, <2>1, <2>2 DEF RelayInv, AnswersFollow, SignalsFollow
  <2>6. CreditsFollow'
    BY <1>1, <1>2, <1>3, <2>1, <2>2 DEF RelayInv, CreditsFollow, Noted, Received
  <2>7. QED  BY <2>4, <2>5, <2>6 DEF RelayInv
<1>8. QED  BY <1>4, <1>5, <1>6, <1>7 DEF MqttNext

\* lora_config_task: the head of the queue gets on the air or is lost; what is received
\* is dropped or noted.
LEMMA LoraKeeps ==
    ASSUME TypeOK, RelayInv, LoraNext
    PROVE  RelayInv'
<1>1. UNCHANGED <<relayTask, lastRun, executed>>
  BY DEF LoraNext, LoraReceive, LoraScan, LoraHeartbeat, LoraReply, LoraInbound,
         elsewhere, mqttVars, mowerVars, relayTask
<1>2. credited + Noted' + Received' <= executed
  <2>1. UNCHANGED relayTask
    BY <1>1
  <2>2. CASE LoraReceive
    <3>1. UNCHANGED uart \/ uart' = None
      <4>1. CASE loraQueue = <<>>
        BY <2>2, <4>1 DEF LoraReceive
      <4>2. CASE loraQueue # <<>>
        <5>1. Head(loraQueue).id \in {"order", "hall_ack", "config", "scan", "gnss"}
          BY <4>2 DEF TypeOK, QueuesTyped, QueueEntries
        <5>2. HandleCommand(Head(loraQueue))
          BY <2>2, <4>2 DEF LoraReceive
        <5>3. QED  BY <5>1, <5>2 DEF HandleCommand
      <4>3. QED  BY <4>1, <4>2
    <3>2. UNCHANGED loraAckResult
      BY <2>2 DEF LoraReceive
    <3>3. QED  BY <2>1, <3>1, <3>2, NoneIsNoReply, CreditsKeep
  <2>3. CASE LoraScan \/ LoraReply
    <3>1. uart' # "ack" /\ UNCHANGED loraAckResult
      BY <2>3, NoneIsNoReply DEF LoraScan, LoraReply
    <3>2. QED  BY <2>1, <3>1, CreditsKeep
  <2>4. CASE LoraHeartbeat
    BY <2>1, <2>4, CreditsKeep DEF LoraHeartbeat
  <2>5. CASE LoraInbound
    <3>1. \/ UNCHANGED <<uart, loraAckResult>>
          \/ uart' # "ack" /\ (loraAckResult' = "ok" => uart = "ack" \/ loraAckResult = "ok")
      BY <2>5, NoneIsNoReply DEF LoraInbound
    <3>2. QED  BY <2>1, <3>1, CreditsKeep
  <2>6. QED  BY <2>2, <2>3, <2>4, <2>5 DEF LoraNext
<1>3. LineOf(toMower', loraQueue', lastRun, Issued)
  <2>1. /\ LineOf(toMower, loraQueue, lastRun, Issued)
        /\ toMower \in Seq(Things) /\ loraQueue \in Seq(Things)
        /\ Issued \in Nat /\ lastRun \in Nat
    BY RelayTyped DEF RelayInv, LineRises
  <2>2. CASE LoraReceive
    <3>1. CASE loraQueue = <<>>
      BY <2>1, <2>2, <3>1 DEF LoraReceive
    <3>2. CASE loraQueue # <<>>
      <4>1. loraQueue' = Tail(loraQueue) /\ HandleCommand(Head(loraQueue))
        BY <2>2, <3>2 DEF LoraReceive, TakeHead
      <4>2. Head(loraQueue).id \in {"order", "hall_ack", "config", "scan", "gnss"}
        BY <3>2 DEF TypeOK, QueuesTyped, QueueEntries
      <4>3. /\ LineOf(toMower, loraQueue', lastRun, Issued)
            /\ LineOf(Append(toMower, Head(loraQueue)), loraQueue', lastRun, Issued)
        BY <2>1, <3>2, <4>1, HandOver
      <4>4. loraQueue' \in Seq(Things)
        BY <2>1, <3>2, <4>1
      <4>5. ASSUME NEW f \in Things, f.id # "order"
            PROVE  LineOf(Append(toMower, f), loraQueue', lastRun, Issued)
        BY <2>1, <4>3, <4>4, <4>5, Bystander
      <4>6. Command("hall_ack") \in Things /\ Command("apply") \in Things
        BY DEF Command, Things
      <4>7. Command("hall_ack").id # "order" /\ Command("apply").id # "order"
        BY DEF Command
      <4>8. \/ toMower' \in {toMower, Append(toMower, Head(loraQueue))}
            \/ toMower' = Append(toMower, Command("hall_ack"))
            \/ toMower' = Append(toMower, Command("apply"))
        BY <4>1, <4>2 DEF HandleCommand, Transmit
      <4>9. QED  BY <4>3, <4>5, <4>6, <4>7, <4>8
    <3>3. QED  BY <3>1, <3>2
  <2>3. CASE LoraScan \/ LoraReply
    BY <2>1, <2>3 DEF LoraScan, LoraReply
  <2>4. CASE LoraHeartbeat
    <3>1. Command("poll") \in Things /\ Command("poll").id # "order"
      BY DEF Command, Things
    <3>2. QED  BY <2>1, <2>4, <3>1, TransmitKeeps DEF LoraHeartbeat
  <2>5. CASE LoraInbound
    <3>1. UNCHANGED loraQueue \/ SendOrGiveUp(Command("hall_ack"))
      BY <2>5 DEF LoraInbound
    <3>2. UNCHANGED toMower
      BY <2>5 DEF LoraInbound
    <3>3. QED  BY <2>1, <3>1, <3>2, SendKeeps
  <2>6. QED  BY <2>2, <2>3, <2>4, <2>5 DEF LoraNext
<1>4. QED  BY <1>1, <1>2, <1>3, ElsewhereKeeps

\* The mower runs the first order on the air, whose number is the least under way, and
\* sends at most one acknowledgement of it.
LEMMA MowerKeeps ==
    ASSUME TypeOK, RelayInv, MowerNext
    PROVE  RelayInv'
<1>1. /\ LineOf(toMower, loraQueue, lastRun, Issued)
      /\ toMower \in Seq(Things) /\ loraQueue \in Seq(Things)
      /\ Issued \in Nat /\ lastRun \in Nat /\ executed \in Nat /\ credited \in Nat
  BY RelayTyped DEF RelayInv, LineRises
<1>2. CASE GpsNotifies
  <2>1. /\ UNCHANGED <<relayTask, lastRun, executed, toMower, uart, loraAckResult>>
        /\ SendOrGiveUp(Command("gnss"))
    BY <1>2 DEF GpsNotifies, elsewhere, mqttVars, mowerVars, relayTask
  <2>2. QED  BY <2>1, SendKeeps, CreditsKeep, ElsewhereKeeps
<1>3. CASE MowerHall \/ MowerSwitched
  <2>1. /\ UNCHANGED <<relayTask, lastRun, executed, toMower, loraQueue, loraAckResult>>
        /\ UNCHANGED uart \/ uart' # "ack"
    BY <1>3 DEF MowerHall, MowerSwitched, Reply, elsewhere, mqttVars, mowerVars, relayTask
  <2>2. QED  BY <1>1, <2>1, CreditsKeep, ElsewhereKeeps
<1>4. CASE MowerTakes
  <2>1. /\ UNCHANGED <<relayTask, loraQueue, loraAckResult>>
        /\ toMower # <<>> /\ toMower' = Tail(toMower)
    BY <1>4 DEF MowerTakes, elsewhere, mqttVars, relayTask
  <2>2. /\ LineOf(toMower', loraQueue, lastRun, Issued)
        /\ Head(toMower).id = "order" =>
               /\ lastRun < Head(toMower).n /\ Head(toMower).n <= Issued
               /\ LineOf(toMower', loraQueue, Head(toMower).n, Issued)
    BY <1>1, <2>1, AirTail
  <2>3. \/ /\ UNCHANGED <<lastRun, executed>>
           /\ UNCHANGED uart \/ uart' # "ack"
        \/ /\ Head(toMower).id = "order"
           /\ executed' = executed + 1 /\ lastRun' = Head(toMower).n
    BY <1>4 DEF MowerTakes, Reply
  <2>4. CASE UNCHANGED <<lastRun, executed>> /\ (UNCHANGED uart \/ uart' # "ack")
    BY <2>1, <2>2, <2>4, CreditsKeep, ElsewhereKeeps
  <2>5. CASE /\ Head(toMower).id = "order"
             /\ executed' = executed + 1 /\ lastRun' = Head(toMower).n
    <3>1. Issued' = Issued
      BY <2>1 DEF Issued, relayTask
    <3>2. LineRises'
      BY <2>1, <2>2, <2>5, <3>1 DEF LineRises
    <3>3. Head(toMower).n \in Nat
      <4>1. Head(toMower) \in Things
        BY <1>1, <2>1
      <4>2. QED  BY <4>1 DEF Things
    <3>4. RunsFollow'
      BY <1>1, <2>2, <2>5, <3>1, <3>3 DEF RelayInv, RunsFollow
    <3>5. AnswersFollow' /\ SignalsFollow'
      BY <2>1 DEF RelayInv, AnswersFollow, SignalsFollow, relayTask
    <3>6. CreditsFollow'
      <4>1. Noted' = Noted /\ credited' = credited
        BY <2>1 DEF Noted, relayTask
      <4>2. Noted \in 0..1 /\ Received \in 0..1 /\ Received' \in 0..1
        BY DEF Noted, Received
      <4>3. credited + Noted + Received <= executed
        BY DEF RelayInv, CreditsFollow
      <4>4. \A c, e \in Nat, a, b, x \in 0..1 : c + a + b <= e => c + a + x <= e + 1
        OBVIOUS
      <4>5. credited + Noted + Received' <= executed + 1
        BY <1>1, <4>2, <4>3, <4>4
      <4>6. QED  BY <2>5, <4>1, <4>5 DEF CreditsFollow
    <3>7. QED  BY <3>2, <3>4, <3>5, <3>6 DEF RelayInv
  <2>6. QED  BY <2>3, <2>4, <2>5
<1>5. QED  BY <1>2, <1>3, <1>4 DEF MowerNext

\* A restart forgets the queue and what was received; the order it cut off counts as
\* answered, and what is on the air is still in order.
LEMMA RestartKeeps ==
    ASSUME TypeOK, RelayInv, Restart
    PROVE  RelayInv'
<1>1. /\ LineOf(toMower, loraQueue, lastRun, Issued)
      /\ Issued \in Nat /\ lastRun \in Nat /\ executed \in Nat /\ credited \in Nat
      /\ accepted \in Nat /\ toMower \in Seq(Things)
  BY RelayTyped DEF RelayInv, LineRises
<1>2. /\ mqttPc' = "boot" /\ mqttCmdQueue' = 0 /\ loraQueue' = <<>> /\ uart' = None
      /\ answered' = accepted
      /\ UNCHANGED <<accepted, credited, toMower, lastRun, executed>>
  BY DEF Restart, Booted, mowerVars
<1>3. Issued' = accepted /\ Issued <= accepted
  BY <1>1, <1>2 DEF Issued
<1>4. LineRises'
  <2>1. \A i \in 1..Len(toMower) : Live(toMower[i], lastRun, accepted)
    <3>1. ASSUME NEW f \in Things, Live(f, lastRun, Issued)
          PROVE  Live(f, lastRun, accepted)
      BY <1>1, <1>3, <3>1 DEF Live, Things
    <3>2. \A i \in 1..Len(toMower) : toMower[i] \in Things
      BY <1>1
    <3>3. QED  BY <1>1, <3>1, <3>2 DEF LineOf
  <2>2. 1..Len(<<>>) = {}
    OBVIOUS
  <2>3. LineOf(toMower, <<>>, lastRun, accepted)
    BY <1>1, <2>1, <2>2 DEF LineOf, Rising
  <2>4. QED  BY <1>2, <1>3, <2>3 DEF LineRises
<1>5. RunsFollow'
  BY <1>1, <1>2, <1>3 DEF RelayInv, RunsFollow
<1>6. CreditsFollow'
  <2>1. Noted' = 0 /\ Received' = 0
    BY <1>2, NoneIsNoReply DEF Noted, Received
  <2>2. credited <= executed
    BY <1>1 DEF RelayInv, CreditsFollow, Noted, Received
  <2>3. QED  BY <1>1, <1>2, <2>1, <2>2 DEF CreditsFollow
<1>7. AnswersFollow' /\ SignalsFollow'
  BY <1>2 DEF AnswersFollow, SignalsFollow
<1>8. QED  BY <1>4, <1>5, <1>6, <1>7 DEF RelayInv

\* The BLE callback queues entries that are no orders; the loop sends frames that are none.
LEMMA ConfigKeeps ==
    ASSUME TypeOK, RelayInv, BleNext \/ LoopNext
    PROVE  RelayInv'
<1>1. CASE Restart
  BY <1>1, RestartKeeps
<1>2. CASE ~Restart
  <2>1. UNCHANGED <<relayTask, lastRun, executed, uart, loraAckResult>>
    BY <1>2 DEF BleNext, StoreInfo, SetRtkInfo, SetLoraInfo, StoreLoraInfo, ClearConfig,
                CommitConfig, BleRestarts, noBle, LoopNext, LoopCommit, LoopLink, SendPart,
                LoopRestarts, loopOnly, mqttVars, mowerVars, relayTask
  <2>2. /\ LineOf(toMower, loraQueue, lastRun, Issued)
        /\ Issued \in Nat /\ lastRun \in Nat
    BY RelayTyped DEF RelayInv, LineRises
  <2>3. LineOf(toMower', loraQueue', lastRun, Issued)
    <3>1. CASE UNCHANGED <<toMower, loraQueue>>
      BY <2>2, <3>1
    <3>2. CASE SetRtkInfo \/ SetLoraInfo
      BY <3>2, SendKeeps DEF SetRtkInfo, SetLoraInfo, noBle
    <3>3. CASE SendPart
      <4>1. nvs.lora # None => nvs.lora.channel \in Nat
        BY DEF TypeOK, StoreTyped, Storages, LoraConfigs
      <4>2. \/ UNCHANGED toMower
            \/ \E f \in Things : f.id # "order" /\ Transmit(f)
        <5>1. /\ \A id \in {"wifi", "mqtt", "apply"} :
                     Command(id) \in Things /\ Command(id).id # "order"
              /\ \A c \in Nat : /\ [id |-> "lora", n |-> c] \in Things
                                /\ [id |-> "lora", n |-> c].id # "order"
          BY DEF Command, Things
        <5>2. \/ UNCHANGED toMower
              \/ Transmit(Command("wifi")) \/ Transmit(Command("mqtt"))
              \/ Transmit(Command("apply"))
              \/ nvs.lora # None /\ Transmit([id |-> "lora", n |-> nvs.lora.channel])
          BY <3>3 DEF SendPart
        <5>3. CASE nvs.lora # None /\ Transmit([id |-> "lora", n |-> nvs.lora.channel])
          BY <4>1, <5>1, <5>3
        <5>4. QED  BY <5>1, <5>2, <5>3
      <4>3. UNCHANGED loraQueue
        BY <3>3 DEF SendPart, loopOnly
      <4>4. QED  BY <2>2, <4>2, <4>3, TransmitKeeps
    <3>4. QED
      BY <1>2, <3>1, <3>2, <3>3 DEF BleNext, StoreInfo, StoreLoraInfo, ClearConfig,
         CommitConfig, BleRestarts, noBle, LoopNext, LoopCommit, LoopLink, LoopRestarts, loopOnly
  <2>4. credited + Noted' + Received' <= executed
    BY <2>1, CreditsKeep
  <2>5. QED  BY <2>1, <2>3, <2>4, ElsewhereKeeps
<1>3. QED  BY <1>1, <1>2

\* What neither the relay nor the radio sees.
LEMMA OthersKeep ==
    ASSUME TypeOK, RelayInv, OtaNext \/ BrokerNext \/ LinkNext \/ UNCHANGED vars
    PROVE  RelayInv'
<1>1. UNCHANGED <<relayTask, lastRun, executed, uart, loraAckResult, toMower, loraQueue>>
  <2>1. CASE OtaNext
    BY <2>1 DEF OtaNext, OtaTakes, OtaFails, mqttVars, mowerVars, relayTask
  <2>2. CASE BrokerNext
    BY <2>2 DEF BrokerNext, BrokerSends, BrokerDrops, mowerVars, relayTask
  <2>3. CASE LinkNext
    BY <2>3 DEF LinkNext, WifiTask, LinkUp, LinkDown, Tick, wifiOnly, mqttVars, mowerVars,
                relayTask
  <2>4. CASE UNCHANGED vars
    BY <2>4 DEF vars, mqttVars, mowerVars, relayTask
  <2>5. QED  BY <2>1, <2>2, <2>3, <2>4
<1>2. LineOf(toMower', loraQueue', lastRun, Issued)
  BY <1>1 DEF RelayInv, LineRises
<1>3. credited + Noted' + Received' <= executed
  BY <1>1, CreditsKeep
<1>4. QED  BY <1>1, <1>2, <1>3, ElsewhereKeeps

LEMMA RelayInit == Init => RelayInv
<1> SUFFICES ASSUME Init PROVE RelayInv
  OBVIOUS
<1>1. LineRises
  <2>1. 1..Len(<<>>) = {}
    OBVIOUS
  <2>2. toMower = <<>> /\ loraQueue = <<>>
    BY DEF Init
  <2>3. QED  BY <2>1, <2>2 DEF LineRises, LineOf, Rising
<1>2. AnswersFollow /\ RunsFollow /\ SignalsFollow
  BY DEF Init, AnswersFollow, RunsFollow, SignalsFollow, Issued
<1>3. CreditsFollow
  BY NoneIsNoReply DEF Init, CreditsFollow, Noted, Received
<1>4. QED  BY <1>1, <1>2, <1>3 DEF RelayInv

\* Every step keeps the invariant of the relay.
LEMMA RelayStep ==
    ASSUME TypeOK, RelayInv, [Next]_vars
    PROVE  RelayInv'
<1>1. CASE MqttNext
  BY <1>1, MqttKeeps
<1>2. CASE LoraNext
  BY <1>2, LoraKeeps
<1>3. CASE MowerNext
  BY <1>3, MowerKeeps
<1>4. CASE BleNext \/ LoopNext
  BY <1>4, ConfigKeeps
<1>5. CASE OtaNext \/ BrokerNext \/ LinkNext \/ UNCHANGED vars
  BY <1>5, OthersKeep
<1>6. CASE OtaRestarts \/ PowerCut
  BY <1>6, RestartKeeps DEF OtaRestarts, PowerCut
<1>7. QED  BY <1>1, <1>2, <1>3, <1>4, <1>5, <1>6 DEF Next

-----------------------------------------------------------------------------
(* Theorems *)

LEMMA RelayInvariant == Spec => [](TypeOK /\ RelayInv)
<1>1. Init => TypeOK /\ Held /\ RelayInv
  BY InitTyped, RelayInit
<1>2. (TypeOK /\ Held /\ RelayInv) /\ [Next]_vars => (TypeOK /\ Held /\ RelayInv)'
  BY NextTyped, RelayStep
<1>3. QED  BY <1>1, <1>2, PTL DEF Spec

\* What steps do to the last order the mower ran: only MowerTakes changes it.
LEMMA OnlyTheMowerRuns ==
    ASSUME TypeOK, RelayInv, [Next]_vars
    PROVE  \/ UNCHANGED <<lastRun, executed>>
           \/ /\ executed' = executed + 1 /\ lastRun < lastRun' /\ lastRun' <= Issued
              /\ UNCHANGED relayTask
<1>1. CASE MowerTakes
  <2>1. /\ LineOf(toMower, loraQueue, lastRun, Issued)
        /\ toMower \in Seq(Things) /\ loraQueue \in Seq(Things)
        /\ Issued \in Nat /\ lastRun \in Nat
    BY RelayTyped DEF RelayInv, LineRises
  <2>2. toMower # <<>> /\ UNCHANGED relayTask
    BY <1>1 DEF MowerTakes, elsewhere, mqttVars, relayTask
  <2>3. Head(toMower).id = "order" => lastRun < Head(toMower).n /\ Head(toMower).n <= Issued
    BY <2>1, <2>2, AirTail
  <2>4. \/ UNCHANGED <<lastRun, executed>>
        \/ /\ Head(toMower).id = "order"
           /\ executed' = executed + 1 /\ lastRun' = Head(toMower).n
    BY <1>1 DEF MowerTakes
  <2>5. QED  BY <2>2, <2>3, <2>4
<1>2. CASE MqttNext \/ OtaNext \/ BrokerNext \/ LoraNext
  BY <1>2 DEF MqttNext, MqttBoots, MqttReconnect, MqttLoop, MqttReceive, RelayOrder, RelayPoll,
              AcceptUpdate, MqttStatus, OtaNext, OtaTakes, OtaFails, BrokerNext, BrokerSends,
              BrokerDrops, LoraNext, LoraReceive, LoraScan, LoraHeartbeat, LoraReply,
              LoraInbound, mowerVars
<1>3. CASE GpsNotifies \/ MowerHall \/ MowerSwitched
  BY <1>3 DEF GpsNotifies, MowerHall, MowerSwitched, mowerVars
<1>4. CASE Restart
  BY <1>4 DEF Restart, mowerVars
<1>5. CASE BleNext \/ LoopNext
  BY <1>5, <1>4 DEF BleNext, StoreInfo, SetRtkInfo, SetLoraInfo, StoreLoraInfo, ClearConfig,
              CommitConfig, BleRestarts, noBle, LoopNext, LoopCommit, LoopLink, SendPart,
              LoopRestarts, loopOnly, mowerVars
<1>6. CASE LinkNext
  BY <1>6 DEF LinkNext, WifiTask, LinkUp, LinkDown, Tick, wifiOnly, mowerVars
<1>7. CASE UNCHANGED vars
  BY <1>7 DEF vars, mowerVars
<1>8. QED
  BY <1>1, <1>2, <1>3, <1>4, <1>5, <1>6, <1>7 DEF Next, MowerNext, OtaRestarts, PowerCut

\* An order given up by relayAndWait stays in loraQueue and may run late, but the mower
\* never runs an order after a later one, nor one again, whatever the radio loses.
THEOREM OrdersRunOnceInSequence == Spec => OrdersRunInSequence
<1>1. (TypeOK /\ RelayInv) /\ [Next]_vars => [executed' # executed => lastRun' > lastRun]_vars
  <2> SUFFICES ASSUME TypeOK, RelayInv, [Next]_vars, executed' # executed
               PROVE  lastRun' > lastRun
    OBVIOUS
  <2>1. lastRun < lastRun'
    BY OnlyTheMowerRuns
  <2>2. QED  BY <2>1
<1>2. QED  BY <1>1, RelayInvariant, PTL DEF Spec, OrdersRunInSequence

\* mqttRxBuffer holds a command until it was dispatched: the callback runs in the task that
\* dispatches, so that the signal it sends is taken before the next message is read.
THEOREM CommandKept == Spec => CommandIsNotOverwritten
<1>1. (TypeOK /\ RelayInv) /\ [Next]_vars
      => [mqttRxBuffer' # mqttRxBuffer => mqttCmdQueue = 0 \/ mqttPc' = "boot"]_vars
  <2> SUFFICES ASSUME TypeOK, RelayInv, [Next]_vars, mqttRxBuffer' # mqttRxBuffer
               PROVE  mqttCmdQueue = 0 \/ mqttPc' = "boot"
    OBVIOUS
  <2>1. CASE MqttLoop
    BY <2>1 DEF MqttLoop, RelayInv, SignalsFollow
  <2>2. CASE Restart
    BY <2>2 DEF Restart, Booted
  <2>3. CASE MqttNext /\ ~MqttLoop
    BY <2>3 DEF MqttNext, MqttBoots, MqttReconnect, MqttReceive, RelayOrder, RelayPoll,
                AcceptUpdate, MqttStatus
  <2>4. CASE OtaNext \/ BrokerNext \/ LinkNext
    BY <2>4 DEF OtaNext, OtaTakes, OtaFails, BrokerNext, BrokerSends, BrokerDrops,
                LinkNext, WifiTask, LinkUp, LinkDown, Tick, wifiOnly, mqttVars
  <2>5. CASE LoraNext \/ MowerNext
    BY <2>5 DEF LoraNext, LoraReceive, LoraScan, LoraHeartbeat, LoraReply, LoraInbound,
                MowerNext, GpsNotifies, MowerTakes, MowerHall, MowerSwitched, elsewhere, mqttVars
  <2>6. CASE (BleNext \/ LoopNext) /\ ~Restart
    BY <2>6 DEF BleNext, StoreInfo, SetRtkInfo, SetLoraInfo, StoreLoraInfo, ClearConfig,
                CommitConfig, BleRestarts, noBle, LoopNext, LoopCommit, LoopLink, SendPart,
                LoopRestarts, loopOnly, mqttVars
  <2>7. CASE UNCHANGED vars
    BY <2>7 DEF vars, mqttVars
  <2>8. QED
    BY <2>1, <2>2, <2>3, <2>4, <2>5, <2>6, <2>7 DEF Next, OtaRestarts, PowerCut
<1>2. QED  BY <1>1, RelayInvariant, PTL DEF Spec, CommandIsNotOverwritten

\* Every step of the charger and the mower is one of OrderRelay, or a stutter.
LEMMA RelayRefined ==
    ASSUME TypeOK, RelayInv, [Next]_vars
    PROVE  [Relay!Next]_(Relay!relayVars)
<1>1. /\ accepted \in Nat /\ answered \in Nat /\ credited \in Nat /\ executed \in Nat
      /\ lastRun \in Nat /\ Issued \in Nat
      /\ answered = (IF mqttPc \in {"send", "wait"} THEN accepted - 1 ELSE accepted)
      /\ executed <= lastRun /\ Issued <= accepted
  BY RelayTyped DEF RelayInv, AnswersFollow, RunsFollow, Issued
<1>2. CASE MowerNext
  <2>1. UNCHANGED <<accepted, answered, credited>>
    BY <1>2 DEF MowerNext, GpsNotifies, MowerTakes, MowerHall, MowerSwitched, elsewhere, mqttVars
  <2>2. CASE UNCHANGED executed
    BY <2>1, <2>2 DEF Relay!relayVars
  <2>3. CASE ~ UNCHANGED executed
    <3>1. executed' = executed + 1 /\ lastRun < lastRun' /\ lastRun' <= Issued
      BY <2>3, OnlyTheMowerRuns
    <3>2. lastRun' \in Nat
      BY <1>2, MowerNextTyped DEF TypeOK, MowerTyped
    <3>3. executed < accepted
      BY <1>1, <3>1, <3>2
    <3>4. QED  BY <2>1, <3>1, <3>3 DEF Relay!Next, Relay!Execute
  <2>4. QED  BY <2>2, <2>3
<1>3. CASE MqttReceive
  <2>1. UNCHANGED <<answered, credited, executed>> /\ mqttPc = "receive"
    BY <1>3 DEF MqttReceive, mowerVars
  <2>2. accepted' = accepted + 1 \/ UNCHANGED accepted
    BY <1>3 DEF MqttReceive, BeginRelay
  <2>3. QED  BY <1>1, <2>1, <2>2 DEF Relay!Next, Relay!Accept, Relay!relayVars
<1>4. CASE RelayPoll
  <2>1. mqttPc = "wait" /\ UNCHANGED <<accepted, executed>>
    BY <1>4 DEF RelayPoll, mowerVars
  <2>2. \/ UNCHANGED <<answered, credited>>
        \/ answered' = answered + 1 /\ UNCHANGED credited
        \/ answered' = answered + 1 /\ credited' = credited + 1 /\ loraAckResult = "ok"
    BY <1>4 DEF RelayPoll
  <2>3. answered < accepted
    BY <1>1, <2>1
  <2>4. loraAckResult = "ok" => credited < executed
    <3>1. loraAckResult = "ok" => Noted = 1
      BY <2>1 DEF Noted
    <3>2. Received \in 0..1 /\ credited + Noted + Received <= executed
      BY DEF Received, RelayInv, CreditsFollow
    <3>3. QED  BY <1>1, <3>1, <3>2
  <2>5. CASE UNCHANGED <<answered, credited>>
    BY <2>1, <2>5 DEF Relay!relayVars
  <2>6. CASE answered' = answered + 1 /\ UNCHANGED credited
    BY <2>1, <2>3, <2>6 DEF Relay!Next, Relay!AnswerFailed
  <2>7. CASE answered' = answered + 1 /\ credited' = credited + 1 /\ loraAckResult = "ok"
    BY <2>1, <2>3, <2>4, <2>7 DEF Relay!Next, Relay!AnswerOk
  <2>8. QED  BY <2>2, <2>5, <2>6, <2>7
<1>5. CASE Restart
  <2>1. answered' = accepted /\ UNCHANGED <<accepted, credited, executed>>
    BY <1>5 DEF Restart, mowerVars
  <2>2. CASE mqttPc \in {"send", "wait"}
    <3>1. answered < accepted /\ answered' = answered + 1
      BY <1>1, <2>1, <2>2
    <3>2. QED  BY <2>1, <3>1 DEF Relay!Next, Relay!AnswerFailed
  <2>3. CASE mqttPc \notin {"send", "wait"}
    BY <1>1, <2>1, <2>3 DEF Relay!relayVars
  <2>4. QED  BY <2>2, <2>3
<1>6. CASE MqttNext /\ ~MqttReceive /\ ~RelayPoll
  BY <1>6 DEF MqttNext, MqttBoots, MqttReconnect, MqttLoop, RelayOrder, AcceptUpdate,
              MqttStatus, mowerVars, Relay!relayVars
<1>7. CASE OtaNext \/ BrokerNext \/ LinkNext \/ LoraNext
  BY <1>7 DEF OtaNext, OtaTakes, OtaFails, BrokerNext, BrokerSends, BrokerDrops,
              LinkNext, WifiTask, LinkUp, LinkDown, Tick, wifiOnly, LoraNext, LoraReceive,
              LoraScan, LoraHeartbeat, LoraReply, LoraInbound, elsewhere, mqttVars,
              mowerVars, Relay!relayVars
<1>8. CASE (BleNext \/ LoopNext) /\ ~Restart
  BY <1>8 DEF BleNext, StoreInfo, SetRtkInfo, SetLoraInfo, StoreLoraInfo, ClearConfig,
              CommitConfig, BleRestarts, noBle, LoopNext, LoopCommit, LoopLink, SendPart,
              LoopRestarts, loopOnly, mqttVars, mowerVars, Relay!relayVars
<1>9. CASE UNCHANGED vars
  BY <1>9 DEF vars, mqttVars, mowerVars, Relay!relayVars
<1>10. QED
  BY <1>2, <1>3, <1>4, <1>5, <1>6, <1>7, <1>8, <1>9 DEF Next, OtaRestarts, PowerCut

\* The charger implements what OrderRelay never does: one order at a time, each answered
\* once, none run twice, no more successes than orders run.  (That every order gets its
\* answer is a matter of fairness, and model-checked.)
THEOREM RelayIsSafe == Spec => Relay!Safe
<1>1. Init => Relay!Init
  BY DEF Init, Relay!Init
<1>2. (TypeOK /\ RelayInv) /\ [Next]_vars => [Relay!Next]_(Relay!relayVars)
  BY RelayRefined
<1>3. QED  BY <1>1, <1>2, RelayInvariant, PTL DEF Spec, Relay!Safe

=============================================================================
