----------------------------- MODULE OrderRelay -----------------------------
(***************************************************************************)
(* What the charger promises the broker about the mowing orders it relays  *)
(* to the mower over LoRa (start_run, pause_run, resume_run, stop_run,     *)
(* stop_time_run, go_pile): one order at a time, every one answered once,  *)
(* none carried out twice, and no more answered with success than the      *)
(* mower carried out.  A failure promises nothing: the order may still run *)
(* later.  There are no queues, tasks, channels or frames here.            *)
(***************************************************************************)
EXTENDS Naturals

VARIABLES
    accepted,   \* orders taken from the broker
    answered,   \* orders answered, or lost by a restart
    credited,   \* orders answered with success
    executed    \* orders the mower carried out

relayVars == <<accepted, answered, credited, executed>>

Init == accepted = 0 /\ answered = 0 /\ credited = 0 /\ executed = 0

\* The next order is taken once the one before it has its answer.
Accept ==
    /\ accepted = answered
    /\ accepted' = accepted + 1
    /\ UNCHANGED <<answered, credited, executed>>

\* The mower carries out an order, possibly long after its answer.
Execute ==
    /\ executed < accepted
    /\ executed' = executed + 1
    /\ UNCHANGED <<accepted, answered, credited>>

\* Success: some order the mower carried out is not yet credited.
AnswerOk ==
    /\ answered < accepted /\ credited < executed
    /\ answered' = answered + 1 /\ credited' = credited + 1
    /\ UNCHANGED <<accepted, executed>>

\* Refused by the mower, not acknowledged in time, or cut off by a restart.
AnswerFailed ==
    /\ answered < accepted
    /\ answered' = answered + 1
    /\ UNCHANGED <<accepted, credited, executed>>

Next == Accept \/ Execute \/ AnswerOk \/ AnswerFailed

\* What is never done; and the promise, in which an order does get its answer.
Safe == Init /\ [][Next]_relayVars

Spec == Safe /\ WF_relayVars(AnswerFailed)

=============================================================================
