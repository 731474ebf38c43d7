---------------------------- MODULE ActionClients ----------------------------
(***************************************************************************)
(* What the decision node promises about the goals it sends to its action  *)
(* servers, whatever else it does.  A goal is sent, answered and ended; a  *)
(* handle is kept from the answer to the end; a client whose goal ends     *)
(* keeps no handle; a cancel reaches the goals with a handle and no other. *)
(* RobotDecision implements this specification.                            *)
(***************************************************************************)
CONSTANTS Clients, GoalIds, NoGoal

VARIABLES goal, handle

GoalTables == [Clients -> [GoalIds -> {"free", "sent", "running", "canceling"}]]
HandleTables == [Clients -> GoalIds \cup {NoGoal}]

Set(gl, c, g, s) == [gl EXCEPT ![c] = [@ EXCEPT ![g] = s]]

Init ==
    /\ goal = [c \in Clients |-> [g \in GoalIds |-> "free"]]
    /\ handle = [c \in Clients |-> NoGoal]

Send(c, g) ==
    /\ goal[c][g] = "free"
    /\ goal' = Set(goal, c, g, "sent")
    /\ UNCHANGED handle

Accept(c, g) ==
    /\ goal[c][g] = "sent"
    /\ goal' = Set(goal, c, g, "running")
    /\ handle' = [handle EXCEPT ![c] = g]

\* gl is the table that c leaves; the node may go on to a goal of another client.
GoesOn(gl, c) ==
    \/ goal' = gl
    \/ \E d \in Clients \ {c}, h \in GoalIds :
           gl[d][h] = "free" /\ goal' = Set(gl, d, h, "sent")

Refuse(c, g) ==
    /\ goal[c][g] = "sent"
    /\ GoesOn(Set(goal, c, g, "free"), c)
    /\ UNCHANGED handle

End(c, g) ==
    /\ goal[c][g] \in {"running", "canceling"}
    /\ GoesOn(Set(goal, c, g, "free"), c)
    /\ handle' = [handle EXCEPT ![c] = NoGoal]

\* One client is cancelled, and keeps its handle or drops it.
CancelOne(c) ==
    /\ handle[c] # NoGoal
    /\ goal'[c] = [goal[c] EXCEPT ![handle[c]] = "canceling"]
    /\ handle'[c] \in {handle[c], NoGoal}

\* Any of the clients are cancelled together.
Cancel ==
    /\ goal' \in GoalTables
    /\ handle' \in HandleTables
    /\ \A c \in Clients :
           CancelOne(c) \/ (goal'[c] = goal[c] /\ handle'[c] = handle[c])

Next ==
    \/ \E c \in Clients, g \in GoalIds :
           Send(c, g) \/ Accept(c, g) \/ Refuse(c, g) \/ End(c, g)
    \/ Cancel

Spec == Init /\ [][Next]_<<goal, handle>>

=============================================================================
