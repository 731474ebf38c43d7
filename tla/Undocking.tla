------------------------------- MODULE Undocking -------------------------------
(***************************************************************************)
(* What the decision node promises about backing off the charger, whatever *)
(* else it does.  An undock has a clock of its own: it drives, holds until *)
(* the contact must be gone, and ends once, with the outcome published and *)
(* the state it was asked to leave behind, and no other.  It is stopped by *)
(* what stops everything; a request while it runs changes neither clock    *)
(* nor state, and only the task that a full battery resumes starts it      *)
(* anew.  RobotDecision implements this specification.                     *)
(***************************************************************************)
CONSTANTS NoState, AfterStates, ResumedTask

VARIABLES undocking, phase, drove, after, published

undockVars == <<undocking, phase, drove, after>>

Init ==
    /\ ~undocking /\ phase = "expired" /\ ~drove
    /\ after = NoState

Begins(a) ==
    /\ undocking' = TRUE /\ phase' = "drive" /\ drove' = FALSE /\ after' = a
    /\ published' = <<"FREE", "QUIT_PILE_INIT">>

Begin == ~undocking /\ \E a \in AfterStates : Begins(a)

BeginAnew == undocking /\ Begins(ResumedTask)

Drive ==
    /\ undocking /\ phase = "drive"
    /\ drove' = TRUE
    /\ UNCHANGED <<undocking, phase, after, published>>

TimePasses ==
    /\ undocking
    /\ <<phase, phase'>> \in {<<"drive", "hold">>, <<"hold", "expired">>}
    /\ UNCHANGED <<undocking, drove, after, published>>

\* The contact is still there, or gone.
End ==
    /\ undocking /\ phase = "expired"
    /\ ~undocking' /\ after' = NoState
    /\ UNCHANGED <<phase, drove>>
    /\ \/ published' = <<"FREE", "FAILED_ONCE">>
       \/ after = NoState /\ published' = <<"FREE", "INIT_SUCCESS">>
       \/ after # NoState /\ published' = after

Stop ==
    /\ undocking /\ ~undocking'
    /\ UNCHANGED <<phase, drove, after>>

\* The rest of the node publishes states of its own.
Elsewhere == UNCHANGED undockVars

Next ==
    \/ Begin \/ BeginAnew
    \/ Drive
    \/ TimePasses
    \/ End
    \/ Stop
    \/ Elsewhere

Spec == Init /\ [][Next]_<<undockVars, published>>

=============================================================================
