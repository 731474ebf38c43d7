---------------------------- MODULE MCRobotDecision ----------------------------
(***************************************************************************)
(* Instances of RobotDecision for TLC.                                     *)
(***************************************************************************)
EXTENDS RobotDecision, TLC

\* The battery is low for good.
OnlyLowReadings == {[level |-> "low", current |-> FALSE]}

\* Charging current comes and goes.
ContactReadings == {[level |-> "mid", current |-> c] : c \in BOOLEAN}

\* The battery runs low, and is charged where there is contact.
RechargeReadings == ContactReadings \cup OnlyLowReadings

\* The battery runs low, and recovers without the charger being felt.
LowReadings == {[level |-> l, current |-> FALSE] : l \in {"empty", "low", "mid"}}

\* The battery gets full on the charger.
FullReadings == ContactReadings \cup {[level |-> "full", current |-> TRUE]}

\* Goals, and the threads that run handlers, are interchangeable.
Symmetry == Permutations(GoalIds) \cup Permutations(Workers)

-----------------------------------------------------------------------------
(* What comments in the code say of it, and the instances refute *)

\* _cancel_active_actions "Cancel any running actions (coverage, navigation,
\* etc.)": no coverage runs on behind the status CANCELLED.
CancelledMeansStopped ==
    work_status = "CANCELLED" => \A g \in GoalIds : goal["coverage"][g] # "running"

\* The same of the recovery moves the node sent itself.
CancelStopsRecovery ==
    [][HandleCancelTask => \A g \in GoalIds : goal'["slip"][g] # "running"]_vars

\* cancel_recharge "Cancel active recharge actions.": once the recharge is IDLE
\* no docking goal leaves.
CancelledRechargeStaysCancelled ==
    [][recharge_status = "IDLE" => Live("charging")' \subseteq Live("charging")]_vars

\* start_cov_task "refuse if a task is already running".
OneCoverageTask == Cardinality(Live("coverage")) <= 1

\* "charge_stop cleared = mower left charger": CHARGING without a contact flag
\* or a charging current is not published.
ChargingMeansContact ==
    task_mode = "CHARGING" => "charge_stop" \in error_flags \/ charging_current

\* "Undock failed - stay in current state (or go FREE)": the failed state on the
\* charger is not followed by a coverage goal.
FailedUndockEndsTask ==
    [][undock_drove /\ ~undocking /\ work_status = "FAILED_ONCE" /\ charge_stop
       => Live("coverage")' \subseteq Live("coverage")]_vars

\* quit_mapping_mode "Stop any active recording": none goes on outside MAPPING
\* once its handler is back.
QuitStopsRecording ==
    task_mode # "MAPPING" /\ (\A w \in Workers : pc[w] = "idle") => ~mapping_active

=============================================================================
