---------------------------- MODULE DecisionState ----------------------------
(***************************************************************************)
(* State of the mower's decision node (mower/robot_decision.py,            *)
(* OpenRobotDecision) and the helpers its handlers share: the published    *)
(* mode, the charger and undock flags, the goals sent to the action        *)
(* servers with the handles the node keeps on them, and the control point  *)
(* of every handler that blocks.                                           *)
(*                                                                         *)
(* Concurrency.  The node runs on a MultiThreadedExecutor.  Its service    *)
(* handlers and the callbacks of its clients are reentrant.  Its           *)
(* subscriptions and its timers are created without a callback group, so   *)
(* they share the node's default group, which runs one callback at a time: *)
(* while a subscription blocks, no timer and no other subscription runs.   *)
(* "Main" is that group; "Workers" are the threads blocked in a service    *)
(* handler or in a thread one of them started.  A handler is one step up   *)
(* to the next place where it waits.                                       *)
(***************************************************************************)
EXTENDS Naturals, FiniteSets

CONSTANTS
    GoalIds,     \* goals that may be outstanding at one action server
    Workers,     \* handlers that may be blocked at the same time
    Main,        \* the default callback group
    NoGoal,      \* Python's None in the place of a goal handle
    Events,      \* the commands, messages and conditions the run feeds in
    CovKinds,    \* the kinds of coverage request that arrive
    Incidents,   \* the sets of error flags the chassis reports
    Readings,    \* the battery messages that arrive
    MaxReads,    \* charger poses that may be read at the same time
    FirstPhase   \* the boot phase a behaviour begins in

ASSUME MainIsNoWorker == Main \notin Workers
ASSUME NoGoalIsNoGoal == NoGoal \notin GoalIds
ASSUME ReadsBound == MaxReads \in Nat \ {0}
ASSUME FirstPhaseAssumption == FirstPhase \in {"SYSTEM_CHECK_INIT", "INIT_SUCCESS", "DONE"}
ASSUME CovKindsAssumption == CovKinds \subseteq {"full", "area", "area_no_polygon"}
ASSUME IncidentsAssumption ==
    Incidents \subseteq
        SUBSET {"charge_stop", "pin", "critical", "stall", "imu", "lora", "rtk"}
ASSUME ReadingsAssumption ==
    Readings \subseteq [level : {"empty", "low", "mid", "full"}, current : BOOLEAN]

Threads == Workers \cup {Main}

TaskModes == {"FREE", "COVER", "RECHARGING", "MAPPING", "CHARGING", "STOP"}

WorkStatuses ==
    {"SYSTEM_CHECK_INIT", "SENSOR_INIT", "LOCALIZATION_UTM_INIT",
     "LOCALIZATION_INIT", "INIT_SUCCESS", "QUIT_PILE_INIT",
     "MANUAL_MAPPING_WORKING_ZONE", "MANUAL_MAPPING_OBSTACLE",
     "MANUAL_MAPPING_UNICOM", "MANUAL_MAPPING_UNICOM_TO_STATION",
     "ASSISTANT_MAPPING_WORKING_ZONE", "MAPPING_STOP_RECORD",
     "AUTO_ERASE_MAPPING", "AUTO_ERASE_MAPPING_FAILED",
     "AUTO_ERASE_MAPPING_SUCCESS", "SETTING_CHARGING_STATION", "DELETE_MAP",
     "COVERING", "BOUNDARY_COVERING", "MOVING", "RETURN_TO_PILE", "ALIGN_PILE",
     "FINISHED_ONCE", "FAILED_ONCE", "CANCELLED", "WARN_REPEATED_START",
     "LOC_ERROR_HANDLE", "LORA_ERROR_HANDLE", "SLIPPING_HANDLE",
     "RECOVER_ERROR_STOP", "USER_STOP", "ERROR_LOAD_MAP"}

RechargeStatuses == {"IDLE", "NAVIGATING", "DOCKING", "CHARGING", "FAILED"}

\* The error codes the handlers tell apart.  CRITICAL stands for the five codes
\* at the head of the priority chain, all of which cancel the task; MOTOR_STALL
\* for the stall and over-current codes answered with SLIPPING_HANDLE.
ErrorStatuses ==
    {"NONE", "CRITICAL", "MOTOR_STALL", "IMU_ERROR", "LORA_ERROR", "RTK_ERROR",
     "LOW_BATTERY", "CPU_OVERHEAT", "CAMERA_ERROR"}

\* boot_phase, with "DONE" for boot_checks_done.
BootPhases ==
    {"SYSTEM_CHECK_INIT", "SENSOR_INIT", "INIT_MOWER", "LOCALIZATION_UTM_INIT",
     "LOCALIZATION_INIT", "INIT_SUCCESS", "DONE"}

Clients == {"coverage", "boundary", "nav", "charging", "slip", "loc_recover"}

\* "sent" until the response callback ran, then "running", "canceling" once a
\* cancel request left, "free" again when the result callback ran.
GoalStates == {"free", "sent", "running", "canceling"}

GoalTables == [Clients -> [GoalIds -> GoalStates]]
HandleTables == [Clients -> GoalIds \cup {NoGoal}]

\* Where a blocked handler waits.
Points ==
    {"idle", "cov_undock", "cov_map", "map_undock", "map_record", "asst_undock",
     "asst_follow", "asst_perception", "generate", "erase", "delete"}

\* What a blocked handler remembers of its request.
Requests == {"none", "full", "area", "area_no_polygon", "sub_map", "whole_map",
             "boundary"}

LocStates == {"unknown", "bad", "good", "aligned"}

\* The state an undock leaves behind: (TaskMode, WorkStatus), or None.
NoState == <<"none", "none">>
AfterStates ==
    {NoState, <<"COVER", "COVERING">>,
     <<"MAPPING", "MANUAL_MAPPING_WORKING_ZONE">>,
     <<"MAPPING", "ASSISTANT_MAPPING_WORKING_ZONE">>}

VARIABLES
    task_mode, work_status, recharge_status, error_status,
    is_on_charger,       \* what the node believes
    charge_stop,         \* _charge_stop_active
    charging_current,    \* the last battery message showed charging current
    error_flags,         \* _last_error_flag, as the set of its bits
    undocking,           \* _undocking
    undock_phase,        \* how much of the undock time has gone by
    undock_drove,        \* this undock published its backward speed
    undock_after,        \* _undock_after_state
    heading_phase, heading_timer,
    free_moves,          \* free_move_around calls not answered yet
    tf_recovery_attempts,
    goal,                \* the goals at each action server
    handle,              \* the goal handle the node keeps for each client
    pose_reads,          \* charger-pose reads not answered yet
    last_cov_request,    \* _last_cov_request
    low_battery_armed,
    mapping_active,
    cameras,             \* the cameras of the perception pipeline run
    slip_detected,       \* the assistant's _slip_detected
    boot_phase, loc,
    pc, arg              \* control point and request of each thread

modeVars == <<task_mode, work_status, recharge_status, error_status>>
chargerVars == <<is_on_charger, charge_stop, charging_current, error_flags>>
undockVars == <<undocking, undock_phase, undock_drove, undock_after>>
headingVars == <<heading_phase, heading_timer, free_moves, tf_recovery_attempts>>
goalVars == <<goal, handle, pose_reads>>
taskVars == <<last_cov_request, low_battery_armed, mapping_active, cameras,
              slip_detected>>
envVars == <<boot_phase, loc>>
threadVars == <<pc, arg>>

vars == <<modeVars, chargerVars, undockVars, headingVars, goalVars, taskVars,
          envVars, threadVars>>

-----------------------------------------------------------------------------
(* Shared helpers *)

Booted == boot_phase = "DONE"
MainFree == pc[Main] = "idle"

SetState(t, w) ==
    /\ task_mode' = t
    /\ work_status' = w
    /\ UNCHANGED <<recharge_status, error_status>>

SetStateR(t, w, r) ==
    /\ task_mode' = t
    /\ work_status' = w
    /\ recharge_status' = r
    /\ UNCHANGED error_status

SetStateE(t, w, e) ==
    /\ task_mode' = t
    /\ work_status' = w
    /\ error_status' = e
    /\ UNCHANGED recharge_status

Live(c) == {g \in GoalIds : goal[c][g] # "free"}

Put(gl, c, g, s) == [gl EXCEPT ![c] = [@ EXCEPT ![g] = s]]

\* The goals after every handle of the clients in cs was asked to cancel.
Cancelled(gl, cs) ==
    [c \in Clients |->
        IF c \in cs /\ handle[c] # NoGoal
        THEN [gl[c] EXCEPT ![handle[c]] = "canceling"]
        ELSE gl[c]]

\* The handles after the clients in cs were reset to None.
Dropped(cs) == [c \in Clients |-> IF c \in cs THEN NoGoal ELSE handle[c]]

\* What _cancel_active_actions reaches: goals with a handle, of these clients.
\* cancel_coverage keeps its handle, the others drop theirs.
Cancellable == {"coverage", "boundary", "nav", "charging"}

StopActions ==
    /\ goal' = Cancelled(goal, Cancellable)
    /\ handle' = Dropped(Cancellable \ {"coverage"})
    /\ mapping_active' = FALSE
    /\ cameras' = FALSE

\* _undock_start_time and _undock_after_state keep their values.
StopUndock ==
    /\ undocking' = FALSE
    /\ UNCHANGED <<undock_phase, undock_drove, undock_after>>

CancelActiveActions == StopActions /\ StopUndock

\* Variant: the clock of the last undock is kept.
BeginUndockOldClock(after) ==
    /\ SetState("FREE", "QUIT_PILE_INIT")
    /\ undocking' = TRUE
    /\ undock_phase' = undock_phase
    /\ undock_drove' = FALSE
    /\ undock_after' = after

BeginUndock(after) ==
    /\ SetState("FREE", "QUIT_PILE_INIT")
    /\ undocking' = TRUE
    /\ undock_phase' = "drive"
    /\ undock_drove' = FALSE
    /\ undock_after' = after

\* request_undock, called where _undocking is "busy".  A second request is
\* ignored, and with it its after_state.
RequestUndock(busy, after) ==
    \/ ~busy /\ BeginUndock(after)
    \/ busy /\ UNCHANGED <<modeVars, undockVars>>

\* Variant: without the deadline.
UndockWaitWithoutDeadline == ~undocking

\* Variant: the deadline is met before the last tick of the undock.
UndockWaitTooShort == ~undocking \/ undock_phase = "expired"

\* A handler that polls _undocking gives up after 15 or 20 s.  An undock takes
\* 6 s of timer ticks, so the deadline is met first only if the ticks cannot run.
UndockWaitOver == ~undocking \/ (undock_phase = "expired" /\ ~MainFree)

Block(t, p, k) ==
    /\ pc' = [pc EXCEPT ![t] = p]
    /\ arg' = [arg EXCEPT ![t] = k]

Goto(t, p) ==
    /\ pc' = [pc EXCEPT ![t] = p]
    /\ UNCHANGED arg

=============================================================================
