----------------------------- MODULE DecisionTask -----------------------------
(***************************************************************************)
(* The mowing task: the start, stop, cancel and reset services of          *)
(* service_handlers.py, the coverage action they drive, and the undock     *)
(* they wait for.                                                          *)
(***************************************************************************)
EXTENDS DecisionState

UnlessCameras == <<last_cov_request, low_battery_armed, mapping_active, slip_detected>>

\* _handle_start_cov_task up to its first wait, run by thread t on request k in
\* a state whose task_mode is "mode", is_on_charger "on" and _undocking "busy".
StartCovTask(t, k, mode, on, busy) ==
    \/ /\ handle["coverage"] # NoGoal
       /\ SetState(mode, "WARN_REPEATED_START")
       /\ undocking' = busy
       /\ UNCHANGED <<undock_phase, undock_drove, undock_after, last_cov_request,
                      threadVars>>
    \/ /\ handle["coverage"] = NoGoal
       /\ on
       /\ last_cov_request' = k
       /\ RequestUndock(busy, <<"COVER", "COVERING">>)
       /\ Block(t, "cov_undock", k)
    \/ /\ handle["coverage"] = NoGoal
       /\ ~on
       /\ last_cov_request' = k
       /\ SetState("COVER", "COVERING")
       /\ undocking' = busy
       /\ UNCHANGED <<undock_phase, undock_drove, undock_after>>
       /\ Block(t, "cov_map", k)

\* _undocking is polled; what the undock came to is not looked at.
CovUndocked(t) ==
    /\ pc[t] = "cov_undock"
    /\ UndockWaitOver
    /\ Goto(t, "cov_map")
    /\ UNCHANGED <<modeVars, chargerVars, undockVars, headingVars, goalVars,
                   taskVars, envVars>>

Done(t) == Block(t, "idle", "none")

\* Variant: the failure is only answered to the caller.
CovMapFailsQuietly(t) == UNCHANGED <<modeVars, goal, cameras>>

CovMapFails(t) ==
    /\ SetState("STOP", "ERROR_LOAD_MAP")
    /\ UNCHANGED <<goal, cameras>>

\* cov_mode = 1 without a polygon: the handler returns, the mode stays.
CovLacksPolygon(t) ==
    /\ arg[t] = "area_no_polygon"
    /\ UNCHANGED <<modeVars, goal, cameras>>

\* start_coverage: no action server, or the goal leaves.
CovStarts(t) ==
    /\ arg[t] # "area_no_polygon"
    /\ \/ /\ SetState("FREE", "FAILED_ONCE")
          /\ UNCHANGED <<goal, cameras>>
       \/ /\ cameras' = TRUE
          /\ \E g \in GoalIds \ Live("coverage") :
                 goal' = Put(goal, "coverage", g, "sent")
          /\ UNCHANGED modeVars

CovMapLoaded(t) ==
    /\ pc[t] = "cov_map"
    /\ CovMapFails(t) \/ CovLacksPolygon(t) \/ CovStarts(t)
    /\ Done(t)
    /\ UNCHANGED <<handle, pose_reads, chargerVars, undockVars, headingVars,
                   UnlessCameras, envVars>>

-----------------------------------------------------------------------------
(* The services *)

HandleStartCovTask(w) ==
    /\ "start_cov_task" \in Events
    /\ pc[w] = "idle"
    /\ \E k \in CovKinds : StartCovTask(w, k, task_mode, is_on_charger, undocking)
    /\ UNCHANGED <<chargerVars, headingVars, goalVars, low_battery_armed,
                   mapping_active, cameras, slip_detected, envVars>>

\* stop_task with data = false repeats the last request, whatever became of it.
HandleResumeTask(w) ==
    /\ "resume_task" \in Events
    /\ pc[w] = "idle"
    /\ last_cov_request # "none"
    /\ StartCovTask(w, last_cov_request, task_mode, is_on_charger, undocking)
    /\ UNCHANGED <<chargerVars, headingVars, goalVars, low_battery_armed,
                   mapping_active, cameras, slip_detected, envVars>>

StopsEverything ==
    /\ CancelActiveActions
    /\ UNCHANGED <<chargerVars, headingVars, pose_reads, last_cov_request,
                   low_battery_armed, slip_detected, envVars, threadVars>>

HandleStopTask ==
    /\ "stop_task" \in Events
    /\ SetState("FREE", "USER_STOP")
    /\ StopsEverything

HandleCancelTask ==
    /\ "cancel_task" \in Events
    /\ SetState("FREE", "CANCELLED")
    /\ StopsEverything

HandleResetData ==
    /\ "reset_data" \in Events
    /\ SetStateE("FREE", "INIT_SUCCESS", "NONE")
    /\ StopsEverything

-----------------------------------------------------------------------------
(* The coverage action *)

CoverageFrame ==
    UNCHANGED <<pose_reads, chargerVars, undockVars, headingVars, UnlessCameras,
                envVars, threadVars>>

CoverageAccepted(g) ==
    /\ goal["coverage"][g] = "sent"
    /\ goal' = Put(goal, "coverage", g, "running")
    /\ handle' = [handle EXCEPT !["coverage"] = g]
    /\ UNCHANGED <<modeVars, cameras>>
    /\ CoverageFrame

CoverageRefused(g) ==
    /\ goal["coverage"][g] = "sent"
    /\ goal' = Put(goal, "coverage", g, "free")
    /\ SetState("FREE", "FAILED_ONCE")
    /\ UNCHANGED <<handle, cameras>>
    /\ CoverageFrame

\* A status that differs from the published one sets mode and status.
CoverageFeedback(g) ==
    /\ goal["coverage"][g] \in {"running", "canceling"}
    /\ \E s \in {"COVERING", "BOUNDARY_COVERING", "MOVING"} \ {work_status} :
           SetState("COVER", s)
    /\ UNCHANGED <<goal, handle, cameras>>
    /\ CoverageFrame

\* With a result, or with the exception its future raises.
CoverageResult(g) ==
    /\ goal["coverage"][g] \in {"running", "canceling"}
    /\ goal' = Put(goal, "coverage", g, "free")
    /\ handle' = Dropped({"coverage"})
    /\ \/ /\ \E s \in {"FINISHED_ONCE", "CANCELLED", "FAILED_ONCE"} :
                 SetState("FREE", s)
          /\ cameras' = FALSE
       \/ /\ SetState("FREE", "FAILED_ONCE")
          /\ UNCHANGED cameras
    /\ CoverageFrame

-----------------------------------------------------------------------------
(* Undocking *)

UndockFrame ==
    UNCHANGED <<charge_stop, charging_current, error_flags, headingVars, goalVars,
                taskVars, envVars, threadVars>>

\* The clock of the undock.  The 10 Hz tick drives at least once before the drive
\* time is over, unless something holds the default group.
UndockTimePasses ==
    /\ undocking
    /\ \/ undock_phase = "drive" /\ undock_phase' = "hold" /\ (undock_drove \/ ~MainFree)
       \/ undock_phase = "hold" /\ undock_phase' = "expired"
    /\ UNCHANGED <<modeVars, is_on_charger, undocking, undock_drove, undock_after>>
    /\ UndockFrame

UndockDrives ==
    /\ undock_phase = "drive"
    /\ undock_drove' = TRUE
    /\ UNCHANGED <<modeVars, is_on_charger, undocking, undock_phase, undock_after>>

\* Variant: the undock stays on when it failed.
UndockFailsForEver ==
    /\ undock_phase = "expired"
    /\ charge_stop
    /\ undock_after' = NoState
    /\ SetState("FREE", "FAILED_ONCE")
    /\ UNCHANGED <<is_on_charger, undocking, undock_phase, undock_drove>>

\* The charge contact is still there: the mower rolled back.
UndockFails ==
    /\ undock_phase = "expired"
    /\ charge_stop
    /\ undocking' = FALSE
    /\ undock_after' = NoState
    /\ SetState("FREE", "FAILED_ONCE")
    /\ UNCHANGED <<is_on_charger, undock_phase, undock_drove>>

\* Variant: the state to leave is not tested for None.
UndockLeavesAnyState ==
    /\ undock_phase = "expired"
    /\ ~charge_stop
    /\ undocking' = FALSE
    /\ undock_after' = NoState
    /\ is_on_charger' = FALSE
    /\ SetState(undock_after[1], undock_after[2])
    /\ UNCHANGED <<undock_phase, undock_drove>>

UndockSucceeds ==
    /\ undock_phase = "expired"
    /\ ~charge_stop
    /\ undocking' = FALSE
    /\ undock_after' = NoState
    /\ is_on_charger' = FALSE
    /\ IF undock_after = NoState
       THEN SetState("FREE", "INIT_SUCCESS")
       ELSE SetState(undock_after[1], undock_after[2])
    /\ UNCHANGED <<undock_phase, undock_drove>>

UndockTick ==
    /\ MainFree
    /\ undocking
    /\ UndockDrives \/ UndockFails \/ UndockSucceeds
    /\ UndockFrame

\* Variant: a command restarts an undock that is on its way.
JoystickRestartsUndock ==
    /\ "joystick" \in Events
    /\ MainFree
    /\ handle["boundary"] = NoGoal
    /\ is_on_charger
    /\ BeginUndock(NoState)
    /\ UNCHANGED is_on_charger
    /\ UndockFrame

\* A joystick command on the charger undocks instead of driving.
OnCloudMoveCmd ==
    /\ "joystick" \in Events
    /\ MainFree
    /\ ~undocking
    /\ handle["boundary"] = NoGoal
    /\ is_on_charger
    /\ BeginUndock(NoState)
    /\ UNCHANGED is_on_charger
    /\ UndockFrame

=============================================================================
