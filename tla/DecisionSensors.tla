---------------------------- MODULE DecisionSensors ----------------------------
(***************************************************************************)
(* What the chassis, the localization and the decision assistant report:   *)
(* battery messages, incidents, localization, slipping, overheating and    *)
(* camera or memory faults (robot_decision.py, decision_assistant.py).     *)
(* All of them arrive in the default callback group.                       *)
(***************************************************************************)
EXTENDS DecisionTask, DecisionRecharge

-----------------------------------------------------------------------------
(* Charger detection *)

\* The charger state after _update_charger_state with this charging current.
OnChargerNow(current) == charge_stop \/ current

Docks(current) == OnChargerNow(current) /\ ~is_on_charger
Leaves(current) == ~OnChargerNow(current) /\ is_on_charger

\* Contact stops a heading discovery that has its timer.
DetectionStopsHeading(current) ==
    /\ IF Docks(current) /\ heading_timer
       THEN heading_phase' = "none" /\ heading_timer' = FALSE
       ELSE UNCHANGED <<heading_phase, heading_timer>>
    /\ UNCHANGED <<free_moves, tf_recovery_attempts>>

\* Variant: leaving the charger does not leave CHARGING.
ModeAfterContactOnly(current) ==
    IF Docks(current) /\ task_mode = "FREE" /\ Booted /\ ~undocking
    THEN "CHARGING" ELSE task_mode

\* The mode after _update_charger_state.
ModeAfterDetection(current) ==
    CASE Docks(current) /\ task_mode = "FREE" /\ Booted /\ ~undocking -> "CHARGING"
      [] Leaves(current) /\ task_mode = "CHARGING" -> "FREE"
      [] OTHER -> task_mode

DetectionSetsState(current) ==
    IF ModeAfterDetection(current) # task_mode
    THEN SetState(ModeAfterDetection(current), "INIT_SUCCESS")
    ELSE UNCHANGED modeVars

-----------------------------------------------------------------------------
(* _on_battery *)

Rearmed(level) == low_battery_armed \/ level \in {"mid", "full"}

BatteryStopsCoverage(r) ==
    Booted /\ r.level = "low" /\ low_battery_armed
    /\ ModeAfterDetection(r.current) = "COVER"

BatterySendsHome(r) ==
    /\ Booted /\ r.level = "low"
    /\ ~OnChargerNow(r.current)
    /\ ModeAfterDetection(r.current) = "FREE"

BatteryIsFull(r) ==
    Booted /\ r.level = "full" /\ ModeAfterDetection(r.current) = "CHARGING"

\* Every message.  A level of zero counts as no charging current.
BatteryDetects(r) ==
    LET current == r.current /\ r.level # "empty" IN
    /\ MainFree
    /\ charging_current' = current
    /\ is_on_charger' = OnChargerNow(current)
    /\ DetectionStopsHeading(current)
    /\ UNCHANGED <<charge_stop, error_flags, slip_detected, envVars>>

BatteryOrdinary(r) ==
    /\ ~BatteryStopsCoverage(r) /\ ~BatterySendsHome(r) /\ ~BatteryIsFull(r)
    /\ DetectionSetsState(r.current /\ r.level # "empty")
    /\ low_battery_armed' = (IF Booted THEN Rearmed(r.level) ELSE low_battery_armed)
    /\ UNCHANGED <<undockVars, goalVars, last_cov_request, mapping_active, cameras,
                   threadVars>>

BatteryRecallsCoverage(r) ==
    /\ BatteryStopsCoverage(r)
    /\ CancelActiveActions
    /\ StartRecharge
    /\ low_battery_armed' = FALSE
    /\ UNCHANGED <<last_cov_request, threadVars>>

\* Idle, low and off the charger.
BatteryRecallsIdle(r) ==
    /\ BatterySendsHome(r)
    /\ task_mode' = "RECHARGING"
    /\ work_status' = "RETURN_TO_PILE"
    /\ recharge_status' = "NAVIGATING"
    /\ error_status' = "LOW_BATTERY"
    /\ pose_reads < MaxReads
    /\ pose_reads' = pose_reads + 1
    /\ UNCHANGED <<goal, handle, undockVars, taskVars, threadVars>>

\* Full: leave CHARGING and run the last request again, inside this callback.
BatteryResumes(r) ==
    /\ BatteryIsFull(r)
    /\ StopActions
    /\ low_battery_armed' = TRUE
    /\ \/ /\ last_cov_request = "none"
          /\ StopUndock
          /\ SetState("FREE", "INIT_SUCCESS")
          /\ UNCHANGED <<last_cov_request, threadVars>>
       \/ /\ last_cov_request # "none"
          /\ StartCovTask(Main, last_cov_request, "FREE", OnChargerNow(r.current), FALSE)
    /\ UNCHANGED pose_reads

OnBattery(r) ==
    /\ "battery" \in Events
    /\ BatteryDetects(r)
    /\ \/ BatteryOrdinary(r)
       \/ BatteryRecallsCoverage(r)
       \/ BatteryRecallsIdle(r)
       \/ BatteryResumes(r)

-----------------------------------------------------------------------------
(* _on_incident *)

\* The error the flags F select; none of them leaves the old one.
ErrorOf(F) ==
    CASE "critical" \in F -> "CRITICAL"
      [] "critical" \notin F /\ "stall" \in F -> "MOTOR_STALL"
      [] F \cap {"critical", "stall"} = {} /\ "imu" \in F -> "IMU_ERROR"
      [] F \cap {"critical", "stall", "imu"} = {} /\ "lora" \in F -> "LORA_ERROR"
      [] F \cap {"critical", "stall", "imu", "lora"} = {} /\ "rtk" \in F -> "RTK_ERROR"
      [] OTHER -> error_status

\* charge_stop is charger detection.  Unlike the battery it does not ask whether
\* an undock is on its way.
Contact(F) == "charge_stop" \in F /\ ~is_on_charger

ModeAfterContact(F) ==
    IF Contact(F) /\ task_mode = "FREE" /\ Booted THEN "CHARGING" ELSE task_mode

TaskMeets(F, e) ==
    /\ ErrorOf(F) = e
    /\ error_status # e
    /\ ModeAfterContact(F) \in {"COVER", "MAPPING"}

IncidentFrame ==
    UNCHANGED <<charging_current, headingVars, pose_reads, last_cov_request,
                low_battery_armed, slip_detected, envVars, threadVars>>

IncidentIsNoted(F) ==
    /\ \A e \in {"CRITICAL", "MOTOR_STALL", "LORA_ERROR", "RTK_ERROR"} : ~TaskMeets(F, e)
    /\ error_status' = ErrorOf(F)
    /\ task_mode' = ModeAfterContact(F)
    /\ work_status' =
           IF ModeAfterContact(F) # task_mode THEN "INIT_SUCCESS" ELSE work_status
    /\ UNCHANGED <<recharge_status, undockVars, goal, handle, mapping_active, cameras>>

IncidentCancelsTask(F) ==
    /\ TaskMeets(F, "CRITICAL")
    /\ CancelActiveActions
    /\ SetStateE("STOP", "USER_STOP", "CRITICAL")

IncidentMarksTask(F) ==
    /\ \/ TaskMeets(F, "MOTOR_STALL") /\ SetStateE(task_mode, "SLIPPING_HANDLE", "MOTOR_STALL")
       \/ TaskMeets(F, "LORA_ERROR") /\ SetStateE(task_mode, "LORA_ERROR_HANDLE", "LORA_ERROR")
       \/ TaskMeets(F, "RTK_ERROR") /\ SetStateE(task_mode, "LOC_ERROR_HANDLE", "RTK_ERROR")
    /\ UNCHANGED <<undockVars, goal, handle, mapping_active, cameras>>

IncidentReported(F) ==
    /\ F # {}
    /\ charge_stop' = ("charge_stop" \in F)
    /\ is_on_charger' = (is_on_charger \/ "charge_stop" \in F)
    /\ \/ IncidentIsNoted(F)
       \/ IncidentCancelsTask(F)
       \/ IncidentMarksTask(F)

\* Variant: the error is not cleared with its flag.
IncidentClearedKeepsError(F) ==
    LET left == "charge_stop" \in error_flags /\ is_on_charger IN
    /\ F = {}
    /\ is_on_charger' = (is_on_charger /\ ~left)
    /\ IF left /\ task_mode = "CHARGING"
       THEN task_mode' = "FREE" /\ work_status' = "INIT_SUCCESS"
       ELSE UNCHANGED <<task_mode, work_status>>
    /\ UNCHANGED <<recharge_status, error_status, charge_stop, undockVars, goal,
                   handle, mapping_active, cameras>>

\* All flags gone.  _charge_stop_active keeps its value.
IncidentCleared(F) ==
    LET left == "charge_stop" \in error_flags /\ is_on_charger IN
    /\ F = {}
    /\ error_status' = "NONE"
    /\ is_on_charger' = (is_on_charger /\ ~left)
    /\ IF left /\ task_mode = "CHARGING"
       THEN task_mode' = "FREE" /\ work_status' = "INIT_SUCCESS"
       ELSE UNCHANGED <<task_mode, work_status>>
    /\ UNCHANGED <<recharge_status, charge_stop, undockVars, goal, handle,
                   mapping_active, cameras>>

OnIncident(F) ==
    /\ "incident" \in Events
    /\ MainFree
    /\ F # error_flags
    /\ error_flags' = F
    /\ IncidentReported(F) \/ IncidentCleared(F)
    /\ IncidentFrame

-----------------------------------------------------------------------------
(* Faults *)

FaultFrame ==
    UNCHANGED <<chargerVars, headingVars, pose_reads, last_cov_request,
                low_battery_armed, slip_detected, envVars, threadVars>>

\* check_cpu_temp.
CpuOverheats ==
    /\ "overheat" \in Events
    /\ MainFree
    /\ task_mode = "COVER"
    /\ CancelActiveActions
    /\ SetStateE("STOP", "RECOVER_ERROR_STOP", "CPU_OVERHEAT")
    /\ FaultFrame

OnCameraHwException ==
    /\ "camera_fault" \in Events
    /\ MainFree
    /\ SetStateE(task_mode, "RECOVER_ERROR_STOP", "CAMERA_ERROR")
    /\ UNCHANGED <<undockVars, goal, handle, mapping_active, cameras>>
    /\ FaultFrame

\* The task goes on: nothing is cancelled.
OnShmError ==
    /\ "shm_error" \in Events
    /\ MainFree
    /\ SetState("STOP", "RECOVER_ERROR_STOP")
    /\ UNCHANGED <<undockVars, goal, handle, mapping_active, cameras>>
    /\ FaultFrame

-----------------------------------------------------------------------------
(* Recovery moves *)

RecoveryFrame ==
    UNCHANGED <<chargerVars, undockVars, headingVars, pose_reads, last_cov_request,
                low_battery_armed, mapping_active, cameras, boot_phase, threadVars>>

\* _send_slip_goal, _send_loc_recover_goal: nothing while a handle is kept; the
\* server may not answer in time.
SendRecovery(c) ==
    \/ UNCHANGED goal
    \/ /\ handle[c] = NoGoal
       /\ \E g \in GoalIds \ Live(c) : goal' = Put(goal, c, g, "sent")

OnLocStatus ==
    /\ "loc" \in Events
    /\ MainFree
    /\ loc' \in LocStates
    /\ UNCHANGED <<modeVars, goal, handle, slip_detected>>
    /\ RecoveryFrame

\* Variant: the check does not look at the mode.
LocalizationIsLowAnywhere ==
    /\ MainFree
    /\ loc = "bad"
    /\ SetState("COVER", "LOC_ERROR_HANDLE")
    /\ SendRecovery("loc_recover")
    /\ UNCHANGED <<handle, slip_detected, loc>>
    /\ RecoveryFrame

\* check_localization.
LocalizationIsLow ==
    /\ MainFree
    /\ task_mode = "COVER"
    /\ loc = "bad"
    /\ SetState("COVER", "LOC_ERROR_HANDLE")
    /\ SendRecovery("loc_recover")
    /\ UNCHANGED <<handle, slip_detected, loc>>
    /\ RecoveryFrame

\* on_motor_current: three readings with current and without movement.
SlipDetected ==
    /\ "slip" \in Events
    /\ MainFree
    /\ Booted
    /\ task_mode \in {"COVER", "MAPPING"}
    /\ ~slip_detected
    /\ slip_detected' = TRUE
    /\ \/ task_mode = "COVER" /\ SetState("COVER", "SLIPPING_HANDLE") /\ SendRecovery("slip")
       \/ task_mode = "MAPPING" /\ UNCHANGED <<modeVars, goal>>
    /\ UNCHANGED <<handle, loc>>
    /\ RecoveryFrame

\* The readings are good again, or no task runs.
SlipIsOver ==
    /\ "slip" \in Events
    /\ MainFree
    /\ Booted
    /\ slip_detected
    /\ slip_detected' = FALSE
    /\ UNCHANGED <<modeVars, goal, handle, loc>>
    /\ RecoveryFrame

\* The assistant's servers accept every goal.
RecoveryAccepted(c, g) ==
    /\ goal[c][g] = "sent"
    /\ goal' = Put(goal, c, g, "running")
    /\ handle' = [handle EXCEPT ![c] = g]
    /\ UNCHANGED <<modeVars, slip_detected, loc>>
    /\ RecoveryFrame

\* Variant: the handle is kept, so no second recovery is ever sent.
RecoveryResultKeepsHandle(c, g) ==
    /\ goal[c][g] = "running"
    /\ goal' = Put(goal, c, g, "free")
    /\ UNCHANGED <<modeVars, handle, slip_detected, loc>>
    /\ RecoveryFrame

RecoveryResult(c, g) ==
    /\ goal[c][g] = "running"
    /\ goal' = Put(goal, c, g, "free")
    /\ handle' = Dropped({c})
    /\ UNCHANGED <<modeVars, slip_detected, loc>>
    /\ RecoveryFrame

=============================================================================
