----------------------------- MODULE RobotDecision -----------------------------
(***************************************************************************)
(* The decision node as a whole: its boot, its services, the callbacks of  *)
(* its action clients, its subscriptions and its timers, interleaved.      *)
(***************************************************************************)
EXTENDS DecisionSensors, DecisionMapping

-----------------------------------------------------------------------------
(* _boot_tick *)

BootFrame ==
    UNCHANGED <<charge_stop, charging_current, error_flags, undockVars, goal, handle,
                taskVars, loc, threadVars>>

BootStays == UNCHANGED <<is_on_charger, headingVars, pose_reads>> /\ BootFrame

BootEnters(from, to) ==
    /\ boot_phase = from
    /\ boot_phase' = to
    /\ SetState("FREE", from)
    /\ BootStays

\* init_ok, the UTM origin or the localization may still be missing.
BootWaits ==
    /\ boot_phase \in {"SENSOR_INIT", "LOCALIZATION_UTM_INIT", "LOCALIZATION_INIT"}
    /\ SetState("FREE", boot_phase)
    /\ UNCHANGED boot_phase
    /\ BootStays

\* INIT_MOWER publishes no state.
BootInitsMower ==
    /\ boot_phase = "INIT_MOWER"
    /\ boot_phase' = "LOCALIZATION_UTM_INIT"
    /\ UNCHANGED modeVars
    /\ BootStays

\* The checks are done: look at the charger, stay on it, or go there.  The mode
\* was set to FREE before _update_charger_state ran.
BootSucceeds ==
    LET on == OnChargerNow(charging_current) IN
    /\ boot_phase = "INIT_SUCCESS"
    /\ boot_phase' = "DONE"
    /\ is_on_charger' = on
    /\ \/ /\ on
          /\ SetState("CHARGING", "INIT_SUCCESS")
          /\ DetectionStopsHeading(charging_current)
          /\ UNCHANGED pose_reads
       \/ /\ ~on
          /\ loc = "aligned"
          /\ StartRecharge
          /\ UNCHANGED headingVars
       \/ /\ ~on
          /\ loc # "aligned"
          /\ SetState("FREE", "INIT_SUCCESS")
          /\ StartHeadingDiscovery
          /\ UNCHANGED <<tf_recovery_attempts, pose_reads>>
    /\ BootFrame

BootTick ==
    /\ MainFree
    /\ \/ BootEnters("SYSTEM_CHECK_INIT", "SENSOR_INIT")
       \/ BootEnters("SENSOR_INIT", "INIT_MOWER")
       \/ BootEnters("LOCALIZATION_UTM_INIT", "LOCALIZATION_INIT")
       \/ BootEnters("LOCALIZATION_INIT", "INIT_SUCCESS")
       \/ BootWaits
       \/ BootInitsMower
       \/ BootSucceeds

-----------------------------------------------------------------------------
(* The specification *)

\* A behaviour begins with the process, or where its boot has reached
\* INIT_SUCCESS, or after a boot on the charger once the mower was taken off it.
FirstStatus ==
    CASE FirstPhase = "SYSTEM_CHECK_INIT" -> "SYSTEM_CHECK_INIT"
      [] FirstPhase = "INIT_SUCCESS" -> "LOCALIZATION_INIT"
      [] FirstPhase = "DONE" -> "INIT_SUCCESS"

Init ==
    /\ task_mode = "FREE"
    /\ work_status = FirstStatus
    /\ recharge_status = "IDLE"
    /\ error_status = "NONE"
    /\ is_on_charger = FALSE
    /\ charge_stop = FALSE
    /\ charging_current = FALSE
    /\ error_flags = {}
    /\ undocking = FALSE
    /\ undock_phase = "expired"
    /\ undock_drove = FALSE
    /\ undock_after = NoState
    /\ heading_phase = "none"
    /\ heading_timer = FALSE
    /\ free_moves = 0
    /\ tf_recovery_attempts = 0
    /\ goal = [c \in Clients |-> [g \in GoalIds |-> "free"]]
    /\ handle = [c \in Clients |-> NoGoal]
    /\ pose_reads = 0
    /\ last_cov_request = "none"
    /\ low_battery_armed = TRUE
    /\ mapping_active = FALSE
    /\ cameras = FALSE
    /\ slip_detected = FALSE
    /\ boot_phase = FirstPhase
    /\ loc = "unknown"
    /\ pc = [t \in Threads |-> "idle"]
    /\ arg = [t \in Threads |-> "none"]

\* A handler that waits goes on.
UndockWaitEnds(t) == CovUndocked(t) \/ MapUndocked(t) \/ AssistantUndocked(t)

ThreadStep(t) ==
    \/ UndockWaitEnds(t)
    \/ CovMapLoaded(t)
    \/ RecordingStarts(t)
    \/ MapGenerated(t)
    \/ MapDeleted(t)
    \/ Erased(t)
    \/ FollowStarts(t)
    \/ NoPerceptionData(t)
    \/ PerceptionData(t)

\* A request to a service that may block.
BlockingService(w) ==
    \/ HandleStartCovTask(w)
    \/ HandleResumeTask(w)
    \/ HandleStartMapping(w)
    \/ HandleAddArea(w)
    \/ HandleSaveMap(w)
    \/ HandleDeleteMap(w)
    \/ HandleStartErase(w)
    \/ HandleStartAssistant(w)

Service ==
    \/ HandleStopTask
    \/ HandleCancelTask
    \/ HandleResetData
    \/ HandleAutoRecharge
    \/ HandleNavToRecharge
    \/ HandleCancelRecharge
    \/ HandleMapStopRecord
    \/ HandleResetMapping
    \/ HandleQuitMapping
    \/ HandleSaveChargingPose

\* The answer to a goal that was sent.
GoalResponse(g) ==
    \/ CoverageAccepted(g) \/ CoverageRefused(g)
    \/ BoundaryAccepted(g) \/ BoundaryRefused(g)
    \/ NavAccepted(g) \/ NavRefused(g)
    \/ ChargingAccepted(g) \/ ChargingRefused(g)
    \/ \E c \in {"slip", "loc_recover"} : RecoveryAccepted(c, g)

GoalResult(g) ==
    \/ CoverageResult(g)
    \/ NavResult(g)
    \/ ChargingResult(g)
    \/ BoundaryStops(g)
    \/ \E w \in Workers : BoundaryCloses(g, w)
    \/ \E c \in {"slip", "loc_recover"} : RecoveryResult(c, g)

ClientCallback ==
    \/ OnChargerPoseRead
    \/ OnFreeMoveDone
    \/ \E g \in GoalIds : GoalResponse(g) \/ GoalResult(g) \/ CoverageFeedback(g)

Subscription ==
    \/ \E r \in Readings : OnBattery(r)
    \/ \E F \in Incidents : OnIncident(F)
    \/ OnLocStatus
    \/ OnCloudMoveCmd
    \/ OnCameraHwException
    \/ OnShmError
    \/ SlipDetected
    \/ SlipIsOver

Timer ==
    \/ BootTick
    \/ UndockTick
    \/ HeadingDiscoveryTick
    \/ CpuOverheats
    \/ LocalizationIsLow

Next ==
    \/ \E t \in Threads : ThreadStep(t)
    \/ \E w \in Workers : BlockingService(w)
    \/ Service
    \/ ClientCallback
    \/ Subscription
    \/ Timer
    \/ UndockTimePasses

Spec == Init /\ [][Next]_vars

\* Calls return, action servers answer and finish, timers fire, time passes.
\* A wait for an undock has a deadline of its own: it ends even if undock follows
\* undock and each look at _undocking finds it set.  A timer that is due gets the
\* default group between two callbacks that block it.  Nothing is assumed of the
\* commands and messages that arrive.
Fairness ==
    /\ \A t \in Threads : WF_vars(ThreadStep(t)) /\ SF_vars(UndockWaitEnds(t))
    /\ WF_vars(OnChargerPoseRead)
    /\ WF_vars(OnFreeMoveDone)
    /\ \A g \in GoalIds : WF_vars(GoalResponse(g)) /\ WF_vars(GoalResult(g))
    /\ WF_vars(BootTick /\ boot_phase' # boot_phase)
    /\ SF_vars(UndockTick)
    /\ SF_vars(HeadingDiscoveryTick)
    /\ WF_vars(UndockTimePasses)

FairSpec == Spec /\ Fairness

-----------------------------------------------------------------------------
(* Properties *)

ModesTyped ==
    /\ task_mode \in TaskModes
    /\ work_status \in WorkStatuses
    /\ recharge_status \in RechargeStatuses
    /\ error_status \in ErrorStatuses

ChargerTyped ==
    /\ is_on_charger \in BOOLEAN /\ charge_stop \in BOOLEAN /\ charging_current \in BOOLEAN
    /\ error_flags \in Incidents \cup {{}}

UndockTyped ==
    /\ undocking \in BOOLEAN /\ undock_drove \in BOOLEAN
    /\ undock_phase \in {"drive", "hold", "expired"}
    /\ undock_after \in AfterStates

HeadingTyped ==
    /\ heading_phase \in {"none", "free_move_pending", "drive_off", "spinning"}
    /\ heading_timer \in BOOLEAN
    /\ free_moves \in 0..MaxReads
    /\ tf_recovery_attempts \in 0..2

GoalsTyped ==
    /\ goal \in GoalTables
    /\ handle \in HandleTables
    /\ pose_reads \in 0..MaxReads

TaskTyped ==
    /\ last_cov_request \in CovKinds \cup {"none"}
    /\ low_battery_armed \in BOOLEAN /\ mapping_active \in BOOLEAN
    /\ cameras \in BOOLEAN /\ slip_detected \in BOOLEAN

EnvTyped == boot_phase \in BootPhases /\ loc \in LocStates

ThreadsTyped ==
    /\ pc \in [Threads -> Points]
    /\ arg \in [Threads -> Requests]

\* Every variable keeps its range.
TypeOK ==
    /\ ModesTyped
    /\ ChargerTyped
    /\ UndockTyped
    /\ HeadingTyped
    /\ GoalsTyped
    /\ TaskTyped
    /\ EnvTyped
    /\ ThreadsTyped

\* A handle the node keeps is that of a goal the server still works on, so that
\* "a handle is there" means "a task is running" in every guard and every cancel.
HandleIsLive ==
    \A c \in Clients : handle[c] # NoGoal => goal[c][handle[c]] \in {"running", "canceling"}

\* The abstract protocol, on the goals and handles of the node.
Goals == INSTANCE ActionClients

\* The goals and their handles follow the protocol of ActionClients: every handler
\* and callback that touches them takes one of its steps, or leaves them alone.
ClientsKeepProtocol == Goals!Spec

\* The abstract recharge, on what the node publishes and on the goals at its servers.
Chain == INSTANCE RechargeChain
    WITH mode <- task_mode, status <- recharge_status, reads <- pose_reads,
         navs <- Live("nav"), docks <- Live("charging"), attempts <- tf_recovery_attempts

\* The recharge is handed on from read to navigation to docking to an outcome: no job
\* is lost or doubled, and no other handler publishes RECHARGING, changes the recharge
\* status or the count of attempts.
RechargeIsHandedOn == Chain!Spec

\* The abstract undock, on what the node publishes.
Undocks == INSTANCE Undocking
    WITH phase <- undock_phase, drove <- undock_drove, after <- undock_after,
         published <- <<task_mode, work_status>>, ResumedTask <- <<"COVER", "COVERING">>

\* An undock runs by its own clock to one end: no request, joystick command, message
\* or cancelled predecessor restarts the clock, ends it early as if it had ended, or has
\* it publish another state than it was asked for.
UndockRunsOnce == Undocks!Spec

\* The mode RECHARGING always has something under way that will end it.
RechargeNeverStalls ==
    task_mode = "RECHARGING" => pose_reads > 0 \/ Live("nav") # {} \/ Live("charging") # {}

\* NAVIGATING is published only while the charger pose or the navigation is awaited.
NavigatingIsUnderWay ==
    recharge_status = "NAVIGATING" => pose_reads > 0 \/ Live("nav") # {}

\* A work status that announces work has that work under way: no handler that overlaps
\* another one ends the other's work, or its own, and leaves the announcement behind.
StatusIsUnderWay ==
    /\ work_status = "QUIT_PILE_INIT" => undocking
    /\ work_status = "RETURN_TO_PILE" => pose_reads > 0 \/ Live("nav") # {}
    /\ work_status = "ALIGN_PILE" => Live("charging") # {}
    /\ work_status = "AUTO_ERASE_MAPPING" => \E t \in Threads : pc[t] = "erase"
    /\ work_status = "DELETE_MAP" => \E t \in Threads : pc[t] = "delete"
    /\ work_status \in {"SYSTEM_CHECK_INIT", "SENSOR_INIT", "LOCALIZATION_UTM_INIT",
                        "LOCALIZATION_INIT"} => ~Booted

\* A heading discovery that has begun has the reverse move or the timer that carries it
\* on, also when contact, cancels and late answers of earlier moves come in between.
HeadingGoesOn ==
    /\ heading_phase = "free_move_pending" => free_moves > 0
    /\ heading_phase \in {"drive_off", "spinning"} => heading_timer

\* The mode CHARGING is left with the charger, whichever of the battery, the
\* incidents and the undock notices first.
ChargingMeansOnCharger == task_mode = "CHARGING" => is_on_charger

\* COVER has a coverage goal, or a handler on its way to one.
CoverHasWork ==
    task_mode = "COVER" =>
        \/ Live("coverage") # {}
        \/ \E t \in Threads : pc[t] \in {"cov_undock", "cov_map"}

\* A critical flag that appears while a task runs stops that task.
CriticalIncidentStopsTask ==
    [][/\ task_mode \in {"COVER", "MAPPING"}
       /\ "critical" \in error_flags' \ error_flags
       => task_mode' = "STOP"]_vars

\* An undock that ran its time has driven.
UndockDrivesFirst == undocking /\ undock_phase = "expired" => undock_drove

\* An undock that will leave a task's mode behind has a handler of that task waiting
\* for it, which goes on with the task: also when requests of both tasks overlap, of
\* which the undock follows the first.
UndockIsAwaited ==
    /\ undocking /\ undock_after[1] = "COVER" => \E t \in Threads : pc[t] = "cov_undock"
    /\ undocking /\ undock_after[1] = "MAPPING"
       => \E t \in Threads : pc[t] \in {"map_undock", "asst_undock"}

\* A handler that waits returns.
RequestsAreAnswered == \A t \in Threads : (pc[t] # "idle") ~> (pc[t] = "idle")

\* An undock ends.
UndockEnds == undocking ~> ~undocking

\* The recharge comes to an end: on the charger, or given up.
RechargeIsDecided == task_mode = "RECHARGING" ~> task_mode # "RECHARGING"

\* Docking that only ever fails for want of the map frame is given up: with no
\* command, the node neither recharges nor drives around for ever.
DockingSettles == <>[](task_mode # "RECHARGING" /\ heading_phase = "none")

=============================================================================
