------------------------- MODULE DecisionTypes_proofs -------------------------
(***************************************************************************)
(* Type correctness of the decision node, for any number of goals, worker  *)
(* threads, charger-pose reads and for any events.                         *)
(***************************************************************************)
EXTENDS RobotDecision, TLAPS

-----------------------------------------------------------------------------
(* The helpers the handlers share *)

\* Changing the state of one goal changes only that goal.
LEMMA PutTyped ==
    ASSUME NEW gl \in GoalTables, NEW c \in Clients, NEW g \in GoalIds,
           NEW s \in GoalStates
    PROVE  Put(gl, c, g, s) \in GoalTables
BY DEF Put, GoalTables

\* Asking the goals with a handle to cancel keeps the table a table of goals.
LEMMA CancelledTyped ==
    ASSUME goal \in GoalTables, handle \in HandleTables, NEW cs \in SUBSET Clients
    PROVE  Cancelled(goal, cs) \in GoalTables
<1>1. SUFFICES ASSUME NEW c \in Clients
               PROVE  (IF c \in cs /\ handle[c] # NoGoal
                       THEN [goal[c] EXCEPT ![handle[c]] = "canceling"]
                       ELSE goal[c]) \in [GoalIds -> GoalStates]
  BY DEF Cancelled, GoalTables
<1>2. goal[c] \in [GoalIds -> GoalStates] /\ "canceling" \in GoalStates
  BY DEF GoalTables, GoalStates
<1>3. QED  BY <1>2

\* Dropping handles leaves handles or None.
LEMMA DroppedTyped ==
    ASSUME handle \in HandleTables, NEW cs \in SUBSET Clients
    PROVE  Dropped(cs) \in HandleTables
BY DEF Dropped, HandleTables

\* _set_state publishes a mode and a status.
LEMMA SetStateTyped ==
    ASSUME TypeOK, NEW m \in TaskModes, NEW s \in WorkStatuses
    PROVE  /\ SetState(m, s) => ModesTyped'
           /\ \A r \in RechargeStatuses : SetStateR(m, s, r) => ModesTyped'
           /\ \A e \in ErrorStatuses : SetStateE(m, s, e) => ModesTyped'
BY DEF TypeOK, ModesTyped, SetState, SetStateR, SetStateE

\* A handler that waits, goes on or ends keeps the control points typed.
LEMMA ThreadTyped ==
    ASSUME TypeOK, NEW t \in Threads, NEW p \in Points
    PROVE  /\ \A k \in Requests : Block(t, p, k) => ThreadsTyped'
           /\ Goto(t, p) => ThreadsTyped'
BY DEF TypeOK, ThreadsTyped, Block, Goto

\* What is not assigned keeps its type.
LEMMA FrameTyped ==
    ASSUME TypeOK
    PROVE  /\ UNCHANGED modeVars => ModesTyped'
           /\ UNCHANGED chargerVars => ChargerTyped'
           /\ UNCHANGED undockVars => UndockTyped'
           /\ UNCHANGED headingVars => HeadingTyped'
           /\ UNCHANGED goalVars => GoalsTyped'
           /\ UNCHANGED taskVars => TaskTyped'
           /\ UNCHANGED envVars => EnvTyped'
           /\ UNCHANGED threadVars => ThreadsTyped'
BY DEF TypeOK, ModesTyped, ChargerTyped, UndockTyped, HeadingTyped, GoalsTyped,
       TaskTyped, EnvTyped, ThreadsTyped, modeVars, chargerVars, undockVars,
       headingVars, goalVars, taskVars, envVars, threadVars

\* The read of the charger pose is counted, the mode is RECHARGING.
LEMMA StartRechargeTyped ==
    ASSUME TypeOK, StartRecharge
    PROVE  ModesTyped' /\ pose_reads' \in 0..MaxReads
<1>1. ModesTyped'
  BY SetStateTyped DEF StartRecharge, TaskModes, WorkStatuses, RechargeStatuses
<1>2. pose_reads' \in 0..MaxReads
  BY ReadsBound DEF StartRecharge, TypeOK, GoalsTyped
<1>3. QED  BY <1>1, <1>2

\* Heading discovery asks for a move, or drives.
LEMMA StartHeadingTyped ==
    ASSUME TypeOK, StartHeadingDiscovery
    PROVE  /\ heading_phase' \in {"none", "free_move_pending", "drive_off", "spinning"}
           /\ heading_timer' \in BOOLEAN
           /\ free_moves' \in 0..MaxReads
<1>1. free_moves' \in 0..MaxReads
  BY ReadsBound DEF StartHeadingDiscovery, HeadingTyped, TypeOK
<1>2. QED
  BY <1>1 DEF StartHeadingDiscovery, HeadingTyped, TypeOK

\* An undock starts, or the request for one is ignored.
LEMMA RequestUndockTyped ==
    ASSUME TypeOK, NEW a \in AfterStates, NEW busy \in BOOLEAN,
           RequestUndock(busy, a) \/ BeginUndock(a)
    PROVE  ModesTyped' /\ UndockTyped'
<1>1. ModesTyped'
  BY SetStateTyped, FrameTyped DEF RequestUndock, BeginUndock, TaskModes, WorkStatuses
<1>2. UndockTyped'
  BY FrameTyped DEF RequestUndock, BeginUndock, UndockTyped
<1>3. QED  BY <1>1, <1>2

\* _cancel_active_actions, without and with the undock.
LEMMA StopActionsTyped ==
    ASSUME TypeOK, StopActions
    PROVE  /\ goal' \in GoalTables /\ handle' \in HandleTables
           /\ mapping_active' \in BOOLEAN /\ cameras' \in BOOLEAN
<1>1. Cancellable \in SUBSET Clients /\ Cancellable \ {"coverage"} \in SUBSET Clients
  BY DEF Cancellable, Clients
<1>2. goal \in GoalTables /\ handle \in HandleTables
  BY DEF TypeOK, GoalsTyped
<1>3. QED  BY <1>1, <1>2, CancelledTyped, DroppedTyped DEF StopActions

\* _cancel_active_actions ends an undock.
LEMMA StopUndockTyped ==
    ASSUME TypeOK, StopUndock
    PROVE  UndockTyped'
BY DEF TypeOK, UndockTyped, StopUndock

\* _handle_start_cov_task up to its first wait.
LEMMA StartCovTaskTyped ==
    ASSUME TypeOK, NEW t \in Threads, NEW k \in CovKinds, NEW m \in TaskModes,
           NEW on, NEW busy \in BOOLEAN, StartCovTask(t, k, m, on, busy)
    PROVE  /\ ModesTyped' /\ UndockTyped' /\ ThreadsTyped'
           /\ last_cov_request' \in CovKinds \cup {"none"}
<1>1. ModesTyped'
  BY SetStateTyped, RequestUndockTyped
  DEF StartCovTask, TaskModes, WorkStatuses, AfterStates
<1>2. UndockTyped'
  BY RequestUndockTyped DEF StartCovTask, TypeOK, UndockTyped, AfterStates
<1>3. ThreadsTyped'
  BY ThreadTyped, FrameTyped, CovKindsAssumption DEF StartCovTask, Points, Requests
<1>4. last_cov_request' \in CovKinds \cup {"none"}
  BY DEF StartCovTask, TypeOK, TaskTyped
<1>5. QED  BY <1>1, <1>2, <1>3, <1>4

\* A handler that waits goes on.
LEMMA ThreadStepTyped ==
    ASSUME TypeOK, NEW t \in Threads, ThreadStep(t)
    PROVE  TypeOK'
<1>1. CASE CovUndocked(t)
  BY <1>1, ThreadTyped, FrameTyped
  DEF CovUndocked, Points, TypeOK
<1>2. CASE MapUndocked(t)
  BY <1>2, ThreadTyped, FrameTyped
  DEF MapUndocked, Record, MappingFrame, Points, Requests, TaskTyped, TypeOK
<1>3. CASE AssistantUndocked(t)
  BY <1>3, ThreadTyped, FrameTyped
  DEF AssistantUndocked, FollowFrame, Points, GoalsTyped, TaskTyped, TypeOK
<1>4. CASE CovMapLoaded(t)
  BY <1>4, SetStateTyped, ThreadTyped, PutTyped, FrameTyped
  DEF CovMapLoaded, CovMapFails, CovLacksPolygon, CovStarts, Done, UnlessCameras,
      TaskModes, WorkStatuses, Points, Requests, Clients, GoalStates, GoalsTyped,
      TaskTyped, TypeOK
<1>5. CASE RecordingStarts(t)
  BY <1>5, ThreadTyped, FrameTyped
  DEF RecordingStarts, Finish, MappingFrame, Points, Requests, TaskTyped, TypeOK
<1>6. CASE MapGenerated(t)
  BY <1>6, SetStateTyped, ThreadTyped, FrameTyped
  DEF MapGenerated, Finish, MappingFrame, TaskModes, WorkStatuses, Points, Requests,
      TaskTyped, TypeOK
<1>7. CASE MapDeleted(t)
  BY <1>7, SetStateTyped, ThreadTyped, FrameTyped
  DEF MapDeleted, Finish, MappingFrame, TaskModes, WorkStatuses, Points, Requests,
      TaskTyped, TypeOK
<1>8. CASE Erased(t)
  BY <1>8, SetStateTyped, ThreadTyped, FrameTyped
  DEF Erased, Finish, MappingFrame, TaskModes, WorkStatuses, Points, Requests,
      TaskTyped, TypeOK
<1>9. CASE FollowStarts(t)
  BY <1>9, SetStateTyped, ThreadTyped, FrameTyped
  DEF FollowStarts, Finish, FollowFrame, TaskModes, WorkStatuses, Points, Requests,
      GoalsTyped, TaskTyped, TypeOK
<1>10. CASE NoPerceptionData(t)
  BY <1>10, SetStateTyped, ThreadTyped, FrameTyped
  DEF NoPerceptionData, Finish, FollowFrame, TaskModes, WorkStatuses, Points, Requests,
      GoalsTyped, TaskTyped, TypeOK
<1>11. CASE PerceptionData(t)
  BY <1>11, ThreadTyped, PutTyped, FrameTyped
  DEF PerceptionData, Finish, FollowFrame, Points, Requests, Clients, GoalStates,
      GoalsTyped, TaskTyped, TypeOK
<1> QED
  BY <1>1, <1>2, <1>3, <1>4, <1>5, <1>6, <1>7, <1>8, <1>9, <1>10, <1>11
  DEF ThreadStep, UndockWaitEnds

\* A service that may block is called.
LEMMA BlockingServiceTyped ==
    ASSUME TypeOK, NEW w \in Workers, BlockingService(w)
    PROVE  TypeOK'
<1>1. CASE HandleStartCovTask(w)
  BY <1>1, StartCovTaskTyped, FrameTyped
  DEF HandleStartCovTask, Threads, TaskTyped, ModesTyped, ChargerTyped, UndockTyped,
      TypeOK
<1>2. CASE HandleResumeTask(w)
  BY <1>2, StartCovTaskTyped, FrameTyped
  DEF HandleResumeTask, Threads, TaskTyped, ModesTyped, ChargerTyped, UndockTyped,
      TypeOK
<1>3. CASE HandleStartMapping(w)
  BY <1>3, RequestUndockTyped, SetStateTyped, ThreadTyped, FrameTyped
  DEF HandleStartMapping, Record, TaskModes, WorkStatuses, Points, Requests, Threads,
      AfterStates, UndockTyped, TypeOK
<1>4. CASE HandleAddArea(w)
  BY <1>4, SetStateTyped, ThreadTyped, FrameTyped
  DEF HandleAddArea, Record, MappingFrame, TaskModes, WorkStatuses, Points, Requests,
      Threads, TaskTyped, TypeOK
<1>5. CASE HandleSaveMap(w)
  BY <1>5, SetStateTyped, ThreadTyped, FrameTyped
  DEF HandleSaveMap, MappingFrame, TaskModes, WorkStatuses, Points, Requests, Threads,
      TaskTyped, TypeOK
<1>6. CASE HandleDeleteMap(w)
  BY <1>6, SetStateTyped, ThreadTyped, FrameTyped
  DEF HandleDeleteMap, MappingFrame, TaskModes, WorkStatuses, Points, Requests, Threads,
      TaskTyped, TypeOK
<1>7. CASE HandleStartErase(w)
  BY <1>7, SetStateTyped, ThreadTyped, FrameTyped
  DEF HandleStartErase, MappingFrame, TaskModes, WorkStatuses, Points, Requests,
      Threads, TaskTyped, TypeOK
<1>8. CASE HandleStartAssistant(w)
  BY <1>8, RequestUndockTyped, SetStateTyped, ThreadTyped, FrameTyped
  DEF HandleStartAssistant, FollowFrame, TaskModes, WorkStatuses, Points, Requests,
      Threads, GoalsTyped, TaskTyped, AfterStates, UndockTyped, TypeOK
<1> QED
  BY <1>1, <1>2, <1>3, <1>4, <1>5, <1>6, <1>7, <1>8
  DEF BlockingService

\* A service that returns at once is called.
LEMMA ServiceTyped ==
    ASSUME TypeOK, Service
    PROVE  TypeOK'
<1>1. CASE HandleStopTask
  BY <1>1, StopActionsTyped, StopUndockTyped, SetStateTyped, FrameTyped
  DEF HandleStopTask, StopsEverything, CancelActiveActions, TaskModes, WorkStatuses,
      GoalsTyped, TaskTyped, TypeOK
<1>2. CASE HandleCancelTask
  BY <1>2, StopActionsTyped, StopUndockTyped, SetStateTyped, FrameTyped
  DEF HandleCancelTask, StopsEverything, CancelActiveActions, TaskModes, WorkStatuses,
      GoalsTyped, TaskTyped, TypeOK
<1>3. CASE HandleResetData
  BY <1>3, StopActionsTyped, StopUndockTyped, SetStateTyped, FrameTyped
  DEF HandleResetData, StopsEverything, CancelActiveActions, TaskModes, WorkStatuses,
      ErrorStatuses, GoalsTyped, TaskTyped, TypeOK
<1>4. CASE HandleAutoRecharge
  BY <1>4, StartRechargeTyped, FrameTyped
  DEF HandleAutoRecharge, NoThread, GoalsTyped, TypeOK
<1>5. CASE HandleNavToRecharge
  BY <1>5, StartRechargeTyped, SetStateTyped, PutTyped, FrameTyped
  DEF HandleNavToRecharge, SendNavGoal, StartAutoCharging, NoThread, TaskModes,
      WorkStatuses, RechargeStatuses, Clients, GoalStates, GoalsTyped, TypeOK
<1>6. CASE HandleCancelRecharge
  BY <1>6, SetStateTyped, CancelledTyped, DroppedTyped, FrameTyped
  DEF HandleCancelRecharge, NoThread, TaskModes, WorkStatuses, RechargeStatuses,
      Clients, GoalsTyped, TypeOK
<1>7. CASE HandleMapStopRecord
  BY <1>7, SetStateTyped, FrameTyped
  DEF HandleMapStopRecord, MappingFrame, TaskModes, WorkStatuses, TaskTyped, TypeOK
<1>8. CASE HandleResetMapping
  BY <1>8, SetStateTyped, FrameTyped
  DEF HandleResetMapping, MappingFrame, TaskModes, WorkStatuses, TaskTyped, TypeOK
<1>9. CASE HandleQuitMapping
  BY <1>9, SetStateTyped, FrameTyped
  DEF HandleQuitMapping, MappingFrame, TaskModes, WorkStatuses, TaskTyped, TypeOK
<1>10. CASE HandleSaveChargingPose
  BY <1>10, SetStateTyped, FrameTyped
  DEF HandleSaveChargingPose, MappingFrame, TaskModes, WorkStatuses, TaskTyped, TypeOK
<1> QED
  BY <1>1, <1>2, <1>3, <1>4, <1>5, <1>6, <1>7, <1>8, <1>9, <1>10
  DEF Service

\* An action server answers a goal.
LEMMA GoalResponseTyped ==
    ASSUME TypeOK, NEW g \in GoalIds, GoalResponse(g)
    PROVE  TypeOK'
<1>1. CASE CoverageAccepted(g)
  BY <1>1, PutTyped, FrameTyped
  DEF CoverageAccepted, CoverageFrame, UnlessCameras, Clients, GoalStates, HandleTables,
      GoalsTyped, TaskTyped, TypeOK
<1>2. CASE CoverageRefused(g)
  BY <1>2, SetStateTyped, PutTyped, FrameTyped
  DEF CoverageRefused, CoverageFrame, UnlessCameras, TaskModes, WorkStatuses, Clients,
      GoalStates, GoalsTyped, TaskTyped, TypeOK
<1>3. CASE BoundaryAccepted(g)
  BY <1>3, PutTyped, FrameTyped
  DEF BoundaryAccepted, FollowFrame, Clients, GoalStates, HandleTables, GoalsTyped,
      TaskTyped, TypeOK
<1>4. CASE BoundaryRefused(g)
  BY <1>4, SetStateTyped, PutTyped, FrameTyped
  DEF BoundaryRefused, FollowFrame, TaskModes, WorkStatuses, Clients, GoalStates,
      GoalsTyped, TaskTyped, TypeOK
<1>5. CASE NavAccepted(g)
  BY <1>5, PutTyped, FrameTyped
  DEF NavAccepted, NoThread, Clients, GoalStates, HandleTables, GoalsTyped, TypeOK
<1>6. CASE NavRefused(g)
  BY <1>6, SetStateTyped, PutTyped, FrameTyped
  DEF NavRefused, ThenAutoCharging, NoThread, TaskModes, WorkStatuses, RechargeStatuses,
      Clients, GoalStates, GoalsTyped, TypeOK
<1>7. CASE ChargingAccepted(g)
  BY <1>7, PutTyped, FrameTyped
  DEF ChargingAccepted, NoThread, Clients, GoalStates, HandleTables, GoalsTyped, TypeOK
<1>8. CASE ChargingRefused(g)
  BY <1>8, SetStateTyped, PutTyped, FrameTyped
  DEF ChargingRefused, NoThread, TaskModes, WorkStatuses, RechargeStatuses, Clients,
      GoalStates, GoalsTyped, TypeOK
<1>9. ASSUME NEW c \in {"slip", "loc_recover"}, RecoveryAccepted(c, g) PROVE TypeOK'
  BY <1>9, PutTyped, FrameTyped
  DEF RecoveryAccepted, RecoveryFrame, Clients, GoalStates, HandleTables, GoalsTyped,
      TaskTyped, EnvTyped, TypeOK
<1> QED
  BY <1>1, <1>2, <1>3, <1>4, <1>5, <1>6, <1>7, <1>8, <1>9
  DEF GoalResponse

\* A goal ends, or reports its progress.
LEMMA GoalResultTyped ==
    ASSUME TypeOK, NEW g \in GoalIds, GoalResult(g) \/ CoverageFeedback(g)
    PROVE  TypeOK'
<1>1. CASE CoverageFeedback(g)
  BY <1>1, SetStateTyped, FrameTyped
  DEF CoverageFeedback, CoverageFrame, UnlessCameras, TaskModes, WorkStatuses,
      GoalsTyped, TaskTyped, TypeOK
<1>2. CASE CoverageResult(g)
  BY <1>2, SetStateTyped, PutTyped, DroppedTyped, FrameTyped
  DEF CoverageResult, CoverageFrame, UnlessCameras, TaskModes, WorkStatuses, Clients,
      GoalStates, GoalsTyped, TaskTyped, TypeOK
<1>3. CASE NavResult(g)
  BY <1>3, SetStateTyped, PutTyped, DroppedTyped, FrameTyped
  DEF NavResult, ThenAutoCharging, NoThread, TaskModes, WorkStatuses, RechargeStatuses,
      Clients, GoalStates, GoalsTyped, TypeOK
<1>4. CASE ChargingResult(g)
  <2>1. ASSUME ChargingSucceeds(g) PROVE TypeOK'
    <3>1. ModesTyped'
      BY <2>1, SetStateTyped
      DEF ChargingSucceeds, TaskModes, WorkStatuses, RechargeStatuses
    <3>2. ChargerTyped' /\ HeadingTyped'
      BY <2>1 DEF ChargingSucceeds, ChargerTyped, HeadingTyped, TypeOK
    <3>3. GoalsTyped'
      BY <2>1, PutTyped, DroppedTyped
      DEF ChargingSucceeds, ChargingEnds, Clients, GoalStates, GoalsTyped, TypeOK
    <3> QED
      BY <2>1, <3>1, <3>2, <3>3, FrameTyped DEF ChargingSucceeds, TypeOK
  <2>2. ASSUME ChargingStops(g) PROVE TypeOK'
    BY <2>2, SetStateTyped, PutTyped, DroppedTyped, FrameTyped
    DEF ChargingStops, ChargingEnds, NoThread, TaskModes, WorkStatuses,
        RechargeStatuses, Clients, GoalStates, GoalsTyped, TypeOK
  <2>3. ASSUME ChargingLacksTransform(g) PROVE TypeOK'
    <3>1. ModesTyped'
      BY <2>3, SetStateTyped
      DEF ChargingLacksTransform, TaskModes, WorkStatuses, RechargeStatuses
    <3>2. HeadingTyped'
      <4>1. CASE tf_recovery_attempts + 1 <= 2
        BY <2>3, <4>1, StartHeadingTyped
        DEF ChargingLacksTransform, HeadingTyped, TypeOK
      <4>2. CASE ~(tf_recovery_attempts + 1 <= 2)
        BY <2>3, <4>2 DEF ChargingLacksTransform, HeadingTyped, TypeOK
      <4> QED
        BY <4>1, <4>2
    <3>3. GoalsTyped'
      BY <2>3, PutTyped, DroppedTyped
      DEF ChargingLacksTransform, ChargingEnds, Clients, GoalStates, GoalsTyped, TypeOK
    <3> QED
      BY <2>3, <3>1, <3>2, <3>3, FrameTyped DEF ChargingLacksTransform, NoThread, TypeOK
  <2> QED
    BY <1>4, <2>1, <2>2, <2>3 DEF ChargingResult
<1>5. CASE BoundaryStops(g)
  BY <1>5, SetStateTyped, PutTyped, DroppedTyped, FrameTyped
  DEF BoundaryStops, BoundaryEnds, FollowFrame, TaskModes, WorkStatuses, Clients,
      GoalStates, GoalsTyped, TaskTyped, TypeOK
<1>6. ASSUME NEW w \in Workers, BoundaryCloses(g, w) PROVE TypeOK'
  BY <1>6, SetStateTyped, ThreadTyped, PutTyped, DroppedTyped, FrameTyped
  DEF BoundaryCloses, BoundaryEnds, FollowFrame, TaskModes, WorkStatuses, Points,
      Requests, Clients, GoalStates, Threads, GoalsTyped, TaskTyped, TypeOK
<1>7. ASSUME NEW c \in {"slip", "loc_recover"}, RecoveryResult(c, g) PROVE TypeOK'
  BY <1>7, PutTyped, DroppedTyped, FrameTyped
  DEF RecoveryResult, RecoveryFrame, Clients, GoalStates, GoalsTyped, TaskTyped,
      EnvTyped, TypeOK
<1> QED
  BY <1>1, <1>2, <1>3, <1>4, <1>5, <1>6, <1>7
  DEF GoalResult

\* A message arrives.
LEMMA SubscriptionTyped ==
    ASSUME TypeOK, Subscription
    PROVE  TypeOK'
<1>1. ASSUME NEW r \in Readings, OnBattery(r) PROVE TypeOK'
  <2> USE <1>1 DEF OnBattery
  <2>1. ChargerTyped' /\ EnvTyped' /\ HeadingTyped'
    BY FrameTyped
    DEF BatteryDetects, DetectionStopsHeading, OnChargerNow, ReadingsAssumption,
        ChargerTyped, HeadingTyped, TypeOK
  <2>2. slip_detected' \in BOOLEAN
    BY DEF BatteryDetects, TaskTyped, TypeOK
  <2>3. ASSUME BatteryOrdinary(r) PROVE TypeOK'
    <3>1. ModesTyped'
      BY <2>3, SetStateTyped, FrameTyped
      DEF BatteryOrdinary, DetectionSetsState, ModeAfterDetection, TaskModes,
          WorkStatuses
    <3>2. TaskTyped'
      BY <2>2, <2>3 DEF BatteryOrdinary, Rearmed, TaskTyped, TypeOK
    <3> QED
      BY <2>1, <2>3, <3>1, <3>2, FrameTyped DEF BatteryOrdinary, TypeOK
  <2>4. ASSUME BatteryRecallsCoverage(r) PROVE TypeOK'
    BY <2>1, <2>2, <2>4, StopActionsTyped, StopUndockTyped, StartRechargeTyped, FrameTyped
    DEF BatteryRecallsCoverage, CancelActiveActions, GoalsTyped, TaskTyped, TypeOK
  <2>5. ASSUME BatteryRecallsIdle(r) PROVE TypeOK'
    BY <2>1, <2>5, FrameTyped, ReadsBound
    DEF BatteryRecallsIdle, ModesTyped, TaskModes, WorkStatuses, RechargeStatuses,
        ErrorStatuses, GoalsTyped, TypeOK
  <2>6. ASSUME BatteryResumes(r) PROVE TypeOK'
    <3>1. GoalsTyped' /\ mapping_active' \in BOOLEAN /\ cameras' \in BOOLEAN
      BY <2>6, StopActionsTyped DEF BatteryResumes, GoalsTyped, TypeOK
    <3>2. CASE last_cov_request = "none"
      BY <2>1, <2>2, <2>6, <3>1, <3>2, StopUndockTyped, SetStateTyped, FrameTyped
      DEF BatteryResumes, TaskTyped, TypeOK, TaskModes, WorkStatuses
    <3>3. CASE last_cov_request # "none"
      <4>1. /\ Main \in Threads /\ last_cov_request \in CovKinds
            /\ "FREE" \in TaskModes /\ FALSE \in BOOLEAN
        BY <3>3 DEF Threads, TaskTyped, TypeOK, TaskModes
      <4>2. StartCovTask(Main, last_cov_request, "FREE", OnChargerNow(r.current), FALSE)
        BY <2>6, <3>3 DEF BatteryResumes
      <4>3. /\ ModesTyped' /\ UndockTyped' /\ ThreadsTyped'
            /\ last_cov_request' \in CovKinds \cup {"none"}
        BY <4>1, <4>2, StartCovTaskTyped
      <4> QED
        BY <2>1, <2>2, <2>6, <3>1, <4>3 DEF BatteryResumes, TaskTyped, TypeOK
    <3> QED
      BY <3>2, <3>3
  <2> QED
    BY <2>3, <2>4, <2>5, <2>6
<1>2. ASSUME NEW F \in Incidents, OnIncident(F) PROVE TypeOK'
  <2> USE <1>2 DEF OnIncident
  <2>1. error_flags' \in Incidents \cup {{}}
    BY DEF OnIncident
  <2>2. /\ HeadingTyped' /\ EnvTyped' /\ ThreadsTyped'
        /\ charging_current' \in BOOLEAN /\ pose_reads' \in 0..MaxReads
        /\ last_cov_request' \in CovKinds \cup {"none"}
        /\ low_battery_armed' \in BOOLEAN /\ slip_detected' \in BOOLEAN
    BY FrameTyped DEF IncidentFrame, ChargerTyped, GoalsTyped, TaskTyped, TypeOK
  <2>3. ChargerTyped'
    <3>1. charge_stop' \in BOOLEAN
      <4>1. CASE IncidentReported(F) /\ "charge_stop" \in F
        BY <4>1, Zenon DEF IncidentReported
      <4>2. CASE IncidentReported(F) /\ "charge_stop" \notin F
        <5>1. ("charge_stop" \in F) = FALSE
          BY <4>2
        <5>2. charge_stop' = ("charge_stop" \in F)
          BY <4>2, Zenon DEF IncidentReported
        <5> QED
          BY <5>1, <5>2
      <4>3. CASE IncidentCleared(F)
        BY <4>3 DEF IncidentCleared, ChargerTyped, TypeOK
      <4> QED
        BY <4>1, <4>2, <4>3
    <3>2. is_on_charger' \in BOOLEAN
      BY Zenon DEF IncidentReported, IncidentCleared, ChargerTyped, TypeOK
    <3> QED
      BY <2>1, <2>2, <3>1, <3>2 DEF ChargerTyped
  <2>4. ASSUME IncidentIsNoted(F) \/ IncidentMarksTask(F) \/ IncidentCleared(F)
        PROVE  TypeOK'
    <3>1. ModesTyped'
      BY <2>4
      DEF IncidentIsNoted, IncidentMarksTask, IncidentCleared, ErrorOf, ModeAfterContact,
          SetStateE, ModesTyped, TypeOK, TaskModes, WorkStatuses, ErrorStatuses
    <3>2. UndockTyped' /\ GoalsTyped' /\ TaskTyped'
      BY <2>2, <2>4, FrameTyped
      DEF IncidentIsNoted, IncidentMarksTask, IncidentCleared, GoalsTyped, TaskTyped, TypeOK
    <3> QED
      BY <2>2, <2>3, <3>1, <3>2 DEF TypeOK
  <2>5. ASSUME IncidentCancelsTask(F) PROVE TypeOK'
    BY <2>2, <2>3, <2>5, StopActionsTyped, StopUndockTyped, SetStateTyped
    DEF IncidentCancelsTask, CancelActiveActions, GoalsTyped, TaskTyped, TypeOK,
        TaskModes, WorkStatuses, ErrorStatuses
  <2> QED
    BY <2>4, <2>5 DEF IncidentReported
<1>3. CASE OnLocStatus
  BY <1>3, FrameTyped
  DEF OnLocStatus, LocStates, RecoveryFrame, GoalsTyped, TaskTyped, EnvTyped, TypeOK
<1>4. CASE OnCloudMoveCmd
  BY <1>4, RequestUndockTyped, FrameTyped
  DEF OnCloudMoveCmd, NoState, UndockFrame, ChargerTyped, AfterStates, UndockTyped,
      TypeOK
<1>5. CASE OnCameraHwException
  <2>1. ModesTyped'
    BY <1>5
    DEF OnCameraHwException, SetStateE, ModesTyped, TypeOK, WorkStatuses, ErrorStatuses
  <2> QED
    BY <1>5, <2>1, FrameTyped
    DEF OnCameraHwException, FaultFrame, GoalsTyped, TaskTyped, TypeOK
<1>6. CASE OnShmError
  BY <1>6, SetStateTyped, FrameTyped
  DEF OnShmError, FaultFrame, TaskModes, WorkStatuses, GoalsTyped, TaskTyped, TypeOK
<1>7. CASE SlipDetected
  BY <1>7, SetStateTyped, PutTyped, FrameTyped
  DEF SlipDetected, SendRecovery, RecoveryFrame, TaskModes, WorkStatuses, Clients,
      GoalStates, GoalsTyped, TaskTyped, EnvTyped, TypeOK
<1>8. CASE SlipIsOver
  BY <1>8, FrameTyped
  DEF SlipIsOver, RecoveryFrame, GoalsTyped, TaskTyped, EnvTyped, TypeOK
<1> QED
  BY <1>1, <1>2, <1>3, <1>4, <1>5, <1>6, <1>7, <1>8
  DEF Subscription

\* A timer fires, or time passes for an undock.
LEMMA TimerTyped ==
    ASSUME TypeOK, Timer \/ UndockTimePasses \/ OnChargerPoseRead \/ OnFreeMoveDone
    PROVE  TypeOK'
<1>1. CASE BootTick
  <2>1. ModesTyped'
    BY <1>1, SetStateTyped, StartRechargeTyped, FrameTyped
    DEF BootTick, BootEnters, BootWaits, BootInitsMower, BootSucceeds, TaskModes,
        WorkStatuses
  <2>2. ChargerTyped'
    BY <1>1
    DEF BootTick, BootEnters, BootWaits, BootInitsMower, BootSucceeds, BootStays,
        BootFrame, OnChargerNow, ChargerTyped, TypeOK
  <2>3. HeadingTyped'
    <3>1. CASE BootSucceeds
      BY <3>1, FrameTyped, StartHeadingTyped
      DEF BootSucceeds, DetectionStopsHeading, HeadingTyped, TypeOK
    <3>2. CASE ~BootSucceeds
      BY <1>1, <3>2, FrameTyped
      DEF BootTick, BootEnters, BootWaits, BootInitsMower, BootStays
    <3> QED
      BY <3>1, <3>2
  <2>4. GoalsTyped'
    BY <1>1, StartRechargeTyped
    DEF BootTick, BootEnters, BootWaits, BootInitsMower, BootSucceeds, BootStays,
        BootFrame, GoalsTyped, TypeOK
  <2>5. EnvTyped'
    BY <1>1
    DEF BootTick, BootEnters, BootWaits, BootInitsMower, BootSucceeds, BootStays,
        BootFrame, EnvTyped, BootPhases, TypeOK
  <2> QED
    BY <1>1, <2>1, <2>2, <2>3, <2>4, <2>5, FrameTyped
    DEF BootTick, BootEnters, BootWaits, BootInitsMower, BootSucceeds, BootStays,
        BootFrame, TypeOK
<1>2. CASE UndockTick
  <2>1. undock_after # NoState =>
            undock_after[1] \in TaskModes /\ undock_after[2] \in WorkStatuses
    BY DEF UndockTyped, AfterStates, NoState, TaskModes, WorkStatuses, TypeOK
  <2>3. ModesTyped'
    <3>1. CASE UndockSucceeds /\ undock_after # NoState
      BY <2>1, <3>1, SetStateTyped DEF UndockSucceeds
    <3>2. CASE ~(UndockSucceeds /\ undock_after # NoState)
      BY <1>2, <3>2, SetStateTyped, FrameTyped
      DEF UndockTick, UndockDrives, UndockFails, UndockSucceeds, TaskModes, WorkStatuses
    <3> QED
      BY <3>1, <3>2
  <2>2. ChargerTyped' /\ UndockTyped'
    BY <1>2
    DEF UndockTick, UndockDrives, UndockFails, UndockSucceeds, UndockFrame, AfterStates,
        ChargerTyped, UndockTyped, TypeOK
  <2> QED
    BY <1>2, <2>3, <2>2, FrameTyped DEF UndockTick, UndockFrame, TypeOK
<1>3. CASE HeadingDiscoveryTick
  BY <1>3, StartRechargeTyped, FrameTyped
  DEF HeadingDiscoveryTick, HeadingAborts, HeadingSpins, HeadingDocks, NoThread,
      HeadingStops, HeadingTyped, GoalsTyped, TypeOK
<1>4. CASE CpuOverheats
  BY <1>4, StopActionsTyped, StopUndockTyped, SetStateTyped, FrameTyped
  DEF CpuOverheats, CancelActiveActions, FaultFrame, TaskModes, WorkStatuses,
      ErrorStatuses, GoalsTyped, TaskTyped, TypeOK
<1>5. CASE LocalizationIsLow
  BY <1>5, SetStateTyped, PutTyped, FrameTyped
  DEF LocalizationIsLow, SendRecovery, RecoveryFrame, TaskModes, WorkStatuses, Clients,
      GoalStates, GoalsTyped, TaskTyped, EnvTyped, TypeOK
<1>6. CASE UndockTimePasses
  BY <1>6, FrameTyped
  DEF UndockTimePasses, UndockFrame, ChargerTyped, UndockTyped, TypeOK
<1>7. CASE OnChargerPoseRead
  BY <1>7, SetStateTyped, PutTyped, FrameTyped, ReadsBound
  DEF OnChargerPoseRead, SendNavGoal, StartAutoCharging, NoThread, TaskModes,
      WorkStatuses, RechargeStatuses, Clients, GoalStates, GoalsTyped, TypeOK
<1>8. CASE OnFreeMoveDone
  BY <1>8, FrameTyped, ReadsBound
  DEF OnFreeMoveDone, NoThread, HeadingTyped, TypeOK
<1> QED
  BY <1>1, <1>2, <1>3, <1>4, <1>5, <1>6, <1>7, <1>8
  DEF Timer

-----------------------------------------------------------------------------
(* The theorem *)

\* The node starts with typed variables.
LEMMA TypeOKInit == Init => TypeOK
<1> SUFFICES ASSUME Init PROVE TypeOK
  OBVIOUS
<1>1. ModesTyped
  BY FirstPhaseAssumption
  DEF Init, FirstStatus, ModesTyped, TaskModes, WorkStatuses, RechargeStatuses, ErrorStatuses
<1>2. ChargerTyped /\ UndockTyped /\ TaskTyped
  BY DEF Init, ChargerTyped, UndockTyped, TaskTyped, AfterStates
<1>3. HeadingTyped
  <2>1. /\ heading_phase = "none" /\ heading_timer \in BOOLEAN
        /\ free_moves = 0 /\ tf_recovery_attempts = 0
    BY DEF Init
  <2>2. QED
    BY <2>1, ReadsBound DEF HeadingTyped
<1>5. GoalsTyped
  BY ReadsBound DEF Init, GoalsTyped, GoalTables, HandleTables, GoalStates
<1>4. EnvTyped /\ ThreadsTyped
  BY FirstPhaseAssumption
  DEF Init, EnvTyped, ThreadsTyped, BootPhases, LocStates, Points, Requests
<1>6. QED
  BY <1>1, <1>2, <1>3, <1>4, <1>5 DEF TypeOK

\* Every handler, callback, timer and answer keeps the types.
LEMMA TypeOKStep == TypeOK /\ [Next]_vars => TypeOK'
<1> SUFFICES ASSUME TypeOK, [Next]_vars PROVE TypeOK'
  OBVIOUS
<1>1. ASSUME NEW t \in Threads, ThreadStep(t) PROVE TypeOK'
  BY <1>1, ThreadStepTyped
<1>2. ASSUME NEW w \in Workers, BlockingService(w) PROVE TypeOK'
  BY <1>2, BlockingServiceTyped
<1>3. CASE Service
  BY <1>3, ServiceTyped
<1>4. ASSUME NEW g \in GoalIds, GoalResponse(g) PROVE TypeOK'
  BY <1>4, GoalResponseTyped
<1>5. ASSUME NEW g \in GoalIds, GoalResult(g) \/ CoverageFeedback(g) PROVE TypeOK'
  BY <1>5, GoalResultTyped
<1>6. CASE Subscription
  BY <1>6, SubscriptionTyped
<1>7. CASE Timer \/ UndockTimePasses \/ OnChargerPoseRead \/ OnFreeMoveDone
  BY <1>7, TimerTyped
<1>8. CASE UNCHANGED vars
  BY <1>8, FrameTyped DEF vars, TypeOK
<1>9. QED
  BY <1>1, <1>2, <1>3, <1>4, <1>5, <1>6, <1>7, <1>8 DEF Next, ClientCallback

\* Every variable of the node keeps its range, whatever commands, messages, answers
\* and timer ticks arrive in whatever order: in particular no undock leaves a mode
\* that is none, and the docking retries and outstanding reads stay in their bounds.
THEOREM TypeCorrect == Spec => []TypeOK
<1>1. Init => TypeOK
  BY TypeOKInit
<1>2. TypeOK /\ [Next]_vars => TypeOK'
  BY TypeOKStep
<1>3. QED
  BY <1>1, <1>2, PTL DEF Spec

=============================================================================
