-------------------------- MODULE DecisionTask_proofs --------------------------
(***************************************************************************)
(* The mowing task: COVER has work, an undock drives before its time is    *)
(* over, and a critical incident stops the task.  Each holds in every      *)
(* behaviour that satisfies a condition named here, as long as it does;    *)
(* where it does not, the property fails, as the instances NoPolygon,      *)
(* ResumeOnDock and PinFlag show.                                          *)
(***************************************************************************)
EXTENDS DecisionTypes_proofs

(* The conditions *)

\* The default group does not wait.
MainIsFree == pc[Main] = "idle"

\* No handler works on a request without the polygon its mode needs.
RequestsComplete == \A t \in Threads : arg[t] # "area_no_polygon"

\* Flags that are up select an error of their own, so that an error is not kept under
\* flags that do not show it.
FlagsSelectAnError ==
    error_flags # {} => error_flags \cap {"critical", "stall", "imu", "lora", "rtk"} # {}

-----------------------------------------------------------------------------
(* The invariants *)

\* An undock past its drive time has driven.
UndockHasDriven == undocking /\ undock_phase # "drive" => undock_drove

\* A step of a node whose default group is free, and whose undocks are awaited.
TaskInv == MainIsFree /\ UndockIsAwaited

\* A step keeps what COVER has for work, where requests are complete.
CoverIsKept == RequestsComplete /\ CoverHasWork => CoverHasWork'

\* Inductive under the third condition: the error CRITICAL has its flag.
CriticalIsFlagged == error_status = "CRITICAL" => "critical" \in error_flags

-----------------------------------------------------------------------------
(* The default group *)

\* Starts a task inside the battery callback, in the default group.
ResumesInside == \E r \in Readings : OnBattery(r) /\ BatteryResumes(r)

\* Every handler that waits is a worker's, but for that one.
LEMMA MainStaysFree ==
    ASSUME TypeOK, MainIsFree, [Next]_vars, ~ResumesInside
    PROVE  MainIsFree'
<1>1. ASSUME NEW t \in Threads, ThreadStep(t) PROVE MainIsFree'
  <2>1. pc[t] # "idle" /\ (\/ UNCHANGED pc
                           \/ \E p \in Points : pc' = [pc EXCEPT ![t] = p])
    BY <1>1
    DEF ThreadStep, UndockWaitEnds, CovUndocked, MapUndocked, AssistantUndocked,
        CovMapLoaded, Done, RecordingStarts, MapGenerated, MapDeleted, Erased,
        FollowStarts, NoPerceptionData, PerceptionData, Record, Finish, Block, Goto,
        Points
  <2> QED
    BY <2>1 DEF MainIsFree, Threads, TypeOK, ThreadsTyped
<1>2. ASSUME NEW w \in Workers, BlockingService(w) PROVE MainIsFree'
  <2>1. UNCHANGED pc \/ \E p \in Points : pc' = [pc EXCEPT ![w] = p]
    BY <1>2
    DEF BlockingService, HandleStartCovTask, HandleResumeTask, HandleStartMapping,
        HandleAddArea, HandleSaveMap, HandleDeleteMap, HandleStartErase,
        HandleStartAssistant, StartCovTask, Record, Block, Points, threadVars
  <2> QED
    BY <2>1, MainIsNoWorker DEF MainIsFree, Threads, TypeOK, ThreadsTyped
<1>3. CASE Service
  BY <1>3
  DEF Service, HandleStopTask, HandleCancelTask, HandleResetData, StopsEverything,
      HandleAutoRecharge, HandleNavToRecharge, HandleCancelRecharge, NoThread,
      HandleMapStopRecord, HandleResetMapping, HandleQuitMapping, HandleSaveChargingPose,
      MappingFrame, threadVars, MainIsFree
<1>4. ASSUME NEW g \in GoalIds, GoalResponse(g) PROVE MainIsFree'
  BY <1>4
  DEF GoalResponse, CoverageAccepted, CoverageRefused, CoverageFrame, BoundaryAccepted,
      BoundaryRefused, NavAccepted, NavRefused, ChargingAccepted, ChargingRefused,
      NoThread, RecoveryAccepted, RecoveryFrame, threadVars, MainIsFree
<1>5. ASSUME NEW g \in GoalIds, GoalResult(g) \/ CoverageFeedback(g) PROVE MainIsFree'
  <2>1. ASSUME NEW w \in Workers, BoundaryCloses(g, w) PROVE MainIsFree'
    BY <2>1, MainIsNoWorker
    DEF BoundaryCloses, Block, MainIsFree, TypeOK, ThreadsTyped
  <2> QED
    BY <1>5, <2>1
    DEF GoalResult, CoverageFeedback, CoverageResult, CoverageFrame, NavResult,
        ChargingResult, ChargingSucceeds, ChargingStops, ChargingLacksTransform, NoThread,
        BoundaryStops, RecoveryResult, RecoveryFrame, threadVars, MainIsFree
<1>6. CASE Subscription
  <2>1. ASSUME NEW r \in Readings, OnBattery(r) PROVE MainIsFree'
    BY <2>1
    DEF ResumesInside, OnBattery, BatteryOrdinary, BatteryRecallsCoverage,
        BatteryRecallsIdle, threadVars, MainIsFree
  <2>2. ASSUME NEW F \in Incidents, OnIncident(F) PROVE MainIsFree'
    BY <2>2 DEF OnIncident, IncidentFrame, threadVars, MainIsFree
  <2> QED
    BY <1>6, <2>1, <2>2
    DEF Subscription, OnLocStatus, RecoveryFrame, OnCloudMoveCmd, UndockFrame,
        OnCameraHwException, OnShmError, FaultFrame, SlipDetected, SlipIsOver, threadVars,
        MainIsFree
<1>7. CASE Timer \/ UndockTimePasses \/ OnChargerPoseRead \/ OnFreeMoveDone
  BY <1>7
  DEF Timer, BootTick, BootEnters, BootWaits, BootInitsMower, BootSucceeds, BootStays,
      BootFrame, UndockTick, UndockFrame, HeadingDiscoveryTick, NoThread, CpuOverheats,
      FaultFrame, LocalizationIsLow, RecoveryFrame, UndockTimePasses, OnChargerPoseRead,
      OnFreeMoveDone, threadVars, MainIsFree
<1>8. CASE UNCHANGED vars
  BY <1>8 DEF vars, threadVars, MainIsFree
<1> QED
  BY <1>1, <1>2, <1>3, <1>4, <1>5, <1>6, <1>7, <1>8 DEF Next, ClientCallback

\* With the default group free before and after, a full battery starts no task: there is
\* none to start, or the last one is still with its server.
LEMMA ResumeLeavesFree ==
    ASSUME TypeOK, MainIsFree', NEW r \in Readings, BatteryResumes(r)
    PROVE  /\ ~undocking' /\ UNCHANGED threadVars
           /\ task_mode' = "FREE"
<1>1. ASSUME NEW p \in {"cov_undock", "cov_map"}, pc' = [pc EXCEPT ![Main] = p] PROVE FALSE
  BY <1>1 DEF TypeOK, ThreadsTyped, MainIsFree, Threads
<1>2. ASSUME NEW k, StartCovTask(Main, k, "FREE", OnChargerNow(r.current), FALSE)
      PROVE  /\ ~undocking' /\ UNCHANGED threadVars
             /\ task_mode' = "FREE"
  BY <1>1, <1>2 DEF StartCovTask, Block, SetState
<1> QED
  BY <1>2 DEF BatteryResumes, StopUndock, SetState

\* Only resuming a task blocks the default group.
THEOREM OnlyResumingBlocks ==
    Spec => [][MainIsFree /\ ~MainIsFree' => ResumesInside]_vars
<1>1. TypeOK /\ [Next]_vars => [MainIsFree /\ ~MainIsFree' => ResumesInside]_vars
  BY MainStaysFree
<1> QED
  BY <1>1, TypeCorrect, PTL DEF Spec

-----------------------------------------------------------------------------
(* The undock runs once, and drives *)

\* A step of the undock that is not its clock's, or one that leaves it alone.
UndockStep ==
    \/ Undocks!Begin \/ Undocks!BeginAnew \/ Undocks!Drive \/ Undocks!End
    \/ Undocks!Stop \/ Undocks!Elsewhere

\* An undock that is left alone.
LEMMA UndockUntouched ==
    ASSUME UNCHANGED undockVars
    PROVE  UndockStep
BY DEF undockVars, UndockStep, Undocks!Elsewhere, Undocks!undockVars

\* An undock that is stopped, or was none.
LEMMA UndockStopped ==
    ASSUME TypeOK, ~undocking', undocking' \in BOOLEAN,
           UNCHANGED <<undock_phase, undock_drove, undock_after>>
    PROVE  UndockStep
<1>1. undocking \in BOOLEAN
  BY DEF TypeOK, UndockTyped
<1>2. CASE undocking
  BY <1>2 DEF UndockStep, Undocks!Stop
<1>3. CASE ~undocking
  BY <1>1, <1>3 DEF UndockStep, Undocks!Elsewhere, Undocks!undockVars
<1> QED
  BY <1>2, <1>3

\* An undock that begins: none is under way, or a task is resumed.
LEMMA UndockBegun ==
    ASSUME NEW a \in AfterStates, BeginUndock(a), ~undocking \/ a = <<"COVER", "COVERING">>
    PROVE  UndockStep
<1>1. Undocks!Begins(a)
  BY DEF BeginUndock, SetState, Undocks!Begins
<1> QED
  BY <1>1 DEF UndockStep, Undocks!Begin, Undocks!BeginAnew

\* A request begins an undock, or leaves the one under way alone.
LEMMA UndockRequested ==
    ASSUME NEW a \in AfterStates, RequestUndock(undocking, a)
    PROVE  UndockStep
BY UndockBegun, UndockUntouched DEF RequestUndock

\* The start handler, as a service.
LEMMA StartRequestsUndock ==
    ASSUME NEW t, NEW k, NEW on, StartCovTask(t, k, task_mode, on, undocking)
    PROVE  UndockStep
<1>1. <<"COVER", "COVERING">> \in AfterStates
  BY DEF AfterStates
<1> QED
  BY <1>1, UndockRequested, UndockUntouched DEF StartCovTask, undockVars

\* The start handler in the battery callback, after everything was stopped.
LEMMA ResumeRestartsUndock ==
    ASSUME TypeOK, NEW r, BatteryResumes(r)
    PROVE  UndockStep
<1>1. CASE StopUndock
  BY <1>1, UndockStopped DEF StopUndock
<1>2. ASSUME NEW k, NEW on, StartCovTask(Main, k, "FREE", on, FALSE) PROVE UndockStep
  <2>1. BeginUndock(<<"COVER", "COVERING">>) => UndockStep
    BY UndockBegun DEF AfterStates
  <2> QED
    BY <1>2, <2>1, UndockStopped DEF StartCovTask, RequestUndock
<1> QED
  BY <1>1, <1>2 DEF BatteryResumes

\* The 10 Hz tick.
LEMMA UndockTicks ==
    ASSUME TypeOK, UndockTick
    PROVE  UndockStep
<1>1. CASE UndockDrives
  BY <1>1 DEF UndockTick, UndockDrives, modeVars, UndockStep, Undocks!Drive
<1>2. CASE UndockFails \/ UndockSucceeds
  <2>1. undock_after # NoState => <<undock_after[1], undock_after[2]>> = undock_after
    BY DEF TypeOK, UndockTyped, AfterStates
  <2>2. <<task_mode, work_status>>' \in {<<"FREE", "FAILED_ONCE">>} \cup
            (IF undock_after = NoState THEN {<<"FREE", "INIT_SUCCESS">>} ELSE {undock_after})
    BY <1>2, <2>1 DEF UndockFails, UndockSucceeds, SetState
  <2> QED
    BY <1>2, <2>2
    DEF UndockTick, UndockFails, UndockSucceeds, UndockStep, Undocks!End
<1> QED
  BY <1>1, <1>2 DEF UndockTick

\* Every step but the clock's own is such a step.
LEMMA StepsLeaveUndock ==
    ASSUME TypeOK, [Next]_vars, ~UndockTimePasses
    PROVE  UndockStep
<1>1. ASSUME NEW t \in Threads, ThreadStep(t) PROVE UNCHANGED undockVars
  BY <1>1
  DEF ThreadStep, UndockWaitEnds, CovUndocked, MapUndocked, AssistantUndocked,
      CovMapLoaded, RecordingStarts, MapGenerated, MapDeleted, Erased, MappingFrame,
      FollowStarts, NoPerceptionData, PerceptionData
<1>2. ASSUME NEW w \in Workers, BlockingService(w) PROVE UndockStep
  <2>1. CASE HandleStartCovTask(w) \/ HandleResumeTask(w)
    BY <2>1, StartRequestsUndock DEF HandleStartCovTask, HandleResumeTask
  <2>2. CASE HandleStartMapping(w) \/ HandleStartAssistant(w)
    <3>1. /\ <<"MAPPING", "MANUAL_MAPPING_WORKING_ZONE">> \in AfterStates
          /\ <<"MAPPING", "ASSISTANT_MAPPING_WORKING_ZONE">> \in AfterStates
      BY DEF AfterStates
    <3> QED
      BY <2>2, <3>1, UndockRequested, UndockUntouched
      DEF HandleStartMapping, HandleStartAssistant
  <2> QED
    BY <1>2, <2>1, <2>2, UndockUntouched
    DEF BlockingService, HandleAddArea, HandleSaveMap, HandleDeleteMap, HandleStartErase,
        MappingFrame
<1>3. ASSUME Service PROVE UNCHANGED undockVars \/ StopUndock
  BY <1>3
  DEF Service, HandleStopTask, HandleCancelTask, HandleResetData, StopsEverything,
      CancelActiveActions, HandleAutoRecharge, HandleNavToRecharge,
      HandleCancelRecharge, NoThread, HandleMapStopRecord, HandleResetMapping,
      HandleQuitMapping, HandleSaveChargingPose, MappingFrame
<1>4. ASSUME NEW g \in GoalIds, GoalResponse(g) PROVE UNCHANGED undockVars
  BY <1>4
  DEF GoalResponse, CoverageAccepted, CoverageRefused, CoverageFrame, BoundaryAccepted,
      BoundaryRefused, NavAccepted, NavRefused, ChargingAccepted, ChargingRefused,
      NoThread, RecoveryAccepted, RecoveryFrame
<1>5. ASSUME NEW g \in GoalIds, GoalResult(g) \/ CoverageFeedback(g)
      PROVE  UNCHANGED undockVars
  BY <1>5
  DEF GoalResult, CoverageFeedback, CoverageResult, CoverageFrame, NavResult,
      ChargingResult, ChargingSucceeds, ChargingStops, ChargingLacksTransform, NoThread,
      BoundaryStops, BoundaryCloses, BoundaryEnds, RecoveryResult, RecoveryFrame
<1>6. ASSUME NEW r \in Readings, OnBattery(r), ~BatteryResumes(r)
      PROVE  UNCHANGED undockVars \/ StopUndock
  BY <1>6
  DEF OnBattery, BatteryOrdinary, BatteryRecallsCoverage, BatteryRecallsIdle,
      CancelActiveActions
<1>7. ASSUME NEW F \in Incidents, OnIncident(F) PROVE UNCHANGED undockVars \/ StopUndock
  BY <1>7
  DEF OnIncident, IncidentReported, IncidentCleared, IncidentIsNoted,
      IncidentCancelsTask, IncidentMarksTask, CancelActiveActions
<1>8. CASE OnCloudMoveCmd
  BY <1>8, UndockBegun DEF OnCloudMoveCmd, AfterStates
<1>9. ASSUME OnLocStatus \/ OnCameraHwException \/ OnShmError \/ SlipDetected \/ SlipIsOver
      PROVE  UNCHANGED undockVars
  BY <1>9
  DEF OnLocStatus, RecoveryFrame, OnCameraHwException, OnShmError, SlipDetected, SlipIsOver
<1>10. ASSUME Timer \/ OnChargerPoseRead \/ OnFreeMoveDone, ~UndockTick
       PROVE  UNCHANGED undockVars \/ StopUndock
  BY <1>10
  DEF Timer, BootTick, BootEnters, BootWaits, BootInitsMower, BootSucceeds, BootStays,
      BootFrame, HeadingDiscoveryTick, NoThread, CpuOverheats, CancelActiveActions,
      LocalizationIsLow, RecoveryFrame, OnChargerPoseRead, OnFreeMoveDone
<1>11. ASSUME UNCHANGED vars PROVE UNCHANGED undockVars
  BY <1>11 DEF vars
<1>12. UNCHANGED undockVars \/ StopUndock => UndockStep
  BY UndockUntouched, UndockStopped DEF StopUndock
<1> QED
  BY <1>1, <1>2, <1>3, <1>4, <1>5, <1>6, <1>7, <1>8, <1>9, <1>10, <1>11, <1>12,
     ResumeRestartsUndock, UndockTicks
  DEF Next, ClientCallback, Subscription

\* The node implements Undocking: whatever is requested, driven by hand, reported or
\* cancelled meanwhile, an undock has one clock and one end.
THEOREM UndockImplemented == Spec => UndockRunsOnce
<1>1. Init => Undocks!Init
  BY DEF Init, Undocks!Init
<1>2. TypeOK /\ [Next]_vars
      => [Undocks!Next]_<<Undocks!undockVars, <<task_mode, work_status>>>>
  <2>1. UndockTimePasses => Undocks!TimePasses
    BY DEF UndockTimePasses, modeVars, Undocks!TimePasses
  <2> QED
    BY <2>1, StepsLeaveUndock DEF UndockStep, Undocks!Next
<1> QED
  BY <1>1, <1>2, TypeCorrect, PTL DEF Spec, UndockRunsOnce, Undocks!Spec

\* The drive time is not over before a tick has driven.
LEMMA UndockStaysDriven ==
    ASSUME TypeOK, MainIsFree, UndockHasDriven, [Next]_vars
    PROVE  UndockHasDriven'
<1>1. CASE UndockTimePasses
  BY <1>1 DEF UndockTimePasses, UndockHasDriven, MainIsFree, MainFree
<1>2. CASE UndockStep
  BY <1>2
  DEF UndockStep, UndockHasDriven, Undocks!Begin, Undocks!BeginAnew, Undocks!Begins,
      Undocks!Drive, Undocks!End, Undocks!Stop, Undocks!Elsewhere, Undocks!undockVars
<1> QED
  BY <1>1, <1>2, StepsLeaveUndock

\* While nothing holds the default group, an undock that ran its time has driven: the
\* 10 Hz tick comes at least once in the drive time, whatever restarts, cancels or
\* ignored requests there are.
THEOREM UndockHasDrivenFirst == Spec /\ []MainIsFree => []UndockDrivesFirst
<1>1. Init => UndockHasDriven
  BY DEF Init, UndockHasDriven
<1>2. TypeOK /\ MainIsFree /\ UndockHasDriven /\ [Next]_vars => UndockHasDriven'
  BY UndockStaysDriven
<1>3. UndockHasDriven => UndockDrivesFirst
  BY DEF UndockHasDriven, UndockDrivesFirst
<1> QED
  BY <1>1, <1>2, <1>3, TypeCorrect, PTL DEF Spec

-----------------------------------------------------------------------------
(* COVER has work *)

\* Where a handler waits that a task waits for.
TaskPoints == {"cov_undock", "cov_map", "map_undock", "asst_undock"}

\* A step that publishes no COVER and ends no coverage, begins no undock for a task,
\* and moves no handler that a task waits for.
TaskAside ==
    /\ task_mode' = "COVER" => task_mode = "COVER" \/ Live("coverage") # {}
    /\ Live("coverage") \subseteq Live("coverage")'
    /\ undocking' /\ undock_after'[1] \in {"COVER", "MAPPING"}
       => undocking /\ UNCHANGED undock_after
    /\ \A t \in Threads : pc[t] \in TaskPoints => pc'[t] = pc[t]

\* Such a step keeps both.
LEMMA TaskAsideStep ==
    ASSUME UndockIsAwaited, TaskAside
    PROVE  UndockIsAwaited' /\ CoverIsKept
<1>1. UndockIsAwaited'
  BY DEF UndockIsAwaited, TaskAside, TaskPoints
<1>2. CoverIsKept
  BY DEF CoverIsKept, CoverHasWork, TaskAside, TaskPoints
<1> QED
  BY <1>1, <1>2

\* A goal that ends elsewhere, or does not end, leaves the coverage with its server.
LEMMA CoverageLive ==
    ASSUME TypeOK
    PROVE  /\ UNCHANGED goal => Live("coverage") \subseteq Live("coverage")'
           /\ \A cs \in SUBSET Clients :
                goal' = Cancelled(goal, cs) => Live("coverage") \subseteq Live("coverage")'
           /\ \A c \in Clients, g \in GoalIds, s \in GoalStates :
                goal' = Put(goal, c, g, s) /\ (c # "coverage" \/ s # "free")
                => Live("coverage") \subseteq Live("coverage")'
           /\ \A g \in GoalIds, h \in GoalIds :
                goal' = Put(Put(goal, "nav", g, "free"), "charging", h, "sent")
                => Live("coverage") \subseteq Live("coverage")'
           /\ StopActions => Live("coverage") \subseteq Live("coverage")'
<1>1. UNCHANGED goal => Live("coverage") \subseteq Live("coverage")'
  BY DEF Live
<1>2. ASSUME NEW cs \in SUBSET Clients, goal' = Cancelled(goal, cs)
      PROVE  Live("coverage") \subseteq Live("coverage")'
  BY <1>2, NoGoalIsNoGoal
  DEF Live, Cancelled, TypeOK, GoalsTyped, GoalTables, HandleTables, Clients
<1>3. ASSUME NEW c \in Clients, NEW g \in GoalIds, NEW s \in GoalStates,
             goal' = Put(goal, c, g, s), c # "coverage" \/ s # "free"
      PROVE  Live("coverage") \subseteq Live("coverage")'
  BY <1>3 DEF Live, Put, TypeOK, GoalsTyped, GoalTables, Clients
<1>4. ASSUME NEW g \in GoalIds, NEW h \in GoalIds,
             goal' = Put(Put(goal, "nav", g, "free"), "charging", h, "sent")
      PROVE  Live("coverage") \subseteq Live("coverage")'
  BY <1>4 DEF Live, Put, TypeOK, GoalsTyped, GoalTables, Clients
<1>5. StopActions => Live("coverage") \subseteq Live("coverage")'
  BY <1>2 DEF StopActions, Cancellable, Clients
<1> QED
  BY <1>1, <1>2, <1>3, <1>4, <1>5

\* A handler that starts, ends or moves on is not one that a task waits for.
LEMMA OtherHandler ==
    ASSUME TypeOK, NEW t \in Threads, pc[t] \notin TaskPoints,
           NEW p, pc' = [pc EXCEPT ![t] = p]
    PROVE  \A u \in Threads : pc[u] \in TaskPoints => pc'[u] = pc[u]
BY DEF TypeOK, ThreadsTyped

\* A handler that waits goes on.
LEMMA ThreadKeepsTask ==
    ASSUME TypeOK, TaskInv, NEW t \in Threads, ThreadStep(t)
    PROVE  UndockIsAwaited' /\ CoverIsKept
<1>1. CASE CovUndocked(t)
  <2>1. ~undocking' /\ pc'[t] = "cov_map"
    BY <1>1
    DEF CovUndocked, UndockWaitOver, TaskInv, MainIsFree, MainFree, Goto, undockVars,
        TypeOK, ThreadsTyped
  <2> QED
    BY <2>1 DEF UndockIsAwaited, CoverIsKept, CoverHasWork
<1>2. CASE CovMapLoaded(t)
  <2>1. UndockIsAwaited'
    BY <1>2
    DEF CovMapLoaded, Done, Block, undockVars, UndockIsAwaited, TaskInv, TypeOK,
        ThreadsTyped
  <2>2. RequestsComplete => arg[t] # "area_no_polygon"
    BY DEF TaskInv, RequestsComplete
  <2>3. RequestsComplete => task_mode' # "COVER" \/ Live("coverage")' # {}
    <3>1. CASE CovMapFails(t)
      BY <3>1 DEF CovMapFails, SetState
    <3>2. CASE SetState("FREE", "FAILED_ONCE")
      BY <3>2 DEF SetState
    <3>3. ASSUME NEW g \in GoalIds, goal' = Put(goal, "coverage", g, "sent")
          PROVE  Live("coverage")' # {}
      BY <3>3 DEF Live, Put, TypeOK, GoalsTyped, GoalTables, Clients
    <3> QED
      BY <1>2, <2>2, <3>1, <3>2, <3>3 DEF CovMapLoaded, CovLacksPolygon, CovStarts
  <2> QED
    BY <2>1, <2>3 DEF CoverIsKept, CoverHasWork
<1>3. CASE MapUndocked(t) \/ AssistantUndocked(t)
  <2>1. ~undocking' /\ UNCHANGED <<task_mode, goal>>
    BY <1>3
    DEF MapUndocked, AssistantUndocked, UndockWaitOver, TaskInv, MainIsFree, MainFree,
        MappingFrame, modeVars, undockVars, goalVars
  <2>2. \A u \in Threads : pc[u] \in {"cov_undock", "cov_map"} => pc'[u] = pc[u]
    BY <1>3
    DEF MapUndocked, AssistantUndocked, Record, Block, Goto, TypeOK, ThreadsTyped
  <2> QED
    BY <2>1, <2>2 DEF UndockIsAwaited, CoverIsKept, CoverHasWork, TaskInv, Live
<1>4. CASE /\ ~CovUndocked(t) /\ ~CovMapLoaded(t)
           /\ ~MapUndocked(t) /\ ~AssistantUndocked(t)
  <2>1. \A u \in Threads : pc[u] \in TaskPoints => pc'[u] = pc[u]
    BY <1>4, OtherHandler
    DEF ThreadStep, UndockWaitEnds, RecordingStarts,
        MapGenerated, MapDeleted, Erased, FollowStarts, NoPerceptionData, PerceptionData,
        Record, Finish, Block, Goto, TaskPoints
  <2>2. task_mode' \in {task_mode, "FREE", "MAPPING"} /\ UNCHANGED undockVars
    BY <1>4
    DEF ThreadStep, UndockWaitEnds, RecordingStarts,
        MapGenerated, MapDeleted, Erased, FollowStarts, NoPerceptionData, PerceptionData,
        MappingFrame, SetState, modeVars
  <2>3. Live("coverage") \subseteq Live("coverage")'
    BY <1>4, CoverageLive
    DEF ThreadStep, UndockWaitEnds, RecordingStarts,
        MapGenerated, MapDeleted, Erased, FollowStarts, NoPerceptionData, PerceptionData,
        MappingFrame, goalVars, Clients, GoalStates
  <2>4. TaskAside
    BY <2>1, <2>2, <2>3 DEF TaskAside, undockVars
  <2> QED
    BY <2>4, TaskAsideStep DEF TaskInv
<1> QED
  BY <1>1, <1>2, <1>3, <1>4

\* _handle_start_cov_task publishes COVER, or has an undock leave it, as a handler.
LEMMA StartKeepsTask ==
    ASSUME TypeOK, TaskInv, NEW t \in Threads, pc[t] = "idle", NEW k, NEW on,
           StartCovTask(t, k, task_mode, on, undocking), UNCHANGED goal
    PROVE  UndockIsAwaited' /\ CoverIsKept
<1>1. CASE UNCHANGED <<task_mode, undock_after, undocking, pc>>
  <2>1. TaskAside
    BY <1>1, CoverageLive DEF TaskAside
  <2> QED
    BY <2>1, TaskAsideStep DEF TaskInv
<1>2. CASE pc' = [pc EXCEPT ![t] = "cov_undock"]
  <2>1. pc'[t] = "cov_undock" /\ \A u \in Threads : pc[u] # "idle" => pc'[u] = pc[u]
    BY <1>2 DEF TypeOK, ThreadsTyped
  <2>2. UNCHANGED <<undocking, undock_after>> \/ undock_after'[1] = "COVER"
    BY <1>2 DEF StartCovTask, RequestUndock, BeginUndock, undockVars
  <2> QED
    BY <2>1, <2>2 DEF UndockIsAwaited, CoverIsKept, CoverHasWork, TaskInv
<1>3. CASE pc' = [pc EXCEPT ![t] = "cov_map"] /\ UNCHANGED <<undock_after, undocking>>
  <2>1. pc'[t] = "cov_map" /\ \A u \in Threads : pc[u] # "idle" => pc'[u] = pc[u]
    BY <1>3 DEF TypeOK, ThreadsTyped
  <2> QED
    BY <1>3, <2>1 DEF UndockIsAwaited, CoverIsKept, CoverHasWork, TaskInv
<1> QED
  BY <1>1, <1>2, <1>3 DEF StartCovTask, Block, SetState, threadVars

\* A service is called.
LEMMA ServiceKeepsTask ==
    ASSUME TypeOK, TaskInv, Service \/ \E w \in Workers : BlockingService(w)
    PROVE  UndockIsAwaited' /\ CoverIsKept
<1>1. ASSUME NEW w \in Workers, HandleStartCovTask(w) \/ HandleResumeTask(w)
      PROVE  UndockIsAwaited' /\ CoverIsKept
  <2>1. /\ w \in Threads /\ pc[w] = "idle" /\ UNCHANGED goal
        /\ \E k : StartCovTask(w, k, task_mode, is_on_charger, undocking)
    BY <1>1 DEF HandleStartCovTask, HandleResumeTask, goalVars, Threads
  <2> QED
    BY <2>1, StartKeepsTask
<1>2. ASSUME NEW w \in Workers, pc[w] = "idle",
             NEW p \in {"map_undock", "asst_undock"}, pc' = [pc EXCEPT ![w] = p],
             UNCHANGED <<undocking, undock_after>> \/ undock_after'[1] = "MAPPING",
             task_mode' \in {task_mode, "FREE"}, UNCHANGED goal
      PROVE  UndockIsAwaited' /\ CoverIsKept
  <2>1. /\ w \in Threads /\ pc'[w] \in {"map_undock", "asst_undock"}
        /\ \A u \in Threads : pc[u] # "idle" => pc'[u] = pc[u]
    BY <1>2 DEF TypeOK, ThreadsTyped, Threads
  <2>2. UndockIsAwaited'
    BY <1>2, <2>1 DEF UndockIsAwaited, TaskInv
  <2> QED
    BY <1>2, <2>1, <2>2 DEF CoverIsKept, CoverHasWork, TaskInv, Live
<1>3. ASSUME NEW w \in Workers, HandleStartMapping(w) \/ HandleStartAssistant(w),
             is_on_charger
      PROVE  UndockIsAwaited' /\ CoverIsKept
  <2>1. /\ pc[w] = "idle" /\ UNCHANGED goal
        /\ \E p \in {"map_undock", "asst_undock"} : pc' = [pc EXCEPT ![w] = p]
    BY <1>3 DEF HandleStartMapping, HandleStartAssistant, Block, goalVars
  <2>2. /\ UNCHANGED <<undocking, undock_after>> \/ undock_after'[1] = "MAPPING"
        /\ task_mode' \in {task_mode, "FREE"}
    BY <1>3
    DEF HandleStartMapping, HandleStartAssistant, RequestUndock, BeginUndock, SetState,
        undockVars, modeVars
  <2> QED
    BY <1>2, <2>1, <2>2
<1>4. ASSUME NEW w \in Workers, BlockingService(w), ~HandleStartCovTask(w),
             ~HandleResumeTask(w),
             ~is_on_charger \/ ~(HandleStartMapping(w) \/ HandleStartAssistant(w))
      PROVE  TaskAside
  <2>1. w \in Threads
    BY DEF Threads
  <2>2. \A u \in Threads : pc[u] \in TaskPoints => pc'[u] = pc[u]
    BY <1>4, <2>1, OtherHandler
    DEF BlockingService, HandleStartMapping, HandleAddArea, HandleSaveMap,
        HandleDeleteMap, HandleStartErase, HandleStartAssistant, Record, Block, TaskPoints
  <2>3. task_mode' \in {task_mode, "FREE", "MAPPING"}
    BY <1>4
    DEF BlockingService, HandleStartMapping, HandleAddArea, HandleSaveMap,
        HandleDeleteMap, HandleStartErase, HandleStartAssistant, RequestUndock,
        BeginUndock, SetState, modeVars
  <2>4. UNCHANGED undockVars
    BY <1>4
    DEF BlockingService, HandleStartMapping, HandleAddArea, HandleSaveMap,
        HandleDeleteMap, HandleStartErase, HandleStartAssistant, MappingFrame
  <2>5. UNCHANGED goal
    BY <1>4
    DEF BlockingService, HandleStartMapping, HandleAddArea, HandleSaveMap,
        HandleDeleteMap, HandleStartErase, HandleStartAssistant, MappingFrame, goalVars
  <2> QED
    BY <2>2, <2>3, <2>4, <2>5, CoverageLive DEF TaskAside, undockVars
<1>5. ASSUME Service PROVE TaskAside
  <2>1. UNCHANGED pc
    BY <1>5
    DEF Service, HandleStopTask, HandleCancelTask, HandleResetData, StopsEverything,
        HandleAutoRecharge, HandleNavToRecharge, HandleCancelRecharge, NoThread,
        HandleMapStopRecord, HandleResetMapping, HandleQuitMapping,
        HandleSaveChargingPose, MappingFrame, threadVars
  <2>2. UNCHANGED undockVars \/ ~undocking'
    BY <1>5
    DEF Service, HandleStopTask, HandleCancelTask, HandleResetData, StopsEverything,
        CancelActiveActions, StopUndock, HandleAutoRecharge, HandleNavToRecharge,
        HandleCancelRecharge, NoThread, HandleMapStopRecord, HandleResetMapping,
        HandleQuitMapping, HandleSaveChargingPose, MappingFrame
  <2>3. task_mode' # "COVER"
    BY <1>5
    DEF Service, HandleStopTask, HandleCancelTask, HandleResetData, HandleAutoRecharge,
        StartRecharge, HandleNavToRecharge, StartAutoCharging, HandleCancelRecharge,
        HandleMapStopRecord, HandleResetMapping, HandleQuitMapping,
        HandleSaveChargingPose, SetState, SetStateE, SetStateR
  <2>4. Live("coverage") \subseteq Live("coverage")'
    BY <1>5, CoverageLive
    DEF Service, HandleStopTask, HandleCancelTask, HandleResetData, StopsEverything,
        CancelActiveActions, HandleAutoRecharge, HandleNavToRecharge, StartAutoCharging,
        SendNavGoal, HandleCancelRecharge, HandleMapStopRecord, HandleResetMapping,
        HandleQuitMapping, HandleSaveChargingPose, MappingFrame, goalVars, Clients,
        GoalStates
  <2> QED
    BY <2>1, <2>2, <2>3, <2>4 DEF TaskAside, undockVars
<1> QED
  BY <1>1, <1>3, <1>4, <1>5, TaskAsideStep DEF TaskInv

\* An action server answers, a goal ends or reports its progress.
LEMMA GoalsKeepTask ==
    ASSUME TypeOK, TaskInv, NEW g \in GoalIds,
           GoalResponse(g) \/ GoalResult(g) \/ CoverageFeedback(g)
    PROVE  UndockIsAwaited' /\ CoverIsKept
<1>1. CASE CoverageRefused(g) \/ CoverageResult(g)
  <2>1. task_mode' = "FREE" /\ UNCHANGED <<undockVars, pc>>
    BY <1>1 DEF CoverageRefused, CoverageResult, SetState, CoverageFrame, threadVars
  <2> QED
    BY <2>1 DEF undockVars, TaskInv, UndockIsAwaited, CoverIsKept, CoverHasWork
<1>2. CASE CoverageFeedback(g)
  <2>1. Live("coverage") # {}
    BY <1>2 DEF CoverageFeedback, Live
  <2>2. TaskAside
    BY <1>2, <2>1, CoverageLive
    DEF CoverageFeedback, CoverageFrame, TaskAside, undockVars, threadVars
  <2> QED
    BY <2>2, TaskAsideStep DEF TaskInv
<1>3. ASSUME ~CoverageRefused(g), ~CoverageResult(g), ~CoverageFeedback(g)
      PROVE  TaskAside
  <2>1. \A u \in Threads : pc[u] \in TaskPoints => pc'[u] = pc[u]
    <3>1. ASSUME NEW w \in Workers, BoundaryCloses(g, w)
          PROVE  \A u \in Threads : pc[u] \in TaskPoints => pc'[u] = pc[u]
      BY <3>1, OtherHandler DEF BoundaryCloses, Block, Threads, TaskPoints
    <3>2. UNCHANGED pc \/ \E w \in Workers : BoundaryCloses(g, w)
      BY <1>3
      DEF GoalResponse, CoverageAccepted, CoverageFrame, BoundaryAccepted,
          BoundaryRefused, NavAccepted, NavRefused, ChargingAccepted, ChargingRefused,
          RecoveryAccepted, GoalResult, NavResult, ChargingResult, ChargingSucceeds,
          ChargingStops, ChargingLacksTransform, NoThread, BoundaryStops, RecoveryResult,
          RecoveryFrame, threadVars
    <3> QED
      BY <3>1, <3>2
  <2>2. task_mode' = "COVER" => task_mode = "COVER"
    BY <1>3
    DEF GoalResponse, CoverageAccepted, BoundaryAccepted, BoundaryRefused, NavAccepted,
        NavRefused, ThenAutoCharging, ChargingAccepted, ChargingRefused,
        RecoveryAccepted, GoalResult, NavResult, ChargingResult, ChargingSucceeds,
        ChargingStops, ChargingLacksTransform, BoundaryStops, BoundaryCloses,
        RecoveryResult, SetState, SetStateR, modeVars
  <2>3. UNCHANGED undockVars
    BY <1>3
    DEF GoalResponse, CoverageAccepted, CoverageFrame, BoundaryAccepted, BoundaryRefused,
        NavAccepted, NavRefused, ChargingAccepted, ChargingRefused, RecoveryAccepted,
        GoalResult, NavResult, ChargingResult, ChargingSucceeds, ChargingStops,
        ChargingLacksTransform, NoThread, BoundaryStops, BoundaryCloses, BoundaryEnds,
        RecoveryResult, RecoveryFrame
  <2>4. Live("coverage") \subseteq Live("coverage")'
    BY <1>3, CoverageLive
    DEF GoalResponse, CoverageAccepted, BoundaryAccepted, BoundaryRefused, NavAccepted,
        NavRefused, ThenAutoCharging, ChargingAccepted, ChargingRefused,
        RecoveryAccepted, GoalResult, NavResult, ChargingResult, ChargingSucceeds,
        ChargingStops, ChargingLacksTransform, ChargingEnds, BoundaryStops,
        BoundaryCloses, BoundaryEnds, RecoveryResult, Clients, GoalStates
  <2> QED
    BY <2>1, <2>2, <2>3, <2>4 DEF TaskAside, undockVars
<1> QED
  BY <1>1, <1>2, <1>3, TaskAsideStep DEF TaskInv

\* A message arrives.
LEMMA MessagesKeepTask ==
    ASSUME TypeOK, TaskInv, MainIsFree', Subscription
    PROVE  UndockIsAwaited' /\ CoverIsKept
<1>1. UNCHANGED pc
  BY ResumeLeavesFree
  DEF Subscription, OnBattery, BatteryOrdinary, BatteryRecallsCoverage,
      BatteryRecallsIdle, OnIncident, IncidentFrame, OnLocStatus, RecoveryFrame,
      OnCloudMoveCmd, UndockFrame, OnCameraHwException, OnShmError, FaultFrame,
      SlipDetected, SlipIsOver, threadVars
<1>2. task_mode' = "COVER" => task_mode = "COVER"
  <2>1. ASSUME NEW r \in Readings, OnBattery(r)
        PROVE  task_mode' = "COVER" => task_mode = "COVER"
    BY <2>1, ResumeLeavesFree
    DEF OnBattery, BatteryOrdinary, DetectionSetsState, ModeAfterDetection,
        BatteryRecallsCoverage, StartRecharge, BatteryRecallsIdle, BatteryResumes,
        BatteryIsFull, SetState, SetStateR, modeVars
  <2>2. ASSUME NEW F \in Incidents, OnIncident(F)
        PROVE  task_mode' = "COVER" => task_mode = "COVER"
    BY <2>2
    DEF OnIncident, IncidentReported, IncidentCleared, IncidentIsNoted, ModeAfterContact,
        IncidentCancelsTask, IncidentMarksTask, SetStateE
  <2> QED
    BY <2>1, <2>2
    DEF Subscription, OnLocStatus, OnCloudMoveCmd, BeginUndock, OnCameraHwException,
        OnShmError, SlipDetected, SlipIsOver, SetState, SetStateE, modeVars
<1>3. undocking' => UNCHANGED <<undocking, undock_after>> \/ undock_after' = NoState
  <2>1. ASSUME NEW r \in Readings, OnBattery(r) PROVE UNCHANGED undockVars \/ ~undocking'
    BY <2>1, ResumeLeavesFree
    DEF OnBattery, BatteryOrdinary, BatteryRecallsCoverage, BatteryRecallsIdle,
        CancelActiveActions, StopUndock
  <2>2. ASSUME NEW F \in Incidents, OnIncident(F) PROVE UNCHANGED undockVars \/ ~undocking'
    BY <2>2
    DEF OnIncident, IncidentReported, IncidentCleared, IncidentIsNoted,
        IncidentCancelsTask, IncidentMarksTask, CancelActiveActions, StopUndock
  <2> QED
    BY <2>1, <2>2
    DEF Subscription, OnLocStatus, RecoveryFrame, OnCloudMoveCmd, BeginUndock,
        OnCameraHwException, OnShmError, SlipDetected, SlipIsOver, undockVars
<1>4. Live("coverage") \subseteq Live("coverage")'
  <2>1. ASSUME NEW r \in Readings, OnBattery(r) PROVE UNCHANGED goal \/ StopActions
    BY <2>1
    DEF OnBattery, BatteryOrdinary, BatteryRecallsCoverage, BatteryRecallsIdle,
        BatteryResumes, CancelActiveActions, goalVars
  <2>2. ASSUME NEW F \in Incidents, OnIncident(F) PROVE UNCHANGED goal \/ StopActions
    BY <2>2
    DEF OnIncident, IncidentReported, IncidentCleared, IncidentIsNoted,
        IncidentCancelsTask, IncidentMarksTask, CancelActiveActions
  <2> QED
    BY <2>1, <2>2, CoverageLive
    DEF Subscription, OnLocStatus, OnCloudMoveCmd, UndockFrame, OnCameraHwException,
        OnShmError, SlipDetected, SendRecovery, SlipIsOver, goalVars, Clients, GoalStates
<1>5. TaskAside
  BY <1>1, <1>2, <1>3, <1>4 DEF TaskAside, NoState
<1> QED
  BY <1>5, TaskAsideStep DEF TaskInv

\* A timer fires, time passes, a call of the recharge chain returns.
LEMMA TimersKeepTask ==
    ASSUME TypeOK, TaskInv, Timer \/ UndockTimePasses \/ OnChargerPoseRead \/ OnFreeMoveDone
    PROVE  UndockIsAwaited' /\ CoverIsKept
<1>1. CASE UndockTick
  <2>1. CASE UndockDrives
    <3>1. TaskAside
      BY <1>1, <2>1, CoverageLive
      DEF UndockTick, UndockDrives, UndockFrame, TaskAside, modeVars, threadVars, goalVars
    <3> QED
      BY <3>1, TaskAsideStep DEF TaskInv
  <2>2. CASE UndockFails
    BY <2>2 DEF UndockFails, SetState, UndockIsAwaited, CoverIsKept, CoverHasWork
  <2>3. CASE UndockSucceeds
    <3>1. UNCHANGED pc /\ ~undocking' /\ undocking
      BY <1>1, <2>3 DEF UndockTick, UndockFrame, UndockSucceeds, threadVars
    <3>2. task_mode' = "COVER" => undock_after[1] = "COVER"
      BY <2>3 DEF UndockSucceeds, SetState
    <3> QED
      BY <3>1, <3>2 DEF TaskInv, UndockIsAwaited, CoverIsKept, CoverHasWork
  <2> QED
    BY <1>1, <2>1, <2>2, <2>3 DEF UndockTick
<1>2. ASSUME ~UndockTick PROVE TaskAside
  <2>1. UNCHANGED pc
    BY <1>2
    DEF Timer, BootTick, BootEnters, BootWaits, BootInitsMower, BootSucceeds, BootStays,
        BootFrame, HeadingDiscoveryTick, NoThread, CpuOverheats, FaultFrame,
        LocalizationIsLow, RecoveryFrame, UndockTimePasses, UndockFrame,
        OnChargerPoseRead, OnFreeMoveDone, threadVars
  <2>2. task_mode' = "COVER" => task_mode = "COVER"
    BY <1>2
    DEF Timer, BootTick, BootEnters, BootWaits, BootInitsMower, BootSucceeds,
        StartRecharge, HeadingDiscoveryTick, HeadingAborts, HeadingSpins, HeadingDocks,
        CpuOverheats, LocalizationIsLow, UndockTimePasses, OnChargerPoseRead,
        StartAutoCharging, OnFreeMoveDone, SetState, SetStateE, SetStateR, modeVars
  <2>3. undocking' => UNCHANGED <<undocking, undock_after>>
    BY <1>2
    DEF Timer, BootTick, BootEnters, BootWaits, BootInitsMower, BootSucceeds, BootStays,
        BootFrame, HeadingDiscoveryTick, NoThread, CpuOverheats, CancelActiveActions,
        StopUndock, LocalizationIsLow, RecoveryFrame, UndockTimePasses,
        OnChargerPoseRead, OnFreeMoveDone, undockVars
  <2>4. Live("coverage") \subseteq Live("coverage")'
    BY <1>2, CoverageLive
    DEF Timer, BootTick, BootEnters, BootWaits, BootInitsMower, BootSucceeds, BootStays,
        BootFrame, HeadingDiscoveryTick, HeadingAborts, HeadingSpins, HeadingDocks,
        CpuOverheats, CancelActiveActions, LocalizationIsLow, SendRecovery,
        UndockTimePasses, UndockFrame, OnChargerPoseRead, SendNavGoal, StartAutoCharging,
        OnFreeMoveDone, goalVars, Clients, GoalStates
  <2> QED
    BY <2>1, <2>2, <2>3, <2>4 DEF TaskAside
<1> QED
  BY <1>1, <1>2, TaskAsideStep DEF TaskInv

\* Every step keeps both, while the default group is free.
LEMMA TaskStep ==
    ASSUME TypeOK, TaskInv, MainIsFree', [Next]_vars
    PROVE  UndockIsAwaited' /\ CoverIsKept
<1>1. CASE UNCHANGED vars
  <2>1. TaskAside
    BY <1>1, CoverageLive
    DEF vars, modeVars, undockVars, goalVars, threadVars, TaskAside
  <2> QED
    BY <2>1, TaskAsideStep DEF TaskInv
<1>2. CASE Next
  BY <1>2, ThreadKeepsTask, ServiceKeepsTask, GoalsKeepTask, MessagesKeepTask,
     TimersKeepTask
  DEF Next, ClientCallback
<1> QED
  BY <1>1, <1>2

\* While nothing holds the default group, an undock that will publish COVER or MAPPING
\* has a handler of that task waiting for it: a second request, whose after-state is
\* dropped, waits for the first one's undock.
THEOREM UndockWaitedFor == Spec /\ []MainIsFree => []UndockIsAwaited
<1>1. Init => UndockIsAwaited
  BY DEF Init, UndockIsAwaited
<1>2. TypeOK /\ MainIsFree /\ MainIsFree' /\ UndockIsAwaited /\ [Next]_vars
      => UndockIsAwaited'
  BY TaskStep DEF TaskInv
<1> QED
  BY <1>1, <1>2, TypeCorrect, PTL DEF Spec

\* While nothing holds the default group and requests are complete, COVER has a coverage
\* goal or a handler on its way to one: however starts, stops, cancels, refusals, late
\* feedback and undocks overlap.
THEOREM CoverKeepsWork == Spec /\ []MainIsFree /\ []RequestsComplete => []CoverHasWork
<1>1. Init => CoverHasWork
  BY DEF Init, CoverHasWork
<1>2. /\ TypeOK /\ MainIsFree /\ MainIsFree' /\ UndockIsAwaited /\ RequestsComplete
      /\ CoverHasWork /\ [Next]_vars
      => CoverHasWork'
  BY TaskStep DEF TaskInv, CoverIsKept
<1> QED
  BY <1>1, <1>2, UndockWaitedFor, TypeCorrect, PTL DEF Spec

-----------------------------------------------------------------------------
(* Incidents *)

\* Only an incident changes the flags, and only a critical one publishes CRITICAL.
LEMMA OnlyIncidentsFlag ==
    ASSUME [Next]_vars
    PROVE  \/ UNCHANGED error_flags /\ (error_status' = "CRITICAL" => error_status = "CRITICAL")
           \/ \E F \in Incidents : OnIncident(F)
<1>1. ASSUME NEW t \in Threads, ThreadStep(t) PROVE UNCHANGED <<error_flags, error_status>>
  BY <1>1
  DEF ThreadStep, UndockWaitEnds, CovUndocked, MapUndocked, AssistantUndocked,
      CovMapLoaded, CovMapFails, CovLacksPolygon, CovStarts, RecordingStarts,
      MapGenerated, MapDeleted, Erased, MappingFrame, FollowStarts, NoPerceptionData,
      PerceptionData, FollowFrame, SetState, modeVars, chargerVars
<1>2. ASSUME NEW w \in Workers, BlockingService(w) PROVE UNCHANGED <<error_flags, error_status>>
  BY <1>2
  DEF BlockingService, HandleStartCovTask, HandleResumeTask, StartCovTask,
      HandleStartMapping, HandleStartAssistant, RequestUndock, BeginUndock, HandleAddArea,
      HandleSaveMap, HandleDeleteMap, HandleStartErase, MappingFrame, FollowFrame,
      SetState, modeVars, chargerVars
<1>3. ASSUME Service PROVE UNCHANGED error_flags /\ error_status' \in {error_status, "NONE"}
  BY <1>3
  DEF Service, HandleStopTask, HandleCancelTask, HandleResetData, StopsEverything,
      HandleAutoRecharge, StartRecharge, HandleNavToRecharge, StartAutoCharging,
      HandleCancelRecharge, NoThread, HandleMapStopRecord, HandleResetMapping,
      HandleQuitMapping, HandleSaveChargingPose, MappingFrame, SetState, SetStateE,
      SetStateR, chargerVars
<1>4. ASSUME NEW g \in GoalIds, GoalResponse(g) \/ GoalResult(g) \/ CoverageFeedback(g)
      PROVE  UNCHANGED <<error_flags, error_status>>
  BY <1>4
  DEF GoalResponse, CoverageAccepted, CoverageRefused, CoverageFrame, BoundaryAccepted,
      BoundaryRefused, NavAccepted, NavRefused, ThenAutoCharging, ChargingAccepted,
      ChargingRefused, RecoveryAccepted, GoalResult, CoverageFeedback, CoverageResult,
      NavResult, ChargingResult, ChargingSucceeds, ChargingStops, ChargingLacksTransform,
      NoThread, BoundaryStops, BoundaryCloses, BoundaryEnds, FollowFrame, RecoveryResult,
      RecoveryFrame, SetState, SetStateR, modeVars, chargerVars
<1>5. ASSUME NEW r \in Readings, OnBattery(r)
      PROVE  UNCHANGED error_flags /\ error_status' \in {error_status, "LOW_BATTERY"}
  BY <1>5
  DEF OnBattery, BatteryDetects, BatteryOrdinary, DetectionSetsState,
      BatteryRecallsCoverage, StartRecharge, BatteryRecallsIdle, BatteryResumes,
      StartCovTask, RequestUndock, BeginUndock, SetState, SetStateR, modeVars
<1>6. ASSUME \/ OnLocStatus \/ OnCloudMoveCmd \/ OnCameraHwException \/ OnShmError
             \/ SlipDetected \/ SlipIsOver \/ OnChargerPoseRead \/ OnFreeMoveDone
             \/ UndockTimePasses
      PROVE  UNCHANGED error_flags /\ error_status' \in {error_status, "CAMERA_ERROR"}
  BY <1>6
  DEF OnLocStatus, RecoveryFrame, OnCloudMoveCmd, BeginUndock, UndockFrame,
      OnCameraHwException, OnShmError, FaultFrame, SlipDetected, SlipIsOver,
      OnChargerPoseRead, StartAutoCharging, OnFreeMoveDone, NoThread, UndockTimePasses,
      SetState, SetStateE, SetStateR, modeVars, chargerVars
<1>7. ASSUME Timer
      PROVE  UNCHANGED error_flags /\ error_status' \in {error_status, "CPU_OVERHEAT"}
  BY <1>7
  DEF Timer, BootTick, BootEnters, BootWaits, BootInitsMower, BootSucceeds, StartRecharge,
      BootStays, BootFrame, UndockTick, UndockDrives, UndockFails, UndockSucceeds,
      UndockFrame, HeadingDiscoveryTick, HeadingAborts, HeadingSpins, HeadingDocks,
      NoThread, CpuOverheats, FaultFrame, LocalizationIsLow, RecoveryFrame, SetState,
      SetStateE, SetStateR, modeVars, chargerVars
<1>8. UNCHANGED vars => UNCHANGED <<error_flags, error_status>>
  BY DEF vars, modeVars, chargerVars
<1> QED
  BY <1>1, <1>2, <1>3, <1>4, <1>5, <1>6, <1>7, <1>8 DEF Next, ClientCallback, Subscription

\* The error CRITICAL goes with its flag.
LEMMA CriticalStaysFlagged ==
    ASSUME FlagsSelectAnError', CriticalIsFlagged, [Next]_vars
    PROVE  CriticalIsFlagged'
<1>1. ASSUME NEW F \in Incidents, OnIncident(F) PROVE CriticalIsFlagged'
  <2>1. error_flags' = F
    BY <1>1 DEF OnIncident
  <2>2. CASE IncidentCleared(F)
    BY <2>2 DEF IncidentCleared, CriticalIsFlagged
  <2>3. CASE IncidentReported(F)
    <3>1. error_status' = "CRITICAL" => ErrorOf(F) = "CRITICAL"
      BY <2>3
      DEF IncidentReported, IncidentIsNoted, IncidentCancelsTask, IncidentMarksTask,
          TaskMeets, SetStateE
    <3>2. ErrorOf(F) = "CRITICAL" => "critical" \in F
      BY <2>1, <2>3 DEF IncidentReported, FlagsSelectAnError, ErrorOf
    <3> QED
      BY <2>1, <3>1, <3>2 DEF CriticalIsFlagged
  <2> QED
    BY <1>1, <2>2, <2>3 DEF OnIncident
<1> QED
  BY <1>1, OnlyIncidentsFlag DEF CriticalIsFlagged

\* As long as flags select an error of their own, a critical flag that comes up while
\* a task runs stops it, also one that comes back after other incidents.
THEOREM CriticalStops == Spec /\ []FlagsSelectAnError => CriticalIncidentStopsTask
<1>1. Init => CriticalIsFlagged
  BY DEF Init, CriticalIsFlagged
<1>2. FlagsSelectAnError' /\ CriticalIsFlagged /\ [Next]_vars => CriticalIsFlagged'
  BY CriticalStaysFlagged
<1>3. ASSUME CriticalIsFlagged, [Next]_vars, task_mode \in {"COVER", "MAPPING"},
             "critical" \in error_flags' \ error_flags
      PROVE  task_mode' = "STOP"
  <2>1. PICK F \in Incidents : OnIncident(F)
    BY <1>3, OnlyIncidentsFlag
  <2>2. "critical" \in F /\ IncidentReported(F)
    BY <1>3, <2>1 DEF OnIncident, IncidentCleared
  <2>3. TaskMeets(F, "CRITICAL")
    BY <1>3, <2>2 DEF TaskMeets, ErrorOf, CriticalIsFlagged, ModeAfterContact
  <2>4. IncidentCancelsTask(F)
    BY <2>2, <2>3 DEF IncidentReported, IncidentIsNoted, IncidentMarksTask, TaskMeets
  <2> QED
    BY <2>4 DEF IncidentCancelsTask, SetStateE
<1> QED
  BY <1>1, <1>2, <1>3, PTL DEF Spec, CriticalIncidentStopsTask

=============================================================================
