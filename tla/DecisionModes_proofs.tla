------------------------ MODULE DecisionModes_proofs -------------------------
(***************************************************************************)
(* The recharge is handed on as RechargeChain promises, so that RECHARGING *)
(* and NAVIGATING have work under way; CHARGING is published on the        *)
(* charger only; what a work status announces is under way, and a heading  *)
(* discovery is carried on.                                                *)
(***************************************************************************)
EXTENDS ActionClients_proofs

\* A step of the recharge, or one that leaves it alone.
ChainStep == Chain!Next \/ UNCHANGED Chain!chainVars

\* What is shown of every step of the node.
ModesStep == ChainStep /\ ChargingMeansOnCharger'

\* A step that publishes no recharge and touches none.
Aside ==
    /\ task_mode' = task_mode \/ task_mode' # "RECHARGING"
    /\ UNCHANGED <<recharge_status, pose_reads, tf_recovery_attempts>>
    /\ \A c \in {"nav", "charging"} : Live(c)' = Live(c)

\* Such a step that does not go to the charger or leave it either.
Quiet ==
    /\ Aside
    /\ UNCHANGED is_on_charger
    /\ task_mode' = task_mode \/ task_mode' # "CHARGING"

\* It is one that leaves the recharge alone.
LEMMA AsideStep ==
    ASSUME Aside
    PROVE  ChainStep
BY DEF Aside, ChainStep, Chain!Next, Chain!Elsewhere, Chain!chainVars, Chain!jobs

\* A quiet step is shown.
LEMMA QuietStep ==
    ASSUME ChargingMeansOnCharger, Quiet
    PROVE  ModesStep
BY AsideStep DEF Quiet, ModesStep, ChargingMeansOnCharger

-----------------------------------------------------------------------------
(* Which goals a step leaves at the servers *)

\* A goal whose state changes is at the server unless it ended; no other client's is
\* touched.
LEMMA LivePut ==
    ASSUME goal \in GoalTables, NEW c \in Clients, NEW g \in GoalIds,
           NEW s \in GoalStates, goal' = Put(goal, c, g, s)
    PROVE  /\ \A d \in Clients : d # c => Live(d)' = Live(d)
           /\ s = "free" => Live(c)' = Live(c) \ {g}
           /\ s # "free" => Live(c)' = Live(c) \cup {g}
BY DEF Live, Put, GoalTables

\* A goal that is answered was with its server before.
LEMMA LiveAnswered ==
    ASSUME TypeOK, NEW c \in Clients, NEW g \in GoalIds, goal[c][g] # "free",
           goal' = Put(goal, c, g, "running")
    PROVE  \A d \in Clients : Live(d)' = Live(d)
BY DEF Live, Put, TypeOK, GoalsTyped, GoalTables

\* A cancelled goal is still with the server until its result.
LEMMA LiveCancelled ==
    ASSUME TypeOK, HandleIsLive, NEW cs \in SUBSET Clients, goal' = Cancelled(goal, cs)
    PROVE  \A d \in Clients : Live(d)' = Live(d)
BY NoGoalIsNoGoal
DEF Live, Cancelled, TypeOK, GoalsTyped, GoalTables, HandleTables, HandleIsLive

\* _cancel_active_actions takes no goal from its server.
LEMMA LiveStopped ==
    ASSUME TypeOK, HandleIsLive, StopActions
    PROVE  \A d \in Clients : Live(d)' = Live(d)
BY LiveCancelled DEF StopActions, Cancellable, Clients

\* Goals that are not touched stay where they are.
LEMMA LiveSame ==
    ASSUME UNCHANGED goal
    PROVE  \A d \in Clients : Live(d)' = Live(d)
BY DEF Live

\* The docking goal leaves for its server.
LEMMA DockingIsSent ==
    ASSUME TypeOK, NEW g \in GoalIds \ Live("charging"),
           goal' = Put(goal, "charging", g, "sent")
    PROVE  /\ \E h \in GoalIds \ Live("charging") :
                Live("charging")' = Live("charging") \cup {h}
           /\ Live("nav")' = Live("nav")
BY LivePut DEF Clients, GoalStates, TypeOK, GoalsTyped

\* So does the navigation.
LEMMA NavigationIsSent ==
    ASSUME TypeOK, SendNavGoal
    PROVE  Chain!NavigationLeaves /\ Live("charging")' = Live("charging")
<1>1. PICK g \in GoalIds \ Live("nav") : goal' = Put(goal, "nav", g, "sent")
  BY DEF SendNavGoal
<1>2. Live("nav")' = Live("nav") \cup {g} /\ Live("charging")' = Live("charging")
  BY <1>1, LivePut DEF Clients, GoalStates, TypeOK, GoalsTyped
<1> QED
  BY <1>1, <1>2 DEF Chain!NavigationLeaves

-----------------------------------------------------------------------------
(* The steps of the recharge *)

\* A recharge starts with the read of the charger pose.
LEMMA RechargeIsRequested ==
    ASSUME StartRecharge, UNCHANGED tf_recovery_attempts,
           \A d \in {"nav", "charging"} : Live(d)' = Live(d)
    PROVE  ModesStep
<1>1. task_mode' = "RECHARGING"
  BY DEF StartRecharge, SetStateR
<1>2. Chain!Request
  BY DEF StartRecharge, SetStateR, Chain!Request, Chain!Publish
<1> QED
  BY <1>1, <1>2 DEF ModesStep, ChainStep, Chain!Next, ChargingMeansOnCharger

\* Docking starts, or is given up.
LEMMA DockingStarts ==
    ASSUME TypeOK, StartAutoCharging
    PROVE  /\ Chain!DockingLeaves
           /\ Live("nav")' = Live("nav")
           /\ task_mode' # "CHARGING"
<1>1. CASE SetStateR("FREE", "FAILED_ONCE", "FAILED") /\ UNCHANGED goal
  BY <1>1, LiveSame DEF SetStateR, Chain!DockingLeaves, Chain!Publish, Clients
<1>2. ASSUME SetStateR("RECHARGING", "ALIGN_PILE", "DOCKING"),
             NEW g \in GoalIds \ Live("charging"), goal' = Put(goal, "charging", g, "sent")
      PROVE  /\ Chain!DockingLeaves
             /\ Live("nav")' = Live("nav")
             /\ task_mode' # "CHARGING"
  BY <1>2, DockingIsSent DEF SetStateR, Chain!DockingLeaves, Chain!Publish
<1> QED
  BY <1>1, <1>2 DEF StartAutoCharging

\* The navigation over, docking starts or is given up.
LEMMA NavigationIsOver ==
    ASSUME TypeOK, NEW g \in GoalIds, goal["nav"][g] # "free", ThenAutoCharging(g),
           UNCHANGED <<pose_reads, tf_recovery_attempts>>
    PROVE  ModesStep
<1>1. g \in Live("nav")
  BY DEF Live
<1>2. CASE SetStateR("FREE", "FAILED_ONCE", "FAILED") /\ goal' = Put(goal, "nav", g, "free")
  <2>1. Live("nav")' = Live("nav") \ {g} /\ Live("charging")' = Live("charging")
    BY <1>2, LivePut DEF Clients, GoalStates, TypeOK, GoalsTyped
  <2> QED
    BY <1>1, <1>2, <2>1
    DEF SetStateR, ModesStep, ChainStep, Chain!Next, Chain!NavigationEnds,
        Chain!DockingLeaves, Chain!Publish, ChargingMeansOnCharger
<1>3. ASSUME SetStateR("RECHARGING", "ALIGN_PILE", "DOCKING"),
             NEW h \in GoalIds \ Live("charging"),
             goal' = Put(Put(goal, "nav", g, "free"), "charging", h, "sent")
      PROVE  ModesStep
  <2>1. Live("nav")' = Live("nav") \ {g} /\ Live("charging")' = Live("charging") \cup {h}
    BY <1>3 DEF Live, Put, TypeOK, GoalsTyped, GoalTables, Clients
  <2> QED
    BY <1>1, <1>3, <2>1
    DEF SetStateR, ModesStep, ChainStep, Chain!Next, Chain!NavigationEnds,
        Chain!DockingLeaves, Chain!Publish, ChargingMeansOnCharger
<1> QED
  BY <1>2, <1>3 DEF ThenAutoCharging

\* The docking is over, with a result or refused.
LEMMA DockingIsOver ==
    ASSUME TypeOK, NEW g \in GoalIds, goal["charging"][g] # "free",
           goal' = Put(goal, "charging", g, "free"), UNCHANGED pose_reads,
           \/ /\ SetStateR("CHARGING", "INIT_SUCCESS", "CHARGING")
              /\ is_on_charger' = TRUE /\ tf_recovery_attempts' = 0
           \/ /\ SetStateR("FREE", "CANCELLED", "IDLE")
              /\ UNCHANGED tf_recovery_attempts
           \/ /\ SetStateR("FREE", "FAILED_ONCE", "FAILED")
              /\ UNCHANGED tf_recovery_attempts
           \/ ChargingLacksTransform(g)
    PROVE  ModesStep
<1>1. /\ Live("charging")' = Live("charging") \ {g} /\ g \in Live("charging")
      /\ Live("nav")' = Live("nav")
  BY LivePut DEF Clients, GoalStates, TypeOK, GoalsTyped, Live
<1>2. task_mode' = "CHARGING" => is_on_charger'
  BY DEF SetState, SetStateR, ChargingLacksTransform
<1>3. \/ Chain!Publish("CHARGING", "CHARGING") /\ tf_recovery_attempts' = 0
      \/ Chain!Publish("FREE", "IDLE") /\ UNCHANGED tf_recovery_attempts
      \/ Chain!Publish("FREE", "FAILED") /\ UNCHANGED tf_recovery_attempts
      \/ /\ tf_recovery_attempts = 2 /\ Chain!Publish("FREE", "FAILED")
         /\ tf_recovery_attempts' = 0
      \/ /\ tf_recovery_attempts < 2 /\ Chain!Publish("FREE", recharge_status)
         /\ tf_recovery_attempts' = tf_recovery_attempts + 1
  BY DEF SetState, SetStateR, ChargingLacksTransform, Chain!Publish, TypeOK, HeadingTyped
<1> QED
  BY <1>1, <1>2, <1>3
  DEF ModesStep, ChainStep, Chain!Next, Chain!DockingEnds, ChargingMeansOnCharger

\* What an undock leaves behind is none of these modes.
LEMMA AfterStateIsQuiet ==
    ASSUME TypeOK
    PROVE  undock_after[1] \notin {"RECHARGING", "CHARGING"}
BY DEF TypeOK, UndockTyped, AfterStates, NoState

-----------------------------------------------------------------------------
(* Every step of the node *)

\* A handler that waits goes on.
LEMMA ThreadModes ==
    ASSUME TypeOK, HandleIsLive, ChargingMeansOnCharger, NEW t \in Threads, ThreadStep(t)
    PROVE  ModesStep
<1>1. CASE UndockWaitEnds(t)
  BY <1>1, QuietStep, LiveSame
  DEF UndockWaitEnds, CovUndocked, MapUndocked, AssistantUndocked, Record, MappingFrame,
      FollowFrame, Clients, Aside, Quiet, modeVars, headingVars, goalVars, chargerVars
<1>2. CASE CovMapLoaded(t)
  BY <1>2, QuietStep, LiveSame, LivePut
  DEF CovMapLoaded, CovMapFails, CovLacksPolygon, CovStarts, Done, UnlessCameras,
      SetState, GoalStates, Clients, Aside, Quiet, modeVars, headingVars, chargerVars,
      TypeOK, GoalsTyped
<1>3. CASE RecordingStarts(t) \/ MapGenerated(t) \/ MapDeleted(t) \/ Erased(t)
  BY <1>3, QuietStep, LiveSame
  DEF RecordingStarts, MapGenerated, MapDeleted, Erased, Finish, MappingFrame, SetState,
      Clients, Aside, Quiet, modeVars, headingVars, goalVars, chargerVars
<1>4. CASE FollowStarts(t) \/ NoPerceptionData(t)
  BY <1>4, QuietStep, LiveSame
  DEF FollowStarts, NoPerceptionData, Finish, SetState, FollowFrame, Clients, Aside,
      Quiet, headingVars, modeVars, chargerVars
<1>5. CASE PerceptionData(t)
  BY <1>5, QuietStep, LiveSame, LivePut
  DEF PerceptionData, Finish, FollowFrame, GoalStates, Clients, Aside, Quiet, modeVars,
      headingVars, chargerVars, TypeOK, GoalsTyped
<1> QED
  BY <1>1, <1>2, <1>3, <1>4, <1>5
  DEF ThreadStep

\* A service is called.
LEMMA ServiceModes ==
    ASSUME TypeOK, HandleIsLive, ChargingMeansOnCharger,
           Service \/ \E w \in Workers : BlockingService(w)
    PROVE  ModesStep
<1>1. ASSUME NEW w \in Workers, BlockingService(w) PROVE ModesStep
  BY <1>1, QuietStep, LiveSame
  DEF BlockingService, HandleStartCovTask, HandleResumeTask, HandleStartMapping,
      HandleAddArea, HandleSaveMap, HandleDeleteMap, HandleStartErase,
      HandleStartAssistant, StartCovTask, RequestUndock, SetState, Record, MappingFrame,
      FollowFrame, BeginUndock, Clients, Aside, Quiet, modeVars, headingVars, goalVars,
      chargerVars
<1>2. CASE HandleStopTask \/ HandleCancelTask \/ HandleResetData
  BY <1>2, QuietStep, LiveSame, LiveStopped
  DEF HandleStopTask, HandleCancelTask, HandleResetData, SetState, StopsEverything,
      SetStateE, CancelActiveActions, Clients, Aside, Quiet, modeVars, headingVars,
      chargerVars
<1>3. CASE HandleAutoRecharge
  BY <1>3, RechargeIsRequested, LiveSame DEF HandleAutoRecharge, headingVars, Clients
<1>4. CASE HandleNavToRecharge
  <2>0. UNCHANGED tf_recovery_attempts
    BY <1>4 DEF HandleNavToRecharge, headingVars
  <2>1. CASE StartRecharge /\ UNCHANGED goal
    BY <2>0, <2>1, RechargeIsRequested, LiveSame DEF Clients
  <2>2. CASE /\ SetStateR("RECHARGING", "RETURN_TO_PILE", "NAVIGATING")
             /\ SendNavGoal /\ UNCHANGED pose_reads
    <3>1. Chain!Request
      BY <2>0, <2>2, NavigationIsSent DEF SetStateR, Chain!Request, Chain!Publish
    <3> QED
      BY <2>2, <3>1
      DEF SetStateR, ModesStep, ChainStep, Chain!Next, ChargingMeansOnCharger
  <2>3. CASE StartAutoCharging /\ UNCHANGED pose_reads
    <3>1. Chain!Request
      BY <2>0, <2>3, DockingStarts DEF Chain!Request
    <3> QED
      BY <2>3, <3>1, DockingStarts
      DEF ModesStep, ChainStep, Chain!Next, ChargingMeansOnCharger
  <2> QED
    BY <1>4, <2>1, <2>2, <2>3 DEF HandleNavToRecharge
<1>5. CASE HandleCancelRecharge
  <2>1. \A d \in {"nav", "charging"} : Live(d)' = Live(d)
    BY <1>5, LiveCancelled DEF HandleCancelRecharge, Clients
  <2>2. Chain!Cancel
    BY <1>5, <2>1
    DEF HandleCancelRecharge, SetStateR, headingVars, Chain!Cancel, Chain!Publish,
        Chain!jobs
  <2> QED
    BY <1>5, <2>2
    DEF HandleCancelRecharge, SetStateR, ModesStep, ChainStep, Chain!Next,
        ChargingMeansOnCharger
<1>6. CASE \/ HandleMapStopRecord \/ HandleResetMapping \/ HandleQuitMapping
           \/ HandleSaveChargingPose
  BY <1>6, QuietStep, LiveSame
  DEF HandleMapStopRecord, HandleResetMapping, HandleQuitMapping, HandleSaveChargingPose,
      SetState, MappingFrame, Clients, Aside, Quiet, modeVars, headingVars, goalVars,
      chargerVars
<1> QED
  BY <1>1, <1>2, <1>3, <1>4, <1>5, <1>6
  DEF Service

\* An action server answers a goal.
LEMMA ResponseModes ==
    ASSUME TypeOK, HandleIsLive, ChargingMeansOnCharger, NEW g \in GoalIds, GoalResponse(g)
    PROVE  ModesStep
<1>1. CASE CoverageAccepted(g) \/ CoverageRefused(g)
  BY <1>1, QuietStep, LiveSame, LivePut
  DEF CoverageAccepted, CoverageRefused, CoverageFrame, SetState, UnlessCameras,
      GoalStates, Clients, Aside, Quiet, modeVars, headingVars, chargerVars, TypeOK,
      GoalsTyped
<1>2. CASE BoundaryAccepted(g) \/ BoundaryRefused(g)
  BY <1>2, QuietStep, LiveSame, LivePut
  DEF BoundaryAccepted, BoundaryRefused, FollowFrame, SetState, GoalStates, Clients,
      Aside, Quiet, modeVars, headingVars, chargerVars, TypeOK, GoalsTyped
<1>3. CASE NavAccepted(g)
  BY <1>3, QuietStep, LiveAnswered
  DEF NavAccepted, NoThread, Clients, Aside, Quiet, modeVars, headingVars, chargerVars
<1>4. CASE NavRefused(g)
  BY <1>4, NavigationIsOver DEF NavRefused, headingVars
<1>5. CASE ChargingAccepted(g)
  BY <1>5, QuietStep, LiveAnswered
  DEF ChargingAccepted, NoThread, Clients, Aside, Quiet, modeVars, headingVars,
      chargerVars
<1>6. CASE ChargingRefused(g)
  BY <1>6, DockingIsOver DEF ChargingRefused, headingVars
<1>7. ASSUME NEW c \in {"slip", "loc_recover"}, RecoveryAccepted(c, g) PROVE ModesStep
  BY <1>7, QuietStep, LiveSame, LivePut
  DEF RecoveryAccepted, RecoveryFrame, GoalStates, Clients, Aside, Quiet, modeVars,
      headingVars, chargerVars, TypeOK, GoalsTyped
<1> QED
  BY <1>1, <1>2, <1>3, <1>4, <1>5, <1>6, <1>7
  DEF GoalResponse

\* A goal ends, or reports its progress.
LEMMA ResultModes ==
    ASSUME TypeOK, HandleIsLive, ChargingMeansOnCharger, NEW g \in GoalIds,
           GoalResult(g) \/ CoverageFeedback(g)
    PROVE  ModesStep
<1>1. CASE CoverageFeedback(g)
  BY <1>1, QuietStep, LiveSame
  DEF CoverageFeedback, SetState, CoverageFrame, UnlessCameras, Clients, Aside, Quiet,
      headingVars, modeVars, chargerVars
<1>2. CASE CoverageResult(g)
  BY <1>2, QuietStep, LiveSame, LivePut
  DEF CoverageResult, SetState, CoverageFrame, UnlessCameras, GoalStates, Clients,
      Aside, Quiet, modeVars, headingVars, chargerVars, TypeOK, GoalsTyped
<1>3. CASE NavResult(g)
  BY <1>3, NavigationIsOver DEF NavResult, headingVars
<1>4. CASE ChargingResult(g)
  BY <1>4, DockingIsOver
  DEF ChargingResult, ChargingSucceeds, ChargingStops, ChargingLacksTransform,
      ChargingEnds, headingVars
<1>5. CASE BoundaryStops(g)
  BY <1>5, QuietStep, LiveSame, LivePut
  DEF BoundaryStops, BoundaryEnds, SetState, FollowFrame, GoalStates, Clients, Aside,
      Quiet, headingVars, modeVars, chargerVars, TypeOK, GoalsTyped
<1>6. ASSUME NEW w \in Workers, BoundaryCloses(g, w) PROVE ModesStep
  BY <1>6, QuietStep, LiveSame, LivePut
  DEF BoundaryCloses, BoundaryEnds, SetState, FollowFrame, GoalStates, Clients, Aside,
      Quiet, headingVars, modeVars, chargerVars, TypeOK, GoalsTyped
<1>7. ASSUME NEW c \in {"slip", "loc_recover"}, RecoveryResult(c, g) PROVE ModesStep
  BY <1>7, QuietStep, LiveSame, LivePut
  DEF RecoveryResult, RecoveryFrame, GoalStates, Clients, Aside, Quiet, modeVars,
      headingVars, chargerVars, TypeOK, GoalsTyped
<1> QED
  BY <1>1, <1>2, <1>3, <1>4, <1>5, <1>6, <1>7
  DEF GoalResult

\* A message arrives.
LEMMA SubscriptionModes ==
    ASSUME TypeOK, HandleIsLive, ChargingMeansOnCharger, Subscription
    PROVE  ModesStep
<1>1. ASSUME NEW r \in Readings, OnBattery(r) PROVE ModesStep
  <2>1. /\ BatteryDetects(r) /\ UNCHANGED tf_recovery_attempts
        /\ \A d \in {"nav", "charging"} :
               UNCHANGED goal \/ StopActions => Live(d)' = Live(d)
    BY <1>1, LiveSame, LiveStopped
    DEF OnBattery, BatteryDetects, DetectionStopsHeading, Clients
  <2>2. CASE BatteryOrdinary(r)
    <3>1. UNCHANGED <<goal, pose_reads, recharge_status>>
      BY <2>2 DEF BatteryOrdinary, goalVars, DetectionSetsState, SetState, modeVars
    <3>2. task_mode' = "RECHARGING" => task_mode = "RECHARGING"
      BY <2>2
      DEF BatteryOrdinary, DetectionSetsState, SetState, modeVars, ModeAfterDetection
    <3>3. task_mode' = "CHARGING" => is_on_charger'
      BY <2>1, <2>2
      DEF BatteryOrdinary, BatteryDetects, DetectionSetsState, SetState, modeVars,
          ModeAfterDetection, Docks, Leaves, ChargingMeansOnCharger
    <3> QED
      BY <2>1, <3>1, <3>2, <3>3, AsideStep DEF Aside, ModesStep, ChargingMeansOnCharger
  <2>3. CASE BatteryRecallsCoverage(r)
    BY <2>1, <2>3, RechargeIsRequested DEF BatteryRecallsCoverage, CancelActiveActions
  <2>4. CASE BatteryRecallsIdle(r)
    <3>1. Chain!Request
      BY <2>1, <2>4 DEF BatteryRecallsIdle, Chain!Request, Chain!Publish
    <3> QED
      BY <2>4, <3>1
      DEF BatteryRecallsIdle, ModesStep, ChainStep, Chain!Next, ChargingMeansOnCharger
  <2>5. CASE BatteryResumes(r)
    <3>1. task_mode' \in {"FREE", "COVER"} /\ UNCHANGED <<recharge_status, pose_reads>>
      BY <2>5
      DEF BatteryResumes, StartCovTask, RequestUndock, BeginUndock, SetState, modeVars
    <3> QED
      BY <2>1, <2>5, <3>1, AsideStep
      DEF BatteryResumes, Aside, ModesStep, ChargingMeansOnCharger
  <2> QED
    BY <1>1, <2>2, <2>3, <2>4, <2>5 DEF OnBattery
<1>2. ASSUME NEW F \in Incidents, OnIncident(F) PROVE ModesStep
  <2>1. /\ task_mode' \in {task_mode, "STOP", "FREE", "CHARGING"}
        /\ UNCHANGED <<recharge_status, pose_reads, tf_recovery_attempts>>
    BY <1>2
    DEF OnIncident, IncidentFrame, IncidentReported, IncidentCleared, IncidentIsNoted,
        IncidentCancelsTask, IncidentMarksTask, ModeAfterContact, SetStateE, headingVars
  <2>2. \A d \in {"nav", "charging"} : Live(d)' = Live(d)
    BY <1>2, LiveSame, LiveStopped
    DEF OnIncident, IncidentReported, IncidentCleared, IncidentIsNoted,
        IncidentCancelsTask, IncidentMarksTask, CancelActiveActions, Clients
  <2>3. task_mode' = "CHARGING" => is_on_charger'
    <3>1. CASE IncidentReported(F)
      <4>1. task_mode' = "CHARGING" => (task_mode = "CHARGING" \/ "charge_stop" \in F)
        BY <3>1
        DEF IncidentReported, IncidentIsNoted, IncidentCancelsTask, IncidentMarksTask,
            ModeAfterContact, Contact, SetStateE
      <4> QED
        BY <3>1, <4>1 DEF IncidentReported, ChargingMeansOnCharger
    <3>2. CASE IncidentCleared(F)
      BY <3>2 DEF IncidentCleared, ChargingMeansOnCharger
    <3> QED
      BY <1>2, <3>1, <3>2 DEF OnIncident
  <2> QED
    BY <2>1, <2>2, <2>3, AsideStep DEF Aside, ModesStep, ChargingMeansOnCharger
<1>3. CASE OnCloudMoveCmd
  BY <1>3, QuietStep, LiveSame
  DEF OnCloudMoveCmd, BeginUndock, NoState, UndockFrame, SetState, Clients, Aside, Quiet,
      headingVars, modeVars, goalVars
<1>4. CASE OnLocStatus \/ OnCameraHwException \/ OnShmError \/ SlipIsOver
  BY <1>4, QuietStep, LiveSame
  DEF OnLocStatus, OnCameraHwException, OnShmError, SlipIsOver, LocStates, RecoveryFrame,
      SetStateE, FaultFrame, SetState, Clients, Aside, Quiet, modeVars, headingVars,
      chargerVars
<1>5. CASE SlipDetected
  BY <1>5, QuietStep, LiveSame, LivePut
  DEF SlipDetected, SetState, SendRecovery, RecoveryFrame, GoalStates, Clients, Aside,
      Quiet, headingVars, modeVars, chargerVars, TypeOK, GoalsTyped
<1> QED
  BY <1>1, <1>2, <1>3, <1>4, <1>5
  DEF Subscription

\* A timer fires, time passes, a call of the recharge chain returns.
LEMMA TimerModes ==
    ASSUME TypeOK, HandleIsLive, ChargingMeansOnCharger,
           Timer \/ UndockTimePasses \/ OnChargerPoseRead \/ OnFreeMoveDone
    PROVE  ModesStep
<1>1. CASE BootTick
  <2>1. UNCHANGED goal
    BY <1>1
    DEF BootTick, BootEnters, BootWaits, BootInitsMower, BootSucceeds, BootStays,
        BootFrame
  <2>2. CASE BootSucceeds /\ StartRecharge
    <3>1. UNCHANGED tf_recovery_attempts
      BY <2>2 DEF BootSucceeds, DetectionStopsHeading, headingVars
    <3> QED
      BY <2>1, <2>2, <3>1, RechargeIsRequested, LiveSame DEF Clients
  <2>3. CASE BootSucceeds /\ ~StartRecharge
    <3>1. /\ UNCHANGED <<pose_reads, recharge_status, tf_recovery_attempts>>
          /\ task_mode' # "RECHARGING"
          /\ task_mode' = "CHARGING" => is_on_charger'
      BY <2>3 DEF BootSucceeds, SetState, DetectionStopsHeading
    <3> QED
      BY <2>1, <2>3, <3>1, LiveSame, AsideStep
      DEF Clients, Aside, ModesStep, ChargingMeansOnCharger
  <2>4. CASE ~BootSucceeds
    <3>1. Quiet
      BY <1>1, <2>1, <2>4, LiveSame
      DEF BootTick, BootEnters, BootWaits, BootInitsMower, BootStays, SetState, modeVars,
          Aside, Quiet, headingVars, Clients
    <3> QED
      BY <3>1, QuietStep
  <2> QED
    BY <2>2, <2>3, <2>4
<1>2. CASE UndockTick
  <2>1. task_mode' = task_mode \/ task_mode' \notin {"RECHARGING", "CHARGING"}
    BY <1>2, AfterStateIsQuiet
    DEF UndockTick, UndockDrives, UndockFails, UndockSucceeds, SetState, modeVars
  <2>2. UNCHANGED <<goal, pose_reads, recharge_status, tf_recovery_attempts>>
    BY <1>2
    DEF UndockTick, UndockDrives, UndockFails, UndockSucceeds, UndockFrame, SetState,
        modeVars, goalVars, headingVars
  <2>3. task_mode' = "CHARGING" => UNCHANGED is_on_charger
    BY <1>2, AfterStateIsQuiet
    DEF UndockTick, UndockDrives, UndockFails, UndockSucceeds, SetState
  <2> QED
    BY <2>1, <2>2, <2>3, LiveSame, AsideStep
    DEF Clients, Aside, ModesStep, ChargingMeansOnCharger
<1>3. CASE HeadingDiscoveryTick
  <2>1. CASE HeadingDocks
    BY <2>1, RechargeIsRequested, LiveSame DEF HeadingDocks, HeadingStops, Clients
  <2>2. CASE HeadingAborts \/ HeadingSpins
    BY <1>3, <2>2, QuietStep, LiveSame
    DEF HeadingDiscoveryTick, HeadingAborts, HeadingSpins, HeadingStops, NoThread,
        modeVars, goalVars, chargerVars, Clients, Aside, Quiet
  <2> QED
    BY <1>3, <2>1, <2>2 DEF HeadingDiscoveryTick
<1>4. CASE CpuOverheats
  BY <1>4, QuietStep, LiveSame, LiveStopped
  DEF CpuOverheats, CancelActiveActions, SetStateE, FaultFrame, Clients, Aside, Quiet,
      headingVars, modeVars, chargerVars
<1>5. CASE LocalizationIsLow
  BY <1>5, QuietStep, LiveSame, LivePut
  DEF LocalizationIsLow, SetState, SendRecovery, RecoveryFrame, GoalStates, Clients,
      Aside, Quiet, modeVars, headingVars, chargerVars, TypeOK, GoalsTyped
<1>6. CASE OnChargerPoseRead
  <2>0. /\ pose_reads > 0 /\ pose_reads' = pose_reads - 1
        /\ UNCHANGED <<tf_recovery_attempts, is_on_charger>>
    BY <1>6 DEF OnChargerPoseRead, NoThread, chargerVars, headingVars
  <2>1. CASE SendNavGoal /\ UNCHANGED modeVars
    <3>1. Chain!PoseRead
      BY <2>0, <2>1, NavigationIsSent DEF Chain!PoseRead, modeVars
    <3> QED
      BY <2>0, <2>1, <3>1
      DEF ModesStep, ChainStep, Chain!Next, ChargingMeansOnCharger, modeVars
  <2>2. CASE StartAutoCharging
    <3>1. Chain!PoseRead
      BY <2>0, <2>2, DockingStarts DEF Chain!PoseRead
    <3> QED
      BY <2>2, <3>1, DockingStarts
      DEF ModesStep, ChainStep, Chain!Next, ChargingMeansOnCharger
  <2> QED
    BY <1>6, <2>1, <2>2 DEF OnChargerPoseRead
<1>7. CASE OnFreeMoveDone
  BY <1>7, QuietStep, LiveSame
  DEF OnFreeMoveDone, NoThread, Clients, Aside, Quiet, modeVars, headingVars, goalVars,
      chargerVars
<1>8. CASE UndockTimePasses
  BY <1>8, QuietStep, LiveSame
  DEF UndockTimePasses, UndockFrame, Clients, Aside, Quiet, modeVars, headingVars,
      goalVars
<1> QED
  BY <1>1, <1>2, <1>3, <1>4, <1>5, <1>6, <1>7, <1>8
  DEF Timer

\* Every step of the node is shown.
LEMMA NextModes ==
    ASSUME TypeOK, HandleIsLive, ChargingMeansOnCharger, [Next]_vars
    PROVE  ModesStep
<1>1. ASSUME NEW t \in Threads, ThreadStep(t) PROVE ModesStep
  BY <1>1, ThreadModes
<1>2. CASE Service \/ \E w \in Workers : BlockingService(w)
  BY <1>2, ServiceModes
<1>3. ASSUME NEW g \in GoalIds, GoalResponse(g) PROVE ModesStep
  BY <1>3, ResponseModes
<1>4. ASSUME NEW g \in GoalIds, GoalResult(g) \/ CoverageFeedback(g) PROVE ModesStep
  BY <1>4, ResultModes
<1>5. CASE Subscription
  BY <1>5, SubscriptionModes
<1>6. CASE Timer \/ UndockTimePasses \/ OnChargerPoseRead \/ OnFreeMoveDone
  BY <1>6, TimerModes
<1>7. CASE UNCHANGED vars
  BY <1>7, QuietStep, LiveSame
  DEF vars, modeVars, chargerVars, goalVars, headingVars, Aside, Quiet, Clients
<1> QED
  BY <1>1, <1>2, <1>3, <1>4, <1>5, <1>6, <1>7 DEF Next, ClientCallback

-----------------------------------------------------------------------------
(* The theorems *)

\* The mode CHARGING goes when the node no longer believes to be on the charger,
\* whichever of battery, incidents, docking result and undock changes that belief.
THEOREM ChargingOnCharger == Spec => []ChargingMeansOnCharger
<1>1. Init => ChargingMeansOnCharger
  BY DEF Init, ChargingMeansOnCharger
<1>2. TypeOK /\ HandleIsLive /\ ChargingMeansOnCharger /\ [Next]_vars
      => ChargingMeansOnCharger'
  BY NextModes DEF ModesStep
<1> QED
  BY <1>1, <1>2, TypeCorrect, HandlesAreLive, PTL DEF Spec

\* The node implements RechargeChain: each step of it hands a recharge on, publishes its
\* outcome, or leaves it alone, however many recharges overlap.
THEOREM RechargeImplemented == Spec => RechargeIsHandedOn
<1>1. Init => Chain!Init
  BY DEF Init, Chain!Init, Live, Clients
<1>2. TypeOK /\ HandleIsLive /\ ChargingMeansOnCharger /\ [Next]_vars
      => [Chain!Next]_(Chain!chainVars)
  BY NextModes DEF ModesStep, ChainStep
<1> QED
  BY <1>1, <1>2, TypeCorrect, HandlesAreLive, ChargingOnCharger, PTL
  DEF Spec, RechargeIsHandedOn, Chain!Spec

\* On the chain alone: RECHARGING and NAVIGATING have their job after each step, also
\* where another recharge overtakes the first.
LEMMA ChainKeepsJobs ==
    ASSUME TypeOK, Chain!RechargingHasJob, Chain!NavigatingHasJob, ChainStep
    PROVE  Chain!RechargingHasJob' /\ Chain!NavigatingHasJob'
<1> USE DEF TypeOK, GoalsTyped, Chain!RechargingHasJob, Chain!NavigatingHasJob,
            Chain!Publish
<1>1. CASE Chain!Request
  BY <1>1, ReadsBound DEF Chain!Request, Chain!NavigationLeaves, Chain!DockingLeaves
<1>2. CASE Chain!PoseRead
  BY <1>2, ReadsBound DEF Chain!PoseRead, Chain!NavigationLeaves, Chain!DockingLeaves
<1>3. CASE Chain!NavigationEnds
  BY <1>3 DEF Chain!NavigationEnds, Chain!DockingLeaves
<1>4. CASE Chain!DockingEnds
  BY <1>4 DEF Chain!DockingEnds
<1>5. CASE Chain!Cancel \/ Chain!Elsewhere \/ UNCHANGED Chain!chainVars
  BY <1>5 DEF Chain!Cancel, Chain!Elsewhere, Chain!chainVars, Chain!jobs
<1> QED
  BY <1>1, <1>2, <1>3, <1>4, <1>5 DEF ChainStep, Chain!Next

\* Both hold in every state of the node.
LEMMA JobsInductive == Spec => [](Chain!RechargingHasJob /\ Chain!NavigatingHasJob)
<1>1. Init => Chain!RechargingHasJob /\ Chain!NavigatingHasJob
  BY DEF Init, Chain!RechargingHasJob, Chain!NavigatingHasJob
<1>2. /\ TypeOK /\ HandleIsLive /\ ChargingMeansOnCharger /\ [Next]_vars
      /\ Chain!RechargingHasJob /\ Chain!NavigatingHasJob
      => (Chain!RechargingHasJob /\ Chain!NavigatingHasJob)'
  BY NextModes, ChainKeepsJobs DEF ModesStep
<1> QED
  BY <1>1, <1>2, TypeCorrect, HandlesAreLive, ChargingOnCharger, PTL DEF Spec

\* RECHARGING is never published without a read of the charger pose, a navigation
\* or a docking goal that will end it, however many recharges start, are refused,
\* cancelled or overtaken by one another.
THEOREM RechargeKeepsWork == Spec => []RechargeNeverStalls
<1>1. Chain!RechargingHasJob => RechargeNeverStalls
  BY DEF Chain!RechargingHasJob, RechargeNeverStalls
<1> QED
  BY <1>1, JobsInductive, PTL

\* NAVIGATING is published only while the charger pose or the navigation is awaited.
THEOREM NavigatingKeepsWork == Spec => []NavigatingIsUnderWay
<1>1. Chain!NavigatingHasJob => NavigatingIsUnderWay
  BY DEF Chain!NavigatingHasJob, NavigatingIsUnderWay
<1> QED
  BY <1>1, JobsInductive, PTL

-----------------------------------------------------------------------------
(* The work status *)

\* The statuses that announce work.
Announcing ==
    {"QUIT_PILE_INIT", "RETURN_TO_PILE", "ALIGN_PILE", "AUTO_ERASE_MAPPING", "DELETE_MAP",
     "SYSTEM_CHECK_INIT", "SENSOR_INIT", "LOCALIZATION_UTM_INIT", "LOCALIZATION_INIT"}

\* A step that ends none of that work.
KeepsWork ==
    /\ undocking => undocking'
    /\ pose_reads > 0 \/ Live("nav") # {} => (pose_reads > 0 \/ Live("nav") # {})'
    /\ Live("charging") # {} => Live("charging")' # {}
    /\ \A t \in Threads : pc[t] \in {"erase", "delete"} => pc'[t] = pc[t]
    /\ ~Booted => ~Booted'

\* A step that announces no work, or leaves both alone.
Unannounced == work_status' \notin Announcing \/ (UNCHANGED work_status /\ KeepsWork)

\* It is shown.
LEMMA UnannouncedStep ==
    ASSUME StatusIsUnderWay, Unannounced
    PROVE  StatusIsUnderWay'
BY DEF StatusIsUnderWay, Unannounced, Announcing, KeepsWork

\* The handler of a thread that waits goes on: no other thread's point changes.
LEMMA ThreadStatus ==
    ASSUME TypeOK, HandleIsLive, StatusIsUnderWay, NEW t \in Threads, ThreadStep(t)
    PROVE  StatusIsUnderWay'
<1>0. ASSUME NEW p, pc' = [pc EXCEPT ![t] = p], pc[t] \notin {"erase", "delete"}
      PROVE  \A u \in Threads : pc[u] \in {"erase", "delete"} => pc'[u] = pc[u]
  BY <1>0 DEF TypeOK, ThreadsTyped
<1>1. CASE UndockWaitEnds(t)
  BY <1>0, <1>1, UnannouncedStep, LiveSame
  DEF UndockWaitEnds, CovUndocked, MapUndocked, AssistantUndocked, Record, Block, Goto,
      MappingFrame, FollowFrame, Clients, Unannounced, KeepsWork, modeVars, undockVars,
      goalVars, envVars, Booted
<1>2. CASE CovMapLoaded(t)
  BY <1>0, <1>2, UnannouncedStep, LiveSame, LivePut
  DEF CovMapLoaded, CovMapFails, CovLacksPolygon, CovStarts, Done, Block, UnlessCameras,
      SetState, GoalStates, Clients, Unannounced, KeepsWork, Announcing, modeVars,
      undockVars, envVars, Booted, TypeOK, GoalsTyped
<1>3. CASE RecordingStarts(t) \/ MapGenerated(t)
  <2>1. work_status' \notin Announcing \/ UNCHANGED work_status
    BY <1>3 DEF RecordingStarts, MapGenerated, SetState, Announcing, modeVars
  <2>2. UNCHANGED <<undockVars, goalVars, envVars>> /\ pc' = [pc EXCEPT ![t] = "idle"]
    BY <1>3 DEF RecordingStarts, MapGenerated, Finish, Block, MappingFrame
  <2>3. pc[t] \notin {"erase", "delete"}
    BY <1>3 DEF RecordingStarts, MapGenerated
  <2> QED
    BY <1>0, <2>1, <2>2, <2>3, UnannouncedStep, LiveSame
    DEF Clients, Unannounced, KeepsWork, undockVars, goalVars, envVars, Booted
<1>4. CASE MapDeleted(t) \/ Erased(t)
  BY <1>4, UnannouncedStep
  DEF MapDeleted, Erased, SetState, Unannounced, Announcing
<1>5. CASE FollowStarts(t) \/ NoPerceptionData(t)
  BY <1>0, <1>5, UnannouncedStep, LiveSame
  DEF FollowStarts, NoPerceptionData, Finish, Block, Goto, SetState, FollowFrame, Clients,
      Unannounced, KeepsWork, Announcing, modeVars, undockVars, envVars, Booted
<1>6. CASE PerceptionData(t)
  BY <1>0, <1>6, UnannouncedStep, LiveSame, LivePut
  DEF PerceptionData, Finish, Block, FollowFrame, GoalStates, Clients, Unannounced,
      KeepsWork, modeVars, undockVars, envVars, Booted, TypeOK, GoalsTyped
<1> QED
  BY <1>1, <1>2, <1>3, <1>4, <1>5, <1>6
  DEF ThreadStep

\* A recharge that starts announces its read of the charger pose.
LEMMA RechargeStatus ==
    ASSUME TypeOK, StartRecharge
    PROVE  StatusIsUnderWay'
BY DEF StartRecharge, SetStateR, StatusIsUnderWay, TypeOK, GoalsTyped

\* Docking that starts announces its goal.
LEMMA DockingStatus ==
    ASSUME TypeOK, StartAutoCharging
    PROVE  StatusIsUnderWay'
<1>1. ASSUME NEW g \in GoalIds, goal' = Put(goal, "charging", g, "sent")
      PROVE  Live("charging")' # {}
  BY <1>1, LivePut DEF Clients, GoalStates, TypeOK, GoalsTyped
<1> QED
  BY <1>1 DEF StartAutoCharging, SetStateR, StatusIsUnderWay

\* So does docking after a navigation.
LEMMA NavigationStatus ==
    ASSUME TypeOK, NEW g \in GoalIds, ThenAutoCharging(g)
    PROVE  StatusIsUnderWay'
<1>1. ASSUME NEW h \in GoalIds,
             goal' = Put(Put(goal, "nav", g, "free"), "charging", h, "sent")
      PROVE  Live("charging")' # {}
  BY <1>1 DEF Live, Put, TypeOK, GoalsTyped, GoalTables, Clients
<1> QED
  BY <1>1 DEF ThenAutoCharging, SetStateR, StatusIsUnderWay

\* A service is called.
LEMMA ServiceStatus ==
    ASSUME TypeOK, HandleIsLive, StatusIsUnderWay,
           Service \/ \E w \in Workers : BlockingService(w)
    PROVE  StatusIsUnderWay'
<1>1. ASSUME NEW w \in Workers, BlockingService(w) PROVE StatusIsUnderWay'
  <2>0. /\ w \in Threads
        /\ \A p : pc[w] = "idle" /\ pc' = [pc EXCEPT ![w] = p] =>
              /\ pc'[w] = p
              /\ \A u \in Threads : pc[u] \in {"erase", "delete"} => pc'[u] = pc[u]
    BY DEF Threads, TypeOK, ThreadsTyped
  <2>1. CASE HandleStartCovTask(w) \/ HandleResumeTask(w)
    <3>1. ASSUME NEW k, StartCovTask(w, k, task_mode, is_on_charger, undocking),
                 pc[w] = "idle", UNCHANGED <<goal, pose_reads, boot_phase>>
          PROVE  StatusIsUnderWay'
      <4>1. \/ work_status' \notin Announcing
            \/ work_status' = "QUIT_PILE_INIT" /\ undocking'
            \/ UNCHANGED <<work_status, undocking>> /\ Block(w, "cov_undock", k)
        BY <3>1
        DEF StartCovTask, RequestUndock, BeginUndock, SetState, Announcing, modeVars,
            undockVars
      <4>2. CASE UNCHANGED <<work_status, undocking>> /\ Block(w, "cov_undock", k)
        BY <2>0, <3>1, <4>2, UnannouncedStep, LiveSame
        DEF Block, Unannounced, KeepsWork, Clients, Booted
      <4> QED
        BY <4>1, <4>2, UnannouncedStep DEF Unannounced, StatusIsUnderWay
    <3> QED
      BY <2>1, <3>1 DEF HandleStartCovTask, HandleResumeTask, goalVars, envVars
  <2>2. CASE HandleStartMapping(w) \/ HandleStartAssistant(w)
    <3>1. /\ pc[w] = "idle" /\ UNCHANGED <<goal, pose_reads, boot_phase>>
          /\ \/ work_status' \notin Announcing
             \/ work_status' = "QUIT_PILE_INIT" /\ undocking'
             \/ /\ UNCHANGED <<work_status, undocking>>
                /\ \E p : pc' = [pc EXCEPT ![w] = p]
      BY <2>2
      DEF HandleStartMapping, HandleStartAssistant, RequestUndock, BeginUndock, SetState,
          Announcing, modeVars, undockVars, goalVars, envVars, FollowFrame, Block
    <3>2. CASE UNCHANGED <<work_status, undocking>> /\ \E p : pc' = [pc EXCEPT ![w] = p]
      BY <2>0, <3>1, <3>2, UnannouncedStep, LiveSame
      DEF Unannounced, KeepsWork, Clients, Booted
    <3> QED
      BY <3>1, <3>2, UnannouncedStep DEF Unannounced, StatusIsUnderWay
  <2>3. CASE HandleAddArea(w) \/ HandleSaveMap(w)
    BY <2>3, UnannouncedStep
    DEF HandleAddArea, HandleSaveMap, SetState, Unannounced, Announcing
  <2>4. CASE HandleStartErase(w)
    BY <2>0, <2>4 DEF HandleStartErase, SetState, Block, StatusIsUnderWay
  <2>5. CASE HandleDeleteMap(w)
    <3>1. CASE SetState("MAPPING", "DELETE_MAP")
      BY <2>0, <2>5, <3>1 DEF HandleDeleteMap, SetState, Block, StatusIsUnderWay
    <3>2. CASE UNCHANGED modeVars
      BY <2>0, <2>5, <3>2, UnannouncedStep, LiveSame
      DEF HandleDeleteMap, MappingFrame, Block, Unannounced, KeepsWork, Clients, modeVars,
          undockVars, goalVars, envVars, Booted
    <3> QED
      BY <2>5, <3>1, <3>2 DEF HandleDeleteMap
  <2> QED
    BY <1>1, <2>1, <2>2, <2>3, <2>4, <2>5 DEF BlockingService
<1>2. CASE \/ HandleStopTask \/ HandleCancelTask \/ HandleResetData \/ HandleCancelRecharge
           \/ HandleMapStopRecord \/ HandleResetMapping \/ HandleQuitMapping
           \/ HandleSaveChargingPose
  BY <1>2, UnannouncedStep
  DEF HandleStopTask, HandleCancelTask, HandleResetData, HandleCancelRecharge,
      HandleMapStopRecord, HandleResetMapping, HandleQuitMapping, HandleSaveChargingPose,
      SetState, SetStateE, SetStateR, Unannounced, Announcing
<1>3. CASE HandleAutoRecharge
  BY <1>3, RechargeStatus DEF HandleAutoRecharge
<1>4. CASE HandleNavToRecharge
  <2>1. CASE SetStateR("RECHARGING", "RETURN_TO_PILE", "NAVIGATING") /\ SendNavGoal
    <3>1. Live("nav")' # {}
      BY <2>1, NavigationIsSent DEF Chain!NavigationLeaves
    <3> QED
      BY <2>1, <3>1 DEF SetStateR, StatusIsUnderWay
  <2> QED
    BY <1>4, <2>1, RechargeStatus, DockingStatus DEF HandleNavToRecharge
<1> QED
  BY <1>1, <1>2, <1>3, <1>4 DEF Service

\* An action server answers a goal.
LEMMA ResponseStatus ==
    ASSUME TypeOK, HandleIsLive, StatusIsUnderWay, NEW g \in GoalIds, GoalResponse(g)
    PROVE  StatusIsUnderWay'
<1>1. CASE \/ CoverageRefused(g) \/ BoundaryRefused(g) \/ ChargingRefused(g)
  BY <1>1, UnannouncedStep
  DEF CoverageRefused, BoundaryRefused, ChargingRefused, SetState, SetStateR, Unannounced,
      Announcing
<1>2. CASE \/ CoverageAccepted(g) \/ BoundaryAccepted(g)
           \/ NavAccepted(g) \/ ChargingAccepted(g)
  BY <1>2, UnannouncedStep, LiveAnswered
  DEF CoverageAccepted, CoverageFrame, BoundaryAccepted, FollowFrame, NavAccepted,
      ChargingAccepted, NoThread, Unannounced, KeepsWork, Clients, modeVars, undockVars,
      envVars, threadVars, Booted
<1>3. CASE NavRefused(g)
  BY <1>3, NavigationStatus DEF NavRefused
<1>4. ASSUME NEW c \in {"slip", "loc_recover"}, RecoveryAccepted(c, g)
      PROVE  StatusIsUnderWay'
  BY <1>4, UnannouncedStep, LiveAnswered
  DEF RecoveryAccepted, RecoveryFrame, Unannounced, KeepsWork, Clients, modeVars,
      undockVars, threadVars, Booted
<1> QED
  BY <1>1, <1>2, <1>3, <1>4 DEF GoalResponse

\* A goal ends, or reports its progress.
LEMMA ResultStatus ==
    ASSUME TypeOK, HandleIsLive, StatusIsUnderWay, NEW g \in GoalIds,
           GoalResult(g) \/ CoverageFeedback(g)
    PROVE  StatusIsUnderWay'
<1>1. CASE \/ CoverageFeedback(g) \/ CoverageResult(g)
           \/ ChargingResult(g) \/ BoundaryStops(g)
           \/ \E w \in Workers : BoundaryCloses(g, w)
  BY <1>1, UnannouncedStep
  DEF CoverageFeedback, CoverageResult, ChargingResult, ChargingSucceeds, ChargingStops,
      ChargingLacksTransform, BoundaryStops, BoundaryCloses, SetState, SetStateR,
      Unannounced, Announcing
<1>2. CASE NavResult(g)
  BY <1>2, NavigationStatus DEF NavResult
<1>3. ASSUME NEW c \in {"slip", "loc_recover"}, RecoveryResult(c, g)
      PROVE  StatusIsUnderWay'
  BY <1>3, UnannouncedStep, LivePut
  DEF RecoveryResult, RecoveryFrame, GoalStates, Unannounced, KeepsWork, Clients,
      modeVars, undockVars, threadVars, Booted, TypeOK, GoalsTyped
<1> QED
  BY <1>1, <1>2, <1>3 DEF GoalResult

\* A message arrives.
LEMMA SubscriptionStatus ==
    ASSUME TypeOK, HandleIsLive, StatusIsUnderWay, Subscription
    PROVE  StatusIsUnderWay'
<1>1. ASSUME NEW r \in Readings, OnBattery(r) PROVE StatusIsUnderWay'
  <2>1. CASE BatteryOrdinary(r)
    <3>1. work_status' = "INIT_SUCCESS" \/ UNCHANGED work_status
      BY <2>1 DEF BatteryOrdinary, DetectionSetsState, SetState, modeVars
    <3> QED
      BY <1>1, <2>1, <3>1, UnannouncedStep, LiveSame
      DEF OnBattery, BatteryDetects, BatteryOrdinary, Unannounced, Announcing, KeepsWork,
          Clients, undockVars, goalVars, envVars, threadVars, Booted
  <2>2. CASE BatteryRecallsCoverage(r)
    BY <2>2, RechargeStatus DEF BatteryRecallsCoverage
  <2>3. CASE BatteryRecallsIdle(r)
    BY <2>3 DEF BatteryRecallsIdle, StatusIsUnderWay, TypeOK, GoalsTyped
  <2>4. CASE BatteryResumes(r)
    <3>1. ASSUME NEW k, StartCovTask(Main, k, "FREE", OnChargerNow(r.current), FALSE)
          PROVE  StatusIsUnderWay'
      BY <3>1, UnannouncedStep
      DEF StartCovTask, RequestUndock, BeginUndock, SetState, StatusIsUnderWay,
          Unannounced, Announcing
    <3> QED
      BY <2>4, <3>1, UnannouncedStep
      DEF BatteryResumes, SetState, Unannounced, Announcing
  <2> QED
    BY <1>1, <2>1, <2>2, <2>3, <2>4 DEF OnBattery
<1>2. ASSUME NEW F \in Incidents, OnIncident(F) PROVE StatusIsUnderWay'
  <2>1. \/ work_status' \notin Announcing
        \/ UNCHANGED <<work_status, undocking, goal>>
    BY <1>2
    DEF OnIncident, IncidentReported, IncidentCleared, IncidentIsNoted,
        IncidentCancelsTask, IncidentMarksTask, SetStateE, Announcing, undockVars
  <2> QED
    BY <1>2, <2>1, UnannouncedStep, LiveSame
    DEF OnIncident, IncidentFrame, Unannounced, KeepsWork, Clients, envVars, threadVars,
        Booted
<1>3. CASE OnCloudMoveCmd
  BY <1>3 DEF OnCloudMoveCmd, BeginUndock, SetState, StatusIsUnderWay
<1>4. CASE OnCameraHwException \/ OnShmError
  BY <1>4, UnannouncedStep
  DEF OnCameraHwException, OnShmError, SetState, SetStateE, Unannounced, Announcing
<1>5. CASE OnLocStatus \/ SlipIsOver
  BY <1>5, UnannouncedStep, LiveSame
  DEF OnLocStatus, SlipIsOver, RecoveryFrame, Unannounced, KeepsWork, Clients, modeVars,
      undockVars, threadVars, Booted
<1>6. CASE SlipDetected
  BY <1>6, UnannouncedStep, LiveSame
  DEF SlipDetected, RecoveryFrame, SetState, Unannounced, Announcing, KeepsWork, Clients,
      modeVars, undockVars, threadVars, Booted
<1> QED
  BY <1>1, <1>2, <1>3, <1>4, <1>5, <1>6 DEF Subscription

\* A timer fires, time passes, a call of the recharge chain returns.
LEMMA TimerStatus ==
    ASSUME TypeOK, HandleIsLive, StatusIsUnderWay,
           Timer \/ UndockTimePasses \/ OnChargerPoseRead \/ OnFreeMoveDone
    PROVE  StatusIsUnderWay'
<1>1. CASE BootTick
  <2>1. CASE BootSucceeds
    BY <2>1, RechargeStatus, UnannouncedStep
    DEF BootSucceeds, SetState, Unannounced, Announcing
  <2>2. CASE BootInitsMower
    BY <2>2, UnannouncedStep, LiveSame
    DEF BootInitsMower, BootStays, BootFrame, Unannounced, KeepsWork, Clients, modeVars,
        undockVars, threadVars, Booted
  <2>3. CASE ~BootSucceeds /\ ~BootInitsMower
    BY <1>1, <2>3 DEF BootTick, BootEnters, BootWaits, SetState, StatusIsUnderWay, Booted
  <2> QED
    BY <2>1, <2>2, <2>3
<1>2. CASE UndockTick
  <2>1. CASE UndockDrives
    BY <1>2, <2>1, UnannouncedStep, LiveSame
    DEF UndockTick, UndockDrives, UndockFrame, Unannounced, KeepsWork, Clients, modeVars,
        goalVars, envVars, threadVars, Booted
  <2>2. undock_after = NoState \/ undock_after[2] \notin Announcing
    BY DEF TypeOK, UndockTyped, AfterStates, Announcing
  <2> QED
    BY <1>2, <2>1, <2>2, UnannouncedStep
    DEF UndockTick, UndockFails, UndockSucceeds, SetState, Unannounced, Announcing
<1>3. CASE HeadingDiscoveryTick
  <2>1. CASE HeadingDocks
    BY <2>1, RechargeStatus DEF HeadingDocks
  <2>2. CASE HeadingAborts \/ HeadingSpins
    BY <1>3, <2>2, UnannouncedStep, LiveSame
    DEF HeadingDiscoveryTick, HeadingAborts, HeadingSpins, NoThread, modeVars, goalVars,
        undockVars, envVars, threadVars, Clients, Unannounced, KeepsWork, Booted
  <2> QED
    BY <1>3, <2>1, <2>2 DEF HeadingDiscoveryTick
<1>4. CASE CpuOverheats \/ LocalizationIsLow
  BY <1>4, UnannouncedStep
  DEF CpuOverheats, LocalizationIsLow, SetState, SetStateE, Unannounced, Announcing
<1>5. CASE OnChargerPoseRead
  <2>1. CASE SendNavGoal /\ UNCHANGED modeVars
    <3>1. Live("nav")' # {} /\ Live("charging")' = Live("charging")
      BY <2>1, NavigationIsSent DEF Chain!NavigationLeaves
    <3> QED
      BY <1>5, <2>1, <3>1, UnannouncedStep
      DEF OnChargerPoseRead, NoThread, modeVars, undockVars, envVars, threadVars,
          Unannounced, KeepsWork, Booted
  <2> QED
    BY <1>5, <2>1, DockingStatus DEF OnChargerPoseRead
<1>6. CASE OnFreeMoveDone \/ UndockTimePasses
  BY <1>6, UnannouncedStep, LiveSame
  DEF OnFreeMoveDone, NoThread, UndockTimePasses, UndockFrame, Clients, Unannounced,
      KeepsWork, modeVars, goalVars, undockVars, envVars, threadVars, Booted
<1> QED
  BY <1>1, <1>2, <1>3, <1>4, <1>5, <1>6 DEF Timer

\* The published work status announces only work that is under way: undock, way to the
\* charger, docking, erasing, deleting or boot, whoever published it and whatever was
\* cancelled since.
THEOREM StatusIsTrue == Spec => []StatusIsUnderWay
<1>1. Init => StatusIsUnderWay
  BY FirstPhaseAssumption DEF Init, FirstStatus, StatusIsUnderWay, Booted
<1>2. ASSUME TypeOK, HandleIsLive, StatusIsUnderWay, [Next]_vars
      PROVE  StatusIsUnderWay'
  <2>1. CASE UNCHANGED vars
    BY <1>2, <2>1, UnannouncedStep, LiveSame
    DEF vars, modeVars, goalVars, undockVars, envVars, threadVars, Clients, Unannounced,
        KeepsWork, Booted
  <2>2. CASE \E t \in Threads : ThreadStep(t)
    BY <1>2, <2>2, ThreadStatus
  <2>3. CASE Service \/ \E w \in Workers : BlockingService(w)
    BY <1>2, <2>3, ServiceStatus
  <2>4. CASE \E g \in GoalIds : GoalResponse(g)
    BY <1>2, <2>4, ResponseStatus
  <2>5. CASE \E g \in GoalIds : GoalResult(g) \/ CoverageFeedback(g)
    BY <1>2, <2>5, ResultStatus
  <2>6. CASE Subscription
    BY <1>2, <2>6, SubscriptionStatus
  <2>7. CASE Timer \/ UndockTimePasses \/ OnChargerPoseRead \/ OnFreeMoveDone
    BY <1>2, <2>7, TimerStatus
  <2> QED
    BY <1>2, <2>1, <2>2, <2>3, <2>4, <2>5, <2>6, <2>7 DEF Next, ClientCallback
<1> QED
  BY <1>1, <1>2, TypeCorrect, HandlesAreLive, PTL DEF Spec

-----------------------------------------------------------------------------
(* Heading discovery *)

\* The rest of the node leaves a heading discovery alone.
LEMMA HeadingUntouched ==
    ASSUME [Next]_vars,
           ~OnFreeMoveDone, ~HeadingDiscoveryTick, ~BootTick,
           \A g \in GoalIds : ~ChargingLacksTransform(g),
           \A r \in Readings : ~OnBattery(r)
    PROVE  UNCHANGED <<heading_phase, heading_timer, free_moves>>
<1>1. ASSUME NEW t \in Threads, ThreadStep(t)
      PROVE  UNCHANGED <<heading_phase, heading_timer, free_moves>>
  BY <1>1
  DEF ThreadStep, UndockWaitEnds, CovUndocked, MapUndocked, AssistantUndocked,
      CovMapLoaded, RecordingStarts, MapGenerated, MapDeleted, Erased, FollowStarts,
      NoPerceptionData, PerceptionData, MappingFrame, FollowFrame, headingVars
<1>2. ASSUME NEW w \in Workers, BlockingService(w)
      PROVE  UNCHANGED <<heading_phase, heading_timer, free_moves>>
  BY <1>2
  DEF BlockingService, HandleStartCovTask, HandleResumeTask, HandleStartMapping,
      HandleAddArea, HandleSaveMap, HandleDeleteMap, HandleStartErase,
      HandleStartAssistant, MappingFrame, FollowFrame, headingVars
<1>3. CASE Service
  BY <1>3
  DEF Service, HandleStopTask, HandleCancelTask, HandleResetData, StopsEverything,
      HandleAutoRecharge, HandleNavToRecharge, HandleCancelRecharge, HandleMapStopRecord,
      HandleResetMapping, HandleQuitMapping, HandleSaveChargingPose, MappingFrame,
      headingVars
<1>4. ASSUME NEW g \in GoalIds, GoalResponse(g)
      PROVE  UNCHANGED <<heading_phase, heading_timer, free_moves>>
  BY <1>4
  DEF GoalResponse, CoverageAccepted, CoverageRefused, CoverageFrame, BoundaryAccepted,
      BoundaryRefused, FollowFrame, NavAccepted, NavRefused, ChargingAccepted,
      ChargingRefused, RecoveryAccepted, RecoveryFrame, headingVars
<1>5. ASSUME NEW g \in GoalIds, GoalResult(g) \/ CoverageFeedback(g)
      PROVE  UNCHANGED <<heading_phase, heading_timer, free_moves>>
  BY <1>5
  DEF GoalResult, CoverageFeedback, CoverageResult, CoverageFrame, NavResult,
      ChargingResult, ChargingSucceeds, ChargingStops, BoundaryStops, BoundaryCloses,
      BoundaryEnds, FollowFrame, RecoveryResult, RecoveryFrame, headingVars
<1>6. CASE Subscription
  BY <1>6
  DEF Subscription, OnIncident, IncidentFrame, OnLocStatus, RecoveryFrame, OnCloudMoveCmd,
      UndockFrame, OnCameraHwException, OnShmError, FaultFrame, SlipDetected, SlipIsOver,
      headingVars
<1>7. CASE Timer \/ UndockTimePasses \/ OnChargerPoseRead
  BY <1>7
  DEF Timer, UndockTick, UndockFrame, CpuOverheats, FaultFrame, LocalizationIsLow,
      RecoveryFrame, UndockTimePasses, OnChargerPoseRead, headingVars
<1>8. CASE UNCHANGED vars
  BY <1>8 DEF vars, headingVars
<1> QED
  BY <1>1, <1>2, <1>3, <1>4, <1>5, <1>6, <1>7, <1>8 DEF Next, ClientCallback

\* A heading discovery that has begun is carried on, for any number of reverse moves that
\* are answered late, and whatever contact and docking results start or stop meanwhile.
THEOREM HeadingIsCarriedOn == Spec => []HeadingGoesOn
<1>1. Init => HeadingGoesOn
  BY DEF Init, HeadingGoesOn
<1>2. ASSUME TypeOK, HeadingGoesOn, [Next]_vars
      PROVE  HeadingGoesOn'
  <2> USE <1>2 DEF TypeOK, HeadingTyped, HeadingGoesOn
  <2>1. CASE StartHeadingDiscovery
    BY <2>1, ReadsBound DEF StartHeadingDiscovery
  <2>2. ASSUME NEW r, DetectionStopsHeading(r) PROVE HeadingGoesOn'
    BY <2>2 DEF DetectionStopsHeading
  <2>3. CASE UNCHANGED <<heading_phase, heading_timer, free_moves>>
    BY <2>3
  <2>4. CASE OnFreeMoveDone
    BY <2>4 DEF OnFreeMoveDone
  <2>5. CASE HeadingDiscoveryTick
    BY <2>5
    DEF HeadingDiscoveryTick, HeadingAborts, HeadingSpins, HeadingDocks, HeadingStops
  <2>6. CASE BootTick
    BY <2>1, <2>2, <2>3, <2>6
    DEF BootTick, BootEnters, BootWaits, BootInitsMower, BootSucceeds, BootStays,
        headingVars
  <2>7. ASSUME NEW g \in GoalIds, ChargingLacksTransform(g) PROVE HeadingGoesOn'
    BY <2>1, <2>3, <2>7 DEF ChargingLacksTransform
  <2>8. ASSUME NEW r \in Readings, OnBattery(r) PROVE HeadingGoesOn'
    BY <2>2, <2>8 DEF OnBattery, BatteryDetects
  <2> QED
    BY <2>3, <2>4, <2>5, <2>6, <2>7, <2>8, HeadingUntouched
<1> QED
  BY <1>1, <1>2, TypeCorrect, PTL DEF Spec

=============================================================================
