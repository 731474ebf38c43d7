------------------------ MODULE ActionClients_proofs -------------------------
(***************************************************************************)
(* The decision node implements ActionClients, and every handle it keeps   *)
(* is that of a goal its action server still works on.                     *)
(***************************************************************************)
EXTENDS DecisionTypes_proofs

GoalStep == [Goals!Next]_<<goal, handle>>

-----------------------------------------------------------------------------
(* The steps of the protocol, as the handlers take them *)

\* A goal leaves.
LEMMA SendStep ==
    ASSUME NEW c \in Clients, NEW g \in GoalIds \ Live(c),
           goal' = Put(goal, c, g, "sent"), UNCHANGED handle
    PROVE  GoalStep
<1>1. Goals!Send(c, g)
  BY DEF Goals!Send, Goals!Set, Put, Live
<1>2. QED
  BY <1>1 DEF GoalStep, Goals!Next

\* The server accepts.
LEMMA AcceptStep ==
    ASSUME NEW c \in Clients, NEW g \in GoalIds, goal[c][g] = "sent",
           goal' = Put(goal, c, g, "running"), handle' = [handle EXCEPT ![c] = g]
    PROVE  GoalStep
<1>1. Goals!Accept(c, g)
  BY DEF Goals!Accept, Goals!Set, Put
<1>2. QED
  BY <1>1 DEF GoalStep, Goals!Next

\* The server refuses, or the goal ends; the node may send another client's goal.
LEMMA OverStep ==
    ASSUME TypeOK, NEW c \in Clients, NEW g \in GoalIds,
           \/ goal' = Put(goal, c, g, "free")
           \/ \E d \in Clients \ {c} : \E h \in GoalIds \ Live(d) :
                  goal' = Put(Put(goal, c, g, "free"), d, h, "sent"),
           \/ goal[c][g] = "sent" /\ UNCHANGED handle
           \/ goal[c][g] \in {"running", "canceling"} /\ handle' = Dropped({c})
    PROVE  GoalStep
<1> DEFINE left == Goals!Set(goal, c, g, "free")
<1>1. Goals!GoesOn(left, c)
  <2>1. CASE goal' = Put(goal, c, g, "free")
    BY <2>1 DEF Goals!GoesOn, Goals!Set, Put
  <2>2. ASSUME NEW d \in Clients \ {c}, NEW h \in GoalIds \ Live(d),
               goal' = Put(Put(goal, c, g, "free"), d, h, "sent")
        PROVE  Goals!GoesOn(left, c)
    <3>1. goal[d][h] = "free"
      BY DEF Live
    <3>2. left[d][h] = "free"
      BY <3>1 DEF Goals!Set, TypeOK, GoalsTyped, GoalTables
    <3>3. goal' = Goals!Set(left, d, h, "sent")
      BY <2>2 DEF Goals!Set, Put
    <3>4. QED
      BY <3>2, <3>3 DEF Goals!GoesOn
  <2>3. QED
    BY <2>1, <2>2
<1>2. CASE goal[c][g] = "sent" /\ UNCHANGED handle
  <2>1. Goals!Refuse(c, g)
    BY <1>1, <1>2 DEF Goals!Refuse
  <2>2. QED
    BY <2>1 DEF GoalStep, Goals!Next
<1>3. CASE goal[c][g] \in {"running", "canceling"} /\ handle' = Dropped({c})
  <2>1. handle' = [handle EXCEPT ![c] = NoGoal]
    BY <1>3 DEF Dropped, TypeOK, GoalsTyped, HandleTables
  <2>2. Goals!End(c, g)
    BY <1>1, <1>3, <2>1 DEF Goals!End
  <2>3. QED
    BY <2>2 DEF GoalStep, Goals!Next
<1>4. QED
  BY <1>2, <1>3

\* Goals with a handle are asked to cancel.
LEMMA CancelStep ==
    ASSUME TypeOK, NEW cs \in SUBSET Clients, NEW ds \in SUBSET cs,
           goal' = Cancelled(goal, cs), handle' = Dropped(ds)
    PROVE  GoalStep
<1>1. goal' \in GoalTables /\ handle' \in HandleTables
  BY CancelledTyped, DroppedTyped DEF TypeOK, GoalsTyped
<1>2. ASSUME NEW c \in Clients
      PROVE  \/ Goals!CancelOne(c)
             \/ goal'[c] = goal[c] /\ handle'[c] = handle[c]
  BY DEF Goals!CancelOne, Cancelled, Dropped
<1>3. Goals!Cancel
  BY <1>1, <1>2
  DEF Goals!Cancel, GoalTables, HandleTables, Goals!GoalTables, Goals!HandleTables,
      GoalStates
<1>4. QED
  BY <1>3 DEF GoalStep, Goals!Next

\* _cancel_active_actions.
LEMMA StopActionsStep ==
    ASSUME TypeOK, StopActions
    PROVE  GoalStep
BY CancelStep DEF StopActions, Cancellable, Clients

-----------------------------------------------------------------------------
(* Every step of the node *)

\* A handler that waits goes on.
LEMMA ThreadGoals ==
    ASSUME TypeOK, NEW t \in Threads, ThreadStep(t)
    PROVE  GoalStep
<1>1. CASE UndockWaitEnds(t)
  BY <1>1
  DEF UndockWaitEnds, CovUndocked, MapUndocked, AssistantUndocked, MappingFrame,
      GoalStep, goalVars
<1>2. CASE CovMapLoaded(t)
  BY <1>2, SendStep
  DEF CovMapLoaded, CovMapFails, CovLacksPolygon, CovStarts, Clients, GoalStep
<1>3. CASE RecordingStarts(t) \/ MapGenerated(t) \/ MapDeleted(t) \/ Erased(t)
  BY <1>3
  DEF RecordingStarts, MapGenerated, MapDeleted, Erased, MappingFrame, GoalStep,
      goalVars
<1>4. CASE FollowStarts(t) \/ NoPerceptionData(t)
  BY <1>4
  DEF FollowStarts, NoPerceptionData, GoalStep
<1>5. CASE PerceptionData(t)
  BY <1>5, SendStep
  DEF PerceptionData, Clients, GoalStep
<1> QED
  BY <1>1, <1>2, <1>3, <1>4, <1>5
  DEF ThreadStep

\* A service is called.
LEMMA ServiceGoals ==
    ASSUME TypeOK, Service \/ \E w \in Workers : BlockingService(w)
    PROVE  GoalStep
<1>1. ASSUME NEW w \in Workers, BlockingService(w) PROVE GoalStep
  BY <1>1
  DEF BlockingService, HandleStartCovTask, HandleResumeTask, HandleStartMapping,
      HandleAddArea, HandleSaveMap, HandleDeleteMap, HandleStartErase,
      HandleStartAssistant, MappingFrame, GoalStep, goalVars
<1>2. CASE HandleStopTask \/ HandleCancelTask \/ HandleResetData
  BY <1>2, StopActionsStep
  DEF HandleStopTask, HandleCancelTask, HandleResetData, StopsEverything,
      CancelActiveActions, GoalStep
<1>3. CASE HandleAutoRecharge
  BY <1>3
  DEF HandleAutoRecharge, GoalStep
<1>4. CASE HandleNavToRecharge
  BY <1>4, SendStep
  DEF HandleNavToRecharge, SendNavGoal, StartAutoCharging, Clients, GoalStep
<1>5. CASE HandleCancelRecharge
  BY <1>5, CancelStep
  DEF HandleCancelRecharge, Clients, GoalStep
<1>6. CASE HandleMapStopRecord \/ HandleResetMapping \/ HandleQuitMapping \/ HandleSaveChargingPose
  BY <1>6
  DEF HandleMapStopRecord, HandleResetMapping, HandleQuitMapping,
      HandleSaveChargingPose, MappingFrame, GoalStep, goalVars
<1> QED
  BY <1>1, <1>2, <1>3, <1>4, <1>5, <1>6
  DEF Service

\* An action server answers a goal.
LEMMA ResponseGoals ==
    ASSUME TypeOK, NEW g \in GoalIds, GoalResponse(g)
    PROVE  GoalStep
<1>1. CASE CoverageAccepted(g) \/ CoverageRefused(g)
  BY <1>1, AcceptStep, OverStep
  DEF CoverageAccepted, CoverageRefused, Clients, GoalStep
<1>2. CASE BoundaryAccepted(g) \/ BoundaryRefused(g)
  BY <1>2, AcceptStep, OverStep
  DEF BoundaryAccepted, BoundaryRefused, Clients, GoalStep
<1>3. CASE NavAccepted(g)
  BY <1>3, AcceptStep
  DEF NavAccepted, Clients, GoalStep
<1>4. CASE NavRefused(g)
  BY <1>4, OverStep
  DEF NavRefused, ThenAutoCharging, Clients, GoalStep
<1>5. CASE ChargingAccepted(g) \/ ChargingRefused(g)
  BY <1>5, AcceptStep, OverStep
  DEF ChargingAccepted, ChargingRefused, Clients, GoalStep
<1>6. ASSUME NEW c \in {"slip", "loc_recover"}, RecoveryAccepted(c, g) PROVE GoalStep
  BY <1>6, AcceptStep
  DEF RecoveryAccepted, Clients, GoalStep
<1> QED
  BY <1>1, <1>2, <1>3, <1>4, <1>5, <1>6
  DEF GoalResponse

\* A goal ends, or reports its progress.
LEMMA ResultGoals ==
    ASSUME TypeOK, NEW g \in GoalIds, GoalResult(g) \/ CoverageFeedback(g)
    PROVE  GoalStep
<1>1. CASE CoverageFeedback(g)
  BY <1>1
  DEF CoverageFeedback, GoalStep
<1>2. CASE CoverageResult(g)
  BY <1>2, OverStep
  DEF CoverageResult, Clients, GoalStep
<1>3. CASE NavResult(g)
  BY <1>3, OverStep
  DEF NavResult, ThenAutoCharging, Clients, GoalStep
<1>4. CASE ChargingResult(g)
  BY <1>4, OverStep
  DEF ChargingSucceeds, ChargingStops, ChargingLacksTransform, ChargingEnds, Clients,
      GoalStep, ChargingResult
<1>5. CASE BoundaryStops(g)
  BY <1>5, OverStep
  DEF BoundaryStops, BoundaryEnds, Clients, GoalStep
<1>6. ASSUME NEW w \in Workers, BoundaryCloses(g, w) PROVE GoalStep
  BY <1>6, OverStep
  DEF BoundaryCloses, BoundaryEnds, Clients, GoalStep
<1>7. ASSUME NEW c \in {"slip", "loc_recover"}, RecoveryResult(c, g) PROVE GoalStep
  BY <1>7, OverStep
  DEF RecoveryResult, Clients, GoalStep
<1> QED
  BY <1>1, <1>2, <1>3, <1>4, <1>5, <1>6, <1>7
  DEF GoalResult

\* A message arrives.
LEMMA SubscriptionGoals ==
    ASSUME TypeOK, Subscription
    PROVE  GoalStep
<1>1. ASSUME NEW r \in Readings, OnBattery(r) PROVE GoalStep
  BY <1>1, StopActionsStep
  DEF OnBattery, BatteryOrdinary, BatteryRecallsCoverage, BatteryRecallsIdle,
      BatteryResumes, CancelActiveActions, GoalStep, goalVars
<1>2. ASSUME NEW F \in Incidents, OnIncident(F) PROVE GoalStep
  BY <1>2, StopActionsStep
  DEF OnIncident, IncidentReported, IncidentCleared, IncidentIsNoted,
      IncidentCancelsTask, IncidentMarksTask, CancelActiveActions, GoalStep
<1>3. CASE OnCloudMoveCmd
  BY <1>3
  DEF OnCloudMoveCmd, UndockFrame, GoalStep, goalVars
<1>4. CASE OnLocStatus \/ OnCameraHwException \/ OnShmError \/ SlipIsOver
  BY <1>4
  DEF OnLocStatus, OnCameraHwException, OnShmError, SlipIsOver, GoalStep
<1>5. CASE SlipDetected
  BY <1>5, SendStep
  DEF SlipDetected, SendRecovery, Clients, GoalStep
<1> QED
  BY <1>1, <1>2, <1>3, <1>4, <1>5
  DEF Subscription

\* A timer fires, time passes, a call of the recharge chain returns.
LEMMA TimerGoals ==
    ASSUME TypeOK, Timer \/ UndockTimePasses \/ OnChargerPoseRead \/ OnFreeMoveDone
    PROVE  GoalStep
<1>1. CASE BootTick
  BY <1>1
  DEF BootEnters, BootWaits, BootInitsMower, BootSucceeds, BootStays, BootFrame,
      GoalStep, BootTick
<1>2. CASE UndockTick \/ UndockTimePasses
  BY <1>2
  DEF UndockTick, UndockTimePasses, UndockFrame, GoalStep, goalVars
<1>3. CASE HeadingDiscoveryTick
  BY <1>3
  DEF HeadingDiscoveryTick, HeadingAborts, HeadingSpins, HeadingDocks, GoalStep,
      goalVars
<1>4. CASE CpuOverheats
  BY <1>4, StopActionsStep
  DEF CpuOverheats, CancelActiveActions, FaultFrame, GoalStep
<1>5. CASE LocalizationIsLow
  BY <1>5, SendStep
  DEF LocalizationIsLow, SendRecovery, Clients, GoalStep
<1>6. CASE OnChargerPoseRead
  BY <1>6, SendStep
  DEF OnChargerPoseRead, SendNavGoal, StartAutoCharging, Clients, GoalStep
<1>7. CASE OnFreeMoveDone
  BY <1>7
  DEF OnFreeMoveDone, GoalStep, goalVars
<1> QED
  BY <1>1, <1>2, <1>3, <1>4, <1>5, <1>6, <1>7
  DEF Timer

\* Every step of the node is a step of the protocol, or leaves the goals alone.
LEMMA NextGoals == TypeOK /\ [Next]_vars => GoalStep
<1> SUFFICES ASSUME TypeOK, [Next]_vars PROVE GoalStep
  OBVIOUS
<1>1. ASSUME NEW t \in Threads, ThreadStep(t) PROVE GoalStep
  BY <1>1, ThreadGoals
<1>2. CASE Service \/ \E w \in Workers : BlockingService(w)
  BY <1>2, ServiceGoals
<1>3. ASSUME NEW g \in GoalIds, GoalResponse(g) PROVE GoalStep
  BY <1>3, ResponseGoals
<1>4. ASSUME NEW g \in GoalIds, GoalResult(g) \/ CoverageFeedback(g) PROVE GoalStep
  BY <1>4, ResultGoals
<1>5. CASE Subscription
  BY <1>5, SubscriptionGoals
<1>6. CASE Timer \/ UndockTimePasses \/ OnChargerPoseRead \/ OnFreeMoveDone
  BY <1>6, TimerGoals
<1>7. CASE UNCHANGED vars
  BY <1>7 DEF vars, goalVars, GoalStep
<1>8. QED
  BY <1>1, <1>2, <1>3, <1>4, <1>5, <1>6, <1>7 DEF Next, ClientCallback

-----------------------------------------------------------------------------
(* The theorems *)

\* Whatever commands, answers and messages arrive, the node only takes the steps of
\* the action-client protocol: no handler sets a handle but from an answer, ends a
\* goal that has not ended, or cancels one it holds no handle of.
THEOREM ClientsImplemented == Spec => ClientsKeepProtocol
<1>1. Init => Goals!Init
  BY DEF Init, Goals!Init
<1>2. TypeOK /\ [Next]_vars => [Goals!Next]_<<goal, handle>>
  BY NextGoals DEF GoalStep
<1>3. QED
  BY <1>1, <1>2, TypeCorrect, PTL DEF Spec, ClientsKeepProtocol, Goals!Spec

\* Going on to another goal disturbs none that was sent before.
LEMMA GoesOnKeeps ==
    ASSUME goal \in GoalTables, NEW c \in Clients, NEW g \in GoalIds,
           Goals!GoesOn(Goals!Set(goal, c, g, "free"), c),
           NEW d \in Clients, NEW h \in GoalIds,
           Goals!Set(goal, c, g, "free")[d][h] \in {"running", "canceling"}
    PROVE  goal'[d][h] \in {"running", "canceling"}
BY DEF GoalTables, Goals!GoesOn, Goals!Set

\* The protocol keeps every handle live.
LEMMA ProtocolKeepsHandles ==
    ASSUME TypeOK, TypeOK', HandleIsLive, GoalStep
    PROVE  HandleIsLive'
<1> SUFFICES ASSUME NEW d \in Clients, handle'[d] # NoGoal
             PROVE  goal'[d][handle'[d]] \in {"running", "canceling"}
  BY DEF HandleIsLive
<1> USE NoGoalIsNoGoal DEF TypeOK, GoalsTyped, GoalTables, HandleTables, HandleIsLive,
        Goals!Set
<1>1. ASSUME NEW c \in Clients, NEW g \in GoalIds, Goals!Send(c, g)
      PROVE  goal'[d][handle'[d]] \in {"running", "canceling"}
  BY <1>1 DEF Goals!Send
<1>2. ASSUME NEW c \in Clients, NEW g \in GoalIds, Goals!Accept(c, g)
      PROVE  goal'[d][handle'[d]] \in {"running", "canceling"}
  BY <1>2 DEF Goals!Accept
<1>3. ASSUME NEW c \in Clients, NEW g \in GoalIds, Goals!Refuse(c, g)
      PROVE  goal'[d][handle'[d]] \in {"running", "canceling"}
  <2>1. handle'[d] = handle[d] /\ goal[d][handle[d]] \in {"running", "canceling"}
    BY <1>3 DEF Goals!Refuse
  <2>2. Goals!Set(goal, c, g, "free")[d][handle[d]] \in {"running", "canceling"}
    BY <1>3, <2>1 DEF Goals!Refuse
  <2>3. QED
    BY <1>3, <2>1, <2>2, GoesOnKeeps DEF Goals!Refuse
<1>4. ASSUME NEW c \in Clients, NEW g \in GoalIds, Goals!End(c, g)
      PROVE  goal'[d][handle'[d]] \in {"running", "canceling"}
  <2>1. handle'[d] = handle[d] /\ d # c /\ goal[d][handle[d]] \in {"running", "canceling"}
    BY <1>4 DEF Goals!End
  <2>2. Goals!Set(goal, c, g, "free")[d][handle[d]] \in {"running", "canceling"}
    BY <2>1
  <2>3. QED
    BY <1>4, <2>1, <2>2, GoesOnKeeps DEF Goals!End
<1>5. CASE Goals!Cancel
  BY <1>5 DEF Goals!Cancel, Goals!CancelOne
<1>6. CASE UNCHANGED <<goal, handle>>
  BY <1>6
<1>7. QED
  BY <1>1, <1>2, <1>3, <1>4, <1>5, <1>6 DEF GoalStep, Goals!Next

\* A handle the node keeps is that of a goal the server works on: the guards that
\* read "a handle is there" as "a task runs" never meet the handle of an ended goal.
THEOREM HandlesAreLive == Spec => []HandleIsLive
<1>1. Init => HandleIsLive
  BY DEF Init, HandleIsLive
<1>2. TypeOK /\ TypeOK' /\ HandleIsLive /\ [Next]_vars => HandleIsLive'
  BY NextGoals, ProtocolKeepsHandles
<1>3. QED
  BY <1>1, <1>2, TypeCorrect, PTL DEF Spec

=============================================================================
