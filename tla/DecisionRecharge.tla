--------------------------- MODULE DecisionRecharge ---------------------------
(***************************************************************************)
(* The recharge chain of robot_decision.py: read the charger pose,         *)
(* navigate to it, dock with the AutoCharging action; heading discovery,   *)
(* which the chain falls back on when the map frame is missing; and the    *)
(* services that start and cancel it.                                      *)
(***************************************************************************)
EXTENDS DecisionState

\* start_recharge up to the asynchronous read of the charger pose.
StartRecharge ==
    /\ SetStateR("RECHARGING", "RETURN_TO_PILE", "NAVIGATING")
    /\ pose_reads < MaxReads
    /\ pose_reads' = pose_reads + 1

\* The action server does not answer, or the docking goal is sent.
StartAutoCharging ==
    \/ /\ SetStateR("FREE", "FAILED_ONCE", "FAILED")
       /\ UNCHANGED goal
    \/ /\ SetStateR("RECHARGING", "ALIGN_PILE", "DOCKING")
       /\ \E g \in GoalIds \ Live("charging") :
              goal' = Put(goal, "charging", g, "sent")

SendNavGoal ==
    \E g \in GoalIds \ Live("nav") : goal' = Put(goal, "nav", g, "sent")

NoThread == UNCHANGED <<chargerVars, undockVars, taskVars, envVars, threadVars>>

-----------------------------------------------------------------------------
(* The services *)

HandleAutoRecharge ==
    /\ "auto_recharge" \in Events
    /\ task_mode # "CHARGING"
    /\ StartRecharge
    /\ UNCHANGED <<goal, handle, headingVars>>
    /\ NoThread

\* nav_to_recharge without a guide pose reads the saved one; with one it goes
\* to the navigation at once.
HandleNavToRecharge ==
    /\ "nav_to_recharge" \in Events
    /\ task_mode \notin {"CHARGING", "MAPPING"}
    /\ \/ StartRecharge /\ UNCHANGED goal
       \/ /\ SetStateR("RECHARGING", "RETURN_TO_PILE", "NAVIGATING")
          /\ SendNavGoal
          /\ UNCHANGED pose_reads
       \/ StartAutoCharging /\ UNCHANGED pose_reads
    /\ UNCHANGED <<handle, headingVars>>
    /\ NoThread

HandleCancelRecharge ==
    /\ "cancel_recharge" \in Events
    /\ goal' = Cancelled(goal, {"nav", "charging"})
    /\ handle' = Dropped({"nav", "charging"})
    /\ SetStateR("FREE", "CANCELLED", "IDLE")
    /\ UNCHANGED <<pose_reads, headingVars>>
    /\ NoThread

-----------------------------------------------------------------------------
(* The callbacks of the chain *)

\* _on_charger_pose_read: a pose leads to the navigation, none to docking.
OnChargerPoseRead ==
    /\ pose_reads > 0
    /\ pose_reads' = pose_reads - 1
    /\ \/ SendNavGoal /\ UNCHANGED modeVars
       \/ StartAutoCharging
    /\ UNCHANGED <<handle, headingVars>>
    /\ NoThread

NavAccepted(g) ==
    /\ goal["nav"][g] = "sent"
    /\ goal' = Put(goal, "nav", g, "running")
    /\ handle' = [handle EXCEPT !["nav"] = g]
    /\ UNCHANGED <<modeVars, pose_reads, headingVars>>
    /\ NoThread

\* Variant: the recharge status stays NAVIGATING.
ThenAutoChargingSilently(g) ==
    /\ SetState("RECHARGING", "ALIGN_PILE")
    /\ \E h \in GoalIds \ Live("charging") :
           goal' = Put(Put(goal, "nav", g, "free"), "charging", h, "sent")

\* The goal "nav" g has ended or was refused: dock, whatever the outcome.
ThenAutoCharging(g) ==
    \/ /\ SetStateR("FREE", "FAILED_ONCE", "FAILED")
       /\ goal' = Put(goal, "nav", g, "free")
    \/ /\ SetStateR("RECHARGING", "ALIGN_PILE", "DOCKING")
       /\ \E h \in GoalIds \ Live("charging") :
              goal' = Put(Put(goal, "nav", g, "free"), "charging", h, "sent")

\* Variant: a refused navigation is only logged.
NavRefusedIsDropped(g) ==
    /\ goal["nav"][g] = "sent"
    /\ goal' = Put(goal, "nav", g, "free")
    /\ UNCHANGED <<modeVars, handle, pose_reads, headingVars>>
    /\ NoThread

NavRefused(g) ==
    /\ goal["nav"][g] = "sent"
    /\ ThenAutoCharging(g)
    /\ UNCHANGED <<handle, pose_reads, headingVars>>
    /\ NoThread

\* Variant: the handle is kept.
NavResultKeepsHandle(g) ==
    /\ goal["nav"][g] \in {"running", "canceling"}
    /\ ThenAutoCharging(g)
    /\ UNCHANGED <<handle, pose_reads, headingVars>>
    /\ NoThread

NavResult(g) ==
    /\ goal["nav"][g] \in {"running", "canceling"}
    /\ handle' = Dropped({"nav"})
    /\ ThenAutoCharging(g)
    /\ UNCHANGED <<pose_reads, headingVars>>
    /\ NoThread

ChargingAccepted(g) ==
    /\ goal["charging"][g] = "sent"
    /\ goal' = Put(goal, "charging", g, "running")
    /\ handle' = [handle EXCEPT !["charging"] = g]
    /\ UNCHANGED <<modeVars, pose_reads, headingVars>>
    /\ NoThread

\* Variant: the refused docking leaves the mode alone.
ChargingRefusedIsDropped(g) ==
    /\ goal["charging"][g] = "sent"
    /\ goal' = Put(goal, "charging", g, "free")
    /\ UNCHANGED <<modeVars, handle, pose_reads, headingVars>>
    /\ NoThread

ChargingRefused(g) ==
    /\ goal["charging"][g] = "sent"
    /\ goal' = Put(goal, "charging", g, "free")
    /\ SetStateR("FREE", "FAILED_ONCE", "FAILED")
    /\ UNCHANGED <<handle, pose_reads, headingVars>>
    /\ NoThread

\* _start_heading_discovery: ask for a reverse move, or without that service
\* drive forward at once.
StartHeadingDiscovery ==
    \/ /\ heading_phase' = "free_move_pending"
       /\ free_moves < MaxReads
       /\ free_moves' = free_moves + 1
       /\ UNCHANGED heading_timer
    \/ /\ heading_phase' = "drive_off"
       /\ heading_timer' = TRUE
       /\ UNCHANGED free_moves

ChargingEnds(g) ==
    /\ goal["charging"][g] \in {"running", "canceling"}
    /\ goal' = Put(goal, "charging", g, "free")
    /\ handle' = Dropped({"charging"})
    /\ UNCHANGED pose_reads

\* Variant: only the mode says that the mower is docked.
ChargingSucceedsByMode(g) ==
    /\ ChargingEnds(g)
    /\ SetStateR("CHARGING", "INIT_SUCCESS", "CHARGING")
    /\ tf_recovery_attempts' = 0
    /\ UNCHANGED <<heading_phase, heading_timer, free_moves>>
    /\ NoThread

ChargingSucceeds(g) ==
    /\ ChargingEnds(g)
    /\ SetStateR("CHARGING", "INIT_SUCCESS", "CHARGING")
    /\ is_on_charger' = TRUE
    /\ tf_recovery_attempts' = 0
    /\ UNCHANGED <<heading_phase, heading_timer, free_moves, charge_stop,
                   charging_current, error_flags, undockVars, taskVars, envVars,
                   threadVars>>

ChargingStops(g) ==
    /\ ChargingEnds(g)
    /\ \/ SetStateR("FREE", "CANCELLED", "IDLE")
       \/ SetStateR("FREE", "FAILED_ONCE", "FAILED")
    /\ UNCHANGED headingVars
    /\ NoThread

\* Variant: the attempts are not counted.
ChargingRetriesForEver(g) ==
    /\ ChargingEnds(g)
    /\ SetState("FREE", "INIT_SUCCESS")
    /\ StartHeadingDiscovery
    /\ UNCHANGED tf_recovery_attempts
    /\ NoThread

\* TF_GETTING_FAILED: two heading discoveries, then a failure.
ChargingLacksTransform(g) ==
    /\ ChargingEnds(g)
    /\ \/ /\ tf_recovery_attempts + 1 <= 2
          /\ tf_recovery_attempts' = tf_recovery_attempts + 1
          /\ SetState("FREE", "INIT_SUCCESS")
          /\ StartHeadingDiscovery
       \/ /\ tf_recovery_attempts + 1 > 2
          /\ tf_recovery_attempts' = 0
          /\ SetStateR("FREE", "FAILED_ONCE", "FAILED")
          /\ UNCHANGED <<heading_phase, heading_timer, free_moves>>
    /\ NoThread

ChargingResult(g) ==
    \/ ChargingSucceeds(g)
    \/ ChargingStops(g)
    \/ ChargingLacksTransform(g)

-----------------------------------------------------------------------------
(* Heading discovery *)

\* _on_free_move_done, whatever the service said.
OnFreeMoveDone ==
    /\ free_moves > 0
    /\ free_moves' = free_moves - 1
    /\ heading_phase' = "spinning"
    /\ heading_timer' = TRUE
    /\ UNCHANGED <<tf_recovery_attempts, modeVars, goalVars>>
    /\ NoThread

HeadingAllowed == task_mode = "FREE" /\ ~is_on_charger

\* Variant: the phase outlives its timer.
HeadingStopsTimer ==
    /\ heading_timer' = FALSE
    /\ UNCHANGED <<heading_phase, free_moves, tf_recovery_attempts>>

HeadingStops ==
    /\ heading_timer' = FALSE
    /\ heading_phase' = "none"
    /\ UNCHANGED <<free_moves, tf_recovery_attempts>>

HeadingAborts ==
    /\ ~HeadingAllowed
    /\ HeadingStops
    /\ UNCHANGED <<modeVars, goalVars>>

\* Charger contact or the end of the drive-off time.
HeadingSpins ==
    /\ HeadingAllowed
    /\ heading_phase = "drive_off"
    /\ heading_phase' = "spinning"
    /\ UNCHANGED <<heading_timer, free_moves, tf_recovery_attempts, modeVars, goalVars>>

\* The heading is known or 60 s are over: dock.
HeadingDocks ==
    /\ HeadingAllowed
    /\ heading_phase = "spinning"
    /\ HeadingStops
    /\ StartRecharge
    /\ UNCHANGED <<goal, handle>>

HeadingDiscoveryTick ==
    /\ MainFree
    /\ heading_timer
    /\ HeadingAborts \/ HeadingSpins \/ HeadingDocks
    /\ NoThread

=============================================================================
