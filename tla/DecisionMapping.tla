---------------------------- MODULE DecisionMapping ----------------------------
(***************************************************************************)
(* The mapping session: the recording, saving, erasing and deleting        *)
(* services of service_handlers.py, and the autonomous mapping that        *)
(* follows the boundary with an action of its own.                         *)
(***************************************************************************)
EXTENDS DecisionState

\* What only the mode, the recording flag and the control points change.
MappingFrame ==
    UNCHANGED <<chargerVars, undockVars, headingVars, goalVars, last_cov_request,
                low_battery_armed, cameras, slip_detected, envVars>>

Record(w) == Block(w, "map_record", "none")
Finish(w) == Block(w, "idle", "none")

-----------------------------------------------------------------------------
(* Manual mapping *)

HandleStartMapping(w) ==
    /\ "start_mapping" \in Events
    /\ pc[w] = "idle"
    /\ \/ /\ is_on_charger
          /\ RequestUndock(undocking, <<"MAPPING", "MANUAL_MAPPING_WORKING_ZONE">>)
          /\ Block(w, "map_undock", "none")
       \/ /\ ~is_on_charger
          /\ SetState("MAPPING", "MANUAL_MAPPING_WORKING_ZONE")
          /\ Record(w)
          /\ UNCHANGED undockVars
    /\ UNCHANGED <<chargerVars, headingVars, goalVars, taskVars, envVars>>

MapUndocked(w) ==
    /\ pc[w] = "map_undock"
    /\ UndockWaitOver
    /\ Record(w)
    /\ UNCHANGED <<modeVars, mapping_active>>
    /\ MappingFrame

\* _start_recording: the flag follows the answer.
RecordingStarts(w) ==
    /\ pc[w] = "map_record"
    /\ mapping_active' \in {mapping_active, TRUE}
    /\ Finish(w)
    /\ UNCHANGED modeVars
    /\ MappingFrame

HandleAddArea(w) ==
    /\ "add_area" \in Events
    /\ pc[w] = "idle"
    /\ mapping_active' = FALSE
    /\ \E s \in {"MANUAL_MAPPING_OBSTACLE", "MANUAL_MAPPING_UNICOM",
                 "MANUAL_MAPPING_UNICOM_TO_STATION"} : SetState("MAPPING", s)
    /\ Record(w)
    /\ MappingFrame

HandleMapStopRecord ==
    /\ "map_stop_record" \in Events
    /\ SetState("MAPPING", "MAPPING_STOP_RECORD")
    /\ mapping_active' = FALSE
    /\ UNCHANGED threadVars
    /\ MappingFrame

HandleResetMapping ==
    /\ "reset_mapping" \in Events
    /\ SetState("FREE", "INIT_SUCCESS")
    /\ mapping_active' = FALSE
    /\ UNCHANGED threadVars
    /\ MappingFrame

\* The recording goes on when the mode is not MAPPING.
HandleQuitMapping ==
    /\ "quit_mapping" \in Events
    /\ SetState("FREE", "INIT_SUCCESS")
    /\ mapping_active' = (mapping_active /\ task_mode # "MAPPING")
    /\ UNCHANGED threadVars
    /\ MappingFrame

-----------------------------------------------------------------------------
(* Maps *)

HandleSaveMap(w) ==
    /\ "save_map" \in Events
    /\ pc[w] = "idle"
    /\ SetState("MAPPING", "MAPPING_STOP_RECORD")
    /\ mapping_active' = FALSE
    /\ \E k \in {"sub_map", "whole_map"} : Block(w, "generate", k)
    /\ MappingFrame

\* Only a whole map that was saved ends the session; the boundary follow goes on
\* to the second map by itself and ends either way.
MapGenerated(w) ==
    /\ pc[w] = "generate"
    /\ \/ UNCHANGED modeVars /\ arg[w] # "boundary"
       \/ SetState("FREE", "INIT_SUCCESS") /\ arg[w] = "whole_map"
       \/ /\ arg[w] = "boundary"
          /\ \E s \in {"FINISHED_ONCE", "FAILED_ONCE"} : SetState("FREE", s)
    /\ Finish(w)
    /\ UNCHANGED mapping_active
    /\ MappingFrame

HandleDeleteMap(w) ==
    /\ "delete_map" \in Events
    /\ pc[w] = "idle"
    /\ SetState("MAPPING", "DELETE_MAP") \/ UNCHANGED modeVars
    /\ Block(w, "delete", "none")
    /\ UNCHANGED mapping_active
    /\ MappingFrame

\* Variant: the state is left to the next handler.
MapDeletedSilently(w) ==
    /\ pc[w] = "delete"
    /\ Finish(w)
    /\ UNCHANGED <<modeVars, mapping_active>>
    /\ MappingFrame

MapDeleted(w) ==
    /\ pc[w] = "delete"
    /\ SetState("FREE", "INIT_SUCCESS")
    /\ Finish(w)
    /\ UNCHANGED mapping_active
    /\ MappingFrame

HandleStartErase(w) ==
    /\ "start_erase" \in Events
    /\ pc[w] = "idle"
    /\ SetState("MAPPING", "AUTO_ERASE_MAPPING")
    /\ Block(w, "erase", "none")
    /\ UNCHANGED mapping_active
    /\ MappingFrame

Erased(w) ==
    /\ pc[w] = "erase"
    /\ \E s \in {"AUTO_ERASE_MAPPING_SUCCESS", "AUTO_ERASE_MAPPING_FAILED"} :
           SetState("MAPPING", s)
    /\ Finish(w)
    /\ UNCHANGED mapping_active
    /\ MappingFrame

\* The mode stays MAPPING.
HandleSaveChargingPose ==
    /\ "save_charging_pose" \in Events
    /\ SetState("MAPPING", "SETTING_CHARGING_STATION")
    /\ UNCHANGED <<mapping_active, threadVars>>
    /\ MappingFrame

-----------------------------------------------------------------------------
(* Autonomous mapping *)

FollowFrame ==
    UNCHANGED <<pose_reads, chargerVars, headingVars, last_cov_request,
                low_battery_armed, slip_detected, envVars>>

HandleStartAssistant(w) ==
    /\ "start_assistant" \in Events
    /\ pc[w] = "idle"
    /\ \/ /\ is_on_charger
          /\ RequestUndock(undocking, <<"MAPPING", "ASSISTANT_MAPPING_WORKING_ZONE">>)
          /\ Block(w, "asst_undock", "none")
       \/ /\ ~is_on_charger
          /\ SetState("MAPPING", "ASSISTANT_MAPPING_WORKING_ZONE")
          /\ Block(w, "asst_follow", "none")
          /\ UNCHANGED undockVars
    /\ UNCHANGED <<goal, handle, mapping_active, cameras>>
    /\ FollowFrame

AssistantUndocked(w) ==
    /\ pc[w] = "asst_undock"
    /\ UndockWaitOver
    /\ Goto(w, "asst_follow")
    /\ UNCHANGED <<modeVars, undockVars, goal, handle, mapping_active, cameras>>
    /\ FollowFrame

\* start_boundary_follow up to the wait for perception data: no server leaves the
\* mode alone; a charge contact that stays for 5 s fails the task.
FollowStarts(w) ==
    /\ pc[w] = "asst_follow"
    /\ \/ UNCHANGED <<modeVars, cameras>> /\ Finish(w)
       \/ /\ charge_stop
          /\ SetState("FREE", "FAILED_ONCE")
          /\ Finish(w)
          /\ UNCHANGED cameras
       \/ /\ ~charge_stop
          /\ cameras' = TRUE
          /\ Goto(w, "asst_perception")
          /\ UNCHANGED modeVars
    /\ UNCHANGED <<undockVars, goal, handle, mapping_active>>
    /\ FollowFrame

NoPerceptionData(w) ==
    /\ pc[w] = "asst_perception"
    /\ cameras' = FALSE
    /\ SetState("FREE", "FAILED_ONCE")
    /\ Finish(w)
    /\ UNCHANGED <<undockVars, goal, handle, mapping_active>>
    /\ FollowFrame

PerceptionData(w) ==
    /\ pc[w] = "asst_perception"
    /\ mapping_active' \in {mapping_active, TRUE}
    /\ \E g \in GoalIds \ Live("boundary") :
           goal' = Put(goal, "boundary", g, "sent")
    /\ Finish(w)
    /\ UNCHANGED <<modeVars, undockVars, handle, cameras>>
    /\ FollowFrame

BoundaryAccepted(g) ==
    /\ goal["boundary"][g] = "sent"
    /\ goal' = Put(goal, "boundary", g, "running")
    /\ handle' = [handle EXCEPT !["boundary"] = g]
    /\ UNCHANGED <<modeVars, undockVars, mapping_active, cameras, threadVars>>
    /\ FollowFrame

BoundaryRefused(g) ==
    /\ goal["boundary"][g] = "sent"
    /\ goal' = Put(goal, "boundary", g, "free")
    /\ SetState("MAPPING", "FAILED_ONCE")
    /\ UNCHANGED <<undockVars, handle, mapping_active, cameras, threadVars>>
    /\ FollowFrame

\* Variant: the handle is kept.
BoundaryEndsKeepsHandle(g) ==
    /\ goal["boundary"][g] \in {"running", "canceling"}
    /\ goal' = Put(goal, "boundary", g, "free")
    /\ cameras' = FALSE
    /\ mapping_active' = FALSE
    /\ UNCHANGED <<handle, undockVars>>
    /\ FollowFrame

BoundaryEnds(g) ==
    /\ goal["boundary"][g] \in {"running", "canceling"}
    /\ goal' = Put(goal, "boundary", g, "free")
    /\ handle' = Dropped({"boundary"})
    /\ cameras' = FALSE
    /\ mapping_active' = FALSE
    /\ UNCHANGED undockVars
    /\ FollowFrame

BoundaryStops(g) ==
    /\ BoundaryEnds(g)
    /\ \E s \in {"FAILED_ONCE", "CANCELLED"} : SetState("FREE", s)
    /\ UNCHANGED threadVars

\* LOOP_CLOSED: the result callback generates both maps before it returns.
BoundaryCloses(g, w) ==
    /\ BoundaryEnds(g)
    /\ pc[w] = "idle"
    /\ SetState("MAPPING", "MAPPING_STOP_RECORD")
    /\ Block(w, "generate", "boundary")

=============================================================================
