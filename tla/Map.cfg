SPECIFICATION FairSpec
CONSTANTS
    Main = main
    NoGoal = NoGoal
    GoalIds = {g1}
    Workers = {w1}
    Events = {"start_mapping", "add_area", "reset_mapping", "map_stop_record", "quit_mapping", "save_map", "delete_map", "start_erase", "save_charging_pose", "start_assistant", "cancel_task", "incident"}
    CovKinds = {"full"}
    Incidents = {{}, {"charge_stop"}}
    Readings <- LowReadings
    MaxReads = 1
    FirstPhase = "DONE"
INVARIANTS UndockIsAwaited StatusIsUnderWay
PROPERTIES RequestsAreAnswered ClientsKeepProtocol
