SPECIFICATION Spec
CONSTANTS
    Main = main
    NoGoal = NoGoal
    GoalIds = {g1}
    Workers = {w1}
    Events = {"start_cov_task", "start_mapping", "cancel_task", "incident", "slip", "loc", "overheat", "camera_fault"}
    CovKinds = {"full"}
    Incidents = {{}, {"critical"}, {"stall"}, {"imu"}, {"lora"}, {"rtk"}, {"critical", "stall"}}
    Readings <- LowReadings
    MaxReads = 1
    FirstPhase = "DONE"
INVARIANT CoverHasWork
PROPERTIES  ClientsKeepProtocol
