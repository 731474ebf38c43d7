SPECIFICATION Spec
CONSTANTS
    Main = main
    NoGoal = NoGoal
    GoalIds = {g1}
    Workers = {w1}
    Events = {"start_cov_task", "battery"}
    CovKinds = {"full"}
    Incidents = {{}}
    Readings <- OnlyLowReadings
    MaxReads = 1
    FirstPhase = "DONE"
INVARIANTS RechargeNeverStalls 
