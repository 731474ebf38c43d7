SPECIFICATION Spec
CONSTANTS
    Main = main
    NoGoal = NoGoal
    GoalIds = {g1}
    Workers = {w1}
    Events = {"start_cov_task", "cancel_task"}
    CovKinds = {"full"}
    Incidents = {{}}
    Readings <- LowReadings
    MaxReads = 1
    FirstPhase = "DONE"
INVARIANT CancelledMeansStopped
