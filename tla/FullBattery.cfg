SPECIFICATION FairSpec
CONSTANTS
    Main = main
    NoGoal = NoGoal
    GoalIds = {g1}
    Workers = {w1}
    Events = {"start_cov_task", "cancel_task", "joystick", "battery", "incident"}
    CovKinds = {"full"}
    Incidents = {{}, {"charge_stop"}}
    Readings <- FullReadings
    MaxReads = 1
    FirstPhase = "DONE"
PROPERTIES UndockEnds RequestsAreAnswered UndockRunsOnce
