SPECIFICATION FairSpec
CONSTANTS
    Main = main
    NoGoal = NoGoal
    GoalIds = {g1}
    Workers = {w1}
    Events = {"loc", "battery"}
    CovKinds = {"full"}
    Incidents = {{}}
    Readings <- ContactReadings
    MaxReads = 1
    FirstPhase = "SYSTEM_CHECK_INIT"
\* Nothing has to happen once the mower is docked or given up.
CHECK_DEADLOCK FALSE
PROPERTIES DockingSettles RechargeIsDecided
