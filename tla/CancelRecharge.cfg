SPECIFICATION Spec
CONSTANTS
    Main = main
    NoGoal = NoGoal
    GoalIds = {g1}
    Workers = {w1}
    Events = {"auto_recharge", "cancel_recharge"}
    CovKinds = {"full"}
    Incidents = {{}}
    Readings <- LowReadings
    MaxReads = 1
    FirstPhase = "DONE"
PROPERTY CancelledRechargeStaysCancelled
