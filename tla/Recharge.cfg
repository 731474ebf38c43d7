SPECIFICATION Spec
CONSTANTS
    Main = main
    NoGoal = NoGoal
    GoalIds = {g1, g2}
    Workers = {w1}
    Events = {"auto_recharge", "nav_to_recharge", "cancel_recharge", "cancel_task", "battery"}
    CovKinds = {"full"}
    Incidents = {{}}
    Readings <- RechargeReadings
    MaxReads = 1
    FirstPhase = "INIT_SUCCESS"
SYMMETRY Symmetry
INVARIANTS HandleIsLive RechargeNeverStalls NavigatingIsUnderWay StatusIsUnderWay HeadingGoesOn
PROPERTY RechargeIsHandedOn
