SPECIFICATION Spec
CONSTANTS
    Main = main
    NoGoal = NoGoal
    GoalIds = {g1}
    Workers = {w1}
    Events = {"auto_recharge", "cancel_task", "battery", "joystick", "incident"}
    CovKinds = {"full"}
    Incidents = {{}, {"charge_stop"}}
    Readings <- ContactReadings
    MaxReads = 1
    FirstPhase = "INIT_SUCCESS"
INVARIANTS ChargingMeansOnCharger 
