SPECIFICATION Spec
CONSTANTS
    Main = main
    NoGoal = NoGoal
    GoalIds = {g1, g2}
    Workers = {w1, w2}
    Events = {"start_cov_task", "resume_task", "stop_task", "cancel_task", "reset_data", "joystick", "incident", "shm_error"}
    CovKinds = {"full"}
    Incidents = {{}, {"charge_stop"}, {"critical"}}
    Readings <- LowReadings
    MaxReads = 1
    FirstPhase = "DONE"
SYMMETRY Symmetry
INVARIANTS TypeOK CoverHasWork UndockIsAwaited
