SPECIFICATION FairSpec
CONSTANTS
    QueueLen = 1
    AckPolls = 1
    StatusEvery = 1
    HeartbeatTicks = 1
    MaxSamples = 4
    Threshold = 5
    Readings = {4, 5}
    LoraRequests <- AppRequests
    Lora0 <- Zero
    FirstNvs <- AnyStorage
    LostLimit = 1
    None = None
    Inputs <- ProvisionInputs
    InputTotal = 2
    AirLen = 1
    MissCap = 0
INVARIANTS ScanStaysInBand RadioFollowsConfig
PROPERTIES ScanEnds  CommitIsTakenUp
