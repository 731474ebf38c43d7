SPECIFICATION FairSpec
CONSTANTS
    QueueLen = 1
    AckPolls = 1
    StatusEvery = 1
    HeartbeatTicks = 1
    MaxSamples = 2
    Threshold = 5
    Readings = {5}
    LoraRequests <- AppRequests
    Lora0 <- Zero
    FirstNvs <- Provisioned
    LostLimit = 1
    None = None
    Inputs <- RelayInputs
    InputTotal = 2
    AirLen = 1
    MissCap = 2
INVARIANTS TypeOK
PROPERTIES RelayKeepsPromise OrdersRunInSequence CommandIsNotOverwritten SilenceIsReported
