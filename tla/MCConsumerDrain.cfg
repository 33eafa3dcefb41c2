CONSTANTS
    c1 = c1
    c2 = c2
    m1 = m1
    m2 = m2
    m3 = m3
    None = None
    Consumers <- MCOneConsumer
    Msgs <- MCOneMsg
    Kind <- MCOneKind
    Slots = {1}
    RetryTimes = 1
    PullBatch = 1
    AckBatch = 1
    MaxDeliveries = 2
    MaxCrashes = 0
SPECIFICATION FairSpec
PROPERTY AckBufferDrains
CHECK_DEADLOCK FALSE
