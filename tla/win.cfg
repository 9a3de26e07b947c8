\* Two nodes: any loss, damage or delay of bytes and any restart.
SPECIFICATION FairSpec
CONSTANTS
    Nodes = {1, 2}
    Broadcast = 15
    PcNode = 14
    None = None
    CounterLimit = 2
    Retries = 1
    CollisionRetries = 1
    MaxNumMessages = 2
    IdleTime = 3
    NodeTime <- Times
    NodeMaxTime = 5
    PowerUpTime = 0
    HoldingTime = 7
    ParserTimeout = 6
    BytesAtOnce = 5
    BytesPerMs = 5
    Faults = {"lose", "noise", "skip", "restart"}
    MaxFaults = 1
    Destinations = {1, 2, 15}
    MaxMessages <- TwoAndOne
    MaxFaultsInCalls = 0
INVARIANTS
    TypeOK
    TxBufferKept
    RxBufferKept
    ContentionReleased
PROPERTIES
    KeepsService
    DeliversInOrder
    MessageEnds
