\* The address of a repetition is damaged after its first answer is lost.
SPECIFICATION Spec
CONSTANTS
    Nodes = {1, 2}
    Broadcast = 15
    PcNode = 14
    None = None
    CounterLimit = 2
    Retries = 1
    CollisionRetries = 1
    MaxNumMessages = 2
    IdleTime = 3
    NodeTime <- Times
    NodeMaxTime = 5
    PowerUpTime = 0
    HoldingTime = 8
    ParserTimeout = 4
    BytesAtOnce = 5
    BytesPerMs = 4
    Faults = {"lose", "misaddress"}
    MaxFaults = 2
    Destinations = {1, 2, 15, 14}
    MaxMessages <- TwoAndNone
    MaxFaultsInCalls = 0
PROPERTY RepeatedIsNotParsed
