\* Any sequence of boots, stores, failed writes, brown-outs and losses of power.
SPECIFICATION FairSpec
CONSTANTS
    Values = {0, 1}
    Firmwares = {1, 2}
    RecoverTicks = 2
    MaxCounter = 2
    MaxFaults = 1
INVARIANT TypeOK
PROPERTIES
    OkayIsLastStore
    OkayMeansNothingRanSince
    KeepsData
    LastCopySurvives
    RecoveryResets
    ForcedCorruption
    BrownOutIsStored
