\* A small setting file: two cycles, two sub-cycles, a drain.
SPECIFICATION Spec
CONSTANTS
    Program <- SmallProgram
    MainCycles = {4, 5}
    SubCycles <- ByPriority
    CancelCycle = 6
    PauseMacro = 1
    EndMacro = 2
    FaultMacro = 3
    Conditional = {1}
    Forward = 255
    Backward = 254
    ResumePriority = 2
    Pausable = {4, 6}
    ColdResetBehavior <- Asked
    MaxSteps = 2
    PhaseRequests = {0, 254, 255}
    StepRequests = {1, 254, 255}
INVARIANTS
    TypeOK
    NoSettingFileError
    ResumeDataStacked
    PauseAsksMainCycle
    AdvancesFromHere
PROPERTIES
    StepsAreTold
    OnlyHigherPreempts
    RequestIsAnswered
    MainCycleKept
