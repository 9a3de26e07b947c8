SPECIFICATION Spec
CONSTANTS
  Wash = Wash
  Quick = Quick
  Line = Line
  Drain = Drain
  UserCycles = {Wash, Quick}
  TestCycles = {}
  CancelCycle = Drain
  NoCycle = NoCycle
  Off = Off
  BadCycle = BadCycle
  Pausable = {Wash, Quick, Drain}
  JumpTargets <- WashJumps
  ColdResetBehavior <- MixedResets
  TicksPerSecond = 1
  StartRequests = {"start", "reset", "pause"}
  SelectorRequests = {Wash}
  DelayRequests = {1}
  AdvanceRequests = {}
  Environment = {"door", "fault", "prefault", "warm_reset", "cold_reset"}
  LifeTest = FALSE
  RapidAdvance = FALSE
  None = None
INVARIANTS Coherent
PROPERTIES KeepsLifecycle
