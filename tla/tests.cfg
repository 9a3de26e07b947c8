SPECIFICATION Spec
CONSTANTS
  Wash = Wash
  Quick = Quick
  Line = Line
  Drain = Drain
  UserCycles = {Wash}
  TestCycles = {Line}
  CancelCycle = Drain
  NoCycle = NoCycle
  Off = Off
  BadCycle = BadCycle
  Pausable = {Wash, Line}
  JumpTargets <- NoJumps
  ColdResetBehavior <- AllCancel
  TicksPerSecond = 2
  StartRequests = {"start", "reset", "pause"}
  SelectorRequests = {Wash, BadCycle}
  DelayRequests = {}
  AdvanceRequests = {}
  Environment = {"door", "test", "disengage", "cartridge", "cold_reset"}
  LifeTest = FALSE
  RapidAdvance = FALSE
  None = None
INVARIANTS Coherent
PROPERTIES KeepsLifecycle
