SPECIFICATION Spec
CONSTANTS
  Wash = Wash
  Quick = Quick
  Line = Line
  Drain = Drain
  UserCycles = {Wash}
  TestCycles = {}
  CancelCycle = Drain
  NoCycle = NoCycle
  Off = Off
  BadCycle = BadCycle
  Pausable = {Wash, Drain}
  JumpTargets <- NoJumps
  ColdResetBehavior <- AllCancel
  TicksPerSecond = 2
  StartRequests = {"start", "reset", "pause", "reset_fault"}
  SelectorRequests = {Wash}
  DelayRequests = {1}
  AdvanceRequests = {}
  Environment = {"door", "brownout", "process", "fault"}
  LifeTest = FALSE
  RapidAdvance = FALSE
  None = None
INVARIANTS TypeOK Coherent OpenDoorPausesRun
PROPERTIES StartsBehindClosedDoors KeepsLifecycle
