SPECIFICATION Spec
CONSTANTS
  Wash = Wash
  Quick = Quick
  Line = Line
  Drain = Drain
  UserCycles = {Wash}
  TestCycles = {}
  CancelCycle = Drain
  NoCycle = NoCycle
  Off = Off
  BadCycle = BadCycle
  Pausable = {Wash, Drain}
  JumpTargets <- NoJumps
  ColdResetBehavior <- AllCancel
  TicksPerSecond = 2
  StartRequests = {"start", "reset", "pause"}
  SelectorRequests = {Wash}
  DelayRequests = {}
  AdvanceRequests = {}
  Environment = {"door"}
  LifeTest = FALSE
  RapidAdvance = FALSE
  None = None
PROPERTIES AcceptedResetIsExecuted
