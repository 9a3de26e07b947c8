SPECIFICATION Spec
CONSTANTS
  Wash = Wash
  Quick = Quick
  Line = Line
  Drain = Drain
  UserCycles = {Wash}
  TestCycles = {}
  CancelCycle = Drain
  NoCycle = NoCycle
  Off = Off
  BadCycle = BadCycle
  Pausable = {Wash, Drain}
  JumpTargets <- NoJumps
  ColdResetBehavior <- AllCancel
  TicksPerSecond = 2
  StartRequests = {"start"}
  SelectorRequests = {Wash}
  DelayRequests = {}
  AdvanceRequests = {1}
  Environment = {"door"}
  LifeTest = FALSE
  RapidAdvance = TRUE
  None = None
PROPERTIES StepAdvanceReachesRun
