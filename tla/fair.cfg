SPECIFICATION FairSpec
CONSTANTS
  Wash = Wash
  Quick = Quick
  Line = Line
  Drain = Drain
  UserCycles = {Wash}
  TestCycles = {}
  CancelCycle = NoCycle
  NoCycle = NoCycle
  Off = Off
  BadCycle = BadCycle
  Pausable = {Wash}
  JumpTargets <- NoJumps
  ColdResetBehavior <- AllCancel
  TicksPerSecond = 2
  StartRequests = {"start", "reset", "restart"}
  SelectorRequests = {Wash}
  DelayRequests = {1}
  AdvanceRequests = {}
  Environment = {"door", "fault"}
  LifeTest = FALSE
  RapidAdvance = FALSE
  None = None
PROPERTIES DelayExpires FaultTakesEffect ResetIsAnswered
