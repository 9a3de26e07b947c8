-------------------------- MODULE SupervisorProofs ----------------------------
(***************************************************************************)
(* Types, Coherent and CycleLifecycle of the supervisor, for every value   *)
(* of its constants: TypeOK and Coherent as invariants and CycleLifecycle  *)
(* as a refinement, by the events of the state machine.                    *)
(***************************************************************************)
EXTENDS Supervisor, TLAPS

(***************************************************************************)
(* Type correctness: one lemma per event and one per do function.          *)
(***************************************************************************)
\* Regulations__Accept copies a request: what is in force stays in range.
LEMMA AcceptTyped ==
    ASSUME BuffersTyped, NEW fs, Accept(fs)
    PROVE  IsBuffer(accepted')
BY DEF BuffersTyped, IsBuffer, Accept

\* Regulations__Reject copies what is in force: the request stays in range.
LEMMA RejectTyped ==
    ASSUME BuffersTyped, NEW fs, Reject(fs)
    PROVE  IsBuffer(requested')
BY DEF BuffersTyped, IsBuffer, Reject

\* The values the supervisor reads out of the request buffer.
LEMMA RequestsTyped ==
    ASSUME BuffersTyped
    PROVE  /\ requested["start"] \in StartCommands
           /\ requested["selector"] \in SelectorValues
           /\ requested["delay"] \in Nat
           /\ requested["step"] \in AdvanceRequests \cup {None}
BY RequestsAssumption
   DEF BuffersTyped, IsBuffer, RegulationNames, RequestsOf, SelectorValues,
       StartCommands

\* PROGRAMMING is entered with a typed configuration and delay.
LEMMA EnterProgrammingTyped ==
    ASSUME MachineTyped, BuffersTyped, NEW sel \in SelectorValues,
           EnterProgramming(sel)
    PROVE  MachineTyped'
BY RequestsTyped, RequestsAssumption
   DEF MachineTyped, EnterProgramming, States, Configurations, Macro, Labels

\* evReset keeps the machine's data typed, whatever state it finds.
LEMMA EvResetTyped ==
    ASSUME MachineTyped, BuffersTyped, NEW sel \in SelectorValues,
           NEW delay \in Nat, EvReset(sel, delay)
    PROVE  MachineTyped'
<1>1. CASE EnterProgramming(sel)
  BY <1>1, EnterProgrammingTyped
<1>2. CASE /\ HasCancelCycle /\ state' = "cancelling"
           /\ interp' = Running(CancelCycle)
           /\ delayLeft' = delay
           /\ UNCHANGED <<saved, delayTicks>>
  BY <1>2 DEF MachineTyped, States, Configurations, Running, Labels,
              SelectorValues, RunCycles
<1>3. CASE /\ delayLeft' = delay
           /\ UNCHANGED <<state, interp, saved, delayTicks>>
  BY <1>3 DEF MachineTyped
<1> QED
  BY <1>1, <1>2, <1>3 DEF EvReset

\* evPause keeps the machine's data typed.
LEMMA EvPauseTyped ==
    ASSUME MachineTyped, TestTyped, RequestsAssumption, EvPause
    PROVE  MachineTyped'
BY DEF RequestsAssumption, MachineTyped, TestTyped, EvPause, machine, States,
       Configurations, Macro, Labels

\* evStart keeps the machine's data typed.
LEMMA EvStartTyped ==
    ASSUME MachineTyped, RequestsAssumption, NEW sel \in SelectorValues,
           EvStart(sel)
    PROVE  MachineTyped'
BY DEF RequestsAssumption, MachineTyped, EvStart, States, Configurations,
       Running, Labels

\* Entering DELAY keeps the machine's data typed.
LEMMA EnterDelayTyped ==
    ASSUME MachineTyped, RequestsAssumption, NEW sel \in SelectorValues,
           EnterDelay(sel)
    PROVE  MachineTyped'
BY DEF RequestsAssumption, MachineTyped, EnterDelay, States, Configurations,
       Macro, Labels

\* TestCycleEnd leaves a selector value behind.
LEMMA TestCycleEndTyped ==
    ASSUME TestTyped, BuffersTyped
    PROVE  /\ SelectorAfterTest \in SelectorValues
           /\ TestCycleEnd =>
                 selector' \in SelectorValues /\ testActive' \in BOOLEAN
BY RequestsTyped DEF TestTyped, SelectorAfterTest, TestCycleEnd

\* evEnd keeps the machine's data and the selector typed.
LEMMA EvEndTyped ==
    ASSUME MachineTyped, TestTyped, BuffersTyped, EvEnd
    PROVE  /\ MachineTyped'
           /\ selector' \in SelectorValues /\ testActive' \in BOOLEAN
<1>1. CASE EnterProgramming(selector) /\ UNCHANGED <<selector, testActive>>
  BY <1>1, EnterProgrammingTyped DEF TestTyped
<1>2. CASE /\ state' = "end_of_cycle"
           /\ interp' = Macro("end", selector)
           /\ TestCycleEnd
           /\ UNCHANGED <<saved, delayLeft, delayTicks>>
  BY <1>2, TestCycleEndTyped
     DEF MachineTyped, TestTyped, States, Configurations, Macro, Labels
<1> QED
  BY <1>1, <1>2 DEF EvEnd

\* The communication thread and the calls into a pass keep the types.
LEMMA EnvironmentTyped ==
    ASSUME TypeOK, CommunicationThread \/ Calls
    PROVE  TypeOK'
<1> USE DEF TypeOK, PassTyped, TestTyped, ExternalTyped, SensorsTyped, machine,
            test, pass, buffers, sensors, StartCommands
<1>1. ASSUME NEW f \in RegulationNames, NEW v \in RequestsOf(f),
             HmiRequest(f, v)
      PROVE  TypeOK'
  BY <1>1 DEF HmiRequest, BuffersTyped, IsBuffer, MachineTyped
<1>2. CASE Disengage
  BY <1>2 DEF Disengage, SetStart, BuffersTyped, IsBuffer, MachineTyped
<1>3. ASSUME NEW v \in AdvanceRequests, ApiAdvance(v)
      PROVE  TypeOK'
  BY <1>3 DEF ApiAdvance, BuffersTyped, IsBuffer, MachineTyped
<1>4. CASE ProcessPause
  BY <1>4 DEF ProcessPause, SetStart, BuffersTyped, IsBuffer, MachineTyped
<1>5. CASE FaultObserver
  BY <1>5 DEF FaultObserver, BuffersTyped, IsBuffer, MachineTyped
<1>6. CASE PreFaultObserver
  BY <1>6, EvPauseTyped, RequestsAssumption
     DEF PreFaultObserver, BuffersTyped, IsBuffer
<1> QED
  BY <1>1, <1>2, <1>3, <1>4, <1>5, <1>6 DEF CommunicationThread, Calls

\* The steps of a pass other than the do functions keep the types.
LEMMA PassStepsTyped ==
    ASSUME TypeOK,
           \/ Monitors \/ InterpreterRun \/ InterpreterInvalid
           \/ CheckRegulations \/ TakeFault \/ BackgroundSteps
    PROVE  TypeOK'
<1> USE DEF TypeOK, PassTyped, TestTyped, ExternalTyped, SensorsTyped, machine,
            test, pass, buffers, sensors, StartCommands
<1>1. ASSUME NEW closed \in BOOLEAN, NEW byDOS \in BOOLEAN,
             DoorMonitor(closed, byDOS)
      PROVE  TypeOK'
  <2> DEFINE stores == StoresStepAdvance(closed)
  <2>1. /\ Accept(IF stores THEN {"step"} ELSE {})
        /\ stepAdvance' = IF stores THEN requested["step"] ELSE stepAdvance
        /\ \E c \in {"pause", "start", ext.start} : ext' = SetStart(c)
        /\ doorClosed' = closed
        /\ pc' \in {"interpreter", "background"} /\ stable' \in BOOLEAN
        /\ UNCHANGED <<machine, test, start, result, fault, requested,
                       cartridgeClosed>>
    BY <1>1 DEF DoorMonitor, StablePass
  <2>2. BuffersTyped'
    BY <2>1, AcceptTyped DEF BuffersTyped, IsBuffer
  <2>3. /\ ext' \in [start : StartCommands, phase : AdvanceRequests \cup {None},
                     step : AdvanceRequests \cup {None}]
        /\ stepAdvance' \in AdvanceRequests \cup {None}
    BY <2>1, RequestsTyped DEF SetStart
  <2> QED
    BY <2>1, <2>2, <2>3 DEF MachineTyped
<1>2. CASE InterpreterRun
  <2>1. PICK c \in SelectorValues : interp' = [interp EXCEPT !.cycle = c]
    BY <1>2, CyclesAssumption
       DEF InterpreterRun, BranchesOf, MachineTyped, Configurations,
           SelectorValues
  <2>2. result' \in [value : Results, cycle : SelectorValues \cup {None}]
    BY <1>2 DEF InterpreterRun, MachineTyped, Configurations
  <2> QED
    BY <1>2, <2>1, <2>2
       DEF InterpreterRun, BuffersTyped, IsBuffer, MachineTyped, Configurations
<1>3. CASE InterpreterInvalid
  BY <1>3
     DEF InterpreterInvalid, NoResult, BuffersTyped, IsBuffer, MachineTyped,
         States, Results
<1>4. CASE CheckRegulations
  <2>1. DelayRead \in Nat
    BY RequestsTyped DEF DelayRead, MachineTyped
  <2>2. \E fs : Accept(fs)
    BY <1>4 DEF CheckRegulations, TakeResetRegulation, TakeExternalReset,
                ReadRegulations
  <2>3. BuffersTyped'
    BY <1>4, <2>2, AcceptTyped
       DEF CheckRegulations, TakeResetRegulation, TakeExternalReset,
           ReadRegulations, CheckRegulationsDone, BuffersTyped, IsBuffer
  <2>4. CASE TakeResetRegulation \/ TakeExternalReset
    <3>1. TestCycleEnd /\ EvReset(SelectorAfterTest, DelayRead)
      BY <2>4 DEF TakeResetRegulation, TakeExternalReset
    <3> QED
      BY <2>1, <2>3, <2>4, <3>1, TestCycleEndTyped, EvResetTyped
         DEF TakeResetRegulation, TakeExternalReset, CheckRegulationsDone,
             SetStart
  <2>5. CASE ReadRegulations
    BY <2>1, <2>3, <2>5, RequestsTyped
       DEF ReadRegulations, CheckRegulationsDone, MachineTyped
  <2> QED
    BY <1>4, <2>4, <2>5 DEF CheckRegulations
<1>5. CASE TakeFault
  <2>1. MachineTyped'
    BY <1>5, RequestsAssumption
       DEF TakeFault, EvFault, MachineTyped, States, Configurations, Macro,
           Labels, SelectorValues, RequestsAssumption
  <2>2. BuffersTyped'
    BY <1>5 DEF TakeFault, BuffersTyped, IsBuffer
  <2>3. PassTyped'
    BY <1>5 DEF TakeFault
  <2>4. TestTyped'
    BY <1>5 DEF TakeFault
  <2>5. ExternalTyped' /\ SensorsTyped'
    BY <1>5 DEF TakeFault
  <2> QED
    BY <2>1, <2>2, <2>3, <2>4, <2>5
<1>6. ASSUME NEW c \in TestCycles, EngageTest(c)
      PROVE  TypeOK'
  BY <1>6 DEF EngageTest, SetStart, BuffersTyped, IsBuffer, MachineTyped
<1>7. CASE EngageStarts
  <2>1. engaging \in SelectorValues
    BY <1>7 DEF EngageStarts, SelectorValues, RunCycles
  <2>2. MachineTyped'
    BY <1>7, <2>1
       DEF EngageStarts, EngageDone, MachineTyped, Configurations, Macro, Labels
  <2> QED
    BY <1>7, <2>1, <2>2
       DEF EngageStarts, EngageDone, SetStart, BuffersTyped, IsBuffer
<1>8. CASE EngageFails
  <2>1. MachineTyped' /\ selector' \in SelectorValues
    <3>1. requested["selector"] \in SelectorValues /\ delayLeft \in Nat
      BY RequestsTyped DEF MachineTyped
    <3>2. EvReset(requested["selector"], delayLeft)
      BY <1>8 DEF EngageFails
    <3>3. MachineTyped'
      BY <3>1, <3>2, EvResetTyped
    <3> QED
      BY <1>8, <3>1, <3>3 DEF EngageFails
  <2>2. BuffersTyped'
    BY <1>8 DEF EngageFails, EngageDone, BuffersTyped, IsBuffer
  <2>3. PassTyped'
    BY <1>8 DEF EngageFails, EngageDone
  <2>4. TestTyped'
    BY <1>8, <2>1 DEF EngageFails, EngageDone
  <2>5. ExternalTyped' /\ SensorsTyped'
    BY <1>8 DEF EngageFails, EngageDone
  <2> QED
    BY <2>1, <2>2, <2>3, <2>4, <2>5
<1>9. ASSUME NEW closed \in BOOLEAN, Background(closed)
      PROVE  TypeOK'
  BY <1>9 DEF Background, BuffersTyped, IsBuffer, MachineTyped
<1>10. CASE DoorUnread
  <2>1. MachineTyped' /\ BuffersTyped'
    BY <1>10 DEF DoorUnread, BuffersTyped, IsBuffer, MachineTyped
  <2>2. PassTyped'
    BY <1>10 DEF DoorUnread, StablePass
  <2>3. TestTyped'
    BY <1>10 DEF DoorUnread, StablePass
  <2>4. ExternalTyped' /\ SensorsTyped'
    BY <1>10 DEF DoorUnread, StablePass
  <2> QED
    BY <2>1, <2>2, <2>3, <2>4
<1> QED
  BY <1>1, <1>2, <1>3, <1>4, <1>5, <1>6, <1>7, <1>8, <1>9, <1>10
     DEF Monitors, BackgroundSteps
\* What every do function leaves to be shown: the rest of TypeOK follows.
LEMMA ExecuteDoneTyped ==
    ASSUME TypeOK, ExecuteDone, MachineTyped', BuffersTyped', ExternalTyped',
           selector' \in SelectorValues, testActive' \in BOOLEAN
    PROVE  TypeOK'
<1>1. PassTyped'
  BY DEF ExecuteDone, TypeOK, PassTyped, NoResult, Results
<1>2. TestTyped'
  BY DEF ExecuteDone, TypeOK, TestTyped
<1>3. SensorsTyped'
  BY DEF ExecuteDone, TypeOK, SensorsTyped, sensors
<1> QED
  BY <1>1, <1>2, <1>3 DEF TypeOK

\* A do function that accepts some regulations and rejects others.
LEMMA AnswersTyped ==
    ASSUME BuffersTyped, NEW fs, Accept(fs), NEW gs, Reject(gs)
    PROVE  BuffersTyped'
BY AcceptTyped, RejectTyped DEF BuffersTyped

\* SetStart makes a request of the right type.
LEMMA SetStartTyped ==
    ASSUME ExternalTyped, NEW command \in StartCommands
    PROVE  SetStart(command) \in
             [start : StartCommands, phase : AdvanceRequests \cup {None},
              step : AdvanceRequests \cup {None}]
BY DEF ExternalTyped, SetStart

\* The selector ProgrammingDo goes on with is a selector value.
LEMMA NewSelectorTyped ==
    ASSUME TestTyped, BuffersTyped
    PROVE  NewSelector \in SelectorValues
BY RequestsTyped DEF NewSelector, TestTyped

\* ProgrammingDo keeps the types.
LEMMA ProgrammingTyped ==
    ASSUME TypeOK, ProgrammingDo
    PROVE  TypeOK'
<1> USE DEF TypeOK
<1>1. BuffersTyped' /\ ExecuteDone
  BY AnswersTyped
     DEF ProgrammingDo, ProgrammingIdle, ProgrammingStarts,
         ProgrammingClearsStart, ProgrammingDoRegulations
<1>2. NewSelector \in SelectorValues
  BY NewSelectorTyped
<1>3. SetStart("dont_care") \in
          [start : StartCommands, phase : AdvanceRequests \cup {None},
           step : AdvanceRequests \cup {None}]
  BY SetStartTyped DEF StartCommands
<1>4. CASE ProgrammingIdle
  <2>1. MachineTyped'
    BY <1>2, <1>4
       DEF ProgrammingIdle, MachineTyped, Configurations, Macro, Labels
  <2>2. /\ ExternalTyped'
        /\ selector' \in SelectorValues /\ testActive' \in BOOLEAN
    BY <1>2, <1>4 DEF ProgrammingIdle, ExternalTyped, TestTyped
  <2> QED
    BY <1>1, <2>1, <2>2, ExecuteDoneTyped
<1>5. CASE ProgrammingStarts
  <2>1. MachineTyped'
    <3>1. EvStart(NewSelector) \/ EnterDelay(NewSelector)
      BY <1>5 DEF ProgrammingStarts
    <3> QED
      BY <1>2, <3>1, RequestsAssumption, EvStartTyped, EnterDelayTyped
  <2>2. ExternalTyped'
    BY <1>3, <1>5 DEF ProgrammingStarts, ExternalTyped
  <2>3. selector' \in SelectorValues /\ testActive' \in BOOLEAN
    BY <1>2, <1>5 DEF ProgrammingStarts, TestTyped
  <2> QED
    BY <1>1, <2>1, <2>2, <2>3, ExecuteDoneTyped
<1>6. CASE ProgrammingClearsStart
  <2>1. requested'["selector"] \in SelectorValues
    BY <1>1, RequestsAssumption
       DEF BuffersTyped, IsBuffer, RegulationNames, RequestsOf, SelectorValues
  <2>2. selector' \in SelectorValues /\ testActive' \in BOOLEAN
    BY <1>2, <1>6, <2>1 DEF ProgrammingClearsStart
  <2>3. MachineTyped'
    BY <1>6, <2>2, RequestsTyped, RequestsAssumption
       DEF ProgrammingClearsStart, EnterProgramming, MachineTyped, States,
           Configurations, Macro, Labels
  <2>4. ExternalTyped'
    BY <1>3, <1>6 DEF ProgrammingClearsStart, ExternalTyped
  <2> QED
    BY <1>1, <2>2, <2>3, <2>4, ExecuteDoneTyped
<1> QED
  BY <1>4, <1>5, <1>6 DEF ProgrammingDo

\* The delay time never underflows.
LEMMA LeftAfterTickTyped ==
    ASSUME MachineTyped
    PROVE  LeftAfterTick \in Nat
BY DEF MachineTyped, LeftAfterTick

\* DelayDo keeps the types: the counters stay in their ranges.
LEMMA DelayTyped ==
    ASSUME TypeOK, DelayDo
    PROVE  TypeOK'
<1> USE DEF TypeOK
<1>1. BuffersTyped' /\ ExecuteDone
  BY AnswersTyped
     DEF DelayDo, DelayEnds, DelayPauses, DelayTicks, DelayDoRegulations
<1>2. selector' \in SelectorValues /\ testActive' \in BOOLEAN
  BY DEF DelayDo, DelayEnds, DelayPauses, DelayTicks, TestTyped
<1>3. ExternalTyped'
  BY SetStartTyped
     DEF DelayDo, DelayEnds, DelayPauses, DelayTicks, ExternalTyped,
         StartCommands
<1>4. MachineTyped'
  <2>1. CASE DelayEnds
    BY <2>1, EvStartTyped, RequestsAssumption DEF DelayEnds, TestTyped
  <2>2. CASE DelayPauses
    BY <2>2, LeftAfterTickTyped, RequestsAssumption
       DEF RequestsAssumption, DelayPauses, MachineTyped, TestTyped, States,
           Configurations, Macro, Labels
  <2>3. CASE DelayTicks
    <3>1. delayTicks' \in 0..TicksPerSecond - 1
      BY <2>3, RequestsAssumption
         DEF RequestsAssumption, DelayTicks, SecondOver, MachineTyped
    <3> QED
      BY <2>3, <3>1, LeftAfterTickTyped DEF DelayTicks, MachineTyped
  <2> QED
    BY <2>1, <2>2, <2>3 DEF DelayDo
<1> QED
  BY <1>1, <1>2, <1>3, <1>4, ExecuteDoneTyped

\* PauseDo and DelayPauseDo keep the types.
LEMMA PauseTyped ==
    ASSUME TypeOK, PauseDo
    PROVE  TypeOK'
<1> USE DEF TypeOK
<1>1. BuffersTyped' /\ ExecuteDone
  BY AnswersTyped
     DEF PauseDo, PauseHolds, PauseResumes, DelayResumes, ResumeDoRegulations
<1>2. selector' \in SelectorValues /\ testActive' \in BOOLEAN
  BY DEF PauseDo, PauseHolds, PauseResumes, DelayResumes, TestTyped
<1>3. ExternalStartRead \in StartCommands
  BY DEF ExternalStartRead, ExternalTyped, StartCommands
<1>4. CASE PauseHolds
  BY <1>1, <1>2, <1>3, <1>4, SetStartTyped, ExecuteDoneTyped
     DEF PauseHolds, machine, MachineTyped, ExternalTyped
<1>5. CASE PauseResumes
  <2>1. MachineTyped'
    BY <1>5
       DEF PauseResumes, EvResume, ResumedState, BlankResumeData, MachineTyped,
           States, Configurations, Labels, SelectorValues
  <2>2. StepAfterRunEntry \in AdvanceRequests \cup {None}
    BY DEF StepAfterRunEntry, ExternalTyped
  <2>3. ExternalTyped'
    <3>1. CASE state = "pause"
      BY <1>3, <1>5, <2>2, <3>1 DEF PauseResumes, ExternalTyped
    <3>2. CASE state # "pause"
      BY <1>3, <1>5, <3>2, SetStartTyped DEF PauseResumes, ExternalTyped
    <3> QED
      BY <3>1, <3>2
  <2> QED
    BY <1>1, <1>2, <2>1, <2>3, ExecuteDoneTyped
<1>6. CASE DelayResumes
  <2>1. MachineTyped'
    BY <1>6, EnterDelayTyped, RequestsAssumption DEF DelayResumes, TestTyped
  <2>2. ExternalTyped'
    BY <1>3, <1>6, SetStartTyped DEF DelayResumes, ExternalTyped
  <2> QED
    BY <1>1, <1>2, <2>1, <2>2, ExecuteDoneTyped
<1> QED
  BY <1>4, <1>5, <1>6 DEF PauseDo

\* A pause that the cycle's heading may refuse keeps the types.
LEMMA PauseIfAllowedTyped ==
    ASSUME MachineTyped, TestTyped, PauseIfAllowed
    PROVE  /\ MachineTyped'
           /\ selector' \in SelectorValues /\ testActive' \in BOOLEAN
<1>1. MachineTyped'
  <2>1. CASE EvPause
    BY <2>1, EvPauseTyped, RequestsAssumption
  <2>2. CASE UNCHANGED machine
    BY <2>2 DEF machine, MachineTyped
  <2> QED
    BY <2>1, <2>2 DEF PauseIfAllowed
<1> QED
  BY <1>1 DEF PauseIfAllowed, TestTyped

\* A phase or step request that may run off the cycle keeps the types.
LEMMA EndsIfTyped ==
    ASSUME MachineTyped, TestTyped, BuffersTyped, NEW outcome,
           EndsIf(outcome)
    PROVE  /\ MachineTyped'
           /\ selector' \in SelectorValues /\ testActive' \in BOOLEAN
<1>1. CASE EvEnd
  BY <1>1, EvEndTyped
<1>2. CASE UNCHANGED <<machine, selector, testActive>>
  BY <1>2 DEF machine, MachineTyped, TestTyped
<1> QED
  BY <1>1, <1>2 DEF EndsIf

\* RunDo keeps the types.
LEMMA RunTyped ==
    ASSUME TypeOK, RunDo
    PROVE  TypeOK'
<1> USE DEF TypeOK
<1>1. ExecuteDone
  BY DEF RunDo, RunEnds, RunEndsInReset, RunPausesItself, RunTakesStart,
         RunTakesHmiAdvance, RunTakesExternalPause, RunTakesExternalAdvance,
         RunContinues
<1>2. CASE RunEnds
  <2>1. BuffersTyped' /\ ExternalTyped'
    BY <1>2 DEF RunEnds, buffers, BuffersTyped, IsBuffer, ExternalTyped
  <2> QED
    BY <1>1, <1>2, <2>1, EvEndTyped, ExecuteDoneTyped DEF RunEnds
<1>3. CASE RunEndsInReset
  <2>1. BuffersTyped' /\ ExternalTyped'
    BY <1>3 DEF RunEndsInReset, buffers, BuffersTyped, IsBuffer, ExternalTyped
  <2>2. MachineTyped'
    BY <1>3, TestCycleEndTyped, EvResetTyped
       DEF RunEndsInReset, MachineTyped
  <2> QED
    BY <1>1, <1>3, <2>1, <2>2, TestCycleEndTyped, ExecuteDoneTyped
       DEF RunEndsInReset
<1>4. CASE RunPausesItself
  <2>1. BuffersTyped' /\ ExternalTyped'
    BY <1>4 DEF RunPausesItself, buffers, BuffersTyped, IsBuffer, ExternalTyped
  <2> QED
    BY <1>1, <1>4, <2>1, PauseIfAllowedTyped, ExecuteDoneTyped
       DEF RunPausesItself
<1>5. CASE RunTakesStart
  <2>1. BuffersTyped'
    BY <1>5, AcceptTyped, RejectTyped
       DEF RunTakesStart, BuffersTyped, IsBuffer
  <2>2. MachineTyped'
    <3>1. EvPause \/ UNCHANGED machine
      BY <1>5 DEF RunTakesStart
    <3> QED
      BY <3>1, EvPauseTyped, RequestsAssumption DEF machine, MachineTyped
  <2>3. /\ ExternalTyped'
        /\ selector' \in SelectorValues /\ testActive' \in BOOLEAN
    BY <1>5 DEF RunTakesStart, ExternalTyped, TestTyped
  <2> QED
    BY <1>1, <2>1, <2>2, <2>3, ExecuteDoneTyped
<1>6. CASE RunTakesHmiAdvance
  <2>1. BuffersTyped'
    BY <1>6, AnswersTyped DEF RunTakesHmiAdvance
  <2>2. ExternalTyped'
    BY <1>6 DEF RunTakesHmiAdvance, ExternalTyped
  <2>3. \E outcome \in Advances : EndsIf(outcome)
    BY <1>6 DEF RunTakesHmiAdvance
  <2> QED
    BY <1>1, <2>1, <2>2, <2>3, EndsIfTyped, ExecuteDoneTyped
<1>7. CASE RunTakesExternalPause
  <2>1. BuffersTyped'
    BY <1>7 DEF RunTakesExternalPause, buffers, BuffersTyped, IsBuffer
  <2>2. ExternalTyped'
    BY <1>7, SetStartTyped
       DEF RunTakesExternalPause, ExternalTyped, StartCommands
  <2> QED
    BY <1>1, <1>7, <2>1, <2>2, PauseIfAllowedTyped, ExecuteDoneTyped
       DEF RunTakesExternalPause
<1>8. CASE RunTakesExternalAdvance
  <2>1. BuffersTyped'
    BY <1>8 DEF RunTakesExternalAdvance, buffers, BuffersTyped, IsBuffer
  <2>2. ExternalTyped'
    BY <1>8 DEF RunTakesExternalAdvance, ExternalTyped
  <2>3. \E outcome \in Advances : EndsIf(outcome)
    BY <1>8 DEF RunTakesExternalAdvance
  <2> QED
    BY <1>1, <2>1, <2>2, <2>3, EndsIfTyped, ExecuteDoneTyped
<1>9. CASE RunContinues
  <2>1. /\ BuffersTyped' /\ ExternalTyped' /\ MachineTyped'
        /\ selector' \in SelectorValues /\ testActive' \in BOOLEAN
    BY <1>9
       DEF RunContinues, buffers, machine, BuffersTyped, IsBuffer,
           ExternalTyped, MachineTyped, TestTyped
  <2> QED
    BY <1>1, <2>1, ExecuteDoneTyped
<1> QED
  BY <1>2, <1>3, <1>4, <1>5, <1>6, <1>7, <1>8, <1>9 DEF RunDo
\* SupervisorFsmExecute keeps the types, in every state.
LEMMA ExecuteTyped ==
    ASSUME TypeOK, Execute
    PROVE  TypeOK'
<1> USE DEF TypeOK
<1>1. ASSUME NEW removed \in BOOLEAN, FaultDo(removed)
      PROVE  TypeOK'
  <2>1. ExecuteDone /\ BuffersTyped'
    BY <1>1, AnswersTyped DEF FaultDo
  <2>2. ExternalTyped'
    BY <1>1, SetStartTyped DEF FaultDo, ExternalTyped, StartCommands
  <2>3. /\ MachineTyped'
        /\ selector' \in SelectorValues /\ testActive' \in BOOLEAN
    <3>1. CASE TestCycleEnd /\ EnterProgramming(SelectorAfterTest)
      BY <3>1, TestCycleEndTyped, EnterProgrammingTyped
    <3>2. CASE UNCHANGED <<machine, selector, testActive>>
      BY <3>2 DEF machine, MachineTyped, TestTyped
    <3> QED
      BY <1>1, <3>1, <3>2 DEF FaultDo
  <2> QED
    BY <2>1, <2>2, <2>3, ExecuteDoneTyped
<1>2. CASE NothingToDo
  <2>1. /\ BuffersTyped' /\ ExternalTyped' /\ MachineTyped'
        /\ selector' \in SelectorValues /\ testActive' \in BOOLEAN
    BY <1>2
       DEF NothingToDo, buffers, machine, BuffersTyped, IsBuffer,
           ExternalTyped, MachineTyped, TestTyped
  <2> QED
    BY <1>2, <2>1, ExecuteDoneTyped DEF NothingToDo
<1> QED
  BY <1>1, <1>2, ProgrammingTyped, DelayTyped, PauseTyped, RunTyped DEF Execute

\* What every restart leaves to be shown: the rest of TypeOK follows.
LEMMA RestartedTyped ==
    ASSUME TypeOK, NEW cold \in BOOLEAN, Restarted(cold), MachineTyped',
           selector' \in SelectorValues, testActive' \in BOOLEAN
    PROVE  TypeOK'
<1>1. PassTyped'
  BY DEF Restarted, TypeOK, PassTyped, NoResult, Results
<1>2. TestTyped'
  BY DEF Restarted, TypeOK, TestTyped
<1>3. BuffersTyped'
  BY DEF Restarted, TypeOK, buffers, BuffersTyped, IsBuffer
<1>4. ExternalTyped'
  BY DEF Restarted, TypeOK, ExternalTyped, StartCommands
<1>5. SensorsTyped'
  BY DEF Restarted, TypeOK, SensorsTyped, sensors
<1> QED
  BY <1>1, <1>2, <1>3, <1>4, <1>5 DEF TypeOK

\* Supervisor__Initialize keeps the types after a warm and a cold reset.
LEMMA ResetTyped ==
    ASSUME TypeOK, Reset
    PROVE  TypeOK'
<1> USE DEF TypeOK
<1>1. CASE WarmReset \/ ColdResetResumes
  <2>1. /\ MachineTyped'
        /\ selector' \in SelectorValues /\ testActive' \in BOOLEAN
    BY <1>1
       DEF WarmReset, ColdResetResumes, machine, MachineTyped, TestTyped
  <2> QED
    BY <1>1, <2>1, RestartedTyped DEF WarmReset, ColdResetResumes
<1>2. CASE ColdResetCancels
  <2>1. MachineTyped'
    BY <1>2, TestCycleEndTyped, EvResetTyped
       DEF ColdResetCancels, MachineTyped
  <2> QED
    BY <1>2, <2>1, TestCycleEndTyped, RestartedTyped DEF ColdResetCancels
<1>3. CASE ColdResetPauses
  <2>1. MachineTyped'
    <3>1. EvPause \/ UNCHANGED machine
      BY <1>3 DEF ColdResetPauses
    <3> QED
      BY <3>1, EvPauseTyped, RequestsAssumption DEF machine, MachineTyped
  <2> QED
    BY <1>3, <2>1, RestartedTyped DEF ColdResetPauses, TestTyped
<1>4. ASSUME NEW cold \in BOOLEAN, RestartTerminated(cold)
      PROVE  TypeOK'
  <2>1. MachineTyped'
    BY <1>4, RequestsTyped, RequestsAssumption
       DEF RestartTerminated, RequestsAssumption, MachineTyped, States
  <2> QED
    BY <1>4, <2>1, RestartedTyped DEF RestartTerminated, TestTyped
<1>5. ASSUME NEW cold \in BOOLEAN, RestartLeavesFault(cold)
      PROVE  TypeOK'
  <2>1. Restarted(cold)
    BY <1>5 DEF RestartLeavesFault
  <2>2. CASE TestCycleEnd /\ EnterProgramming(SelectorAfterTest)
    BY <2>1, <2>2, TestCycleEndTyped, EnterProgrammingTyped, RestartedTyped
  <2>3. CASE UNCHANGED <<selector, testActive>> /\ EnterProgramming(selector)
    BY <2>1, <2>3, EnterProgrammingTyped, RestartedTyped DEF TestTyped
  <2> QED
    BY <1>5, <2>2, <2>3 DEF RestartLeavesFault
<1> QED
  BY <1>1, <1>2, <1>3, <1>4, <1>5 DEF Reset

\* The first power-up is typed.
LEMMA InitTyped ==
    ASSUME Init
    PROVE  TypeOK
<1>1. BuffersTyped
  BY DEF Init, BuffersTyped, IsBuffer, RegulationNames, RequestsOf
<1>2. MachineTyped
  BY RequestsAssumption
     DEF RequestsAssumption, Init, MachineTyped, States, Configurations, Macro,
         BlankResumeData, Labels, SelectorValues
<1>3. PassTyped /\ TestTyped
  BY DEF Init, PassTyped, TestTyped, NoResult, Results, SelectorValues
<1>4. ExternalTyped /\ SensorsTyped
  BY DEF Init, ExternalTyped, SensorsTyped, StartCommands
<1> QED
  BY <1>1, <1>2, <1>3, <1>4 DEF TypeOK

\* Every step of the supervisor and of its environment keeps the types.
LEMMA NextTyped ==
    ASSUME TypeOK, [Next]_vars
    PROVE  TypeOK'
<1>1. CASE UNCHANGED vars
  BY <1>1
     DEF vars, TypeOK, PassTyped, MachineTyped, TestTyped, BuffersTyped,
         IsBuffer, ExternalTyped, SensorsTyped
<1> QED
  BY <1>1, EnvironmentTyped, PassStepsTyped, ExecuteTyped, ResetTyped
     DEF Next, ApplicationThread

\* Every variable keeps its type in every behaviour: in particular the delay
\* time does not underflow, and the tenths of its second stay below
\* TicksPerSecond.
THEOREM TypeCorrect == Spec => []TypeOK
BY InitTyped, NextTyped, PTL DEF Spec

(***************************************************************************)
(* Coherent is inductive together with TypeOK.                             *)
(***************************************************************************)

\* What Coherent depends on.
coherence == <<state, interp, saved, delayTicks, selector, testActive>>

\* A cycle hands over to itself at once.
LEMMA ReachesItself ==
    ASSUME NEW c
    PROVE  Reaches(c, c)
BY DEF Reaches

\* What a cycle hands over to, its branches included.
LEMMA ReachesBranches ==
    ASSUME NEW c, NEW d, Reaches(c, d), NEW b \in BranchesOf(d)
    PROVE  Reaches(c, b)
BY DEF Reaches

\* Coherent depends on the variables of `coherence' only.
LEMMA UnchangedCoherent ==
    ASSUME Coherent, UNCHANGED coherence
    PROVE  Coherent'
BY DEF coherence, Coherent, WaitingCoherent, RunCoherent, CancellingCoherent,
       OverCoherent, Runs, Reaches

\* Entering PROGRAMMING establishes Coherent from any state.
LEMMA EnterProgrammingCoherent ==
    ASSUME NEW sel, EnterProgramming(sel), selector' = sel
    PROVE  Coherent'
BY DEF EnterProgramming, Coherent, WaitingCoherent, RunCoherent,
       CancellingCoherent, OverCoherent

\* evReset keeps Coherent when the test cycle has been ended before it.
LEMMA EvResetCoherent ==
    ASSUME Coherent, NEW sel, NEW delay, EvReset(sel, delay),
           selector' = sel, testActive' = FALSE
    PROVE  Coherent'
<1>1. CASE EnterProgramming(sel)
  BY <1>1, EnterProgrammingCoherent
<1>2. CASE /\ state \in {"run", "pause"} /\ HasCancelCycle
           /\ state' = "cancelling"
           /\ interp' = Running(CancelCycle)
           /\ UNCHANGED delayTicks
  <2>1. Runs(interp', CancelCycle)
    BY <1>2, ReachesItself DEF Runs, Running
  <2> QED
    BY <1>2, <2>1
       DEF Coherent, WaitingCoherent, RunCoherent, CancellingCoherent,
           OverCoherent, Runs, Reaches
<1>3. CASE /\ state \in {"fault", "none"}
           /\ UNCHANGED <<state, interp, delayTicks>>
  BY <1>3 DEF Coherent, WaitingCoherent, RunCoherent, CancellingCoherent,
              OverCoherent
<1> QED
  BY <1>1, <1>2, <1>3 DEF EvReset

\* evPause keeps Coherent: what it saves is what was running.
LEMMA EvPauseCoherent ==
    ASSUME Coherent, EvPause, UNCHANGED <<selector, testActive>>
    PROVE  Coherent'
<1>1. CASE UNCHANGED machine
  BY <1>1, UnchangedCoherent DEF machine, coherence
<1>2. CASE state = "delay"
  BY <1>2 DEF EvPause, Coherent, WaitingCoherent, RunCoherent,
              CancellingCoherent, OverCoherent
<1>3. CASE state \in {"run", "cancelling"}
  BY <1>3 DEF EvPause, Coherent, WaitingCoherent, RunCoherent,
              CancellingCoherent, OverCoherent, Macro, Runs, Reaches
<1> QED
  BY <1>1, <1>2, <1>3 DEF EvPause

\* evStart establishes Coherent from any state.
LEMMA EvStartCoherent ==
    ASSUME NEW sel, EvStart(sel), selector' = sel
    PROVE  Coherent'
<1>1. Runs(interp', sel)
  BY ReachesItself DEF EvStart, Runs, Running
<1> QED
  BY <1>1 DEF EvStart, Coherent, WaitingCoherent, RunCoherent,
              CancellingCoherent, OverCoherent

\* Entering DELAY establishes Coherent from any state.
LEMMA EnterDelayCoherent ==
    ASSUME NEW sel, EnterDelay(sel), selector' = sel
    PROVE  Coherent'
BY DEF EnterDelay, Coherent, WaitingCoherent, RunCoherent, CancellingCoherent,
       OverCoherent

\* evResume keeps Coherent: what was saved is what runs again.
LEMMA EvResumeCoherent ==
    ASSUME Coherent, EvResume, UNCHANGED <<selector, testActive>>
    PROVE  Coherent'
BY DEF EvResume, ResumedState, Coherent, WaitingCoherent, RunCoherent,
       CancellingCoherent, OverCoherent, Runs, Reaches

\* evEnd keeps Coherent.
LEMMA EvEndCoherent ==
    ASSUME Coherent, EvEnd
    PROVE  Coherent'
<1>1. CASE state = "cancelling"
  BY <1>1, EnterProgrammingCoherent DEF EvEnd
<1>2. CASE state = "run"
  BY <1>2 DEF EvEnd, Macro, Coherent, WaitingCoherent, RunCoherent,
              CancellingCoherent, OverCoherent
<1> QED
  BY <1>1, <1>2 DEF EvEnd

\* evFault keeps Coherent.
LEMMA EvFaultCoherent ==
    ASSUME Coherent, EvFault, UNCHANGED <<selector, testActive>>
    PROVE  Coherent'
<1>1. CASE UNCHANGED machine
  BY <1>1, UnchangedCoherent DEF machine, coherence
<1>2. CASE state' = "fault"
  BY <1>2 DEF EvFault, machine, Coherent, WaitingCoherent, RunCoherent,
              CancellingCoherent, OverCoherent
<1> QED
  BY <1>1, <1>2 DEF EvFault
\* The communication thread and the calls into a pass keep Coherent.
LEMMA EnvironmentCoherent ==
    ASSUME Coherent, CommunicationThread \/ Calls
    PROVE  Coherent'
<1>1. CASE UNCHANGED <<machine, test>>
  BY <1>1, UnchangedCoherent DEF machine, test, coherence
<1>2. CASE PreFaultObserver
  BY <1>2, EvPauseCoherent DEF PreFaultObserver, test
<1> QED
  BY <1>1, <1>2
     DEF CommunicationThread, Calls, HmiRequest, Disengage, ApiAdvance,
         ProcessPause, FaultObserver

\* The steps of a pass other than the do functions keep Coherent.
LEMMA PassStepsCoherent ==
    ASSUME TypeOK, Coherent,
           \/ Monitors \/ InterpreterRun \/ InterpreterInvalid
           \/ CheckRegulations \/ TakeFault \/ BackgroundSteps
    PROVE  Coherent'
<1>1. CASE UNCHANGED <<state, interp, saved, delayTicks, selector, testActive>>
  BY <1>1, UnchangedCoherent DEF coherence
<1>2. CASE InterpreterRun
  <2>1. interp \in Configurations
    BY DEF TypeOK, MachineTyped
  <2>2. PICK c \in {interp.cycle} \cup (IF interp.label = "run"
                                        THEN BranchesOf(interp.cycle) ELSE {}) :
           interp' = [interp EXCEPT !.cycle = c]
    BY <1>2 DEF InterpreterRun
  <2>3. interp'.label = interp.label /\ interp'.cycle = c
    BY <2>1, <2>2 DEF Configurations
  <2>4. interp.label # "run" => interp' = interp
    BY <2>1, <2>2 DEF Configurations
  <2>5. \A d : Runs(interp, d) => Runs(interp', d)
    <3>1. ASSUME NEW d, Runs(interp, d)
          PROVE  Runs(interp', d)
      BY <2>2, <2>3, <3>1, ReachesBranches DEF Runs
    <3> QED
      BY <3>1
  <2>6. /\ interp.cycle # BadCycle
        /\ UNCHANGED <<state, saved, delayTicks, selector, testActive>>
    BY <1>2 DEF InterpreterRun, test
  <2>7. WaitingCoherent'
    BY <2>4, <2>6 DEF Coherent, WaitingCoherent, Macro
  <2>8. RunCoherent' /\ CancellingCoherent'
    BY <2>4, <2>5, <2>6
       DEF Coherent, RunCoherent, CancellingCoherent, Macro, Runs, Reaches
  <2>9. OverCoherent'
    BY <2>3, <2>4, <2>6 DEF Coherent, OverCoherent, Macro
  <2> QED
    BY <2>7, <2>8, <2>9 DEF Coherent
<1>3. CASE InterpreterInvalid
  BY <1>3 DEF InterpreterInvalid, Coherent, WaitingCoherent, RunCoherent,
              CancellingCoherent, OverCoherent
<1>4. CASE TakeResetRegulation \/ TakeExternalReset
  <2>1. PICK sel, delay : /\ EvReset(sel, delay)
                          /\ selector' = sel /\ testActive' = FALSE
    BY <1>4 DEF TakeResetRegulation, TakeExternalReset, TestCycleEnd
  <2> QED
    BY <2>1, EvResetCoherent
<1>5. CASE TakeFault
  BY <1>5, EvFaultCoherent DEF TakeFault, test
<1>6. CASE EngageStarts
  BY <1>6 DEF EngageStarts, EngageDone, Coherent, WaitingCoherent, RunCoherent,
              CancellingCoherent, OverCoherent, Runs, Reaches
<1>7. CASE EngageFails
  <2>1. PICK sel, delay : /\ EvReset(sel, delay)
                          /\ selector' = sel /\ testActive' = FALSE
    BY <1>7 DEF EngageFails
  <2> QED
    BY <2>1, EvResetCoherent
<1>8. CASE Monitors \/ ReadRegulations \/ (\E c \in TestCycles : EngageTest(c))
             \/ (\E closed \in BOOLEAN : Background(closed))
  BY <1>1, <1>8
     DEF Monitors, DoorMonitor, DoorUnread, ReadRegulations, EngageTest,
         Background, machine, test
<1> QED
  BY <1>2, <1>3, <1>4, <1>5, <1>6, <1>7, <1>8
     DEF CheckRegulations, BackgroundSteps, TypeOK, SensorsTyped

\* SupervisorFsmExecute keeps Coherent, in every state.
LEMMA ExecuteCoherent ==
    ASSUME TypeOK, Coherent, Execute
    PROVE  Coherent'
<1>1. CASE UNCHANGED <<state, interp, saved, delayTicks, selector, testActive>>
  BY <1>1, UnchangedCoherent DEF coherence
<1>2. CASE ProgrammingIdle
  BY <1>2 DEF ProgrammingIdle, NewSelector, Coherent, WaitingCoherent,
              RunCoherent, CancellingCoherent, OverCoherent
<1>3. CASE ProgrammingStarts
  <2>1. PICK sel : /\ EvStart(sel) \/ EnterDelay(sel)
                   /\ selector' = sel
    BY <1>3 DEF ProgrammingStarts
  <2> QED
    BY <2>1, EvStartCoherent, EnterDelayCoherent
<1>4. CASE ProgrammingClearsStart
  <2>1. PICK sel : EnterProgramming(sel) /\ selector' = sel
    BY <1>4 DEF ProgrammingClearsStart
  <2> QED
    BY <2>1, EnterProgrammingCoherent
<1>5. CASE DelayDo
  <2>1. CASE DelayEnds
    BY <2>1, EvStartCoherent DEF DelayEnds
  <2>2. CASE DelayPauses
    BY <2>2 DEF DelayPauses, Coherent, WaitingCoherent, RunCoherent,
                CancellingCoherent, OverCoherent
  <2>3. CASE DelayTicks
    BY <2>3 DEF DelayTicks, Coherent, WaitingCoherent, RunCoherent,
                CancellingCoherent, OverCoherent
  <2> QED
    BY <1>5, <2>1, <2>2, <2>3 DEF DelayDo
<1>6. CASE PauseDo
  <2>1. CASE PauseHolds
    BY <1>1, <2>1 DEF PauseHolds, machine
  <2>2. CASE PauseResumes
    BY <2>2, EvResumeCoherent DEF PauseResumes
  <2>3. CASE DelayResumes
    BY <2>3, EnterDelayCoherent DEF DelayResumes
  <2> QED
    BY <1>6, <2>1, <2>2, <2>3 DEF PauseDo
<1>7. CASE RunDo
  <2>1. CASE UNCHANGED <<machine, selector, testActive>>
    BY <1>1, <2>1 DEF machine
  <2>2. CASE EvEnd
    BY <2>2, EvEndCoherent
  <2>3. CASE EvPause /\ UNCHANGED <<selector, testActive>>
    BY <2>3, EvPauseCoherent
  <2>4. CASE RunEndsInReset
    <3>1. PICK sel, delay : /\ EvReset(sel, delay)
                            /\ selector' = sel /\ testActive' = FALSE
      BY <2>4 DEF RunEndsInReset, TestCycleEnd
    <3> QED
      BY <3>1, EvResetCoherent
  <2> QED
    BY <1>7, <2>1, <2>2, <2>3, <2>4
       DEF RunDo, RunEnds, RunPausesItself, RunTakesStart, RunTakesHmiAdvance,
           RunTakesExternalPause, RunTakesExternalAdvance, RunContinues,
           PauseIfAllowed, EndsIf
<1>8. ASSUME NEW removed \in BOOLEAN, FaultDo(removed)
      PROVE  Coherent'
  <2>1. CASE UNCHANGED <<machine, selector, testActive>>
    BY <1>1, <2>1 DEF machine
  <2>2. ASSUME NEW sel, EnterProgramming(sel), selector' = sel
        PROVE  Coherent'
    BY <2>2, EnterProgrammingCoherent
  <2> QED
    BY <1>8, <2>1, <2>2 DEF FaultDo, TestCycleEnd
<1>9. CASE NothingToDo
  BY <1>1, <1>9 DEF NothingToDo, machine
<1> QED
  BY <1>2, <1>3, <1>4, <1>5, <1>6, <1>7, <1>8, <1>9 DEF Execute, ProgrammingDo

\* Supervisor__Initialize keeps Coherent after a warm and a cold reset.
LEMMA ResetCoherent ==
    ASSUME Coherent, Reset
    PROVE  Coherent'
<1>1. CASE UNCHANGED <<machine, selector, testActive>>
  BY <1>1, UnchangedCoherent DEF machine, coherence
<1>2. CASE EvPause /\ UNCHANGED <<selector, testActive>>
  BY <1>2, EvPauseCoherent
<1>3. CASE ColdResetCancels
  <2>1. PICK sel, delay : /\ EvReset(sel, delay)
                          /\ selector' = sel /\ testActive' = FALSE
    BY <1>3 DEF ColdResetCancels, TestCycleEnd
  <2> QED
    BY <2>1, EvResetCoherent
<1>4. ASSUME NEW cold \in BOOLEAN, RestartTerminated(cold)
      PROVE  Coherent'
  BY <1>4 DEF RestartTerminated, Coherent, WaitingCoherent, RunCoherent,
              CancellingCoherent, OverCoherent
<1>5. ASSUME NEW cold \in BOOLEAN, RestartLeavesFault(cold)
      PROVE  Coherent'
  <2>1. PICK sel : EnterProgramming(sel) /\ selector' = sel
    BY <1>5 DEF RestartLeavesFault, TestCycleEnd
  <2> QED
    BY <2>1, EnterProgrammingCoherent
<1> QED
  BY <1>1, <1>2, <1>3, <1>4, <1>5
     DEF Reset, WarmReset, ColdResetPauses, ColdResetResumes

\* With TypeOK, Coherent is inductive.
LEMMA NextCoherent ==
    ASSUME TypeOK, Coherent, [Next]_vars
    PROVE  Coherent'
<1>1. CASE UNCHANGED vars
  BY <1>1, UnchangedCoherent DEF vars, coherence
<1> QED
  BY <1>1, EnvironmentCoherent, PassStepsCoherent, ExecuteCoherent,
     ResetCoherent
     DEF Next, ApplicationThread

\* The first power-up is coherent.
LEMMA InitCoherent ==
    ASSUME Init
    PROVE  Coherent
BY DEF Init, Coherent, WaitingCoherent, RunCoherent, CancellingCoherent,
       OverCoherent

\* In every behaviour the interpreter runs, and a pause has saved, what the
\* supervisor's state and selector say: whatever cycles there are, whichever
\* they hand over to, and whatever tests, resets and HMI requests interleave.
THEOREM SupervisorCoherent == Spec => []Coherent
<1>1. Init => TypeOK /\ Coherent
  BY InitTyped, InitCoherent
<1>2. TypeOK /\ Coherent /\ [Next]_vars => TypeOK' /\ Coherent'
  BY NextTyped, NextCoherent
<1> QED
  BY <1>1, <1>2, PTL DEF Spec
-----------------------------------------------------------------------------
(* The supervisor implements CycleLifecycle.                               *)

\* The refinement mapping depends on four variables.
LEMMA LifecycleStutter ==
    ASSUME UNCHANGED <<state, selector, interp, saved>>
    PROVE  UNCHANGED Lifecycle!cycle
BY DEF Lifecycle!cycle, Mode, Executed

\* A step of the life of a cycle under the refinement mapping.
Lives == [Lifecycle!Next]_(Lifecycle!cycle)

\* Entering PROGRAMMING is a choice, an abandonment, a cancellation or the
\* clearing of a fault, by the state it is entered from.
LEMMA EnterProgrammingLives ==
    ASSUME NEW sel \in SelectorValues, EnterProgramming(sel), selector' = sel,
           \/ state \in {"programming", "delay", "delay_pause", "cancelling",
                        "pause_cancelling", "end_of_cycle", "fault"}
           \/ state \in {"run", "pause"} /\ ~HasCancelCycle
    PROVE  Lives
<1> USE DEF EnterProgramming, Mode, Executed
<1>1. CASE state = "programming"
  BY <1>1 DEF Lifecycle!Choose, Lifecycle!Next, Lives
<1>2. CASE state \in {"delay", "delay_pause", "cancelling",
                     "pause_cancelling", "end_of_cycle"}
  BY <1>2 DEF Lifecycle!Abandon, Lifecycle!Next, Lives
<1>3. CASE state \in {"run", "pause"} /\ ~HasCancelCycle
  BY <1>3 DEF Lifecycle!Cancel, Lifecycle!Next, Lives
<1>4. CASE state = "fault"
  BY <1>4 DEF Lifecycle!Clear, Lifecycle!Next, Lives
<1> QED
  BY <1>1, <1>2, <1>3, <1>4

\* evReset is a step of the life of a cycle.
LEMMA EvResetLives ==
    ASSUME NEW sel \in SelectorValues, NEW delay, EvReset(sel, delay),
           selector' = sel
    PROVE  Lives
<1>1. CASE /\ \/ state \in {"programming", "delay", "delay_pause",
                           "cancelling", "pause_cancelling", "end_of_cycle"}
              \/ state \in {"run", "pause"} /\ ~HasCancelCycle
           /\ EnterProgramming(sel)
  BY <1>1, EnterProgrammingLives
<1>2. CASE /\ state \in {"run", "pause"} /\ HasCancelCycle
           /\ state' = "cancelling"
           /\ interp' = Running(CancelCycle)
  BY <1>2 DEF Running, Mode, Executed, Lifecycle!Cancel, Lifecycle!Next, Lives
<1>3. CASE /\ state \in {"fault", "none"}
           /\ UNCHANGED <<state, interp, saved>>
  BY <1>3 DEF Mode, Executed, Lifecycle!Choose, Lifecycle!Next, Lives
<1> QED
  BY <1>1, <1>2, <1>3 DEF EvReset

\* evPause holds what was executing.
LEMMA EvPauseLives ==
    ASSUME EvPause, UNCHANGED selector
    PROVE  Lives
<1>1. CASE UNCHANGED machine
  BY <1>1, LifecycleStutter DEF machine, Lives
<1>2. CASE state \in {"run", "cancelling", "delay"}
  BY <1>2 DEF EvPause, Mode, Executed, Lifecycle!Hold, Lifecycle!Held,
              Lifecycle!Stays, Lifecycle!Next, Lives
<1> QED
  BY <1>1, <1>2 DEF EvPause

\* evResume continues what was held.
LEMMA EvResumeLives ==
    ASSUME EvResume, UNCHANGED selector
    PROVE  Lives
BY DEF EvResume, ResumedState, Mode, Executed, Lifecycle!Continue,
       Lifecycle!Held, Lifecycle!Stays, Lifecycle!Next, Lives

\* evStart executes the program that was chosen or was waiting.
LEMMA EvStartLives ==
    ASSUME NEW sel \in SelectorValues, EvStart(sel), selector' = sel,
           \/ state = "programming" /\ sel # Off
           \/ state = "delay" /\ sel = selector
    PROVE  Lives
<1>1. CASE state = "programming"
  BY <1>1 DEF EvStart, Running, Mode, Executed, Lifecycle!StartAtOnce,
              Lifecycle!Next, Lives
<1>2. CASE state = "delay"
  BY <1>2 DEF EvStart, Running, Mode, Executed, Lifecycle!Commence,
              Lifecycle!Next, Lives
<1> QED
  BY <1>1, <1>2

\* Entering DELAY commits to a program, or goes on waiting for it.
LEMMA EnterDelayLives ==
    ASSUME NEW sel \in SelectorValues, EnterDelay(sel), selector' = sel,
           \/ state = "programming" /\ sel # Off
           \/ state = "delay_pause" /\ sel = selector
    PROVE  Lives
<1>1. CASE state = "programming"
  BY <1>1 DEF EnterDelay, Mode, Executed, Lifecycle!Schedule, Lifecycle!Next,
              Lives
<1>2. CASE state = "delay_pause"
  BY <1>2 DEF EnterDelay, Mode, Executed, Lifecycle!Continue, Lifecycle!Held,
              Lifecycle!Stays, Lifecycle!Next, Lives
<1> QED
  BY <1>1, <1>2

\* evEnd finishes a program or the drain of a cancelled one.
LEMMA EvEndLives ==
    ASSUME TypeOK, EvEnd
    PROVE  Lives
<1>1. CASE state = "cancelling"
  BY <1>1, EnterProgrammingLives DEF EvEnd, TypeOK, TestTyped
<1>2. CASE state = "run"
  <2>1. selector' \in SelectorValues
    BY EvEndTyped DEF TypeOK
  <2> QED
    BY <1>2, <2>1 DEF EvEnd, Mode, Executed, Lifecycle!Finish, Lifecycle!Next,
                      Lives
<1> QED
  BY <1>1, <1>2 DEF EvEnd

\* evFault drops what was executing.
LEMMA EvFaultLives ==
    ASSUME TypeOK, EvFault, UNCHANGED selector
    PROVE  Lives
<1>1. CASE state = "none"
  BY <1>1, LifecycleStutter DEF EvFault, machine, Lives
<1>2. CASE state # "none"
  BY <1>2 DEF EvFault, TypeOK, MachineTyped, States, Mode, Executed,
              Lifecycle!Trip, Lifecycle!Next, Lives
<1> QED
  BY <1>1, <1>2

\* The steps of a pass other than the do functions are steps of the life of
\* a cycle, or leave it alone.
LEMMA PassStepsLive ==
    ASSUME TypeOK,
           \/ Monitors \/ InterpreterRun \/ InterpreterInvalid
           \/ CheckRegulations \/ TakeFault \/ BackgroundSteps
    PROVE  Lives
<1>1. CASE UNCHANGED <<state, selector, interp, saved>>
  BY <1>1, LifecycleStutter DEF Lives
<1>2. CASE InterpreterRun
  <2>1. interp \in Configurations
    BY DEF TypeOK, MachineTyped
  <2>2. /\ interp'.cycle \in {interp.cycle} \cup BranchesOf(interp.cycle)
        /\ UNCHANGED <<state, saved, selector>>
    BY <1>2, <2>1 DEF InterpreterRun, Configurations, test
  <2>3. CASE state \in {"run", "cancelling"}
    BY <2>2, <2>3 DEF Mode, Executed, Lifecycle!Branch, Lifecycle!Next, Lives,
                      Lifecycle!cycle
  <2>4. CASE state \notin {"run", "cancelling"}
    BY <2>2, <2>4 DEF Mode, Executed, Lives, Lifecycle!cycle
  <2> QED
    BY <2>3, <2>4
<1>3. CASE InterpreterInvalid
  <2>1. CASE state = "none"
    BY <1>1, <1>3, <2>1 DEF InterpreterInvalid, test
  <2>2. CASE state # "none"
    <3>1. state \in States /\ state' = "none" /\ UNCHANGED selector
      BY <1>3 DEF InterpreterInvalid, test, TypeOK, MachineTyped
    <3> QED
      BY <2>2, <3>1 DEF States, Mode, Executed, Lifecycle!Die, Lifecycle!Next,
                        Lives
  <2> QED
    BY <2>1, <2>2
<1>4. CASE TakeResetRegulation \/ TakeExternalReset
  <2>1. PICK sel, delay :
           sel \in SelectorValues /\ EvReset(sel, delay) /\ selector' = sel
    BY <1>4, TestCycleEndTyped
       DEF TakeResetRegulation, TakeExternalReset, TestCycleEnd, TypeOK
  <2> QED
    BY <2>1, EvResetLives
<1>5. CASE TakeFault
  BY <1>5, EvFaultLives DEF TakeFault, test
<1>6. CASE EngageStarts
  <2>1. CASE state = "programming"
    <3>1. selector' \in SelectorValues /\ state' = "programming"
      BY <1>6, <2>1 DEF EngageStarts, TypeOK, TestTyped, SelectorValues,
                        RunCycles
    <3> QED
      BY <2>1, <3>1 DEF Mode, Executed, Lifecycle!Choose, Lifecycle!Next, Lives
  <2>2. CASE state # "programming"
    BY <1>1, <1>6, <2>2 DEF EngageStarts, EngageDone
  <2> QED
    BY <2>1, <2>2
<1>7. CASE EngageFails
  <2>1. PICK sel, delay :
           sel \in SelectorValues /\ EvReset(sel, delay) /\ selector' = sel
    BY <1>7, RequestsTyped DEF EngageFails, TypeOK
  <2> QED
    BY <2>1, EvResetLives
<1>8. CASE Monitors \/ ReadRegulations \/ (\E c \in TestCycles : EngageTest(c))
             \/ (\E closed \in BOOLEAN : Background(closed))
  BY <1>1, <1>8
     DEF Monitors, DoorMonitor, DoorUnread, ReadRegulations, EngageTest,
         Background, machine, test
<1> QED
  BY <1>2, <1>3, <1>4, <1>5, <1>6, <1>7, <1>8
     DEF CheckRegulations, BackgroundSteps, TypeOK, SensorsTyped
\* SupervisorFsmExecute makes a step of the life of a cycle, or none.
LEMMA ExecuteLives ==
    ASSUME TypeOK, Execute
    PROVE  Lives
<1>1. CASE UNCHANGED <<state, selector, interp, saved>>
  BY <1>1, LifecycleStutter DEF Lives
<1>2. NewSelector \in SelectorValues
  BY NewSelectorTyped DEF TypeOK
<1>3. CASE ProgrammingIdle
  <2>1. /\ state = "programming" /\ state' = "programming"
        /\ selector' \in SelectorValues
    BY <1>2, <1>3 DEF ProgrammingIdle
  <2> QED
    BY <2>1 DEF Mode, Executed, Lifecycle!Choose, Lifecycle!Next, Lives
<1>4. CASE ProgrammingStarts
  <2>1. PICK sel \in SelectorValues :
           /\ EvStart(sel) \/ EnterDelay(sel)
           /\ selector' = sel /\ sel # Off /\ state = "programming"
    BY <1>2, <1>4 DEF ProgrammingStarts
  <2> QED
    BY <2>1, EvStartLives, EnterDelayLives
<1>5. CASE ProgrammingClearsStart
  <2>1. BuffersTyped'
    BY <1>5, AnswersTyped
       DEF ProgrammingClearsStart, ProgrammingDoRegulations, TypeOK
  <2>2. selector' \in SelectorValues
    BY <1>2, <1>5, <2>1, RequestsAssumption
       DEF ProgrammingClearsStart, BuffersTyped, IsBuffer, RegulationNames,
           RequestsOf, SelectorValues, RequestsAssumption
  <2>3. state = "programming" /\ state' = "programming"
    BY <1>5 DEF ProgrammingClearsStart, EnterProgramming
  <2> QED
    BY <2>2, <2>3 DEF Mode, Executed, Lifecycle!Choose, Lifecycle!Next, Lives
<1>6. CASE DelayDo
  <2>1. CASE DelayEnds
    BY <2>1, EvStartLives DEF DelayEnds, TypeOK, TestTyped
  <2>2. CASE DelayPauses
    BY <2>2 DEF DelayPauses, Mode, Executed, Lifecycle!Hold, Lifecycle!Held,
                Lifecycle!Stays, Lifecycle!Next, Lives
  <2>3. CASE DelayTicks
    BY <1>1, <2>3 DEF DelayTicks
  <2> QED
    BY <1>6, <2>1, <2>2, <2>3 DEF DelayDo
<1>7. CASE PauseDo
  <2>1. CASE PauseHolds
    BY <1>1, <2>1 DEF PauseHolds, machine
  <2>2. CASE PauseResumes
    BY <2>2, EvResumeLives DEF PauseResumes
  <2>3. CASE DelayResumes
    BY <2>3, EnterDelayLives DEF DelayResumes, TypeOK, TestTyped
  <2> QED
    BY <1>7, <2>1, <2>2, <2>3 DEF PauseDo
<1>8. CASE RunDo
  <2>1. CASE UNCHANGED <<machine, selector, testActive>>
    BY <1>1, <2>1 DEF machine
  <2>2. CASE EvEnd
    BY <2>2, EvEndLives
  <2>3. CASE EvPause /\ UNCHANGED <<selector, testActive>>
    BY <2>3, EvPauseLives
  <2>4. CASE RunEndsInReset
    <3>1. PICK sel, delay :
             sel \in SelectorValues /\ EvReset(sel, delay) /\ selector' = sel
      BY <2>4, TestCycleEndTyped DEF RunEndsInReset, TestCycleEnd, TypeOK
    <3> QED
      BY <3>1, EvResetLives
  <2> QED
    BY <1>8, <2>1, <2>2, <2>3, <2>4
       DEF RunDo, RunEnds, RunPausesItself, RunTakesStart, RunTakesHmiAdvance,
           RunTakesExternalPause, RunTakesExternalAdvance, RunContinues,
           PauseIfAllowed, EndsIf
<1>9. ASSUME NEW removed \in BOOLEAN, FaultDo(removed)
      PROVE  Lives
  <2>1. CASE UNCHANGED <<machine, selector, testActive>>
    BY <1>1, <2>1 DEF machine
  <2>2. CASE TestCycleEnd /\ EnterProgramming(SelectorAfterTest)
    <3>1. PICK sel \in SelectorValues :
             EnterProgramming(sel) /\ selector' = sel
      BY <2>2, TestCycleEndTyped DEF TestCycleEnd, TypeOK
    <3>2. state = "fault"
      BY <1>9 DEF FaultDo
    <3> QED
      BY <3>1, <3>2, EnterProgrammingLives
  <2> QED
    BY <1>9, <2>1, <2>2 DEF FaultDo
<1>10. CASE NothingToDo
  BY <1>1, <1>10 DEF NothingToDo, machine
<1> QED
  BY <1>3, <1>4, <1>5, <1>6, <1>7, <1>8, <1>9, <1>10 DEF Execute, ProgrammingDo

\* A restart makes a step of the life of a cycle, or none.
LEMMA ResetLives ==
    ASSUME TypeOK, Reset
    PROVE  Lives
<1>1. CASE UNCHANGED <<machine, selector, testActive>>
  BY <1>1, LifecycleStutter DEF machine, Lives
<1>2. CASE EvPause /\ UNCHANGED <<selector, testActive>>
  BY <1>2, EvPauseLives
<1>3. CASE ColdResetCancels
  <2>1. PICK sel, delay :
           sel \in SelectorValues /\ EvReset(sel, delay) /\ selector' = sel
    BY <1>3, TestCycleEndTyped DEF ColdResetCancels, TestCycleEnd, TypeOK
  <2> QED
    BY <2>1, EvResetLives
<1>4. ASSUME NEW cold \in BOOLEAN, RestartTerminated(cold)
      PROVE  Lives
  BY <1>4 DEF RestartTerminated, Mode, Executed, Lifecycle!Revive,
              Lifecycle!Stays, Lifecycle!Next, Lives
<1>5. ASSUME NEW cold \in BOOLEAN, RestartLeavesFault(cold)
      PROVE  Lives
  <2>1. PICK sel \in SelectorValues : EnterProgramming(sel) /\ selector' = sel
    BY <1>5, TestCycleEndTyped
       DEF RestartLeavesFault, TestCycleEnd, TypeOK, TestTyped
  <2> QED
    BY <1>5, <2>1, EnterProgrammingLives DEF RestartLeavesFault
<1> QED
  BY <1>1, <1>2, <1>3, <1>4, <1>5
     DEF Reset, WarmReset, ColdResetPauses, ColdResetResumes

\* Every step of the supervisor maps to one of CycleLifecycle or to a stutter.
LEMMA NextLives ==
    ASSUME TypeOK, [Next]_vars
    PROVE  Lives
<1>1. CASE UNCHANGED <<machine, test>>
  BY <1>1, LifecycleStutter DEF machine, test, Lives
<1>2. CASE CommunicationThread \/ Calls
  <2>1. CASE PreFaultObserver
    BY <2>1, EvPauseLives DEF PreFaultObserver, test
  <2> QED
    BY <1>1, <1>2, <2>1
       DEF CommunicationThread, Calls, HmiRequest, Disengage, ApiAdvance,
           ProcessPause, FaultObserver
<1>3. CASE UNCHANGED vars
  BY <1>1, <1>3 DEF vars, machine, test
<1> QED
  BY <1>2, <1>3, PassStepsLive, ExecuteLives, ResetLives
     DEF Next, ApplicationThread

\* The supervisor implements CycleLifecycle under the mapping Mode, selector,
\* Executed: a committed program is neither replaced nor swapped while it
\* waits, runs or is held, and a drain never counts as a running program.
THEOREM SupervisorKeepsLifecycle == Spec => KeepsLifecycle
<1>1. Init => Lifecycle!Init
  BY DEF Init, Lifecycle!Init, Mode, Executed
<1>2. TypeOK /\ [Next]_vars => [Lifecycle!Next]_(Lifecycle!cycle)
  BY NextLives DEF Lives
<1> QED
  BY <1>1, <1>2, TypeCorrect, PTL DEF Spec, KeepsLifecycle, Lifecycle!Spec
===============================================================================
