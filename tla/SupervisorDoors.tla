--------------------------- MODULE SupervisorDoors ----------------------------
(***************************************************************************)
(* The ways into RUN: the door's theorems and the stored step's, which use *)
(* Coherent for what the interpreter's label says of the state.            *)
(***************************************************************************)
EXTENDS SupervisorProofs, TLAPS

\* evReset never enters RUN nor stays there.
LEMMA ResetRuns ==
    ASSUME NEW sel, NEW delay, EvReset(sel, delay)
    PROVE  state' # "run"
BY DEF EvReset, EnterProgramming

\* Neither evPause nor evEnd nor evFault enters RUN.
LEMMA PauseRuns ==
    ASSUME EvPause \/ EvEnd \/ EvFault, state' = "run"
    PROVE  state = "run"
BY DEF EvPause, EvEnd, EvFault, EnterProgramming, machine

\* RUN is entered by ProgrammingDo, DelayDo and PauseDo only.
LEMMA EntersRun ==
    ASSUME [Next]_vars, state # "run", state' = "run"
    PROVE  ProgrammingStarts \/ DelayEnds \/ PauseResumes
<1>1. CASE UNCHANGED state
  BY <1>1
<1>2. CASE CommunicationThread \/ Calls
  BY <1>2, PauseRuns
     DEF CommunicationThread, HmiRequest, Disengage, ApiAdvance, Calls,
         ProcessPause, FaultObserver, PreFaultObserver, machine
<1>3. CASE Monitors \/ InterpreterRun \/ InterpreterInvalid \/ CheckRegulations
             \/ TakeFault \/ BackgroundSteps
  BY <1>3, ResetRuns, PauseRuns
     DEF Monitors, DoorMonitor, DoorUnread, InterpreterRun, InterpreterInvalid,
         CheckRegulations, TakeResetRegulation, TakeExternalReset,
         ReadRegulations, TakeFault, BackgroundSteps, EngageTest, EngageStarts,
         EngageFails, Background, machine
<1>4. CASE Execute
  <2>1. CASE ProgrammingDo
    BY <2>1 DEF ProgrammingDo, ProgrammingIdle, ProgrammingClearsStart,
                EnterProgramming
  <2>2. CASE DelayDo
    BY <2>2 DEF DelayDo, DelayPauses, DelayTicks
  <2>3. CASE PauseDo
    BY <2>3 DEF PauseDo, PauseHolds, DelayResumes, EnterDelay, machine
  <2>4. CASE RunDo
    BY <2>4, ResetRuns, PauseRuns
       DEF RunDo, RunEnds, RunEndsInReset, RunPausesItself, RunTakesStart,
           RunTakesHmiAdvance, RunTakesExternalPause, RunTakesExternalAdvance,
           RunContinues, PauseIfAllowed, EndsIf, machine
  <2>5. ASSUME NEW removed \in BOOLEAN, FaultDo(removed)
        PROVE  FALSE
    BY <2>5 DEF FaultDo, EnterProgramming, machine
  <2>6. CASE NothingToDo
    BY <2>6 DEF NothingToDo, machine
  <2> QED
    BY <1>4, <2>1, <2>2, <2>3, <2>4, <2>5, <2>6 DEF Execute
<1>5. CASE Reset
  BY <1>5, ResetRuns, PauseRuns
     DEF Reset, WarmReset, ColdResetCancels, ColdResetPauses, ColdResetResumes,
         RestartTerminated, RestartLeavesFault, EnterProgramming, machine
<1> QED
  BY <1>1, <1>2, <1>3, <1>4, <1>5 DEF Next, ApplicationThread, vars

\* A stored step does not outlive the entry into RUN, and none is stored there.
LEMMA StepAdvanceNext ==
    ASSUME Coherent, StepAdvanceBelongsToPause, [Next]_vars
    PROVE  StepAdvanceBelongsToPause'
<1> SUFFICES ASSUME state' = "run"
             PROVE  stepAdvance' = None
  BY DEF StepAdvanceBelongsToPause
<1>1. CASE state # "run"
  BY <1>1, EntersRun
     DEF ProgrammingStarts, DelayEnds, PauseResumes, EvResume, ResumedState,
         EnterDelay
<1>2. CASE state = "run"
  <2>1. stepAdvance = None
    BY <1>2 DEF StepAdvanceBelongsToPause
  <2>2. interp.label # "pause"
    BY <1>2 DEF Coherent, RunCoherent, Runs
  <2>3. CASE UNCHANGED stepAdvance
    BY <2>1, <2>3
  <2>4. CASE Monitors
    BY <2>1, <2>2, <2>4 DEF Monitors, DoorMonitor, DoorUnread, StoresStepAdvance
  <2>5. CASE CommunicationThread \/ Calls \/ InterpreterRun
               \/ InterpreterInvalid \/ CheckRegulations \/ TakeFault
               \/ BackgroundSteps
    BY <2>3, <2>5
       DEF CommunicationThread, HmiRequest, Disengage, ApiAdvance, Calls,
           ProcessPause, FaultObserver, PreFaultObserver, InterpreterRun,
           InterpreterInvalid, CheckRegulations, TakeResetRegulation,
           TakeExternalReset, ReadRegulations, CheckRegulationsDone, TakeFault,
           BackgroundSteps, EngageTest, EngageStarts, EngageFails, EngageDone,
           Background
  <2>6. CASE Execute
    BY <1>2, <2>3, <2>6
       DEF Execute, ProgrammingDo, ProgrammingIdle, ProgrammingStarts,
           ProgrammingClearsStart, DelayDo, DelayEnds, DelayPauses, DelayTicks,
           PauseDo, PauseHolds, PauseResumes, DelayResumes, PausedStates,
           RunDo, RunEnds, RunEndsInReset, RunPausesItself, RunTakesStart,
           RunTakesHmiAdvance, RunTakesExternalPause, RunTakesExternalAdvance,
           RunContinues, FaultDo, NothingToDo
  <2>7. CASE Reset
    BY <2>1, <2>7
       DEF Reset, WarmReset, ColdResetCancels, ColdResetPauses,
           ColdResetResumes, RestartTerminated, RestartLeavesFault, Restarted
  <2> QED
    BY <2>3, <2>4, <2>5, <2>6, <2>7 DEF Next, ApplicationThread, vars
<1> QED
  BY <1>1, <1>2

\* A step stored behind an open door never waits in a running cycle, with or
\* without rapid advance.
THEOREM StepAdvanceIsTaken == Spec => []StepAdvanceBelongsToPause
<1>1. Init => StepAdvanceBelongsToPause
  BY DEF Init, StepAdvanceBelongsToPause
<1>2. /\ Coherent /\ StepAdvanceBelongsToPause /\ [Next]_vars
      => StepAdvanceBelongsToPause'
  BY StepAdvanceNext
<1> QED
  BY <1>1, <1>2, SupervisorCoherent, PTL DEF Spec

\* Nothing but the user starts a cycle: the door's monitor asks for a start in
\* the life test and with rapid advance only, the test manager in a test.
UserStarts == ~LifeTest /\ ~RapidAdvance /\ "test" \notin Environment

\* No start is pending that the user did not select, and none will be.
NoExternalStart == ext.start # "start" /\ engaging = None

\* Supervisor__SetStart writes the command it is called with.
LEMMA SetStartSets ==
    ASSUME TypeOK, NEW command
    PROVE  SetStart(command).start = command
BY DEF TypeOK, ExternalTyped, SetStart

\* If nothing but the user starts a cycle, no external start is ever pending.
LEMMA NoExternalStartNext ==
    ASSUME UserStarts, TypeOK, NoExternalStart, [Next]_vars
    PROVE  NoExternalStart'
<1> USE DEF NoExternalStart
<1>1. CASE UNCHANGED <<ext, engaging>>
  BY <1>1
<1>2. \A command : SetStart(command).start = command
  BY SetStartSets
<1>3. pc # "engage"
  BY DEF TypeOK, TestTyped
<1>4. CASE CommunicationThread \/ Calls
  <2>1. ASSUME NEW v, ApiAdvance(v)
        PROVE  NoExternalStart'
    BY <2>1 DEF ApiAdvance, TypeOK, ExternalTyped, test
  <2> QED
    BY <1>1, <1>2, <1>4, <2>1
       DEF CommunicationThread, HmiRequest, Disengage, ApiAdvance, Calls,
           ProcessPause, FaultObserver, PreFaultObserver, test
<1>5. CASE Monitors \/ InterpreterRun \/ InterpreterInvalid \/ CheckRegulations
             \/ TakeFault \/ BackgroundSteps
  BY <1>1, <1>2, <1>3, <1>5
     DEF UserStarts, Monitors, DoorMonitor, DoorUnread, InterpreterRun,
         InterpreterInvalid, CheckRegulations, TakeResetRegulation,
         TakeExternalReset, ReadRegulations, CheckRegulationsDone, TakeFault,
         BackgroundSteps,
         EngageTest, EngageStarts, EngageFails, Background, test
<1>6. CASE Execute
  <2>1. ExecuteDone => engaging' = None
    BY DEF ExecuteDone
  <2>2. CASE ProgrammingDo \/ DelayDo
    BY <1>2, <2>1, <2>2
       DEF ProgrammingDo, ProgrammingIdle, ProgrammingStarts,
           ProgrammingClearsStart, DelayDo, DelayEnds, DelayPauses, DelayTicks
  <2>3. CASE PauseDo
    <3>1. CASE ext' = SetStart(ExternalStartRead)
      BY <1>2, <2>1, <2>3, <3>1
         DEF PauseDo, PauseHolds, PauseResumes, DelayResumes, ExternalStartRead
    <3>2. CASE ext' = [ext EXCEPT !.start = ExternalStartRead,
                                  !.step = StepAfterRunEntry]
      BY <2>1, <2>3, <3>2
         DEF PauseDo, PauseHolds, PauseResumes, DelayResumes,
             ExternalStartRead, TypeOK, ExternalTyped
    <3> QED
      BY <2>3, <3>1, <3>2 DEF PauseDo, PauseHolds, PauseResumes, DelayResumes
  <2>4. CASE RunDo
    <3>1. CASE RunTakesExternalAdvance
      BY <2>1, <3>1 DEF RunTakesExternalAdvance, TypeOK, ExternalTyped
    <3> QED
      BY <1>2, <2>1, <2>4, <3>1
         DEF RunDo, RunEnds, RunEndsInReset, RunPausesItself, RunTakesStart,
             RunTakesHmiAdvance, RunTakesExternalPause, RunContinues
  <2>5. ASSUME NEW removed \in BOOLEAN, FaultDo(removed)
        PROVE  NoExternalStart'
    BY <1>2, <2>1, <2>5 DEF FaultDo
  <2>6. CASE NothingToDo
    BY <2>1, <2>6 DEF NothingToDo
  <2> QED
    BY <1>6, <2>2, <2>3, <2>4, <2>5, <2>6 DEF Execute
<1>7. CASE Reset
  BY <1>7
     DEF Reset, WarmReset, ColdResetCancels, ColdResetPauses, ColdResetResumes,
         RestartTerminated, RestartLeavesFault, Restarted
<1> QED
  BY <1>1, <1>4, <1>5, <1>6, <1>7 DEF Next, ApplicationThread, vars
\* RUN is entered behind closed doors when no external start is pending.
LEMMA StartsBehindDoors ==
    ASSUME NoExternalStart, [Next]_vars, state # "run", state' = "run"
    PROVE  /\ doorClosed /\ cartridgeClosed
           /\ UNCHANGED doorClosed
BY EntersRun
   DEF NoExternalStart, ProgrammingStarts, Commanded, StartAccepted, DelayEnds,
       DelayOver, PauseResumes, OkToStartCycle, ExecuteDone, sensors

\* What OpenDoorPausesRun depends on beyond UserStarts: the door is opened by
\* hand, no reset and no test loses the request, and a cycle that may be
\* paused is not entered from one that may not.
DoorPauses ==
    /\ UserStarts
    /\ Environment \cap {"dos", "disengage", "warm_reset", "cold_reset"} = {}
    /\ \A c \in RunCycles : JumpTargets[c] \cap Pausable # {} => c \in Pausable

\* OpenDoorPausesRun is inductive with TypeOK, Coherent and NoExternalStart.
LEMMA OpenDoorNext ==
    ASSUME DoorPauses, TypeOK, Coherent, NoExternalStart, OpenDoorPausesRun,
           [Next]_vars
    PROVE  OpenDoorPausesRun'
<1> SUFFICES ASSUME state' = "run", ~doorClosed', interp'.cycle \in Pausable
             PROVE  ext'.start = "pause"
  BY DEF OpenDoorPausesRun, OkToPauseCycle
<1>1. CASE state # "run"
  BY <1>1, StartsBehindDoors
<1>2. CASE state = "run"
  <2>1. interp.label = "run"
    BY <1>2 DEF Coherent, RunCoherent, Runs
  <2>2. CASE UNCHANGED <<interp, doorClosed, ext>>
    BY <1>2, <2>2 DEF OpenDoorPausesRun, OkToPauseCycle
  <2>3. CASE CommunicationThread \/ Calls
    <3>1. ASSUME NEW v, ApiAdvance(v)
          PROVE  ext'.start = ext.start /\ UNCHANGED <<interp, doorClosed>>
      BY <3>1 DEF ApiAdvance, TypeOK, ExternalTyped, machine, sensors
    <3>2. CASE ProcessPause
      BY <3>2, SetStartSets DEF ProcessPause
    <3>3. CASE PreFaultObserver
      BY <1>2, <3>3 DEF PreFaultObserver, EvPause
    <3> QED
      BY <1>2, <2>2, <2>3, <3>1, <3>2, <3>3
         DEF CommunicationThread, HmiRequest, Disengage, ApiAdvance, Calls,
             FaultObserver, machine, sensors, DoorPauses, OpenDoorPausesRun,
             OkToPauseCycle
  <2>4. CASE Monitors
    <3> SUFFICES ASSUME ~DoorUnread
                 PROVE  ext'.start = "pause"
      BY <2>2 DEF DoorUnread, machine, sensors
    <3>1. PICK closed \in BOOLEAN : DoorMonitor(closed, FALSE)
      BY <2>4 DEF Monitors, DoorPauses, TypeOK, SensorsTyped
    <3>2. /\ UNCHANGED interp /\ ~closed
      BY <3>1 DEF DoorMonitor, machine
    <3>3. CASE doorClosed
      BY <1>2, <2>1, <3>1, <3>2, <3>3, SetStartSets
         DEF DoorMonitor, PauseGranted
    <3>4. CASE ~doorClosed
      <4>1. ext.start = "pause"
        BY <1>2, <3>2, <3>4 DEF OpenDoorPausesRun, OkToPauseCycle
      <4> QED
        BY <3>1, <3>2, <3>4, <4>1, SetStartSets DEF DoorMonitor
    <3> QED
      BY <3>3, <3>4
  <2>5. CASE InterpreterRun
    <3>1. interp \in Configurations
      BY DEF TypeOK, MachineTyped
    <3>2. interp.cycle \in Pausable
      BY <2>5, <3>1
         DEF InterpreterRun, Configurations, BranchesOf, DoorPauses
    <3> QED
      BY <1>2, <2>5, <3>2
         DEF InterpreterRun, OpenDoorPausesRun, OkToPauseCycle, sensors
  <2>6. CASE InterpreterInvalid \/ CheckRegulations \/ TakeFault
    BY <1>2, <2>2, <2>6, ResetRuns
       DEF InterpreterInvalid, CheckRegulations, TakeResetRegulation,
           TakeExternalReset, ReadRegulations, CheckRegulationsDone, TakeFault,
           EvFault, sensors
  <2>7. CASE BackgroundSteps
    BY <1>2, <2>2, <2>7, ResetRuns
       DEF BackgroundSteps, EngageTest, EngageStarts, EngageFails, Background,
           DoorPauses, UserStarts, machine
  <2>8. CASE Execute
    <3>1. RunDo
      BY <1>2, <2>8
         DEF Execute, ProgrammingDo, ProgrammingIdle, ProgrammingStarts,
             ProgrammingClearsStart, DelayDo, DelayEnds, DelayPauses,
             DelayTicks, PauseDo, PauseHolds, PauseResumes, DelayResumes,
             PausedStates, FaultDo, NothingToDo
    <3>2. UNCHANGED doorClosed /\ UNCHANGED machine
      BY <1>2, <3>1, ResetRuns
         DEF RunDo, RunEnds, RunEndsInReset, RunPausesItself, RunTakesStart,
             RunTakesHmiAdvance, RunTakesExternalPause,
             RunTakesExternalAdvance, RunContinues, PauseIfAllowed, EndsIf,
             EvEnd, EvPause, ExecuteDone, sensors
    <3>3. ext.start = "pause"
      BY <1>2, <3>2 DEF machine, OpenDoorPausesRun, OkToPauseCycle
    <3>4. ~RunTakesExternalPause
      BY <1>2, <3>2
         DEF RunTakesExternalPause, PauseIfAllowed, OkToPauseCycle, EvPause,
             machine
    <3> QED
      BY <3>1, <3>3, <3>4
         DEF RunDo, RunEnds, RunEndsInReset, RunPausesItself, RunTakesStart,
             RunTakesHmiAdvance, RunTakesExternalAdvance, RunContinues
  <2>9. CASE Reset
    BY <2>9
       DEF Reset, WarmReset, ColdResetCancels, ColdResetPauses,
           ColdResetResumes, RestartTerminated, RestartLeavesFault, Restarted,
           DoorPauses
  <2> QED
    BY <2>2, <2>3, <2>4, <2>5, <2>6, <2>7, <2>8, <2>9
       DEF Next, ApplicationThread, vars
<1> QED
  BY <1>1, <1>2

\* No cycle starts or resumes behind an open door, in an appliance whose
\* life test, rapid advance and test manager are out of the game.
THEOREM DoorsClosedAtStart ==
    ASSUME UserStarts
    PROVE  Spec => StartsBehindClosedDoors
<1>1. Init => NoExternalStart
  BY DEF Init, NoExternalStart
<1>2. TypeOK /\ NoExternalStart /\ [Next]_vars => NoExternalStart'
  BY NoExternalStartNext
<1>3. NoExternalStart /\ [Next]_vars
      => [state # "run" /\ state' = "run"
            => doorClosed /\ cartridgeClosed]_vars
  BY StartsBehindDoors
<1> QED
  BY <1>1, <1>2, <1>3, TypeCorrect, PTL DEF Spec, StartsBehindClosedDoors

\* The pause that an opened door asks for is not lost until it is taken, under
\* the conditions DoorPauses names.
THEOREM OpenDoorPauses ==
    ASSUME DoorPauses
    PROVE  Spec => []OpenDoorPausesRun
<1>1. Init => NoExternalStart /\ OpenDoorPausesRun
  BY DEF Init, NoExternalStart, OpenDoorPausesRun
<1>2. /\ TypeOK /\ Coherent /\ NoExternalStart /\ OpenDoorPausesRun
      /\ [Next]_vars
      => NoExternalStart' /\ OpenDoorPausesRun'
  BY NoExternalStartNext, OpenDoorNext DEF DoorPauses
<1> QED
  BY <1>1, <1>2, TypeCorrect, SupervisorCoherent, PTL DEF Spec
===============================================================================
