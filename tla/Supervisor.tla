------------------------------ MODULE Supervisor ------------------------------
(***************************************************************************)
(* The supervisor of the dishwasher's compartment: the state machine that  *)
(* starts, delays, pauses, cancels and ends cycles, the regulations by     *)
(* which the user interface asks for that, the external requests of the    *)
(* door monitor and of the test manager, and the cycle the interpreter is  *)
(* configured to run.                                                      *)
(*                                                                         *)
(* The application thread makes one pass of the supervisor every 100 ms.   *)
(* The communication thread has a higher priority and writes the requested *)
(* regulations and some external requests; `pc' names the seams of a pass  *)
(* at which what it wrote is next looked at.  There is one compartment.    *)
(***************************************************************************)
EXTENDS Naturals

CONSTANTS
    UserCycles,      \* run cycles the user can select
    TestCycles,      \* run cycles of the end-of-line and service tests
    CancelCycle,     \* the cycle named CYCLE_NAME_CANCEL, or NoCycle
    NoCycle,         \* Selector__GetCycleByName found nothing (0xFF)
    Off,             \* cycle 0, the selector in its OFF position
    BadCycle,        \* a selector value whose phase data cannot be loaded
    Pausable,        \* run cycles whose heading allows a pause
    JumpTargets,     \* run cycle |-> the cycles a JUMP_IF of it can reach
    ColdResetBehavior, \* cycle |-> what its heading asks after a cold reset
    TicksPerSecond,  \* passes of the supervisor in a second of the delay: 10
    StartRequests, SelectorRequests, DelayRequests, AdvanceRequests,
                     \* what the HMI may request of each regulation
    Environment,     \* which actors of the environment are present
    LifeTest, RapidAdvance, \* the two door-closing regulations are ON
    None

HasCancelCycle == CancelCycle # NoCycle

\* Selector__GetCycleState(cycle) = CYCLE_STATE_RUN
RunCycles == UserCycles \cup TestCycles
                \cup (IF HasCancelCycle THEN {CancelCycle} ELSE {})

StartCommands ==
    {"dont_care", "start", "reset", "pause", "reset_fault", "restart", "end"}

Behaviors == {"cancel", "pause", "resume"}

Actors == {"door", "dos", "brownout", "cartridge", "fault", "prefault",
           "process", "test", "disengage", "advance_api", "warm_reset",
           "cold_reset"}

ASSUME CyclesAssumption ==
    /\ Off \notin RunCycles /\ BadCycle \notin RunCycles \cup {Off}
    /\ None \notin RunCycles \cup {Off, BadCycle}
    /\ CancelCycle \notin UserCycles \cup TestCycles
    /\ UserCycles \cap TestCycles = {}
    /\ JumpTargets \in [RunCycles -> SUBSET RunCycles]
    /\ ColdResetBehavior \in [RunCycles \cup {Off, BadCycle} -> Behaviors]

ASSUME RequestsAssumption ==
    /\ TicksPerSecond \in Nat \ {0}
    /\ StartRequests \subseteq StartCommands
    /\ SelectorRequests \subseteq RunCycles \cup {Off, BadCycle}
    /\ DelayRequests \subseteq Nat
    /\ None \notin AdvanceRequests /\ None \notin StartCommands
    /\ LifeTest \in BOOLEAN /\ RapidAdvance \in BOOLEAN
    /\ Environment \subseteq Actors

-----------------------------------------------------------------------------
States == {"none", "programming", "delay", "delay_pause", "run", "pause",
           "cancelling", "pause_cancelling", "end_of_cycle", "fault"}

Labels == {"programming", "delay", "run", "pause", "end", "fault"}

Results == {"continue", "end_cycle", "end_cycle_reset", "pause"}

SelectorValues == RunCycles \cup {Off, BadCycle}

\* What the interpreter is configured to run: the run cycle itself, or the
\* cycle of a supervisor state (its label) on behalf of a selected cycle.
Configurations == [label : Labels, cycle : SelectorValues]

Running(c)     == [label |-> "run", cycle |-> c]
Macro(l, c)    == [label |-> l, cycle |-> c]
BlankResumeData == [label |-> "programming", cycle |-> Off]

\* The cycles that a JUMP_IF of `c' can reach.
BranchesOf(c) == IF c \in RunCycles THEN JumpTargets[c] ELSE {}

RegulationNames == {"start", "selector", "delay", "phase", "step"}

RequestsOf(f) == CASE f = "start"    -> StartRequests \cup {"dont_care"}
                   [] f = "selector" -> SelectorRequests \cup {Off}
                   [] f = "delay"    -> DelayRequests \cup {0}
                   [] OTHER          -> AdvanceRequests \cup {None}

\* A buffer of regulation indices, one for each regulation.
IsBuffer(b) == /\ b = [f \in RegulationNames |-> b[f]]
               /\ \A f \in RegulationNames : b[f] \in RequestsOf(f)

VARIABLES
    pc,          \* seam of the application thread's pass
    state,       \* Supervisor_Data.State
    fault,       \* Supervisor_Data.Fault
    testActive,  \* Supervisor_Data.Test_Cycle_Active
    engaging,    \* test cycle an EngageTest in progress will start, or None
    selector,    \* Spv_Regulations.Selector_Value
    start,       \* Start_Value if Start_Changed, else None
    result,      \* Interpreter_Result of this pass and the cycle it is about
    delayLeft,   \* Supervisor_Delay_Time_Remaining
    delayTicks,  \* Time_Counter, which matters in DELAY only
    ext,         \* External_Request
    requested,   \* Regulations_Index_Request_Buffer, by regulation
    accepted,    \* Regulations_Index_Buffer, by regulation
    interp,      \* Interpreter_Data: what the interpreter runs
    saved,       \* Pause_Resume_Data
    doorClosed,  \* Door_Status of the door monitor
    cartridgeClosed, \* Cartridge_Door_Status
    stepAdvance, \* Step_Advance_Request of the door monitor, or None
    stable       \* System_Stable of the appliance manager

machine   == <<state, interp, saved, delayLeft, delayTicks>>
test      == <<selector, testActive, engaging>>
buffers   == <<requested, accepted>>
sensors   == <<doorClosed, cartridgeClosed>>
pass      == <<pc, start, result, fault>>
vars == <<pc, state, fault, testActive, engaging, selector, start, result,
          delayLeft, delayTicks, ext, requested, accepted, interp, saved,
          doorClosed, cartridgeClosed, stepAdvance, stable>>

NoResult == [value |-> "continue", cycle |-> None]

PassTyped ==
    /\ pc \in {"monitors", "interpreter", "regulations", "fault", "execute",
               "engage", "background"}
    /\ fault \in BOOLEAN
    /\ start \in StartCommands \cup {None}
    /\ result \in [value : Results, cycle : SelectorValues \cup {None}]

MachineTyped ==
    /\ state \in States
    /\ interp \in Configurations /\ saved \in Configurations
    /\ delayLeft \in Nat /\ delayTicks \in 0..TicksPerSecond - 1

TestTyped == /\ selector \in SelectorValues /\ testActive \in BOOLEAN
             /\ engaging \in TestCycles \cup {None}
             /\ pc = "engage" => engaging # None

BuffersTyped == IsBuffer(requested) /\ IsBuffer(accepted)

ExternalTyped ==
    /\ ext \in [start : StartCommands, phase : AdvanceRequests \cup {None},
                step : AdvanceRequests \cup {None}]
    /\ stepAdvance \in AdvanceRequests \cup {None}

SensorsTyped == /\ doorClosed \in BOOLEAN /\ cartridgeClosed \in BOOLEAN
                /\ stable \in BOOLEAN

\* The type invariant of the supervisor's data, of the regulations it reads
\* and of the interpreter's configuration.
TypeOK == /\ PassTyped /\ MachineTyped /\ TestTyped
          /\ BuffersTyped /\ ExternalTyped /\ SensorsTyped

\* The first power-up: no appliance data could be restored.
Init ==
    /\ pc = "monitors" /\ state = "programming" /\ stable = FALSE
    /\ fault = FALSE /\ testActive = FALSE /\ engaging = None
    /\ selector = Off /\ start = None /\ result = NoResult
    /\ delayLeft = 0 /\ delayTicks = 0
    /\ ext = [start |-> "dont_care", phase |-> None, step |-> None]
    /\ requested = [f \in RegulationNames |->
                      CASE f = "start" -> "dont_care" [] f = "selector" -> Off
                        [] f = "delay" -> 0 [] OTHER -> None]
    /\ accepted = requested
    /\ interp = Macro("programming", Off) /\ saved = BlankResumeData
    /\ doorClosed = FALSE /\ cartridgeClosed = TRUE
    /\ stepAdvance = None

-----------------------------------------------------------------------------
(* Regulations: a request differs from what is in force until the module   *)
(* that owns the regulation accepts or rejects it.                         *)

Changed(f) == requested[f] # accepted[f]

\* Fault: accepting leaves the old index in force.
AcceptLosesIndex(fs) == accepted' = accepted

Accept(fs) == accepted' = [f \in RegulationNames |->
                             IF f \in fs THEN requested[f] ELSE accepted[f]]

Reject(fs) == requested' = [f \in RegulationNames |->
                              IF f \in fs THEN accepted[f] ELSE requested[f]]

\* Fault: only the cartridge's door is looked at.
OkToStartIgnoresDoor == cartridgeClosed

OkToStartCycle == doorClosed /\ cartridgeClosed

\* SetCycle and ProgrammingDo: the value names a RUN or a PROGRAMMING cycle.
Selectable(c) == c \in RunCycles \cup {Off}

\* TestCycleEnd: the selector falls back to the requested regulation.
SelectorAfterTest == IF testActive THEN requested["selector"] ELSE selector

\* Fault: the test is still marked active.
TestCycleEndKeepsFlag == /\ selector' = SelectorAfterTest
                         /\ UNCHANGED testActive

TestCycleEnd == /\ selector' = SelectorAfterTest
                /\ testActive' = FALSE

-----------------------------------------------------------------------------
(* Supervisor__SetStart and its two companions, by the requests made of    *)
(* them.  `Granted' is the guard, in the state the caller sees.            *)

StartGranted(closed) ==
    /\ \/ state = "programming" /\ interp.cycle # Off
       \/ state = "pause"
    /\ closed /\ cartridgeClosed

\* Fault: RUN is missing from the states.
PauseGrantedNotInRun == state \in {"cancelling", "delay"}

PauseGranted == state \in {"run", "cancelling", "delay"}

AdvanceGranted == state \in {"run", "cancelling"}

SetStart(command) == [ext EXCEPT !.start = command]

-----------------------------------------------------------------------------
(* The events of the generated state machine, with the exit, transition    *)
(* and entry functions of every transition.                                *)

\* ProgrammingEntry after the transition action Reset.
EnterProgramming(sel) ==
    /\ state' = "programming"
    /\ interp' = Macro("programming", sel)
    /\ delayLeft' = requested["delay"]
    /\ delayTicks' = 0
    /\ UNCHANGED saved

\* evReset; `delay' is the delay time left if PROGRAMMING is not entered.
EvReset(sel, delay) ==
    \/ /\ \/ state \in {"programming", "delay", "delay_pause", "cancelling",
                        "pause_cancelling", "end_of_cycle"}
          \/ state \in {"run", "pause"} /\ ~HasCancelCycle
       /\ EnterProgramming(sel)
    \/ /\ state \in {"run", "pause"} /\ HasCancelCycle
       /\ state' = "cancelling"
       /\ interp' = Running(CancelCycle)
       /\ delayLeft' = delay
       /\ UNCHANGED <<saved, delayTicks>>
    \/ /\ state \in {"fault", "none"}
       /\ delayLeft' = delay
       /\ UNCHANGED <<state, interp, saved, delayTicks>>

\* evPause, with PauseEntry and DelayPauseEntry.
EvPause ==
    \/ /\ state \in {"run", "cancelling"}
       /\ state' = IF state = "run" THEN "pause" ELSE "pause_cancelling"
       /\ saved' = interp
       /\ interp' = Macro("pause", interp.cycle)
       /\ UNCHANGED <<delayLeft, delayTicks>>
    \/ /\ state = "delay"
       /\ state' = "delay_pause"
       /\ interp' = Macro("pause", selector)
       /\ delayTicks' = 0
       /\ UNCHANGED <<saved, delayLeft>>
    \/ /\ state \notin {"run", "cancelling", "delay"}
       /\ UNCHANGED machine

\* Fault: the pause of a drain resumes into RUN.
ResumedStateForgetsDrain == "run"

ResumedState == IF state = "pause" THEN "run" ELSE "cancelling"

\* evResume in PAUSE and PauseCancelling, after RestoreFromPauseResumeData.
EvResume ==
    /\ state \in {"pause", "pause_cancelling"}
    /\ state' = ResumedState
    /\ interp' = saved
    /\ saved' = BlankResumeData
    /\ UNCHANGED <<delayLeft, delayTicks>>

\* evResume in DELAY_PAUSE and evDelay in PROGRAMMING, with DelayEntry.
EnterDelay(sel) ==
    /\ state' = "delay"
    /\ interp' = Macro("delay", sel)
    /\ delayTicks' = 0
    /\ UNCHANGED <<saved, delayLeft>>

\* Fault: the cycle configured before the selector was read is started.
EvStartPreviousSelector(sel) ==
    /\ state' = "run" /\ interp' = Running(interp.cycle)
    /\ delayTicks' = 0 /\ delayLeft' = 0 /\ UNCHANGED saved

\* evStart, after Interpreter__Configure for phase 0 of the cycle.
EvStart(sel) ==
    /\ state' = "run"
    /\ interp' = Running(sel)
    /\ delayTicks' = 0
    /\ delayLeft' = 0
    /\ UNCHANGED saved

\* evEnd, with EndEntry; a test cycle is over once its END macro runs.
EvEnd ==
    \/ /\ state = "cancelling"
       /\ EnterProgramming(selector)
       /\ UNCHANGED <<selector, testActive>>
    \/ /\ state = "run"
       /\ state' = "end_of_cycle"
       /\ interp' = Macro("end", selector)
       /\ TestCycleEnd
       /\ UNCHANGED <<saved, delayLeft, delayTicks>>

\* evFault, with FaultEntry.
EvFault ==
    IF state = "none"
    THEN UNCHANGED machine
    ELSE /\ state' = "fault"
         /\ interp' = Macro("fault", Off)
         /\ delayTicks' = 0
         /\ UNCHANGED <<saved, delayLeft>>

\* RUN_ENTRY: CycleResume__CheckStepAdvance asks for the stored step, and
\* Supervisor__SetStep looks at the state the event has not yet written.
StepAfterRunEntry ==
    IF RapidAdvance /\ stepAdvance # None /\ AdvanceGranted
    THEN stepAdvance ELSE ext.step

-----------------------------------------------------------------------------
(* The communication thread, which can run at any seam of the pass.        *)

\* SET_REGULATIONS: the HMI overwrites a request.
HmiRequest(f, v) ==
    /\ v # requested[f]
    /\ requested' = [requested EXCEPT ![f] = v]
    /\ UNCHANGED <<machine, test, pass, accepted, ext, sensors, stepAdvance,
                   stable>>

\* TestMgr__EngageTest(TESTMGR_DISENGAGE): SetStart(FS_RESET_CONDITION).
Disengage ==
    /\ "disengage" \in Environment
    /\ ext' = SetStart("reset")
    /\ UNCHANGED <<machine, test, pass, buffers, sensors, stepAdvance, stable>>

\* TestMgr__SetPhase and TestMgr__SetStep.
ApiAdvance(v) ==
    /\ "advance_api" \in Environment
    /\ AdvanceGranted
    /\ \/ ext' = [ext EXCEPT !.phase = v]
       \/ ext' = [ext EXCEPT !.step = v]
    /\ UNCHANGED <<machine, test, pass, buffers, sensors, stepAdvance, stable>>

CommunicationThread ==
    \/ \E f \in RegulationNames : \E v \in RequestsOf(f) : HmiRequest(f, v)
    \/ Disengage
    \/ \E v \in AdvanceRequests : ApiAdvance(v)

-----------------------------------------------------------------------------
(* The application thread: monitors, then Supervisor__Run, then the        *)
(* monitors and handlers that follow it.                                   *)

\* Fault: the label is not looked at.
StoresStepInAnyState(closed) == ~closed /\ RapidAdvance /\ Changed("step")

\* With rapid advance ON, the step the HMI asks for behind the open door of a
\* paused cycle is kept for its resumption.
StoresStepAdvance(closed) ==
    ~closed /\ interp.label = "pause" /\ RapidAdvance /\ Changed("step")

\* While the system is not stable the handler skips Supervisor__Run.
StablePass == \/ pc' = "interpreter" /\ stable' = TRUE
              \/ pc' = "background" /\ ~stable /\ UNCHANGED stable

\* DoorMonitor__Execution with a reading of the door.
DoorMonitor(closed, byDOS) ==
    LET opened  == doorClosed /\ ~closed
        shut    == ~doorClosed /\ closed
        command == CASE opened /\ interp.label \in {"run", "delay"} /\ ~byDOS
                                   /\ PauseGranted       -> "pause"
                     [] shut /\ (LifeTest \/ RapidAdvance)
                             /\ interp.label = "pause"
                             /\ StartGranted(closed)     -> "start"
                     [] OTHER                            -> ext.start
        stores  == StoresStepAdvance(closed)
    IN  /\ pc = "monitors"
        /\ doorClosed' = closed
        /\ ext' = SetStart(command)
        /\ stepAdvance' = IF stores THEN requested["step"] ELSE stepAdvance
        /\ Accept(IF stores THEN {"step"} ELSE {})
        /\ StablePass
        /\ UNCHANGED <<machine, test, start, result, fault, requested,
                       cartridgeClosed>>

\* DoorMonitor__Execution during a brown-out, or before the first reading.
DoorUnread ==
    /\ "brownout" \in Environment
    /\ pc = "monitors"
    /\ StablePass
    /\ UNCHANGED <<machine, test, start, result, fault, ext, buffers, sensors,
                   stepAdvance>>

Monitors ==
    \/ DoorMonitor(doorClosed, FALSE)
    \/ "door" \in Environment /\ DoorMonitor(~doorClosed, FALSE)
    \/ {"door", "dos"} \subseteq Environment /\ DoorMonitor(~doorClosed, TRUE)
    \/ DoorUnread

\* The seams at which a monitor or a process of the running step may call
\* into the supervisor: before, inside and after Interpreter__Run.
CallSeam == pc \in {"monitors", "regulations", "background"}

\* A fill process, or the power-loss monitor, asks for a pause.
ProcessPause ==
    /\ "process" \in Environment /\ CallSeam
    /\ PauseGranted
    /\ ext' = SetStart("pause")
    /\ UNCHANGED <<machine, test, pass, buffers, sensors, stepAdvance, stable>>

\* SupervisorFaultObserver.
FaultObserver ==
    /\ "fault" \in Environment /\ CallSeam
    /\ fault' = TRUE
    /\ UNCHANGED <<machine, test, pc, start, result, ext, buffers, sensors,
                   stepAdvance, stable>>

\* SupervisorPreFaultObserver dispatches evPause where it is called.
PreFaultObserver ==
    /\ "prefault" \in Environment /\ CallSeam
    /\ EvPause
    /\ UNCHANGED <<test, pass, ext, buffers, sensors, stepAdvance, stable>>

\* Interpreter__Run of the step loop: the result of the last step, and the
\* cycle a JUMP_IF may have moved to.
InterpreterRun ==
    /\ pc = "interpreter"
    /\ interp.cycle # BadCycle
    /\ \E v \in Results : result' = [value |-> v, cycle |-> interp.cycle]
    /\ \E c \in {interp.cycle} \cup (IF interp.label = "run"
                                     THEN BranchesOf(interp.cycle) ELSE {}) :
          interp' = [interp EXCEPT !.cycle = c]
    /\ pc' = "regulations"
    /\ UNCHANGED <<state, saved, delayLeft, delayTicks, test, start, fault, ext,
                   buffers, sensors, stepAdvance, stable>>

\* The phase cannot be loaded: SupervisorFsmTerminate.
InterpreterInvalid ==
    /\ pc = "interpreter"
    /\ interp.cycle = BadCycle
    /\ state' = "none"
    /\ result' = NoResult
    /\ pc' = "regulations"
    /\ UNCHANGED <<interp, saved, delayLeft, delayTicks, test, start, fault, ext,
                   buffers, sensors, stepAdvance, stable>>

-----------------------------------------------------------------------------
(* CheckRegulations, and the fault check that follows it.                  *)

\* The regulations every state accepts: the delay time whenever it changed,
\* a phase or a step request once it is back at PHASE_STEP_NONE.
AlwaysAccepted ==
    {"delay"} \cup {f \in {"phase", "step"} : requested[f] = None}

DelayRead == IF Changed("delay") THEN requested["delay"] ELSE delayLeft

\* Fault: a pass with a start command has no time for the fault.
CheckRegulationsDoneSkipsFault ==
    /\ pc' = IF fault /\ start' = None THEN "fault" ELSE "execute"
    /\ UNCHANGED <<engaging, requested, result, fault, sensors, stepAdvance,
                   stable>>

CheckRegulationsDone ==
    /\ pc' = IF fault THEN "fault" ELSE "execute"
    /\ UNCHANGED <<engaging, requested, result, fault, sensors, stepAdvance,
                   stable>>

\* FS_RESET_CONDITION from the HMI.
TakeResetRegulation ==
    /\ pc = "regulations"
    /\ Changed("start") /\ requested["start"] = "reset"
    /\ Accept({"start"} \cup AlwaysAccepted)
    /\ TestCycleEnd
    /\ EvReset(SelectorAfterTest, DelayRead)
    /\ start' = None
    /\ UNCHANGED ext
    /\ CheckRegulationsDone

\* FS_RESET_CONDITION from SetStart, if the start regulation is unchanged.
TakeExternalReset ==
    /\ pc = "regulations"
    /\ ~Changed("start") /\ ext.start = "reset"
    /\ ext' = SetStart("dont_care")
    /\ Accept(AlwaysAccepted)
    /\ TestCycleEnd
    /\ EvReset(SelectorAfterTest, DelayRead)
    /\ start' = None
    /\ CheckRegulationsDone

\* Any other start command is kept for the state's own do function.
ReadRegulations ==
    /\ pc = "regulations"
    /\ IF Changed("start") THEN requested["start"] # "reset"
                           ELSE ext.start # "reset"
    /\ IF Changed("start") /\ requested["start"] # "dont_care"
       THEN start' = requested["start"] /\ Accept(AlwaysAccepted)
       ELSE start' = None /\ Accept({"start"} \cup AlwaysAccepted)
    /\ delayLeft' = DelayRead
    /\ UNCHANGED <<state, interp, saved, delayTicks, selector, testActive, ext>>
    /\ CheckRegulationsDone

CheckRegulations == TakeResetRegulation \/ TakeExternalReset \/ ReadRegulations

TakeFault ==
    /\ pc = "fault"
    /\ fault' = FALSE
    /\ EvFault
    /\ pc' = "execute"
    /\ UNCHANGED <<test, start, result, ext, buffers, sensors, stepAdvance,
                   stable>>

-----------------------------------------------------------------------------
(* SupervisorFsmExecute: the do function of the state.                     *)

\* Start_Changed is cleared or read afresh in the next pass, and so is the
\* result of the interpreter.
ExecuteDone ==
    /\ pc' = IF engaging # None THEN "engage" ELSE "background"
    /\ start' = None /\ result' = NoResult
    /\ UNCHANGED <<engaging, fault, sensors, stable>>

\* ProgrammingDo, the selector: accepted if it names a cycle that can run.
NewSelector == IF Changed("selector") /\ Selectable(requested["selector"])
               THEN requested["selector"] ELSE selector

StartAccepted == start = "start" /\ OkToStartCycle /\ NewSelector # Off

ProgrammingDoRegulations ==
    /\ Accept((IF Selectable(requested["selector"]) THEN {"selector"} ELSE {})
              \cup (IF StartAccepted THEN {"start"} ELSE {}))
    /\ Reject((IF Selectable(requested["selector"]) THEN {} ELSE {"selector"})
              \cup (IF start = "start" /\ ~StartAccepted THEN {"start"} ELSE {}))

Commanded == StartAccepted \/ ext.start = "start"

ProgrammingIdle ==
    /\ pc = "execute" /\ state = "programming" /\ ~Commanded
    /\ ProgrammingDoRegulations
    /\ selector' = NewSelector
    /\ interp' = IF Changed("selector") /\ Selectable(requested["selector"])
                 THEN Macro("programming", NewSelector) ELSE interp
    /\ UNCHANGED <<state, saved, delayLeft, delayTicks, testActive, ext,
                   stepAdvance>>
    /\ ExecuteDone

ProgrammingStarts ==
    /\ pc = "execute" /\ state = "programming" /\ Commanded
    /\ NewSelector # Off
    /\ ProgrammingDoRegulations
    /\ selector' = NewSelector
    /\ \/ /\ delayLeft = 0
          /\ EvStart(NewSelector)
          /\ stepAdvance' = None
       \/ /\ delayLeft # 0
          /\ EnterDelay(NewSelector)
          /\ UNCHANGED stepAdvance
    /\ ext' = SetStart("dont_care")
    /\ UNCHANGED testActive
    /\ ExecuteDone

\* The selector was cleared between an external start and this pass.
ProgrammingClearsStart ==
    /\ pc = "execute" /\ state = "programming" /\ Commanded
    /\ NewSelector = Off
    /\ ProgrammingDoRegulations
    /\ selector' = IF testActive THEN requested'["selector"] ELSE NewSelector
    /\ testActive' = FALSE
    /\ EnterProgramming(selector')
    /\ ext' = SetStart("dont_care")
    /\ UNCHANGED stepAdvance
    /\ ExecuteDone

ProgrammingDo ==
    ProgrammingIdle \/ ProgrammingStarts \/ ProgrammingClearsStart

-----------------------------------------------------------------------------
\* DelayDo: what is left of the delay after this pass.
SecondOver == delayTicks >= TicksPerSecond - 1

\* Fault: a delay that is over goes on being decremented.
LeftAfterTickUnderflows == IF SecondOver THEN delayLeft - 1 ELSE delayLeft

\* Fault: the last second is never counted down.
LeftAfterTickStopsAtOne ==
    IF SecondOver /\ delayLeft > 1 THEN delayLeft - 1 ELSE delayLeft

LeftAfterTick == IF SecondOver /\ delayLeft # 0 THEN delayLeft - 1
                                                ELSE delayLeft

DelayDoRegulations ==
    /\ Accept(IF start \in {"restart", "pause"} THEN {"start"} ELSE {})
    /\ Reject(IF start \in {None, "restart", "pause"} THEN {} ELSE {"start"})

DelayOver == (LeftAfterTick = 0 \/ start = "restart") /\ OkToStartCycle

DelayEnds ==
    /\ pc = "execute" /\ state = "delay"
    /\ DelayOver
    /\ DelayDoRegulations
    /\ EvStart(selector)
    /\ stepAdvance' = None
    /\ UNCHANGED <<selector, testActive, ext>>
    /\ ExecuteDone

DelayPauses ==
    /\ pc = "execute" /\ state = "delay"
    /\ ~DelayOver /\ "pause" \in {ext.start, start}
    /\ DelayDoRegulations
    /\ state' = "delay_pause"
    /\ interp' = Macro("pause", selector)
    /\ delayLeft' = LeftAfterTick
    /\ delayTicks' = 0
    /\ ext' = SetStart("dont_care")
    /\ UNCHANGED <<saved, selector, testActive, stepAdvance>>
    /\ ExecuteDone

DelayTicks ==
    /\ pc = "execute" /\ state = "delay"
    /\ ~DelayOver /\ "pause" \notin {ext.start, start}
    /\ DelayDoRegulations
    /\ delayLeft' = LeftAfterTick
    /\ delayTicks' = IF SecondOver THEN 0 ELSE delayTicks + 1
    /\ UNCHANGED <<state, interp, saved, selector, testActive, ext, stepAdvance>>
    /\ ExecuteDone

DelayDo == DelayEnds \/ DelayPauses \/ DelayTicks

-----------------------------------------------------------------------------
(* PauseDo, in PAUSE and PauseCancelling, and DelayPauseDo: a start        *)
(* regulation other than START is neither accepted nor rejected.           *)

ResumeDoRegulations ==
    /\ Accept(IF start = "start" /\ OkToStartCycle THEN {"start"} ELSE {})
    /\ Reject(IF start = "start" /\ ~OkToStartCycle THEN {"start"} ELSE {})

AskedToResume == start = "start" \/ (start = None /\ ext.start = "start")

\* An external start is consumed whether or not the doors let it through.
ExternalStartRead ==
    IF start = None /\ ext.start = "start" THEN "dont_care" ELSE ext.start

PausedStates == {"pause", "pause_cancelling", "delay_pause"}

PauseHolds ==
    /\ pc = "execute" /\ state \in PausedStates
    /\ ~(AskedToResume /\ OkToStartCycle)
    /\ ResumeDoRegulations
    /\ ext' = SetStart(ExternalStartRead)
    /\ UNCHANGED <<machine, selector, testActive, stepAdvance>>
    /\ ExecuteDone

PauseResumes ==
    /\ pc = "execute" /\ state \in {"pause", "pause_cancelling"}
    /\ AskedToResume /\ OkToStartCycle
    /\ ResumeDoRegulations
    /\ EvResume
    /\ IF state = "pause"
       THEN /\ ext' = [ext EXCEPT !.start = ExternalStartRead,
                                  !.step = StepAfterRunEntry]
            /\ stepAdvance' = None
       ELSE ext' = SetStart(ExternalStartRead) /\ UNCHANGED stepAdvance
    /\ UNCHANGED <<selector, testActive>>
    /\ ExecuteDone

DelayResumes ==
    /\ pc = "execute" /\ state = "delay_pause"
    /\ AskedToResume /\ OkToStartCycle
    /\ ResumeDoRegulations
    /\ EnterDelay(selector)
    /\ ext' = SetStart(ExternalStartRead)
    /\ UNCHANGED <<selector, testActive, stepAdvance>>
    /\ ExecuteDone

PauseDo == PauseHolds \/ PauseResumes \/ DelayResumes

-----------------------------------------------------------------------------
(* RunDo, in RUN and CANCELLING: what the interpreter returned, then the   *)
(* HMI's requests, then the external ones.                                 *)

OkToPauseCycle == interp.cycle \in Pausable

Executing == pc = "execute" /\ state \in {"run", "cancelling"}

RunEnds ==
    /\ Executing /\ result.value = "end_cycle"
    /\ EvEnd
    /\ UNCHANGED <<ext, buffers, stepAdvance>>
    /\ ExecuteDone

RunEndsInReset ==
    /\ Executing /\ result.value = "end_cycle_reset"
    /\ TestCycleEnd
    /\ EvReset(SelectorAfterTest, delayLeft)
    /\ UNCHANGED <<ext, buffers, stepAdvance>>
    /\ ExecuteDone

PauseIfAllowed ==
    /\ IF OkToPauseCycle THEN EvPause ELSE UNCHANGED machine
    /\ UNCHANGED <<selector, testActive>>

RunPausesItself ==
    /\ Executing /\ result.value = "pause"
    /\ PauseIfAllowed
    /\ UNCHANGED <<ext, buffers, stepAdvance>>
    /\ ExecuteDone

RunTakesStart ==
    /\ Executing /\ result.value = "continue" /\ start # None
    /\ IF start = "pause" /\ OkToPauseCycle
       THEN EvPause /\ Accept({"start"}) /\ UNCHANGED requested
       ELSE UNCHANGED machine /\ Reject({"start"}) /\ UNCHANGED accepted
    /\ UNCHANGED <<selector, testActive, ext, stepAdvance>>
    /\ ExecuteDone

\* Interpreter__SetPhase and Interpreter__SetStep: the request moves the
\* cycle along, runs off its last phase, or is out of range.
Advances == {"pass", "end", "fail"}

EndsIf(outcome) == IF outcome = "end" THEN EvEnd
                   ELSE UNCHANGED <<machine, selector, testActive>>

HmiAdvances == Changed("phase") \/ Changed("step")

RunTakesHmiAdvance ==
    /\ Executing /\ result.value = "continue" /\ start = None
    /\ HmiAdvances
    /\ \E outcome \in Advances :
          /\ EndsIf(outcome)
          /\ Accept(CASE outcome = "fail" -> {}
                      [] outcome = "pass" /\ Changed("phase") -> {"phase"}
                      [] OTHER -> {"step"})
          /\ Reject(CASE outcome # "fail" -> {}
                      [] Changed("phase") -> {"phase"}
                      [] OTHER -> {"step"})
    /\ UNCHANGED <<ext, stepAdvance>>
    /\ ExecuteDone

RunTakesExternalPause ==
    /\ Executing /\ result.value = "continue" /\ start = None
    /\ ~HmiAdvances
    /\ ext.start = "pause"
    /\ ext' = SetStart("dont_care")
    /\ PauseIfAllowed
    /\ UNCHANGED <<buffers, stepAdvance>>
    /\ ExecuteDone

RunTakesExternalAdvance ==
    /\ Executing /\ result.value = "continue" /\ start = None
    /\ ~HmiAdvances /\ ext.start # "pause"
    /\ ext.phase # None \/ ext.step # None
    /\ \E outcome \in Advances : EndsIf(outcome)
    /\ ext' = IF ext.phase # None THEN [ext EXCEPT !.phase = None]
                                  ELSE [ext EXCEPT !.step = None]
    /\ UNCHANGED <<buffers, stepAdvance>>
    /\ ExecuteDone

RunContinues ==
    /\ Executing /\ result.value = "continue" /\ start = None
    /\ ~HmiAdvances /\ ext.start # "pause"
    /\ ext.phase = None /\ ext.step = None
    /\ UNCHANGED <<machine, selector, testActive, ext, buffers, stepAdvance>>
    /\ ExecuteDone

RunDo == \/ RunEnds \/ RunEndsInReset \/ RunPausesItself \/ RunTakesStart
         \/ RunTakesHmiAdvance \/ RunTakesExternalPause
         \/ RunTakesExternalAdvance \/ RunContinues

-----------------------------------------------------------------------------
\* FaultDo.  `removed' is what Fault__IsOkToExitFaultState finds: the
\* condition is gone, or the fault may be cleared without removing it.
FaultDo(removed) ==
    LET asked  == IF start = None THEN ext.start = "reset_fault"
                                  ELSE start = "reset_fault"
        leaves == asked /\ removed
    IN  /\ pc = "execute" /\ state = "fault"
        /\ IF leaves
           THEN /\ TestCycleEnd
                /\ EnterProgramming(SelectorAfterTest)
           ELSE UNCHANGED <<machine, selector, testActive>>
        /\ Accept(IF start # None /\ leaves THEN {"start"} ELSE {})
        /\ Reject(IF start # None /\ ~leaves THEN {"start"} ELSE {})
        /\ ext' = IF start = None /\ asked THEN SetStart("dont_care") ELSE ext
        /\ UNCHANGED stepAdvance
        /\ ExecuteDone

\* END_OF_CYCLE only reports its state, and a terminated machine does nothing.
NothingToDo ==
    /\ pc = "execute" /\ state \in {"end_of_cycle", "none"}
    /\ UNCHANGED <<machine, selector, testActive, ext, buffers, stepAdvance>>
    /\ ExecuteDone

Execute == \/ ProgrammingDo \/ DelayDo \/ PauseDo \/ RunDo
           \/ \E removed \in BOOLEAN : FaultDo(removed)
           \/ NothingToDo

-----------------------------------------------------------------------------
(* Supervisor__EngageTest, called by the test manager's handler: it asks   *)
(* for a reset, makes a pass of its own and then starts the test cycle.    *)

EngageTest(c) ==
    /\ "test" \in Environment
    /\ pc = "background" /\ engaging = None
    /\ engaging' = c
    /\ ext' = SetStart(IF state = "fault" THEN "reset_fault" ELSE "reset")
    /\ pc' = "interpreter"
    /\ UNCHANGED <<machine, selector, testActive, start, result, fault, buffers,
                   sensors, stepAdvance, stable>>

EngageDone == /\ pc' = "monitors" /\ engaging' = None
              /\ UNCHANGED <<saved, start, result, fault, buffers, sensors,
                             stepAdvance, stable>>

\* SetCycle succeeds in PROGRAMMING only; SetStart(START) decides.
EngageStarts ==
    /\ pc = "engage"
    /\ state \in {"programming", "pause"} /\ OkToStartCycle
    /\ testActive' = TRUE
    /\ IF state = "programming"
       THEN /\ selector' = engaging
            /\ interp' = Macro("programming", engaging)
       ELSE UNCHANGED <<selector, interp>>
    /\ ext' = SetStart("start")
    /\ UNCHANGED <<state, delayLeft, delayTicks>>
    /\ EngageDone

EngageFails ==
    /\ pc = "engage"
    /\ ~(state \in {"programming", "pause"} /\ OkToStartCycle)
    /\ testActive' = FALSE
    /\ selector' = requested["selector"]
    /\ EvReset(requested["selector"], delayLeft)
    /\ UNCHANGED ext
    /\ EngageDone

\* The end of the handler, with the post monitors of which the cartridge
\* door's matters here.
Background(cartridge) ==
    /\ pc = "background"
    /\ cartridgeClosed' = cartridge
    /\ pc' = "monitors"
    /\ UNCHANGED <<machine, test, start, result, fault, ext, buffers,
                   doorClosed, stepAdvance, stable>>

BackgroundSteps ==
    \/ \E c \in TestCycles : EngageTest(c)
    \/ EngageStarts \/ EngageFails
    \/ Background(cartridgeClosed)
    \/ "cartridge" \in Environment /\ Background(~cartridgeClosed)

-----------------------------------------------------------------------------
(* Supervisor__Initialize after a reset.  The appliance data survive it in *)
(* non-volatile memory; external requests and the pass under way do not.   *)

Restarted(cold) ==
    /\ (IF cold THEN "cold_reset" ELSE "warm_reset") \in Environment
    /\ pc' = "monitors" /\ stable' = FALSE
    /\ engaging' = None /\ start' = None /\ result' = NoResult
    /\ ext' = [start |-> "dont_care", phase |-> None, step |-> None]
    /\ stepAdvance' = IF cold THEN None ELSE stepAdvance
    /\ UNCHANGED <<fault, buffers, sensors>>

WarmReset ==
    /\ state # "none"
    /\ Restarted(FALSE)
    /\ UNCHANGED <<machine, selector, testActive>>

\* The cycle whose heading decides: the selected cycle for the cycles of
\* DELAY, END and PAUSE, the running one, or the idle machine's own.
ResetBehavior ==
    ColdResetBehavior[IF interp.label \in {"programming", "fault"} THEN Off
                      ELSE interp.cycle]

\* CYCLE_COLD_RESET_BEHAVIOR_CANCEL, which SELECT stands for in this product.
ColdResetCancels ==
    /\ state # "none" /\ ResetBehavior = "cancel"
    /\ Restarted(TRUE)
    /\ TestCycleEnd
    /\ EvReset(SelectorAfterTest, delayLeft)

ColdResetPauses ==
    /\ state # "none" /\ ResetBehavior = "pause"
    /\ Restarted(TRUE)
    /\ IF interp.label = "delay" THEN UNCHANGED machine ELSE EvPause
    /\ UNCHANGED <<selector, testActive>>

\* RESUME, and the two restarts, which only move the phase and statement.
ColdResetResumes ==
    /\ state # "none" /\ ResetBehavior = "resume"
    /\ Restarted(TRUE)
    /\ UNCHANGED <<machine, selector, testActive>>

\* A machine that was terminated enters PROGRAMMING, the interpreter as it is.
RestartTerminated(cold) ==
    /\ state = "none"
    /\ Restarted(cold)
    /\ state' = "programming" /\ delayLeft' = requested["delay"]
    /\ delayTicks' = 0
    /\ UNCHANGED <<interp, saved, selector, testActive>>

\* The fault module reports no fault any more: evFaultReset.
RestartLeavesFault(cold) ==
    LET cancels == cold /\ ResetBehavior = "cancel"
    IN  /\ state = "fault"
        /\ Restarted(cold)
        /\ IF cancels THEN TestCycleEnd ELSE UNCHANGED <<selector, testActive>>
        /\ EnterProgramming(IF cancels THEN SelectorAfterTest ELSE selector)

Reset == \/ WarmReset
         \/ ColdResetCancels \/ ColdResetPauses \/ ColdResetResumes
         \/ \E cold \in BOOLEAN : \/ RestartTerminated(cold)
                                  \/ RestartLeavesFault(cold)

-----------------------------------------------------------------------------
ApplicationThread ==
    \/ Monitors \/ InterpreterRun \/ InterpreterInvalid
    \/ CheckRegulations \/ TakeFault \/ Execute \/ BackgroundSteps

Calls == ProcessPause \/ FaultObserver \/ PreFaultObserver

Next == CommunicationThread \/ ApplicationThread \/ Calls \/ Reset

Spec == Init /\ [][Next]_vars

\* The handler's pass in which SystemStable turns TRUE.
Stabilises == Monitors /\ ~stable /\ stable'

\* embOS runs the application task every 100 ms, and nothing of higher
\* priority keeps the processor for that long; the appliance manager waits for
\* stable inputs no longer than POWER_UP_STABILIZATION_MAX_DECISECONDS.
FairSpec == Spec /\ WF_vars(ApplicationThread) /\ SF_vars(Stabilises)

-----------------------------------------------------------------------------
(* Safety.                                                                 *)

\* A cycle hands over to `d', at once or through others, from `c'.
Reaches(c, d) ==
    \A S \in SUBSET SelectorValues :
        c \in S /\ (\A b \in S : BranchesOf(b) \subseteq S) => d \in S

\* `config' runs a cycle that was started as `c'.
Runs(config, c) == config.label = "run" /\ Reaches(c, config.cycle)

WaitingCoherent ==
    /\ state = "programming" => \/ interp = Macro("programming", selector)
                                \/ interp.cycle = BadCycle
    /\ state = "delay" => interp = Macro("delay", selector)
    /\ state = "delay_pause" => interp = Macro("pause", selector)

RunCoherent ==
    /\ state = "run" => Runs(interp, selector)
    /\ state = "pause" => Runs(saved, selector)
                           /\ interp = Macro("pause", saved.cycle)

CancellingCoherent ==
    /\ state = "cancelling" => Runs(interp, CancelCycle)
    /\ state = "pause_cancelling" => Runs(saved, CancelCycle)
                                      /\ interp = Macro("pause", saved.cycle)
    /\ state \in {"cancelling", "pause_cancelling"} =>
          HasCancelCycle /\ ~testActive

OverCoherent ==
    /\ state = "end_of_cycle" => interp.label = "end"
    /\ state = "fault" => interp = Macro("fault", Off)
    /\ state = "none" => interp.cycle = BadCycle
    /\ delayTicks # 0 => state \in {"delay", "none"}

\* The interpreter runs what the supervisor's state says it does: the macro
\* of the state on behalf of the selected cycle, the selected cycle itself or
\* one it hands over to, the cancel cycle; what a pause has saved is what its
\* end will run; no drain of a cancelled cycle counts as a test; and the tenths
\* of a second are counted in DELAY only.  Twenty transitions of the generated
\* machine, the test manager and the cold reset each write a part of it.
Coherent == /\ WaitingCoherent /\ RunCoherent
            /\ CancellingCoherent /\ OverCoherent

\* While a cycle that may be paused runs behind an open door, the pause that
\* the door monitor asked for is still to be taken: no request of the HMI, of
\* a fill process or of the interpreter makes it get lost.
OpenDoorPausesRun ==
    state = "run" /\ ~doorClosed /\ OkToPauseCycle => ext.start = "pause"

\* No cycle enters RUN, at its start, at the end of its delay or of its pause,
\* unless the dishwasher's door and the cartridge's door are closed.
StartsBehindClosedDoors ==
    [][state # "run" /\ state' = "run" => doorClosed /\ cartridgeClosed]_vars

\* A step kept for the resumption of a paused cycle never waits in a running
\* one, where the end of a later pause would find it.
StepAdvanceBelongsToPause == stepAdvance # None => state # "run"

-----------------------------------------------------------------------------
(* What comments of the source say of the supervisor and the code does not *)
(* do; the runs that show it are listed in README.md.                      *)

\* "FS_RESET_CONDITION for all states ... Generate evReset": a reset that is
\* accepted has been executed.
AcceptedResetIsExecuted ==
    [][accepted'["start"] = "reset" /\ accepted["start"] # "reset"
         => state' \notin {"run", "pause", "delay", "delay_pause"}]_vars

\* "a step advance request can be executed only if RUN_ENTRY is called inside
\* EventResume()": there, it is passed on to the cycle.
StepAdvanceReachesRun ==
    [][state = "pause" /\ state' = "run" /\ stepAdvance # None
         => ext'.step = stepAdvance]_vars

Pending(command) == Changed("start") /\ requested["start"] = command

-----------------------------------------------------------------------------
(* Refinement of the life of a cycle.                                      *)

Mode == CASE state = "none"             -> "dead"
          [] state = "programming"      -> "idle"
          [] state = "delay"            -> "waiting"
          [] state = "delay_pause"      -> "waiting_held"
          [] state = "run"              -> "running"
          [] state = "pause"            -> "held"
          [] state = "cancelling"       -> "draining"
          [] state = "pause_cancelling" -> "draining_held"
          [] state = "end_of_cycle"     -> "finished"
          [] state = "fault"            -> "faulted"

Executed == CASE state \in {"run", "cancelling"}         -> interp.cycle
              [] state \in {"pause", "pause_cancelling"} -> saved.cycle
              [] OTHER                                   -> None

Lifecycle == INSTANCE CycleLifecycle
    WITH Programs <- SelectorValues, Branches <- BranchesOf,
         HasDrain <- HasCancelCycle, Drain <- CancelCycle,
         mode <- Mode, program <- selector, executing <- Executed

\* Through passes, regulations, resets and tests the supervisor keeps the
\* promise of CycleLifecycle: every step is a step of the life of a cycle.
KeepsLifecycle == Lifecycle!Spec

-----------------------------------------------------------------------------
(* Liveness.                                                               *)

\* A fault that the fault module reports stops the machine: the next pass that
\* gets as far as the fault check takes it, whatever the HMI asks meanwhile.
FaultTakesEffect == fault ~> state \in {"fault", "none"}

\* A delay ends: if from some time on the doors stay closed and nobody changes
\* the delay time, the machine does not stay in DELAY for ever.
DelayExpires ==
    <>[](OkToStartCycle /\ ~Changed("delay")) => []<>(state # "delay")

\* The HMI's reset is answered in every state.
ResetIsAnswered == Pending("reset") ~> ~Pending("reset")
=============================================================================
