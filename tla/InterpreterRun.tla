---------------------------- MODULE InterpreterRun ----------------------------
(***************************************************************************)
(* The interpreter as the product uses it: the supervisor runs it step     *)
(* after step and acts on the result, the sub-cycles are requested by      *)
(* processes, tasks, pre-faults and the end of a pause (SubCycle.c,        *)
(* CycleResume.c), the motor fault monitors give a sub-cycle up, the       *)
(* stability control moves the phase, and the power may fail.              *)
(*                                                                         *)
(* A pass of the supervisor is the seams of `pc': tasks and monitors, the  *)
(* loop over Interpreter__Run, the state machine.  The requests that reach *)
(* the state machine are those of Supervisor.tla, here any at any time;    *)
(* the two states of the delay, in which PROGRAMMING's cycle is replaced   *)
(* by another that runs no sub-cycle either, are left out.                 *)
(***************************************************************************)
EXTENDS Interpreter

CONSTANTS
    ResumePriority,    \* Cycle_Resume_Subcycle_Priority
    Pausable,          \* the run cycles whose heading allows a pause
    ColdResetBehavior, \* cycle |-> what its heading asks after a cold reset
    MaxSteps,          \* INTERPRETER_MAX_STEPS
    PhaseRequests, StepRequests \* what may be asked of SetPhase and SetStep

Behaviors == {"cancel", "pause", "resume", "restart_phase", "restart_cycle"}

ASSUME UseAssumption ==
    /\ ResumePriority \in {0} \cup DOMAIN SubCycles
    /\ Pausable \subseteq RunCycles
    /\ ColdResetBehavior \in [Cycles -> Behaviors]
    /\ ColdResetBehavior[ProgrammingMacro] = "cancel"
    /\ MaxSteps \in Nat \ {0}
    /\ PhaseRequests \subseteq 0 .. 127 \cup {Forward, Backward}
    /\ StepRequests \subseteq 0 .. 127 \cup {Forward, Backward}

VARIABLES
    pc,         \* seam of the pass: "tasks", "loop" or "machine"
    fsm,        \* Supervisor_Data.State
    itp,        \* the interpreter
    result,     \* Interpreter_Result
    steps,      \* interpreter_step_count
    requested,  \* priority of Requested_Sub_Cycle, or NoRequest
    doorClosed  \* Door_Status of the door monitor

vars == <<pc, fsm, itp, result, steps, requested, doorClosed>>

\* UCHAR_MAX: no priority is lower.
NoRequest == Len(SubCycles) + 1

States == {"programming", "run", "pause", "cancelling", "pause_cancelling",
           "end_of_cycle", "fault"}
Results == {"same_step", "end_step", "end_phase", "end_cycle",
            "end_cycle_reset", "pause", "end_sub_cycle", "invalid"}

Running == {"run", "cancelling"}
Pausing == {"pause", "pause_cancelling"}

Init ==
    /\ pc = "tasks" /\ fsm = "programming"
    /\ itp = Configure(BlankInterpreter, Place(ProgrammingMacro, 0, 0),
                     "programming")
    /\ result = "same_step" /\ steps = 0
    /\ requested = NoRequest
    /\ doorClosed = TRUE

-----------------------------------------------------------------------------
(* Tasks, monitors, processes.                                             *)

\* SubCycle__RequestStart, from a process in the loop, a task, a pre-fault.
RequestStart(p) ==
    /\ requested' = IF p <= requested THEN p ELSE requested
    /\ UNCHANGED <<pc, fsm, itp, result, steps, doorClosed>>

\* The motor fault monitors give up the sub-cycle that runs or is paused.
TerminateFromMonitor ==
    /\ pc = "tasks"
    /\ itp' = TerminateSubCycle(itp)
    /\ UNCHANGED <<pc, fsm, result, steps, requested, doorClosed>>

\* StabilityControl: the task acts in the cycle that activated it only.
StabilityReaction(phase) ==
    /\ pc = "tasks" /\ itp.data.at.cycle \in RunCycles
    /\ itp' = SetPhase(itp, phase)
    /\ UNCHANGED <<pc, fsm, result, steps, requested, doorClosed>>

DoorMoves ==
    /\ pc = "tasks"
    /\ doorClosed' = ~doorClosed
    /\ UNCHANGED <<pc, fsm, itp, result, steps, requested>>

-----------------------------------------------------------------------------
(* Supervisor__Run: the loop over Interpreter__Run.                        *)

GoesOn(r) == r = "end_step" \/ (r = "end_phase" /\ fsm \in Running)

\* Fault: the loop has no limit.
LoopSeamUnlimited(r) == IF GoesOn(r) THEN "loop" ELSE "machine"

LoopSeam(r) == IF GoesOn(r) /\ steps + 1 < MaxSteps THEN "loop" ELSE "machine"

\* CheckForSubCycle, whichever conditions are true, and a run of the step.
RunOutcomes(i) ==
    UNION {RunStep(CheckForSubCycle(i, GetActive(i.status.sub, requested,
                                                 triggered), doorClosed)) :
              triggered \in SUBSET Conditional}

\* A phase or statement the setting file does not have terminates the state
\* machine; NoSettingFileError says that this is never asked for.
InterpreterRun ==
    LET i == LoadPhaseData(itp) IN
    /\ pc \in {"tasks", "loop"}
    /\ \E o \in IF i.data.error THEN {Outcome(i, "invalid")}
                ELSE RunOutcomes(i) :
          /\ itp' = o.itp
          /\ result' = o.result
          /\ pc' = LoopSeam(o.result)
    /\ requested' = NoRequest
    /\ steps' = steps + 1
    /\ UNCHANGED <<fsm, doorClosed>>

-----------------------------------------------------------------------------
(* The events of the state machine and what they configure.                *)

EnterProgramming(i, sel) ==
    /\ fsm' = "programming"
    /\ itp' = ClearSubCycleStatus(
                  Configure(i, Place(ProgrammingMacro, sel, 0), "programming"))

EnterCancelling(i) ==
    /\ fsm' = "cancelling"
    /\ itp' = ClearSubCycleStatus(
                  Configure(i, Place(CancelCycle, 0, 0), "run"))

EvReset(i, sel) ==
    \/ /\ fsm \in {"programming", "cancelling", "pause_cancelling",
                   "end_of_cycle"}
       /\ EnterProgramming(i, sel)
    \/ fsm \in {"run", "pause"} /\ EnterCancelling(i)
    \/ fsm = "fault" /\ itp' = i /\ UNCHANGED fsm

\* evPause with PauseEntry.
EvPause(i) ==
    /\ fsm \in Running
    /\ fsm' = IF fsm = "run" THEN "pause" ELSE "pause_cancelling"
    /\ itp' = Configure(SavePauseResumeData(i),
                        Place(PauseMacro, i.data.at.cycle, 0), "pause")

EvEnd(sel) ==
    \/ fsm = "cancelling" /\ EnterProgramming(itp, sel)
    \/ /\ fsm = "run" /\ fsm' = "end_of_cycle"
       /\ itp' = ClearSubCycleStatus(
                     Configure(itp, Place(EndMacro, sel, 0), "end"))

\* The cycles of PROGRAMMING and END stand for the selected one, left open.
Selections == {0} \cup MainCycles

\* A reset or an end that CheckRegulations or the service API asks for.
Command ==
    /\ pc = "machine"
    /\ \E sel \in Selections : EvReset(itp, sel) \/ EvEnd(sel)
    /\ UNCHANGED <<pc, result, steps, requested, doorClosed>>

\* evFault with FaultEntry.
TakeFault ==
    /\ pc = "machine"
    /\ fsm' = "fault"
    /\ itp' = ClearSubCycleStatus(
                  Configure(itp, Place(FaultMacro, 0, 0), "fault"))
    /\ UNCHANGED <<pc, result, steps, requested, doorClosed>>

-----------------------------------------------------------------------------
(* The do functions of the states.                                         *)

\* The result is of no use once the pass is over.
PassDone == /\ pc' = "tasks" /\ steps' = 0 /\ result' = "same_step"
            /\ UNCHANGED doorClosed

\* The main cycle's heading decides, also while a sub-cycle runs.
OkToPause == itp.status.cycle \in Pausable

Ends == fsm \in Running /\ result \in {"end_cycle", "end_cycle_reset"}
PausesItself == fsm \in Running /\ result = "pause" /\ OkToPause

NothingToDo ==
    /\ pc = "machine" /\ ~Ends /\ ~PausesItself
    /\ PassDone
    /\ UNCHANGED <<fsm, itp, requested>>

ProgrammingStarts ==
    /\ pc = "machine" /\ fsm = "programming"
    /\ fsm' = "run"
    /\ \E c \in MainCycles : itp' = Configure(itp, Place(c, 0, 0), "run")
    /\ PassDone
    /\ UNCHANGED requested

FaultDo ==
    /\ pc = "machine" /\ fsm = "fault"
    /\ \E sel \in Selections : EnterProgramming(itp, sel)
    /\ PassDone
    /\ UNCHANGED requested

\* RESUME: CycleResume__StartSubcycle, before the state is written.
CycleResume(i) ==
    /\ ResumePriority # 0
    /\ itp' = IF i.status.sub = SubCycles[ResumePriority]
              THEN TerminateSubCycle(i) ELSE i
    /\ requested' = IF ResumePriority <= requested THEN ResumePriority
                                                   ELSE requested

\* The sub-cycle is not asked for in a test, a demo or the rapid advance.
PauseResumes ==
    LET resumed == Resume(RestoreFromPauseResumeData(itp)) IN
    /\ pc = "machine" /\ fsm \in Pausing
    /\ fsm' = IF fsm = "pause" THEN "run" ELSE "cancelling"
    /\ CycleResume(resumed) \/ (itp' = resumed /\ UNCHANGED requested)
    /\ PassDone

RunEnds ==
    /\ pc = "machine" /\ fsm \in Running /\ result = "end_cycle"
    /\ \E sel \in Selections : EvEnd(sel)
    /\ PassDone
    /\ UNCHANGED requested

RunEndsInReset ==
    /\ pc = "machine" /\ fsm \in Running /\ result = "end_cycle_reset"
    /\ \E sel \in Selections : EvReset(itp, sel)
    /\ PassDone
    /\ UNCHANGED requested

\* The program, the HMI or an external request pauses the cycle.
RunPauses ==
    /\ pc = "machine" /\ fsm \in Running /\ ~Ends /\ OkToPause
    /\ EvPause(itp)
    /\ PassDone
    /\ UNCHANGED requested

Advances == pc = "machine" /\ fsm \in Running /\ ~Ends /\ result # "pause"

RunSetsPhase(phase) ==
    /\ Advances
    /\ IF PhaseVerdict(itp, phase) = "end"
       THEN \E sel \in Selections : EvEnd(sel)
       ELSE itp' = SetPhase(itp, phase) /\ UNCHANGED fsm
    /\ PassDone
    /\ UNCHANGED requested

RunSetsStep(step) ==
    /\ Advances
    /\ IF StepVerdict(itp, step) = "end"
       THEN \E sel \in Selections : EvEnd(sel)
       ELSE itp' = SetStep(itp, step) /\ UNCHANGED fsm
    /\ PassDone
    /\ UNCHANGED requested

-----------------------------------------------------------------------------
(* The power fails between two passes and comes back: the interpreter's    *)
(* data are restored, the phase data and the requests are lost.            *)

Restored == [itp EXCEPT !.loaded = NothingLoaded]

\* The cycle whose heading decides, and what it asks for.
OfAnotherCycle == Heading(itp.data.at.cycle) \in {"pause", "end"}
ResetBehavior == ColdResetBehavior[IF OfAnotherCycle THEN itp.data.at.phase
                                                     ELSE itp.data.at.cycle]

ColdReset ==
    /\ pc = "tasks"
    /\ requested' = NoRequest
    /\ UNCHANGED <<pc, result, steps, doorClosed>>

ColdResetCancels ==
    /\ ColdReset /\ ResetBehavior = "cancel" /\ fsm # "fault"
    /\ \E sel \in Selections : EvReset(Restored, sel)

ColdResetPauses ==
    /\ ColdReset /\ ResetBehavior = "pause" /\ fsm \in Running
    /\ EvPause(Restored)

ColdResetResumes ==
    /\ ColdReset
    /\ \/ ResetBehavior = "resume"
       \/ ResetBehavior = "pause" /\ fsm \notin Running \cup {"fault"}
    /\ itp' = Restored
    /\ UNCHANGED fsm

ColdResetRestarts ==
    /\ ColdReset /\ ResetBehavior \in {"restart_phase", "restart_cycle"}
    /\ itp' = Configure(Restored,
                  Place(itp.data.at.cycle,
                        IF ResetBehavior = "restart_phase" \/ OfAnotherCycle
                        THEN itp.data.at.phase ELSE 0, 0),
                  Heading(itp.data.at.cycle))
    /\ UNCHANGED fsm

\* The fault is gone at the restart: evFaultReset.
ColdResetLeavesFault ==
    /\ ColdReset /\ fsm = "fault"
    /\ \E sel \in Selections : EnterProgramming(Restored, sel)

-----------------------------------------------------------------------------
SubCycleRequests == \E p \in DOMAIN SubCycles : RequestStart(p)

Tasks == \/ SubCycleRequests \/ TerminateFromMonitor \/ DoorMoves
         \/ \E phase \in PhaseRequests : StabilityReaction(phase)

Machine == \/ Command \/ TakeFault \/ NothingToDo \/ ProgrammingStarts
           \/ FaultDo \/ PauseResumes \/ RunEnds \/ RunEndsInReset
           \/ RunPauses
           \/ \E phase \in PhaseRequests : RunSetsPhase(phase)
           \/ \E step \in StepRequests : RunSetsStep(step)

Reset == \/ ColdResetCancels \/ ColdResetPauses \/ ColdResetResumes
         \/ ColdResetRestarts \/ ColdResetLeavesFault

Next == Tasks \/ InterpreterRun \/ Machine \/ Reset

Spec == Init /\ [][Next]_vars

-----------------------------------------------------------------------------
(* Properties.                                                             *)

Data == [at : [cycle : Nat, phase : Nat, step : Nat],
         state : {"programming", "run", "pause", "end", "fault"},
         init : BOOLEAN, fromPause : BOOLEAN, error : BOOLEAN]
Status == [cycle : Nat, phase : Nat, step : Nat,
           sub : SubCycleIds \cup {NoCycle}, subPhase : Nat, subStep : Nat]
Itp == [data : Data, status : Status,
        pauseData : Data, pauseStatus : Status,
        subData : Data, subStatus : Status,
        loaded : [phases : Nat, steps : Nat], mainPhases : Nat]

TypeOK ==
    /\ pc \in {"tasks", "loop", "machine"}
    /\ fsm \in States
    /\ result \in Results
    /\ steps \in 0 .. MaxSteps
    /\ requested \in 1 .. NoRequest
    /\ doorClosed \in BOOLEAN
    /\ itp \in Itp

\* Wherever a step, a jump, the end of a sub-cycle, a pause, a request or a
\* reset sends the interpreter, the setting file has that phase and step:
\* LoadPhaseData never fails and the state machine is never terminated
\* (Supervisor.c, Supervisor__Run).
NoSettingFileError == ~itp.data.error /\ Loadable(itp.data.at)

\* While a sub-cycle runs or is paused, Sub_Cycle_Resume_Data are those of a
\* main cycle; while a pause holds, Pause_Resume_Data are those of what ran;
\* no sub-cycle is left behind when the cycle is over.
IsMainCycle(d, st) ==
    d.state = "run" /\ d.at.cycle \notin SubCycleIds /\ st.sub = NoCycle

ResumeDataStacked ==
    /\ itp.status.sub # NoCycle => IsMainCycle(itp.subData, itp.subStatus)
    /\ fsm \in Running =>
          /\ itp.data.state = "run"
          /\ itp.data.at.cycle \in SubCycleIds <=> itp.status.sub # NoCycle
    /\ fsm \in Pausing =>
          /\ itp.pauseData.state = "run"
          /\ itp.pauseStatus.sub = itp.status.sub
    /\ fsm \notin Running \cup Pausing => itp.status.sub = NoCycle

\* The main cycle, which a sub-cycle that runs has put aside.
MainCycle == IF itp.status.sub = NoCycle THEN itp.data.at.cycle
                                         ELSE itp.subData.at.cycle

\* The drain of a cycle that was reset in a sub-cycle: until the interpreter
\* runs again, Main_Cycle and Main_Step are those of the cycle cancelled.
DrainNotRunYet == /\ fsm = "cancelling"
                  /\ itp.data.at = Place(CancelCycle, 0, 0) /\ itp.data.init

\* Whether a pause is granted (Selector__OkToPauseCycle with the status's
\* Main_Cycle) is a matter of the main cycle, whatever sub-cycle runs; the
\* drain that has not run yet is the only exception.
PauseAsksMainCycle ==
    pc = "machine" /\ fsm \in Running
    => itp.status.cycle = MainCycle \/ DrainNotRunYet

\* A request to advance moves from the step that is in place: the phase data
\* that SetPhase and SetStep read are not those of a phase left behind, and
\* neither is the step's number unless the loop's limit ended the pass.
AdvancesFromHere ==
    Advances => /\ itp.loaded = PhaseData(itp.data.at)
                /\ \/ CurrentStep(itp) = itp.data.at.step
                   \/ result = "end_step"
                   \/ DrainNotRunYet

\* A step that is entered, or entered again after a sub-cycle or a pause, is
\* told so at its next run (Step_Initializing or Resume_From_Pause).
StepsAreTold ==
    [][\/ itp'.data.at = itp.data.at
       \/ itp'.data.init \/ itp'.data.fromPause
       \/ result' = "same_step" /\ itp'.status.sub # itp.status.sub]_vars

PriorityOf(c) == CHOOSE p \in DOMAIN SubCycles : SubCycles[p] = c

\* Only a sub-cycle of a higher priority takes another one's place.
OnlyHigherPreempts ==
    [][itp.status.sub # itp'.status.sub
          /\ NoCycle \notin {itp.status.sub, itp'.status.sub}
          => PriorityOf(itp'.status.sub) < PriorityOf(itp.status.sub)]_vars

\* A request that a run of a cycle finds, with the door closed, is answered:
\* that sub-cycle or one before it runs, or has already come to its end.
RequestIsAnswered ==
    [][/\ requested # NoRequest /\ requested' = NoRequest
       /\ pc' # "tasks" /\ fsm \in Running /\ doorClosed
       => \/ /\ itp'.status.sub # NoCycle
             /\ PriorityOf(itp'.status.sub) <= requested
          \/ result' \in {"end_sub_cycle", "end_cycle", "end_phase"}]_vars

-----------------------------------------------------------------------------
(* What the user may count on: the place of the main cycle is kept.        *)

Nowhere == BlankData.at

Level == CASE fsm \in Running -> IF itp.status.sub = NoCycle
                                 THEN "main" ELSE "sub"
           [] fsm \in Pausing -> IF itp.pauseStatus.sub = NoCycle
                                 THEN "paused" ELSE "paused_sub"
           [] OTHER           -> "idle"

MainPlace == CASE Level = "main"   -> itp.data.at
               [] Level = "paused" -> itp.pauseData.at
               [] Level = "idle"   -> Nowhere
               [] OTHER            -> itp.subData.at

JumpsOf(c) ==
    {at \in Places :
        \E from \in PlacesOf(c) : \E k \in DOMAIN StatementsOf(from) :
            StatementsOf(from)[k] = JumpTo(at)}

PlacesByCycle == [c \in RunCycles |-> PlacesOf(c)]
JumpsByCycle  == [c \in RunCycles |-> JumpsOf(c)]
FirstPlaces   == {Place(c, 0, 0) : c \in MainCycles}

Kept == INSTANCE MainCycle WITH
            CyclePlaces <- PlacesByCycle,
            CycleJumps  <- JumpsByCycle,
            Starts      <- FirstPlaces,
            DrainStart  <- Place(CancelCycle, 0, 0),
            Nowhere     <- Nowhere,
            main        <- MainPlace,
            level       <- Level

\* The interpreter keeps what MainCycle promises.
MainCycleKept == Kept!Spec
=============================================================================
