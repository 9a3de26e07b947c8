----------------------------- MODULE Interpreter -----------------------------
(***************************************************************************)
(* The interpreter of the setting file (Interpreter.c), for the one        *)
(* compartment of the product: the functions that move it from step to     *)
(* step, into and out of a sub-cycle, and into and out of a pause.         *)
(*                                                                         *)
(* The setting file is a constant: a cycle has phases, a phase has steps,  *)
(* a step is a sequence of statements (in the file the statements that     *)
(* share a T_Flag).  A place is a cycle, a phase and a step, counted from  *)
(* 0 as in the code; a statement stands for its step.  What a process does *)
(* is abstracted to whether it is busy and whether a jump is taken.  The   *)
(* timers of the steps are left out, and Resume_From_Reset, which only the *)
(* processes read.                                                         *)
(*                                                                         *)
(* An operator takes the interpreter, a record, and returns what the       *)
(* function of the code makes of it.                                       *)
(***************************************************************************)
EXTENDS Integers, Sequences, FiniteSets

CONSTANTS
    Program,     \* cycle |-> phase |-> sequence of steps
    MainCycles,  \* the run cycles the user selects
    SubCycles,   \* the sub-cycles, the one of the highest priority first
    CancelCycle, \* the run cycle of CYCLE_NAME_CANCEL
    PauseMacro, EndMacro, FaultMacro,  \* the cycles of these states
    Conditional, \* the priorities whose sub-cycle a condition can start
    Forward, Backward  \* PHASE_STEP_FORWARD, PHASE_STEP_BACKWARD

\* The cycle of PROGRAMMING, and the Sub_Cycle when no sub-cycle runs.
ProgrammingMacro == 0
NoCycle == 0

Cycles == DOMAIN Program
SubCycleIds == {SubCycles[p] : p \in DOMAIN SubCycles}
RunCycles == MainCycles \cup SubCycleIds \cup {CancelCycle}
Macros == {ProgrammingMacro, PauseMacro, EndMacro, FaultMacro}

\* Selector__GetCycleState: the state a cycle is meant for.
Heading(c) == CASE c = ProgrammingMacro -> "programming"
                [] c = PauseMacro -> "pause"
                [] c = EndMacro   -> "end"
                [] c = FaultMacro -> "fault"
                [] OTHER          -> "run"

Place(c, p, s) == [cycle |-> c, phase |-> p, step |-> s]

NumberOfPhases(c)   == Cardinality(DOMAIN Program[c])
NumberOfSteps(c, p) == Len(Program[c][p])
StatementsOf(at)    == Program[at.cycle][at.phase][at.step + 1]

\* The setting file has the place: Selector__LoadPhaseData succeeds and the
\* statement is one of the phase.
Loadable(at) == /\ at.cycle \in Cycles
                /\ at.phase \in DOMAIN Program[at.cycle]
                /\ at.step \in 0 .. NumberOfSteps(at.cycle, at.phase) - 1

PlacesOf(c) == UNION {{Place(c, p, s) : s \in 0 .. NumberOfSteps(c, p) - 1} :
                         p \in DOMAIN Program[c]}
Places == UNION {PlacesOf(c) : c \in Cycles}

-----------------------------------------------------------------------------
(* Statements: a process, a JUMP_IF, and the flags and codes of SET_STATE. *)

Process == [op |-> "process"]
JumpTo(at) == [op |-> "jump", to |-> at]
EndCycle == [op |-> "end_cycle"]
EndCycleReset == [op |-> "end_cycle_reset"]
PauseCycle == [op |-> "pause"]
EndSubCycle(code) == [op |-> "end_sub_cycle", code |-> code]

Codes == {"resume", "restart_step", "restart_phase", "skip_phase"}

IsStatement(st) ==
    \/ st \in {Process, EndCycle, EndCycleReset, PauseCycle}
    \/ \E at \in Places : st = JumpTo(at) /\ at.cycle \in RunCycles
    \/ \E code \in Codes : st = EndSubCycle(code)

\* A sub-cycle's jumps stay in it, a main cycle's lead to no sub-cycle.
JumpStays(from, to) ==
    IF from.cycle \in SubCycleIds THEN to.cycle = from.cycle
                                  ELSE to.cycle \notin SubCycleIds

\* The setting file is well formed, which the code takes for granted.  The
\* cycles of the states have a phase for the cycle they stand in for, and
\* none of them jumps or ends a sub-cycle.
ASSUME ProgramAssumption ==
    /\ Cycles \subseteq Nat
    /\ Cycles = RunCycles \cup Macros
    /\ RunCycles \cap Macros = {}
    /\ PauseMacro # ProgrammingMacro
    /\ EndMacro \notin {ProgrammingMacro, PauseMacro}
    /\ FaultMacro \notin {ProgrammingMacro, PauseMacro, EndMacro}
    /\ (MainCycles \cup {CancelCycle}) \cap SubCycleIds = {}
    /\ CancelCycle \notin MainCycles
    /\ SubCycles \in Seq(Nat)
    /\ \A p, q \in DOMAIN SubCycles :
          SubCycles[p] = SubCycles[q] => p = q
    /\ Conditional \subseteq DOMAIN SubCycles

ASSUME PhasesAssumption ==
    /\ \A c \in Cycles : IsFiniteSet(DOMAIN Program[c])
    /\ \A c \in RunCycles : /\ DOMAIN Program[c] = 0 .. NumberOfPhases(c) - 1
                            /\ NumberOfPhases(c) \in 1 .. 128
    /\ \A c \in Macros : DOMAIN Program[c] = {0} \cup MainCycles
                                             \cup {CancelCycle}
    /\ \A c \in Cycles : \A p \in DOMAIN Program[c] :
          NumberOfSteps(c, p) \in 1 .. 128
    /\ \A at \in Places : \A k \in DOMAIN StatementsOf(at) :
          /\ IsStatement(StatementsOf(at)[k])
          /\ at.cycle \in Macros
                => StatementsOf(at)[k].op \notin {"jump", "end_sub_cycle"}
          /\ StatementsOf(at)[k].op = "jump"
                => JumpStays(at, StatementsOf(at)[k].to)
    /\ Forward > 128 /\ Backward > 128 /\ Forward # Backward

-----------------------------------------------------------------------------
(* The interpreter: Interpreter_Data, Interpreter_Status, and the copies   *)
(* of the two that a pause and a sub-cycle keep.                           *)

BlankData == [at |-> Place(0, 0, 0), state |-> "programming", init |-> FALSE,
              fromPause |-> FALSE, error |-> FALSE]
BlankStatus == [cycle |-> 0, phase |-> 0, step |-> 0,
                sub |-> NoCycle, subPhase |-> 0, subStep |-> 0]

\* What SetPhase and SetStep read of Itp_Phase_Data, and its reset value.
PhaseData(at) == [phases |-> NumberOfPhases(at.cycle),
                  steps  |-> NumberOfSteps(at.cycle, at.phase)]
NothingLoaded == [phases |-> 0, steps |-> 1]

\* Interpreter__Initialize when the data of the appliance were not recovered.
BlankInterpreter ==
    [data |-> BlankData, status |-> BlankStatus,
     pauseData |-> BlankData, pauseStatus |-> BlankStatus,
     subData |-> BlankData, subStatus |-> BlankStatus,
     loaded |-> NothingLoaded, mainPhases |-> 0]

\* Fault: the status follows the place also in a sub-cycle.
StatusOfPlace(d, st) ==
    [st EXCEPT !.cycle = d.at.cycle, !.phase = d.at.phase,
               !.step = d.at.step, !.subPhase = d.at.phase,
               !.subStep = d.at.step]

\* What the status says after the phase of the place has been loaded: a
\* sub-cycle leaves the main cycle's entries to those who entered it.
StatusOf(d, st) ==
    IF st.sub = NoCycle
    THEN [cycle |-> d.at.cycle, phase |-> d.at.phase, step |-> d.at.step,
          sub |-> NoCycle, subPhase |-> 0, subStep |-> 0]
    ELSE IF d.state \in {"pause", "end"}
    THEN [st EXCEPT !.cycle = d.at.cycle, !.phase = d.at.phase,
                    !.subStep = d.at.step]
    ELSE [st EXCEPT !.subPhase = d.at.phase, !.subStep = d.at.step]

LoadPhaseData(i) ==
    IF Loadable(i.data.at)
    THEN [i EXCEPT !.data.error = FALSE,
                   !.status = StatusOf(i.data, i.status),
                   !.loaded = PhaseData(i.data.at)]
    ELSE [i EXCEPT !.data.error = TRUE]

\* Fault: the pause of a sub-cycle is looked up by the sub-cycle.
ConfiguredPhaseOfAny(i, phase, state) == phase

\* Interpreter__Configure.  A pause of a sub-cycle is the main cycle's.
ConfiguredPhase(i, phase, state) ==
    IF state = "pause" /\ i.status.sub # NoCycle
    THEN i.subData.at.cycle ELSE phase

Configure(i, at, state) ==
    LoadPhaseData([i EXCEPT
        !.data.at = [at EXCEPT !.phase = ConfiguredPhase(i, at.phase, state)],
        !.data.state = state,
        !.data.init = TRUE])

ClearSubCycleStatus(i) ==
    [i EXCEPT !.status.sub = NoCycle, !.status.subPhase = 0,
              !.status.subStep = 0]

-----------------------------------------------------------------------------
(* The pause.                                                              *)

SavePauseResumeData(i) ==
    [i EXCEPT !.pauseData = i.data, !.pauseStatus = i.status]

RestoreFromPauseResumeData(i) ==
    [i EXCEPT !.data = i.pauseData, !.status = i.pauseStatus,
              !.pauseData = BlankData, !.pauseStatus = BlankStatus]

\* Faults: the phase is not loaded; the step is not told.
ResumeNotLoaded(i) == [i EXCEPT !.data.fromPause = TRUE]
ResumeUntold(i) == LoadPhaseData(i)

Resume(i) == LoadPhaseData([i EXCEPT !.data.fromPause = TRUE])

-----------------------------------------------------------------------------
(* Sub-cycles.                                                             *)

SaveSubCycleResumeData(i) ==
    [i EXCEPT !.subData = i.data, !.subStatus = i.status,
              !.mainPhases = i.loaded.phases]

RestoreFromSubCycleResumeData(i) ==
    [i EXCEPT !.data = i.subData, !.status = i.subStatus,
              !.subData = BlankData, !.subStatus = BlankStatus]

RecoverPauseResumeData(i) ==
    [i EXCEPT !.pauseData = i.subData, !.pauseStatus = i.subStatus,
              !.subData = BlankData, !.subStatus = BlankStatus]

\* The sub-cycle is over and the main cycle goes on where it was left.
BackToMainCycle(i) == Resume(RestoreFromSubCycleResumeData(i))

\* Interpreter__TerminateSubCycle; the cycle in place says what is running.
TerminateSubCycle(i) ==
    IF i.status.sub = NoCycle THEN i
    ELSE CASE Heading(i.data.at.cycle) = "run" ->
                 ClearSubCycleStatus(BackToMainCycle(i))
           [] Heading(i.data.at.cycle) = "pause" ->
                 ClearSubCycleStatus(RecoverPauseResumeData(i))
           [] OTHER -> i

\* Fault: the loop of SubCycle__GetActive runs on to the lowest priority.
GetActiveLowest(running, requested, triggered) ==
    LET active == {p \in DOMAIN SubCycles : \/ p = requested
                                            \/ SubCycles[p] = running
                                            \/ p \in triggered}
    IN  IF active = {} THEN NoCycle
        ELSE SubCycles[CHOOSE p \in active : \A q \in active : q <= p]

\* SubCycle__GetActive: the sub-cycle of the highest priority that was
\* requested, is already running, or is triggered by its condition.
GetActive(running, requested, triggered) ==
    LET active == {p \in DOMAIN SubCycles : \/ p = requested
                                            \/ SubCycles[p] = running
                                            \/ p \in triggered}
    IN  IF active = {} THEN NoCycle
        ELSE SubCycles[CHOOSE p \in active : \A q \in active : p <= q]

\* Fault: the data to come back to are saved whatever runs.
EnterSubCycleSaving(i, sub) ==
    LoadPhaseData([SaveSubCycleResumeData(i) EXCEPT
        !.status.cycle = i.data.at.cycle, !.status.phase = i.data.at.phase,
        !.status.sub = sub,
        !.data.at = Place(sub, 0, 0), !.data.state = "run",
        !.data.init = TRUE])

\* CheckForSubCycle, once SubCycle__GetActive has answered: a sub-cycle of a
\* higher priority takes the place of the one that runs.
EnterSubCycle(i, sub) ==
    LET kept == IF i.status.sub = NoCycle
                THEN [SaveSubCycleResumeData(i) EXCEPT
                         !.status.cycle = i.data.at.cycle,
                         !.status.phase = i.data.at.phase]
                ELSE i
    IN  LoadPhaseData([kept EXCEPT
            !.status.sub = sub,
            !.data.at = Place(sub, 0, 0), !.data.state = "run",
            !.data.init = TRUE])

\* Fault: a sub-cycle that runs is never pre-empted.
CheckForFirstSubCycle(i, sub, doorClosed) ==
    IF /\ sub # NoCycle /\ i.status.sub = NoCycle
       /\ i.data.state = "run" /\ doorClosed
    THEN EnterSubCycle(i, sub)
    ELSE i

CheckForSubCycle(i, sub, doorClosed) ==
    IF /\ sub # NoCycle /\ sub # i.data.at.cycle
       /\ i.data.state = "run" /\ doorClosed
    THEN EnterSubCycle(i, sub)
    ELSE i

-----------------------------------------------------------------------------
(* Interpreter__Run after CheckForSubCycle: a set of outcomes.             *)

Outcome(i, result) == [itp |-> i, result |-> result]

\* The flags of a step that starts anew.
StepStarting(d) ==
    [d EXCEPT !.init = TRUE, !.fromPause = FALSE]

TakeJump(i, at) ==
    Outcome(LoadPhaseData([i EXCEPT !.data = [StepStarting(@) EXCEPT
                                                 !.at = at]]),
            "end_step")

FirstStep(at) == Place(at.cycle, at.phase, 0)
NextStep(at)  == Place(at.cycle, at.phase, at.step + 1)
NextPhase(at) == Place(at.cycle, at.phase + 1, 0)

\* Fault: the cycle restarts where its step should.
RestartedCycle(i, code) ==
    CASE code = "restart_step"  -> Place(i.data.at.cycle, 0, 0)
      [] code = "restart_phase" -> FirstStep(i.data.at)
      [] code = "skip_phase"    -> NextPhase(i.data.at)

\* ExitSubCycle, when a sub-cycle runs and its code is valid.
RestartedPlace(i, code) ==
    CASE code = "restart_step"  -> i.data.at
      [] code = "restart_phase" -> FirstStep(i.data.at)
      [] code = "skip_phase"    -> NextPhase(i.data.at)

ExitSubCycle(i, code) ==
    LET main == RestoreFromSubCycleResumeData(i)
        restarted == [main EXCEPT !.data.init = TRUE,
                                  !.data.fromPause = FALSE]
    IN  IF i.status.sub = NoCycle THEN Outcome(i, "end_sub_cycle")
        ELSE IF code = "resume" THEN Outcome(Resume(main), "end_sub_cycle")
        ELSE IF code = "skip_phase" /\ main.data.at.phase >= i.mainPhases - 1
        THEN Outcome(restarted, "end_cycle")
        ELSE Outcome(LoadPhaseData([restarted EXCEPT
                        !.data.at = RestartedPlace(main, code)]),
                     "end_sub_cycle")

\* A statement that ends the run of the step when it is reached; a pause is
\* passed over by the run that resumes from it.
EndsRun(i, st) == \/ st.op \in {"end_cycle", "end_cycle_reset",
                                "end_sub_cycle"}
                  \/ st.op = "pause" /\ ~i.data.fromPause

\* The statements that can be reached: none before them ends the run.
Reached(i, s) ==
    {k \in DOMAIN s : \A j \in 1 .. k - 1 : ~EndsRun(i, s[j])}

OutcomeOf(i, st) ==
    CASE st.op = "jump"          -> TakeJump(i, st.to)
      [] st.op = "end_sub_cycle" -> ExitSubCycle(i, st.code)
      [] OTHER                   -> Outcome(i, st.op)

\* All statements of the step have run; one whose process is busy and is
\* waited for (its N_Flag) keeps the step.
StaysInStep(i) ==
    Outcome([i EXCEPT !.data = [StepStarting(@) EXCEPT !.init = FALSE]],
            "same_step")

LastPhase(i) == i.data.at.phase >= i.loaded.phases - 1

EndsStep(i) ==
    LET d == StepStarting(i.data)
        done == [i EXCEPT !.data = d]
    IN  IF d.at.step + 1 < i.loaded.steps
        THEN Outcome([done EXCEPT !.data.at = NextStep(@)], "end_step")
        ELSE IF d.state # "run"
        THEN Outcome(LoadPhaseData([done EXCEPT !.data.at = FirstStep(@)]),
                     "end_phase")
        ELSE IF ~LastPhase(i)
        THEN Outcome(LoadPhaseData([done EXCEPT !.data.at = NextPhase(@)]),
                     "end_phase")
        ELSE IF i.status.sub # NoCycle
        THEN Outcome(BackToMainCycle(done), "end_phase")
        ELSE Outcome(done, "end_cycle")

Waits(s) == \E k \in DOMAIN s : s[k].op \in {"process", "jump"}

RunStep(i) ==
    LET s == StatementsOf(i.data.at) IN
    {OutcomeOf(i, s[k]) : k \in {k \in Reached(i, s) :
                                    EndsRun(i, s[k]) \/ s[k].op = "jump"}}
    \cup (IF \E k \in DOMAIN s : EndsRun(i, s[k]) THEN {}
          ELSE {EndsStep(i)} \cup (IF Waits(s) THEN {StaysInStep(i)} ELSE {}))

-----------------------------------------------------------------------------
(* Interpreter__SetPhase and Interpreter__SetStep, which the supervisor    *)
(* and the stability control call: the verdict, and what is configured.    *)

PhaseVerdict(i, phase) ==
    LET now == i.data.at.phase IN
    IF \/ phase = Backward /\ now # 0
       \/ phase = Forward /\ now < i.loaded.phases - 1
       \/ phase \notin {Forward, Backward} /\ phase < i.loaded.phases
    THEN "pass" ELSE IF phase = Forward THEN "end" ELSE "fail"

PhaseAsked(i, phase) == CASE phase = Backward -> i.data.at.phase - 1
                          [] phase = Forward  -> i.data.at.phase + 1
                          [] OTHER            -> phase

SetPhase(i, phase) ==
    IF PhaseVerdict(i, phase) # "pass" THEN i
    ELSE Configure(i, Place(i.data.at.cycle, PhaseAsked(i, phase), 0),
                   i.data.state)

CurrentStep(i) == IF i.status.sub # NoCycle THEN i.status.subStep
                                            ELSE i.status.step

\* Past either end of the phase the request is one for the phase beside it.
LeavesPhase(i, step) ==
    \/ step = Backward /\ CurrentStep(i) = 0
    \/ step = Forward /\ CurrentStep(i) >= i.loaded.steps - 1

StepVerdict(i, step) ==
    IF LeavesPhase(i, step) THEN PhaseVerdict(i, step)
    ELSE IF step \in {Backward, Forward} \/ step < i.loaded.steps
    THEN "pass" ELSE "fail"

StepAsked(i, moved, step) ==
    IF LeavesPhase(i, step)
    THEN IF step = Backward THEN moved.loaded.steps - 1 ELSE 0
    ELSE CASE step = Backward -> CurrentStep(i) - 1
           [] step = Forward  -> CurrentStep(i) + 1
           [] OTHER           -> step

\* A step that the phase does not have is its first one.
GetFirstStatement(i, step) == IF step < i.loaded.steps THEN step ELSE 0

SetStep(i, step) ==
    LET moved == IF LeavesPhase(i, step) THEN SetPhase(i, step) ELSE i IN
    IF StepVerdict(i, step) # "pass" THEN i
    ELSE Configure(moved, [moved.data.at EXCEPT
                !.step = GetFirstStatement(moved, StepAsked(i, moved, step))],
                   moved.data.state)
=============================================================================
