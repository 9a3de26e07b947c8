-------------------------- MODULE InterpreterStatus --------------------------
(***************************************************************************)
(* What the status says of the place: the supervisor decides by it whether *)
(* a cycle may be paused and from which step it is to advance.  It is      *)
(* written when a phase is loaded, and by halves: while a sub-cycle runs   *)
(* Main_Cycle is the main cycle's, and so it must be in each copy that a   *)
(* pause or a sub-cycle has put aside.                                     *)
(***************************************************************************)
EXTENDS InterpreterProofs

\* While a sub-cycle runs, the status and its copy name the main cycle.
NamesAside(i) ==
    i.status.sub # NoCycle => /\ i.status.cycle = i.subData.at.cycle
                              /\ i.subStatus.cycle = i.subData.at.cycle

Names(i) ==
    /\ NamesAside(i)
    /\ i.status.sub = NoCycle => i.status.cycle = i.data.at.cycle

Tells(i) == CurrentStep(i) = i.data.at.step

-----------------------------------------------------------------------------
(* Loading and configuring.                                                *)

LEMMA LoadsStatus ==
    ASSUME NEW i \in Itp, i.data.at \in Places
    PROVE  LET j == LoadPhaseData(i) IN
           /\ j.data.at = i.data.at /\ j.data.init = i.data.init
           /\ j.data.fromPause = i.data.fromPause
           /\ i.data.state = "run" => /\ Tells(j)
                                      /\ NamesAside(i) => Names(j)
  <1> DEFINE st == StatusOf(i.data, i.status)
             j  == LoadPhaseData(i)
  <1>1. LoadedFrom(j, i)
    BY Loads
  <1>2. j.status = st
    BY PlaceFacts DEF LoadPhaseData, Itp
  <1>3. i.data \in Data /\ i.status \in Status
    BY DEF Itp
  <1> HIDE DEF j
  <1>4. /\ j.data.at = i.data.at /\ j.data.init = i.data.init
        /\ j.data.fromPause = i.data.fromPause
    BY <1>1, <1>3 DEF LoadedFrom, Data
  <1>5. ASSUME i.data.state = "run", i.status.sub = NoCycle
        PROVE  Tells(j) /\ Names(j)
    <2>1. st.step = i.data.at.step /\ st.cycle = i.data.at.cycle
          /\ st.sub = NoCycle
      BY <1>5 DEF StatusOf
    <2>2. QED
      BY <1>2, <1>4, <2>1 DEF Tells, CurrentStep, Names, NamesAside
  <1>6. ASSUME i.data.state = "run", i.status.sub # NoCycle
        PROVE  Tells(j) /\ (NamesAside(i) => Names(j))
    <2>1. st.subStep = i.data.at.step /\ st.cycle = i.status.cycle
          /\ st.sub = i.status.sub
      BY <1>3, <1>6 DEF StatusOf, Status
    <2>2. Tells(j)
      BY <1>2, <1>4, <1>6, <2>1 DEF Tells, CurrentStep
    <2>3. NamesAside(i) => Names(j)
      BY <1>1, <1>2, <1>6, <2>1 DEF LoadedFrom, Names, NamesAside
    <2>4. QED
      BY <2>2, <2>3
  <1>7. QED
    BY <1>4, <1>5, <1>6 DEF j

\* Data are put in place and their phase is loaded.
LEMMA LoadsData ==
    ASSUME NEW i \in Itp, NEW d \in Data, d.at \in Places
    PROVE  LET j == LoadPhaseData([i EXCEPT !.data = d]) IN
           /\ j.data.at = d.at /\ j.data.init = d.init
           /\ j.data.fromPause = d.fromPause
           /\ d.state = "run" => /\ Tells(j)
                                 /\ NamesAside(i) => Names(j)
  <1> DEFINE k == [i EXCEPT !.data = d]
  <1>1. k \in Itp /\ k.data = d /\ Leaves(k, i) /\ k.status = i.status
    BY DEF Itp, Leaves
  <1> HIDE DEF k
  <1>2. NamesAside(i) => NamesAside(k)
    BY <1>1 DEF NamesAside, Leaves
  <1>3. QED
    BY <1>1, <1>2, LoadsStatus DEF k

LEMMA ConfiguresRun ==
    ASSUME NEW i \in Itp, NEW at \in Places
    PROVE  LET j == Configure(i, at, "run") IN
           Tells(j) /\ (NamesAside(i) => Names(j)) /\ j.data.init
  <1> DEFINE d == [i.data EXCEPT !.at = at, !.state = "run", !.init = TRUE]
  <1>1. at \in [cycle : Nat, phase : Nat, step : Nat]
        /\ at = [at EXCEPT !.phase = at.phase]
    BY PlaceFacts
  <1>2. d \in Data /\ d.at = at /\ d.state = "run" /\ d.init
    BY <1>1 DEF Itp, Data
  <1>3. Configure(i, at, "run") = LoadPhaseData([i EXCEPT !.data = d])
    BY <1>1 DEF Configure, ConfiguredPhase, Itp
  <1> HIDE DEF d
  <1>4. QED
    BY <1>2, <1>3, LoadsData

\* Whatever is configured is to start anew.
LEMMA ConfiguresAnew ==
    ASSUME NEW i \in Itp, NEW at, NEW state
    PROVE  LET j == Configure(i, at, state) IN
           /\ j.data.at = ConfiguredAt(i, at, state) /\ j.data.init
           /\ Leaves(j, i)
  <1> DEFINE d == [i.data EXCEPT !.at = ConfiguredAt(i, at, state),
                                 !.state = state, !.init = TRUE]
             k == [i EXCEPT !.data = d]
             j == LoadPhaseData(k)
  <1>1. Configure(i, at, state) = j
    BY DEF Configure, ConfiguredAt, Itp
  <1>2. d.at = ConfiguredAt(i, at, state) /\ d.init
        /\ d = [d EXCEPT !.at = d.at]
    BY DEF Itp, Data
  <1>3. \A e \in BOOLEAN : LET f == [d EXCEPT !.error = e] IN
                           f.at = d.at /\ f.init = d.init
    BY DEF Itp, Data
  <1> HIDE DEF d
  <1>4. k.data = d /\ Leaves(k, i) /\ k.status = i.status
        /\ DOMAIN k = DOMAIN i
    BY DEF Itp, Leaves
  <1>5. /\ \/ j.data = [d EXCEPT !.error = FALSE]
           \/ j.data = [d EXCEPT !.error = TRUE]
        /\ Leaves(j, k)
    <2>1. CASE Loadable(k.data.at)
      BY <1>4, <2>1 DEF LoadPhaseData, Leaves, StatusOf, Itp, Status
    <2>2. CASE ~Loadable(k.data.at)
      BY <1>4, <2>2 DEF LoadPhaseData, Leaves, Itp
    <2>3. QED
      BY <2>1, <2>2
  <1> HIDE DEF k, j
  <1>6. Leaves(j, i)
    BY <1>4, <1>5 DEF Leaves
  <1>7. QED
    BY <1>1, <1>2, <1>3, <1>5, <1>6

-----------------------------------------------------------------------------
(* Sub-cycles and the pause.                                               *)

LEMMA RestoresNames ==
    ASSUME NEW i \in Itp, i.status.sub # NoCycle, Keeps(i), NamesAside(i)
    PROVE  LET m == RestoreFromSubCycleResumeData(i) IN
           m.status = i.subStatus /\ Names(m)
  <1> DEFINE m == RestoreFromSubCycleResumeData(i)
  <1>1. m.status = i.subStatus /\ m.data = i.subData
    BY DEF RestoreFromSubCycleResumeData, Itp
  <1>2. i.subStatus.sub = NoCycle
        /\ i.subStatus.cycle = i.subData.at.cycle
    BY DEF Keeps, NamesAside
  <1> HIDE DEF m
  <1>3. Names(m)
    BY <1>1, <1>2 DEF Names, NamesAside
  <1>4. QED
    BY <1>1, <1>3 DEF m

LEMMA ResumesNames ==
    ASSUME NEW i \in Itp, Runs(i)
    PROVE  LET j == Resume(i) IN
           /\ j.data.at = i.data.at /\ j.data.fromPause
           /\ Tells(j) /\ (NamesAside(i) => Names(j))
  <1> DEFINE d == [i.data EXCEPT !.fromPause = TRUE]
  <1>1. i.data \in Data /\ i.data.at \in Places /\ i.data.state = "run"
    BY DEF Itp, Runs, RunsHere
  <1>2. d \in Data /\ d.at = i.data.at /\ d.state = "run" /\ d.fromPause
    BY <1>1 DEF Data
  <1>3. Resume(i) = LoadPhaseData([i EXCEPT !.data = d])
    BY DEF Resume, Itp
  <1> HIDE DEF d
  <1>4. QED
    BY <1>1, <1>2, <1>3, LoadsData

LEMMA BackNames ==
    ASSUME NEW i \in Itp, i.status.sub # NoCycle, Keeps(i), NamesAside(i)
    PROVE  LET j == BackToMainCycle(i) IN
           Tells(j) /\ Names(j) /\ j.data.fromPause
  <1> DEFINE m == RestoreFromSubCycleResumeData(i)
  <1>1. m \in Itp /\ Runs(m) /\ Names(m)
    BY RestoresMain, RestoresNames
  <1>2. BackToMainCycle(i) = Resume(m)
    BY DEF BackToMainCycle
  <1> HIDE DEF m
  <1>3. QED
    BY <1>1, <1>2, ResumesNames DEF Names

LEMMA TerminatesNames ==
    ASSUME NEW i \in Itp, Runs(i), NamesAside(i), i.status.sub # NoCycle
    PROVE  LET j == TerminateSubCycle(i) IN
           Names(j) /\ j.data.fromPause
  <1> DEFINE m == BackToMainCycle(i)
             j == ClearSubCycleStatus(m)
  <1>1. Keeps(i) /\ Heading(i.data.at.cycle) = "run"
    BY CycleFacts DEF Runs, RunsHere
  <1>2. TerminateSubCycle(i) = j
    BY <1>1 DEF TerminateSubCycle
  <1>3. m \in Itp /\ m.status.sub = NoCycle /\ Names(m) /\ m.data.fromPause
    BY <1>1, BackToMain, BackNames
  <1> HIDE DEF m
  <1>4. j.data = m.data /\ j.status.sub = NoCycle
    BY <1>3, Clears
  <1>5. j.status.cycle = m.status.cycle
    BY <1>3 DEF ClearSubCycleStatus, Itp, Status
  <1> HIDE DEF j
  <1>6. QED
    BY <1>2, <1>3, <1>4, <1>5 DEF Names, NamesAside

LEMMA EntersNames ==
    ASSUME NEW i \in Itp, Runs(i), Here(i), Names(i), NEW sub \in SubCycleIds
    PROVE  LET j == EnterSubCycle(i, sub) IN
           Tells(j) /\ Names(j) /\ j.data.init
  <1> DEFINE kept == IF i.status.sub = NoCycle
                     THEN [SaveSubCycleResumeData(i) EXCEPT
                              !.status.cycle = i.data.at.cycle,
                              !.status.phase = i.data.at.phase]
                     ELSE i
             st == [kept.status EXCEPT !.sub = sub]
             m  == [kept EXCEPT !.status = st]
             d  == [i.data EXCEPT !.at = Place(sub, 0, 0), !.state = "run",
                                  !.init = TRUE]
             j  == EnterSubCycle(i, sub)
  <1>1. /\ i.data \in Data /\ i.status \in Status
        /\ i.data.at \in Places /\ sub # NoCycle /\ sub \in RunCycles
    BY CycleFacts DEF Itp, Runs, RunsHere
  <1>2. i.data.at \in [cycle : Nat, phase : Nat, step : Nat]
        /\ i.loaded.phases \in Nat
    BY <1>1, PlaceFacts DEF Itp
  <1>3. kept \in Itp /\ kept.data = i.data /\ kept.status \in Status
    <2>1. [i.status EXCEPT !.cycle = i.data.at.cycle,
                           !.phase = i.data.at.phase] \in Status
      BY <1>1, <1>2 DEF Status
    <2>2. QED
      BY <1>1, <1>2, <2>1 DEF SaveSubCycleResumeData, Itp
  <1>4. /\ kept.status.cycle = kept.subData.at.cycle
        /\ kept.subStatus.cycle = kept.subData.at.cycle
    <2>1. CASE i.status.sub = NoCycle
      <3>1. /\ kept.subData = i.data /\ kept.subStatus = i.status
            /\ kept.status.cycle = i.data.at.cycle
        BY <1>1, <2>1 DEF SaveSubCycleResumeData, Itp, Status
      <3> HIDE DEF kept
      <3>2. QED
        BY <2>1, <3>1 DEF Names
    <2>2. CASE i.status.sub # NoCycle
      BY <2>2 DEF Names, NamesAside
    <2>3. QED
      BY <2>1, <2>2
  <1>5. j = LoadPhaseData([m EXCEPT !.data = d])
    BY <1>3 DEF EnterSubCycle, Itp
  <1> HIDE DEF kept, j
  <1>6. st \in Status /\ st.sub = sub /\ st.cycle = kept.status.cycle
    BY <1>3 DEF Status
  <1> HIDE DEF st
  <1>7. m \in Itp /\ NamesAside(m)
    BY <1>3, <1>4, <1>6 DEF Itp, NamesAside
  <1> HIDE DEF m
  <1>8. Place(sub, 0, 0) \in Places
    BY <1>1, CycleFacts, PhaseFacts, FirstPlaceIn
  <1>9. Place(sub, 0, 0) \in [cycle : Nat, phase : Nat, step : Nat]
    BY <1>8, PlaceFacts
  <1>10. d \in Data /\ d.state = "run" /\ d.at \in Places /\ d.init
    BY <1>1, <1>8, <1>9 DEF Data
  <1> HIDE DEF d
  <1>11. QED
    BY <1>5, <1>7, <1>10, LoadsData DEF j

LEMMA ChecksNames ==
    ASSUME NEW i \in Itp, Runs(i), Here(i), Names(i), Tells(i),
           NEW sub \in SubCycleIds \cup {NoCycle}, NEW closed
    PROVE  LET j == CheckForSubCycle(i, sub, closed) IN
           /\ Names(j) /\ Tells(j)
           /\ \/ j = i
              \/ j.data.init /\ j.status.sub # i.status.sub
  <1> DEFINE j == CheckForSubCycle(i, sub, closed)
  <1>1. CASE j = i
    BY <1>1
  <1>2. CASE j # i
    <2>1. /\ sub \in SubCycleIds /\ sub # NoCycle /\ sub # i.data.at.cycle
          /\ j = EnterSubCycle(i, sub)
      BY <1>2 DEF CheckForSubCycle
    <2>2. Names(j) /\ Tells(j) /\ j.data.init /\ j.status.sub = sub
      BY <2>1, EntersNames, EntersSubCycle
    <2>3. sub # i.status.sub
      BY <2>1 DEF Runs, RunsHere, Suits
    <2>4. QED
      BY <2>2, <2>3
  <1>3. QED
    BY <1>1, <1>2

\* The status put aside by a pause names the main cycle of a sub-cycle.
PausedNames(i) ==
    i.status.sub # NoCycle => /\ i.pauseStatus.cycle = i.subData.at.cycle
                              /\ i.subStatus.cycle = i.subData.at.cycle

LEMMA EntersPauseNames ==
    ASSUME NEW i \in Itp, Runs(i), NamesAside(i)
    PROVE  PausedNames(Configure(SavePauseResumeData(i),
                         Place(PauseMacro, i.data.at.cycle, 0), "pause"))
  <1> DEFINE m == SavePauseResumeData(i)
             at == Place(PauseMacro, i.data.at.cycle, 0)
             j == Configure(m, at, "pause")
  <1>1. m.pauseStatus = i.status /\ m.status = i.status
        /\ m.subData = i.subData /\ m.subStatus = i.subStatus
    BY DEF SavePauseResumeData, Itp
  <1>2. j.status.sub = m.status.sub /\ j.pauseStatus = m.pauseStatus
        /\ j.subData = m.subData /\ j.subStatus = m.subStatus
    BY DEF Configure, LoadPhaseData, StatusOf
  <1> HIDE DEF j, m
  <1>3. PausedNames(j)
    BY <1>1, <1>2 DEF PausedNames, NamesAside
  <1>4. QED
    BY <1>3 DEF j, m

LEMMA LeavesPauseNames ==
    ASSUME NEW i \in Itp, Pauses(i), PausedNames(i)
    PROVE  LET j == Resume(RestoreFromPauseResumeData(i)) IN
           Names(j) /\ j.data.fromPause
  <1> DEFINE m == RestoreFromPauseResumeData(i)
  <1>1. /\ m \in Itp /\ m.data = i.pauseData /\ m.status = i.pauseStatus
        /\ m.subData = i.subData /\ m.subStatus = i.subStatus
        /\ m.mainPhases = i.mainPhases
    BY BlankTypes DEF RestoreFromPauseResumeData, Itp
  <1> HIDE DEF m
  <1>2. Runs(m) /\ NamesAside(m)
    BY <1>1 DEF Pauses, Runs, Keeps, PausedNames, NamesAside
  <1>3. QED
    BY <1>1, <1>2, ResumesNames DEF m

-----------------------------------------------------------------------------
(* A run of a step.                                                        *)

\* The results after which the step in place is not the one of the status.
Unsettled == {"end_step", "end_cycle", "end_cycle_reset", "pause"}

\* A step that is entered is told so.
Signals(o, i) ==
    \/ o.itp.data.init \/ o.itp.data.fromPause
    \/ o.itp = i
    \/ /\ o.result = "same_step"
       /\ o.itp.data.at = i.data.at /\ o.itp.status.sub = i.status.sub

NamesOn(o, i) ==
    /\ Names(o.itp) /\ Signals(o, i)
    /\ Tells(o.itp) \/ o.result \in Unsettled

\* The data change and the place stays in its cycle.
LEMMA MovesNames ==
    ASSUME NEW i \in Itp, NEW d \in Data, d.at.cycle = i.data.at.cycle
    PROVE  LET j == [i EXCEPT !.data = d] IN
           /\ j \in Itp /\ j.data = d /\ j.status = i.status
           /\ j.subData = i.subData
           /\ NamesAside(i) => NamesAside(j)
           /\ Names(i) => Names(j)
           /\ d.at = i.data.at /\ Tells(i) => Tells(j)
  <1> DEFINE j == [i EXCEPT !.data = d]
  <1>1. /\ j \in Itp /\ j.data = d /\ j.status = i.status
        /\ j.subData = i.subData /\ j.subStatus = i.subStatus
    BY DEF Itp
  <1> HIDE DEF j
  <1>2. NamesAside(i) => NamesAside(j)
    BY <1>1 DEF NamesAside
  <1>3. Names(i) => Names(j)
    BY <1>1, <1>2 DEF Names
  <1>4. d.at = i.data.at /\ Tells(i) => Tells(j)
    BY <1>1 DEF Tells, CurrentStep
  <1>5. QED
    BY <1>1, <1>2, <1>3, <1>4 DEF j

LEMMA StartingFlags ==
    ASSUME NEW d \in Data
    PROVE  LET s == StepStarting(d) IN s \in Data /\ s.at = d.at /\ s.init
  BY DEF StepStarting, Data

LEMMA StaysNames ==
    ASSUME NEW i \in Itp
    PROVE  /\ Signals(StaysInStep(i), i)
           /\ Names(i) /\ Tells(i) => NamesOn(StaysInStep(i), i)
  <1> DEFINE d == [StepStarting(i.data) EXCEPT !.init = FALSE]
             j == [i EXCEPT !.data = d]
  <1>1. d \in Data /\ d.at = i.data.at
    BY DEF StepStarting, Itp, Data
  <1>2. StaysInStep(i) = Outcome(j, "same_step")
    BY DEF StaysInStep, Itp
  <1> HIDE DEF d
  <1>3. /\ j.data = d /\ j.status = i.status
        /\ Names(i) /\ Tells(i) => Names(j) /\ Tells(j)
    BY <1>1, MovesNames
  <1> HIDE DEF j
  <1>4. Signals(StaysInStep(i), i)
    BY <1>1, <1>2, <1>3 DEF Signals, Outcome
  <1>5. QED
    BY <1>2, <1>3, <1>4 DEF NamesOn, Outcome

LEMMA JumpsNames ==
    ASSUME NEW i \in Itp, Runs(i), NamesAside(i), NEW to \in Places
    PROVE  NamesOn(TakeJump(i, to), i)
  <1> DEFINE s == StepStarting(i.data)
             d == [s EXCEPT !.at = to]
             j == LoadPhaseData([i EXCEPT !.data = d])
  <1>1. s \in Data /\ s.init /\ s.state = "run"
    BY StartingFlags, StartingTypes DEF Runs, RunsHere, Itp
  <1>2. to \in [cycle : Nat, phase : Nat, step : Nat]
    BY PlaceFacts
  <1>3. TakeJump(i, to) = Outcome(j, "end_step")
    BY DEF TakeJump, Itp
  <1> HIDE DEF s
  <1>4. d \in Data /\ d.at = to /\ d.init /\ d.state = "run"
    BY <1>1, <1>2 DEF Data
  <1> HIDE DEF d
  <1>5. Names(j) /\ j.data.init
    BY <1>4, LoadsData
  <1> HIDE DEF j
  <1>6. QED
    BY <1>3, <1>5 DEF NamesOn, Signals, Outcome, Unsettled

LEMMA ExitsNames ==
    ASSUME NEW i \in Itp, Runs(i), Here(i), Names(i), Tells(i),
           NEW code \in Codes
    PROVE  NamesOn(ExitSubCycle(i, code), i)
  <1> DEFINE main == RestoreFromSubCycleResumeData(i)
             r == [main.data EXCEPT !.init = TRUE, !.fromPause = FALSE]
             restarted == [main EXCEPT !.data.init = TRUE,
                                       !.data.fromPause = FALSE]
             to == RestartedPlace(main, code)
             d == [r EXCEPT !.at = to]
             j == LoadPhaseData([main EXCEPT !.data = d])
             o == ExitSubCycle(i, code)
  <1>1. CASE i.status.sub = NoCycle
    <2>1. o = Outcome(i, "end_sub_cycle")
      BY <1>1 DEF ExitSubCycle
    <2>2. QED
      BY <2>1 DEF NamesOn, Signals, Outcome
  <1>2. CASE i.status.sub # NoCycle
    <2>1. Keeps(i) /\ NamesAside(i)
      BY DEF Runs, Names
    <2>2. /\ main \in Itp /\ main.data = i.subData /\ Runs(main)
          /\ Names(main)
      BY <1>2, <2>1, RestoresMain, RestoresNames
    <2>3. i.mainPhases = NumberOfPhases(main.data.at.cycle)
      BY <1>2, <2>1, <2>2 DEF Keeps
    <2>4. /\ o = IF code = "resume"
                 THEN Outcome(Resume(main), "end_sub_cycle")
                 ELSE IF code = "skip_phase"
                         /\ main.data.at.phase >= i.mainPhases - 1
                 THEN Outcome(restarted, "end_cycle")
                 ELSE Outcome(LoadPhaseData([restarted EXCEPT
                                                !.data.at = to]),
                              "end_sub_cycle")
      BY <1>2 DEF ExitSubCycle
    <2> HIDE DEF main
    <2>5. main.data \in Data /\ main.data.state = "run"
          /\ main.data.at \in Places /\ main.data.at.cycle \in RunCycles
      BY <2>2 DEF Runs, RunsHere, Itp
    <2>6. /\ r \in Data /\ r.at = main.data.at /\ r.init /\ r.state = "run"
      BY <2>5 DEF Data
    <2>7. restarted = [main EXCEPT !.data = r]
      BY <2>2 DEF Itp
    <2>8. CASE code = "resume"
      <3>1. Names(Resume(main)) /\ Tells(Resume(main))
            /\ Resume(main).data.fromPause
        BY <2>2, ResumesNames DEF Names
      <3>2. QED
        BY <2>4, <2>8, <3>1 DEF NamesOn, Signals, Outcome
    <2>9. CASE code = "skip_phase"
               /\ main.data.at.phase >= i.mainPhases - 1
      <3>1. restarted.data = r /\ Names(restarted)
        BY <2>2, <2>6, <2>7, MovesNames
      <3>2. o = Outcome(restarted, "end_cycle")
        BY <2>4, <2>9
      <3> HIDE DEF restarted, r, o
      <3>3. NamesOn(o, i)
        BY <2>6, <3>1, <3>2 DEF NamesOn, Signals, Outcome, Unsettled
      <3>4. QED
        BY <3>3 DEF o
    <2>10. CASE /\ code # "resume"
                /\ ~(code = "skip_phase"
                       /\ main.data.at.phase >= i.mainPhases - 1)
      <3>1. main.data.at.phase \in Nat
            /\ NumberOfPhases(main.data.at.cycle) \in Nat
        BY <2>5, PlaceFacts, PhaseFacts
      <3>2. to \in Places
        BY <2>2, <2>3, <2>5, <2>10, <3>1, RestartsIn
      <3>3. to \in [cycle : Nat, phase : Nat, step : Nat]
        BY <3>2, PlaceFacts
      <3>4. o = Outcome(LoadPhaseData([restarted EXCEPT !.data.at = to]),
                        "end_sub_cycle")
        BY <2>4, <2>10
      <3>5. [restarted EXCEPT !.data.at = to] = [main EXCEPT !.data = d]
        BY <2>2, <2>7 DEF Itp
      <3> HIDE DEF to
      <3>6. d \in Data /\ d.at = to /\ d.state = "run" /\ d.init
        BY <2>6, <3>3 DEF Data
      <3> HIDE DEF d, restarted, r
      <3>7. Names(j) /\ Tells(j) /\ j.data.init
        BY <2>2, <3>2, <3>6, LoadsData DEF Names
      <3>8. o = Outcome(j, "end_sub_cycle")
        BY <3>4, <3>5
      <3> HIDE DEF j, o
      <3>9. NamesOn(o, i)
        BY <3>7, <3>8 DEF NamesOn, Signals, Outcome
      <3>10. QED
        BY <3>9 DEF o
    <2>11. QED
      BY <2>8, <2>9, <2>10
  <1>3. QED
    BY <1>1, <1>2

LEMMA EndsStepNames ==
    ASSUME NEW i \in Itp, Runs(i), Here(i), Names(i), Tells(i)
    PROVE  NamesOn(EndsStep(i), i)
  <1> DEFINE d == StepStarting(i.data)
             done == [i EXCEPT !.data = d]
             at == i.data.at
             next == [d EXCEPT !.at = Place(at.cycle, at.phase, at.step + 1)]
             after == [d EXCEPT !.at = Place(at.cycle, at.phase + 1, 0)]
  <1> SUFFICES NamesOn(EndsStep(i), i)
    OBVIOUS
  <1>1. /\ i.data \in Data /\ at \in Places /\ at.cycle \in RunCycles
        /\ i.data.state = "run" /\ Keeps(i) /\ NamesAside(i)
    BY DEF Runs, RunsHere, Itp, Names
  <1>2. /\ d \in Data /\ d.at = at /\ d.state = "run" /\ d.init
        /\ d.error = i.data.error
    BY <1>1, StartingTypes, StartingFlags
  <1>3. /\ i.loaded.steps = NumberOfSteps(at.cycle, at.phase)
        /\ i.loaded.phases = NumberOfPhases(at.cycle)
    BY DEF Here, PhaseData
  <1> HIDE DEF d
  <1>4. CASE /\ at.step + 1 < i.loaded.steps
             /\ EndsStep(i) = Outcome([i EXCEPT !.data = next], "end_step")
    <2> DEFINE j == [i EXCEPT !.data = next]
               to == Place(at.cycle, at.phase, at.step + 1)
    <2>1. to \in Places
      BY <1>1, <1>3, <1>4, NextStepIn
    <2>2. to.cycle = at.cycle
          /\ to \in [cycle : Nat, phase : Nat, step : Nat]
      BY <2>1, PlaceFacts DEF Place
    <2> HIDE DEF to
    <2>3. next \in Data /\ next.at = to /\ next.init
      BY <1>2, <2>2 DEF Data, to
    <2> HIDE DEF next
    <2>4. j.data = next /\ Names(j)
      BY <2>2, <2>3, MovesNames
    <2>5. EndsStep(i) = Outcome(j, "end_step")
      BY <1>4
    <2> HIDE DEF j
    <2>6. QED
      BY <2>3, <2>4, <2>5 DEF NamesOn, Signals, Outcome, Unsettled
  <1>5. CASE /\ ~LastPhase(i)
             /\ EndsStep(i)
                   = Outcome(LoadPhaseData([i EXCEPT !.data = after]),
                             "end_phase")
    <2> DEFINE to == Place(at.cycle, at.phase + 1, 0)
               j == LoadPhaseData([i EXCEPT !.data = after])
    <2>1. at.phase < NumberOfPhases(at.cycle) - 1
      <3>1. at.phase \in Nat /\ i.loaded.phases \in Nat
        BY <1>1 DEF Itp, Data
      <3>2. QED
        BY <1>3, <1>5, <3>1 DEF LastPhase
    <2>2. to \in Places
      BY <1>1, <2>1, NextPhaseIn
    <2>3. to \in [cycle : Nat, phase : Nat, step : Nat]
      BY <2>2, PlaceFacts
    <2> HIDE DEF to
    <2>4. /\ after \in Data /\ after.at = to /\ after.state = "run"
          /\ after.init
      BY <1>2, <2>3 DEF Data, to
    <2> HIDE DEF after
    <2>5. Names(j) /\ Tells(j) /\ j.data.init
      BY <1>1, <2>2, <2>4, LoadsData
    <2> HIDE DEF j
    <2>6. QED
      BY <1>5, <2>5 DEF NamesOn, Signals, Outcome, j
  <1>6. /\ done \in Itp /\ done.data = d /\ Leaves(done, i) /\ Runs(done)
        /\ done.status = i.status /\ Names(done)
    BY <1>1, <1>2, Flags, MovesNames
  <1>7. CASE /\ i.status.sub # NoCycle
             /\ EndsStep(i) = Outcome(BackToMainCycle(done), "end_phase")
    <2> HIDE DEF done
    <2>1. done.status.sub # NoCycle /\ Keeps(done) /\ NamesAside(done)
      BY <1>6, <1>7 DEF Runs, Names
    <2>2. LET j == BackToMainCycle(done) IN
          Names(j) /\ Tells(j) /\ j.data.fromPause
      BY <1>6, <2>1, BackNames
    <2>3. QED
      BY <1>7, <2>2 DEF NamesOn, Signals, Outcome
  <1>8. CASE EndsStep(i) = Outcome(done, "end_cycle")
    <2> HIDE DEF done
    <2>1. QED
      BY <1>2, <1>6, <1>8 DEF NamesOn, Signals, Outcome, Unsettled
  <1>9. QED
    BY <1>1, <1>4, <1>5, <1>7, <1>8, EndsStepCases DEF d

LEMMA RunStepNames ==
    ASSUME NEW i \in Itp, Runs(i), Here(i), Names(i), Tells(i),
           NEW o \in RunStep(i)
    PROVE  NamesOn(o, i)
  <1>1. i.data.at \in Places
    BY DEF Runs, RunsHere
  <1>2. CASE o = EndsStep(i) \/ o = StaysInStep(i)
    BY <1>2, EndsStepNames, StaysNames
  <1>3. ASSUME NEW k \in DOMAIN StatementsOf(i.data.at),
               o = OutcomeOf(i, StatementsOf(i.data.at)[k]),
               EndsRun(i, StatementsOf(i.data.at)[k])
                  \/ StatementsOf(i.data.at)[k].op = "jump"
        PROVE  NamesOn(o, i)
    <2> DEFINE st == StatementsOf(i.data.at)[k]
    <2>1. /\ st.op = "jump" => st.to \in Places
          /\ st.op = "end_sub_cycle" => st.code \in Codes
      BY <1>1, StatementFacts
    <2>2. o = OutcomeOf(i, st) /\ (EndsRun(i, st) \/ st.op = "jump")
      BY <1>3
    <2> HIDE DEF st
    <2>3. CASE st.op = "jump"
      <3>1. o = TakeJump(i, st.to)
        BY <2>2, <2>3 DEF OutcomeOf
      <3>2. QED
        BY <2>1, <2>3, <3>1, JumpsNames DEF Names
    <2>4. CASE st.op = "end_sub_cycle"
      BY <2>1, <2>2, <2>4, ExitsNames DEF OutcomeOf
    <2>5. CASE st.op \in {"end_cycle", "end_cycle_reset", "pause"}
      BY <2>2, <2>5 DEF OutcomeOf, Outcome, NamesOn, Signals
    <2>6. QED
      BY <2>2, <2>3, <2>4, <2>5 DEF EndsRun
  <1>4. QED
    BY <1>2, <1>3, RunStepIs

\* The cycle of a state tells its steps as well.
LEMMA RunStepSignals ==
    ASSUME NEW i \in Itp, NEW c \in Macros, MacroRuns(i.data, c), Here(i),
           NEW o \in RunStep(i)
    PROVE  Signals(o, i)
  <1>1. i.data \in Data /\ i.data.at \in Places /\ i.data.at.cycle = c
        /\ i.data.state # "run"
    BY DEF MacroRuns, Itp, Heading, Macros
  <1>2. CASE o = StaysInStep(i)
    BY <1>2, StaysNames
  <1>3. CASE o = EndsStep(i)
    <2> DEFINE d == StepStarting(i.data)
               at == i.data.at
               next == [d EXCEPT !.at = Place(at.cycle, at.phase,
                                              at.step + 1)]
               first == [d EXCEPT !.at = Place(at.cycle, at.phase, 0)]
    <2>1. d \in Data /\ d.init
      BY <1>1, StartingFlags
    <2>2. i.loaded.steps = NumberOfSteps(at.cycle, at.phase)
      BY DEF Here, PhaseData
    <2> HIDE DEF d
    <2>3. CASE /\ at.step + 1 < i.loaded.steps
               /\ EndsStep(i) = Outcome([i EXCEPT !.data = next], "end_step")
      <3> DEFINE j == [i EXCEPT !.data = next]
      <3>1. next.init
        BY <2>1 DEF Data
      <3>2. j.data = next
        BY DEF Itp
      <3>3. o = Outcome(j, "end_step")
        BY <1>3, <2>3
      <3> HIDE DEF j, next
      <3>4. QED
        BY <3>1, <3>2, <3>3 DEF Signals, Outcome
    <2>4. CASE EndsStep(i) = Outcome(LoadPhaseData([i EXCEPT !.data = first]),
                                     "end_phase")
      <3>1. Place(at.cycle, at.phase, 0) \in Places
        BY <1>1, PlaceFacts, FirstPlaceIn
      <3>2. Place(at.cycle, at.phase, 0)
               \in [cycle : Nat, phase : Nat, step : Nat]
        BY <3>1, PlaceFacts
      <3>3. first \in Data /\ first.at \in Places /\ first.init
        BY <2>1, <3>1, <3>2 DEF Data
      <3> HIDE DEF first
      <3>4. LoadPhaseData([i EXCEPT !.data = first]).data.init
        BY <3>3, LoadsData
      <3>5. QED
        BY <1>3, <2>4, <3>4 DEF Signals, Outcome
    <2>5. QED
      BY <1>1, <2>3, <2>4, EndsStepCases DEF d
  <1>4. ASSUME NEW k \in DOMAIN StatementsOf(i.data.at),
               o = OutcomeOf(i, StatementsOf(i.data.at)[k])
        PROVE  Signals(o, i)
    <2>1. StatementsOf(i.data.at)[k].op \notin {"jump", "end_sub_cycle"}
      BY <1>1, StatementFacts
    <2>2. QED
      BY <1>4, <2>1 DEF OutcomeOf, Outcome, Signals
  <1>5. QED
    BY <1>2, <1>3, <1>4, RunStepIs

-----------------------------------------------------------------------------
(* Requests to go to another phase or step.                                *)

LEMMA ReconfiguresNames ==
    ASSUME NEW i \in Itp, Runs(i), NamesAside(i), NEW at \in Places
    PROVE  LET j == Configure(i, at, i.data.state) IN
           Names(j) /\ j.data.init
  <1>1. i.data.state = "run"
    BY DEF Runs, RunsHere
  <1>2. QED
    BY <1>1, ConfiguresRun

LEMMA SetsPhaseNames ==
    ASSUME NEW i \in Itp, Runs(i), Known(i), NamesAside(i),
           NEW phase \in 0 .. 127 \cup {Forward, Backward}
    PROVE  LET j == SetPhase(i, phase) IN
           \/ j = i
           \/ Names(j) /\ j.data.init
  <1>1. CASE PhaseVerdict(i, phase) # "pass"
    BY <1>1 DEF SetPhase
  <1>2. CASE PhaseVerdict(i, phase) = "pass"
    BY <1>2, AskedPhaseIn, ReconfiguresNames DEF SetPhase
  <1>3. QED
    BY <1>1, <1>2

LEMMA SetsStepNames ==
    ASSUME NEW i \in Itp, Runs(i), Here(i), NamesAside(i),
           NEW step \in 0 .. 127 \cup {Forward, Backward}
    PROVE  LET j == SetStep(i, step) IN
           \/ j = i
           \/ Names(j) /\ j.data.init
  <1> DEFINE moved == IF LeavesPhase(i, step) THEN SetPhase(i, step) ELSE i
             to == [moved.data.at EXCEPT
                 !.step = GetFirstStatement(moved, StepAsked(i, moved, step))]
             j == SetStep(i, step)
  <1>1. CASE StepVerdict(i, step) # "pass"
    BY <1>1 DEF SetStep
  <1>2. CASE StepVerdict(i, step) = "pass"
    <2>1. j = Configure(moved, to, moved.data.state)
      BY <1>2 DEF SetStep
    <2>2. /\ moved \in Itp /\ Runs(moved)
          /\ moved = i \/ Names(moved)
      BY SetsPhase, SetsPhaseNames DEF Known
    <2>3. NamesAside(moved) /\ moved.data.at \in Places
          /\ moved.data.state = "run"
      BY <2>2 DEF Names, Runs, RunsHere
    <2>4. moved.data.at \in [cycle : Nat, phase : Nat, step : Nat]
      BY <2>3, PlaceFacts
    <2>5. to = [to EXCEPT !.phase = to.phase]
      BY <2>4
    <2>6. j \in Itp /\ Runs(j)
      BY SetsStep
    <2> HIDE DEF to, moved
    <2>7. j.data.at = to
      BY <2>1, <2>2, <2>3, <2>5, ConfiguresAnew
      DEF ConfiguredAt, ConfiguredPhase
    <2>8. to \in Places
      BY <2>6, <2>7 DEF Runs, RunsHere
    <2>9. QED
      BY <2>1, <2>2, <2>3, <2>8, ReconfiguresNames
  <1>3. QED
    BY <1>1, <1>2

-----------------------------------------------------------------------------
(* The inductive invariant.                                                *)

\* DrainNotRunYet, of the interpreter i in the state f.
Drained(i, f) ==
    f = "cancelling" /\ i.data.at = Place(CancelCycle, 0, 0) /\ i.data.init

Settled(i, f) ==
    /\ f \in Running => NamesAside(i) /\ (Names(i) \/ Drained(i, f))
    /\ f \in Pausing => PausedNames(i)

StatusOK ==
    /\ Settled(itp, fsm)
    /\ pc = "machine" /\ fsm \in Running
          => Tells(itp) \/ result \in Unsettled \/ Drained(itp, fsm)

\* What StepsAreTold says of a step.
Told ==
    \/ itp'.data.at = itp.data.at
    \/ itp'.data.init \/ itp'.data.fromPause
    \/ result' = "same_step" /\ itp'.status.sub # itp.status.sub

Good2 == StatusOK' /\ Told

LEMMA Unmoved ==
    ASSUME StatusOK, itp' = itp, fsm' = fsm,
           pc' = "tasks" \/ (pc' = pc /\ result' = result)
    PROVE  Good2
  BY DEF Good2, Told, StatusOK

LEMMA Arrives ==
    ASSUME Settled(itp', fsm'), Told,
           pc' = "tasks" \/ fsm' \notin Running \/ Drained(itp', fsm')
    PROVE  Good2
  BY DEF Good2, StatusOK

LEMMA IdlesAnew ==
    ASSUME fsm' \notin Running \cup Pausing, itp'.data.init
    PROVE  Good2
  BY DEF Good2, Told, StatusOK, Settled

-----------------------------------------------------------------------------
(* The events of the state machine.                                        *)

LEMMA CommandEntersProgramming ==
    ASSUME NEW i \in Itp, NEW sel, EnterProgramming(i, sel)
    PROVE  Good2
  <1> DEFINE j == Configure(i, Place(ProgrammingMacro, sel, 0), "programming")
  <1>1. fsm' = "programming" /\ itp' = ClearSubCycleStatus(j)
    BY DEF EnterProgramming
  <1>2. j.data.init
    BY ConfiguresAnew
  <1>3. ClearSubCycleStatus(j).data = j.data
    BY DEF ClearSubCycleStatus, Configure, LoadPhaseData, Itp
  <1> HIDE DEF j
  <1>4. fsm' \notin Running \cup Pausing /\ itp'.data.init
    BY <1>1, <1>2, <1>3 DEF Running, Pausing
  <1>5. QED
    BY <1>4, IdlesAnew

LEMMA CancellingSettles ==
    ASSUME NEW i \in Itp, EnterCancelling(i)
    PROVE  Good2
  <1> DEFINE k == Configure(i, Place(CancelCycle, 0, 0), "run")
  <1>1. /\ fsm' = "cancelling" /\ itp' = ClearSubCycleStatus(k)
        /\ CancelCycle \in RunCycles /\ CancelCycle \notin SubCycleIds
    BY CycleFacts DEF EnterCancelling
  <1>2. /\ k \in Itp /\ k.data.at = Place(CancelCycle, 0, 0)
    BY <1>1, StartsRun
  <1>3. k.data.init
    BY ConfiguresAnew
  <1> HIDE DEF k
  <1>4. /\ itp'.data = k.data /\ itp'.status.sub = NoCycle
    BY <1>1, <1>2, Clears
  <1>5. Drained(itp', fsm') /\ Told /\ NamesAside(itp')
    BY <1>1, <1>2, <1>3, <1>4 DEF Drained, Told, NamesAside
  <1>6. Settled(itp', fsm')
    BY <1>1, <1>5 DEF Settled, Pausing
  <1>7. QED
    BY <1>5, <1>6, Arrives

LEMMA ResetSettles ==
    ASSUME NEW i \in Itp, NEW sel, EvReset(i, sel)
    PROVE  Good2 \/ (fsm = "fault" /\ itp' = i /\ fsm' = fsm)
  BY CommandEntersProgramming, CancellingSettles DEF EvReset

LEMMA EndSettles ==
    ASSUME itp \in Itp, NEW sel, EvEnd(sel)
    PROVE  Good2
  <1> DEFINE j == Configure(itp, Place(EndMacro, sel, 0), "end")
  <1>1. CASE EnterProgramming(itp, sel)
    BY <1>1, CommandEntersProgramming
  <1>2. CASE fsm' = "end_of_cycle" /\ itp' = ClearSubCycleStatus(j)
    <2>1. j.data.init
      BY ConfiguresAnew
    <2>2. ClearSubCycleStatus(j).data = j.data
      BY DEF ClearSubCycleStatus, Configure, LoadPhaseData, Itp
    <2> HIDE DEF j
    <2>3. fsm' \notin Running \cup Pausing /\ itp'.data.init
      BY <1>2, <2>1, <2>2 DEF Running, Pausing
    <2>4. QED
      BY <2>3, IdlesAnew
  <1>3. QED
    BY <1>1, <1>2 DEF EvEnd

LEMMA PauseSettles ==
    ASSUME NEW i \in Itp, fsm \in Running, Runs(i), NamesAside(i),
           EvPause(i)
    PROVE  Good2
  <1> DEFINE m == SavePauseResumeData(i)
             at == Place(PauseMacro, i.data.at.cycle, 0)
  <1>1. /\ itp' = Configure(m, at, "pause") /\ fsm' \in Pausing
        /\ fsm' \notin Running
    BY DEF EvPause, Running, Pausing
  <1>2. PausedNames(itp')
    BY <1>1, EntersPauseNames
  <1>3. m \in Itp
    BY DEF SavePauseResumeData, Itp
  <1> HIDE DEF m, at
  <1>4. itp'.data.init
    BY <1>1, <1>3, ConfiguresAnew
  <1>5. Settled(itp', fsm') /\ Told
    BY <1>1, <1>2, <1>4 DEF Settled, Told
  <1>6. QED
    BY <1>1, <1>5, Arrives

-----------------------------------------------------------------------------
(* The steps.                                                              *)

LEMMA StatusFacts ==
    ASSUME IInv, StatusOK
    PROVE  /\ fsm \in Running => /\ Runs(itp) /\ NamesAside(itp)
                                 /\ Names(itp) \/ Drained(itp, fsm)
           /\ fsm \in Pausing => Pauses(itp) /\ PausedNames(itp)
           /\ fsm \notin Running \cup Pausing => itp.status.sub = NoCycle
           /\ itp \in Itp
  BY InvFacts DEF StatusOK, Settled, Idles

LEMMA TasksSettle ==
    ASSUME IInv, StatusOK,
           SubCycleRequests \/ TerminateFromMonitor \/ DoorMoves
    PROVE  Good2
  <1>1. CASE SubCycleRequests \/ DoorMoves
    BY <1>1, Unmoved DEF SubCycleRequests, RequestStart, DoorMoves
  <1>2. CASE TerminateFromMonitor
    <2>1. /\ pc' = "tasks" /\ fsm' = fsm /\ pc' = pc /\ result' = result
          /\ itp' = TerminateSubCycle(itp)
      BY <1>2 DEF TerminateFromMonitor
    <2>2. CASE itp.status.sub = NoCycle
      BY <2>1, <2>2, Unmoved DEF TerminateSubCycle
    <2>3. CASE itp.status.sub # NoCycle /\ fsm \in Running
      <3>1. Names(itp') /\ itp'.data.fromPause
        BY <2>1, <2>3, StatusFacts, TerminatesNames
      <3>2. Settled(itp', fsm') /\ Told
        BY <2>1, <2>3, <3>1
        DEF Settled, Told, Names, Running, Pausing
      <3>3. QED
        BY <2>1, <3>2, Arrives
    <2>4. CASE itp.status.sub # NoCycle /\ fsm \in Pausing
      <3>1. itp'.status.sub = NoCycle /\ itp'.data = itp.data
        BY <2>1, <2>4, StatusFacts, TerminatesPaused
      <3>2. Settled(itp', fsm') /\ Told
        BY <2>1, <2>4, <3>1
        DEF Settled, Told, PausedNames, Running, Pausing
      <3>3. QED
        BY <2>1, <3>2, Arrives
    <2>5. QED
      BY <2>2, <2>3, <2>4, StatusFacts
  <1>3. QED
    BY <1>1, <1>2

\* A request moves the cycle that runs, or leaves it where it is.
LEMMA MoveSettles ==
    ASSUME IInv, StatusOK, fsm \in Running, fsm' = fsm, pc' = "tasks",
           itp' = itp \/ (Names(itp') /\ itp'.data.init)
    PROVE  Good2
  <1>1. CASE itp' = itp
    BY <1>1, Unmoved
  <1>2. CASE Names(itp') /\ itp'.data.init
    <2>1. Settled(itp', fsm') /\ Told
      BY <1>2 DEF Settled, Told, Names, Running, Pausing
    <2>2. QED
      BY <2>1, Arrives
  <1>3. QED
    BY <1>1, <1>2

LEMMA UnbalanceSettles ==
    ASSUME IInv, StatusOK, NEW phase \in PhaseRequests,
           StabilityReaction(phase)
    PROVE  Good2
  <1>1. /\ pc = "tasks" /\ pc' = "tasks" /\ fsm' = fsm
        /\ itp' = SetPhase(itp, phase) /\ itp.data.at.cycle \in RunCycles
    BY DEF StabilityReaction
  <1>2. fsm \in Running
    <2>1. itp.data.at.cycle \notin Macros /\ PauseMacro \in Macros
      BY <1>1, CycleFacts DEF Macros
    <2>2. QED
      BY <2>1, InvFacts DEF Pauses, Idles, MacroRuns
  <1>3. Known(itp)
    BY <1>1 DEF IInv, LoadedOK, Known
  <1>4. itp' = itp \/ (Names(itp') /\ itp'.data.init)
    BY <1>1, <1>2, <1>3, StatusFacts, RequestTypes, SetsPhaseNames
  <1>5. QED
    BY <1>1, <1>2, <1>4, MoveSettles

LEMMA AdvanceSettles ==
    ASSUME IInv, StatusOK,
           \/ \E phase \in PhaseRequests : RunSetsPhase(phase)
           \/ \E step \in StepRequests : RunSetsStep(step)
    PROVE  Good2
  <1>1. Advances /\ PassDone /\ pc' = "tasks" /\ fsm \in Running
    BY DEF RunSetsPhase, RunSetsStep, PassDone, Advances
  <1>2. Here(itp) /\ Known(itp)
    BY <1>1, InvFacts DEF Advances, Known
  <1>3. CASE \E sel \in Selections : EvEnd(sel)
    BY <1>3, InvFacts, EndSettles
  <1>4. ASSUME NEW phase \in PhaseRequests, itp' = SetPhase(itp, phase),
               fsm' = fsm
        PROVE  Good2
    <2>1. itp' = itp \/ (Names(itp') /\ itp'.data.init)
      BY <1>1, <1>2, <1>4, StatusFacts, RequestTypes, SetsPhaseNames
    <2>2. QED
      BY <1>1, <1>4, <2>1, MoveSettles
  <1>5. ASSUME NEW step \in StepRequests, itp' = SetStep(itp, step),
               fsm' = fsm
        PROVE  Good2
    <2>1. itp' = itp \/ (Names(itp') /\ itp'.data.init)
      BY <1>1, <1>2, <1>5, StatusFacts, RequestTypes, SetsStepNames
    <2>2. QED
      BY <1>1, <1>5, <2>1, MoveSettles
  <1>6. QED
    BY <1>3, <1>4, <1>5 DEF RunSetsPhase, RunSetsStep

LEMMA EventsSettle ==
    ASSUME IInv, StatusOK,
           \/ Command \/ TakeFault \/ NothingToDo \/ FaultDo
           \/ RunEnds \/ RunEndsInReset \/ RunPauses
    PROVE  Good2
  <1>1. itp \in Itp
    BY InvFacts
  <1>2. CASE NothingToDo
    BY <1>2, Unmoved DEF NothingToDo, PassDone
  <1>3. CASE Command
    BY <1>1, <1>3, EndSettles, ResetSettles, Unmoved DEF Command
  <1>4. CASE TakeFault
    <2> DEFINE j == Configure(itp, Place(FaultMacro, 0, 0), "fault")
    <2>1. fsm' = "fault" /\ itp' = ClearSubCycleStatus(j)
      BY <1>4 DEF TakeFault
    <2>2. j.data.init
      BY <1>1, ConfiguresAnew
    <2>3. ClearSubCycleStatus(j).data = j.data
      BY <1>1 DEF ClearSubCycleStatus, Configure, LoadPhaseData, Itp
    <2> HIDE DEF j
    <2>4. fsm' \notin Running \cup Pausing /\ itp'.data.init
      BY <2>1, <2>2, <2>3 DEF Running, Pausing
    <2>5. QED
      BY <2>4, IdlesAnew
  <1>5. CASE FaultDo
    BY <1>1, <1>5, CommandEntersProgramming DEF FaultDo
  <1>6. CASE RunEnds
    BY <1>1, <1>6, EndSettles DEF RunEnds
  <1>7. CASE RunEndsInReset
    BY <1>1, <1>7, ResetSettles DEF RunEndsInReset, Running
  <1>8. CASE RunPauses
    BY <1>8, StatusFacts, PauseSettles DEF RunPauses
  <1>9. QED
    BY <1>2, <1>3, <1>4, <1>5, <1>6, <1>7, <1>8

LEMMA StartSettles ==
    ASSUME IInv, StatusOK, ProgrammingStarts
    PROVE  Good2
  <1>1. /\ fsm = "programming" /\ fsm' = "run" /\ pc' = "tasks"
    BY DEF ProgrammingStarts, PassDone
  <1>2. PICK c \in MainCycles : itp' = Configure(itp, Place(c, 0, 0), "run")
    BY DEF ProgrammingStarts
  <1>3. itp \in Itp /\ NamesAside(itp)
    BY <1>1, StatusFacts DEF Running, Pausing, NamesAside
  <1>4. Place(c, 0, 0) \in Places
    BY CycleFacts, PhaseFacts, FirstPlaceIn
  <1>5. Names(itp') /\ itp'.data.init
    BY <1>2, <1>3, <1>4, ConfiguresRun
  <1>6. Settled(itp', fsm') /\ Told
    BY <1>1, <1>5 DEF Settled, Told, Names, Running, Pausing
  <1>7. QED
    BY <1>1, <1>6, Arrives

LEMMA ResumeSettles ==
    ASSUME IInv, StatusOK, PauseResumes
    PROVE  Good2
  <1> DEFINE r == Resume(RestoreFromPauseResumeData(itp))
  <1>1. /\ fsm \in Pausing /\ fsm' \in Running /\ pc' = "tasks"
        /\ \/ itp' = r
           \/ itp' = TerminateSubCycle(r)
    BY DEF PauseResumes, CycleResume, PassDone, Running
  <1>2. /\ itp \in Itp /\ Pauses(itp) /\ PausedNames(itp)
    BY <1>1, StatusFacts
  <1>3. r \in Itp /\ Runs(r)
    BY <1>2, LeavesPause
  <1>4. Names(r) /\ r.data.fromPause
    BY <1>2, LeavesPauseNames
  <1> HIDE DEF r
  <1>5. Names(itp') /\ itp'.data.fromPause
    <2>1. CASE itp' = r
      BY <1>4, <2>1
    <2>2. CASE itp' = TerminateSubCycle(r)
      <3>1. CASE r.status.sub = NoCycle
        BY <1>4, <2>2, <3>1 DEF TerminateSubCycle
      <3>2. CASE r.status.sub # NoCycle
        BY <1>3, <1>4, <2>2, <3>2, TerminatesNames DEF Names
      <3>3. QED
        BY <3>1, <3>2
    <2>3. QED
      BY <1>1, <2>1, <2>2
  <1>6. Settled(itp', fsm') /\ Told
    BY <1>1, <1>5 DEF Settled, Told, Names, Running, Pausing
  <1>7. QED
    BY <1>1, <1>6, Arrives

LEMMA LoadedAt ==
    ASSUME IInv
    PROVE  /\ itp.data.at \in Places
           /\ LoadPhaseData(itp).data.at = itp.data.at
  <1>1. itp \in Itp /\ itp.data.at \in Places
    BY InvFacts DEF Runs, RunsHere, Pauses, Idles, MacroRuns
  <1>2. QED
    BY <1>1, LoadsStatus

LEMMA RunSettlesRunning ==
    ASSUME IInv, StatusOK, InterpreterRun, fsm \in Running
    PROVE  Good2
  <1>1. /\ fsm' = fsm /\ pc' \in {"loop", "machine"}
        /\ \E i, j, o : RunOf(i, j, o)
    BY RunIs DEF InterpreterRun, LoopSeam
  <1>2. PICK i, j, o : RunOf(i, j, o)
    BY <1>1
  <1>3. /\ i = LoadPhaseData(itp) /\ itp' = o.itp /\ result' = o.result
        /\ o \in RunStep(j)
    BY <1>2 DEF RunOf
  <1>4. /\ i \in Itp /\ Runs(i) /\ Here(i)
        /\ i.status.sub = itp.status.sub /\ i.data.at = itp.data.at
    BY <1>3, InvFacts, FitsLoaded, LoadedAt
  <1>5. Names(i) /\ Tells(i)
    <2>1. /\ itp \in Itp /\ itp.data.at \in Places /\ NamesAside(itp)
          /\ itp.data.state = "run"
      BY StatusFacts DEF Runs, RunsHere
    <2>2. QED
      BY <1>3, <2>1, LoadsStatus
  <1>6. PICK triggered \in SUBSET Conditional :
           j = CheckForSubCycle(i, GetActive(i.status.sub, requested,
                                             triggered), doorClosed)
    BY <1>2 DEF RunOf
  <1> DEFINE sub == GetActive(i.status.sub, requested, triggered)
  <1>7. sub \in SubCycleIds \cup {NoCycle}
    BY Active DEF SubCycleIds
  <1>8. j = CheckForSubCycle(i, sub, doorClosed)
    BY <1>6
  <1> HIDE DEF sub
  <1>9. j \in Itp /\ Runs(j) /\ Here(j)
    BY <1>4, <1>7, <1>8, Checks
  <1>10. /\ Names(j) /\ Tells(j)
         /\ j = i \/ (j.data.init /\ j.status.sub # i.status.sub)
    BY <1>4, <1>5, <1>7, <1>8, ChecksNames
  <1>11. NamesOn(o, j)
    BY <1>3, <1>9, <1>10, RunStepNames
  <1>12. Told
    BY <1>3, <1>4, <1>10, <1>11 DEF NamesOn, Signals, Told
  <1>13. fsm' \notin Pausing
    BY <1>1 DEF Running, Pausing
  <1>14. QED
    BY <1>1, <1>3, <1>11, <1>12, <1>13
    DEF Good2, StatusOK, Settled, NamesOn, Names

LEMMA RunSettlesMacro ==
    ASSUME IInv, StatusOK, InterpreterRun, fsm \notin Running
    PROVE  Good2
  <1>1. fsm' = fsm /\ \E i, j, o : RunOf(i, j, o)
    BY RunIs
  <1>2. PICK i, j, o : RunOf(i, j, o)
    BY <1>1
  <1>3. /\ i = LoadPhaseData(itp) /\ itp' = o.itp /\ result' = o.result
        /\ o \in RunStep(j)
    BY <1>2 DEF RunOf
  <1>4. PICK c \in Macros : MacroRuns(i.data, c)
    <2>1. PauseMacro \in Macros
      BY DEF Macros
    <2>2. QED
      BY <1>3, <2>1, InvFacts, FitsLoaded
  <1>5. /\ i \in Itp /\ Here(i) /\ Leaves(i, itp)
        /\ i.data.at = itp.data.at
    BY <1>3, InvFacts, FitsLoaded, LoadedAt
  <1>6. PICK triggered \in SUBSET Conditional :
           j = CheckForSubCycle(i, GetActive(i.status.sub, requested,
                                             triggered), doorClosed)
    BY <1>2 DEF RunOf
  <1>7. j = i
    <2>1. i.data.state # "run"
      BY <1>4 DEF MacroRuns, Heading, Macros
    <2>2. QED
      BY <1>6, <2>1 DEF CheckForSubCycle
  <1>8. Signals(o, i)
    BY <1>3, <1>4, <1>5, <1>7, RunStepSignals
  <1>9. Told
    BY <1>3, <1>5, <1>8 DEF Signals, Told
  <1>10. MacroOn(o, i, c)
    BY <1>2, <1>4, <1>5, RunOfMacro
  <1>11. Leaves(itp', itp)
    BY <1>3, <1>5, <1>10 DEF MacroOn, Leaves
  <1>12. fsm \in Pausing => PausedNames(itp')
    BY <1>11, StatusFacts DEF PausedNames, Leaves
  <1>13. Settled(itp', fsm')
    BY <1>1, <1>12 DEF Settled
  <1>14. QED
    BY <1>1, <1>9, <1>13, Arrives

-----------------------------------------------------------------------------
(* The steps: the power comes back.                                        *)

LEMMA RecoversNames ==
    ASSUME IInv
    PROVE  /\ NamesAside(itp) => NamesAside(Restored)
           /\ Names(itp) => Names(Restored)
           /\ PausedNames(itp) => PausedNames(Restored)
           /\ \A f : Drained(itp, f) => Drained(Restored, f)
  BY InvFacts, Recovers DEF NamesAside, Names, PausedNames, Drained

LEMMA ResetsSettle ==
    ASSUME IInv, StatusOK,
           \/ ColdResetCancels \/ ColdResetPauses \/ ColdResetResumes
           \/ ColdResetLeavesFault
    PROVE  Good2
  <1>1. Restored \in Itp
    BY InvFacts, Recovers
  <1>2. CASE ColdResetCancels
    BY <1>1, <1>2, ResetSettles DEF ColdResetCancels
  <1>3. CASE ColdResetPauses
    <2>1. fsm \in Running /\ EvPause(Restored)
      BY <1>3 DEF ColdResetPauses
    <2>2. Runs(Restored) /\ NamesAside(Restored)
      BY <2>1, StatusFacts, Recovers, RecoversNames
    <2>3. QED
      BY <1>1, <2>1, <2>2, PauseSettles
  <1>4. CASE ColdResetResumes
    <2>1. itp' = Restored /\ fsm' = fsm /\ pc' = "tasks"
      BY <1>4 DEF ColdResetResumes, ColdReset
    <2>2. Settled(itp', fsm')
      BY <2>1, RecoversNames DEF StatusOK, Settled
    <2>3. Told
      BY <2>1, InvFacts, Recovers DEF Told
    <2>4. QED
      BY <2>1, <2>2, <2>3, Arrives
  <1>5. CASE ColdResetLeavesFault
    BY <1>1, <1>5, CommandEntersProgramming DEF ColdResetLeavesFault
  <1>6. QED
    BY <1>2, <1>3, <1>4, <1>5

LEMMA RestartSettles ==
    ASSUME IInv, StatusOK, ColdResetRestarts
    PROVE  Good2
  <1> DEFINE c == itp.data.at.cycle
             p == IF ResetBehavior = "restart_phase" \/ OfAnotherCycle
                  THEN itp.data.at.phase ELSE 0
             to == Place(c, p, 0)
  <1>1. /\ pc' = "tasks" /\ fsm' = fsm
        /\ itp' = Configure(Restored, to, Heading(c))
    BY DEF ColdResetRestarts, ColdReset
  <1>2. itp.data.at \in Places /\ Restored \in Itp
    BY LoadedAt, InvFacts, Recovers
  <1>3. p \in DOMAIN Program[c] /\ c \in Cycles
    BY <1>2, PlaceFacts, PhaseFacts
  <1>4. to \in Places
    BY <1>3, FirstPlaceIn
  <1> HIDE DEF c, p, to
  <1>5. itp'.data.init /\ Leaves(itp', Restored)
    BY <1>1, <1>2, ConfiguresAnew
  <1>6. CASE fsm \in Running
    <2>1. Heading(c) = "run" /\ NamesAside(Restored) /\ fsm \notin Pausing
      BY <1>6, StatusFacts, RecoversNames, CycleFacts
      DEF Runs, RunsHere, c, Running, Pausing
    <2>2. Names(itp')
      BY <1>1, <1>2, <1>4, <2>1, ConfiguresRun
    <2>3. Settled(itp', fsm') /\ Told
      BY <1>1, <1>5, <2>1, <2>2 DEF Settled, Told, Names
    <2>4. QED
      BY <1>1, <2>3, Arrives
  <1>7. CASE fsm \notin Running
    <2>1. fsm \in Pausing => PausedNames(Restored)
      BY StatusFacts, RecoversNames
    <2>2. fsm \in Pausing => PausedNames(itp')
      BY <1>5, <2>1 DEF PausedNames, Leaves
    <2>3. Settled(itp', fsm') /\ Told
      BY <1>1, <1>5, <1>7, <2>2 DEF Settled, Told
    <2>4. QED
      BY <1>1, <2>3, Arrives
  <1>8. QED
    BY <1>6, <1>7

-----------------------------------------------------------------------------
(* The theorems.                                                           *)

\* One step per action.
LEMMA Settles ==
    ASSUME IInv, StatusOK, [Next]_vars
    PROVE  Good2
  <1>1. CASE UNCHANGED vars
    BY <1>1, Unmoved DEF vars
  <1>2. CASE InterpreterRun
    BY <1>2, RunSettlesRunning, RunSettlesMacro
  <1>3. CASE Tasks
    BY <1>3, TasksSettle, UnbalanceSettles DEF Tasks
  <1>4. CASE Machine
    BY <1>4, EventsSettle, StartSettles, ResumeSettles, AdvanceSettles
    DEF Machine
  <1>5. CASE Reset
    BY <1>5, ResetsSettle, RestartSettles DEF Reset
  <1>6. QED
    BY <1>1, <1>2, <1>3, <1>4, <1>5 DEF Next

LEMMA StatusInvariant == Spec => [](IInv /\ StatusOK)
  <1>1. Init => StatusOK
    BY DEF Init, StatusOK, Settled, Running, Pausing
  <1>2. IInv /\ StatusOK /\ [Next]_vars => StatusOK'
    BY Settles DEF Good2
  <1>3. QED
    BY <1>1, <1>2, Invariant, PTL DEF Spec

\* A pause is granted or refused by the main cycle's heading, whatever
\* sub-cycle runs (Selector__OkToPauseCycle, Itp_Status.Main_Cycle).
THEOREM PauseAsked == Spec => []PauseAsksMainCycle
  <1>1. IInv /\ StatusOK => PauseAsksMainCycle
    BY DEF StatusOK, Settled, PauseAsksMainCycle, Names, NamesAside,
           MainCycle, Drained, DrainNotRunYet
  <1>2. QED
    BY <1>1, StatusInvariant, PTL

\* A request to advance starts from the step that is in place, with its
\* phase's data (Interpreter__SetPhase, Interpreter__SetStep).
THEOREM AdvancesRight == Spec => []AdvancesFromHere
  <1>1. IInv /\ StatusOK => AdvancesFromHere
    <2> SUFFICES ASSUME IInv, StatusOK, Advances PROVE AdvancesFromHere
      BY DEF AdvancesFromHere
    <2>1. /\ pc = "machine" /\ fsm \in Running /\ ~Ends /\ result # "pause"
          /\ result \notin {"end_cycle", "end_cycle_reset"}
      BY DEF Advances, Ends
    <2>2. Here(itp)
      BY <2>1, InvFacts
    <2>3. \/ Tells(itp) \/ result = "end_step" \/ Drained(itp, fsm)
      BY <2>1 DEF StatusOK, Unsettled
    <2>4. QED
      BY <2>2, <2>3
      DEF AdvancesFromHere, Here, Tells, Drained, DrainNotRunYet
  <1>2. QED
    BY <1>1, StatusInvariant, PTL

\* A step that is entered, or entered again after a sub-cycle or a pause, is
\* told so at its next run (Step_Initializing, Resume_From_Pause).
THEOREM StepsTold == Spec => StepsAreTold
  <1>1. IInv /\ StatusOK /\ [Next]_vars => Told
    BY Settles DEF Good2
  <1>2. Spec => [][Told]_vars
    BY <1>1, StatusInvariant, PTL DEF Spec
  <1>3. QED
    BY <1>2 DEF StepsAreTold, Told

=============================================================================
