-------------------------- MODULE InterpreterProofs --------------------------
(***************************************************************************)
(* For every setting file: the interpreter is only ever sent to a step     *)
(* that the setting file has, and a sub-cycle and a pause keep the data    *)
(* they come back to.                                                      *)
(*                                                                         *)
(* The argument goes operator by operator.  Runs, Pauses and Idles say     *)
(* what the interpreter looks like in the states of the supervisor, Here   *)
(* that the phase data in RAM are those of the place it is at.             *)
(***************************************************************************)
EXTENDS InterpreterRun, FiniteSetTheorems, WellFoundedInduction, TLAPS

\* The cycle that runs is the sub-cycle that the status names, if it does.
Suits(c, sub) == IF sub = NoCycle THEN c \notin SubCycleIds ELSE c = sub

RunsHere(d, sub) ==
    /\ d.state = "run" /\ ~d.error
    /\ d.at \in Places /\ d.at.cycle \in RunCycles
    /\ Suits(d.at.cycle, sub)

MacroRuns(d, c) ==
    /\ d.state = Heading(c) /\ ~d.error
    /\ d.at \in Places /\ d.at.cycle = c

\* What a sub-cycle that runs or is paused comes back to.
Keeps(i) ==
    i.status.sub # NoCycle =>
       /\ RunsHere(i.subData, NoCycle) /\ i.subStatus.sub = NoCycle
       /\ i.mainPhases = NumberOfPhases(i.subData.at.cycle)

Runs(i) == RunsHere(i.data, i.status.sub) /\ Keeps(i)

Pauses(i) ==
    /\ MacroRuns(i.data, PauseMacro)
    /\ RunsHere(i.pauseData, i.status.sub)
    /\ i.pauseStatus.sub = i.status.sub
    /\ Keeps(i)

Idles(i, c) == MacroRuns(i.data, c) /\ i.status.sub = NoCycle

MacroOf(f) == CASE f = "programming"  -> ProgrammingMacro
                [] f = "end_of_cycle" -> EndMacro
                [] f = "fault"        -> FaultMacro

\* The interpreter is what the state of the supervisor expects it to be.
Fits(i, f) ==
    /\ i \in Itp
    /\ f \in Running => Runs(i)
    /\ f \in Pausing => Pauses(i)
    /\ f \in {"programming", "end_of_cycle", "fault"} => Idles(i, MacroOf(f))

Here(i) == i.loaded = PhaseData(i.data.at)

-----------------------------------------------------------------------------
(* The setting file.                                                       *)

LEMMA CycleFacts ==
    /\ Cycles \subseteq Nat /\ RunCycles \subseteq Cycles
    /\ Macros \subseteq Cycles
    /\ \A c \in RunCycles : c # 0 /\ c \notin Macros /\ Heading(c) = "run"
    /\ SubCycleIds \subseteq RunCycles /\ MainCycles \subseteq RunCycles
    /\ CancelCycle \in RunCycles /\ CancelCycle \notin SubCycleIds
    /\ NoCycle \notin SubCycleIds /\ MainCycles \cap SubCycleIds = {}
    /\ Heading(ProgrammingMacro) = "programming"
    /\ Heading(PauseMacro) = "pause" /\ Heading(EndMacro) = "end"
    /\ Heading(FaultMacro) = "fault"
  BY ProgramAssumption
  DEF ProgramAssumption, RunCycles, Macros, Heading, NoCycle,
      ProgrammingMacro

LEMMA PhaseFacts ==
    /\ \A c \in RunCycles : /\ NumberOfPhases(c) \in Nat \ {0}
                            /\ DOMAIN Program[c] = 0 .. NumberOfPhases(c) - 1
    /\ \A c \in Macros : DOMAIN Program[c] = {0} \cup MainCycles
                                             \cup {CancelCycle}
    /\ \A c \in Cycles : /\ DOMAIN Program[c] \subseteq Nat
                         /\ 0 \in DOMAIN Program[c]
                         /\ NumberOfPhases(c) \in Nat
    /\ \A c \in Cycles : \A p \in DOMAIN Program[c] :
          NumberOfSteps(c, p) \in Nat \ {0}
  <1>1. \A c \in RunCycles : /\ NumberOfPhases(c) \in Nat \ {0}
                             /\ DOMAIN Program[c]
                                   = 0 .. NumberOfPhases(c) - 1
    <2>1. \A c \in RunCycles : /\ DOMAIN Program[c]
                                     = 0 .. NumberOfPhases(c) - 1
                               /\ NumberOfPhases(c) \in 1 .. 128
      BY PhasesAssumption, Zenon DEF PhasesAssumption
    <2> TAKE c \in RunCycles
    <2>2. DOMAIN Program[c] = 0 .. NumberOfPhases(c) - 1
      BY <2>1
    <2> DEFINE n == NumberOfPhases(c)
    <2>3. n \in 1 .. 128
      BY <2>1
    <2> HIDE DEF n
    <2>4. n \in Nat \ {0}
      BY <2>3
    <2>5. QED
      BY <2>2, <2>4, Zenon DEF n
  <1>2. \A c \in Macros : DOMAIN Program[c] = {0} \cup MainCycles
                                              \cup {CancelCycle}
    BY PhasesAssumption DEF PhasesAssumption
  <1>3. \A c \in Cycles : NumberOfPhases(c) \in Nat
    BY PhasesAssumption, FS_CardinalityType
    DEF PhasesAssumption, NumberOfPhases
  <1>4. \A c \in Cycles : /\ DOMAIN Program[c] \subseteq Nat
                          /\ 0 \in DOMAIN Program[c]
    <2> SUFFICES ASSUME NEW c \in Cycles
                 PROVE  /\ DOMAIN Program[c] \subseteq Nat
                        /\ 0 \in DOMAIN Program[c]
      OBVIOUS
    <2>1. CASE c \in RunCycles
      BY <2>1, <1>1
    <2>2. CASE c \in Macros
      <3>1. DOMAIN Program[c] = {0} \cup MainCycles \cup {CancelCycle}
        BY <2>2, <1>2
      <3>2. MainCycles \cup {CancelCycle} \subseteq Nat
        BY CycleFacts
      <3>3. QED
        BY <3>1, <3>2
    <2>3. QED
      BY <2>1, <2>2, ProgramAssumption DEF ProgramAssumption
  <1>5. \A c \in Cycles : \A p \in DOMAIN Program[c] :
           NumberOfSteps(c, p) \in Nat \ {0}
    <2>1. \A c \in Cycles : \A p \in DOMAIN Program[c] :
             NumberOfSteps(c, p) \in 1 .. 128
      BY PhasesAssumption, Zenon DEF PhasesAssumption
    <2>2. QED
      BY <2>1
  <1>6. QED
    BY <1>1, <1>2, <1>3, <1>4, <1>5

LEMMA PlaceIn ==
    ASSUME NEW c \in Cycles, NEW p \in DOMAIN Program[c],
           NEW s \in 0 .. NumberOfSteps(c, p) - 1
    PROVE  Place(c, p, s) \in Places
  BY DEF Places, PlacesOf

LEMMA PlaceFacts ==
    ASSUME NEW at \in Places
    PROVE  /\ at \in [cycle : Nat, phase : Nat, step : Nat]
           /\ at = Place(at.cycle, at.phase, at.step)
           /\ Loadable(at)
           /\ at.cycle \in Cycles /\ at.phase \in DOMAIN Program[at.cycle]
           /\ at.step \in 0 .. NumberOfSteps(at.cycle, at.phase) - 1
           /\ PhaseData(at) \in [phases : Nat, steps : Nat]
           /\ at \in PlacesOf(at.cycle)
  <1>1. PICK c \in Cycles : at \in PlacesOf(c)
    BY DEF Places
  <1>2. PICK p \in DOMAIN Program[c] :
           \E s \in 0 .. NumberOfSteps(c, p) - 1 : at = Place(c, p, s)
    BY <1>1 DEF PlacesOf
  <1>3. PICK s \in 0 .. NumberOfSteps(c, p) - 1 : at = Place(c, p, s)
    BY <1>2
  <1>4. c \in Nat /\ p \in Nat /\ s \in Nat
    BY CycleFacts, PhaseFacts
  <1>5. at.cycle = c /\ at.phase = p /\ at.step = s
    BY <1>3 DEF Place
  <1>6. at \in [cycle : Nat, phase : Nat, step : Nat]
    BY <1>3, <1>4 DEF Place
  <1>7. PhaseData(at) \in [phases : Nat, steps : Nat]
    BY <1>5, PhaseFacts DEF PhaseData
  <1>8. QED
    BY <1>1, <1>3, <1>5, <1>6, <1>7 DEF Loadable

\* The first step of a phase that the setting file has.
LEMMA FirstPlaceIn ==
    ASSUME NEW c \in Cycles, NEW p \in DOMAIN Program[c]
    PROVE  Place(c, p, 0) \in Places
  <1>1. 0 \in 0 .. NumberOfSteps(c, p) - 1
    BY PhaseFacts
  <1>2. QED
    BY <1>1, PlaceIn

LEMMA PlaceOfCycle ==
    ASSUME NEW at \in Places, NEW c, at.cycle = c
    PROVE  at \in PlacesOf(c)
  BY PlaceFacts

-----------------------------------------------------------------------------
(* Loading and configuring.                                                *)

\* Everything but the status and the phase data is left as it is.
LoadedFrom(j, i) ==
    /\ j \in Itp
    /\ j.data = [i.data EXCEPT !.error = FALSE]
    /\ j.status.sub = i.status.sub
    /\ j.pauseData = i.pauseData /\ j.pauseStatus = i.pauseStatus
    /\ j.subData = i.subData /\ j.subStatus = i.subStatus
    /\ j.mainPhases = i.mainPhases
    /\ j.loaded = PhaseData(i.data.at)

LEMMA StatusTypes ==
    ASSUME NEW d \in Data, NEW st \in Status
    PROVE  /\ StatusOf(d, st) \in Status
           /\ StatusOf(d, st).sub = st.sub
  BY DEF StatusOf, Data, Status

LEMMA Loads ==
    ASSUME NEW i \in Itp, i.data.at \in Places
    PROVE  LoadedFrom(LoadPhaseData(i), i)
  <1> DEFINE st == StatusOf(i.data, i.status)
             ph == PhaseData(i.data.at)
  <1>1. i.data \in Data /\ i.status \in Status
    BY DEF Itp
  <1>2. st \in Status /\ st.sub = i.status.sub
    BY <1>1, StatusTypes
  <1>3. ph \in [phases : Nat, steps : Nat]
    BY PlaceFacts
  <1>4. LoadPhaseData(i)
           = [i EXCEPT !.data.error = FALSE, !.status = st, !.loaded = ph]
    BY PlaceFacts DEF LoadPhaseData
  <1>5. [i.data EXCEPT !.error = FALSE] \in Data
    BY <1>1 DEF Data
  <1> HIDE DEF st, ph
  <1>6. LoadPhaseData(i) \in Itp
    BY <1>2, <1>3, <1>4, <1>5 DEF Itp
  <1>7. QED
    BY <1>2, <1>4, <1>6 DEF LoadedFrom, Itp, ph

ConfiguredAt(i, at, state) ==
    [at EXCEPT !.phase = ConfiguredPhase(i, at.phase, state)]

CycleStates == {"programming", "run", "pause", "end", "fault"}

LEMMA Configures ==
    ASSUME NEW i \in Itp, NEW at, NEW state \in CycleStates,
           ConfiguredAt(i, at, state) \in Places
    PROVE  LET j == Configure(i, at, state) IN
           /\ j \in Itp
           /\ j.data.at = ConfiguredAt(i, at, state)
           /\ j.data.state = state /\ ~j.data.error
           /\ j.status.sub = i.status.sub
           /\ j.pauseData = i.pauseData /\ j.pauseStatus = i.pauseStatus
           /\ j.subData = i.subData /\ j.subStatus = i.subStatus
           /\ j.mainPhases = i.mainPhases
           /\ Here(j)
  <1> DEFINE to == ConfiguredAt(i, at, state)
             d  == [i.data EXCEPT !.at = to, !.state = state, !.init = TRUE]
             k  == [i EXCEPT !.data = d]
             j  == LoadPhaseData(k)
  <1>1. Configure(i, at, state) = j
    BY DEF Configure, ConfiguredAt, Itp
  <1>2. i.data \in Data /\ to \in [cycle : Nat, phase : Nat, step : Nat]
    BY PlaceFacts DEF Itp
  <1> HIDE DEF to
  <1>3. d \in Data /\ d.at = to /\ d.state = state
    BY <1>2 DEF Data, CycleStates
  <1> HIDE DEF d
  <1>4. k \in Itp /\ k.data = d
    BY <1>3 DEF Itp
  <1>5. /\ k.status = i.status
        /\ k.pauseData = i.pauseData /\ k.pauseStatus = i.pauseStatus
        /\ k.subData = i.subData /\ k.subStatus = i.subStatus
        /\ k.mainPhases = i.mainPhases
    BY DEF Itp
  <1> HIDE DEF k
  <1>6. k.data.at \in Places
    BY <1>3, <1>4 DEF to
  <1>7. LoadedFrom(j, k)
    BY <1>4, <1>6, Loads
  <1> HIDE DEF j
  <1>8. j.data = [d EXCEPT !.error = FALSE]
    BY <1>4, <1>7 DEF LoadedFrom
  <1>9. j.data.at = to /\ j.data.state = state /\ ~j.data.error
    BY <1>3, <1>8 DEF Data
  <1>10. Here(j)
    BY <1>3, <1>4, <1>7, <1>9 DEF LoadedFrom, Here
  <1>11. QED
    BY <1>1, <1>5, <1>7, <1>9, <1>10 DEF LoadedFrom, to

LEMMA Clears ==
    ASSUME NEW i \in Itp
    PROVE  LET j == ClearSubCycleStatus(i) IN
           /\ j \in Itp /\ j.status.sub = NoCycle
           /\ j.data = i.data /\ j.loaded = i.loaded
           /\ j.pauseData = i.pauseData /\ j.pauseStatus = i.pauseStatus
           /\ j.subData = i.subData /\ j.subStatus = i.subStatus
           /\ j.mainPhases = i.mainPhases
  <1> DEFINE st == [i.status EXCEPT !.sub = NoCycle, !.subPhase = 0,
                                    !.subStep = 0]
  <1>1. i.status \in Status
    BY DEF Itp
  <1>2. st \in Status /\ st.sub = NoCycle
    BY <1>1 DEF Status
  <1>3. ClearSubCycleStatus(i) = [i EXCEPT !.status = st]
    BY DEF ClearSubCycleStatus, Itp
  <1> HIDE DEF st
  <1>4. QED
    BY <1>2, <1>3 DEF Itp

\* A cycle of a state is started, and no sub-cycle is left.
LEMMA Starts ==
    ASSUME NEW i \in Itp,
           NEW c \in {ProgrammingMacro, EndMacro, FaultMacro},
           NEW p \in {0} \cup MainCycles
    PROVE  LET j == ClearSubCycleStatus(
                        Configure(i, Place(c, p, 0), Heading(c)))
           IN  j \in Itp /\ Idles(j, c) /\ Here(j)
  <1> DEFINE k == Configure(i, Place(c, p, 0), Heading(c))
             j == ClearSubCycleStatus(k)
  <1>1. c \in Macros /\ c \in Cycles /\ Heading(c) \in CycleStates
        /\ Heading(c) # "pause"
    BY CycleFacts DEF Macros, CycleStates
  <1>2. p \in DOMAIN Program[c]
    BY <1>1, PhaseFacts
  <1>3. ConfiguredAt(i, Place(c, p, 0), Heading(c)) = Place(c, p, 0)
    BY <1>1 DEF ConfiguredAt, ConfiguredPhase, Place
  <1>4. Place(c, p, 0) \in Places
    BY <1>1, <1>2, FirstPlaceIn
  <1>5. /\ k \in Itp /\ k.data.at = Place(c, p, 0)
        /\ k.data.state = Heading(c) /\ ~k.data.error /\ Here(k)
    BY <1>1, <1>3, <1>4, Configures
  <1> HIDE DEF k
  <1>6. j \in Itp /\ j.status.sub = NoCycle /\ j.data = k.data
        /\ j.loaded = k.loaded
    BY <1>5, Clears
  <1> HIDE DEF j
  <1>7. Idles(j, c)
    BY <1>4, <1>5, <1>6 DEF Idles, MacroRuns, Place
  <1>8. Here(j)
    BY <1>5, <1>6 DEF Here
  <1>9. QED
    BY <1>6, <1>7, <1>8 DEF j, k

\* A run cycle is started from a status that names no sub-cycle, or the
\* status is cleared.
LEMMA StartsRun ==
    ASSUME NEW i \in Itp, NEW c \in RunCycles, c \notin SubCycleIds
    PROVE  LET j == Configure(i, Place(c, 0, 0), "run") IN
           /\ j \in Itp /\ Here(j)
           /\ i.status.sub = NoCycle => Runs(j)
           /\ j.data.at = Place(c, 0, 0) /\ j.status.sub = i.status.sub
           /\ LET k == ClearSubCycleStatus(j) IN
              /\ k \in Itp /\ Runs(k) /\ Here(k)
              /\ k.data.at = Place(c, 0, 0) /\ k.status.sub = NoCycle
  <1> DEFINE j == Configure(i, Place(c, 0, 0), "run")
             k == ClearSubCycleStatus(j)
  <1>1. c \in Cycles /\ 0 \in DOMAIN Program[c]
    BY CycleFacts, PhaseFacts
  <1>2. Place(c, 0, 0) \in Places
    BY <1>1, FirstPlaceIn
  <1>3. ConfiguredAt(i, Place(c, 0, 0), "run") = Place(c, 0, 0)
    BY DEF ConfiguredAt, ConfiguredPhase, Place
  <1>4. /\ j \in Itp /\ j.data.at = Place(c, 0, 0)
        /\ j.data.state = "run" /\ ~j.data.error /\ Here(j)
        /\ j.status.sub = i.status.sub
    BY <1>2, <1>3, Configures DEF CycleStates
  <1> HIDE DEF j
  <1>5. k \in Itp /\ k.status.sub = NoCycle /\ k.data = j.data
        /\ k.loaded = j.loaded
    BY <1>4, Clears
  <1> HIDE DEF k
  <1>6. RunsHere(j.data, NoCycle)
    BY <1>2, <1>4 DEF RunsHere, Place, Suits
  <1>7. Runs(k) /\ Here(k)
    BY <1>4, <1>5, <1>6 DEF Runs, Keeps, Here
  <1>8. i.status.sub = NoCycle => Runs(j)
    BY <1>4, <1>6 DEF Runs, Keeps
  <1>9. QED
    BY <1>4, <1>5, <1>7, <1>8 DEF j, k
-----------------------------------------------------------------------------
(* The pause and the sub-cycles.                                           *)

Leaves(j, i) ==
    /\ j.status.sub = i.status.sub
    /\ j.pauseData = i.pauseData /\ j.pauseStatus = i.pauseStatus
    /\ j.subData = i.subData /\ j.subStatus = i.subStatus
    /\ j.mainPhases = i.mainPhases

Brings(j, i, d) ==
    /\ j \in Itp /\ Leaves(j, i) /\ Here(j)
    /\ j.data.at = d.at /\ j.data.state = d.state /\ ~j.data.error

LEMMA LoadsAt ==
    ASSUME NEW i \in Itp, NEW d \in Data, d.at \in Places
    PROVE  Brings(LoadPhaseData([i EXCEPT !.data = d]), i, d)
  <1> DEFINE k == [i EXCEPT !.data = d]
             j == LoadPhaseData(k)
  <1>1. k \in Itp /\ k.data = d /\ Leaves(k, i)
    BY DEF Itp, Leaves
  <1> HIDE DEF k
  <1>2. LoadedFrom(j, k)
    BY <1>1, Loads
  <1> HIDE DEF j
  <1>3. j.data.at = d.at /\ j.data.state = d.state /\ ~j.data.error
    BY <1>1, <1>2 DEF LoadedFrom, Data
  <1>4. QED
    BY <1>1, <1>2, <1>3 DEF LoadedFrom, Leaves, Brings, Here, k, j

\* A place is loaded that a cycle which runs may be at.
LEMMA BringsRun ==
    ASSUME NEW i \in Itp, NEW d \in Data, NEW j, Brings(j, i, d), Keeps(i),
           d.state = "run", d.at \in Places, d.at.cycle \in RunCycles,
           Suits(d.at.cycle, i.status.sub)
    PROVE  j \in Itp /\ Runs(j) /\ Here(j)
  BY DEF Brings, Leaves, Runs, RunsHere, Keeps

LEMMA Resumes ==
    ASSUME NEW i \in Itp, i.data.at \in Places
    PROVE  Brings(Resume(i), i, i.data)
  <1> DEFINE d == [i.data EXCEPT !.fromPause = TRUE]
  <1>1. d \in Data /\ d.at = i.data.at /\ d.state = i.data.state
    BY DEF Itp, Data
  <1>2. Resume(i) = LoadPhaseData([i EXCEPT !.data = d])
    BY DEF Resume, Itp
  <1> HIDE DEF d
  <1>3. Brings(Resume(i), i, d)
    BY <1>1, <1>2, LoadsAt
  <1>4. QED
    BY <1>1, <1>3 DEF Brings

LEMMA BlankTypes == BlankData \in Data /\ BlankStatus \in Status
  BY DEF BlankData, BlankStatus, Data, Status, Place

LEMMA RestoresMain ==
    ASSUME NEW i \in Itp, i.status.sub # NoCycle, Keeps(i)
    PROVE  LET j == RestoreFromSubCycleResumeData(i) IN
           /\ j \in Itp /\ j.data = i.subData /\ j.status.sub = NoCycle
           /\ Runs(j)
  <1> DEFINE j == RestoreFromSubCycleResumeData(i)
  <1>1. /\ j \in Itp /\ j.data = i.subData /\ j.status = i.subStatus
    BY BlankTypes DEF RestoreFromSubCycleResumeData, Itp
  <1> HIDE DEF j
  <1>2. QED
    BY <1>1 DEF Runs, Keeps, j

LEMMA BackToMain ==
    ASSUME NEW i \in Itp, i.status.sub # NoCycle, Keeps(i)
    PROVE  LET j == BackToMainCycle(i) IN
           /\ j \in Itp /\ Runs(j) /\ Here(j) /\ j.status.sub = NoCycle
           /\ j.data.at = i.subData.at
  <1> DEFINE m == RestoreFromSubCycleResumeData(i)
             j == BackToMainCycle(i)
  <1>1. /\ m \in Itp /\ m.status.sub = NoCycle /\ Runs(m)
        /\ m.data = i.subData
    BY RestoresMain
  <1>2. j = Resume(m)
    BY DEF BackToMainCycle
  <1> HIDE DEF m, j
  <1>3. /\ m.data \in Data /\ m.data.at \in Places /\ m.data.state = "run"
        /\ m.data.at.cycle \in RunCycles /\ Keeps(m)
        /\ Suits(m.data.at.cycle, m.status.sub)
    BY <1>1 DEF Runs, RunsHere, Itp
  <1>4. Brings(j, m, m.data)
    BY <1>1, <1>2, <1>3, Resumes
  <1>5. j \in Itp /\ Runs(j) /\ Here(j)
    BY <1>1, <1>3, <1>4, BringsRun
  <1>6. QED
    BY <1>1, <1>4, <1>5 DEF Brings, Leaves, j

\* Giving up a sub-cycle, running or paused.
LEMMA TerminatesRunning ==
    ASSUME NEW i \in Itp, Runs(i)
    PROVE  LET j == TerminateSubCycle(i) IN
           /\ j \in Itp /\ Runs(j)
           /\ Here(i) => Here(j)
           /\ i.status.sub = NoCycle => j = i
           /\ i.status.sub # NoCycle => /\ Here(j) /\ j.status.sub = NoCycle
                                        /\ j.data.at = i.subData.at
  <1> DEFINE j == TerminateSubCycle(i)
             m == BackToMainCycle(i)
  <1>1. CASE i.status.sub = NoCycle
    BY <1>1 DEF TerminateSubCycle
  <1>2. CASE i.status.sub # NoCycle
    <2>1. Heading(i.data.at.cycle) = "run" /\ Keeps(i)
      BY CycleFacts DEF Runs, RunsHere
    <2>2. j = ClearSubCycleStatus(m)
      BY <1>2, <2>1 DEF TerminateSubCycle
    <2>3. /\ m \in Itp /\ Runs(m) /\ Here(m) /\ m.status.sub = NoCycle
          /\ m.data.at = i.subData.at
      BY <1>2, <2>1, BackToMain
    <2> HIDE DEF m, j
    <2>4. /\ j \in Itp /\ j.status.sub = NoCycle /\ j.data = m.data
          /\ j.loaded = m.loaded
      BY <2>2, <2>3, Clears
    <2>5. Runs(j) /\ Here(j)
      BY <2>3, <2>4 DEF Runs, Keeps, Here
    <2>6. QED
      BY <1>2, <2>3, <2>4, <2>5 DEF j
  <1>3. QED
    BY <1>1, <1>2

LEMMA TerminatesPaused ==
    ASSUME NEW i \in Itp, Pauses(i)
    PROVE  LET j == TerminateSubCycle(i) IN
           /\ j \in Itp /\ Pauses(j) /\ j.data = i.data
           /\ j.loaded = i.loaded
           /\ i.status.sub = NoCycle => j = i
           /\ i.status.sub # NoCycle => /\ j.status.sub = NoCycle
                                        /\ j.pauseData.at = i.subData.at
  <1> DEFINE j == TerminateSubCycle(i)
             m == RecoverPauseResumeData(i)
  <1>1. CASE i.status.sub = NoCycle
    BY <1>1 DEF TerminateSubCycle
  <1>2. CASE i.status.sub # NoCycle
    <2>1. Heading(i.data.at.cycle) = "pause" /\ Keeps(i)
      BY CycleFacts DEF Pauses, MacroRuns
    <2>2. j = ClearSubCycleStatus(m)
      BY <1>2, <2>1 DEF TerminateSubCycle
    <2>3. /\ m \in Itp /\ m.pauseData = i.subData
          /\ m.pauseStatus = i.subStatus
          /\ m.data = i.data /\ m.loaded = i.loaded
      BY BlankTypes DEF RecoverPauseResumeData, Itp
    <2> HIDE DEF m, j
    <2>4. /\ j \in Itp /\ j.status.sub = NoCycle /\ j.data = m.data
          /\ j.loaded = m.loaded /\ j.pauseData = m.pauseData
          /\ j.pauseStatus = m.pauseStatus
      BY <2>2, <2>3, Clears
    <2>5. Pauses(j)
      BY <1>2, <2>1, <2>3, <2>4 DEF Pauses, Keeps
    <2>6. QED
      BY <1>2, <2>3, <2>4, <2>5 DEF j
  <1>3. QED
    BY <1>1, <1>2

\* The pause of what runs, and the way back.
LEMMA EntersPause ==
    ASSUME NEW i \in Itp, Runs(i)
    PROVE  LET j == Configure(SavePauseResumeData(i),
                              Place(PauseMacro, i.data.at.cycle, 0), "pause")
           IN  /\ j \in Itp /\ Pauses(j) /\ Here(j)
               /\ j.pauseData = i.data /\ j.subData = i.subData
               /\ j.status.sub = i.status.sub
  <1> DEFINE k  == SavePauseResumeData(i)
             at == Place(PauseMacro, i.data.at.cycle, 0)
             to == ConfiguredAt(k, at, "pause")
             j  == Configure(k, at, "pause")
             c  == IF i.status.sub # NoCycle THEN i.subData.at.cycle
                                             ELSE i.data.at.cycle
  <1>1. /\ k \in Itp /\ k.pauseData = i.data /\ k.pauseStatus = i.status
        /\ k.status = i.status /\ k.subData = i.subData
        /\ k.subStatus = i.subStatus /\ k.mainPhases = i.mainPhases
    BY DEF SavePauseResumeData, Itp
  <1>2. RunsHere(i.data, i.status.sub) /\ Keeps(i)
    BY DEF Runs
  <1> HIDE DEF k
  <1>3. to = Place(PauseMacro, c, 0)
    BY <1>1 DEF ConfiguredAt, ConfiguredPhase, Place
  <1>4. c \in RunCycles /\ c \notin SubCycleIds
    BY <1>2 DEF RunsHere, Keeps, Suits
  <1>5. c \in MainCycles \cup {CancelCycle}
    BY <1>4 DEF RunCycles
  <1>6. PauseMacro \in Macros /\ PauseMacro \in Cycles
    BY CycleFacts DEF Macros
  <1> HIDE DEF c, at
  <1>7. to \in Places
    BY <1>3, <1>5, <1>6, PhaseFacts, FirstPlaceIn
  <1> HIDE DEF to
  <1>8. /\ j \in Itp /\ j.data.at = to /\ j.data.state = "pause"
        /\ ~j.data.error /\ Here(j) /\ j.status.sub = k.status.sub
        /\ j.pauseData = k.pauseData /\ j.pauseStatus = k.pauseStatus
        /\ j.subData = k.subData /\ j.subStatus = k.subStatus
        /\ j.mainPhases = k.mainPhases
    BY <1>1, <1>7, Configures DEF CycleStates, to
  <1> HIDE DEF j
  <1>9. MacroRuns(j.data, PauseMacro)
    BY <1>3, <1>7, <1>8, CycleFacts DEF MacroRuns, Place
  <1>10. Pauses(j)
    BY <1>1, <1>2, <1>8, <1>9 DEF Pauses, Keeps
  <1>11. QED
    BY <1>1, <1>8, <1>10 DEF j, at, k

LEMMA LeavesPause ==
    ASSUME NEW i \in Itp, Pauses(i)
    PROVE  LET j == Resume(RestoreFromPauseResumeData(i)) IN
           /\ j \in Itp /\ Runs(j) /\ Here(j)
           /\ j.data.at = i.pauseData.at /\ j.subData = i.subData
           /\ j.status.sub = i.status.sub
  <1> DEFINE m == RestoreFromPauseResumeData(i)
             j == Resume(m)
  <1>1. /\ m \in Itp /\ m.data = i.pauseData /\ m.status = i.pauseStatus
        /\ m.subData = i.subData /\ m.subStatus = i.subStatus
        /\ m.mainPhases = i.mainPhases
    BY BlankTypes DEF RestoreFromPauseResumeData, Itp
  <1> HIDE DEF m
  <1>2. RunsHere(m.data, m.status.sub) /\ Keeps(m)
    BY <1>1 DEF Pauses, Keeps
  <1>3. /\ m.data \in Data /\ m.data.at \in Places /\ m.data.state = "run"
        /\ m.data.at.cycle \in RunCycles
        /\ Suits(m.data.at.cycle, m.status.sub)
    BY <1>1, <1>2 DEF RunsHere, Itp
  <1>4. Brings(j, m, m.data)
    BY <1>1, <1>3, Resumes
  <1> HIDE DEF j
  <1>5. j \in Itp /\ Runs(j) /\ Here(j)
    BY <1>1, <1>2, <1>3, <1>4, BringsRun
  <1>6. m.status.sub = i.status.sub
    BY <1>1 DEF Pauses
  <1>7. QED
    BY <1>1, <1>4, <1>5, <1>6 DEF Brings, Leaves, j, m

-----------------------------------------------------------------------------
(* The start of a sub-cycle.                                               *)

LEMMA LeastIn ==
    ASSUME NEW R, \A x, y \in Nat : x < y => <<x, y>> \in R,
           NEW T \in SUBSET Nat, NEW x \in T,
           \A y \in T : ~ (<<y, x>> \in R)
    PROVE  \A y \in T : x <= y
  <1> TAKE y \in T
  <1>1. ~ (y < x)
    BY Zenon
  <1>2. x \in Nat /\ y \in Nat
    OBVIOUS
  <1>3. QED
    BY <1>1, <1>2

LEMMA Least ==
    ASSUME NEW T \in SUBSET Nat, T # {}
    PROVE  \E x \in T : \A y \in T : x <= y
  <1> DEFINE R == OpToRel(<, Nat)
  <1>1. IsWellFoundedOn(R, Nat)
    BY NatLessThanWellFounded
  <1>2. \A x, y \in Nat : x < y => <<x, y>> \in R
    BY DEF OpToRel
  <1> HIDE DEF R
  <1>3. \E x \in T : \A y \in T : ~ (<<y, x>> \in R)
    BY <1>1, WFMin
  <1>4. QED
    BY <1>2, <1>3, LeastIn

\* The sub-cycle to run is none, or one before every sub-cycle that is
\* active.
LEMMA Active ==
    ASSUME NEW running, NEW request, NEW triggered
    PROVE  LET sub == GetActive(running, request, triggered) IN
           \/ sub = NoCycle /\ \A p \in DOMAIN SubCycles :
                                  p # request /\ SubCycles[p] # running
           \/ \E p \in DOMAIN SubCycles :
                 /\ sub = SubCycles[p]
                 /\ request \in DOMAIN SubCycles => p <= request
                 /\ \A q \in DOMAIN SubCycles :
                       SubCycles[q] = running => p <= q
  <1> DEFINE active == {p \in DOMAIN SubCycles : \/ p = request
                                                 \/ SubCycles[p] = running
                                                 \/ p \in triggered}
             first == CHOOSE p \in active : \A q \in active : p <= q
             sub == GetActive(running, request, triggered)
  <1>1. sub = IF active = {} THEN NoCycle ELSE SubCycles[first]
    BY DEF GetActive
  <1>2. active \in SUBSET Nat
    <2>1. DOMAIN SubCycles = 1 .. Len(SubCycles) /\ Len(SubCycles) \in Nat
      BY ProgramAssumption DEF ProgramAssumption
    <2>2. QED
      BY <2>1
  <1>3. CASE active = {}
    BY <1>1, <1>3
  <1>4. CASE active # {}
    <2>1. \E p \in active : \A q \in active : p <= q
      BY <1>2, <1>4, Least
    <2>2. first \in active /\ \A q \in active : first <= q
      BY <2>1
    <2> HIDE DEF first
    <2>3. first \in DOMAIN SubCycles
      BY <2>2
    <2>4. request \in DOMAIN SubCycles => first <= request
      BY <2>2
    <2>5. \A q \in DOMAIN SubCycles : SubCycles[q] = running => first <= q
      BY <2>2
    <2>6. sub = SubCycles[first]
      BY <1>1, <1>4
    <2>7. QED
      BY <2>3, <2>4, <2>5, <2>6
  <1>5. QED
    BY <1>3, <1>4

\* The place of the main cycle when a cycle runs.
MainOf(i) == IF i.status.sub = NoCycle THEN i.data.at ELSE i.subData.at

LEMMA EntersSubCycle ==
    ASSUME NEW i \in Itp, Runs(i), Here(i), NEW sub \in SubCycleIds
    PROVE  LET j == EnterSubCycle(i, sub) IN
           /\ j \in Itp /\ Runs(j) /\ Here(j) /\ j.status.sub = sub
           /\ MainOf(j) = MainOf(i)
  <1> DEFINE kept == IF i.status.sub = NoCycle
                     THEN [SaveSubCycleResumeData(i) EXCEPT
                              !.status.cycle = i.data.at.cycle,
                              !.status.phase = i.data.at.phase]
                     ELSE i
             st == [kept.status EXCEPT !.sub = sub]
             m  == [kept EXCEPT !.status = st]
             d  == [i.data EXCEPT !.at = Place(sub, 0, 0), !.state = "run",
                                  !.init = TRUE]
             j  == EnterSubCycle(i, sub)
  <1>1. /\ i.data \in Data /\ i.status \in Status
        /\ i.data.at \in Places /\ sub # NoCycle /\ sub \in RunCycles
        /\ RunsHere(i.data, i.status.sub) /\ Keeps(i)
    BY CycleFacts DEF Itp, Runs, RunsHere
  <1>2. i.data.at \in [cycle : Nat, phase : Nat, step : Nat]
    BY <1>1, PlaceFacts
  <1>3. i.loaded.phases \in Nat
        /\ i.loaded.phases = NumberOfPhases(i.data.at.cycle)
    BY DEF Itp, Here, PhaseData
  <1>4. kept \in Itp /\ kept.data = i.data /\ kept.status \in Status
    <2>1. [i.status EXCEPT !.cycle = i.data.at.cycle,
                           !.phase = i.data.at.phase] \in Status
      BY <1>1, <1>2 DEF Status
    <2>2. QED
      BY <1>1, <1>3, <2>1 DEF SaveSubCycleResumeData, Itp
  <1>5. /\ RunsHere(kept.subData, NoCycle) /\ kept.subStatus.sub = NoCycle
        /\ kept.mainPhases = NumberOfPhases(kept.subData.at.cycle)
        /\ kept.subData.at = MainOf(i)
    <2>1. CASE i.status.sub = NoCycle
      <3>1. /\ kept.subData = i.data /\ kept.subStatus = i.status
            /\ kept.mainPhases = i.loaded.phases
        BY <2>1 DEF SaveSubCycleResumeData, Itp
      <3> HIDE DEF kept
      <3>2. QED
        BY <1>1, <1>3, <2>1, <3>1 DEF MainOf
    <2>2. CASE i.status.sub # NoCycle
      BY <1>1, <2>2 DEF Keeps, MainOf
    <2>3. QED
      BY <2>1, <2>2
  <1>6. j = LoadPhaseData([m EXCEPT !.data = d])
    BY <1>4 DEF EnterSubCycle, Itp
  <1> HIDE DEF kept, j
  <1>7. st \in Status /\ st.sub = sub
    BY <1>4 DEF Status
  <1> HIDE DEF st
  <1>8. /\ m \in Itp /\ m.status.sub = sub /\ Keeps(m)
        /\ m.subData.at = MainOf(i)
    BY <1>4, <1>5, <1>7 DEF Itp, Keeps
  <1> HIDE DEF m
  <1>9. Place(sub, 0, 0) \in Places
    BY <1>1, CycleFacts, PhaseFacts, FirstPlaceIn
  <1>10. Place(sub, 0, 0) \in [cycle : Nat, phase : Nat, step : Nat]
    BY <1>9, PlaceFacts
  <1>11. /\ d \in Data /\ d.state = "run" /\ d.at \in Places
         /\ d.at.cycle = sub
    BY <1>1, <1>9, <1>10 DEF Data, Place
  <1> HIDE DEF d
  <1>12. Brings(j, m, d)
    BY <1>6, <1>8, <1>11, LoadsAt
  <1>13. j \in Itp /\ Runs(j) /\ Here(j)
    BY <1>1, <1>8, <1>11, <1>12, BringsRun DEF Suits
  <1>14. j.status.sub = sub /\ j.subData.at = MainOf(i)
    BY <1>8, <1>12 DEF Brings, Leaves
  <1>15. QED
    BY <1>1, <1>13, <1>14 DEF MainOf, j

LEMMA Checks ==
    ASSUME NEW i \in Itp, NEW sub \in SubCycleIds \cup {NoCycle}, NEW closed
    PROVE  LET j == CheckForSubCycle(i, sub, closed) IN
           /\ i.data.state # "run" => j = i
           /\ Runs(i) /\ Here(i)
                 => /\ j \in Itp /\ Runs(j) /\ Here(j)
                    /\ MainOf(j) = MainOf(i)
                    /\ \/ j.status.sub = i.status.sub
                       \/ j.status.sub = sub /\ sub # NoCycle
                    /\ closed /\ sub # NoCycle => j.status.sub = sub
  <1> DEFINE j == CheckForSubCycle(i, sub, closed)
             e == EnterSubCycle(i, sub)
  <1>1. j = IF /\ sub # NoCycle /\ sub # i.data.at.cycle
               /\ i.data.state = "run" /\ closed
            THEN e ELSE i
    BY DEF CheckForSubCycle
  <1> HIDE DEF j, e
  <1>2. ASSUME Runs(i), Here(i)
        PROVE  /\ j \in Itp /\ Runs(j) /\ Here(j)
               /\ MainOf(j) = MainOf(i)
               /\ \/ j.status.sub = i.status.sub
                  \/ j.status.sub = sub /\ sub # NoCycle
               /\ closed /\ sub # NoCycle => j.status.sub = sub
    <2>1. sub # NoCycle
            => /\ e \in Itp /\ Runs(e) /\ Here(e) /\ e.status.sub = sub
               /\ MainOf(e) = MainOf(i)
      BY <1>2, EntersSubCycle DEF e
    <2>2. i.data.state = "run" /\ Suits(i.data.at.cycle, i.status.sub)
      BY <1>2 DEF Runs, RunsHere
    <2>3. sub # NoCycle /\ sub = i.data.at.cycle => i.status.sub = sub
      BY <2>2 DEF Suits
    <2>4. CASE /\ sub # NoCycle /\ sub # i.data.at.cycle
               /\ i.data.state = "run" /\ closed
      <3>1. j = e
        BY <1>1, <2>4, Zenon
      <3>2. QED
        BY <2>1, <2>4, <3>1
    <2>5. CASE ~(/\ sub # NoCycle /\ sub # i.data.at.cycle
                 /\ i.data.state = "run" /\ closed)
      <3>1. j = i
        BY <1>1, <2>5, Zenon
      <3>2. closed /\ sub # NoCycle => i.status.sub = sub
        BY <2>2, <2>3, <2>5, Zenon
      <3>3. /\ j \in Itp /\ Runs(j) /\ Here(j)
            /\ MainOf(j) = MainOf(i)
            /\ j.status.sub = i.status.sub
        BY <1>2, <3>1
      <3>4. QED
        BY <3>2, <3>3, Zenon
    <2>6. QED
      BY <2>4, <2>5, Zenon
  <1>3. i.data.state # "run" => j = i
    BY <1>1
  <1>4. QED
    BY <1>2, <1>3 DEF j

-----------------------------------------------------------------------------
(* A run of the step.                                                      *)

\* Where the main cycle goes on after a sub-cycle.
BackTo(main, at) ==
    /\ at \in PlacesOf(main.cycle)
    /\ at \in {main, FirstStep(main), NextPhase(main)}

\* The main cycle has moved by a step or a jump, the sub-cycle still runs,
\* or the main cycle goes on.
Went(j, i) ==
    IF i.status.sub = NoCycle
    THEN /\ j.status.sub = NoCycle
         /\ j.data.at \in PlacesOf(i.data.at.cycle)
                            \cup JumpsOf(i.data.at.cycle)
    ELSE \/ j.status.sub = i.status.sub /\ j.subData = i.subData
         \/ j.status.sub = NoCycle /\ BackTo(i.subData.at, j.data.at)

\* What a run of a cycle's step comes to, and of a macro's.
RunsOn(o, i) ==
    /\ o.itp \in Itp /\ Runs(o.itp) /\ o.result \in Results
    /\ Went(o.itp, i)
    /\ i.status.sub # NoCycle /\ o.itp.status.sub = NoCycle
          => o.result \in {"end_sub_cycle", "end_cycle", "end_phase"}
    /\ Here(o.itp) \/ o.result = "end_cycle"

MacroOn(o, i, c) ==
    /\ o.itp \in Itp /\ MacroRuns(o.itp.data, c) /\ o.result \in Results
    /\ Leaves(o.itp, i)
    /\ Here(o.itp)

LEMMA StatementFacts ==
    ASSUME NEW at \in Places, NEW k \in DOMAIN StatementsOf(at)
    PROVE  LET st == StatementsOf(at)[k] IN
           /\ st.op \in {"process", "jump", "end_cycle", "end_cycle_reset",
                         "pause", "end_sub_cycle"}
           /\ at.cycle \in Macros => st.op \notin {"jump", "end_sub_cycle"}
           /\ st.op = "jump" => /\ st.to \in Places
                                /\ st.to.cycle \in RunCycles
                                /\ JumpStays(at, st.to)
                                /\ st.to \in JumpsOf(at.cycle)
           /\ st.op = "end_sub_cycle" => st.code \in Codes
  <1> DEFINE st == StatementsOf(at)[k]
  <1>1. \A a \in Places : \A n \in DOMAIN StatementsOf(a) :
          /\ IsStatement(StatementsOf(a)[n])
          /\ a.cycle \in Macros
                => StatementsOf(a)[n].op \notin {"jump", "end_sub_cycle"}
          /\ StatementsOf(a)[n].op = "jump"
                => JumpStays(a, StatementsOf(a)[n].to)
    BY PhasesAssumption, Zenon DEF PhasesAssumption
  <1>2. /\ IsStatement(st)
        /\ at.cycle \in Macros => st.op \notin {"jump", "end_sub_cycle"}
        /\ st.op = "jump" => JumpStays(at, st.to)
    BY <1>1, Zenon
  <1> HIDE DEF st
  <1>3. CASE st \in {Process, EndCycle, EndCycleReset, PauseCycle}
    BY <1>2, <1>3 DEF Process, EndCycle, EndCycleReset, PauseCycle, st
  <1>4. CASE \E to \in Places : st = JumpTo(to) /\ to.cycle \in RunCycles
    <2>1. /\ st.op = "jump" /\ st.to \in Places
          /\ st.to.cycle \in RunCycles /\ st = JumpTo(st.to)
      BY <1>4 DEF JumpTo
    <2>2. at \in PlacesOf(at.cycle)
      BY PlaceFacts
    <2>3. st.to \in JumpsOf(at.cycle)
      BY <2>1, <2>2 DEF JumpsOf, st
    <2>4. QED
      BY <1>2, <2>1, <2>3 DEF st
  <1>5. CASE \E code \in Codes : st = EndSubCycle(code)
    <2>1. st.op = "end_sub_cycle" /\ st.code \in Codes
      BY <1>5 DEF EndSubCycle
    <2>2. QED
      BY <1>2, <2>1 DEF st
  <1>6. QED
    BY <1>2, <1>3, <1>4, <1>5 DEF IsStatement

LEMMA StartingTypes ==
    ASSUME NEW d \in Data
    PROVE  LET s == StepStarting(d) IN
           /\ s \in Data /\ s.at = d.at /\ s.state = d.state
           /\ s.error = d.error
  BY DEF StepStarting, Data

\* A step of the setting file that the cycle may go to.
LEMMA Moves ==
    ASSUME NEW d \in Data, NEW at \in Places
    PROVE  LET e == [d EXCEPT !.at = at] IN
           e \in Data /\ e.at = at /\ e.state = d.state /\ e.error = d.error
  BY PlaceFacts DEF Data

LEMMA Jumps ==
    ASSUME NEW i \in Itp, Runs(i), NEW to \in Places,
           to.cycle \in RunCycles, JumpStays(i.data.at, to),
           to \in JumpsOf(i.data.at.cycle)
    PROVE  RunsOn(TakeJump(i, to), i)
  <1> DEFINE s == StepStarting(i.data)
             d == [s EXCEPT !.at = to]
             j == LoadPhaseData([i EXCEPT !.data = d])
  <1>1. /\ i.data \in Data /\ i.data.state = "run"
        /\ Suits(i.data.at.cycle, i.status.sub)
        /\ Keeps(i)
    BY DEF Runs, RunsHere, Itp
  <1>2. TakeJump(i, to) = Outcome(j, "end_step")
    BY DEF TakeJump, Itp
  <1>3. s \in Data /\ s.state = "run"
    BY <1>1, StartingTypes
  <1> HIDE DEF s
  <1>4. d \in Data /\ d.at = to /\ d.state = "run"
    BY <1>3, Moves
  <1> HIDE DEF d
  <1>5. Suits(to.cycle, i.status.sub)
    <2>1. /\ i.status.sub \in SubCycleIds \cup {NoCycle}
          /\ NoCycle \notin SubCycleIds
      BY CycleFacts DEF Itp, Status
    <2>2. QED
      BY <1>1, <2>1 DEF JumpStays, Suits
  <1>6. Brings(j, i, d)
    BY <1>4, LoadsAt
  <1> HIDE DEF j
  <1>7. j \in Itp /\ Runs(j) /\ Here(j)
    BY <1>1, <1>4, <1>5, <1>6, BringsRun
  <1>8. QED
    BY <1>2, <1>4, <1>6, <1>7
    DEF RunsOn, Outcome, Results, Brings, Leaves, Went

\* A phase that has a next one in a run cycle.
LEMMA NextPhaseIn ==
    ASSUME NEW at \in Places, at.cycle \in RunCycles,
           at.phase < NumberOfPhases(at.cycle) - 1
    PROVE  Place(at.cycle, at.phase + 1, 0) \in Places
  <1>1. /\ NumberOfPhases(at.cycle) \in Nat
        /\ DOMAIN Program[at.cycle] = 0 .. NumberOfPhases(at.cycle) - 1
        /\ at.phase \in DOMAIN Program[at.cycle] /\ at.cycle \in Cycles
    BY PhaseFacts, PlaceFacts
  <1> DEFINE n == NumberOfPhases(at.cycle)
             p == at.phase
  <1>2. n \in Nat /\ p \in 0 .. n - 1 /\ p < n - 1
    BY <1>1
  <1>3. DOMAIN Program[at.cycle] = 0 .. n - 1
    BY <1>1
  <1> HIDE DEF n, p
  <1>4. p + 1 \in 0 .. n - 1
    BY <1>2
  <1>5. p + 1 \in DOMAIN Program[at.cycle]
    BY <1>3, <1>4
  <1>6. QED
    BY <1>1, <1>5, FirstPlaceIn DEF p

LEMMA RestartsIn ==
    ASSUME NEW i \in Itp, i.data.at \in Places,
           i.data.at.cycle \in RunCycles,
           NEW code \in Codes \ {"resume"},
           code = "skip_phase"
              => i.data.at.phase < NumberOfPhases(i.data.at.cycle) - 1
    PROVE  /\ RestartedPlace(i, code) \in Places
           /\ RestartedPlace(i, code).cycle = i.data.at.cycle
  <1> DEFINE at == i.data.at
  <1>1. /\ at \in [cycle : Nat, phase : Nat, step : Nat]
        /\ at.cycle \in Cycles /\ at.phase \in DOMAIN Program[at.cycle]
    BY PlaceFacts
  <1>2. CASE code = "restart_step"
    BY <1>2 DEF RestartedPlace
  <1>3. CASE code = "restart_phase"
    <2>1. RestartedPlace(i, code) = Place(at.cycle, at.phase, 0)
      BY <1>1, <1>3 DEF RestartedPlace, FirstStep
    <2>2. QED
      BY <1>1, <2>1, FirstPlaceIn DEF Place
  <1>4. CASE code = "skip_phase"
    <2>1. RestartedPlace(i, code) = Place(at.cycle, at.phase + 1, 0)
      BY <1>1, <1>4 DEF RestartedPlace, NextPhase
    <2>2. QED
      BY <1>4, <2>1, NextPhaseIn DEF Place
  <1>5. QED
    BY <1>2, <1>3, <1>4 DEF Codes

LEMMA Exits ==
    ASSUME NEW i \in Itp, Runs(i), Here(i), NEW code \in Codes
    PROVE  RunsOn(ExitSubCycle(i, code), i)
  <1> DEFINE main == RestoreFromSubCycleResumeData(i)
             r == [main.data EXCEPT !.init = TRUE, !.fromPause = FALSE]
             restarted == [main EXCEPT !.data.init = TRUE,
                                       !.data.fromPause = FALSE]
             to == RestartedPlace(main, code)
             d == [r EXCEPT !.at = to]
             j == LoadPhaseData([main EXCEPT !.data = d])
             o == ExitSubCycle(i, code)
  <1>1. CASE i.status.sub = NoCycle
    <2>1. o = Outcome(i, "end_sub_cycle")
      BY <1>1 DEF ExitSubCycle
    <2>2. i.data.at \in PlacesOf(i.data.at.cycle)
      BY PlaceFacts DEF Runs, RunsHere
    <2>3. QED
      BY <1>1, <2>1, <2>2 DEF RunsOn, Outcome, Results, Went
  <1>2. CASE i.status.sub # NoCycle
    <2>1. Keeps(i) /\ main \in Itp /\ main.data = i.subData
          /\ main.status.sub = NoCycle /\ Runs(main)
      <3>1. Keeps(i)
        BY DEF Runs
      <3>2. QED
        BY <1>2, <3>1, RestoresMain
    <2>2. i.mainPhases = NumberOfPhases(main.data.at.cycle)
      BY <1>2, <2>1 DEF Keeps
    <2>3. /\ o = IF code = "resume"
                 THEN Outcome(Resume(main), "end_sub_cycle")
                 ELSE IF code = "skip_phase"
                         /\ main.data.at.phase >= i.mainPhases - 1
                 THEN Outcome(restarted, "end_cycle")
                 ELSE Outcome(LoadPhaseData([restarted EXCEPT
                                                !.data.at = to]),
                              "end_sub_cycle")
      BY <1>2 DEF ExitSubCycle
    <2> SUFFICES RunsOn(o, i)
      OBVIOUS
    <2> HIDE DEF main, o
    <2>4. /\ main.data \in Data /\ main.data.state = "run" /\ Keeps(main)
          /\ ~main.data.error
          /\ main.data.at \in Places /\ main.data.at.cycle \in RunCycles
          /\ Suits(main.data.at.cycle, main.status.sub)
      BY <2>1 DEF Runs, RunsHere, Itp
    <2>5. r \in Data /\ r.at = main.data.at /\ r.state = "run" /\ ~r.error
      BY <2>4 DEF Data
    <2>6. restarted = [main EXCEPT !.data = r]
      BY <2>1 DEF Itp
    <2> HIDE DEF r
    <2>7. CASE code = "resume"
      <3>1. o = Outcome(Resume(main), "end_sub_cycle")
        BY <2>3, <2>7
      <3>2. Brings(Resume(main), main, main.data)
        BY <2>1, <2>4, Resumes
      <3>3. LET k == Resume(main) IN k \in Itp /\ Runs(k) /\ Here(k)
        BY <2>1, <2>4, <3>2, BringsRun
      <3>4. Went(Resume(main), i)
        <4>1. main.data.at \in PlacesOf(main.data.at.cycle)
          BY <2>4, PlaceFacts
        <4>2. QED
          BY <1>2, <2>1, <3>2, <4>1 DEF Went, Brings, Leaves, BackTo
      <3>5. QED
        BY <3>1, <3>3, <3>4 DEF RunsOn, Outcome, Results
    <2>8. CASE code = "skip_phase"
               /\ main.data.at.phase >= i.mainPhases - 1
      <3>1. o = Outcome(restarted, "end_cycle")
        BY <2>3, <2>8
      <3>2. /\ restarted \in Itp /\ restarted.data = r
            /\ restarted.status.sub = NoCycle
        BY <2>1, <2>5, <2>6 DEF Itp
      <3> HIDE DEF restarted
      <3>3. RunsHere(r, NoCycle)
        BY <2>1, <2>4, <2>5 DEF RunsHere
      <3>4. Runs(restarted)
        BY <3>2, <3>3 DEF Runs, Keeps
      <3>5. Went(restarted, i)
        <4>1. main.data.at \in PlacesOf(main.data.at.cycle)
          BY <2>4, PlaceFacts
        <4>2. QED
          BY <1>2, <2>1, <2>5, <3>2, <4>1 DEF Went, BackTo
      <3>6. QED
        BY <3>1, <3>2, <3>4, <3>5 DEF RunsOn, Outcome, Results
    <2>9. CASE /\ code # "resume"
               /\ ~(code = "skip_phase"
                       /\ main.data.at.phase >= i.mainPhases - 1)
      <3>1. o = Outcome(LoadPhaseData([restarted EXCEPT !.data.at = to]),
                        "end_sub_cycle")
        BY <2>3, <2>9
      <3>2. [restarted EXCEPT !.data.at = to] = [main EXCEPT !.data = d]
        BY <2>1, <2>5, <2>6 DEF Itp
      <3>3. code = "skip_phase" => main.data.at.phase < i.mainPhases - 1
        <4>1. main.data.at.phase \in Nat /\ i.mainPhases \in Nat
          BY <2>4 DEF Itp, Data
        <4>2. QED
          BY <2>9, <4>1
      <3>4. to \in Places /\ to.cycle = main.data.at.cycle
        BY <2>1, <2>2, <2>4, <2>9, <3>3, RestartsIn
      <3> HIDE DEF to
      <3>5. d \in Data /\ d.at = to /\ d.state = "run"
        BY <2>5, <3>4, Moves
      <3>6. o = Outcome(j, "end_sub_cycle")
        BY <3>1, <3>2
      <3> HIDE DEF d
      <3>7. Brings(j, main, d)
        BY <2>1, <3>4, <3>5, LoadsAt
      <3> HIDE DEF j
      <3>8. j \in Itp /\ Runs(j) /\ Here(j)
        BY <2>1, <2>4, <3>4, <3>5, <3>7, BringsRun
      <3>9. Went(j, i)
        <4>1. to \in PlacesOf(main.data.at.cycle)
          BY <3>4, PlaceOfCycle
        <4>2. to \in {main.data.at, FirstStep(main.data.at),
                      NextPhase(main.data.at)}
          BY <2>9 DEF to, RestartedPlace, Codes
        <4>3. QED
          BY <1>2, <2>1, <3>5, <3>7, <4>1, <4>2
          DEF Went, Brings, Leaves, BackTo
      <3>10. QED
        BY <3>6, <3>8, <3>9 DEF RunsOn, Outcome, Results
    <2>10. QED
      BY <2>7, <2>8, <2>9
  <1>3. QED
    BY <1>1, <1>2

\* The flags of the step change, its place does not.
LEMMA Flags ==
    ASSUME NEW i \in Itp, NEW d \in Data,
           d.at = i.data.at, d.state = i.data.state, d.error = i.data.error
    PROVE  LET j == [i EXCEPT !.data = d] IN
           /\ j \in Itp /\ j.data = d /\ Leaves(j, i)
           /\ Here(i) => Here(j)
           /\ Runs(i) => Runs(j)
           /\ \A c : MacroRuns(i.data, c) => MacroRuns(j.data, c)
  <1> DEFINE j == [i EXCEPT !.data = d]
  <1>1. j \in Itp /\ j.data = d /\ Leaves(j, i) /\ j.loaded = i.loaded
    BY DEF Itp, Leaves
  <1> HIDE DEF j
  <1>2. Here(i) => Here(j)
    BY <1>1 DEF Here
  <1>3. Runs(i) => Runs(j)
    BY <1>1 DEF Runs, RunsHere, Keeps, Leaves
  <1>4. \A c : MacroRuns(i.data, c) => MacroRuns(j.data, c)
    BY <1>1 DEF MacroRuns
  <1>5. QED
    BY <1>1, <1>2, <1>3, <1>4 DEF j

LEMMA Stays ==
    ASSUME NEW i \in Itp, Here(i)
    PROVE  /\ Runs(i) => RunsOn(StaysInStep(i), i)
           /\ \A c : MacroRuns(i.data, c) => MacroOn(StaysInStep(i), i, c)
  <1> DEFINE s == StepStarting(i.data)
             d == [s EXCEPT !.init = FALSE]
             j == [i EXCEPT !.data = d]
  <1>1. i.data \in Data
    BY DEF Itp
  <1>2. s \in Data /\ s.at = i.data.at /\ s.state = i.data.state
        /\ s.error = i.data.error
    BY <1>1, StartingTypes
  <1>3. StaysInStep(i) = Outcome(j, "same_step")
    BY DEF StaysInStep, Itp
  <1> HIDE DEF s
  <1>4. d \in Data /\ d.at = i.data.at /\ d.state = i.data.state
        /\ d.error = i.data.error
    BY <1>2 DEF Data
  <1> HIDE DEF d
  <1>5. /\ j \in Itp /\ j.data = d /\ Leaves(j, i) /\ Here(j)
        /\ Runs(i) => Runs(j)
        /\ \A c : MacroRuns(i.data, c) => MacroRuns(j.data, c)
    BY <1>4, Flags
  <1> HIDE DEF j
  <1>6. \A c : MacroRuns(i.data, c) => MacroOn(StaysInStep(i), i, c)
    BY <1>3, <1>5 DEF MacroOn, Outcome, Results
  <1>7. Runs(i) => Went(j, i)
    <2>1. Runs(i) => i.data.at \in PlacesOf(i.data.at.cycle)
      BY PlaceFacts DEF Runs, RunsHere
    <2>2. QED
      BY <1>4, <1>5, <2>1 DEF Went, Leaves
  <1>8. Runs(i) => RunsOn(StaysInStep(i), i)
    <2>1. j.status.sub = i.status.sub
      BY <1>5 DEF Leaves
    <2>2. QED
      BY <1>3, <1>5, <1>7, <2>1 DEF RunsOn, Outcome, Results
  <1>9. QED
    BY <1>6, <1>8

\* The end of a step that is not the last: the next step of the phase.
LEMMA NextStepIn ==
    ASSUME NEW at \in Places, at.step + 1 < NumberOfSteps(at.cycle, at.phase)
    PROVE  Place(at.cycle, at.phase, at.step + 1) \in Places
  <1> DEFINE n == NumberOfSteps(at.cycle, at.phase)
             s == at.step
  <1>1. /\ at.cycle \in Cycles /\ at.phase \in DOMAIN Program[at.cycle]
        /\ s \in 0 .. n - 1
    BY PlaceFacts
  <1>2. n \in Nat
    BY <1>1, PhaseFacts
  <1>3. s + 1 < n
    OBVIOUS
  <1> HIDE DEF n, s
  <1>4. s + 1 \in 0 .. n - 1
    BY <1>1, <1>2, <1>3
  <1>5. s + 1 \in 0 .. NumberOfSteps(at.cycle, at.phase) - 1
    BY <1>4 DEF n
  <1>6. QED
    BY <1>1, <1>5, PlaceIn DEF s

\* The interpreter goes to a step of the phase it is at.
LEMMA Steps ==
    ASSUME NEW i \in Itp, NEW d \in Data, d.at \in Places,
           d.at.cycle = i.data.at.cycle, d.at.phase = i.data.at.phase,
           d.state = i.data.state, d.error = i.data.error
    PROVE  LET j == [i EXCEPT !.data = d] IN
           /\ j \in Itp /\ j.data = d /\ Leaves(j, i)
           /\ Here(i) => Here(j)
           /\ Runs(i) => Runs(j)
           /\ \A c : MacroRuns(i.data, c) => MacroRuns(j.data, c)
  <1> DEFINE j == [i EXCEPT !.data = d]
  <1>1. j \in Itp /\ j.data = d /\ Leaves(j, i) /\ j.loaded = i.loaded
    BY DEF Itp, Leaves
  <1> HIDE DEF j
  <1>2. Here(i) => Here(j)
    BY <1>1 DEF Here, PhaseData
  <1>3. Runs(i) => Runs(j)
    BY <1>1 DEF Runs, RunsHere, Keeps, Leaves
  <1>4. \A c : MacroRuns(i.data, c) => MacroRuns(j.data, c)
    BY <1>1 DEF MacroRuns
  <1>5. QED
    BY <1>1, <1>2, <1>3, <1>4 DEF j

\* How the end of a step goes on, by cases, with the records spelt out.
LEMMA EndsStepCases ==
    ASSUME NEW i \in Itp
    PROVE  LET d == StepStarting(i.data)
               done == [i EXCEPT !.data = d]
               at == i.data.at
               next == [d EXCEPT !.at = Place(at.cycle, at.phase,
                                              at.step + 1)]
               first == [d EXCEPT !.at = Place(at.cycle, at.phase, 0)]
               after == [d EXCEPT !.at = Place(at.cycle, at.phase + 1, 0)]
           IN  \/ /\ at.step + 1 < i.loaded.steps
                  /\ EndsStep(i) = Outcome([i EXCEPT !.data = next],
                                           "end_step")
               \/ /\ i.data.state # "run"
                  /\ EndsStep(i)
                        = Outcome(LoadPhaseData([i EXCEPT !.data = first]),
                                  "end_phase")
               \/ /\ i.data.state = "run" /\ ~LastPhase(i)
                  /\ EndsStep(i)
                        = Outcome(LoadPhaseData([i EXCEPT !.data = after]),
                                  "end_phase")
               \/ /\ i.data.state = "run" /\ i.status.sub # NoCycle
                  /\ EndsStep(i) = Outcome(BackToMainCycle(done),
                                           "end_phase")
               \/ /\ i.data.state = "run" /\ i.status.sub = NoCycle
                  /\ EndsStep(i) = Outcome(done, "end_cycle")
  <1> DEFINE d == StepStarting(i.data)
             done == [i EXCEPT !.data = d]
             at == i.data.at
             next == [d EXCEPT !.at = Place(at.cycle, at.phase, at.step + 1)]
             first == [d EXCEPT !.at = Place(at.cycle, at.phase, 0)]
             after == [d EXCEPT !.at = Place(at.cycle, at.phase + 1, 0)]
  <1>1. /\ i.data \in Data
        /\ at \in [cycle : Nat, phase : Nat, step : Nat]
    BY DEF Itp, Data
  <1>2. d \in Data /\ d.at = at /\ d.state = i.data.state
    BY <1>1, StartingTypes
  <1>3. EndsStep(i)
           = IF d.at.step + 1 < i.loaded.steps
             THEN Outcome([done EXCEPT !.data.at = NextStep(@)], "end_step")
             ELSE IF d.state # "run"
             THEN Outcome(LoadPhaseData([done EXCEPT
                                            !.data.at = FirstStep(@)]),
                          "end_phase")
             ELSE IF ~LastPhase(i)
             THEN Outcome(LoadPhaseData([done EXCEPT
                                            !.data.at = NextPhase(@)]),
                          "end_phase")
             ELSE IF i.status.sub # NoCycle
             THEN Outcome(BackToMainCycle(done), "end_phase")
             ELSE Outcome(done, "end_cycle")
    BY DEF EndsStep
  <1> HIDE DEF d
  <1>4. done \in Itp /\ done.data = d
    BY <1>2 DEF Itp
  <1>5. \A e : [done EXCEPT !.data = e] = [i EXCEPT !.data = e]
    BY DEF Itp
  <1>6. done.data.at = at
    BY <1>2, <1>4
  <1> HIDE DEF done
  <1>7. /\ [done EXCEPT !.data.at = NextStep(@)] = [i EXCEPT !.data = next]
        /\ [done EXCEPT !.data.at = FirstStep(@)] = [i EXCEPT !.data = first]
        /\ [done EXCEPT !.data.at = NextPhase(@)] = [i EXCEPT !.data = after]
    <2>1. [done EXCEPT !.data.at = NextStep(@)] = [done EXCEPT !.data = next]
      BY <1>4, <1>6 DEF Itp, NextStep
    <2>2. [done EXCEPT !.data.at = FirstStep(@)]
             = [done EXCEPT !.data = first]
      BY <1>4, <1>6 DEF Itp, FirstStep
    <2>3. [done EXCEPT !.data.at = NextPhase(@)]
             = [done EXCEPT !.data = after]
      BY <1>4, <1>6 DEF Itp, NextPhase
    <2> HIDE DEF next, first, after
    <2>4. QED
      BY <1>5, <2>1, <2>2, <2>3, Zenon
  <1> HIDE DEF next, first, after
  <1>8. \/ /\ at.step + 1 < i.loaded.steps
           /\ EndsStep(i) = Outcome([i EXCEPT !.data = next], "end_step")
        \/ /\ i.data.state # "run"
           /\ EndsStep(i) = Outcome(LoadPhaseData([i EXCEPT !.data = first]),
                                    "end_phase")
        \/ /\ i.data.state = "run" /\ ~LastPhase(i)
           /\ EndsStep(i) = Outcome(LoadPhaseData([i EXCEPT !.data = after]),
                                    "end_phase")
        \/ /\ i.data.state = "run" /\ i.status.sub # NoCycle
           /\ EndsStep(i) = Outcome(BackToMainCycle(done), "end_phase")
        \/ /\ i.data.state = "run" /\ i.status.sub = NoCycle
           /\ EndsStep(i) = Outcome(done, "end_cycle")
    BY <1>2, <1>3, <1>7
  <1>9. QED
    BY <1>8, Zenon DEF d, done, next, first, after

LEMMA EndsStepRunning ==
    ASSUME NEW i \in Itp, Runs(i), Here(i)
    PROVE  RunsOn(EndsStep(i), i)
  <1> DEFINE d == StepStarting(i.data)
             done == [i EXCEPT !.data = d]
             at == i.data.at
             next == [d EXCEPT !.at = Place(at.cycle, at.phase, at.step + 1)]
             after == [d EXCEPT !.at = Place(at.cycle, at.phase + 1, 0)]
  <1>1. /\ i.data \in Data /\ at \in Places /\ at.cycle \in RunCycles
        /\ i.data.state = "run" /\ ~i.data.error /\ Keeps(i)
        /\ Suits(at.cycle, i.status.sub)
    BY DEF Runs, RunsHere, Itp
  <1>2. d \in Data /\ d.at = at /\ d.state = "run" /\ d.error = i.data.error
    BY <1>1, StartingTypes
  <1>3. /\ i.loaded.steps = NumberOfSteps(at.cycle, at.phase)
        /\ i.loaded.phases = NumberOfPhases(at.cycle)
    BY DEF Here, PhaseData
  <1> HIDE DEF d
  <1>4. CASE /\ at.step + 1 < i.loaded.steps
             /\ EndsStep(i) = Outcome([i EXCEPT !.data = next], "end_step")
    <2> DEFINE j == [i EXCEPT !.data = next]
               to == Place(at.cycle, at.phase, at.step + 1)
    <2>1. to \in Places
      BY <1>1, <1>3, <1>4, NextStepIn
    <2>2. to.cycle = at.cycle /\ to.phase = at.phase
      BY DEF Place
    <2> HIDE DEF to
    <2>3. /\ next \in Data /\ next.at = to /\ next.state = "run"
          /\ next.error = i.data.error
      BY <1>2, <2>1, Moves DEF to
    <2> HIDE DEF next
    <2>4. /\ j \in Itp /\ j.data = next /\ Leaves(j, i) /\ Here(j)
          /\ Runs(j)
      BY <1>1, <2>1, <2>2, <2>3, Steps
    <2>5. EndsStep(i) = Outcome(j, "end_step")
      BY <1>4
    <2> HIDE DEF j
    <2>6. Went(j, i)
      <3>1. to \in PlacesOf(at.cycle)
        BY <2>1, <2>2, PlaceOfCycle
      <3>2. QED
        BY <2>3, <2>4, <3>1 DEF Went, Leaves
    <2>7. QED
      BY <2>4, <2>5, <2>6 DEF RunsOn, Outcome, Results, Leaves
  <1>5. CASE /\ ~LastPhase(i)
             /\ EndsStep(i)
                   = Outcome(LoadPhaseData([i EXCEPT !.data = after]),
                             "end_phase")
    <2> DEFINE to == Place(at.cycle, at.phase + 1, 0)
               j == LoadPhaseData([i EXCEPT !.data = after])
    <2>1. at.phase < NumberOfPhases(at.cycle) - 1
      <3>1. at.phase \in Nat /\ i.loaded.phases \in Nat
        BY <1>1 DEF Itp, Data
      <3>2. QED
        BY <1>3, <1>5, <3>1 DEF LastPhase
    <2>2. to \in Places
      BY <1>1, <2>1, NextPhaseIn
    <2>3. to.cycle = at.cycle
      BY DEF Place
    <2> HIDE DEF to
    <2>4. after \in Data /\ after.at = to /\ after.state = "run"
      BY <1>2, <2>2, Moves DEF to
    <2> HIDE DEF after
    <2>5. Brings(j, i, after)
      BY <2>2, <2>4, LoadsAt
    <2> HIDE DEF j
    <2>6. j \in Itp /\ Runs(j) /\ Here(j)
      BY <1>1, <2>2, <2>3, <2>4, <2>5, BringsRun
    <2>7. Went(j, i)
      <3>1. to \in PlacesOf(at.cycle)
        BY <2>2, <2>3, PlaceOfCycle
      <3>2. QED
        BY <2>4, <2>5, <3>1 DEF Went, Brings, Leaves
    <2>8. j.status.sub = i.status.sub
      BY <2>5 DEF Brings, Leaves
    <2>9. QED
      BY <1>5, <2>6, <2>7, <2>8 DEF RunsOn, Outcome, Results, j
  <1>6. /\ done \in Itp /\ done.data = d /\ Leaves(done, i)
        /\ Runs(done) /\ Here(done)
    BY <1>1, <1>2, Flags
  <1>7. CASE /\ i.status.sub # NoCycle
             /\ EndsStep(i) = Outcome(BackToMainCycle(done), "end_phase")
    <2> HIDE DEF done
    <2>1. done.status.sub # NoCycle /\ Keeps(done)
      BY <1>6, <1>7 DEF Runs, Leaves
    <2> DEFINE j == BackToMainCycle(done)
    <2>2. /\ j \in Itp /\ Runs(j) /\ Here(j) /\ j.status.sub = NoCycle
          /\ j.data.at = done.subData.at
      BY <1>6, <2>1, BackToMain
    <2> HIDE DEF j
    <2>3. Went(j, i)
      <3>1. done.subData = i.subData /\ Keeps(i)
        BY <1>6 DEF Leaves, Runs
      <3>2. i.subData.at \in PlacesOf(i.subData.at.cycle)
        BY <1>7, <3>1, PlaceFacts DEF Keeps, RunsHere
      <3>3. QED
        BY <1>7, <2>2, <3>1, <3>2 DEF Went, BackTo
    <2>4. QED
      BY <1>7, <2>2, <2>3 DEF RunsOn, Outcome, Results, j
  <1>8. CASE EndsStep(i) = Outcome(done, "end_cycle")
    <2> HIDE DEF done
    <2>1. done.data.at = at /\ at \in PlacesOf(at.cycle)
      BY <1>1, <1>2, <1>6, PlaceFacts
    <2>2. Went(done, i)
      BY <1>6, <2>1 DEF Went, Leaves
    <2>3. QED
      BY <1>6, <1>8, <2>2 DEF RunsOn, Outcome, Results, Leaves
  <1>9. QED
    BY <1>1, <1>4, <1>5, <1>7, <1>8, EndsStepCases DEF d

LEMMA EndsStepMacro ==
    ASSUME NEW i \in Itp, NEW c \in Macros, MacroRuns(i.data, c), Here(i)
    PROVE  MacroOn(EndsStep(i), i, c)
  <1> DEFINE d == StepStarting(i.data)
             at == i.data.at
             next == [d EXCEPT !.at = Place(at.cycle, at.phase, at.step + 1)]
             first == [d EXCEPT !.at = Place(at.cycle, at.phase, 0)]
  <1>1. /\ i.data \in Data /\ at \in Places /\ at.cycle = c
        /\ i.data.state = Heading(c) /\ ~i.data.error /\ Heading(c) # "run"
    BY DEF MacroRuns, Itp, Heading, Macros
  <1>2. /\ d \in Data /\ d.at = at /\ d.state = i.data.state
        /\ d.error = i.data.error
    BY <1>1, StartingTypes
  <1>3. i.loaded.steps = NumberOfSteps(at.cycle, at.phase)
    BY DEF Here, PhaseData
  <1>4. at.cycle \in Cycles /\ at.phase \in DOMAIN Program[at.cycle]
    BY <1>1, PlaceFacts
  <1> HIDE DEF d
  <1>5. CASE /\ at.step + 1 < i.loaded.steps
             /\ EndsStep(i) = Outcome([i EXCEPT !.data = next], "end_step")
    <2> DEFINE j == [i EXCEPT !.data = next]
               to == Place(at.cycle, at.phase, at.step + 1)
    <2>1. to \in Places
      BY <1>1, <1>3, <1>5, NextStepIn
    <2>2. to.cycle = at.cycle /\ to.phase = at.phase
      BY DEF Place
    <2> HIDE DEF to
    <2>3. /\ next \in Data /\ next.at = to /\ next.state = i.data.state
          /\ next.error = i.data.error
      BY <1>2, <2>1, Moves DEF to
    <2> HIDE DEF next
    <2>4. j \in Itp /\ Leaves(j, i) /\ Here(j) /\ MacroRuns(j.data, c)
      BY <1>1, <2>1, <2>2, <2>3, Steps
    <2>5. EndsStep(i) = Outcome(j, "end_step")
      BY <1>5
    <2> HIDE DEF j
    <2>6. QED
      BY <2>4, <2>5 DEF MacroOn, Outcome, Results
  <1>6. CASE EndsStep(i) = Outcome(LoadPhaseData([i EXCEPT !.data = first]),
                                   "end_phase")
    <2> DEFINE to == Place(at.cycle, at.phase, 0)
               j == LoadPhaseData([i EXCEPT !.data = first])
    <2>1. to \in Places /\ to.cycle = c
      BY <1>1, <1>4, FirstPlaceIn DEF Place
    <2> HIDE DEF to
    <2>2. /\ first \in Data /\ first.at = to /\ first.state = i.data.state
      BY <1>2, <2>1, Moves DEF to
    <2> HIDE DEF first
    <2>3. Brings(j, i, first)
      BY <2>1, <2>2, LoadsAt
    <2> HIDE DEF j
    <2>4. MacroRuns(j.data, c)
      BY <1>1, <2>1, <2>2, <2>3 DEF Brings, MacroRuns
    <2>5. QED
      BY <1>6, <2>3, <2>4 DEF MacroOn, Outcome, Results, Brings, j
  <1>7. QED
    BY <1>1, <1>5, <1>6, EndsStepCases DEF d

\* Every outcome of a run of the step.
LEMMA RunStepIs ==
    ASSUME NEW i, NEW o \in RunStep(i)
    PROVE  \/ \E k \in DOMAIN StatementsOf(i.data.at) :
                 o = OutcomeOf(i, StatementsOf(i.data.at)[k])
                 /\ (EndsRun(i, StatementsOf(i.data.at)[k])
                     \/ StatementsOf(i.data.at)[k].op = "jump")
           \/ o = EndsStep(i) \/ o = StaysInStep(i)
  BY DEF RunStep, Reached

LEMMA RunStepRunning ==
    ASSUME NEW i \in Itp, Runs(i), Here(i), NEW o \in RunStep(i)
    PROVE  RunsOn(o, i)
  <1>1. i.data.at \in Places
    BY DEF Runs, RunsHere
  <1>2. CASE o = EndsStep(i) \/ o = StaysInStep(i)
    BY <1>2, EndsStepRunning, Stays
  <1>3. ASSUME NEW k \in DOMAIN StatementsOf(i.data.at),
               o = OutcomeOf(i, StatementsOf(i.data.at)[k]),
               EndsRun(i, StatementsOf(i.data.at)[k])
                  \/ StatementsOf(i.data.at)[k].op = "jump"
        PROVE  RunsOn(o, i)
    <2> DEFINE st == StatementsOf(i.data.at)[k]
    <2>1. /\ st.op = "jump" => /\ st.to \in Places
                               /\ st.to.cycle \in RunCycles
                               /\ JumpStays(i.data.at, st.to)
                               /\ st.to \in JumpsOf(i.data.at.cycle)
          /\ st.op = "end_sub_cycle" => st.code \in Codes
      BY <1>1, StatementFacts
    <2>2. o = OutcomeOf(i, st) /\ (EndsRun(i, st) \/ st.op = "jump")
      BY <1>3
    <2> HIDE DEF st
    <2>3. CASE st.op = "jump"
      BY <2>1, <2>2, <2>3, Jumps DEF OutcomeOf
    <2>4. CASE st.op = "end_sub_cycle"
      BY <2>1, <2>2, <2>4, Exits DEF OutcomeOf
    <2>5. CASE st.op \in {"end_cycle", "end_cycle_reset", "pause"}
      <3>1. i.data.at \in PlacesOf(i.data.at.cycle)
        BY <1>1, PlaceFacts
      <3>2. QED
        BY <2>2, <2>5, <3>1 DEF OutcomeOf, Outcome, RunsOn, Results, Went
    <2>6. QED
      BY <2>2, <2>3, <2>4, <2>5 DEF EndsRun
  <1>4. QED
    BY <1>2, <1>3, RunStepIs

LEMMA RunStepMacro ==
    ASSUME NEW i \in Itp, NEW c \in Macros, MacroRuns(i.data, c), Here(i),
           NEW o \in RunStep(i)
    PROVE  MacroOn(o, i, c)
  <1>1. i.data.at \in Places /\ i.data.at.cycle \in Macros
    BY DEF MacroRuns
  <1>2. CASE o = EndsStep(i) \/ o = StaysInStep(i)
    BY <1>2, EndsStepMacro, Stays
  <1>3. ASSUME NEW k \in DOMAIN StatementsOf(i.data.at),
               o = OutcomeOf(i, StatementsOf(i.data.at)[k]),
               EndsRun(i, StatementsOf(i.data.at)[k])
                  \/ StatementsOf(i.data.at)[k].op = "jump"
        PROVE  MacroOn(o, i, c)
    <2> DEFINE st == StatementsOf(i.data.at)[k]
    <2>1. st.op \notin {"jump", "end_sub_cycle"}
      BY <1>1, StatementFacts
    <2>2. o = OutcomeOf(i, st) /\ EndsRun(i, st)
      BY <1>3, <2>1
    <2> HIDE DEF st
    <2>3. st.op \in {"end_cycle", "end_cycle_reset", "pause"}
      BY <2>1, <2>2 DEF EndsRun
    <2>4. o = Outcome(i, st.op)
      BY <2>2, <2>3 DEF OutcomeOf
    <2>5. QED
      BY <2>3, <2>4 DEF Outcome, MacroOn, Results, Leaves
  <1>4. QED
    BY <1>2, <1>3, RunStepIs

\* Interpreter__Run starts with the load of the phase it is at.
LEMMA LoadsRunning ==
    ASSUME NEW i \in Itp, Runs(i)
    PROVE  LET j == LoadPhaseData(i) IN
           /\ j \in Itp /\ Runs(j) /\ Here(j) /\ j.status.sub = i.status.sub
           /\ MainOf(j) = MainOf(i)
  <1> DEFINE j == LoadPhaseData(i)
  <1>1. RunsHere(i.data, i.status.sub) /\ Keeps(i) /\ i.data \in Data
    BY DEF Runs, Itp
  <1>2. LoadedFrom(j, i)
    BY <1>1, Loads DEF RunsHere
  <1> HIDE DEF j
  <1>3. /\ j.data.at = i.data.at /\ j.data.state = i.data.state
        /\ ~j.data.error
    BY <1>1, <1>2 DEF LoadedFrom, Data
  <1>4. Runs(j)
    BY <1>1, <1>2, <1>3 DEF LoadedFrom, Runs, RunsHere, Keeps
  <1>5. QED
    BY <1>2, <1>3, <1>4 DEF LoadedFrom, Here, MainOf, j

LEMMA LoadsMacro ==
    ASSUME NEW i \in Itp, NEW c, MacroRuns(i.data, c)
    PROVE  LET j == LoadPhaseData(i) IN
           /\ j \in Itp /\ MacroRuns(j.data, c) /\ Leaves(j, i) /\ Here(j)
  <1> DEFINE j == LoadPhaseData(i)
  <1>1. i.data \in Data /\ i.data.at \in Places
    BY DEF MacroRuns, Itp
  <1>2. LoadedFrom(j, i)
    BY <1>1, Loads
  <1> HIDE DEF j
  <1>3. /\ j.data.at = i.data.at /\ j.data.state = i.data.state
        /\ ~j.data.error
    BY <1>1, <1>2 DEF LoadedFrom, Data
  <1>4. QED
    BY <1>2, <1>3 DEF LoadedFrom, Here, MacroRuns, Leaves, j

-----------------------------------------------------------------------------
(* The requests to move to a phase or a step.                              *)

\* The phase data are those of the place, or were lost with the power.
Known(i) == Here(i) \/ i.loaded = NothingLoaded

\* A cycle that runs is configured at another step of itself.
LEMMA Reconfigures ==
    ASSUME NEW i \in Itp, Runs(i), NEW at \in Places,
           at.cycle = i.data.at.cycle
    PROVE  LET j == Configure(i, at, i.data.state) IN
           /\ j \in Itp /\ Runs(j) /\ Here(j) /\ j.status.sub = i.status.sub
           /\ j.data.at = at /\ j.subData = i.subData
  <1> DEFINE j == Configure(i, at, i.data.state)
  <1>1. RunsHere(i.data, i.status.sub) /\ Keeps(i)
    BY DEF Runs
  <1>2. i.data.state = "run" /\ i.data.state \in CycleStates
    BY <1>1 DEF RunsHere, CycleStates
  <1>3. ConfiguredAt(i, at, i.data.state) = at
    <2>1. at \in [cycle : Nat, phase : Nat, step : Nat]
      BY PlaceFacts
    <2>2. QED
      BY <1>2, <2>1 DEF ConfiguredAt, ConfiguredPhase
  <1>4. /\ j \in Itp /\ j.data.at = at /\ j.data.state = "run"
        /\ ~j.data.error /\ j.status.sub = i.status.sub
        /\ j.subData = i.subData /\ j.subStatus = i.subStatus
        /\ j.mainPhases = i.mainPhases /\ Here(j)
    BY <1>2, <1>3, Configures
  <1> HIDE DEF j
  <1>5. Runs(j)
    BY <1>1, <1>4 DEF Runs, RunsHere, Keeps
  <1>6. QED
    BY <1>4, <1>5 DEF j

LEMMA RequestTypes ==
    /\ Forward \notin 0 .. 127 /\ Backward \notin 0 .. 127
    /\ Forward # Backward
    /\ \A r \in PhaseRequests \cup StepRequests :
          r \in 0 .. 127 \/ r \in {Forward, Backward}
  <1>1. Forward > 128 /\ Backward > 128 /\ Forward # Backward
    BY PhasesAssumption, Zenon DEF PhasesAssumption
  <1>2. Forward \notin 0 .. 127 /\ Backward \notin 0 .. 127
    BY <1>1
  <1>3. /\ PhaseRequests \subseteq 0 .. 127 \cup {Forward, Backward}
        /\ StepRequests \subseteq 0 .. 127 \cup {Forward, Backward}
    BY UseAssumption, Zenon DEF UseAssumption
  <1>4. QED
    BY <1>1, <1>2, <1>3

\* The phase asked for is one that the cycle has.
LEMMA AskedPhaseIn ==
    ASSUME NEW i \in Itp, Runs(i), Known(i),
           NEW phase \in 0 .. 127 \cup {Forward, Backward},
           PhaseVerdict(i, phase) = "pass"
    PROVE  /\ PhaseAsked(i, phase) \in DOMAIN Program[i.data.at.cycle]
           /\ Place(i.data.at.cycle, PhaseAsked(i, phase), 0) \in Places
  <1> DEFINE c == i.data.at.cycle
             n == NumberOfPhases(c)
             now == i.data.at.phase
             loaded == i.loaded.phases
  <1>1. i.data.at \in Places /\ c \in RunCycles
    BY DEF Runs, RunsHere
  <1>2. /\ c \in Cycles /\ n \in Nat \ {0}
        /\ DOMAIN Program[c] = 0 .. n - 1 /\ now \in 0 .. n - 1
    BY <1>1, PhaseFacts, PlaceFacts
  <1>3. loaded = n \/ loaded = 0
    BY DEF Known, Here, PhaseData, NothingLoaded
  <1>4. \/ phase = Backward /\ now # 0
        \/ phase = Forward /\ now < loaded - 1
        \/ phase \notin {Forward, Backward} /\ phase < loaded
    BY DEF PhaseVerdict
  <1>5. PhaseAsked(i, phase) = CASE phase = Backward -> now - 1
                                 [] phase = Forward  -> now + 1
                                 [] OTHER            -> phase
    BY DEF PhaseAsked
  <1> HIDE DEF c, n, now, loaded
  <1>6. PhaseAsked(i, phase) \in 0 .. n - 1
    <2> DEFINE a == PhaseAsked(i, phase)
    <2> SUFFICES a \in 0 .. n - 1
      OBVIOUS
    <2>1. /\ phase = Backward => a = now - 1
          /\ phase = Forward => a = now + 1
          /\ phase \notin {Forward, Backward} => a = phase
      BY <1>5, RequestTypes
    <2> HIDE DEF a
    <2>2. n \in Nat /\ n > 0 /\ now \in 0 .. n - 1
      BY <1>2
    <2>3. CASE phase = Backward /\ now # 0
      BY <2>1, <2>2, <2>3
    <2>4. CASE phase = Forward /\ now < loaded - 1
      BY <1>3, <2>1, <2>2, <2>4
    <2>5. CASE phase \notin {Forward, Backward} /\ phase < loaded
      <3>1. phase \in 0 .. 127
        BY <2>5
      <3>2. QED
        BY <1>3, <2>1, <2>2, <2>5, <3>1
    <2>6. QED
      BY <1>4, <2>3, <2>4, <2>5
  <1>7. PhaseAsked(i, phase) \in DOMAIN Program[c]
    BY <1>2, <1>6
  <1>8. QED
    BY <1>2, <1>7, FirstPlaceIn DEF c

LEMMA SetsPhase ==
    ASSUME NEW i \in Itp, Runs(i), Known(i),
           NEW phase \in 0 .. 127 \cup {Forward, Backward}
    PROVE  LET j == SetPhase(i, phase) IN
           /\ j \in Itp /\ Runs(j) /\ Known(j)
           /\ Here(i) => Here(j)
           /\ PhaseVerdict(i, phase) = "pass" => Here(j)
           /\ j.status.sub = i.status.sub /\ j.subData = i.subData
           /\ j.data.at.cycle = i.data.at.cycle
  <1> DEFINE j == SetPhase(i, phase)
             to == Place(i.data.at.cycle, PhaseAsked(i, phase), 0)
             k == Configure(i, to, i.data.state)
  <1>1. CASE PhaseVerdict(i, phase) # "pass"
    BY <1>1 DEF SetPhase
  <1>2. CASE PhaseVerdict(i, phase) = "pass"
    <2>1. j = k
      BY <1>2 DEF SetPhase
    <2>2. to \in Places /\ to.cycle = i.data.at.cycle
      BY <1>2, AskedPhaseIn DEF Place
    <2> HIDE DEF to, j
    <2>3. /\ k \in Itp /\ Runs(k) /\ Here(k) /\ k.data.at = to
          /\ k.status.sub = i.status.sub /\ k.subData = i.subData
      BY <2>2, Reconfigures
    <2> HIDE DEF k
    <2>4. QED
      BY <2>1, <2>2, <2>3 DEF Known, j
  <1>3. QED
    BY <1>1, <1>2

LEMMA SetsStep ==
    ASSUME NEW i \in Itp, Runs(i), Here(i),
           NEW step \in 0 .. 127 \cup {Forward, Backward}
    PROVE  LET j == SetStep(i, step) IN
           /\ j \in Itp /\ Runs(j) /\ Here(j)
           /\ j.status.sub = i.status.sub /\ j.subData = i.subData
           /\ j.data.at.cycle = i.data.at.cycle
  <1> DEFINE j == SetStep(i, step)
             moved == IF LeavesPhase(i, step) THEN SetPhase(i, step) ELSE i
             s == GetFirstStatement(moved, StepAsked(i, moved, step))
             to == [moved.data.at EXCEPT !.step = s]
             k == Configure(moved, to, moved.data.state)
  <1>1. CASE StepVerdict(i, step) # "pass"
    BY <1>1 DEF SetStep
  <1>2. CASE StepVerdict(i, step) = "pass"
    <2>1. j = k
      BY <1>2 DEF SetStep
    <2>2. /\ moved \in Itp /\ Runs(moved) /\ Here(moved)
          /\ moved.status.sub = i.status.sub /\ moved.subData = i.subData
          /\ moved.data.at.cycle = i.data.at.cycle
      BY SetsPhase DEF Known
    <2> DEFINE at == moved.data.at
               n == NumberOfSteps(at.cycle, at.phase)
               a == StepAsked(i, moved, step)
               now == CurrentStep(i)
    <2>3. /\ at \in Places /\ moved.loaded.steps = n
      BY <2>2 DEF Runs, RunsHere, Here, PhaseData
    <2>4. /\ at.cycle \in Cycles /\ at.phase \in DOMAIN Program[at.cycle]
          /\ at \in [cycle : Nat, phase : Nat, step : Nat]
      BY <2>3, PlaceFacts
    <2>5. n \in Nat \ {0}
      BY <2>4, PhaseFacts
    <2>6. a \in Nat
      <3>1. now \in Nat
        BY DEF CurrentStep, Itp, Status
      <3>2. a = IF LeavesPhase(i, step)
                THEN IF step = Backward THEN n - 1 ELSE 0
                ELSE CASE step = Backward -> now - 1
                       [] step = Forward  -> now + 1
                       [] OTHER           -> step
        BY <2>3 DEF StepAsked
      <3>3. LeavesPhase(i, step) \/ ~(step = Backward /\ now = 0)
        BY DEF LeavesPhase
      <3> HIDE DEF n, a, now
      <3>4. CASE LeavesPhase(i, step)
        BY <2>5, <3>2, <3>4
      <3>5. CASE ~LeavesPhase(i, step) /\ step = Backward
        BY <3>1, <3>2, <3>3, <3>5
      <3>6. CASE ~LeavesPhase(i, step) /\ step # Backward
        BY <3>1, <3>2, <3>6
      <3>7. QED
        BY <3>4, <3>5, <3>6
    <2>7. s = IF a < n THEN a ELSE 0
      BY <2>3 DEF GetFirstStatement
    <2> HIDE DEF s, a, n
    <2>8. s \in 0 .. n - 1
      BY <2>5, <2>6, <2>7
    <2>9. to = Place(at.cycle, at.phase, s)
      BY <2>4 DEF Place
    <2>10. to \in Places /\ to.cycle = at.cycle
      <3>1. to \in Places
        BY <2>4, <2>8, <2>9, PlaceIn DEF n
      <3>2. QED
        BY <2>9, <3>1 DEF Place
    <2> HIDE DEF to, moved, j
    <2>11. /\ k \in Itp /\ Runs(k) /\ Here(k) /\ k.data.at = to
           /\ k.status.sub = moved.status.sub /\ k.subData = moved.subData
      BY <2>2, <2>10, Reconfigures
    <2> HIDE DEF k
    <2>12. QED
      BY <2>1, <2>2, <2>10, <2>11 DEF j
  <1>3. QED
    BY <1>1, <1>2

-----------------------------------------------------------------------------
(* The inductive invariant.                                                *)

SeamsOK ==
    /\ pc \in {"tasks", "loop", "machine"}
    /\ fsm \in States /\ result \in Results
    /\ steps \in 0 .. MaxSteps
    /\ requested \in 1 .. NoRequest /\ doorClosed \in BOOLEAN
    /\ pc = "tasks" => steps = 0
    /\ pc = "loop" => steps < MaxSteps

\* The phase data in RAM are those of the place, but for the pass after the
\* power came back and the end of a cycle that a sub-cycle brought about.
LoadedOK ==
    \/ Here(itp)
    \/ pc = "tasks" /\ itp.loaded = NothingLoaded
    \/ pc = "machine" /\ fsm \in Running /\ result = "end_cycle"

IInv == SeamsOK /\ Fits(itp, fsm) /\ LoadedOK

\* What a step leads to, what it does to the sub-cycle, and what it is for
\* the place of the main cycle.
Lands == Fits(itp', fsm') /\ fsm' \in States
KeptStep == [Kept!Next]_<<MainPlace, Level>>
SubLeft == itp'.status.sub \in {itp.status.sub, NoCycle}

-----------------------------------------------------------------------------
(* The place of the main cycle, state by state.                            *)

PausedMain(i) == IF i.status.sub = NoCycle THEN i.pauseData.at
                                           ELSE i.subData.at

LEMMA Levels ==
    /\ fsm \in Running
         => /\ Level = IF itp.status.sub = NoCycle THEN "main" ELSE "sub"
            /\ MainPlace = MainOf(itp)
    /\ fsm \in Pausing /\ Pauses(itp)
         => /\ Level = IF itp.status.sub = NoCycle THEN "paused"
                                                  ELSE "paused_sub"
            /\ MainPlace = PausedMain(itp)
    /\ fsm \notin Running \cup Pausing
         => Level = "idle" /\ MainPlace = Nowhere
  BY DEF Level, MainPlace, MainOf, PausedMain, Running, Pausing, Pauses

LEMMA LevelsNext ==
    /\ fsm' \in Running
         => /\ Level' = IF itp'.status.sub = NoCycle THEN "main" ELSE "sub"
            /\ MainPlace' = MainOf(itp')
    /\ fsm' \in Pausing /\ Pauses(itp')
         => /\ Level' = IF itp'.status.sub = NoCycle THEN "paused"
                                                   ELSE "paused_sub"
            /\ MainPlace' = PausedMain(itp')
    /\ fsm' \notin Running \cup Pausing
         => Level' = "idle" /\ MainPlace' = Nowhere
  BY DEF Level, MainPlace, MainOf, PausedMain, Running, Pausing, Pauses

\* The cycle is over.
LEMMA Stops ==
    ASSUME fsm' \notin Running \cup Pausing
    PROVE  KeptStep
  BY LevelsNext DEF KeptStep, Kept!Next, Kept!Stop

LEMMA SameMain ==
    ASSUME itp' = itp, fsm' = fsm
    PROVE  KeptStep
  BY DEF KeptStep, Level, MainPlace

LEMMA MainRuns ==
    ASSUME NEW i \in Itp, Runs(i)
    PROVE  /\ MainOf(i) \in Places /\ MainOf(i).cycle \in RunCycles
           /\ PlacesByCycle[MainOf(i).cycle] = PlacesOf(MainOf(i).cycle)
           /\ JumpsByCycle[MainOf(i).cycle] = JumpsOf(MainOf(i).cycle)
           /\ MainOf(i) \in PlacesOf(MainOf(i).cycle)
  <1>1. MainOf(i) \in Places /\ MainOf(i).cycle \in RunCycles
    BY DEF MainOf, Runs, RunsHere, Keeps
  <1>2. QED
    BY <1>1, PlaceFacts DEF PlacesByCycle, JumpsByCycle

\* A cycle that runs goes on running: the step, seen from the main cycle.
LEMMA MovesOn ==
    ASSUME fsm \in Running, fsm' = fsm, itp \in Itp, Runs(itp),
           NEW j, j.status.sub \in SubCycleIds \cup {NoCycle},
           j.status.sub # NoCycle \/ itp.status.sub = NoCycle,
           MainOf(j) = MainOf(itp), Went(itp', j)
    PROVE  KeptStep
  <1>1. /\ MainOf(itp) \in Places
        /\ PlacesByCycle[MainOf(itp).cycle] = PlacesOf(MainOf(itp).cycle)
        /\ JumpsByCycle[MainOf(itp).cycle] = JumpsOf(MainOf(itp).cycle)
    BY MainRuns
  <1>2. /\ Level = IF itp.status.sub = NoCycle THEN "main" ELSE "sub"
        /\ Level' = IF itp'.status.sub = NoCycle THEN "main" ELSE "sub"
        /\ MainPlace = MainOf(itp) /\ MainPlace' = MainOf(itp')
    BY Levels, LevelsNext
  <1>3. CASE j.status.sub = NoCycle
    <2>1. /\ itp'.status.sub = NoCycle /\ itp.status.sub = NoCycle
          /\ itp'.data.at \in PlacesOf(MainOf(itp).cycle)
                               \cup JumpsOf(MainOf(itp).cycle)
      BY <1>3 DEF Went, MainOf
    <2>2. /\ Level = "main" /\ Level' = "main"
          /\ MainPlace' \in PlacesByCycle[MainPlace.cycle]
                             \cup JumpsByCycle[MainPlace.cycle]
      BY <1>1, <1>2, <2>1 DEF MainOf
    <2>3. QED
      BY <2>2 DEF KeptStep, Kept!Next, Kept!Move
  <1>4. CASE j.status.sub # NoCycle /\ itp'.status.sub = j.status.sub
    <2>1. itp'.subData = j.subData \/ itp'.status.sub = NoCycle
      BY <1>4 DEF Went
    <2>2. MainPlace' = MainPlace /\ Level' = "sub"
      BY <1>2, <1>4, <2>1 DEF MainOf
    <2>3. QED
      BY <1>2, <2>2 DEF KeptStep, Kept!Next, Kept!EnterSubCycle
  <1>5. CASE j.status.sub # NoCycle /\ itp'.status.sub # j.status.sub
    <2>1. /\ itp'.status.sub = NoCycle
          /\ BackTo(MainPlace, itp'.data.at)
      BY <1>2, <1>5 DEF Went, MainOf
    <2>2. /\ MainPlace' \in PlacesByCycle[MainPlace.cycle]
          /\ \/ MainPlace' = MainPlace
             \/ MainPlace'.phase = MainPlace.phase /\ MainPlace'.step = 0
             \/ MainPlace'.phase = MainPlace.phase + 1
                /\ MainPlace'.step = 0
      BY <1>1, <1>2, <2>1 DEF BackTo, MainOf, FirstStep, NextPhase, Place
    <2>3. CASE Level = "main"
      BY <1>2, <2>1, <2>2, <2>3 DEF KeptStep, Kept!Next, Kept!Move
    <2>4. CASE Level = "sub"
      BY <1>2, <2>1, <2>2, <2>4 DEF KeptStep, Kept!Next, Kept!LeaveSubCycle
    <2>5. QED
      BY <1>2, <2>3, <2>4
  <1>6. QED
    BY <1>3, <1>4, <1>5

-----------------------------------------------------------------------------
(* The events of the state machine.                                        *)

LEMMA FitsFacts ==
    ASSUME NEW i, NEW f \in States, Fits(i, f)
    PROVE  /\ i \in Itp
           /\ f \in Running => Runs(i) /\ f \notin Pausing
           /\ f \in Pausing => Pauses(i)
           /\ f \notin Running \cup Pausing
                => Idles(i, MacroOf(f)) /\ MacroOf(f) \in Macros
           /\ i.status.sub \in SubCycleIds \cup {NoCycle}
  <1>1. f \notin Running \cup Pausing
          => f \in {"programming", "end_of_cycle", "fault"}
    BY DEF States, Running, Pausing
  <1>2. QED
    BY <1>1 DEF Fits, MacroOf, Macros, Running, Pausing, Itp, Status

LEMMA SelectionIn ==
    ASSUME NEW sel \in Selections
    PROVE  sel \in {0} \cup MainCycles
  BY DEF Selections

LEMMA EntersProgramming ==
    ASSUME NEW i \in Itp, NEW sel \in Selections, EnterProgramming(i, sel)
    PROVE  /\ Lands /\ Here(itp') /\ KeptStep /\ itp'.status.sub = NoCycle
           /\ fsm' \notin Running \cup Pausing
  <1>1. /\ fsm' = "programming"
        /\ itp' = ClearSubCycleStatus(
                      Configure(i, Place(ProgrammingMacro, sel, 0),
                                Heading(ProgrammingMacro)))
    BY CycleFacts DEF EnterProgramming
  <1>2. itp' \in Itp /\ Idles(itp', ProgrammingMacro) /\ Here(itp')
    BY <1>1, SelectionIn, Starts
  <1>3. fsm' \notin Running \cup Pausing /\ fsm' \in States
    BY <1>1 DEF Running, Pausing, States
  <1>4. Lands
    BY <1>1, <1>2, <1>3 DEF Lands, Fits, MacroOf
  <1>5. QED
    BY <1>2, <1>3, <1>4, Stops DEF Idles

LEMMA EntersCancelling ==
    ASSUME NEW i \in Itp, fsm \in {"run", "pause"}, EnterCancelling(i),
           fsm = "pause" => Pauses(itp)
    PROVE  /\ Lands /\ Here(itp') /\ KeptStep /\ itp'.status.sub = NoCycle
  <1>1. /\ fsm' = "cancelling" /\ CancelCycle \in RunCycles
        /\ CancelCycle \notin SubCycleIds
        /\ itp' = ClearSubCycleStatus(
                      Configure(i, Place(CancelCycle, 0, 0), "run"))
    BY CycleFacts DEF EnterCancelling
  <1>2. /\ itp' \in Itp /\ Runs(itp') /\ Here(itp')
        /\ itp'.data.at = Place(CancelCycle, 0, 0)
        /\ itp'.status.sub = NoCycle
    BY <1>1, StartsRun
  <1>3. Lands
    BY <1>1, <1>2 DEF Lands, Fits, Running, Pausing, States
  <1>4. fsm' \in Running
    BY <1>1 DEF Running
  <1>5. Level' = "main" /\ MainPlace' = Place(CancelCycle, 0, 0)
    BY <1>2, <1>4, LevelsNext DEF MainOf
  <1>6. Level # "idle"
    BY Levels DEF Running, Pausing
  <1>7. QED
    BY <1>2, <1>3, <1>5, <1>6 DEF KeptStep, Kept!Next, Kept!Drain

LEMMA Resets ==
    ASSUME NEW i \in Itp, NEW sel \in Selections, fsm \in States,
           Fits(itp, fsm), EvReset(i, sel)
    PROVE  \/ /\ Lands /\ Here(itp') /\ KeptStep
              /\ itp'.status.sub = NoCycle
           \/ fsm = "fault" /\ itp' = i /\ fsm' = fsm
  <1>1. CASE EnterProgramming(i, sel)
    BY <1>1, EntersProgramming
  <1>2. CASE fsm \in {"run", "pause"} /\ EnterCancelling(i)
    <2>1. fsm = "pause" => Pauses(itp)
      BY DEF Fits, Pausing
    <2>2. QED
      BY <1>2, <2>1, EntersCancelling
  <1>3. QED
    BY <1>1, <1>2 DEF EvReset

LEMMA EndsCycle ==
    ASSUME itp \in Itp, NEW sel \in Selections, EvEnd(sel)
    PROVE  Lands /\ Here(itp') /\ KeptStep /\ itp'.status.sub = NoCycle
  <1>1. CASE EnterProgramming(itp, sel)
    BY <1>1, EntersProgramming
  <1>2. CASE /\ fsm' = "end_of_cycle"
             /\ itp' = ClearSubCycleStatus(
                           Configure(itp, Place(EndMacro, sel, 0), "end"))
    <2>1. itp' = ClearSubCycleStatus(
                     Configure(itp, Place(EndMacro, sel, 0),
                               Heading(EndMacro)))
      BY <1>2, CycleFacts
    <2>2. itp' \in Itp /\ Idles(itp', EndMacro) /\ Here(itp')
      BY <2>1, SelectionIn, Starts
    <2>3. fsm' \notin Running \cup Pausing /\ fsm' \in States
      BY <1>2 DEF Running, Pausing, States
    <2>4. Lands
      BY <1>2, <2>2, <2>3 DEF Lands, Fits, MacroOf
    <2>5. QED
      BY <2>2, <2>3, <2>4, Stops DEF Idles
  <1>3. QED
    BY <1>1, <1>2 DEF EvEnd

\* The interpreter as it is, or as the power that came back found it.
LEMMA PausesRunning ==
    ASSUME NEW i \in Itp, fsm \in Running, Runs(i), Runs(itp), EvPause(i),
           i.data = itp.data, i.status = itp.status, i.subData = itp.subData
    PROVE  /\ Lands /\ Here(itp') /\ KeptStep
           /\ itp'.status.sub = itp.status.sub
           /\ fsm' \notin Running
  <1>1. fsm' \in Pausing /\ fsm' \in States
    BY DEF EvPause, Pausing, States
  <1>2. /\ itp' \in Itp /\ Pauses(itp') /\ Here(itp')
        /\ itp'.pauseData = itp.data /\ itp'.subData = itp.subData
        /\ itp'.status.sub = itp.status.sub
    BY EntersPause DEF EvPause
  <1>3. fsm' \notin Running
    BY <1>1 DEF Running, Pausing
  <1>4. Lands
    BY <1>1, <1>2, <1>3 DEF Lands, Fits, Pausing
  <1>5. /\ Level = IF itp.status.sub = NoCycle THEN "main" ELSE "sub"
        /\ Level' = IF itp.status.sub = NoCycle THEN "paused"
                                                ELSE "paused_sub"
        /\ MainPlace' = MainPlace
    BY <1>1, <1>2, Levels, LevelsNext DEF MainOf, PausedMain
  <1>6. KeptStep
    BY <1>5 DEF KeptStep, Kept!Next, Kept!Pause
  <1>7. QED
    BY <1>2, <1>3, <1>4, <1>6

-----------------------------------------------------------------------------
(* The steps: tasks and monitors.                                          *)

Good == IInv' /\ SubLeft /\ KeptStep

LEMMA RequestStarts ==
    ASSUME IInv, NEW p \in DOMAIN SubCycles, RequestStart(p)
    PROVE  Good
  <1>1. UNCHANGED <<pc, fsm, itp, result, steps, doorClosed>>
    BY DEF RequestStart
  <1>2. requested' \in 1 .. NoRequest
    <2>1. /\ DOMAIN SubCycles = 1 .. Len(SubCycles)
          /\ Len(SubCycles) \in Nat
      BY ProgramAssumption DEF ProgramAssumption
    <2>2. QED
      BY <2>1 DEF RequestStart, NoRequest, IInv, SeamsOK
  <1>3. IInv'
    BY <1>1, <1>2 DEF IInv, SeamsOK, LoadedOK, NoRequest
  <1>4. QED
    BY <1>1, <1>3, SameMain DEF Good, SubLeft

LEMMA DoorIsMoved ==
    ASSUME IInv, DoorMoves
    PROVE  Good
  <1>1. UNCHANGED <<pc, fsm, itp, result, steps, requested>>
    BY DEF DoorMoves
  <1>2. doorClosed' \in BOOLEAN
    BY Zenon DEF DoorMoves
  <1>3. IInv'
    BY <1>1, <1>2 DEF IInv, SeamsOK, LoadedOK, NoRequest
  <1>4. QED
    BY <1>1, <1>3, SameMain DEF Good, SubLeft

LEMMA TerminatesFromMonitor ==
    ASSUME IInv, TerminateFromMonitor
    PROVE  Good
  <1>1. /\ UNCHANGED <<pc, fsm, result, steps, requested, doorClosed>>
        /\ itp' = TerminateSubCycle(itp) /\ pc = "tasks" /\ fsm \in States
        /\ Fits(itp, fsm) /\ itp \in Itp /\ LoadedOK /\ SeamsOK
    BY FitsFacts DEF TerminateFromMonitor, IInv, SeamsOK
  <1>2. Known(itp)
    BY <1>1 DEF LoadedOK, Known
  <1>3. CASE fsm \in Running
    <2>1. Runs(itp) /\ fsm \notin Pausing
      BY <1>1, <1>3, FitsFacts
    <2>2. /\ itp' \in Itp /\ Runs(itp') /\ Known(itp')
          /\ itp.status.sub = NoCycle => itp' = itp
          /\ itp.status.sub # NoCycle => /\ itp'.status.sub = NoCycle
                                         /\ itp'.data.at = itp.subData.at
      BY <1>1, <1>2, <2>1, TerminatesRunning DEF Known
    <2>3. Fits(itp', fsm') /\ SubLeft
      BY <1>1, <1>3, <2>1, <2>2 DEF Fits, Running, Pausing, SubLeft
    <2>4. KeptStep
      <3>1. CASE itp.status.sub = NoCycle
        BY <1>1, <2>2, <3>1, SameMain
      <3>2. CASE itp.status.sub # NoCycle
        <4>1. /\ Level = "sub" /\ Level' = "main" /\ MainPlace' = MainPlace
              /\ MainPlace = MainOf(itp)
          BY <1>1, <1>3, <2>2, <3>2, Levels, LevelsNext DEF MainOf
        <4>2. MainPlace' \in PlacesByCycle[MainPlace.cycle]
          BY <1>1, <2>1, <4>1, MainRuns
        <4>3. QED
          BY <4>1, <4>2 DEF KeptStep, Kept!Next, Kept!LeaveSubCycle
      <3>3. QED
        BY <3>1, <3>2
    <2>5. QED
      BY <1>1, <2>2, <2>3, <2>4
      DEF Good, IInv, SeamsOK, LoadedOK, Known, NoRequest
  <1>4. CASE fsm \in Pausing
    <2>1. Pauses(itp) /\ fsm \notin Running
      BY <1>1, <1>4, FitsFacts DEF Running, Pausing
    <2>2. /\ itp' \in Itp /\ Pauses(itp') /\ itp'.data = itp.data
          /\ itp'.loaded = itp.loaded
          /\ itp.status.sub = NoCycle => itp' = itp
          /\ itp.status.sub # NoCycle
                => /\ itp'.status.sub = NoCycle
                   /\ itp'.pauseData.at = itp.subData.at
      BY <1>1, <2>1, TerminatesPaused
    <2>3. Fits(itp', fsm') /\ SubLeft
      BY <1>1, <1>4, <2>1, <2>2 DEF Fits, Running, Pausing, SubLeft
    <2>4. Known(itp')
      BY <1>2, <2>2 DEF Known, Here
    <2>5. KeptStep
      <3>1. CASE itp.status.sub = NoCycle
        BY <1>1, <2>2, <3>1, SameMain
      <3>2. CASE itp.status.sub # NoCycle
        <4>1. /\ Level = "paused_sub" /\ Level' = "paused"
              /\ MainPlace' = MainPlace
          BY <1>1, <1>4, <2>1, <2>2, <3>2, Levels, LevelsNext
          DEF PausedMain
        <4>2. QED
          BY <4>1 DEF KeptStep, Kept!Next, Kept!DropSubCycle
      <3>3. QED
        BY <3>1, <3>2
    <2>6. QED
      BY <1>1, <2>3, <2>4, <2>5
      DEF Good, IInv, SeamsOK, LoadedOK, Known, NoRequest
  <1>5. CASE fsm \notin Running \cup Pausing
    <2>1. itp.status.sub = NoCycle
      BY <1>1, <1>5, FitsFacts DEF Idles
    <2>2. itp' = itp
      BY <1>1, <2>1 DEF TerminateSubCycle
    <2>3. QED
      BY <1>1, <2>2, SameMain
      DEF Good, IInv, SeamsOK, LoadedOK, SubLeft, NoRequest
  <1>6. QED
    BY <1>3, <1>4, <1>5

\* A request moved the cycle that runs within its program, or did not.
LEMMA MovesWithin ==
    ASSUME itp \in Itp, fsm \in Running, fsm' = fsm, Runs(itp),
           itp' \in Itp, Runs(itp'), itp'.status.sub = itp.status.sub,
           itp'.subData = itp.subData,
           itp'.data.at.cycle = itp.data.at.cycle
    PROVE  Lands /\ SubLeft /\ KeptStep
  <1>1. Lands
    BY DEF Lands, Fits, Running, Pausing, States
  <1>2. itp'.data.at \in PlacesOf(itp.data.at.cycle)
    BY PlaceFacts DEF Runs, RunsHere
  <1>3. Went(itp', itp)
    BY <1>2 DEF Went
  <1>4. itp.status.sub \in SubCycleIds \cup {NoCycle}
    BY DEF Itp, Status
  <1>5. KeptStep
    BY <1>3, <1>4, MovesOn
  <1>6. QED
    BY <1>1, <1>5 DEF SubLeft

LEMMA ReactsToUnbalance ==
    ASSUME IInv, NEW phase \in PhaseRequests, StabilityReaction(phase)
    PROVE  Good
  <1>1. /\ UNCHANGED <<pc, fsm, result, steps, requested, doorClosed>>
        /\ itp' = SetPhase(itp, phase) /\ pc = "tasks" /\ fsm \in States
        /\ Fits(itp, fsm) /\ itp \in Itp /\ LoadedOK /\ SeamsOK
        /\ itp.data.at.cycle \in RunCycles
    BY FitsFacts DEF StabilityReaction, IInv, SeamsOK
  <1>2. Known(itp)
    BY <1>1 DEF LoadedOK, Known
  <1>3. fsm \in Running
    <2>1. itp.data.at.cycle \notin Macros /\ PauseMacro \in Macros
      BY <1>1, CycleFacts DEF Macros
    <2>2. QED
      BY <1>1, <2>1, FitsFacts DEF Pauses, Idles, MacroRuns
  <1>4. phase \in 0 .. 127 \cup {Forward, Backward} /\ Runs(itp)
    BY <1>1, <1>3, RequestTypes, FitsFacts
  <1>5. /\ itp' \in Itp /\ Runs(itp') /\ Known(itp')
        /\ itp'.status.sub = itp.status.sub /\ itp'.subData = itp.subData
        /\ itp'.data.at.cycle = itp.data.at.cycle
    BY <1>1, <1>2, <1>4, SetsPhase
  <1>6. Lands /\ SubLeft /\ KeptStep
    BY <1>1, <1>3, <1>4, <1>5, MovesWithin
  <1>7. QED
    BY <1>1, <1>5, <1>6
    DEF Good, IInv, SeamsOK, LoadedOK, Known, Lands, NoRequest

-----------------------------------------------------------------------------
(* The steps: a run of the interpreter.                                    *)

\* What the interpreter that has loaded its phase looks like, after the
\* sub-cycles have been looked at, and what the run of the step makes of it.
RunOf(i, j, o) ==
    /\ i = LoadPhaseData(itp)
    /\ \E triggered \in SUBSET Conditional :
          j = CheckForSubCycle(i, GetActive(i.status.sub, requested,
                                            triggered), doorClosed)
    /\ o \in RunStep(j)
    /\ itp' = o.itp /\ result' = o.result /\ pc' = LoopSeam(o.result)

LEMMA FitsLoaded ==
    ASSUME Fits(itp, fsm), fsm \in States
    PROVE  LET i == LoadPhaseData(itp) IN
           /\ i \in Itp /\ Here(i) /\ ~i.data.error
           /\ i.status.sub = itp.status.sub
           /\ fsm \in Running => Runs(i) /\ MainOf(i) = MainOf(itp)
           /\ fsm \in Pausing => MacroRuns(i.data, PauseMacro)
                                    /\ Leaves(i, itp)
           /\ fsm \notin Running \cup Pausing
                => MacroRuns(i.data, MacroOf(fsm)) /\ Leaves(i, itp)
  <1> DEFINE i == LoadPhaseData(itp)
  <1>1. itp \in Itp
    BY FitsFacts
  <1>2. CASE fsm \in Running
    <2>1. Runs(itp) /\ fsm \notin Pausing
      BY <1>2, FitsFacts
    <2>2. /\ i \in Itp /\ Runs(i) /\ Here(i)
          /\ i.status.sub = itp.status.sub /\ MainOf(i) = MainOf(itp)
      BY <1>1, <2>1, LoadsRunning
    <2> HIDE DEF i
    <2>3. ~i.data.error
      BY <2>2 DEF Runs, RunsHere
    <2>4. QED
      BY <1>2, <2>1, <2>2, <2>3 DEF i
  <1>3. ASSUME NEW c, MacroRuns(itp.data, c)
        PROVE  /\ i \in Itp /\ MacroRuns(i.data, c) /\ Leaves(i, itp)
               /\ Here(i) /\ ~i.data.error
               /\ i.status.sub = itp.status.sub
    <2>1. /\ i \in Itp /\ MacroRuns(i.data, c) /\ Leaves(i, itp)
          /\ Here(i)
      BY <1>1, <1>3, LoadsMacro
    <2> HIDE DEF i
    <2>2. QED
      BY <2>1 DEF MacroRuns, Leaves
  <1>4. CASE fsm \in Pausing
    <2>1. MacroRuns(itp.data, PauseMacro) /\ fsm \notin Running
      BY <1>4, FitsFacts DEF Pauses
    <2>2. QED
      BY <1>3, <1>4, <2>1
  <1>5. CASE fsm \notin Running \cup Pausing
    <2>1. MacroRuns(itp.data, MacroOf(fsm))
      BY <1>5, FitsFacts DEF Idles
    <2>2. QED
      BY <1>3, <1>5, <2>1
  <1>6. QED
    BY <1>2, <1>4, <1>5

\* The error outcome never comes up.
LEMMA RunIs ==
    ASSUME IInv, InterpreterRun
    PROVE  /\ \E i, j, o : RunOf(i, j, o)
           /\ pc \in {"tasks", "loop"} /\ requested' = NoRequest
           /\ steps' = steps + 1 /\ UNCHANGED <<fsm, doorClosed>>
  <1> DEFINE i == LoadPhaseData(itp)
  <1>1. Fits(itp, fsm) /\ fsm \in States
    BY DEF IInv, SeamsOK
  <1>2. ~i.data.error
    BY <1>1, FitsLoaded
  <1>3. PICK o \in RunOutcomes(i) :
           itp' = o.itp /\ result' = o.result /\ pc' = LoopSeam(o.result)
    BY <1>2 DEF InterpreterRun
  <1> HIDE DEF i
  <1>4. PICK triggered \in SUBSET Conditional :
           o \in RunStep(CheckForSubCycle(i, GetActive(i.status.sub,
                                    requested, triggered), doorClosed))
    BY <1>3 DEF RunOutcomes
  <1>5. RunOf(i, CheckForSubCycle(i, GetActive(i.status.sub, requested,
                                               triggered), doorClosed), o)
    BY <1>3, <1>4 DEF RunOf, i
  <1>6. /\ pc \in {"tasks", "loop"} /\ requested' = NoRequest
        /\ steps' = steps + 1 /\ UNCHANGED <<fsm, doorClosed>>
    BY DEF InterpreterRun
  <1>7. QED
    BY <1>5, <1>6, Zenon

\* What a run comes to while a cycle runs, and the sub-cycle it looked for.
LEMMA RunOfRunning ==
    ASSUME IInv, fsm \in Running, NEW i, NEW j, NEW o, RunOf(i, j, o)
    PROVE  /\ RunsOn(o, j) /\ j \in Itp /\ Runs(j)
           /\ i.status.sub = itp.status.sub
           /\ MainOf(j) = MainOf(itp)
           /\ \E triggered \in SUBSET Conditional :
                LET sub == GetActive(itp.status.sub, requested, triggered)
                IN  /\ sub \in SubCycleIds \cup {NoCycle}
                    /\ \/ j.status.sub = itp.status.sub
                       \/ j.status.sub = sub /\ sub # NoCycle
                    /\ doorClosed /\ sub # NoCycle => j.status.sub = sub
  <1>1. Fits(itp, fsm) /\ fsm \in States /\ i = LoadPhaseData(itp)
    BY DEF IInv, SeamsOK, RunOf
  <1>2. /\ i \in Itp /\ Runs(i) /\ Here(i) /\ MainOf(i) = MainOf(itp)
        /\ i.status.sub = itp.status.sub
    BY <1>1, FitsLoaded
  <1>3. PICK triggered \in SUBSET Conditional :
           j = CheckForSubCycle(i, GetActive(i.status.sub, requested,
                                             triggered), doorClosed)
    BY DEF RunOf
  <1> DEFINE sub == GetActive(i.status.sub, requested, triggered)
  <1>4. sub \in SubCycleIds \cup {NoCycle}
    BY Active DEF SubCycleIds
  <1>5. j = CheckForSubCycle(i, sub, doorClosed)
    BY <1>3
  <1>6. sub = GetActive(itp.status.sub, requested, triggered)
    BY <1>2
  <1> HIDE DEF sub
  <1>7. /\ j \in Itp /\ Runs(j) /\ Here(j) /\ MainOf(j) = MainOf(i)
        /\ \/ j.status.sub = i.status.sub
           \/ j.status.sub = sub /\ sub # NoCycle
        /\ doorClosed /\ sub # NoCycle => j.status.sub = sub
    <2> DEFINE k == CheckForSubCycle(i, sub, doorClosed)
    <2>1. Runs(i) /\ Here(i)
            => /\ k \in Itp /\ Runs(k) /\ Here(k)
               /\ MainOf(k) = MainOf(i)
               /\ \/ k.status.sub = i.status.sub
                  \/ k.status.sub = sub /\ sub # NoCycle
               /\ doorClosed /\ sub # NoCycle => k.status.sub = sub
      BY <1>2, <1>4, Checks
    <2> HIDE DEF k
    <2>2. j = k
      BY <1>5 DEF k
    <2>3. QED
      BY <1>2, <2>1, <2>2, Zenon
  <1>8. RunsOn(o, j)
    BY <1>7, RunStepRunning DEF RunOf
  <1>9. /\ \/ j.status.sub = itp.status.sub
           \/ j.status.sub = sub /\ sub # NoCycle
    BY <1>2, <1>7
  <1>10. MainOf(j) = MainOf(itp)
    BY <1>2, <1>7
  <1>11. QED
    BY <1>2, <1>4, <1>6, <1>7, <1>8, <1>9, <1>10, Zenon

LEMMA RunOfMacro ==
    ASSUME IInv, NEW i, NEW j, NEW o, RunOf(i, j, o),
           NEW c \in Macros, MacroRuns(i.data, c), i \in Itp, Here(i)
    PROVE  MacroOn(o, i, c)
  <1>1. i.data.state # "run"
    BY DEF MacroRuns, Heading, Macros
  <1>2. PICK triggered \in SUBSET Conditional :
           j = CheckForSubCycle(i, GetActive(i.status.sub, requested,
                                             triggered), doorClosed)
    BY DEF RunOf
  <1>3. j = i
    BY <1>1, <1>2 DEF CheckForSubCycle
  <1>4. QED
    BY <1>3, RunStepMacro DEF RunOf

LEMMA PriorityFacts ==
    /\ \A p \in DOMAIN SubCycles : PriorityOf(SubCycles[p]) = p
    /\ \A c \in SubCycleIds : /\ PriorityOf(c) \in DOMAIN SubCycles
                              /\ SubCycles[PriorityOf(c)] = c
    /\ DOMAIN SubCycles = 1 .. NoRequest - 1 /\ NoRequest \in Nat \ {0}
  <1>1. /\ DOMAIN SubCycles = 1 .. Len(SubCycles)
        /\ Len(SubCycles) \in Nat
    BY ProgramAssumption DEF ProgramAssumption
  <1>2. \A p, q \in DOMAIN SubCycles : SubCycles[p] = SubCycles[q] => p = q
    BY ProgramAssumption, Zenon DEF ProgramAssumption
  <1>3. \A c \in SubCycleIds : /\ PriorityOf(c) \in DOMAIN SubCycles
                               /\ SubCycles[PriorityOf(c)] = c
    BY DEF PriorityOf, SubCycleIds
  <1>4. \A p \in DOMAIN SubCycles : PriorityOf(SubCycles[p]) = p
    BY <1>2, <1>3 DEF SubCycleIds
  <1>5. QED
    BY <1>1, <1>3, <1>4 DEF NoRequest

\* What OnlyHigherPreempts says of a step.
Preempts ==
    itp.status.sub # itp'.status.sub
       /\ NoCycle \notin {itp.status.sub, itp'.status.sub}
       => PriorityOf(itp'.status.sub) < PriorityOf(itp.status.sub)

LEMMA RunsTheInterpreter ==
    ASSUME IInv, InterpreterRun
    PROVE  IInv' /\ KeptStep /\ Preempts
  <1>1. /\ pc \in {"tasks", "loop"} /\ requested' = NoRequest
        /\ steps' = steps + 1 /\ UNCHANGED <<fsm, doorClosed>>
        /\ \E i, j, o : RunOf(i, j, o)
    BY RunIs
  <1>2. PICK i, j, o : RunOf(i, j, o)
    BY <1>1
  <1>3. /\ Fits(itp, fsm) /\ fsm \in States /\ SeamsOK
        /\ i = LoadPhaseData(itp) /\ itp' = o.itp /\ result' = o.result
        /\ pc' = LoopSeam(o.result)
        /\ itp \in Itp
    BY <1>2, FitsFacts DEF IInv, SeamsOK, RunOf
  <1>4. /\ pc' \in {"loop", "machine"}
        /\ pc' = "loop" => steps' < MaxSteps
        /\ result' = "end_cycle" => pc' = "machine"
    BY <1>1, <1>3 DEF LoopSeam, GoesOn
  <1>5. steps' \in 0 .. MaxSteps /\ requested' \in 1 .. NoRequest
    <2>1. steps \in 0 .. MaxSteps /\ steps < MaxSteps
      BY <1>1, <1>3, UseAssumption DEF SeamsOK, UseAssumption
    <2>2. MaxSteps \in Nat
      BY UseAssumption DEF UseAssumption
    <2>3. steps' \in 0 .. MaxSteps
      BY <1>1, <2>1, <2>2
    <2>4. QED
      BY <1>1, <2>3, PriorityFacts
  <1>6. result' \in Results => SeamsOK'
    BY <1>1, <1>3, <1>4, <1>5 DEF SeamsOK, NoRequest
  <1>7. CASE fsm \in Running
    <2>1. /\ RunsOn(o, j) /\ j \in Itp /\ Runs(j)
          /\ MainOf(j) = MainOf(itp)
      BY <1>2, <1>7, RunOfRunning
    <2>2. PICK triggered \in SUBSET Conditional :
             LET sub == GetActive(itp.status.sub, requested, triggered)
             IN  /\ sub \in SubCycleIds \cup {NoCycle}
                 /\ \/ j.status.sub = itp.status.sub
                    \/ j.status.sub = sub /\ sub # NoCycle
      BY <1>2, <1>7, RunOfRunning, Zenon
    <2> DEFINE sub == GetActive(itp.status.sub, requested, triggered)
    <2>3. \/ j.status.sub = itp.status.sub
          \/ j.status.sub = sub /\ sub # NoCycle
      BY <2>2
    <2>4. \/ sub = NoCycle
          \/ \E p \in DOMAIN SubCycles :
                /\ sub = SubCycles[p]
                /\ \A q \in DOMAIN SubCycles :
                      SubCycles[q] = itp.status.sub => p <= q
      BY Active
    <2> HIDE DEF sub
    <2>5. itp' \in Itp /\ Runs(itp') /\ result' \in Results
          /\ (Here(itp') \/ result' = "end_cycle")
          /\ Went(itp', j)
      BY <1>3, <2>1 DEF RunsOn
    <2>6. Fits(itp', fsm')
      BY <1>1, <1>7, <2>5 DEF Fits, Running, Pausing
    <2>7. LoadedOK'
      BY <1>1, <1>4, <1>7, <2>5 DEF LoadedOK
    <2>8. Runs(itp) /\ j.status.sub \in SubCycleIds \cup {NoCycle}
          /\ itp.status.sub \in SubCycleIds \cup {NoCycle}
      BY <1>3, <1>7, <2>1, FitsFacts DEF Itp, Status
    <2>9. KeptStep
      BY <1>1, <1>3, <1>7, <2>1, <2>3, <2>5, <2>8, MovesOn
    <2>10. Preempts
      <3>1. SUFFICES ASSUME itp.status.sub # itp'.status.sub,
                            itp.status.sub # NoCycle,
                            itp'.status.sub # NoCycle
                     PROVE  PriorityOf(itp'.status.sub)
                               < PriorityOf(itp.status.sub)
        BY DEF Preempts
      <3>2. itp'.status.sub = sub /\ sub # NoCycle
        BY <2>3, <2>5, <3>1 DEF Went
      <3>3. PICK p \in DOMAIN SubCycles :
               /\ sub = SubCycles[p]
               /\ \A q \in DOMAIN SubCycles :
                     SubCycles[q] = itp.status.sub => p <= q
        BY <2>4, <3>2
      <3> DEFINE q == PriorityOf(itp.status.sub)
      <3>4. q \in DOMAIN SubCycles /\ SubCycles[q] = itp.status.sub
        BY <2>8, <3>1, PriorityFacts
      <3> HIDE DEF q
      <3>5. p <= q /\ p # q /\ PriorityOf(sub) = p
        BY <3>1, <3>2, <3>3, <3>4, PriorityFacts
      <3>6. p \in Nat /\ q \in Nat
        BY <3>4, PriorityFacts
      <3>7. QED
        BY <3>2, <3>5, <3>6 DEF q
    <2>11. QED
      BY <1>6, <2>5, <2>6, <2>7, <2>9, <2>10 DEF IInv
  <1>8. ASSUME fsm \notin Running, NEW c \in Macros, MacroRuns(i.data, c),
               Leaves(i, itp), i \in Itp, Here(i)
        PROVE  /\ itp' \in Itp /\ MacroRuns(itp'.data, c)
               /\ Leaves(itp', itp)
               /\ SeamsOK' /\ LoadedOK' /\ Preempts
    <2>1. MacroOn(o, i, c)
      BY <1>2, <1>8, RunOfMacro
    <2>2. /\ itp' \in Itp /\ MacroRuns(itp'.data, c)
          /\ Leaves(itp', itp) /\ Here(itp') /\ result' \in Results
      BY <1>3, <1>8, <2>1 DEF MacroOn, Leaves
    <2>3. QED
      BY <1>6, <2>2 DEF LoadedOK, Preempts, Leaves
  <1>9. CASE fsm \in Pausing
    <2>1. PauseMacro \in Macros /\ fsm \notin Running
      BY <1>9 DEF Macros, Running, Pausing
    <2>2. /\ MacroRuns(i.data, PauseMacro) /\ Leaves(i, itp)
          /\ i \in Itp /\ Here(i)
      BY <1>3, <1>9, FitsLoaded
    <2>3. /\ itp' \in Itp /\ MacroRuns(itp'.data, PauseMacro)
          /\ Leaves(itp', itp)
          /\ SeamsOK' /\ LoadedOK' /\ Preempts
      BY <1>8, <2>1, <2>2
    <2>4. Pauses(itp)
      BY <1>3, <1>9, FitsFacts
    <2>5. Pauses(itp')
      BY <2>3, <2>4 DEF Pauses, Leaves, Keeps
    <2>6. Fits(itp', fsm')
      BY <1>1, <1>9, <2>3, <2>5 DEF Fits, Running, Pausing
    <2>7. MainPlace' = MainPlace /\ Level' = Level
      BY <1>1, <1>9, <2>3, <2>4, <2>5, Levels, LevelsNext
      DEF PausedMain, Leaves
    <2>8. QED
      BY <2>3, <2>6, <2>7 DEF IInv, KeptStep
  <1>10. CASE fsm \notin Running \cup Pausing
    <2>1. MacroOf(fsm) \in Macros /\ Idles(itp, MacroOf(fsm))
      BY <1>3, <1>10, FitsFacts
    <2>2. /\ MacroRuns(i.data, MacroOf(fsm)) /\ Leaves(i, itp)
          /\ i \in Itp /\ Here(i)
      BY <1>3, <1>10, FitsLoaded
    <2>3. /\ itp' \in Itp /\ MacroRuns(itp'.data, MacroOf(fsm))
          /\ Leaves(itp', itp)
          /\ SeamsOK' /\ LoadedOK' /\ Preempts
      BY <1>8, <1>10, <2>1, <2>2
    <2>4. Fits(itp', fsm')
      BY <1>1, <1>10, <2>1, <2>3 DEF Fits, Idles, Leaves
    <2>5. fsm' \notin Running \cup Pausing
      BY <1>1, <1>10
    <2>6. QED
      BY <2>3, <2>4, <2>5, Stops DEF IInv
  <1>11. QED
    BY <1>7, <1>9, <1>10

-----------------------------------------------------------------------------
(* The steps: the state machine.                                           *)

LEMMA InvFacts ==
    ASSUME IInv
    PROVE  /\ Fits(itp, fsm) /\ fsm \in States /\ itp \in Itp
           /\ fsm \in Running => Runs(itp)
           /\ fsm \in Pausing => Pauses(itp)
           /\ fsm \notin Running \cup Pausing
                => Idles(itp, MacroOf(fsm)) /\ MacroOf(fsm) \in Macros
           /\ requested \in 1 .. NoRequest
           /\ pc = "machine" /\ ~Ends => Here(itp)
  BY FitsFacts DEF IInv, SeamsOK, LoadedOK, Ends

\* The pass is over.
LEMMA EndsPass ==
    ASSUME IInv, PassDone, requested' \in 1 .. NoRequest,
           Lands, Here(itp'), SubLeft, KeptStep
    PROVE  Good
  <1>1. MaxSteps \in Nat
    BY UseAssumption DEF UseAssumption
  <1>2. SeamsOK'
    BY <1>1 DEF IInv, SeamsOK, PassDone, Lands, Results, NoRequest
  <1>3. QED
    BY <1>2 DEF Good, IInv, Lands, LoadedOK

\* An event in the middle of the state machine.
LEMMA TakesEvent ==
    ASSUME IInv, pc = "machine",
           UNCHANGED <<pc, result, steps, requested, doorClosed>>,
           Lands, Here(itp'), SubLeft, KeptStep
    PROVE  Good
  BY DEF Good, IInv, Lands, LoadedOK, SeamsOK, NoRequest

LEMMA CommandIsTaken ==
    ASSUME IInv, Command
    PROVE  Good
  <1>1. /\ pc = "machine"
        /\ UNCHANGED <<pc, result, steps, requested, doorClosed>>
    BY DEF Command
  <1>2. PICK sel \in Selections : EvReset(itp, sel) \/ EvEnd(sel)
    BY DEF Command
  <1>3. Fits(itp, fsm) /\ fsm \in States /\ itp \in Itp
    BY InvFacts
  <1>4. CASE EvEnd(sel)
    BY <1>1, <1>3, <1>4, EndsCycle, TakesEvent DEF SubLeft
  <1>5. CASE EvReset(itp, sel)
    <2>1. CASE /\ Lands /\ Here(itp') /\ KeptStep
               /\ itp'.status.sub = NoCycle
      BY <1>1, <2>1, TakesEvent DEF SubLeft
    <2>2. CASE fsm = "fault" /\ itp' = itp /\ fsm' = fsm
      <3>1. IInv' /\ SubLeft
        BY <1>1, <2>2
        DEF IInv, SeamsOK, LoadedOK, SubLeft, NoRequest
      <3>2. QED
        BY <2>2, <3>1, SameMain DEF Good
    <2>3. QED
      BY <1>3, <1>5, <2>1, <2>2, Resets
  <1>6. QED
    BY <1>2, <1>4, <1>5

LEMMA FaultIsTaken ==
    ASSUME IInv, TakeFault
    PROVE  Good
  <1>1. /\ pc = "machine" /\ fsm' = "fault"
        /\ UNCHANGED <<pc, result, steps, requested, doorClosed>>
        /\ itp' = ClearSubCycleStatus(
                      Configure(itp, Place(FaultMacro, 0, 0),
                                Heading(FaultMacro)))
    BY CycleFacts DEF TakeFault
  <1>2. itp' \in Itp /\ Idles(itp', FaultMacro) /\ Here(itp')
    BY <1>1, InvFacts, Starts
  <1>3. fsm' \notin Running \cup Pausing /\ fsm' \in States
    BY <1>1 DEF Running, Pausing, States
  <1>4. Lands
    BY <1>1, <1>2, <1>3 DEF Lands, Fits, MacroOf
  <1>5. QED
    BY <1>1, <1>2, <1>3, <1>4, Stops, TakesEvent DEF SubLeft, Idles

LEMMA NothingIsDone ==
    ASSUME IInv, NothingToDo
    PROVE  Good
  <1>1. PassDone /\ UNCHANGED <<fsm, itp, requested>> /\ Here(itp)
    BY InvFacts DEF NothingToDo
  <1>2. Lands /\ SubLeft /\ Here(itp') /\ requested' \in 1 .. NoRequest
    BY <1>1, InvFacts DEF Lands, SubLeft
  <1>3. QED
    BY <1>1, <1>2, SameMain, EndsPass

LEMMA CycleStarts ==
    ASSUME IInv, ProgrammingStarts
    PROVE  Good
  <1>1. /\ fsm = "programming" /\ fsm' = "run" /\ PassDone
        /\ requested' = requested
        /\ \E c \in MainCycles : itp' = Configure(itp, Place(c, 0, 0), "run")
    BY DEF ProgrammingStarts
  <1>2. PICK c \in MainCycles : itp' = Configure(itp, Place(c, 0, 0), "run")
    BY <1>1
  <1>3. itp \in Itp /\ itp.status.sub = NoCycle
    BY <1>1, InvFacts DEF Idles, Running, Pausing
  <1>4. c \in RunCycles /\ c \notin SubCycleIds
    BY CycleFacts
  <1>5. /\ itp' \in Itp /\ Runs(itp') /\ Here(itp')
        /\ itp'.data.at = Place(c, 0, 0) /\ itp'.status.sub = NoCycle
    BY <1>2, <1>3, <1>4, StartsRun
  <1>6. Lands /\ SubLeft /\ requested' \in 1 .. NoRequest
    BY <1>1, <1>5, InvFacts
    DEF Lands, Fits, Running, Pausing, States, SubLeft
  <1>7. KeptStep
    <2>1. Level = "idle"
      BY <1>1, Levels DEF Running, Pausing
    <2>2. Level' = "main" /\ MainPlace' = Place(c, 0, 0)
      BY <1>1, <1>5, LevelsNext DEF Running, MainOf
    <2>3. Place(c, 0, 0) \in FirstPlaces
      BY DEF FirstPlaces
    <2>4. QED
      BY <2>1, <2>2, <2>3 DEF KeptStep, Kept!Next, Kept!Start
  <1>8. QED
    BY <1>1, <1>5, <1>6, <1>7, EndsPass

LEMMA FaultIsDone ==
    ASSUME IInv, FaultDo
    PROVE  Good
  <1>1. PassDone /\ requested' = requested
    BY DEF FaultDo
  <1>2. PICK sel \in Selections : EnterProgramming(itp, sel)
    BY DEF FaultDo
  <1>3. /\ Lands /\ Here(itp') /\ KeptStep /\ itp'.status.sub = NoCycle
    BY <1>2, InvFacts, EntersProgramming
  <1>4. QED
    BY <1>1, <1>3, InvFacts, EndsPass DEF SubLeft

LEMMA PauseIsOver ==
    ASSUME IInv, PauseResumes
    PROVE  Good
  <1> DEFINE r == Resume(RestoreFromPauseResumeData(itp))
  <1>1. /\ fsm \in Pausing /\ fsm' \in Running /\ fsm' \in States
        /\ PassDone /\ (CycleResume(r) \/ (itp' = r /\ UNCHANGED requested))
    BY DEF PauseResumes, Running, States
  <1>2. Pauses(itp) /\ itp \in Itp
    BY <1>1, InvFacts
  <1>3. /\ r \in Itp /\ Runs(r) /\ Here(r)
        /\ r.data.at = itp.pauseData.at /\ r.subData = itp.subData
        /\ r.status.sub = itp.status.sub
    BY <1>2, LeavesPause
  <1> HIDE DEF r
  <1>4. requested' \in 1 .. NoRequest
    <2>1. requested \in 1 .. NoRequest
          /\ ResumePriority \in {0} \cup DOMAIN SubCycles
          /\ DOMAIN SubCycles = 1 .. NoRequest - 1
          /\ NoRequest \in Nat \ {0}
      BY InvFacts, PriorityFacts, UseAssumption DEF UseAssumption
    <2>2. \/ requested' = requested
          \/ requested' = ResumePriority /\ ResumePriority # 0
      BY <1>1 DEF CycleResume
    <2>3. QED
      BY <2>1, <2>2
  <1>5. \/ itp' = r
        \/ itp' = TerminateSubCycle(r)
    BY <1>1 DEF CycleResume
  <1>6. /\ Level = IF itp.status.sub = NoCycle THEN "paused"
                                               ELSE "paused_sub"
        /\ MainPlace = PausedMain(itp)
        /\ Level' = IF itp'.status.sub = NoCycle THEN "main" ELSE "sub"
        /\ MainPlace' = MainOf(itp')
    BY <1>1, <1>2, Levels, LevelsNext
  <1>7. CASE itp' = r
    <2>1. Lands /\ SubLeft
      BY <1>1, <1>3, <1>7
      DEF Lands, Fits, SubLeft, Running, Pausing
    <2>2. MainPlace' = MainPlace
      BY <1>3, <1>6, <1>7 DEF MainOf, PausedMain
    <2>3. KeptStep
      BY <1>3, <1>6, <1>7, <2>2 DEF KeptStep, Kept!Next, Kept!Resume
    <2>4. QED
      BY <1>1, <1>3, <1>4, <1>7, <2>1, <2>3, EndsPass
  <1>8. CASE itp' = TerminateSubCycle(r) /\ r.status.sub # NoCycle
    <2>1. /\ itp' \in Itp /\ Runs(itp') /\ Here(itp')
          /\ itp'.status.sub = NoCycle /\ itp'.data.at = r.subData.at
      BY <1>3, <1>8, TerminatesRunning
    <2>2. Lands /\ SubLeft
      BY <1>1, <2>1 DEF Lands, Fits, SubLeft, Running, Pausing
    <2>3. MainPlace' = MainPlace
      BY <1>3, <1>6, <1>8, <2>1 DEF MainOf, PausedMain
    <2>4. KeptStep
      BY <1>3, <1>6, <1>8, <2>1, <2>3
      DEF KeptStep, Kept!Next, Kept!ResumeDropping
    <2>5. QED
      BY <1>1, <1>4, <2>1, <2>2, <2>4, EndsPass
  <1>9. CASE itp' = TerminateSubCycle(r) /\ r.status.sub = NoCycle
    BY <1>3, <1>7, <1>9, TerminatesRunning
  <1>10. QED
    BY <1>5, <1>7, <1>8, <1>9

LEMMA RunIsOver ==
    ASSUME IInv, RunEnds
    PROVE  Good
  <1>1. PassDone /\ requested' = requested
    BY DEF RunEnds
  <1>2. PICK sel \in Selections : EvEnd(sel)
    BY DEF RunEnds
  <1>3. /\ Lands /\ Here(itp') /\ KeptStep /\ itp'.status.sub = NoCycle
    BY <1>2, InvFacts, EndsCycle
  <1>4. QED
    BY <1>1, <1>3, InvFacts, EndsPass DEF SubLeft

LEMMA RunIsReset ==
    ASSUME IInv, RunEndsInReset
    PROVE  Good
  <1>1. PassDone /\ requested' = requested /\ fsm \in Running
    BY DEF RunEndsInReset
  <1>2. PICK sel \in Selections : EvReset(itp, sel)
    BY DEF RunEndsInReset
  <1>3. /\ Lands /\ Here(itp') /\ KeptStep /\ itp'.status.sub = NoCycle
    BY <1>1, <1>2, InvFacts, Resets DEF Running
  <1>4. QED
    BY <1>1, <1>3, InvFacts, EndsPass DEF SubLeft

LEMMA RunIsPaused ==
    ASSUME IInv, RunPauses
    PROVE  Good
  <1>1. PassDone /\ requested' = requested /\ fsm \in Running /\ EvPause(itp)
    BY DEF RunPauses
  <1>2. /\ Lands /\ Here(itp') /\ KeptStep
        /\ itp'.status.sub = itp.status.sub
    BY <1>1, InvFacts, PausesRunning
  <1>3. QED
    BY <1>1, <1>2, InvFacts, EndsPass DEF SubLeft

LEMMA RunGoesToPhase ==
    ASSUME IInv, NEW phase \in PhaseRequests, RunSetsPhase(phase)
    PROVE  Good
  <1>1. /\ Advances /\ PassDone /\ requested' = requested
        /\ fsm \in Running
        /\ \/ \E sel \in Selections : EvEnd(sel)
           \/ itp' = SetPhase(itp, phase) /\ fsm' = fsm
    BY DEF RunSetsPhase, Advances
  <1>2. CASE \E sel \in Selections : EvEnd(sel)
    <2>1. /\ Lands /\ Here(itp') /\ KeptStep /\ itp'.status.sub = NoCycle
      BY <1>2, InvFacts, EndsCycle
    <2>2. QED
      BY <1>1, <2>1, InvFacts, EndsPass DEF SubLeft
  <1>3. CASE itp' = SetPhase(itp, phase) /\ fsm' = fsm
    <2>1. /\ itp \in Itp /\ Runs(itp) /\ Here(itp) /\ Known(itp)
          /\ phase \in 0 .. 127 \cup {Forward, Backward}
      BY <1>1, InvFacts, RequestTypes DEF Advances, Known
    <2>2. /\ itp' \in Itp /\ Runs(itp') /\ Here(itp')
          /\ itp'.status.sub = itp.status.sub /\ itp'.subData = itp.subData
          /\ itp'.data.at.cycle = itp.data.at.cycle
      BY <1>3, <2>1, SetsPhase
    <2>3. Lands /\ SubLeft /\ KeptStep
      BY <1>1, <1>3, <2>1, <2>2, MovesWithin
    <2>4. QED
      BY <1>1, <2>2, <2>3, InvFacts, EndsPass
  <1>4. QED
    BY <1>1, <1>2, <1>3

LEMMA RunGoesToStep ==
    ASSUME IInv, NEW step \in StepRequests, RunSetsStep(step)
    PROVE  Good
  <1>1. /\ Advances /\ PassDone /\ requested' = requested
        /\ fsm \in Running
        /\ \/ \E sel \in Selections : EvEnd(sel)
           \/ itp' = SetStep(itp, step) /\ fsm' = fsm
    BY DEF RunSetsStep, Advances
  <1>2. CASE \E sel \in Selections : EvEnd(sel)
    <2>1. /\ Lands /\ Here(itp') /\ KeptStep /\ itp'.status.sub = NoCycle
      BY <1>2, InvFacts, EndsCycle
    <2>2. QED
      BY <1>1, <2>1, InvFacts, EndsPass DEF SubLeft
  <1>3. CASE itp' = SetStep(itp, step) /\ fsm' = fsm
    <2>1. /\ itp \in Itp /\ Runs(itp) /\ Here(itp)
          /\ step \in 0 .. 127 \cup {Forward, Backward}
      BY <1>1, InvFacts, RequestTypes DEF Advances
    <2>2. /\ itp' \in Itp /\ Runs(itp') /\ Here(itp')
          /\ itp'.status.sub = itp.status.sub /\ itp'.subData = itp.subData
          /\ itp'.data.at.cycle = itp.data.at.cycle
      BY <1>3, <2>1, SetsStep
    <2>3. Lands /\ SubLeft /\ KeptStep
      BY <1>1, <1>3, <2>1, <2>2, MovesWithin
    <2>4. QED
      BY <1>1, <2>2, <2>3, InvFacts, EndsPass
  <1>4. QED
    BY <1>1, <1>2, <1>3

-----------------------------------------------------------------------------
(* The steps: the power comes back.                                        *)

\* The data are those of before, the phase data are lost.
LEMMA Recovers ==
    ASSUME itp \in Itp
    PROVE  /\ Restored \in Itp /\ Restored.loaded = NothingLoaded
           /\ Restored.data = itp.data /\ Restored.status = itp.status
           /\ Restored.subData = itp.subData
           /\ Restored.subStatus = itp.subStatus
           /\ Restored.pauseData = itp.pauseData
           /\ Restored.pauseStatus = itp.pauseStatus
           /\ Restored.mainPhases = itp.mainPhases
           /\ Runs(itp) => Runs(Restored)
           /\ Pauses(itp) => Pauses(Restored)
           /\ \A c : Idles(itp, c) => Idles(Restored, c)
  <1> DEFINE r == Restored
  <1>1. NothingLoaded \in [phases : Nat, steps : Nat]
    BY DEF NothingLoaded
  <1>2. /\ r \in Itp /\ r.loaded = NothingLoaded
        /\ r.data = itp.data /\ r.status = itp.status
        /\ r.subData = itp.subData /\ r.subStatus = itp.subStatus
        /\ r.pauseData = itp.pauseData /\ r.pauseStatus = itp.pauseStatus
        /\ r.mainPhases = itp.mainPhases
    BY <1>1 DEF Restored, Itp
  <1> HIDE DEF r
  <1>3. Keeps(itp) => Keeps(r)
    BY <1>2 DEF Keeps
  <1>4. /\ Runs(itp) => Runs(r)
        /\ Pauses(itp) => Pauses(r)
        /\ \A c : Idles(itp, c) => Idles(r, c)
    BY <1>2, <1>3 DEF Runs, Pauses, Idles
  <1>5. QED
    BY <1>2, <1>4 DEF r

\* A reset ends between two passes, the phase loaded or lost.
LEMMA EndsReset ==
    ASSUME IInv, ColdReset, Lands, SubLeft, KeptStep,
           Here(itp') \/ itp'.loaded = NothingLoaded
    PROVE  Good
  <1>1. SeamsOK'
    BY PriorityFacts DEF IInv, SeamsOK, ColdReset, Lands, NoRequest
  <1>2. QED
    BY <1>1 DEF Good, IInv, Lands, LoadedOK, ColdReset

LEMMA ResetCancels ==
    ASSUME IInv, ColdResetCancels
    PROVE  Good
  <1>1. ColdReset /\ fsm # "fault"
    BY DEF ColdResetCancels
  <1>2. PICK sel \in Selections : EvReset(Restored, sel)
    BY DEF ColdResetCancels
  <1>3. Restored \in Itp
    BY InvFacts, Recovers
  <1>4. /\ Lands /\ Here(itp') /\ KeptStep /\ itp'.status.sub = NoCycle
    BY <1>1, <1>2, <1>3, InvFacts, Resets
  <1>5. QED
    BY <1>1, <1>4, EndsReset DEF SubLeft

LEMMA ResetPauses ==
    ASSUME IInv, ColdResetPauses
    PROVE  Good
  <1>1. ColdReset /\ fsm \in Running /\ EvPause(Restored)
    BY DEF ColdResetPauses
  <1>2. /\ Restored \in Itp /\ Runs(Restored) /\ Runs(itp)
        /\ Restored.data = itp.data /\ Restored.status = itp.status
        /\ Restored.subData = itp.subData
    BY <1>1, InvFacts, Recovers
  <1>3. /\ Lands /\ Here(itp') /\ KeptStep
        /\ itp'.status.sub = itp.status.sub
    BY <1>1, <1>2, PausesRunning
  <1>4. QED
    BY <1>1, <1>3, EndsReset DEF SubLeft

\* Nothing has changed but the phase data, or a step of the same cycle of a
\* state was configured.
LEMMA SameState ==
    ASSUME IInv, fsm' = fsm, itp' \in Itp,
           itp'.status.sub = itp.status.sub, itp'.subData = itp.subData,
           itp'.pauseData = itp.pauseData,
           fsm \in Running => Runs(itp') /\ itp'.data.at = itp.data.at,
           fsm \in Pausing => Pauses(itp'),
           fsm \notin Running \cup Pausing => Idles(itp', MacroOf(fsm))
    PROVE  Lands /\ SubLeft /\ KeptStep
  <1>1. Lands
    BY InvFacts DEF Lands, Fits, Running, Pausing
  <1>2. MainPlace' = MainPlace /\ Level' = Level
    <2>1. CASE fsm \in Running
      BY <2>1, Levels, LevelsNext DEF MainOf
    <2>2. CASE fsm \in Pausing
      BY <2>2, InvFacts, Levels, LevelsNext DEF PausedMain
    <2>3. CASE fsm \notin Running \cup Pausing
      BY <2>3, Levels, LevelsNext
    <2>4. QED
      BY <2>1, <2>2, <2>3
  <1>3. QED
    BY <1>1, <1>2 DEF SubLeft, KeptStep

LEMMA ResetResumes ==
    ASSUME IInv, ColdResetResumes
    PROVE  Good
  <1>1. ColdReset /\ itp' = Restored /\ fsm' = fsm
    BY DEF ColdResetResumes
  <1>2. /\ itp' \in Itp /\ itp'.loaded = NothingLoaded
        /\ itp'.data = itp.data /\ itp'.status = itp.status
        /\ itp'.subData = itp.subData /\ itp'.pauseData = itp.pauseData
        /\ Runs(itp) => Runs(itp')
        /\ Pauses(itp) => Pauses(itp')
        /\ \A c : Idles(itp, c) => Idles(itp', c)
    BY <1>1, InvFacts, Recovers
  <1>3. Lands /\ SubLeft /\ KeptStep
    BY <1>1, <1>2, InvFacts, SameState
  <1>4. QED
    BY <1>1, <1>2, <1>3, EndsReset

\* The cycle of a state is configured again.
LEMMA RestartsMacro ==
    ASSUME NEW i \in Itp, NEW c \in Macros, MacroRuns(i.data, c), Keeps(i),
           NEW p \in DOMAIN Program[c]
    PROVE  LET j == Configure(i, Place(c, p, 0), Heading(c)) IN
           /\ j \in Itp /\ MacroRuns(j.data, c) /\ Leaves(j, i) /\ Here(j)
  <1> DEFINE j == Configure(i, Place(c, p, 0), Heading(c))
             to == ConfiguredAt(i, Place(c, p, 0), Heading(c))
  <1>1. c \in Cycles /\ Heading(c) \in CycleStates
    BY CycleFacts DEF Macros, CycleStates
  <1>2. to \in Places /\ to.cycle = c
    <2>1. CASE Heading(c) = "pause" /\ i.status.sub # NoCycle
      <3>1. /\ i.subData.at.cycle \in RunCycles
            /\ i.subData.at.cycle \notin SubCycleIds
        BY <2>1 DEF Keeps, RunsHere, Suits
      <3>2. i.subData.at.cycle \in DOMAIN Program[c]
        BY <3>1, PhaseFacts DEF RunCycles
      <3>3. to = Place(c, i.subData.at.cycle, 0)
        BY <2>1 DEF ConfiguredAt, ConfiguredPhase, Place
      <3>4. QED
        BY <1>1, <3>2, <3>3, FirstPlaceIn DEF Place
    <2>2. CASE ~(Heading(c) = "pause" /\ i.status.sub # NoCycle)
      <3>1. to = Place(c, p, 0)
        BY <2>2 DEF ConfiguredAt, ConfiguredPhase, Place
      <3>2. QED
        BY <1>1, <3>1, FirstPlaceIn DEF Place
    <2>3. QED
      BY <2>1, <2>2
  <1> HIDE DEF to
  <1>3. /\ j \in Itp /\ j.data.at = to /\ j.data.state = Heading(c)
        /\ ~j.data.error /\ Leaves(j, i) /\ Here(j)
    BY <1>1, <1>2, Configures DEF Leaves, to
  <1> HIDE DEF j
  <1>4. QED
    BY <1>2, <1>3 DEF MacroRuns, j

LEMMA ResetRestarts ==
    ASSUME IInv, ColdResetRestarts
    PROVE  Good
  <1> DEFINE c == itp.data.at.cycle
             p == IF ResetBehavior = "restart_phase" \/ OfAnotherCycle
                  THEN itp.data.at.phase ELSE 0
  <1>1. /\ ColdReset /\ fsm' = fsm
        /\ itp' = Configure(Restored, Place(c, p, 0), Heading(c))
    BY DEF ColdResetRestarts
  <1>2. /\ Restored \in Itp /\ Restored.data = itp.data
        /\ Restored.status = itp.status
        /\ Restored.subData = itp.subData
        /\ Restored.pauseData = itp.pauseData
        /\ Restored.pauseStatus = itp.pauseStatus
        /\ Runs(itp) => Runs(Restored)
        /\ Pauses(itp) => Pauses(Restored)
        /\ \A d : Idles(itp, d) => Idles(Restored, d)
    BY InvFacts, Recovers
  <1>3. /\ itp.data.at \in Places /\ c \in Cycles
        /\ itp.data.at.phase \in DOMAIN Program[c]
        /\ 0 \in DOMAIN Program[c]
    <2>1. itp.data.at \in Places
      BY InvFacts DEF Runs, RunsHere, Pauses, Idles, MacroRuns
    <2>2. QED
      BY <2>1, PlaceFacts, PhaseFacts
  <1>4. p \in DOMAIN Program[c]
    BY <1>3
  <1> HIDE DEF p
  <1>5. CASE fsm \in Running
    <2>1. Runs(itp) /\ Runs(Restored) /\ itp \in Itp
      BY <1>2, <1>5, InvFacts
    <2>2. Heading(c) = Restored.data.state
      BY <1>2, <2>1, CycleFacts DEF Runs, RunsHere
    <2>3. Place(c, p, 0) \in Places
      BY <1>3, <1>4, FirstPlaceIn
    <2>4. Place(c, p, 0).cycle = Restored.data.at.cycle
      BY <1>2 DEF Place
    <2>5. /\ itp' \in Itp /\ Runs(itp') /\ Here(itp')
          /\ itp'.status.sub = itp.status.sub
          /\ itp'.data.at = Place(c, p, 0) /\ itp'.subData = itp.subData
      BY <1>1, <1>2, <2>1, <2>2, <2>3, <2>4, Reconfigures
    <2>6. itp'.data.at.cycle = itp.data.at.cycle
      BY <2>5 DEF Place
    <2>7. Lands /\ SubLeft /\ KeptStep
      BY <1>1, <1>5, <2>1, <2>5, <2>6, MovesWithin
    <2>8. QED
      BY <1>1, <2>5, <2>7, EndsReset
  <1>6. ASSUME fsm \notin Running, NEW d \in Macros,
               MacroRuns(Restored.data, d), Keeps(Restored)
        PROVE  /\ itp' \in Itp /\ MacroRuns(itp'.data, d)
               /\ Leaves(itp', Restored) /\ Here(itp')
    <2>1. c = d
      BY <1>2, <1>6 DEF MacroRuns
    <2>2. QED
      BY <1>1, <1>2, <1>4, <1>6, <2>1, RestartsMacro
  <1>7. CASE fsm \in Pausing
    <2>1. Pauses(Restored) /\ PauseMacro \in Macros /\ fsm \notin Running
      BY <1>2, <1>7, InvFacts DEF Macros, Running, Pausing
    <2>2. /\ itp' \in Itp /\ MacroRuns(itp'.data, PauseMacro)
          /\ Leaves(itp', Restored) /\ Here(itp')
      BY <1>6, <2>1 DEF Pauses
    <2>3. Pauses(itp')
      BY <2>1, <2>2 DEF Pauses, Leaves, Keeps
    <2>4. /\ itp'.status.sub = itp.status.sub
          /\ itp'.subData = itp.subData /\ itp'.pauseData = itp.pauseData
      BY <1>2, <2>2 DEF Leaves
    <2>5. Lands /\ SubLeft /\ KeptStep
      BY <1>1, <1>7, <2>1, <2>2, <2>3, <2>4, SameState
    <2>6. QED
      BY <1>1, <2>2, <2>5, EndsReset
  <1>8. CASE fsm \notin Running \cup Pausing
    <2>1. /\ Idles(Restored, MacroOf(fsm)) /\ MacroOf(fsm) \in Macros
          /\ fsm \notin Running /\ fsm \notin Pausing
      BY <1>2, <1>8, InvFacts
    <2>2. /\ itp' \in Itp /\ MacroRuns(itp'.data, MacroOf(fsm))
          /\ Leaves(itp', Restored) /\ Here(itp')
      BY <1>6, <2>1 DEF Idles, Keeps
    <2>3. Idles(itp', MacroOf(fsm))
      BY <2>1, <2>2 DEF Idles, Leaves
    <2>4. /\ itp'.status.sub = itp.status.sub
          /\ itp'.subData = itp.subData /\ itp'.pauseData = itp.pauseData
      BY <1>2, <2>2 DEF Leaves
    <2>5. Lands /\ SubLeft /\ KeptStep
      BY <1>1, <2>1, <2>2, <2>3, <2>4, SameState
    <2>6. QED
      BY <1>1, <2>2, <2>5, EndsReset
  <1>9. QED
    BY <1>5, <1>7, <1>8

LEMMA ResetLeavesFault ==
    ASSUME IInv, ColdResetLeavesFault
    PROVE  Good
  <1>1. ColdReset
    BY DEF ColdResetLeavesFault
  <1>2. PICK sel \in Selections : EnterProgramming(Restored, sel)
    BY DEF ColdResetLeavesFault
  <1>3. Restored \in Itp
    BY InvFacts, Recovers
  <1>4. /\ Lands /\ Here(itp') /\ KeptStep /\ itp'.status.sub = NoCycle
    BY <1>2, <1>3, EntersProgramming
  <1>5. QED
    BY <1>1, <1>4, EndsReset DEF SubLeft

-----------------------------------------------------------------------------
(* A request for a sub-cycle.                                              *)

\* What RequestIsAnswered says of a step.
Answers ==
    /\ requested # NoRequest /\ requested' = NoRequest
    /\ pc' # "tasks" /\ fsm \in Running /\ doorClosed
    => \/ /\ itp'.status.sub # NoCycle
          /\ PriorityOf(itp'.status.sub) <= requested
       \/ result' \in {"end_sub_cycle", "end_cycle", "end_phase"}

LEMMA RunAnswers ==
    ASSUME IInv, InterpreterRun
    PROVE  Answers
  <1> SUFFICES ASSUME requested # NoRequest, fsm \in Running, doorClosed
               PROVE  \/ /\ itp'.status.sub # NoCycle
                         /\ PriorityOf(itp'.status.sub) <= requested
                      \/ result' \in {"end_sub_cycle", "end_cycle",
                                      "end_phase"}
    BY Zenon DEF Answers
  <1>1. PICK i, j, o : RunOf(i, j, o)
    BY RunIs
  <1>2. RunsOn(o, j) /\ itp' = o.itp /\ result' = o.result
    BY <1>1, RunOfRunning DEF RunOf
  <1>3. PICK triggered \in SUBSET Conditional :
           LET sub == GetActive(itp.status.sub, requested, triggered)
           IN  doorClosed /\ sub # NoCycle => j.status.sub = sub
    BY <1>1, RunOfRunning, Zenon
  <1> DEFINE sub == GetActive(itp.status.sub, requested, triggered)
  <1>4. requested \in DOMAIN SubCycles
    BY InvFacts, PriorityFacts
  <1>5. PICK p \in DOMAIN SubCycles : sub = SubCycles[p] /\ p <= requested
    BY <1>4, Active
  <1>6. sub # NoCycle
    BY <1>5, CycleFacts DEF SubCycleIds
  <1>7. j.status.sub = sub
    BY <1>3, <1>6, Zenon
  <1> HIDE DEF sub
  <1>8. CASE itp'.status.sub = NoCycle
    BY <1>2, <1>6, <1>7, <1>8 DEF RunsOn
  <1>9. CASE itp'.status.sub # NoCycle
    <2>1. itp'.status.sub = sub
      BY <1>2, <1>6, <1>7, <1>9 DEF RunsOn, Went
    <2>2. PriorityOf(sub) = p
      BY <1>5, PriorityFacts
    <2>3. QED
      BY <1>5, <1>9, <2>1, <2>2
  <1>10. QED
    BY <1>8, <1>9

-----------------------------------------------------------------------------
(* The theorems.                                                           *)

LEMMA Begins == Init => IInv /\ Kept!Init
  <1> SUFFICES ASSUME Init PROVE IInv /\ Kept!Init
    OBVIOUS
  <1> DEFINE i == BlankInterpreter
             to == Place(ProgrammingMacro, 0, 0)
  <1>1. i \in Itp /\ i.status.sub = NoCycle
    <2>1. NothingLoaded \in [phases : Nat, steps : Nat]
      BY DEF NothingLoaded
    <2>2. QED
      BY <2>1, BlankTypes DEF BlankInterpreter, Itp, BlankStatus
  <1> HIDE DEF i
  <1>2. to \in Places /\ to.cycle = ProgrammingMacro
    BY CycleFacts, PhaseFacts, FirstPlaceIn DEF Macros, Place
  <1>3. ConfiguredAt(i, to, "programming") = to
    BY DEF ConfiguredAt, ConfiguredPhase, Place
  <1> HIDE DEF to
  <1>4. itp = Configure(i, to, "programming")
    BY DEF Init, i, to
  <1>5. /\ itp \in Itp /\ itp.data.at = to /\ itp.data.state = "programming"
        /\ ~itp.data.error /\ itp.status.sub = NoCycle /\ Here(itp)
    BY <1>1, <1>2, <1>3, <1>4, Configures DEF CycleStates
  <1>6. Idles(itp, ProgrammingMacro)
    BY <1>2, <1>5, CycleFacts DEF Idles, MacroRuns
  <1>7. fsm = "programming" /\ fsm \notin Running \cup Pausing
    BY DEF Init, Running, Pausing
  <1>8. Fits(itp, fsm)
    BY <1>5, <1>6, <1>7 DEF Fits, MacroOf
  <1>9. SeamsOK
    <2>1. MaxSteps \in Nat \ {0}
      BY UseAssumption DEF UseAssumption
    <2>2. QED
      BY <2>1, PriorityFacts DEF Init, SeamsOK, States, Results
  <1>10. Kept!Init
    BY <1>7, Levels DEF Kept!Init
  <1>11. QED
    BY <1>5, <1>8, <1>9, <1>10 DEF IInv, LoadedOK

LEMMA Stutters ==
    ASSUME IInv, UNCHANGED vars
    PROVE  IInv' /\ KeptStep /\ Preempts /\ Answers
  <1>1. IInv' /\ Answers /\ Preempts
    BY DEF vars, IInv, SeamsOK, LoadedOK, Answers, Preempts, NoRequest
  <1>2. QED
    BY <1>1, SameMain DEF vars

\* What is not a run of the interpreter answers no request.
LEMMA OthersAnswer ==
    ASSUME IInv, Tasks \/ Machine \/ Reset
    PROVE  Answers
  <1>1. DOMAIN SubCycles = 1 .. NoRequest - 1 /\ NoRequest \in Nat
        /\ requested \in 1 .. NoRequest
    BY PriorityFacts, InvFacts
  <1>2. requested # NoRequest
          => requested' # NoRequest \/ pc' = "tasks"
    <2>1. CASE SubCycleRequests
      BY <1>1, <2>1 DEF SubCycleRequests, RequestStart
    <2>2. CASE TerminateFromMonitor \/ DoorMoves
               \/ \E phase \in PhaseRequests : StabilityReaction(phase)
      BY <2>2 DEF TerminateFromMonitor, DoorMoves, StabilityReaction
    <2>3. CASE Command \/ TakeFault
      BY <2>3 DEF Command, TakeFault
    <2>4. CASE \/ NothingToDo \/ ProgrammingStarts \/ FaultDo
               \/ PauseResumes \/ RunEnds \/ RunEndsInReset \/ RunPauses
               \/ \E phase \in PhaseRequests : RunSetsPhase(phase)
               \/ \E step \in StepRequests : RunSetsStep(step)
      BY <2>4
      DEF NothingToDo, ProgrammingStarts, FaultDo, PauseResumes, RunEnds,
          RunEndsInReset, RunPauses, RunSetsPhase, RunSetsStep, PassDone
    <2>5. CASE Reset
      BY <2>5
      DEF Reset, ColdResetCancels, ColdResetPauses, ColdResetResumes,
          ColdResetRestarts, ColdResetLeavesFault, ColdReset
    <2>6. QED
      BY <2>1, <2>2, <2>3, <2>4, <2>5 DEF Tasks, Machine
  <1>3. QED
    BY <1>2, Zenon DEF Answers

\* One step per action.
LEMMA Preserves ==
    ASSUME IInv, [Next]_vars
    PROVE  IInv' /\ KeptStep /\ Preempts /\ Answers
  <1>1. Good => IInv' /\ KeptStep /\ Preempts
    BY DEF Good, SubLeft, Preempts
  <1>2. CASE UNCHANGED vars
    BY <1>2, Stutters
  <1>3. CASE InterpreterRun
    BY <1>3, RunsTheInterpreter, RunAnswers
  <1>4. CASE Tasks
    <2> SUFFICES Good
      BY <1>1, <1>4, OthersAnswer
    <2>1. CASE SubCycleRequests
      BY <2>1, RequestStarts DEF SubCycleRequests
    <2>2. CASE TerminateFromMonitor
      BY <2>2, TerminatesFromMonitor
    <2>3. CASE DoorMoves
      BY <2>3, DoorIsMoved
    <2>4. CASE \E phase \in PhaseRequests : StabilityReaction(phase)
      BY <2>4, ReactsToUnbalance
    <2>5. QED
      BY <1>4, <2>1, <2>2, <2>3, <2>4 DEF Tasks
  <1>5. CASE Machine
    <2> SUFFICES Good
      BY <1>1, <1>5, OthersAnswer
    <2>1. CASE Command \/ TakeFault \/ NothingToDo
      BY <2>1, CommandIsTaken, FaultIsTaken, NothingIsDone
    <2>2. CASE ProgrammingStarts \/ FaultDo \/ PauseResumes
      BY <2>2, CycleStarts, FaultIsDone, PauseIsOver
    <2>3. CASE RunEnds \/ RunEndsInReset \/ RunPauses
      BY <2>3, RunIsOver, RunIsReset, RunIsPaused
    <2>4. CASE \E phase \in PhaseRequests : RunSetsPhase(phase)
      BY <2>4, RunGoesToPhase
    <2>5. CASE \E step \in StepRequests : RunSetsStep(step)
      BY <2>5, RunGoesToStep
    <2>6. QED
      BY <1>5, <2>1, <2>2, <2>3, <2>4, <2>5 DEF Machine
  <1>6. CASE Reset
    <2>1. Good
      BY <1>6, ResetCancels, ResetPauses, ResetResumes, ResetRestarts,
         ResetLeavesFault DEF Reset
    <2>2. QED
      BY <1>1, <1>6, <2>1, OthersAnswer
  <1>7. QED
    BY <1>2, <1>3, <1>4, <1>5, <1>6 DEF Next

\* The invariant holds in every state (Interpreter.c, Supervisor__Run).
THEOREM Invariant == Spec => []IInv
  <1>1. Init => IInv
    BY Begins
  <1>2. IInv /\ [Next]_vars => IInv'
    BY Preserves
  <1>3. QED
    BY <1>1, <1>2, PTL DEF Spec

\* Every variable stays in its type, the steps of a pass within the limit.
THEOREM TypeCorrect == Spec => []TypeOK
  <1>1. IInv => TypeOK
    BY DEF IInv, SeamsOK, Fits, TypeOK
  <1>2. QED
    BY <1>1, Invariant, PTL

\* The interpreter is never sent to a step that the setting file lacks:
\* LoadPhaseData never fails and the state machine is never terminated.
THEOREM SettingFileFollowed == Spec => []NoSettingFileError
  <1>1. IInv => NoSettingFileError
    <2> SUFFICES ASSUME IInv PROVE NoSettingFileError
      OBVIOUS
    <2>1. ~itp.data.error /\ itp.data.at \in Places
      BY InvFacts
      DEF Runs, RunsHere, Pauses, Idles, MacroRuns
    <2>2. QED
      BY <2>1, PlaceFacts DEF NoSettingFileError
  <1>2. QED
    BY <1>1, Invariant, PTL

\* The data to come back to from a sub-cycle are always a main cycle's, and
\* those of a pause are of what ran (SaveSubCycleResumeData and its kin).
THEOREM DataStacked == Spec => []ResumeDataStacked
  <1>1. IInv => ResumeDataStacked
    <2> SUFFICES ASSUME IInv PROVE ResumeDataStacked
      OBVIOUS
    <2>1. itp.status.sub \in SubCycleIds \cup {NoCycle}
          /\ NoCycle \notin SubCycleIds
      BY InvFacts, CycleFacts DEF Itp, Status
    <2>2. itp.status.sub # NoCycle => IsMainCycle(itp.subData, itp.subStatus)
      BY InvFacts
      DEF Runs, Pauses, Idles, Keeps, RunsHere, Suits, IsMainCycle
    <2>3. fsm \in Running
            => /\ itp.data.state = "run"
               /\ itp.data.at.cycle \in SubCycleIds
                    <=> itp.status.sub # NoCycle
      BY <2>1, InvFacts DEF Runs, RunsHere, Suits
    <2>4. fsm \in Pausing
            => /\ itp.pauseData.state = "run"
               /\ itp.pauseStatus.sub = itp.status.sub
      BY InvFacts DEF Pauses, RunsHere
    <2>5. fsm \notin Running \cup Pausing => itp.status.sub = NoCycle
      BY InvFacts DEF Idles
    <2>6. QED
      BY <2>2, <2>3, <2>4, <2>5 DEF ResumeDataStacked
  <1>2. QED
    BY <1>1, Invariant, PTL

\* Only a sub-cycle of a higher priority takes another one's place
\* (SubCycle__GetActive, CheckForSubCycle).
THEOREM HigherPreempts == Spec => OnlyHigherPreempts
  <1>1. IInv /\ [Next]_vars => Preempts
    BY Preserves
  <1>2. Spec => [][Preempts]_vars
    BY <1>1, Invariant, PTL DEF Spec
  <1>3. QED
    BY <1>2 DEF OnlyHigherPreempts, Preempts

\* A request that a run of a cycle finds, with the door closed, is answered.
THEOREM RequestsAnswered == Spec => RequestIsAnswered
  <1>1. IInv /\ [Next]_vars => Answers
    BY Preserves
  <1>2. Spec => [][Answers]_vars
    BY <1>1, Invariant, PTL DEF Spec
  <1>3. QED
    BY <1>2 DEF RequestIsAnswered, Answers

\* The interpreter implements MainCycle: whatever sub-cycles, pauses and
\* power failures come in between, the main cycle keeps its place.
THEOREM MainCycleRefined == Spec => MainCycleKept
  <1>1. Init => Kept!Init
    BY Begins
  <1>2. IInv /\ [Next]_vars => [Kept!Next]_(Kept!vars)
    BY Preserves DEF KeptStep, Kept!vars
  <1>3. QED
    BY <1>1, <1>2, Invariant, PTL DEF Spec, MainCycleKept, Kept!Spec
=============================================================================
