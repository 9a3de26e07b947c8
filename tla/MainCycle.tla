------------------------------ MODULE MainCycle ------------------------------
(***************************************************************************)
(* What a user may count on of a washing cycle: its place in the program   *)
(* moves only by the cycle's own steps, or where a sub-cycle's end says it *)
(* is to go on.  A sub-cycle, one that takes its place, and a pause of     *)
(* either leave the place alone and come back to it.                       *)
(***************************************************************************)
EXTENDS Integers

CONSTANTS
    CyclePlaces,  \* run cycle |-> the places of its program
    CycleJumps,   \* run cycle |-> the places its jumps lead to
    Starts,    \* the first places of the cycles that can be started
    DrainStart, \* the first place of the drain of a cancelled cycle
    Nowhere     \* no cycle runs

VARIABLES main, level

vars == <<main, level>>

Init == main = Nowhere /\ level = "idle"

\* The cycle that was selected starts, or the drain of a cancelled one.
Start == level = "idle" /\ main' \in Starts /\ level' = "main"
Drain == level # "idle" /\ main' = DrainStart /\ level' = "main"

\* The cycle moves, by itself or by a request to go to another step.
Move == /\ level = "main"
        /\ main' \in CyclePlaces[main.cycle] \cup CycleJumps[main.cycle]
        /\ UNCHANGED level

EnterSubCycle == level = "main" /\ level' = "sub" /\ UNCHANGED main

\* Back at the place, at its phase's first step, or at the next phase.
LeaveSubCycle ==
    /\ level = "sub" /\ level' = "main"
    /\ main' \in {at \in CyclePlaces[main.cycle] :
                    \/ at = main
                    \/ at.phase = main.phase /\ at.step = 0
                    \/ at.phase = main.phase + 1 /\ at.step = 0}

Pause == /\ level \in {"main", "sub"}
         /\ level' = IF level = "main" THEN "paused" ELSE "paused_sub"
         /\ UNCHANGED main

\* The sub-cycle that was paused is given up.
DropSubCycle == /\ level = "paused_sub" /\ level' = "paused"
                /\ UNCHANGED main

Resume == /\ level \in {"paused", "paused_sub"}
          /\ level' = IF level = "paused" THEN "main" ELSE "sub"
          /\ UNCHANGED main

\* CycleResume restarts its own sub-cycle, or the main cycle goes on.
ResumeDropping == /\ level = "paused_sub" /\ level' = "main"
                  /\ UNCHANGED main

Stop == level' = "idle" /\ main' = Nowhere

Next == \/ Start \/ Drain \/ Move \/ EnterSubCycle \/ LeaveSubCycle
        \/ Pause \/ DropSubCycle \/ Resume \/ ResumeDropping \/ Stop

Spec == Init /\ [][Next]_vars
=============================================================================
