---------------------------- MODULE MCInterpreter ----------------------------
(* A small setting file for TLC.                                            *)
EXTENDS InterpreterRun, TLC

Wait == <<Process>>

\* A cycle that may branch into the other one, and pauses itself.
Wash == 0 :> <<Wait, Wait, <<Process, JumpTo(Place(5, 1, 0))>>>>
     @@ 1 :> <<<<Process, PauseCycle>>>>

\* A cycle that ends in a reset, and the drain of a cancelled one.
Rinse == 0 :> <<Wait>> @@ 1 :> <<<<EndCycleReset>>>>
Drain == 0 :> <<Wait>>

\* A sub-cycle that ends in three ways, and one that restarts the step or
\* comes to its end.
AddWater == 0 :> <<<<Process, JumpTo(Place(7, 1, 0)), JumpTo(Place(7, 2, 0)),
                     EndSubCycle("resume")>>>>
         @@ 1 :> <<<<EndSubCycle("skip_phase")>>>>
         @@ 2 :> <<<<EndSubCycle("restart_phase")>>>>
Refill == 0 :> <<<<Process, JumpTo(Place(8, 1, 0)),
                   EndSubCycle("restart_step")>>>>
       @@ 1 :> <<Wait>>

\* The cycle of a state has a phase for every cycle it stands for.
Macro == [c \in {0, 4, 5, 6} |-> <<Wait>>]

SmallProgram ==
    [c \in 0 .. 8 |-> CASE c <= 3 -> Macro
                        [] c = 4 -> Wash
                        [] c = 5 -> Rinse
                        [] c = 6 -> Drain
                        [] c = 7 -> AddWater
                        [] c = 8 -> Refill]

ByPriority == <<7, 8>>

Asked == [c \in 0 .. 8 |-> CASE c <= 3 -> "cancel"
                             [] c = 4 -> "resume"
                             [] c = 5 -> "pause"
                             [] c = 6 -> "restart_phase"
                             [] c = 7 -> "restart_cycle"
                             [] c = 8 -> "cancel"]
=============================================================================
