---------------------------- MODULE CycleLifecycle ----------------------------
(***************************************************************************)
(* What the supervisor promises about cycles, without regulations, passes  *)
(* or an interpreter: which program is chosen, and which cycle it is       *)
(* executing or holding.  A program, once committed to by a start, is      *)
(* neither replaced nor swapped for another cycle while it waits, runs or  *)
(* is held; a held cycle is continued as it was; the drain of a cancelled  *)
(* cycle is never taken for a running program.                             *)
(***************************************************************************)
CONSTANTS
    Programs,    \* what can be chosen
    Off,         \* the program that cannot be started
    Branches(_), \* the cycles that an executing cycle may hand over to
    HasDrain,    \* cancelling a program drains first
    Drain,       \* the cycle that does it
    None

VARIABLES mode, program, executing

cycle == <<mode, program, executing>>

Stays == UNCHANGED <<program, executing>>

Init == mode = "idle" /\ program = Off /\ executing = None

Choose == /\ mode \in {"idle", "faulted", "dead"}
          /\ program' \in Programs
          /\ UNCHANGED <<mode, executing>>

\* The choice of the program may come with the start.
Schedule == /\ mode = "idle" /\ mode' = "waiting"
            /\ program' \in Programs \ {Off}
            /\ UNCHANGED executing

StartAtOnce == /\ mode = "idle" /\ mode' = "running"
               /\ program' \in Programs \ {Off}
               /\ executing' = program'

Commence == /\ mode = "waiting" /\ mode' = "running"
            /\ executing' = program
            /\ UNCHANGED program

Branch == /\ mode \in {"running", "draining"}
          /\ executing' \in Branches(executing)
          /\ UNCHANGED <<mode, program>>

Held == [waiting |-> "waiting_held", running |-> "held",
         draining |-> "draining_held"]

Hold == mode \in DOMAIN Held /\ mode' = Held[mode] /\ Stays

Continue == /\ \E m \in DOMAIN Held : mode = Held[m] /\ mode' = m
            /\ Stays

\* A test is over with its program, which gives way to another choice.
Finish == /\ mode = "running" /\ mode' = "finished"
          /\ program' \in Programs
          /\ executing' = None

Cancel == /\ mode \in {"running", "held"}
          /\ program' \in Programs
          /\ IF HasDrain THEN mode' = "draining" /\ executing' = Drain
                         ELSE mode' = "idle" /\ executing' = None

Abandon == /\ mode \in {"waiting", "waiting_held", "draining",
                        "draining_held", "finished"}
           /\ mode' = "idle"
           /\ program' \in Programs
           /\ executing' = None

Trip == /\ mode # "dead" /\ mode' = "faulted"
        /\ executing' = None
        /\ UNCHANGED program

Clear == /\ mode = "faulted" /\ mode' = "idle"
         /\ program' \in Programs
         /\ UNCHANGED executing

\* The chosen program does not exist in the appliance's setting file.
Die == mode # "dead" /\ mode' = "dead" /\ executing' = None /\ UNCHANGED program

Revive == mode = "dead" /\ mode' = "idle" /\ Stays

Next == \/ Choose \/ Schedule \/ StartAtOnce \/ Commence \/ Branch
        \/ Hold \/ Continue \/ Finish \/ Cancel \/ Abandon
        \/ Trip \/ Clear \/ Die \/ Revive

Spec == Init /\ [][Next]_cycle
===============================================================================
