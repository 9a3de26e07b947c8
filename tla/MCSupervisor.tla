---------------------------- MODULE MCSupervisor ----------------------------
(* Instances of the supervisor for TLC.                                    *)
EXTENDS Supervisor

CONSTANTS Wash, Quick, Line, Drain

NoJumps == [c \in RunCycles |-> {}]

\* The washing cycle branches into the quick one.
WashJumps == [c \in RunCycles |-> IF c = Wash THEN {Quick} ELSE {}]

AllCancel == [c \in RunCycles \cup {Off, BadCycle} |-> "cancel"]

\* A heading of each kind: Wash is paused, Quick resumed, the others cancelled.
MixedResets == [c \in RunCycles \cup {Off, BadCycle} |->
                  CASE c = Wash -> "pause" [] c = Quick -> "resume"
                    [] OTHER -> "cancel"]
=============================================================================
