-------------------------------- MODULE MCWin --------------------------------
(* Instances of the Win bus for TLC.                                        *)
EXTENDS Win

\* The appliance control unit (1) and the user interface (2): the lower the
\* address, the shorter the silence a node waits for.
Times == [n \in Nodes |-> 3 + n]

\* The first node queues two messages, the other one, or none.
TwoAndOne == [n \in Nodes |-> IF n = 1 THEN 2 ELSE 1]
TwoAndNone == [n \in Nodes |-> IF n = 1 THEN 2 ELSE 0]
=============================================================================
