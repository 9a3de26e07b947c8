----------------------------- MODULE WinService -----------------------------
(***************************************************************************)
(* What the Win bus promises to the layers above it.  A node queues one    *)
(* message after another.  A message is handed over at a node it is for,   *)
(* in the order of the queueing and at most once: only the first message a *)
(* node sends after it powers up may be handed over again, while it is the *)
(* last one.  The sender is told of an acknowledgement only when the       *)
(* message has been handed over.  A node that restarts forgets what it has *)
(* received; the numbers of its own messages start again, so until it is   *)
(* in step with a receiver an acknowledgement may come for nothing.        *)
(***************************************************************************)
EXTENDS Integers, Sequences

CONSTANTS Nodes, Receivers, Broadcast

VARIABLES queued, handed, last, acked, restarted

vars == <<queued, handed, last, acked, restarted>>

\* No message of a node has been handed over.
Nothing == [id |-> 0, times |-> 0]

Init ==
    /\ queued = [n \in Nodes |-> <<>>]
    /\ handed = {} /\ acked = {} /\ restarted = {}
    /\ last = [n \in Nodes |-> [m \in Nodes |-> Nothing]]

\* Node n queues a message; m says for whom and whether it is its first.
Queue(n, m) ==
    /\ queued' = [queued EXCEPT ![n] = Append(@, m)]
    /\ UNCHANGED <<handed, last, acked, restarted>>

\* Message k of node m is handed over at node n.
HandOver(n, m, k) ==
    /\ queued[m][k].to \in {n, Broadcast}
    /\ handed' = handed \cup {<<n, <<m, k>>>>}
    /\ \/ /\ k > last[n][m].id
          /\ last' = [last EXCEPT ![n][m] = [id |-> k, times |-> 1]]
       \/ /\ k = last[n][m].id /\ queued[m][k].first
          /\ last' = [last EXCEPT ![n][m].times = @ + 1]
    /\ UNCHANGED <<queued, acked, restarted>>

\* The sender is told that its last message has arrived.
Told(n) ==
    /\ queued[n] # <<>>
    /\ acked' = acked \cup {<<n, Len(queued[n])>>}
    /\ UNCHANGED <<queued, handed, last, restarted>>

\* ... and it has.
Acknowledge(n) ==
    LET k == Len(queued[n]) IN
    /\ Told(n)
    /\ queued[n][k].to \in Nodes
    /\ <<queued[n][k].to, <<n, k>>>> \in handed \/ n \in restarted

Restart(n) ==
    /\ last' = [last EXCEPT ![n] = [m \in Nodes |-> Nothing]]
    /\ restarted' = restarted \cup {n}
    /\ UNCHANGED <<queued, handed, acked>>

Move(n) ==
    \/ \E m \in [to : Receivers, first : BOOLEAN] : Queue(n, m)
    \/ \E m \in Nodes : \E k \in DOMAIN queued[m] : HandOver(n, m, k)
    \/ Restart(n)

Next == \E n \in Nodes : Move(n) \/ Acknowledge(n)

Spec == Init /\ [][Next]_vars

\* The delivery alone, whatever the sender is told.
Deliveries == \E n \in Nodes : Move(n) \/ Told(n)

DeliverySpec == Init /\ [][Deliveries]_vars
=============================================================================
