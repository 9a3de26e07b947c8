------------------------------ MODULE Storage ------------------------------
(***************************************************************************)
(* What the non volatile storage promises to the owners of its segments.   *)
(* A store begins with the data as they are, and they replace the durable  *)
(* ones when it is complete.  If it is cut, each segment may come back as  *)
(* it was or as it was about to be.  A power up settles which: until       *)
(* another store begins, the segment comes back like that or not at all.   *)
(* OKAY means besides that no board has run since the store.  Only if the  *)
(* last store has failed may a backup be older than that.                  *)
(***************************************************************************)
CONSTANTS
    Reset,    \* for each segment, the values it has when it is not restored
    Nothing   \* for each segment, what is durable when nothing is

VARIABLES
    up,       \* the board runs on its data
    data,     \* the segments in RAM
    how,      \* how each of them was restored
    durable,  \* the segments that survive the loss of power
    tried,    \* those of the store in progress, or of the one that was cut
    fresh,    \* no boot has ended since a store began
    failed    \* the last store since the power up has failed

vars == <<up, data, how, durable, tried, fresh, failed>>

Segments == {"app", "stat"}

Init ==
    /\ up = FALSE /\ fresh = FALSE /\ failed = FALSE
    /\ durable = Nothing /\ tried = Nothing

\* The owners change their data, the processor is reset or put to sleep.
Use == up /\ up' /\ UNCHANGED <<how, durable, tried, fresh, failed>>

BeginStore ==
    /\ up /\ up'
    /\ tried' = data' /\ fresh' = TRUE
    /\ UNCHANGED <<how, durable, failed>>

CompleteStore ==
    /\ up /\ fresh
    /\ durable' = tried
    /\ UNCHANGED <<up, data, how, tried, fresh, failed>>

\* The result of a store, which may end in a cold reset.
EndStore ==
    /\ up
    /\ \/ /\ durable = tried /\ failed' = FALSE
          /\ how' \in {how, [s \in Segments |-> "OKAY"]}
       \/ failed' = TRUE /\ UNCHANGED how
    /\ UNCHANGED <<data, durable, tried, fresh>>

\* The power is lost, or the RAM.
Lose == up' = FALSE /\ UNCHANGED <<durable, tried, fresh, failed>>

\* What segment s may come back as.
Candidates(s) == {durable[s], tried[s]} \ {Nothing[s]}

\* A segment that comes back becomes the durable one; one that does not is
\* reset.
Comes(s) ==
    /\ durable'[s] # Nothing[s] /\ data'[s] = durable'[s]
    /\ \/ how'[s] = "OKAY" /\ fresh /\ durable'[s] \in Candidates(s)
       \/ how'[s] = "OKAY_BACKUP" /\ (failed \/ durable'[s] \in Candidates(s))

Resets(s) ==
    /\ how'[s] = "CORRUPTED" /\ data'[s] \in Reset[s]
    /\ failed \/ durable'[s] \in Candidates(s) \cup {Nothing[s]}

PowerUp ==
    /\ ~up /\ up'
    /\ \A s \in Segments : Comes(s) \/ Resets(s)
    /\ tried' = durable' /\ failed' = FALSE
    /\ UNCHANGED fresh

EndBoot ==
    /\ up /\ fresh' = FALSE
    /\ UNCHANGED <<up, data, how, durable, tried, failed>>

Next ==
    \/ Use \/ BeginStore \/ CompleteStore \/ EndStore
    \/ Lose \/ PowerUp \/ EndBoot

Spec == Init /\ [][Next]_vars
=============================================================================
