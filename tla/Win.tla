-------------------------------- MODULE Win --------------------------------
(***************************************************************************)
(* The Win bus driver (XCategory/Service/all/Win/Win.c): several nodes on  *)
(* one half-duplex wire.  A node that has a message waits for its own slot *)
(* of silence, sends the bus grant byte ~node, reads it back, sends the    *)
(* frame while it compares the echo, and waits up to IdleTime milliseconds *)
(* for the two bytes of the acknowledgement.                               *)
(*                                                                         *)
(* A millisecond is a Wire step, in which the bytes in the transmission    *)
(* FIFOs reach every node, and one Win__Handle1ms per node.  The bytes a   *)
(* handler finds are read by steps of their own.                           *)
(*                                                                         *)
(* The handler is an interrupt; the calls of the application come from the *)
(* Communication thread, which it preempts.  The calls for the received    *)
(* message look at its state and set it later, and between the two the     *)
(* handler may run any number of times: each is two steps, and thread says *)
(* between which steps the thread is.  The calls for the message to send   *)
(* are one step each: in the states they start from the handler leaves the *)
(* transmit buffer alone.                                                  *)
(*                                                                         *)
(* A byte is a tagged value, a CRC byte carries the bytes it protects: the *)
(* CRC is perfect, and no damaged byte reads as a control byte.  A frame   *)
(* carries one byte of payload, the identity of the message.               *)
(***************************************************************************)
EXTENDS Integers, Sequences, FiniteSets

CONSTANTS
    Nodes,            \* the addresses on the bus
    Broadcast,        \* WIN_BROADCAST
    PcNode,           \* WIN_PC_NODE, which listens without answering
    None,             \* no node is reading, no message is held
    CounterLimit,     \* WIN_MSG_COUNTER_LIMIT
    Retries,          \* WIN_NUM_RETRIES
    CollisionRetries, \* WIN_NUM_RETRIES_COLLISION
    MaxNumMessages,   \* WIN_MAX_NUM_MESSAGES
    IdleTime,         \* WIN_IDLE_TIME
    NodeTime,         \* WIN_NODE_TIME of each node
    NodeMaxTime,      \* WIN_NODE_MAX_TIME
    PowerUpTime,      \* WIN_POWERUP_TIME
    HoldingTime,      \* WIN_TIME_HOLDING_MSG
    ParserTimeout,    \* WIN_MAX_RX_PARSER_TIMEOUT
    BytesAtOnce,      \* WIN_MAX_BYTES_HANDLED_AT_ONCE
    BytesPerMs,       \* bytes the wire carries in a millisecond
    Faults,           \* the faults of the wire and of the nodes
    MaxFaults,        \* bound on their number
    Destinations,     \* the addresses the applications send to
    MaxMessages,      \* bound on the messages each node queues
    MaxFaultsInCalls  \* bound: after more faults the calls take no time

FaultKinds == {"lose", "error", "noise", "misaddress", "skip", "restart"}

ASSUME WinAssumption ==
    /\ Nodes \subseteq Nat /\ Nodes # {}
    /\ {Broadcast, PcNode, None} \cap Nodes = {}
    /\ NodeTime \in [Nodes -> Nat \ {0}]
    /\ {CounterLimit, IdleTime, NodeMaxTime, HoldingTime, ParserTimeout,
        MaxNumMessages, BytesAtOnce, BytesPerMs} \subseteq Nat \ {0}
    /\ {Retries, CollisionRetries, PowerUpTime, MaxFaults,
        MaxFaultsInCalls} \subseteq Nat
    /\ MaxMessages \in [Nodes -> Nat]
    /\ \A n \in Nodes : NodeTime[n] <= NodeMaxTime
    /\ IdleTime + 2 <= NodeMaxTime
    /\ Faults \subseteq FaultKinds
    /\ Destinations \subseteq Nodes \cup {Broadcast, PcNode}

VARIABLES
    node,    \* the static variables of Win.c and the UART FIFOs of each node
    todo,    \* the nodes whose handler has not run in this millisecond
    reading, \* the node inside the reading loop of WinIncomingProcess
    left,    \* bytes_to_read of that node
    faults,  \* the number of faults so far
    thread,  \* where the Communication thread of each node is
    held,    \* the message it has in its hands
    queued,  \* history: the messages each node has queued
    handed,  \* history: <<n, id>> when message id became READY at node n
    last,    \* history: the last message of m handed over at n, how often
    acked,   \* history: the messages whose sender took an acknowledgement
    restarted \* history: the nodes that have restarted

history == <<queued, handed, last, acked, restarted>>
vars == <<node, todo, reading, left, faults, thread, held, history>>
-----------------------------------------------------------------------------
(* Bytes and frames.                                                       *)

Dle == <<"dle">>
Stx == <<"stx">>
Ack == <<"ack">>
Grant(n) == <<"grant", n>>
Error == <<"error">>           \* the UART reports an error with the byte
Noise == <<"noise">>           \* another value than the one sent
Address(to, from) == <<"address", to, from>>

Crc(bytes) == <<"crc", bytes>>

\* What lies between STX and the CRC: address, sap, size and data.
Protected(m) == <<Address(m.to, m.from), <<"sap", m.count>>, <<"size", 1>>,
                  <<"data", m.id>>>>

Frame(m) == <<Dle, Stx>> \o Protected(m) \o <<Crc(Protected(m))>>

FrameLength == 7               \* sdu_length + 6, with one byte of data

Ids == Nodes \X (Nat \ {0})

Receivers == Nodes \cup {Broadcast, PcNode}

Messages == [to : Receivers, from : Nodes, count : 0 .. CounterLimit, id : Ids]

NoMessage == [to |-> Broadcast, from |-> CHOOSE n \in Nodes : TRUE,
              count |-> 0, id |-> <<CHOOSE n \in Nodes : TRUE, 1>>]

MaxOf(a, b) == IF a < b THEN b ELSE a
MinOf(a, b) == IF a < b THEN a ELSE b

\* Mutant: a timer at rest is decremented.
DecrementedAtRest(k) == k - 1

Decremented(k) == IF k > 0 THEN k - 1 ELSE 0
-----------------------------------------------------------------------------
(* Win__Initialize                                                         *)

Initial(n) ==
    [timer |-> NodeTime[n] + PowerUpTime,
     busIdle |-> 0, busIdleTimer |-> 0, notSendingTimer |-> 0,
     sentCounter |-> 0,
     txState |-> "idle", txStatus |-> "free", txMessage |-> "free",
     txBuffer |-> NoMessage, retry |-> 0, retryCollision |-> 0,
     remaining |-> 0, check |-> 0,
     rxState |-> "idle", rxMessage |-> "free", rxMessageTime |-> 0,
     header |-> [to |-> Broadcast, from |-> None, count |-> 0],
     rxBuffer |-> None, rxCrc |-> <<>>,
     count |-> 0, prev |-> [m \in Nodes |-> 0],
     in |-> <<>>, out |-> <<>>]

\* No message of a node has been handed over.
Nothing == [id |-> 0, times |-> 0]

Init ==
    /\ node = [n \in Nodes |-> Initial(n)]
    /\ todo = {} /\ reading = None /\ left = 0 /\ faults = 0
    /\ thread = [n \in Nodes |-> "away"] /\ held = [n \in Nodes |-> None]
    /\ queued = [n \in Nodes |-> <<>>]
    /\ handed = {} /\ acked = {} /\ restarted = {}
    /\ last = [n \in Nodes |-> [m \in Nodes |-> Nothing]]
-----------------------------------------------------------------------------
(* WinOutgoingProcess, as functions of the state s of a node n.            *)

\* Bytes have come: the timers of silence start again.
Activity(s, n) ==
    IF s.in = <<>> THEN s
    ELSE [s EXCEPT !.busIdleTimer = NodeMaxTime, !.busIdle = IdleTime,
                   !.timer = MaxOf(@, NodeTime[n])]

\* Mutant: the end of the contention leaves the counter.
BusIdleTickKeepsCounter(s) == [s EXCEPT !.busIdleTimer = Decremented(@)]

\* After NodeMaxTime of silence the bus contention is disengaged.
BusIdleTick(s) ==
    IF s.busIdleTimer = 1
    THEN [s EXCEPT !.busIdleTimer = 0, !.notSendingTimer = 0,
                   !.sentCounter = 0]
    ELSE [s EXCEPT !.busIdleTimer = Decremented(@)]

NotSendingTick(s) ==
    IF s.notSendingTimer = 1
    THEN [s EXCEPT !.notSendingTimer = 0, !.sentCounter = 0]
    ELSE [s EXCEPT !.notSendingTimer = Decremented(@)]

DropSendingMessage(s) ==
    [s EXCEPT !.txMessage = "free", !.sentCounter = MinOf(@ + 1, 255)]

SendData(s) ==
    LET k == MinOf(s.remaining, BytesAtOnce)
        first == FrameLength - s.remaining
    IN  IF s.remaining = 0 THEN s
        ELSE [s EXCEPT !.notSendingTimer = HoldingTime,
                       !.remaining = @ - k,
                       !.out = @ \o SubSeq(Frame(s.txBuffer), first + 1,
                                           first + k)]

TxIdle(s, n) ==
    IF s.timer = 0 /\ s.txMessage = "ready" /\ s.sentCounter < MaxNumMessages
    THEN [s EXCEPT !.out = Append(@, Grant(n)), !.txState = "grant"]
    ELSE s

\* Mutant: without an echo the node keeps waiting for it.
TxGrantWaits(s, n) ==
    IF s.in = <<Grant(n)>>
    THEN SendData([s EXCEPT !.in = <<>>, !.txState = "sending",
                            !.txStatus = "sending", !.check = 0,
                            !.remaining = FrameLength])
    ELSE s

\* The echo of the grant byte alone gives the bus.  Silence initialises the
\* UART; more than one byte is left for the reading loop.
TxGrant(s, n) ==
    IF s.in = <<>>
    THEN [s EXCEPT !.txState = "idle", !.timer = MaxOf(@, NodeMaxTime),
                   !.out = <<>>]
    ELSE IF s.in = <<Grant(n)>>
    THEN SendData([s EXCEPT !.in = <<>>, !.txState = "sending",
                            !.txStatus = "sending", !.check = 0,
                            !.remaining = FrameLength])
    ELSE [s EXCEPT !.txState = "idle",
                   !.in = IF Len(@) = 1 THEN <<>> ELSE @]

\* The echo has differed from what was sent.
AfterCollision(s) ==
    IF s.retryCollision > 0
    THEN [s EXCEPT !.retryCollision = @ - 1, !.txMessage = "ready"]
    ELSE DropSendingMessage(s)

\* IdleTime of silence has passed without an acknowledgement.
AfterSilence(s) ==
    IF s.txStatus # "sent" THEN [s EXCEPT !.txMessage = "ready"]
    ELSE IF s.txBuffer.to \in Nodes /\ s.retry > 0
    THEN [s EXCEPT !.retry = @ - 1, !.txMessage = "ready"]
    ELSE DropSendingMessage(s)

TxSending(s) ==
    IF s.txStatus = "collision"
    THEN [AfterCollision(s) EXCEPT !.txState = "idle"]
    ELSE LET t == SendData(s)
         IN  IF t.busIdle # 0 THEN t
             ELSE [AfterSilence(t) EXCEPT !.txState = "idle"]

WinOutgoingProcess(s, n) ==
    LET t == NotSendingTick(BusIdleTick(Activity(s, n)))
    IN  CASE t.txState = "idle"    -> TxIdle(t, n)
          [] t.txState = "grant"   -> TxGrant(t, n)
          [] t.txState = "sending" -> TxSending(t)
-----------------------------------------------------------------------------
(* WinIncomingProcess                                                      *)

\* A message that is not parsed in time makes room for the next one.
ParserTick(s) ==
    [s EXCEPT !.rxMessageTime = Decremented(@),
              !.rxMessage = IF s.rxMessageTime = 1 THEN "free" ELSE @]

SilenceTick(s) ==
    [s EXCEPT !.timer = Decremented(@), !.busIdle = Decremented(@),
              !.rxState = IF s.busIdle = 0 THEN "idle" ELSE @]

IncomingTimers(s, n) == SilenceTick(ParserTick(Activity(s, n)))

\* The echo of a byte this node is sending.
CheckEcho(s, b) ==
    IF b # Frame(s.txBuffer)[s.check + 1]
    THEN [s EXCEPT !.rxState = "idle", !.txStatus = "collision",
                   !.out = <<>>]
    ELSE [s EXCEPT !.rxState = "idle", !.check = @ + 1,
                   !.txStatus = IF s.check + 1 >= FrameLength
                                THEN "sent" ELSE @]

\* Mutant: the acknowledgement frees the buffer of a frame still open.
RxStxKeepsSending(s, b) ==
    IF b = Stx THEN [s EXCEPT !.rxState = "address", !.rxCrc = <<>>]
    ELSE IF b = Ack /\ s.txState = "sending"
    THEN [DropSendingMessage(s) EXCEPT !.rxState = "idle"]
    ELSE [s EXCEPT !.rxState = "idle"]

RxStx(s, b) ==
    IF b = Stx THEN [s EXCEPT !.rxState = "address", !.rxCrc = <<>>]
    ELSE IF b = Ack /\ s.txState = "sending"
    THEN [DropSendingMessage(s) EXCEPT !.rxState = "idle", !.txState = "idle"]
    ELSE [s EXCEPT !.rxState = "idle"]

\* A message for another node makes the next count of its source new.
RxAddress(s, n, b) ==
    LET t == [s EXCEPT !.rxCrc = Append(@, b)]
    IN  IF b[1] # "address" THEN [t EXCEPT !.rxState = "wait"]
        ELSE IF b[2] \in {n, Broadcast}
        THEN [t EXCEPT !.rxState = "sap", !.header.to = b[2],
                       !.header.from = b[3]]
        ELSE [t EXCEPT !.rxState = "wait", !.header.to = b[2],
                       !.header.from = b[3],
                       !.prev = IF b[3] \in Nodes THEN [@ EXCEPT ![b[3]] = 0]
                                ELSE @]

RxSap(s, b) ==
    [s EXCEPT !.rxCrc = Append(@, b), !.rxState = "size",
              !.header.count = IF b[1] = "sap" THEN b[2] ELSE 0]

\* Mutant: the buffer is not looked at.
RxSizeOverwrites(s, b) ==
    [s EXCEPT !.rxCrc = Append(@, b),
              !.rxState = IF b = <<"size", 1>> THEN "data" ELSE "wait"]

\* Too long, or the previous message has not been parsed: no answer.
RxSize(s, b) ==
    [s EXCEPT !.rxCrc = Append(@, b),
              !.rxState = IF b = <<"size", 1>> /\ s.rxMessage = "free"
                          THEN "data" ELSE "wait"]

RxData(s, b) ==
    [s EXCEPT !.rxCrc = Append(@, b), !.rxState = "crc",
              !.rxBuffer = IF b[1] = "data" THEN b[2] ELSE None]

\* The frame is whole and its source is one of the bus.
GoodFrame(s, b) == b = Crc(s.rxCrc) /\ s.header.from \in Nodes

\* Mutant: a repetition is a new message.
IsNewAlways(s) == TRUE

\* A count other than the last one of the source, or 0, is a new message.
IsNew(s) ==
    \/ s.header.count # s.prev[s.header.from]
    \/ s.header.count = 0

Accepted(s) ==
    IF IsNew(s)
    THEN [s EXCEPT !.rxMessage = "ready", !.rxMessageTime = ParserTimeout]
    ELSE s

RxCrc(s, n, b) ==
    IF ~GoodFrame(s, b) THEN [s EXCEPT !.rxState = "idle"]
    ELSE [Accepted(s) EXCEPT
            !.rxState = "idle",
            !.prev[s.header.from] = s.header.count,
            !.out = IF s.header.to = n THEN @ \o <<Dle, Ack>> ELSE @]

\* The reading of one byte.
Received(s, n, b) ==
    IF s.txStatus = "sending" THEN CheckEcho(s, b)
    ELSE IF b = Error THEN [s EXCEPT !.rxState = "idle"]
    ELSE CASE s.rxState = "idle" ->
                [s EXCEPT !.rxState = IF b = Dle THEN "stx" ELSE "idle"]
           [] s.rxState = "stx"     -> RxStx(s, b)
           [] s.rxState = "address" -> RxAddress(s, n, b)
           [] s.rxState = "sap"     -> RxSap(s, b)
           [] s.rxState = "size"    -> RxSize(s, b)
           [] s.rxState = "data"    -> RxData(s, b)
           [] s.rxState = "crc"     -> RxCrc(s, n, b)
           [] s.rxState = "wait"    -> s
-----------------------------------------------------------------------------
(* The actions of a node.                                                  *)

\* Handlers and calls of different nodes touch different variables, so one
\* order of the handlers and one time for the calls stand for all of them.
Turn(n) == reading = None /\ n \in todo /\ \A m \in todo : n <= m

\* No interrupt is running, and all have run in this millisecond.
Idle == reading = None /\ todo = {}

\* Win__Handle1ms, up to the reading loop.  Win_Break_Counter stays 0, for the
\* caller of Win__SendBreak is disabled: its branch (341-345) is left out.
Handle1ms(n) ==
    LET s == IncomingTimers(WinOutgoingProcess(node[n], n), n)
        bytes == IF s.txState = "grant" THEN 0 ELSE Len(s.in)
    IN  /\ Turn(n)
        /\ todo' = todo \ {n}
        /\ node' = [node EXCEPT ![n] = s]
        /\ left' = bytes
        /\ reading' = IF bytes > 0 THEN n ELSE None
        /\ UNCHANGED <<faults, thread, held, history>>

\* The byte ends a frame that the application has not had yet.
HandsOver(s, n, b) ==
    /\ s.txStatus # "sending" /\ s.rxState = "crc"
    /\ GoodFrame(s, b) /\ IsNew(s)

\* The byte ends an acknowledgement this node waits for.
TakesAck(s, b) ==
    /\ s.txStatus # "sending" /\ s.rxState = "stx"
    /\ b = Ack /\ s.txState = "sending"

\* One turn of the reading loop.
ReadByte(n) ==
    LET b == Head(node[n].in)
        s == [node[n] EXCEPT !.in = Tail(@)]
        t == Received(s, n, b)
    IN  /\ reading = n
        /\ node' = [node EXCEPT ![n] = t]
        /\ left' = left - 1
        /\ reading' = IF left = 1 THEN None ELSE n
        /\ IF HandsOver(s, n, b)
           THEN /\ handed' = handed \cup {<<n, s.rxBuffer>>}
                /\ last' = [last EXCEPT ![n][s.header.from] =
                               [id |-> s.rxBuffer[2],
                                times |-> IF @.id = s.rxBuffer[2]
                                          THEN @.times + 1 ELSE 1]]
           ELSE UNCHANGED <<handed, last>>
        /\ acked' = IF TakesAck(s, b) THEN acked \cup {s.txBuffer.id}
                    ELSE acked
        /\ UNCHANGED <<todo, faults, thread, held, queued, restarted>>

\* Win__AllocateMessage
AllocateMessage(n) ==
    /\ Idle /\ Len(queued[n]) < MaxMessages[n]
    /\ node[n].txMessage = "free"
    /\ node' = [node EXCEPT ![n].txMessage = "processing"]
    /\ UNCHANGED <<todo, reading, left, faults, thread, held, history>>

NextCount(k) == IF k + 1 > CounterLimit THEN 1 ELSE k + 1

\* Win__QueueMessage, to node d; a bad size or address frees the buffer.
QueueMessage(n, d) ==
    LET s == node[n]
        m == [to |-> d, from |-> n, count |-> s.count,
              id |-> <<n, Len(queued[n]) + 1>>]
    IN  /\ Idle /\ s.txMessage = "processing"
        /\ node' = [node EXCEPT ![n] =
             [s EXCEPT !.txBuffer = m, !.count = NextCount(@),
                       !.retry = Retries,
                       !.retryCollision = CollisionRetries,
                       !.txMessage = "ready"]]
        /\ queued' = [queued EXCEPT ![n] = Append(@, m)]
        /\ UNCHANGED <<todo, reading, left, faults, thread, held, handed,
                       last, acked, restarted>>

RejectMessage(n) ==
    /\ Idle /\ node[n].txMessage = "processing"
    /\ node' = [node EXCEPT ![n].txMessage = "free"]
    /\ UNCHANGED <<todo, reading, left, faults, thread, held, history>>

ThreadStates == {"away", "getting", "parsing", "freeing"}

\* The thread is between the look at the state and the setting of it.
InCall(n) == thread[n] \in {"getting", "freeing"}

\* Win__GetIncomingMessage: the thread has seen READY.
CheckIncomingMessage(n) ==
    /\ Idle /\ thread[n] = "away" /\ node[n].rxMessage = "ready"
    /\ thread' = [thread EXCEPT ![n] = "getting"]
    /\ UNCHANGED <<node, todo, reading, left, faults, held, history>>

\* ... and sets PROCESSING, whatever the state is now.
GetIncomingMessage(n) ==
    /\ Idle /\ thread[n] = "getting"
    /\ node' = [node EXCEPT ![n].rxMessage = "processing"]
    /\ thread' = [thread EXCEPT ![n] = "parsing"]
    /\ held' = [held EXCEPT ![n] = node[n].rxBuffer]
    /\ UNCHANGED <<todo, reading, left, faults, history>>

\* Win__FreeIncomingMessage: the thread looks for PROCESSING; a message that
\* has been freed meanwhile, or has made room for another, is left alone.
CheckParsedMessage(n) ==
    /\ Idle /\ thread[n] = "parsing"
    /\ IF node[n].rxMessage = "processing"
       THEN /\ thread' = [thread EXCEPT ![n] = "freeing"]
            /\ UNCHANGED held
       ELSE /\ thread' = [thread EXCEPT ![n] = "away"]
            /\ held' = [held EXCEPT ![n] = None]
    /\ UNCHANGED <<node, todo, reading, left, faults, history>>

\* ... and sets FREE, whatever the state is now.
FreeIncomingMessage(n) ==
    /\ Idle /\ thread[n] = "freeing"
    /\ node' = [node EXCEPT ![n].rxMessage = "free"]
    /\ thread' = [thread EXCEPT ![n] = "away"]
    /\ held' = [held EXCEPT ![n] = None]
    /\ UNCHANGED <<todo, reading, left, faults, history>>
-----------------------------------------------------------------------------
(* The wire.                                                               *)

Burst(n) == SubSeq(node[n].out, 1, MinOf(Len(node[n].out), BytesPerMs))

Senders == {n \in Nodes : node[n].out # <<>>}

\* What the wire carries: the bytes of the only sender; when several send
\* at once, those of the dominant one, or noise.
Carried ==
    {Burst(n) : n \in Senders}
      \cup (IF Cardinality(Senders) = 1 THEN {}
            ELSE {[i \in 1 .. Len(Burst(n)) |-> Noise] : n \in Senders})

\* The bytes w as each node n hears them in heard[n].
Deliver(heard) ==
    /\ Idle
    /\ (\E n \in Nodes : InCall(n)) => faults' <= MaxFaultsInCalls
    /\ todo' = Nodes
    /\ node' = [n \in Nodes |->
                  [node[n] EXCEPT
                     !.in = @ \o heard[n],
                     !.out = SubSeq(@, Len(Burst(n)) + 1, Len(@))]]
    /\ UNCHANGED <<reading, left, thread, held, history>>

Wire ==
    /\ UNCHANGED faults
    /\ \/ Senders = {} /\ Deliver([n \in Nodes |-> <<>>])
       \/ \E w \in Carried : Deliver([n \in Nodes |-> w])

Fault(kind) == kind \in Faults /\ faults < MaxFaults /\ faults' = faults + 1

Lost(w, i) == SubSeq(w, 1, i - 1) \o SubSeq(w, i + 1, Len(w))

\* What becomes of byte i of w under a fault of that kind.
Damaged(w, i) ==
    {<<"lose", Lost(w, i)>>, <<"error", [w EXCEPT ![i] = Error]>>,
     <<"noise", [w EXCEPT ![i] = Noise]>>}
      \cup (IF w[i][1] # "address" THEN {}
            ELSE {<<"misaddress", [w EXCEPT ![i] = Address(d, w[i][3])]>> :
                    d \in Receivers \ {w[i][2]}})

\* One byte is damaged or lost, for the nodes of one set.
FaultyWire ==
    \E w \in Carried :
      \E i \in 1 .. Len(w) :
        \E victims \in {{n} : n \in Nodes} \cup {Nodes} :
          \E d \in Damaged(w, i) :
            /\ Fault(d[1])
            /\ Deliver([n \in Nodes |-> IF n \in victims THEN d[2] ELSE w])

\* The interrupt of a node is late by a millisecond.
Skip(n) ==
    /\ Turn(n) /\ Fault("skip")
    /\ todo' = todo \ {n}
    /\ UNCHANGED <<node, reading, left, thread, held, history>>

\* A node restarts: Win__Initialize.
Restart(n) ==
    /\ Idle /\ Fault("restart")
    /\ node' = [node EXCEPT ![n] = Initial(n)]
    /\ thread' = [thread EXCEPT ![n] = "away"]
    /\ held' = [held EXCEPT ![n] = None]
    /\ last' = [last EXCEPT ![n] = [m \in Nodes |-> Nothing]]
    /\ restarted' = restarted \cup {n}
    /\ UNCHANGED <<todo, reading, left, queued, handed, acked>>
-----------------------------------------------------------------------------
\* Time: the wire and the interrupts.
Clock == Wire \/ \E n \in Nodes : Handle1ms(n) \/ ReadByte(n)

\* The Communication threads.
Application ==
    \E n \in Nodes :
      \/ AllocateMessage(n)
      \/ \E d \in Destinations \ {n} : QueueMessage(n, d)
      \/ RejectMessage(n)
      \/ CheckIncomingMessage(n) \/ GetIncomingMessage(n)
      \/ CheckParsedMessage(n) \/ FreeIncomingMessage(n)

Trouble == FaultyWire \/ \E n \in Nodes : Skip(n) \/ Restart(n)

Next == Clock \/ Application \/ Trouble

Spec == Init /\ [][Next]_vars

\* Time passes and the interrupts run: milliseconds begin and end for ever.
\* This is weak fairness of Clock, one step of which is always possible, as
\* state formulas.
FairSpec == Spec /\ []<>(todo = {}) /\ []<>(todo # {})
-----------------------------------------------------------------------------
(* Properties.                                                             *)

TxStates == {"idle", "grant", "sending"}
TxStatuses == {"free", "sending", "sent", "collision"}
RxStates == {"idle", "stx", "address", "sap", "size", "data", "crc", "wait"}
MessageStates == {"free", "processing", "ready"}

\* The variables of one node, the contents of the FIFOs left aside.
NodeOK(s) ==
    /\ {s.timer, s.busIdle, s.busIdleTimer, s.notSendingTimer, s.retry,
        s.retryCollision, s.rxMessageTime} \subseteq Nat
    /\ s.sentCounter \in 0 .. 255
    /\ s.remaining \in 0 .. FrameLength /\ s.check \in 0 .. FrameLength
    /\ s.txState \in TxStates /\ s.txStatus \in TxStatuses
    /\ s.rxState \in RxStates
    /\ s.txMessage \in MessageStates /\ s.rxMessage \in MessageStates

\* What a node counts, has in its buffer and has received.
CountsOK(s) ==
    /\ s.count \in 0 .. CounterLimit
    /\ s.prev \in [Nodes -> 0 .. CounterLimit]
    /\ s.txBuffer \in Messages
    /\ s.rxBuffer \in Ids \cup {None}

\* The types of the variables (Win.c, 132-247): counters stay in their
\* width and the comparison of the echo (785) stays inside the frame.
TypeOK ==
    /\ \A n \in Nodes : NodeOK(node[n]) /\ CountsOK(node[n])
    /\ todo \subseteq Nodes
    /\ reading \in Nodes \cup {None}
    /\ faults \in 0 .. MaxFaults
    /\ thread \in [Nodes -> ThreadStates]
    /\ held \in [Nodes -> Ids \cup {None}]

\* The buffer of a frame on the wire is not given to the application: the
\* transmitter runs only on a queued message, which AllocateMessage (403)
\* does not hand out, and leaves every time it frees it (996).
TxBufferKept ==
    \A n \in Nodes : node[n].txState # "idle" => node[n].txMessage = "ready"

\* A message is overwritten only when the parser has let its time pass.  The
\* receiver writes into the only buffer (SIZE, 880) while nobody is parsing,
\* or while the thread is that has seen a message (365) which the time-out
\* freed (748) before the thread took it (370).  In every other case what
\* the thread parses is the message in the buffer.
RxBufferKept ==
    \A n \in Nodes :
        LET s == node[n] IN
        /\ s.rxState \in {"data", "crc"} =>
             \/ s.rxMessage = "free"
             \/ s.rxMessage = "processing" /\ s.rxMessageTime = 0
        /\ s.rxMessage = "processing" /\ s.rxMessageTime > 0 =>
             held[n] = s.rxBuffer

\* The bus access contention is always released: while a node counts the
\* messages it has sent (996-1003), the timer whose end clears the counter
\* (574-591) is running.
ContentionReleased ==
    \A n \in Nodes : node[n].sentCounter > 0 => node[n].busIdleTimer > 0

\* The messages a node has queued, as the layers above it see them: the
\* first after a power up is the one of count 0.
Requested(n) ==
    [k \in DOMAIN queued[n] |-> [to |-> queued[n][k].to,
                                first |-> queued[n][k].count = 0]]

Service == INSTANCE WinService WITH queued <- [n \in Nodes |-> Requested(n)]

\* The driver delivers in order and at most once and acknowledges only what
\* it has delivered (GoodFrame, the count of the source and the order of the
\* answers, 904-928, against the retries, 647-708).
KeepsService == Service!Spec

\* Whatever is acknowledged, and however the counts wrap around: a message is
\* handed over only at a node it is for, in the order of the queueing and
\* once, but for the first one of its source (the address, 816-842, and the
\* count, 904-912, of frames that are cut, damaged and mixed on the wire).
DeliversInOrder == Service!DeliverySpec

\* A message queued is sent, given up or acknowledged in the end, whatever
\* the receiver does: no retry, collision or contention keeps the buffer for
\* ever once the faults stop (608-711).
MessageEnds ==
    \A n \in Nodes : node[n].txMessage = "ready" ~> node[n].txMessage # "ready"

\* "if it is a repeated message it won't be parsed" (Win.c, 907): a message
\* with a count of its own becomes READY once.
RepeatedIsNotParsed ==
    [][\A n \in Nodes :
         /\ node[n].rxMessage = "free" /\ node'[n].rxMessage = "ready"
         /\ node[n].header.count # 0
         => \E m \in Nodes : last'[n][m].id # last[n][m].id]_vars
=============================================================================
