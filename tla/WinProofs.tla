------------------------------ MODULE WinProofs ------------------------------
(***************************************************************************)
(* The safety invariants of one node of the Win bus, for every number of   *)
(* nodes and messages, every time and every bound, whatever the wire does. *)
(*                                                                         *)
(* The argument is local to a node.  Stable says what holds of its         *)
(* variables between two steps; Ticked and Mid say what is left of it      *)
(* inside Win__Handle1ms, where the timer of the contention has counted a  *)
(* millisecond that the timer of the acknowledgement has not.  Calls says  *)
(* what a call of the Communication thread may still rely on, however      *)
(* often the handler has run since it looked at the message.               *)
(***************************************************************************)
EXTENDS Win, TLAPS

Fields ==
    {"timer", "busIdle", "busIdleTimer", "notSendingTimer", "sentCounter",
     "txState", "txStatus", "txMessage", "txBuffer", "retry",
     "retryCollision", "remaining", "check", "rxState", "rxMessage",
     "rxMessageTime", "header", "rxBuffer", "rxCrc", "count", "prev",
     "in", "out"}

Margin == NodeMaxTime - IdleTime

\* The timers of silence run together: the long one lasts Margin more.
Silence(s, d) ==
    s.busIdle > 0 \/ s.txState = "sending" => s.busIdleTimer - s.busIdle >= d

\* A frame is received while no message waits or has time to be parsed.
Overwrites(s) ==
    s.rxState \in {"data", "crc"} =>
        /\ s.rxMessage # "ready"
        /\ s.rxMessage = "processing" => s.rxMessageTime = 0

Buffers(s) ==
    /\ s.txState # "idle" => s.txMessage = "ready"
    /\ Overwrites(s)

Contention(s) == s.sentCounter > 0 => s.busIdleTimer > 0

Echo(s) == s.txStatus = "sending" => s.check < FrameLength

Local(s) ==
    DOMAIN s = Fields /\ NodeOK(s) /\ Buffers(s) /\ Contention(s) /\ Echo(s)

Stable(s) == Local(s) /\ Silence(s, Margin)

Ticked(s) == Local(s) /\ Silence(s, Margin - 1)

Mid(s) == Ticked(s) /\ (s.txState = "sending" => s.busIdle > 0)

\* The message the thread at place th has seen is still there or its time is
\* over; the one it has taken, h, is the one in the buffer or its time is.
Calls(s, th, h) ==
    /\ th = "getting" => s.rxMessage = "ready" \/ s.rxMessageTime = 0
    /\ s.rxMessage = "processing" /\ s.rxMessageTime > 0 => h = s.rxBuffer

IInv ==
    /\ node = [n \in Nodes |-> node[n]]
    /\ thread \in [Nodes -> ThreadStates]
    /\ held = [n \in Nodes |-> held[n]]
    /\ \A n \in Nodes : Stable(node[n]) /\ Calls(node[n], thread[n], held[n])
    /\ reading \in Nodes \cup {None}
    /\ reading # None => node[reading].busIdleTimer > 0

LEMMA ConstantTypes ==
    /\ CounterLimit \in Nat /\ Retries \in Nat /\ CollisionRetries \in Nat
    /\ MaxNumMessages \in Nat /\ IdleTime \in Nat /\ NodeMaxTime \in Nat
    /\ PowerUpTime \in Nat /\ HoldingTime \in Nat /\ ParserTimeout \in Nat
    /\ BytesAtOnce \in Nat /\ MaxFaults \in Nat
    /\ CounterLimit > 0 /\ IdleTime > 0 /\ BytesAtOnce > 0
    /\ Margin \in Nat /\ Margin >= 2
    /\ NodeTime \in [Nodes -> Nat]
    /\ None \notin Nodes
  BY WinAssumption DEF WinAssumption, Margin

LEMMA InitialStable ==
    ASSUME NEW n \in Nodes
    PROVE  Stable(Initial(n))
  BY ConstantTypes
  DEF Initial, Stable, Local, Fields, NodeOK, Buffers, Overwrites,
      Contention, Echo, Silence, TxStates, TxStatuses, RxStates,
      MessageStates, FrameLength

(***************************************************************************)
(* WinOutgoingProcess                                                      *)
(***************************************************************************)
LEMMA ActivityStable ==
    ASSUME NEW n \in Nodes, NEW s, Stable(s)
    PROVE  /\ Stable(Activity(s, n))
           /\ Activity(s, n).in = s.in
           /\ s.in # <<>> => /\ Activity(s, n).busIdle = IdleTime
                             /\ Activity(s, n).busIdleTimer = NodeMaxTime
<1>1. CASE s.in = <<>>
  BY <1>1 DEF Activity
<1>2. CASE s.in # <<>>
  <2> DEFINE t == MaxOf(s.timer, NodeTime[n])
  <2>1. t \in Nat
    BY ConstantTypes DEF MaxOf, Stable, Local, NodeOK
  <2> HIDE DEF t
  <2>2. Activity(s, n) = [s EXCEPT !.busIdleTimer = NodeMaxTime,
                                   !.busIdle = IdleTime, !.timer = t]
    BY <1>2 DEF Activity, t
  <2> QED
    BY <2>1, <2>2, ConstantTypes
    DEF Stable, Local, Fields, NodeOK, Buffers, Overwrites, Contention,
        Echo, Silence, Margin
<1> QED
  BY <1>1, <1>2

LEMMA BusIdleTicks ==
    ASSUME NEW s, Stable(s)
    PROVE  /\ Ticked(BusIdleTick(s))
           /\ BusIdleTick(s).in = s.in
           /\ BusIdleTick(s).busIdle = s.busIdle
  BY ConstantTypes
  DEF BusIdleTick, Decremented, Stable, Ticked, Local, Fields, NodeOK,
      Buffers, Overwrites, Contention, Echo, Silence

LEMMA NotSendingTicks ==
    ASSUME NEW s, Ticked(s)
    PROVE  /\ Ticked(NotSendingTick(s))
           /\ NotSendingTick(s).in = s.in
           /\ NotSendingTick(s).busIdle = s.busIdle
  BY ConstantTypes
  DEF NotSendingTick, Decremented, Ticked, Local, Fields, NodeOK,
      Buffers, Overwrites, Contention, Echo, Silence

Dropped(s) == [DropSendingMessage(s) EXCEPT !.txState = "idle"]

\* A buffer is freed only where the timer of the contention runs.
LEMMA DropKeepsLocal ==
    ASSUME NEW s, Local(s), s.busIdleTimer > 0, s.txStatus # "sending"
    PROVE  /\ Local(Dropped(s)) /\ Dropped(s).busIdle = s.busIdle
           /\ Dropped(s).busIdleTimer = s.busIdleTimer
           /\ Dropped(s).txState = "idle"
<1> DEFINE k == MinOf(s.sentCounter + 1, 255)
<1>1. k \in 0 .. 255
  BY DEF MinOf, Local, NodeOK
<1> HIDE DEF k
<1>2. Dropped(s) = [s EXCEPT !.txMessage = "free", !.sentCounter = k,
                             !.txState = "idle"]
  BY DEF Dropped, DropSendingMessage, k
<1> QED
  BY <1>1, <1>2
  DEF Local, Fields, NodeOK, Buffers, Overwrites, Contention, Echo, TxStates,
      MessageStates

LEMMA SendDataTicked ==
    ASSUME NEW s, Ticked(s)
    PROVE  /\ Ticked(SendData(s)) /\ SendData(s).in = s.in
           /\ SendData(s).busIdle = s.busIdle
           /\ SendData(s).busIdleTimer = s.busIdleTimer
           /\ SendData(s).txState = s.txState
           /\ SendData(s).txStatus = s.txStatus
<1>1. CASE s.remaining = 0
  BY <1>1 DEF SendData
<1>2. CASE s.remaining # 0
  <2> DEFINE k == MinOf(s.remaining, BytesAtOnce)
             o == s.out \o SubSeq(Frame(s.txBuffer),
                     FrameLength - s.remaining + 1,
                     FrameLength - s.remaining + k)
  <2>1. s.remaining - k \in 0 .. FrameLength
    BY ConstantTypes DEF MinOf, Ticked, Local, NodeOK, FrameLength
  <2>2. SendData(s) = [s EXCEPT !.notSendingTimer = HoldingTime,
                                !.remaining = s.remaining - k, !.out = o]
    BY <1>2 DEF SendData
  <2> HIDE DEF k, o
  <2> QED
    BY <2>1, <2>2, ConstantTypes
    DEF Ticked, Local, Fields, NodeOK, Buffers, Overwrites, Contention,
        Echo, Silence
<1> QED
  BY <1>1, <1>2

LEMMA TxIdleMid ==
    ASSUME NEW n \in Nodes, NEW s, Ticked(s), s.txState = "idle"
    PROVE  Mid(TxIdle(s, n))
  BY DEF TxIdle, Mid, Ticked, Local, Fields, NodeOK, Buffers, Overwrites,
         Contention, Echo, Silence, TxStates

LEMMA TxGrantMid ==
    ASSUME NEW n \in Nodes, NEW s, Ticked(s), s.txState = "grant",
           s.in # <<>> => s.busIdle = IdleTime
    PROVE  Mid(TxGrant(s, n))
<1>1. CASE s.in = <<>>
  <2> DEFINE t == MaxOf(s.timer, NodeMaxTime)
  <2>1. t \in Nat
    BY ConstantTypes DEF MaxOf, Ticked, Local, NodeOK
  <2>2. TxGrant(s, n) = [s EXCEPT !.txState = "idle", !.timer = t,
                                  !.out = <<>>]
    BY <1>1 DEF TxGrant
  <2> HIDE DEF t
  <2> QED
    BY <2>1, <2>2
    DEF Mid, Ticked, Local, Fields, NodeOK, Buffers, Overwrites, Contention,
        Echo, Silence, TxStates
<1>2. CASE s.in = <<Grant(n)>>
  <2> DEFINE t == [s EXCEPT !.in = <<>>, !.txState = "sending",
                            !.txStatus = "sending", !.check = 0,
                            !.remaining = FrameLength]
  <2>1. s.in # <<>>
    BY <1>2
  <2>2. s.busIdle = IdleTime
    BY <2>1
  <2>3. Silence(t, Margin - 1)
    BY <2>2, ConstantTypes
    DEF Ticked, Local, Fields, Silence
  <2>4. Local(t) /\ t.busIdle = IdleTime /\ t.txState = "sending"
    BY <2>2 DEF Ticked, Local, Fields, NodeOK, Buffers, Overwrites,
                Contention, Echo, TxStates, TxStatuses, FrameLength
  <2>5. TxGrant(s, n) = SendData(t)
    BY <1>2, <2>1 DEF TxGrant
  <2> HIDE DEF t
  <2> QED
    BY <2>3, <2>4, <2>5, SendDataTicked, ConstantTypes DEF Mid, Ticked
<1>3. CASE s.in # <<>> /\ s.in # <<Grant(n)>>
  <2> DEFINE q == IF Len(s.in) = 1 THEN <<>> ELSE s.in
  <2>1. TxGrant(s, n) = [s EXCEPT !.txState = "idle", !.in = q]
    BY <1>3 DEF TxGrant
  <2> HIDE DEF q
  <2> QED
    BY <2>1
    DEF Mid, Ticked, Local, Fields, NodeOK, Buffers, Overwrites, Contention,
        Echo, Silence, TxStates
<1> QED
  BY <1>1, <1>2, <1>3

LEMMA TxSendingMid ==
    ASSUME NEW s, Ticked(s), s.txState = "sending"
    PROVE  Mid(TxSending(s))
<1>1. s.busIdleTimer > 0 /\ s.txMessage = "ready"
  BY ConstantTypes
  DEF Ticked, Local, NodeOK, Silence, Buffers
<1> DEFINE Out(t) == [t EXCEPT !.txState = "idle"]
<1>2. ASSUME NEW t, Ticked(t)
      PROVE  Mid(Out(t))
  BY <1>2
  DEF Mid, Ticked, Local, Fields, NodeOK, Buffers, Overwrites, Contention,
      Echo, Silence, TxStates
<1>3. ASSUME NEW t, Ticked(t), t.busIdleTimer > 0, t.txStatus # "sending"
      PROVE  Mid(Out(DropSendingMessage(t)))
  <2>1. /\ Local(Dropped(t)) /\ Dropped(t).busIdle = t.busIdle
        /\ Dropped(t).busIdleTimer = t.busIdleTimer
        /\ Dropped(t).txState = "idle"
    BY <1>3, DropKeepsLocal DEF Ticked
  <2>2. Mid(Dropped(t))
    BY <1>3, <2>1 DEF Mid, Ticked, Silence
  <2> QED
    BY <2>2 DEF Dropped
<1>4. CASE s.txStatus = "collision"
  <2>1. TxSending(s) = Out(AfterCollision(s))
    BY <1>4 DEF TxSending
  <2>2. CASE s.retryCollision > 0
    <3> DEFINE t == [s EXCEPT !.retryCollision = s.retryCollision - 1,
                              !.txMessage = "ready"]
    <3>1. Ticked(t)
      BY <2>2
      DEF Ticked, Local, Fields, NodeOK, Buffers, Overwrites, Contention,
          Echo, Silence, MessageStates
    <3>2. AfterCollision(s) = t
      BY <2>2 DEF AfterCollision
    <3> QED
      BY <1>2, <2>1, <3>1, <3>2
  <2>3. CASE ~(s.retryCollision > 0)
    BY <1>1, <1>3, <1>4, <2>1, <2>3 DEF AfterCollision
  <2> QED
    BY <2>2, <2>3
<1>5. CASE s.txStatus # "collision"
  <2> DEFINE t == SendData(s)
  <2>1. /\ Ticked(t) /\ t.busIdle = s.busIdle /\ t.txState = "sending"
        /\ t.busIdleTimer = s.busIdleTimer /\ t.txStatus = s.txStatus
    BY SendDataTicked
  <2>2. TxSending(s) = IF t.busIdle # 0 THEN t ELSE Out(AfterSilence(t))
    BY <1>5 DEF TxSending
  <2> HIDE DEF t
  <2>3. CASE t.busIdle # 0
    BY <2>1, <2>2, <2>3 DEF Mid, Ticked, Local, NodeOK
  <2>4. CASE t.busIdle = 0
    <3>1. CASE t.txStatus # "sent"
      <4>1. Ticked([t EXCEPT !.txMessage = "ready"])
        BY <2>1
        DEF Ticked, Local, Fields, NodeOK, Buffers, Overwrites, Contention,
            Echo, Silence, MessageStates
      <4> QED
        BY <1>2, <2>2, <2>4, <3>1, <4>1 DEF AfterSilence
    <3>2. CASE t.txStatus = "sent" /\ t.txBuffer.to \in Nodes /\ t.retry > 0
      <4> DEFINE u == [t EXCEPT !.retry = t.retry - 1, !.txMessage = "ready"]
      <4>1. Ticked(u)
        BY <2>1, <3>2
        DEF Ticked, Local, Fields, NodeOK, Buffers, Overwrites, Contention,
            Echo, Silence, MessageStates
      <4>2. AfterSilence(t) = u
        BY <3>2 DEF AfterSilence
      <4> QED
        BY <1>2, <2>2, <2>4, <4>1, <4>2
    <3>3. CASE t.txStatus = "sent" /\ ~(t.txBuffer.to \in Nodes /\ t.retry > 0)
      <4>1. AfterSilence(t) = DropSendingMessage(t)
        BY <3>3 DEF AfterSilence
      <4> QED
        BY <1>1, <1>3, <2>1, <2>2, <2>4, <3>3, <4>1
    <3> QED
      BY <3>1, <3>2, <3>3
  <2> QED
    BY <2>3, <2>4
<1> QED
  BY <1>4, <1>5

LEMMA OutgoingMid ==
    ASSUME NEW n \in Nodes, NEW s, Stable(s)
    PROVE  Mid(WinOutgoingProcess(s, n))
<1> DEFINE a == Activity(s, n)
           b == BusIdleTick(a)
           t == NotSendingTick(b)
<1>1. /\ Stable(a) /\ a.in = s.in
      /\ s.in # <<>> => a.busIdle = IdleTime
  BY ActivityStable
<1> HIDE DEF a
<1>2. Ticked(b) /\ b.in = s.in /\ (s.in # <<>> => b.busIdle = IdleTime)
  BY <1>1, BusIdleTicks
<1> HIDE DEF b
<1>3. Ticked(t) /\ t.in = s.in /\ (s.in # <<>> => t.busIdle = IdleTime)
  BY <1>2, NotSendingTicks
<1>4. WinOutgoingProcess(s, n) =
        CASE t.txState = "idle"    -> TxIdle(t, n)
          [] t.txState = "grant"   -> TxGrant(t, n)
          [] t.txState = "sending" -> TxSending(t)
  BY DEF WinOutgoingProcess, t, b, a
<1> HIDE DEF t
<1>5. t.txState \in {"idle", "grant", "sending"}
  BY <1>3 DEF Ticked, Local, NodeOK, TxStates
<1>6. CASE t.txState = "idle"
  BY <1>3, <1>4, <1>6, TxIdleMid
<1>7. CASE t.txState = "grant"
  BY <1>3, <1>4, <1>7, TxGrantMid
<1>8. CASE t.txState = "sending"
  BY <1>3, <1>4, <1>8, TxSendingMid
<1> QED
  BY <1>5, <1>6, <1>7, <1>8

(***************************************************************************)
(* WinIncomingProcess                                                      *)
(***************************************************************************)
LEMMA ParserTickMid ==
    ASSUME NEW s, Mid(s)
    PROVE  LET p == ParserTick(s) IN
             /\ Mid(p) /\ p.in = s.in /\ p.busIdle = s.busIdle
             /\ p.busIdleTimer = s.busIdleTimer
<1> DEFINE k == Decremented(s.rxMessageTime)
           x == IF s.rxMessageTime = 1 THEN "free" ELSE s.rxMessage
<1>1. k \in Nat
  BY DEF Decremented, Mid, Ticked, Local, NodeOK
<1>2. /\ x \in MessageStates /\ x \in {"free", s.rxMessage}
      /\ s.rxMessageTime = 0 => k = 0
  BY DEF MessageStates, Decremented, Mid, Ticked, Local, NodeOK
<1>3. ParserTick(s) = [s EXCEPT !.rxMessageTime = k, !.rxMessage = x]
  BY DEF ParserTick
<1> HIDE DEF k, x
<1> QED
  BY <1>1, <1>2, <1>3
  DEF Mid, Ticked, Local, Fields, NodeOK, Buffers, Overwrites, Contention,
      Echo, Silence

\* The short timer of silence catches up with the long one.
LEMMA SilenceTickStable ==
    ASSUME NEW s, Mid(s)
    PROVE  LET t == SilenceTick(s) IN
             /\ Stable(t) /\ t.in = s.in /\ t.busIdleTimer = s.busIdleTimer
<1> DEFINE k == Decremented(s.timer)
           i == Decremented(s.busIdle)
           x == IF s.busIdle = 0 THEN "idle" ELSE s.rxState
<1>1. k \in Nat
  BY DEF Decremented, Mid, Ticked, Local, NodeOK
<1>2. x \in RxStates /\ (x \in {"data", "crc"} => s.rxState = x)
  BY DEF RxStates, Mid, Ticked, Local, NodeOK
<1>3. i \in Nat /\ i = IF s.busIdle > 0 THEN s.busIdle - 1 ELSE 0
  BY DEF Decremented, Mid, Ticked, Local, NodeOK
<1>4. SilenceTick(s) = [s EXCEPT !.timer = k, !.busIdle = i, !.rxState = x]
  BY DEF SilenceTick
<1> HIDE DEF k, i, x
<1>5. Local([s EXCEPT !.timer = k, !.busIdle = i, !.rxState = x])
  BY <1>1, <1>2, <1>3
  DEF Mid, Ticked, Local, Fields, NodeOK, Buffers, Overwrites, Contention,
      Echo
<1>6. (i > 0 \/ s.txState = "sending") => s.busIdleTimer - i >= Margin
  BY <1>3, ConstantTypes DEF Mid, Ticked, Local, NodeOK, Silence
<1> QED
  BY <1>4, <1>5, <1>6 DEF Stable, Silence, Local, Fields, Mid, Ticked

LEMMA ActivityMid ==
    ASSUME NEW n \in Nodes, NEW s, Mid(s)
    PROVE  LET a == Activity(s, n) IN
             /\ Mid(a) /\ a.in = s.in
             /\ s.in # <<>> => a.busIdleTimer = NodeMaxTime
<1>1. CASE s.in = <<>>
  BY <1>1 DEF Activity
<1>2. CASE s.in # <<>>
  <2> DEFINE k == MaxOf(s.timer, NodeTime[n])
  <2>1. k \in Nat
    BY ConstantTypes DEF MaxOf, Mid, Ticked, Local, NodeOK
  <2>2. Activity(s, n) = [s EXCEPT !.busIdleTimer = NodeMaxTime,
                                   !.busIdle = IdleTime, !.timer = k]
    BY <1>2 DEF Activity
  <2> HIDE DEF k
  <2> QED
    BY <2>1, <2>2, ConstantTypes
    DEF Mid, Ticked, Local, Fields, NodeOK, Buffers, Overwrites, Contention,
        Echo, Silence, Margin
<1> QED
  BY <1>1, <1>2

LEMMA IncomingStable ==
    ASSUME NEW n \in Nodes, NEW s, Mid(s)
    PROVE  LET t == IncomingTimers(s, n) IN
             /\ Stable(t) /\ t.in = s.in
             /\ s.in # <<>> => t.busIdleTimer > 0
<1> DEFINE a == Activity(s, n)
           p == ParserTick(a)
           t == SilenceTick(p)
<1>1. /\ Mid(a) /\ a.in = s.in
      /\ s.in # <<>> => a.busIdleTimer = NodeMaxTime
  BY ActivityMid
<1> HIDE DEF a
<1>2. Mid(p) /\ p.in = a.in /\ p.busIdleTimer = a.busIdleTimer
  BY <1>1, ParserTickMid
<1> HIDE DEF p
<1>3. Stable(t) /\ t.in = p.in /\ t.busIdleTimer = p.busIdleTimer
  BY <1>2, SilenceTickStable
<1>4. IncomingTimers(s, n) = t
  BY DEF IncomingTimers, t, p, a
<1>5. NodeMaxTime > 0
  BY ConstantTypes DEF Margin
<1> HIDE DEF t
<1> QED
  BY <1>1, <1>2, <1>3, <1>4, <1>5, ConstantTypes

LEMMA HandlerStable ==
    ASSUME NEW n \in Nodes, NEW s, Stable(s)
    PROVE  LET t == IncomingTimers(WinOutgoingProcess(s, n), n) IN
             Stable(t) /\ (t.in # <<>> => t.busIdleTimer > 0)
  BY OutgoingMid, IncomingStable

\* What every step of the reading loop has to keep.
Reads(s, t) == Stable(t) /\ t.busIdleTimer = s.busIdleTimer

LEMMA CheckEchoReads ==
    ASSUME NEW s, NEW b, Stable(s), s.txStatus = "sending"
    PROVE  Reads(s, CheckEcho(s, b))
<1>1. s.check + 1 \in 0 .. FrameLength
  BY DEF Stable, Local, NodeOK, Echo, FrameLength
<1>2. CASE b # Frame(s.txBuffer)[s.check + 1]
  <2>1. CheckEcho(s, b) = [s EXCEPT !.rxState = "idle",
                              !.txStatus = "collision", !.out = <<>>]
    BY <1>2 DEF CheckEcho
  <2> QED
    BY <2>1
    DEF Reads, Stable, Local, Fields, NodeOK, Buffers, Overwrites,
        Contention, Echo, Silence, TxStatuses, RxStates
<1>3. CASE b = Frame(s.txBuffer)[s.check + 1]
  <2> DEFINE x == IF s.check + 1 >= FrameLength THEN "sent" ELSE s.txStatus
  <2>1. x \in TxStatuses /\ (x = "sending" => s.check + 1 < FrameLength)
    BY <1>1 DEF TxStatuses, Stable, Local, NodeOK, FrameLength
  <2>2. CheckEcho(s, b) = [s EXCEPT !.rxState = "idle",
                              !.check = s.check + 1, !.txStatus = x]
    BY <1>3 DEF CheckEcho
  <2> HIDE DEF x
  <2> QED
    BY <1>1, <2>1, <2>2
    DEF Reads, Stable, Local, Fields, NodeOK, Buffers, Overwrites,
        Contention, Echo, Silence, RxStates
<1> QED
  BY <1>2, <1>3

LEMMA RxStxReads ==
    ASSUME NEW s, NEW b, Stable(s), s.busIdleTimer > 0,
           s.txStatus # "sending"
    PROVE  Reads(s, RxStx(s, b))
<1>1. ASSUME NEW x \in {"address", "idle"}
      PROVE  /\ Reads(s, [s EXCEPT !.rxState = x])
             /\ Reads(s, [s EXCEPT !.rxState = x, !.rxCrc = <<>>])
  BY DEF Reads, Stable, Local, Fields, NodeOK, Buffers, Overwrites,
         Contention, Echo, Silence, RxStates
<1>2. CASE b = Ack /\ s.txState = "sending"
  <2> DEFINE t == Dropped(s)
  <2>1. Local(t) /\ t.busIdle = s.busIdle /\ t.txState = "idle"
        /\ t.busIdleTimer = s.busIdleTimer
    BY DropKeepsLocal DEF Stable
  <2>2. RxStx(s, b) = [t EXCEPT !.rxState = "idle"]
    <3>1. DropSendingMessage(s) = [s EXCEPT !.txMessage = "free",
                              !.sentCounter = MinOf(s.sentCounter + 1, 255)]
      BY DEF DropSendingMessage
    <3> QED
      BY <1>2, <3>1 DEF RxStx, Dropped, Ack, Stx
  <2> HIDE DEF t
  <2> QED
    BY <2>1, <2>2
    DEF Reads, Stable, Local, Fields, NodeOK, Buffers, Overwrites,
        Contention, Echo, Silence, RxStates
<1>3. CASE ~(b = Ack /\ s.txState = "sending")
  BY <1>1, <1>3 DEF RxStx
<1> QED
  BY <1>2, <1>3

\* What the reception of a frame leaves alone.
Keeps(s, t) ==
    /\ DOMAIN t = Fields
    /\ \A f \in {"timer", "busIdle", "busIdleTimer", "notSendingTimer",
                 "sentCounter", "txState", "txStatus", "txMessage", "retry",
                 "retryCollision", "remaining", "check", "count"} :
         t[f] = s[f]

LEMMA ReceptionReads ==
    ASSUME NEW s, NEW t, Stable(s), Keeps(s, t),
           t.rxState \in RxStates, t.rxMessage \in MessageStates,
           t.rxMessageTime \in Nat,
           Overwrites(t)
    PROVE  Reads(s, t)
  BY DEF Reads, Keeps, Stable, Local, NodeOK, Buffers, Overwrites,
         Contention, Echo, Silence

LEMMA StableReception ==
    ASSUME NEW s, Stable(s)
    PROVE  /\ DOMAIN s = Fields
           /\ s.rxState \in RxStates /\ s.rxMessage \in MessageStates
           /\ s.rxMessageTime \in Nat
           /\ Overwrites(s)
  BY DEF Stable, Local, NodeOK, Buffers, Overwrites

LEMMA RxAddressReads ==
    ASSUME NEW n \in Nodes, NEW s, NEW b, Stable(s)
    PROVE  Reads(s, RxAddress(s, n, b))
<1> DEFINE t == RxAddress(s, n, b)
<1>1. /\ Keeps(s, t) /\ t.rxState \in {"wait", "sap"}
      /\ t.rxMessage = s.rxMessage /\ t.rxMessageTime = s.rxMessageTime
  BY StableReception DEF RxAddress, Keeps, Fields
<1> HIDE DEF t
<1> QED
  BY <1>1, StableReception, ReceptionReads DEF RxStates, Overwrites, t

LEMMA RxSapReads ==
    ASSUME NEW s, NEW b, Stable(s)
    PROVE  Reads(s, RxSap(s, b))
<1> DEFINE t == RxSap(s, b)
<1>1. /\ Keeps(s, t) /\ t.rxState = "size"
      /\ t.rxMessage = s.rxMessage /\ t.rxMessageTime = s.rxMessageTime
  BY StableReception DEF RxSap, Keeps, Fields
<1> HIDE DEF t
<1> QED
  BY <1>1, StableReception, ReceptionReads DEF RxStates, Overwrites, t

LEMMA RxSizeReads ==
    ASSUME NEW s, NEW b, Stable(s)
    PROVE  Reads(s, RxSize(s, b))
<1> DEFINE t == RxSize(s, b)
<1>1. /\ Keeps(s, t)
      /\ t.rxState \in {"data", "wait"}
      /\ t.rxState = "data" => s.rxMessage = "free"
      /\ t.rxMessage = s.rxMessage /\ t.rxMessageTime = s.rxMessageTime
  BY StableReception DEF RxSize, Keeps, Fields
<1> HIDE DEF t
<1> QED
  BY <1>1, StableReception, ReceptionReads DEF RxStates, Overwrites, t

LEMMA RxDataReads ==
    ASSUME NEW s, NEW b, Stable(s), s.rxState = "data"
    PROVE  Reads(s, RxData(s, b))
<1> DEFINE t == RxData(s, b)
<1>1. /\ Keeps(s, t) /\ t.rxState = "crc"
      /\ t.rxMessage = s.rxMessage /\ t.rxMessageTime = s.rxMessageTime
  BY StableReception DEF RxData, Keeps, Fields
<1> HIDE DEF t
<1> QED
  BY <1>1, StableReception, ReceptionReads DEF RxStates, Overwrites, t

LEMMA RxCrcReads ==
    ASSUME NEW n \in Nodes, NEW s, NEW b, Stable(s)
    PROVE  Reads(s, RxCrc(s, n, b))
<1> DEFINE a == Accepted(s)
           t == RxCrc(s, n, b)
<1>1. CASE ~GoodFrame(s, b)
  <2>1. /\ Keeps(s, t) /\ t.rxState = "idle"
        /\ t.rxMessage = s.rxMessage /\ t.rxMessageTime = s.rxMessageTime
    BY <1>1, StableReception DEF RxCrc, Keeps, Fields
  <2> HIDE DEF t
  <2> QED
    BY <2>1, StableReception, ReceptionReads DEF RxStates, Overwrites, t
<1>2. CASE GoodFrame(s, b)
  <2>1. /\ Keeps(s, a)
        /\ a.rxMessage \in MessageStates /\ a.rxMessageTime \in Nat
    BY StableReception, ConstantTypes
    DEF Accepted, Keeps, Fields, MessageStates
  <2> DEFINE o == IF s.header.to = n THEN a.out \o <<Dle, Ack>> ELSE a.out
  <2>2. t = [a EXCEPT !.rxState = "idle",
                      !.prev[s.header.from] = s.header.count, !.out = o]
    BY <1>2 DEF RxCrc
  <2> HIDE DEF a, o, t
  <2>3. /\ Keeps(s, t) /\ t.rxState = "idle"
        /\ t.rxMessage = a.rxMessage /\ t.rxMessageTime = a.rxMessageTime
    BY <2>1, <2>2 DEF Keeps, Fields
  <2>4. Reads(s, t)
    BY <2>1, <2>3, ReceptionReads DEF RxStates, Overwrites
  <2> QED
    BY <2>4 DEF t, a
<1> QED
  BY <1>1, <1>2

LEMMA ReceivedReads ==
    ASSUME NEW n \in Nodes, NEW s, NEW b, Stable(s), s.busIdleTimer > 0
    PROVE  Reads(s, Received(s, n, b))
<1>1. ASSUME NEW x \in {"stx", "idle"}
      PROVE  Reads(s, [s EXCEPT !.rxState = x])
  <2> DEFINE t == [s EXCEPT !.rxState = x]
  <2>1. /\ Keeps(s, t) /\ t.rxState = x
        /\ t.rxMessage = s.rxMessage /\ t.rxMessageTime = s.rxMessageTime
    BY StableReception DEF Keeps, Fields
  <2> HIDE DEF t
  <2>2. Reads(s, t)
    BY <2>1, StableReception, ReceptionReads DEF RxStates, Overwrites
  <2> QED
    BY <2>2 DEF t
<1>2. CASE s.txStatus = "sending"
  BY <1>2, CheckEchoReads DEF Received
<1>3. CASE s.txStatus # "sending" /\ b = Error
  BY <1>1, <1>3 DEF Received
<1>4. CASE s.txStatus # "sending" /\ b # Error
  <2>1. s.rxState \in RxStates
    BY StableReception
  <2>2. CASE s.rxState = "idle"
    BY <1>1, <1>4, <2>2 DEF Received
  <2>3. CASE s.rxState = "stx"
    BY <1>4, <2>3, RxStxReads DEF Received
  <2>4. CASE s.rxState = "address"
    BY <1>4, <2>4, RxAddressReads DEF Received
  <2>5. CASE s.rxState = "sap"
    BY <1>4, <2>5, RxSapReads DEF Received
  <2>6. CASE s.rxState = "size"
    BY <1>4, <2>6, RxSizeReads DEF Received
  <2>7. CASE s.rxState = "data"
    BY <1>4, <2>7, RxDataReads DEF Received
  <2>8. CASE s.rxState = "crc"
    BY <1>4, <2>8, RxCrcReads DEF Received
  <2>9. CASE s.rxState = "wait"
    BY <1>4, <2>9 DEF Received, Reads
  <2> QED
    BY <2>1, <2>2, <2>3, <2>4, <2>5, <2>6, <2>7, <2>8, <2>9 DEF RxStates
<1> QED
  BY <1>2, <1>3, <1>4

(***************************************************************************)
(* The received message.                                                   *)
(***************************************************************************)
SameMessage(s, t) ==
    /\ DOMAIN t = Fields
    /\ t.rxMessage = s.rxMessage /\ t.rxMessageTime = s.rxMessageTime
    /\ t.rxBuffer = s.rxBuffer

LEMMA TicksSameMessage ==
    ASSUME NEW n \in Nodes, NEW s, DOMAIN s = Fields
    PROVE  /\ SameMessage(s, Activity(s, n))
           /\ SameMessage(s, BusIdleTick(s))
           /\ SameMessage(s, NotSendingTick(s))
           /\ SameMessage(s, SilenceTick(s))
           /\ SameMessage(s, SendData(s))
           /\ SameMessage(s, DropSendingMessage(s))
  BY DEF SameMessage, Activity, BusIdleTick, NotSendingTick, SilenceTick,
         SendData, DropSendingMessage, Fields

LEMMA SameTwice ==
    ASSUME NEW s, NEW t, NEW u, SameMessage(s, t), SameMessage(t, u)
    PROVE  SameMessage(s, u)
  BY DEF SameMessage

LEMMA TxSameMessage ==
    ASSUME NEW n \in Nodes, NEW s, DOMAIN s = Fields
    PROVE  /\ SameMessage(s, TxIdle(s, n))
           /\ SameMessage(s, TxGrant(s, n))
           /\ SameMessage(s, TxSending(s))
<1>1. SameMessage(s, TxIdle(s, n))
  BY DEF SameMessage, TxIdle, Fields
<1>2. SameMessage(s, TxGrant(s, n))
  <2> DEFINE t == [s EXCEPT !.in = <<>>, !.txState = "sending",
                            !.txStatus = "sending", !.check = 0,
                            !.remaining = FrameLength]
  <2>1. SameMessage(s, t)
    BY DEF SameMessage, Fields
  <2>2. \/ TxGrant(s, n) = SendData(t)
        \/ SameMessage(s, TxGrant(s, n))
    BY DEF TxGrant, SameMessage, Fields
  <2> HIDE DEF t
  <2>3. SameMessage(s, SendData(t))
    BY <2>1, TicksSameMessage, SameTwice DEF SameMessage
  <2> QED
    BY <2>2, <2>3
<1>3. SameMessage(s, TxSending(s))
  <2> DEFINE Out(t) == [t EXCEPT !.txState = "idle"]
  <2>1. ASSUME NEW t, DOMAIN t = Fields
        PROVE  /\ SameMessage(t, Out(t))
               /\ SameMessage(t, AfterCollision(t))
               /\ SameMessage(t, AfterSilence(t))
    <3>1. SameMessage(t, DropSendingMessage(t))
      BY <2>1, TicksSameMessage
    <3> QED
      BY <2>1, <3>1 DEF SameMessage, AfterCollision, AfterSilence, Fields
  <2>2. SameMessage(s, SendData(s))
    BY TicksSameMessage
  <2> HIDE DEF Out
  <2>3. \/ TxSending(s) = Out(AfterCollision(s))
        \/ TxSending(s) = SendData(s)
        \/ TxSending(s) = Out(AfterSilence(SendData(s)))
    BY DEF TxSending, Out
  <2>4. SameMessage(s, Out(AfterCollision(s)))
    BY <2>1, SameTwice DEF SameMessage
  <2>5. SameMessage(s, Out(AfterSilence(SendData(s))))
    <3>1. SameMessage(s, AfterSilence(SendData(s)))
      BY <2>1, <2>2, SameTwice DEF SameMessage
    <3> QED
      BY <2>1, <3>1, SameTwice DEF SameMessage
  <2> QED
    BY <2>2, <2>3, <2>4, <2>5
<1> QED
  BY <1>1, <1>2, <1>3

LEMMA OutgoingSameMessage ==
    ASSUME NEW n \in Nodes, NEW s, Stable(s)
    PROVE  SameMessage(s, WinOutgoingProcess(s, n))
<1> DEFINE a == Activity(s, n)
           b == BusIdleTick(a)
           t == NotSendingTick(b)
<1>1. DOMAIN s = Fields
  BY DEF Stable, Local
<1>2. Stable(a) /\ SameMessage(s, a)
  BY <1>1, ActivityStable, TicksSameMessage
<1> HIDE DEF a
<1>3. Ticked(b) /\ SameMessage(s, b)
  BY <1>2, BusIdleTicks, TicksSameMessage, SameTwice DEF SameMessage
<1> HIDE DEF b
<1>4. Ticked(t) /\ SameMessage(s, t)
  BY <1>3, NotSendingTicks, TicksSameMessage, SameTwice DEF SameMessage
<1>5. WinOutgoingProcess(s, n) =
        CASE t.txState = "idle"    -> TxIdle(t, n)
          [] t.txState = "grant"   -> TxGrant(t, n)
          [] t.txState = "sending" -> TxSending(t)
  BY DEF WinOutgoingProcess, t, b, a
<1> HIDE DEF t
<1>6. DOMAIN t = Fields /\ t.txState \in {"idle", "grant", "sending"}
  BY <1>4 DEF Ticked, Local, NodeOK, TxStates
<1>7. /\ SameMessage(s, TxIdle(t, n)) /\ SameMessage(s, TxGrant(t, n))
      /\ SameMessage(s, TxSending(t))
  BY <1>4, <1>6, TxSameMessage, SameTwice
<1> QED
  BY <1>5, <1>6, <1>7

LEMMA SameCalls ==
    ASSUME NEW s, NEW t, NEW th, NEW h, SameMessage(s, t), Calls(s, th, h)
    PROVE  Calls(t, th, h)
  BY DEF SameMessage, Calls

\* The time-out frees the message (748); after it the time is over.
LEMMA ParserTickCalls ==
    ASSUME NEW s, NEW th, NEW h, DOMAIN s = Fields, s.rxMessageTime \in Nat,
           Calls(s, th, h)
    PROVE  Calls(ParserTick(s), th, h)
<1> DEFINE k == Decremented(s.rxMessageTime)
           x == IF s.rxMessageTime = 1 THEN "free" ELSE s.rxMessage
           t == ParserTick(s)
<1>1. /\ t.rxMessageTime = k /\ t.rxMessage = x /\ t.rxBuffer = s.rxBuffer
  BY DEF ParserTick, Fields
<1>2. /\ k > 0 => s.rxMessageTime > 0 /\ x = s.rxMessage
      /\ s.rxMessageTime = 0 => k = 0
      /\ k = 0 \/ x = s.rxMessage
  BY DEF Decremented
<1>3. k \in Nat
  BY DEF Decremented
<1> HIDE DEF k, x, t
<1>4. Calls(t, th, h)
  BY <1>1, <1>2, <1>3 DEF Calls
<1> QED
  BY <1>4 DEF t

LEMMA HandlerCalls ==
    ASSUME NEW n \in Nodes, NEW s, NEW th, NEW h, Stable(s), Calls(s, th, h)
    PROVE  Calls(IncomingTimers(WinOutgoingProcess(s, n), n), th, h)
<1> DEFINE o == WinOutgoingProcess(s, n)
           a == Activity(o, n)
           p == ParserTick(a)
<1>1. Mid(o) /\ SameMessage(s, o)
  BY OutgoingMid, OutgoingSameMessage
<1> HIDE DEF o
<1>2. Mid(a) /\ SameMessage(s, a)
  BY <1>1, ActivityMid, TicksSameMessage, SameTwice DEF SameMessage
<1> HIDE DEF a
<1>3. Calls(p, th, h) /\ DOMAIN p = Fields
  <2>1. /\ DOMAIN a = Fields /\ a.rxMessageTime \in Nat /\ Calls(a, th, h)
    BY <1>2, SameCalls DEF Mid, Ticked, Local, NodeOK
  <2>2. DOMAIN p = Fields
    BY <2>1 DEF ParserTick
  <2> QED
    BY <2>1, <2>2, ParserTickCalls
<1> HIDE DEF p
<1>4. Calls(SilenceTick(p), th, h)
  BY <1>3, TicksSameMessage, SameCalls
<1> QED
  BY <1>4 DEF IncomingTimers, o, a, p

\* A byte changes the message in the buffer only when its time is over.
LEMMA ReceivedCalls ==
    ASSUME NEW n \in Nodes, NEW s, NEW b, NEW th, NEW h, Stable(s),
           Calls(s, th, h)
    PROVE  Calls(Received(s, n, b), th, h)
<1>1. DOMAIN s = Fields /\ s.rxMessageTime \in Nat /\ Overwrites(s)
  BY StableReception
<1>2. /\ SameMessage(s, CheckEcho(s, b)) /\ SameMessage(s, RxAddress(s, n, b))
      /\ SameMessage(s, RxSap(s, b)) /\ SameMessage(s, RxSize(s, b))
      /\ SameMessage(s, [s EXCEPT !.rxState = "idle"])
      /\ SameMessage(s, [s EXCEPT !.rxState = "stx"]) /\ SameMessage(s, s)
  BY <1>1 DEF SameMessage, CheckEcho, RxAddress, RxSap, RxSize, Fields
<1>3. SameMessage(s, RxStx(s, b))
  <2>1. SameMessage(s, DropSendingMessage(s))
    BY <1>1, TicksSameMessage
  <2> QED
    BY <1>1, <2>1 DEF RxStx, SameMessage, Fields
<1>4. CASE s.rxState = "data"
  <2> DEFINE t == RxData(s, b)
  <2>1. /\ t.rxMessage = s.rxMessage /\ t.rxMessageTime = s.rxMessageTime
        /\ s.rxMessage = "processing" => s.rxMessageTime = 0
    BY <1>1, <1>4 DEF RxData, Fields, Overwrites
  <2> HIDE DEF t
  <2>2. Calls(t, th, h)
    BY <1>1, <2>1 DEF Calls
  <2>3. \/ Received(s, n, b) = CheckEcho(s, b) \/ Received(s, n, b) = t
        \/ Received(s, n, b) = [s EXCEPT !.rxState = "idle"]
    BY <1>4 DEF Received, t
  <2> QED
    BY <1>2, <2>2, <2>3, SameCalls
<1>5. Calls(RxCrc(s, n, b), th, h)
  <2> DEFINE a == Accepted(s)
             t == RxCrc(s, n, b)
  <2>1. CASE GoodFrame(s, b) /\ IsNew(s)
    <3>1. t.rxMessage = "ready"
      BY <1>1, <2>1 DEF RxCrc, Accepted, Fields
    <3> HIDE DEF t
    <3>2. Calls(t, th, h)
      BY <3>1 DEF Calls
    <3> QED
      BY <3>2 DEF t
  <2>2. CASE ~(GoodFrame(s, b) /\ IsNew(s))
    <3>1. SameMessage(s, t)
      BY <1>1, <2>2 DEF RxCrc, Accepted, SameMessage, Fields
    <3> HIDE DEF t
    <3>2. Calls(t, th, h)
      BY <3>1, SameCalls
    <3> QED
      BY <3>2 DEF t
  <2> QED
    BY <2>1, <2>2
<1>6. CASE s.rxState # "data"
  <2> DEFINE t == Received(s, n, b)
  <2>1. \/ t = CheckEcho(s, b) \/ t = [s EXCEPT !.rxState = "idle"]
        \/ t = [s EXCEPT !.rxState = "stx"] \/ t = RxStx(s, b)
        \/ t = RxAddress(s, n, b) \/ t = RxSap(s, b) \/ t = RxSize(s, b)
        \/ t = RxCrc(s, n, b) \/ t = s
    <3>1. s.rxState \in RxStates
      BY StableReception
    <3> QED
      BY <1>6, <3>1 DEF Received, RxStates
  <2> HIDE DEF t
  <2>2. Calls(t, th, h)
    BY <1>2, <1>3, <1>5, <2>1, SameCalls
  <2> QED
    BY <2>2 DEF t
<1> QED
  BY <1>4, <1>6

(***************************************************************************)
(* The actions.                                                            *)
(***************************************************************************)
LEMMA FifosStable ==
    ASSUME NEW s, NEW x, NEW y, Stable(s)
    PROVE  /\ Reads(s, [s EXCEPT !.in = x])
           /\ Reads(s, [s EXCEPT !.in = x, !.out = y])
  BY DEF Reads, Stable, Local, Fields, NodeOK, Buffers, Overwrites,
         Contention, Echo, Silence

LEMMA CallsStable ==
    ASSUME NEW s, Stable(s)
    PROVE  /\ s.txMessage = "free" =>
                Stable([s EXCEPT !.txMessage = "processing"])
           /\ s.txMessage = "processing" =>
                Stable([s EXCEPT !.txMessage = "free"])
           /\ s.rxMessage = "ready" \/ s.rxMessageTime = 0 =>
                Stable([s EXCEPT !.rxMessage = "processing"])
           /\ Stable([s EXCEPT !.rxMessage = "free"])
  BY DEF Stable, Local, Fields, NodeOK, Buffers, Overwrites, Contention,
         Echo, Silence, MessageStates

LEMMA QueueStable ==
    ASSUME NEW s, NEW b, NEW c, Stable(s), s.txMessage = "processing"
    PROVE  Stable([s EXCEPT !.txBuffer = b, !.count = c, !.retry = Retries,
                            !.retryCollision = CollisionRetries,
                            !.txMessage = "ready"])
  BY ConstantTypes
  DEF Stable, Local, Fields, NodeOK, Buffers, Overwrites, Contention, Echo,
      Silence, MessageStates

\* One node changes, with its thread, and no node is reading or the timer of
\* the one that does is running.
LEMMA NodeStep ==
    ASSUME IInv, NEW n \in Nodes, NEW t, NEW th \in ThreadStates, NEW h,
           Stable(t), Calls(t, th, h),
           node' = [node EXCEPT ![n] = t],
           thread' = [thread EXCEPT ![n] = th],
           held' = [held EXCEPT ![n] = h],
           \/ reading' = None
           \/ reading' = n /\ t.busIdleTimer > 0
    PROVE  IInv'
<1>1. node' = [m \in Nodes |-> IF m = n THEN t ELSE node[m]]
  BY DEF IInv
<1>2. reading' # None => node'[reading'].busIdleTimer > 0
  BY <1>1
<1>3. /\ thread' = [m \in Nodes |-> IF m = n THEN th ELSE thread[m]]
      /\ held' = [m \in Nodes |-> IF m = n THEN h ELSE held[m]]
  BY DEF IInv
<1>4. \A m \in Nodes :
         Stable(node'[m]) /\ Calls(node'[m], thread'[m], held'[m])
  BY <1>1, <1>3 DEF IInv
<1> QED
  BY <1>1, <1>2, <1>3, <1>4 DEF IInv

LEMMA SameThread ==
    ASSUME IInv, NEW n \in Nodes, NEW t, Stable(t),
           Calls(t, thread[n], held[n]),
           node' = [node EXCEPT ![n] = t], UNCHANGED <<thread, held>>,
           \/ reading' = None
           \/ reading' = n /\ t.busIdleTimer > 0
    PROVE  IInv'
<1> DEFINE th == thread[n]
           h == held[n]
<1>1. /\ th \in ThreadStates /\ Calls(t, th, h)
      /\ thread' = [thread EXCEPT ![n] = th]
      /\ held' = [held EXCEPT ![n] = h]
  BY DEF IInv
<1> HIDE DEF th, h
<1> QED
  BY <1>1, NodeStep

LEMMA InitInvariant == Init => IInv
<1>1. SUFFICES ASSUME Init PROVE IInv
  OBVIOUS
<1>2. \A n \in Nodes : Initial(n).rxMessage = "free"
  BY DEF Initial
<1>3. \A n \in Nodes : Calls(node[n], thread[n], held[n])
  BY <1>1, <1>2 DEF Init, Calls
<1> QED
  BY <1>1, <1>3, InitialStable DEF Init, IInv, ThreadStates

LEMMA ClockInvariant ==
    ASSUME IInv, NEW n \in Nodes, Handle1ms(n) \/ ReadByte(n)
    PROVE  IInv'
<1>1. CASE Handle1ms(n)
  <2> DEFINE t == IncomingTimers(WinOutgoingProcess(node[n], n), n)
             bytes == IF t.txState = "grant" THEN 0 ELSE Len(t.in)
  <2>1. Stable(t) /\ (t.in # <<>> => t.busIdleTimer > 0)
    BY HandlerStable DEF IInv
  <2>2. /\ node' = [node EXCEPT ![n] = t]
        /\ reading' = IF bytes > 0 THEN n ELSE None
        /\ UNCHANGED <<thread, held>>
    BY <1>1 DEF Handle1ms
  <2>3. bytes > 0 => t.in # <<>>
    OBVIOUS
  <2>4. Calls(t, thread[n], held[n])
    BY HandlerCalls DEF IInv
  <2> HIDE DEF t, bytes
  <2> QED
    BY <2>1, <2>2, <2>3, <2>4, SameThread
<1>2. CASE ReadByte(n)
  <2> DEFINE b == Head(node[n].in)
             s == [node[n] EXCEPT !.in = Tail(@)]
             t == Received(s, n, b)
  <2>1. Stable(s) /\ s.busIdleTimer > 0
    <3>1. Stable(node[n]) /\ node[n].busIdleTimer > 0
      BY <1>2, ConstantTypes DEF IInv, ReadByte
    <3> QED
      BY <3>1, FifosStable DEF Reads
  <2>2. /\ node' = [node EXCEPT ![n] = t]
        /\ reading' \in {None, n}
        /\ UNCHANGED <<thread, held>>
    BY <1>2 DEF ReadByte
  <2>3. Calls(s, thread[n], held[n])
    <3>1. DOMAIN node[n] = Fields /\ Calls(node[n], thread[n], held[n])
      BY DEF IInv, Stable, Local
    <3>2. SameMessage(node[n], s)
      BY <3>1 DEF SameMessage, Fields
    <3> QED
      BY <3>1, <3>2, SameCalls
  <2> HIDE DEF s
  <2>4. Stable(t) /\ t.busIdleTimer > 0
    BY <2>1, ReceivedReads DEF Reads
  <2>5. Calls(t, thread[n], held[n])
    BY <2>1, <2>3, ReceivedCalls
  <2> HIDE DEF t
  <2> QED
    BY <2>2, <2>4, <2>5, SameThread
<1> QED
  BY <1>1, <1>2

\* A call for the message to send leaves the received one alone.
LEMMA SendCalls ==
    ASSUME NEW s, Stable(s), NEW b, NEW c, NEW x, NEW th, NEW h,
           Calls(s, th, h)
    PROVE  /\ Calls([s EXCEPT !.txMessage = x], th, h)
           /\ Calls([s EXCEPT !.txBuffer = b, !.count = c, !.retry = Retries,
                              !.retryCollision = CollisionRetries,
                              !.txMessage = x], th, h)
  BY DEF Calls, Stable, Local, Fields

LEMMA SendInvariant ==
    ASSUME IInv, NEW n \in Nodes,
           \/ AllocateMessage(n) \/ RejectMessage(n)
           \/ \E d \in Destinations \ {n} : QueueMessage(n, d)
    PROVE  IInv'
<1>1. Stable(node[n]) /\ Calls(node[n], thread[n], held[n])
  BY DEF IInv
<1>2. CASE AllocateMessage(n)
  <2> DEFINE t == [node[n] EXCEPT !.txMessage = "processing"]
  <2>1. /\ node' = [node EXCEPT ![n] = t] /\ reading' = None
        /\ UNCHANGED <<thread, held>>
    BY <1>2 DEF AllocateMessage, Idle
  <2>2. Stable(t) /\ Calls(t, thread[n], held[n])
    BY <1>1, <1>2, CallsStable, SendCalls DEF AllocateMessage
  <2> HIDE DEF t
  <2> QED
    BY <2>1, <2>2, SameThread
<1>3. ASSUME NEW d \in Destinations \ {n}, QueueMessage(n, d)
      PROVE  IInv'
  <2> DEFINE s == node[n]
             b == [to |-> d, from |-> n, count |-> s.count,
                   id |-> <<n, Len(queued[n]) + 1>>]
             c == NextCount(s.count)
             t == [s EXCEPT !.txBuffer = b, !.count = c,
                            !.retry = Retries,
                            !.retryCollision = CollisionRetries,
                            !.txMessage = "ready"]
  <2>1. /\ node' = [node EXCEPT ![n] = t] /\ reading' = None
        /\ UNCHANGED <<thread, held>>
    BY <1>3 DEF QueueMessage, Idle
  <2>2. Stable(t) /\ Calls(t, thread[n], held[n])
    <3>1. s.txMessage = "processing"
      BY <1>3 DEF QueueMessage
    <3> HIDE DEF b, c
    <3> QED
      BY <1>1, <3>1, QueueStable, SendCalls
  <2> HIDE DEF t
  <2> QED
    BY <2>1, <2>2, SameThread
<1>4. CASE RejectMessage(n)
  <2> DEFINE t == [node[n] EXCEPT !.txMessage = "free"]
  <2>1. /\ node' = [node EXCEPT ![n] = t] /\ reading' = None
        /\ UNCHANGED <<thread, held>>
    BY <1>4 DEF RejectMessage, Idle
  <2>2. Stable(t) /\ Calls(t, thread[n], held[n])
    BY <1>1, <1>4, CallsStable, SendCalls DEF RejectMessage
  <2> HIDE DEF t
  <2> QED
    BY <2>1, <2>2, SameThread
<1> QED
  BY <1>2, <1>3, <1>4

LEMMA ReceiveInvariant ==
    ASSUME IInv, NEW n \in Nodes,
           \/ CheckIncomingMessage(n) \/ GetIncomingMessage(n)
           \/ CheckParsedMessage(n) \/ FreeIncomingMessage(n)
    PROVE  IInv'
<1>1. /\ Stable(node[n]) /\ Calls(node[n], thread[n], held[n])
      /\ DOMAIN node[n] = Fields
      /\ node = [node EXCEPT ![n] = node[n]]
      /\ held = [held EXCEPT ![n] = held[n]]
  BY DEF IInv, Stable, Local
<1>2. CASE CheckIncomingMessage(n)
  <2>1. /\ node' = [node EXCEPT ![n] = node[n]] /\ reading' = None
        /\ thread' = [thread EXCEPT ![n] = "getting"]
        /\ held' = [held EXCEPT ![n] = held[n]]
        /\ node[n].rxMessage = "ready"
    BY <1>1, <1>2 DEF CheckIncomingMessage, Idle
  <2>2. Calls(node[n], "getting", held[n])
    BY <2>1 DEF Calls
  <2> QED
    BY <1>1, <2>1, <2>2, NodeStep DEF ThreadStates
<1>3. CASE GetIncomingMessage(n)
  <2> DEFINE t == [node[n] EXCEPT !.rxMessage = "processing"]
  <2>1. /\ node' = [node EXCEPT ![n] = t] /\ reading' = None
        /\ thread' = [thread EXCEPT ![n] = "parsing"]
        /\ held' = [held EXCEPT ![n] = node[n].rxBuffer]
        /\ thread[n] = "getting"
    BY <1>3 DEF GetIncomingMessage, Idle
  <2>2. node[n].rxMessage = "ready" \/ node[n].rxMessageTime = 0
    BY <1>1, <2>1 DEF Calls
  <2>3. Stable(t)
    BY <1>1, <2>2, CallsStable
  <2>4. Calls(t, "parsing", node[n].rxBuffer)
    BY <1>1 DEF Calls, Fields
  <2> HIDE DEF t
  <2> QED
    BY <2>1, <2>3, <2>4, NodeStep DEF ThreadStates
<1>4. CASE CheckParsedMessage(n)
  <2>1. CASE node[n].rxMessage = "processing"
    <3>1. /\ node' = [node EXCEPT ![n] = node[n]] /\ reading' = None
          /\ thread' = [thread EXCEPT ![n] = "freeing"]
          /\ held' = [held EXCEPT ![n] = held[n]]
      BY <1>1, <1>4, <2>1 DEF CheckParsedMessage, Idle
    <3>2. Calls(node[n], "freeing", held[n])
      BY <1>1 DEF Calls
    <3> QED
      BY <1>1, <3>1, <3>2, NodeStep DEF ThreadStates
  <2>2. CASE node[n].rxMessage # "processing"
    <3>1. /\ node' = [node EXCEPT ![n] = node[n]] /\ reading' = None
          /\ thread' = [thread EXCEPT ![n] = "away"]
          /\ held' = [held EXCEPT ![n] = None]
      BY <1>1, <1>4, <2>2 DEF CheckParsedMessage, Idle
    <3>2. Calls(node[n], "away", None)
      BY <2>2 DEF Calls
    <3> QED
      BY <1>1, <3>1, <3>2, NodeStep DEF ThreadStates
  <2> QED
    BY <2>1, <2>2
<1>5. CASE FreeIncomingMessage(n)
  <2> DEFINE t == [node[n] EXCEPT !.rxMessage = "free"]
  <2>1. /\ node' = [node EXCEPT ![n] = t] /\ reading' = None
        /\ thread' = [thread EXCEPT ![n] = "away"]
        /\ held' = [held EXCEPT ![n] = None]
    BY <1>5 DEF FreeIncomingMessage, Idle
  <2>2. Stable(t)
    BY <1>1, CallsStable
  <2>3. Calls(t, "away", None)
    BY <1>1 DEF Calls, Fields
  <2> HIDE DEF t
  <2> QED
    BY <2>1, <2>2, <2>3, NodeStep DEF ThreadStates
<1> QED
  BY <1>2, <1>3, <1>4, <1>5

LEMMA ApplicationInvariant ==
    ASSUME IInv, Application
    PROVE  IInv'
  BY SendInvariant, ReceiveInvariant DEF Application

LEMMA DeliverInvariant ==
    ASSUME IInv, NEW heard, Deliver(heard)
    PROVE  IInv'
<1>1. node' = [n \in Nodes |->
                 [node[n] EXCEPT
                    !.in = node[n].in \o heard[n],
                    !.out = SubSeq(node[n].out, Len(Burst(n)) + 1,
                                   Len(node[n].out))]]
  BY DEF Deliver
<1>2. ASSUME NEW n \in Nodes
      PROVE  Stable(node'[n]) /\ Calls(node'[n], thread[n], held[n])
  <2> DEFINE i == node[n].in \o heard[n]
             o == SubSeq(node[n].out, Len(Burst(n)) + 1, Len(node[n].out))
             t == [node[n] EXCEPT !.in = i, !.out = o]
  <2>1. node'[n] = t
    BY <1>1
  <2> HIDE DEF i, o
  <2>2. Stable(node[n]) /\ Calls(node[n], thread[n], held[n])
    BY DEF IInv
  <2>3. Stable(t)
    BY <2>2, FifosStable DEF Reads
  <2>4. SameMessage(node[n], t)
    BY <2>2 DEF SameMessage, Stable, Local, Fields
  <2> HIDE DEF t
  <2>5. Calls(t, thread[n], held[n])
    BY <2>2, <2>4, SameCalls
  <2> QED
    BY <2>1, <2>3, <2>5
<1>3. reading' = None /\ UNCHANGED <<thread, held>>
  BY DEF Deliver, Idle
<1> QED
  BY <1>1, <1>2, <1>3 DEF IInv

LEMMA TroubleInvariant ==
    ASSUME IInv, Trouble
    PROVE  IInv'
<1>1. CASE FaultyWire
  BY <1>1, DeliverInvariant DEF FaultyWire
<1>2. ASSUME NEW n \in Nodes, Skip(n)
      PROVE  IInv'
  BY <1>2 DEF Skip, IInv
<1>3. ASSUME NEW n \in Nodes, Restart(n)
      PROVE  IInv'
  <2>1. /\ node' = [node EXCEPT ![n] = Initial(n)] /\ reading' = None
        /\ thread' = [thread EXCEPT ![n] = "away"]
        /\ held' = [held EXCEPT ![n] = None]
    BY <1>3 DEF Restart, Idle
  <2>2. Calls(Initial(n), "away", None)
    BY DEF Initial, Calls
  <2> QED
    BY <2>1, <2>2, InitialStable, NodeStep DEF ThreadStates
<1> QED
  BY <1>1, <1>2, <1>3 DEF Trouble

LEMMA NextInvariant ==
    ASSUME IInv, [Next]_vars
    PROVE  IInv'
<1>1. CASE Wire
  BY <1>1, DeliverInvariant DEF Wire
<1>2. CASE Clock
  BY <1>1, <1>2, ClockInvariant DEF Clock
<1>3. CASE Application
  BY <1>3, ApplicationInvariant
<1>4. CASE Trouble
  BY <1>4, TroubleInvariant
<1>5. CASE UNCHANGED vars
  BY <1>5 DEF vars, IInv
<1> QED
  BY <1>2, <1>3, <1>4, <1>5 DEF Next

LEMMA Invariant == Spec => []IInv
<1>1. Init => IInv
  BY InitInvariant
<1>2. IInv /\ [Next]_vars => IInv'
  BY NextInvariant
<1> QED
  BY <1>1, <1>2, PTL DEF Spec

\* A buffer on the wire is never handed out: Win__AllocateMessage (399) and
\* the transmitter (593-716) share it without a lock.
THEOREM TxBufferIsKept == Spec => []TxBufferKept
<1>1. IInv => TxBufferKept
  BY DEF IInv, Stable, Local, Buffers, TxBufferKept
<1> QED
  BY <1>1, Invariant, PTL

\* A frame is received over a message only once its time-out has freed it
\* (748): neither the receiver (877-892) nor the thread that calls
\* Win__GetIncomingMessage (364-376) puts one over the other before, however
\* often the handler preempts the thread between its look at the message and
\* the setting of it.
THEOREM RxBufferIsKept == Spec => []RxBufferKept
<1>1. IInv => RxBufferKept
  BY DEF IInv, Stable, Local, NodeOK, Buffers, Overwrites, Calls,
         RxBufferKept, MessageStates
<1> QED
  BY <1>1, Invariant, PTL

\* The bus contention of a node always ends (574-591, 996-1003).  IdleTime + 2
\* <= NodeMaxTime is what it needs of the constants: the timer of the
\* contention outlives the one of the acknowledgement.
THEOREM ContentionIsReleased == Spec => []ContentionReleased
<1>1. IInv => ContentionReleased
  BY DEF IInv, Stable, Local, Contention, ContentionReleased
<1> QED
  BY <1>1, Invariant, PTL

(***************************************************************************)
(* What the buffers and the wire carry.                                    *)
(***************************************************************************)
Bytes ==
    {Dle, Stx, Ack, Error, Noise, <<"size", 1>>}
      \cup {Grant(n) : n \in Nodes}
      \cup {Address(d, n) : d \in Receivers, n \in Nodes}
      \cup {<<"sap", k>> : k \in 0 .. CounterLimit}
      \cup {<<"data", i>> : i \in Ids}
      \cup {Crc(Protected(m)) : m \in Messages}

\* The header and the payload are those of a byte that was sent.
Carries(s) ==
    /\ CountsOK(s)
    /\ DOMAIN s.header = {"to", "from", "count"}
    /\ s.header.count \in 0 .. CounterLimit
    /\ s.in \in Seq(Bytes) /\ s.out \in Seq(Bytes)

TypeInv ==
    /\ IInv
    /\ \A n \in Nodes : Carries(node[n])
    /\ reading # None => left \in 1 .. Len(node[reading].in)
    /\ todo \subseteq Nodes
    /\ faults \in 0 .. MaxFaults
    /\ held \in [Nodes -> Ids \cup {None}]
    /\ queued \in [Nodes -> Seq(Messages)]

LEMMA JoinedBytes ==
    ASSUME NEW S, NEW a \in Seq(S), NEW b \in Seq(S)
    PROVE  a \o b \in Seq(S) /\ Len(a \o b) = Len(a) + Len(b)
  OBVIOUS

LEMMA PartBytes ==
    ASSUME NEW S, NEW a \in Seq(S), NEW i \in Int, NEW j \in Int,
           1 <= i, j <= Len(a)
    PROVE  SubSeq(a, i, j) \in Seq(S)
  OBVIOUS

LEMMA FrameBytes ==
    ASSUME NEW m \in Messages
    PROVE  Frame(m) \in Seq(Bytes) /\ Len(Frame(m)) = FrameLength
<1>1. /\ Dle \in Bytes /\ Stx \in Bytes /\ <<"size", 1>> \in Bytes
      /\ Crc(Protected(m)) \in Bytes
  BY DEF Bytes
<1>2. /\ Address(m.to, m.from) \in Bytes /\ <<"sap", m.count>> \in Bytes
      /\ <<"data", m.id>> \in Bytes
  BY DEF Bytes, Messages
<1> DEFINE h == <<Dle, Stx>>
           q == Protected(m)
           c == <<Crc(q)>>
<1>3. /\ h \in Seq(Bytes) /\ q \in Seq(Bytes) /\ c \in Seq(Bytes)
      /\ Len(h) = 2 /\ Len(q) = 4 /\ Len(c) = 1
  BY <1>1, <1>2 DEF Protected
<1>4. Frame(m) = (h \o q) \o c
  BY DEF Frame
<1> HIDE DEF h, q, c
<1>5. h \o q \in Seq(Bytes) /\ Len(h \o q) = Len(h) + Len(q)
  BY <1>3, JoinedBytes
<1>6. /\ (h \o q) \o c \in Seq(Bytes)
      /\ Len((h \o q) \o c) = Len(h \o q) + Len(c)
  BY <1>3, <1>5, JoinedBytes
<1> QED
  BY <1>3, <1>4, <1>5, <1>6 DEF FrameLength

\* A node that changes nothing but timers and states carries the same.
SameLoad(s, t) ==
    /\ t.count = s.count /\ t.prev = s.prev /\ t.txBuffer = s.txBuffer
    /\ t.rxBuffer = s.rxBuffer /\ t.header = s.header

LEMMA SameCarries ==
    ASSUME NEW s, NEW t, Carries(s), SameLoad(s, t),
           t.in \in Seq(Bytes), t.out \in Seq(Bytes)
    PROVE  Carries(t)
  BY DEF Carries, CountsOK, SameLoad

LEMMA SendDataCarries ==
    ASSUME NEW s, Carries(s), DOMAIN s = Fields,
           s.remaining \in 0 .. FrameLength
    PROVE  Carries(SendData(s))
<1>1. CASE s.remaining = 0
  BY <1>1 DEF SendData
<1>2. CASE s.remaining # 0
  <2> DEFINE k == MinOf(s.remaining, BytesAtOnce)
             f == Frame(s.txBuffer)
             i == FrameLength - s.remaining + 1
             j == FrameLength - s.remaining + k
             o == s.out \o SubSeq(f, i, j)
  <2>1. i \in 1 .. FrameLength /\ j \in 0 .. FrameLength
    BY <1>2, ConstantTypes DEF MinOf, FrameLength
  <2>2. f \in Seq(Bytes) /\ Len(f) = FrameLength
    BY FrameBytes DEF Carries, CountsOK
  <2>3. SendData(s) = [s EXCEPT !.notSendingTimer = HoldingTime,
                                !.remaining = s.remaining - k, !.out = o]
    BY <1>2 DEF SendData
  <2> HIDE DEF k, f, i, j
  <2>4. i \in Int /\ j \in Int /\ 1 <= i /\ j <= Len(f)
    BY <2>1, <2>2 DEF FrameLength
  <2>5. SubSeq(f, i, j) \in Seq(Bytes)
    BY <2>2, <2>4, PartBytes
  <2>6. o \in Seq(Bytes)
    BY <2>5, JoinedBytes DEF Carries
  <2> HIDE DEF o
  <2> DEFINE t == SendData(s)
  <2>7. SameLoad(s, t) /\ t.in = s.in /\ t.out = o
    BY <2>3 DEF SameLoad, Fields
  <2> HIDE DEF t
  <2>8. Carries(t)
    BY <2>6, <2>7, SameCarries DEF Carries
  <2> QED
    BY <2>8 DEF t
<1> QED
  BY <1>1, <1>2

LEMMA DropCarries ==
    ASSUME NEW s, Carries(s), DOMAIN s = Fields
    PROVE  Carries(DropSendingMessage(s))
  BY DEF DropSendingMessage, Carries, CountsOK, Fields

LEMMA TimersCarry ==
    ASSUME NEW n \in Nodes, NEW s, Carries(s), DOMAIN s = Fields
    PROVE  /\ Carries(Activity(s, n)) /\ Carries(BusIdleTick(s))
           /\ Carries(NotSendingTick(s)) /\ Carries(ParserTick(s))
           /\ Carries(SilenceTick(s))
  BY DEF Activity, BusIdleTick, NotSendingTick, ParserTick, SilenceTick,
         Carries, CountsOK, Fields

LEMMA StatesCarry ==
    ASSUME NEW s, NEW x, NEW y, Carries(s), DOMAIN s = Fields
    PROVE  /\ Carries([s EXCEPT !.txState = x])
           /\ Carries([s EXCEPT !.txMessage = x])
           /\ Carries([s EXCEPT !.rxMessage = x])
           /\ Carries([s EXCEPT !.rxState = x])
           /\ Carries([s EXCEPT !.retry = x, !.txMessage = y])
           /\ Carries([s EXCEPT !.retryCollision = x, !.txMessage = y])
  BY DEF Carries, CountsOK, Fields

LEMMA TxGrantCarries ==
    ASSUME NEW n \in Nodes, NEW s, Local(s), Carries(s)
    PROVE  Carries(TxGrant(s, n))
<1>1. CASE s.in = <<>>
  BY <1>1 DEF TxGrant, Carries, CountsOK, Local, Fields
<1>2. CASE s.in = <<Grant(n)>>
  <2> DEFINE t == [s EXCEPT !.in = <<>>, !.txState = "sending",
                            !.txStatus = "sending", !.check = 0,
                            !.remaining = FrameLength]
  <2>1. Carries(t)
    BY DEF Carries, CountsOK, Local, Fields
  <2>2. TxGrant(s, n) = SendData(t)
    BY <1>2 DEF TxGrant
  <2>3. DOMAIN t = Fields /\ t.remaining \in 0 .. FrameLength
    BY DEF Local, Fields, FrameLength
  <2> HIDE DEF t
  <2> QED
    BY <2>1, <2>2, <2>3, SendDataCarries
<1>3. CASE s.in # <<>> /\ s.in # <<Grant(n)>>
  <2> DEFINE q == IF Len(s.in) = 1 THEN <<>> ELSE s.in
  <2>1. TxGrant(s, n) = [s EXCEPT !.txState = "idle", !.in = q]
    BY <1>3 DEF TxGrant
  <2>2. q \in Seq(Bytes)
    BY DEF Carries
  <2> HIDE DEF q
  <2> QED
    BY <2>1, <2>2 DEF Carries, CountsOK, Local, Fields
<1> QED
  BY <1>1, <1>2, <1>3

LEMMA TxSendingCarries ==
    ASSUME NEW s, Local(s), Carries(s)
    PROVE  Carries(TxSending(s))
<1> DEFINE Out(t) == [t EXCEPT !.txState = "idle"]
<1>1. ASSUME NEW t, DOMAIN t = Fields, Carries(t)
      PROVE  Carries(Out(AfterCollision(t))) /\ Carries(Out(AfterSilence(t)))
  <2>1. DOMAIN DropSendingMessage(t) = Fields
    BY <1>1 DEF DropSendingMessage
  <2>2. /\ Carries(AfterCollision(t)) /\ DOMAIN AfterCollision(t) = Fields
    BY <1>1, <2>1, StatesCarry, DropCarries DEF AfterCollision
  <2>3. /\ Carries(AfterSilence(t)) /\ DOMAIN AfterSilence(t) = Fields
    BY <1>1, <2>1, StatesCarry, DropCarries DEF AfterSilence
  <2> QED
    BY <2>2, <2>3, StatesCarry
<1>2. DOMAIN s = Fields
  BY DEF Local
<1>3. Carries(SendData(s)) /\ DOMAIN SendData(s) = Fields
  BY <1>2, SendDataCarries DEF SendData, Local, NodeOK
<1> HIDE DEF Out
<1>4. \/ TxSending(s) = Out(AfterCollision(s))
      \/ TxSending(s) = SendData(s)
      \/ TxSending(s) = Out(AfterSilence(SendData(s)))
  BY DEF TxSending, Out
<1> QED
  BY <1>1, <1>2, <1>3, <1>4

LEMMA OutgoingCarries ==
    ASSUME NEW n \in Nodes, NEW s, Stable(s), Carries(s)
    PROVE  Carries(WinOutgoingProcess(s, n))
<1> DEFINE a == Activity(s, n)
           b == BusIdleTick(a)
           t == NotSendingTick(b)
<1>1. Stable(a) /\ Carries(a)
  BY ActivityStable, TimersCarry DEF Stable, Local
<1> HIDE DEF a
<1>2. Ticked(b) /\ Carries(b)
  BY <1>1, BusIdleTicks, TimersCarry DEF Stable, Local
<1> HIDE DEF b
<1>3. Ticked(t) /\ Carries(t)
  BY <1>2, NotSendingTicks, TimersCarry DEF Ticked, Local
<1>4. WinOutgoingProcess(s, n) =
        CASE t.txState = "idle"    -> TxIdle(t, n)
          [] t.txState = "grant"   -> TxGrant(t, n)
          [] t.txState = "sending" -> TxSending(t)
  BY DEF WinOutgoingProcess, t, b, a
<1> HIDE DEF t
<1>5. t.txState \in {"idle", "grant", "sending"} /\ Local(t)
  BY <1>3 DEF Ticked, Local, NodeOK, TxStates
<1>6. CASE t.txState = "idle"
  <2>1. Append(t.out, Grant(n)) \in Seq(Bytes)
    BY <1>3 DEF Carries, Bytes
  <2>2. Carries(TxIdle(t, n))
    BY <1>3, <1>5, <2>1 DEF TxIdle, Carries, CountsOK, Local, Fields
  <2> QED
    BY <1>4, <1>6, <2>2
<1>7. CASE t.txState = "grant"
  BY <1>3, <1>4, <1>5, <1>7, TxGrantCarries
<1>8. CASE t.txState = "sending"
  BY <1>3, <1>4, <1>5, <1>8, TxSendingCarries
<1> QED
  BY <1>5, <1>6, <1>7, <1>8

LEMMA IncomingCarries ==
    ASSUME NEW n \in Nodes, NEW s, DOMAIN s = Fields, Carries(s)
    PROVE  Carries(IncomingTimers(s, n))
<1>1. Carries(Activity(s, n)) /\ DOMAIN Activity(s, n) = Fields
  BY TimersCarry DEF Activity
<1>2. /\ Carries(ParserTick(Activity(s, n)))
      /\ DOMAIN ParserTick(Activity(s, n)) = Fields
  BY <1>1, TimersCarry DEF ParserTick
<1> QED
  BY <1>2, TimersCarry DEF IncomingTimers

LEMMA HandlerCarries ==
    ASSUME NEW n \in Nodes, NEW s, Stable(s), Carries(s)
    PROVE  Carries(IncomingTimers(WinOutgoingProcess(s, n), n))
  BY OutgoingMid, OutgoingCarries, IncomingCarries DEF Mid, Ticked, Local

LEMMA ReceivedCarries ==
    ASSUME NEW n \in Nodes, NEW s, NEW b \in Bytes, DOMAIN s = Fields,
           s.rxState \in RxStates, Carries(s)
    PROVE  Carries(Received(s, n, b))
<1>1. Carries(CheckEcho(s, b))
  BY DEF CheckEcho, Carries, CountsOK, Fields
<1>2. Carries(RxStx(s, b))
  <2>1. DOMAIN DropSendingMessage(s) = Fields
    BY DEF DropSendingMessage
  <2>2. ASSUME NEW t, DOMAIN t = Fields, Carries(t), NEW x, NEW y
        PROVE  /\ Carries([t EXCEPT !.rxState = x, !.txState = y])
               /\ Carries([t EXCEPT !.rxState = x, !.rxCrc = y])
    BY <2>2 DEF Carries, CountsOK, Fields
  <2> QED
    BY <2>1, <2>2, StatesCarry, DropCarries DEF RxStx
<1>3. Carries(RxAddress(s, n, b))
  <2> DEFINE t == RxAddress(s, n, b)
  <2>1. /\ t.count = s.count /\ t.txBuffer = s.txBuffer
        /\ t.rxBuffer = s.rxBuffer /\ t.header.count = s.header.count
        /\ DOMAIN t.header = DOMAIN s.header
        /\ t.in = s.in /\ t.out = s.out
    BY DEF RxAddress, Fields, Carries
  <2>2. \/ t.prev = s.prev
        \/ b[3] \in Nodes /\ t.prev = [s.prev EXCEPT ![b[3]] = 0]
    BY DEF RxAddress, Fields
  <2> HIDE DEF t
  <2>3. s.prev \in [Nodes -> 0 .. CounterLimit] /\ 0 \in 0 .. CounterLimit
    BY ConstantTypes DEF Carries, CountsOK
  <2>4. t.prev \in [Nodes -> 0 .. CounterLimit]
    BY <2>2, <2>3
  <2>5. Carries(t)
    BY <2>1, <2>4 DEF Carries, CountsOK
  <2> QED
    BY <2>5 DEF t
<1>4. Carries(RxSap(s, b))
  <2> DEFINE k == IF b[1] = "sap" THEN b[2] ELSE 0
             c == Append(s.rxCrc, b)
  <2>1. b[1] = "sap" => b[2] \in 0 .. CounterLimit
    <3>1. CASE b \in {<<"sap", x>> : x \in 0 .. CounterLimit}
      BY <3>1
    <3>2. CASE b \notin {<<"sap", x>> : x \in 0 .. CounterLimit}
      BY <3>2 DEF Bytes, Dle, Stx, Ack, Error, Noise, Grant, Address, Crc
    <3> QED
      BY <3>1, <3>2
  <2>2. RxSap(s, b) = [s EXCEPT !.rxCrc = c, !.rxState = "size",
                                !.header.count = k]
    BY DEF RxSap
  <2>3. k \in 0 .. CounterLimit
    BY <2>1, ConstantTypes
  <2> HIDE DEF k, c
  <2> DEFINE t == RxSap(s, b)
  <2>4. /\ t.header = [s.header EXCEPT !.count = k] /\ t.count = s.count
        /\ t.prev = s.prev /\ t.txBuffer = s.txBuffer
        /\ t.rxBuffer = s.rxBuffer /\ t.in = s.in /\ t.out = s.out
    BY <2>2 DEF Fields
  <2> HIDE DEF t
  <2>5. Carries(t)
    BY <2>3, <2>4 DEF Carries, CountsOK
  <2> QED
    BY <2>5 DEF t
<1>5. Carries(RxSize(s, b))
  BY DEF RxSize, Carries, CountsOK, Fields
<1>6. Carries(RxData(s, b))
  <2> DEFINE k == IF b[1] = "data" THEN b[2] ELSE None
             c == Append(s.rxCrc, b)
  <2>1. k \in Ids \cup {None}
    BY DEF Bytes, Dle, Stx, Ack, Error, Noise, Grant, Address, Crc
  <2>2. RxData(s, b) = [s EXCEPT !.rxCrc = c, !.rxState = "crc",
                                 !.rxBuffer = k]
    BY DEF RxData
  <2> HIDE DEF k, c
  <2> QED
    BY <2>1, <2>2 DEF Carries, CountsOK, Fields
<1>7. Carries(RxCrc(s, n, b))
  <2> DEFINE a == Accepted(s)
             o == IF s.header.to = n THEN a.out \o <<Dle, Ack>> ELSE a.out
  <2>1. Carries(a) /\ DOMAIN a = Fields
    BY DEF Accepted, Carries, CountsOK, Fields
  <2>2. CASE ~GoodFrame(s, b)
    BY <2>2, StatesCarry DEF RxCrc
  <2>3. CASE GoodFrame(s, b)
    <3>1. RxCrc(s, n, b) =
            [a EXCEPT !.rxState = "idle", !.out = o,
               !.prev = [a.prev EXCEPT ![s.header.from] = s.header.count]]
      BY <2>1, <2>3 DEF RxCrc, Fields
    <3>2. <<Dle, Ack>> \in Seq(Bytes)
      BY DEF Bytes
    <3> HIDE DEF a
    <3>3. o \in Seq(Bytes)
      BY <2>1, <3>2, JoinedBytes DEF Carries
    <3> HIDE DEF o
    <3>4. s.header.from \in Nodes /\ s.header.count \in 0 .. CounterLimit
      BY <2>3 DEF GoodFrame, Carries
    <3> QED
      BY <2>1, <3>1, <3>3, <3>4 DEF Carries, CountsOK, Fields
  <2> QED
    BY <2>2, <2>3
<1>8. ASSUME NEW x \in {"idle", "stx"}
      PROVE  Carries([s EXCEPT !.rxState = x])
  BY StatesCarry
<1> DEFINE t == Received(s, n, b)
<1>9. \/ t = CheckEcho(s, b) \/ t = [s EXCEPT !.rxState = "idle"]
      \/ t = [s EXCEPT !.rxState = "stx"] \/ t = RxStx(s, b)
      \/ t = RxAddress(s, n, b) \/ t = RxSap(s, b) \/ t = RxSize(s, b)
      \/ t = RxData(s, b) \/ t = RxCrc(s, n, b) \/ t = s
      \/ s.rxState \notin RxStates
  BY DEF Received, RxStates
<1> QED
  BY <1>1, <1>2, <1>3, <1>4, <1>5, <1>6, <1>7, <1>8, <1>9

LEMMA InitialCarries ==
    ASSUME NEW n \in Nodes
    PROVE  Carries(Initial(n))
<1>1. NoMessage \in Messages
  BY WinAssumption, ConstantTypes
  DEF NoMessage, Messages, Receivers, Ids, WinAssumption
<1> QED
  BY <1>1, ConstantTypes DEF Initial, Carries, CountsOK

LEMMA NodeCarries ==
    ASSUME NEW n \in Nodes, NEW t, Carries(t),
           \A m \in Nodes : Carries(node[m]),
           node = [m \in Nodes |-> node[m]],
           node' = [node EXCEPT ![n] = t]
    PROVE  \A m \in Nodes : Carries(node'[m])
  OBVIOUS

LEMMA TypeInit == Init => TypeInv
  BY InitInvariant, InitialCarries, ConstantTypes DEF Init, TypeInv

LEMMA ReceivedKeepsIn ==
    ASSUME NEW n \in Nodes, NEW s, NEW b, DOMAIN s = Fields,
           s.rxState \in RxStates
    PROVE  Received(s, n, b).in = s.in
<1> USE DEF Fields
<1>1. CheckEcho(s, b).in = s.in /\ RxAddress(s, n, b).in = s.in
  BY DEF CheckEcho, RxAddress
<1>2. /\ RxSap(s, b).in = s.in /\ RxSize(s, b).in = s.in
      /\ RxData(s, b).in = s.in
  BY DEF RxSap, RxSize, RxData
<1>3. RxStx(s, b).in = s.in
  <2>1. /\ DOMAIN DropSendingMessage(s) = Fields
        /\ DropSendingMessage(s).in = s.in
    BY DEF DropSendingMessage
  <2> QED
    BY <2>1 DEF RxStx
<1>4. RxCrc(s, n, b).in = s.in
  <2>1. DOMAIN Accepted(s) = Fields /\ Accepted(s).in = s.in
    BY DEF Accepted
  <2> QED
    BY <2>1 DEF RxCrc
<1> DEFINE t == Received(s, n, b)
<1>5. \/ t = CheckEcho(s, b) \/ t = [s EXCEPT !.rxState = "idle"]
      \/ t = [s EXCEPT !.rxState = "stx"] \/ t = RxStx(s, b)
      \/ t = RxAddress(s, n, b) \/ t = RxSap(s, b) \/ t = RxSize(s, b)
      \/ t = RxData(s, b) \/ t = RxCrc(s, n, b) \/ t = s
  BY DEF Received, RxStates
<1> QED
  BY <1>1, <1>2, <1>3, <1>4, <1>5

LEMMA ClockTypes ==
    ASSUME TypeInv, NEW n \in Nodes, Handle1ms(n) \/ ReadByte(n)
    PROVE  TypeInv'
<1>1. IInv'
  BY ClockInvariant DEF TypeInv
<1>2. /\ Stable(node[n]) /\ Carries(node[n])
      /\ node = [m \in Nodes |-> node[m]]
      /\ \A m \in Nodes : Carries(node[m])
  BY DEF TypeInv, IInv
<1>3. CASE Handle1ms(n)
  <2> DEFINE t == IncomingTimers(WinOutgoingProcess(node[n], n), n)
             bytes == IF t.txState = "grant" THEN 0 ELSE Len(t.in)
  <2>1. Carries(t)
    BY <1>2, HandlerCarries
  <2>2. /\ node' = [node EXCEPT ![n] = t] /\ left' = bytes
        /\ reading' = IF bytes > 0 THEN n ELSE None
    BY <1>3 DEF Handle1ms
  <2>3. bytes \in Nat /\ (bytes > 0 => bytes = Len(t.in))
    BY <2>1 DEF Carries
  <2> HIDE DEF t, bytes
  <2>4. \A m \in Nodes : Carries(node'[m])
    BY <1>2, <2>1, <2>2, NodeCarries
  <2>5. reading' # None => left' \in 1 .. Len(node'[reading'].in)
    BY <1>2, <2>2, <2>3
  <2>6. todo' \subseteq Nodes /\ UNCHANGED <<faults, held, queued>>
    BY <1>3 DEF Handle1ms, TypeInv, history
  <2> QED
    BY <1>1, <2>4, <2>5, <2>6 DEF TypeInv
<1>4. CASE ReadByte(n)
  <2> DEFINE b == Head(node[n].in)
             s == [node[n] EXCEPT !.in = Tail(@)]
             t == Received(s, n, b)
  <2>1. /\ node[n].in \in Seq(Bytes) /\ left \in 1 .. Len(node[n].in)
        /\ n # None
    BY <1>2, <1>4, ConstantTypes DEF TypeInv, Carries, ReadByte
  <2>2. /\ b \in Bytes /\ Tail(node[n].in) \in Seq(Bytes)
        /\ Len(Tail(node[n].in)) = Len(node[n].in) - 1
    BY <2>1
  <2>3. /\ Carries(s) /\ DOMAIN s = Fields /\ s.rxState \in RxStates
        /\ s.in = Tail(node[n].in)
    BY <1>2, <2>2 DEF Carries, CountsOK, Fields, Stable, Local, NodeOK
  <2>4. /\ node' = [node EXCEPT ![n] = t] /\ left' = left - 1
        /\ reading' = IF left = 1 THEN None ELSE n
    BY <1>4 DEF ReadByte
  <2> HIDE DEF s, b
  <2>5. Carries(t) /\ t.in = s.in
    BY <2>2, <2>3, ReceivedCarries, ReceivedKeepsIn
  <2> HIDE DEF t
  <2>6. \A m \in Nodes : Carries(node'[m])
    BY <1>2, <2>4, <2>5, NodeCarries
  <2>7. reading' # None => left' \in 1 .. Len(node'[reading'].in)
    <3>1. Len(t.in) = Len(node[n].in) - 1 /\ Len(node[n].in) \in Nat
      BY <2>1, <2>2, <2>3, <2>5
    <3>2. left = 1 \/ left - 1 \in 1 .. Len(node[n].in) - 1
      BY <2>1, <3>1
    <3>3. node'[n] = t
      BY <1>2, <2>4
    <3> QED
      BY <2>1, <2>4, <3>1, <3>2, <3>3
  <2>8. UNCHANGED <<todo, faults, held, queued>>
    BY <1>4 DEF ReadByte
  <2> QED
    BY <1>1, <2>6, <2>7, <2>8 DEF TypeInv
<1> QED
  BY <1>3, <1>4

LEMMA ApplicationTypes ==
    ASSUME TypeInv, Application
    PROVE  TypeInv'
<1>1. IInv'
  BY ApplicationInvariant DEF TypeInv
<1>2. PICK n \in Nodes :
        \/ AllocateMessage(n)
        \/ \E d \in Destinations \ {n} : QueueMessage(n, d)
        \/ RejectMessage(n)
        \/ CheckIncomingMessage(n) \/ GetIncomingMessage(n)
        \/ CheckParsedMessage(n) \/ FreeIncomingMessage(n)
  BY DEF Application
<1> DEFINE s == node[n]
<1>3. /\ Carries(s) /\ DOMAIN s = Fields
      /\ node = [m \in Nodes |-> node[m]]
      /\ \A m \in Nodes : Carries(node[m])
  BY DEF TypeInv, IInv, Stable, Local
<1>4. ASSUME NEW t, Carries(t), node' = [node EXCEPT ![n] = t],
             UNCHANGED <<todo, faults>>, reading' = None,
             held' \in [Nodes -> Ids \cup {None}],
             queued' \in [Nodes -> Seq(Messages)]
      PROVE  TypeInv'
  <2>1. \A m \in Nodes : Carries(node'[m])
    BY <1>3, <1>4, NodeCarries
  <2> QED
    BY <1>1, <1>4, <2>1 DEF TypeInv
<1>5. CASE AllocateMessage(n) \/ RejectMessage(n)
  <2>1. PICK x \in {"processing", "free"} :
            node' = [node EXCEPT ![n] = [s EXCEPT !.txMessage = x]]
    BY <1>3, <1>5 DEF AllocateMessage, RejectMessage
  <2>2. UNCHANGED <<todo, faults, held, queued>> /\ reading' = None
    BY <1>5 DEF AllocateMessage, RejectMessage, Idle, history
  <2>3. Carries([s EXCEPT !.txMessage = x])
    BY <1>3, StatesCarry
  <2> QED
    BY <1>4, <2>1, <2>2, <2>3 DEF TypeInv
<1>6. ASSUME NEW d \in Destinations \ {n}, QueueMessage(n, d)
      PROVE  TypeInv'
  <2> DEFINE b == [to |-> d, from |-> n, count |-> s.count,
                   id |-> <<n, Len(queued[n]) + 1>>]
             t == [s EXCEPT !.txBuffer = b, !.count = NextCount(s.count),
                            !.retry = Retries,
                            !.retryCollision = CollisionRetries,
                            !.txMessage = "ready"]
  <2>1. /\ node' = [node EXCEPT ![n] = t]
        /\ queued' = [queued EXCEPT ![n] = Append(queued[n], b)]
        /\ UNCHANGED <<todo, faults, held>> /\ reading' = None
    BY <1>6 DEF QueueMessage, Idle
  <2>2. queued[n] \in Seq(Messages)
    BY DEF TypeInv
  <2>3. /\ s.count \in 0 .. CounterLimit
        /\ NextCount(s.count) \in 0 .. CounterLimit
    <3>1. s.count \in 0 .. CounterLimit
      BY <1>3 DEF Carries, CountsOK
    <3> HIDE DEF s
    <3>2. NextCount(s.count) \in 0 .. CounterLimit
      BY <3>1, ConstantTypes DEF NextCount
    <3> QED
      BY <3>1, <3>2
  <2>4. b \in Messages
    <3>1. d \in Receivers
      BY WinAssumption DEF WinAssumption, Receivers
    <3> QED
      BY <2>2, <2>3, <3>1 DEF Messages, Ids
  <2> HIDE DEF b
  <2>6. Carries(t)
    BY <1>3, <2>3, <2>4 DEF Carries, CountsOK, Fields
  <2>7. Append(queued[n], b) \in Seq(Messages)
    BY <2>2, <2>4
  <2>8. queued' \in [Nodes -> Seq(Messages)]
    BY <2>1, <2>7 DEF TypeInv
  <2> HIDE DEF t
  <2> QED
    BY <1>4, <2>1, <2>6, <2>8 DEF TypeInv
<1>7. CASE CheckIncomingMessage(n) \/ CheckParsedMessage(n)
  <2>1. /\ UNCHANGED <<node, todo, faults, queued>> /\ reading' = None
        /\ held' \in {held, [held EXCEPT ![n] = None]}
    BY <1>7 DEF CheckIncomingMessage, CheckParsedMessage, Idle, history
  <2>2. node' = [node EXCEPT ![n] = s]
    BY <1>3, <2>1
  <2>3. held' \in [Nodes -> Ids \cup {None}]
    BY <2>1 DEF TypeInv
  <2> QED
    BY <1>3, <1>4, <2>1, <2>2, <2>3 DEF TypeInv
<1>8. CASE GetIncomingMessage(n) \/ FreeIncomingMessage(n)
  <2>1. PICK x : node' = [node EXCEPT ![n] = [s EXCEPT !.rxMessage = x]]
    BY <1>3, <1>8 DEF GetIncomingMessage, FreeIncomingMessage
  <2>2. held' = [held EXCEPT ![n] = s.rxBuffer]
          \/ held' = [held EXCEPT ![n] = None]
    BY <1>8 DEF GetIncomingMessage, FreeIncomingMessage
  <2>3. held' \in [Nodes -> Ids \cup {None}]
    BY <1>3, <2>2 DEF TypeInv, Carries, CountsOK
  <2>4. UNCHANGED <<todo, faults, queued>> /\ reading' = None
    BY <1>8 DEF GetIncomingMessage, FreeIncomingMessage, Idle, history
  <2>5. Carries([s EXCEPT !.rxMessage = x])
    BY <1>3, StatesCarry
  <2> QED
    BY <1>4, <2>1, <2>3, <2>4, <2>5 DEF TypeInv
<1> QED
  BY <1>2, <1>5, <1>6, <1>7, <1>8

\* Sequences of bytes, damaged or not, are sequences of bytes.
LEMMA CarriedBytes ==
    ASSUME TypeInv, NEW w \in Carried
    PROVE  w \in Seq(Bytes)
<1>1. \A n \in Nodes : Burst(n) \in Seq(Bytes)
  <2> TAKE n \in Nodes
  <2>1. node[n].out \in Seq(Bytes)
    BY DEF TypeInv, Carries
  <2> DEFINE j == MinOf(Len(node[n].out), BytesPerMs)
  <2>2. Len(node[n].out) \in Nat /\ BytesPerMs \in Nat
    BY <2>1, WinAssumption DEF WinAssumption
  <2>3. j \in Int /\ j <= Len(node[n].out)
    BY <2>2 DEF MinOf
  <2>4. Burst(n) = SubSeq(node[n].out, 1, j)
    BY DEF Burst
  <2> HIDE DEF j
  <2> QED
    BY <2>1, <2>3, <2>4, PartBytes
<1>2. \A n \in Nodes : [i \in 1 .. Len(Burst(n)) |-> Noise] \in Seq(Bytes)
  <2> TAKE n \in Nodes
  <2>1. Len(Burst(n)) \in Nat /\ Noise \in Bytes
    BY <1>1 DEF Bytes
  <2> QED
    BY <2>1
<1> QED
  BY <1>1, <1>2 DEF Carried, Senders

LEMMA DamagedBytes ==
    ASSUME NEW w \in Seq(Bytes), NEW i \in 1 .. Len(w), NEW d \in Damaged(w, i)
    PROVE  d[2] \in Seq(Bytes)
<1>1. Lost(w, i) \in Seq(Bytes)
  <2>1. /\ SubSeq(w, 1, i - 1) \in Seq(Bytes)
        /\ SubSeq(w, i + 1, Len(w)) \in Seq(Bytes)
    BY PartBytes
  <2> QED
    BY <2>1, JoinedBytes DEF Lost
<1>2. ASSUME NEW b \in Bytes
      PROVE  [w EXCEPT ![i] = b] \in Seq(Bytes)
  OBVIOUS
<1>3. Error \in Bytes /\ Noise \in Bytes
  BY DEF Bytes
<1>4. ASSUME w[i][1] = "address", NEW x \in Receivers
      PROVE  Address(x, w[i][3]) \in Bytes
  <2>1. w[i] \in Bytes
    OBVIOUS
  <2>2. w[i] \in {Address(y, n) : y \in Receivers, n \in Nodes}
    BY <1>4, <2>1 DEF Bytes, Dle, Stx, Ack, Error, Noise, Grant, Crc
  <2>3. w[i][3] \in Nodes
    BY <2>2 DEF Address
  <2> QED
    BY <2>3 DEF Bytes
<1>5. \/ d[2] = Lost(w, i) \/ d[2] = [w EXCEPT ![i] = Error]
      \/ d[2] = [w EXCEPT ![i] = Noise]
      \/ w[i][1] = "address" /\ \E x \in Receivers :
           d[2] = [w EXCEPT ![i] = Address(x, w[i][3])]
  <2> DEFINE l == Lost(w, i)
             e == [w EXCEPT ![i] = Error]
             o == [w EXCEPT ![i] = Noise]
             A(x) == [w EXCEPT ![i] = Address(x, w[i][3])]
  <2>1. \/ d \in {<<"lose", l>>, <<"error", e>>, <<"noise", o>>}
        \/ w[i][1] = "address" /\ \E x \in Receivers :
             d = <<"misaddress", A(x)>>
    BY DEF Damaged
  <2> HIDE DEF l, e, o, A
  <2>2. \/ d[2] = l \/ d[2] = e \/ d[2] = o
        \/ w[i][1] = "address" /\ \E x \in Receivers : d[2] = A(x)
    BY <2>1
  <2> QED
    BY <2>2 DEF l, e, o, A
<1> QED
  BY <1>1, <1>2, <1>3, <1>4, <1>5

LEMMA DeliverTypes ==
    ASSUME TypeInv, NEW heard, Deliver(heard), faults' \in 0 .. MaxFaults,
           \A n \in Nodes : heard[n] \in Seq(Bytes)
    PROVE  TypeInv'
<1>1. IInv'
  BY DeliverInvariant DEF TypeInv
<1>2. ASSUME NEW n \in Nodes
      PROVE  Carries(node'[n])
  <2> DEFINE i == node[n].in \o heard[n]
             o == SubSeq(node[n].out, Len(Burst(n)) + 1, Len(node[n].out))
  <2>1. node'[n] = [node[n] EXCEPT !.in = i, !.out = o]
    BY DEF Deliver
  <2>2. node[n].in \in Seq(Bytes) /\ node[n].out \in Seq(Bytes)
    BY DEF TypeInv, Carries
  <2>3. i \in Seq(Bytes)
    BY <2>2, JoinedBytes
  <2>4. Len(Burst(n)) \in Nat
    <3> DEFINE l == Len(node[n].out)
    <3>a. l \in Nat
      BY <2>2
    <3>b. BytesPerMs \in Nat
      BY WinAssumption DEF WinAssumption
    <3> HIDE DEF l
    <3>1. MinOf(l, BytesPerMs) \in Int
      BY <3>a, <3>b DEF MinOf
    <3>2. MinOf(l, BytesPerMs) <= l
      BY <3>a, <3>b DEF MinOf
    <3> USE DEF l
    <3>3. Burst(n) \in Seq(Bytes)
      BY <2>2, <3>1, <3>2, PartBytes DEF Burst
    <3> QED
      BY <3>3
  <2>5. o \in Seq(Bytes)
    BY <2>2, <2>4, PartBytes
  <2> HIDE DEF i, o
  <2>6. DOMAIN node[n] = Fields /\ Carries(node[n])
    BY DEF TypeInv, IInv, Stable, Local
  <2> QED
    BY <2>1, <2>3, <2>5, <2>6 DEF Carries, CountsOK, Fields
<1>3. todo' = Nodes /\ UNCHANGED <<held, queued>> /\ reading' = None
  BY DEF Deliver, Idle, history
<1> QED
  BY <1>1, <1>2, <1>3 DEF TypeInv

LEMMA WireTypes ==
    ASSUME TypeInv, Wire
    PROVE  TypeInv'
<1>1. faults' \in 0 .. MaxFaults
  BY DEF Wire, TypeInv
<1>2. ASSUME NEW w \in Seq(Bytes), Deliver([n \in Nodes |-> w])
      PROVE  TypeInv'
  <2> DEFINE heard == [n \in Nodes |-> w]
  <2>1. \A n \in Nodes : heard[n] \in Seq(Bytes)
    OBVIOUS
  <2> HIDE DEF heard
  <2>2. Deliver(heard)
    BY <1>2 DEF heard
  <2> QED
    BY <1>1, <2>1, <2>2, DeliverTypes
<1>3. <<>> \in Seq(Bytes)
  OBVIOUS
<1> QED
  BY <1>2, <1>3, CarriedBytes DEF Wire

LEMMA TroubleTypes ==
    ASSUME TypeInv, Trouble
    PROVE  TypeInv'
<1>1. IInv'
  BY TroubleInvariant DEF TypeInv
<1>2. ASSUME NEW k, Fault(k)
      PROVE  faults' \in 0 .. MaxFaults
  BY <1>2, ConstantTypes DEF Fault, TypeInv
<1>3. CASE FaultyWire
  <2>1. PICK w, i, v, d :
          /\ w \in Carried /\ i \in 1 .. Len(w) /\ d \in Damaged(w, i)
          /\ Fault(d[1])
          /\ Deliver([n \in Nodes |-> IF n \in v THEN d[2] ELSE w])
    BY <1>3 DEF FaultyWire
  <2>2. w \in Seq(Bytes) /\ d[2] \in Seq(Bytes)
    BY <2>1, CarriedBytes, DamagedBytes
  <2> DEFINE heard == [n \in Nodes |-> IF n \in v THEN d[2] ELSE w]
  <2>3. \A n \in Nodes : heard[n] \in Seq(Bytes)
    BY <2>2
  <2> HIDE DEF heard
  <2>4. Deliver(heard) /\ faults' \in 0 .. MaxFaults
    BY <1>2, <2>1 DEF heard
  <2> QED
    BY <2>3, <2>4, DeliverTypes
<1>4. ASSUME NEW n \in Nodes, Skip(n)
      PROVE  TypeInv'
  BY <1>1, <1>2, <1>4 DEF Skip, TypeInv, history
<1>5. ASSUME NEW n \in Nodes, Restart(n)
      PROVE  TypeInv'
  <2>1. node' = [node EXCEPT ![n] = Initial(n)] /\ reading' = None
    BY <1>5 DEF Restart, Idle
  <2>2. \A m \in Nodes : Carries(node'[m])
    BY <2>1, InitialCarries, NodeCarries DEF TypeInv, IInv
  <2>3. held' \in [Nodes -> Ids \cup {None}]
    BY <1>5 DEF Restart, TypeInv
  <2> QED
    BY <1>1, <1>2, <1>5, <2>1, <2>2, <2>3 DEF Restart, TypeInv
<1> QED
  BY <1>3, <1>4, <1>5 DEF Trouble

LEMMA NextTypes ==
    ASSUME TypeInv, [Next]_vars
    PROVE  TypeInv'
<1>1. CASE UNCHANGED vars
  BY <1>1 DEF vars, history, TypeInv, IInv
<1>2. CASE Next
  BY <1>2, WireTypes, ClockTypes, ApplicationTypes, TroubleTypes
  DEF Next, Clock
<1> QED
  BY <1>1, <1>2

LEMMA TypeInvariant == Spec => []TypeInv
<1>1. TypeInv /\ [Next]_vars => TypeInv'
  BY NextTypes
<1> QED
  BY <1>1, TypeInit, PTL DEF Spec

\* The types of the variables: counters in their width, the comparison of
\* the echo inside the frame, whatever bytes come (Win.c 784-807).
THEOREM TypeCorrect == Spec => []TypeOK
<1>1. TypeInv => TypeOK
  BY DEF TypeInv, IInv, Stable, Local, Carries, TypeOK
<1> QED
  BY <1>1, TypeInvariant, PTL
=============================================================================
