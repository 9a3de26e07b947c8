----------------------------- MODULE WinDelivery -----------------------------
(***************************************************************************)
(* The Win bus delivers in order and at most once, for every number of     *)
(* nodes and messages, every limit of the counts, every time and every     *)
(* loss, damage, delay and restart; only an address byte that reads as the *)
(* address of another node is left out (the run v_win_repeat).             *)
(*                                                                         *)
(* A message leaves two marks on the wire: the address byte, which may     *)
(* make a receiver forget the count it has seen, and the CRC byte, which   *)
(* may make it deliver.  Tagged says that the marks of a source m in a     *)
(* sequence of bytes follow the order in which m has queued the messages.  *)
(* Flow says it of all the bytes that are on their way from m to a node n, *)
(* and that they start after the last message of m handed over at n, or    *)
(* with that message while n still knows its count.                        *)
(***************************************************************************)
EXTENDS WinProofs, SequenceTheorems

\* The bytes that act on a receiver in the name of node m.
Marked(b, m) ==
    \/ \E d \in Receivers : b = Address(d, m)
    \/ \E x \in Messages : x.from = m /\ b = Crc(Protected(x))

\* Byte b, where m is its source, is one of the message number k of q.
Fits(b, m, q, k) ==
    Marked(b, m) =>
        /\ k \in DOMAIN q
        /\ \/ b = Address(q[k].to, m)
           \/ b = Crc(Protected(q[k]))

\* The numbers f go up with the bytes of s and each byte fits its number.
Tags(f, s, m, q, lo, hi) ==
    /\ f \in [1 .. Len(s) -> lo .. hi]
    /\ \A i, j \in 1 .. Len(s) : i <= j => f[i] <= f[j]
    /\ \A i \in 1 .. Len(s) : Fits(s[i], m, q, f[i])

Tagged(s, m, q, lo, hi) == lo <= hi /\ \E f : Tags(f, s, m, q, lo, hi)

Unmarked(s, m) == \A i \in 1 .. Len(s) : ~Marked(s[i], m)

(***************************************************************************)
(* The invariant.                                                          *)
(***************************************************************************)

\* The messages a node has queued bear its address and their number.
Numbered(q, n) == \A k \in DOMAIN q : q[k].from = n /\ q[k].id = <<n, k>>

\* A node sends the last message it has queued.
SendsLast(s, q) == s.txMessage = "ready" => q # <<>> /\ s.txBuffer = q[Len(q)]

\* The CRC has been computed over the bytes the header and the payload were
\* taken from.
Parses(s, n) ==
    LET a == Address(s.header.to, s.header.from) IN
    /\ s.rxState \in {"sap", "size", "data", "crc"}
         => s.header.to \in {n, Broadcast}
    /\ s.rxState = "address" => s.rxCrc = <<>>
    /\ s.rxState = "sap" => s.rxCrc = <<a>>
    /\ s.rxState \in {"size", "data", "crc"}
         => \E b, c, d :
              /\ s.header.count = IF b[1] = "sap" THEN b[2] ELSE 0
              /\ s.rxState = "size" => s.rxCrc = <<a, b>>
              /\ s.rxState = "data" => s.rxCrc = <<a, b, c>>
              /\ s.rxState = "crc" =>
                   /\ s.rxCrc = <<a, b, c, d>>
                   /\ s.rxBuffer = IF d[1] = "data" THEN d[2] ELSE None

\* The last message of m handed over at n is one that m has queued for n.
LastQueued(k, n, q) ==
    k > 0 => k \in DOMAIN q /\ q[k].to \in {n, Broadcast}

\* The marks of m in the input of n go up to c.  They start after the last
\* message handed over, k, or with it while n still has its count.
Arrives(in, m, q, k, prev, c) ==
    \E lo \in Nat :
        /\ k <= lo
        /\ lo = k /\ k > 0 => prev = q[k].count
        /\ Tagged(in, m, q, lo, c)

\* Those in the output of m go on from there up to its last message.
Flow(in, out, m, q, k, prev) ==
    \E c \in Nat :
        Arrives(in, m, q, k, prev, c) /\ Tagged(out, m, q, c, Len(q))

Handed == [Nodes -> [Nodes -> [id : Nat, times : Nat]]]

FlowInv ==
    /\ TypeInv
    /\ last \in Handed
    /\ \A n \in Nodes :
         /\ Numbered(queued[n], n) /\ SendsLast(node[n], queued[n])
         /\ Parses(node[n], n)
    /\ \A n, m \in Nodes :
         /\ LastQueued(last[n][m].id, n, queued[m])
         /\ Flow(node[n].in, node[m].out, m, queued[m], last[n][m].id,
                 node[n].prev[m])
         /\ n # m => Unmarked(node[n].out, m)

(***************************************************************************)
(* Sequences of bytes that are tagged.                                     *)
(***************************************************************************)
LEMMA TagUnmarked ==
    ASSUME NEW s \in Seq(Bytes), NEW m, NEW q, NEW lo \in Nat, NEW hi \in Nat,
           lo <= hi, Unmarked(s, m)
    PROVE  Tagged(s, m, q, lo, hi)
<1> DEFINE f == [i \in 1 .. Len(s) |-> lo]
<1>1. Tags(f, s, m, q, lo, hi)
  BY DEF Tags, Fits, Unmarked
<1> QED
  BY <1>1 DEF Tagged

LEMMA TagWiden ==
    ASSUME NEW s \in Seq(Bytes), NEW m, NEW q, NEW lo \in Nat, NEW hi \in Nat,
           NEW a \in Nat, NEW b \in Nat, a <= lo, hi <= b,
           Tagged(s, m, q, lo, hi)
    PROVE  Tagged(s, m, q, a, b)
<1>1. PICK f : Tags(f, s, m, q, lo, hi)
  BY DEF Tagged
<1>2. Tags(f, s, m, q, a, b)
  BY <1>1 DEF Tags
<1> QED
  BY <1>2 DEF Tagged

LEMMA TagConcat ==
    ASSUME NEW s \in Seq(Bytes), NEW t \in Seq(Bytes), NEW m, NEW q,
           NEW lo \in Nat, NEW c \in Nat, NEW hi \in Nat,
           Tagged(s, m, q, lo, c), Tagged(t, m, q, c, hi)
    PROVE  Tagged(s \o t, m, q, lo, hi)
<1>1. PICK f : Tags(f, s, m, q, lo, c)
  BY DEF Tagged
<1>2. PICK g : Tags(g, t, m, q, c, hi)
  BY DEF Tagged
<1> DEFINE k == Len(s)
           l == Len(t)
           h == [i \in 1 .. k + l |-> IF i <= k THEN f[i] ELSE g[i - k]]
<1>3. /\ k \in Nat /\ l \in Nat /\ Len(s \o t) = k + l
      /\ \A i \in 1 .. k + l :
           (s \o t)[i] = IF i <= k THEN s[i] ELSE t[i - k]
  BY ConcatProperties
<1>4. lo <= c /\ c <= hi
  BY DEF Tagged
<1>5. /\ \A i \in 1 .. k : f[i] \in lo .. c
      /\ \A i \in 1 .. l : g[i] \in c .. hi
  BY <1>1, <1>2 DEF Tags
<1>6. h \in [1 .. k + l -> lo .. hi]
  BY <1>3, <1>4, <1>5
<1>7. ASSUME NEW i \in 1 .. k + l, NEW j \in 1 .. k + l, i <= j
      PROVE  h[i] <= h[j]
  <2>1. CASE j <= k
    BY <1>1, <1>3, <1>7, <2>1 DEF Tags
  <2>2. CASE i <= k /\ k < j
    <3>1. j - k \in 1 .. l
      BY <1>3, <2>2
    <3>2. h[i] \in lo .. c /\ h[j] \in c .. hi
      BY <1>3, <1>5, <2>2, <3>1
    <3> QED
      BY <3>2
  <2>3. CASE k < i
    <3>1. i - k \in 1 .. l /\ j - k \in 1 .. l /\ i - k <= j - k
      BY <1>3, <1>7, <2>3
    <3>2. h[i] = g[i - k] /\ h[j] = g[j - k]
      BY <1>3, <1>7, <2>3
    <3> QED
      BY <1>2, <3>1, <3>2 DEF Tags
  <2> QED
    BY <1>3, <2>1, <2>2, <2>3
<1>8. \A i \in 1 .. k + l : Fits((s \o t)[i], m, q, h[i])
  BY <1>1, <1>2, <1>3 DEF Tags
<1>9. Tags(h, s \o t, m, q, lo, hi)
  BY <1>3, <1>6, <1>7, <1>8 DEF Tags
<1> QED
  BY <1>4, <1>9 DEF Tagged

\* The order holds of the two parts of a sequence, on both sides of a cut.
LEMMA TagPart ==
    ASSUME NEW s \in Seq(Bytes), NEW m, NEW q, NEW lo \in Nat, NEW hi \in Nat,
           NEW k \in 0 .. Len(s), Tagged(s, m, q, lo, hi)
    PROVE  \E c \in Nat : /\ Tagged(SubSeq(s, 1, k), m, q, lo, c)
                          /\ Tagged(SubSeq(s, k + 1, Len(s)), m, q, c, hi)
<1>1. PICK f : Tags(f, s, m, q, lo, hi)
  BY DEF Tagged
<1> DEFINE l == Len(s)
           c == IF k = 0 THEN lo ELSE f[k]
           g == [i \in 1 .. k |-> f[i]]
           h == [i \in 1 .. l - k |-> f[k + i]]
<1>2. l \in Nat /\ lo <= hi /\ \A i \in 1 .. l : s[i] \in Bytes
  BY DEF Tagged
<1>3. /\ SubSeq(s, 1, k) \in Seq(Bytes) /\ Len(SubSeq(s, 1, k)) = k
      /\ \A i \in 1 .. k : SubSeq(s, 1, k)[i] = s[i]
  BY <1>2
<1>4. /\ SubSeq(s, k + 1, l) \in Seq(Bytes)
      /\ Len(SubSeq(s, k + 1, l)) = l - k
      /\ \A i \in 1 .. l - k : SubSeq(s, k + 1, l)[i] = s[k + i]
  BY <1>2
<1>5. /\ \A i \in 1 .. l : f[i] \in lo .. hi
      /\ \A i, j \in 1 .. l : i <= j => f[i] <= f[j]
      /\ \A i \in 1 .. l : Fits(s[i], m, q, f[i])
  BY <1>1 DEF Tags
<1>6. /\ c \in lo .. hi
      /\ \A i \in 1 .. k : f[i] <= c
      /\ \A i \in k + 1 .. l : c <= f[i]
  BY <1>2, <1>5
<1> HIDE DEF c
<1>7. Tags(g, SubSeq(s, 1, k), m, q, lo, c)
  BY <1>2, <1>3, <1>5, <1>6 DEF Tags
<1>8. Tags(h, SubSeq(s, k + 1, l), m, q, c, hi)
  BY <1>2, <1>4, <1>5, <1>6 DEF Tags
<1> QED
  BY <1>6, <1>7, <1>8 DEF Tagged

LEMMA TagHead ==
    ASSUME NEW s \in Seq(Bytes), NEW m, NEW q, NEW lo \in Nat, NEW hi \in Nat,
           s # <<>>, Tagged(s, m, q, lo, hi)
    PROVE  \E k \in lo .. hi : /\ Fits(Head(s), m, q, k)
                               /\ Tagged(Tail(s), m, q, k, hi)
<1>1. PICK f : Tags(f, s, m, q, lo, hi)
  BY DEF Tagged
<1> DEFINE l == Len(s)
           g == [i \in 1 .. l - 1 |-> f[i + 1]]
<1>2. /\ l \in Nat \ {0} /\ Head(s) = s[1] /\ Len(Tail(s)) = l - 1
      /\ \A i \in 1 .. l - 1 : Tail(s)[i] = s[i + 1]
  BY HeadTailProperties
<1>3. /\ \A i \in 1 .. l : f[i] \in lo .. hi
      /\ \A i, j \in 1 .. l : i <= j => f[i] <= f[j]
      /\ \A i \in 1 .. l : Fits(s[i], m, q, f[i])
  BY <1>1 DEF Tags
<1>4. f[1] \in lo .. hi /\ \A i \in 1 .. l : f[1] <= f[i]
  BY <1>2, <1>3
<1>5. Tags(g, Tail(s), m, q, f[1], hi)
  BY <1>2, <1>3, <1>4 DEF Tags
<1> QED
  BY <1>2, <1>3, <1>4, <1>5 DEF Tagged

LEMMA TagReplace ==
    ASSUME NEW s \in Seq(Bytes), NEW m, NEW q, NEW lo \in Nat, NEW hi \in Nat,
           Tagged(s, m, q, lo, hi), NEW i \in 1 .. Len(s), NEW b \in Bytes,
           ~Marked(b, m)
    PROVE  Tagged([s EXCEPT ![i] = b], m, q, lo, hi)
<1>1. PICK f : Tags(f, s, m, q, lo, hi)
  BY DEF Tagged
<1> DEFINE t == [s EXCEPT ![i] = b]
<1>2. /\ Len(t) = Len(s)
      /\ \A j \in 1 .. Len(s) : t[j] = IF j = i THEN b ELSE s[j]
  BY ExceptSeq
<1>3. \A k : Fits(b, m, q, k)
  BY DEF Fits
<1> HIDE DEF t
<1>4. Tags(f, t, m, q, lo, hi)
  BY <1>1, <1>2, <1>3 DEF Tags
<1> QED
  BY <1>4 DEF Tagged, t

LEMMA TagLost ==
    ASSUME NEW s \in Seq(Bytes), NEW m, NEW q, NEW lo \in Nat, NEW hi \in Nat,
           Tagged(s, m, q, lo, hi), NEW i \in 1 .. Len(s)
    PROVE  Tagged(Lost(s, i), m, q, lo, hi)
<1> DEFINE a == SubSeq(s, 1, i - 1)
           r == SubSeq(s, i, Len(s))
           t == SubSeq(s, i + 1, Len(s))
<1>1. /\ a \in Seq(Bytes) /\ r \in Seq(Bytes) /\ t \in Seq(Bytes)
      /\ r # <<>> /\ t = Tail(r) /\ i - 1 \in 0 .. Len(s)
  <2>1. a \in Seq(Bytes) /\ r \in Seq(Bytes) /\ t \in Seq(Bytes)
    BY PartBytes
  <2>2. t = Tail(r)
    BY HeadTailOfSubSeq
  <2>3. Len(r) = Len(s) - i + 1 /\ Len(s) \in Nat
    OBVIOUS
  <2> HIDE DEF a, r, t
  <2>4. r # <<>>
    BY <2>3
  <2> QED
    BY <2>1, <2>2, <2>3, <2>4
<1>2. PICK c \in Nat : Tagged(a, m, q, lo, c) /\ Tagged(r, m, q, c, hi)
  <2>1. (i - 1) + 1 = i
    OBVIOUS
  <2> QED
    BY <1>1, <2>1, TagPart
<1>3. Lost(s, i) = a \o t
  BY DEF Lost
<1> HIDE DEF a, r, t
<1>4. PICK k \in c .. hi : Tagged(t, m, q, k, hi)
  BY <1>1, <1>2, TagHead
<1>5. k \in Nat /\ c <= k /\ hi <= hi
  OBVIOUS
<1>6. Tagged(t, m, q, c, hi)
  BY <1>1, <1>4, <1>5, TagWiden
<1> QED
  BY <1>1, <1>2, <1>3, <1>6, TagConcat

\* Another message queued leaves the numbers of the others.
LEMMA TagQueued ==
    ASSUME NEW s \in Seq(Bytes), NEW m, NEW q \in Seq(Messages),
           NEW x \in Messages, NEW lo \in Nat, NEW hi \in Nat,
           Tagged(s, m, q, lo, hi)
    PROVE  Tagged(s, m, Append(q, x), lo, hi)
<1>1. PICK f : Tags(f, s, m, q, lo, hi)
  BY DEF Tagged
<1>2. \A k \in DOMAIN q : k \in DOMAIN Append(q, x) /\ Append(q, x)[k] = q[k]
  BY AppendProperties
<1>3. \A b, k : Fits(b, m, q, k) => Fits(b, m, Append(q, x), k)
  BY <1>2 DEF Fits
<1>4. Tags(f, s, m, Append(q, x), lo, hi)
  BY <1>1, <1>3 DEF Tags
<1> QED
  BY <1>4 DEF Tagged

LEMMA UnmarkedIsTagged ==
    ASSUME NEW s \in Seq(Bytes), NEW m
    PROVE  Unmarked(s, m) <=> Tagged(s, m, <<>>, 0, 0)
<1>1. Unmarked(s, m) => Tagged(s, m, <<>>, 0, 0)
  BY TagUnmarked
<1>2. ASSUME Tagged(s, m, <<>>, 0, 0)
      PROVE  Unmarked(s, m)
  <2>1. \A b, k : Fits(b, m, <<>>, k) => ~Marked(b, m)
    BY DEF Fits
  <2> QED
    BY <1>2, <2>1 DEF Tagged, Tags, Unmarked
<1> QED
  BY <1>1, <1>2
(***************************************************************************)
(* The marks of a frame.                                                   *)
(***************************************************************************)
\* The bytes that mean nothing about messages.
LEMMA PlainUnmarked ==
    ASSUME NEW m, NEW n, NEW k
    PROVE  /\ ~Marked(Dle, m) /\ ~Marked(Stx, m) /\ ~Marked(Ack, m)
           /\ ~Marked(Error, m) /\ ~Marked(Noise, m) /\ ~Marked(Grant(n), m)
           /\ ~Marked(<<"sap", k>>, m) /\ ~Marked(<<"size", k>>, m)
           /\ ~Marked(<<"data", k>>, m)
  BY DEF Marked, Dle, Stx, Ack, Error, Noise, Grant, Address, Crc

\* A CRC byte tells the bytes it protects, and these the message.
LEMMA CrcTells ==
    ASSUME NEW x \in Messages, NEW a, NEW b, NEW c, NEW d,
           Crc(Protected(x)) = Crc(<<a, b, c, d>>)
    PROVE  /\ a = Address(x.to, x.from) /\ b = <<"sap", x.count>>
           /\ c = <<"size", 1>> /\ d = <<"data", x.id>>
<1>1. Protected(x) = <<a, b, c, d>>
  BY DEF Crc
<1> QED
  BY <1>1 DEF Protected

LEMMA CrcInjective ==
    ASSUME NEW x \in Messages, NEW y \in Messages,
           Crc(Protected(x)) = Crc(Protected(y))
    PROVE  x = y
<1>1. /\ Address(y.to, y.from) = Address(x.to, x.from)
      /\ <<"sap", y.count>> = <<"sap", x.count>>
      /\ <<"data", y.id>> = <<"data", x.id>>
  BY CrcTells DEF Protected
<1>2. x.to = y.to /\ x.from = y.from /\ x.count = y.count /\ x.id = y.id
  BY <1>1 DEF Address
<1> QED
  BY <1>2 DEF Messages

LEMMA AddressInjective ==
    ASSUME NEW a, NEW b, NEW c, NEW d, Address(a, b) = Address(c, d)
    PROVE  a = c /\ b = d
  BY DEF Address

LEMMA SevenBytes ==
    ASSUME NEW a, NEW b, NEW c, NEW d, NEW e, NEW f, NEW g
    PROVE  <<a, b>> \o <<c, d, e, f>> \o <<g>> = <<a, b, c, d, e, f, g>>
<1> DEFINE S == {a, b, c, d, e, f, g}
           u == <<a, b>>
           v == <<c, d, e, f>>
           w == <<g>>
           z == <<a, b, c, d, e, f, g>>
<1>1. /\ u \in Seq(S) /\ v \in Seq(S) /\ w \in Seq(S) /\ z \in Seq(S)
      /\ Len(u) = 2 /\ Len(v) = 4 /\ Len(w) = 1 /\ Len(z) = 7
  OBVIOUS
<1>2. /\ z[1] = u[1] /\ z[2] = u[2] /\ z[3] = v[1] /\ z[4] = v[2]
      /\ z[5] = v[3] /\ z[6] = v[4] /\ z[7] = w[1]
  OBVIOUS
<1> HIDE DEF S, u, v, w, z
<1>3. /\ u \o v \in Seq(S) /\ Len(u \o v) = 6
      /\ \A i \in 1 .. 6 : (u \o v)[i] = IF i <= 2 THEN u[i] ELSE v[i - 2]
  <2>1. /\ u \o v \in Seq(S) /\ Len(u \o v) = Len(u) + Len(v)
        /\ \A i \in 1 .. Len(u) + Len(v) :
             (u \o v)[i] = IF i <= Len(u) THEN u[i] ELSE v[i - Len(u)]
    BY <1>1, ConcatProperties
  <2> QED
    BY <1>1, <2>1
<1>4. /\ u \o v \o w \in Seq(S) /\ Len(u \o v \o w) = 7
      /\ \A i \in 1 .. 7 :
           (u \o v \o w)[i] = IF i <= 6 THEN (u \o v)[i] ELSE w[i - 6]
  <2> DEFINE h == u \o v
  <2>1. h \in Seq(S) /\ Len(h) = 6
    BY <1>3
  <2> HIDE DEF h
  <2>2. /\ h \o w \in Seq(S) /\ Len(h \o w) = Len(h) + Len(w)
        /\ \A i \in 1 .. Len(h) + Len(w) :
             (h \o w)[i] = IF i <= Len(h) THEN h[i] ELSE w[i - Len(h)]
    BY <1>1, <2>1, ConcatProperties
  <2> QED
    BY <1>1, <2>1, <2>2 DEF h
<1>5. ASSUME NEW i \in 1 .. 7
      PROVE  (u \o v \o w)[i] = z[i]
  BY <1>2, <1>3, <1>4
<1>6. u \o v \o w = z
  BY <1>1, <1>4, <1>5, SeqEqual
<1> QED
  BY <1>6 DEF u, v, w, z

\* The number of a frame's message fits all its bytes.
LEMMA FrameFits ==
    ASSUME NEW x \in Messages, NEW m, NEW q, NEW k,
           x.from = m => k \in DOMAIN q /\ q[k] = x,
           NEW i \in 1 .. FrameLength
    PROVE  Fits(Frame(x)[i], m, q, k)
<1> DEFINE b == Frame(x)[i]
           a == Address(x.to, x.from)
           c == Crc(Protected(x))
<1>1. b \in {Dle, Stx, a, <<"sap", x.count>>, <<"size", 1>>, <<"data", x.id>>,
             c}
  <2>1. Frame(x) = <<Dle, Stx, a, <<"sap", x.count>>, <<"size", 1>>,
                     <<"data", x.id>>, c>>
    BY SevenBytes DEF Frame, Protected
  <2> HIDE DEF a, c
  <2>2. i = 1 \/ i = 2 \/ i = 3 \/ i = 4 \/ i = 5 \/ i = 6 \/ i = 7
    BY DEF FrameLength
  <2> QED
    BY <2>1, <2>2
<1> HIDE DEF b
<1>2. b \notin {a, c} => Fits(b, m, q, k)
  BY <1>1, PlainUnmarked DEF Fits
<1>3. ASSUME b = a, Marked(b, m)
      PROVE  x.from = m
  <2>1. ASSUME NEW d, b = Address(d, m)
        PROVE  x.from = m
    <3>1. Address(x.to, x.from) = Address(d, m)
      BY <1>3, <2>1
    <3> QED
      BY <3>1 DEF Address
  <2>2. ASSUME NEW y, b = Crc(y)
        PROVE  FALSE
    BY <1>3, <2>2 DEF Address, Crc
  <2> QED
    BY <1>3, <2>1, <2>2 DEF Marked
<1>4. ASSUME b = c, Marked(b, m)
      PROVE  x.from = m
  <2>1. ASSUME NEW d, b = Address(d, m)
        PROVE  FALSE
    BY <1>4, <2>1 DEF Address, Crc
  <2>2. ASSUME NEW y \in Messages, y.from = m, b = Crc(Protected(y))
        PROVE  x.from = m
    BY <1>4, <2>2, CrcInjective
  <2> QED
    BY <1>4, <2>1, <2>2 DEF Marked
<1>5. b \in {a, c} => Fits(b, m, q, k)
  BY <1>3, <1>4 DEF Fits
<1> QED
  BY <1>2, <1>5 DEF b

\* A piece of the frame of the last message queued goes at the end.
LEMMA TagFrame ==
    ASSUME NEW x \in Messages, NEW m, NEW q \in Seq(Messages),
           NEW y \in Seq(Bytes), NEW k \in Nat,
           x.from = m => k \in DOMAIN q /\ q[k] = x,
           \A i \in 1 .. Len(y) :
             \/ ~Marked(y[i], m)
             \/ \E j \in 1 .. FrameLength : y[i] = Frame(x)[j]
    PROVE  Tagged(y, m, q, k, k)
<1> DEFINE f == [i \in 1 .. Len(y) |-> k]
<1>1. ASSUME NEW i \in 1 .. Len(y)
      PROVE  Fits(y[i], m, q, k)
  <2>1. CASE ~Marked(y[i], m)
    BY <2>1 DEF Fits
  <2>2. ASSUME NEW j \in 1 .. FrameLength, y[i] = Frame(x)[j]
        PROVE  Fits(y[i], m, q, k)
    <3>1. Fits(Frame(x)[j], m, q, k)
      BY FrameFits
    <3> QED
      BY <2>2, <3>1
  <2> QED
    BY <2>1, <2>2
<1>2. Tags(f, y, m, q, k, k)
  BY <1>1 DEF Tags
<1> QED
  BY <1>2 DEF Tagged

(***************************************************************************)
(* What Win__Handle1ms leaves of a node's part in the deliveries.          *)
(***************************************************************************)
\* The bytes y are control bytes of node n and bytes of its queued message.
Speaks(y, s, n) ==
    \A i \in 1 .. Len(y) :
      \/ y[i] \in {Dle, Ack, Grant(n)}
      \/ /\ s.txMessage = "ready"
         /\ \E j \in 1 .. FrameLength : y[i] = Frame(s.txBuffer)[j]

Emits(s, t, n) ==
    \/ t.out = <<>>
    \/ \E y \in Seq(Bytes) : t.out = s.out \o y /\ Speaks(y, s, n)

\* No byte is received and no message is queued.
Quiet(s, t) ==
    /\ DOMAIN t = Fields
    /\ t.txBuffer = s.txBuffer /\ t.prev = s.prev /\ t.header = s.header
    /\ t.rxBuffer = s.rxBuffer /\ t.rxCrc = s.rxCrc
    /\ t.txMessage = "ready" => s.txMessage = "ready"
    /\ t.rxState \in {s.rxState, "idle"}

Silent(s, t) == Quiet(s, t) /\ t.in = s.in /\ t.out = s.out

Handles(s, t, n) ==
    Quiet(s, t) /\ t.in \in {s.in, <<>>} /\ Emits(s, t, n)

LEMMA SilentHandles ==
    ASSUME NEW s, NEW t, NEW u, NEW n
    PROVE  /\ Silent(s, t) /\ Silent(t, u) => Silent(s, u)
           /\ Silent(s, t) /\ Handles(t, u, n) => Handles(s, u, n)
           /\ Handles(s, t, n) /\ Silent(t, u) => Handles(s, u, n)
<1>1. Quiet(s, t) /\ Quiet(t, u) => Quiet(s, u)
  BY DEF Quiet
<1>2. ASSUME Silent(s, t), Handles(t, u, n)
      PROVE  Handles(s, u, n)
  <2>1. ASSUME NEW y, Speaks(y, t, n)
        PROVE  Speaks(y, s, n)
    BY <1>2, <2>1 DEF Speaks, Silent, Quiet
  <2>2. Emits(s, u, n)
    BY <1>2, <2>1 DEF Emits, Silent, Handles
  <2> QED
    BY <1>1, <1>2, <2>2 DEF Silent, Handles
<1>3. Handles(s, t, n) /\ Silent(t, u) => Handles(s, u, n)
  BY <1>1 DEF Silent, Handles, Emits
<1> QED
  BY <1>1, <1>2, <1>3 DEF Silent

LEMMA SilentIsHandled ==
    ASSUME NEW s, NEW t, NEW n, Silent(s, t), s.out \in Seq(Bytes)
    PROVE  Handles(s, t, n)
<1>1. s.out = s.out \o <<>> /\ <<>> \in Seq(Bytes) /\ Speaks(<<>>, s, n)
  BY ConcatEmptySeq DEF Speaks
<1> QED
  BY <1>1 DEF Silent, Handles, Emits

LEMMA TimersSilent ==
    ASSUME NEW n \in Nodes, NEW s, DOMAIN s = Fields
    PROVE  /\ Silent(s, Activity(s, n)) /\ Silent(s, BusIdleTick(s))
           /\ Silent(s, NotSendingTick(s)) /\ Silent(s, ParserTick(s))
           /\ Silent(s, SilenceTick(s))
  BY DEF Activity, BusIdleTick, NotSendingTick, ParserTick, SilenceTick,
         Silent, Quiet, Fields

LEMMA SendDataHandles ==
    ASSUME NEW n \in Nodes, NEW s, Carries(s), DOMAIN s = Fields,
           s.remaining \in 0 .. FrameLength, s.txMessage = "ready"
    PROVE  Handles(s, SendData(s), n)
<1>1. CASE s.remaining = 0
  <2>1. Silent(s, SendData(s))
    BY <1>1 DEF SendData, Silent, Quiet
  <2> QED
    BY <2>1, SilentIsHandled DEF Carries
<1>2. CASE s.remaining # 0
  <2> DEFINE k == MinOf(s.remaining, BytesAtOnce)
             f == Frame(s.txBuffer)
             i == FrameLength - s.remaining + 1
             j == FrameLength - s.remaining + k
             y == SubSeq(f, i, j)
             o == s.out \o y
  <2>1. i \in 1 .. FrameLength /\ j \in i .. FrameLength
    BY <1>2, ConstantTypes DEF MinOf, FrameLength
  <2>2. f \in Seq(Bytes) /\ Len(f) = FrameLength
    BY FrameBytes DEF Carries, CountsOK
  <2>3. SendData(s) = [s EXCEPT !.notSendingTimer = HoldingTime,
                                !.remaining = s.remaining - k, !.out = o]
    BY <1>2 DEF SendData
  <2>4. Speaks(y, s, n) /\ y \in Seq(Bytes)
    <3> HIDE DEF i, j, f
    <3>1. i \in Int /\ j \in Int /\ 1 <= i /\ i <= j /\ j <= Len(f)
      BY <2>1, <2>2 DEF FrameLength
    <3>2. /\ y \in Seq(Bytes) /\ Len(y) = j - i + 1
          /\ \A l \in 1 .. j - i + 1 : y[l] = f[i + l - 1]
      BY <2>2, <3>1
    <3>3. \A l \in 1 .. j - i + 1 : i + l - 1 \in 1 .. FrameLength
      BY <2>1 DEF FrameLength
    <3> HIDE DEF y
    <3> QED
      BY <3>2, <3>3 DEF Speaks, f
  <2> HIDE DEF k, y
  <2>5. /\ Quiet(s, SendData(s)) /\ SendData(s).in = s.in
        /\ SendData(s).out = o
    BY <2>3 DEF Quiet, Fields
  <2> QED
    BY <2>4, <2>5 DEF Handles, Emits
<1> QED
  BY <1>1, <1>2

LEMMA TxIdleHandles ==
    ASSUME NEW n \in Nodes, NEW s, Carries(s), DOMAIN s = Fields
    PROVE  Handles(s, TxIdle(s, n), n)
<1>1. CASE TxIdle(s, n) = s
  <2>1. Silent(s, TxIdle(s, n))
    BY <1>1 DEF Silent, Quiet
  <2> QED
    BY <2>1, SilentIsHandled DEF Carries
<1>2. CASE TxIdle(s, n) # s
  <2> DEFINE o == Append(s.out, Grant(n))
  <2>1. TxIdle(s, n) = [s EXCEPT !.out = o, !.txState = "grant"]
    BY <1>2 DEF TxIdle
  <2>2. o = s.out \o <<Grant(n)>> /\ <<Grant(n)>> \in Seq(Bytes)
    BY AppendIsConcat DEF Carries, Bytes
  <2>3. Speaks(<<Grant(n)>>, s, n)
    BY DEF Speaks
  <2> HIDE DEF o
  <2>4. /\ Quiet(s, TxIdle(s, n)) /\ TxIdle(s, n).in = s.in
        /\ TxIdle(s, n).out = o
    BY <2>1 DEF Quiet, Fields
  <2> QED
    BY <2>2, <2>3, <2>4 DEF Handles, Emits
<1> QED
  BY <1>1, <1>2

LEMMA TxGrantHandles ==
    ASSUME NEW n \in Nodes, NEW s, Local(s), Carries(s), s.txState = "grant"
    PROVE  Handles(s, TxGrant(s, n), n)
<1>1. DOMAIN s = Fields /\ s.txMessage = "ready"
  BY DEF Local, Buffers
<1>2. CASE s.in = <<>>
  <2>1. /\ Quiet(s, TxGrant(s, n)) /\ TxGrant(s, n).in = s.in
        /\ TxGrant(s, n).out = <<>>
    BY <1>1, <1>2 DEF TxGrant, Quiet, Fields
  <2> QED
    BY <2>1 DEF Handles, Emits
<1>3. CASE s.in = <<Grant(n)>>
  <2> DEFINE t == [s EXCEPT !.in = <<>>, !.txState = "sending",
                            !.txStatus = "sending", !.check = 0,
                            !.remaining = FrameLength]
  <2>1. /\ Carries(t) /\ DOMAIN t = Fields /\ t.txMessage = "ready"
        /\ t.remaining \in 0 .. FrameLength
    BY <1>1 DEF Carries, CountsOK, Fields, FrameLength
  <2>2. TxGrant(s, n) = SendData(t)
    BY <1>3 DEF TxGrant
  <2>3. Quiet(s, t) /\ t.in = <<>> /\ t.out = s.out /\ t.txBuffer = s.txBuffer
    BY <1>1 DEF Quiet, Fields
  <2> HIDE DEF t
  <2>4. Handles(t, SendData(t), n)
    BY <2>1, SendDataHandles
  <2>5. Quiet(s, SendData(t)) /\ SendData(t).in = <<>>
    BY <2>3, <2>4 DEF Handles, Quiet
  <2>6. Emits(s, SendData(t), n)
    <3>1. ASSUME NEW y, Speaks(y, t, n)
          PROVE  Speaks(y, s, n)
      BY <1>1, <2>3, <3>1 DEF Speaks
    <3> QED
      BY <2>3, <2>4, <3>1 DEF Handles, Emits
  <2> QED
    BY <2>2, <2>5, <2>6 DEF Handles
<1>4. CASE s.in # <<>> /\ s.in # <<Grant(n)>>
  <2> DEFINE q == IF Len(s.in) = 1 THEN <<>> ELSE s.in
             t == [s EXCEPT !.txState = "idle"]
  <2>1. TxGrant(s, n) = [s EXCEPT !.txState = "idle", !.in = q]
    BY <1>4 DEF TxGrant
  <2>2. q \in {s.in, <<>>}
    OBVIOUS
  <2> HIDE DEF q
  <2>3. /\ Quiet(s, TxGrant(s, n)) /\ TxGrant(s, n).in = q
        /\ TxGrant(s, n).out = s.out
    BY <1>1, <2>1 DEF Quiet, Fields
  <2>4. Silent(s, t)
    BY <1>1 DEF Silent, Quiet, Fields
  <2>5. Emits(s, t, n) /\ t.out = s.out
    BY <1>1, <2>4, SilentIsHandled DEF Handles, Carries, Silent
  <2> HIDE DEF t
  <2>6. Emits(s, TxGrant(s, n), n)
    BY <2>3, <2>5 DEF Emits
  <2> QED
    BY <2>2, <2>3, <2>6 DEF Handles
<1> QED
  BY <1>2, <1>3, <1>4

LEMMA TxSendingHandles ==
    ASSUME NEW n \in Nodes, NEW s, Local(s), Carries(s), s.txState = "sending"
    PROVE  Handles(s, TxSending(s), n)
<1> DEFINE Out(t) == [t EXCEPT !.txState = "idle"]
<1>1. DOMAIN s = Fields /\ s.txMessage = "ready"
      /\ s.remaining \in 0 .. FrameLength
  BY DEF Local, Buffers, NodeOK
\* Every end of the attempt frees the buffer or leaves it queued.
<1>2. ASSUME NEW t, DOMAIN t = Fields, Handles(s, t, n)
      PROVE  /\ Handles(s, Out(AfterCollision(t)), n)
             /\ Handles(s, Out(AfterSilence(t)), n)
  <2>1. ASSUME NEW u, DOMAIN u = Fields, u.in = t.in, u.out = t.out,
               u.txBuffer = t.txBuffer, u.prev = t.prev,
               u.header = t.header, u.rxBuffer = t.rxBuffer,
               u.rxCrc = t.rxCrc, u.rxState = t.rxState
        PROVE  Handles(s, u, n)
    BY <1>1, <1>2, <2>1 DEF Handles, Quiet, Emits
  <2> DEFINE d == DropSendingMessage(t)
             c == [t EXCEPT !.retryCollision = t.retryCollision - 1,
                            !.txMessage = "ready"]
             r == [t EXCEPT !.retry = t.retry - 1, !.txMessage = "ready"]
             k == [t EXCEPT !.txMessage = "ready"]
  <2>2. Handles(s, Out(d), n)
    <3> DEFINE u == Out(d)
    <3>1. /\ DOMAIN u = Fields /\ u.in = t.in /\ u.out = t.out
          /\ u.txBuffer = t.txBuffer /\ u.prev = t.prev
          /\ u.header = t.header /\ u.rxBuffer = t.rxBuffer
          /\ u.rxCrc = t.rxCrc /\ u.rxState = t.rxState
      BY <1>2 DEF DropSendingMessage, Fields
    <3> HIDE DEF u
    <3>2. Handles(s, u, n)
      BY <2>1, <3>1
    <3> QED
      BY <3>2 DEF u
  <2>3. Handles(s, Out(c), n) /\ Handles(s, Out(r), n) /\ Handles(s, Out(k), n)
    <3>1. ASSUME NEW w, NEW x, NEW y
          PROVE  /\ Handles(s, [t EXCEPT !.retryCollision = w,
                                  !.txMessage = x, !.txState = y], n)
                 /\ Handles(s, [t EXCEPT !.retry = w,
                                  !.txMessage = x, !.txState = y], n)
                 /\ Handles(s, [t EXCEPT !.txMessage = x,
                                         !.txState = y], n)
      BY <1>2, <2>1 DEF Fields
    <3> QED
      BY <3>1
  <2>4. AfterCollision(t) \in {c, d} /\ AfterSilence(t) \in {k, r, d}
    BY DEF AfterCollision, AfterSilence
  <2> HIDE DEF c, d, k, r, Out
  <2> QED
    BY <2>2, <2>3, <2>4
<1>3. Handles(s, s, n)
  <2>1. Silent(s, s)
    BY <1>1 DEF Silent, Quiet
  <2> QED
    BY <2>1, SilentIsHandled DEF Carries
<1>4. Handles(s, SendData(s), n) /\ DOMAIN SendData(s) = Fields
  BY <1>1, SendDataHandles DEF Handles, Quiet
<1> HIDE DEF Out
<1>5. \/ TxSending(s) = Out(AfterCollision(s))
      \/ TxSending(s) = SendData(s)
      \/ TxSending(s) = Out(AfterSilence(SendData(s)))
  BY DEF TxSending, Out
<1> QED
  BY <1>1, <1>2, <1>3, <1>4, <1>5

LEMMA HandlerHandles ==
    ASSUME NEW n \in Nodes, NEW s, Stable(s), Carries(s)
    PROVE  Handles(s, IncomingTimers(WinOutgoingProcess(s, n), n), n)
<1> DEFINE a == Activity(s, n)
           b == BusIdleTick(a)
           t == NotSendingTick(b)
           o == WinOutgoingProcess(s, n)
           e == Activity(o, n)
           p == ParserTick(e)
<1>1. Stable(a) /\ Carries(a) /\ Silent(s, a)
  BY ActivityStable, TimersCarry, TimersSilent DEF Stable, Local
<1>2. Ticked(b) /\ Carries(b) /\ Silent(s, b)
  <2> HIDE DEF a
  <2>1. DOMAIN a = Fields
    BY <1>1 DEF Stable, Local
  <2>2. Ticked(b) /\ Carries(b) /\ Silent(a, b)
    BY <1>1, <2>1, BusIdleTicks, TimersCarry, TimersSilent
  <2> HIDE DEF b
  <2> QED
    BY <1>1, <2>2, SilentHandles
<1>3. Ticked(t) /\ Carries(t) /\ Silent(s, t)
  <2> HIDE DEF b
  <2>1. DOMAIN b = Fields
    BY <1>2 DEF Ticked, Local
  <2>2. Ticked(t) /\ Carries(t) /\ Silent(b, t)
    BY <1>2, <2>1, NotSendingTicks, TimersCarry, TimersSilent
  <2> HIDE DEF t
  <2> QED
    BY <1>2, <2>2, SilentHandles
<1>4. o = CASE t.txState = "idle"    -> TxIdle(t, n)
            [] t.txState = "grant"   -> TxGrant(t, n)
            [] t.txState = "sending" -> TxSending(t)
  BY DEF WinOutgoingProcess, t, b, a
<1> HIDE DEF a, b, t, o
<1>5. t.txState \in {"idle", "grant", "sending"} /\ Local(t)
      /\ DOMAIN t = Fields
  BY <1>3 DEF Ticked, Local, NodeOK, TxStates
<1>6. Handles(t, o, n)
  BY <1>3, <1>4, <1>5, TxIdleHandles, TxGrantHandles, TxSendingHandles
<1>7. Handles(s, o, n)
  BY <1>3, <1>6, SilentHandles
<1>8. Silent(o, e)
  BY <1>6, TimersSilent DEF Handles, Quiet
<1> HIDE DEF e
<1>9. Silent(e, p)
  BY <1>8, TimersSilent DEF Silent, Quiet
<1> HIDE DEF p
<1>10. Silent(p, SilenceTick(p))
  BY <1>9, TimersSilent DEF Silent, Quiet
<1>11. Silent(o, p)
  BY <1>8, <1>9, SilentHandles
<1>12. Silent(o, SilenceTick(p))
  BY <1>10, <1>11, SilentHandles
<1>13. IncomingTimers(o, n) = SilenceTick(p)
  BY DEF IncomingTimers, p, e
<1> QED
  BY <1>7, <1>12, <1>13, SilentHandles DEF o

(***************************************************************************)
(* What the reading of a byte leaves of it.                                *)
(***************************************************************************)
\* The byte is not one of a transmission.
Listens(s, t) ==
    /\ DOMAIN t = Fields
    /\ t.txBuffer = s.txBuffer
    /\ t.txMessage = "ready" => s.txMessage = "ready"

LEMMA RxStxListens ==
    ASSUME NEW s, NEW b, DOMAIN s = Fields
    PROVE  LET t == RxStx(s, b) IN
             /\ Listens(s, t) /\ t.out = s.out /\ t.prev = s.prev
             /\ t.rxState \in {"address", "idle"}
             /\ t.rxState = "address" => t.rxCrc = <<>>
<1>1. LET d == DropSendingMessage(s) IN
        /\ DOMAIN d = Fields /\ d.txMessage = "free"
        /\ d.txBuffer = s.txBuffer /\ d.out = s.out /\ d.prev = s.prev
  BY DEF DropSendingMessage, Fields
<1>2. CASE b = Ack /\ s.txState = "sending"
  <2> DEFINE d == DropSendingMessage(s)
  <2>1. RxStx(s, b) = [d EXCEPT !.rxState = "idle", !.txState = "idle"]
    BY <1>2 DEF RxStx, Ack, Stx
  <2> HIDE DEF d
  <2> QED
    BY <1>1, <2>1 DEF Listens, Fields, d
<1>3. CASE ~(b = Ack /\ s.txState = "sending")
  BY <1>3 DEF RxStx, Listens, Fields
<1> QED
  BY <1>2, <1>3

LEMMA AppendIs ==
    ASSUME NEW S, NEW s \in Seq(S), NEW x \in S, NEW t \in Seq(S),
           Len(t) = Len(s) + 1, t[Len(s) + 1] = x,
           \A i \in 1 .. Len(s) : t[i] = s[i]
    PROVE  Append(s, x) = t
<1>1. /\ Append(s, x) \in Seq(S) /\ Len(Append(s, x)) = Len(s) + 1
      /\ \A i \in 1 .. Len(s) : Append(s, x)[i] = s[i]
      /\ Append(s, x)[Len(s) + 1] = x
  BY AppendProperties
<1>2. ASSUME NEW i \in 1 .. Len(t)
      PROVE  Append(s, x)[i] = t[i]
  BY <1>1
<1> QED
  BY <1>1, <1>2, SeqEqual

LEMMA FirstByte ==
    ASSUME NEW a
    PROVE  Append(<<>>, a) = <<a>>
<1> DEFINE S == {a}
           t == <<a>>
<1>1. t \in Seq(S) /\ <<>> \in Seq(S) /\ a \in S /\ Len(t) = 1 /\ t[1] = a
  OBVIOUS
<1> HIDE DEF S, t
<1>2. Append(<<>>, a) = t
  BY <1>1, AppendIs
<1> QED
  BY <1>2 DEF t

LEMMA SecondByte ==
    ASSUME NEW a, NEW b
    PROVE  Append(<<a>>, b) = <<a, b>>
<1> DEFINE S == {a, b}
           s == <<a>>
           t == <<a, b>>
<1>1. s \in Seq(S) /\ t \in Seq(S) /\ b \in S
  OBVIOUS
<1>2. /\ Len(t) = Len(s) + 1 /\ t[Len(s) + 1] = b
      /\ \A i \in 1 .. Len(s) : t[i] = s[i]
  OBVIOUS
<1> HIDE DEF S, s, t
<1>3. Append(s, b) = t
  BY <1>1, <1>2, AppendIs
<1> QED
  BY <1>3 DEF s, t

LEMMA ThirdByte ==
    ASSUME NEW a, NEW b, NEW c
    PROVE  Append(<<a, b>>, c) = <<a, b, c>>
<1> DEFINE S == {a, b, c}
           s == <<a, b>>
           t == <<a, b, c>>
<1>1. s \in Seq(S) /\ t \in Seq(S) /\ c \in S
  OBVIOUS
<1>2. /\ Len(t) = Len(s) + 1 /\ t[Len(s) + 1] = c
      /\ \A i \in 1 .. Len(s) : t[i] = s[i]
  OBVIOUS
<1> HIDE DEF S, s, t
<1>3. Append(s, c) = t
  BY <1>1, <1>2, AppendIs
<1> QED
  BY <1>3 DEF s, t

LEMMA FourthByte ==
    ASSUME NEW a, NEW b, NEW c, NEW d
    PROVE  Append(<<a, b, c>>, d) = <<a, b, c, d>>
<1> DEFINE S == {a, b, c, d}
           s == <<a, b, c>>
           t == <<a, b, c, d>>
<1>1. s \in Seq(S) /\ t \in Seq(S) /\ d \in S
  OBVIOUS
<1>2. /\ Len(t) = Len(s) + 1 /\ t[Len(s) + 1] = d
      /\ \A i \in 1 .. Len(s) : t[i] = s[i]
  OBVIOUS
<1> HIDE DEF S, s, t
<1>3. Append(s, d) = t
  BY <1>1, <1>2, AppendIs
<1> QED
  BY <1>3 DEF s, t

LEMMA AddressByte ==
    ASSUME NEW b \in Bytes, b[1] = "address"
    PROVE  \E d \in Receivers, p \in Nodes : b = Address(d, p)
  BY DEF Bytes, Dle, Stx, Ack, Error, Noise, Grant, Address, Crc

LEMMA CrcByte ==
    ASSUME NEW b \in Bytes, NEW c, b = Crc(c)
    PROVE  \E x \in Messages : b = Crc(Protected(x))
  BY DEF Bytes, Dle, Stx, Ack, Error, Noise, Grant, Address, Crc

LEMMA RxAddressParses ==
    ASSUME NEW n \in Nodes, NEW s, NEW b \in Bytes, DOMAIN s = Fields,
           Carries(s), Parses(s, n), s.rxState = "address"
    PROVE  LET t == RxAddress(s, n, b) IN
             /\ Listens(s, t) /\ Parses(t, n) /\ t.out = s.out
             /\ \/ t.prev = s.prev
                \/ \E d \in Receivers \ {n, Broadcast}, p \in Nodes :
                     b = Address(d, p) /\ t.prev = [s.prev EXCEPT ![p] = 0]
<1> DEFINE t == RxAddress(s, n, b)
<1>1. Append(s.rxCrc, b) = <<b>>
  BY FirstByte DEF Parses
<1>2. CASE b[1] # "address"
  <2>1. /\ Listens(s, t) /\ t.out = s.out /\ t.prev = s.prev
        /\ t.rxState = "wait"
    BY <1>2 DEF RxAddress, Listens, Fields
  <2> HIDE DEF t
  <2>2. Parses(t, n)
    BY <2>1 DEF Parses
  <2> QED
    BY <2>1, <2>2 DEF t
<1>3. CASE b[1] = "address"
  <2>1. PICK d \in Receivers, p \in Nodes : b = Address(d, p)
    BY <1>3, AddressByte
  <2>2. b[2] = d /\ b[3] = p
    BY <2>1 DEF Address
  <2>3. CASE d \in {n, Broadcast}
    <3>1. /\ Listens(s, t) /\ t.out = s.out /\ t.prev = s.prev
          /\ t.rxState = "sap" /\ t.rxCrc = <<b>>
          /\ t.header.to = d /\ t.header.from = p
      BY <1>1, <1>3, <2>2, <2>3
      DEF RxAddress, Listens, Fields, Carries
    <3> HIDE DEF t
    <3>2. Parses(t, n)
      BY <2>1, <2>3, <3>1 DEF Parses
    <3> QED
      BY <3>1, <3>2 DEF t
  <2>4. CASE d \notin {n, Broadcast}
    <3>1. /\ Listens(s, t) /\ t.out = s.out
          /\ t.prev = [s.prev EXCEPT ![p] = 0]
          /\ t.rxState = "wait"
      BY <1>3, <2>2, <2>4 DEF RxAddress, Listens, Fields
    <3> HIDE DEF t
    <3>2. Parses(t, n)
      BY <3>1 DEF Parses
    <3> QED
      BY <2>1, <2>4, <3>1, <3>2 DEF t
  <2> QED
    BY <2>3, <2>4
<1> QED
  BY <1>2, <1>3

LEMMA RxSapParses ==
    ASSUME NEW n \in Nodes, NEW s, NEW b \in Bytes, DOMAIN s = Fields,
           Carries(s), Parses(s, n), s.rxState = "sap"
    PROVE  LET t == RxSap(s, b) IN
             Listens(s, t) /\ Parses(t, n) /\ t.out = s.out /\ t.prev = s.prev
<1> DEFINE t == RxSap(s, b)
           a == Address(s.header.to, s.header.from)
           k == IF b[1] = "sap" THEN b[2] ELSE 0
<1>1. s.header.to \in {n, Broadcast} /\ s.rxCrc = <<a>>
  BY DEF Parses
<1>2. Append(s.rxCrc, b) = <<a, b>>
  BY <1>1, SecondByte
<1> HIDE DEF k
<1>3. RxSap(s, b) = [s EXCEPT !.rxCrc = Append(s.rxCrc, b),
                              !.rxState = "size", !.header.count = k]
  BY DEF RxSap, k
<1>4. /\ Listens(s, t) /\ t.out = s.out /\ t.prev = s.prev
      /\ t.rxState = "size" /\ t.rxCrc = <<a, b>>
      /\ t.header.to = s.header.to /\ t.header.from = s.header.from
      /\ t.header.count = k
  BY <1>2, <1>3 DEF Listens, Fields, Carries
<1> HIDE DEF t
<1>5. Parses(t, n)
  BY <1>1, <1>4 DEF Parses, k
<1> QED
  BY <1>4, <1>5 DEF t

LEMMA RxSizeParses ==
    ASSUME NEW n \in Nodes, NEW s, NEW b \in Bytes, DOMAIN s = Fields,
           Carries(s), Parses(s, n), s.rxState = "size"
    PROVE  LET t == RxSize(s, b) IN
             Listens(s, t) /\ Parses(t, n) /\ t.out = s.out /\ t.prev = s.prev
<1> DEFINE t == RxSize(s, b)
           a == Address(s.header.to, s.header.from)
<1>1. PICK c : /\ s.header.count = IF c[1] = "sap" THEN c[2] ELSE 0
               /\ s.rxCrc = <<a, c>>
  BY DEF Parses
<1>2. Append(s.rxCrc, b) = <<a, c, b>>
  BY <1>1, ThirdByte
<1>3. /\ Listens(s, t) /\ t.out = s.out /\ t.prev = s.prev
      /\ t.rxState \in {"data", "wait"} /\ t.rxCrc = <<a, c, b>>
      /\ t.header = s.header /\ s.header.to \in {n, Broadcast}
  BY <1>2 DEF RxSize, Listens, Fields, Parses
<1> HIDE DEF t
<1>4. Parses(t, n)
  BY <1>1, <1>3 DEF Parses
<1> QED
  BY <1>3, <1>4 DEF t

LEMMA RxDataParses ==
    ASSUME NEW n \in Nodes, NEW s, NEW b \in Bytes, DOMAIN s = Fields,
           Carries(s), Parses(s, n), s.rxState = "data"
    PROVE  LET t == RxData(s, b) IN
             Listens(s, t) /\ Parses(t, n) /\ t.out = s.out /\ t.prev = s.prev
<1> DEFINE t == RxData(s, b)
           a == Address(s.header.to, s.header.from)
           i == IF b[1] = "data" THEN b[2] ELSE None
<1>1. PICK c, d : /\ s.header.count = IF c[1] = "sap" THEN c[2] ELSE 0
                  /\ s.rxCrc = <<a, c, d>>
  BY DEF Parses
<1>2. Append(s.rxCrc, b) = <<a, c, d, b>>
  BY <1>1, FourthByte
<1> HIDE DEF i
<1>3. RxData(s, b) = [s EXCEPT !.rxCrc = Append(s.rxCrc, b),
                               !.rxState = "crc", !.rxBuffer = i]
  BY DEF RxData, i
<1>4. /\ Listens(s, t) /\ t.out = s.out /\ t.prev = s.prev
      /\ t.rxState = "crc" /\ t.rxCrc = <<a, c, d, b>> /\ t.rxBuffer = i
      /\ t.header = s.header /\ s.header.to \in {n, Broadcast}
  BY <1>2, <1>3 DEF Listens, Fields, Parses
<1> HIDE DEF t
<1>5. Parses(t, n)
  BY <1>1, <1>4 DEF Parses, i
<1> QED
  BY <1>4, <1>5 DEF t

\* A frame with a good CRC is, from header to payload, one message.
LEMMA GoodFrameIsMessage ==
    ASSUME NEW n \in Nodes, NEW s, NEW b \in Bytes, Parses(s, n),
           s.rxState = "crc", GoodFrame(s, b)
    PROVE  \E x \in Messages :
             /\ b = Crc(Protected(x)) /\ x.to \in {n, Broadcast}
             /\ s.header.to = x.to /\ s.header.from = x.from
             /\ s.header.count = x.count /\ s.rxBuffer = x.id
<1> DEFINE a == Address(s.header.to, s.header.from)
<1>1. PICK c, d, e : /\ s.header.count = IF c[1] = "sap" THEN c[2] ELSE 0
                     /\ s.rxCrc = <<a, c, d, e>>
                     /\ s.rxBuffer = IF e[1] = "data" THEN e[2] ELSE None
  BY DEF Parses
<1>2. b = Crc(<<a, c, d, e>>)
  BY <1>1 DEF GoodFrame
<1>3. PICK x \in Messages : b = Crc(Protected(x))
  BY <1>2, CrcByte
<1>4. /\ a = Address(x.to, x.from) /\ c = <<"sap", x.count>>
      /\ e = <<"data", x.id>>
  <2>1. Crc(Protected(x)) = Crc(<<a, c, d, e>>)
    BY <1>2, <1>3
  <2> HIDE DEF a
  <2> QED
    BY <2>1, CrcTells
<1>5. s.header.to = x.to /\ s.header.from = x.from
  BY <1>4 DEF Address
<1>6. s.header.to \in {n, Broadcast}
  BY DEF Parses
<1> QED
  BY <1>1, <1>3, <1>4, <1>5, <1>6

LEMMA RxCrcListens ==
    ASSUME NEW n \in Nodes, NEW s, NEW b, DOMAIN s = Fields, Carries(s)
    PROVE  LET t == RxCrc(s, n, b) IN
             /\ Listens(s, t) /\ t.rxState = "idle"
             /\ t.out \in {s.out, s.out \o <<Dle, Ack>>}
             /\ ~GoodFrame(s, b) => t.prev = s.prev
             /\ GoodFrame(s, b) =>
                  t.prev = [s.prev EXCEPT ![s.header.from] = s.header.count]
<1> DEFINE t == RxCrc(s, n, b)
           a == Accepted(s)
<1>1. CASE ~GoodFrame(s, b)
  BY <1>1 DEF RxCrc, Listens, Fields
<1>2. CASE GoodFrame(s, b)
  <2>1. /\ Listens(s, a) /\ a.out = s.out /\ a.prev = s.prev
        /\ a.rxState = s.rxState
    BY DEF Accepted, Listens, Fields
  <2> DEFINE o == IF s.header.to = n THEN a.out \o <<Dle, Ack>> ELSE a.out
  <2>2. t = [a EXCEPT !.rxState = "idle",
                      !.prev[s.header.from] = s.header.count, !.out = o]
    BY <1>2 DEF RxCrc
  <2>3. o \in {s.out, s.out \o <<Dle, Ack>>}
    BY <2>1
  <2> HIDE DEF a, o, t
  <2>4. /\ Listens(s, t) /\ t.rxState = "idle" /\ t.out = o
        /\ t.prev = [s.prev EXCEPT ![s.header.from] = s.header.count]
    BY <2>1, <2>2 DEF Listens, Fields
  <2> QED
    BY <1>2, <2>3, <2>4 DEF t
<1> QED
  BY <1>1, <1>2

\* The byte ends a frame that is good.
Ends(s, b) == s.txStatus # "sending" /\ s.rxState = "crc" /\ GoodFrame(s, b)

\* The byte is the address of a frame for other nodes.
Resets(s, t, n, b) ==
    \E d \in Receivers \ {n, Broadcast}, p \in Nodes :
        b = Address(d, p) /\ t.prev = [s.prev EXCEPT ![p] = 0]

LEMMA ReceivedHears ==
    ASSUME NEW n \in Nodes, NEW s, NEW b \in Bytes, DOMAIN s = Fields,
           s.rxState \in RxStates, Carries(s), Parses(s, n)
    PROVE  LET t == Received(s, n, b) IN
             /\ Listens(s, t) /\ Parses(t, n) /\ Emits(s, t, n)
             /\ Ends(s, b) =>
                  t.prev = [s.prev EXCEPT ![s.header.from] = s.header.count]
             /\ ~Ends(s, b) => t.prev = s.prev \/ Resets(s, t, n, b)
<1> DEFINE t == Received(s, n, b)
<1>1. ASSUME NEW u, u.out = s.out
      PROVE  Emits(s, u, n)
  <2>1. s.out = s.out \o <<>> /\ <<>> \in Seq(Bytes) /\ Speaks(<<>>, s, n)
    BY ConcatEmptySeq DEF Speaks, Carries
  <2> QED
    BY <1>1, <2>1 DEF Emits
<1>2. ASSUME NEW u, u.out = s.out \o <<Dle, Ack>>
      PROVE  Emits(s, u, n)
  <2>1. <<Dle, Ack>> \in Seq(Bytes) /\ Speaks(<<Dle, Ack>>, s, n)
    BY DEF Speaks, Bytes
  <2> QED
    BY <1>2, <2>1 DEF Emits
<1>3. ASSUME NEW x \in {"idle", "stx"}
      PROVE  LET u == [s EXCEPT !.rxState = x] IN
               /\ Listens(s, u) /\ Parses(u, n) /\ u.out = s.out
               /\ u.prev = s.prev
  <2> DEFINE u == [s EXCEPT !.rxState = x]
  <2>1. /\ Listens(s, u) /\ u.out = s.out /\ u.prev = s.prev
        /\ u.rxState = x
    BY DEF Listens, Fields
  <2> HIDE DEF u
  <2>2. Parses(u, n)
    BY <2>1 DEF Parses
  <2> QED
    BY <2>1, <2>2 DEF u
<1>4. CASE s.txStatus = "sending"
  <2>1. t = CheckEcho(s, b)
    BY <1>4 DEF Received
  <2> DEFINE u == CheckEcho(s, b)
  <2>2. /\ Listens(s, u) /\ u.out \in {s.out, <<>>} /\ u.prev = s.prev
        /\ u.rxState = "idle"
    BY DEF CheckEcho, Listens, Fields
  <2> HIDE DEF u
  <2>3. Parses(u, n) /\ Emits(s, u, n)
    BY <1>1, <2>2 DEF Parses, Emits
  <2>4. ~Ends(s, b)
    BY <1>4 DEF Ends
  <2> QED
    BY <2>1, <2>2, <2>3, <2>4 DEF u
<1>5. CASE s.txStatus # "sending" /\ b = Error
  <2>1. t = [s EXCEPT !.rxState = "idle"]
    BY <1>5 DEF Received
  <2>2. ~Ends(s, b)
    BY <1>5 DEF Ends, GoodFrame, Error, Crc
  <2> HIDE DEF t
  <2>3. Listens(s, t) /\ Parses(t, n) /\ t.out = s.out /\ t.prev = s.prev
    BY <1>3, <2>1
  <2> QED
    BY <1>1, <2>2, <2>3 DEF t
<1>6. CASE s.txStatus # "sending" /\ b # Error
  <2>1. CASE s.rxState = "idle"
    <3>1. t = [s EXCEPT !.rxState = IF b = Dle THEN "stx" ELSE "idle"]
      BY <1>6, <2>1 DEF Received
    <3> HIDE DEF t
    <3>2. Listens(s, t) /\ Parses(t, n) /\ t.out = s.out /\ t.prev = s.prev
      BY <1>3, <3>1
    <3> QED
      BY <1>1, <2>1, <3>2 DEF t, Ends
  <2>2. CASE s.rxState = "stx"
    <3>1. t = RxStx(s, b)
      BY <1>6, <2>2 DEF Received
    <3> HIDE DEF t
    <3>2. /\ Listens(s, t) /\ t.out = s.out /\ t.prev = s.prev
          /\ t.rxState \in {"address", "idle"}
          /\ t.rxState = "address" => t.rxCrc = <<>>
      BY <3>1, RxStxListens
    <3>3. Parses(t, n)
      BY <3>2 DEF Parses
    <3> QED
      BY <1>1, <2>2, <3>2, <3>3 DEF t, Ends
  <2>3. CASE s.rxState = "address"
    <3>1. t = RxAddress(s, n, b)
      BY <1>6, <2>3 DEF Received
    <3> HIDE DEF t
    <3>2. /\ Listens(s, t) /\ Parses(t, n) /\ t.out = s.out
          /\ t.prev = s.prev \/ Resets(s, t, n, b)
      BY <2>3, <3>1, RxAddressParses DEF Resets
    <3> QED
      BY <1>1, <2>3, <3>2 DEF t, Ends
  <2>4. CASE s.rxState = "sap"
    <3>1. t = RxSap(s, b)
      BY <1>6, <2>4 DEF Received
    <3> HIDE DEF t
    <3>2. Listens(s, t) /\ Parses(t, n) /\ t.out = s.out /\ t.prev = s.prev
      BY <2>4, <3>1, RxSapParses
    <3> QED
      BY <1>1, <2>4, <3>2 DEF t, Ends
  <2>5. CASE s.rxState = "size"
    <3>1. t = RxSize(s, b)
      BY <1>6, <2>5 DEF Received
    <3> HIDE DEF t
    <3>2. Listens(s, t) /\ Parses(t, n) /\ t.out = s.out /\ t.prev = s.prev
      BY <2>5, <3>1, RxSizeParses
    <3> QED
      BY <1>1, <2>5, <3>2 DEF t, Ends
  <2>6. CASE s.rxState = "data"
    <3>1. t = RxData(s, b)
      BY <1>6, <2>6 DEF Received
    <3> HIDE DEF t
    <3>2. Listens(s, t) /\ Parses(t, n) /\ t.out = s.out /\ t.prev = s.prev
      BY <2>6, <3>1, RxDataParses
    <3> QED
      BY <1>1, <2>6, <3>2 DEF t, Ends
  <2>7. CASE s.rxState = "crc"
    <3>1. t = RxCrc(s, n, b)
      BY <1>6, <2>7 DEF Received
    <3> HIDE DEF t
    <3>2. /\ Listens(s, t) /\ t.rxState = "idle"
          /\ t.out \in {s.out, s.out \o <<Dle, Ack>>}
          /\ ~GoodFrame(s, b) => t.prev = s.prev
          /\ GoodFrame(s, b) =>
               t.prev = [s.prev EXCEPT ![s.header.from] = s.header.count]
      BY <3>1, RxCrcListens
    <3>3. Parses(t, n) /\ Emits(s, t, n)
      BY <1>1, <1>2, <3>2 DEF Parses
    <3> QED
      BY <1>6, <2>7, <3>2, <3>3 DEF t, Ends
  <2>8. CASE s.rxState = "wait"
    <3>1. t = s
      BY <1>6, <2>8 DEF Received
    <3> QED
      BY <1>1, <2>8, <3>1 DEF Listens, Ends
  <2> QED
    BY <2>1, <2>2, <2>3, <2>4, <2>5, <2>6, <2>7, <2>8 DEF RxStates
<1> QED
  BY <1>4, <1>5, <1>6

(***************************************************************************)
(* The steps.                                                              *)
(***************************************************************************)
LEMMA NodeTypes ==
    ASSUME TypeInv, NEW n \in Nodes
    PROVE  /\ Stable(node[n]) /\ Carries(node[n]) /\ DOMAIN node[n] = Fields
           /\ node[n].rxState \in RxStates
           /\ node[n].in \in Seq(Bytes) /\ node[n].out \in Seq(Bytes)
           /\ queued[n] \in Seq(Messages) /\ Len(queued[n]) \in Nat
           /\ node = [m \in Nodes |-> node[m]]
  BY DEF TypeInv, IInv, Stable, Local, NodeOK, Carries

\* What a node sends goes behind what it has sent.
LEMMA EmitsFlow ==
    ASSUME FlowInv, NEW n \in Nodes, NEW t, Emits(node[n], t, n),
           NEW m \in Nodes
    PROVE  /\ m # n => Unmarked(t.out, m)
           /\ \A c \in Nat :
                Tagged(node[n].out, n, queued[n], c, Len(queued[n]))
                  => Tagged(t.out, n, queued[n], c, Len(queued[n]))
<1> DEFINE s == node[n]
           q == queued[n]
           k == Len(q)
           x == s.txBuffer
<1>1. /\ TypeInv /\ x \in Messages /\ s.out \in Seq(Bytes)
      /\ q \in Seq(Messages) /\ k \in Nat
  BY NodeTypes DEF FlowInv, Carries, CountsOK
<1>2. s.txMessage = "ready" => k \in DOMAIN q /\ q[k] = x /\ x.from = n
  <2>1. SendsLast(s, q) /\ Numbered(queued[n], n)
    BY DEF FlowInv
  <2>2. q # <<>> => k \in DOMAIN q
    BY <1>1
  <2> QED
    BY <2>1, <2>2 DEF SendsLast, Numbered
<1>3. m # n => Unmarked(s.out, m)
  BY DEF FlowInv
<1> HIDE DEF q, k
<1>4. CASE t.out = <<>>
  <2>1. Unmarked(t.out, m) /\ Unmarked(t.out, n) /\ t.out \in Seq(Bytes)
    BY <1>4 DEF Unmarked
  <2>2. \A c \in Nat : Tagged(s.out, n, q, c, k) => c <= k
    BY DEF Tagged
  <2> QED
    BY <1>1, <2>1, <2>2, TagUnmarked DEF q, k
<1>5. ASSUME NEW y \in Seq(Bytes), t.out = s.out \o y, Speaks(y, s, n)
      PROVE  /\ m # n => Unmarked(t.out, m)
             /\ \A c \in Nat : Tagged(s.out, n, q, c, k)
                                 => Tagged(t.out, n, q, c, k)
  <2>1. ASSUME NEW p
        PROVE  \A i \in 1 .. Len(y) :
                 \/ ~Marked(y[i], p)
                 \/ /\ s.txMessage = "ready"
                    /\ \E j \in 1 .. FrameLength : y[i] = Frame(x)[j]
    BY <1>5, PlainUnmarked DEF Speaks
  <2>2. Tagged(y, n, q, k, k)
    <3>1. CASE s.txMessage = "ready"
      BY <1>1, <1>2, <2>1, <3>1, TagFrame
    <3>2. CASE s.txMessage # "ready"
      <4>1. Unmarked(y, n)
        BY <2>1, <3>2 DEF Unmarked
      <4> QED
        BY <1>1, <4>1, TagUnmarked
    <3> QED
      BY <3>1, <3>2
  <2>3. \A c \in Nat : Tagged(s.out, n, q, c, k) => Tagged(t.out, n, q, c, k)
    BY <1>1, <1>5, <2>2, TagConcat
  <2>4. m # n => Unmarked(t.out, m)
    <3> HAVE m # n
    <3>1. Tagged(s.out, m, <<>>, 0, 0)
      BY <1>1, <1>3, UnmarkedIsTagged
    <3>2. Tagged(y, m, <<>>, 0, 0)
      <4>1. CASE s.txMessage = "ready"
        <5>1. x.from # m /\ <<>> \in Seq(Messages) /\ 0 \in Nat
          BY <1>2, <4>1
        <5> QED
          BY <1>1, <2>1, <5>1, TagFrame
      <4>2. CASE s.txMessage # "ready"
        <5>1. Unmarked(y, m)
          BY <2>1, <4>2 DEF Unmarked
        <5> QED
          BY <5>1, UnmarkedIsTagged
      <4> QED
        BY <4>1, <4>2
    <3>3. Tagged(t.out, m, <<>>, 0, 0) /\ t.out \in Seq(Bytes)
      BY <1>1, <1>5, <3>1, <3>2, TagConcat, JoinedBytes
    <3> QED
      BY <3>3, UnmarkedIsTagged
  <2> QED
    BY <2>3, <2>4
<1> QED
  BY <1>4, <1>5 DEF Emits, q, k

\* A step of one node, from what it does to its own variables.
LEMMA NodeFlow ==
    ASSUME FlowInv, TypeInv', UNCHANGED queued, NEW n \in Nodes, NEW t,
           node' = [node EXCEPT ![n] = t],
           SendsLast(t, queued[n]), Parses(t, n), Emits(node[n], t, n),
           last' \in Handed, \A p \in Nodes \ {n} : last'[p] = last[p],
           \A m \in Nodes :
             /\ LastQueued(last'[n][m].id, n, queued[m])
             /\ \A c \in Nat :
                  Arrives(node[n].in, m, queued[m], last[n][m].id,
                          node[n].prev[m], c)
                  => Arrives(t.in, m, queued[m], last'[n][m].id, t.prev[m], c)
    PROVE  FlowInv'
<1>1. \A p \in Nodes : node'[p] = IF p = n THEN t ELSE node[p]
  BY NodeTypes DEF FlowInv
<1>2. \A p \in Nodes :
        /\ Numbered(queued'[p], p) /\ SendsLast(node'[p], queued'[p])
        /\ Parses(node'[p], p)
  BY <1>1 DEF FlowInv, Numbered
<1>3. ASSUME NEW p \in Nodes, NEW m \in Nodes
      PROVE  /\ LastQueued(last'[p][m].id, p, queued'[m])
             /\ p # m => Unmarked(node'[p].out, m)
             /\ Flow(node'[p].in, node'[m].out, m, queued'[m],
                     last'[p][m].id, node'[p].prev[m])
  <2>1. LastQueued(last'[p][m].id, p, queued'[m])
    BY DEF FlowInv
  <2>2. p # m => Unmarked(node'[p].out, m)
    BY <1>1, EmitsFlow DEF FlowInv
  <2>3. PICK c \in Nat :
          /\ Arrives(node[p].in, m, queued[m], last[p][m].id,
                     node[p].prev[m], c)
          /\ Tagged(node[m].out, m, queued[m], c, Len(queued[m]))
    BY DEF FlowInv, Flow
  <2>4. Arrives(node'[p].in, m, queued[m], last'[p][m].id,
                node'[p].prev[m], c)
    BY <1>1, <2>3
  <2>5. Tagged(node'[m].out, m, queued[m], c, Len(queued[m]))
    BY <1>1, <2>3, EmitsFlow
  <2> QED
    BY <2>1, <2>2, <2>4, <2>5 DEF Flow
<1> QED
  BY <1>2, <1>3 DEF FlowInv

LEMMA ArrivesNone ==
    ASSUME NEW in \in Seq(Bytes), NEW m, NEW q, NEW k \in Nat, NEW prev,
           NEW c \in Nat, Arrives(in, m, q, k, prev, c)
    PROVE  Arrives(<<>>, m, q, k, prev, c)
<1>1. PICK lo \in Nat : /\ k <= lo
                        /\ lo = k /\ k > 0 => prev = q[k].count
                        /\ Tagged(in, m, q, lo, c)
  BY DEF Arrives
<1>2. Unmarked(<<>>, m) /\ <<>> \in Seq(Bytes) /\ lo <= c
  BY <1>1 DEF Unmarked, Tagged
<1>3. Tagged(<<>>, m, q, lo, c)
  BY <1>2, TagUnmarked
<1> QED
  BY <1>1, <1>3 DEF Arrives

LEMMA HandlesFlow ==
    ASSUME FlowInv, TypeInv', NEW n \in Nodes, NEW t,
           Handles(node[n], t, n), node' = [node EXCEPT ![n] = t],
           UNCHANGED <<queued, last>>
    PROVE  FlowInv'
<1> DEFINE s == node[n]
<1>1. /\ s.in \in Seq(Bytes)
      /\ SendsLast(s, queued[n]) /\ Parses(s, n)
  BY NodeTypes DEF FlowInv
<1>2. node' = [node EXCEPT ![n] = t] /\ UNCHANGED <<queued, last>>
  OBVIOUS
<1>3. Handles(s, t, n)
  OBVIOUS
<1>4. Emits(s, t, n) /\ SendsLast(t, queued[n])
  <2>1. t.txBuffer = s.txBuffer
    BY <1>3 DEF Handles, Quiet
  <2>2. t.txMessage = "ready" => s.txMessage = "ready"
    BY <1>3 DEF Handles, Quiet
  <2>3. Emits(s, t, n)
    BY <1>3 DEF Handles
  <2>4. SendsLast(t, queued[n])
    BY <1>1, <2>1, <2>2 DEF SendsLast
  <2> QED
    BY <2>3, <2>4
<1>5. Parses(t, n)
  <2>1. /\ t.header = s.header /\ t.rxBuffer = s.rxBuffer
        /\ t.rxCrc = s.rxCrc /\ t.rxState \in {s.rxState, "idle"}
    BY <1>3 DEF Handles, Quiet
  <2> HIDE DEF s
  <2>2. CASE t.rxState = "idle"
    BY <2>2 DEF Parses
  <2>3. CASE t.rxState = s.rxState
    BY <1>1, <2>1, <2>3 DEF Parses
  <2> QED
    BY <2>1, <2>2, <2>3
<1>6. ASSUME NEW m \in Nodes, NEW c \in Nat,
             Arrives(s.in, m, queued[m], last[n][m].id, s.prev[m], c)
      PROVE  Arrives(t.in, m, queued[m], last'[n][m].id, t.prev[m], c)
  <2>1. t.prev = s.prev /\ t.in \in {s.in, <<>>} /\ last' = last
    BY <1>2, <1>3 DEF Handles, Quiet
  <2>2. last[n][m].id \in Nat
    BY DEF FlowInv, Handed
  <2> QED
    BY <1>1, <1>6, <2>1, <2>2, ArrivesNone
<1>7. /\ last' \in Handed /\ last' = last
      /\ \A m \in Nodes : LastQueued(last[n][m].id, n, queued[m])
  BY <1>2 DEF FlowInv
<1> QED
  BY <1>2, <1>4, <1>5, <1>6, <1>7, NodeFlow

LEMMA SilentFlow ==
    ASSUME FlowInv, TypeInv', NEW n \in Nodes, NEW t,
           Silent(node[n], t), node' = [node EXCEPT ![n] = t],
           UNCHANGED <<queued, last>>
    PROVE  FlowInv'
<1>1. Handles(node[n], t, n)
  BY SilentIsHandled, NodeTypes DEF FlowInv
<1> QED
  BY <1>1, HandlesFlow

LEMMA HandleFlow ==
    ASSUME FlowInv, TypeInv', NEW n \in Nodes, Handle1ms(n)
    PROVE  FlowInv'
<1> DEFINE t == IncomingTimers(WinOutgoingProcess(node[n], n), n)
<1>1. Handles(node[n], t, n)
  BY NodeTypes, HandlerHandles DEF FlowInv
<1>2. node' = [node EXCEPT ![n] = t] /\ UNCHANGED <<queued, last>>
  BY DEF Handle1ms, history
<1> HIDE DEF t
<1> QED
  BY <1>1, <1>2, HandlesFlow

(***************************************************************************)
(* The reading loop.                                                       *)
(***************************************************************************)
\* A byte that acts on the receiver is one of the message at its number.
LEMMA AddressIsQueued ==
    ASSUME NEW b, NEW m, NEW q, NEW k, Fits(b, m, q, k),
           NEW d \in Receivers, b = Address(d, m)
    PROVE  k \in DOMAIN q /\ d = q[k].to
<1>1. k \in DOMAIN q /\ (b = Address(q[k].to, m) \/ b = Crc(Protected(q[k])))
  BY DEF Fits, Marked
<1>2. b # Crc(Protected(q[k]))
  BY DEF Address, Crc
<1>3. Address(d, m) = Address(q[k].to, m)
  BY <1>1, <1>2
<1> QED
  BY <1>1, <1>3, AddressInjective

LEMMA CrcIsQueued ==
    ASSUME NEW b, NEW m, NEW q \in Seq(Messages), NEW k, Fits(b, m, q, k),
           NEW x \in Messages, b = Crc(Protected(x)), x.from = m
    PROVE  k \in DOMAIN q /\ x = q[k]
<1>1. k \in DOMAIN q /\ (b = Address(q[k].to, m) \/ b = Crc(Protected(q[k])))
  BY DEF Fits, Marked
<1>2. b # Address(q[k].to, m)
  BY DEF Address, Crc
<1>3. q[k] \in Messages
  BY <1>1
<1> QED
  BY <1>1, <1>2, <1>3, CrcInjective

\* Message x is one of the numbers of q from k on, of the same count if it is
\* k itself, and the bytes after it go on from its number.
Continues(x, in, m, q, k, prev, c) ==
    \E i \in DOMAIN q :
        /\ x = q[i] /\ x.id = <<m, i>> /\ k <= i
        /\ i = k => prev = x.count
        /\ Tagged(Tail(in), m, q, i, c)

\* A good frame is the message of a number not below the last one handed over;
\* if it is that message, its count is the one the receiver has.
LEMMA FrameIsQueued ==
    ASSUME NEW m, NEW q \in Seq(Messages),
           NEW k \in Nat, NEW prev, NEW c \in Nat, NEW in \in Seq(Bytes),
           in # <<>>, Arrives(in, m, q, k, prev, c),
           Numbered(q, m),
           NEW x \in Messages, Head(in) = Crc(Protected(x)), x.from = m
    PROVE  Continues(x, in, m, q, k, prev, c)
<1>1. PICK lo \in Nat : /\ k <= lo
                        /\ lo = k /\ k > 0 => prev = q[k].count
                        /\ Tagged(in, m, q, lo, c)
  BY DEF Arrives
<1>2. PICK i \in lo .. c : /\ Fits(Head(in), m, q, i)
                           /\ Tagged(Tail(in), m, q, i, c)
  BY <1>1, TagHead
<1>3. i \in DOMAIN q /\ x = q[i]
  <2> DEFINE b == Head(in)
  <2>1. Fits(b, m, q, i) /\ b = Crc(Protected(x))
    BY <1>2
  <2> HIDE DEF b
  <2> QED
    BY <2>1, CrcIsQueued
<1>4. i \in Nat /\ i > 0 /\ x.id = <<m, i>>
  BY <1>3 DEF Numbered
<1>5. k <= i /\ (i = k => prev = x.count)
  BY <1>1, <1>3, <1>4
<1> QED
  BY <1>2, <1>3, <1>4, <1>5 DEF Continues

\* After an address for other nodes only later messages arrive: the message
\* of this number is for other nodes, the last one handed over is not.
LEMMA ResetArrives ==
    ASSUME NEW n \in Nodes, NEW m \in Nodes, NEW q \in Seq(Messages),
           NEW k \in Nat, NEW prev, NEW c \in Nat, NEW in \in Seq(Bytes),
           in # <<>>, Arrives(in, m, q, k, prev, c), LastQueued(k, n, q),
           NEW d \in Receivers \ {n, Broadcast}, Head(in) = Address(d, m),
           NEW new
    PROVE  Arrives(Tail(in), m, q, k, new, c)
<1>1. PICK lo \in Nat : k <= lo /\ Tagged(in, m, q, lo, c)
  BY DEF Arrives
<1>2. PICK i \in lo .. c : /\ Fits(Head(in), m, q, i)
                           /\ Tagged(Tail(in), m, q, i, c)
  BY <1>1, TagHead
<1>3. i \in DOMAIN q /\ d = q[i].to
  <2> DEFINE b == Head(in)
  <2>1. Fits(b, m, q, i) /\ b = Address(d, m)
    BY <1>2
  <2> HIDE DEF b
  <2> QED
    BY <2>1, AddressIsQueued
<1>4. i # k /\ i \in Nat
  BY <1>3 DEF LastQueued
<1>5. k <= i
  BY <1>1
<1> QED
  BY <1>2, <1>4, <1>5 DEF Arrives

LEMMA TailArrives ==
    ASSUME NEW m, NEW q, NEW k \in Nat, NEW prev, NEW c \in Nat,
           NEW in \in Seq(Bytes), in # <<>>, Arrives(in, m, q, k, prev, c)
    PROVE  Arrives(Tail(in), m, q, k, prev, c)
<1>1. PICK lo \in Nat : /\ k <= lo
                        /\ lo = k /\ k > 0 => prev = q[k].count
                        /\ Tagged(in, m, q, lo, c)
  BY DEF Arrives
<1>2. PICK i \in lo .. c : Tagged(Tail(in), m, q, i, c)
  BY <1>1, TagHead
<1>3. Tail(in) \in Seq(Bytes) /\ i \in Nat /\ lo <= i /\ c <= c
  BY <1>2
<1>4. Tagged(Tail(in), m, q, lo, c)
  BY <1>2, <1>3, TagWiden
<1> QED
  BY <1>1, <1>4 DEF Arrives

\* A node with the next byte taken from its input.
Taken(n) == [node[n] EXCEPT !.in = Tail(@)]

LEMMA ReadingHears ==
    ASSUME FlowInv, NEW n \in Nodes, ReadByte(n)
    PROVE  LET s == Taken(n)
               b == Head(node[n].in)
               t == Received(s, n, b)
           IN  /\ node[n].in \in Seq(Bytes) /\ node[n].in # <<>> /\ b \in Bytes
               /\ s.prev = node[n].prev /\ s.txState = node[n].txState
               /\ s.txMessage = node[n].txMessage
               /\ s.txBuffer = node[n].txBuffer
               /\ s.header.count \in 0 .. CounterLimit
               /\ s.prev \in [Nodes -> 0 .. CounterLimit]
               /\ Parses(s, n) /\ Parses(t, n) /\ t.in = Tail(node[n].in)
               /\ Emits(node[n], t, n) /\ SendsLast(t, queued[n])
               /\ Ends(s, b) =>
                    t.prev = [s.prev EXCEPT ![s.header.from] = s.header.count]
               /\ ~Ends(s, b) => t.prev = s.prev \/ Resets(s, t, n, b)
<1> DEFINE r == node[n]
           s == Taken(n)
           b == Head(r.in)
           t == Received(s, n, b)
<1>1. /\ r.in \in Seq(Bytes) /\ left \in 1 .. Len(r.in)
      /\ DOMAIN r = Fields /\ Carries(r) /\ r.rxState \in RxStates
      /\ Parses(r, n) /\ SendsLast(r, queued[n])
  <2>1. n # None /\ reading = n
    BY ConstantTypes DEF ReadByte
  <2> QED
    BY <2>1, NodeTypes DEF FlowInv, TypeInv
<1>2. r.in # <<>> /\ b \in Bytes /\ Tail(r.in) \in Seq(Bytes)
  BY <1>1
<1>3. /\ DOMAIN s = Fields /\ s.in = Tail(r.in) /\ s.out = r.out
      /\ s.prev = r.prev /\ s.txState = r.txState
      /\ s.txMessage = r.txMessage /\ s.txBuffer = r.txBuffer
      /\ s.header = r.header /\ s.rxBuffer = r.rxBuffer
      /\ s.rxCrc = r.rxCrc /\ s.rxState = r.rxState /\ s.count = r.count
  BY <1>1 DEF Taken, Fields
<1> HIDE DEF r, s, b
<1>4. Carries(s) /\ s.rxState \in RxStates
  BY <1>1, <1>2, <1>3 DEF Carries, CountsOK
<1>5. Parses(s, n)
  <2>1. /\ s.header = r.header /\ s.rxBuffer = r.rxBuffer
        /\ s.rxCrc = r.rxCrc /\ s.rxState = r.rxState
    BY <1>3
  <2>2. Parses(r, n)
    BY <1>1
  <2> QED
    BY <2>1, <2>2 DEF Parses
<1>6. /\ Listens(s, t) /\ Parses(t, n) /\ Emits(s, t, n)
      /\ Ends(s, b) =>
           t.prev = [s.prev EXCEPT ![s.header.from] = s.header.count]
      /\ ~Ends(s, b) => t.prev = s.prev \/ Resets(s, t, n, b)
  BY <1>2, <1>3, <1>4, <1>5, ReceivedHears
<1>7. t.in = Tail(r.in)
  BY <1>3, <1>4, ReceivedKeepsIn
<1> HIDE DEF t
<1>8. SendsLast(t, queued[n])
  BY <1>1, <1>3, <1>6 DEF SendsLast, Listens
<1>9. Emits(r, t, n)
  <2>1. \A y : Speaks(y, s, n) => Speaks(y, r, n)
    BY <1>3 DEF Speaks
  <2> QED
    BY <1>3, <1>6, <2>1 DEF Emits
<1>10. /\ s.header.count \in 0 .. CounterLimit
       /\ s.prev \in [Nodes -> 0 .. CounterLimit]
  BY <1>4 DEF Carries, CountsOK
<1> QED
  BY <1>1, <1>2, <1>3, <1>5, <1>6, <1>7, <1>8, <1>9, <1>10 DEF r, s, b, t

\* The message that a good frame brings.
LEMMA EndBrings ==
    ASSUME FlowInv, NEW n \in Nodes, ReadByte(n),
           Ends(Taken(n), Head(node[n].in))
    PROVE  LET s == Taken(n) IN
             \E m \in Nodes : \E k \in DOMAIN queued[m] :
               /\ s.header.from = m /\ s.rxBuffer = <<m, k>>
               /\ s.header.count = queued[m][k].count
               /\ queued[m][k].to \in {n, Broadcast}
               /\ last[n][m].id <= k
               /\ k = last[n][m].id => s.prev[m] = s.header.count
               /\ \A c \in Nat :
                    Arrives(node[n].in, m, queued[m], last[n][m].id,
                            s.prev[m], c)
                      => Tagged(Tail(node[n].in), m, queued[m], k, c)
<1> DEFINE in == node[n].in
           s == Taken(n)
           b == Head(in)
<1>1. /\ in \in Seq(Bytes) /\ in # <<>> /\ b \in Bytes /\ Parses(s, n)
      /\ s.prev = node[n].prev
  BY ReadingHears
<1>2. s.rxState = "crc" /\ GoodFrame(s, b)
  BY DEF Ends
<1> HIDE DEF s, b
<1>3. PICK x \in Messages :
        /\ b = Crc(Protected(x)) /\ x.to \in {n, Broadcast}
        /\ s.header.to = x.to /\ s.header.from = x.from
        /\ s.header.count = x.count /\ s.rxBuffer = x.id
  BY <1>1, <1>2, GoodFrameIsMessage
<1> DEFINE m == x.from
           q == queued[m]
           l == last[n][m].id
           p == s.prev[m]
<1>4. m \in Nodes
  BY <1>3 DEF Messages
<1>5. /\ q \in Seq(Messages) /\ l \in Nat
      /\ Numbered(q, m)
      /\ \E c \in Nat : Arrives(in, m, q, l, p, c)
  BY <1>1, <1>4, NodeTypes DEF FlowInv, Handed, Flow
<1> HIDE DEF m, q, l, p, in
<1>6. b = Head(in) /\ x.from = m
  BY DEF b, m, in
<1>7. ASSUME NEW c \in Nat, Arrives(in, m, q, l, p, c)
      PROVE  \E i \in DOMAIN q :
               /\ x = q[i] /\ x.id = <<m, i>> /\ l <= i
               /\ i = l => p = x.count
               /\ Tagged(Tail(in), m, q, i, c)
  <2>1. Head(in) = Crc(Protected(x)) /\ in \in Seq(Bytes) /\ in # <<>>
    BY <1>1, <1>3, <1>6
  <2>2. /\ m \in Nodes /\ q \in Seq(Messages) /\ l \in Nat
        /\ Numbered(q, m)
    BY <1>4, <1>5
  <2>3. Arrives(in, m, q, l, p, c) /\ x.from = m
    BY <1>6, <1>7
  <2>4. Continues(x, in, m, q, l, p, c)
    BY <2>1, <2>2, <2>3, FrameIsQueued
  <2> QED
    BY <2>4 DEF Continues
<1>8. PICK k \in DOMAIN q :
        x = q[k] /\ x.id = <<m, k>> /\ l <= k /\ (k = l => p = x.count)
  BY <1>5, <1>7
<1>9. ASSUME NEW c \in Nat, Arrives(in, m, q, l, p, c)
      PROVE  Tagged(Tail(in), m, q, k, c)
  <2>1. PICK i \in DOMAIN q : x.id = <<m, i>> /\ Tagged(Tail(in), m, q, i, c)
    BY <1>7, <1>9
  <2>2. <<m, i>> = <<m, k>>
    BY <1>8, <2>1
  <2>3. i = k
    BY <2>2
  <2> QED
    BY <2>1, <2>3
<1> QED
  BY <1>3, <1>4, <1>8, <1>9 DEF m, q, l, p, in, s

LEMMA ReadFlow ==
    ASSUME FlowInv, TypeInv', NEW n \in Nodes, ReadByte(n)
    PROVE  FlowInv'
<1> DEFINE r == node[n]
           s == Taken(n)
           b == Head(r.in)
           t == Received(s, n, b)
           e == s.header.from
<1>1. /\ r.in \in Seq(Bytes) /\ r.in # <<>> /\ b \in Bytes
      /\ s.prev = r.prev /\ s.prev \in [Nodes -> 0 .. CounterLimit]
      /\ Parses(t, n) /\ t.in = Tail(r.in)
      /\ Emits(r, t, n) /\ SendsLast(t, queued[n])
      /\ Ends(s, b) => t.prev = [s.prev EXCEPT ![e] = s.header.count]
      /\ ~Ends(s, b) => t.prev = s.prev \/ Resets(s, t, n, b)
  BY ReadingHears
<1>2. /\ node' = [node EXCEPT ![n] = t] /\ UNCHANGED queued
      /\ IF HandsOver(s, n, b)
         THEN \E j : last' = [last EXCEPT ![n][e] = [id |-> s.rxBuffer[2],
                                                     times |-> j]]
                     /\ (last[n][e].times \in Nat => j \in Nat)
         ELSE last' = last
  <2> DEFINE j == IF last[n][e].id = s.rxBuffer[2]
                  THEN last[n][e].times + 1 ELSE 1
  <2>1. last[n][e].times \in Nat => j \in Nat
    OBVIOUS
  <2>2. /\ node' = [node EXCEPT ![n] = t] /\ UNCHANGED queued
        /\ IF HandsOver(s, n, b)
           THEN last' = [last EXCEPT ![n][e] = [id |-> s.rxBuffer[2],
                                                times |-> j]]
           ELSE last' = last
    BY DEF ReadByte, Taken
  <2> HIDE DEF j, t, s, b, e
  <2> QED
    BY <2>1, <2>2
<1>3. /\ last \in Handed
      /\ \A m \in Nodes : /\ last[n][m].id \in Nat /\ last[n][m].times \in Nat
                          /\ queued[m] \in Seq(Messages)
                          /\ LastQueued(last[n][m].id, n, queued[m])
  BY NodeTypes DEF FlowInv, Handed
<1>4. HandsOver(s, n, b) <=> Ends(s, b) /\ IsNew(s)
  BY DEF HandsOver, Ends
<1>5. ASSUME Ends(s, b)
      PROVE  \E m \in Nodes : \E k \in DOMAIN queued[m] :
               /\ e = m /\ s.rxBuffer = <<m, k>>
               /\ s.header.count = queued[m][k].count
               /\ queued[m][k].to \in {n, Broadcast}
               /\ last[n][m].id <= k
               /\ k = last[n][m].id => s.prev[m] = s.header.count
               /\ \A c \in Nat :
                    Arrives(r.in, m, queued[m], last[n][m].id, s.prev[m], c)
                      => Tagged(Tail(r.in), m, queued[m], k, c)
  BY <1>5, EndBrings
<1> HIDE DEF r, s, b, t
<1>6. ASSUME NEW m \in Nodes, NEW c \in Nat,
             Arrives(r.in, m, queued[m], last[n][m].id, r.prev[m], c)
      PROVE  Arrives(Tail(r.in), m, queued[m], last[n][m].id, r.prev[m], c)
  BY <1>1, <1>3, <1>6, TailArrives
<1>7. CASE Ends(s, b)
  <2>1. PICK k \in DOMAIN queued[e] :
          /\ e \in Nodes /\ s.rxBuffer = <<e, k>>
          /\ s.header.count = queued[e][k].count
          /\ queued[e][k].to \in {n, Broadcast}
          /\ last[n][e].id <= k
          /\ k = last[n][e].id => s.prev[e] = s.header.count
          /\ \A c \in Nat :
               Arrives(r.in, e, queued[e], last[n][e].id, s.prev[e], c)
                 => Tagged(Tail(r.in), e, queued[e], k, c)
    BY <1>5, <1>7
  <2>2. k \in Nat /\ s.rxBuffer[2] = k
    BY <1>3, <2>1
  <2>3. /\ t.prev[e] = s.header.count
        /\ \A m \in Nodes \ {e} : t.prev[m] = r.prev[m]
    BY <1>1, <1>7, <2>1
  <2> HIDE DEF e
  <2>4. CASE IsNew(s)
    <3>1. PICK j \in Nat :
            last' = [last EXCEPT ![n][e] = [id |-> k, times |-> j]]
      BY <1>2, <1>3, <1>4, <1>7, <2>1, <2>2, <2>4
    <3> DEFINE v == [id |-> k, times |-> j]
    <3>2. v \in [id : Nat, times : Nat] /\ v.id = k
      BY <2>2
    <3>3. last' = [last EXCEPT ![n][e] = v]
      BY <3>1
    <3> HIDE DEF v
    <3>4. /\ last' \in Handed /\ \A p \in Nodes \ {n} : last'[p] = last[p]
          /\ last'[n][e] = v
          /\ \A m \in Nodes \ {e} : last'[n][m] = last[n][m]
      BY <1>3, <2>1, <3>2, <3>3 DEF Handed
    <3>5. LastQueued(k, n, queued[e])
      BY <2>1 DEF LastQueued
    <3>6. ASSUME NEW c \in Nat,
                 Arrives(r.in, e, queued[e], last[n][e].id, r.prev[e], c)
          PROVE  Arrives(Tail(r.in), e, queued[e], k, t.prev[e], c)
      <4>1. Tagged(Tail(r.in), e, queued[e], k, c)
        BY <1>1, <2>1, <3>6
      <4>2. k <= k /\ t.prev[e] = queued[e][k].count
        BY <2>1, <2>2, <2>3
      <4> QED
        BY <2>2, <4>1, <4>2 DEF Arrives
    <3>7. ASSUME NEW m \in Nodes
          PROVE  /\ LastQueued(last'[n][m].id, n, queued[m])
                 /\ \A c \in Nat :
                      Arrives(r.in, m, queued[m], last[n][m].id, r.prev[m], c)
                      => Arrives(t.in, m, queued[m], last'[n][m].id,
                                 t.prev[m], c)
      <4>1. CASE m = e
        BY <1>1, <3>2, <3>4, <3>5, <3>6, <4>1
      <4>2. CASE m # e
        BY <1>1, <1>3, <1>6, <2>3, <3>4, <4>2
      <4> QED
        BY <4>1, <4>2
    <3> QED
      BY <1>1, <1>2, <3>4, <3>7, NodeFlow DEF r
  <2>5. CASE ~IsNew(s)
    <3>1. last' = last
      BY <1>2, <1>4, <2>5
    <3>2. ASSUME NEW c \in Nat,
                 Arrives(r.in, e, queued[e], last[n][e].id, r.prev[e], c)
          PROVE  Arrives(Tail(r.in), e, queued[e], last[n][e].id,
                         t.prev[e], c)
      <4>1. Tagged(Tail(r.in), e, queued[e], k, c)
        BY <1>1, <2>1, <3>2
      <4> QED
        BY <2>1, <2>2, <2>3, <4>1 DEF Arrives
    <3>3. ASSUME NEW m \in Nodes, NEW c \in Nat,
                 Arrives(r.in, m, queued[m], last[n][m].id, r.prev[m], c)
          PROVE  Arrives(t.in, m, queued[m], last'[n][m].id, t.prev[m], c)
      <4>1. CASE m = e
        BY <1>1, <3>1, <3>2, <3>3, <4>1
      <4>2. CASE m # e
        BY <1>1, <1>6, <2>3, <3>1, <3>3, <4>2
      <4> QED
        BY <4>1, <4>2
    <3>4. /\ last' \in Handed /\ \A p \in Nodes \ {n} : last'[p] = last[p]
          /\ \A m \in Nodes : LastQueued(last'[n][m].id, n, queued[m])
      BY <1>3, <3>1
    <3> QED
      BY <1>1, <1>2, <3>3, <3>4, NodeFlow DEF r
  <2> QED
    BY <2>4, <2>5
<1>8. CASE ~Ends(s, b)
  <2>1. last' = last
    BY <1>2, <1>4, <1>8
  <2>2. ASSUME NEW m \in Nodes, NEW c \in Nat,
               Arrives(r.in, m, queued[m], last[n][m].id, r.prev[m], c)
        PROVE  Arrives(t.in, m, queued[m], last'[n][m].id, t.prev[m], c)
    <3>1. CASE t.prev[m] = r.prev[m]
      BY <1>1, <1>6, <2>1, <2>2, <3>1
    <3>2. CASE t.prev[m] # r.prev[m]
      <4>1. PICK d \in Receivers \ {n, Broadcast}, p \in Nodes :
              b = Address(d, p) /\ t.prev = [s.prev EXCEPT ![p] = 0]
        BY <1>1, <1>8, <3>2 DEF Resets
      <4>2. p = m
        BY <1>1, <3>2, <4>1
      <4>3. Head(r.in) = Address(d, m)
        BY <4>1, <4>2 DEF b
      <4>4. Arrives(Tail(r.in), m, queued[m], last[n][m].id, t.prev[m], c)
        BY <1>1, <1>3, <2>2, <4>3, ResetArrives
      <4> QED
        BY <1>1, <2>1, <4>4
    <3> QED
      BY <3>1, <3>2
  <2>3. /\ last' \in Handed /\ \A p \in Nodes \ {n} : last'[p] = last[p]
        /\ \A m \in Nodes : LastQueued(last'[n][m].id, n, queued[m])
    BY <1>3, <2>1
  <2> QED
    BY <1>1, <1>2, <2>2, <2>3, NodeFlow DEF r
<1> QED
  BY <1>7, <1>8

(***************************************************************************)
(* The wire.                                                               *)
(***************************************************************************)
LEMMA BurstIs ==
    ASSUME TypeInv, NEW n \in Nodes
    PROVE  \E k \in 0 .. Len(node[n].out) :
             /\ Burst(n) = SubSeq(node[n].out, 1, k) /\ k = Len(Burst(n))
             /\ Burst(n) \in Seq(Bytes)
<1> DEFINE o == node[n].out
           k == MinOf(Len(o), BytesPerMs)
<1>1. o \in Seq(Bytes) /\ Len(o) \in Nat /\ BytesPerMs \in Nat
  BY NodeTypes, WinAssumption DEF WinAssumption
<1>2. k \in 0 .. Len(o)
  BY <1>1 DEF MinOf
<1>3. Burst(n) = SubSeq(o, 1, k)
  BY DEF Burst
<1> HIDE DEF o, k
<1>4. SubSeq(o, 1, k) \in Seq(Bytes) /\ Len(SubSeq(o, 1, k)) = k
  BY <1>1, <1>2
<1> QED
  BY <1>2, <1>3, <1>4 DEF o

\* What a node hears of the marks of m is what m sends, or less.
Hearing(w, m) ==
    \A c, hi \in Nat : Tagged(Burst(m), m, queued[m], c, hi)
                         => Tagged(w, m, queued[m], c, hi)

LEMMA UnmarkedHearing ==
    ASSUME NEW w \in Seq(Bytes), NEW m, Unmarked(w, m)
    PROVE  Hearing(w, m)
<1> SUFFICES ASSUME NEW c \in Nat, NEW hi \in Nat,
                    Tagged(Burst(m), m, queued[m], c, hi)
             PROVE  Tagged(w, m, queued[m], c, hi)
  BY DEF Hearing
<1>1. c <= hi
  BY DEF Tagged
<1> QED
  BY <1>1, TagUnmarked

LEMMA CarriedHearing ==
    ASSUME FlowInv, NEW w \in Carried, NEW m \in Nodes
    PROVE  Hearing(w, m)
<1>1. TypeInv /\ w \in Seq(Bytes)
  BY CarriedBytes DEF FlowInv
<1>2. ASSUME NEW n \in Nodes, w = [i \in 1 .. Len(Burst(n)) |-> Noise]
      PROVE  Hearing(w, m)
  <2>1. Len(Burst(n)) \in Nat
    BY <1>1, BurstIs
  <2>2. \A i \in 1 .. Len(w) : w[i] = Noise
    BY <1>2, <2>1
  <2>3. Unmarked(w, m)
    BY <2>2, PlainUnmarked DEF Unmarked
  <2> QED
    BY <1>1, <2>3, UnmarkedHearing
<1>3. ASSUME NEW n \in Nodes, w = Burst(n)
      PROVE  Hearing(w, m)
  <2>1. CASE n = m
    BY <1>3, <2>1 DEF Hearing
  <2>2. CASE n # m
    <3> DEFINE o == node[n].out
    <3>1. o \in Seq(Bytes) /\ Unmarked(o, m)
      BY <1>1, <2>2, NodeTypes DEF FlowInv
    <3>2. PICK k \in 0 .. Len(o) : w = SubSeq(o, 1, k)
      BY <1>1, <1>3, BurstIs
    <3> HIDE DEF o
    <3>3. Len(w) = k /\ k <= Len(o) /\ \A i \in 1 .. k : w[i] = o[i]
      BY <3>1, <3>2
    <3>4. Unmarked(w, m)
      BY <3>1, <3>3 DEF Unmarked
    <3> QED
      BY <1>1, <3>4, UnmarkedHearing
  <2> QED
    BY <2>1, <2>2
<1> QED
  BY <1>2, <1>3 DEF Carried, Senders

\* A loss or a damage that is not of an address byte takes marks away.
LEMMA DamagedHearing ==
    ASSUME NEW w \in Seq(Bytes), NEW i \in 1 .. Len(w),
           NEW d \in Damaged(w, i), d[1] # "misaddress", NEW m, Hearing(w, m)
    PROVE  Hearing(d[2], m)
<1> DEFINE l == Lost(w, i)
           e == [w EXCEPT ![i] = Error]
           o == [w EXCEPT ![i] = Noise]
           A(x) == [w EXCEPT ![i] = Address(x, w[i][3])]
<1>1. d[2] \in {l, e, o}
  <2>1. \/ d \in {<<"lose", l>>, <<"error", e>>, <<"noise", o>>}
        \/ \E x \in Receivers : d = <<"misaddress", A(x)>>
    BY DEF Damaged
  <2> HIDE DEF l, e, o, A
  <2> QED
    BY <2>1
<1>2. Error \in Bytes /\ Noise \in Bytes
  BY DEF Bytes
<1>3. ASSUME NEW c \in Nat, NEW hi \in Nat,
             Tagged(w, m, queued[m], c, hi)
      PROVE  /\ Tagged(l, m, queued[m], c, hi)
             /\ Tagged(e, m, queued[m], c, hi)
             /\ Tagged(o, m, queued[m], c, hi)
  BY <1>2, <1>3, TagLost, TagReplace, PlainUnmarked
<1> HIDE DEF l, e, o
<1> QED
  BY <1>1, <1>3 DEF Hearing

LEMMA DeliverFlow ==
    ASSUME FlowInv, TypeInv', NEW heard, Deliver(heard),
           \A n, m \in Nodes : heard[n] \in Seq(Bytes) /\ Hearing(heard[n], m)
    PROVE  FlowInv'
<1> DEFINE Rest(n) == SubSeq(node[n].out, Len(Burst(n)) + 1, Len(node[n].out))
<1>1. /\ UNCHANGED <<queued, last>>
      /\ \A n \in Nodes :
           node'[n] = [node[n] EXCEPT !.in = node[n].in \o heard[n],
                                      !.out = Rest(n)]
  BY DEF Deliver, history
<1> HIDE DEF Rest
<1>2. ASSUME NEW n \in Nodes
      PROVE  /\ node'[n].in = node[n].in \o heard[n]
             /\ node'[n].out = Rest(n)
             /\ node'[n].prev = node[n].prev
             /\ node'[n].header = node[n].header
             /\ node'[n].rxBuffer = node[n].rxBuffer
             /\ node'[n].rxCrc = node[n].rxCrc
             /\ node'[n].rxState = node[n].rxState
             /\ node'[n].txMessage = node[n].txMessage
             /\ node'[n].txBuffer = node[n].txBuffer
  BY <1>1, NodeTypes DEF FlowInv, Fields
<1>3. ASSUME NEW m \in Nodes, NEW p, NEW q, NEW c \in Nat, NEW hi \in Nat,
             Tagged(node[m].out, p, q, c, hi)
      PROVE  \E k \in Nat :
               /\ Tagged(Burst(m), p, q, c, k) /\ Tagged(Rest(m), p, q, k, hi)
  <2> DEFINE o == node[m].out
  <2>1. o \in Seq(Bytes)
    BY NodeTypes DEF FlowInv
  <2>2. PICK k \in 0 .. Len(o) :
          Burst(m) = SubSeq(o, 1, k) /\ k = Len(Burst(m))
    BY BurstIs DEF FlowInv
  <2>3. Rest(m) = SubSeq(o, k + 1, Len(o))
    BY <2>2 DEF Rest
  <2> HIDE DEF o
  <2>4. Tagged(o, p, q, c, hi)
    BY <1>3 DEF o
  <2> QED
    BY <2>1, <2>2, <2>3, <2>4, TagPart
<1>4. ASSUME NEW n \in Nodes
      PROVE  /\ Numbered(queued'[n], n) /\ SendsLast(node'[n], queued'[n])
             /\ Parses(node'[n], n)
  <2>1. /\ Numbered(queued[n], n) /\ SendsLast(node[n], queued[n])
        /\ Parses(node[n], n)
    BY DEF FlowInv
  <2>2. SendsLast(node'[n], queued[n])
    BY <1>2, <2>1 DEF SendsLast
  <2> DEFINE s == node[n]
             t == node'[n]
  <2>3. /\ t.header = s.header /\ t.rxBuffer = s.rxBuffer
        /\ t.rxCrc = s.rxCrc /\ t.rxState = s.rxState /\ Parses(s, n)
    BY <1>2, <2>1
  <2> HIDE DEF s, t
  <2>4. Parses(t, n)
    BY <2>3 DEF Parses
  <2> QED
    BY <1>1, <2>1, <2>2, <2>4 DEF t
<1>5. ASSUME NEW n \in Nodes, NEW m \in Nodes, n # m
      PROVE  Unmarked(node'[n].out, m)
  <2>1. Unmarked(node[n].out, m) /\ node[n].out \in Seq(Bytes)
    BY <1>5, NodeTypes DEF FlowInv
  <2>2. Tagged(node[n].out, m, <<>>, 0, 0)
    BY <2>1, UnmarkedIsTagged
  <2>3. PICK k \in Nat : Tagged(Rest(n), m, <<>>, k, 0)
    BY <1>3, <2>2
  <2>4. k = 0
    BY <2>3 DEF Tagged
  <2>5. Rest(n) \in Seq(Bytes)
    BY <1>2 DEF TypeInv, Carries
  <2> QED
    BY <1>2, <2>3, <2>4, <2>5, UnmarkedIsTagged
<1>6. ASSUME NEW n \in Nodes, NEW m \in Nodes
      PROVE  Flow(node'[n].in, node'[m].out, m, queued[m], last[n][m].id,
                  node'[n].prev[m])
  <2> DEFINE in == node[n].in
             q == queued[m]
             l == last[n][m].id
             p == node[n].prev[m]
             h == heard[n]
             hi == Len(q)
  <2>1. PICK c \in Nat : /\ Arrives(in, m, q, l, p, c)
                         /\ Tagged(node[m].out, m, q, c, hi)
    BY DEF FlowInv, Flow
  <2>2. hi \in Nat /\ in \in Seq(Bytes) /\ h \in Seq(Bytes)
    BY NodeTypes DEF FlowInv
  <2> HIDE DEF in, l, p, hi, h
  <2>3. PICK k \in Nat : /\ Tagged(Burst(m), m, q, c, k)
                         /\ Tagged(Rest(m), m, q, k, hi)
    BY <1>3, <2>1, <2>2
  <2>4. Tagged(h, m, q, c, k)
    BY <2>3 DEF Hearing, h
  <2>5. PICK lo \in Nat : /\ l <= lo
                          /\ lo = l /\ l > 0 => p = q[l].count
                          /\ Tagged(in, m, q, lo, c)
    BY <2>1 DEF Arrives
  <2> HIDE DEF q
  <2>6. Tagged(in \o h, m, q, lo, k)
    BY <2>2, <2>4, <2>5, TagConcat
  <2>7. Arrives(in \o h, m, q, l, p, k)
    BY <2>5, <2>6 DEF Arrives
  <2> QED
    BY <1>2, <2>3, <2>7 DEF Flow, in, h, l, p, q, hi
<1>7. \A n, m \in Nodes : LastQueued(last[n][m].id, n, queued[m])
  BY DEF FlowInv
<1>8. last' \in Handed
  BY <1>1 DEF FlowInv
<1> QED
  BY <1>1, <1>4, <1>5, <1>6, <1>7, <1>8 DEF FlowInv

LEMMA WireFlow ==
    ASSUME FlowInv, TypeInv', Wire
    PROVE  FlowInv'
<1>1. ASSUME NEW w \in Seq(Bytes), Deliver([n \in Nodes |-> w]),
             \A m \in Nodes : Hearing(w, m)
      PROVE  FlowInv'
  <2> DEFINE heard == [n \in Nodes |-> w]
  <2>1. \A n, m \in Nodes : heard[n] \in Seq(Bytes) /\ Hearing(heard[n], m)
    BY <1>1
  <2>2. Deliver(heard)
    BY <1>1
  <2> HIDE DEF heard
  <2> QED
    BY <2>1, <2>2, DeliverFlow
<1>2. <<>> \in Seq(Bytes) /\ \A m \in Nodes : Hearing(<<>>, m)
  <2>1. <<>> \in Seq(Bytes) /\ \A m \in Nodes : Unmarked(<<>>, m)
    BY DEF Unmarked
  <2> QED
    BY <2>1, UnmarkedHearing
<1>3. \A w \in Carried : w \in Seq(Bytes) /\ \A m \in Nodes : Hearing(w, m)
  BY CarriedBytes, CarriedHearing DEF FlowInv
<1> QED
  BY <1>1, <1>2, <1>3 DEF Wire

LEMMA FaultyFlow ==
    ASSUME FlowInv, TypeInv', FaultyWire, "misaddress" \notin Faults
    PROVE  FlowInv'
<1>1. PICK w, i, v, d :
        /\ w \in Carried /\ i \in 1 .. Len(w) /\ d \in Damaged(w, i)
        /\ Fault(d[1])
        /\ Deliver([n \in Nodes |-> IF n \in v THEN d[2] ELSE w])
  BY DEF FaultyWire
<1>2. /\ w \in Seq(Bytes) /\ d[2] \in Seq(Bytes) /\ d[1] # "misaddress"
  BY <1>1, CarriedBytes, DamagedBytes DEF FlowInv, Fault
<1>3. \A m \in Nodes : Hearing(w, m) /\ Hearing(d[2], m)
  BY <1>1, <1>2, CarriedHearing, DamagedHearing
<1> DEFINE heard == [n \in Nodes |-> IF n \in v THEN d[2] ELSE w]
<1>4. \A n, m \in Nodes : heard[n] \in Seq(Bytes) /\ Hearing(heard[n], m)
  BY <1>2, <1>3
<1>5. Deliver(heard)
  BY <1>1
<1> HIDE DEF heard
<1> QED
  BY <1>4, <1>5, DeliverFlow

(***************************************************************************)
(* The calls of the application and the restarts.                          *)
(***************************************************************************)
LEMMA QueueFlow ==
    ASSUME FlowInv, TypeInv', NEW n \in Nodes,
           NEW d \in Destinations \ {n}, QueueMessage(n, d)
    PROVE  FlowInv'
<1> DEFINE s == node[n]
           q == queued[n]
           x == [to |-> d, from |-> n, count |-> s.count,
                 id |-> <<n, Len(q) + 1>>]
           t == [s EXCEPT !.txBuffer = x, !.count = NextCount(s.count),
                          !.retry = Retries,
                          !.retryCollision = CollisionRetries,
                          !.txMessage = "ready"]
           r == Append(q, x)
<1>1. /\ node' = [node EXCEPT ![n] = t]
      /\ queued' = [queued EXCEPT ![n] = r] /\ last' = last
  BY DEF QueueMessage
<1>2. /\ Carries(s) /\ DOMAIN s = Fields /\ q \in Seq(Messages)
      /\ Len(q) \in Nat
      /\ queued \in [Nodes -> Seq(Messages)]
      /\ node = [p \in Nodes |-> node[p]]
  BY NodeTypes DEF FlowInv, TypeInv
<1>3. x \in Messages /\ x.from = n /\ x.id = <<n, Len(q) + 1>>
  <2>1. d \in Receivers
    BY WinAssumption DEF WinAssumption, Receivers
  <2>2. s.count \in 0 .. CounterLimit
    BY <1>2 DEF Carries, CountsOK
  <2> QED
    BY <1>2, <2>1, <2>2 DEF Messages, Ids
<1> HIDE DEF x
<1>4. /\ t.txBuffer = x /\ t.in = s.in /\ t.out = s.out /\ t.prev = s.prev
      /\ t.header = s.header /\ t.rxBuffer = s.rxBuffer
      /\ t.rxCrc = s.rxCrc /\ t.rxState = s.rxState
  BY <1>2 DEF Fields
<1> HIDE DEF t
<1>5. /\ r \in Seq(Messages) /\ Len(r) = Len(q) + 1 /\ r[Len(q) + 1] = x
      /\ DOMAIN r = DOMAIN q \cup {Len(q) + 1}
      /\ \A k \in DOMAIN q : r[k] = q[k]
  <2>1. /\ r \in Seq(Messages) /\ Len(r) = Len(q) + 1 /\ r[Len(q) + 1] = x
        /\ \A k \in 1 .. Len(q) : r[k] = q[k]
    BY <1>2, <1>3, AppendProperties
  <2>2. DOMAIN q = 1 .. Len(q) /\ DOMAIN r = 1 .. Len(r)
    BY <1>2, <2>1
  <2> HIDE DEF q, r
  <2> QED
    BY <1>2, <2>1, <2>2
<1>6. \A p \in Nodes :
        /\ queued'[p] = IF p = n THEN r ELSE queued[p]
        /\ node'[p] = IF p = n THEN t ELSE node[p]
  BY <1>1, <1>2
<1>7. Numbered(r, n) /\ SendsLast(t, r)
  <2>1. Numbered(q, n)
    BY DEF FlowInv
  <2>2. r # <<>>
    BY <1>2, <1>5
  <2> HIDE DEF q, r, s
  <2> QED
    BY <1>3, <1>4, <1>5, <2>1, <2>2 DEF Numbered, SendsLast
<1>8. Parses(t, n)
  <2>1. Parses(s, n)
    BY DEF FlowInv
  <2>2. /\ t.header = s.header /\ t.rxBuffer = s.rxBuffer
        /\ t.rxCrc = s.rxCrc /\ t.rxState = s.rxState
    BY <1>4
  <2> HIDE DEF s, r, q
  <2> QED
    BY <2>1, <2>2 DEF Parses
<1>9. ASSUME NEW p \in Nodes
      PROVE  /\ Numbered(queued'[p], p) /\ SendsLast(node'[p], queued'[p])
             /\ Parses(node'[p], p)
  BY <1>6, <1>7, <1>8 DEF FlowInv
<1>10. ASSUME NEW p \in Nodes
       PROVE  /\ node'[p].in = node[p].in /\ node'[p].out = node[p].out
              /\ node'[p].prev = node[p].prev
  BY <1>4, <1>6
<1>11. ASSUME NEW p \in Nodes
       PROVE  /\ LastQueued(last[p][n].id, p, r)
              /\ Flow(node[p].in, node[n].out, n, r, last[p][n].id,
                      node[p].prev[n])
  <2> DEFINE in == node[p].in
             out == node[n].out
             l == last[p][n].id
             v == node[p].prev[n]
  <2>1. LastQueued(l, p, q) /\ Flow(in, out, n, q, l, v)
    BY DEF FlowInv
  <2>2. in \in Seq(Bytes) /\ out \in Seq(Bytes) /\ l \in Nat
    BY NodeTypes DEF FlowInv, Handed
  <2> HIDE DEF in, out, l, v, q, s
  <2>3. LastQueued(l, p, r)
    BY <1>5, <2>1 DEF LastQueued
  <2>4. PICK c \in Nat :
          Arrives(in, n, q, l, v, c) /\ Tagged(out, n, q, c, Len(q))
    BY <2>1 DEF Flow
  <2>5. PICK lo \in Nat : /\ l <= lo
                          /\ lo = l /\ l > 0 => v = q[l].count
                          /\ Tagged(in, n, q, lo, c)
    BY <2>4 DEF Arrives
  <2>6. Tagged(in, n, r, lo, c) /\ Tagged(out, n, r, c, Len(q))
    BY <1>2, <1>3, <2>2, <2>4, <2>5, TagQueued
  <2>7. Tagged(out, n, r, c, Len(r))
    <3>1. Len(r) \in Nat /\ c <= c /\ Len(q) <= Len(r)
      BY <1>2, <1>5
    <3> HIDE DEF r
    <3> QED
      BY <1>2, <2>2, <2>6, <3>1, TagWiden
  <2>8. l > 0 => r[l] = q[l]
    BY <1>5, <2>1 DEF LastQueued
  <2> HIDE DEF r
  <2>9. Arrives(in, n, r, l, v, c)
    BY <2>5, <2>6, <2>8 DEF Arrives
  <2> QED
    BY <2>3, <2>7, <2>9 DEF Flow, in, out, l, v
<1>12. ASSUME NEW p \in Nodes, NEW m \in Nodes
       PROVE  /\ LastQueued(last[p][m].id, p, queued'[m])
              /\ Flow(node[p].in, node[m].out, m, queued'[m], last[p][m].id,
                      node[p].prev[m])
              /\ p # m => Unmarked(node[p].out, m)
  <2>1. /\ LastQueued(last[p][m].id, p, queued[m])
        /\ Flow(node[p].in, node[m].out, m, queued[m], last[p][m].id,
                node[p].prev[m])
        /\ p # m => Unmarked(node[p].out, m)
    BY DEF FlowInv
  <2>2. CASE m = n
    BY <1>6, <1>11, <2>1, <2>2
  <2>3. CASE m # n
    BY <1>6, <2>1, <2>3
  <2> QED
    BY <2>2, <2>3
<1>13. last' \in Handed
  BY <1>1 DEF FlowInv
<1> HIDE DEF q, r, s
<1> QED
  BY <1>1, <1>9, <1>10, <1>12, <1>13 DEF FlowInv

LEMMA ApplicationFlow ==
    ASSUME FlowInv, TypeInv', Application
    PROVE  FlowInv'
<1>1. PICK n \in Nodes :
        \/ AllocateMessage(n)
        \/ \E d \in Destinations \ {n} : QueueMessage(n, d)
        \/ RejectMessage(n)
        \/ CheckIncomingMessage(n) \/ GetIncomingMessage(n)
        \/ CheckParsedMessage(n) \/ FreeIncomingMessage(n)
  BY DEF Application
<1> DEFINE s == node[n]
<1>2. DOMAIN s = Fields
  BY NodeTypes DEF FlowInv
<1>3. CASE AllocateMessage(n) \/ RejectMessage(n)
  <2>1. PICK x \in {"processing", "free"} :
            node' = [node EXCEPT ![n] = [s EXCEPT !.txMessage = x]]
    BY <1>3, NodeTypes DEF AllocateMessage, RejectMessage, FlowInv
  <2> DEFINE t == [s EXCEPT !.txMessage = x]
  <2>2. UNCHANGED <<queued, last>>
    BY <1>3 DEF AllocateMessage, RejectMessage, history
  <2>3. Silent(s, t)
    BY <1>2 DEF Silent, Quiet, Fields
  <2>4. node' = [node EXCEPT ![n] = t]
    BY <2>1
  <2> HIDE DEF t
  <2> QED
    BY <2>2, <2>3, <2>4, SilentFlow
<1>4. CASE GetIncomingMessage(n) \/ FreeIncomingMessage(n)
  <2>1. PICK x : node' = [node EXCEPT ![n] = [s EXCEPT !.rxMessage = x]]
    BY <1>4, NodeTypes DEF GetIncomingMessage, FreeIncomingMessage, FlowInv
  <2> DEFINE t == [s EXCEPT !.rxMessage = x]
  <2>2. UNCHANGED <<queued, last>>
    BY <1>4 DEF GetIncomingMessage, FreeIncomingMessage, history
  <2>3. Silent(s, t)
    BY <1>2 DEF Silent, Quiet, Fields
  <2>4. node' = [node EXCEPT ![n] = t]
    BY <2>1
  <2> HIDE DEF t
  <2> QED
    BY <2>2, <2>3, <2>4, SilentFlow
<1>5. CASE CheckIncomingMessage(n) \/ CheckParsedMessage(n)
  <2>1. UNCHANGED <<node, queued, last>>
    BY <1>5 DEF CheckIncomingMessage, CheckParsedMessage, history
  <2> QED
    BY <2>1 DEF FlowInv
<1> QED
  BY <1>1, <1>3, <1>4, <1>5, QueueFlow

\* Nothing is on its way to a node that has started, and nothing from it.
LEMMA InitialFlow ==
    ASSUME NEW n \in Nodes
    PROVE  LET t == Initial(n) IN
             /\ t.in = <<>> /\ t.out = <<>> /\ t.prev = [m \in Nodes |-> 0]
             /\ Parses(t, n) /\ \A q : SendsLast(t, q)
  BY DEF Initial, Parses, SendsLast

LEMMA RestartFlow ==
    ASSUME FlowInv, TypeInv', NEW n \in Nodes, Restart(n)
    PROVE  FlowInv'
<1> DEFINE t == Initial(n)
           z == [m \in Nodes |-> Nothing]
<1>1. /\ node' = [node EXCEPT ![n] = t] /\ UNCHANGED queued
      /\ last' = [last EXCEPT ![n] = z]
  BY DEF Restart
<1>2. z \in [Nodes -> [id : Nat, times : Nat]] /\ last \in Handed
      /\ \A m \in Nodes : z[m].id = 0
  BY DEF Nothing, FlowInv
<1>3. /\ t.in = <<>> /\ Emits(node[n], t, n)
      /\ Parses(t, n) /\ SendsLast(t, queued[n])
  BY InitialFlow DEF Emits
<1> HIDE DEF t, z
<1>4. /\ last' \in Handed /\ \A p \in Nodes \ {n} : last'[p] = last[p]
      /\ last'[n] = z
  BY <1>1, <1>2 DEF Handed
<1>5. ASSUME NEW m \in Nodes
      PROVE  /\ LastQueued(last'[n][m].id, n, queued[m])
             /\ \A c \in Nat :
                  Arrives(node[n].in, m, queued[m], last[n][m].id,
                          node[n].prev[m], c)
                  => Arrives(t.in, m, queued[m], last'[n][m].id, t.prev[m], c)
  <2>1. last'[n][m].id = 0
    BY <1>2, <1>4
  <2>2. ASSUME NEW c \in Nat
        PROVE  Arrives(<<>>, m, queued[m], 0, t.prev[m], c)
    <3>1. Unmarked(<<>>, m) /\ <<>> \in Seq(Bytes) /\ 0 <= c
      BY DEF Unmarked
    <3>2. Tagged(<<>>, m, queued[m], 0, c)
      BY <3>1, TagUnmarked
    <3> QED
      BY <3>2 DEF Arrives
  <2> QED
    BY <1>3, <2>1, <2>2 DEF LastQueued
<1> QED
  BY <1>1, <1>3, <1>4, <1>5, NodeFlow

LEMMA InitFlow == Init => FlowInv
<1> SUFFICES ASSUME Init
             PROVE  FlowInv
  OBVIOUS
<1>1. TypeInv
  BY TypeInit
<1>2. /\ node = [n \in Nodes |-> Initial(n)] /\ queued = [n \in Nodes |-> <<>>]
      /\ last = [n \in Nodes |-> [m \in Nodes |-> Nothing]]
  BY DEF Init
<1>3. last \in Handed
  BY <1>2 DEF Handed, Nothing
<1>4. ASSUME NEW n \in Nodes, NEW m \in Nodes
      PROVE  /\ node[n].in = <<>> /\ node[m].out = <<>>
             /\ node[n].prev[m] = 0 /\ queued[m] = <<>> /\ last[n][m].id = 0
             /\ Parses(node[n], n) /\ SendsLast(node[n], queued[n])
             /\ Unmarked(<<>>, m)
  BY <1>2, InitialFlow DEF Nothing, Unmarked
<1>5. ASSUME NEW m \in Nodes
      PROVE  Flow(<<>>, <<>>, m, <<>>, 0, 0)
  <2>1. Unmarked(<<>>, m) /\ <<>> \in Seq(Bytes) /\ 0 <= 0 /\ 0 \in Nat
    BY DEF Unmarked
  <2>2. Tagged(<<>>, m, <<>>, 0, 0)
    BY <2>1, TagUnmarked
  <2>3. Len(<<>>) = 0
    OBVIOUS
  <2> QED
    BY <2>2, <2>3 DEF Flow, Arrives
<1>6. \A n \in Nodes : Numbered(queued[n], n)
  BY <1>4 DEF Numbered
<1> QED
  BY <1>1, <1>3, <1>4, <1>5, <1>6 DEF FlowInv, LastQueued

LEMMA NextFlow ==
    ASSUME FlowInv, [Next]_vars, "misaddress" \notin Faults
    PROVE  FlowInv'
<1>1. TypeInv'
  BY NextTypes DEF FlowInv
<1>2. CASE UNCHANGED vars
  <2>1. UNCHANGED <<node, queued, last>>
    BY <1>2 DEF vars, history
  <2> QED
    BY <1>1, <2>1 DEF FlowInv
<1>3. ASSUME NEW n \in Nodes, Skip(n)
      PROVE  FlowInv'
  <2>1. UNCHANGED <<node, queued, last>>
    BY <1>3 DEF Skip, history
  <2> QED
    BY <1>1, <2>1 DEF FlowInv
<1>4. CASE Next
  BY <1>1, <1>3, <1>4, WireFlow, FaultyFlow, HandleFlow, ReadFlow,
     ApplicationFlow, RestartFlow DEF Next, Clock, Trouble
<1> QED
  BY <1>2, <1>4

(***************************************************************************)
(* The driver implements the deliveries of WinService.                     *)
(***************************************************************************)
Outline(x) == [to |-> x.to, first |-> x.count = 0]

LEMMA OutlineFirst ==
    ASSUME NEW x, x.count = 0
    PROVE  Outline(x).first
<1>1. Outline(x).first = (x.count = 0)
  BY DEF Outline
<1> QED
  BY <1>1

LEMMA OutlineType ==
    \A x \in Messages : Outline(x) \in [to : Receivers, first : BOOLEAN]
  BY DEF Outline, Messages

LEMMA RequestedIs ==
    ASSUME NEW n, queued[n] \in Seq(Messages)
    PROVE  /\ DOMAIN Requested(n) = DOMAIN queued[n]
           /\ Len(Requested(n)) = Len(queued[n])
           /\ Requested(n) \in Seq([to : Receivers, first : BOOLEAN])
           /\ \A k \in DOMAIN queued[n] :
                Requested(n)[k] = Outline(queued[n][k])
<1>1. \A k \in 1 .. Len(queued[n]) :
        Outline(queued[n][k]) \in [to : Receivers, first : BOOLEAN]
  BY OutlineType
<1>2. Requested(n) = [k \in 1 .. Len(queued[n]) |-> Outline(queued[n][k])]
  BY DEF Requested, Outline
<1> HIDE DEF Outline
<1> QED
  BY <1>1, <1>2

LEMMA AppendOutline ==
    ASSUME NEW q \in Seq(Messages), NEW x \in Messages
    PROVE  [k \in DOMAIN Append(q, x) |-> Outline(Append(q, x)[k])]
             = Append([k \in DOMAIN q |-> Outline(q[k])], Outline(x))
<1> DEFINE T == [to : Receivers, first : BOOLEAN]
           a == Append(q, x)
           f == [k \in DOMAIN q |-> Outline(q[k])]
           g == [k \in DOMAIN a |-> Outline(a[k])]
<1>1. /\ a \in Seq(Messages) /\ Len(a) = Len(q) + 1 /\ a[Len(q) + 1] = x
      /\ \A k \in 1 .. Len(q) : a[k] = q[k]
      /\ DOMAIN a = 1 .. Len(q) + 1 /\ DOMAIN q = 1 .. Len(q)
  BY AppendProperties
<1>2. \A y \in Messages : Outline(y) \in T
  BY OutlineType
<1> HIDE DEF a, T
<1>3. /\ f \in Seq(T) /\ Len(f) = Len(q)
      /\ \A k \in 1 .. Len(q) : f[k] = Outline(q[k])
  BY <1>1, <1>2
<1>4. /\ g \in Seq(T) /\ Len(g) = Len(q) + 1 /\ g[Len(q) + 1] = Outline(x)
      /\ \A k \in 1 .. Len(q) : g[k] = Outline(q[k])
  BY <1>1, <1>2
<1>5. Outline(x) \in T
  BY <1>2
<1> HIDE DEF f, g
<1>6. Append(f, Outline(x)) = g
  BY <1>3, <1>4, <1>5, AppendIs
<1> QED
  BY <1>6 DEF f, g, a

LEMMA StepStutters ==
    ASSUME UNCHANGED <<queued, handed, last, acked, restarted>>
    PROVE  UNCHANGED Service!vars
  BY DEF Service!vars, Requested

LEMMA QueueServes ==
    ASSUME TypeInv, NEW n \in Nodes, NEW d \in Destinations \ {n},
           QueueMessage(n, d)
    PROVE  Service!Deliveries
<1> DEFINE s == node[n]
           q == queued[n]
           x == [to |-> d, from |-> n, count |-> s.count,
                 id |-> <<n, Len(q) + 1>>]
           T == [to : Receivers, first : BOOLEAN]
<1>1. /\ queued' = [queued EXCEPT ![n] = Append(q, x)]
      /\ UNCHANGED <<handed, last, acked, restarted>>
  BY DEF QueueMessage
<1>2. /\ q \in Seq(Messages) /\ Len(q) \in Nat /\ Carries(s)
      /\ queued \in [Nodes -> Seq(Messages)]
  BY NodeTypes DEF TypeInv
<1>3. x \in Messages
  <2>1. d \in Receivers
    BY WinAssumption DEF WinAssumption, Receivers
  <2>2. s.count \in 0 .. CounterLimit
    BY <1>2 DEF Carries, CountsOK
  <2> QED
    BY <1>2, <2>1, <2>2 DEF Messages, Ids
<1> HIDE DEF x
<1>4. \A y \in Messages : Outline(y) \in T
  BY OutlineType
<1>5. Requested(n)' = Append(Requested(n), Outline(x))
  <2>1. queued'[n] = Append(q, x)
    BY <1>1, <1>2
  <2>2. Requested(n)' = [k \in DOMAIN Append(q, x) |->
                           Outline(Append(q, x)[k])]
    BY <2>1 DEF Requested, Outline
  <2>3. Requested(n) = [k \in DOMAIN q |-> Outline(q[k])]
    BY DEF Requested, Outline
  <2> HIDE DEF q, T
  <2> QED
    BY <1>2, <1>3, <2>2, <2>3, AppendOutline
<1>6. \A p \in Nodes \ {n} : Requested(p)' = Requested(p)
  BY <1>1, <1>2 DEF Requested
<1> DEFINE R == [p \in Nodes |-> Requested(p)]
<1>7. [p \in Nodes |-> Requested(p)']
        = [R EXCEPT ![n] = Append(@, Outline(x))]
  BY <1>5, <1>6
<1>8. Service!Queue(n, Outline(x))
  BY <1>1, <1>7 DEF Service!Queue
<1> QED
  BY <1>3, <1>4, <1>8 DEF Service!Deliveries, Service!Move

\* What is new under the count that the receiver has is the first message.
LEMMA KnownIsFirst ==
    ASSUME NEW s, IsNew(s), s.prev[s.header.from] = s.header.count
    PROVE  s.header.count = 0
  BY DEF IsNew

LEMMA ReadServes ==
    ASSUME FlowInv, NEW n \in Nodes, ReadByte(n)
    PROVE  Service!Deliveries \/ UNCHANGED Service!vars
<1> DEFINE r == node[n]
           s == Taken(n)
           b == Head(r.in)
           e == s.header.from
<1>1. /\ s.txState = r.txState /\ s.txMessage = r.txMessage
      /\ s.txBuffer = r.txBuffer /\ s.prev = r.prev
  BY ReadingHears
<1>2. HandsOver(s, n, b) <=> Ends(s, b) /\ IsNew(s)
  BY DEF HandsOver, Ends
<1>3. TakesAck(s, b) => ~HandsOver(s, n, b) /\ s.txState = "sending"
  BY DEF TakesAck, HandsOver
<1>4. /\ IF HandsOver(s, n, b)
         THEN /\ handed' = handed \cup {<<n, s.rxBuffer>>}
              /\ last' = [last EXCEPT ![n][e] =
                            [id |-> s.rxBuffer[2],
                             times |-> IF @.id = s.rxBuffer[2]
                                       THEN @.times + 1 ELSE 1]]
         ELSE UNCHANGED <<handed, last>>
      /\ acked' = IF TakesAck(s, b) THEN acked \cup {s.txBuffer.id} ELSE acked
      /\ UNCHANGED <<queued, restarted>>
  BY DEF ReadByte, Taken
<1>5. last \in Handed /\ \A m \in Nodes : queued[m] \in Seq(Messages)
  BY NodeTypes DEF FlowInv
<1>6. [p \in Nodes |-> Requested(p)'] = [p \in Nodes |-> Requested(p)]
  BY <1>4 DEF Requested
<1> HIDE DEF b, s
<1>7. CASE HandsOver(s, n, b)
  <2>1. Ends(Taken(n), Head(node[n].in))
    BY <1>2, <1>7 DEF s, b
  <2>2. PICK m \in Nodes : \E k \in DOMAIN queued[m] :
          /\ e = m /\ s.rxBuffer = <<m, k>>
          /\ s.header.count = queued[m][k].count
          /\ queued[m][k].to \in {n, Broadcast}
          /\ last[n][m].id <= k
          /\ k = last[n][m].id => s.prev[m] = s.header.count
    BY <2>1, EndBrings DEF s
  <2>3. PICK k \in DOMAIN queued[m] :
          /\ e = m /\ s.rxBuffer = <<m, k>>
          /\ s.header.count = queued[m][k].count
          /\ queued[m][k].to \in {n, Broadcast}
          /\ last[n][m].id <= k
          /\ k = last[n][m].id => s.prev[m] = s.header.count
    BY <2>2
  <2>4. k \in Nat /\ k \in DOMAIN Requested(m)
        /\ Requested(m)[k] = Outline(queued[m][k])
    BY <1>5, RequestedIs
  <2>5. handed' = handed \cup {<<n, <<m, k>>>>}
    BY <1>4, <1>7, <2>3
  <2> DEFINE l == last[n][m]
  <2>6. l.id \in Nat /\ l.times \in Nat /\ l = [id |-> l.id, times |-> l.times]
    BY <1>5 DEF Handed
  <2>7. s.rxBuffer[2] = k
    BY <2>3
  <2>8. last' = [last EXCEPT ![n][m] =
                   [id |-> k, times |-> IF l.id = k
                                        THEN l.times + 1 ELSE 1]]
    BY <1>4, <1>7, <2>3, <2>7
  <2>9. \/ /\ k > l.id
           /\ last' = [last EXCEPT ![n][m] = [id |-> k, times |-> 1]]
        \/ /\ k = l.id /\ Requested(m)[k].first
           /\ last' = [last EXCEPT ![n][m].times = @ + 1]
    <3>1. CASE k > l.id
      <4>1. l.id # k
        BY <2>4, <2>6, <3>1
      <4> QED
        BY <2>8, <3>1, <4>1
    <3>2. CASE k = l.id
      <4>1. s.header.count = 0
        <5>1. s.prev[s.header.from] = s.header.count
          BY <2>3, <3>2
        <5>2. IsNew(s)
          BY <1>2, <1>7
        <5> QED
          BY <5>1, <5>2, KnownIsFirst
      <4>2. Requested(m)[k].first
        <5>1. queued[m][k].count = 0 /\ Requested(m)[k] = Outline(queued[m][k])
          BY <2>3, <2>4, <4>1
        <5> QED
          BY <5>1, OutlineFirst
      <4>3. [l EXCEPT !.times = @ + 1] = [id |-> k, times |-> l.times + 1]
        BY <2>6, <3>2
      <4>4. last' = [last EXCEPT ![n][m] = [id |-> k, times |-> l.times + 1]]
        BY <2>8, <3>2
      <4>5. last' = [last EXCEPT ![n][m].times = @ + 1]
        BY <1>5, <4>3, <4>4 DEF Handed
      <4> QED
        BY <3>2, <4>2, <4>5
    <3> QED
      BY <2>3, <2>4, <2>6, <3>1, <3>2
  <2>10. Requested(m)[k].to \in {n, Broadcast}
    BY <2>3, <2>4 DEF Outline
  <2>11. acked' = acked /\ restarted' = restarted
    BY <1>3, <1>4, <1>7
  <2>12. Service!HandOver(n, m, k)
    BY <1>6, <2>5, <2>9, <2>10, <2>11 DEF Service!HandOver
  <2> QED
    BY <2>4, <2>12 DEF Service!Deliveries, Service!Move
<1>8. CASE TakesAck(s, b)
  <2>1. r.txMessage = "ready" /\ SendsLast(r, queued[n])
        /\ Numbered(queued[n], n)
    <3>1. r.txState = "sending"
      BY <1>1, <1>3, <1>8
    <3>2. Buffers(r)
      BY NodeTypes DEF FlowInv, Stable, Local
    <3> QED
      BY <3>1, <3>2 DEF FlowInv, Buffers
  <2> DEFINE k == Len(queued[n])
  <2>2. queued[n] # <<>> /\ s.txBuffer = queued[n][k]
    BY <1>1, <2>1 DEF SendsLast
  <2>3. k \in DOMAIN queued[n]
    BY <1>5, <2>2
  <2>4. s.txBuffer.id = <<n, k>>
    BY <2>1, <2>2, <2>3 DEF Numbered
  <2>5. Len(Requested(n)) = k /\ Requested(n) # <<>>
    <3>1. Len(Requested(n)) = k /\ Requested(n) \in Seq([to : Receivers,
                                                         first : BOOLEAN])
      BY <1>5, RequestedIs
    <3>2. k # 0
      BY <1>5, <2>3
    <3> QED
      BY <3>1, <3>2
  <2>6. acked' = acked \cup {<<n, k>>} /\ UNCHANGED <<handed, last, restarted>>
    BY <1>3, <1>4, <1>8, <2>4
  <2>7. Service!Told(n)
    BY <1>6, <2>5, <2>6 DEF Service!Told
  <2> QED
    BY <2>7 DEF Service!Deliveries
<1>9. CASE ~HandsOver(s, n, b) /\ ~TakesAck(s, b)
  BY <1>4, <1>9, StepStutters
<1> QED
  BY <1>7, <1>8, <1>9

LEMMA RestartServes ==
    ASSUME NEW n \in Nodes, Restart(n)
    PROVE  Service!Deliveries
<1>1. [p \in Nodes |-> Requested(p)'] = [p \in Nodes |-> Requested(p)]
  BY DEF Restart, Requested
<1>2. Service!Restart(n)
  BY <1>1 DEF Restart, Service!Restart, Nothing, Service!Nothing
<1> QED
  BY <1>2 DEF Service!Deliveries, Service!Move

LEMMA NextServes ==
    ASSUME FlowInv, [Next]_vars
    PROVE  [Service!Deliveries]_(Service!vars)
<1>1. ASSUME NEW heard, Deliver(heard)
      PROVE  UNCHANGED Service!vars
  BY <1>1, StepStutters DEF Deliver, history
<1>2. Wire \/ FaultyWire => UNCHANGED Service!vars
  BY <1>1 DEF Wire, FaultyWire
<1>3. ASSUME NEW n \in Nodes,
             \/ Handle1ms(n) \/ AllocateMessage(n) \/ RejectMessage(n)
             \/ CheckIncomingMessage(n) \/ GetIncomingMessage(n)
             \/ CheckParsedMessage(n) \/ FreeIncomingMessage(n) \/ Skip(n)
      PROVE  UNCHANGED Service!vars
  BY <1>3, StepStutters
  DEF Handle1ms, AllocateMessage, RejectMessage, CheckIncomingMessage,
      GetIncomingMessage, CheckParsedMessage, FreeIncomingMessage, Skip,
      history
<1>4. UNCHANGED vars => UNCHANGED Service!vars
  BY StepStutters DEF vars, history
<1>5. TypeInv
  BY DEF FlowInv
<1> QED
  BY <1>2, <1>3, <1>4, <1>5, QueueServes, ReadServes, RestartServes
  DEF Next, Clock, Application, Trouble

LEMMA InitServes == Init => Service!Init
  BY DEF Init, Service!Init, Requested, Nothing, Service!Nothing

\* While no address byte reads as that of another node, a message is handed
\* over only at a node it is for, in the order of the queueing and once, but
\* for the first one of its source: for every number of nodes and messages,
\* every limit of the counts and every time, whatever is lost, damaged or
\* late and whoever restarts (Win.c 816-912, 421-473, 647-708).
THEOREM InOrder ==
    ASSUME "misaddress" \notin Faults
    PROVE  Spec => DeliversInOrder
<1>1. FlowInv /\ [Next]_vars => FlowInv'
  BY NextFlow
<1>2. FlowInv /\ [Next]_vars => [Service!Deliveries]_(Service!vars)
  BY NextServes
<1> QED
  BY <1>1, <1>2, InitFlow, InitServes, PTL
  DEF Spec, DeliversInOrder, Service!DeliverySpec
=============================================================================
