---------------------------- MODULE Data_proofs ----------------------------
(***************************************************************************)
(* Proofs about what happens to data.  To the bytes between a party and a  *)
(* port: PortIo implements ByteStream, for any number of bytes, sizes of   *)
(* writes, batches and reads, and with a port that may refuse a message.   *)
(* To the grid between the form and the verdict: Sudoku, for boxes of any  *)
(* side, which is a matter of quotients and remainders and of functions    *)
(* between sets of as many members.                                        *)
(***************************************************************************)
EXTENDS PortIo, Sudoku, SequenceTheorems, FiniteSetTheorems, TLAPS

\* The bytes a+1 to b.
Segment(a, b) == [i \in 1..(b - a) |-> a + i]

\* The batches q are the bytes a+1 to b, cut anyhow.  That cuts never decrease is
\* said of every two of them, since it takes an induction to get from neighbours.
Chain(q, a, b) ==
    /\ q \in Seq(Seq(Nat))
    /\ \E cut \in [0..Len(q) -> Nat] :
          /\ cut[0] = a /\ cut[Len(q)] = b
          /\ \A i, j \in 0..Len(q) : i <= j => cut[i] <= cut[j]
          /\ \A i \in 1..Len(q) : q[i] = Segment(cut[i - 1], cut[i])

\* What is where: up to m the bytes are read out, up to x received into buf, up to y
\* in incoming, up to z on the port and up to w with the task; those from f are not
\* flushed yet.  Between w and f is what was lost, if the task is gone.
Placed(m, x, y, z, w, f) ==
    /\ m <= x /\ w <= f /\ f <= written
    /\ bytes = Segment(0, m) /\ buf = Segment(m, x)
    /\ Chain(incoming, x, y) /\ Chain(port, y, z) /\ Chain(outgoing, z, w)
    /\ wbuf = Segment(f, written)
    /\ task = "draining" => w = f

PipeInv ==
    /\ written \in Nat
    /\ \E m, x, y, z, w, f \in Nat : Placed(m, x, y, z, w, f)

-----------------------------------------------------------------------------
(* Segments.                                                               *)

\* A segment is a sequence of as many bytes as its bounds are apart.
LEMMA SegmentLen ==
    ASSUME NEW a \in Nat, NEW b \in Nat, a <= b
    PROVE  /\ Segment(a, b) \in Seq(Nat)
           /\ Len(Segment(a, b)) = b - a
           /\ \A i \in 1..(b - a) : Segment(a, b)[i] = a + i
BY DEF Segment

\* The empty segment.
LEMMA SegmentEmpty ==
    ASSUME NEW a \in Nat, NEW b \in Nat, a <= b
    PROVE  Segment(a, b) = <<>> <=> a = b
<1>1. CASE a = b
  <2>1. Len(Segment(a, b)) = 0 /\ Segment(a, b) \in Seq(Nat) BY <1>1, SegmentLen
  <2>. QED BY <1>1, <2>1
<1>2. CASE a # b
  BY <1>2, SegmentLen
<1>. QED BY <1>1, <1>2

\* Adjacent segments, one after the other.
LEMMA SegmentConcat ==
    ASSUME NEW a \in Nat, NEW b \in Nat, NEW c \in Nat, a <= b, b <= c
    PROVE  Segment(a, b) \o Segment(b, c) = Segment(a, c)
<1>. DEFINE s == Segment(a, b)  t == Segment(b, c)  u == Segment(a, c)
<1>1. /\ s \in Seq(Nat) /\ Len(s) = b - a /\ \A i \in 1..(b - a) : s[i] = a + i
      /\ t \in Seq(Nat) /\ Len(t) = c - b /\ \A i \in 1..(c - b) : t[i] = b + i
      /\ u \in Seq(Nat) /\ Len(u) = c - a /\ \A i \in 1..(c - a) : u[i] = a + i
  <2>1. a <= c OBVIOUS
  <2>. QED BY <2>1, SegmentLen
<1>. HIDE DEF s, t, u
<1>2. /\ s \o t \in Seq(Nat) /\ Len(s \o t) = Len(s) + Len(t)
      /\ \A i \in 1..(Len(s) + Len(t)) :
            (s \o t)[i] = IF i <= Len(s) THEN s[i] ELSE t[i - Len(s)]
  BY <1>1, ConcatProperties
<1>3. ASSUME NEW i \in 1..Len(s \o t) PROVE (s \o t)[i] = u[i]
  <2>0. i \in 1..(c - a) /\ i \in 1..(Len(s) + Len(t)) BY <1>1, <1>2
  <2>1. CASE i <= Len(s)
    <3>1. (s \o t)[i] = s[i] BY <1>2, <2>0, <2>1
    <3>2. i \in 1..(b - a) BY <1>1, <2>0, <2>1
    <3>. QED BY <1>1, <2>0, <3>1, <3>2
  <2>2. CASE i > Len(s)
    <3>1. (s \o t)[i] = t[i - Len(s)] BY <1>2, <2>0, <2>2
    <3>2. i - Len(s) \in 1..(c - b) BY <1>1, <2>0, <2>2
    <3>3. t[i - Len(s)] = b + (i - Len(s)) BY <1>1, <3>2
    <3>. QED BY <1>1, <2>0, <3>1, <3>3
  <2>. QED BY <1>1, <2>0, <2>1, <2>2
<1>4. s \o t = u
  <2>1. Len(s \o t) = Len(u) BY <1>1, <1>2
  <2>. QED BY <1>1, <1>2, <1>3, <2>1, SeqEqual
<1>. QED BY <1>4 DEF s, t, u

\* The parts of a segment.
LEMMA SegmentCut ==
    ASSUME NEW a \in Nat, NEW b \in Nat, a <= b, NEW n \in 0..(b - a)
    PROVE  /\ SubSeq(Segment(a, b), 1, n) = Segment(a, a + n)
           /\ SubSeq(Segment(a, b), n + 1, Len(Segment(a, b))) = Segment(a + n, b)
<1>. DEFINE s == Segment(a, b)
<1>1. s \in Seq(Nat) /\ Len(s) = b - a /\ \A i \in 1..(b - a) : s[i] = a + i
  BY SegmentLen
<1>. HIDE DEF s
<1>2. SubSeq(s, 1, n) = Segment(a, a + n) BY <1>1 DEF Segment
<1>3. SubSeq(s, n + 1, Len(s)) = Segment(a + n, b) BY <1>1 DEF Segment
<1>. QED BY <1>2, <1>3 DEF s

-----------------------------------------------------------------------------
(* Chains.                                                                 *)

\* A chain goes forward.
LEMMA ChainOrder ==
    ASSUME NEW a \in Nat, NEW b \in Nat, NEW q, Chain(q, a, b)
    PROVE  a <= b
<1>1. PICK cut \in [0..Len(q) -> Nat] :
          /\ cut[0] = a /\ cut[Len(q)] = b
          /\ \A i, j \in 0..Len(q) : i <= j => cut[i] <= cut[j]
  BY DEF Chain
<1>2. Len(q) \in Nat BY DEF Chain
<1>. QED BY <1>1, <1>2

\* The empty chain.
LEMMA ChainEmpty ==
    ASSUME NEW a \in Nat
    PROVE  Chain(<<>>, a, a)
<1>. DEFINE cut == [i \in 0..0 |-> a]
<1>1. <<>> \in Seq(Seq(Nat)) /\ Len(<<>>) = 0 OBVIOUS
<1>2. cut \in [0..Len(<<>>) -> Nat] /\ cut[0] = a BY <1>1
<1>3. \A i, j \in 0..Len(<<>>) : i <= j => cut[i] <= cut[j] BY <1>1
<1>4. 1..Len(<<>>) = {} BY <1>1
<1>. HIDE DEF cut
<1>. QED BY <1>1, <1>2, <1>3, <1>4 DEF Chain

\* A chain with nothing in it does not advance.
LEMMA ChainOfNothing ==
    ASSUME NEW a \in Nat, NEW b \in Nat, Chain(<<>>, a, b)
    PROVE  a = b
BY DEF Chain

\* A batch appended to a chain.
LEMMA ChainAppend ==
    ASSUME NEW a \in Nat, NEW b \in Nat, NEW c \in Nat, NEW q,
           Chain(q, a, b), b <= c
    PROVE  Chain(Append(q, Segment(b, c)), a, c)
<1>1. PICK cut \in [0..Len(q) -> Nat] :
          /\ cut[0] = a /\ cut[Len(q)] = b
          /\ \A i, j \in 0..Len(q) : i <= j => cut[i] <= cut[j]
          /\ \A i \in 1..Len(q) : q[i] = Segment(cut[i - 1], cut[i])
  BY DEF Chain
<1>. DEFINE n == Len(q)  s == Segment(b, c)  r == Append(q, s)
            new == [i \in 0..(n + 1) |-> IF i = n + 1 THEN c ELSE cut[i]]
<1>2. q \in Seq(Seq(Nat)) /\ n \in Nat BY DEF Chain
<1>3. s \in Seq(Nat) BY SegmentLen
<1>. HIDE DEF s
<1>4. /\ r \in Seq(Seq(Nat)) /\ Len(r) = n + 1 /\ r[n + 1] = s
      /\ \A i \in 1..n : r[i] = q[i]
  BY <1>2, <1>3
<1>5. new \in [0..(n + 1) -> Nat] BY <1>2
<1>6. new[n + 1] = c /\ \A i \in 0..n : new[i] = cut[i] BY <1>2
<1>. HIDE DEF new, r
<1>7. new[0] = a BY <1>1, <1>2, <1>6
<1>8. ASSUME NEW i \in 0..(n + 1), NEW j \in 0..(n + 1), i <= j PROVE new[i] <= new[j]
  <2>1. CASE j \in 0..n BY <1>1, <1>2, <1>6, <1>8, <2>1, SMTT(30)
  <2>2. CASE j = n + 1 /\ i = n + 1 BY <1>6, <2>2
  <2>3. CASE j = n + 1 /\ i \in 0..n
    <3>1. cut[i] <= cut[n] BY <1>1, <1>2, <2>3
    <3>2. cut[i] \in Nat /\ cut[n] = b BY <1>1, <1>2, <2>3
    <3>. QED BY <1>6, <2>3, <3>1, <3>2
  <2>. QED BY <1>2, <2>1, <2>2, <2>3
<1>9. ASSUME NEW i \in 1..(n + 1) PROVE r[i] = Segment(new[i - 1], new[i])
  <2>1. CASE i \in 1..n
    <3>1. i - 1 \in 0..n /\ i \in 0..n BY <1>2, <2>1
    <3>. QED BY <1>1, <1>4, <1>6, <2>1, <3>1
  <2>2. CASE i = n + 1
    <3>1. new[n] = b /\ n + 1 - 1 = n BY <1>1, <1>2, <1>6
    <3>. QED BY <1>4, <1>6, <2>2, <3>1 DEF s
  <2>. QED BY <1>2, <2>1, <2>2
<1>10. Chain(r, a, c) BY <1>4, <1>5, <1>6, <1>7, <1>8, <1>9 DEF Chain
<1>. QED BY <1>10 DEF r, s

\* The first batch of a chain, and the rest.
LEMMA ChainHead ==
    ASSUME NEW a \in Nat, NEW b \in Nat, NEW q, Chain(q, a, b), q # <<>>
    PROVE  \E c \in Nat :
              /\ a <= c /\ c <= b
              /\ Head(q) = Segment(a, c) /\ Chain(Tail(q), c, b)
<1>1. PICK cut \in [0..Len(q) -> Nat] :
          /\ cut[0] = a /\ cut[Len(q)] = b
          /\ \A i, j \in 0..Len(q) : i <= j => cut[i] <= cut[j]
          /\ \A i \in 1..Len(q) : q[i] = Segment(cut[i - 1], cut[i])
  BY DEF Chain
<1>. DEFINE n == Len(q)  t == Tail(q)  c == cut[1]
            new == [i \in 0..(n - 1) |-> cut[i + 1]]
<1>2. q \in Seq(Seq(Nat)) /\ n \in Nat /\ n >= 1 BY DEF Chain
<1>3. /\ t \in Seq(Seq(Nat)) /\ Len(t) = n - 1
      /\ \A i \in 1..(n - 1) : t[i] = q[i + 1]
  BY <1>2
<1>4. Head(q) = q[1] BY <1>2
<1>5. new \in [0..(n - 1) -> Nat] /\ \A i \in 0..(n - 1) : new[i] = cut[i + 1] BY <1>2
<1>. HIDE DEF new, t
<1>6. c \in Nat /\ a <= c /\ c <= b BY <1>1, <1>2
<1>7. q[1] = Segment(a, c) BY <1>1, <1>2
<1>8. new[0] = c /\ new[n - 1] = b BY <1>1, <1>2, <1>5
<1>9. \A i, j \in 0..(n - 1) : i <= j => new[i] <= new[j] BY <1>1, <1>2, <1>5
<1>10. ASSUME NEW i \in 1..(n - 1) PROVE t[i] = Segment(new[i - 1], new[i])
  <2>1. i + 1 \in 1..n /\ i - 1 \in 0..(n - 1) /\ i \in 0..(n - 1) BY <1>2
  <2>2. q[i + 1] = Segment(cut[i + 1 - 1], cut[i + 1]) BY <1>1, <2>1
  <2>3. i + 1 - 1 = i /\ i - 1 + 1 = i BY <1>2
  <2>. QED BY <1>3, <1>5, <2>1, <2>2, <2>3
<1>11. Chain(t, c, b) BY <1>3, <1>5, <1>8, <1>9, <1>10 DEF Chain
<1>. QED BY <1>4, <1>6, <1>7, <1>11 DEF t

-----------------------------------------------------------------------------
(* The steps.                                                              *)

\* How much a read takes.
LEMMA Taken ==
    ASSUME NEW room \in Nat, NEW held \in Nat
    PROVE  LET n == Min({room, held})
           IN  n \in Nat /\ n <= room /\ n <= held /\ (n = room \/ n = held)
<1>1. CASE room <= held
  <2>1. room \in {room, held} /\ \A y \in {room, held} : room <= y BY <1>1
  <2>. QED BY <2>1 DEF Min
<1>2. CASE held <= room
  <2>1. held \in {room, held} /\ \A y \in {room, held} : held <= y BY <1>2
  <2>. QED BY <2>1 DEF Min
<1>. QED BY <1>1, <1>2

\* What has been flushed, in terms of where the bytes are.
LEMMA FlushedIs ==
    ASSUME written \in Nat, NEW f \in Nat, f <= written, wbuf = Segment(f, written)
    PROVE  Flushed = f
<1>1. Len(wbuf) = written - f
  <2>1. Len(Segment(f, written)) = written - f BY SegmentLen
  <2>. QED BY <2>1
<1>. QED BY <1>1 DEF Flushed

\* Nothing has been written at first.
LEMMA PipeInit == Init => PipeInv
<1>1. SUFFICES ASSUME Init PROVE PipeInv OBVIOUS
<1>2. Segment(0, 0) = <<>> BY SegmentEmpty
<1>3. Chain(<<>>, 0, 0) BY ChainEmpty
<1>4. Placed(0, 0, 0, 0, 0, 0) BY <1>1, <1>2, <1>3 DEF Init, Placed
<1>. QED BY <1>1, <1>4 DEF Init, PipeInv

\* Writing appends to what is not flushed.
LEMMA WriteStep ==
    PipeInv /\ PollWrite =>
        PipeInv' /\ written' > written /\ Flushed' = Flushed /\ bytes' = bytes
<1>1. SUFFICES ASSUME PipeInv, PollWrite
               PROVE  PipeInv' /\ written' > written /\ Flushed' = Flushed /\ bytes' = bytes
  OBVIOUS
<1>2. PICK m, x, y, z, w, f \in Nat : Placed(m, x, y, z, w, f) BY <1>1 DEF PipeInv
<1>3. PICK n \in 1..MaxChunk :
          written' = written + n /\ wbuf' = wbuf \o [i \in 1..n |-> written + i]
  BY <1>1 DEF PollWrite
<1>4. n \in Nat /\ n > 0 /\ written \in Nat /\ written' \in Nat
  BY <1>1, <1>3, PortAssumption DEF PipeInv
<1>5. [i \in 1..n |-> written + i] = Segment(written, written') BY <1>3, <1>4 DEF Segment
<1>6. f <= written /\ written <= written' /\ wbuf = Segment(f, written)
  BY <1>2, <1>3, <1>4 DEF Placed
<1>7. wbuf' = Segment(f, written')
  <2>1. Segment(f, written) \o Segment(written, written') = Segment(f, written')
    BY <1>4, <1>6, SegmentConcat
  <2>. QED BY <1>3, <1>5, <1>6, <2>1
<1>8. Placed(m, x, y, z, w, f)'
  <2>1. /\ m <= x /\ w <= f /\ bytes = Segment(0, m) /\ buf = Segment(m, x)
        /\ Chain(incoming, x, y) /\ Chain(port, y, z) /\ Chain(outgoing, z, w)
        /\ (task = "draining" => w = f)
    BY <1>2 DEF Placed
  <2>2. UNCHANGED <<outgoing, task, broken, port, incoming, buf, bytes>>
    BY <1>1 DEF PollWrite
  <2>3. f <= written' BY <1>4, <1>6
  <2>. QED BY <1>7, <2>1, <2>2, <2>3 DEF Placed
<1>9. Flushed = f BY <1>4, <1>6, FlushedIs
<1>10. Flushed' = f
  <2>0. f <= written' BY <1>4, <1>6
  <2>1. Len(Segment(f, written')) = written' - f BY <1>4, <2>0, SegmentLen
  <2>2. Len(wbuf') = written' - f BY <1>7, <2>1
  <2>3. written' - (written' - f) = f
    <3>1. ASSUME NEW p \in Nat PROVE p - (p - f) = f OBVIOUS
    <3>. QED BY <1>4, <3>1
  <2>4. Flushed' = written' - Len(wbuf') BY DEF Flushed
  <2>. QED BY <2>2, <2>3, <2>4
<1>11. PipeInv' BY <1>4, <1>8 DEF PipeInv
<1>12. written' > written /\ bytes' = bytes BY <1>1, <1>3, <1>4 DEF PollWrite
<1>. QED BY <1>9, <1>10, <1>11, <1>12

\* A flush moves everything written to the task, or nowhere.
LEMMA FlushStep ==
    PipeInv /\ PollFlush =>
        PipeInv' /\ written' = written /\ Flushed' = written /\ bytes' = bytes
<1>1. SUFFICES ASSUME PipeInv, PollFlush
               PROVE  PipeInv' /\ written' = written /\ Flushed' = written /\ bytes' = bytes
  OBVIOUS
<1>2. PICK m, x, y, z, w, f \in Nat : Placed(m, x, y, z, w, f) BY <1>1 DEF PipeInv
<1>3. written \in Nat /\ written' = written /\ wbuf' = <<>> BY <1>1 DEF PipeInv, PollFlush
<1>4. Segment(written, written) = <<>> BY <1>3, SegmentEmpty
<1>5. ASSUME task = "draining" PROVE PipeInv'
  <2>1. outgoing' = Append(outgoing, Segment(w, written))
    BY <1>1, <1>2, <1>5 DEF PollFlush, Placed
  <2>2. Chain(outgoing, z, w) /\ w <= written BY <1>2, <1>3 DEF Placed
  <2>3. Chain(outgoing', z, written) BY <1>3, <2>1, <2>2, ChainAppend
  <2>4. Placed(m, x, y, z, written, written)'
    BY <1>1, <1>2, <1>3, <1>4, <2>3 DEF Placed, PollFlush
  <2>. QED BY <1>3, <2>4 DEF PipeInv
<1>6. ASSUME task # "draining" PROVE PipeInv'
  <2>1. w <= written BY <1>2, <1>3 DEF Placed
  <2>2. Placed(m, x, y, z, w, written)'
    BY <1>1, <1>2, <1>3, <1>4, <1>6, <2>1 DEF Placed, PollFlush
  <2>. QED BY <1>3, <2>2 DEF PipeInv
<1>7. Flushed' = written
  <2>1. Len(<<>>) = 0 OBVIOUS
  <2>. QED BY <1>3, <2>1 DEF Flushed
<1>. QED BY <1>1, <1>3, <1>5, <1>6, <1>7 DEF PollFlush

\* The task posts its first batch.
LEMMA DrainStep == PipeInv /\ Drain => PipeInv'
<1>1. SUFFICES ASSUME PipeInv, Drain PROVE PipeInv' OBVIOUS
<1>2. PICK m, x, y, z, w, f \in Nat : Placed(m, x, y, z, w, f) BY <1>1 DEF PipeInv
<1>3. PICK c \in Nat : /\ z <= c /\ c <= w
                       /\ Head(outgoing) = Segment(z, c) /\ Chain(Tail(outgoing), c, w)
  <2>1. Chain(outgoing, z, w) /\ outgoing # <<>> BY <1>1, <1>2 DEF Drain, Placed
  <2>. QED BY <2>1, ChainHead
<1>4. Chain(port', y, c)
  <2>1. Chain(port, y, z) BY <1>2 DEF Placed
  <2>2. Chain(Append(port, Segment(z, c)), y, c) BY <1>3, <2>1, ChainAppend
  <2>. QED BY <1>1, <1>3, <2>2 DEF Drain
<1>5. Placed(m, x, y, c, w, f)' BY <1>1, <1>2, <1>3, <1>4 DEF Placed, Drain
<1>. QED BY <1>1, <1>5 DEF PipeInv, Drain

\* What the task held is lost, and so is all that comes after it.
LEMMA BreakStep == PipeInv /\ Break => PipeInv'
<1>1. SUFFICES ASSUME PipeInv, Break PROVE PipeInv' OBVIOUS
<1>2. PICK m, x, y, z, w, f \in Nat : Placed(m, x, y, z, w, f) BY <1>1 DEF PipeInv
<1>3. z <= w
  <2>1. Chain(outgoing, z, w) BY <1>2 DEF Placed
  <2>. QED BY <2>1, ChainOrder
<1>4. Chain(outgoing', z, z) BY <1>1, ChainEmpty DEF Break
<1>5. z <= f BY <1>2, <1>3 DEF Placed
<1>6. Placed(m, x, y, z, z, f)' BY <1>1, <1>2, <1>4, <1>5 DEF Placed, Break
<1>. QED BY <1>1, <1>6 DEF PipeInv, Break

\* A message arrives.
LEMMA MessageStep == PipeInv /\ OnMessage => PipeInv'
<1>1. SUFFICES ASSUME PipeInv, OnMessage PROVE PipeInv' OBVIOUS
<1>2. PICK m, x, y, z, w, f \in Nat : Placed(m, x, y, z, w, f) BY <1>1 DEF PipeInv
<1>3. PICK c \in Nat : /\ y <= c /\ c <= z
                       /\ Head(port) = Segment(y, c) /\ Chain(Tail(port), c, z)
  <2>1. Chain(port, y, z) /\ port # <<>> BY <1>1, <1>2 DEF OnMessage, Placed
  <2>. QED BY <2>1, ChainHead
<1>4. Chain(incoming', x, c)
  <2>1. Chain(incoming, x, y) BY <1>2 DEF Placed
  <2>2. Chain(Append(incoming, Segment(y, c)), x, c) BY <1>3, <2>1, ChainAppend
  <2>. QED BY <1>1, <1>3, <2>2 DEF OnMessage
<1>5. Placed(m, x, c, z, w, f)' BY <1>1, <1>2, <1>3, <1>4 DEF Placed, OnMessage
<1>. QED BY <1>1, <1>5 DEF PipeInv, OnMessage

\* A read takes the next bytes, none of which is beyond what was flushed.
LEMMA ReadStep ==
    ASSUME PipeInv, NEW room \in 1..MaxChunk, PollRead(room)
    PROVE  /\ PipeInv' /\ written' = written /\ Flushed' = Flushed
           /\ \/ bytes' = bytes
              \/ \E k \in Len(bytes) + 1..Flushed : bytes' = Segment(0, k)
<1>2. PICK m, x, y, z, w, f \in Nat : Placed(m, x, y, z, w, f) BY DEF PipeInv
<1>. DEFINE held == IF buf = <<>> THEN Head(incoming) ELSE buf
            n == Min({room, Len(held)})
\* Where the bytes that are at hand end.
<1>3. PICK c \in Nat : /\ x <= c /\ m <= c /\ c <= y
                       /\ held = Segment(m, c) /\ Chain(incoming', c, y)
  <2>1. buf = Segment(m, x) /\ m <= x /\ Chain(incoming, x, y) BY <1>2 DEF Placed
  <2>2. CASE buf = <<>>
    <3>1. m = x BY <2>1, <2>2, SegmentEmpty
    <3>2. incoming # <<>> /\ incoming' = Tail(incoming) BY <2>2 DEF PollRead
    <3>3. \E c \in Nat : /\ x <= c /\ c <= y
                         /\ Head(incoming) = Segment(x, c) /\ Chain(Tail(incoming), c, y)
      BY <2>1, <3>2, ChainHead
    <3>. QED BY <2>2, <3>1, <3>2, <3>3
  <2>3. CASE buf # <<>>
    <3>1. incoming' = incoming BY <2>3 DEF PollRead
    <3>2. x <= y BY <2>1, ChainOrder
    <3>. QED BY <2>1, <2>3, <3>1, <3>2
  <2>. QED BY <2>2, <2>3
<1>4. /\ bytes' = bytes \o SubSeq(held, 1, n)
      /\ buf' = SubSeq(held, n + 1, Len(held))
      /\ UNCHANGED <<written, wbuf, outgoing, task, broken, port>>
  BY DEF PollRead
<1>. HIDE DEF held, n
<1>5. Len(held) = c - m BY <1>3, SegmentLen
<1>6. n \in Nat /\ n <= c - m
  <2>1. room \in Nat /\ Len(held) \in Nat BY <1>3, <1>5, PortAssumption
  <2>. QED BY <1>5, <2>1, Taken DEF n
<1>6a. n \in 0..(c - m) BY <1>3, <1>6
<1>7. bytes' = Segment(0, m + n)
  <2>1. SubSeq(held, 1, n) = Segment(m, m + n) BY <1>3, <1>6a, SegmentCut
  <2>2. bytes = Segment(0, m) BY <1>2 DEF Placed
  <2>3. 0 <= m /\ m <= m + n /\ m + n \in Nat BY <1>6
  <2>4. Segment(0, m) \o Segment(m, m + n) = Segment(0, m + n) BY <2>3, SegmentConcat
  <2>. QED BY <1>4, <2>1, <2>2, <2>4
<1>8. buf' = Segment(m + n, c)
  <2>1. SubSeq(held, n + 1, Len(held)) = Segment(m + n, c) BY <1>3, <1>6a, SegmentCut
  <2>. QED BY <1>4, <2>1
<1>9. m + n \in Nat /\ m + n <= c BY <1>3, <1>6
<1>9a. PICK k \in Nat : k = m + n BY <1>9
<1>10. Placed(k, c, y, z, w, f)'
  <2>1. /\ w <= f /\ f <= written /\ wbuf = Segment(f, written)
        /\ Chain(port, y, z) /\ Chain(outgoing, z, w) /\ (task = "draining" => w = f)
    BY <1>2 DEF Placed
  <2>2. bytes' = Segment(0, k) /\ buf' = Segment(k, c) /\ k <= c /\ Chain(incoming', c, y)
    BY <1>3, <1>7, <1>8, <1>9, <1>9a
  <2>. QED BY <1>4, <2>1, <2>2 DEF Placed
<1>11. written \in Nat /\ f <= written /\ wbuf = Segment(f, written)
  BY <1>2 DEF Placed, PipeInv
<1>12. Flushed = f BY <1>11, FlushedIs
<1>13. c <= f
  <2>1. Chain(port, y, z) /\ Chain(outgoing, z, w) /\ w <= f BY <1>2 DEF Placed
  <2>2. y <= z /\ z <= w BY <2>1, ChainOrder
  <2>. QED BY <1>3, <2>1, <2>2
<1>14. \/ bytes' = bytes
       \/ \E b \in Len(bytes) + 1..Flushed : bytes' = Segment(0, b)
  <2>1. bytes = Segment(0, m) BY <1>2 DEF Placed
  <2>2. Len(bytes) = m BY <2>1, SegmentLen
  <2>3. CASE n = 0 BY <1>7, <2>1, <2>3
  <2>4. CASE n # 0
    <3>1. m + n \in Len(bytes) + 1..Flushed BY <1>6, <1>9, <1>12, <1>13, <2>2, <2>4
    <3>. QED BY <1>7, <3>1
  <2>. QED BY <2>3, <2>4
<1>15. written' = written /\ Flushed' = Flushed BY <1>4 DEF Flushed
<1>16. PipeInv'
  <2>1. written' \in Nat BY <1>11, <1>15
  <2>. QED BY <1>10, <2>1 DEF PipeInv
<1>. QED BY <1>14, <1>15, <1>16

\* Each step keeps the pipeline in order.
LEMMA PipeStep == PipeInv /\ [Next]_vars => PipeInv'
<1>1. SUFFICES ASSUME PipeInv, [Next]_vars PROVE PipeInv' OBVIOUS
<1>2. CASE UNCHANGED vars BY <1>1, <1>2, SMTT(30) DEF PipeInv, Placed, vars
<1>3. CASE Reads BY <1>1, <1>3, ReadStep DEF Reads
<1>. QED
  BY <1>1, <1>2, <1>3, WriteStep, FlushStep, DrainStep, BreakStep, MessageStep DEF Next

-----------------------------------------------------------------------------
(* The byte stream.                                                        *)

\* Every batch on its way is made of bytes that were written, the queue of a task that
\* is gone is empty, and a writer that was told that the port is closed holds nothing.
THEOREM StreamTypeCorrect == Spec => []TypeOK
<1>1. Init => TypeOK
  <2>1. \A S : <<>> \in Seq(S) OBVIOUS
  <2>2. 0 \in 0..MaxBytes BY PortAssumption
  <2>. QED BY <2>1, <2>2 DEF Init, TypeOK, Batches
<1>2. TypeOK /\ [Next]_vars => TypeOK'
  <2>. SUFFICES ASSUME TypeOK, [Next]_vars PROVE TypeOK'
    OBVIOUS
  <2>. USE PortAssumption DEF TypeOK, Batches
  <2>1. CASE PollWrite
    <3>1. PICK n \in 1..MaxChunk :
             /\ written + n <= MaxBytes /\ written' = written + n
             /\ wbuf' = wbuf \o [i \in 1..n |-> written + i]
      BY <2>1 DEF PollWrite
    <3>2. [i \in 1..n |-> written + i] \in Seq(Bytes)
      BY <3>1 DEF Bytes
    <3>3. wbuf' \in Seq(Bytes) /\ written' \in 0..MaxBytes
      BY <3>1, <3>2, ConcatProperties
    <3>. QED BY <2>1, <3>3 DEF PollWrite
  <2>2. CASE PollFlush
    <3>1. <<>> \in Seq(Bytes) /\ Append(outgoing, wbuf) \in Seq(Seq(Bytes)) OBVIOUS
    <3>2. CASE task = "draining" BY <2>2, <3>1, <3>2 DEF PollFlush
    <3>3. CASE task # "draining" BY <2>2, <3>1, <3>3 DEF PollFlush
    <3>. QED BY <3>2, <3>3
  <2>3. CASE Drain
    BY <2>3 DEF Drain
  <2>4. CASE Break
    BY <2>4 DEF Break
  <2>5. CASE OnMessage
    BY <2>5 DEF OnMessage
  <2>6. CASE Reads
    <3>1. PICK room \in 1..MaxChunk : PollRead(room)
      BY <2>6 DEF Reads
    <3>. DEFINE held == IF buf = <<>> THEN Head(incoming) ELSE buf
                n == Min({room, Len(held)})
    <3>2. held \in Seq(Bytes) /\ incoming' \in Seq(Seq(Bytes))
      BY <3>1 DEF PollRead
    <3>3. n \in Nat /\ n <= Len(held)
      <4>1. room \in Nat /\ Len(held) \in Nat BY <3>2
      <4>. HIDE DEF held
      <4>. QED BY <4>1, Taken
    <3>4. SubSeq(held, 1, n) \in Seq(Bytes) /\ SubSeq(held, n + 1, Len(held)) \in Seq(Bytes)
      <4>. HIDE DEF held, n
      <4>1. \A i \in 1..n : held[i] \in Bytes BY <3>2, <3>3
      <4>2. \A i \in n + 1..Len(held) : held[i] \in Bytes BY <3>2, <3>3
      <4>3. Len(held) \in Nat BY <3>2
      <4>. QED BY <3>2, <3>3, <4>1, <4>2, <4>3
    <3>5. bytes' \in Seq(Bytes) /\ buf' \in Seq(Bytes)
      BY <3>1, <3>4, ConcatProperties DEF PollRead
    <3>. QED BY <3>1, <3>2, <3>5 DEF PollRead
  <2>7. CASE UNCHANGED vars
    BY <2>7 DEF vars
  <2>. QED BY <2>1, <2>2, <2>3, <2>4, <2>5, <2>6, <2>7 DEF Next
<1>. QED BY <1>1, <1>2, PTL DEF Spec

\* What is read is what was flushed, each byte once and in order, however it was cut
\* on its way, and nothing after a message that the port refused (PortIo).
THEOREM IsStreamHolds == Spec => IsStream
<1>1. Init => Stream!Init
  <2>1. ASSUME Init PROVE written - Len(wbuf) = 0
    <3>1. written = 0 /\ Len(wbuf) = 0 BY <2>1 DEF Init
    <3>. QED BY <3>1
  <2>. QED BY <2>1 DEF Init, Stream!Init, Flushed
<1>2. PipeInv /\ [Next]_vars => [Stream!Next]_<<written, Flushed, bytes>>
  <2>1. SUFFICES ASSUME PipeInv, [Next]_vars
                 PROVE  Stream!Next \/ UNCHANGED <<written, Flushed, bytes>>
    OBVIOUS
  <2>2. CASE UNCHANGED vars BY <2>2 DEF vars, Flushed
  <2>3. CASE PollWrite
    <3>1. written' > written /\ Flushed' = Flushed /\ bytes' = bytes
      BY <2>1, <2>3, WriteStep
    <3>2. written' \in written + 1..MaxBytes
      BY <2>1, <2>3, <3>1, PortAssumption DEF PollWrite, PipeInv
    <3>. QED BY <3>1, <3>2 DEF Stream!Next, Stream!Write
  <2>4. CASE PollFlush
    BY <2>1, <2>4, FlushStep DEF Stream!Next, Stream!Flush
  <2>5. CASE Drain \/ Break \/ OnMessage
    BY <2>5 DEF Drain, Break, OnMessage, Flushed
  <2>6. CASE Reads
    <3>1. PICK room \in 1..MaxChunk : PollRead(room) BY <2>6 DEF Reads
    <3>2. /\ written' = written /\ Flushed' = Flushed
          /\ \/ bytes' = bytes
             \/ \E k \in Len(bytes) + 1..Flushed : bytes' = Segment(0, k)
      BY <2>1, <3>1, ReadStep
    <3>3. ASSUME NEW k \in Len(bytes) + 1..Flushed PROVE Segment(0, k) = Stream!Upto(k)
      <4>1. k \in Int OBVIOUS
      <4>. QED BY <4>1 DEF Segment, Stream!Upto
    <3>. QED BY <3>2, <3>3 DEF Stream!Next, Stream!Read
  <2>. QED BY <2>1, <2>2, <2>3, <2>4, <2>5, <2>6 DEF Next
<1>. QED
  BY <1>1, <1>2, PipeInit, PipeStep, PTL DEF Spec, IsStream, Stream!Spec, Stream!vars

-----------------------------------------------------------------------------
(* Sudoku: a cell is a row and a column, a line is a band and a place.      *)

\* Division with a remainder.
LEMMA Divides ==
    ASSUME NEW n \in Nat \ {0}, NEW i \in Nat
    PROVE  i \div n \in Nat /\ i % n \in 0..n - 1 /\ i = (i \div n) * n + (i % n)
OBVIOUS

\* Quotient and remainder are unique.
LEMMA DividesOnce ==
    ASSUME NEW n \in Nat \ {0}, NEW p \in Nat, NEW q \in Nat,
           NEW r \in 0..n - 1, NEW s \in 0..n - 1, p * n + r = q * n + s
    PROVE  p = q /\ r = s
<1>1. ASSUME NEW a \in Nat, NEW b \in Nat, NEW x \in 0..n - 1, NEW y \in 0..n - 1,
             a * n + x = b * n + y, a < b
      PROVE  FALSE
  <2>1. PICK d \in Nat : b = a + 1 + d
    <3>1. b - a - 1 \in Nat
      BY <1>1
    <3> QED
      BY <3>1
  <2>2. b * n = a * n + n + d * n /\ d * n >= 0
    BY <2>1
  <2> QED
    BY <1>1, <2>2
<1>2. ~(p < q) /\ ~(q < p)
  BY <1>1
<1> QED
  BY <1>2

LEMMA Divided ==
    ASSUME NEW n \in Nat \ {0}, NEW q \in Nat, NEW r \in 0..n - 1
    PROVE  (q * n + r) \div n = q /\ (q * n + r) % n = r
<1> DEFINE i == q * n + r
<1>1. i \in Nat
  OBVIOUS
<1> HIDE DEF i
<1>2. i \div n \in Nat /\ i % n \in 0..n - 1 /\ i = (i \div n) * n + (i % n)
  BY <1>1, Divides
<1>3. (i \div n) * n + (i % n) = q * n + r
  BY <1>2 DEF i
<1> QED
  BY <1>2, <1>3, DividesOnce DEF i

\* What is below m * n has a quotient below m, and the other way around.
LEMMA DividedBound ==
    ASSUME NEW n \in Nat \ {0}, NEW m \in Nat, NEW q \in Nat, NEW r \in 0..n - 1
    PROVE  q * n + r < m * n <=> q < m
<1>1. ASSUME q < m PROVE q * n + r < m * n
  <2>1. PICK d \in Nat : m = q + 1 + d
    <3>1. m - q - 1 \in Nat
      BY <1>1
    <3> QED
      BY <3>1
  <2>2. m * n = q * n + n + d * n /\ d * n >= 0
    BY <2>1
  <2> QED
    BY <2>2
<1>2. ASSUME q >= m PROVE q * n + r >= m * n
  <2>1. PICK d \in Nat : q = m + d
    <3>1. q - m \in Nat
      BY <1>2
    <3> QED
      BY <3>1
  <2>2. q * n = m * n + d * n /\ d * n >= 0
    BY <2>1
  <2> QED
    BY <2>2
<1> QED
  BY <1>1, <1>2

LEMMA Sizes ==
    /\ Side \in Nat \ {0} /\ Size \in Nat \ {0} /\ Size = Side * Side
    /\ Size * Size \in Nat
BY SudokuAssumption DEF Size

Places == 0..Side - 1

\* A cell is a row and a column.
LEMMA CellOf ==
    ASSUME NEW r \in Index, NEW c \in Index
    PROVE  r * Size + c \in Cells /\ Row(r * Size + c) = r /\ Column(r * Size + c) = c
<1>1. r \in Nat /\ c \in 0..Size - 1 /\ r < Size
  BY Sizes DEF Index
<1>2. r * Size + c < Size * Size /\ r * Size + c \in Nat
  BY <1>1, Sizes, DividedBound
<1> QED
  BY <1>1, <1>2, Sizes, Divided DEF Cells, Row, Column

LEMMA CellIs ==
    ASSUME NEW i \in Cells
    PROVE  Row(i) \in Index /\ Column(i) \in Index /\ i = Row(i) * Size + Column(i)
<1>1. i \in Nat /\ i < Size * Size
  BY Sizes DEF Cells
<1>2. Row(i) \in Nat /\ Column(i) \in 0..Size - 1 /\ i = Row(i) * Size + Column(i)
  BY <1>1, Sizes, Divides DEF Row, Column
<1>3. Row(i) < Size
  BY <1>1, <1>2, Sizes, DividedBound
<1> QED
  BY <1>2, <1>3, Sizes DEF Index

\* A line is a band and a place in it; so is a box.
LEMMA LineOf ==
    ASSUME NEW a \in Places, NEW b \in Places
    PROVE  /\ a * Side + b \in Index
           /\ (a * Side + b) \div Side = a /\ (a * Side + b) % Side = b
<1>1. a \in Nat /\ b \in 0..Side - 1 /\ a < Side
  BY Sizes DEF Places
<1>2. a * Side + b < Side * Side /\ a * Side + b \in Nat
  BY <1>1, Sizes, DividedBound
<1> QED
  BY <1>1, <1>2, Sizes, Divided DEF Index

LEMMA LineIs ==
    ASSUME NEW k \in Index
    PROVE  k \div Side \in Places /\ k % Side \in Places /\ k = (k \div Side) * Side + (k % Side)
<1>1. k \in Nat /\ k < Side * Side
  BY Sizes DEF Index
<1>2. k \div Side \in Nat /\ k % Side \in 0..Side - 1 /\ k = (k \div Side) * Side + (k % Side)
  BY <1>1, Sizes, Divides
<1>3. k \div Side < Side
  BY <1>1, <1>2, Sizes, DividedBound
<1> QED
  BY <1>2, <1>3, Sizes DEF Places

-----------------------------------------------------------------------------
(* The index tables of the guest list the units.                           *)

\* idx lists the cells of a unit, each once.
Lists(idx, unit) ==
    /\ idx \in [Index -> Cells]
    /\ \A k, l \in Index : idx[k] = idx[l] => k = l
    /\ \A j : j \in unit <=> \E k \in Index : idx[k] = j

LEMMA RowLists ==
    ASSUME NEW r \in Index
    PROVE  Lists(row_idx(r), {j \in Cells : Row(j) = r})
<1>1. \A k \in Index :
         /\ row_idx(r)[k] = r * Size + k /\ row_idx(r)[k] \in Cells
         /\ Row(row_idx(r)[k]) = r /\ Column(row_idx(r)[k]) = k
  BY CellOf DEF row_idx
<1>2. \A j \in Cells : Row(j) = r => Column(j) \in Index /\ row_idx(r)[Column(j)] = j
  BY CellIs DEF row_idx
<1>3. row_idx(r) \in [Index -> Cells]
  BY <1>1 DEF row_idx
<1> QED
  BY <1>1, <1>2, <1>3 DEF Lists

LEMMA ColumnLists ==
    ASSUME NEW c \in Index
    PROVE  Lists(col_idx(c), {j \in Cells : Column(j) = c})
<1>1. \A k \in Index :
         /\ col_idx(c)[k] = k * Size + c /\ col_idx(c)[k] \in Cells
         /\ Column(col_idx(c)[k]) = c /\ Row(col_idx(c)[k]) = k
  BY CellOf DEF col_idx
<1>2. \A j \in Cells : Column(j) = c => Row(j) \in Index /\ col_idx(c)[Row(j)] = j
  BY CellIs DEF col_idx
<1>3. col_idx(c) \in [Index -> Cells]
  BY <1>1 DEF col_idx
<1> QED
  BY <1>1, <1>2, <1>3 DEF Lists

\* The k-th cell of a box.
LEMMA BoxCell ==
    ASSUME NEW b \in Index, NEW k \in Index
    PROVE  LET i == box_idx(b)[k]
           IN  /\ i \in Cells
               /\ Row(i) = (b \div Side) * Side + k \div Side
               /\ Column(i) = (b % Side) * Side + (k % Side)
               /\ Box(i) = <<b \div Side, b % Side>>
<1> DEFINE r == (b \div Side) * Side + k \div Side
           c == (b % Side) * Side + (k % Side)
<1>1. /\ b \div Side \in Places /\ b % Side \in Places
      /\ k \div Side \in Places /\ k % Side \in Places
  BY LineIs
<1>2. /\ r \in Index /\ r \div Side = b \div Side
      /\ c \in Index /\ c \div Side = b % Side
  BY <1>1, LineOf
<1>3. box_idx(b)[k] = r * Size + c
  <2>1. box_idx(b)[k] = ((b \div Side) * Side + k \div Side) * Size + (b % Side) * Side + (k % Side)
    BY DEF box_idx
  <2>2. r * Size \in Nat /\ (b % Side) * Side \in Nat /\ k % Side \in Nat
    BY <1>1, <1>2, Sizes DEF Index, Places
  <2> QED
    BY <2>1, <2>2
<1> HIDE DEF r, c
<1>4. r * Size + c \in Cells /\ Row(r * Size + c) = r /\ Column(r * Size + c) = c
  BY <1>2, CellOf
<1> QED
  BY <1>2, <1>3, <1>4 DEF Box, r, c

LEMMA BoxLists ==
    ASSUME NEW b \in Index
    PROVE  Lists(box_idx(b), {j \in Cells : Box(j) = <<b \div Side, b % Side>>})
<1>1. box_idx(b) \in [Index -> Cells]
  BY BoxCell DEF box_idx
<1>2. ASSUME NEW k \in Index, NEW l \in Index, box_idx(b)[k] = box_idx(b)[l]
      PROVE  k = l
  <2>1. /\ (b \div Side) * Side + k \div Side = (b \div Side) * Side + l \div Side
        /\ (b % Side) * Side + (k % Side) = (b % Side) * Side + (l % Side)
    BY <1>2, BoxCell
  <2>2. /\ (b \div Side) * Side \in Int /\ (b % Side) * Side \in Int
        /\ k \div Side \in Int /\ k % Side \in Int /\ l \div Side \in Int /\ l % Side \in Int
    BY LineIs, Sizes DEF Places
  <2>3. \A x, y, z \in Int : x + y = x + z => y = z
    OBVIOUS
  <2>4. k \div Side = l \div Side /\ k % Side = l % Side
    BY <2>1, <2>2, <2>3
  <2> QED
    BY <2>4, LineIs
<1>3. ASSUME NEW j \in Cells, Box(j) = <<b \div Side, b % Side>>
      PROVE  \E k \in Index : box_idx(b)[k] = j
  <2> DEFINE k == (Row(j) % Side) * Side + (Column(j) % Side)
  <2>1. Row(j) \in Index /\ Column(j) \in Index /\ j = Row(j) * Size + Column(j)
    BY CellIs
  <2>2. /\ Row(j) % Side \in Places /\ Column(j) % Side \in Places
        /\ Row(j) = (Row(j) \div Side) * Side + (Row(j) % Side)
        /\ Column(j) = (Column(j) \div Side) * Side + (Column(j) % Side)
    BY <2>1, LineIs
  <2>3. k \in Index /\ k \div Side = Row(j) % Side /\ k % Side = Column(j) % Side
    BY <2>2, LineOf
  <2>4. Row(j) \div Side = b \div Side /\ Column(j) \div Side = b % Side
    BY <1>3 DEF Box
  <2> HIDE DEF k
  <2>5. Row(box_idx(b)[k]) = Row(j) /\ Column(box_idx(b)[k]) = Column(j)
    BY <2>2, <2>3, <2>4, BoxCell
  <2>6. box_idx(b)[k] = j
    BY <2>1, <2>3, <2>5, BoxCell, CellIs
  <2> QED
    BY <2>3, <2>6
<1> QED
  BY <1>1, <1>2, <1>3, BoxCell DEF Lists

-----------------------------------------------------------------------------
(* What the guest counts.                                                  *)

LEMMA Lengths ==
    /\ IsFiniteSet(Index) /\ Cardinality(Index) = Size
    /\ IsFiniteSet(Digits) /\ Cardinality(Digits) = Size
    /\ IsFiniteSet(Cells)
<1>1. IsFiniteSet(0..Size - 1) /\ Cardinality(0..Size - 1) = Size
  <2>1. 0 \in Int /\ Size - 1 \in Int /\ ~(0 > Size - 1) /\ Size - 1 - 0 + 1 = Size
    BY Sizes
  <2> QED
    BY <2>1, FS_Interval
<1>2. IsFiniteSet(1..Size) /\ Cardinality(1..Size) = Size
  <2>1. 1 \in Int /\ Size \in Int /\ ~(1 > Size) /\ Size - 1 + 1 = Size
    BY Sizes
  <2> QED
    BY <2>1, FS_Interval
<1>3. IsFiniteSet(0..Size * Size - 1)
  BY Sizes, FS_Interval
<1> QED
  BY <1>1, <1>2, <1>3 DEF Index, Digits, Cells

\* No duplicates are counted in a group iff its cells differ.
LEMMA NoDups ==
    ASSUME NEW grid, NEW idx
    PROVE  group_dups(grid, idx) = 0 <=>
             \A k, l \in Index : grid[idx[k]] = grid[idx[l]] => k = l
<1> DEFINE pairs == {pair \in Index \X Index :
                       pair[1] < pair[2] /\ grid[idx[pair[1]]] = grid[idx[pair[2]]]}
<1>1. IsFiniteSet(pairs)
  <2>1. IsFiniteSet(Index \X Index)
    BY Lengths, FS_Product
  <2>2. pairs \in SUBSET (Index \X Index)
    OBVIOUS
  <2> QED
    BY <2>1, <2>2, FS_Subset
<1>2. group_dups(grid, idx) = 0 <=> pairs = {}
  BY <1>1, FS_EmptySet DEF group_dups
<1>3. ASSUME pairs = {}, NEW k \in Index, NEW l \in Index, grid[idx[k]] = grid[idx[l]]
      PROVE  k = l
  <2>1. <<k, l>> \notin pairs /\ <<l, k>> \notin pairs
    BY <1>3
  <2>2. ~(k < l) /\ ~(l < k)
    BY <1>3, <2>1
  <2> QED
    BY <2>2, Sizes DEF Index
<1>4. ASSUME \A k, l \in Index : grid[idx[k]] = grid[idx[l]] => k = l
      PROVE  pairs = {}
  BY <1>4, Sizes DEF Index
<1> QED
  BY <1>2, <1>3, <1>4

\* A unit of digits holds all of them iff it holds none twice.
LEMMA UnitHolds ==
    ASSUME NEW grid, NEW idx, NEW unit, Lists(idx, unit)
    PROVE  /\ (\A j \in unit : grid[j] \in Digits) /\ group_dups(grid, idx) = 0
                => Holds(grid, unit)
           /\ Holds(grid, unit) => group_dups(grid, idx) = 0
<1> DEFINE f == [k \in Index |-> grid[idx[k]]]
<1>1. \A d : (\E k \in Index : f[k] = d) <=> d \in {grid[i] : i \in unit}
  BY DEF Lists
<1>2. group_dups(grid, idx) = 0 <=> \A k, l \in Index : f[k] = f[l] => k = l
  BY NoDups
<1>3. Holds(grid, unit) <=> {grid[i] : i \in unit} = Digits
  BY DEF Holds
<1>4. ASSUME \A j \in unit : grid[j] \in Digits, group_dups(grid, idx) = 0
      PROVE  Holds(grid, unit)
  <2>1. f \in [Index -> Digits]
    BY <1>4 DEF Lists
  <2> HIDE DEF f
  <2>2. f \in Injection(Index, Digits)
    BY <1>2, <1>4, <2>1 DEF Injection, IsInjective
  <2>3. f \in Surjection(Index, Digits)
    BY <2>2, Lengths, FS_Injection
  <2>4. \A d \in Digits : \E k \in Index : f[k] = d
    BY <2>3 DEF Surjection
  <2> QED
    BY <1>1, <1>3, <2>1, <2>4
<1>5. ASSUME Holds(grid, unit)
      PROVE  group_dups(grid, idx) = 0
  <2>1. \A d : (\E k \in Index : f[k] = d) <=> d \in Digits
    BY <1>1, <1>3, <1>5
  <2>2. f \in [Index -> Digits]
    BY <2>1
  <2> HIDE DEF f
  <2>3. f \in Surjection(Index, Digits)
    BY <2>1, <2>2 DEF Surjection
  <2>4. f \in Injection(Index, Digits)
    BY <2>3, Lengths, FS_SurjSameCardinalityImpliesInj
  <2> QED
    BY <1>2, <2>4 DEF Injection, IsInjective
<1> QED
  BY <1>4, <1>5

-----------------------------------------------------------------------------
(* The verdict.                                                            *)

LEMMA NoneWrong ==
    ASSUME NEW wrong \in SUBSET Cells
    PROVE  Cardinality(wrong) = 0 <=> wrong = {}
BY Lengths, FS_Subset, FS_EmptySet

\* The units of the cells of a grid are those of the index tables.
LEMMA UnitsOfCells ==
    ASSUME NEW i \in Cells
    PROVE  /\ Row(i) \in Index /\ Column(i) \in Index
           /\ \E b \in Index : Lists(box_idx(b), {j \in Cells : Box(j) = Box(i)})
<1>1. Row(i) \in Index /\ Column(i) \in Index
  BY CellIs
<1> DEFINE b == (Row(i) \div Side) * Side + Column(i) \div Side
<1>2. Row(i) \div Side \in Places /\ Column(i) \div Side \in Places
  BY <1>1, LineIs
<1>3. b \in Index /\ b \div Side = Row(i) \div Side /\ b % Side = Column(i) \div Side
  BY <1>2, LineOf
<1> HIDE DEF b
<1>4. Box(i) = <<b \div Side, b % Side>>
  BY <1>3 DEF Box
<1> QED
  BY <1>1, <1>3, <1>4, BoxLists

LEMMA UnitsOfLines ==
    ASSUME NEW g \in Index
    PROVE  /\ \E i \in Cells : Row(i) = g
           /\ \E i \in Cells : Column(i) = g
           /\ \E i \in Cells : Box(i) = <<g \div Side, g % Side>>
BY CellOf, BoxCell

\* For every puzzle and all bytes.
LEMMA VerdictOf ==
    ASSUME NEW puzzle \in Grids, NEW grid \in [Cells -> Nat]
    PROVE  validate(puzzle, grid) <=> Completes(puzzle, grid)
<1> DEFINE Keeps == \A i \in Cells : puzzle[i] # Blank => grid[i] = puzzle[i]
           InRange == \A i \in Cells : grid[i] \in Digits
           Differ == \A g \in Index : /\ group_dups(grid, row_idx(g)) = 0
                                      /\ group_dups(grid, col_idx(g)) = 0
                                      /\ group_dups(grid, box_idx(g)) = 0
           AllHeld == \A i \in Cells : /\ Holds(grid, {j \in Cells : Row(j) = Row(i)})
                                       /\ Holds(grid, {j \in Cells : Column(j) = Column(i)})
                                       /\ Holds(grid, {j \in Cells : Box(j) = Box(i)})
<1>1. validate(puzzle, grid) <=> Keeps /\ InRange /\ Differ
  <2> DEFINE wrong == {i \in Cells : grid[i] < 1 \/ grid[i] > Size}
             lost == {i \in Cells : puzzle[i] # 0 /\ grid[i] # puzzle[i]}
  <2>1. wrong = {} <=> InRange
    BY Sizes DEF Digits
  <2>2. lost = {} <=> Keeps
    BY DEF Blank
  <2>3. (Cardinality(wrong) = 0 <=> wrong = {}) /\ (Cardinality(lost) = 0 <=> lost = {})
    BY NoneWrong
  <2>4. validate(puzzle, grid) <=> Cardinality(wrong) = 0 /\ Cardinality(lost) = 0 /\ Differ
    BY DEF validate
  <2> HIDE DEF wrong, lost, Keeps, InRange, Differ
  <2> QED
    BY <2>1, <2>2, <2>3, <2>4
<1>2. ASSUME InRange, Differ PROVE AllHeld
  <2> SUFFICES ASSUME NEW i \in Cells
               PROVE  /\ Holds(grid, {j \in Cells : Row(j) = Row(i)})
                      /\ Holds(grid, {j \in Cells : Column(j) = Column(i)})
                      /\ Holds(grid, {j \in Cells : Box(j) = Box(i)})
    OBVIOUS
  <2>1. Row(i) \in Index /\ Column(i) \in Index
    BY UnitsOfCells
  <2>2. PICK b \in Index : Lists(box_idx(b), {j \in Cells : Box(j) = Box(i)})
    BY UnitsOfCells
  <2>3. \A unit \in SUBSET Cells : \A j \in unit : grid[j] \in Digits
    BY <1>2
  <2>4. Holds(grid, {j \in Cells : Row(j) = Row(i)})
    <3> DEFINE unit == {j \in Cells : Row(j) = Row(i)}
    <3>1. Lists(row_idx(Row(i)), unit)
      BY <2>1, RowLists
    <3>2. unit \in SUBSET Cells
      OBVIOUS
    <3> HIDE DEF unit
    <3>3. Holds(grid, unit)
      BY <1>2, <2>1, <2>3, <3>1, <3>2, UnitHolds
    <3> QED
      BY <3>3 DEF unit
  <2>5. Holds(grid, {j \in Cells : Column(j) = Column(i)})
    <3> DEFINE unit == {j \in Cells : Column(j) = Column(i)}
    <3>1. Lists(col_idx(Column(i)), unit)
      BY <2>1, ColumnLists
    <3>2. unit \in SUBSET Cells
      OBVIOUS
    <3> HIDE DEF unit
    <3>3. Holds(grid, unit)
      BY <1>2, <2>1, <2>3, <3>1, <3>2, UnitHolds
    <3> QED
      BY <3>3 DEF unit
  <2>6. Holds(grid, {j \in Cells : Box(j) = Box(i)})
    BY <1>2, <2>2, <2>3, UnitHolds
  <2> QED
    BY <2>4, <2>5, <2>6
<1>3. ASSUME AllHeld PROVE InRange
  <2> SUFFICES ASSUME NEW i \in Cells PROVE grid[i] \in Digits
    OBVIOUS
  <2>1. Holds(grid, {j \in Cells : Row(j) = Row(i)})
    BY <1>3
  <2> QED
    BY <2>1 DEF Holds
<1>4. ASSUME AllHeld PROVE Differ
  <2> SUFFICES ASSUME NEW g \in Index
               PROVE  /\ group_dups(grid, row_idx(g)) = 0
                      /\ group_dups(grid, col_idx(g)) = 0
                      /\ group_dups(grid, box_idx(g)) = 0
    OBVIOUS
  <2>1. group_dups(grid, row_idx(g)) = 0
    <3>1. PICK i \in Cells : Row(i) = g
      BY UnitsOfLines
    <3>2. Holds(grid, {j \in Cells : Row(j) = Row(i)})
      BY <1>4
    <3> QED
      BY <3>1, <3>2, RowLists, UnitHolds
  <2>2. group_dups(grid, col_idx(g)) = 0
    <3>1. PICK i \in Cells : Column(i) = g
      BY UnitsOfLines
    <3>2. Holds(grid, {j \in Cells : Column(j) = Column(i)})
      BY <1>4
    <3> QED
      BY <3>1, <3>2, ColumnLists, UnitHolds
  <2>3. group_dups(grid, box_idx(g)) = 0
    <3>1. PICK i \in Cells : Box(i) = <<g \div Side, g % Side>>
      BY UnitsOfLines
    <3>2. Holds(grid, {j \in Cells : Box(j) = Box(i)})
      BY <1>4
    <3> QED
      BY <3>1, <3>2, BoxLists, UnitHolds
  <2> QED
    BY <2>1, <2>2, <2>3
<1>5. Completes(puzzle, grid) <=> Keeps /\ AllHeld
  BY DEF Completes
<1> HIDE DEF Keeps, InRange, Differ, AllHeld
<1> QED
  BY <1>1, <1>2, <1>3, <1>4, <1>5

-----------------------------------------------------------------------------
(* What the form generates.                                                *)

\* Adding the same to two remainders keeps them apart.
LEMMA Shifted ==
    ASSUME NEW n \in Nat \ {0}, NEW u \in 0..n - 1, NEW v \in 0..n - 1, NEW c \in Nat,
           (u + c) % n = (v + c) % n
    PROVE  u = v
<1> DEFINE x == u + c
           y == v + c
<1>1. /\ x \div n \in Nat /\ x % n \in 0..n - 1 /\ x = (x \div n) * n + (x % n)
      /\ y \div n \in Nat /\ y % n \in 0..n - 1 /\ y = (y \div n) * n + (y % n)
  <2>1. x \in Nat /\ y \in Nat
    OBVIOUS
  <2> HIDE DEF x, y
  <2> QED
    BY <2>1, Divides
<1>2. PICK a, b, m \in Nat : u + c = a * n + m /\ v + c = b * n + m
  BY <1>1
<1>3. CASE a < b
  <2>1. u + b * n = v + a * n
    BY <1>2
  <2>2. (b * n) + u = (a * n) + v
    BY <2>1
  <2> QED
    BY <2>2, DividesOnce, <1>3
<1>4. CASE ~(a < b)
  <2>1. (a * n) + v = (b * n) + u
    BY <1>2
  <2>2. v = u
    BY <2>1, DividesOnce
  <2> QED
    BY <2>2
<1> QED
  BY <1>3, <1>4

\* The digit's number in row r and column c.
LEMMA PatternLines ==
    ASSUME NEW r \in Index, NEW s \in Index, NEW c \in Index, NEW d \in Index
    PROVE  /\ Pattern(r, c) \in Index
           /\ Pattern(r, c) = Pattern(r, d) => c = d
           /\ Pattern(r, c) = Pattern(s, c) => r = s
           /\ Pattern(r, c) = Pattern(s, d) /\ r \div Side = s \div Side /\ c \div Side = d \div Side
                => r = s /\ c = d
<1> DEFINE Turned(x) == (x % Side) * Side + (x \div Side)
<1>1. \A x \in Index : /\ x \div Side \in Places /\ x % Side \in Places
                       /\ x = (x \div Side) * Side + (x % Side)
  BY LineIs
<1>2. \A x \in Index : /\ Turned(x) \in Index
                       /\ Turned(x) \div Side = x % Side /\ Turned(x) % Side = x \div Side
  BY <1>1, LineOf
<1>3. \A x \in Index : x \in Nat /\ x \in 0..Size - 1
  BY Sizes DEF Index
<1>4. \A x, y \in Index : Pattern(x, y) = (Turned(x) + y) % Size
  <2> SUFFICES ASSUME NEW x \in Index, NEW y \in Index
               PROVE  Pattern(x, y) = (Turned(x) + y) % Size
    OBVIOUS
  <2>1. Side * (x % Side) = (x % Side) * Side
    BY <1>1, Sizes DEF Places
  <2> QED
    BY <2>1 DEF Pattern
<1>5. Pattern(r, c) \in Index
  <2>1. Turned(r) + c \in Nat
    BY <1>2, <1>3
  <2> HIDE DEF Turned
  <2>2. (Turned(r) + c) % Size \in 0..Size - 1
    BY <2>1, Sizes, Divides
  <2> QED
    BY <1>4, <2>2 DEF Index
<1>6. ASSUME Pattern(r, c) = Pattern(r, d) PROVE c = d
  <2>1. Turned(r) \in Nat
    BY <1>2, <1>3
  <2>2. (Turned(r) + c) % Size = (Turned(r) + d) % Size
    BY <1>4, <1>6
  <2> HIDE DEF Turned
  <2>3. (c + Turned(r)) % Size = (d + Turned(r)) % Size
    BY <1>3, <2>1, <2>2
  <2> QED
    BY <1>3, <2>1, <2>3, Sizes, Shifted
<1>7. ASSUME Pattern(r, c) = Pattern(s, c) PROVE r = s
  <2>1. Turned(r) = Turned(s)
    <3>1. (Turned(r) + c) % Size = (Turned(s) + c) % Size
      BY <1>4, <1>7
    <3>2. Turned(r) \in 0..Size - 1 /\ Turned(s) \in 0..Size - 1 /\ c \in Nat
      BY <1>2, <1>3
    <3> HIDE DEF Turned
    <3> QED
      BY <3>1, <3>2, Sizes, Shifted
  <2>2. r % Side = s % Side /\ r \div Side = s \div Side
    BY <1>2, <2>1
  <2> QED
    BY <1>1, <2>2
<1>8. ASSUME Pattern(r, c) = Pattern(s, d), r \div Side = s \div Side, c \div Side = d \div Side
      PROVE  r = s /\ c = d
  <2> DEFINE u == (r % Side) * Side + (c % Side)
             v == (s % Side) * Side + (d % Side)
             k == r \div Side + (c \div Side) * Side
  <2>1. /\ u \in Index /\ u \div Side = r % Side /\ u % Side = c % Side
        /\ v \in Index /\ v \div Side = s % Side /\ v % Side = d % Side
    BY <1>1, LineOf
  <2>2. k \in Nat
    BY <1>1, Sizes DEF Places
  <2>3. Turned(r) + c = u + k /\ Turned(s) + d = v + k
    <3>1. \A a, b, e, f \in Int : (a + b) + (e + f) = (a + f) + (b + e)
      OBVIOUS
    <3>2. /\ (r % Side) * Side \in Int /\ r \div Side \in Int
          /\ (c \div Side) * Side \in Int /\ c % Side \in Int
          /\ (s % Side) * Side \in Int /\ d % Side \in Int
      BY <1>1, Sizes DEF Places
    <3>3. c = (c \div Side) * Side + (c % Side) /\ d = (c \div Side) * Side + (d % Side)
      BY <1>1, <1>8
    <3>4. Turned(r) + c = ((r % Side) * Side + (r \div Side)) + ((c \div Side) * Side + (c % Side))
      BY <3>3
    <3>5. Turned(s) + d = ((s % Side) * Side + (r \div Side)) + ((c \div Side) * Side + (d % Side))
      BY <1>8, <3>3
    <3> QED
      BY <3>1, <3>2, <3>4, <3>5
  <2>4. u = v
    <3>1. (u + k) % Size = (v + k) % Size
      BY <1>4, <1>8, <2>3
    <3>2. u \in 0..Size - 1 /\ v \in 0..Size - 1
      BY <2>1, <1>3
    <3> HIDE DEF u, v, k
    <3> QED
      BY <2>2, <3>1, <3>2, Sizes, Shifted
  <2>5. r % Side = s % Side /\ c % Side = d % Side
    BY <2>1, <2>4
  <2> QED
    BY <1>1, <1>8, <2>5
<1> QED
  BY <1>5, <1>6, <1>7, <1>8

\* Bands are shuffled as a whole, and rows within their band.
LEMMA Shuffled ==
    ASSUME NEW p \in BandPerms, NEW k \in Index, NEW l \in Index
    PROVE  /\ p[k] \in Index
           /\ p[k] = p[l] => k = l
           /\ k \div Side = l \div Side => p[k] \div Side = p[l] \div Side
<1> DEFINE Shuffles == Bijection(0..Side - 1, 0..Side - 1)
<1>1. PICK bands \in Shuffles, rows \in [0..Side - 1 -> Shuffles] :
         p = [x \in Index |-> (Side * bands[x \div Side]) + rows[x \div Side][x % Side]]
  BY DEF BandPerms
<1>2. \A f \in Shuffles : /\ \A a \in Places : f[a] \in Places
                          /\ \A a, b \in Places : f[a] = f[b] => a = b
  BY DEF Bijection, Injection, IsInjective, Places
<1>3. \A x \in Index : /\ x \div Side \in Places /\ x % Side \in Places
                       /\ x = (x \div Side) * Side + (x % Side)
  BY LineIs
<1>4. \A x \in Index : /\ bands[x \div Side] \in Places
                       /\ rows[x \div Side] \in Shuffles
                       /\ rows[x \div Side][x % Side] \in Places
  BY <1>1, <1>2, <1>3 DEF Places
<1>5. \A x \in Index : /\ p[x] \in Index
                       /\ p[x] \div Side = bands[x \div Side]
                       /\ p[x] % Side = rows[x \div Side][x % Side]
  <2> SUFFICES ASSUME NEW x \in Index
               PROVE  /\ p[x] \in Index
                      /\ p[x] \div Side = bands[x \div Side]
                      /\ p[x] % Side = rows[x \div Side][x % Side]
    OBVIOUS
  <2>1. p[x] = (bands[x \div Side] * Side) + rows[x \div Side][x % Side]
    BY <1>1, <1>4, Sizes DEF Places
  <2> QED
    BY <1>4, <2>1, LineOf
<1>6. ASSUME p[k] = p[l] PROVE k = l
  <2>1. bands[k \div Side] = bands[l \div Side]
    BY <1>5, <1>6
  <2>2. k \div Side = l \div Side
    BY <1>1, <1>2, <1>3, <2>1
  <2>3. rows[k \div Side][k % Side] = rows[k \div Side][l % Side]
    BY <1>5, <1>6, <2>2
  <2>4. k % Side = l % Side
    BY <1>2, <1>3, <1>4, <2>3
  <2> QED
    BY <1>3, <2>2, <2>4
<1> QED
  BY <1>5, <1>6

\* A generated grid has digits only, which differ within each unit.
LEMMA GeneratedDiffer ==
    ASSUME NEW grid \in Generated
    PROVE  /\ grid \in [Cells -> Digits]
           /\ \A i, j \in Cells :
                 /\ grid[i] = grid[j]
                 /\ Row(i) = Row(j) \/ Column(i) = Column(j) \/ Box(i) = Box(j)
                 => i = j
<1>1. PICK labels \in Relabels, rows \in BandPerms, columns \in BandPerms,
           transpose \in BOOLEAN :
         grid = [cell \in Cells |->
                   LET r == IF transpose THEN cell % Size ELSE cell \div Size
                       c == IF transpose THEN cell \div Size ELSE cell % Size
                   IN  labels[Pattern(rows[r], columns[c])] + 1]
  BY DEF Generated
<1> DEFINE R(i) == IF transpose THEN Column(i) ELSE Row(i)
           C(i) == IF transpose THEN Row(i) ELSE Column(i)
           At(i) == Pattern(rows[R(i)], columns[C(i)])
<1>2. \A i \in Cells : grid[i] = labels[At(i)] + 1
  BY <1>1 DEF Row, Column
<1>3. /\ \A k \in Index : labels[k] \in Index
      /\ \A k, l \in Index : labels[k] = labels[l] => k = l
  BY SudokuAssumption DEF Bijection, Injection, IsInjective
<1>4. \A i \in Cells : R(i) \in Index /\ C(i) \in Index
  BY CellIs
<1>5. \A i \in Cells : rows[R(i)] \in Index /\ columns[C(i)] \in Index
  BY <1>4, Shuffled
<1>6. \A i \in Cells : At(i) \in Index
  BY <1>5, PatternLines
<1>7. grid \in [Cells -> Digits]
  <2>1. \A k \in Index : k + 1 \in Digits
    BY Sizes DEF Index, Digits
  <2>2. \A i \in Cells : grid[i] \in Digits
    BY <1>2, <1>3, <1>6, <2>1
  <2>3. \E f : grid = [cell \in Cells |-> f[cell]]
    BY <1>1
  <2> QED
    BY <2>2, <2>3
<1>8. ASSUME NEW i \in Cells, NEW j \in Cells, grid[i] = grid[j],
             Row(i) = Row(j) \/ Column(i) = Column(j) \/ Box(i) = Box(j)
      PROVE  i = j
  <2>1. At(i) = At(j)
    <3>1. labels[At(i)] \in Int /\ labels[At(j)] \in Int
      BY <1>3, <1>6 DEF Index
    <3>2. labels[At(i)] = labels[At(j)]
      BY <1>2, <1>8, <3>1
    <3> QED
      BY <1>3, <1>6, <3>2
  <2>2. /\ R(i) = R(j) /\ C(i) = C(j)
    <3>1. CASE R(i) = R(j)
      <4>1. columns[C(i)] = columns[C(j)]
        BY <1>5, <2>1, <3>1, PatternLines
      <4> QED
        BY <1>4, <3>1, <4>1, Shuffled
    <3>2. CASE C(i) = C(j)
      <4>1. rows[R(i)] = rows[R(j)]
        BY <1>5, <2>1, <3>2, PatternLines, SMTT(30)
      <4> QED
        BY <1>4, <3>2, <4>1, Shuffled
    <3>3. CASE Box(i) = Box(j)
      <4>1. R(i) \div Side = R(j) \div Side /\ C(i) \div Side = C(j) \div Side
        BY <3>3 DEF Box
      <4>2. /\ rows[R(i)] \div Side = rows[R(j)] \div Side
            /\ columns[C(i)] \div Side = columns[C(j)] \div Side
        BY <1>4, <4>1, Shuffled
      <4>3. rows[R(i)] = rows[R(j)] /\ columns[C(i)] = columns[C(j)]
        BY <1>5, <2>1, <4>2, PatternLines
      <4> QED
        BY <1>4, <4>3, Shuffled
    <3> QED
      BY <1>8, <3>1, <3>2, <3>3
  <2> QED
    BY <2>2, CellIs
<1> QED
  BY <1>7, <1>8

\* It is valid, whatever the clues.
LEMMA GeneratedValid ==
    ASSUME NEW grid \in Generated, NEW puzzle,
           \A i \in Cells : puzzle[i] # 0 => grid[i] = puzzle[i]
    PROVE  validate(puzzle, grid)
<1>1. \A i \in Cells : ~(grid[i] < 1 \/ grid[i] > Size)
  BY GeneratedDiffer, Sizes DEF Digits
<1>2. Cardinality({i \in Cells : grid[i] < 1 \/ grid[i] > Size}) = 0
  BY <1>1, FS_EmptySet
<1>3. Cardinality({i \in Cells : puzzle[i] # 0 /\ grid[i] # puzzle[i]}) = 0
  BY FS_EmptySet
<1>4. ASSUME NEW g \in Index
      PROVE  /\ group_dups(grid, row_idx(g)) = 0
             /\ group_dups(grid, col_idx(g)) = 0
             /\ group_dups(grid, box_idx(g)) = 0
  <2>1. ASSUME NEW idx, NEW unit \in SUBSET Cells, Lists(idx, unit),
               \A i, j \in unit :
                  Row(i) = Row(j) \/ Column(i) = Column(j) \/ Box(i) = Box(j)
        PROVE  group_dups(grid, idx) = 0
    <3>1. \A k \in Index : idx[k] \in unit
      BY <2>1 DEF Lists
    <3>2. \A k, l \in Index : grid[idx[k]] = grid[idx[l]] => k = l
      BY <2>1, <3>1, GeneratedDiffer DEF Lists
    <3> QED
      BY <3>2, NoDups
  <2>2. group_dups(grid, row_idx(g)) = 0
    <3> DEFINE unit == {j \in Cells : Row(j) = g}
    <3>1. Lists(row_idx(g), unit)
      BY RowLists
    <3>2. /\ unit \in SUBSET Cells
          /\ \A i, j \in unit :
                Row(i) = Row(j) \/ Column(i) = Column(j) \/ Box(i) = Box(j)
      OBVIOUS
    <3> HIDE DEF unit
    <3> QED
      BY <2>1, <3>1, <3>2
  <2>3. group_dups(grid, col_idx(g)) = 0
    <3> DEFINE unit == {j \in Cells : Column(j) = g}
    <3>1. Lists(col_idx(g), unit)
      BY ColumnLists
    <3>2. /\ unit \in SUBSET Cells
          /\ \A i, j \in unit :
                Row(i) = Row(j) \/ Column(i) = Column(j) \/ Box(i) = Box(j)
      OBVIOUS
    <3> HIDE DEF unit
    <3> QED
      BY <2>1, <3>1, <3>2
  <2>4. group_dups(grid, box_idx(g)) = 0
    <3> DEFINE unit == {j \in Cells : Box(j) = <<g \div Side, g % Side>>}
    <3>1. Lists(box_idx(g), unit)
      BY BoxLists
    <3>2. /\ unit \in SUBSET Cells
          /\ \A i, j \in unit :
                Row(i) = Row(j) \/ Column(i) = Column(j) \/ Box(i) = Box(j)
      OBVIOUS
    <3> HIDE DEF unit
    <3> QED
      BY <2>1, <3>1, <3>2
  <2> QED
    BY <2>2, <2>3, <2>4
<1> QED
  BY <1>2, <1>3, <1>4 DEF validate

-----------------------------------------------------------------------------
(* The grid.                                                               *)

GridInv ==
    /\ SudokuTypeOK
    /\ edits = 0 => solution \in Generated /\ staged = {}

LEMMA GridInit == SudokuInit => GridInv
<1> SUFFICES ASSUME SudokuInit PROVE GridInv
  OBVIOUS
<1>1. solution \in Grids
  BY GeneratedDiffer DEF SudokuInit, Grids
<1>2. Cardinality(staged) = 0
  BY FS_EmptySet DEF SudokuInit
<1> QED
  BY <1>1, <1>2, SudokuAssumption DEF SudokuInit, GridInv, SudokuTypeOK

LEMMA GridNext == GridInv /\ [SudokuNext]_sudokuVars => GridInv'
<1> SUFFICES ASSUME GridInv, [SudokuNext]_sudokuVars PROVE GridInv'
  OBVIOUS
<1>1. CASE Regenerate
  <2>1. solution' \in Grids
    BY <1>1, GeneratedDiffer DEF Regenerate, Grids
  <2>2. Cardinality(staged') = 0
    BY <1>1, FS_EmptySet DEF Regenerate
  <2> QED
    BY <1>1, <2>1, <2>2, SudokuAssumption DEF Regenerate, GridInv, SudokuTypeOK
<1>2. ASSUME NEW i \in Cells, Enter(i) PROVE GridInv'
  <2>1. solution' \in Grids
    BY <1>2 DEF Enter, GridInv, SudokuTypeOK, Grids
  <2>2. edits' \in 0..MaxEdits /\ edits' # 0
    BY <1>2, SudokuAssumption DEF Enter, GridInv, SudokuTypeOK
  <2> QED
    BY <1>2, <2>1, <2>2 DEF Enter, GridInv, SudokuTypeOK
<1>3. CASE Stage
  <2>1. staged' \subseteq Forgeries /\ Cardinality(staged') = 1
    BY <1>3, FS_Singleton DEF Stage
  <2>2. edits' \in 0..MaxEdits /\ edits' # 0
    BY <1>3, SudokuAssumption DEF Stage, GridInv, SudokuTypeOK
  <2> QED
    BY <1>3, <2>1, <2>2 DEF Stage, GridInv, SudokuTypeOK
<1>4. CASE UNCHANGED sudokuVars
  BY <1>4 DEF sudokuVars, GridInv, SudokuTypeOK
<1> QED
  BY <1>1, <1>2, <1>3, <1>4 DEF SudokuNext

LEMMA GridAlways == SudokuSpec => []GridInv
BY GridInit, GridNext, PTL DEF SudokuSpec

\* The grids of the form and of the script keep their types.
THEOREM SudokuTypeCorrect == SudokuSpec => []SudokuTypeOK
<1>1. GridInv => SudokuTypeOK
  BY DEF GridInv
<1> QED
  BY <1>1, GridAlways, PTL

\* The guest's verdict is the sudoku rule (validate in demo/guests/sudoku/src/lib.rs),
\* for boxes of every side, all puzzles and entries and any bytes a script may stage.
THEOREM VerdictIsExactHolds == SudokuSpec => []VerdictIsExact
<1>1. GridInv => VerdictIsExact
  <2> SUFFICES ASSUME GridInv PROVE VerdictIsExact
    OBVIOUS
  <2>1. solution \in Grids /\ \A i \in Cells : solution[i] \in Nat
    BY Sizes DEF GridInv, SudokuTypeOK, Grids, Blank, Digits
  <2>2. Puzzle \in Grids
    BY <2>1 DEF Puzzle, Grids
  <2>3. Staged \in [Cells -> Nat]
    <3>1. CASE staged = {}
      BY <2>1, <3>1 DEF Staged, Grids
    <3>2. CASE staged # {}
      <4>1. Staged \in Forgeries
        BY <3>2 DEF Staged, GridInv, SudokuTypeOK
      <4> QED
        BY <4>1, SudokuAssumption
    <3> QED
      BY <3>1, <3>2
  <2> QED
    BY <2>2, <2>3, VerdictOf DEF VerdictIsExact
<1> QED
  BY <1>1, GridAlways, PTL

\* A puzzle that the form has made is valid (generateSolution of sudoku-form.ts), for
\* boxes of every side, all clues and all shuffles of digits, bands, rows, columns.
THEOREM RunsGreenHolds == SudokuSpec => []RunsGreen
<1>1. GridInv => RunsGreen
  <2> SUFFICES ASSUME GridInv, edits = 0 PROVE validate(Puzzle, Staged)
    BY DEF RunsGreen
  <2>1. solution \in Generated /\ Staged = solution
    BY DEF GridInv, Staged
  <2>2. \A i \in Cells : Puzzle[i] # 0 => solution[i] = Puzzle[i]
    BY DEF Puzzle, Blank
  <2> QED
    BY <2>1, <2>2, GeneratedValid
<1> QED
  BY <1>1, GridAlways, PTL
=============================================================================
