---------------------- MODULE CircularByteBufferProofs ----------------------
(***************************************************************************)
(* Proofs about CircularByteBuffer, for every size of the ring, every set  *)
(* of reader and writer threads and every array they write: the positions  *)
(* are sound, nobody waits for good, a lone writer that overflows stores   *)
(* nothing, and the ring implements ByteStream.                            *)
(***************************************************************************)
EXTENDS CircularByteBuffer, SequenceTheorems, TLAPS

\* The inductive invariant: the three parts hold each other up.  A read needs
\* Conservation to stay in the array and inside the arc, a write needs it to
\* leave the unread bytes alone, and MarkBound survives growth only because
\* growth is by Conservation a move of the whole arc.
RingInv == RingOK /\ Conservation /\ MarkBound

USE LengthAssumption, ClientAssumption

\* Growth leads to a length of the type invariant.
LEMMA LengthsAreNat ==
  ASSUME length \in 2..MaxLength
  PROVE  /\ length \in Nat /\ length >= 2
         /\ \A n \in Lengths : n \in Nat /\ n \in 2..MaxLength
  BY DEF Lengths

\* The arrays clients write are non-empty sequences of bytes.
LEMMA ArraysAreSequences == \A d \in Arrays : d \in Seq(Byte) /\ Len(d) > 0
<1> SUFFICES ASSUME NEW n \in 1..MaxWrite, NEW d \in [1..n -> Byte]
             PROVE  d \in Seq(Byte) /\ Len(d) > 0
  BY DEF Arrays
<1>1. n \in Nat /\ n > 0
  OBVIOUS
<1> QED BY <1>1

\* The empty ring satisfies the invariant (CircularByteBuffer.java:148-172).
LEMMA InitRing == Init => RingInv
<1> SUFFICES ASSUME Init PROVE RingInv
  OBVIOUS
<1>1. PICK k \in Kinds : length = k.size /\ buffer = [i \in 0..k.size - 1 |-> Zero]
  BY DEF Init
<1>2. length \in 2..MaxLength /\ buffer \in [0..length - 1 -> Byte]
  BY <1>1
<1>3. Idle \in Calls /\ Idle.op \notin Writing
  BY DEF Idle, Calls, Writing
<1>4. /\ pending \in [Threads -> Calls]
      /\ \A t \in Threads : pending[t].op \in Writing =>
                              pending[t].off < Len(pending[t].data)
  BY <1>3 DEF Init
<1>5. RingOK
  <2>1. /\ readPosition \in 0..length - 1 /\ writePosition \in 0..length - 1
        /\ markPosition \in 0..length - 1 /\ markSize \in Nat
    BY DEF Init
  <2>2. inputStreamClosed \in BOOLEAN /\ outputStreamClosed \in BOOLEAN
    BY DEF Init
  <2> QED BY <1>2, <1>4, <2>1, <2>2 DEF RingOK
<1>6. Conservation /\ MarkBound
  BY DEF Init, Conservation, MarkBound, available, marked, spaceLeft, Span
<1> QED BY <1>5, <1>6 DEF RingInv

\* A step that moves no position, mark, array or length keeps the geometry.
LEMMA SameRing ==
  ASSUME RingInv, UNCHANGED <<store, positions>>
  PROVE  Conservation' /\ MarkBound'
  BY DEF RingInv, RingOK, store, positions, Conservation, MarkBound,
         available, marked, spaceLeft, Span

\* The end of a call and a failed try leave well-formed calls behind.
LEMMA ReturnType ==
  ASSUME RingInv, NEW t \in Threads, NEW status, NEW data, NEW n,
         Return(t, status, data, n)
  PROVE  /\ pending' \in [Threads -> Calls]
         /\ \A u \in Threads : pending'[u].op \in Writing =>
                                 pending'[u].off < Len(pending'[u].data)
  BY DEF RingInv, RingOK, Return, Idle, Calls, Writing

\* A call that goes to sleep keeps its record well formed: it sleeps before its
\* array is wholly written.
LEMMA SleepType ==
  ASSUME RingInv, NEW t \in Threads, NEW off \in Nat, Sleep(t, off),
         pending[t].op \in Writing => off < Len(pending[t].data)
  PROVE  /\ pending' \in [Threads -> Calls]
         /\ \A u \in Threads : pending'[u].op \in Writing =>
                                 pending'[u].off < Len(pending'[u].data)
  BY DEF RingInv, RingOK, Sleep, Calls, Writing

-----------------------------------------------------------------------------
\* A call begins.
LEMMA BeginRing ==
  ASSUME RingInv, NEW t \in Threads, NEW call \in Calls, Begin(t, call),
         call.op \in Writing => call.off < Len(call.data)
  PROVE  RingInv'
<1>1. UNCHANGED <<store, positions, closed>>
  BY DEF Begin
<1>2. /\ pending' \in [Threads -> Calls]
      /\ \A u \in Threads : pending'[u].op \in Writing =>
                              pending'[u].off < Len(pending'[u].data)
  BY DEF RingInv, RingOK, Begin
<1>3. RingOK'
  BY <1>1, <1>2 DEF RingInv, RingOK, store, positions, closed
<1> QED BY <1>1, <1>3, SameRing DEF RingInv

\* A call ends, or goes on, without touching the ring.
LEMMA IdleRing ==
  ASSUME RingInv, UNCHANGED <<store, positions, closed>>,
         pending' \in [Threads -> Calls],
         \A u \in Threads : pending'[u].op \in Writing =>
                              pending'[u].off < Len(pending'[u].data)
  PROVE  RingInv'
<1>1. RingOK'
  BY DEF RingInv, RingOK, store, positions, closed
<1> QED BY <1>1, SameRing DEF RingInv

\* A read that finds nothing, and returns or sleeps, preserves the invariant
\* (lines 256-258, 279-281).
LEMMA NoDataRing ==
  ASSUME RingInv, NEW r \in Threads, NEW atEnd, NoData(r, atEnd),
         pending[r].op \notin Writing
  PROVE  RingInv'
<1>1. UNCHANGED <<store, positions, closed>>
  BY DEF NoData
<1>2. CASE \E status : Return(r, status, <<>>, 0)
  BY <1>1, <1>2, ReturnType, IdleRing
<1>3. CASE Sleep(r, 0)
  BY <1>1, <1>3, SleepType, IdleRing
<1> QED BY <1>2, <1>3 DEF NoData

\* Consuming n bytes moves the read position n places along the unread arc; the
\* mark stays, or it goes with it and gives its arc to the writers.
LEMMA ConsumeArcs ==
  ASSUME RingInv, NEW n \in 0..available, ensureMark(Advanced(n)), UNCHANGED store
  PROVE  /\ readPosition' = Advanced(n) /\ Advanced(n) \in 0..length - 1
         /\ Span(markPosition, Advanced(n)) = marked + n
         /\ available' = available - n
         /\ \/ /\ marked + n > markSize /\ markPosition' = Advanced(n) /\ markSize' = 0
               /\ marked' = 0 /\ spaceLeft' = spaceLeft + marked + n
            \/ /\ marked + n <= markSize /\ UNCHANGED <<markPosition, markSize>>
               /\ marked' = marked + n /\ spaceLeft' = spaceLeft
<1>1. length \in Nat /\ length >= 2
  BY LengthsAreNat DEF RingInv, RingOK
<1>2. Advanced(n) \in 0..length - 1
  BY <1>1 DEF RingInv, RingOK, Advanced, MinOf, available, Span
<1>3. readPosition' = Advanced(n)
  BY DEF ensureMark
<1>4. /\ Span(markPosition, Advanced(n)) = marked + n
      /\ Span(Advanced(n), writePosition) = available - n
  BY <1>1 DEF RingInv, RingOK, Conservation, Advanced, MinOf,
              available, marked, spaceLeft, Span
<1> DEFINE a == Advanced(n)
<1>5. length' = length /\ writePosition' = writePosition /\ readPosition' = a
  BY <1>3 DEF store
<1>6. \/ marked + n > markSize /\ markPosition' = a /\ markSize' = 0
      \/ marked + n <= markSize /\ UNCHANGED <<markPosition, markSize>>
  <2>1. marked \in Nat /\ markSize \in Nat
    BY <1>1 DEF RingInv, RingOK, marked, Span
  <2> QED BY <2>1, <1>4 DEF ensureMark
<1> HIDE DEF a
<1>7. /\ a \in 0..length - 1
      /\ Span(markPosition, a) = marked + n
      /\ Span(a, writePosition) = available - n
  BY <1>2, <1>4 DEF a
<1>8. available' = available - n
  BY <1>1, <1>5, <1>7 DEF available, Span
<1>9. CASE marked + n > markSize /\ markPosition' = a /\ markSize' = 0
  <2>1. marked' = 0
    BY <1>5, <1>7, <1>9, <1>1 DEF marked, Span
  <2>2. spaceLeft' = spaceLeft + marked + n
    BY <1>1, <1>5, <1>7, <1>9
       DEF RingInv, RingOK, Conservation, available, marked, spaceLeft, Span
  <2> QED BY <1>2, <1>3, <1>4, <1>8, <1>9, <2>1, <2>2 DEF a
<1>10. CASE marked + n <= markSize /\ UNCHANGED <<markPosition, markSize>>
  <2>1. marked' = marked + n /\ spaceLeft' = spaceLeft
    BY <1>5, <1>7, <1>10, <1>1 DEF marked, spaceLeft, Span
  <2> QED BY <1>2, <1>3, <1>4, <1>8, <1>10, <2>1
<1> QED BY <1>6, <1>9, <1>10

\* A read or skip moves the read position along the unread arc, and the mark
\* either stays within markSize behind it or goes with it.
LEMMA ConsumeRing ==
  ASSUME RingInv, NEW r \in Threads, NEW data, NEW n \in 0..available,
         Consume(r, n, data)
  PROVE  RingInv'
<1>1. length \in Nat /\ length >= 2 /\ marked \in Nat /\ available \in Nat
  BY LengthsAreNat DEF RingInv, RingOK, marked, available, Span
<1>2. UNCHANGED <<store, closed>> /\ ensureMark(Advanced(n))
  BY DEF Consume
<1> DEFINE a == Advanced(n)
<1>3. /\ readPosition' = a /\ a \in 0..length - 1
      /\ available' = available - n
      /\ \/ /\ marked + n > markSize /\ markPosition' = a /\ markSize' = 0
            /\ marked' = 0 /\ spaceLeft' = spaceLeft + marked + n
         \/ /\ marked + n <= markSize /\ UNCHANGED <<markPosition, markSize>>
            /\ marked' = marked + n /\ spaceLeft' = spaceLeft
  BY <1>2, ConsumeArcs
<1> HIDE DEF a
<1>4. spaceLeft \in Int /\ length' = length
  BY <1>1, <1>2 DEF RingInv, RingOK, spaceLeft, store
<1>5. Conservation' /\ MarkBound'
  BY <1>1, <1>3, <1>4 DEF RingInv, RingOK, Conservation, MarkBound
<1>6. /\ readPosition' \in 0..length' - 1 /\ markPosition' \in 0..length' - 1
      /\ markSize' \in Nat
  BY <1>3, <1>4 DEF RingInv, RingOK
<1>7. Return(r, "ok", data, n)
  BY DEF Consume
<1>8. /\ pending' \in [Threads -> Calls]
      /\ \A u \in Threads : pending'[u].op \in Writing =>
                              pending'[u].off < Len(pending'[u].data)
  BY <1>7, ReturnType
<1>9. RingOK'
  BY <1>2, <1>6, <1>8 DEF RingInv, RingOK, store, closed
<1> QED BY <1>5, <1>9 DEF RingInv

-----------------------------------------------------------------------------
\* The arcs of a ring of length n, for any positions.
Dist(n, from, to) == IF from <= to THEN to - from ELSE n - (from - to)
Room(n, m, w) == IF w < m THEN m - w - 1 ELSE (n - 1) - (w - m)

\* The ring a write finds, grown or not, has its three positions in place.
LEMMA GrownRing ==
  ASSUME RingInv, NEW n \in Lengths, NEW len \in Nat \ {0}, GrowsTo(n, len)
  PROVE  /\ n \in Nat /\ n >= length
         /\ Ring(n).buf \in [0..n - 1 -> Byte]
         /\ Ring(n).read \in 0..n - 1 /\ Ring(n).write \in 0..n - 1
         /\ Ring(n).mark \in 0..n - 1
         /\ Dist(n, Ring(n).mark, Ring(n).read) = marked
         /\ Dist(n, Ring(n).read, Ring(n).write) = available
         /\ Room(n, Ring(n).mark, Ring(n).write) = Ring(n).space
         /\ marked + available + Ring(n).space = n - 1
         /\ Ring(n).space \in Nat
<1>1. length \in Nat /\ length >= 2 /\ n \in Nat
  BY LengthsAreNat DEF RingInv, RingOK
<1>2. /\ marked \in Nat /\ available \in Nat /\ kept = marked + available
      /\ spaceLeft = length - 1 - kept /\ spaceLeft \in Nat /\ kept < length
  BY <1>1 DEF RingInv, RingOK, Conservation, kept, marked, available, spaceLeft, Span
<1>3. CASE n = length
  BY <1>1, <1>2, <1>3
     DEF RingInv, RingOK, Ring, Dist, Room, marked, available, spaceLeft, Span
<1>4. CASE n # length
  <2>1. n - 1 - kept >= len /\ spaceLeft < len
    BY <1>4 DEF GrowsTo
  <2>2. n > length
    BY <1>1, <1>2, <2>1
  <2>3. ASSUME NEW i \in 0..kept - 1 PROVE ByteAt(markPosition, i) \in Byte
    BY <1>1, <1>2 DEF RingInv, RingOK, ByteAt
  <2>4. Recopied(n) \in [0..n - 1 -> Byte]
    BY <1>1, <1>2, <2>3 DEF Recopied
  <2>5. Ring(n) = resize(n)
    BY <1>4 DEF Ring
  <2> QED BY <1>1, <1>2, <2>1, <2>2, <2>4, <2>5 DEF resize, Dist, Room
<1> QED BY <1>3, <1>4

\* The arithmetic of one try of a write into the ring g of length n.
LEMMA ChunkArithmetic ==
  ASSUME NEW n \in Nat, NEW g, g.mark \in 0..n - 1, g.write \in 0..n - 1,
         g.space \in Nat, NEW len \in Nat \ {0}
  PROVE  /\ FirstLen(g, n, len) \in Nat /\ SecondLen(g, n, len) \in Nat
         /\ FirstLen(g, n, len) + SecondLen(g, n, len) <= len
         /\ FirstLen(g, n, len) + SecondLen(g, n, len) <= g.space
         /\ FirstLen(g, n, len) <= n - g.write /\ SecondLen(g, n, len) < n
         /\ SecondLen(g, n, len) > 0 => FirstLen(g, n, len) = n - g.write
<1> DEFINE real == MinOf(len, g.space)
           first == FirstLen(g, n, len)
<1>1. real \in Nat /\ real <= len /\ real <= g.space
  BY DEF MinOf
<1>2. /\ first \in Nat /\ first <= real /\ first <= n - g.write
      /\ real - first > 0 => first = n - g.write
  BY <1>1 DEF FirstLen, MinOf
<1>3. SecondLen(g, n, len) = MinOf(real - first, n - g.mark - 1)
  BY DEF SecondLen
<1> HIDE DEF real, first
<1>4. \A s : s = MinOf(real - first, n - g.mark - 1) =>
                s \in Nat /\ s <= real - first /\ s < n
  BY <1>1, <1>2 DEF MinOf
<1>5. /\ first \in Nat /\ SecondLen(g, n, len) \in Nat
      /\ first + SecondLen(g, n, len) <= len
      /\ first + SecondLen(g, n, len) <= g.space
      /\ first <= n - g.write /\ SecondLen(g, n, len) < n
      /\ SecondLen(g, n, len) > 0 => first = n - g.write
  BY <1>1, <1>2, <1>3, <1>4
<1> QED BY <1>5 DEF first

\* From the mark to the read position nothing moves, the unread arc grows by
\* what was copied and the free arc shrinks by as much.
LEMMA ArcArithmetic ==
  ASSUME NEW n \in Nat, NEW m \in 0..n - 1, NEW r \in 0..n - 1, NEW g,
         g.write \in 0..n - 1,
         NEW first \in Nat, NEW second \in Nat,
         first + second <= Room(n, m, g.write), first <= n - g.write, second < n,
         second > 0 => first = n - g.write,
         Dist(n, m, r) + Dist(n, r, g.write) + Room(n, m, g.write) = n - 1
  PROVE  /\ WrittenTo(g, n, first, second) \in 0..n - 1
         /\ Dist(n, r, WrittenTo(g, n, first, second)) =
              Dist(n, r, g.write) + first + second
         /\ Room(n, m, WrittenTo(g, n, first, second)) =
              Room(n, m, g.write) - first - second
<1> DEFINE to == WrittenTo(g, n, first, second)
<1>1. \/ second > 0 /\ to = second
      \/ second = 0 /\ g.write + first < n /\ to = g.write + first
      \/ second = 0 /\ g.write + first = n /\ to = 0
  BY DEF WrittenTo
<1> HIDE DEF to
<1>2. /\ to \in 0..n - 1
      /\ Dist(n, r, to) = Dist(n, r, g.write) + first + second
      /\ Room(n, m, to) = Room(n, m, g.write) - first - second
  BY <1>1 DEF Dist, Room
<1> QED BY <1>2 DEF to

\* The array after first bytes from place w on and second from its start have
\* been taken from data, behind the first off.
Overwritten(n, buf, w, first, second, data, off) ==
  [i \in 0..n - 1 |->
     IF w <= i /\ i < w + first THEN data[off + i - w + 1]
     ELSE IF i < second THEN data[off + first + i + 1]
     ELSE buf[i]]

\* What one try of a write does to the ring, grown to length n or not, that is
\* marked at m, read at r and written at w, with the array buf.
Stored(t, data, off, n, buf, m, r, w, first, second, to) ==
  /\ n \in Nat /\ n >= length /\ buf \in [0..n - 1 -> Byte]
  /\ m \in 0..n - 1 /\ r \in 0..n - 1 /\ w \in 0..n - 1 /\ to \in 0..n - 1
  /\ first \in Nat /\ second \in Nat /\ first + second <= Len(data) - off
  /\ first <= n - w /\ second < n /\ (second > 0 => first = n - w)
  /\ first + second <= n - 1 - kept /\ kept = marked + available
  /\ marked \in Nat /\ available \in Nat
  /\ Dist(n, m, r) = marked /\ Dist(n, m, w) = kept
  /\ Dist(n, m, to) = kept + first + second
  /\ length' = n /\ writePosition' = to /\ readPosition' = r /\ markPosition' = m
  /\ UNCHANGED <<markSize, closed>>
  /\ marked' = marked /\ available' = available + first + second
  /\ spaceLeft' = n - 1 - kept - first - second
  /\ buffer' = Overwritten(n, buf, w, first, second, data, off)
  /\ IF first + second = Len(data) - off THEN Return(t, "ok", <<>>, Len(data))
                                         ELSE Sleep(t, off + (first + second))

\* One try of a write: at most the free arc is filled, from the write position
\* to the end of the array and then from its start.
LEMMA StoreShape ==
  ASSUME RingInv, NEW t \in Threads, NEW data \in Seq(Byte), NEW off \in Nat,
         off < Len(data), Store(t, data, off)
  PROVE  \E n, first, second, to :
           /\ n \in Lengths /\ GrowsTo(n, Len(data) - off)
           /\ Stored(t, data, off, n, Ring(n).buf, Ring(n).mark, Ring(n).read,
                     Ring(n).write, first, second, to)
<1> DEFINE len == Len(data) - off
<1>1. len \in Nat \ {0}
  OBVIOUS
<1>2. PICK n \in Lengths :
        LET g == Ring(n)
            first == FirstLen(g, n, len)
            second == SecondLen(g, n, len)
        IN  /\ GrowsTo(n, len) /\ length' = n
            /\ buffer' = Copied(g, n, data, off)
            /\ writePosition' = WrittenTo(g, n, first, second)
            /\ readPosition' = g.read /\ markPosition' = g.mark
            /\ IF first + second = len THEN Return(t, "ok", <<>>, Len(data))
                                       ELSE Sleep(t, off + (first + second))
  BY DEF Store
<1> DEFINE g == Ring(n)
           first == FirstLen(g, n, len)
           second == SecondLen(g, n, len)
           to == WrittenTo(g, n, first, second)
<1>3. /\ n \in Nat /\ n >= length /\ g.buf \in [0..n - 1 -> Byte]
      /\ g.read \in 0..n - 1 /\ g.write \in 0..n - 1 /\ g.mark \in 0..n - 1
      /\ Dist(n, g.mark, g.read) = marked
      /\ Dist(n, g.read, g.write) = available
      /\ Room(n, g.mark, g.write) = g.space
      /\ marked + available + g.space = n - 1 /\ g.space \in Nat
  BY <1>1, <1>2, GrownRing
<1>4. length \in Nat /\ length >= 2
  BY LengthsAreNat DEF RingInv, RingOK
<1>b. buffer' = Overwritten(n, g.buf, g.write, first, second, data, off)
  BY <1>2 DEF Copied, Overwritten
<1> HIDE DEF len, g
<1>5. /\ first \in Nat /\ second \in Nat /\ first + second <= len
      /\ first <= n - g.write /\ first + second <= g.space
      /\ second < n /\ (second > 0 => first = n - g.write)
  BY <1>1, <1>3, ChunkArithmetic
<1> HIDE DEF first, second
<1>6. /\ to \in 0..n - 1
      /\ Dist(n, g.read, to) = available + first + second
      /\ Room(n, g.mark, to) = g.space - first - second
  <2>1. /\ first + second <= Room(n, g.mark, g.write)
        /\ Dist(n, g.mark, g.read) + Dist(n, g.read, g.write)
             + Room(n, g.mark, g.write) = n - 1
    BY <1>3, <1>5
  <2>2. /\ WrittenTo(g, n, first, second) \in 0..n - 1
        /\ Dist(n, g.read, WrittenTo(g, n, first, second)) =
             Dist(n, g.read, g.write) + first + second
        /\ Room(n, g.mark, WrittenTo(g, n, first, second)) =
             Room(n, g.mark, g.write) - first - second
    BY ONLY <2>1, <1>3, <1>5, ArcArithmetic, n \in Nat
  <2> QED BY <2>2, <1>3
<1> HIDE DEF to
<1>7. /\ length' = n /\ writePosition' = to
      /\ readPosition' = g.read /\ markPosition' = g.mark
      /\ UNCHANGED <<markSize, closed>>
  BY <1>2 DEF Store, to, first, second, g
<1>8. /\ marked' = Dist(n, g.mark, g.read)
      /\ available' = Dist(n, g.read, to)
      /\ spaceLeft' = Room(n, g.mark, to)
  BY <1>7 DEF marked, available, spaceLeft, Span, Dist, Room
<1>9. marked \in Nat /\ available \in Nat /\ kept = marked + available
  BY <1>4 DEF RingInv, RingOK, Conservation, kept, marked, available, spaceLeft, Span
<1>10. Dist(n, g.mark, g.write) = kept /\ Dist(n, g.mark, to) = kept + first + second
  <2>1. \A m, w \in 0..n - 1 : Dist(n, m, w) = n - 1 - Room(n, m, w)
    BY <1>3 DEF Dist, Room
  <2>2. Dist(n, g.mark, g.write) = n - 1 - g.space
    BY <2>1, <1>3
  <2>3. Dist(n, g.mark, to) = n - 1 - (g.space - first - second)
    BY <2>1, <1>3, <1>6
  <2>4. \A space \in Nat : marked + available + space = n - 1 =>
          n - 1 - space = kept /\ n - 1 - (space - first - second) = kept + first + second
    <3>1. n \in Nat /\ first \in Nat /\ second \in Nat
      BY <1>3, <1>5
    <3> QED BY <3>1, <1>9
  <2> QED BY <2>2, <2>3, <2>4, <1>3
<1>11. /\ marked' = marked /\ available' = available + first + second
       /\ spaceLeft' = n - 1 - kept - first - second
       /\ first + second <= n - 1 - kept
  <2>1. \A space \in Nat : marked + available + space = n - 1 =>
          /\ space - first - second = n - 1 - kept - first - second
          /\ first + second <= space => first + second <= n - 1 - kept
    BY <1>3, <1>5, <1>9
  <2> QED BY <2>1, <1>3, <1>5, <1>6, <1>8
<1>12. IF first + second = Len(data) - off THEN Return(t, "ok", <<>>, Len(data))
                                           ELSE Sleep(t, off + (first + second))
  BY <1>2 DEF first, second, g, len
<1>13. Stored(t, data, off, n, g.buf, g.mark, g.read, g.write, first, second, to)
  <2>1. first + second <= Len(data) - off
    BY <1>5 DEF len
  <2> QED BY <2>1, <1>3, <1>5, <1>6, <1>7, <1>9, <1>10, <1>11, <1>12, <1>b DEF Stored
<1> QED BY <1>2, <1>13 DEF g, len

\* A try of a write preserves the invariant.
LEMMA StoreRing ==
  ASSUME RingInv, NEW t \in Threads, NEW data \in Seq(Byte), NEW off \in Nat,
         off < Len(data), pending[t].data = data, Store(t, data, off)
  PROVE  RingInv'
<1>1. PICK n, buf, m, r, w, first, second, to :
        n \in Lengths /\ Stored(t, data, off, n, buf, m, r, w, first, second, to)
  BY StoreShape
<1>2. length \in Nat /\ length >= 2
  BY LengthsAreNat DEF RingInv, RingOK
<1>3. Conservation' /\ MarkBound'
  <2>1. Conservation'
    BY <1>1 DEF Stored, Conservation
  <2>2. MarkBound'
    BY <1>1, <1>2 DEF Stored, RingInv, RingOK, MarkBound
  <2> QED BY <2>1, <2>2
<1>4. buffer' \in [0..n - 1 -> Byte]
  <2>1. /\ buffer' = Overwritten(n, buf, w, first, second, data, off)
        /\ first \in Nat /\ second \in Nat /\ first + second <= Len(data) - off
        /\ w \in 0..n - 1 /\ n \in Nat /\ buf \in [0..n - 1 -> Byte]
    BY <1>1 DEF Stored
  <2>2. ASSUME NEW i \in 0..n - 1
        PROVE  (IF w <= i /\ i < w + first THEN data[off + i - w + 1]
                ELSE IF i < second THEN data[off + first + i + 1]
                ELSE buf[i]) \in Byte
    <3>1. \A k \in 1..Len(data) : data[k] \in Byte
      OBVIOUS
    <3>2. CASE w <= i /\ i < w + first
      <4> DEFINE j == i - w
      <4>1. j \in Nat /\ j < first /\ off + i - w + 1 = off + j + 1
        BY <3>2, <2>1
      <4> HIDE DEF j
      <4>2. off + j + 1 \in 1..Len(data)
        BY <4>1, <2>1
      <4> QED BY <3>1, <3>2, <4>1, <4>2
    <3>3. CASE ~(w <= i /\ i < w + first) /\ i < second
      <4>1. off + first + i + 1 \in 1..Len(data)
        BY <3>3, <2>1
      <4> QED BY <3>1, <3>3, <4>1
    <3>4. CASE ~(w <= i /\ i < w + first) /\ ~(i < second)
      BY <3>4, <2>1
    <3> QED BY <3>2, <3>3, <3>4
  <2> QED BY <2>1, <2>2 DEF Overwritten
<1>5. /\ pending' \in [Threads -> Calls]
      /\ \A u \in Threads : pending'[u].op \in Writing =>
                              pending'[u].off < Len(pending'[u].data)
  <2>1. CASE first + second = Len(data) - off
    BY <2>1, <1>1, ReturnType DEF Stored
  <2>2. CASE first + second # Len(data) - off
    <3>1. Sleep(t, off + (first + second))
      BY <2>2, <1>1 DEF Stored
    <3>2. off + (first + second) \in Nat /\ off + (first + second) < Len(data)
      BY <2>2, <1>1 DEF Stored
    <3> QED BY <3>1, <3>2, SleepType
  <2> QED BY <2>1, <2>2
<1>6. RingOK'
  <2>1. /\ length' = n /\ n \in 2..MaxLength /\ UNCHANGED <<markSize, closed>>
    BY <1>1, LengthsAreNat DEF Stored, RingInv, RingOK
  <2>2. /\ readPosition' \in 0..n - 1 /\ writePosition' \in 0..n - 1
        /\ markPosition' \in 0..n - 1
    BY <1>1 DEF Stored
  <2> QED BY <2>1, <2>2, <1>4, <1>5 DEF RingInv, RingOK, closed
<1> QED BY <1>3, <1>6 DEF RingInv

-----------------------------------------------------------------------------
\* Every step of every thread preserves the invariant.
LEMMA NextRing == RingInv /\ [Next]_vars => RingInv'
<1> SUFFICES ASSUME RingInv, [Next]_vars PROVE RingInv'
  OBVIOUS
<1>0. length \in Nat /\ length >= 2 /\ available \in Nat
  BY LengthsAreNat DEF RingInv, RingOK, available, Span
<1>1. ASSUME NEW r \in Readers, BeginRead(r) \/ BeginReadByte(r) \/ BeginSkip(r)
      PROVE  RingInv'
  <2>1. PICK op \in {"read", "readByte", "skip"}, n \in 1..MaxRead :
          Begin(r, Call(op, n, <<>>))
    BY <1>1 DEF BeginRead, BeginReadByte, BeginSkip
  <2>2. /\ Call(op, n, <<>>) \in Calls
        /\ Call(op, n, <<>>).op \notin Writing
    BY DEF Call, Calls, Writing
  <2>3. r \in Threads
    BY DEF Threads
  <2> QED BY <2>1, <2>2, <2>3, BeginRing
<1>2. ASSUME NEW r \in Readers, TryRead(r) \/ TryReadByte(r) \/ TrySkip(r)
      PROVE  RingInv'
  <2>1. r \in Threads /\ pending[r] \in Calls
    BY DEF Threads, RingInv, RingOK
  <2>2. pending[r].op \notin Writing
    BY <1>2 DEF TryRead, TryReadByte, TrySkip, Awake, Writing
  <2>3. MinOf(pending[r].len, available) \in 0..available
    BY <1>0, <2>1 DEF Calls, MinOf
  <2>4. CASE \E atEnd : NoData(r, atEnd)
    BY <2>1, <2>2, <2>4, NoDataRing
  <2>5. CASE \E n \in 0..available : \E data : Consume(r, n, data)
    BY <2>1, <2>5, ConsumeRing
  <2>6. CASE TryRead(r)
    BY <2>3, <2>4, <2>5, <2>6 DEF TryRead
  <2>7. CASE TryReadByte(r)
    <3>1. ASSUME available > 0 PROVE 1 \in 0..available
      BY <1>0, <3>1
    <3> QED BY <2>4, <2>5, <2>7, <3>1 DEF TryReadByte, Consume
  <2>8. CASE TrySkip(r)
    BY <2>3, <2>4, <2>5, <2>8 DEF TrySkip
  <2> QED BY <1>2, <2>6, <2>7, <2>8
<1>3. ASSUME NEW r \in Readers, Mark(r) PROVE RingInv'
  BY <1>0, <1>3
     DEF Mark, LimitFits, RingInv, RingOK, Conservation, MarkBound, store, closed,
         calls, available, marked, spaceLeft, Span
<1>4. ASSUME NEW r \in Readers, Reset(r) PROVE RingInv'
  BY <1>0, <1>4
     DEF Reset, RingInv, RingOK, Conservation, MarkBound, store, closed,
         calls, available, marked, spaceLeft, Span
<1>5. ASSUME NEW w \in Writers, BeginWrite(w) \/ BeginWriteByte(w) PROVE RingInv'
  <2>1. PICK op \in Writing, d \in Seq(Byte) :
          Begin(w, Call(op, 0, d)) /\ Len(d) > 0
    <3>1. CASE BeginWrite(w)
      BY <3>1, ArraysAreSequences DEF BeginWrite, Writing
    <3>2. CASE BeginWriteByte(w)
      <4>1. \A b \in Byte : <<b>> \in Seq(Byte) /\ Len(<<b>>) > 0
        OBVIOUS
      <4> QED BY <3>2, <4>1 DEF BeginWriteByte, Writing
    <3> QED BY <1>5, <3>1, <3>2
  <2>2. Call(op, 0, d) \in Calls /\ Call(op, 0, d).off < Len(Call(op, 0, d).data)
    BY <2>1 DEF Call, Calls
  <2>3. w \in Threads
    BY DEF Threads
  <2> QED BY <2>1, <2>2, <2>3, BeginRing
<1>6. ASSUME NEW w \in Writers, TryWrite(w) \/ TryWriteByte(w) PROVE RingInv'
  <2> DEFINE p == pending[w]
  <2>1. /\ w \in Threads /\ p \in Calls /\ p.op \in Writing
        /\ p.data \in Seq(Byte) /\ p.off \in Nat /\ p.off < Len(p.data)
    BY <1>6 DEF Threads, RingInv, RingOK, TryWrite, TryWriteByte, Awake,
                Writing, Calls
  <2>2. CASE \E len : Refuse(w, len)
    <3>1. UNCHANGED <<store, positions, closed>>
          /\ \E status : Return(w, status, <<>>, p.off)
      BY <2>2 DEF Refuse
    <3> QED BY <3>1, <2>1, ReturnType, IdleRing
  <2>3. CASE Store(w, p.data, p.off)
    BY <2>1, <2>3, StoreRing
  <2>4. CASE Store(w, p.data, 0)
    BY <2>1, <2>4, StoreRing
  <2> QED BY <1>6, <2>2, <2>3, <2>4 DEF TryWrite, TryWriteByte
<1>7. ASSUME NEW t \in Threads, Wake(t) \/ Interrupt(t) PROVE RingInv'
  <2>1. UNCHANGED <<store, positions, closed>>
    BY <1>7 DEF Wake, Interrupt
  <2>2. CASE Wake(t)
    <3>1. /\ pending' \in [Threads -> Calls]
          /\ \A u \in Threads : pending'[u].op \in Writing =>
                                  pending'[u].off < Len(pending'[u].data)
      BY <2>2 DEF Wake, RingInv, RingOK, Calls
    <3> QED BY <2>1, <3>1, IdleRing
  <2>3. CASE Interrupt(t)
    <3>1. Return(t, "interrupted", <<>>, pending[t].off)
      BY <2>3 DEF Interrupt
    <3> QED BY <2>1, <3>1, ReturnType, IdleRing
  <2> QED BY <1>7, <2>2, <2>3
<1>8. CASE InClose \/ OutClose
  <2>1. UNCHANGED <<store, positions, calls>>
        /\ inputStreamClosed' \in BOOLEAN /\ outputStreamClosed' \in BOOLEAN
    BY <1>8 DEF InClose, OutClose, RingInv, RingOK
  <2>2. RingOK'
    BY <2>1 DEF RingInv, RingOK, store, positions, calls
  <2> QED BY <2>1, <2>2, SameRing DEF RingInv
<1>9. CASE Clear
  <2>1. /\ readPosition' = 0 /\ writePosition' = 0 /\ markPosition' = 0
        /\ UNCHANGED <<buffer, length, markSize, pending>>
        /\ inputStreamClosed' \in BOOLEAN /\ outputStreamClosed' \in BOOLEAN
    BY <1>9 DEF Clear, calls
  <2>2. RingOK'
    BY <1>0, <2>1 DEF RingInv, RingOK
  <2>3. available' = 0 /\ marked' = 0 /\ spaceLeft' = length - 1
    BY <1>0, <2>1 DEF available, marked, spaceLeft, Span
  <2>4. Conservation' /\ MarkBound'
    BY <1>0, <2>1, <2>3 DEF RingInv, RingOK, Conservation, MarkBound
  <2> QED BY <2>2, <2>4 DEF RingInv
<1>10. CASE UNCHANGED vars
  <2>1. UNCHANGED <<store, positions, closed>> /\ UNCHANGED pending
    BY <1>10 DEF vars, calls
  <2> QED BY <2>1, IdleRing DEF RingInv, RingOK
<1> QED BY <1>1, <1>2, <1>3, <1>4, <1>5, <1>6, <1>7, <1>8, <1>9, <1>10
        DEF Next, ReaderStep, WriterStep

\* In every execution the ring is well formed and its three arcs add up.
THEOREM RingAlwaysValid == Spec => []RingInv
BY InitRing, NextRing, PTL DEF Spec

\* Type correctness (CircularByteBuffer.java:16-36).
THEOREM TypeCorrect == Spec => []TypeOK
<1>1. RingInv /\ KindOK => TypeOK
  BY DEF RingInv, TypeOK
<1>2. Init => KindOK
  BY DEF Init, KindOK
<1>3. KindOK /\ [Next]_vars => KindOK'
  BY DEF Next, vars, kind, KindOK
<1> QED BY <1>1, <1>2, <1>3, RingAlwaysValid, PTL DEF Spec

\* available() + marked() + spaceLeft() is one less than the length of the array.
THEOREM ArcsAddUp == Spec => []Conservation
<1>1. RingInv => Conservation
  BY DEF RingInv
<1> QED BY <1>1, RingAlwaysValid, PTL

\* No mark ever takes the last free byte.
THEOREM MarksLeaveRoom == Spec => []MarkBound
<1>1. RingInv => MarkBound
  BY DEF RingInv
<1> QED BY <1>1, RingAlwaysValid, PTL

\* A reader and a writer never wait for each other: with nothing to read the
\* only kept bytes are the marked ones, and those leave a byte to write.
THEOREM NeverMutuallyBlocked == Spec => []NoMutualBlock
<1>1. RingInv => NoMutualBlock
  <2> SUFFICES ASSUME RingInv, available = 0, spaceLeft = 0 PROVE FALSE
    BY DEF NoMutualBlock
  <2>1. length \in Nat /\ marked \in Nat /\ markSize \in Nat
    BY LengthsAreNat DEF RingInv, RingOK, marked, Span
  <2> QED BY <2>1 DEF RingInv, Conservation, MarkBound
<1> QED BY <1>1, RingAlwaysValid, PTL

\* All of it: the ring is sound in every state (CircularByteBuffer.java:39-464).
THEOREM RingIsSound == Spec => []RingSafe
<1>1. TypeOK /\ Conservation /\ MarkBound /\ NoMutualBlock => RingSafe
  BY DEF RingSafe
<1> QED BY <1>1, TypeCorrect, ArcsAddUp, MarksLeaveRoom, NeverMutuallyBlocked, PTL

-----------------------------------------------------------------------------
\* The calls: a reader reads and a writer writes, a read asks for a byte at
\* least and nothing of it is done before it ends, a byte is written whole.
Reading == {"read", "readByte", "skip"}
CallOK(t, p) ==
  /\ p.op = "none" => p = Idle
  /\ p.op \in Reading => t \in Readers /\ p.off = 0 /\ p.len > 0
  /\ p.op = "readByte" => p.len = 1
  /\ p.op \in Writing => t \in Writers
  /\ p.op = "writeByte" => p.off = 0 /\ Len(p.data) = 1
CallsOK == \A t \in Threads : CallOK(t, pending[t])

\* One try of writing a byte writes it or leaves it to be written.
LEMMA ByteWrittenWhole ==
  ASSUME RingInv, NEW w \in Threads, pending[w].op = "writeByte",
         NEW data \in Seq(Byte), Len(data) = 1, Store(w, data, 0)
  PROVE  Sleep(w, 0) \/ Return(w, "ok", <<>>, 1)
<1>1. PICK n, buf, m, r, k, first, second, to :
        n \in Lengths /\ Stored(w, data, 0, n, buf, m, r, k, first, second, to)
  BY StoreShape
<1>2. first + second \in 0..1
  <2>1. first \in Nat /\ second \in Nat /\ first + second <= Len(data) - 0
    BY <1>1 DEF Stored
  <2> QED BY <2>1
<1>3. CASE first + second = 1
  BY <1>1, <1>3 DEF Stored
<1>4. CASE first + second = 0
  <2>1. 0 + (first + second) = 0
    BY <1>4
  <2> QED BY <1>1, <1>4, <2>1 DEF Stored
<1> QED BY <1>2, <1>3, <1>4

\* What a step does to the calls: it changes the call of one thread at most.
LEMMA InitCalls == Init => CallsOK
  BY DEF Init, CallsOK, CallOK, Idle, Reading, Writing

LEMMA NextCalls == RingInv /\ CallsOK /\ [Next]_vars => CallsOK'
<1> SUFFICES ASSUME RingInv, CallsOK, [Next]_vars PROVE CallsOK'
  OBVIOUS
<1>0. pending \in [Threads -> Calls]
  BY DEF RingInv, RingOK
<1>1. ASSUME NEW t \in Threads, NEW status, NEW data, NEW n, Return(t, status, data, n)
      PROVE  CallsOK'
  <2>1. pending' = [pending EXCEPT ![t] = Idle]
    BY <1>1 DEF Return
  <2>2. CallOK(t, Idle)
    BY DEF CallOK, Idle, Reading, Writing
  <2> QED BY <1>0, <2>1, <2>2 DEF CallsOK
<1>2. ASSUME NEW t \in Threads, NEW call, Begin(t, call), CallOK(t, call)
      PROVE  CallsOK'
  BY <1>0, <1>2 DEF CallsOK, Begin
<1>3. ASSUME NEW t \in Threads, Sleep(t, 0), pending[t].op \in Reading \cup {"writeByte"}
      PROVE  CallsOK'
  <2>1. /\ pending' = [pending EXCEPT ![t].asleep = TRUE, ![t].off = 0]
        /\ CallOK(t, pending[t]) /\ pending[t] \in Calls
    BY <1>0, <1>3 DEF Sleep, CallsOK
  <2>2. CallOK(t, pending'[t])
    BY <1>0, <1>3, <2>1 DEF CallOK, Calls, Idle, Reading, Writing
  <2> QED BY <1>0, <2>1, <2>2 DEF CallsOK
<1>4. ASSUME NEW t \in Threads, NEW off \in Nat, Sleep(t, off), pending[t].op = "write"
      PROVE  CallsOK'
  <2>1. /\ pending' = [pending EXCEPT ![t].asleep = TRUE, ![t].off = off]
        /\ CallOK(t, pending[t]) /\ pending[t] \in Calls
    BY <1>0, <1>4 DEF Sleep, CallsOK
  <2>2. CallOK(t, pending'[t])
    BY <1>0, <1>4, <2>1 DEF CallOK, Calls, Idle, Reading, Writing
  <2> QED BY <1>0, <2>1, <2>2 DEF CallsOK
<1>5. ASSUME NEW r \in Readers, BeginRead(r) \/ BeginReadByte(r) \/ BeginSkip(r)
      PROVE  CallsOK'
  <2>1. PICK op \in Reading, n \in 1..MaxRead :
          Begin(r, Call(op, n, <<>>)) /\ (op = "readByte" => n = 1)
    <3>1. 1 \in 1..MaxRead
      OBVIOUS
    <3> QED BY <1>5, <3>1 DEF BeginRead, BeginReadByte, BeginSkip, Reading
  <2>2. CallOK(r, Call(op, n, <<>>)) /\ r \in Threads
    BY <2>1 DEF CallOK, Call, Reading, Writing, Threads
  <2> QED BY <1>2, <2>1, <2>2
<1>6. ASSUME NEW w \in Writers, BeginWrite(w) \/ BeginWriteByte(w) PROVE CallsOK'
  <2>1. PICK op \in Writing, d \in Seq(Byte) :
          Begin(w, Call(op, 0, d)) /\ (op = "writeByte" => Len(d) = 1)
    <3>1. \A b \in Byte : <<b>> \in Seq(Byte) /\ Len(<<b>>) = 1
      OBVIOUS
    <3> QED BY <1>6, <3>1, ArraysAreSequences DEF BeginWrite, BeginWriteByte, Writing
  <2>2. CallOK(w, Call(op, 0, d)) /\ w \in Threads
    BY <2>1 DEF CallOK, Call, Reading, Writing, Threads
  <2> QED BY <1>2, <2>1, <2>2
<1>7. ASSUME NEW r \in Readers, TryRead(r) \/ TryReadByte(r) \/ TrySkip(r)
      PROVE  CallsOK'
  <2>1. r \in Threads /\ pending[r].op \in Reading
    BY <1>7 DEF Threads, TryRead, TryReadByte, TrySkip, Awake, Reading
  <2>2. CASE \E atEnd : NoData(r, atEnd)
    BY <1>1, <1>3, <2>1, <2>2 DEF NoData
  <2>3. CASE \E n : \E data : Consume(r, n, data)
    BY <1>1, <2>1, <2>3 DEF Consume
  <2> QED BY <1>7, <2>2, <2>3 DEF TryRead, TryReadByte, TrySkip
<1>8. ASSUME NEW w \in Writers, TryWrite(w) \/ TryWriteByte(w) PROVE CallsOK'
  <2> DEFINE p == pending[w]
  <2>1. /\ w \in Threads /\ p \in Calls /\ p.op \in Writing /\ CallOK(w, p)
        /\ p.data \in Seq(Byte) /\ p.off \in Nat /\ p.off < Len(p.data)
    BY <1>8 DEF Threads, RingInv, RingOK, TryWrite, TryWriteByte, Awake,
                Writing, Calls, CallsOK
  <2>2. CASE \E len : Refuse(w, len)
    BY <1>1, <2>1, <2>2 DEF Refuse
  <2>3. CASE TryWrite(w) /\ Store(w, p.data, p.off)
    <3>1. p.op = "write"
      BY <2>3 DEF TryWrite, Awake
    <3>2. PICK n, buf, m, r, k, first, second, to :
            n \in Lengths /\ Stored(w, p.data, p.off, n, buf, m, r, k, first, second, to)
      BY <2>1, <2>3, StoreShape
    <3>3. p.off + (first + second) \in Nat
      <4>1. first \in Nat /\ second \in Nat
        BY <3>2 DEF Stored
      <4> QED BY <2>1, <4>1
    <3>4. \/ \E n1 : Return(w, "ok", <<>>, n1)
          \/ Sleep(w, p.off + (first + second))
      BY <3>2 DEF Stored
    <3> QED BY <1>1, <1>4, <2>1, <3>1, <3>3, <3>4
  <2>4. CASE TryWriteByte(w) /\ Store(w, p.data, 0)
    <3>1. p.op = "writeByte" /\ Len(p.data) = 1
      BY <2>1, <2>4 DEF TryWriteByte, Awake, CallOK
    <3>2. Sleep(w, 0) \/ Return(w, "ok", <<>>, 1)
      BY <2>1, <2>4, <3>1, ByteWrittenWhole
    <3> QED BY <1>1, <1>3, <2>1, <3>1, <3>2
  <2> QED BY <1>8, <2>2, <2>3, <2>4 DEF TryWrite, TryWriteByte
<1>9. ASSUME NEW t \in Threads, Wake(t) PROVE CallsOK'
  <2>1. /\ pending' = [pending EXCEPT ![t].asleep = FALSE]
        /\ CallOK(t, pending[t]) /\ pending[t] \in Calls /\ pending[t].asleep
    BY <1>0, <1>9 DEF Wake, CallsOK
  <2>2. CallOK(t, pending'[t])
    BY <1>0, <2>1 DEF CallOK, Calls, Idle, Reading, Writing
  <2> QED BY <1>0, <2>1, <2>2 DEF CallsOK
<1>10. ASSUME NEW t \in Threads, Interrupt(t) PROVE CallsOK'
  BY <1>1, <1>10 DEF Interrupt
<1>11. CASE UNCHANGED pending
  BY <1>11 DEF CallsOK
<1>12. CASE \/ \E r \in Readers : Mark(r) \/ Reset(r)
            \/ InClose \/ OutClose \/ Clear \/ UNCHANGED vars
  BY <1>11, <1>12 DEF Mark, Reset, InClose, OutClose, Clear, calls, vars
<1> QED BY <1>5, <1>6, <1>7, <1>8, <1>9, <1>10, <1>12 DEF Next, ReaderStep, WriterStep

\* The ring and the calls in every state.
THEOREM CallsAlwaysRight == Spec => [](RingInv /\ CallsOK)
BY InitRing, NextRing, InitCalls, NextCalls, PTL DEF Spec

-----------------------------------------------------------------------------
\* A write of which a part is in a ring that neither blocks nor grows is never
\* refused the rest: what is left of it has room.  The first try may leave a
\* part although all would fit (CircularByteBuffer.java:396); then nothing
\* but another writer could take the room.
OneWriter == \A v, w \in Writers : v = w
Begun(w) == pending[w].op = "write" /\ pending[w].off > 0
RoomForTheRest ==
  ~blockingWrite /\ ~infinite =>
    \A w \in Writers : Begun(w) => Len(pending[w].data) - pending[w].off <= spaceLeft
OverflowInv == RoomForTheRest /\ OverflowIsAllOrNothing

\* A step that takes no room and begins no second try keeps the invariant.
LEMMA RoomKept ==
  ASSUME RingInv, RoomForTheRest, RingInv', UNCHANGED kind,
         ~blockingWrite /\ ~infinite => spaceLeft' >= spaceLeft,
         \A w \in Writers : Begun(w)' => /\ Begun(w)
                                         /\ pending'[w].data = pending[w].data
                                         /\ pending'[w].off = pending[w].off
  PROVE  RoomForTheRest'
<1> SUFFICES ASSUME ~blockingWrite, ~infinite, NEW w \in Writers, Begun(w)'
             PROVE  Len(pending'[w].data) - pending'[w].off <= spaceLeft'
  BY DEF RoomForTheRest, kind
<1>1. Len(pending[w].data) - pending[w].off <= spaceLeft
  BY DEF RoomForTheRest
<1>2. /\ pending[w].data \in Seq(Byte) /\ pending[w].off \in Nat
      /\ spaceLeft \in Int /\ spaceLeft' \in Int
  <2>1. pending[w] \in Calls
    BY DEF RingInv, RingOK, Threads
  <2>2. length \in Nat /\ length' \in Nat
    BY LengthsAreNat DEF RingInv, RingOK
  <2> QED BY SMTT(30), <2>1, <2>2 DEF RingInv, RingOK, Calls, spaceLeft
<1>3. Len(pending[w].data) \in Nat
  BY <1>2
<1> QED BY <1>1, <1>2, <1>3

LEMMA InitOverflow == Init => OverflowInv
  BY DEF Init, OverflowInv, RoomForTheRest, Begun, OverflowIsAllOrNothing, Idle, Nothing, Threads

LEMMA NextOverflow ==
  ASSUME OneWriter
  PROVE  RingInv /\ CallsOK /\ OverflowInv /\ [Next]_vars => OverflowInv'
<1> SUFFICES ASSUME RingInv, CallsOK, RoomForTheRest, OverflowIsAllOrNothing, [Next]_vars
             PROVE  RoomForTheRest' /\ OverflowIsAllOrNothing'
  BY DEF OverflowInv
<1>0. /\ RingInv' /\ UNCHANGED kind
      /\ pending \in [Threads -> Calls] /\ pending' \in [Threads -> Calls]
      /\ length \in Nat /\ length >= 2 /\ Writers \subseteq Threads
  BY NextRing, LengthsAreNat DEF RingInv, RingOK, Next, vars, Threads
<1>1. spaceLeft \in Int /\ spaceLeft' \in Int /\ marked \in Nat /\ available \in Nat
  <2>1. length' \in Nat
    BY <1>0, LengthsAreNat DEF RingInv, RingOK
  <2> QED BY <1>0, <2>1 DEF RingInv, RingOK, spaceLeft, marked, available, Span
<1>2. ASSUME UNCHANGED <<store, positions>> PROVE spaceLeft' >= spaceLeft
  BY <1>1, <1>2 DEF store, positions, spaceLeft
\* What happens to one thread's call and to what it returned.
<1>3. ASSUME NEW t \in Threads, NEW status, NEW data, NEW n,
             Return(t, status, data, n), status = "overflow" => n = 0
      PROVE  /\ \A w \in Writers : Begun(w)' => /\ Begun(w)
                                                /\ pending'[w].data = pending[w].data
                                                /\ pending'[w].off = pending[w].off
             /\ OverflowIsAllOrNothing'
  <2>1. pending' = [pending EXCEPT ![t] = Idle]
    BY <1>3 DEF Return
  <2>2. \A w \in Writers : returned'[w] = returned[w] \/ returned'[w].status # "overflow"
                             \/ returned'[w].n = 0
    BY <1>3 DEF Return
  <2> QED BY <1>0, <2>1, <2>2 DEF Begun, Idle, OverflowIsAllOrNothing
<1>4. ASSUME NEW t \in Threads, NEW off, Sleep(t, off), pending[t].op # "write"
      PROVE  /\ \A w \in Writers : Begun(w)' => /\ Begun(w)
                                                /\ pending'[w].data = pending[w].data
                                                /\ pending'[w].off = pending[w].off
             /\ OverflowIsAllOrNothing'
  BY <1>0, <1>4 DEF Sleep, Begun, Calls, OverflowIsAllOrNothing
<1>5. ASSUME NEW t \in Threads, NEW call, Begin(t, call), call.off = 0
      PROVE  RoomForTheRest' /\ OverflowIsAllOrNothing'
  <2>1. \A w \in Writers : Begun(w)' => /\ Begun(w)
                                        /\ pending'[w].data = pending[w].data
                                        /\ pending'[w].off = pending[w].off
    BY <1>0, <1>5 DEF Begin, Begun
  <2>2. OverflowIsAllOrNothing'
    BY <1>5 DEF Begin, OverflowIsAllOrNothing, Nothing
  <2>3. spaceLeft' >= spaceLeft
    BY <1>2, <1>5 DEF Begin
  <2> QED BY <1>0, <2>1, <2>2, <2>3, RoomKept
<1>6. ASSUME NEW r \in Readers, BeginRead(r) \/ BeginReadByte(r) \/ BeginSkip(r)
      PROVE  RoomForTheRest' /\ OverflowIsAllOrNothing'
  <2>1. r \in Threads /\ \A op, n, d : Call(op, n, d).off = 0
    BY DEF Threads, Call
  <2> QED BY <1>5, <1>6, <2>1 DEF BeginRead, BeginReadByte, BeginSkip
<1>7. ASSUME NEW w \in Writers, BeginWrite(w) \/ BeginWriteByte(w)
      PROVE  RoomForTheRest' /\ OverflowIsAllOrNothing'
  <2>1. w \in Threads /\ \A op, n, d : Call(op, n, d).off = 0
    BY DEF Threads, Call
  <2> QED BY <1>5, <1>7, <2>1 DEF BeginWrite, BeginWriteByte
<1>8. ASSUME NEW r \in Readers, TryRead(r) \/ TryReadByte(r) \/ TrySkip(r)
      PROVE  RoomForTheRest' /\ OverflowIsAllOrNothing'
  <2>1. /\ r \in Threads /\ pending[r].op # "write" /\ pending[r].len \in Nat
        /\ pending[r].len > 0
    <3>1. r \in Threads /\ pending[r] \in Calls /\ CallOK(r, pending[r])
      BY <1>0 DEF Threads, CallsOK
    <3> QED BY <1>8, <3>1 DEF TryRead, TryReadByte, TrySkip, Awake, CallOK, Reading, Calls
  <2>2. CASE NoData(r, "eof") \/ NoData(r, "ok")
    <3>1. UNCHANGED <<store, positions>>
      BY <2>2 DEF NoData
    <3>2. \/ \E status \in {"closed", "eof", "ok"} : Return(r, status, <<>>, 0)
          \/ Sleep(r, 0)
      BY <2>2 DEF NoData
    <3>3. /\ \A w \in Writers : Begun(w)' => /\ Begun(w)
                                             /\ pending'[w].data = pending[w].data
                                             /\ pending'[w].off = pending[w].off
          /\ OverflowIsAllOrNothing'
      BY <1>3, <1>4, <2>1, <3>2
    <3> QED BY <1>0, <1>2, <3>1, <3>3, RoomKept
  <2>3. ASSUME NEW n \in 0..available, NEW data, Consume(r, n, data)
        PROVE  RoomForTheRest' /\ OverflowIsAllOrNothing'
    <3>1. spaceLeft' = spaceLeft + marked + n \/ spaceLeft' = spaceLeft
      BY <2>3, ConsumeArcs DEF Consume
    <3>2. spaceLeft' >= spaceLeft
      BY <1>1, <3>1
    <3>3. Return(r, "ok", data, n)
      BY <2>3 DEF Consume
    <3> QED BY <1>0, <1>3, <2>1, <3>2, <3>3, RoomKept
  <2>4. MinOf(pending[r].len, available) \in 0..available
    BY <1>1, <2>1 DEF MinOf
  <2>5. available > 0 => 1 \in 0..available
    BY <1>1
  <2> QED BY <1>8, <2>2, <2>3, <2>4, <2>5 DEF TryRead, TryReadByte, TrySkip, Consume
<1>9. ASSUME NEW r \in Readers, Mark(r) \/ Reset(r)
      PROVE  RoomForTheRest' /\ OverflowIsAllOrNothing'
  <2>1. UNCHANGED calls /\ UNCHANGED store
    BY <1>9 DEF Mark, Reset
  <2>2. spaceLeft' >= spaceLeft
    <3>1. CASE Reset(r)
      BY <1>1, <3>1 DEF Reset, store, spaceLeft
    <3>2. CASE Mark(r)
      <4>1. /\ length' = length /\ writePosition' = writePosition
            /\ readPosition' = readPosition /\ markPosition' = readPosition
        BY <3>2 DEF Mark, store
      <4>2. /\ readPosition \in 0..length - 1 /\ writePosition \in 0..length - 1
            /\ marked + available + spaceLeft = length - 1
        BY <1>1 DEF RingInv, RingOK, Conservation
      <4>3. spaceLeft' = length - 1 - available
        BY <1>0, <4>1, <4>2 DEF available, spaceLeft, Span
      <4> QED BY <1>0, <1>1, <4>2, <4>3
    <3> QED BY <1>9, <3>1, <3>2
  <2>3. /\ OverflowIsAllOrNothing'
        /\ \A w \in Writers : Begun(w)' => /\ Begun(w)
                                           /\ pending'[w].data = pending[w].data
                                           /\ pending'[w].off = pending[w].off
    BY <2>1 DEF calls, Begun, OverflowIsAllOrNothing
  <2> QED BY <1>0, <2>2, <2>3, RoomKept
<1>10. ASSUME NEW w \in Writers, TryWrite(w) \/ TryWriteByte(w)
       PROVE  RoomForTheRest' /\ OverflowIsAllOrNothing'
  <2> DEFINE p == pending[w]
  <2>1. /\ w \in Threads /\ p \in Calls /\ p.op \in Writing /\ CallOK(w, p)
        /\ p.data \in Seq(Byte) /\ p.off \in Nat /\ p.off < Len(p.data)
        /\ Len(p.data) \in Nat
    BY SMTT(30), <1>0, <1>10 DEF RingInv, RingOK, TryWrite, TryWriteByte, Awake,
                Writing, Calls, CallsOK
  <2>2. CASE TryWrite(w) /\ Refuse(w, Len(p.data) - p.off)
    <3>1. UNCHANGED <<store, positions>>
      BY <2>2 DEF Refuse
    <3>2. PICK status \in {"closed", "overflow"} :
            /\ Return(w, status, <<>>, p.off)
            /\ status = "overflow" => Overflows(Len(p.data) - p.off)
      BY <2>2 DEF Refuse
    <3>3. status = "overflow" => p.off = 0
      <4> SUFFICES ASSUME status = "overflow", p.off # 0 PROVE FALSE
        OBVIOUS
      <4>1. ~blockingWrite /\ ~infinite /\ spaceLeft < Len(p.data) - p.off
        BY <3>2 DEF Overflows
      <4>2. Begun(w)
        BY <2>1, <2>2 DEF Begun, TryWrite, Awake
      <4>3. Len(p.data) - p.off <= spaceLeft
        BY <4>1, <4>2 DEF RoomForTheRest
      <4> QED BY <1>1, <2>1, <4>1, <4>3
    <3> QED BY <1>0, <1>2, <1>3, <2>1, <3>1, <3>2, <3>3, RoomKept
  <2>3. CASE TryWriteByte(w) /\ Refuse(w, 1)
    <3>1. UNCHANGED <<store, positions>>
      BY <2>3 DEF Refuse
    <3>2. p.off = 0
      BY <2>1, <2>3 DEF TryWriteByte, Awake, CallOK
    <3>3. \E status : Return(w, status, <<>>, p.off)
      BY <2>3 DEF Refuse
    <3> QED BY <1>0, <1>2, <1>3, <2>1, <3>1, <3>2, <3>3, RoomKept
  <2>4. ASSUME NEW off \in Nat, off < Len(p.data), Store(w, p.data, off),
               off = p.off
        PROVE  RoomForTheRest' /\ OverflowIsAllOrNothing'
    <3>1. PICK n, buf, m, r, k, first, second, to :
            /\ n \in Lengths /\ GrowsTo(n, Len(p.data) - off)
            /\ Stored(w, p.data, off, n, buf, m, r, k, first, second, to)
      BY <2>1, <2>4, StoreShape
    <3>2. CASE Return(w, "ok", <<>>, Len(p.data))
      <4>1. /\ OverflowIsAllOrNothing'
            /\ \A v \in Writers : Begun(v)' => Begun(v) /\ pending'[v] = pending[v]
        <5>1. pending' = [pending EXCEPT ![w] = Idle]
          BY <3>2 DEF Return
        <5> QED BY <1>0, <1>3, <2>1, <3>2, <5>1 DEF Begun, Idle
      <4>2. ASSUME NEW v \in Writers PROVE ~Begun(v)'
        <5>1. v = w
          BY DEF OneWriter
        <5> QED BY <1>0, <2>1, <3>2, <5>1 DEF Begun, Return, Idle
      <4> QED BY <4>1, <4>2 DEF RoomForTheRest
    <3>3. CASE Sleep(w, off + (first + second))
      <4>1. OverflowIsAllOrNothing'
        BY <3>3 DEF Sleep, OverflowIsAllOrNothing
      <4>2. ASSUME ~blockingWrite', ~infinite', NEW v \in Writers, Begun(v)'
            PROVE  Len(pending'[v].data) - pending'[v].off <= spaceLeft'
        <5>1. v = w /\ ~blockingWrite /\ ~infinite
          BY <1>0, <4>2 DEF OneWriter, kind
        <5>2. pending'[w].data = p.data /\ pending'[w].off = off + (first + second)
          BY <1>0, <2>1, <3>3 DEF Sleep, Calls
        <5>3. n = length /\ ~(spaceLeft < Len(p.data) - off)
          BY <2>4, <3>1, <5>1 DEF GrowsTo, Store, Overflows
        <5>4. spaceLeft' = length - 1 - kept - first - second /\ kept = marked + available
              /\ first \in Nat /\ second \in Nat
          BY <3>1, <5>3 DEF Stored
        <5>5. spaceLeft = length - 1 - kept
          BY <1>0, <1>1, <5>4 DEF RingInv, Conservation
        <5>6. spaceLeft' = spaceLeft - (first + second)
          BY <1>1, <5>4, <5>5
        <5> QED BY <1>1, <2>1, <5>1, <5>2, <5>3, <5>4, <5>6
      <4> QED BY <4>1, <4>2 DEF RoomForTheRest
    <3> QED BY <3>1, <3>2, <3>3 DEF Stored
  <2>5. CASE TryWriteByte(w) /\ Store(w, p.data, 0)
    <3>1. p.off = 0
      BY <2>1, <2>5 DEF TryWriteByte, Awake, CallOK
    <3> QED BY <2>1, <2>4, <2>5, <3>1
  <2> QED BY <1>10, <2>1, <2>2, <2>3, <2>4, <2>5 DEF TryWrite, TryWriteByte
<1>11. ASSUME NEW t \in Threads, Wake(t)
       PROVE  RoomForTheRest' /\ OverflowIsAllOrNothing'
  <2>1. /\ OverflowIsAllOrNothing'
        /\ \A w \in Writers : Begun(w)' => /\ Begun(w)
                                           /\ pending'[w].data = pending[w].data
                                           /\ pending'[w].off = pending[w].off
    BY <1>0, <1>11 DEF Wake, Calls, Begun, OverflowIsAllOrNothing
  <2>2. spaceLeft' >= spaceLeft
    BY <1>2, <1>11 DEF Wake
  <2> QED BY <1>0, <2>1, <2>2, RoomKept
<1>12. ASSUME NEW t \in Threads, Interrupt(t)
       PROVE  RoomForTheRest' /\ OverflowIsAllOrNothing'
  BY <1>0, <1>2, <1>3, <1>12, RoomKept DEF Interrupt
<1>13. CASE InClose \/ OutClose \/ UNCHANGED vars
  <2>1. UNCHANGED <<store, positions, calls>>
    BY <1>13 DEF InClose, OutClose, vars
  <2>2. /\ OverflowIsAllOrNothing'
        /\ \A w \in Writers : Begun(w)' => /\ Begun(w)
                                           /\ pending'[w].data = pending[w].data
                                           /\ pending'[w].off = pending[w].off
    BY <2>1 DEF calls, Begun, OverflowIsAllOrNothing
  <2> QED BY <1>0, <1>2, <2>1, <2>2, RoomKept
<1>14. CASE Clear
  <2>1. /\ OverflowIsAllOrNothing'
        /\ \A w \in Writers : Begun(w)' => /\ Begun(w)
                                           /\ pending'[w].data = pending[w].data
                                           /\ pending'[w].off = pending[w].off
    BY <1>14 DEF Clear, calls, Begun, OverflowIsAllOrNothing
  <2>2. spaceLeft' = length - 1
    BY <1>0, <1>14 DEF Clear, spaceLeft
  <2>3. spaceLeft' >= spaceLeft
    BY <1>0, <1>1, <2>2 DEF RingInv, Conservation
  <2> QED BY <1>0, <2>1, <2>3, RoomKept
<1> QED BY <1>6, <1>7, <1>8, <1>9, <1>10, <1>11, <1>12, <1>13, <1>14
        DEF Next, ReaderStep, WriterStep

\* With one writer, and the application has one (SoundPlay.WriteAudio), a write
\* that throws BufferOverflowException has stored nothing.
THEOREM OverflowStoresNothing == OneWriter => (Spec => []OverflowIsAllOrNothing)
<1> SUFFICES ASSUME OneWriter PROVE Spec => []OverflowIsAllOrNothing
  OBVIOUS
<1>1. RingInv /\ CallsOK /\ OverflowInv /\ [Next]_vars => OverflowInv'
  BY NextOverflow
<1>2. OverflowInv => OverflowIsAllOrNothing
  BY DEF OverflowInv
<1> QED BY <1>1, <1>2, InitOverflow, CallsAlwaysRight, PTL DEF Spec

-----------------------------------------------------------------------------
\* The ring implements ByteStream.  What the abstract stream sees of it: the
\* bytes from the mark to the write position and, of every call, all but
\* whether its thread sleeps.
KeptBytes == [i \in 1..kept |-> ByteAt(markPosition, i - 1)]
Request(p) == [op |-> p.op, len |-> p.len, data |-> p.data, off |-> p.off]
Requests == [t \in Threads |-> Request(pending[t])]

\* The byte i places after place m of an array of length n.
At(n, buf, m, i) == IF m + i < n THEN buf[m + i] ELSE buf[m + i - n]

\* The kept bytes are a sequence, the first marked of them are read.
LEMMA KeptBytesSeq ==
  ASSUME RingInv
  PROVE  /\ KeptBytes \in Seq(Byte) /\ Len(KeptBytes) = kept
         /\ kept = marked + available /\ marked \in Nat /\ available \in Nat
         /\ kept \in Nat /\ kept < length /\ length \in Nat
         /\ \A i \in 1..kept : KeptBytes[i] = ByteAt(markPosition, i - 1)
<1>1. length \in Nat /\ length >= 2
  BY LengthsAreNat DEF RingInv, RingOK
<1>2. /\ kept = marked + available /\ marked \in Nat /\ available \in Nat
      /\ kept \in Nat /\ kept < length
  BY <1>1 DEF RingInv, RingOK, Conservation, kept, marked, available, spaceLeft, Span
<1>3. ASSUME NEW i \in 1..kept PROVE ByteAt(markPosition, i - 1) \in Byte
  <2>1. /\ markPosition \in 0..length - 1 /\ buffer \in [0..length - 1 -> Byte]
        /\ i - 1 \in 0..length - 1
    BY <1>1, <1>2 DEF RingInv, RingOK
  <2> QED BY <1>1, <2>1 DEF ByteAt
<1>4. KeptBytes \in [1..kept -> Byte]
  BY <1>3 DEF KeptBytes
<1> QED BY <1>1, <1>2, <1>4 DEF KeptBytes

\* The same byte, counted from another place.
LEMMA SameByte ==
  ASSUME RingInv, NEW p \in 0..length - 1, NEW q \in 0..length - 1,
         NEW i \in Nat, Span(p, q) + i < length
  PROVE  ByteAt(q, i) = ByteAt(p, Span(p, q) + i)
<1>1. length \in Nat /\ length >= 2
  BY LengthsAreNat DEF RingInv, RingOK
<1> QED BY <1>1 DEF Span, ByteAt

\* A step that moves nothing, for the stream.
LEMMA SameBytes ==
  ASSUME UNCHANGED <<store, positions>>
  PROVE  UNCHANGED Stream!stream
  BY DEF store, positions, Stream!stream, kept, marked, Span, ByteAt

\* Returning is answering; sleeping is not seen, unless more is written.
LEMMA AnswerStep ==
  ASSUME RingInv, NEW t \in Threads, NEW status, NEW data, NEW n,
         Return(t, status, data, n)
  PROVE  Stream!Answer(t, status, data, n)
<1>1. Requests' = [Requests EXCEPT ![t] = Stream!None]
  <2>1. Request(Idle) = Stream!None
    BY DEF Request, Idle, Stream!None, Stream!Asked
  <2> QED BY <2>1 DEF Return, Requests, RingInv, RingOK
<1> QED BY <1>1 DEF Return, Stream!Answer, Requests, Request

LEMMA SleepStep ==
  ASSUME RingInv, NEW t \in Threads, NEW off, Sleep(t, off)
  PROVE  /\ Requests' = [Requests EXCEPT ![t].off = off]
         /\ off = pending[t].off => Requests' = Requests
  BY DEF Sleep, Requests, Request, RingInv, RingOK, Calls

\* A call begins: the abstract stream is asked.
LEMMA AskStep ==
  ASSUME RingInv, NEW t \in Threads, NEW call, Begin(t, call)
  PROVE  /\ Requests[t] = Stream!None /\ Requests' = [Requests EXCEPT ![t] = Request(call)]
         /\ returned' = [returned EXCEPT ![t] = [status |-> "none", data |-> <<>>, n |-> 0]]
         /\ UNCHANGED <<Stream!stream, Stream!flags>>
<1>1. UNCHANGED Stream!stream
  BY SameBytes DEF Begin
<1>2. UNCHANGED Stream!flags
  BY DEF Begin, closed, Stream!flags
<1>3. Requests[t] = Stream!None
  <2>1. Request(Idle) = Stream!None
    BY DEF Request, Idle, Stream!None, Stream!Asked
  <2> QED BY <2>1 DEF Begin, Requests
<1>4. Requests' = [Requests EXCEPT ![t] = Request(call)]
  BY DEF Begin, Requests, RingInv, RingOK
<1> QED BY <1>1, <1>2, <1>3, <1>4 DEF Begin, Nothing

LEMMA IsAsk ==
  ASSUME NEW t, Requests[t] = Stream!None,
         \/ /\ t \in Readers
            /\ \E op \in {"read", "readByte", "skip"}, n \in 1..MaxRead :
                 Requests' = [Requests EXCEPT ![t] = Stream!Asked(op, n, <<>>)]
         \/ /\ t \in Writers
            /\ \E op \in {"write", "writeByte"}, d \in Stream!Arrays :
                 Requests' = [Requests EXCEPT ![t] = Stream!Asked(op, 0, d)],
         returned' = [returned EXCEPT ![t] = [status |-> "none", data |-> <<>>, n |-> 0]],
         UNCHANGED <<Stream!stream, Stream!flags>>
  PROVE  Stream!Ask(t)
  BY DEF Stream!Ask, Requests, Request

LEMMA ReadAsks ==
  ASSUME RingInv, NEW r \in Readers, BeginRead(r) \/ BeginReadByte(r) \/ BeginSkip(r)
  PROVE  Stream!Ask(r)
<1>1. PICK op \in {"read", "readByte", "skip"}, n \in 1..MaxRead : Begin(r, Call(op, n, <<>>))
  <2>1. 1 \in 1..MaxRead
    OBVIOUS
  <2> QED BY <2>1 DEF BeginRead, BeginReadByte, BeginSkip
<1>2. Request(Call(op, n, <<>>)) = Stream!Asked(op, n, <<>>)
  BY DEF Request, Call, Stream!Asked
<1>3. r \in Threads
  BY DEF Threads
<1>4. /\ Requests[r] = Stream!None
      /\ Requests' = [Requests EXCEPT ![r] = Stream!Asked(op, n, <<>>)]
      /\ returned' = [returned EXCEPT ![r] = [status |-> "none", data |-> <<>>, n |-> 0]]
      /\ UNCHANGED <<Stream!stream, Stream!flags>>
  BY <1>1, <1>2, <1>3, AskStep
<1> QED BY <1>4, IsAsk

LEMMA WriteAsks ==
  ASSUME RingInv, NEW w \in Writers, BeginWrite(w) \/ BeginWriteByte(w)
  PROVE  Stream!Ask(w)
<1>1. PICK op \in {"write", "writeByte"}, d \in Arrays : Begin(w, Call(op, 0, d))
  <2>1. \A b \in Byte : <<b>> \in Arrays
    <3>1. \A b \in Byte : <<b>> \in [1..1 -> Byte]
      OBVIOUS
    <3>2. 1 \in 1..MaxWrite
      OBVIOUS
    <3> QED BY <3>1, <3>2 DEF Arrays
  <2> QED BY <2>1 DEF BeginWrite, BeginWriteByte
<1>2. Request(Call(op, 0, d)) = Stream!Asked(op, 0, d)
  BY DEF Request, Call, Stream!Asked
<1>3. w \in Threads /\ d \in Stream!Arrays
  BY DEF Threads, Arrays, Stream!Arrays
<1>4. /\ Requests[w] = Stream!None
      /\ Requests' = [Requests EXCEPT ![w] = Stream!Asked(op, 0, d)]
      /\ returned' = [returned EXCEPT ![w] = [status |-> "none", data |-> <<>>, n |-> 0]]
      /\ UNCHANGED <<Stream!stream, Stream!flags>>
  BY <1>1, <1>2, <1>3, AskStep
<1> QED BY <1>3, <1>4, IsAsk

\* A part of a sequence of bytes, place by place.
LEMMA PartOf ==
  ASSUME NEW s \in Seq(Byte), NEW a \in Nat, NEW b \in Nat, a + b <= Len(s)
  PROVE  SubSeq(s, a + 1, a + b) = [i \in 1..b |-> s[a + i]]
<1>1. Len(s) \in Nat /\ \A i \in 1..Len(s) : s[i] \in Byte
  OBVIOUS
<1>2. \A i \in a + 1 .. a + b : s[i] \in Byte
  BY <1>1
<1>3. /\ SubSeq(s, a + 1, a + b) \in Seq(Byte)
      /\ Len(SubSeq(s, a + 1, a + b)) = IF a + 1 <= a + b THEN (a + b) - (a + 1) + 1 ELSE 0
      /\ \A i \in 1..(a + b) - (a + 1) + 1 : SubSeq(s, a + 1, a + b)[i] = s[(a + 1) + i - 1]
  BY <1>2, SubSeqProperties
<1>4. (IF a + 1 <= a + b THEN (a + b) - (a + 1) + 1 ELSE 0) = b
  OBVIOUS
<1>5. (a + b) - (a + 1) + 1 = b /\ \A i \in 1..b : (a + 1) + i - 1 = a + i
  OBVIOUS
<1>6. Len(SubSeq(s, a + 1, a + b)) = b
  BY <1>3, <1>4
<1>7. SubSeq(s, a + 1, a + b) \in [1..b -> Byte]
  BY <1>3, <1>6, LenProperties
<1>8. \A i \in 1..b : SubSeq(s, a + 1, a + b)[i] = s[a + i]
  BY <1>3, <1>5
<1> QED BY <1>7, <1>8

\* When the mark moves d places on, the stream forgets its first d bytes.
LEMMA MarkMoves ==
  ASSUME RingInv, UNCHANGED store, NEW p \in 0..length - 1, markPosition' = p,
         NEW d \in 0..kept, Span(markPosition, p) = d, Span(p, writePosition) = kept - d
  PROVE  KeptBytes' = SubSeq(KeptBytes, d + 1, Len(KeptBytes))
<1>1. /\ KeptBytes \in Seq(Byte) /\ Len(KeptBytes) = kept
      /\ kept \in Nat /\ kept < length /\ length \in Nat
      /\ \A i \in 1..kept : KeptBytes[i] = ByteAt(markPosition, i - 1)
  BY KeptBytesSeq
<1>2. kept' = kept - d
  BY DEF store, kept, Span
<1>3. ASSUME NEW i \in 1..kept - d
      PROVE  ByteAt(markPosition, i - 1)' = KeptBytes[d + i] /\ d + i \in 1..kept
  <2>1. ByteAt(markPosition, i - 1)' = ByteAt(p, i - 1)
    BY DEF store, ByteAt
  <2>2. i - 1 \in Nat /\ d + (i - 1) < length /\ d + i \in 1..kept
    BY <1>1
  <2>3. ByteAt(p, i - 1) = ByteAt(markPosition, d + (i - 1))
    <3>1. markPosition \in 0..length - 1
      BY DEF RingInv, RingOK
    <3> QED BY <3>1, <2>2, SameByte
  <2>4. KeptBytes[d + i] = ByteAt(markPosition, d + i - 1)
    BY <1>1, <2>2
  <2>5. d + i - 1 = d + (i - 1)
    BY <1>1
  <2> QED BY <2>1, <2>2, <2>3, <2>4, <2>5
<1>4. KeptBytes' = [i \in 1..kept - d |-> KeptBytes[d + i]]
  BY <1>2, <1>3 DEF KeptBytes
<1>5. d \in Nat /\ kept - d \in Nat /\ d + (kept - d) = Len(KeptBytes)
  BY <1>1
<1>6. SubSeq(KeptBytes, d + 1, d + (kept - d)) = [i \in 1..kept - d |-> KeptBytes[d + i]]
  BY <1>1, <1>5, PartOf
<1> QED BY <1>4, <1>5, <1>6

\* A try that finds bytes delivers the next ones, and moves the mark like Pass.
LEMMA ConsumeDelivers ==
  ASSUME RingInv, NEW n \in 1..available, ensureMark(Advanced(n)), UNCHANGED store
  PROVE  IF marked + n > markSize
           THEN /\ KeptBytes' = SubSeq(KeptBytes, marked + n + 1, Len(KeptBytes))
                /\ marked' = 0 /\ markSize' = 0
           ELSE marked' = marked + n /\ UNCHANGED <<KeptBytes, markSize>>
<1>1. kept = marked + available /\ marked \in Nat /\ available \in Nat
  BY KeptBytesSeq
<1>2. /\ Advanced(n) \in 0..length - 1
      /\ Span(markPosition, Advanced(n)) = marked + n
      /\ readPosition' = Advanced(n) /\ available' = available - n
      /\ \/ /\ marked + n > markSize /\ markPosition' = Advanced(n) /\ markSize' = 0
            /\ marked' = 0
         \/ /\ marked + n <= markSize /\ UNCHANGED <<markPosition, markSize>>
            /\ marked' = marked + n
  <2>1. n \in 0..available
    BY <1>1
  <2> QED BY <2>1, ConsumeArcs
<1>3. CASE marked + n > markSize
  <2>1. markPosition' = Advanced(n) /\ markSize' = 0 /\ marked' = 0
    BY <1>1, <1>2, <1>3 DEF RingInv, RingOK
  <2>2. available' = Span(Advanced(n), writePosition)
    BY <1>2 DEF store, available, Span
  <2>3. marked + n \in 0..kept /\ kept - (marked + n) = available - n
    BY <1>1
  <2>4. KeptBytes' = SubSeq(KeptBytes, marked + n + 1, Len(KeptBytes))
    BY <1>2, <2>1, <2>2, <2>3, MarkMoves
  <2> QED BY <1>3, <2>1, <2>4
<1>4. CASE ~(marked + n > markSize)
  <2>1. UNCHANGED <<markPosition, markSize>> /\ marked' = marked + n
    BY <1>2, <1>4
  <2>2. KeptBytes' = KeptBytes
    BY <2>1 DEF KeptBytes, store, kept, Span, ByteAt
  <2> QED BY <1>4, <2>1, <2>2
<1> QED BY <1>3, <1>4

\* What a read copies out are the first unread bytes.
LEMMA NextUnread ==
  ASSUME RingInv, NEW n \in 1..available
  PROVE  /\ [i \in 1..n |-> ByteAt(readPosition, i - 1)] = SubSeq(KeptBytes, marked + 1, marked + n)
         /\ <<buffer[readPosition]>> = SubSeq(KeptBytes, marked + 1, marked + 1)
<1>1. /\ KeptBytes \in Seq(Byte) /\ Len(KeptBytes) = kept
      /\ kept = marked + available /\ marked \in Nat /\ available \in Nat
      /\ kept \in Nat /\ kept < length /\ length \in Nat
      /\ \A i \in 1..kept : KeptBytes[i] = ByteAt(markPosition, i - 1)
  BY KeptBytesSeq
<1>2. ASSUME NEW i \in 1..available
      PROVE  ByteAt(readPosition, i - 1) = KeptBytes[marked + i]
  <2>1. i - 1 \in Nat /\ marked + (i - 1) < length /\ marked + i \in 1..kept
    BY <1>1
  <2>2. markPosition \in 0..length - 1 /\ readPosition \in 0..length - 1
        /\ Span(markPosition, readPosition) = marked
    BY DEF RingInv, RingOK, marked
  <2>3. ByteAt(readPosition, i - 1) = ByteAt(markPosition, marked + (i - 1))
    BY <2>1, <2>2, SameByte
  <2>4. marked + i - 1 = marked + (i - 1)
    BY <1>1
  <2> QED BY <1>1, <2>1, <2>3, <2>4
<1>3. ASSUME NEW k \in 1..available
      PROVE  SubSeq(KeptBytes, marked + 1, marked + k) = [i \in 1..k |-> KeptBytes[marked + i]]
  <2>1. k \in Nat /\ marked + k <= Len(KeptBytes)
    BY <1>1
  <2> QED BY <1>1, <2>1, PartOf
<1>4. [i \in 1..n |-> ByteAt(readPosition, i - 1)] = SubSeq(KeptBytes, marked + 1, marked + n)
  <2>1. \A i \in 1..n : i \in 1..available
    BY <1>1
  <2> QED BY <1>2, <1>3, <2>1
<1>5. <<buffer[readPosition]>> = SubSeq(KeptBytes, marked + 1, marked + 1)
  <2>1. 1 \in 1..available
    BY <1>1
  <2>2. ByteAt(readPosition, 1 - 1) = buffer[readPosition]
    BY <1>1 DEF ByteAt, RingInv, RingOK
  <2>3. KeptBytes[marked + 1] = buffer[readPosition]
    BY <1>2, <2>1, <2>2
  <2>4. SubSeq(KeptBytes, marked + 1, marked + 1) = [i \in 1..1 |-> KeptBytes[marked + i]]
    BY <1>3, <2>1
  <2>5. <<buffer[readPosition]>> = [i \in 1..1 |-> KeptBytes[marked + i]]
    BY <2>3
  <2> QED BY <2>4, <2>5
<1> QED BY <1>4, <1>5

-----------------------------------------------------------------------------
\* A write leaves the k kept bytes alone and puts its own behind them.
Fits(n, m, w, off, first, second, k) ==
  /\ n \in Nat /\ m \in 0..n - 1 /\ w \in 0..n - 1 /\ off \in Nat
  /\ first \in Nat /\ second \in Nat /\ k \in Nat
  /\ first <= n - w /\ second < n /\ (second > 0 => first = n - w)
  /\ Dist(n, m, w) = k /\ k + first + second <= n - 1
Appends(n, m, new, buf, data, off, c, k) ==
  /\ \A i \in 0..k - 1 : At(n, new, m, i) = At(n, buf, m, i)
  /\ \A i \in 0..c - 1 : At(n, new, m, k + i) = data[off + i + 1]

LEMMA OverwrittenBytes ==
  ASSUME NEW n, NEW m, NEW w, NEW buf, NEW data, NEW off, NEW first, NEW second, NEW k,
         Fits(n, m, w, off, first, second, k)
  PROVE  Appends(n, m, Overwritten(n, buf, w, first, second, data, off), buf, data, off,
                 first + second, k)
<1> DEFINE new == Overwritten(n, buf, w, first, second, data, off)
<1>0. /\ n \in Nat /\ m \in 0..n - 1 /\ w \in 0..n - 1 /\ off \in Nat
      /\ first \in Nat /\ second \in Nat /\ k \in Nat
      /\ first <= n - w /\ second < n /\ (second > 0 => first = n - w)
      /\ k = Dist(n, m, w) /\ k + first + second <= n - 1
  BY DEF Fits
<1>1. ASSUME NEW q \in 0..n - 1
      PROVE  /\ ~(w <= q /\ q < w + first) /\ ~(q < second) => new[q] = buf[q]
             /\ w <= q /\ q < w + first => new[q] = data[off + q - w + 1]
             /\ ~(w <= q /\ q < w + first) /\ q < second => new[q] = data[off + first + q + 1]
  BY DEF Overwritten
<1> HIDE DEF new
<1>2. ASSUME NEW i \in 0..k - 1 PROVE At(n, new, m, i) = At(n, buf, m, i)
  <2>1. CASE m + i < n
    <3>1. m + i \in 0..n - 1 /\ ~(w <= m + i /\ m + i < w + first) /\ ~(m + i < second)
      BY <1>0, <2>1 DEF Dist
    <3> QED BY <1>1, <2>1, <3>1 DEF At
  <2>2. CASE ~(m + i < n)
    <3>1. /\ m + i - n \in 0..n - 1 /\ ~(w <= m + i - n /\ m + i - n < w + first)
          /\ ~(m + i - n < second)
      BY <1>0, <2>2 DEF Dist
    <3> QED BY <1>1, <2>2, <3>1 DEF At
  <2> QED BY <2>1, <2>2
<1>3. \A i \in 0..(first + second) - 1 : At(n, new, m, k + i) = data[off + i + 1]
  <2> TAKE i \in 0..(first + second) - 1
  <2> DEFINE q == IF m + (k + i) < n THEN m + (k + i) ELSE m + (k + i) - n
  <2>1. At(n, new, m, k + i) = new[q]
    BY DEF At
  <2>2. CASE i < first
    <3>1. q = w + i
      BY <1>0, <2>2 DEF Dist
    <3> HIDE DEF q
    <3>2. q \in 0..n - 1 /\ w <= q /\ q < w + first /\ off + q - w + 1 = off + i + 1
      BY <1>0, <2>2, <3>1
    <3>3. new[q] = data[off + q - w + 1]
      BY <1>1, <3>2
    <3> QED BY <2>1, <3>2, <3>3
  <2>3. CASE ~(i < first)
    <3>1. q = i - first
      BY <1>0, <2>3 DEF Dist
    <3>2. i - first < m /\ m <= w
      BY <1>0, <2>3 DEF Dist
    <3> HIDE DEF q
    <3>3. /\ q \in 0..n - 1 /\ ~(w <= q /\ q < w + first) /\ q < second
          /\ off + first + q + 1 = off + i + 1
      BY <1>0, <2>3, <3>1, <3>2
    <3>4. new[q] = data[off + first + q + 1]
      BY <1>1, <3>3
    <3> QED BY <2>1, <3>3, <3>4
  <2> QED BY <2>2, <2>3
<1>4. Appends(n, m, new, buf, data, off, first + second, k)
  <2>1. \A i \in 0..k - 1 : At(n, new, m, i) = At(n, buf, m, i)
    BY <1>2
  <2> QED BY ONLY <2>1, <1>3 DEF Appends
<1> QED BY <1>4 DEF new

\* Growth moves the kept bytes to the start of the array, and changes none.
LEMMA GrownBytes ==
  ASSUME RingInv, NEW n \in Lengths, NEW i \in 0..kept - 1,
         n # length => n > kept
  PROVE  At(n, Ring(n).buf, Ring(n).mark, i) = ByteAt(markPosition, i)
<1>1. n \in Nat /\ length \in Nat /\ kept \in Nat
  BY LengthsAreNat, KeptBytesSeq DEF RingInv, RingOK
<1>2. CASE n = length
  BY <1>2 DEF Ring, At, ByteAt
<1>3. CASE n # length
  <2>1. Ring(n).mark = 0 /\ Ring(n).buf = Recopied(n)
    BY <1>3 DEF Ring, resize
  <2>2. i \in 0..n - 1 /\ 0 + i = i /\ i < n /\ i < kept
    BY <1>1, <1>3
  <2>3. Recopied(n)[i] = ByteAt(markPosition, i)
    BY <2>2 DEF Recopied
  <2> QED BY <2>1, <2>2, <2>3 DEF At
<1> QED BY <1>2, <1>3

LEMMA KeptBytesRight ==
  RingInv => /\ KeptBytes \in Seq(Byte) /\ Len(KeptBytes) = kept
             /\ kept = marked + available /\ kept \in Nat
             /\ \A i \in 1..kept : KeptBytes[i] = ByteAt(markPosition, i - 1)
  BY KeptBytesSeq

\* One try of a write appends what it copies.
LEMMA StoreAppends ==
  ASSUME RingInv, RingInv', NEW t \in Threads, NEW data \in Seq(Byte), NEW off \in Nat,
         off < Len(data), Store(t, data, off)
  PROVE  \E c \in 0..Len(data) - off :
           /\ KeptBytes' = KeptBytes \o SubSeq(data, off + 1, off + c)
           /\ UNCHANGED <<marked, markSize, closed>>
           /\ IF c = Len(data) - off THEN Return(t, "ok", <<>>, Len(data))
                                     ELSE Sleep(t, off + c)
<1>1. PICK n, buf, m, r, w, first, second, to :
        /\ n \in Lengths /\ buf = Ring(n).buf /\ m = Ring(n).mark
        /\ Stored(t, data, off, n, buf, m, r, w, first, second, to)
  BY StoreShape
<1> DEFINE new == Overwritten(n, buf, w, first, second, data, off)
           c == first + second
<1>2. /\ n \in Nat /\ m \in 0..n - 1 /\ w \in 0..n - 1
      /\ first \in Nat /\ second \in Nat /\ c <= Len(data) - off
      /\ first <= n - w /\ second < n /\ (second > 0 => first = n - w)
      /\ c <= n - 1 - kept /\ Dist(n, m, w) = kept
      /\ length' = n /\ writePosition' = to /\ markPosition' = m
      /\ UNCHANGED marked /\ available' = available + first + second
      /\ buffer' = new /\ UNCHANGED <<markSize, closed>>
      /\ IF c = Len(data) - off THEN Return(t, "ok", <<>>, Len(data)) ELSE Sleep(t, off + c)
  BY <1>1 DEF Stored
<1>3. /\ KeptBytes \in Seq(Byte) /\ Len(KeptBytes) = kept
      /\ kept = marked + available /\ marked \in Nat /\ available \in Nat /\ kept \in Nat
      /\ \A i \in 1..kept : KeptBytes[i] = ByteAt(markPosition, i - 1)
  BY KeptBytesSeq
<1>4. /\ KeptBytes' \in Seq(Byte) /\ Len(KeptBytes') = kept'
      /\ kept' = marked' + available' /\ kept' \in Nat
      /\ \A i \in 1..kept' : KeptBytes'[i] = ByteAt(markPosition, i - 1)'
  <2>1. (RingInv => /\ KeptBytes \in Seq(Byte) /\ Len(KeptBytes) = kept
                    /\ kept = marked + available /\ kept \in Nat
                    /\ \A i \in 1..kept : KeptBytes[i] = ByteAt(markPosition, i - 1))'
    BY KeptBytesRight, PTL
  <2> QED BY <2>1
<1>5. kept' = kept + c
  BY <1>2, <1>3, <1>4
<1>6. /\ \A i \in 0..kept - 1 : At(n, new, m, i) = At(n, buf, m, i)
      /\ \A i \in 0..c - 1 : At(n, new, m, kept + i) = data[off + i + 1]
  <2>1. Fits(n, m, w, off, first, second, kept)
    BY <1>2, <1>3 DEF Fits
  <2>2. Appends(n, m, new, buf, data, off, c, kept)
    BY <2>1, OverwrittenBytes
  <2> QED BY <2>2 DEF Appends
<1> HIDE DEF new
<1>7. \A i \in 0..kept - 1 : At(n, buf, m, i) = ByteAt(markPosition, i)
  <2>1. n > kept
    BY <1>2, <1>3
  <2> QED BY <1>1, <2>1, GrownBytes
<1>8. ASSUME NEW i \in Int PROVE ByteAt(markPosition, i)' = At(n, new, m, i)
  BY <1>2 DEF ByteAt, At
<1> DEFINE part == SubSeq(data, off + 1, off + c)
<1>9. part = [i \in 1..c |-> data[off + i]] /\ part \in Seq(Byte) /\ Len(part) = c
  <2>1. c \in Nat /\ off + c <= Len(data) /\ Len(data) \in Nat
    BY <1>2
  <2>2. part = [i \in 1..c |-> data[off + i]]
    BY <2>1, PartOf
  <2>3. \A i \in 1..c : data[off + i] \in Byte
    BY <2>1
  <2> HIDE DEF part
  <2>4. part \in [1..c -> Byte]
    BY <2>2, <2>3
  <2> QED BY <2>1, <2>2, <2>4
<1> HIDE DEF part
<1>10. KeptBytes' = KeptBytes \o part
  <2>1. /\ KeptBytes \o part \in Seq(Byte) /\ Len(KeptBytes \o part) = kept + c
        /\ \A i \in 1..kept + c : (KeptBytes \o part)[i] =
             IF i <= kept THEN KeptBytes[i] ELSE part[i - kept]
    <3>1. /\ KeptBytes \o part \in Seq(Byte)
          /\ Len(KeptBytes \o part) = Len(KeptBytes) + Len(part)
          /\ \A i \in 1..Len(KeptBytes) + Len(part) : (KeptBytes \o part)[i] =
               IF i <= Len(KeptBytes) THEN KeptBytes[i] ELSE part[i - Len(KeptBytes)]
      <4>1. KeptBytes \in Seq(Byte) /\ part \in Seq(Byte)
        BY <1>3, <1>9
      <4> QED BY ONLY <4>1, ConcatProperties
    <3> QED BY <3>1, <1>3, <1>9
  <2>2. ASSUME NEW i \in 1..kept + c PROVE KeptBytes'[i] = (KeptBytes \o part)[i]
    <3>1. c \in Nat /\ i - 1 \in Int /\ KeptBytes'[i] = At(n, new, m, i - 1)
      <4>1. c \in Nat /\ i - 1 \in Int /\ i \in 1..kept'
        BY <1>2, <1>3, <1>5
      <4> QED BY <4>1, <1>4, <1>8
    <3>2. CASE i <= kept
      <4>1. i - 1 \in 0..kept - 1 /\ i \in 1..kept
        BY <1>3, <3>1, <3>2
      <4> QED BY <1>3, <1>6, <1>7, <2>1, <3>1, <3>2, <4>1
    <3>3. CASE ~(i <= kept)
      <4>1. PICK j \in 0..c - 1 : i - 1 = kept + j /\ i - kept = j + 1 /\ j + 1 \in 1..c
                                  /\ off + (j + 1) = off + j + 1
        <5>1. i - kept - 1 \in 0..c - 1
          BY <1>3, <3>1, <3>3
        <5>2. \A j \in 0..c - 1 : j = i - kept - 1 =>
                i - 1 = kept + j /\ i - kept = j + 1 /\ j + 1 \in 1..c /\ off + (j + 1) = off + j + 1
          BY <1>3, <3>1
        <5> QED BY <5>1, <5>2
      <4>2. part[i - kept] = data[off + j + 1]
        BY <1>9, <4>1
      <4> QED BY <1>6, <2>1, <3>1, <3>3, <4>1, <4>2
    <3> QED BY <3>2, <3>3
  <2> QED BY <1>4, <1>5, <2>1, <2>2, SeqEqual
<1>11. c \in 0..Len(data) - off
  BY <1>2
<1> QED BY <1>2, <1>10, <1>11 DEF part

-----------------------------------------------------------------------------
\* The tries and the other calls, as steps of the stream.
LEMMA IsPass ==
  ASSUME NEW n,
         IF marked + n > markSize
           THEN /\ KeptBytes' = SubSeq(KeptBytes, marked + n + 1, Len(KeptBytes))
                /\ marked' = 0 /\ markSize' = 0
           ELSE marked' = marked + n /\ UNCHANGED <<KeptBytes, markSize>>
  PROVE  Stream!Pass(n)
  BY DEF Stream!Pass, KeptBytes

LEMMA IsDeliver ==
  ASSUME RingInv, NEW r \in Readers, pending[r].op \in Reading, ~inputStreamClosed,
         NEW n \in 1..available, n <= pending[r].len, UNCHANGED closed,
         Stream!Pass(n),
         Stream!Answer(r, "ok", IF pending[r].op = "skip" THEN <<>>
                                ELSE SubSeq(KeptBytes, marked + 1, marked + n), n)
  PROVE  Stream!Deliver(r)
<1>1. r \in Threads /\ pending[r] \in Calls
  BY DEF Threads, RingInv, RingOK
<1>2. /\ Requests[r].op = pending[r].op /\ Requests[r].len = pending[r].len
      /\ pending[r].len \in Nat
  BY <1>1 DEF Requests, Request, Calls
<1>3. Len(KeptBytes) - marked = available /\ available \in Nat
  BY KeptBytesSeq
<1>4. n \in 1..Stream!MinOfTwo(Requests[r].len, Len(KeptBytes) - marked)
  BY <1>2, <1>3 DEF Stream!MinOfTwo
<1>5. /\ Requests[r].op \in {"read", "readByte", "skip"}
      /\ Stream!Answer(r, "ok", IF Requests[r].op = "skip" THEN <<>>
                                ELSE SubSeq(KeptBytes, marked + 1, marked + n), n)
  BY <1>2 DEF Reading
<1>6. UNCHANGED Stream!flags
  BY DEF closed, Stream!flags
<1> QED BY <1>4, <1>5, <1>6 DEF Stream!Deliver, Stream!Unread, Requests, Request, KeptBytes

\* A try that finds bytes.
LEMMA TryDelivers ==
  ASSUME RingInv, CallsOK, NEW r \in Readers, NEW n, NEW data, Consume(r, n, data),
         \/ /\ pending[r].op = "read" /\ n = MinOf(pending[r].len, available)
            /\ data = [i \in 1..n |-> ByteAt(readPosition, i - 1)]
         \/ pending[r].op = "readByte" /\ n = 1 /\ data = <<buffer[readPosition]>>
         \/ pending[r].op = "skip" /\ n = MinOf(pending[r].len, available) /\ data = <<>>
  PROVE  Stream!Deliver(r)
<1>1. /\ r \in Threads /\ pending[r] \in Calls /\ CallOK(r, pending[r])
      /\ available \in Nat /\ available > 0
  BY KeptBytesSeq DEF Threads, RingInv, RingOK, CallsOK, Consume
<1>2. /\ pending[r].op \in Reading /\ pending[r].len \in Nat /\ pending[r].len > 0
      /\ pending[r].op = "readByte" => pending[r].len = 1
  BY <1>1 DEF CallOK, Calls, Reading
<1>3. n \in 1..available /\ n <= pending[r].len
  BY <1>1, <1>2 DEF MinOf
<1>4. /\ ensureMark(Advanced(n)) /\ UNCHANGED <<store, closed>> /\ ~inputStreamClosed
      /\ Return(r, "ok", data, n)
  BY DEF Consume
<1>5. Stream!Pass(n)
  <2>1. IF marked + n > markSize
           THEN /\ KeptBytes' = SubSeq(KeptBytes, marked + n + 1, Len(KeptBytes))
                /\ marked' = 0 /\ markSize' = 0
           ELSE marked' = marked + n /\ UNCHANGED <<KeptBytes, markSize>>
    BY <1>3, <1>4, ConsumeDelivers
  <2> QED BY <2>1, IsPass
<1>6. data = IF pending[r].op = "skip" THEN <<>> ELSE SubSeq(KeptBytes, marked + 1, marked + n)
  BY <1>3, NextUnread
<1>7. Stream!Answer(r, "ok", IF pending[r].op = "skip" THEN <<>>
                             ELSE SubSeq(KeptBytes, marked + 1, marked + n), n)
  <2>1. Stream!Answer(r, "ok", data, n)
    BY <1>1, <1>4, AnswerStep
  <2> QED BY <1>6, <2>1
<1> QED BY <1>2, <1>3, <1>4, <1>5, <1>7, IsDeliver

\* A call ends unfinished.
LEMMA IsFail ==
  ASSUME RingInv, NEW t \in Threads, pending[t].op # "none", NEW status,
         Return(t, status, <<>>, pending[t].off), UNCHANGED <<store, positions, closed>>,
         \/ status = "closed" /\ (inputStreamClosed \/ (t \in Writers /\ outputStreamClosed))
         \/ status = "overflow" /\ t \in Writers
         \/ status = "interrupted"
  PROVE  Stream!Fail(t)
<1>1. Requests[t] # Stream!None /\ Requests[t].off = pending[t].off
  BY DEF Requests, Request, Stream!None, Stream!Asked
<1>2. PICK off : off = pending[t].off
  OBVIOUS
<1>3. Stream!Answer(t, status, <<>>, off) /\ off = Requests[t].off
  <2>1. Return(t, status, <<>>, off)
    BY <1>2
  <2> QED BY <1>1, <1>2, <2>1, AnswerStep
<1>4. /\ Requests' = [Requests EXCEPT ![t] = Stream!None]
      /\ returned' = [returned EXCEPT ![t] = [status |-> status, data |-> <<>>, n |-> Requests[t].off]]
  BY <1>3 DEF Stream!Answer, Requests, Request
<1>5. UNCHANGED <<Stream!stream, Stream!flags>>
  BY SameBytes DEF closed, Stream!flags
<1> QED BY <1>1, <1>4, <1>5 DEF Stream!Fail, Stream!Answer, Requests, Request

\* A try that finds no byte fails, reports the end, or is not seen.
LEMMA NoDataStep ==
  ASSUME RingInv, CallsOK, NEW r \in Readers, pending[r].op \in Reading,
         NoData(r, IF pending[r].op = "skip" THEN "ok" ELSE "eof")
  PROVE  Stream!Fail(r) \/ Stream!AtEnd(r) \/ UNCHANGED Stream!vars
<1> DEFINE atEnd == IF pending[r].op = "skip" THEN "ok" ELSE "eof"
<1>1. /\ r \in Threads /\ pending[r].off = 0 /\ pending[r].op # "none"
      /\ UNCHANGED <<store, positions, closed>>
      /\ Requests[r].op = pending[r].op
  BY DEF Threads, CallsOK, CallOK, NoData, Requests, Request, Reading
<1>2. UNCHANGED <<Stream!stream, Stream!flags>>
  BY <1>1, SameBytes DEF closed, Stream!flags
<1>3. CASE inputStreamClosed /\ Return(r, "closed", <<>>, 0)
  BY <1>1, <1>3, IsFail
<1>4. CASE ~inputStreamClosed /\ available = 0 /\ outputStreamClosed /\ Return(r, atEnd, <<>>, 0)
  <2>1. Stream!Answer(r, IF Requests[r].op = "skip" THEN "ok" ELSE "eof", <<>>, 0)
    BY <1>1, <1>4, AnswerStep
  <2>2. Len(KeptBytes) - marked = 0
    BY <1>4, KeptBytesSeq
  <2>3. Requests[r].op \in {"read", "readByte", "skip"}
    BY <1>1 DEF Reading
  <2> QED BY <1>2, <1>4, <2>1, <2>2, <2>3
          DEF Stream!AtEnd, Stream!Unread, Requests, Request, KeptBytes
<1>5. CASE Sleep(r, 0)
  <2>1. Requests' = Requests /\ returned' = returned
    BY <1>1, <1>5, SleepStep DEF Sleep
  <2> QED BY <1>2, <2>1 DEF Stream!vars, Requests, Request
<1> QED BY <1>3, <1>4, <1>5 DEF NoData

\* A try of a write that stores something is accepted; one that finds no room
\* is not seen.
LEMMA StoreStep ==
  ASSUME RingInv, RingInv', NEW w \in Writers, pending[w].op \in Writing,
         Store(w, pending[w].data, pending[w].off)
  PROVE  Stream!Accept(w) \/ UNCHANGED Stream!vars
<1>1. w \in Threads /\ pending[w] \in Calls /\ pending[w].off < Len(pending[w].data)
  BY DEF Threads, RingInv, RingOK
<1>2. PICK data \in Seq(Byte), off \in Nat :
        /\ data = pending[w].data /\ off = pending[w].off /\ off < Len(data)
        /\ Store(w, data, off)
  BY <1>1 DEF Calls
<1>3. PICK c \in 0..Len(data) - off :
        /\ KeptBytes' = KeptBytes \o SubSeq(data, off + 1, off + c)
        /\ UNCHANGED <<marked, markSize, closed>>
        /\ IF c = Len(data) - off THEN Return(w, "ok", <<>>, Len(data))
                                  ELSE Sleep(w, off + c)
  BY <1>1, <1>2, StoreAppends
<1>4. /\ Requests[w].op \in {"write", "writeByte"} /\ Requests[w].data = data
      /\ Requests[w].off = off /\ Len(data) \in Nat
  BY <1>1, <1>2 DEF Requests, Request, Writing
<1>5. ~inputStreamClosed /\ ~outputStreamClosed
  BY DEF Store
<1>6. UNCHANGED Stream!flags
  BY <1>3 DEF closed, Stream!flags
<1>7. CASE c = 0
  <2>1. SubSeq(data, off + 1, off + c) = <<>>
    BY <1>2, <1>7, SubSeqEmpty
  <2>2. KeptBytes' = KeptBytes
    BY <1>3, <2>1, KeptBytesSeq, ConcatEmptySeq
  <2>3. Sleep(w, pending[w].off)
    <3>1. c # Len(data) - off /\ off + c = off
      BY <1>2, <1>4, <1>7
    <3> QED BY <1>2, <1>3, <3>1
  <2>4. Requests' = Requests /\ returned' = returned
    BY <1>1, <2>3, SleepStep DEF Sleep
  <2> QED BY <1>3, <1>6, <2>2, <2>4 DEF Stream!vars, Stream!stream, Requests, Request, KeptBytes
<1>8. CASE c # 0
  <2>1. c \in 1..Len(data) - off
    BY <1>2, <1>4, <1>8
  <2>2. CASE c = Len(data) - off
    <3>1. Stream!Answer(w, "ok", <<>>, Len(data))
      <4>1. PICK n : n = Len(data)
        OBVIOUS
      <4>2. Return(w, "ok", <<>>, n)
        BY <1>3, <2>2, <4>1
      <4> QED BY <1>1, <4>1, <4>2, AnswerStep
    <3> QED BY <1>3, <1>4, <1>5, <1>6, <2>1, <2>2, <3>1
            DEF Stream!Accept, Stream!Answer, Requests, Request, KeptBytes
  <2>3. CASE c # Len(data) - off
    <3>1. Requests' = [Requests EXCEPT ![w].off = off + c] /\ returned' = returned
      <4>1. PICK to : to = off + c
        OBVIOUS
      <4>2. Sleep(w, to)
        BY <1>3, <2>3, <4>1
      <4> QED BY <1>1, <4>1, <4>2, SleepStep DEF Sleep
    <3>2. Requests' = [Requests EXCEPT ![w].off = @ + c]
      BY <1>4, <3>1
    <3> QED BY <1>3, <1>4, <1>5, <1>6, <2>1, <2>3, <3>1, <3>2
            DEF Stream!Accept, Requests, Request, KeptBytes
  <2> QED BY <2>2, <2>3
<1> QED BY <1>7, <1>8

\* mark() keeps what is unread; reset() goes back to the mark; clear() empties.
LEMMA MarkStep ==
  ASSUME RingInv, NEW r \in Readers, Mark(r)
  PROVE  Stream!SetMark
<1>1. /\ markPosition' = readPosition /\ readPosition' = readPosition
      /\ UNCHANGED <<store, closed, calls>> /\ \E n \in 0..MaxRead : markSize' = n
  BY DEF Mark
<1>2. /\ readPosition \in 0..length - 1 /\ length \in Nat
      /\ marked = Span(markPosition, readPosition)
      /\ available = Span(readPosition, writePosition)
  BY KeptBytesSeq DEF RingInv, RingOK, marked, available
<1>3. marked \in 0..kept /\ available = kept - marked
  BY KeptBytesSeq
<1>4. KeptBytes' = SubSeq(KeptBytes, marked + 1, Len(KeptBytes))
  BY <1>1, <1>2, <1>3, MarkMoves
<1>5. marked' = 0
  BY <1>1, <1>2 DEF marked, Span
<1>6. UNCHANGED <<Stream!flags, Requests, returned>>
  BY <1>1 DEF closed, calls, Stream!flags, Requests
<1> QED BY <1>1, <1>4, <1>5, <1>6 DEF Stream!SetMark, Requests, Request, KeptBytes

LEMMA ResetStep ==
  ASSUME RingInv, NEW r \in Readers, Reset(r)
  PROVE  Stream!GoBack
<1>1. /\ readPosition' = markPosition /\ ~inputStreamClosed
      /\ UNCHANGED <<markPosition, markSize, store, closed, calls>>
  BY DEF Reset
<1>2. KeptBytes' = KeptBytes
  BY <1>1 DEF KeptBytes, store, kept, Span, ByteAt
<1>3. marked' = 0
  BY <1>1 DEF marked, Span, RingInv, RingOK
<1>4. UNCHANGED <<Stream!flags, Requests, returned>>
  BY <1>1 DEF closed, calls, Stream!flags, Requests
<1> QED BY <1>1, <1>2, <1>3, <1>4 DEF Stream!GoBack, Requests, Request, KeptBytes

\* Without kept bytes the stream is empty.
LEMMA NothingKept ==
  (RingInv /\ kept = 0) => KeptBytes = <<>>
<1> SUFFICES ASSUME RingInv, kept = 0 PROVE KeptBytes = <<>>
  OBVIOUS
<1>1. KeptBytes \in Seq(Byte) /\ Len(KeptBytes) = 0
  BY KeptBytesSeq
<1> QED BY <1>1, EmptySeq

LEMMA ClearStep ==
  ASSUME RingInv, RingInv', Clear
  PROVE  Stream!Empty
<1>1. kept' = 0 /\ marked' = 0
  BY DEF Clear, kept, marked, Span
<1>2. KeptBytes' = <<>>
  <2>1. ((RingInv /\ kept = 0) => KeptBytes = <<>>)'
    BY NothingKept, PTL
  <2> QED BY <1>1, <2>1
<1>3. UNCHANGED <<Requests, returned>>
  BY DEF Clear, calls, Requests
<1> QED BY <1>1, <1>2, <1>3 DEF Clear, Stream!Empty, Requests, Request, KeptBytes

LEMMA CloseStep ==
  ASSUME InClose \/ OutClose
  PROVE  Stream!Close
<1>1. UNCHANGED Stream!stream
  BY SameBytes DEF InClose, OutClose
<1>2. UNCHANGED <<Requests, returned>>
  BY DEF InClose, OutClose, calls, Requests
<1> QED BY <1>1, <1>2 DEF InClose, OutClose, Stream!Close, Requests, Request

-----------------------------------------------------------------------------
\* Every step of the ring is a step of the stream, or is not seen by it.
LEMMA StepImplements ==
  RingInv /\ RingInv' /\ CallsOK /\ [Next]_vars => [Stream!Next]_Stream!vars
<1> SUFFICES ASSUME RingInv, RingInv', CallsOK, [Next]_vars
             PROVE  Stream!Next \/ UNCHANGED Stream!vars
  OBVIOUS
<1>0. /\ Stream!Threads = Threads
      /\ \A t \in Threads : pending[t] \in Calls /\ CallOK(t, pending[t])
  BY DEF Stream!Threads, Threads, RingInv, RingOK, CallsOK
<1>1. ASSUME NEW r \in Readers, BeginRead(r) \/ BeginReadByte(r) \/ BeginSkip(r)
      PROVE  Stream!Next
  BY <1>0, <1>1, ReadAsks DEF Stream!Next, Threads
<1>2. ASSUME NEW w \in Writers, BeginWrite(w) \/ BeginWriteByte(w)
      PROVE  Stream!Next
  BY <1>0, <1>2, WriteAsks DEF Stream!Next, Threads
<1>3. ASSUME NEW r \in Readers, TryRead(r) \/ TryReadByte(r) \/ TrySkip(r)
      PROVE  Stream!Next \/ UNCHANGED Stream!vars
  <2>1. r \in Stream!Threads /\ pending[r].op \in Reading
    BY <1>0, <1>3 DEF Threads, TryRead, TryReadByte, TrySkip, Awake, Reading
  <2>2. CASE NoData(r, IF pending[r].op = "skip" THEN "ok" ELSE "eof")
    BY <2>1, <2>2, NoDataStep DEF Stream!Next
  <2>3. CASE \E n, data :
               /\ Consume(r, n, data)
               /\ \/ /\ pending[r].op = "read" /\ n = MinOf(pending[r].len, available)
                     /\ data = [i \in 1..n |-> ByteAt(readPosition, i - 1)]
                  \/ pending[r].op = "readByte" /\ n = 1 /\ data = <<buffer[readPosition]>>
                  \/ /\ pending[r].op = "skip" /\ n = MinOf(pending[r].len, available)
                     /\ data = <<>>
    <3>1. PICK n, data :
               /\ Consume(r, n, data)
               /\ \/ /\ pending[r].op = "read" /\ n = MinOf(pending[r].len, available)
                     /\ data = [i \in 1..n |-> ByteAt(readPosition, i - 1)]
                  \/ pending[r].op = "readByte" /\ n = 1 /\ data = <<buffer[readPosition]>>
                  \/ /\ pending[r].op = "skip" /\ n = MinOf(pending[r].len, available)
                     /\ data = <<>>
      BY <2>3
    <3>2. Stream!Deliver(r)
      BY <3>1, TryDelivers
    <3> QED BY <3>2 DEF Stream!Next
  <2>4. CASE TryRead(r)
    BY <2>2, <2>3, <2>4 DEF TryRead, Awake
  <2>5. CASE TryReadByte(r)
    BY <2>2, <2>3, <2>5 DEF TryReadByte, Awake
  <2>6. CASE TrySkip(r)
    BY <2>2, <2>3, <2>6 DEF TrySkip, Awake
  <2> QED BY <1>3, <2>4, <2>5, <2>6
<1>4. ASSUME NEW r \in Readers, Mark(r) \/ Reset(r) PROVE Stream!Next
  BY <1>4, MarkStep, ResetStep DEF Stream!Next
<1>5. ASSUME NEW w \in Writers, TryWrite(w) \/ TryWriteByte(w)
      PROVE  Stream!Next \/ UNCHANGED Stream!vars
  <2>1. /\ w \in Stream!Threads /\ w \in Threads
        /\ pending[w].op \in Writing /\ pending[w].op # "none"
    BY <1>0, <1>5 DEF Threads, TryWrite, TryWriteByte, Awake, Writing
  <2>2. CASE \E len : Refuse(w, len)
    <3>1. Stream!Fail(w)
      BY <2>1, <2>2, IsFail DEF Refuse
    <3> QED BY <2>1, <3>1 DEF Stream!Next
  <2>3. CASE Store(w, pending[w].data, pending[w].off)
    <3>1. Stream!Accept(w) \/ UNCHANGED Stream!vars
      BY <2>1, <2>3, StoreStep
    <3> QED BY <3>1 DEF Stream!Next
  <2>4. CASE TryWriteByte(w) /\ Store(w, pending[w].data, 0)
    <3>1. pending[w].off = 0
      BY <1>0, <2>1, <2>4 DEF TryWriteByte, Awake, CallOK
    <3>2. Store(w, pending[w].data, pending[w].off)
      BY <2>4, <3>1
    <3> QED BY <2>3, <3>2
  <2> QED BY <1>5, <2>2, <2>3, <2>4 DEF TryWrite, TryWriteByte
<1>6. ASSUME NEW t \in Threads, Wake(t) PROVE UNCHANGED Stream!vars
  <2>1. Requests' = Requests /\ returned' = returned
    BY <1>0, <1>6 DEF Wake, Requests, Request, Calls, RingInv, RingOK
  <2>2. UNCHANGED <<Stream!stream, Stream!flags>>
    BY <1>6, SameBytes DEF Wake, closed, Stream!flags
  <2> QED BY <2>1, <2>2 DEF Stream!vars, Requests, Request
<1>7. ASSUME NEW t \in Threads, Interrupt(t) PROVE Stream!Next
  <2>1. pending[t].op # "none"
    BY <1>0, <1>7 DEF Interrupt, CallOK, Idle
  <2>2. Stream!Fail(t)
    BY <1>7, <2>1, IsFail DEF Interrupt
  <2> QED BY <1>0, <2>2 DEF Stream!Next
<1>8. CASE InClose \/ OutClose
  BY <1>8, CloseStep DEF Stream!Next
<1>9. CASE Clear
  BY <1>9, ClearStep DEF Stream!Next
<1>10. CASE UNCHANGED vars
  <2>1. UNCHANGED <<Stream!stream, Stream!flags>>
    BY <1>10, SameBytes DEF vars, closed, Stream!flags
  <2> QED BY <1>10, <2>1 DEF vars, calls, Stream!vars
<1> QED BY <1>1, <1>2, <1>3, <1>4, <1>5, <1>6, <1>7, <1>8, <1>9, <1>10
        DEF Next, ReaderStep, WriterStep

\* The empty ring is the empty stream.
LEMMA InitImplements == Init => Stream!Init
<1> SUFFICES ASSUME Init PROVE Stream!Init
  OBVIOUS
<1>1. kept = 0 /\ marked = 0
  BY DEF Init, kept, marked, Span
<1>2. KeptBytes = <<>>
  BY <1>1, InitRing, NothingKept
<1>3. Requests = [t \in Threads |-> Stream!None]
  BY DEF Init, Requests, Request, Idle, Stream!None, Stream!Asked
<1> QED BY <1>1, <1>2, <1>3
        DEF Init, Nothing, Stream!Init, Stream!Threads, Threads, Requests, Request, KeptBytes

\* The ring is the stream of bytes it promises to be, for every size, every
\* kind and any number of readers and writers: no byte is lost, repeated,
\* reordered or invented, however tries, marks, resets and growth interleave
\* (CircularByteBuffer.java:39-464).
THEOREM RingImplementsStream == Spec => ImplementsByteStream
  BY CallsAlwaysRight, StepImplements, InitImplements, PTL
     DEF Spec, ImplementsByteStream, Stream!Spec
=============================================================================
