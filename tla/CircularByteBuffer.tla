------------------------- MODULE CircularByteBuffer -------------------------
(***************************************************************************)
(* gyl.cam.CircularByteBuffer: the ring of bytes between the thread that   *)
(* takes AAC packets off the network queue (SoundPlay.WriteAudio) and the  *)
(* thread that feeds the decoder (BufferReader over getInputStream()).     *)
(*                                                                         *)
(* Every public method runs its body under one monitor and, when it cannot *)
(* proceed, leaves the monitor, sleeps 100 ms and tries again.  One try is *)
(* one action here: between two tries any other call may run.              *)
(***************************************************************************)
EXTENDS Integers, Sequences

CONSTANTS
  Byte,            \* the values a byte takes
  Zero,            \* what Java leaves in the new half of a resized array
  Kinds,           \* what the constructor is called with
  MaxLength,       \* bound of the model on buffer.length when infinite
  Readers,         \* threads that use getInputStream()
  Writers,         \* threads that use getOutputStream()
  MaxRead,         \* bound on the len of a read or a skip
  MaxWrite,        \* bound on the length of a written array
  Ops              \* the calls the clients make

Threads == Readers \cup Writers
AllOps == {"read", "readByte", "skip", "mark", "reset", "inClose",
           "write", "writeByte", "outClose", "clear", "interrupt"}

ASSUME LengthAssumption ==
  /\ MaxLength \in Nat
  /\ Kinds \subseteq [size : 2..MaxLength, infinite : BOOLEAN, blockingWrite : BOOLEAN]
ASSUME ClientAssumption == /\ Readers \cap Writers = {}
                           /\ MaxRead \in Nat \ {0} /\ MaxWrite \in Nat \ {0}
                           /\ Zero \in Byte /\ Ops \subseteq AllOps

VARIABLES
  buffer,               \* the array, a function on 0..length-1
  length,               \* buffer.length
  readPosition, writePosition, markPosition, markSize,
  inputStreamClosed, outputStreamClosed,
  infinite, blockingWrite,
  pending,              \* the call each thread is in
  returned              \* how the last call of each thread ended

positions == <<readPosition, markPosition, markSize>>
closed == <<inputStreamClosed, outputStreamClosed>>
store == <<buffer, length, writePosition>>
kind == <<infinite, blockingWrite>>
calls == <<pending, returned>>
vars == <<store, positions, closed, kind, calls>>

\* A call: its operation, the len of a read or skip, the array of a write and
\* how much of it is already in the buffer, and whether the thread sleeps.
Idle == [op |-> "none", len |-> 0, data |-> <<>>, off |-> 0, asleep |-> FALSE]
Call(op, len, data) ==
  [op |-> op, len |-> len, data |-> data, off |-> 0, asleep |-> FALSE]
Nothing == [status |-> "none", data |-> <<>>, n |-> 0]
Arrays == UNION {[1..n -> Byte] : n \in 1..MaxWrite}

MinOf(a, b) == IF a <= b THEN a ELSE b

\* Positions the cursor passes going forward round the ring.
Span(from, to) == IF from <= to THEN to - from ELSE length - (from - to)

available == Span(readPosition, writePosition)
marked == Span(markPosition, readPosition)
spaceLeft == IF writePosition < markPosition
               THEN markPosition - writePosition - 1
               ELSE (length - 1) - (writePosition - markPosition)

\* The bytes from the mark to the write position: what resize() copies.
kept == Span(markPosition, writePosition)

\* The byte i places after position p.
ByteAt(p, i) == IF p + i < length THEN buffer[p + i] ELSE buffer[p + i - length]

Init ==
  /\ \E k \in Kinds :
       /\ length = k.size /\ buffer = [i \in 0..k.size - 1 |-> Zero]
       /\ infinite = k.infinite /\ blockingWrite = k.blockingWrite
  /\ readPosition = 0 /\ writePosition = 0 /\ markPosition = 0 /\ markSize = 0
  /\ inputStreamClosed = FALSE /\ outputStreamClosed = FALSE
  /\ pending = [t \in Threads |-> Idle]
  /\ returned = [t \in Threads |-> Nothing]

-----------------------------------------------------------------------------
\* Calls begin, fall asleep, wake up, are interrupted and return.

Begin(t, call) ==
  /\ call.op \in Ops /\ pending[t] = Idle
  /\ pending' = [pending EXCEPT ![t] = call]
  /\ returned' = [returned EXCEPT ![t] = Nothing]
  /\ UNCHANGED <<store, positions, closed>>

Return(t, status, data, n) ==
  /\ pending' = [pending EXCEPT ![t] = Idle]
  /\ returned' = [returned EXCEPT ![t] = [status |-> status, data |-> data, n |-> n]]

Awake(t, op) == pending[t].op = op /\ ~pending[t].asleep

Sleep(t, off) ==
  /\ pending' = [pending EXCEPT ![t].asleep = TRUE, ![t].off = off]
  /\ UNCHANGED returned

Wake(t) ==
  /\ pending[t].asleep
  /\ pending' = [pending EXCEPT ![t].asleep = FALSE]
  /\ UNCHANGED <<store, positions, closed, returned>>

\* Thread.sleep is interrupted: the call ends with an IOException.
Interrupt(t) ==
  /\ "interrupt" \in Ops /\ pending[t].asleep
  /\ Return(t, "interrupted", <<>>, pending[t].off)
  /\ UNCHANGED <<store, positions, closed>>

-----------------------------------------------------------------------------
\* The input stream.

\* readPosition moves to r; ensureMark() drops a mark that is too far behind.
ensureMarkNever(r) == readPosition' = r /\ UNCHANGED <<markPosition, markSize>>
ensureMark(r) ==
  /\ readPosition' = r
  /\ IF Span(markPosition, r) > markSize
       THEN markPosition' = r /\ markSize' = 0
       ELSE UNCHANGED <<markPosition, markSize>>

\* Where readPosition stands n bytes further on.
Advanced(n) ==
  LET firstLen == MinOf(n, length - readPosition)
      secondLen == n - firstLen
      r == IF secondLen > 0 THEN secondLen ELSE readPosition + n
  IN  IF r = length THEN 0 ELSE r

\* A try that finds no byte: closed, at the end, or back to sleep.
NoData(r, atEnd) ==
  /\ \/ inputStreamClosed /\ Return(r, "closed", <<>>, 0)
     \/ /\ ~inputStreamClosed /\ available = 0
        /\ IF outputStreamClosed THEN Return(r, atEnd, <<>>, 0) ELSE Sleep(r, 0)
  /\ UNCHANGED <<store, positions, closed>>

\* A try that finds bytes: n of them are consumed, data is what the caller gets.
Consume(r, n, data) ==
  /\ ~inputStreamClosed /\ available > 0
  /\ ensureMark(Advanced(n))
  /\ Return(r, "ok", data, n)
  /\ UNCHANGED <<store, closed>>

BeginRead(r) == \E n \in 1..MaxRead : Begin(r, Call("read", n, <<>>))
BeginReadByte(r) == Begin(r, Call("readByte", 1, <<>>))
BeginSkip(r) == \E n \in 1..MaxRead : Begin(r, Call("skip", n, <<>>))

TryRead(r) ==
  /\ Awake(r, "read")
  /\ LET n == MinOf(pending[r].len, available)
     IN  \/ NoData(r, "eof")
         \/ Consume(r, n, [i \in 1..n |-> ByteAt(readPosition, i - 1)])

TryReadByte(r) ==
  /\ Awake(r, "readByte")
  /\ NoData(r, "eof") \/ Consume(r, 1, <<buffer[readPosition]>>)

TrySkip(r) ==
  /\ Awake(r, "skip")
  /\ NoData(r, "ok") \/ Consume(r, MinOf(pending[r].len, available), <<>>)

LimitFits(readAheadLimit) == length - 1 > readAheadLimit

\* mark(): ignored when the limit does not leave a byte to write into.
Mark(r) ==
  /\ "mark" \in Ops /\ pending[r] = Idle
  /\ \E readAheadLimit \in 0..MaxRead :
       /\ LimitFits(readAheadLimit)
       /\ markSize' = readAheadLimit /\ markPosition' = readPosition
  /\ UNCHANGED <<readPosition, store, closed, calls>>

Reset(r) ==
  /\ "reset" \in Ops /\ pending[r] = Idle /\ ~inputStreamClosed
  /\ readPosition' = markPosition
  /\ UNCHANGED <<markPosition, markSize, store, closed, calls>>

InClose ==
  /\ "inClose" \in Ops
  /\ inputStreamClosed' = TRUE
  /\ UNCHANGED <<outputStreamClosed, store, positions, calls>>

-----------------------------------------------------------------------------
\* The output stream.

\* The lengths buffer.length can have: doublings up to the bound of the model.
Lengths == {n \in length..MaxLength :
              n = length \/ \E k \in 1..MaxLength : n = length * 2^k}

\* The ring has length n once the resize loop has made room for len bytes.
GrowsTo(n, len) ==
  IF infinite /\ spaceLeft < len
    THEN n - 1 - kept >= len /\ (n \div 2) - 1 - kept < len
    ELSE n = length

\* The array after resize() has copied the kept bytes to the start of a longer one.
Recopied(n) == [i \in 0..n - 1 |-> IF i < kept THEN ByteAt(markPosition, i) ELSE Zero]

\* resize(), as often as the loop calls it: the ring with length n.
resizeForgetsRead(n) ==
  [buf |-> Recopied(n), read |-> 0, write |-> marked + available,
   mark |-> 0, space |-> (n - 1) - (marked + available)]
resizeKeepsMark(n) ==
  [buf |-> Recopied(n), read |-> marked, write |-> marked + available,
   mark |-> markPosition, space |-> (n - 1) - (marked + available)]
resize(n) ==
  [buf |-> Recopied(n), read |-> marked, write |-> marked + available,
   mark |-> 0, space |-> (n - 1) - (marked + available)]

\* The ring a write finds: grown to length n, or as it is.
Ring(n) ==
  IF n # length THEN resize(n)
  ELSE [buf |-> buffer, read |-> readPosition, write |-> writePosition,
        mark |-> markPosition, space |-> spaceLeft]

\* How many bytes one try copies to the end of the array, then to its start.
FirstLen(g, n, len) == MinOf(MinOf(len, g.space), n - g.write)
SecondLen(g, n, len) ==
  MinOf(MinOf(len, g.space) - FirstLen(g, n, len), n - g.mark - 1)

\* The array after one try has copied data[off+1..] into the ring g of length n.
CopiedFromOff(g, n, data, off) ==
  LET first == FirstLen(g, n, Len(data) - off)
      second == SecondLen(g, n, Len(data) - off)
  IN  [i \in 0..n - 1 |->
         IF g.write <= i /\ i < g.write + first THEN data[off + i - g.write + 1]
         ELSE IF i < second THEN data[off + i + 1]
         ELSE g.buf[i]]
Copied(g, n, data, off) ==
  LET first == FirstLen(g, n, Len(data) - off)
      second == SecondLen(g, n, Len(data) - off)
  IN  [i \in 0..n - 1 |->
         IF g.write <= i /\ i < g.write + first THEN data[off + i - g.write + 1]
         ELSE IF i < second THEN data[off + first + i + 1]
         ELSE g.buf[i]]

\* Where writePosition stands after copying first and then second bytes.
WrittenTo(g, n, first, second) ==
  LET w == IF second > 0 THEN second ELSE g.write + first + second
  IN  IF w = n THEN 0 ELSE w

BeginWrite(w) == \E d \in Arrays : Begin(w, Call("write", 0, d))
BeginWriteByte(w) == \E b \in Byte : Begin(w, Call("writeByte", 0, <<b>>))

\* A non-blocking buffer refuses what it has no room for.
OverflowsWhenFull(len) == ~blockingWrite /\ ~infinite /\ spaceLeft < 1
Overflows(len) == ~blockingWrite /\ ~infinite /\ spaceLeft < len

\* Either stream closed, or a full buffer that may not block: an exception.
Refuse(w, len) ==
  /\ \/ /\ inputStreamClosed \/ outputStreamClosed
        /\ Return(w, "closed", <<>>, pending[w].off)
     \/ /\ ~inputStreamClosed /\ ~outputStreamClosed
        /\ Overflows(len)
        /\ Return(w, "overflow", <<>>, pending[w].off)
  /\ UNCHANGED <<store, positions, closed>>

\* One try of either write: as much of data[off+1..] as fits is copied.
Store(w, data, off) ==
  LET len == Len(data) - off IN
  /\ ~inputStreamClosed /\ ~outputStreamClosed
  /\ ~Overflows(len)
  /\ \E n \in Lengths :
       LET g == Ring(n)
           first == FirstLen(g, n, len)
           second == SecondLen(g, n, len)
           written == first + second
       IN  /\ GrowsTo(n, len)
           /\ length' = n
           /\ buffer' = Copied(g, n, data, off)
           /\ writePosition' = WrittenTo(g, n, first, second)
           /\ readPosition' = g.read /\ markPosition' = g.mark
           /\ IF written = len THEN Return(w, "ok", <<>>, Len(data))
                               ELSE Sleep(w, off + written)
  /\ UNCHANGED <<markSize, closed>>

TryWrite(w) ==
  /\ Awake(w, "write")
  /\ LET p == pending[w]
     IN  Refuse(w, Len(p.data) - p.off) \/ Store(w, p.data, p.off)

TryWriteByte(w) ==
  /\ Awake(w, "writeByte")
  /\ Refuse(w, 1) \/ Store(w, pending[w].data, 0)

\* close() first flushes, and flush() throws when the input is closed: the
\* output then stays open.  Closing twice changes nothing.
OutClose ==
  /\ "outClose" \in Ops /\ ~inputStreamClosed
  /\ outputStreamClosed' = TRUE
  /\ UNCHANGED <<inputStreamClosed, store, positions, calls>>

\* clear() empties and reopens the buffer; markSize keeps its value.
Clear ==
  /\ "clear" \in Ops
  /\ readPosition' = 0 /\ writePosition' = 0 /\ markPosition' = 0
  /\ inputStreamClosed' = FALSE /\ outputStreamClosed' = FALSE
  /\ UNCHANGED <<buffer, length, markSize, calls>>

-----------------------------------------------------------------------------
Try(t) == \/ TryRead(t) \/ TryReadByte(t) \/ TrySkip(t)
          \/ TryWrite(t) \/ TryWriteByte(t)

ReaderStep(r) == \/ BeginRead(r) \/ BeginReadByte(r) \/ BeginSkip(r)
                 \/ TryRead(r) \/ TryReadByte(r) \/ TrySkip(r)
                 \/ Mark(r) \/ Reset(r)

WriterStep(w) == \/ BeginWrite(w) \/ BeginWriteByte(w)
                 \/ TryWrite(w) \/ TryWriteByte(w)

Next == /\ \/ \E r \in Readers : ReaderStep(r)
           \/ \E w \in Writers : WriterStep(w)
           \/ \E t \in Threads : Wake(t) \/ Interrupt(t)
           \/ InClose \/ OutClose \/ Clear
        /\ UNCHANGED kind

Spec == Init /\ [][Next]_vars

\* Threads are scheduled: a sleep ends and an awake call makes its next try.
\* The decoder's BufferReader loop reads again and again (BufferReader.run).
Fairness ==
  /\ \A t \in Threads : WF_vars(Wake(t) /\ UNCHANGED kind) /\ WF_vars(Try(t) /\ UNCHANGED kind)
  /\ \A r \in Readers : WF_vars(BeginRead(r) /\ UNCHANGED kind)
LiveSpec == Spec /\ Fairness

-----------------------------------------------------------------------------
\* Correctness.

Writing == {"write", "writeByte"}
Calls == [op : {"none", "read", "readByte", "skip"} \cup Writing, len : 0..MaxRead,
          data : Seq(Byte), off : Nat, asleep : BOOLEAN]

RingOK ==
  /\ length \in 2..MaxLength
  /\ buffer \in [0..length - 1 -> Byte]
  /\ readPosition \in 0..length - 1 /\ writePosition \in 0..length - 1
  /\ markPosition \in 0..length - 1 /\ markSize \in Nat
  /\ inputStreamClosed \in BOOLEAN /\ outputStreamClosed \in BOOLEAN
  /\ pending \in [Threads -> Calls]
  /\ \A t \in Threads : pending[t].op \in Writing =>
                          pending[t].off < Len(pending[t].data)
KindOK == infinite \in BOOLEAN /\ blockingWrite \in BOOLEAN

\* Type invariant: the array is total on 0..length-1, the three positions index
\* it (a position that reaches buffer.length is always wrapped to 0), and a
\* write in progress has bytes left.
TypeOK == RingOK /\ KindOK

\* The three computations of available(), marked() and spaceLeft() agree on one
\* split of the ring: the read position never leaves the arc from the mark to
\* the write position, however reads, writes, resets and growth interleave.
Conservation == available + marked + spaceLeft = length - 1

\* A mark never reserves the whole ring: at most markSize bytes stay behind the
\* read position and markSize leaves at least one byte to write (mark():202).
MarkBound == marked <= markSize /\ markSize <= length - 2

\* No mutual blocking: no state makes a reader wait for bytes while a writer
\* waits for room, whatever was marked.
NoMutualBlock ==
  ~ /\ ~inputStreamClosed /\ ~outputStreamClosed
    /\ \E r \in Readers : pending[r].asleep /\ available = 0
    /\ \E w \in Writers : pending[w].asleep /\ spaceLeft = 0

\* The ring is sound: its fields have their types, the positions split it
\* consistently, and no mark takes all of it or makes two threads wait for each other.
RingSafe == TypeOK /\ Conservation /\ MarkBound /\ NoMutualBlock

\* A write that throws BufferOverflowException has written nothing, although it
\* may take several tries with the monitor released in between.
OverflowIsAllOrNothing ==
  \A w \in Writers : returned[w].status = "overflow" => returned[w].n = 0

\* A write that waits for room ends, as the decoder keeps reading and does not
\* go back to its mark for ever.
WriteCompletes ==
  <>[][\A r \in Readers : ~Reset(r)]_vars =>
    \A w \in Writers : pending[w].op = "write" ~> pending[w].op = "none"

\* The ring implements the stream: bytes come out once, in the order they went
\* in; reset() replays from the mark; growth moves nothing; the end is only
\* reported after the last byte.
Stream == INSTANCE ByteStream WITH
  keptBytes <- [i \in 1..kept |-> ByteAt(markPosition, i - 1)],
  pos <- marked, limit <- markSize,
  inClosed <- inputStreamClosed, outClosed <- outputStreamClosed,
  request <- [t \in Threads |->
                [op |-> pending[t].op, len |-> pending[t].len,
                 data |-> pending[t].data, off |-> pending[t].off]],
  reply <- returned
ImplementsByteStream == Stream!Spec

=============================================================================
