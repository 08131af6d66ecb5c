-------------------------- MODULE AACPlayerProofs --------------------------
(* Proofs about BufferReader: for every set of capacities and every stream,  *)
(* no notify() is lost, the buffer the player holds is left alone, and its   *)
(* bytes come in order and all of them before null, but those being filled.  *)
(* Then about AACPlayer, which reads from it: the sound is played as it was  *)
(* decoded, and nobody sleeps whom nobody will wake.                         *)
EXTENDS AACPlayer, SequenceTheorems, TLAPS

USE CapacityAssumption, StreamAssumption

\* The three indices, and who may point where at which step of run():  the
\* reader never works on the buffer the player holds, once awakened it can go
\* on, and it ends only when stopped.
Control ==
  /\ DOMAIN buffers = Index
  /\ indexMine \in Index /\ indexBlocked \in Index /\ stopped \in BOOLEAN
  /\ rpc \in {"new", "loop", "fill", "read", "lock", "wait", "awake", "done"}
  /\ ppc \in {"out", "next", "wait"}
  /\ rpc = "loop" => stopped \/ indexMine # indexBlocked
  /\ rpc \in {"new", "fill", "read", "lock", "wait", "awake"} => indexMine # indexBlocked
  /\ rpc = "awake" => stopped \/ Succ(indexMine) # indexBlocked
  /\ rpc = "done" => stopped

ControlInv == Control /\ NoLostWakeup

\* Going round three buffers.
LEMMA RoundThree ==
  /\ \A i \in Index : Succ(i) \in Index /\ Succ(i) # i
  /\ \A i, j \in Index : Succ(i) = j => Succ(j) # i
  /\ \A i, j \in Index : i # j /\ Succ(i) # j => Succ(j) = i
<1>1. Index = {0, 1, 2}
  BY DEF Index
<1>2. Succ(0) = 1 /\ Succ(1) = 2 /\ Succ(2) = 0
  BY DEF Succ
<1> QED BY ONLY <1>1, <1>2, SMT

\* Making the reader starts it in a state with everything in place.
LEMMA InitControl == Init => ControlInv
  BY DEF Init, ControlInv, Control, NoLostWakeup, MustWait, Index, Succ

\* No step of either thread takes anything out of its place.
LEMMA NextControl == ControlInv /\ [Next]_vars => ControlInv'
<1> SUFFICES ASSUME ControlInv, [Next]_vars PROVE ControlInv'
  OBVIOUS
<1> USE DEF ControlInv, Control, NoLostWakeup, MustWait
<1>0. CASE StartRun
  BY <1>0 DEF StartRun, fields, playing
<1>1. CASE TakeBuffer
  BY <1>1 DEF TakeBuffer, Resized, playing
<1>2. CASE Fill
  BY <1>2 DEF Fill, playing
<1>3. CASE ReadSome
  BY <1>3 DEF ReadSome, Read, playing
<1>4. CASE EndOfStream
  BY <1>4 DEF EndOfStream, playing, fields
<1>5. CASE Publish
  <2>1. CASE MustWait
    BY <1>5, <2>1, RoundThree DEF Publish, GoOn, NotifyPlayer
  <2>2. CASE ~MustWait
    BY <1>5, <2>2, RoundThree DEF Publish, GoOn, NotifyPlayer
  <2> QED BY <2>1, <2>2
<1>6. CASE Awake
  <2>1. ~MustWait
    BY <1>6 DEF Awake
  <2> QED BY <1>6, <2>1, RoundThree DEF Awake, GoOn, playing
<1>7. CASE BeginNext
  BY <1>7 DEF BeginNext, fields, reading
<1>8. CASE TakeNext
  <2>1. CASE Succ(indexBlocked) # indexMine
    BY <1>8, <2>1, RoundThree DEF TakeNext, NotifyReader
  <2>2. CASE Succ(indexBlocked) = indexMine
    BY <1>8, <2>2, RoundThree DEF TakeNext
  <2> QED BY <2>1, <2>2
<1>9. CASE Stop
  BY <1>9 DEF Stop, NotifyReader, fields, playing
<1>10. CASE \E c \in Capacities : SetCapacity(c)
  BY <1>10 DEF SetCapacity, reading, playing
<1>11. CASE UNCHANGED vars
  BY <1>11 DEF vars, fields, reading, playing
<1> QED BY <1>0, <1>1, <1>2, <1>3, <1>4, <1>5, <1>6, <1>7, <1>8, <1>9, <1>10, <1>11
        DEF Next, Reader, Player

\* In every execution the indices and the two threads are in their places.
THEOREM ControlAlways == Spec => []ControlInv
  BY InitControl, NextControl, PTL DEF Spec

\* BufferReader.java:112-124, 145-160: no notify() is lost, and the two threads
\* never wait for each other.
THEOREM NoWakeupLost == Spec => []NoLostWakeup
<1>1. ControlInv => NoLostWakeup
  BY DEF ControlInv
<1> QED BY <1>1, ControlAlways, PTL

\* Only taking a buffer, filling it and reading into it change a buffer, and
\* that is never the one the player holds.
LEMMA HeldStep ==
  ControlInv /\ [Next]_vars =>
    [indexBlocked' = indexBlocked => buffers'[indexBlocked] = buffers[indexBlocked]]_vars
<1> SUFFICES ASSUME ControlInv, Next, indexBlocked' = indexBlocked
             PROVE  buffers'[indexBlocked] = buffers[indexBlocked]
  OBVIOUS
<1>1. CASE TakeBuffer
  BY <1>1 DEF TakeBuffer, Resized, ControlInv, Control
<1>2. CASE Fill
  BY <1>2 DEF Fill, ControlInv, Control
<1>3. CASE ReadSome
  BY <1>3 DEF ReadSome, Read, ControlInv, Control
<1>4. CASE StartRun \/ EndOfStream \/ Publish \/ Awake \/ Player
  BY <1>4 DEF StartRun, EndOfStream, Publish, Awake, Player, BeginNext, TakeNext, Stop,
              SetCapacity, fields
<1> QED BY <1>1, <1>2, <1>3, <1>4 DEF Next, Reader

\* BufferReader.java:87-124: the reader never touches the player's buffer.
THEOREM HeldAlwaysStays == Spec => HeldStays
  BY ControlAlways, HeldStep, PTL DEF Spec, HeldStays

-----------------------------------------------------------------------------
\* The bytes. Between the player's buffer and the reader's are those that are
\* full and not yet taken, one at most while the reader works on another.
FirstFull == Succ(indexBlocked)
Working == rpc \in {"fill", "read", "lock", "wait", "awake"}
InHand == IF Working THEN total ELSE 0
Waiting == IF indexMine = FirstFull THEN 0
           ELSE IF indexMine = Succ(FirstFull) THEN buffers[FirstFull].size
           ELSE buffers[FirstFull].size + buffers[Succ(FirstFull)].size

\* Buffer i holds the bytes that follow byte number from.
Holds(i, from) == \A k \in 1..buffers[i].size : buffers[i].data[k] = from + k

\* What the stream has yielded was returned, or waits, or is in the reader's
\* hand, in this order.
Contents ==
  /\ fetched = Len(got) + Waiting + InHand
  /\ indexMine # FirstFull => Holds(FirstFull, Len(got))
  /\ indexMine = indexBlocked => Holds(Succ(FirstFull), Len(got) + buffers[FirstFull].size)
  /\ Working => \A k \in 1..total : buffers[indexMine].data[k] = Len(got) + Waiting + k
  /\ rpc \in {"lock", "wait", "awake"} => buffers[indexMine].size = total
  /\ rpc \in {"fill", "read", "lock", "wait", "awake"} => total <= Len(buffers[indexMine].data)
  /\ rpc \in {"fill", "read", "lock"} => cap = Len(buffers[indexMine].data)

BytesInv == ControlInv /\ TypeOK /\ buffers \in [Index -> Chunk] /\ InOrder /\ Contents

\* A buffer's bytes are a sequence as long as the capacity it was made with.
LEMMA ChunkIsSeq ==
  ASSUME NEW b \in Chunk
  PROVE  /\ b.data \in Seq(0..StreamLength) /\ Len(b.data) \in Capacities /\ Len(b.data) \in Nat
         /\ DOMAIN b.data = 1..Len(b.data) /\ b.size \in Nat
         /\ b.data \in [1..Len(b.data) -> 0..StreamLength]
<1>1. PICK c \in Capacities : b.data \in [1..c -> 0..StreamLength]
  BY DEF Chunk
<1>2. b.data \in Seq(0..StreamLength) /\ c \in Nat
  BY <1>1, SeqDef
<1>3. Len(b.data) = c
  BY <1>1, <1>2, LenProperties
<1> QED BY <1>1, <1>2, <1>3 DEF Chunk

LEMMA MadeBuffer ==
  ASSUME NEW c \in Capacities
  PROVE  Buffer(c) \in Chunk /\ Buffer(c).size = 0 /\ Len(Buffer(c).data) = c
<1>1. Buffer(c).data \in [1..c -> 0..StreamLength] /\ Buffer(c).size = 0
  BY DEF Buffer
<1>2. Buffer(c) \in Chunk
  BY <1>1 DEF Chunk, Buffer
<1>3. DOMAIN Buffer(c).data = 1..c /\ c \in Nat
  BY DEF Buffer
<1> QED BY <1>1, <1>2, <1>3, ChunkIsSeq, LenProperties

LEMMA InitBytes == Init => BytesInv
<1> SUFFICES ASSUME Init PROVE BytesInv
  OBVIOUS
<1>1. ControlInv
  BY InitControl
<1>2. \A i \in Index : buffers[i] \in Chunk /\ buffers[i].size = 0 /\ Len(buffers[i].data) = FirstCapacity
  BY MadeBuffer DEF Init
<1>3. got = <<>> /\ got \in Seq(0..StreamLength) /\ Len(got) = 0
  BY EmptySeq DEF Init
<1>4. TypeOK
  <2>1. FirstCapacity \in Nat /\ 0 \in Index /\ 2 \in Index
    BY DEF Index
  <2>2. DOMAIN buffers = Index
    BY DEF Init
  <2> QED BY <1>2, <1>3, <2>1, <2>2 DEF Init, TypeOK
<1>5. InOrder
  BY <1>3, EmptySeq, LenProperties DEF InOrder
<1>6. FirstFull = 0
  BY DEF Init, FirstFull, Succ
<1>7. Contents
  BY <1>3, <1>6 DEF Init, Contents, Waiting, InHand, Working
<1>8. buffers \in [Index -> Chunk]
  BY MadeBuffer DEF Init
<1> QED BY <1>1, <1>4, <1>5, <1>7, <1>8 DEF BytesInv

\* What the proofs below need of the types.
LEMMA BytesTypes ==
  ASSUME BytesInv
  PROVE  /\ \A i \in Index : buffers[i] \in Chunk /\ buffers[i].size \in Nat /\ Len(buffers[i].data) \in Nat
         /\ buffers \in [Index -> Chunk] /\ indexMine \in Index /\ indexBlocked \in Index
         /\ FirstFull \in Index /\ Succ(FirstFull) \in Index /\ Succ(Succ(FirstFull)) = indexBlocked
         /\ FirstFull # indexBlocked /\ Succ(FirstFull) # FirstFull /\ Succ(FirstFull) # indexBlocked
         /\ capacity \in Capacities /\ cap \in Capacities /\ cap \in Nat /\ total \in Nat
         /\ fetched \in 0..StreamLength /\ got \in Seq(0..StreamLength) /\ Len(got) \in Nat
         /\ Waiting \in Nat /\ InHand \in Nat
<1>1. \A i \in Index : buffers[i] \in Chunk /\ buffers[i].size \in Nat /\ Len(buffers[i].data) \in Nat
  BY ChunkIsSeq DEF BytesInv, TypeOK
<1>2. /\ indexMine \in Index /\ indexBlocked \in Index /\ capacity \in Capacities /\ cap \in Capacities
      /\ total \in Nat /\ fetched \in 0..StreamLength /\ got \in Seq(0..StreamLength) /\ DOMAIN buffers = Index
  BY DEF BytesInv, TypeOK
<1>3. /\ FirstFull \in Index /\ Succ(FirstFull) \in Index /\ Succ(Succ(FirstFull)) = indexBlocked
      /\ FirstFull # indexBlocked /\ Succ(FirstFull) # FirstFull /\ Succ(FirstFull) # indexBlocked
  BY <1>2 DEF FirstFull, Index, Succ
<1>4. buffers \in [Index -> Chunk]
  BY DEF BytesInv
<1>5. Len(got) \in Nat /\ cap \in Nat
  BY <1>2, LenProperties
<1>6. Waiting \in Nat /\ InHand \in Nat
  BY <1>1, <1>2, <1>3 DEF Waiting, InHand
<1> QED BY <1>1, <1>2, <1>3, <1>4, <1>5, <1>6

\* Taking a buffer to fill it: one of the wanted size, and nothing in hand.
LEMMA BytesTaken ==
  ASSUME BytesInv, TakeBuffer, ControlInv'
  PROVE  BytesInv'
<1>0. /\ \A i \in Index : buffers[i] \in Chunk /\ buffers[i].size \in Nat /\ Len(buffers[i].data) \in Nat
      /\ buffers \in [Index -> Chunk] /\ indexMine \in Index /\ FirstFull \in Index /\ Succ(FirstFull) \in Index
      /\ cap \in Capacities /\ cap \in Nat /\ total \in Nat /\ Len(got) \in Nat /\ Waiting \in Nat
      /\ Succ(FirstFull) # FirstFull /\ TypeOK /\ InOrder /\ Contents
      /\ Succ(FirstFull) # indexBlocked /\ FirstFull # indexBlocked /\ Succ(Succ(FirstFull)) = indexBlocked
  BY BytesTypes DEF BytesInv
<1>1. /\ rpc = "loop" /\ UNCHANGED <<capacity, indexMine, indexBlocked, stopped, cap, fetched, ppc, got, ended>>
      /\ fetched = Len(got) + Waiting
  BY <1>0 DEF TakeBuffer, playing, Contents, InHand, Working
<1>2. CASE stopped
  <2>1. rpc' = "done" /\ UNCHANGED <<buffers, total>>
    BY <1>2 DEF TakeBuffer
  <2>2. TypeOK' /\ InOrder'
    BY <1>0, <1>1, <2>1 DEF TypeOK, InOrder
  <2>3. Waiting' = Waiting /\ FirstFull' = FirstFull /\ InHand' = 0
    BY <1>1, <2>1 DEF Waiting, FirstFull, InHand, Working
  <2>4. Contents'
    BY <1>0, <1>1, <2>1, <2>3 DEF Contents, Holds, Working
  <2> QED BY <1>0, <2>1, <2>2, <2>4 DEF BytesInv
<1>3. CASE ~stopped
  <2>1. rpc' = "fill" /\ total' = 0 /\ buffers' = Resized
    BY <1>3 DEF TakeBuffer
  <2>2. indexMine # indexBlocked
    BY <1>1, <1>3 DEF BytesInv, ControlInv, Control
  <2>3. /\ buffers' \in [Index -> Chunk] /\ Len(buffers'[indexMine].data) = cap
        /\ buffers'[indexMine].size <= Len(buffers'[indexMine].data)
        /\ \A i \in Index \ {indexMine} : buffers'[i] = buffers[i]
    <3>1. CASE cap = Len(buffers[indexMine].data)
      BY <1>0, <2>1, <3>1 DEF Resized, TypeOK
    <3>2. CASE cap # Len(buffers[indexMine].data)
      BY <1>0, <2>1, <3>2, MadeBuffer DEF Resized
    <3> QED BY <3>1, <3>2
  <2>4. TypeOK'
    <3>1. DOMAIN buffers' = Index
      BY <2>3
    <3>2. \A i \in Index : buffers'[i] \in Chunk /\ buffers'[i].size <= Len(buffers'[i].data)
      BY <1>0, <2>3 DEF TypeOK
    <3> QED BY <1>0, <1>1, <2>1, <3>1, <3>2 DEF TypeOK
  <2>5. FirstFull' = FirstFull /\ (indexMine # FirstFull => indexMine = Succ(FirstFull))
    BY <1>0, <1>1, <2>2 DEF FirstFull, Index, Succ
  <2>6. Waiting' = Waiting /\ InHand' = 0
    BY <1>0, <1>1, <2>1, <2>3, <2>5 DEF Waiting, InHand, Working
  <2>7. Contents'
    BY <1>0, <1>1, <2>1, <2>2, <2>3, <2>5, <2>6 DEF Contents, Holds
  <2>8. InOrder'
    BY <1>0, <1>1 DEF InOrder
  <2> QED BY <2>3, <2>4, <2>7, <2>8 DEF BytesInv
<1> QED BY <1>2, <1>3

\* The size of a buffer that is full.
LEMMA BytesFilled ==
  ASSUME BytesInv, Fill, ControlInv'
  PROVE  BytesInv'
<1>0. /\ \A i \in Index : buffers[i] \in Chunk /\ buffers[i].size \in Nat /\ Len(buffers[i].data) \in Nat
      /\ buffers \in [Index -> Chunk] /\ indexMine \in Index /\ FirstFull \in Index /\ Succ(FirstFull) \in Index
      /\ cap \in Capacities /\ cap \in Nat /\ total \in Nat /\ Len(got) \in Nat /\ Waiting \in Nat
      /\ Succ(FirstFull) # FirstFull /\ TypeOK /\ InOrder /\ Contents
      /\ Succ(FirstFull) # indexBlocked /\ FirstFull # indexBlocked /\ Succ(Succ(FirstFull)) = indexBlocked
  BY BytesTypes DEF BytesInv
<1>1. /\ rpc = "fill" /\ UNCHANGED <<capacity, indexMine, indexBlocked, stopped, cap, total, fetched, ppc, got, ended>>
      /\ indexMine # indexBlocked /\ FirstFull' = FirstFull
  BY DEF Fill, playing, BytesInv, ControlInv, Control, FirstFull
<1>2. /\ total <= Len(buffers[indexMine].data) /\ cap = Len(buffers[indexMine].data)
  BY <1>0, <1>1 DEF Contents
<1>3. CASE ~Full
  <2>1. rpc' = "read" /\ UNCHANGED buffers
    BY <1>3 DEF Fill
  <2>2. TypeOK' /\ InOrder'
    BY <1>0, <1>1, <2>1 DEF TypeOK, InOrder
  <2>3. Waiting' = Waiting /\ InHand' = InHand
    BY <1>1, <2>1 DEF Waiting, FirstFull, InHand, Working
  <2>4. Contents'
    BY <1>0, <1>1, <2>1, <2>3 DEF Contents, Holds, Working
  <2> QED BY <1>0, <2>1, <2>2, <2>4 DEF BytesInv
<1>4. CASE Full
  <2>1. rpc' = "lock" /\ buffers' = [buffers EXCEPT ![indexMine].size = total]
    BY <1>4 DEF Fill
  <2>2. /\ buffers'[indexMine].size = total /\ buffers'[indexMine].data = buffers[indexMine].data
        /\ \A i \in Index \ {indexMine} : buffers'[i] = buffers[i]
        /\ buffers' \in [Index -> Chunk]
    BY <1>0, <2>1 DEF Chunk
  <2>3. TypeOK'
    <3>1. DOMAIN buffers' = Index
      BY <2>2
    <3>2. \A i \in Index : buffers'[i] \in Chunk /\ buffers'[i].size <= Len(buffers'[i].data)
      BY <1>0, <1>2, <2>2 DEF TypeOK
    <3> QED BY <1>0, <1>1, <2>1, <3>1, <3>2 DEF TypeOK
  <2>4. indexMine # FirstFull => indexMine = Succ(FirstFull)
    BY <1>0, <1>1 DEF FirstFull, Index, Succ
  <2>5. Waiting' = Waiting /\ InHand' = InHand
    BY <1>0, <1>1, <2>1, <2>2, <2>4 DEF Waiting, InHand, Working
  <2>6. Contents'
    BY <1>0, <1>1, <1>2, <2>1, <2>2, <2>4, <2>5 DEF Contents, Holds, Working
  <2>7. InOrder'
    BY <1>0, <1>1 DEF InOrder
  <2> QED BY <2>2, <2>3, <2>6, <2>7 DEF BytesInv
<1> QED BY <1>3, <1>4

\* A step that moves neither the bytes nor the indices.
LEMMA BytesKept ==
  ASSUME BytesInv, ControlInv',
         UNCHANGED <<buffers, indexMine, indexBlocked, total, fetched, got>>,
         capacity' \in Capacities, ended' \in BOOLEAN,
         \/ rpc' = rpc /\ cap' = cap
         \/ rpc = "new" /\ rpc' = "loop" /\ cap' \in Capacities
         \/ rpc = "read" /\ rpc' = "fill" /\ cap' = cap
         \/ rpc \in {"lock", "wait", "awake"} /\ rpc' \in {"wait", "awake"} /\ cap' = cap
  PROVE  BytesInv'
<1>1. FirstFull' = FirstFull /\ Waiting' = Waiting /\ InHand' = InHand
  BY DEF FirstFull, Waiting, InHand, Working
<1>2. stopped' \in BOOLEAN /\ ppc' \in {"out", "next", "wait"}
  BY DEF ControlInv, Control
<1>3. TypeOK'
  BY <1>2 DEF BytesInv, TypeOK
<1>4. Contents'
  BY <1>1 DEF BytesInv, Contents, Holds, Working
<1>5. InOrder' /\ buffers' \in [Index -> Chunk]
  BY DEF BytesInv, InOrder
<1> QED BY <1>3, <1>4, <1>5 DEF BytesInv

\* n bytes of the stream, behind those that are in hand.
LEMMA BytesRead ==
  ASSUME BytesInv, ControlInv', NEW n \in 1..MinOf(cap - total, StreamLength - fetched), Read(n)
  PROVE  BytesInv'
<1>0. /\ \A i \in Index : buffers[i] \in Chunk /\ buffers[i].size \in Nat /\ Len(buffers[i].data) \in Nat
      /\ buffers \in [Index -> Chunk] /\ indexMine \in Index /\ FirstFull \in Index /\ Succ(FirstFull) \in Index
      /\ cap \in Capacities /\ cap \in Nat /\ total \in Nat /\ Len(got) \in Nat /\ Waiting \in Nat
      /\ Succ(FirstFull) # FirstFull /\ TypeOK /\ InOrder /\ Contents /\ fetched \in 0..StreamLength
      /\ Succ(FirstFull) # indexBlocked /\ FirstFull # indexBlocked /\ Succ(Succ(FirstFull)) = indexBlocked
  BY BytesTypes DEF BytesInv
<1>1. /\ rpc = "read" /\ rpc' = "fill" /\ total' = total + n /\ fetched' = fetched + n
      /\ UNCHANGED <<capacity, indexMine, indexBlocked, stopped, cap, ppc, got, ended>>
      /\ indexMine # indexBlocked /\ FirstFull' = FirstFull
  BY DEF Read, playing, BytesInv, ControlInv, Control, FirstFull
<1>2. n \in Nat /\ total + n <= cap /\ fetched + n <= StreamLength
  BY <1>0 DEF MinOf
<1>3. cap = Len(buffers[indexMine].data) /\ fetched = Len(got) + Waiting + total
  BY <1>0, <1>1 DEF Contents, InHand, Working
<1> DEFINE old == buffers[indexMine]
           new == buffers'[indexMine]
<1>4. /\ old.data \in [1..cap -> 0..StreamLength] /\ DOMAIN old.data = 1..cap
  BY <1>0, <1>3, ChunkIsSeq
<1>5. /\ new.data = [i \in 1..cap |-> IF i \in total + 1..total + n THEN fetched + i - total ELSE old.data[i]]
      /\ new.size = old.size /\ new = [data |-> new.data, size |-> old.size]
      /\ \A i \in Index \ {indexMine} : buffers'[i] = buffers[i]
      /\ buffers' = [buffers EXCEPT ![indexMine] = new]
  BY <1>0, <1>4 DEF Read, Chunk
<1>6. new.data \in [1..cap -> 0..StreamLength]
  BY <1>0, <1>2, <1>4, <1>5
<1>7. new \in Chunk /\ Len(new.data) = cap
  <2>1. new \in Chunk
    BY <1>0, <1>5, <1>6 DEF Chunk
  <2>2. DOMAIN new.data = 1..cap
    BY <1>6
  <2>3. DOMAIN new.data = 1..Len(new.data) /\ Len(new.data) \in Nat
    BY <2>1, ChunkIsSeq
  <2>4. \A k \in Nat : k \in 1..cap <=> k \in 1..Len(new.data)
    BY ONLY <2>2, <2>3
  <2>5. cap \in Nat \ {0} /\ Len(new.data) \in Nat \ {0}
    BY <1>0, <2>1, ChunkIsSeq
  <2> HIDE DEF new
  <2>6. cap \in 1..Len(new.data) /\ Len(new.data) \in 1..cap
    BY ONLY <2>4, <2>5
  <2> QED BY ONLY <2>1, <2>5, <2>6
<1>8. buffers' \in [Index -> Chunk]
  BY <1>0, <1>5, <1>7
<1>9. TypeOK'
  <2>1. DOMAIN buffers' = Index
    BY <1>8
  <2>2. \A i \in Index : buffers'[i] \in Chunk /\ buffers'[i].size <= Len(buffers'[i].data)
    BY <1>0, <1>3, <1>5, <1>7 DEF TypeOK
  <2>3. total + n \in Nat /\ fetched + n \in 0..StreamLength
    BY <1>0, <1>2
  <2> QED BY <1>0, <1>1, <1>2, <2>1, <2>2, <2>3 DEF TypeOK
<1>10. indexMine # FirstFull => indexMine = Succ(FirstFull)
  BY <1>0, <1>1 DEF FirstFull, Index, Succ
<1>11. Waiting' = Waiting /\ InHand' = total + n
  BY <1>0, <1>1, <1>5, <1>10 DEF Waiting, InHand, Working
<1>12. \A k \in 1..total + n : new.data[k] = Len(got) + Waiting + k
  <2>1. \A k \in 1..total : old.data[k] = Len(got) + Waiting + k
    BY <1>0, <1>1 DEF Contents, Working
  <2>2. ASSUME NEW k \in 1..total + n PROVE new.data[k] = Len(got) + Waiting + k
    <3>1. k \in 1..cap /\ k \in Nat
      BY <1>0, <1>2
    <3>2. CASE k <= total
      <4>1. k \in 1..total /\ k \notin total + 1..total + n
        BY <1>0, <3>1, <3>2
      <4> QED BY <1>5, <2>1, <3>1, <4>1
    <3>3. CASE k > total
      <4>1. k \in total + 1..total + n
        BY <1>0, <1>2, <3>1, <3>3
      <4>2. new.data[k] = fetched + k - total
        BY <1>5, <3>1, <4>1
      <4> HIDE DEF new
      <4> QED BY <1>0, <1>3, <3>1, <4>2
    <3> QED BY <1>0, <3>1, <3>2, <3>3
  <2> QED BY <2>2
<1>13. Contents'
  <2>1. fetched' = Len(got') + Waiting' + InHand'
    BY <1>0, <1>1, <1>2, <1>3, <1>11
  <2>2. (indexMine # FirstFull => Holds(FirstFull, Len(got)))'
    BY <1>0, <1>1, <1>5 DEF Contents, Holds
  <2>3. \A k \in 1..total' : buffers'[indexMine'].data[k] = Len(got') + Waiting' + k
    BY <1>1, <1>11, <1>12
  <2> QED BY <1>1, <1>2, <1>7, <2>1, <2>2, <2>3 DEF Contents
<1>14. InOrder'
  BY <1>0, <1>1 DEF InOrder
<1> QED BY <1>8, <1>9, <1>13, <1>14 DEF BytesInv

\* The reader goes on to the next buffer: what was in its hand is waiting.
LEMMA BytesPublished ==
  ASSUME BytesInv, ControlInv', rpc \in {"lock", "awake"}, GoOn,
         UNCHANGED <<buffers, capacity, indexBlocked, stopped, total, fetched, got, ended>>
  PROVE  BytesInv'
<1>0. /\ \A i \in Index : buffers[i] \in Chunk /\ buffers[i].size \in Nat /\ Len(buffers[i].data) \in Nat
      /\ buffers \in [Index -> Chunk] /\ indexMine \in Index /\ FirstFull \in Index /\ Succ(FirstFull) \in Index
      /\ capacity \in Capacities /\ total \in Nat /\ Len(got) \in Nat /\ Waiting \in Nat
      /\ Succ(FirstFull) # FirstFull /\ TypeOK /\ InOrder /\ Contents
      /\ Succ(FirstFull) # indexBlocked /\ FirstFull # indexBlocked /\ Succ(Succ(FirstFull)) = indexBlocked
      /\ indexMine # indexBlocked
  BY BytesTypes DEF BytesInv, ControlInv, Control
<1>1. CASE MustWait
  BY <1>0, <1>1, BytesKept DEF GoOn, TypeOK, BytesInv
<1>2. CASE ~MustWait
  <2>1. rpc' = "loop" /\ indexMine' = Succ(indexMine) /\ cap' = capacity /\ FirstFull' = FirstFull
    BY <1>2 DEF GoOn, FirstFull
  <2>2. /\ buffers[indexMine].size = total /\ fetched = Len(got) + Waiting + total
        /\ \A k \in 1..total : buffers[indexMine].data[k] = Len(got) + Waiting + k
    BY <1>0 DEF Contents, InHand, Working
  <2>3. Waiting' = Waiting + total /\ InHand' = 0 /\ Contents'
    <3>1. CASE indexMine = FirstFull
      <4>1. Waiting = 0 /\ Waiting' = total /\ InHand' = 0
        BY <1>0, <2>1, <2>2, <3>1 DEF Waiting, InHand, Working
      <4>2. \A k \in 1..buffers[FirstFull].size : buffers[FirstFull].data[k] = Len(got) + k
        <5>1. ASSUME NEW k \in 1..total PROVE Len(got) + Waiting + k = Len(got) + k
          BY <1>0, <4>1
        <5> QED BY <2>2, <3>1, <5>1
      <4>3. Holds(FirstFull, Len(got))'
        BY <2>1, <4>2 DEF Holds
      <4> QED BY <1>0, <2>1, <2>2, <3>1, <4>1, <4>3 DEF Contents, Working
    <3>2. CASE indexMine = Succ(FirstFull)
      <4>1. Waiting = buffers[FirstFull].size /\ Waiting' = Waiting + total /\ InHand' = 0
        BY <1>0, <2>1, <2>2, <3>2 DEF Waiting, InHand, Working
      <4>2. \A k \in 1..buffers[Succ(FirstFull)].size :
              buffers[Succ(FirstFull)].data[k] = Len(got) + buffers[FirstFull].size + k
        BY <1>0, <2>2, <3>2, <4>1
      <4>3. Holds(Succ(FirstFull), Len(got) + buffers[FirstFull].size)'
        BY <2>1, <4>2 DEF Holds
      <4>4. Holds(FirstFull, Len(got))'
        BY <1>0, <2>1, <3>2 DEF Holds, Contents
      <4> QED BY <1>0, <2>1, <2>2, <4>1, <4>3, <4>4 DEF Contents, Working
    <3> QED BY <1>0, <3>1, <3>2 DEF FirstFull, Index, Succ
  <2>4. ppc' \in {"out", "next", "wait"} /\ Succ(indexMine) \in Index
    BY <1>0, RoundThree DEF ControlInv, Control
  <2>5. TypeOK'
    BY <1>0, <2>1, <2>4 DEF TypeOK
  <2>6. InOrder' /\ buffers' \in [Index -> Chunk]
    BY <1>0 DEF InOrder
  <2> QED BY <2>3, <2>5, <2>6 DEF BytesInv
<1> QED BY <1>1, <1>2

\* next() returns the bytes that come after those it has returned.
LEMMA BytesGot ==
  ASSUME BytesInv, ControlInv', TakeNext
  PROVE  BytesInv'
<1>0. /\ \A i \in Index : buffers[i] \in Chunk /\ buffers[i].size \in Nat /\ Len(buffers[i].data) \in Nat
      /\ buffers \in [Index -> Chunk] /\ indexMine \in Index /\ FirstFull \in Index /\ Succ(FirstFull) \in Index
      /\ capacity \in Capacities /\ total \in Nat /\ got \in Seq(0..StreamLength) /\ Len(got) \in Nat
      /\ Succ(FirstFull) # FirstFull /\ TypeOK /\ InOrder /\ Contents
      /\ Succ(FirstFull) # indexBlocked /\ FirstFull # indexBlocked /\ Succ(Succ(FirstFull)) = indexBlocked
  BY BytesTypes DEF BytesInv
<1>1. CASE FirstFull = indexMine
  BY <1>0, <1>1, BytesKept DEF TakeNext, FirstFull, TypeOK
<1>2. CASE FirstFull # indexMine
  <2> DEFINE chunk == buffers[FirstFull]
             part == SubSeq(chunk.data, 1, chunk.size)
  <2>1. /\ indexBlocked' = FirstFull /\ got' = got \o part /\ ended' = FALSE /\ NotifyReader
        /\ UNCHANGED <<buffers, capacity, indexMine, stopped, cap, total, fetched>>
    BY <1>2 DEF TakeNext, FirstFull
  <2>2. chunk.size <= Len(chunk.data) /\ chunk.data \in Seq(0..StreamLength)
    BY <1>0, ChunkIsSeq DEF TypeOK
  <2>3. /\ part \in Seq(0..StreamLength) /\ Len(part) = chunk.size
        /\ \A k \in 1..chunk.size : part[k] = chunk.data[k]
    BY SMTT(30), <1>0, <2>2, SubSeqProperties
  <2>4. Holds(FirstFull, Len(got))
    BY <1>0, <1>2 DEF Contents
  <2>5. \A k \in 1..chunk.size : part[k] = Len(got) + k
    BY <2>3, <2>4 DEF Holds
  <2>6. /\ got' \in Seq(0..StreamLength) /\ Len(got') = Len(got) + chunk.size
        /\ \A k \in 1..Len(got') : got'[k] = IF k <= Len(got) THEN got[k] ELSE part[k - Len(got)]
    BY <1>0, <2>1, <2>3, ConcatProperties
  <2>7. \A k \in 1..Len(got') : got'[k] = k
    <3>0. Len(got) \in Nat /\ Len(got') \in Nat
      BY <1>0, <2>6
    <3>1. \A k \in 1..Len(got) : got[k] = k
      BY <1>0 DEF InOrder
    <3>2. ASSUME NEW k \in 1..Len(got'), k > Len(got) PROVE got'[k] = k
      <4>1. k - Len(got) \in 1..chunk.size /\ Len(got) + (k - Len(got)) = k
        BY <1>0, <2>6, <3>2
      <4>2. ~(k <= Len(got))
        BY <3>0, <3>2
      <4>3. got'[k] = IF k <= Len(got) THEN got[k] ELSE part[k - Len(got)]
        BY <2>6, Zenon
      <4> QED BY <2>5, <4>1, <4>2, <4>3
    <3>3. ASSUME NEW k \in 1..Len(got'), ~(k > Len(got)) PROVE got'[k] = k
      BY SMTT(30), <1>0, <2>6, <3>1, <3>3
    <3> QED BY <3>2, <3>3
  <2>8. InOrder'
    <3>1. got' = [k \in DOMAIN got' |-> got'[k]] /\ DOMAIN got' = 1..Len(got')
      BY <2>6, LenProperties
    <3> QED BY <2>7, <3>1 DEF InOrder
  <2>9. rpc' = rpc \/ (rpc = "wait" /\ rpc' = "awake")
    BY <2>1 DEF NotifyReader
  <2>10. TypeOK'
    <3>1. ppc' \in {"out", "next", "wait"} /\ rpc' \in {"new", "loop", "fill", "read", "lock", "wait", "awake", "done"}
      BY DEF ControlInv, Control
    <3> QED BY <1>0, <2>1, <2>6, <2>9, <3>1 DEF TypeOK
  <2>11. FirstFull' = Succ(FirstFull) /\ Succ(Succ(FirstFull)) = indexBlocked /\ Working' = Working /\ InHand' = InHand
    BY <1>0, <2>1, <2>9 DEF FirstFull, Working, InHand
  <2>12. Waiting = chunk.size + Waiting' /\ Waiting' \in Nat
    <3>1. CASE indexMine = Succ(FirstFull)
      BY <1>0, <1>2, <2>1, <2>11, <3>1 DEF Waiting
    <3>2. CASE indexMine = indexBlocked
      BY <1>0, <1>2, <2>1, <2>11, <3>2 DEF Waiting
    <3> QED BY <1>0, <1>2, <3>1, <3>2 DEF FirstFull, Index, Succ
  <2>13. Len(got') + Waiting' = Len(got) + Waiting
    BY <1>0, <2>6, <2>12
  <2>14. Contents'
    <3>1. fetched' = Len(got') + Waiting' + InHand'
      <4>1. fetched = Len(got) + Waiting + InHand
        BY <1>0 DEF Contents
      <4> QED BY <2>1, <2>11, <2>13, <4>1
    <3>2. indexMine' # FirstFull' => Holds(FirstFull, Len(got))'
      <4>1. ASSUME indexMine # Succ(FirstFull) PROVE indexMine = indexBlocked
        BY <1>0, <1>2, <4>1 DEF FirstFull, Index, Succ
      <4>2. ASSUME indexMine # Succ(FirstFull) PROVE Holds(Succ(FirstFull), Len(got) + chunk.size)
        BY <1>0, <4>1, <4>2 DEF Contents
      <4> QED BY <2>1, <2>6, <2>11, <4>2 DEF Holds
    <3>3. indexMine' # indexBlocked'
      BY <1>2, <2>1
    <3>4. Working' => \A k \in 1..total' : buffers'[indexMine'].data[k] = Len(got') + Waiting' + k
      <4>1. Working => \A k \in 1..total : buffers[indexMine].data[k] = Len(got) + Waiting + k
        BY <1>0 DEF Contents
      <4> QED BY <2>1, <2>11, <2>13, <4>1
    <3>5. /\ rpc' \in {"lock", "wait", "awake"} => buffers'[indexMine'].size = total'
          /\ rpc' \in {"fill", "read", "lock", "wait", "awake"} => total' <= Len(buffers'[indexMine'].data)
          /\ rpc' \in {"fill", "read", "lock"} => cap' = Len(buffers'[indexMine'].data)
      BY <1>0, <2>1, <2>9 DEF Contents
    <3> QED BY <3>1, <3>2, <3>3, <3>4, <3>5 DEF Contents
  <2>15. buffers' \in [Index -> Chunk]
    BY <1>0, <2>1
  <2> QED BY <2>8, <2>10, <2>14, <2>15 DEF BytesInv
<1> QED BY <1>1, <1>2

\* No step loses, repeats or swaps a byte.
LEMMA NextBytes == BytesInv /\ [Next]_vars => BytesInv'
<1> SUFFICES ASSUME BytesInv, [Next]_vars PROVE BytesInv'
  OBVIOUS
<1>0. ControlInv'
  BY NextControl DEF BytesInv
<1>t. capacity \in Capacities /\ ended \in BOOLEAN
  BY DEF BytesInv, TypeOK
<1>1. CASE StartRun
  BY <1>0, <1>1, <1>t, BytesKept DEF StartRun, fields, playing
<1>2. CASE TakeBuffer
  BY <1>0, <1>2, BytesTaken
<1>3. CASE Fill
  BY <1>0, <1>3, BytesFilled
<1>4. CASE ReadSome
  BY <1>0, <1>4, BytesRead DEF ReadSome
<1>5. CASE EndOfStream
  BY <1>0, <1>5, <1>t, BytesKept DEF EndOfStream, fields, playing
<1>6. CASE Publish
  BY <1>0, <1>6, BytesPublished DEF Publish
<1>7. CASE Awake
  BY <1>0, <1>7, BytesPublished DEF Awake, playing
<1>8. CASE BeginNext
  BY <1>0, <1>8, <1>t, BytesKept DEF BeginNext, fields, reading
<1>9. CASE TakeNext
  BY <1>0, <1>9, BytesGot
<1>10. CASE Stop
  BY <1>0, <1>10, <1>t, BytesKept DEF Stop, NotifyReader, fields, playing
<1>11. CASE \E c \in Capacities : SetCapacity(c)
  BY <1>0, <1>11, <1>t, BytesKept DEF SetCapacity, reading, playing
<1>12. CASE UNCHANGED vars
  BY <1>0, <1>12, <1>t, BytesKept DEF vars, fields, reading, playing
<1> QED BY <1>1, <1>2, <1>3, <1>4, <1>5, <1>6, <1>7, <1>8, <1>9, <1>10, <1>11, <1>12
        DEF Next, Reader, Player

\* In every execution each byte the stream yielded is where it belongs.
THEOREM BytesAlways == Spec => []BytesInv
  BY InitBytes, NextBytes, PTL DEF Spec

\* BufferReader.java:82-175: the player gets the bytes of the stream in order,
\* none twice and none left out.
THEOREM ReaderIsSafe == Spec => []ReaderSafe
<1>1. BytesInv => ReaderSafe
  BY DEF BytesInv, ReaderSafe
<1> QED BY <1>1, BytesAlways, PTL

\* next() returns null only when the stream is stopped and nothing is full; a
\* reader that sleeps then would be one whose notify() was lost.
LEMMA NullStep ==
  BytesInv /\ [Next]_vars =>
    [ended' /\ ~ended =>
       Len(got) = fetched - (IF rpc \in {"fill", "read", "lock", "awake"} THEN total ELSE 0)]_vars
<1> SUFFICES ASSUME BytesInv, Next, ended' /\ ~ended
             PROVE  Len(got) = fetched - (IF rpc \in {"fill", "read", "lock", "awake"} THEN total ELSE 0)
  OBVIOUS
<1>1. TakeNext
  BY DEF Next, Reader, Player, StartRun, TakeBuffer, Fill, ReadSome, Read, EndOfStream, Publish,
         Awake, BeginNext, Stop, SetCapacity, playing
<1>2. FirstFull = indexMine /\ stopped
  BY <1>1 DEF TakeNext, FirstFull
<1>3. rpc # "wait"
  BY <1>2 DEF BytesInv, ControlInv, NoLostWakeup, MustWait
<1>4. Waiting = 0 /\ InHand = (IF rpc \in {"fill", "read", "lock", "awake"} THEN total ELSE 0)
  BY <1>2, <1>3 DEF Waiting, InHand, Working
<1>5. fetched = Len(got) + Waiting + InHand
  BY DEF BytesInv, Contents
<1> QED BY <1>4, <1>5, BytesTypes

\* BufferReader.java:108-124, 145-160: when next() returns null the player has
\* had everything but the buffer that is just being filled.
THEOREM NullComesLast == Spec => NullAfterAllButTheLast
  BY BytesAlways, NullStep, PTL DEF Spec, NullAfterAllButTheLast

-----------------------------------------------------------------------------
\* AACPlayer, which extends the reader with a PCMFeed: its sound, and who may sleep.

\* So what was proved of the reader holds of the player's reader.
LEMMA MovesTheReader == [PlayNext]_allVars => [Next]_vars
<1> SUFFICES ASSUME [PlayNext]_allVars PROVE [Next]_vars
  OBVIOUS
<1> USE DEF readerVars
<1>1. CASE PlayThread
  BY <1>1 DEF PlayThread, Play, CallNext, Started, StartFails, BeginDecode, Decoded,
     BreakOrFeed, BreakOrGoOn, GoRound, StopFeed, StopReader, Join, Next, Player
<1>2. CASE InNext \/ ReadThread
  BY <1>2 DEF InNext, ReadThread, Next, Player
<1>3. CASE InFeed \/ FeedThread \/ StopPlayer \/ UNCHANGED allVars
  BY <1>3 DEF InFeed, FeedThread, StopPlayer, allVars
<1> QED BY <1>1, <1>2, <1>3 DEF PlayNext

-----------------------------------------------------------------------------
\* The parts of its invariant.

\* Block b is decoded into this array.
ArrayOf(b) == (b + 2) % 3

\* The block that is played, or was played last, what is left of it to be
\* played, and the last block that was fed.
Latest == IF played = <<>> THEN 0 ELSE played[Len(played)]
Taken == fpc \in {"acquired", "write"}
Current == IF Taken THEN pcm[lsamples] ELSE Latest
Rest == IF Taken THEN ln ELSE 0
Fed == IF samples = NoArray THEN Current ELSE pcm[samples]

\* Types.
FeedTypes ==
  /\ samples \in 0..3 /\ lsamples \in 0..3
  /\ samplesCount \in Nat /\ ln \in Nat /\ nsamp \in Nat
  /\ fpc \in {"new", "check", "acquire", "wait", "acquired", "write", "done"}
  /\ cpc \in {"out", "feed", "wait"}
  /\ pcm \in [0..2 -> 0..Len(Samples)] /\ played \in Seq(1..Len(Samples))
  /\ apc \in {"new", "start", "loop", "decode", "decoded", "feed", "rate",
              "finally", "stop", "join", "done"}
  /\ decodeBufferIndex \in 0..2 /\ decoded \in 0..Len(Samples)

\* Where the feed and its caller may be while play() is at each place.
CallInv ==
  /\ apc \in {"new", "start"} => fpc = "new" /\ decoded = 0 /\ decodeBufferIndex = 0 /\ ~feedStopped
  /\ fpc = "new" => /\ apc \in {"new", "start", "finally", "stop", "join", "done"}
                    /\ samples = NoArray /\ samplesCount = 0 /\ played = <<>>
  /\ cpc # "out" => apc = "feed"
  /\ feedStopped => trackFailed \/ apc \in {"stop", "join", "done"}
  /\ trackFailed => feedStopped /\ fpc = "done"
  /\ fpc = "done" => feedStopped
  /\ cpc = "wait" => samples # NoArray
  /\ fpc = "wait" => samples = NoArray /\ ~feedStopped
  /\ apc \in {"stop", "join", "done"} => fpc = "new" \/ feedStopped

\* Which array is the decoder's, and what it has just decoded.
AboutToFeed == apc = "decoded" /\ nsamp # 0
ArrayInv ==
  /\ apc \in {"loop", "decode"} => decodeBufferIndex = ArrayOf(decoded + 1)
  /\ apc \in {"feed", "rate"} \/ AboutToFeed =>
       /\ decodeBufferIndex = ArrayOf(decoded) /\ decoded \in 1..Len(Samples)
       /\ pcm[decodeBufferIndex] = decoded /\ nsamp = Samples[decoded]
  /\ cpc # "out" => offer.s = decodeBufferIndex /\ offer.n = nsamp

\* What the feed plays and what waits in its slot are one block and the next,
\* in their arrays, and the block after them is being decoded.
TakenInv ==
  /\ fpc = "write" \/ (fpc = "acquired" /\ ~feedStopped) =>
       /\ Current \in 1..decoded /\ lsamples = ArrayOf(Current) /\ ln \in 1..Samples[Current]
       /\ fpc = "acquired" => ln = Samples[Current]
  /\ ~feedStopped =>
       /\ samplesCount = 0 <=> samples = NoArray
       /\ samples # NoArray => /\ Fed = Current + 1 /\ Fed <= decoded
                                 /\ samples = ArrayOf(Fed) /\ samplesCount = Samples[Fed]
       /\ apc \in {"loop", "decode", "rate"} \/ (apc = "feed" /\ cpc = "out") => Fed = decoded
       /\ AboutToFeed \/ cpc # "out" => Fed + 1 = decoded

\* Unless playing has stopped in the middle of a block, where a block begins in
\* what was played its end can be told: the current one has Rest samples to
\* come, every other one is over.
Counted == fpc = "write" \/ ~feedStopped
LevelInv ==
  Counted =>
    /\ \A i \in 1..Len(played) : played[i] <= Current
    /\ \A i \in 1..Len(played) : Begins(i) =>
         IF played[i] = Current
           THEN i + Samples[Current] = Len(played) + Rest + 1
           ELSE /\ i + Samples[played[i]] <= Len(played) + 1
                /\ i + Samples[played[i]] = Len(played) + 1 =>
                     Current = played[i] + 1 /\ Rest = Samples[Current]
    /\ Current > 0 => IF Rest < Samples[Current] THEN played # <<>> /\ Latest = Current
                                                 ELSE Current = Latest + 1

FeedInv == FeedTypes /\ CallInv /\ ArrayInv /\ TakenInv
SoundInv == FeedInv /\ LevelInv /\ PlaysTheSound

\* A step that leaves what was played, and what is being played, as it is.
StaysInPlace == UNCHANGED <<played, Current, Rest>> /\ (Counted' => Counted)

\* Three arrays in turn: the next two blocks are in other arrays.
LEMMA ThreeArrays ==
  \A n \in Nat : /\ ArrayOf(n) \in 0..2 /\ ArrayOf(n + 1) = (ArrayOf(n) + 1) % 3
                 /\ ArrayOf(n + 1) # ArrayOf(n) /\ ArrayOf(n + 2) # ArrayOf(n)
  BY DEF ArrayOf

\* No block is empty.
LEMMA BlockSizes == Len(Samples) \in Nat /\ \A b \in 1..Len(Samples) : Samples[b] \in Nat \ {0}
  BY SamplesAssumption

\* The player starts with nothing decoded, fed or played.
LEMMA InitSound == PlayInit => SoundInv
<1> SUFFICES ASSUME PlayInit PROVE SoundInv
  OBVIOUS
<1> USE DEF PlayInit, Feed!Init, NoArray, Arrays
<1>1. played = <<>> /\ Len(played) = 0 /\ played \in Seq(1..Len(Samples))
  OBVIOUS
<1>2. Current = 0 /\ ~Taken
  BY DEF Current, Latest, Taken
<1>3. FeedTypes
  BY <1>1 DEF FeedTypes
<1>4. CallInv /\ ArrayInv /\ TakenInv
  BY <1>2 DEF CallInv, ArrayInv, TakenInv, AboutToFeed, Taken
<1>5. LevelInv /\ PlaysTheSound
  BY <1>1, <1>2 DEF LevelInv, PlaysTheSound
<1> QED BY <1>3, <1>4, <1>5 DEF SoundInv, FeedInv

\* Steps of play() and of the reader that only move play() on.
PlaysOn ==
  /\ UNCHANGED <<samples, samplesCount, lsamples, feedStopped, ln, fpc, cpc, offer, accepted,
                 trackFailed, pcm, played, decodeBufferIndex, decoded, nsamp>>
  /\ \/ apc' = apc
     \/ apc = "new" /\ apc' = "start"
     \/ apc \in {"start", "decoded"} /\ apc' = "finally"
     \/ apc = "feed" /\ cpc = "out" /\ apc' \in {"rate", "finally"}
     \/ apc = "stop" /\ apc' = "join"
     \/ apc = "join" /\ apc' = "done"

\* These are the steps that move only play().
LEMMA PlaysOnMeans ==
  \/ Play \/ CallNext \/ StartFails \/ BreakOrGoOn \/ StopReader \/ Join
  \/ (BreakOrFeed /\ (nsamp = 0 \/ playerStopped))
  \/ InNext \/ ReadThread \/ StopPlayer \/ UNCHANGED allVars
  => PlaysOn
<1> USE DEF PlaysOn, feedVars, decoding, playerVars, GoTo
<1>1. CASE Play \/ CallNext \/ StartFails
  BY <1>1 DEF Play, CallNext, StartFails
<1>2. CASE BreakOrGoOn
  BY <1>2 DEF BreakOrGoOn
<1>3. CASE StopReader \/ Join
  BY <1>3 DEF StopReader, Join
<1>4. CASE BreakOrFeed /\ (nsamp = 0 \/ playerStopped)
  BY <1>4 DEF BreakOrFeed
<1>5. CASE InNext \/ ReadThread \/ StopPlayer
  BY <1>5 DEF InNext, ReadThread, StopPlayer
<1>6. CASE UNCHANGED allVars
  BY <1>6 DEF allVars
<1> QED BY <1>1, <1>2, <1>3, <1>4, <1>5, <1>6

\* No step of the player's thread gives the feed a block out of turn, nor
\* overwrites an array that it plays.
LEMMA PlayFeeds ==
  ASSUME FeedInv, PlayThread \/ PlaysOn
  PROVE  FeedInv' /\ StaysInPlace
<1> USE DEF feedVars, decoding, playerVars, GoTo, NoArray
<1>0. /\ FeedTypes /\ CallInv /\ ArrayInv /\ TakenInv
      /\ Len(Samples) \in Nat /\ \A b \in 1..Len(Samples) : Samples[b] \in Nat \ {0}
  BY BlockSizes DEF FeedInv
<1>1. CASE PlaysOn
  <2>1. UNCHANGED <<Taken, Current, Fed, feedStopped>>
    BY <1>1 DEF PlaysOn, Taken, Current, Fed, Latest
  <2>2. FeedTypes' /\ CallInv'
    BY <1>0, <1>1 DEF PlaysOn, FeedTypes, CallInv
  <2>3. ArrayInv' /\ TakenInv'
    BY <1>0, <1>1, <2>1 DEF PlaysOn, CallInv, ArrayInv, TakenInv, AboutToFeed
  <2>4. StaysInPlace
    BY <1>1, <2>1 DEF PlaysOn, StaysInPlace, Rest, Counted
  <2> QED BY <2>2, <2>3, <2>4 DEF FeedInv
<1>2. CASE Started
  <2>1. UNCHANGED <<Current, Fed>> /\ Current = 0
    BY <1>0, <1>2 DEF Started, Feed!Start, Feed!slot, Current, Fed, Latest, Taken, CallInv
  <2>2. FeedTypes' /\ CallInv'
    BY <1>0, <1>2 DEF Started, Feed!Start, Feed!slot, Feed!calling, FeedTypes, CallInv
  <2>3. ArrayInv'
    <3>1. ArrayOf(1) = 0
      BY DEF ArrayOf
    <3> QED BY <1>0, <1>2, <3>1 DEF Started, Feed!Start, Feed!slot, Feed!calling,
               ArrayInv, CallInv, AboutToFeed
  <2>4. TakenInv'
    BY <1>0, <1>2, <2>1 DEF Started, Feed!Start, Feed!slot, Feed!calling,
       TakenInv, CallInv, AboutToFeed, Fed
  <2>5. StaysInPlace
    BY <1>0, <1>2, <2>1 DEF Started, Feed!Start, Feed!slot, StaysInPlace, Rest, Taken,
       Counted, CallInv
  <2> QED BY <2>2, <2>3, <2>4, <2>5 DEF FeedInv
<1>3. CASE BeginDecode \/ Decoded
  <2>1. /\ apc \in {"loop", "decode"} /\ apc' \in {"decode", "decoded"}
        /\ UNCHANGED <<samples, samplesCount, lsamples, feedStopped, ln, fpc, cpc, offer,
                       accepted, trackFailed, played, decodeBufferIndex>>
        /\ \A a \in 0..2 : a # decodeBufferIndex => pcm'[a] = pcm[a]
        /\ \/ UNCHANGED <<decoded, nsamp>> /\ apc' = "decode"
           \/ UNCHANGED decoded /\ nsamp' = 0 /\ apc' = "decoded"
           \/ /\ decoded' = decoded + 1 /\ decoded' \in 1..Len(Samples) /\ nsamp' = Samples[decoded']
              /\ apc' = "decoded" /\ pcm'[decodeBufferIndex] = decoded'
        /\ pcm' \in [0..2 -> 0..Len(Samples)]
    <3>1. CASE BeginDecode
      BY <1>0, <3>1 DEF BeginDecode, FeedTypes
    <3>2. CASE Decoded
      BY <1>0, <3>2 DEF Decoded, FeedTypes, MaxBlocks
    <3> QED BY <1>3, <3>1, <3>2
  <2>2. decodeBufferIndex = ArrayOf(decoded + 1) /\ cpc = "out" /\ decodeBufferIndex \in 0..2
        /\ decoded \in Nat
    BY <1>0, <2>1 DEF ArrayInv, CallInv, FeedTypes
  <2>3. Taken => ~feedStopped /\ lsamples = ArrayOf(Current) /\ Current \in 1..decoded
    BY <1>0, <2>1 DEF CallInv, TakenInv, Taken, FeedTypes
  <2>4. ~feedStopped => Fed = decoded
    BY <1>0, <2>1 DEF TakenInv
  <2>5. Taken => lsamples # decodeBufferIndex /\ lsamples \in 0..2
    <3>1. SUFFICES ASSUME Taken PROVE ArrayOf(Current) # ArrayOf(decoded + 1) /\ ArrayOf(Current) \in 0..2
      BY <2>2, <2>3
    <3>2. Current = decoded \/ Current + 1 = decoded
      BY <1>0, <2>3, <2>4, <3>1 DEF TakenInv, Fed
    <3>3. Current \in Nat
      BY <2>2, <2>3, <3>1
    <3>4. CASE Current = decoded
      BY <3>3, <3>4, ThreeArrays
    <3>5. CASE Current + 1 = decoded
      <4>1. decoded + 1 = Current + 2
        BY <3>3, <3>5
      <4> QED BY <3>3, <4>1, ThreeArrays
    <3> QED BY <3>2, <3>4, <3>5
  <2>6. ~feedStopped /\ samples # NoArray => samples # decodeBufferIndex /\ samples \in 0..2
    <3>1. ~feedStopped /\ samples # NoArray => samples = ArrayOf(decoded)
      BY <1>0, <2>4 DEF TakenInv
    <3> QED BY <2>2, <3>1, ThreeArrays
  <2>7. Current' = Current /\ Taken' = Taken /\ (~feedStopped => Fed' = Fed)
    BY <2>1, <2>5, <2>6 DEF Current, Taken, Latest, Fed
  <2>8. FeedTypes'
    <3>1. nsamp' \in Nat /\ decoded' \in 0..Len(Samples)
      BY <1>0, <2>1 DEF FeedTypes
    <3> QED BY <1>0, <2>1, <3>1 DEF FeedTypes
  <2>11. CallInv'
    BY <1>0, <2>1 DEF CallInv
  <2>9. ArrayInv'
    BY <1>0, <2>1, <2>2 DEF ArrayInv, AboutToFeed
  <2>10. TakenInv'
    BY <1>0, <2>1, <2>2, <2>4, <2>7 DEF TakenInv, AboutToFeed
  <2>12. StaysInPlace
    BY <2>1, <2>7 DEF StaysInPlace, Rest, Counted
  <2> QED BY <2>8, <2>9, <2>10, <2>11, <2>12 DEF FeedInv
<1>4. CASE BreakOrFeed /\ ~(nsamp = 0 \/ playerStopped)
  <2>1. /\ apc = "decoded" /\ apc' = "feed" /\ nsamp # 0 /\ cpc = "out" /\ cpc' = "feed"
        /\ offer' = [s |-> decodeBufferIndex, n |-> nsamp]
        /\ UNCHANGED <<samples, samplesCount, lsamples, feedStopped, ln, fpc,
                       trackFailed, pcm, played, decodeBufferIndex, decoded, nsamp>>
    BY <1>4 DEF BreakOrFeed, Feed!BeginFeed, Feed!slot, Feed!running
  <2>2. UNCHANGED <<Taken, Current, Fed>>
    BY <2>1 DEF Taken, Current, Fed, Latest
  <2>3. FeedTypes' /\ CallInv'
    BY <1>0, <2>1 DEF FeedTypes, CallInv
  <2>4. ArrayInv'
    BY <1>0, <2>1 DEF ArrayInv, AboutToFeed
  <2>5. TakenInv'
    BY <1>0, <2>1, <2>2 DEF TakenInv, AboutToFeed
  <2>6. StaysInPlace
    BY <2>1, <2>2 DEF StaysInPlace, Rest, Counted
  <2> QED BY <2>3, <2>4, <2>5, <2>6 DEF FeedInv
<1>5. CASE GoRound
  <2>1. /\ apc = "rate" /\ apc' \in {"loop", "finally"}
        /\ decodeBufferIndex' = (decodeBufferIndex + 1) % 3
        /\ UNCHANGED <<samples, samplesCount, lsamples, feedStopped, ln, fpc, cpc, offer,
                       trackFailed, pcm, played, decoded, nsamp>>
    BY <1>5 DEF GoRound, NextIndex
  <2>2. decodeBufferIndex' = ArrayOf(decoded + 1) /\ decodeBufferIndex' \in 0..2 /\ cpc = "out"
    BY SMTT(30), <1>0, <2>1, ThreeArrays DEF ArrayInv, CallInv, FeedTypes
  <2>3. UNCHANGED <<Taken, Current, Fed>>
    BY <2>1 DEF Taken, Current, Fed, Latest
  <2>4. FeedTypes' /\ CallInv'
    BY <1>0, <2>1, <2>2 DEF FeedTypes, CallInv
  <2>5. ArrayInv' /\ TakenInv'
    BY <1>0, <2>1, <2>2, <2>3 DEF ArrayInv, TakenInv, AboutToFeed
  <2>6. StaysInPlace
    BY <2>1, <2>3 DEF StaysInPlace, Rest, Counted
  <2> QED BY <2>4, <2>5, <2>6 DEF FeedInv
<1>6. CASE StopFeed
  <2>1. /\ apc = "finally" /\ apc' = "stop" /\ cpc = "out"
        /\ UNCHANGED <<samples, samplesCount, lsamples, ln, cpc, offer,
                       trackFailed, pcm, played, decodeBufferIndex, decoded, nsamp>>
        /\ \/ fpc = "new" /\ UNCHANGED <<fpc, feedStopped>>
           \/ fpc # "new" /\ feedStopped' = TRUE /\ fpc' = IF fpc = "wait" THEN "acquire" ELSE fpc
    BY <1>0, <1>6 DEF StopFeed, Feed!Stop, Feed!NotifyRun, Feed!slot, Feed!calling, CallInv
  <2>2. UNCHANGED <<Taken, Current, Fed>>
    BY <2>1 DEF Taken, Current, Fed, Latest
  <2>3. FeedTypes' /\ CallInv'
    BY <1>0, <2>1 DEF FeedTypes, CallInv
  <2>4. ArrayInv' /\ TakenInv'
    BY <1>0, <2>1, <2>2 DEF ArrayInv, TakenInv, AboutToFeed
  <2>5. StaysInPlace
    BY <2>1, <2>2 DEF StaysInPlace, Rest, Counted
  <2> QED BY <2>3, <2>4, <2>5 DEF FeedInv
<1> QED BY <1>1, <1>2, <1>3, <1>4, <1>5, <1>6, PlaysOnMeans DEF PlayThread

\* What was played last is a block, or nothing.
LEMMA LatestType == FeedTypes => Latest \in 0..Len(Samples)
<1> SUFFICES ASSUME FeedTypes, played # <<>> PROVE played[Len(played)] \in 0..Len(Samples)
  BY DEF Latest, FeedTypes
<1>1. played \in Seq(1..Len(Samples))
  BY DEF FeedTypes
<1> QED BY <1>1

\* What the track takes are samples of the current block.
LEMMA WriteMeans ==
  ASSUME FeedInv, NEW k \in 1..ln, Feed!Write(k)
  PROVE  /\ ln \in Nat /\ ln' = ln - k /\ fpc = "write"
         /\ fpc' = IF ln' = 0 THEN "check" ELSE "write"
         /\ UNCHANGED <<samples, samplesCount, lsamples, feedStopped, cpc, offer, accepted,
                        trackFailed, pcm>>
         /\ Current \in 1..decoded /\ Current \in 1..Len(Samples)
         /\ played' \in Seq(1..Len(Samples)) /\ Len(played') = Len(played) + k
         /\ \A i \in 1..Len(played) : played'[i] = played[i]
         /\ \A i \in Len(played) + 1 .. Len(played') : played'[i] = Current
         /\ played' # <<>> /\ Latest' = Current /\ Current' = Current
<1>0. /\ FeedTypes /\ TakenInv /\ ln \in Nat /\ decoded \in 0..Len(Samples)
      /\ Len(Samples) \in Nat /\ played \in Seq(1..Len(Samples)) /\ Len(played) \in Nat
  BY BlockSizes DEF FeedInv, FeedTypes
<1>1. /\ ln' = ln - k /\ fpc = "write" /\ k \in 1..ln /\ fpc' = IF ln' = 0 THEN "check" ELSE "write"
      /\ UNCHANGED <<samples, samplesCount, lsamples, feedStopped, cpc, offer, accepted,
                     trackFailed, pcm>>
      /\ played' = played \o [i \in 1..k |-> pcm[lsamples]]
  BY DEF Feed!Write, Feed!slot, Feed!calling
<1>2. Current = pcm[lsamples] /\ Current \in 1..decoded
  BY <1>0, <1>1 DEF Current, Taken, TakenInv
<1>3. Current \in 1..Len(Samples)
  BY <1>0, <1>2
<1> DEFINE block == [i \in 1..k |-> pcm[lsamples]]
<1>4. block \in Seq(1..Len(Samples)) /\ Len(block) = k /\ \A i \in 1..k : block[i] = Current
  BY <1>0, <1>1, <1>2, <1>3
<1>5. played' = played \o block
  BY <1>1
<1> HIDE DEF block
<1>6. /\ played' \in Seq(1..Len(Samples)) /\ Len(played') = Len(played) + k
      /\ \A i \in 1..Len(played') :
           played'[i] = IF i <= Len(played) THEN played[i] ELSE block[i - Len(played)]
  <2>1. played' \in Seq(1..Len(Samples))
    BY <1>0, <1>4, <1>5
  <2>2. Len(played') = Len(played) + k
    <3>1. played \in Seq(1..Len(Samples)) /\ block \in Seq(1..Len(Samples))
      BY <1>0, <1>4
    <3>2. Len(played \o block) = Len(played) + Len(block)
      BY <3>1
    <3> QED BY <1>4, <1>5, <3>2
  <2>3. \A i \in 1..Len(played') :
          played'[i] = IF i <= Len(played) THEN played[i] ELSE block[i - Len(played)]
    BY <1>0, <1>4, <1>5, <2>2
  <2> QED BY <2>1, <2>2, <2>3
<1>7. \A i \in 1..Len(played) : played'[i] = played[i]
  BY <1>0, <1>1, <1>6
<1>8. \A i \in Len(played) + 1 .. Len(played') : played'[i] = Current
  BY <1>0, <1>1, <1>4, <1>6
<1>9. played' # <<>> /\ Latest' = Current
  <2>1. Len(played') > 0
    BY <1>0, <1>1, <1>6
  <2>2. played' # <<>>
    BY <2>1
  <2>3. Latest' = played'[Len(played')]
    BY <2>2 DEF Latest
  <2>4. Len(played') \in Len(played) + 1 .. Len(played')
    BY <1>0, <1>1, <1>6
  <2> QED BY <1>8, <2>2, <2>3, <2>4
<1>10. Current' = Current
  BY <1>1, <1>2, <1>9 DEF Current
<1> QED BY <1>0, <1>1, <1>2, <1>3, <1>6, <1>7, <1>8, <1>9, <1>10

\* feed() puts the decoded block into the slot, after the one that is played,
\* and acquireSamples() takes it out.
LEMMA FeedTakes ==
  ASSUME FeedInv, InFeed \/ FeedThread
  PROVE  FeedInv'
<1> USE DEF decoding, playerVars, NoArray, Feed!slot, Feed!calling
<1>0. /\ FeedTypes /\ CallInv /\ ArrayInv /\ TakenInv /\ Latest \in 0..Len(Samples)
      /\ Len(Samples) \in Nat /\ \A b \in 1..Len(Samples) : Samples[b] \in Nat \ {0}
  BY BlockSizes, LatestType DEF FeedInv
<1>k. UNCHANGED <<apc, decodeBufferIndex, decoded, nsamp, playerStopped>>
  BY DEF InFeed, FeedThread
<1>1. CASE InFeed
  <2>0. Feed!Feed
    BY <1>1 DEF InFeed
  <2>1. /\ apc = "feed" /\ cpc = "feed" /\ offer.s = decodeBufferIndex /\ offer.n = nsamp
        /\ decodeBufferIndex = ArrayOf(decoded) /\ decoded \in 1..Len(Samples)
        /\ pcm[decodeBufferIndex] = decoded /\ nsamp = Samples[decoded]
        /\ decodeBufferIndex \in 0..2 /\ fpc # "new"
    BY <1>0, <2>0 DEF Feed!Feed, CallInv, ArrayInv, FeedTypes
  <2>2. CASE Feed!MustWait
    <3>1. /\ cpc' = "wait" /\ samples # NoArray /\ ~feedStopped
          /\ UNCHANGED <<samples, samplesCount, lsamples, feedStopped, ln, fpc, offer, accepted,
                         trackFailed, pcm, played>>
      BY <2>0, <2>2 DEF Feed!Feed, Feed!MustWait
    <3>2. UNCHANGED <<Taken, Current, Fed>>
      BY <3>1 DEF Taken, Current, Fed, Latest
    <3>3. FeedTypes' /\ CallInv'
      BY <1>0, <1>k, <2>1, <3>1 DEF FeedTypes, CallInv
    <3>4. ArrayInv'
      BY <1>0, <1>k, <2>1, <3>1 DEF ArrayInv, AboutToFeed
    <3>5. TakenInv'
      BY <1>0, <1>k, <2>1, <3>1, <3>2 DEF TakenInv, AboutToFeed
    <3> QED BY <3>3, <3>4, <3>5 DEF FeedInv
  <2>3. CASE ~Feed!MustWait
    <3>1. /\ cpc' = "out" /\ samples' = decodeBufferIndex /\ samplesCount' = nsamp
          /\ fpc' = IF fpc = "wait" THEN "acquire" ELSE fpc
          /\ UNCHANGED <<lsamples, feedStopped, ln, offer, trackFailed, pcm, played>>
          /\ samples = NoArray \/ feedStopped
      BY <2>0, <2>1, <2>3 DEF Feed!Feed, Feed!MustWait, Feed!NotifyRun
    <3>2. UNCHANGED <<Taken, Current>> /\ Fed' = decoded
      BY <2>1, <3>1 DEF Taken, Current, Fed, Latest
    <3>3. FeedTypes'
      <4>1. nsamp \in Nat
        BY <1>0 DEF FeedTypes
      <4> QED BY <1>0, <1>k, <2>1, <3>1, <4>1 DEF FeedTypes
    <3>6. CallInv'
      BY <1>0, <1>k, <2>1, <3>1 DEF CallInv
    <3>4. ArrayInv'
      BY <1>0, <1>k, <2>1, <3>1 DEF ArrayInv, AboutToFeed
    <3>5. TakenInv'
      <4>1. ~feedStopped => Current + 1 = decoded
        BY <1>0, <2>1, <3>1 DEF TakenInv, Fed
      <4>2. Samples[decoded] # 0
        BY <1>0, <2>1
      <4> QED BY <1>0, <1>k, <2>1, <3>1, <3>2, <4>1, <4>2 DEF TakenInv, AboutToFeed
    <3> QED BY <3>3, <3>4, <3>5, <3>6 DEF FeedInv
  <2> QED BY <2>2, <2>3
<1>2. CASE Feed!Check
  <2>1. /\ fpc = "check" /\ fpc' = IF feedStopped THEN "done" ELSE "acquire"
        /\ UNCHANGED <<samples, samplesCount, lsamples, feedStopped, ln, cpc, offer, accepted,
                       trackFailed, pcm, played>>
    BY <1>2 DEF Feed!Check
  <2>2. UNCHANGED <<Taken, Current, Fed>>
    BY <2>1 DEF Taken, Current, Fed, Latest
  <2>3. FeedTypes' /\ CallInv'
    BY <1>0, <1>k, <2>1 DEF FeedTypes, CallInv
  <2>4. ArrayInv' /\ TakenInv'
    BY <1>0, <1>k, <2>1, <2>2 DEF ArrayInv, TakenInv, AboutToFeed
  <2> QED BY <2>3, <2>4 DEF FeedInv
<1>3. CASE Feed!Acquire /\ samplesCount = 0 /\ ~feedStopped
  <2>1. /\ fpc = "acquire" /\ fpc' = "wait" /\ ~feedStopped /\ samplesCount = 0
        /\ UNCHANGED <<samples, samplesCount, lsamples, feedStopped, ln, cpc, offer, accepted,
                       trackFailed, pcm, played>>
    BY <1>3 DEF Feed!Acquire
  <2>2. UNCHANGED <<Taken, Current, Fed>> /\ samples = NoArray
    BY <1>0, <2>1 DEF Taken, Current, Fed, Latest, TakenInv
  <2>3. FeedTypes' /\ CallInv'
    BY <1>0, <1>k, <2>1, <2>2 DEF FeedTypes, CallInv
  <2>4. ArrayInv' /\ TakenInv'
    BY <1>0, <1>k, <2>1, <2>2 DEF ArrayInv, TakenInv, AboutToFeed
  <2> QED BY <2>3, <2>4 DEF FeedInv
<1>4. CASE Feed!Acquire /\ ~(samplesCount = 0 /\ ~feedStopped)
  <2>1. /\ fpc = "acquire" /\ fpc' = "acquired" /\ lsamples' = samples /\ ln' = samplesCount
        /\ samples' = NoArray /\ samplesCount' = 0
        /\ cpc' = IF cpc = "wait" THEN "feed" ELSE cpc
        /\ UNCHANGED <<feedStopped, offer, accepted, trackFailed, pcm, played>>
        /\ samplesCount # 0 \/ feedStopped
    BY <1>4 DEF Feed!Acquire, Feed!NotifyFeeder
  <2>2. Current' = pcm[samples] /\ Fed' = pcm[samples] /\ Current = Latest
    BY <2>1 DEF Taken, Current, Fed
  <2>3. FeedTypes'
    BY <1>0, <1>k, <2>1 DEF FeedTypes
  <2>4. CallInv'
    BY <1>0, <1>k, <2>1 DEF CallInv
  <2>5. ArrayInv'
    BY <1>0, <1>k, <2>1 DEF ArrayInv, AboutToFeed
  <2>6. TakenInv'
    <3>1. CASE feedStopped
      BY <2>1, <3>1 DEF TakenInv
    <3>2. CASE ~feedStopped
      <4>1. /\ Fed = pcm[samples] /\ Fed = Current + 1 /\ Fed <= decoded
            /\ samples = ArrayOf(Fed) /\ samplesCount = Samples[Fed] /\ samples # NoArray
        BY <1>0, <2>1, <3>2 DEF TakenInv, Fed
      <4>2. Fed \in 1..decoded /\ Fed \in 1..Len(Samples)
        <5>1. Current \in Nat /\ decoded \in 0..Len(Samples)
          BY <1>0, <2>2 DEF FeedTypes
        <5> QED BY <1>0, <4>1, <5>1
      <4>3. Samples[Fed] \in 1..Samples[Fed]
        BY <1>0, <4>2
      <4>4. Current' = Fed /\ Fed' = Fed
        BY <2>2, <4>1
      <4> QED BY <1>0, <1>k, <2>1, <3>2, <4>1, <4>2, <4>3, <4>4 DEF TakenInv, AboutToFeed
    <3> QED BY <3>1, <3>2
  <2> QED BY <2>3, <2>4, <2>5, <2>6 DEF FeedInv
<1>5. CASE Feed!CheckAcquired
  <2>1. /\ fpc = "acquired" /\ fpc' = IF feedStopped THEN "done" ELSE "write"
        /\ UNCHANGED <<samples, samplesCount, lsamples, feedStopped, ln, cpc, offer, accepted,
                       trackFailed, pcm, played>>
    BY <1>5 DEF Feed!CheckAcquired
  <2>2. ~feedStopped => UNCHANGED <<Taken, Current, Fed>>
    BY <2>1 DEF Taken, Current, Fed, Latest
  <2>3. FeedTypes' /\ CallInv'
    BY <1>0, <1>k, <2>1 DEF FeedTypes, CallInv
  <2>4. ArrayInv' /\ TakenInv'
    BY <1>0, <1>k, <2>1, <2>2 DEF ArrayInv, TakenInv, AboutToFeed
  <2> QED BY <2>3, <2>4 DEF FeedInv
<1>6. ASSUME NEW k \in 1..ln, Feed!Write(k)
      PROVE  FeedInv'
  <2>1. /\ ln \in Nat /\ ln' = ln - k /\ fpc = "write"
        /\ fpc' = IF ln' = 0 THEN "check" ELSE "write"
        /\ UNCHANGED <<samples, samplesCount, lsamples, feedStopped, cpc, offer, accepted,
                       trackFailed, pcm>>
        /\ Current \in 1..decoded /\ Current \in 1..Len(Samples)
        /\ played' \in Seq(1..Len(Samples)) /\ Current' = Current
    BY <1>6, WriteMeans
  <2>2. UNCHANGED <<Current, Fed>>
    BY <2>1 DEF Fed
  <2>3. ln' \in Nat /\ ln' <= Samples[Current] /\ Samples[Current] \in Nat
    BY <1>0, <2>1 DEF TakenInv
  <2>4. FeedTypes' /\ CallInv'
    BY <1>0, <1>k, <2>1, <2>3 DEF FeedTypes, CallInv
  <2>5. ArrayInv'
    BY <1>0, <1>k, <2>1 DEF ArrayInv, AboutToFeed
  <2>6. TakenInv'
    BY <1>0, <1>k, <2>1, <2>2, <2>3 DEF TakenInv, AboutToFeed
  <2> QED BY <2>4, <2>5, <2>6 DEF FeedInv
<1>7. CASE Feed!WriteFails
  <2>1. /\ fpc = "write" /\ fpc' = "done" /\ feedStopped' = TRUE /\ trackFailed' = TRUE
        /\ UNCHANGED <<samples, samplesCount, lsamples, ln, cpc, offer, accepted, pcm, played>>
    BY <1>7 DEF Feed!WriteFails
  <2>2. FeedTypes'
    BY <1>0, <1>k, <2>1 DEF FeedTypes
  <2>3. CallInv'
    BY <1>0, <1>k, <2>1 DEF CallInv
  <2>4. ArrayInv' /\ TakenInv'
    BY <1>0, <1>k, <2>1 DEF ArrayInv, TakenInv, AboutToFeed
  <2> QED BY <2>2, <2>3, <2>4 DEF FeedInv
<1> QED BY <1>1, <1>2, <1>3, <1>4, <1>5, <1>6, <1>7
        DEF FeedThread, Feed!Run, Feed!WriteSome

\* The samples of a block follow those of the block before it.
LEMMA WriteSounds ==
  ASSUME SoundInv, NEW k \in 1..ln, Feed!Write(k)
  PROVE  LevelInv' /\ PlaysTheSound'
<1> DEFINE L == Len(played)
<1>1. /\ ln \in Nat /\ ln' = ln - k /\ fpc = "write" /\ k \in 1..ln
      /\ fpc' = IF ln' = 0 THEN "check" ELSE "write"
      /\ Current \in 1..Len(Samples)
      /\ played' \in Seq(1..Len(Samples)) /\ Len(played') = L + k
      /\ \A i \in 1..L : played'[i] = played[i]
      /\ \A i \in L + 1 .. Len(played') : played'[i] = Current
      /\ played' # <<>> /\ Latest' = Current /\ Current' = Current
  BY WriteMeans DEF SoundInv
<1>2. /\ Rest = ln /\ Rest' = ln - k /\ ln <= Samples[Current]
  BY <1>1 DEF Rest, Taken, SoundInv, FeedInv, TakenInv
<1>3. /\ \A b \in 1..Len(Samples) : Samples[b] \in Nat \ {0}
      /\ Len(Samples) \in Nat /\ L \in Nat /\ played \in Seq(1..Len(Samples))
      /\ DOMAIN played = 1..L /\ DOMAIN played' = 1..(L + k)
  BY <1>1, BlockSizes DEF SoundInv, FeedInv, FeedTypes
<1>4. /\ \A i \in 1..L : played[i] <= Current
      /\ \A i \in 1..L : Begins(i) =>
           IF played[i] = Current
             THEN i + Samples[Current] = L + ln + 1
             ELSE /\ i + Samples[played[i]] <= L + 1
                  /\ i + Samples[played[i]] = L + 1 => Current = played[i] + 1
      /\ IF ln < Samples[Current] THEN played # <<>> /\ Latest = Current ELSE Current = Latest + 1
  <2>1. Counted /\ Rest = ln /\ LevelInv
    BY <1>1, <1>2 DEF SoundInv, Counted
  <2>2. \A i \in 1..L : played[i] <= Current
    BY <2>1 DEF LevelInv
  <2>3. \A i \in 1..L : Begins(i) =>
          IF played[i] = Current
            THEN i + Samples[Current] = L + ln + 1
            ELSE /\ i + Samples[played[i]] <= L + 1
                 /\ i + Samples[played[i]] = L + 1 => Current = played[i] + 1
    BY <2>1 DEF LevelInv
  <2>4. Current > 0
    BY <1>1, <1>3
  <2>5. IF ln < Samples[Current] THEN played # <<>> /\ Latest = Current ELSE Current = Latest + 1
    BY <2>1, <2>4 DEF LevelInv
  <2> QED BY <2>2, <2>3, <2>5
<1>5. \A i \in 1..L : /\ i = 1 => played[i] = 1
                      /\ Begins(i) => \A j \in 1..L :
                           /\ i <= j /\ j < i + Samples[played[i]] => played[j] = played[i]
                           /\ j = i + Samples[played[i]] => played[j] = played[i] + 1
  BY <1>3 DEF SoundInv, PlaysTheSound
<1>6. \A i \in 1..L : Begins(i)' <=> Begins(i)
  <2> TAKE i \in 1..L
  <2>1. CASE i = 1
    BY <2>1 DEF Begins
  <2>2. CASE i # 1
    <3>1. i - 1 \in 1..L
      BY <1>3, <2>2
    <3>2. played'[i - 1] = played[i - 1] /\ played'[i] = played[i]
      BY <1>1, <3>1
    <3> QED BY <3>2 DEF Begins
  <2> QED BY <2>1, <2>2
<1>7. L > 0 => Latest = played[L]
  BY <1>3 DEF Latest
<1>8. L = 0 => Latest = 0 /\ played = <<>>
  BY <1>3 DEF Latest
<1>a. \A i \in 1..L : played[i] \in 1..Len(Samples) /\ Samples[played[i]] \in Nat \ {0}
  BY <1>3
<1>9. ASSUME NEW i \in L + 1 .. L + k, Begins(i)' PROVE i = L + 1 /\ ln = Samples[Current]
  <2>1. i = 1 \/ played'[i - 1] # Current
    BY <1>1, <1>3, <1>9 DEF Begins
  <2>2. i = L + 1
    <3>1. i - 1 \notin L + 1 .. L + k \/ i = 1
      BY <1>1, <2>1
    <3>2. L \in Nat /\ k \in Nat /\ i \in L + 1 .. L + k
      BY <1>1, <1>3, <1>9
    <3> HIDE DEF L
    <3> QED BY <3>1, <3>2
  <2>3. Latest # Current
    <3>1. CASE L = 0
      BY <1>1, <1>8, <3>1
    <3>2. CASE L # 0
      <4>1. L \in 1..L /\ i - 1 = L /\ i # 1
        BY <1>3, <2>2, <3>2
      <4>2. played'[L] = played[L]
        BY <1>1, <4>1
      <4> QED BY <1>3, <1>7, <2>1, <3>2, <4>1, <4>2
    <3> QED BY <3>1, <3>2
  <2>4. ~(ln < Samples[Current])
    BY <1>4, <2>3
  <2>5. Samples[Current] \in Nat
    BY <1>1, <1>3
  <2>6. ln \in Nat /\ ln <= Samples[Current]
    BY <1>1, <1>2
  <2> QED BY <2>2, <2>4, <2>5, <2>6
<1>10. \A j \in L + 1 .. L + k : played'[j] = Current
  BY <1>1
<1> HIDE DEF L
<1>11. LevelInv'
  <2>1. \A i \in 1..L + k : played'[i] <= Current
    <3>1. TAKE i \in 1..L + k
    <3>2. CASE i <= L
      BY <1>1, <1>3, <1>4, <3>2
    <3>3. CASE i > L
      BY <1>1, <1>3, <1>10, <3>3
    <3> QED BY <1>3, <3>2, <3>3
  <2>2. ASSUME NEW i \in 1..L + k, Begins(i)'
        PROVE  IF played'[i] = Current
                 THEN i + Samples[Current] = (L + k) + (ln - k) + 1
                 ELSE /\ i + Samples[played'[i]] <= (L + k) + 1
                      /\ i + Samples[played'[i]] = (L + k) + 1 =>
                           Current = played'[i] + 1 /\ ln - k = Samples[Current]
    <3>1. CASE i <= L
      <4>1. i \in 1..L /\ played'[i] = played[i] /\ Begins(i)
        BY <1>1, <1>3, <1>6, <2>2, <3>1
      <4>2. Samples[played[i]] \in Nat /\ k \in Nat /\ k > 0
        BY <1>1, <1>a, <4>1
      <4>3. CASE played[i] = Current
        <5>1. i + Samples[Current] = L + ln + 1
          BY <1>4, <4>1, <4>3
        <5> QED BY <1>1, <1>3, <4>1, <4>2, <4>3, <5>1
      <4>4. CASE played[i] # Current
        <5>1. i + Samples[played[i]] <= L + 1
          BY <1>4, <4>1, <4>4
        <5>2. L \in Nat /\ i \in Nat /\ ln \in Nat
          BY <1>1, <1>3
        <5>3. /\ i + Samples[played[i]] <= L + k + 1
              /\ i + Samples[played[i]] # L + k + 1
          BY <4>2, <5>1, <5>2
        <5> QED BY <4>1, <4>4, <5>3
      <4> QED BY <4>3, <4>4
    <3>2. CASE i > L
      <4>1. i \in L + 1 .. L + k
        BY <1>1, <1>3, <3>2
      <4>2. i = L + 1 /\ ln = Samples[Current] /\ played'[i] = Current
        BY <1>9, <1>10, <2>2, <4>1
      <4> QED BY <1>1, <1>3, <4>2
    <3> QED BY <1>3, <3>1, <3>2
  <2>3. ln - k < Samples[Current]
    BY <1>1, <1>2, <1>3
  <2> QED BY <1>1, <1>2, <2>1, <2>2, <2>3 DEF LevelInv, L
<1>12. PlaysTheSound'
  <2> SUFFICES ASSUME NEW i \in 1..L + k
               PROVE  /\ i = 1 => played'[i] = 1
                      /\ Begins(i)' => \A j \in 1..L + k :
                           /\ i <= j /\ j < i + Samples[played'[i]] => played'[j] = played'[i]
                           /\ j = i + Samples[played'[i]] => played'[j] = played'[i] + 1
    BY <1>3 DEF PlaysTheSound
  <2>1. CASE i <= L
    <3>1. i \in 1..L /\ played'[i] = played[i] /\ (Begins(i)' => Begins(i))
      BY <1>1, <1>3, <1>6, <2>1
    <3>2. i = 1 => played'[i] = 1
      BY <1>5, <3>1
    <3>3. ASSUME Begins(i)', NEW j \in 1..L + k
          PROVE  /\ i <= j /\ j < i + Samples[played[i]] => played'[j] = played[i]
                 /\ j = i + Samples[played[i]] => played'[j] = played[i] + 1
      <4>1. CASE j <= L
        <5>1. j \in 1..L /\ played'[j] = played[j]
          BY <1>1, <1>3, <4>1
        <5> QED BY <1>5, <3>1, <3>3, <5>1
      <4>2. CASE j > L
        <5>1. j \in L + 1 .. L + k /\ played'[j] = Current
          BY <1>1, <1>3, <1>10, <4>2
        <5>2. Samples[played[i]] \in Nat
          BY <1>a, <3>1
        <5>3. CASE played[i] = Current
          <6>1. i + Samples[played[i]] = L + ln + 1
            BY <1>4, <3>1, <3>3, <5>3
          <6> QED BY <1>1, <1>3, <3>1, <5>1, <5>2, <5>3, <6>1
        <5>4. CASE played[i] # Current
          <6>1. /\ i + Samples[played[i]] <= L + 1
                /\ i + Samples[played[i]] = L + 1 => Current = played[i] + 1
            BY <1>4, <3>1, <3>3, <5>4
          <6>2. L \in Nat /\ i \in Nat /\ j \in Nat
            BY <1>3
          <6>3. ~(j < i + Samples[played[i]])
            BY <4>2, <5>2, <6>1, <6>2
          <6>4. j = i + Samples[played[i]] => i + Samples[played[i]] = L + 1
            BY <4>2, <5>2, <6>1, <6>2
          <6> QED BY <5>1, <6>1, <6>3, <6>4
        <5> QED BY <5>3, <5>4
      <4> QED BY <1>3, <4>1, <4>2
    <3> QED BY <3>1, <3>2, <3>3
  <2>2. CASE i > L
    <3>1. i \in L + 1 .. L + k /\ played'[i] = Current
      BY <1>1, <1>3, <1>10, <2>2
    <3>2. i = 1 => Current = 1
      <4>1. SUFFICES ASSUME i = 1 PROVE Current = 1
        OBVIOUS
      <4>2. Latest = 0 /\ played = <<>>
        BY <1>3, <1>8, <3>1, <4>1 DEF L
      <4> QED BY <1>4, <4>2
    <3>3. ASSUME Begins(i)', NEW j \in 1..L + k
          PROVE  /\ i <= j => played'[j] = Current
                 /\ j # i + Samples[Current]
      <4>1. i = L + 1 /\ ln = Samples[Current]
        BY <1>9, <3>1, <3>3
      <4>2. i <= j => played'[j] = Current
        BY <1>1, <1>3, <1>10, <4>1
      <4> QED BY <1>1, <1>3, <4>1, <4>2
    <3> QED BY <3>1, <3>2, <3>3
  <2> QED BY <1>3, <2>1, <2>2
<1> QED BY <1>11, <1>12

\* Nor does any other step change what was played, or take a block out of turn.
LEMMA TakeSounds ==
  ASSUME SoundInv, InFeed \/ FeedThread
  PROVE  LevelInv' /\ PlaysTheSound'
<1> USE DEF Feed!slot, Feed!calling
<1>0. FeedTypes /\ TakenInv /\ LevelInv /\ PlaysTheSound /\ FeedInv
  BY DEF SoundInv, FeedInv
<1>1. ASSUME StaysInPlace PROVE LevelInv' /\ PlaysTheSound'
  BY <1>0, <1>1 DEF StaysInPlace, LevelInv, Latest, PlaysTheSound, Begins
<1>2. CASE InFeed
  <2>1. /\ UNCHANGED <<lsamples, ln, pcm, played, feedStopped>>
        /\ fpc' = fpc \/ fpc' = IF fpc = "wait" THEN "acquire" ELSE fpc
    BY <1>2 DEF InFeed, Feed!Feed, Feed!NotifyRun
  <2> QED BY <1>1, <2>1 DEF StaysInPlace, Current, Rest, Taken, Latest, Counted
<1>3. CASE Feed!Check \/ (Feed!Acquire /\ samplesCount = 0 /\ ~feedStopped)
  <2>1. /\ UNCHANGED <<lsamples, ln, pcm, played, feedStopped>>
        /\ fpc \in {"check", "acquire"} /\ fpc' \in {"done", "acquire", "wait"}
    BY <1>3 DEF Feed!Check, Feed!Acquire
  <2> QED BY <1>1, <2>1 DEF StaysInPlace, Current, Rest, Taken, Latest, Counted
<1>4. CASE Feed!CheckAcquired
  <2>1. /\ UNCHANGED <<lsamples, ln, pcm, played, feedStopped>>
        /\ fpc = "acquired" /\ fpc' = IF feedStopped THEN "done" ELSE "write"
    BY <1>4 DEF Feed!CheckAcquired
  <2>2. CASE feedStopped
    BY <1>0, <2>1, <2>2 DEF LevelInv, Counted, PlaysTheSound, Begins
  <2>3. CASE ~feedStopped
    BY <1>1, <2>1, <2>3 DEF StaysInPlace, Current, Rest, Taken, Latest, Counted
  <2> QED BY <2>2, <2>3
<1>5. CASE Feed!WriteFails
  <2>1. UNCHANGED played /\ fpc' = "done" /\ feedStopped' = TRUE
    BY <1>5 DEF Feed!WriteFails
  <2> QED BY <1>0, <2>1 DEF LevelInv, Counted, PlaysTheSound, Begins
<1>6. CASE Feed!Acquire /\ ~(samplesCount = 0 /\ ~feedStopped)
  <2>1. /\ fpc = "acquire" /\ fpc' = "acquired" /\ lsamples' = samples /\ ln' = samplesCount
        /\ UNCHANGED <<feedStopped, pcm, played>> /\ (samplesCount # 0 \/ feedStopped)
    BY <1>6 DEF Feed!Acquire
  <2>2. PlaysTheSound'
    BY <1>0, <2>1 DEF PlaysTheSound, Begins
  <2>3. ASSUME ~feedStopped PROVE LevelInv'
    <3>1. Current = Latest /\ Rest = 0 /\ Current' = pcm[samples] /\ Latest' = Latest
      BY <2>1 DEF Current, Rest, Taken, Latest
    <3>2. /\ samples # NoArray /\ pcm[samples] = Current + 1 /\ pcm[samples] <= decoded
          /\ samplesCount = Samples[pcm[samples]]
      BY <1>0, <2>1, <2>3 DEF TakenInv, Fed
    <3>3. /\ Latest \in 0..Len(Samples) /\ decoded \in 0..Len(Samples) /\ Len(Samples) \in Nat
          /\ \A b \in 1..Len(Samples) : Samples[b] \in Nat \ {0}
          /\ \A i \in 1..Len(played) : played[i] \in 1..Len(Samples)
          /\ Len(played) \in Nat
      BY <1>0, LatestType, BlockSizes DEF FeedTypes
    <3>4. Rest' = Samples[Current + 1] /\ Current' = Current + 1 /\ Current + 1 \in 1..Len(Samples)
      BY <2>1, <3>1, <3>2, <3>3 DEF Rest, Taken
    <3>5. /\ \A i \in 1..Len(played) : played[i] <= Current
          /\ \A i \in 1..Len(played) : Begins(i) =>
               IF played[i] = Current
                 THEN i + Samples[Current] = Len(played) + 0 + 1
                 ELSE /\ i + Samples[played[i]] <= Len(played) + 1
                      /\ i + Samples[played[i]] = Len(played) + 1 =>
                           Current = played[i] + 1 /\ 0 = Samples[Current]
      BY <1>0, <2>3, <3>1 DEF LevelInv, Counted
    <3>6. ASSUME NEW i \in 1..Len(played)
          PROVE  /\ played[i] <= Current + 1 /\ played[i] # Current + 1
                 /\ Begins(i) =>
                      /\ i + Samples[played[i]] <= Len(played) + 1
                      /\ i + Samples[played[i]] = Len(played) + 1 => Current + 1 = played[i] + 1
      <4>1. played[i] <= Current /\ played[i] \in 1..Len(Samples) /\ Current \in Nat
        BY <3>1, <3>3, <3>5, <3>6
      <4>2. played[i] <= Current + 1 /\ played[i] # Current + 1
        BY <3>3, <4>1
      <4>3. ASSUME Begins(i)
            PROVE  /\ i + Samples[played[i]] <= Len(played) + 1
                   /\ i + Samples[played[i]] = Len(played) + 1 => Current + 1 = played[i] + 1
        <5>1. CASE played[i] = Current
          BY <3>3, <3>5, <4>1, <4>3, <5>1
        <5>2. CASE played[i] # Current
          <6>1. Current = played[i] + 1 => Current \in 1..Len(Samples)
            BY <3>1, <3>3, <4>1
          <6> QED BY <3>3, <3>5, <4>1, <4>3, <5>2, <6>1
        <5> QED BY <5>1, <5>2
      <4> QED BY <4>2, <4>3
    <3>7. UNCHANGED played /\ \A i \in 1..Len(played) : Begins(i)' <=> Begins(i)
      BY <2>1 DEF Begins
    <3>8. ~(Rest' < Samples[Current'])
      BY <3>3, <3>4
    <3>9. \A i \in 1..Len(played) : played[i] <= Current'
      BY <3>4, <3>6
    <3>10. \A i \in 1..Len(played) : Begins(i)' =>
             IF played[i] = Current'
               THEN i + Samples[Current'] = Len(played) + Rest' + 1
               ELSE /\ i + Samples[played[i]] <= Len(played) + 1
                    /\ i + Samples[played[i]] = Len(played) + 1 =>
                         Current' = played[i] + 1 /\ Rest' = Samples[Current']
      BY <3>4, <3>6, <3>7
    <3>11. Current' = Latest' + 1
      BY <3>1, <3>4
    <3> QED BY <3>7, <3>8, <3>9, <3>10, <3>11 DEF LevelInv
  <2>4. ASSUME feedStopped PROVE LevelInv'
    BY <2>1, <2>4 DEF LevelInv, Counted
  <2> QED BY <2>2, <2>3, <2>4
<1>7. ASSUME NEW k \in 1..ln, Feed!Write(k)
      PROVE  LevelInv' /\ PlaysTheSound'
  BY <1>7, WriteSounds
<1> QED BY <1>2, <1>3, <1>4, <1>5, <1>6, <1>7 DEF FeedThread, Feed!Run, Feed!WriteSome

\* Every step of the player keeps the sound as it was decoded.
LEMMA NextSound == SoundInv /\ [PlayNext]_allVars => SoundInv'
<1> SUFFICES ASSUME SoundInv, [PlayNext]_allVars PROVE SoundInv'
  OBVIOUS
<1>0. FeedInv /\ LevelInv /\ PlaysTheSound
  BY DEF SoundInv
<1>1. CASE PlayThread \/ PlaysOn
  <2>1. FeedInv' /\ StaysInPlace
    BY <1>0, <1>1, PlayFeeds
  <2>2. LevelInv' /\ PlaysTheSound'
    BY <1>0, <2>1 DEF StaysInPlace, LevelInv, Latest, PlaysTheSound, Begins
  <2> QED BY <2>1, <2>2 DEF SoundInv
<1>2. CASE InFeed \/ FeedThread
  BY <1>0, <1>2, FeedTakes, TakeSounds DEF SoundInv
<1> QED BY <1>1, <1>2, PlaysOnMeans DEF PlayNext

\* As long as the track has not failed every thread asleep has one to wake it.
LEMMA SoundMeansSafe == BytesInv /\ SoundInv => PlayerSafe
<1> SUFFICES ASSUME BytesInv, SoundInv PROVE PlayerSafe
  OBVIOUS
<1>1. PlayTypeOK
  <2>1. TypeOK
    BY DEF BytesInv
  <2> QED BY <2>1 DEF PlayTypeOK, SoundInv, FeedInv, FeedTypes, Arrays, NoArray, MaxBlocks
<1>2. NobodySleepsOn
  <2>1. ppc = "wait" => rpc \notin {"wait", "done"}
    BY DEF BytesInv, ControlInv, NoLostWakeup
  <2> QED BY <2>1 DEF NobodySleepsOn, SoundInv, FeedInv, CallInv
<1> QED BY <1>1, <1>2 DEF PlayerSafe, SoundInv

\* AACPlayer.java:209-320, PCMFeed.java:97-275: whatever the threads' timing
\* and wherever play() stops, what is played is the sound as it was decoded, and
\* while the track works no thread sleeps that nobody will wake.
THEOREM PlayerIsSafe == PlaySpec => []PlayerSafe
<1>1. PlayInit => BytesInv /\ SoundInv
  BY InitSound, InitBytes DEF PlayInit
<1>2. BytesInv /\ SoundInv /\ [PlayNext]_allVars => BytesInv' /\ SoundInv'
  BY NextSound, NextBytes, MovesTheReader
<1>3. BytesInv /\ SoundInv => PlayerSafe
  BY SoundMeansSafe
<1> QED BY <1>1, <1>2, <1>3, PTL DEF PlaySpec
=============================================================================
