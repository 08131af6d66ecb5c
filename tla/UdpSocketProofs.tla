--------------------------- MODULE UdpSocketProofs ---------------------------
(* Proofs about the two parts of UdpSocket.                                  *)
(*                                                                           *)
(* PacketAssembly, for any number of frames of any size, whose chunks are    *)
(* lost, reordered and mixed in any way: a frame of which nothing is         *)
(* repeated is delivered whole, once, and is not forgotten; a video frame is *)
(* delivered once whatever is repeated; and the two accounts of a frame      *)
(* agree as long as the timer does not empty one of them in an update.       *)
(*                                                                           *)
(* VideoSession and HolePunch, for any number of sessions, any bounds and    *)
(* any interleaving of their threads and timers: packets go where they       *)
(* should, the watchdog counts silence only, and no timer is left on that    *)
(* stopCam() could have cancelled.                                           *)
EXTENDS PacketAssembly, VideoSession, FiniteSetTheorems, SequenceTheorems, TLAPS

-----------------------------------------------------------------------------
\* PacketAssembly.

USE FrameAssumption

AtOpen == {"open", "putting", "opened"}
ToCopy == AtOpen \cup {"contains", "strike", "empty", "remove", "removing", "copy"}
Labels == ToCopy \cup {"receive", "deliver", "dead"}

\* vMap counts just the chunks it has got of a frame that is not repeated: each
\* came out of the network, and the packet in hand is not among them before it
\* is copied.
CountsChunks ==
  \A id \in DOMAIN vMap :
    /\ id \in Ids
    /\ vMap[id].filled \subseteq Chunks(id)
    /\ Once(id) => /\ \A c \in vMap[id].filled : arrived[[id |-> id, cur |-> c]] = 1
                   /\ vMap[id].num = Cardinality(vMap[id].filled)

InHand ==
  /\ pc # "receive" => pack \in Packets /\ arrived[pack] >= 1
  /\ pc \in AtOpen => pack.id \notin DOMAIN vMap
  /\ pc \in ToCopy /\ pack.id \in DOMAIN vMap /\ Once(pack.id) => pack.cur \notin vMap[pack.id].filled
  /\ pc = "deliver" => /\ pack.id \in DOMAIN vMap
                       /\ Once(pack.id) => vMap[pack.id].filled = Chunks(pack.id)

\* All chunks of such a frame that was delivered were used up: none is left.
Delivered ==
  \A i \in 1..Len(delivered) :
    /\ delivered[i].id \in Ids
    /\ Once(delivered[i].id) =>
         /\ \A c \in Chunks(delivered[i].id) : arrived[[id |-> delivered[i].id, cur |-> c]] = 1
         /\ pc # "receive" => pack.id # delivered[i].id

\* Such a video frame that is all there was delivered or is about to be.
NoneForgotten ==
  \A id \in DOMAIN vMap :
    vMap[id].filled = Chunks(id) /\ Kind[id] = "video" /\ Once(id) =>
      \/ \E i \in 1..Len(delivered) : delivered[i].id = id
      \/ pc = "deliver" /\ pack.id = id

Types == /\ arrived \in [Packets -> Nat] /\ pc \in Labels
         /\ vMap \in [DOMAIN vMap -> [num : Nat, filled : SUBSET Nat]]
         /\ delivered \in Seq([id : Ids, filled : SUBSET Nat])

AssemblyInv == /\ Types /\ CountsChunks /\ InHand /\ Delivered /\ NoneForgotten
               /\ OnlyWholeFrames /\ DeliveredOnce

\* A packet has the number of a frame and of one of its chunks.
LEMMA PacketFields ==
  /\ \A p \in Packets : /\ p = [id |-> p.id, cur |-> p.cur]
                        /\ p.id \in Ids /\ p.cur \in Chunks(p.id)
  /\ \A id \in Ids : \A c \in Chunks(id) : [id |-> id, cur |-> c] \in Packets
  BY DEF Packets

\* A frame has finitely many chunks, Total[id] of them.
LEMMA CountChunks ==
  \A id \in Ids : /\ IsFiniteSet(Chunks(id)) /\ Cardinality(Chunks(id)) = Total[id]
                  /\ Chunks(id) \subseteq Nat
<1> TAKE id \in Ids
<1>1. Total[id] \in Nat \ {0} /\ Total[id] - 1 \in Int /\ 0 \in Int
  OBVIOUS
<1>2. /\ IsFiniteSet(0..(Total[id] - 1))
      /\ Cardinality(0..(Total[id] - 1)) = IF 0 > Total[id] - 1 THEN 0 ELSE Total[id] - 1 - 0 + 1
  BY <1>1, FS_Interval
<1> QED BY <1>1, <1>2 DEF Chunks

\* Sets of chunks that are counted right stay so when a chunk is added.
LEMMA CountOneMore ==
  ASSUME NEW id \in Ids, NEW F \in SUBSET Chunks(id), NEW c \in Chunks(id), c \notin F
  PROVE  /\ Cardinality(F) \in Nat
         /\ Cardinality(F \cup {c}) = Cardinality(F) + 1
         /\ Cardinality(F \cup {c}) = Total[id] => F \cup {c} = Chunks(id)
<1>1. IsFiniteSet(F)
  BY CountChunks, FS_Subset
<1>2. Cardinality(F \cup {c}) = Cardinality(F) + 1
  BY <1>1, FS_AddElement
<1>3. F \cup {c} \in SUBSET Chunks(id)
  OBVIOUS
<1>4. Cardinality(Chunks(id)) = Cardinality(F \cup {c}) => Chunks(id) = F \cup {c}
  BY <1>3, CountChunks, FS_Subset
<1>5. Cardinality(F) \in Nat
  BY <1>1, FS_CardinalityType
<1> QED BY <1>2, <1>4, <1>5, CountChunks

\* A frame has a chunk 0.
LEMMA FirstChunk == \A id \in Ids : 0 \in Chunks(id) /\ Chunks(id) # {}
<1> TAKE id \in Ids
<1>1. Total[id] \in Nat \ {0}
  OBVIOUS
<1> QED BY <1>1 DEF Chunks

\* What was never repeated before a packet was not repeated then.
LEMMA OnceBefore ==
  ASSUME arrived \in [Packets -> Nat], NEW p \in Packets,
         arrived' = [arrived EXCEPT ![p] = arrived[p] + 1], NEW id \in Ids, Once(id)'
  PROVE  Once(id) /\ (id = p.id => arrived[p] = 0)
<1>1. \A c \in Chunks(id) : [id |-> id, cur |-> c] \in Packets
  BY PacketFields
<1>2. \A q \in Packets : arrived[q] \in Nat /\ arrived'[q] \in Nat /\ arrived[q] <= arrived'[q]
  OBVIOUS
<1>3. Once(id)
  BY <1>1, <1>2 DEF Once, Chunks
<1>4. ASSUME id = p.id PROVE arrived[p] = 0
  <2>1. p = [id |-> id, cur |-> p.cur] /\ p.cur \in Chunks(id)
    BY <1>4, PacketFields
  <2>2. arrived'[[id |-> id, cur |-> p.cur]] <= 1
    BY <2>1 DEF Once, Chunks
  <2>3. arrived'[p] = arrived[p] + 1 /\ arrived[p] \in Nat
    OBVIOUS
  <2> QED BY ONLY <2>1, <2>2, <2>3
<1> QED BY <1>3, <1>4

\* Nothing was counted or delivered when the socket starts.
LEMMA InitAssembly == AssemblyInit => AssemblyInv
  BY DEF AssemblyInit, AssemblyInv, Types, CountsChunks, InHand, Delivered, OnlyWholeFrames, NoneForgotten,
         DeliveredOnce, Empty, Labels, ToCopy, AtOpen

\* Steps that leave arrivals, vMap and what was delivered alone, and take the
\* packet in hand further or drop it.
LEMMA HandOn ==
  ASSUME AssemblyInv, UNCHANGED <<arrived, vMap, pack, delivered>>,
         \/ pc' = pc
         \/ pc \in ToCopy /\ pc' \in (ToCopy \ AtOpen) \cup {"receive", "dead"}
         \/ pc \in AtOpen /\ pc' \in AtOpen
  PROVE  AssemblyInv'
<1>1. Types' /\ CountsChunks' /\ OnlyWholeFrames' /\ DeliveredOnce' /\ NoneForgotten'
  BY DEF AssemblyInv, Types, CountsChunks, OnlyWholeFrames, DeliveredOnce, NoneForgotten, Once,
         Labels, ToCopy, AtOpen
<1>2. InHand'
  BY DEF AssemblyInv, InHand, ToCopy, AtOpen, Once
<1>3. Delivered'
  BY DEF AssemblyInv, Delivered, ToCopy, AtOpen, Once
<1> QED BY <1>1, <1>2, <1>3 DEF AssemblyInv

\* A packet arrives: if it is no repetition, its frame was not delivered.
LEMMA ReceiveAssembly ==
  ASSUME AssemblyInv, NEW p \in Packets, Receive(p)
  PROVE  AssemblyInv'
<1>1. /\ p = [id |-> p.id, cur |-> p.cur] /\ p.id \in Ids /\ p.cur \in Chunks(p.id)
  BY PacketFields
<1>2. /\ arrived \in [Packets -> Nat] /\ arrived' = [arrived EXCEPT ![p] = arrived[p] + 1]
      /\ arrived' \in [Packets -> Nat] /\ arrived'[p] >= 1
  BY DEF Receive, AssemblyInv, Types
<1>3. \A id \in Ids : Once(id)' => Once(id) /\ (id = p.id => arrived[p] = 0)
  BY <1>2, OnceBefore
<1>4. /\ pack' = p /\ vMap' = vMap /\ delivered' = delivered /\ pc = "receive"
      /\ \/ pc' = "open" /\ p.id \notin DOMAIN vMap
         \/ pc' = "contains"
  BY DEF Receive, frames, Has
<1>5. \A id \in Ids : \A c \in Chunks(id) :
        Once(id)' /\ arrived[[id |-> id, cur |-> c]] = 1 =>
          [id |-> id, cur |-> c] # p /\ arrived'[[id |-> id, cur |-> c]] = 1
  BY <1>1, <1>2, <1>3, PacketFields
<1>6. CountsChunks'
  BY <1>3, <1>4, <1>5 DEF AssemblyInv, CountsChunks
<1>7. p.id \in DOMAIN vMap /\ Once(p.id)' => p.cur \notin vMap[p.id].filled
  BY <1>1, <1>3, <1>5 DEF AssemblyInv, CountsChunks
<1>8. InHand'
  BY <1>2, <1>4, <1>7 DEF InHand, ToCopy, AtOpen
<1>9. Types'
  BY <1>2, <1>4 DEF AssemblyInv, Types, Labels, ToCopy, AtOpen
<1>10. Delivered'
  BY <1>1, <1>3, <1>4, <1>5 DEF AssemblyInv, Delivered
<1>11. OnlyWholeFrames' /\ DeliveredOnce' /\ NoneForgotten'
  BY <1>3, <1>4 DEF AssemblyInv, Delivered, CountsChunks, OnlyWholeFrames, DeliveredOnce, NoneForgotten
<1> QED BY <1>6, <1>8, <1>9, <1>10, <1>11 DEF AssemblyInv

\* A new entry has counted nothing yet.
LEMMA OpenAssembly == AssemblyInv /\ OpenFrame => AssemblyInv'
<1> SUFFICES ASSUME AssemblyInv, OpenFrame PROVE AssemblyInv'
  OBVIOUS
<1>1. /\ pc = "opened" /\ pc' = "contains" /\ UNCHANGED <<arrived, pack, delivered>>
      /\ pack \in Packets /\ pack.id \in Ids /\ arrived[pack] >= 1
  BY PacketFields DEF OpenFrame, GoTo, AssemblyInv, InHand
<1> DEFINE id == pack.id
<1>2. vMap' = [i \in DOMAIN vMap \cup {id} |-> IF i = id THEN NewVdata ELSE vMap[i]]
  BY DEF OpenFrame, Put
<1>3. /\ DOMAIN vMap' = DOMAIN vMap \cup {id}
      /\ vMap'[id] = [num |-> 0, filled |-> {}]
      /\ \A i \in DOMAIN vMap : i # id => vMap'[i] = vMap[i]
  BY <1>2 DEF NewVdata
<1>4. Cardinality({}) = 0
  BY FS_EmptySet
<1>o. \A i \in Ids : Once(i)' = Once(i)
  BY <1>1 DEF Once
<1>5. CountsChunks'
  <2> SUFFICES ASSUME NEW i \in DOMAIN vMap' PROVE CountsChunks!(i)'
    BY DEF CountsChunks
  <2>1. CASE i = id
    BY <2>1, <1>1, <1>3, <1>4
  <2>2. CASE i # id
    BY <2>2, <1>1, <1>3, <1>o DEF AssemblyInv, CountsChunks
  <2> QED BY <2>1, <2>2
<1>6. Types'
  <2>1. vMap' \in [DOMAIN vMap' -> [num : Nat, filled : SUBSET Nat]]
    BY <1>2, <1>3 DEF AssemblyInv, Types
  <2> QED BY <2>1, <1>1 DEF AssemblyInv, Types, Labels, ToCopy
<1>7. InHand'
  BY <1>1, <1>3 DEF InHand, ToCopy, AtOpen
<1>8. Delivered' /\ OnlyWholeFrames' /\ DeliveredOnce'
  BY <1>1, <1>o DEF AssemblyInv, Delivered, OnlyWholeFrames, DeliveredOnce
<1>9. NoneForgotten'
  BY <1>1, <1>3, <1>o, FirstChunk DEF AssemblyInv, CountsChunks, NoneForgotten
<1> QED BY <1>5, <1>6, <1>7, <1>8, <1>9 DEF AssemblyInv

\* The packet in hand is counted; a frame is complete with its last chunk.
LEMMA CopyAssembly == AssemblyInv /\ CopyChunk => AssemblyInv'
<1> SUFFICES ASSUME AssemblyInv, CopyChunk PROVE AssemblyInv'
  OBVIOUS
<1>1. /\ pc = "copy" /\ UNCHANGED <<arrived, pack, delivered>>
      /\ pack \in Packets /\ arrived[pack] >= 1
  BY DEF CopyChunk, GoTo, AssemblyInv, InHand
<1>o. \A i \in Ids : Once(i)' = Once(i)
  BY <1>1 DEF Once
<1>2. CASE ~Has(vMap, pack.id)
  BY <1>1, <1>2, HandOn DEF CopyChunk, GoTo, ToCopy, AtOpen
<1>3. CASE Has(vMap, pack.id)
  <2> DEFINE id == pack.id
             F == vMap[id].filled
             num == vMap[id].num + 1
  <2>1. /\ id \in Ids /\ pack.cur \in Chunks(id) /\ F \in SUBSET Chunks(id)
        /\ pack = [id |-> id, cur |-> pack.cur] /\ id \in DOMAIN vMap
        /\ Once(id) => pack.cur \notin F /\ vMap[id].num = Cardinality(F)
    BY <1>1, <1>3, PacketFields DEF AssemblyInv, CountsChunks, InHand, Has, ToCopy, AtOpen
  <2>2. ASSUME Once(id)
        PROVE  /\ num = Cardinality(F \cup {pack.cur})
               /\ (num = Total[id] <=> F \cup {pack.cur} = Chunks(id))
               /\ arrived[pack] = 1
    <3>1. arrived[pack] <= 1 /\ arrived[pack] \in Nat
      BY <1>1, <2>1, <2>2 DEF Once, AssemblyInv, Types
    <3> HIDE DEF id, F
    <3>2. /\ Cardinality(F) \in Nat
          /\ Cardinality(F \cup {pack.cur}) = Cardinality(F) + 1
          /\ Cardinality(F \cup {pack.cur}) = Total[id] => F \cup {pack.cur} = Chunks(id)
      BY <2>1, <2>2, CountOneMore
    <3>3. num = Cardinality(F) + 1
      BY <2>1, <2>2 DEF id
    <3>4. Cardinality(Chunks(id)) = Total[id]
      BY <2>1, CountChunks
    <3>5. F \cup {pack.cur} = Chunks(id) => num = Total[id]
      <4>1. F \cup {pack.cur} = Chunks(id) => Cardinality(F \cup {pack.cur}) = Cardinality(Chunks(id))
        OBVIOUS
      <4> QED BY <4>1, <3>2, <3>3, <3>4
    <3>6. arrived[pack] = 1
      BY <1>1, <3>1
    <3> HIDE DEF num
    <3> QED BY <3>2, <3>3, <3>5, <3>6
  <2>3. vMap' = [vMap EXCEPT ![id].num = num, ![id].filled = F \cup {pack.cur}]
    BY <1>3 DEF CopyChunk
  <2>4. /\ DOMAIN vMap' = DOMAIN vMap
        /\ vMap'[id] = [num |-> num, filled |-> F \cup {pack.cur}]
        /\ \A i \in DOMAIN vMap : i # id => vMap'[i] = vMap[i]
    BY <2>1, <2>3 DEF AssemblyInv, Types
  <2>5. CountsChunks'
    <3> SUFFICES ASSUME NEW i \in DOMAIN vMap' PROVE CountsChunks!(i)'
      BY DEF CountsChunks
    <3>1. CASE i = id
      <4>1. vMap'[i].filled \subseteq Chunks(i) /\ i \in Ids
        BY <3>1, <2>1, <2>4
      <4>2. ASSUME Once(i) PROVE \A c \in vMap'[i].filled : arrived'[[id |-> i, cur |-> c]] = 1
        BY <3>1, <4>2, <1>1, <2>1, <2>2, <2>4 DEF AssemblyInv, CountsChunks
      <4>3. ASSUME Once(i) PROVE vMap'[i].num = Cardinality(vMap'[i].filled)
        BY <3>1, <4>3, <2>2, <2>4
      <4> QED BY <4>1, <4>2, <4>3, <1>o
    <3>2. CASE i # id
      BY <3>2, <1>1, <1>o, <2>4 DEF AssemblyInv, CountsChunks
    <3> QED BY <3>1, <3>2
  <2>6. vMap' \in [DOMAIN vMap' -> [num : Nat, filled : SUBSET Nat]]
    <3>1. vMap'[id] \in [num : Nat, filled : SUBSET Nat]
      <4>1. vMap[id].num \in Nat
        BY <2>1 DEF AssemblyInv, Types
      <4> QED BY <4>1, <2>1, <2>4, CountChunks
    <3> QED BY <3>1, <2>3, <2>4 DEF AssemblyInv, Types
  <2>7. pc' = IF num = Total[id] THEN "deliver" ELSE "receive"
    BY <1>3 DEF CopyChunk, GoTo, Complete
  <2>8. InHand'
    <3>1. Once(id)' => Once(id)
      BY <1>1 DEF Once
    <3> QED BY <1>1, <2>1, <2>2, <2>4, <2>7, <3>1 DEF InHand, ToCopy, AtOpen
  <2>9. Types'
    BY <1>1, <2>6, <2>7 DEF AssemblyInv, Types, Labels
  <2>10. Delivered' /\ OnlyWholeFrames' /\ DeliveredOnce'
    BY <1>1, <1>o DEF AssemblyInv, Delivered, OnlyWholeFrames, DeliveredOnce
  <2>11. NoneForgotten'
    <3> SUFFICES ASSUME NEW i \in DOMAIN vMap, vMap'[i].filled = Chunks(i), Kind[i] = "video", Once(i)
                 PROVE  \/ \E k \in 1..Len(delivered) : delivered[k].id = i
                        \/ pc' = "deliver" /\ id = i
      <4>1. \A i \in DOMAIN vMap : Once(i)' => Once(i)
        BY <1>o DEF AssemblyInv, CountsChunks
      <4> QED BY <1>1, <2>4, <4>1 DEF NoneForgotten
    <3>1. CASE i = id
      BY <3>1, <2>2, <2>4, <2>7
    <3>2. CASE i # id
      BY <3>2, <1>1, <2>4 DEF AssemblyInv, NoneForgotten
    <3> QED BY <3>1, <3>2
  <2> QED BY <2>5, <2>8, <2>9, <2>10, <2>11 DEF AssemblyInv
<1> QED BY <1>2, <1>3

\* A complete frame leaves vMap, or not, and joins what was delivered, or not.
LEMMA DeliverAssembly == AssemblyInv /\ Deliver => AssemblyInv'
<1> SUFFICES ASSUME AssemblyInv, Deliver PROVE AssemblyInv'
  OBVIOUS
<1>1. /\ pc = "deliver" /\ pc' = "receive" /\ UNCHANGED <<arrived, pack>>
      /\ pack \in Packets /\ pack.id \in Ids /\ pack.id \in DOMAIN vMap
      /\ vMap[pack.id].filled \subseteq Chunks(pack.id)
      /\ Once(pack.id) => vMap[pack.id].filled = Chunks(pack.id)
  BY PacketFields DEF Deliver, GoTo, AssemblyInv, InHand, CountsChunks
<1>o. \A i \in Ids : Once(i)' = Once(i)
  BY <1>1 DEF Once
<1>2. /\ DOMAIN vMap' \subseteq DOMAIN vMap
      /\ vMap' = [i \in DOMAIN vMap' |-> vMap[i]]
      /\ \A i \in DOMAIN vMap' : vMap'[i] = vMap[i]
  BY DEF Deliver, Kept, Remove, AssemblyInv, Types
<1>3. CountsChunks' /\ vMap' \in [DOMAIN vMap' -> [num : Nat, filled : SUBSET Nat]]
  BY <1>1, <1>2, <1>o DEF AssemblyInv, Types, CountsChunks
<1>4. InHand'
  BY <1>1 DEF InHand, ToCopy, AtOpen
<1>5. \A i \in DOMAIN vMap' : i \in Ids
  BY <1>2 DEF AssemblyInv, CountsChunks
<1> DEFINE entry == [id |-> pack.id, filled |-> vMap[pack.id].filled]
<1>6. CASE delivered' = delivered
  <2>1. Delivered' /\ OnlyWholeFrames' /\ DeliveredOnce'
    BY <1>1, <1>o, <1>6 DEF AssemblyInv, Delivered, OnlyWholeFrames, DeliveredOnce
  <2>2. ASSUME vMap[pack.id].filled = Chunks(pack.id), Kind[pack.id] = "video" PROVE FALSE
    <3>1. 0 \in vMap[pack.id].filled
      BY <1>1, <2>2, FirstChunk
    <3>2. delivered' = Append(delivered, entry) /\ delivered \in Seq([id : Ids, filled : SUBSET Nat])
      BY <2>2, <3>1 DEF Deliver, AssemblyInv, Types
    <3>3. entry \in [id : Ids, filled : SUBSET Nat]
      BY <1>1, CountChunks
    <3>4. Len(delivered') = Len(delivered) + 1 /\ Len(delivered) \in Nat
      BY <3>2, <3>3
    <3> QED BY <1>6, <3>4
  <2>3. NoneForgotten'
    BY <1>1, <1>2, <1>5, <1>o, <1>6, <2>2 DEF AssemblyInv, NoneForgotten
  <2> QED BY <1>1, <1>3, <1>4, <1>6, <2>1, <2>3 DEF AssemblyInv, Types, Labels
<1>7. CASE delivered' = Append(delivered, entry)
  <2>1. entry \in [id : Ids, filled : SUBSET Nat]
    BY <1>1, CountChunks
  <2>2. /\ delivered' \in Seq([id : Ids, filled : SUBSET Nat])
        /\ Len(delivered') = Len(delivered) + 1
        /\ delivered'[Len(delivered) + 1] = entry
        /\ \A i \in 1..Len(delivered) : delivered'[i] = delivered[i]
        /\ Len(delivered) \in Nat
    BY <1>7, <2>1 DEF AssemblyInv, Types
  <2>3. \A i \in 1..Len(delivered) : Once(delivered[i].id) => delivered[i].id # pack.id
    BY <1>1 DEF AssemblyInv, Delivered
  <2>4. Once(pack.id) => \A c \in Chunks(pack.id) : arrived[[id |-> pack.id, cur |-> c]] = 1
    BY <1>1 DEF AssemblyInv, CountsChunks
  <2>5. \A i \in 1..Len(delivered') : i \in 1..Len(delivered) \/ i = Len(delivered) + 1
    BY <2>2
  <2>6. \A i \in 1..Len(delivered') : delivered'[i].id \in Ids
    BY <1>1, <2>2, <2>5 DEF AssemblyInv, Delivered
  <2>7. Delivered'
    <3> SUFFICES ASSUME NEW i \in 1..Len(delivered'), Once(delivered'[i].id)
                 PROVE  \A c \in Chunks(delivered'[i].id) : arrived[[id |-> delivered'[i].id, cur |-> c]] = 1
      BY <1>1, <2>6 DEF Delivered, Once
    <3>1. CASE i \in 1..Len(delivered)
      BY <3>1, <2>2 DEF AssemblyInv, Delivered
    <3>2. CASE i = Len(delivered) + 1
      BY <3>2, <2>2, <2>4
    <3> QED BY <3>1, <3>2, <2>5
  <2>8. OnlyWholeFrames'
    <3> SUFFICES ASSUME NEW i \in 1..Len(delivered'), Once(delivered'[i].id)
                 PROVE  delivered'[i].filled = Chunks(delivered'[i].id)
      BY <1>1 DEF OnlyWholeFrames, Once
    <3>1. CASE i \in 1..Len(delivered)
      BY <3>1, <2>2 DEF AssemblyInv, OnlyWholeFrames
    <3>2. CASE i = Len(delivered) + 1
      BY <3>2, <1>1, <2>2
    <3> QED BY <3>1, <3>2, <2>5
  <2>9. DeliveredOnce'
    <3> SUFFICES ASSUME NEW i \in 1..Len(delivered'), NEW j \in 1..Len(delivered'),
                        delivered'[i].id = delivered'[j].id, Once(delivered'[i].id)
                 PROVE  i = j
      BY <1>1 DEF DeliveredOnce, Once
    <3>1. CASE i \in 1..Len(delivered) /\ j \in 1..Len(delivered)
      BY <3>1, <2>2 DEF AssemblyInv, DeliveredOnce
    <3>2. CASE i \in 1..Len(delivered) /\ j = Len(delivered) + 1
      BY <3>2, <2>2, <2>3
    <3>3. CASE i = Len(delivered) + 1 /\ j \in 1..Len(delivered)
      BY <3>3, <2>2, <2>3
    <3> QED BY <3>1, <3>2, <3>3, <2>5
  <2>10. NoneForgotten'
    <3> SUFFICES ASSUME NEW k \in DOMAIN vMap', vMap'[k].filled = Chunks(k), Kind[k] = "video", Once(k)
                 PROVE  \E i \in 1..Len(delivered') : delivered'[i].id = k
      BY <1>5, <1>o DEF NoneForgotten
    <3>1. CASE k = pack.id
      <4>1. Len(delivered) + 1 \in 1..Len(delivered')
        BY <2>2
      <4> QED BY <3>1, <4>1, <2>2
    <3>2. CASE k # pack.id
      <4>1. PICK i \in 1..Len(delivered) : delivered[i].id = k
        BY <3>2, <1>1, <1>2 DEF AssemblyInv, NoneForgotten
      <4>2. i \in 1..Len(delivered') /\ delivered'[i].id = k
        BY <4>1, <2>2
      <4> QED BY <4>2
    <3> QED BY <3>1, <3>2
  <2> QED BY <1>1, <1>3, <1>4, <2>2, <2>7, <2>8, <2>9, <2>10 DEF AssemblyInv, Types, Labels
<1> QED BY <1>6, <1>7 DEF Deliver

\* Every step keeps the count of every frame right.
LEMMA NextAssembly == AssemblyInv /\ [AssemblyNext]_assemblyVars => AssemblyInv'
<1> SUFFICES ASSUME AssemblyInv, [AssemblyNext]_assemblyVars PROVE AssemblyInv'
  OBVIOUS
<1>1. CASE \E p \in Packets : Receive(p)
  BY <1>1, ReceiveAssembly
<1>2. CASE \/ BeginUpdate \/ PutMissing \/ ContainsKey \/ StrikeMissing \/ IsEmpty
           \/ RemoveEntry
  <2>1. /\ UNCHANGED <<arrived, vMap, pack, delivered>>
        /\ \/ pc \in ToCopy /\ pc' \in (ToCopy \ AtOpen) \cup {"receive", "dead"}
           \/ pc \in AtOpen /\ pc' \in AtOpen
    BY <1>2 DEF BeginUpdate, PutMissing, ContainsKey, StrikeMissing, IsEmpty, RemoveEntry,
                GoTo, frames, ToCopy, AtOpen
  <2> QED BY <2>1, HandOn
<1>3. CASE CopyChunk
  BY <1>3, CopyAssembly
<1>4. CASE Deliver
  BY <1>4, DeliverAssembly
<1>5. CASE SizeUp \/ ClearDropped \/ UNCHANGED assemblyVars
  <2>1. UNCHANGED <<arrived, vMap, pack, delivered, pc>>
    BY <1>5 DEF SizeUp, ClearDropped, frames, assemblyVars
  <2> QED BY <2>1, HandOn
<1>6. CASE OpenFrame
  BY <1>6, OpenAssembly
<1> QED BY <1>1, <1>2, <1>3, <1>4, <1>5, <1>6 DEF AssemblyNext, UdpThread, Opening

\* In every execution vMap counts right what is not repeated.
THEOREM CountsAlwaysRight == AssemblySpec => []AssemblyInv
  BY InitAssembly, NextAssembly, PTL DEF AssemblySpec

\* UdpSocket.java:561-701: no frame with a hole in it reaches the decoder or the
\* player, if the network repeats no chunk of it.
THEOREM WholeFramesOnly == AssemblySpec => []OnlyWholeFrames
<1>1. AssemblyInv => OnlyWholeFrames
  BY DEF AssemblyInv
<1> QED BY <1>1, CountsAlwaysRight, PTL

\* UdpSocket.java:561-701: no frame is delivered twice, if the network repeats no
\* chunk of it.
THEOREM EachFrameOnce == AssemblySpec => []DeliveredOnce
<1>1. AssemblyInv => DeliveredOnce
  BY DEF AssemblyInv
<1> QED BY <1>1, CountsAlwaysRight, PTL

\* UdpSocket.java:607-619, 662-666: a video frame is delivered with its last chunk.
THEOREM NoneIsForgotten == AssemblySpec => []NoFrameForgotten
<1>1. AssemblyInv => NoFrameForgotten
  BY DEF AssemblyInv, NoneForgotten, NoFrameForgotten
<1> QED BY <1>1, CountsAlwaysRight, PTL

-----------------------------------------------------------------------------
\* A video frame that was delivered has its entry, with a count that can only
\* pass its total; the frame about to be delivered has just reached it.
Past(id) == id \in DOMAIN vMap /\ vMap[id].num >= Total[id]

VideoInv ==
  /\ pc \in Labels /\ (pc # "receive" => pack \in Packets)
  /\ pc \in AtOpen => pack.id \notin DOMAIN vMap
  /\ DOMAIN vMap \subseteq Ids
  /\ vMap \in [DOMAIN vMap -> [num : Nat, filled : SUBSET Nat]]
  /\ delivered \in Seq([id : Ids, filled : SUBSET Nat])
  /\ pc = "deliver" => Past(pack.id)
  /\ \A i \in 1..Len(delivered) :
       delivered[i].id \in Ids /\ (Kind[delivered[i].id] = "video" =>
         /\ Past(delivered[i].id)
         /\ pc = "deliver" => pack.id # delivered[i].id)
  /\ VideoDeliveredOnce

\* Nothing was delivered when the socket starts.
LEMMA InitVideo == AssemblyInit => VideoInv
  BY DEF AssemblyInit, VideoInv, Past, VideoDeliveredOnce, Empty, Labels, ToCopy, AtOpen

\* Whatever leaves vMap and what was delivered alone, and has no frame to
\* deliver that it had not before.
LEMMA HandOnVideo ==
  ASSUME VideoInv, UNCHANGED <<vMap, delivered>>,
         \/ pc' = pc /\ pack' = pack
         \/ pc' \in Labels \ {"deliver"},
         pc' # "receive" => pack' \in Packets,
         pc' \in AtOpen => pack'.id \notin DOMAIN vMap
  PROVE  VideoInv'
  BY DEF VideoInv, Past, VideoDeliveredOnce, Labels, ToCopy, AtOpen

\* A packet in hand changes nothing that was counted or delivered.
LEMMA ReceiveVideo == ASSUME VideoInv, NEW p \in Packets, Receive(p) PROVE VideoInv'
<1>1. /\ pack' = p /\ UNCHANGED <<vMap, delivered>>
      /\ \/ pc' = "open" /\ p.id \notin DOMAIN vMap
         \/ pc' = "contains"
  BY DEF Receive, frames, Has
<1> QED BY <1>1, HandOnVideo DEF Labels, ToCopy, AtOpen

\* A new entry leaves the others alone, and is not that of a delivered frame.
LEMMA OpenVideo == VideoInv /\ OpenFrame => VideoInv'
<1> SUFFICES ASSUME VideoInv, OpenFrame PROVE VideoInv'
  OBVIOUS
<1>1. /\ pc = "opened" /\ pc' = "contains" /\ UNCHANGED <<pack, delivered>>
      /\ pack \in Packets /\ pack.id \in Ids /\ pack.id \notin DOMAIN vMap
  BY PacketFields DEF OpenFrame, GoTo, VideoInv, AtOpen
<1>2. vMap' = [i \in DOMAIN vMap \cup {pack.id} |-> IF i = pack.id THEN NewVdata ELSE vMap[i]]
  BY DEF OpenFrame, Put
<1>3. /\ DOMAIN vMap' = DOMAIN vMap \cup {pack.id}
      /\ vMap'[pack.id] = [num |-> 0, filled |-> {}]
      /\ \A i \in DOMAIN vMap : vMap'[i] = vMap[i]
  BY <1>1, <1>2 DEF NewVdata
<1>4. /\ vMap' \in [DOMAIN vMap' -> [num : Nat, filled : SUBSET Nat]]
      /\ DOMAIN vMap' \subseteq Ids
  BY <1>1, <1>2, <1>3 DEF VideoInv
<1>5. \A i \in Ids : Past(i) => Past(i)'
  BY <1>3 DEF Past
<1> QED BY <1>1, <1>4, <1>5 DEF VideoInv, VideoDeliveredOnce, Labels, ToCopy, AtOpen

\* A count goes up by one: it reaches the total once.
LEMMA CopyVideo == VideoInv /\ CopyChunk => VideoInv'
<1> SUFFICES ASSUME VideoInv, CopyChunk PROVE VideoInv'
  OBVIOUS
<1>1. pc = "copy" /\ UNCHANGED <<pack, delivered>> /\ pack \in Packets
  BY DEF CopyChunk, GoTo, VideoInv
<1>2. CASE ~Has(vMap, pack.id)
  BY <1>1, <1>2, HandOnVideo DEF CopyChunk, GoTo, Labels, ToCopy, AtOpen
<1>3. CASE Has(vMap, pack.id)
  <2> DEFINE id == pack.id
             num == vMap[id].num + 1
  <2>1. /\ id \in DOMAIN vMap /\ pack.cur \in Nat
        /\ vMap[id] \in [num : Nat, filled : SUBSET Nat]
        /\ Total[id] \in Nat
    BY <1>1, <1>3, PacketFields, CountChunks DEF VideoInv, Has
  <2>2. /\ DOMAIN vMap' = DOMAIN vMap
        /\ vMap'[id] = [num |-> num, filled |-> vMap[id].filled \cup {pack.cur}]
        /\ \A i \in DOMAIN vMap : i # id => vMap'[i] = vMap[i]
        /\ vMap' = [i \in DOMAIN vMap |-> vMap'[i]]
    <3>1. vMap' = [vMap EXCEPT ![id].num = num, ![id].filled = vMap[id].filled \cup {pack.cur}]
      BY <1>3 DEF CopyChunk
    <3>2. vMap \in [DOMAIN vMap -> [num : Nat, filled : SUBSET Nat]]
      BY DEF VideoInv
    <3> QED BY <2>1, <3>1, <3>2
  <2>3. vMap' \in [DOMAIN vMap' -> [num : Nat, filled : SUBSET Nat]]
    <3>1. vMap'[id] \in [num : Nat, filled : SUBSET Nat]
      BY <2>1, <2>2
    <3>2. \A i \in DOMAIN vMap : vMap[i] \in [num : Nat, filled : SUBSET Nat]
      BY DEF VideoInv
    <3>3. \A i \in DOMAIN vMap : vMap'[i] \in [num : Nat, filled : SUBSET Nat]
      BY <3>1, <3>2, <2>2
    <3> QED BY <2>2, <3>3
  <2>4. \A i \in Ids : Past(i) => Past(i)'
    BY <2>1, <2>2 DEF Past
  <2>5. /\ pc' = "deliver" => ~Past(id) /\ Past(id)'
        /\ pc' \in {"deliver", "receive"}
    BY <1>3, <2>1, <2>2 DEF CopyChunk, GoTo, Complete, Past
  <2>6. \A i \in 1..Len(delivered) :
          Kind[delivered[i].id] = "video" =>
            Past(delivered[i].id)' /\ (pc' = "deliver" => id # delivered[i].id)
    BY <1>1, <2>4, <2>5 DEF VideoInv
  <2> HIDE DEF id, num
  <2>7. pc' = "deliver" => Past(pack.id)'
    BY <2>5 DEF id
  <2> QED BY <1>1, <2>2, <2>3, <2>5, <2>6, <2>7 DEF VideoInv, VideoDeliveredOnce, Labels, AtOpen, id
<1> QED BY <1>2, <1>3

\* A video frame keeps its entry when it is delivered.
LEMMA DeliverVideo == VideoInv /\ Deliver => VideoInv'
<1> SUFFICES ASSUME VideoInv, Deliver PROVE VideoInv'
  OBVIOUS
<1>1. /\ pc = "deliver" /\ pc' = "receive" /\ UNCHANGED pack
      /\ pack \in Packets /\ pack.id \in Ids /\ Past(pack.id)
  BY PacketFields DEF Deliver, GoTo, VideoInv
<1>2. /\ DOMAIN vMap' \subseteq DOMAIN vMap
      /\ vMap' \in [DOMAIN vMap' -> [num : Nat, filled : SUBSET Nat]]
      /\ \A i \in DOMAIN vMap' : vMap'[i] = vMap[i]
  BY DEF Deliver, Kept, Remove, VideoInv
<1>3. \A i \in DOMAIN vMap : i \in DOMAIN vMap' \/ (i = pack.id /\ Kind[i] # "video")
  BY DEF Deliver, Kept, Remove
<1>4. \A i \in Ids : Kind[i] = "video" /\ Past(i) => Past(i)'
  BY <1>2, <1>3 DEF Past
<1> DEFINE entry == [id |-> pack.id, filled |-> vMap[pack.id].filled]
<1>5. CASE delivered' = delivered
  BY <1>1, <1>2, <1>4, <1>5 DEF VideoInv, VideoDeliveredOnce, Labels, AtOpen
<1>6. CASE delivered' = Append(delivered, entry)
  <2>1. entry \in [id : Ids, filled : SUBSET Nat]
    BY <1>1 DEF VideoInv, Past
  <2>2. /\ delivered' \in Seq([id : Ids, filled : SUBSET Nat])
        /\ Len(delivered') = Len(delivered) + 1
        /\ delivered'[Len(delivered) + 1] = entry
        /\ \A i \in 1..Len(delivered) : delivered'[i] = delivered[i]
        /\ Len(delivered) \in Nat
    BY <1>6, <2>1 DEF VideoInv
  <2>3. \A i \in 1..Len(delivered) :
          /\ delivered[i].id \in Ids
          /\ Kind[delivered[i].id] = "video" =>
               Past(delivered[i].id) /\ delivered[i].id # pack.id
    BY <1>1 DEF VideoInv
  <2>4. \A i \in 1..Len(delivered') : i \in 1..Len(delivered) \/ i = Len(delivered) + 1
    BY <2>2
  <2>5. \A i \in 1..Len(delivered') :
          Kind[delivered'[i].id] = "video" => Past(delivered[i].id)'
    <3> SUFFICES ASSUME NEW i \in 1..Len(delivered'), Kind[delivered'[i].id] = "video"
                 PROVE  Past(delivered[i].id)'
      OBVIOUS
    <3>1. CASE i \in 1..Len(delivered)
      BY <3>1, <1>4, <2>2, <2>3
    <3>2. CASE i = Len(delivered) + 1
      <4>1. delivered'[i].id = pack.id
        BY <3>2, <2>2
      <4>2. pack.id \in DOMAIN vMap' /\ vMap'[pack.id].num >= Total[pack.id]
        BY <4>1, <1>1, <1>4 DEF Past
      <4> QED BY <4>1, <4>2 DEF Past
    <3> QED BY <3>1, <3>2, <2>4
  <2>6. VideoDeliveredOnce'
    <3> SUFFICES ASSUME NEW i \in 1..Len(delivered'), NEW j \in 1..Len(delivered'),
                        delivered'[i].id = delivered'[j].id, Kind[delivered'[i].id] = "video"
                 PROVE  i = j
      BY DEF VideoDeliveredOnce
    <3>1. CASE i \in 1..Len(delivered) /\ j \in 1..Len(delivered)
      BY <3>1, <2>2 DEF VideoInv, VideoDeliveredOnce
    <3>2. CASE i \in 1..Len(delivered) /\ j = Len(delivered) + 1
      BY <3>2, <2>2, <2>3
    <3>3. CASE i = Len(delivered) + 1 /\ j \in 1..Len(delivered)
      BY <3>3, <2>2, <2>3
    <3> QED BY <3>1, <3>2, <3>3, <2>4
  <2>7. \A i \in 1..Len(delivered') : delivered'[i].id \in Ids
    BY <2>2, <2>3, <2>4, <1>1
  <2>8. DOMAIN vMap' \subseteq Ids
    BY <1>2 DEF VideoInv
  <2> QED BY <1>1, <1>2, <2>2, <2>5, <2>6, <2>7, <2>8 DEF VideoInv, Labels, AtOpen
<1> QED BY <1>5, <1>6 DEF Deliver

\* Every step keeps the count of a delivered video frame past its total.
LEMMA NextVideo == VideoInv /\ [AssemblyNext]_assemblyVars => VideoInv'
<1> SUFFICES ASSUME VideoInv, [AssemblyNext]_assemblyVars PROVE VideoInv'
  OBVIOUS
<1>1. CASE \E p \in Packets : Receive(p)
  BY <1>1, ReceiveVideo
<1>2. CASE \/ BeginUpdate \/ PutMissing \/ ContainsKey \/ StrikeMissing \/ IsEmpty
           \/ RemoveEntry
  <2>1. /\ UNCHANGED <<vMap, pack, delivered>> /\ pc # "receive"
        /\ pc' \in Labels \ {"deliver"} /\ (pc' \in AtOpen => pc \in AtOpen)
    BY <1>2 DEF BeginUpdate, PutMissing, ContainsKey, StrikeMissing, IsEmpty, RemoveEntry,
                GoTo, frames, Labels, ToCopy, AtOpen
  <2> QED BY <2>1, HandOnVideo DEF VideoInv
<1>3. CASE CopyChunk
  BY <1>3, CopyVideo
<1>4. CASE Deliver
  BY <1>4, DeliverVideo
<1>5. CASE SizeUp \/ ClearDropped \/ UNCHANGED assemblyVars
  <2>1. UNCHANGED <<vMap, pack, delivered, pc>>
    BY <1>5 DEF SizeUp, ClearDropped, frames, assemblyVars
  <2> QED BY <2>1, HandOnVideo DEF VideoInv
<1>6. CASE OpenFrame
  BY <1>6, OpenVideo
<1> QED BY <1>1, <1>2, <1>3, <1>4, <1>5, <1>6 DEF AssemblyNext, UdpThread, Opening

\* UdpSocket.java:580-619, 680-681: however often the network repeats chunks, no
\* video frame is delivered twice.
THEOREM EachVideoFrameOnce == AssemblySpec => []VideoDeliveredOnce
<1>1. VideoInv => VideoDeliveredOnce
  BY DEF VideoInv
<1> QED BY <1>1, InitVideo, NextVideo, PTL DEF AssemblySpec

\* UdpSocket.java:561-701: what reaches the decoder and the player is whole, and comes once.
THEOREM WholeFramesAlwaysOnce == AssemblySpec => []WholeFramesOnce
<1>1. OnlyWholeFrames /\ DeliveredOnce /\ VideoDeliveredOnce => WholeFramesOnce
  BY DEF WholeFramesOnce
<1> QED BY <1>1, WholeFramesOnly, EachFrameOnce, EachVideoFrameOnce, PTL

-----------------------------------------------------------------------------
\* The types. A count is at most the number of packets of its frame that came,
\* of which the one in hand is still to be counted.
Copies(id) == {q \in Chunks(id) \X (1..MaxCopies[id]) : q[2] <= arrived[[id |-> id, cur |-> q[1]]]}
ToCount(id) == IF pc \in ToCopy /\ pack.id = id THEN 1 ELSE 0
CountsBounded == \A id \in DOMAIN vMap : vMap[id].num + ToCount(id) <= Cardinality(Copies(id))

Finite == IsFiniteSet(DOMAIN vMap) /\ IsFiniteSet(DOMAIN dropVideoMap) /\ IsFiniteSet(DOMAIN before)

TypesInv == AssemblyTypeOK /\ Finite /\ CountsBounded

\* The accounts, as long as no update of dropVideoMap was raced: of a frame that
\* lacks a chunk it lists what vMap has not got, without the packet in hand
\* once that is struck; it is empty only on the way to its removal.
Struck(id) == IF pc \in {"empty", "remove", "removing", "copy"} /\ pack.id = id THEN {pack.cur} ELSE {}
Agrees(id) ==
  \/ pc = "opened" /\ pack.id = id /\ dropVideoMap[id] = Chunks(id)
  \/ /\ id \in DOMAIN vMap /\ vMap[id].filled # Chunks(id)
     /\ dropVideoMap[id] = Chunks(id) \ (vMap[id].filled \cup Struck(id))
     /\ dropVideoMap[id] = {} => pc \in {"empty", "remove", "removing"} /\ pack.id = id

AgreeInv ==
  raced = "never" =>
    /\ pc \in {"putting", "removing"} => before = dropVideoMap
    /\ \A id \in DOMAIN dropVideoMap : Tracked(id) => Agrees(id)

TablesInv == AssemblyInv /\ TypesInv /\ AgreeInv

\* No more packets come than the network makes copies.
LEMMA CopiesBound ==
  ASSUME NEW id \in Ids
  PROVE  /\ IsFiniteSet(Copies(id)) /\ Cardinality(Copies(id)) \in Nat
         /\ Cardinality(Copies(id)) <= MaxCopies[id] * Total[id]
<1> DEFINE n == MaxCopies[id]
           all == Chunks(id) \X (1..n)
<1>1. n \in Nat /\ Total[id] \in Nat
  OBVIOUS
<1>2. IsFiniteSet(1..n) /\ Cardinality(1..n) = n
  <2>1. 1 \in Int /\ n \in Int
    BY <1>1
  <2>2. IsFiniteSet(1..n) /\ Cardinality(1..n) = IF 1 > n THEN 0 ELSE n - 1 + 1
    BY <2>1, FS_Interval
  <2> QED BY <1>1, <2>2
<1>3. IsFiniteSet(all) /\ Cardinality(all) = Cardinality(Chunks(id)) * Cardinality(1..n)
  BY <1>2, CountChunks, FS_Product
<1>4. Cardinality(all) = Total[id] * n
  BY <1>2, <1>3, CountChunks
<1>5. Copies(id) \subseteq all
  BY DEF Copies
<1>6. IsFiniteSet(Copies(id)) /\ Cardinality(Copies(id)) <= Cardinality(all)
  BY <1>3, <1>5, FS_Subset
<1>7. Cardinality(Copies(id)) \in Nat
  BY <1>6, FS_CardinalityType
<1>8. Total[id] * n = n * Total[id]
  BY <1>1
<1> QED BY <1>4, <1>6, <1>7, <1>8

\* Each packet makes one more copy of its frame, and none of another.
LEMMA OneMoreCopy ==
  ASSUME arrived \in [Packets -> Nat], NEW p \in Packets, arrived[p] < MaxCopies[p.id],
         arrived' = [arrived EXCEPT ![p] = arrived[p] + 1]
  PROVE  /\ Cardinality(Copies(p.id)') = Cardinality(Copies(p.id)) + 1
         /\ \A id \in Ids : id # p.id => Copies(id)' = Copies(id)
<1>1. /\ p = [id |-> p.id, cur |-> p.cur] /\ p.id \in Ids /\ p.cur \in Chunks(p.id)
  BY PacketFields
<1>2. \A id \in Ids : \A c \in Chunks(id) : [id |-> id, cur |-> c] \in Packets
  BY PacketFields
<1>3. ASSUME NEW id \in Ids, id # p.id PROVE Copies(id)' = Copies(id)
  <2>1. \A c \in Chunks(id) : arrived'[[id |-> id, cur |-> c]] = arrived[[id |-> id, cur |-> c]]
    BY <1>1, <1>2, <1>3
  <2> QED BY <2>1 DEF Copies
<1> DEFINE new == <<p.cur, arrived[p] + 1>>
<1>4. MaxCopies[p.id] \in Nat /\ arrived[p] \in Nat
  BY <1>1
<1>5. new \in Chunks(p.id) \X (1..MaxCopies[p.id])
  BY <1>1, <1>4
<1>6. new \notin Copies(p.id)
  BY <1>1, <1>4 DEF Copies
<1>7. Copies(p.id)' = Copies(p.id) \cup {new}
  <2>1. ASSUME NEW q \in Chunks(p.id) \X (1..MaxCopies[p.id])
        PROVE  q[2] <= arrived'[[id |-> p.id, cur |-> q[1]]]
               <=> q[2] <= arrived[[id |-> p.id, cur |-> q[1]]] \/ q = new
    <3>1. q[1] \in Chunks(p.id) /\ q[2] \in Nat /\ q = <<q[1], q[2]>> /\ [id |-> p.id, cur |-> q[1]] \in Packets
      BY <1>1, <1>2
    <3>2. CASE q[1] = p.cur
      <4>1. arrived'[p] = arrived[p] + 1
        OBVIOUS
      <4>2. q[2] <= arrived[p] + 1 <=> q[2] <= arrived[p] \/ q[2] = arrived[p] + 1
        BY <1>4, <3>1
      <4>3. q = new <=> q[2] = arrived[p] + 1
        BY <3>1, <3>2
      <4> QED BY <1>1, <3>2, <4>1, <4>2, <4>3
    <3>3. CASE q[1] # p.cur
      <4>1. [id |-> p.id, cur |-> q[1]] # p /\ q # new
        BY <1>1, <3>1, <3>3
      <4> QED BY <3>1, <4>1
    <3> QED BY <3>2, <3>3
  <2> HIDE DEF new
  <2> QED BY <1>5, <2>1 DEF Copies
<1>8. IsFiniteSet(Copies(p.id))
  BY <1>1, CopiesBound
<1>9. Cardinality(Copies(p.id) \cup {new}) = Cardinality(Copies(p.id)) + 1
  <2> HIDE DEF new
  <2> QED BY <1>6, <1>8, FS_AddElement
<1> QED BY <1>3, <1>7, <1>9

\* Both accounts are empty when the socket starts.
LEMMA InitTables == AssemblyInit => TypesInv /\ AgreeInv
<1> SUFFICES ASSUME AssemblyInit PROVE TypesInv /\ AgreeInv
  OBVIOUS
<1>1. DOMAIN vMap = {} /\ DOMAIN dropVideoMap = {} /\ DOMAIN before = {}
  BY DEF AssemblyInit, Empty
<1>2. Finite
  BY <1>1, FS_EmptySet DEF Finite
<1>3. AssemblyTypeOK
  <2>1. \A p \in Packets : arrived[p] = 0 /\ MaxCopies[p.id] \in Nat
    BY PacketFields DEF AssemblyInit
  <2>2. \A p \in Packets : arrived[p] \in 0..MaxCopies[p.id]
    BY <2>1
  <2>3. delivered \in Seq([id : Ids, filled : SUBSET UNION {Chunks(id) : id \in Ids}])
    BY DEF AssemblyInit
  <2>4. IsTable(dropVideoMap) /\ IsTable(before)
    BY <1>1 DEF IsTable
  <2> QED BY <1>1, <2>2, <2>3, <2>4 DEF AssemblyInit, AssemblyTypeOK
<1>4. CountsBounded /\ AgreeInv
  BY <1>1 DEF AssemblyInit, CountsBounded, AgreeInv
<1> QED BY <1>2, <1>3, <1>4 DEF TypesInv

\* A count stays in its bound when nothing is counted or to be counted anew.
LEMMA BoundsKept ==
  ASSUME CountsBounded, UNCHANGED <<arrived, vMap, pack>>, pc' \in ToCopy => pc \in ToCopy,
         AssemblyInv
  PROVE  CountsBounded'
<1>1. ASSUME NEW id \in DOMAIN vMap
      PROVE  vMap[id].num + ToCount(id)' <= Cardinality(Copies(id)')
  <2>1. id \in Ids /\ vMap[id].num \in Nat
    BY DEF AssemblyInv, Types, CountsChunks
  <2>2. Copies(id)' = Copies(id)
    BY DEF Copies
  <2>3. Cardinality(Copies(id)) \in Nat
    BY <2>1, CopiesBound
  <2>4. ToCount(id)' <= ToCount(id) /\ ToCount(id)' \in Nat /\ ToCount(id) \in Nat
    BY DEF ToCount
  <2>5. vMap[id].num + ToCount(id) <= Cardinality(Copies(id))
    BY DEF CountsBounded
  <2> QED BY <2>1, <2>2, <2>3, <2>4, <2>5
<1> QED BY <1>1 DEF CountsBounded

\* Counts in their bounds have their type.
LEMMA CountsTyped ==
  AssemblyInv /\ CountsBounded =>
    DOMAIN vMap \subseteq Ids /\ \A id \in DOMAIN vMap : vMap[id] \in Vdata(id)
<1> SUFFICES ASSUME AssemblyInv, CountsBounded
             PROVE  DOMAIN vMap \subseteq Ids /\ \A id \in DOMAIN vMap : vMap[id] \in Vdata(id)
  OBVIOUS
<1>1. ASSUME NEW id \in DOMAIN vMap PROVE id \in Ids /\ vMap[id] \in Vdata(id)
  <2>1. /\ id \in Ids /\ vMap[id].num \in Nat /\ vMap[id].filled \in SUBSET Chunks(id)
        /\ vMap[id] = [num |-> vMap[id].num, filled |-> vMap[id].filled]
    BY DEF AssemblyInv, Types, CountsChunks
  <2>2. ToCount(id) \in Nat /\ vMap[id].num + ToCount(id) <= Cardinality(Copies(id))
    BY DEF ToCount, CountsBounded
  <2> DEFINE most == MaxCopies[id] * Total[id]
  <2>3. MaxCopies[id] \in Nat /\ Total[id] \in Nat
    BY <2>1
  <2>4. most \in Nat
    BY <2>3
  <2>5. Cardinality(Copies(id)) \in Nat /\ Cardinality(Copies(id)) <= most
    BY <2>1, CopiesBound
  <2> HIDE DEF most
  <2>6. vMap[id].num \in 0..most
    BY <2>1, <2>2, <2>4, <2>5
  <2> QED BY <2>1, <2>6 DEF Vdata, most
<1> QED BY <1>1

\* What is left to show of the types after a step.
Tables ==
  /\ \A p \in Packets : arrived[p] \in 0..MaxCopies[p.id]
  /\ IsTable(dropVideoMap) /\ IsTable(before)
  /\ tempPackageVerify \in Ids \cup {0}
  /\ pack \in Packets \cup {[id |-> 0, cur |-> 0]}
  /\ raced \in {"never", "now", "once"}
  /\ sizing \in {"size", "clear"} /\ lossSeen \in BOOLEAN
  /\ delivered \in Seq([id : Ids, filled : SUBSET UNION {Chunks(id) : id \in Ids}])

LEMMA TypesMade ==
  ASSUME AssemblyInv', CountsBounded', Finite', Tables'
  PROVE  TypesInv'
<1>1. (AssemblyInv /\ CountsBounded =>
        DOMAIN vMap \subseteq Ids /\ \A id \in DOMAIN vMap : vMap[id] \in Vdata(id))'
  BY CountsTyped, PTL
<1>2. (DOMAIN vMap \subseteq Ids /\ \A id \in DOMAIN vMap : vMap[id] \in Vdata(id))'
  BY <1>1
<1>3. pc' \in Labels
  BY DEF AssemblyInv, Types
<1>4. AssemblyTypeOK'
  BY <1>2, <1>3 DEF AssemblyTypeOK, Tables, Labels, ToCopy, AtOpen
<1> QED BY <1>4 DEF TypesInv

\* A table of chunks stays one in whatever is made of it.
LEMMA TablesOfTables ==
  ASSUME NEW map, IsTable(map), IsFiniteSet(DOMAIN map), NEW id \in Ids
  PROVE  /\ IsTable(Put(map, id, AllMissing(id))) /\ IsFiniteSet(DOMAIN Put(map, id, AllMissing(id)))
         /\ IsTable(Remove(map, id)) /\ IsFiniteSet(DOMAIN Remove(map, id))
         /\ \A ids \in SUBSET DOMAIN map : IsTable(Part(map, ids)) /\ IsFiniteSet(DOMAIN Part(map, ids))
<1>1. IsTable(Put(map, id, AllMissing(id))) /\ DOMAIN Put(map, id, AllMissing(id)) = DOMAIN map \cup {id}
  BY DEF IsTable, Put, AllMissing
<1>2. IsTable(Remove(map, id)) /\ DOMAIN Remove(map, id) = DOMAIN map \ {id}
  BY DEF IsTable, Remove
<1>3. \A ids \in SUBSET DOMAIN map : IsTable(Part(map, ids)) /\ DOMAIN Part(map, ids) = ids
  BY DEF IsTable, Part
<1>4. IsFiniteSet(DOMAIN map \cup {id})
  BY FS_AddElement
<1>5. \A ids \in SUBSET DOMAIN map : IsFiniteSet(ids)
  BY FS_Subset
<1> QED BY <1>1, <1>2, <1>3, <1>4, <1>5

LEMMA NoTable == IsTable(Empty) /\ IsFiniteSet(DOMAIN Empty)
<1>1. DOMAIN Empty = {}
  BY DEF Empty
<1> QED BY <1>1, FS_EmptySet DEF IsTable

\* The end of an update makes a table, whether or not it was raced.
LEMMA UpdatesTypes ==
  ASSUME NEW map, IsTable(map), IsFiniteSet(DOMAIN map), Updates(map), raced \in {"never", "now", "once"}
  PROVE  /\ IsTable(dropVideoMap)' /\ IsTable(before)' /\ raced' \in {"never", "now", "once"}
         /\ IsFiniteSet(DOMAIN dropVideoMap') /\ IsFiniteSet(DOMAIN before')
<1>1. \A ids \in SUBSET DOMAIN map : IsTable(Part(map, ids)) /\ IsFiniteSet(DOMAIN Part(map, ids))
  <2>1. \A ids \in SUBSET DOMAIN map : IsTable(Part(map, ids)) /\ DOMAIN Part(map, ids) = ids
    BY DEF IsTable, Part
  <2> QED BY <2>1, FS_Subset
<1>2. before' = Empty /\ raced' \in {"never", "now", "once"}
  BY DEF Updates
<1>3. dropVideoMap' = map \/ \E ids \in SUBSET DOMAIN map : dropVideoMap' = Part(map, ids)
  BY DEF Updates
<1>4. IsTable(dropVideoMap)' /\ IsFiniteSet(DOMAIN dropVideoMap')
  <2>1. PICK table : dropVideoMap' = table /\ IsTable(table) /\ IsFiniteSet(DOMAIN table)
    BY <1>1, <1>3
  <2> QED BY <2>1 DEF IsTable
<1>5. IsTable(before)' /\ IsFiniteSet(DOMAIN before')
  <2>1. PICK table : before' = table /\ IsTable(table) /\ IsFiniteSet(DOMAIN table)
    BY <1>2, NoTable
  <2> QED BY <2>1 DEF IsTable
<1> QED BY <1>2, <1>4, <1>5

\* A packet that comes in is one more to count.
LEMMA ReceiveTypes ==
  ASSUME AssemblyInv, TypesInv, AssemblyInv', NEW p \in Packets, Receive(p)
  PROVE  TypesInv'
<1>1. p.id \in Ids /\ MaxCopies[p.id] \in Nat
  BY PacketFields
<1>2. /\ pc = "receive" /\ arrived[p] < MaxCopies[p.id] /\ pack' = p /\ tempPackageVerify' = p.id
      /\ arrived' = [arrived EXCEPT ![p] = arrived[p] + 1] /\ arrived \in [Packets -> Nat]
      /\ UNCHANGED <<vMap, dropVideoMap, before, raced, sizing, lossSeen, delivered>>
  BY DEF Receive, frames, network, AssemblyInv, Types
<1>3. /\ Cardinality(Copies(p.id)') = Cardinality(Copies(p.id)) + 1
      /\ \A id \in Ids : id # p.id => Copies(id)' = Copies(id)
  BY <1>2, OneMoreCopy
<1>4. Tables'
  <2>1. \A q \in Packets : arrived[q] \in 0..MaxCopies[q.id]
    BY DEF TypesInv, AssemblyTypeOK
  <2>2. arrived[p] + 1 \in 0..MaxCopies[p.id]
    BY <1>1, <1>2
  <2>3. \A q \in Packets : arrived'[q] \in 0..MaxCopies[q.id]
    BY <1>2, <2>1, <2>2
  <2> QED BY <1>1, <1>2, <2>3 DEF TypesInv, AssemblyTypeOK, Tables, IsTable
<1>5. ASSUME NEW id \in DOMAIN vMap
      PROVE  vMap[id].num + ToCount(id)' <= Cardinality(Copies(id)')
  <2>1. id \in Ids /\ vMap[id].num \in Nat
    BY DEF AssemblyInv, Types, CountsChunks
  <2>2. vMap[id].num + ToCount(id) <= Cardinality(Copies(id)) /\ ToCount(id) = 0
    BY <1>2 DEF TypesInv, CountsBounded, ToCount, ToCopy, AtOpen
  <2>3. Cardinality(Copies(id)) \in Nat
    BY <2>1, CopiesBound
  <2>4. (id # p.id => ToCount(id)' = 0) /\ ToCount(id)' \in {0, 1}
    BY <1>2 DEF ToCount
  <2>5. CASE id = p.id
    BY <1>3, <2>1, <2>2, <2>3, <2>4, <2>5
  <2>6. CASE id # p.id
    BY <1>3, <2>1, <2>2, <2>3, <2>4, <2>6
  <2> QED BY <2>5, <2>6
<1>6. CountsBounded'
  BY <1>2, <1>5 DEF CountsBounded
<1>7. Finite'
  BY <1>2 DEF TypesInv, Finite
<1> QED BY <1>4, <1>6, <1>7, TypesMade

\* Steps that only look at dropVideoMap or update it.
LEMMA UpdateTypes ==
  ASSUME AssemblyInv, TypesInv, AssemblyInv',
         \/ BeginUpdate \/ PutMissing \/ ContainsKey \/ StrikeMissing \/ IsEmpty \/ RemoveEntry
  PROVE  TypesInv'
<1>1. /\ UNCHANGED <<arrived, vMap, pack, delivered, tempPackageVerify, sizing, lossSeen>>
      /\ pc \in ToCopy /\ pack \in Packets /\ pack.id \in Ids
  BY PacketFields
     DEF BeginUpdate, PutMissing, ContainsKey, StrikeMissing, IsEmpty, RemoveEntry, GoTo, frames,
         network, ToCopy, AtOpen, AssemblyInv, InHand
<1>2. CountsBounded'
  BY <1>1, BoundsKept DEF TypesInv
<1>3. IsTable(dropVideoMap) /\ IsTable(before) /\ IsFiniteSet(DOMAIN dropVideoMap) /\ IsFiniteSet(DOMAIN before)
      /\ raced \in {"never", "now", "once"}
  BY DEF TypesInv, AssemblyTypeOK, Finite
<1>4. /\ IsTable(dropVideoMap)' /\ IsTable(before)' /\ raced' \in {"never", "now", "once"}
      /\ IsFiniteSet(DOMAIN dropVideoMap') /\ IsFiniteSet(DOMAIN before')
  <2>1. CASE BeginUpdate \/ ContainsKey \/ IsEmpty
    <3>1. UNCHANGED <<dropVideoMap, raced>> /\ (before' = before \/ before' = dropVideoMap)
      BY <2>1 DEF BeginUpdate, ContainsKey, IsEmpty, frames
    <3> QED BY <1>3, <3>1 DEF IsTable
  <2>2. CASE StrikeMissing
    <3>1. UNCHANGED <<before, raced>>
      BY <2>2 DEF StrikeMissing
    <3>2. \/ dropVideoMap' = dropVideoMap
          \/ dropVideoMap' = [dropVideoMap EXCEPT ![pack.id] = @ \ {pack.cur}]
      BY <2>2 DEF StrikeMissing
    <3>3. DOMAIN dropVideoMap' = DOMAIN dropVideoMap /\ IsTable(dropVideoMap)'
      BY <1>3, <3>2 DEF IsTable
    <3> QED BY <1>3, <3>1, <3>3 DEF IsTable
  <2>3. CASE PutMissing
    <3> DEFINE map == Put(before, pack.id, AllMissing(pack.id))
    <3>1. IsTable(map) /\ IsFiniteSet(DOMAIN map) /\ Updates(map)
      BY <1>1, <1>3, <2>3, TablesOfTables DEF PutMissing
    <3> HIDE DEF map
    <3> QED BY <1>3, <3>1, UpdatesTypes
  <2>4. CASE RemoveEntry
    <3> DEFINE map == Remove(before, pack.id)
    <3>1. IsTable(map) /\ IsFiniteSet(DOMAIN map) /\ Updates(map)
      BY <1>1, <1>3, <2>4, TablesOfTables DEF RemoveEntry
    <3> HIDE DEF map
    <3> QED BY <1>3, <3>1, UpdatesTypes
  <2> QED BY <2>1, <2>2, <2>3, <2>4
<1>5. Finite'
  BY <1>1, <1>4 DEF TypesInv, Finite
<1>6. Tables'
  BY <1>1, <1>4 DEF TypesInv, AssemblyTypeOK, Tables
<1> QED BY <1>2, <1>5, <1>6, TypesMade

\* The timer's steps.
LEMMA TimerTypes ==
  ASSUME AssemblyInv, TypesInv, AssemblyInv', SizeUp \/ ClearDropped \/ UNCHANGED assemblyVars
  PROVE  TypesInv'
<1>1. /\ UNCHANGED <<arrived, vMap, pack, pc, before, delivered, tempPackageVerify>>
      /\ sizing' \in {"size", "clear"} /\ lossSeen' \in BOOLEAN /\ raced' \in {"never", "now", "once"}
      /\ dropVideoMap' = dropVideoMap \/ dropVideoMap' = Empty
  BY DEF SizeUp, ClearDropped, assemblyVars, frames, network, TypesInv, AssemblyTypeOK
<1>2. CountsBounded'
  BY <1>1, BoundsKept DEF TypesInv
<1>3. IsTable(dropVideoMap)' /\ IsFiniteSet(DOMAIN dropVideoMap')
  <2>1. PICK table : dropVideoMap' = table /\ IsTable(table) /\ IsFiniteSet(DOMAIN table)
    BY <1>1, NoTable DEF TypesInv, AssemblyTypeOK, Finite
  <2> QED BY <2>1 DEF IsTable
<1>4. Finite'
  BY <1>1, <1>3 DEF TypesInv, Finite
<1>5. Tables'
  BY <1>1, <1>3 DEF TypesInv, AssemblyTypeOK, Tables, IsTable
<1> QED BY <1>2, <1>4, <1>5, TypesMade

\* A new entry: the packet that opens it is the first it may count.
LEMMA OpenTypes ==
  ASSUME AssemblyInv, TypesInv, AssemblyInv', OpenFrame
  PROVE  TypesInv'
<1>1. /\ pc = "opened" /\ UNCHANGED <<arrived, pack, dropVideoMap, before, raced, sizing, lossSeen, delivered, tempPackageVerify>>
      /\ pc' = "contains" /\ pack \in Packets /\ pack.id \in Ids /\ pack.cur \in Chunks(pack.id)
      /\ arrived[pack] >= 1 /\ pack = [id |-> pack.id, cur |-> pack.cur]
      /\ vMap' = Put(vMap, pack.id, NewVdata)
  BY PacketFields DEF OpenFrame, GoTo, network, AssemblyInv, InHand
<1>2. /\ DOMAIN vMap' = DOMAIN vMap \cup {pack.id} /\ vMap'[pack.id].num = 0
      /\ \A id \in DOMAIN vMap : id # pack.id => vMap'[id] = vMap[id]
  BY <1>1 DEF Put, NewVdata
<1>3. Finite'
  <2>1. IsFiniteSet(DOMAIN vMap \cup {pack.id})
    BY FS_AddElement DEF TypesInv, Finite
  <2> QED BY <1>1, <1>2, <2>1 DEF TypesInv, Finite
<1>4. 1 <= Cardinality(Copies(pack.id))
  <2>1. arrived[pack] \in 0..MaxCopies[pack.id] /\ MaxCopies[pack.id] \in Nat
    BY <1>1 DEF TypesInv, AssemblyTypeOK
  <2>2. <<pack.cur, 1>> \in Chunks(pack.id) \X (1..MaxCopies[pack.id])
    BY <1>1, <2>1
  <2>3. <<pack.cur, 1>> \in Copies(pack.id)
    BY <1>1, <2>2 DEF Copies
  <2>4. Cardinality(Copies(pack.id)) # 0
    BY <1>1, <2>3, CopiesBound, FS_EmptySet
  <2>5. Cardinality(Copies(pack.id)) \in Nat
    BY <1>1, CopiesBound
  <2> QED BY <2>4, <2>5
<1>5. ASSUME NEW id \in DOMAIN vMap'
      PROVE  vMap'[id].num + ToCount(id)' <= Cardinality(Copies(id)')
  <2>1. Copies(id)' = Copies(id)
    BY <1>1 DEF Copies
  <2>2. CASE id = pack.id
    BY <1>1, <1>2, <1>4, <2>1, <2>2 DEF ToCount, ToCopy
  <2>3. CASE id # pack.id
    <3>1. ToCount(id)' = ToCount(id)
      BY <1>1, <2>3 DEF ToCount
    <3> QED BY <1>2, <2>1, <2>3, <3>1 DEF TypesInv, CountsBounded
  <2> QED BY <2>2, <2>3
<1>6. CountsBounded'
  BY <1>5 DEF CountsBounded
<1>7. Tables'
  BY <1>1 DEF TypesInv, AssemblyTypeOK, Tables, IsTable
<1> QED BY <1>3, <1>6, <1>7, TypesMade

\* The packet in hand is counted.
LEMMA CopyTypes ==
  ASSUME AssemblyInv, TypesInv, AssemblyInv', CopyChunk
  PROVE  TypesInv'
<1>1. /\ pc = "copy" /\ pc' \in {"deliver", "receive"}
      /\ UNCHANGED <<arrived, pack, dropVideoMap, before, raced, sizing, lossSeen, delivered, tempPackageVerify>>
  BY DEF CopyChunk, GoTo, network
<1>2. Tables'
  BY <1>1 DEF TypesInv, AssemblyTypeOK, Tables, IsTable
<1>3. /\ DOMAIN vMap' = DOMAIN vMap
      /\ \A id \in DOMAIN vMap : vMap'[id].num = IF id = pack.id THEN vMap[id].num + 1 ELSE vMap[id].num
  <2>1. CASE ~Has(vMap, pack.id)
    BY <2>1 DEF CopyChunk, Has
  <2>2. CASE Has(vMap, pack.id)
    <3>1. /\ vMap' = [vMap EXCEPT ![pack.id].num = vMap[pack.id].num + 1,
                                  ![pack.id].filled = vMap[pack.id].filled \cup {pack.cur}]
          /\ vMap \in [DOMAIN vMap -> [num : Nat, filled : SUBSET Nat]]
      BY <2>2 DEF CopyChunk, AssemblyInv, Types
    <3> QED BY <2>2, <3>1 DEF Has
  <2> QED BY <2>1, <2>2
<1>4. ASSUME NEW id \in DOMAIN vMap'
      PROVE  vMap'[id].num + ToCount(id)' <= Cardinality(Copies(id)')
  <2>1. Copies(id)' = Copies(id) /\ vMap[id].num \in Nat
    BY <1>1, <1>3 DEF Copies, AssemblyInv, Types
  <2>2. ToCount(id)' = 0 /\ ToCount(id) = IF id = pack.id THEN 1 ELSE 0
    BY <1>1 DEF ToCount, ToCopy, AtOpen
  <2>3. vMap[id].num + ToCount(id) <= Cardinality(Copies(id))
    BY <1>3 DEF TypesInv, CountsBounded
  <2> QED BY <1>3, <2>1, <2>2, <2>3
<1>5. CountsBounded'
  BY <1>4 DEF CountsBounded
<1>6. Finite'
  BY <1>1, <1>3 DEF TypesInv, Finite
<1> QED BY <1>2, <1>5, <1>6, TypesMade

\* The frame that is complete goes, or stays.
LEMMA DeliverTypes ==
  ASSUME AssemblyInv, TypesInv, AssemblyInv', Deliver
  PROVE  TypesInv'
<1>1. /\ pc = "deliver" /\ pc' = "receive"
      /\ UNCHANGED <<arrived, pack, dropVideoMap, before, raced, sizing, lossSeen, tempPackageVerify>>
      /\ pack.id \in DOMAIN vMap /\ pack.id \in Ids /\ vMap[pack.id].filled \subseteq Chunks(pack.id)
  BY DEF Deliver, GoTo, network, AssemblyInv, InHand, CountsChunks
<1>2. DOMAIN vMap' \subseteq DOMAIN vMap /\ \A id \in DOMAIN vMap' : vMap'[id] = vMap[id]
  BY DEF Deliver, Kept, Remove
<1>3. Finite'
  <2>1. IsFiniteSet(DOMAIN vMap')
    BY <1>2, FS_Subset DEF TypesInv, Finite
  <2> QED BY <1>1, <2>1 DEF TypesInv, Finite
<1>4. ASSUME NEW id \in DOMAIN vMap'
      PROVE  vMap'[id].num + ToCount(id)' <= Cardinality(Copies(id)')
  <2>1. Copies(id)' = Copies(id) /\ vMap[id].num \in Nat /\ vMap'[id] = vMap[id] /\ id \in DOMAIN vMap
    BY <1>1, <1>2 DEF Copies, AssemblyInv, Types
  <2>2. ToCount(id)' = 0 /\ ToCount(id) = 0
    BY <1>1 DEF ToCount, ToCopy, AtOpen
  <2>3. vMap[id].num + ToCount(id) <= Cardinality(Copies(id))
    BY <2>1 DEF TypesInv, CountsBounded
  <2> QED BY <2>1, <2>2, <2>3
<1>5. CountsBounded'
  BY <1>4 DEF CountsBounded
<1>6. delivered' \in Seq([id : Ids, filled : SUBSET UNION {Chunks(id) : id \in Ids}])
  <2> DEFINE entry == [id |-> pack.id, filled |-> vMap[pack.id].filled]
             all == UNION {Chunks(id) : id \in Ids}
  <2>1. Chunks(pack.id) \subseteq all
    BY <1>1
  <2>2. entry \in [id : Ids, filled : SUBSET all]
    BY <1>1, <2>1
  <2>3. delivered' = delivered \/ delivered' = Append(delivered, entry)
    BY DEF Deliver
  <2>4. delivered \in Seq([id : Ids, filled : SUBSET all])
    BY DEF TypesInv, AssemblyTypeOK
  <2> DEFINE frame == [id : Ids, filled : SUBSET all]
  <2> HIDE DEF entry, all, frame
  <2>5. entry \in frame /\ delivered \in Seq(frame)
    BY <2>2, <2>4 DEF frame
  <2>6. delivered' \in Seq(frame)
    BY <2>3, <2>5
  <2> QED BY <2>6 DEF frame, all
<1>7. Tables'
  BY <1>1, <1>6 DEF TypesInv, AssemblyTypeOK, Tables, IsTable
<1> QED BY <1>3, <1>5, <1>7, TypesMade

\* Every step keeps the types.
LEMMA NextTypes == AssemblyInv /\ TypesInv /\ [AssemblyNext]_assemblyVars => TypesInv'
<1> SUFFICES ASSUME AssemblyInv, TypesInv, [AssemblyNext]_assemblyVars PROVE TypesInv'
  OBVIOUS
<1>0. AssemblyInv'
  BY NextAssembly
<1>1. CASE \E p \in Packets : Receive(p)
  BY <1>0, <1>1, ReceiveTypes
<1>2. CASE \/ BeginUpdate \/ PutMissing \/ ContainsKey \/ StrikeMissing \/ IsEmpty \/ RemoveEntry
  BY <1>0, <1>2, UpdateTypes
<1>3. CASE OpenFrame
  BY <1>0, <1>3, OpenTypes
<1>4. CASE CopyChunk
  BY <1>0, <1>4, CopyTypes
<1>5. CASE Deliver
  BY <1>0, <1>5, DeliverTypes
<1>6. CASE SizeUp \/ ClearDropped \/ UNCHANGED assemblyVars
  BY <1>0, <1>6, TimerTypes
<1> QED BY <1>1, <1>2, <1>3, <1>4, <1>5, <1>6 DEF AssemblyNext, UdpThread, Opening

\* A packet that comes in was struck from neither account.
LEMMA ReceiveAgree ==
  ASSUME AssemblyInv, TypesInv, AgreeInv, NEW p \in Packets, Receive(p), raced' = "never"
  PROVE  AgreeInv'
<1>1. /\ pc = "receive" /\ pc' \in {"open", "contains"} /\ UNCHANGED <<vMap, dropVideoMap, before, raced>>
      /\ arrived \in [Packets -> Nat] /\ arrived' = [arrived EXCEPT ![p] = arrived[p] + 1]
  BY DEF Receive, frames, AssemblyInv, Types
<1>2. ASSUME NEW id \in DOMAIN dropVideoMap, Tracked(id)' PROVE Agrees(id)'
  <2>1. Tracked(id)
    <3>1. CASE Kind[id] \in {"video", "other"}
      BY <3>1 DEF Tracked
    <3>2. CASE Kind[id] \notin {"video", "other"}
      <4>1. Once(id)'
        BY <1>2, <3>2 DEF Tracked
      <4>2. \A c \in Chunks(id) : [id |-> id, cur |-> c] \in Packets => arrived[[id |-> id, cur |-> c]] <= 1
        <5>1. \A q \in Packets : arrived[q] \in Nat /\ arrived'[q] \in Nat /\ arrived[q] <= arrived'[q]
          BY <1>1
        <5> QED BY <4>1, <5>1 DEF Once, Chunks
      <4>3. id \in Ids
        BY DEF TypesInv, AssemblyTypeOK, IsTable
      <4>4. Once(id)
        BY <4>2, <4>3, PacketFields DEF Once
      <4> QED BY <4>4 DEF Tracked
    <3> QED BY <3>1, <3>2
  <2>2. /\ id \in DOMAIN vMap /\ vMap[id].filled # Chunks(id)
        /\ dropVideoMap[id] = Chunks(id) \ vMap[id].filled /\ dropVideoMap[id] # {}
    BY <1>1, <2>1 DEF AgreeInv, Agrees, Struck
  <2> QED BY <1>1, <2>2 DEF Agrees, Struck
<1> QED BY <1>1, <1>2 DEF AgreeInv

\* Steps that leave arrivals and vMap alone: what is to show of each entry.
LEMMA AgreeKept ==
  ASSUME AgreeInv, raced = "never", UNCHANGED arrived,
         pc' \in {"putting", "removing"} => before' = dropVideoMap',
         \A id \in DOMAIN dropVideoMap' :
           Tracked(id) /\ (id \in DOMAIN dropVideoMap => Agrees(id)) => Agrees(id)'
  PROVE  AgreeInv'
<1>1. \A id : Tracked(id)' => Tracked(id)
  BY DEF Tracked, Once
<1>2. \A id \in DOMAIN dropVideoMap' : Tracked(id)' => Agrees(id)'
  BY <1>1 DEF AgreeInv
<1> QED BY <1>2 DEF AgreeInv

\* An update of dropVideoMap that is not raced: a new entry lists every chunk,
\* and what is removed is empty.
LEMMA UpdateAgree ==
  ASSUME AssemblyInv, TypesInv, AgreeInv, raced' = "never",
         BeginUpdate \/ PutMissing \/ RemoveEntry
  PROVE  AgreeInv'
<1>1. /\ UNCHANGED <<arrived, vMap, pack>> /\ pack \in Packets /\ pack.id \in Ids
      /\ raced = "never"
  BY PacketFields
     DEF BeginUpdate, PutMissing, RemoveEntry, Updates, GoTo, frames, AssemblyInv, InHand
<1>2. CASE BeginUpdate
  <2>1. /\ UNCHANGED dropVideoMap /\ before' = dropVideoMap
        /\ \/ pc = "open" /\ pc' = "putting"
           \/ pc = "remove" /\ pc' = "removing"
    BY <1>2 DEF BeginUpdate, GoTo, frames
  <2>2. \A id \in DOMAIN dropVideoMap : Agrees(id) => Agrees(id)'
    BY <1>1, <2>1 DEF Agrees, Struck
  <2> QED BY <1>1, <2>1, <2>2, AgreeKept
<1>3. CASE PutMissing
  <2>1. /\ pc = "putting" /\ pc' = "opened" /\ dropVideoMap' = Put(dropVideoMap, pack.id, Chunks(pack.id))
    BY <1>1, <1>3 DEF PutMissing, GoTo, Updates, AgreeInv, AllMissing
  <2>2. /\ DOMAIN dropVideoMap' = DOMAIN dropVideoMap \cup {pack.id} /\ dropVideoMap'[pack.id] = Chunks(pack.id)
        /\ \A id \in DOMAIN dropVideoMap : id # pack.id => dropVideoMap'[id] = dropVideoMap[id]
    BY <2>1 DEF Put
  <2>3. \A id \in DOMAIN dropVideoMap' : (id \in DOMAIN dropVideoMap => Agrees(id)) => Agrees(id)'
    BY <1>1, <2>1, <2>2 DEF Agrees, Struck
  <2> QED BY <1>1, <2>1, <2>3, AgreeKept
<1>4. CASE RemoveEntry
  <2>1. /\ pc = "removing" /\ pc' = "copy" /\ dropVideoMap' = Remove(dropVideoMap, pack.id)
    BY <1>1, <1>4 DEF RemoveEntry, GoTo, Updates, AgreeInv
  <2>2. /\ DOMAIN dropVideoMap' = DOMAIN dropVideoMap \ {pack.id}
        /\ \A id \in DOMAIN dropVideoMap' : dropVideoMap'[id] = dropVideoMap[id]
    BY <2>1 DEF Remove
  <2>3. \A id \in DOMAIN dropVideoMap' : Agrees(id) => Agrees(id)'
    BY <1>1, <2>1, <2>2 DEF Agrees, Struck
  <2> QED BY <1>1, <2>1, <2>2, <2>3, AgreeKept
<1> QED BY <1>2, <1>3, <1>4

\* The chunk in hand is struck from the entry of its frame, if there is one.
LEMMA StrikeAgree ==
  ASSUME AssemblyInv, TypesInv, AgreeInv, raced' = "never", ContainsKey \/ StrikeMissing \/ IsEmpty
  PROVE  AgreeInv'
<1>1. /\ UNCHANGED <<arrived, vMap, pack, before>> /\ pack \in Packets /\ pack.id \in Ids
      /\ raced = "never" /\ pack.cur \in Chunks(pack.id)
  BY PacketFields
     DEF ContainsKey, StrikeMissing, IsEmpty, GoTo, frames, AssemblyInv, InHand
<1>2. CASE ContainsKey
  <2>1. /\ UNCHANGED dropVideoMap /\ pc = "contains"
        /\ IF pack.id \in DOMAIN dropVideoMap THEN pc' = "strike" ELSE pc' = "copy"
    BY <1>2 DEF ContainsKey, GoTo, frames, Has
  <2>2. \A id \in DOMAIN dropVideoMap : Agrees(id) => Agrees(id)'
    BY <1>1, <2>1 DEF Agrees, Struck
  <2> QED BY <1>1, <2>1, <2>2, AgreeKept
<1>3. CASE StrikeMissing
  <2>1. CASE ~Has(dropVideoMap, pack.id)
    <3>1. /\ UNCHANGED dropVideoMap /\ pc = "strike" /\ pc' = "receive" /\ pack.id \notin DOMAIN dropVideoMap
      BY <1>3, <2>1 DEF StrikeMissing, GoTo, Has
    <3>2. \A id \in DOMAIN dropVideoMap : Agrees(id) => Agrees(id)'
      BY <1>1, <3>1 DEF Agrees, Struck
    <3> QED BY <1>1, <3>1, <3>2, AgreeKept
  <2>2. CASE Has(dropVideoMap, pack.id)
    <3>1. /\ pc = "strike" /\ pc' = "empty"
          /\ dropVideoMap' = [dropVideoMap EXCEPT ![pack.id] = dropVideoMap[pack.id] \ {pack.cur}]
      BY <1>3, <2>2 DEF StrikeMissing, GoTo
    <3>2. /\ DOMAIN dropVideoMap' = DOMAIN dropVideoMap
          /\ dropVideoMap'[pack.id] = dropVideoMap[pack.id] \ {pack.cur}
          /\ \A id \in DOMAIN dropVideoMap : id # pack.id => dropVideoMap'[id] = dropVideoMap[id]
      BY <2>2, <3>1 DEF Has
    <3>3. ASSUME NEW id \in DOMAIN dropVideoMap, Agrees(id) PROVE Agrees(id)'
      <4>1. /\ id \in DOMAIN vMap /\ vMap[id].filled # Chunks(id)
            /\ dropVideoMap[id] = Chunks(id) \ vMap[id].filled /\ dropVideoMap[id] # {}
        BY <3>1, <3>3 DEF Agrees, Struck
      <4>2. CASE id = pack.id
        BY <1>1, <3>1, <3>2, <4>1, <4>2 DEF Agrees, Struck
      <4>3. CASE id # pack.id
        BY <1>1, <3>1, <3>2, <4>1, <4>3 DEF Agrees, Struck
      <4> QED BY <4>2, <4>3
    <3> QED BY <1>1, <3>1, <3>2, <3>3, AgreeKept
  <2> QED BY <2>1, <2>2
<1>4. CASE IsEmpty
  <2>1. /\ UNCHANGED dropVideoMap /\ pc = "empty"
        /\ pc' = IF pack.id \notin DOMAIN dropVideoMap THEN "receive"
                 ELSE IF dropVideoMap[pack.id] = {} THEN "remove" ELSE "copy"
    BY <1>4 DEF IsEmpty, GoTo, frames, Has
  <2>2. \A id \in DOMAIN dropVideoMap : Agrees(id) => Agrees(id)'
    BY <1>1, <2>1 DEF Agrees, Struck
  <2> QED BY <1>1, <2>1, <2>2, AgreeKept
<1> QED BY <1>2, <1>3, <1>4

\* The new entry of vMap has none of the chunks that dropVideoMap lists.
LEMMA OpenAgree ==
  ASSUME AssemblyInv, TypesInv, AgreeInv, raced' = "never", OpenFrame
  PROVE  AgreeInv'
<1>1. /\ UNCHANGED <<arrived, pack, dropVideoMap, before, raced>> /\ pc = "opened" /\ pc' = "contains"
      /\ pack.id \notin DOMAIN vMap /\ pack.id \in Ids
      /\ vMap' = Put(vMap, pack.id, NewVdata)
  BY PacketFields DEF OpenFrame, GoTo, AssemblyInv, InHand, AtOpen
<1>2. /\ DOMAIN vMap' = DOMAIN vMap \cup {pack.id} /\ vMap'[pack.id].filled = {}
      /\ \A id \in DOMAIN vMap : vMap'[id] = vMap[id]
  BY <1>1 DEF Put, NewVdata
<1>3. ASSUME NEW id \in DOMAIN dropVideoMap, Agrees(id) PROVE Agrees(id)'
  <2>1. CASE id = pack.id
    <3>1. dropVideoMap[id] = Chunks(id) /\ Chunks(id) # {}
      BY <1>1, <1>3, <2>1, FirstChunk DEF Agrees
    <3> QED BY <1>1, <1>2, <2>1, <3>1 DEF Agrees, Struck
  <2>2. CASE id # pack.id
    BY <1>1, <1>2, <1>3, <2>2 DEF Agrees, Struck
  <2> QED BY <2>1, <2>2
<1> QED BY <1>1, <1>3, AgreeKept

\* The chunk that was struck is copied.
LEMMA CopyAgree ==
  ASSUME AssemblyInv, TypesInv, AgreeInv, raced' = "never", CopyChunk
  PROVE  AgreeInv'
<1>1. /\ UNCHANGED <<arrived, pack, dropVideoMap, before, raced>> /\ pc = "copy"
      /\ pc' \in {"deliver", "receive"}
  BY DEF CopyChunk, GoTo
<1>2. /\ DOMAIN vMap' = DOMAIN vMap
      /\ \A id \in DOMAIN vMap : vMap'[id].filled = IF id = pack.id THEN vMap[id].filled \cup {pack.cur} ELSE vMap[id].filled
  <2>1. CASE ~Has(vMap, pack.id)
    BY <2>1 DEF CopyChunk, Has
  <2>2. CASE Has(vMap, pack.id)
    <3>1. /\ vMap' = [vMap EXCEPT ![pack.id].num = vMap[pack.id].num + 1,
                                  ![pack.id].filled = vMap[pack.id].filled \cup {pack.cur}]
          /\ vMap \in [DOMAIN vMap -> [num : Nat, filled : SUBSET Nat]]
      BY <2>2 DEF CopyChunk, AssemblyInv, Types
    <3> QED BY <2>2, <3>1 DEF Has
  <2> QED BY <2>1, <2>2
<1>3. ASSUME NEW id \in DOMAIN dropVideoMap, Agrees(id) PROVE Agrees(id)'
  <2>1. /\ id \in DOMAIN vMap /\ dropVideoMap[id] # {}
        /\ dropVideoMap[id] = Chunks(id) \ (vMap[id].filled \cup Struck(id))
        /\ vMap[id].filled # Chunks(id)
    BY <1>1, <1>3 DEF Agrees
  <2>2. vMap'[id].filled = vMap[id].filled \cup Struck(id) /\ Struck(id)' = {}
    BY <1>1, <1>2, <2>1 DEF Struck
  <2> QED BY <1>1, <1>2, <2>1, <2>2 DEF Agrees
<1> QED BY <1>1, <1>3, AgreeKept

\* What leaves vMap is whole, and not listed any more.
LEMMA DeliverAgree ==
  ASSUME AssemblyInv, TypesInv, AgreeInv, raced' = "never", Deliver
  PROVE  AgreeInv'
<1>1. /\ UNCHANGED <<arrived, pack, dropVideoMap, before, raced>> /\ pc = "deliver" /\ pc' = "receive"
      /\ Once(pack.id) => vMap[pack.id].filled = Chunks(pack.id)
  BY DEF Deliver, GoTo, AssemblyInv, InHand
<1>2. /\ DOMAIN vMap' \subseteq DOMAIN vMap /\ \A id \in DOMAIN vMap' : vMap'[id] = vMap[id]
      /\ \A id \in DOMAIN vMap : id \in DOMAIN vMap' \/ (id = pack.id /\ Kind[id] \in {"audio", "short"})
  BY DEF Deliver, Kept, Remove
<1>3. ASSUME NEW id \in DOMAIN dropVideoMap, Tracked(id), Agrees(id) PROVE Agrees(id)'
  <2>1. /\ id \in DOMAIN vMap /\ vMap[id].filled # Chunks(id) /\ dropVideoMap[id] # {}
        /\ dropVideoMap[id] = Chunks(id) \ vMap[id].filled
    BY <1>1, <1>3 DEF Agrees, Struck
  <2>2. id \in DOMAIN vMap'
    BY <1>1, <1>2, <1>3, <2>1 DEF Tracked
  <2> QED BY <1>1, <1>2, <2>1, <2>2 DEF Agrees, Struck
<1> QED BY <1>1, <1>3, AgreeKept

\* The timer empties one account, between two updates or in one.
LEMMA TimerAgree ==
  ASSUME AgreeInv, raced' = "never", SizeUp \/ ClearDropped \/ UNCHANGED assemblyVars
  PROVE  AgreeInv'
<1>1. UNCHANGED <<arrived, vMap, pack, pc, before>>
  BY DEF SizeUp, ClearDropped, assemblyVars, frames
<1>2. \/ dropVideoMap' = dropVideoMap
      \/ dropVideoMap' = Empty /\ pc \notin {"putting", "removing"}
  BY DEF SizeUp, ClearDropped, assemblyVars, frames
<1>3. raced = "never"
  BY DEF SizeUp, ClearDropped, assemblyVars
<1>4. CASE dropVideoMap' = dropVideoMap
  <2>1. \A id \in DOMAIN dropVideoMap : Agrees(id) => Agrees(id)'
    BY <1>1, <1>4 DEF Agrees, Struck
  <2> QED BY <1>1, <1>3, <1>4, <2>1, AgreeKept DEF AgreeInv
<1>5. CASE dropVideoMap' = Empty /\ pc \notin {"putting", "removing"}
  <2>1. DOMAIN dropVideoMap' = {}
    BY <1>5 DEF Empty
  <2> QED BY <1>1, <1>3, <1>5, <2>1, AgreeKept
<1> QED BY <1>2, <1>4, <1>5

\* Every step keeps the accounts in agreement.
LEMMA NextAgree == AssemblyInv /\ TypesInv /\ AgreeInv /\ [AssemblyNext]_assemblyVars => AgreeInv'
<1> SUFFICES ASSUME AssemblyInv, TypesInv, AgreeInv, [AssemblyNext]_assemblyVars, raced' = "never" PROVE AgreeInv'
  BY DEF AgreeInv
<1>1. CASE \E p \in Packets : Receive(p)
  BY <1>1, ReceiveAgree
<1>2. CASE BeginUpdate \/ PutMissing \/ RemoveEntry
  BY <1>2, UpdateAgree
<1>3. CASE ContainsKey \/ StrikeMissing \/ IsEmpty
  BY <1>3, StrikeAgree
<1>4. CASE OpenFrame
  BY <1>4, OpenAgree
<1>5. CASE CopyChunk
  BY <1>5, CopyAgree
<1>6. CASE Deliver
  BY <1>6, DeliverAgree
<1>7. CASE SizeUp \/ ClearDropped \/ UNCHANGED assemblyVars
  BY <1>7, TimerAgree
<1> QED BY <1>1, <1>2, <1>3, <1>4, <1>5, <1>6, <1>7 DEF AssemblyNext, UdpThread, Opening

\* In every execution counts, types and accounts are right.
THEOREM TablesAlwaysRight == AssemblySpec => []TablesInv
<1>1. AssemblyInit => TablesInv
  BY InitAssembly, InitTables DEF TablesInv
<1>2. TablesInv /\ [AssemblyNext]_assemblyVars => TablesInv'
  BY NextAssembly, NextTypes, NextAgree DEF TablesInv
<1> QED BY <1>1, <1>2, PTL DEF AssemblySpec

\* UdpSocket.java:561-619, 896-901: the accounts agree between packets, no
\* frame is forgotten, and everything has its type.
THEOREM AssemblyIsSafe == AssemblySpec => []AssemblySafe
<1>1. TablesInv => AssemblyTypeOK /\ AccountsAgree
  BY DEF TablesInv, TypesInv, AgreeInv, AccountsAgree, Agrees, Struck
<1>2. AssemblyTypeOK /\ AccountsAgree /\ NoFrameForgotten => AssemblySafe
  BY DEF AssemblySafe
<1> QED BY <1>1, <1>2, TablesAlwaysRight, NoneIsForgotten, PTL

\* What dropVideoMap lists lacks a chunk.
LEMMA LossStep ==
  TablesInv /\ [AssemblyNext]_assemblyVars =>
    [lossSeen' /\ ~lossSeen /\ raced = "never" => Cardinality(Lacking) > DropLimit]_assemblyVars
<1> SUFFICES ASSUME TablesInv, AssemblyNext, lossSeen', ~lossSeen, raced = "never"
             PROVE  Cardinality(Lacking) > DropLimit
  OBVIOUS
<1>1. Cardinality(DOMAIN dropVideoMap) > DropLimit
  BY DEF AssemblyNext, UdpThread, Opening, Receive, BeginUpdate, PutMissing, OpenFrame, ContainsKey, StrikeMissing,
         IsEmpty, RemoveEntry, CopyChunk, Deliver, SizeUp, ClearDropped, network
<1>2. DOMAIN dropVideoMap \subseteq Lacking
  BY DEF TablesInv, AgreeInv, Agrees, Lacking
<1>3. IsFiniteSet(Lacking)
  <2>1. IsFiniteSet(DOMAIN vMap) /\ IsFiniteSet(DOMAIN dropVideoMap)
    BY DEF TablesInv, TypesInv, Finite
  <2>2. IsFiniteSet(DOMAIN vMap \cup DOMAIN dropVideoMap)
    BY <2>1, FS_Union
  <2>3. IsFiniteSet((DOMAIN vMap \cup DOMAIN dropVideoMap) \cup {pack.id})
    BY <2>2, FS_AddElement
  <2>4. Lacking \subseteq (DOMAIN vMap \cup DOMAIN dropVideoMap) \cup {pack.id}
    BY DEF Lacking
  <2> QED BY <2>3, <2>4, FS_Subset
<1>4. Cardinality(DOMAIN dropVideoMap) <= Cardinality(Lacking)
  BY <1>2, <1>3, FS_Subset
<1>5. Cardinality(DOMAIN dropVideoMap) \in Nat /\ Cardinality(Lacking) \in Nat
  BY <1>3, FS_CardinalityType DEF TablesInv, TypesInv, Finite
<1> QED BY <1>1, <1>4, <1>5

\* UdpSocket.java:896-901: the timer asks for a lower rate because of frames that
\* really lack a chunk.
THEOREM LossIsLoss == AssemblySpec => LossSeenOnlyOnLoss
  BY TablesAlwaysRight, LossStep, PTL DEF AssemblySpec, LossSeenOnlyOnLoss

-----------------------------------------------------------------------------
\* VideoSession and HolePunch.

HIDE FrameAssumption
USE PunchAssumption, SessionAssumption

-----------------------------------------------------------------------------
\* Hole punching.  Unless a later setCamIpInfo() overtakes it, a thread finds its
\* own session in each field that it has still to read, and has it in hand then.
FieldsInPlace == \A s \in Sessions \ overtaken :
  /\ at[s] \in {"new", "join", "port", "channel"} => channelId = s
  /\ at[s] \in {"new", "join"} => camMcuIp = s
  /\ at[s] \in {"new", "join", "port"} => camMcuPort = s
HandInPlace == \A s \in Sessions \ overtaken :
  /\ at[s] \in {"port", "channel", "make"} => asks[s].ip = s
  /\ at[s] \in {"channel", "make"} => asks[s].port = s
  /\ at[s] = "make" => asks[s].channel = s

\* What is in dpSend between Make and Send: the packet of the thread that is
\* about to send, if nobody has replaced it.
JoinInHand == \A s \in Sessions :
  at[s] = "sendJoin" => \/ s \in overwritten \cup overtaken
                        \/ dpSend = [to |-> "relay", by |-> s, ask |-> AskFor(s)]

\* Until a thread chooses, camera and port are those announced for its session.
PortInHand == \A s \in Sessions \ disturbed :
  at[s] \in {"new", "join", "port", "channel", "make", "sendJoin", "choose"} =>
    currentCam = announced[s].cam /\ natPort[currentCam] = announced[s].port

PunchInv == /\ limit \in Limits /\ PunchTypeOK
            /\ JoinsItsChannel /\ JoinInHand /\ FieldsInPlace /\ HandInPlace
            /\ PunchesItsCamera /\ PortInHand

\* The bounds are numbers.
LEMMA BoundsAreNumbers ==
  ASSUME limit \in Limits
  PROVE  /\ {limit.ones, limit.cameraOnes, limit.sessions, limit.rounds, limit.silence} \subseteq Nat
         /\ limit.cameras \in Nat \ {0}
  OBVIOUS

LEMMA InitPunch == Init => PunchInv
<1> SUFFICES ASSUME Init PROVE PunchInv
  OBVIOUS
<1> USE DEF Init, PunchInit, NoPacket, AskFor
<1>1. PunchTypeOK
  <2>1. limit.ones \in Nat /\ limit.cameraOnes \in Nat /\ 1 \in Cameras
    BY BoundsAreNumbers DEF Cameras
  <2>2. dpSend \in [to : {"nobody", "relay", "camera"}, by : Sessions \cup {Receiver}, ask : Requests]
    BY DEF Requests
  <2>3. isP2pSuccess \in BOOLEAN
    OBVIOUS
  <2>4. asks \in [Sessions -> Requests]
    BY DEF Requests
  <2>5. announced \in [Sessions -> [cam : Cameras, port : Sessions \cup {0}]]
    BY <2>1
  <2>6. at \in [Sessions -> Places]
    BY DEF Places
  <2> QED BY <2>1, <2>2, <2>3, <2>4, <2>5, <2>6 DEF PunchTypeOK
<1>2. JoinsItsChannel /\ JoinInHand /\ FieldsInPlace /\ HandInPlace
  BY DEF JoinsItsChannel, JoinInHand, FieldsInPlace, HandInPlace, Scanning, Direct
<1>3. PunchesItsCamera /\ PortInHand
  BY DEF PunchesItsCamera, PortInHand, Scanning, Direct
<1> QED BY <1>1, <1>2, <1>3 DEF PunchInv

\* setCamIpInfo() announces when it has set channel and relay.
Announces(s) == Announce(s) /\ channelId = s /\ camMcuIp = s /\ camMcuPort = s

\* What a step of any thread does to the state of HolePunch.
PunchAction ==
  \/ \E s \in Sessions : SetChannel(s) \/ SetMcuIp(s) \/ SetMcuPort(s) \/ Announces(s) \/ StartPunching(s) \/ PunchStep(s)
  \/ ReceiverStep \/ CameraSends \/ ChooseCamera

\* Putting a packet into dpSend takes note of every other thread that was about
\* to send one.
LEMMA MakeNotesOthers ==
  ASSUME PunchInv, NEW x \in Sessions \cup {Receiver}, NEW to \in {"relay", "camera"}, NEW ask \in Requests, Make(x, to, ask)
  PROVE  /\ dpSend' = [to |-> to, by |-> x, ask |-> ask]
         /\ dpSend' \in [to : {"nobody", "relay", "camera"}, by : Sessions \cup {Receiver}, ask : Requests]
         /\ overwritten' \subseteq Sessions \cup {Receiver}
         /\ overwritten \subseteq overwritten'
         /\ \A s \in Sessions \ {x} : at[s] = "sendJoin" => s \in overwritten'
  BY DEF Make, About, PunchInv, PunchTypeOK

\* Nothing to ask is a request, too.
LEMMA NoAskTyped == AskFor(0) \in Requests
  BY DEF AskFor, Requests

\* Sending what is in dpSend only adds to joined and to the packets on their way.
LEMMA SendAdds ==
  ASSUME PunchInv, Send
  PROVE  /\ joined \subseteq joined' /\ joined' \subseteq Sessions /\ ones' \in 0..limit.ones
         /\ \A s \in Sessions : dpSend.to = "relay" /\ dpSend.ask = AskFor(s) => s \in joined'
<1>1. limit.ones \in Nat /\ ones \in Nat /\ ones <= limit.ones
  BY BoundsAreNumbers DEF PunchInv, PunchTypeOK
<1>2. Reaches => ones' \in 0..limit.ones
  BY <1>1 DEF Reaches
<1> QED BY <1>1, <1>2 DEF Send, PunchInv, PunchTypeOK

-----------------------------------------------------------------------------
\* Types, one group of fields at a time.
AimTypes == /\ currentCam \in Cameras /\ natPort \in [Cameras -> Sessions \cup {0, Guess}]
            /\ announced \in [Sessions -> [cam : Cameras, port : Sessions \cup {0}]] /\ disturbed \subseteq Sessions
RelayTypes == {channelId, camMcuIp, camMcuPort} \subseteq Sessions \cup {0} /\ overtaken \subseteq Sessions
ThreadTypes ==
  /\ at \in [Sessions -> Places]
  /\ round \in [Sessions -> Nat] /\ asks \in [Sessions -> Requests] /\ joined \subseteq Sessions
AnswerTypes == /\ isP2pSuccess \in BOOLEAN /\ senNo1Tiem \in 0..2 /\ answering \in {"no", "make", "send"}
               /\ ones \in 0..limit.ones /\ cameraSent \in 0..limit.cameraOnes
SendTypes == /\ dpSend \in [to : {"nobody", "relay", "camera"}, by : Sessions \cup {Receiver}, ask : Requests]
             /\ overwritten \subseteq Sessions \cup {Receiver}

\* The groups are all of them.
LEMMA TypesInGroups == PunchTypeOK <=> AimTypes /\ RelayTypes /\ ThreadTypes /\ AnswerTypes /\ SendTypes
  BY DEF PunchTypeOK, AimTypes, RelayTypes, ThreadTypes, AnswerTypes, SendTypes

\* The camera and its port,
LEMMA AimTyped == PunchInv /\ limit' = limit /\ PunchAction => AimTypes'
<1> SUFFICES ASSUME PunchInv, limit' = limit, PunchAction PROVE AimTypes'
  OBVIOUS
<1>1. AimTypes /\ Cameras' = Cameras
  BY TypesInGroups DEF PunchInv, Cameras
<1>2. ASSUME NEW s \in Sessions, Announce(s) PROVE AimTypes'
  <2>1. PICK port \in Ports(s) : /\ natPort' = [natPort EXCEPT ![currentCam] = port]
                                 /\ announced' = [announced EXCEPT ![s] = [cam |-> currentCam, port |-> port]]
    BY <1>2 DEF Announce
  <2>2. port \in Sessions \cup {0}
    BY DEF Ports
  <2>3. disturbed' \subseteq Sessions /\ currentCam' = currentCam
    BY <1>1, <1>2 DEF Announce, AimTypes
  <2> QED BY <1>1, <2>1, <2>2, <2>3 DEF AimTypes
<1>3. CASE ChooseCamera
  BY <1>1, <1>3 DEF ChooseCamera, AimTypes
<1>4. ASSUME NEW s \in Sessions, SetGuess(s) PROVE AimTypes'
  BY <1>1, <1>4 DEF SetGuess, AimTypes
<1>5. CASE UNCHANGED aim
  BY <1>1, <1>5 DEF aim, AimTypes
<1>6. ASSUME NEW s \in Sessions, PunchStep(s), ~SetGuess(s) PROVE UNCHANGED aim
  BY <1>6 DEF PunchStep, ReadIp, ReadPort, ReadChannel, Reads, MakeJoin, SendJoin, Choose, MakeLocal, SendLocal, MakeNat, SendNat, Sleep
<1>7. ASSUME NEW s \in Sessions, SetChannel(s) \/ SetMcuIp(s) \/ SetMcuPort(s) \/ StartPunching(s) PROVE UNCHANGED aim
  BY <1>7 DEF SetChannel, SetMcuIp, SetMcuPort, StartPunching
<1>8. CASE ReceiverStep \/ CameraSends
  BY <1>5, <1>8 DEF ReceiverStep, ReceiveOne, MakeAnswer, SendAnswer, CameraSends, punchers
<1> QED BY <1>2, <1>3, <1>4, <1>5, <1>6, <1>7, <1>8 DEF PunchAction, Announces

\* A thread that punches reads channel and relay and writes neither.
LEMMA PunchersKeepRelay ==
  ASSUME NEW s \in Sessions, PunchStep(s)
  PROVE  UNCHANGED relay
  BY DEF PunchStep, ReadIp, ReadPort, ReadChannel, Reads, MakeJoin, SendJoin, Choose, MakeLocal, SendLocal, SetGuess,
         MakeNat, SendNat, Sleep

\* The channel and the relay's address are sessions'.
LEMMA RelayTyped == PunchInv /\ PunchAction => RelayTypes'
<1> SUFFICES ASSUME PunchInv, PunchAction PROVE RelayTypes'
  OBVIOUS
<1>1. RelayTypes
  BY TypesInGroups DEF PunchInv
<1>2. ASSUME NEW s \in Sessions, SetChannel(s) \/ SetMcuIp(s) \/ SetMcuPort(s) PROVE RelayTypes'
  BY <1>1, <1>2 DEF SetChannel, SetMcuIp, SetMcuPort, Overtakes, RelayTypes
<1>3. CASE UNCHANGED relay
  BY <1>1, <1>3 DEF relay, RelayTypes
<1>4. ASSUME NEW s \in Sessions, PunchStep(s) PROVE UNCHANGED relay
  BY <1>4, PunchersKeepRelay
<1>5. ASSUME NEW s \in Sessions, Announce(s) \/ StartPunching(s) PROVE UNCHANGED relay
  BY <1>5 DEF Announce, StartPunching
<1>6. CASE ReceiverStep \/ CameraSends \/ ChooseCamera
  BY <1>3, <1>6 DEF ReceiverStep, ReceiveOne, MakeAnswer, SendAnswer, CameraSends, ChooseCamera, punchers
<1> QED BY <1>2, <1>3, <1>4, <1>5, <1>6 DEF PunchAction, Announces

\* The threads,
LEMMA ThreadsTyped == PunchInv /\ PunchAction => ThreadTypes'
<1> SUFFICES ASSUME PunchInv, PunchAction PROVE ThreadTypes'
  OBVIOUS
<1>1. ThreadTypes /\ RelayTypes
  BY TypesInGroups DEF PunchInv
<1> USE DEF Goto
<1>2. ASSUME NEW s \in Sessions, SetChannel(s) \/ SetMcuIp(s) \/ SetMcuPort(s) PROVE ThreadTypes'
  BY <1>1, <1>2 DEF Places, SetChannel, SetMcuIp, SetMcuPort, ThreadTypes
<1>3. ASSUME NEW s \in Sessions, Announce(s) \/ StartPunching(s) PROVE ThreadTypes'
  BY <1>1, <1>3 DEF Places, Announce, StartPunching, ThreadTypes
<1>4. ASSUME NEW s \in Sessions, ReadIp(s) \/ ReadPort(s) \/ ReadChannel(s) PROVE ThreadTypes'
  <2>1. PICK f \in {"ip", "port", "channel"}, x \in Sessions \cup {0}, l \in {"port", "channel", "make"} : Reads(s, f, x, l)
    BY <1>1, <1>4 DEF ReadIp, ReadPort, ReadChannel, RelayTypes
  <2>2. asks' \in [Sessions -> Requests]
    BY <1>1, <2>1 DEF Reads, ThreadTypes, Requests
  <2> QED BY <1>1, <2>1, <2>2 DEF Reads, ThreadTypes, Places
<1>5. ASSUME NEW s \in Sessions, MakeJoin(s) PROVE ThreadTypes'
  BY <1>1, <1>5, NoAskTyped DEF Places, MakeJoin, ThreadTypes
<1>6. ASSUME NEW s \in Sessions, SendJoin(s) PROVE ThreadTypes'
  BY <1>1, <1>6, SendAdds DEF Places, SendJoin, ThreadTypes
<1>7. ASSUME NEW s \in Sessions, Choose(s) PROVE ThreadTypes'
  <2>1. at' \in [Sessions -> Places]
    BY <1>1, <1>7 DEF Choose, ThreadTypes, Places, Scanning, Direct
  <2> QED BY <1>1, <1>7, <2>1 DEF Choose, ThreadTypes
<1>8. ASSUME NEW s \in Sessions, MakeLocal(s) \/ MakeNat(s) PROVE ThreadTypes'
  <2>1. at' \in [Sessions -> Places]
    BY <1>1, <1>8 DEF MakeLocal, MakeNat, ThreadTypes, Places, Scanning, Direct
  <2> QED BY <1>1, <1>8, <2>1 DEF MakeLocal, MakeNat, ThreadTypes
<1>9. ASSUME NEW s \in Sessions, SendLocal(s) PROVE ThreadTypes'
  <2>1. at' \in [Sessions -> Places]
    BY <1>1, <1>9 DEF SendLocal, ThreadTypes, Places, Scanning, Direct
  <2> QED BY <1>1, <1>9, <2>1, SendAdds DEF SendLocal, ThreadTypes
<1>10. ASSUME NEW s \in Sessions, SendNat(s) PROVE ThreadTypes'
  <2>1. at' \in [Sessions -> Places]
    BY <1>1, <1>10 DEF SendNat, ThreadTypes, Places, Scanning, Direct
  <2> QED BY <1>1, <1>10, <2>1, SendAdds DEF SendNat, ThreadTypes
<1>11. ASSUME NEW s \in Sessions, SetGuess(s) PROVE ThreadTypes'
  <2>1. at' \in [Sessions -> Places]
    BY <1>1, <1>11 DEF SetGuess, ThreadTypes, Places, Scanning, Direct
  <2> QED BY <1>1, <1>11, <2>1 DEF SetGuess, ThreadTypes
<1>12. ASSUME NEW s \in Sessions, Sleep(s) PROVE ThreadTypes'
  <2>1. at' \in [Sessions -> Places]
    BY <1>1, <1>12 DEF Sleep, ThreadTypes, Places, Scanning, Direct
  <2> QED BY <1>1, <1>12, <2>1 DEF Sleep, ThreadTypes
<1>13. CASE ReceiveOne \/ MakeAnswer \/ CameraSends \/ ChooseCamera
  BY <1>1, <1>13 DEF ReceiveOne, MakeAnswer, CameraSends, ChooseCamera, punchers, ThreadTypes
<1>14. CASE SendAnswer
  BY <1>1, <1>14, SendAdds DEF SendAnswer, ThreadTypes
<1> QED BY <1>2, <1>3, <1>4, <1>5, <1>6, <1>7, <1>8, <1>9, <1>10, <1>11, <1>12, <1>13, <1>14
        DEF PunchAction, Announces, PunchStep, ReceiverStep

\* the answers and what is on its way,
LEMMA AnswersTyped == PunchInv /\ limit' = limit /\ PunchAction => AnswerTypes'
<1> SUFFICES ASSUME PunchInv, limit' = limit, PunchAction PROVE AnswerTypes'
  OBVIOUS
<1>1. AnswerTypes /\ limit.ones \in Nat /\ limit.cameraOnes \in Nat
  BY TypesInGroups, BoundsAreNumbers DEF PunchInv
<1>2. ASSUME UNCHANGED answers PROVE AnswerTypes'
  BY <1>1, <1>2 DEF answers, AnswerTypes
<1>3. ASSUME NEW s \in Sessions,
             SetChannel(s) \/ SetMcuIp(s) \/ SetMcuPort(s) \/ Announce(s) \/ StartPunching(s) \/ ReadIp(s) \/ ReadPort(s) \/ ReadChannel(s)
      PROVE  UNCHANGED answers
  BY <1>3 DEF SetChannel, SetMcuIp, SetMcuPort, Announce, StartPunching, ReadIp, ReadPort, ReadChannel, Reads
<1>4. ASSUME NEW s \in Sessions, MakeJoin(s) \/ Choose(s) \/ MakeLocal(s) \/ SetGuess(s) \/ MakeNat(s) \/ Sleep(s)
      PROVE  UNCHANGED answers
  BY <1>4 DEF MakeJoin, Choose, MakeLocal, SetGuess, MakeNat, Sleep
<1>5. ASSUME Send, UNCHANGED <<isP2pSuccess, senNo1Tiem, cameraSent>>, answering' \in {answering, "no"} PROVE AnswerTypes'
  BY <1>1, <1>5, SendAdds DEF AnswerTypes
<1>6. ASSUME NEW s \in Sessions, SendJoin(s) \/ SendLocal(s) \/ SendNat(s) PROVE AnswerTypes'
  BY <1>5, <1>6 DEF SendJoin, SendLocal, SendNat
<1>7. CASE ReceiveOne
  <2>1. senNo1Tiem' \in 0..2
    BY <1>1, <1>7 DEF ReceiveOne, Answer, AnswerTypes
  <2>2. isP2pSuccess' \in BOOLEAN /\ answering' \in {"no", "make", "send"}
    BY <1>1, <1>7 DEF ReceiveOne, Answer, AnswerTypes
  <2>3. ones' \in 0..limit.ones /\ cameraSent' \in 0..limit.cameraOnes
    BY <1>1, <1>7 DEF ReceiveOne, AnswerTypes
  <2> QED BY <2>1, <2>2, <2>3 DEF AnswerTypes
<1>8. CASE MakeAnswer
  BY <1>1, <1>8 DEF MakeAnswer, AnswerTypes
<1>9. CASE SendAnswer
  BY <1>5, <1>9 DEF SendAnswer
<1>10. CASE CameraSends
  BY <1>1, <1>10 DEF CameraSends, AnswerTypes
<1>11. CASE ChooseCamera
  BY <1>2, <1>11 DEF ChooseCamera
<1> QED BY <1>2, <1>3, <1>4, <1>6, <1>7, <1>8, <1>9, <1>10, <1>11 DEF PunchAction, Announces, PunchStep, ReceiverStep

\* the packet to be sent,
LEMMA SendTyped == PunchInv /\ PunchAction => SendTypes'
<1> SUFFICES ASSUME PunchInv, PunchAction PROVE SendTypes'
  OBVIOUS
<1>1. SendTypes /\ asks \in [Sessions -> Requests]
  BY TypesInGroups DEF PunchInv, ThreadTypes
<1>2. ASSUME UNCHANGED sending PROVE SendTypes'
  BY <1>1, <1>2 DEF sending, SendTypes
<1>3. ASSUME NEW s \in Sessions,
             SetChannel(s) \/ SetMcuIp(s) \/ SetMcuPort(s) \/ Announce(s) \/ StartPunching(s) \/ ReadIp(s) \/ ReadPort(s) \/ ReadChannel(s)
      PROVE  UNCHANGED sending
  BY <1>3 DEF SetChannel, SetMcuIp, SetMcuPort, Announce, StartPunching, ReadIp, ReadPort, ReadChannel, Reads
<1>4. ASSUME NEW s \in Sessions, SendJoin(s) \/ Choose(s) \/ SendLocal(s) \/ SetGuess(s) \/ SendNat(s) \/ Sleep(s)
      PROVE  UNCHANGED sending
  BY <1>4 DEF SendJoin, Choose, SendLocal, SetGuess, SendNat, Sleep
<1>5. CASE ReceiveOne \/ SendAnswer \/ CameraSends \/ ChooseCamera
  BY <1>2, <1>5 DEF ReceiveOne, SendAnswer, CameraSends, ChooseCamera
<1>6. ASSUME NEW s \in Sessions, MakeJoin(s) PROVE SendTypes'
  <2>1. Make(s, "relay", asks[s]) /\ asks[s] \in Requests
    BY <1>1, <1>6 DEF MakeJoin
  <2> QED BY <2>1, MakeNotesOthers DEF SendTypes
<1>7. ASSUME NEW s \in Sessions, MakeLocal(s) \/ MakeNat(s) PROVE SendTypes'
  <2>1. Make(s, "camera", AskFor(0))
    BY <1>7 DEF MakeLocal, MakeNat
  <2> QED BY <2>1, NoAskTyped, MakeNotesOthers DEF SendTypes
<1>8. CASE MakeAnswer
  <2>1. Make(Receiver, "camera", AskFor(0))
    BY <1>8 DEF MakeAnswer
  <2> QED BY <2>1, NoAskTyped, MakeNotesOthers DEF SendTypes
<1> QED BY <1>2, <1>3, <1>4, <1>5, <1>6, <1>7, <1>8 DEF PunchAction, Announces, PunchStep, ReceiverStep

\* and all of them.
LEMMA PunchTypes == PunchInv /\ limit' = limit /\ PunchAction => PunchTypeOK'
  BY AimTyped, RelayTyped, ThreadsTyped, AnswersTyped, SendTyped
     DEF PunchTypeOK, AimTypes, RelayTypes, ThreadTypes, AnswerTypes, SendTypes

-----------------------------------------------------------------------------
\* What a session is to ask: set before its thread starts, read one field after
\* the other, and overtaken only by a session that says so.
LEMMA FieldsStay == PunchInv /\ PunchAction => FieldsInPlace' /\ HandInPlace'
<1> SUFFICES ASSUME PunchInv, PunchAction PROVE FieldsInPlace' /\ HandInPlace'
  OBVIOUS
<1>1. /\ FieldsInPlace /\ HandInPlace /\ at \in [Sessions -> Places]
      /\ asks \in [Sessions -> Requests] /\ overtaken \subseteq Sessions
  BY DEF PunchInv, PunchTypeOK
<1> USE DEF Goto
<1>2. ASSUME NEW s \in Sessions, SetChannel(s) \/ SetMcuIp(s) \/ SetMcuPort(s) PROVE FieldsInPlace' /\ HandInPlace'
  <2>1. UNCHANGED <<at, asks>> /\ overtaken \subseteq overtaken'
    BY <1>2 DEF SetChannel, SetMcuIp, SetMcuPort, Overtakes
  <2>2. HandInPlace'
    BY <1>1, <2>1 DEF HandInPlace
  <2>3. CASE SetChannel(s)
    BY <1>1, <2>1, <2>2, <2>3 DEF SetChannel, Overtakes, FieldsInPlace
  <2>4. CASE SetMcuIp(s)
    BY <1>1, <2>1, <2>2, <2>4 DEF SetMcuIp, Overtakes, FieldsInPlace
  <2>5. CASE SetMcuPort(s)
    BY <1>1, <2>1, <2>2, <2>5 DEF SetMcuPort, Overtakes, FieldsInPlace
  <2> QED BY <1>2, <2>2, <2>3, <2>4, <2>5
<1>3. ASSUME NEW s \in Sessions, Announces(s) \/ StartPunching(s) PROVE FieldsInPlace' /\ HandInPlace'
  <2>1. UNCHANGED <<relay, asks>> /\ at' \in {[at EXCEPT ![s] = "new"], [at EXCEPT ![s] = "join"]}
    BY <1>3 DEF Announces, Announce, StartPunching
  <2>2. HandInPlace'
    BY <1>1, <2>1 DEF HandInPlace, relay
  <2>3. CASE Announces(s)
    BY <1>1, <2>1, <2>2, <2>3 DEF Announces, Announce, FieldsInPlace, relay
  <2>4. CASE StartPunching(s)
    BY <1>1, <2>1, <2>2, <2>4 DEF StartPunching, FieldsInPlace, relay
  <2> QED BY <1>3, <2>2, <2>3, <2>4
<1>4. ASSUME NEW s \in Sessions, ReadIp(s) PROVE FieldsInPlace' /\ HandInPlace'
  <2>1. /\ at[s] = "join" /\ at' = [at EXCEPT ![s] = "port"] /\ UNCHANGED relay
        /\ asks' = [asks EXCEPT ![s].ip = camMcuIp]
    BY <1>4 DEF ReadIp, Reads
  <2>2. asks'[s].ip = camMcuIp /\ \A r \in Sessions \ {s} : asks'[r] = asks[r]
    BY <1>1, <2>1 DEF Requests
  <2> QED BY <1>1, <2>1, <2>2 DEF FieldsInPlace, HandInPlace, relay
<1>5. ASSUME NEW s \in Sessions, ReadPort(s) PROVE FieldsInPlace' /\ HandInPlace'
  <2>1. /\ at[s] = "port" /\ at' = [at EXCEPT ![s] = "channel"] /\ UNCHANGED relay
        /\ asks' = [asks EXCEPT ![s].port = camMcuPort]
    BY <1>5 DEF ReadPort, Reads
  <2>2. /\ asks'[s].port = camMcuPort /\ asks'[s].ip = asks[s].ip
        /\ \A r \in Sessions \ {s} : asks'[r] = asks[r]
    BY <1>1, <2>1 DEF Requests
  <2> QED BY <1>1, <2>1, <2>2 DEF FieldsInPlace, HandInPlace, relay
<1>6. ASSUME NEW s \in Sessions, ReadChannel(s) PROVE FieldsInPlace' /\ HandInPlace'
  <2>1. /\ at[s] = "channel" /\ at' = [at EXCEPT ![s] = "make"] /\ UNCHANGED relay
        /\ asks' = [asks EXCEPT ![s].channel = channelId]
    BY <1>6 DEF ReadChannel, Reads
  <2>2. /\ asks'[s].channel = channelId /\ asks'[s].ip = asks[s].ip /\ asks'[s].port = asks[s].port
        /\ \A r \in Sessions \ {s} : asks'[r] = asks[r]
    BY <1>1, <2>1 DEF Requests
  <2> QED BY <1>1, <2>1, <2>2 DEF FieldsInPlace, HandInPlace, relay
<1>7. ASSUME NEW s \in Sessions, MakeJoin(s) PROVE FieldsInPlace' /\ HandInPlace'
  BY <1>1, <1>7 DEF MakeJoin, FieldsInPlace, HandInPlace, relay
<1>8. ASSUME NEW s \in Sessions, UNCHANGED <<relay, asks>>,
             NEW l \in {"choose", "done"} \cup Scanning \cup Direct, at' = [at EXCEPT ![s] = l]
      PROVE  FieldsInPlace' /\ HandInPlace'
  BY <1>1, <1>8 DEF FieldsInPlace, HandInPlace, relay, Scanning, Direct
<1>9. ASSUME NEW s \in Sessions, SendJoin(s) \/ Choose(s) \/ MakeLocal(s) PROVE FieldsInPlace' /\ HandInPlace'
  <2>1. /\ UNCHANGED <<relay, asks>>
        /\ \E l \in {"choose", "done"} \cup Scanning \cup Direct : at' = [at EXCEPT ![s] = l]
    BY <1>9 DEF SendJoin, Choose, MakeLocal, Scanning, Direct
  <2> QED BY <1>8, <2>1
<1>10. ASSUME NEW s \in Sessions, SendLocal(s) \/ SetGuess(s) \/ MakeNat(s) PROVE FieldsInPlace' /\ HandInPlace'
  <2>1. /\ UNCHANGED <<relay, asks>>
        /\ \E l \in {"choose", "done"} \cup Scanning \cup Direct : at' = [at EXCEPT ![s] = l]
    BY <1>10 DEF SendLocal, SetGuess, MakeNat, Scanning, Direct
  <2> QED BY <1>8, <2>1
<1>11. ASSUME NEW s \in Sessions, SendNat(s) \/ Sleep(s) PROVE FieldsInPlace' /\ HandInPlace'
  <2>1. /\ UNCHANGED <<relay, asks>>
        /\ \E l \in {"choose", "done"} \cup Scanning \cup Direct : at' = [at EXCEPT ![s] = l]
    BY <1>11 DEF SendNat, Sleep, Scanning, Direct
  <2> QED BY <1>8, <2>1
<1>12. CASE ReceiverStep \/ CameraSends \/ ChooseCamera
  <2>1. UNCHANGED <<relay, at, asks>>
    BY <1>12 DEF ReceiverStep, ReceiveOne, MakeAnswer, SendAnswer, CameraSends, ChooseCamera, punchers
  <2> QED BY <1>1, <2>1 DEF FieldsInPlace, HandInPlace, relay
<1> QED BY <1>2, <1>3, <1>4, <1>5, <1>6, <1>7, <1>9, <1>10, <1>11, <1>12 DEF PunchAction, PunchStep

\* The request to join: put into dpSend, and on the wire or replaced when the
\* thread goes on.
LEMMA PunchJoins == PunchInv /\ PunchAction => (JoinsItsChannel /\ JoinInHand)'
<1> SUFFICES ASSUME PunchInv, PunchAction PROVE (JoinsItsChannel /\ JoinInHand)'
  OBVIOUS
<1> DEFINE Goal == (JoinsItsChannel /\ JoinInHand)'
           Beyond == Scanning \cup Direct \cup {"choose", "done"}
<1>1. /\ JoinsItsChannel /\ JoinInHand /\ HandInPlace /\ at \in [Sessions -> Places]
      /\ asks \in [Sessions -> Requests] /\ overtaken \subseteq Sessions
  BY DEF PunchInv, PunchTypeOK
<1>2. "sendJoin" \notin Beyond /\ {"none", "new", "join", "port", "channel", "make"} \cap Beyond = {}
  BY DEF Scanning, Direct
<1> USE DEF JoinsItsChannel, JoinInHand, Goto
<1> HIDE DEF Beyond
<1>3. \A r \in Sessions : at[r] \in Beyond => r \in joined \cup overwritten \cup overtaken
  BY <1>1 DEF Beyond
<1>0. ASSUME \A r \in Sessions : at'[r] \in Beyond => r \in joined' \cup overwritten' \cup overtaken', JoinInHand'
      PROVE  Goal
  BY <1>0 DEF Beyond
\* A thread that neither makes nor sends may move, but not to where it claims to have sent.
<1>4. ASSUME NEW s \in Sessions, UNCHANGED <<sending, joined>>, overtaken \subseteq overtaken',
             NEW l \in {"new", "join", "port", "channel", "make"}, at' \in {at, [at EXCEPT ![s] = l]}
      PROVE  Goal
  BY <1>1, <1>2, <1>0, <1>3, <1>4 DEF sending
<1>5. ASSUME NEW s \in Sessions, SetChannel(s) \/ SetMcuIp(s) \/ SetMcuPort(s) \/ Announces(s) \/ StartPunching(s) PROVE Goal
  <2>1. /\ UNCHANGED <<sending, joined>> /\ overtaken \subseteq overtaken'
        /\ \E l \in {"new", "join", "port", "channel", "make"} : at' \in {at, [at EXCEPT ![s] = l]}
    BY <1>5 DEF SetChannel, SetMcuIp, SetMcuPort, Overtakes, Announces, Announce, StartPunching, relay
  <2> QED BY <1>4, <2>1
<1>6. ASSUME NEW s \in Sessions, ReadIp(s) \/ ReadPort(s) \/ ReadChannel(s) PROVE Goal
  <2>1. /\ UNCHANGED <<sending, joined, overtaken>>
        /\ \E l \in {"new", "join", "port", "channel", "make"} : at' = [at EXCEPT ![s] = l]
    BY <1>6 DEF ReadIp, ReadPort, ReadChannel, Reads, relay
  <2> QED BY <1>4, <2>1
<1>7. ASSUME NEW s \in Sessions, MakeJoin(s) PROVE Goal
  <2>1. /\ at[s] = "make" /\ Make(s, "relay", asks[s]) /\ asks[s] \in Requests /\ UNCHANGED <<joined, overtaken>>
        /\ at' = [at EXCEPT ![s] = "sendJoin"]
    BY <1>1, <1>7 DEF MakeJoin, relay
  <2>2. /\ dpSend' = [to |-> "relay", by |-> s, ask |-> asks[s]] /\ overwritten \subseteq overwritten'
        /\ \A r \in Sessions \ {s} : at[r] = "sendJoin" => r \in overwritten'
    BY <2>1, MakeNotesOthers
  <2>3. s \notin overtaken => asks[s] = AskFor(s)
    BY <1>1, <2>1 DEF HandInPlace, Requests, AskFor
  <2>4. JoinInHand'
    BY <1>1, <2>1, <2>2, <2>3
  <2> QED BY <1>1, <1>2, <1>0, <1>3, <2>1, <2>2, <2>4
<1>8. ASSUME NEW s \in Sessions, SendJoin(s) PROVE Goal
  <2>1. /\ at[s] = "sendJoin" /\ Send /\ at' = [at EXCEPT ![s] = "choose"] /\ UNCHANGED <<sending, overtaken>>
    BY <1>8 DEF SendJoin, relay
  <2>2. joined \subseteq joined' /\ \A r \in Sessions : dpSend.to = "relay" /\ dpSend.ask = AskFor(r) => r \in joined'
    BY <2>1, SendAdds
  <2>3. s \in joined' \cup overwritten \cup overtaken
    BY <1>1, <2>1, <2>2
  <2> QED BY <1>1, <1>2, <1>0, <1>3, <2>1, <2>2, <2>3 DEF sending
\* Past the request a thread sends to the camera only.
<1>9. ASSUME NEW s \in Sessions, at[s] \in Beyond, NEW l \in Beyond, at' = [at EXCEPT ![s] = l],
             joined \subseteq joined', overwritten \subseteq overwritten', UNCHANGED overtaken,
             UNCHANGED dpSend \/ \A r \in Sessions \ {s} : at[r] = "sendJoin" => r \in overwritten'
      PROVE  Goal
  BY <1>1, <1>2, <1>0, <1>3, <1>9
<1>10. ASSUME NEW s \in Sessions, Choose(s) \/ SetGuess(s) \/ Sleep(s) PROVE Goal
  <2>1. /\ at[s] \in Beyond /\ \E l \in Beyond : at' = [at EXCEPT ![s] = l]
        /\ UNCHANGED <<joined, dpSend, overwritten, overtaken>>
    BY <1>10 DEF Choose, SetGuess, Sleep, Beyond, Scanning, Direct, sending, relay
  <2> QED BY <1>9, <2>1
<1>11. ASSUME NEW s \in Sessions, MakeLocal(s) \/ MakeNat(s) PROVE Goal
  <2>1. /\ at[s] \in Beyond /\ \E l \in Beyond : at' = [at EXCEPT ![s] = l]
        /\ Make(s, "camera", AskFor(0)) /\ UNCHANGED <<joined, overtaken>>
    BY <1>11 DEF MakeLocal, MakeNat, Beyond, Scanning, Direct, relay
  <2>2. overwritten \subseteq overwritten' /\ \A r \in Sessions \ {s} : at[r] = "sendJoin" => r \in overwritten'
    BY <2>1, NoAskTyped, MakeNotesOthers
  <2> QED BY <1>9, <2>1, <2>2
<1>12. ASSUME NEW s \in Sessions, SendLocal(s) \/ SendNat(s) PROVE Goal
  <2>1. /\ at[s] \in Beyond /\ \E l \in Beyond : at' = [at EXCEPT ![s] = l]
        /\ Send /\ UNCHANGED <<dpSend, overwritten, overtaken>>
    BY <1>12 DEF SendLocal, SendNat, Beyond, Scanning, Direct, sending, relay
  <2> QED BY <1>9, <2>1, SendAdds
<1>13. CASE ReceiveOne \/ CameraSends \/ ChooseCamera
  <2>1. UNCHANGED <<at, sending, joined, overtaken>>
    BY <1>13 DEF ReceiveOne, CameraSends, ChooseCamera, punchers, relay
  <2> QED BY <1>1, <1>0, <1>3, <2>1 DEF sending
<1>14. CASE MakeAnswer
  <2>1. Make(Receiver, "camera", AskFor(0)) /\ UNCHANGED <<at, joined, overtaken>>
    BY <1>14 DEF MakeAnswer, punchers, relay
  <2>2. overwritten \subseteq overwritten' /\ \A r \in Sessions \ {Receiver} : at[r] = "sendJoin" => r \in overwritten'
    BY <2>1, NoAskTyped, MakeNotesOthers
  <2> QED BY <1>1, <1>0, <1>3, <2>1, <2>2
<1>15. CASE SendAnswer
  <2>1. Send /\ UNCHANGED <<at, sending, overtaken>>
    BY <1>15 DEF SendAnswer, relay
  <2> QED BY <1>1, <1>0, <1>3, <2>1, SendAdds DEF sending
<1> QED BY <1>5, <1>6, <1>7, <1>8, <1>10, <1>11, <1>12, <1>13, <1>14, <1>15
        DEF PunchAction, PunchStep, ReceiverStep

\* Camera and port: setCamIpInfo(), a scan and an activity write them, and whose
\* camera or port they change is noted.
LEMMA PunchAims == PunchInv /\ PunchAction => (PunchesItsCamera /\ PortInHand)'
<1> SUFFICES ASSUME PunchInv, PunchAction PROVE (PunchesItsCamera /\ PortInHand)'
  OBVIOUS
<1> DEFINE Goal == (PunchesItsCamera /\ PortInHand)'
<1>1. PunchesItsCamera /\ PortInHand /\ AimTypes /\ at \in [Sessions -> Places]
  BY DEF PunchInv, PunchTypeOK, AimTypes
<1> USE DEF PunchesItsCamera, PortInHand, Goto, Scanning, Direct
<1>2. ASSUME NEW s \in Sessions, Announces(s) PROVE Goal
  <2>1. PICK port \in Ports(s) : /\ natPort' = [natPort EXCEPT ![currentCam] = port]
                                 /\ announced' = [announced EXCEPT ![s] = [cam |-> currentCam, port |-> port]]
    BY <1>2 DEF Announces, Announce
  <2>2. /\ at' = [at EXCEPT ![s] = "new"] /\ UNCHANGED currentCam
        /\ \A r \in Sessions \ disturbed' : at[r] \in {"none", "done"}
        /\ disturbed \subseteq disturbed'
    BY <1>2 DEF Announces, Announce, Punching
  <2> QED BY <1>1, <2>1, <2>2 DEF AimTypes
<1>3. ASSUME NEW s \in Sessions, UNCHANGED aim, at[s] \in {"new", "join", "port", "channel", "make", "sendJoin"},
             NEW l \in {"join", "port", "channel", "make", "sendJoin", "choose"}, at' = [at EXCEPT ![s] = l]
      PROVE  Goal
  BY <1>1, <1>3 DEF aim
<1>4. ASSUME NEW s \in Sessions, StartPunching(s) \/ ReadIp(s) \/ ReadPort(s) \/ ReadChannel(s) \/ MakeJoin(s) \/ SendJoin(s) PROVE Goal
  <2>1. /\ UNCHANGED aim /\ at[s] \in {"new", "join", "port", "channel", "make", "sendJoin"}
        /\ \E l \in {"join", "port", "channel", "make", "sendJoin", "choose"} : at' = [at EXCEPT ![s] = l]
    BY <1>4 DEF StartPunching, ReadIp, ReadPort, ReadChannel, Reads, MakeJoin, SendJoin
  <2> QED BY <1>3, <2>1
<1>5. ASSUME NEW s \in Sessions, Choose(s) PROVE Goal
  <2>1. /\ at[s] = "choose" /\ UNCHANGED aim
        /\ at' = [at EXCEPT ![s] = IF natPort[currentCam] = 0 THEN "scanLocal" ELSE "local"]
    BY <1>5 DEF Choose
  <2>2. CASE natPort[currentCam] = 0
    BY <1>1, <2>1, <2>2 DEF aim
  <2>3. CASE natPort[currentCam] # 0
    BY <1>1, <2>1, <2>3 DEF aim
  <2> QED BY <2>2, <2>3
\* A thread that goes on from sending to sending.
<1>6. ASSUME NEW s \in Sessions, UNCHANGED aim,
             \/ at[s] \in {"scanLocal", "sendScanLocal", "scanNat", "sendScanNat"} /\ at' \in {[at EXCEPT ![s] = l] : l \in Scanning}
             \/ at[s] \in Direct /\ at' \in {[at EXCEPT ![s] = l] : l \in Direct \cup {"done"}}
      PROVE  Goal
  <2>1. CASE at[s] \in Direct
    BY <1>1, <1>6, <2>1 DEF aim
  <2>2. CASE at[s] \in Scanning
    BY <1>1, <1>6, <2>2 DEF aim
  <2> QED BY <1>6, <2>1, <2>2
<1>7. ASSUME NEW s \in Sessions, MakeLocal(s) PROVE Goal
  BY <1>6, <1>7 DEF MakeLocal
<1>8. ASSUME NEW s \in Sessions, SendLocal(s) PROVE Goal
  BY <1>6, <1>8 DEF SendLocal
<1>9. ASSUME NEW s \in Sessions, MakeNat(s) PROVE Goal
  BY <1>6, <1>9 DEF MakeNat
<1>10. ASSUME NEW s \in Sessions, SendNat(s) PROVE Goal
  BY <1>6, <1>10 DEF SendNat
<1>11. ASSUME NEW s \in Sessions, Sleep(s) PROVE Goal
  BY <1>6, <1>11 DEF Sleep
<1>12. ASSUME NEW s \in Sessions, SetGuess(s) PROVE Goal
  <2>1. at[s] = "guess" /\ UNCHANGED <<currentCam, announced>>
    BY <1>12 DEF SetGuess
  <2>2. CASE isP2pSuccess \/ round[s] >= limit.scans
    <3>1. at' = [at EXCEPT ![s] = "done"] /\ UNCHANGED <<natPort, disturbed>>
      BY <1>12, <2>2 DEF SetGuess
    <3> QED BY <1>1, <2>1, <3>1
  <2>3. CASE ~(isP2pSuccess \/ round[s] >= limit.scans)
    <3>1. /\ at' = [at EXCEPT ![s] = "scanNat"] /\ disturbed \subseteq disturbed'
          /\ \A r \in Sessions \ disturbed' : r = s \/ at[r] \in {"none", "done"}
      BY <1>12, <2>3 DEF SetGuess, Punching
    <3> QED BY <1>1, <2>1, <3>1
  <2> QED BY <2>2, <2>3
<1>13. ASSUME UNCHANGED <<aim, at>> PROVE Goal
  BY <1>1, <1>13 DEF aim
<1>14. ASSUME NEW s \in Sessions, SetChannel(s) \/ SetMcuIp(s) \/ SetMcuPort(s) PROVE Goal
  BY <1>13, <1>14 DEF SetChannel, SetMcuIp, SetMcuPort
<1>15. CASE ReceiverStep \/ CameraSends
  BY <1>13, <1>15 DEF ReceiverStep, ReceiveOne, MakeAnswer, SendAnswer, CameraSends, punchers
<1>16. CASE ChooseCamera
  <2>1. /\ UNCHANGED <<natPort, announced, at>> /\ disturbed \subseteq disturbed'
        /\ \A r \in Sessions \ disturbed' : currentCam' = currentCam \/ at[r] \in {"none", "done"}
    BY <1>16 DEF ChooseCamera, Punching
  <2> QED BY <1>1, <2>1
<1> QED BY <1>2, <1>4, <1>5, <1>7, <1>8, <1>9, <1>10, <1>11, <1>12, <1>14, <1>15, <1>16
        DEF PunchAction, PunchStep

\* HolePunch keeps its invariant whatever its threads do.
LEMMA PunchStepKeeps == PunchInv /\ limit' = limit /\ (PunchAction \/ UNCHANGED punch) => PunchInv'
<1>1. ASSUME PunchInv, limit' = limit, UNCHANGED punch PROVE PunchInv'
  <2>1. PunchTypeOK'
    BY <1>1 DEF PunchInv, PunchTypeOK, punch, punchers, aim, relay, answers, sending, Cameras
  <2>2. (JoinsItsChannel /\ JoinInHand /\ FieldsInPlace /\ HandInPlace)'
    BY <1>1 DEF PunchInv, JoinsItsChannel, JoinInHand, FieldsInPlace, HandInPlace, punch, punchers, relay, sending
  <2>3. (PunchesItsCamera /\ PortInHand)'
    BY <1>1 DEF PunchInv, PunchesItsCamera, PortInHand, punch, punchers, aim
  <2> QED BY <1>1, <2>1, <2>2, <2>3 DEF PunchInv
<1>2. ASSUME PunchInv, limit' = limit, PunchAction PROVE PunchInv'
  BY <1>2, PunchTypes, FieldsStay, PunchJoins, PunchAims DEF PunchInv
<1> QED BY <1>1, <1>2

-----------------------------------------------------------------------------
\* Answers in the main thread's queue that will start a session.
Watches(q) == {i \in DOMAIN q : q[i] = "watch"}
Answers == {"watch", "full", "denied", "offline", "noVideo"}

LEMMA WatchesFinite ==
  ASSUME NEW q \in Seq(Answers)
  PROVE  IsFiniteSet(Watches(q)) /\ Cardinality(Watches(q)) \in Nat
<1>1. Len(q) \in Int /\ 1 \in Int /\ DOMAIN q = 1..Len(q)
  BY LenProperties
<1>2. IsFiniteSet(1..Len(q))
  BY ONLY <1>1, FS_Interval
<1>3. Watches(q) \in SUBSET (1..Len(q))
  BY <1>1 DEF Watches
<1> QED BY <1>2, <1>3, FS_Subset, FS_CardinalityType

\* An answer that is queued adds at most one,
LEMMA WatchesAppend ==
  ASSUME NEW q \in Seq(Answers), NEW a \in Answers
  PROVE  Cardinality(Watches(Append(q, a))) = Cardinality(Watches(q)) + (IF a = "watch" THEN 1 ELSE 0)
<1>1. /\ Len(q) \in Nat /\ DOMAIN q = 1..Len(q) /\ DOMAIN Append(q, a) = 1..Len(q) + 1
      /\ \A i \in 1..Len(q) : Append(q, a)[i] = q[i]
      /\ Append(q, a)[Len(q) + 1] = a
  BY LenProperties, AppendProperties
<1>2. IsFiniteSet(Watches(q)) /\ Len(q) + 1 \notin Watches(q)
  BY <1>1, WatchesFinite DEF Watches
<1>3. CASE a = "watch"
  <2>1. Watches(Append(q, a)) = Watches(q) \cup {Len(q) + 1}
    BY <1>1, <1>3 DEF Watches
  <2> QED BY <1>2, <1>3, <2>1, FS_AddElement, WatchesFinite
<1>4. CASE a # "watch"
  <2>1. Watches(Append(q, a)) = Watches(q)
    BY <1>1, <1>4 DEF Watches
  <2> QED BY <1>4, <2>1, WatchesFinite
<1> QED BY <1>3, <1>4

\* and the one that is handled was one of them, if it was one to watch.
LEMMA WatchesTail ==
  ASSUME NEW q \in Seq(Answers), q # <<>>
  PROVE  Cardinality(Watches(q)) = Cardinality(Watches(Tail(q))) + (IF Head(q) = "watch" THEN 1 ELSE 0)
<1>1. /\ Len(q) \in Nat \ {0} /\ DOMAIN q = 1..Len(q) /\ DOMAIN Tail(q) = 1..Len(q) - 1
      /\ Tail(q) \in Seq(Answers) /\ Head(q) = q[1]
      /\ \A i \in 1..Len(q) - 1 : Tail(q)[i] = q[i + 1]
  BY LenProperties, HeadTailProperties, EmptySeq
<1> DEFINE shift == [i \in Watches(Tail(q)) |-> i + 1]
<1>2. shift \in Bijection(Watches(Tail(q)), Watches(q) \ {1})
  <2>1. \A i \in Watches(Tail(q)) : i \in 1..Len(q) - 1 /\ i + 1 \in Watches(q) \ {1}
    BY <1>1 DEF Watches
  <2>2. \A j \in Watches(q) \ {1} : j - 1 \in Watches(Tail(q)) /\ j = (j - 1) + 1
    BY <1>1 DEF Watches
  <2>3. shift \in [Watches(Tail(q)) -> Watches(q) \ {1}]
    BY <2>1
  <2>4. \A i, j \in Watches(Tail(q)) : shift[i] = shift[j] => i = j
    BY <2>1
  <2>5. \A j \in Watches(q) \ {1} : \E i \in Watches(Tail(q)) : shift[i] = j
    BY <2>2
  <2> HIDE DEF shift
  <2> QED BY <2>3, <2>4, <2>5 DEF Bijection, Injection, Surjection, IsInjective
<1>3. IsFiniteSet(Watches(Tail(q))) /\ IsFiniteSet(Watches(q))
  BY <1>1, WatchesFinite
<1>4. Cardinality(Watches(q) \ {1}) = Cardinality(Watches(Tail(q)))
  BY <1>2, <1>3, FS_Bijection DEF ExistsBijection
<1>5. Cardinality(Watches(q) \ {1}) = IF 1 \in Watches(q) THEN Cardinality(Watches(q)) - 1 ELSE Cardinality(Watches(q))
  BY <1>3, FS_RemoveElement
<1>6. 1 \in Watches(q) <=> Head(q) = "watch"
  BY <1>1 DEF Watches
<1>7. Cardinality(Watches(q)) \in Nat /\ Cardinality(Watches(Tail(q))) \in Nat
  BY <1>1, WatchesFinite
<1> QED BY <1>4, <1>5, <1>6, <1>7

-----------------------------------------------------------------------------
\* The session: its types, with the locals of listenVideo().
SessionTypes ==
  /\ tab \in {"cam", "other"} /\ playable \in BOOLEAN /\ builder \in {"none", "retry", "max"}
  /\ isDisplayVideo \in BOOLEAN /\ main \in {"idle", "listen", "reset", "channel", "ip", "port", "announce", "punch"}
  /\ messages \in Seq(Answers)
  /\ starts \in Sessions \cup {0} /\ timer \in Sessions \cup {0}
  /\ ticking \subseteq 1..starts /\ abandoned \subseteq 1..starts
  /\ task \in [Sessions -> {"idle", "rated", "test", "clear", "count", "store", "check", "ask", "report"}]
  /\ rate \in 0..limit.rounds + 1 /\ noVideoInt \in 0..limit.silence + 1
  /\ isNoVideoListen \in BOOLEAN /\ silence \in 0..limit.silence + 1
  /\ local \in [Sessions -> Nat] /\ inflated \in BOOLEAN

\* As many sessions are begun as the bounds have, with those that are queued.
SessionsBounded == /\ starts + Cardinality(Watches(messages)) <= limit.sessions
                   /\ main # "idle" => starts \in Sessions

\* What a task has read of the count is a count of silence too, until it is
\* written back, unless a reset came in between.
ReadsSilence ==
  inflated \/ main \in {"listen", "reset"} \/
    /\ noVideoInt <= silence
    /\ \A s \in Sessions : task[s] = "store" => local[s] <= silence

\* A timer that ticks is the current one or one that was replaced.
TimersKnown == ticking \subseteq abandoned \cup {timer}

\* setCamIpInfo() has set what it has come past.
AddressesSet == /\ main \in {"ip", "port", "announce"} => channelId = starts
                /\ main \in {"port", "announce"} => camMcuIp = starts
                /\ main = "announce" => camMcuPort = starts

SessionInv == PunchInv /\ SessionTypes /\ SessionsBounded /\ ReadsSilence /\ TimersKnown /\ AddressesSet

\* Initially.
LEMMA InitSession == Init => SessionInv
<1> SUFFICES ASSUME Init PROVE SessionInv
  OBVIOUS
<1> USE DEF Init, PunchInit
<1>1. limit \in Limits /\ limit.sessions \in Nat /\ limit.rounds \in Nat /\ limit.silence \in Nat
  BY BoundsAreNumbers
<1>2. SessionTypes
  <2>1. messages \in Seq(Answers)
    BY EmptySeq
  <2>2. 0 \in 0..limit.rounds + 1 /\ 0 \in 0..limit.silence + 1
    BY <1>1
  <2>3. local \in [Sessions -> Nat]
    OBVIOUS
  <2>4. task \in [Sessions -> {"idle", "rated", "test", "clear", "count", "store", "check", "ask", "report"}]
    OBVIOUS
  <2>5. isDisplayVideo \in BOOLEAN /\ isNoVideoListen \in BOOLEAN /\ playable \in BOOLEAN /\ inflated \in BOOLEAN
    OBVIOUS
  <2> QED BY <2>1, <2>2, <2>3, <2>4, <2>5 DEF SessionTypes
<1>3. SessionsBounded
  <2>1. DOMAIN messages = {}
    OBVIOUS
  <2>2. Cardinality(Watches(messages)) = 0
    BY <2>1, FS_EmptySet DEF Watches
  <2>3. starts + Cardinality(Watches(messages)) <= limit.sessions
    BY <1>1, <2>2
  <2> QED BY <2>3 DEF SessionsBounded
<1>4. ReadsSilence /\ TimersKnown /\ AddressesSet
  BY DEF ReadsSilence, TimersKnown, AddressesSet
<1> QED BY <1>2, <1>3, <1>4, InitPunch DEF SessionInv

\* What any step does to the state of HolePunch, and to the bounds.
LEMMA StepsPunch == SessionInv /\ [Next]_vars => limit' = limit /\ (PunchAction \/ UNCHANGED punch)
<1> SUFFICES ASSUME SessionInv, [Next]_vars PROVE limit' = limit /\ (PunchAction \/ UNCHANGED punch)
  OBVIOUS
<1>1. CASE User
  BY <1>1 DEF User, Play, Leave, Return, Retry, Exit, Back, Reopen, PunchAction
<1>2. CASE DecoderStarts \/ Respond \/ GoesOffLine \/ Packet
  BY <1>2 DEF DecoderStarts, Respond, GoesOffLine, Packet
<1>3. CASE HandleNoVideo \/ HandleFull \/ HandleStop \/ HandleWatch \/ Listen \/ ResetWatchdog
  BY <1>3 DEF HandleNoVideo, HandleFull, HandleStop, HandleWatch, Listen, ResetWatchdog
<1>4. CASE SetAddresses \/ Punch
  <2>1. CASE main # "announce"
    BY <1>4, <2>1 DEF SetAddresses, Punch, PunchAction, SessionInv, SessionsBounded
  <2>2. CASE main = "announce"
    BY <1>4, <2>2 DEF SetAddresses, Punch, PunchAction, Announces, SessionInv, SessionsBounded, AddressesSet
  <2> QED BY <2>1, <2>2
<1>5. CASE One \/ PunchNext
  BY <1>5 DEF One, PunchNext, PunchAction, ReceiverStep
<1>6. ASSUME NEW s \in Sessions, TimerStep(s) PROVE limit' = limit /\ UNCHANGED punch
  BY <1>6 DEF TimerStep, Tick, StoreRate, TestRate, ClearRate, ReadCount, StoreCount, CheckCount,
              CheckListens, Report, Rest
<1>7. CASE UNCHANGED vars
  BY <1>7 DEF vars
<1> QED BY <1>1, <1>2, <1>3, <1>4, <1>5, <1>6, <1>7 DEF Next, Main

\* The session that is begun with an answer to watch is one the bounds allow.
LEMMA WatchBegins ==
  ASSUME SessionInv, HandleWatch
  PROVE  /\ starts' = starts + 1 /\ starts' \in Sessions /\ starts' \in Nat
         /\ messages' \in Seq(Answers)
         /\ starts' + Cardinality(Watches(messages')) <= limit.sessions
<1>1. messages \in Seq(Answers) /\ messages # <<>> /\ messages' = Tail(messages) /\ Head(messages) = "watch"
  BY DEF HandleWatch, Take, SessionInv, SessionTypes
<1>2. Tail(messages) \in Seq(Answers)
  BY <1>1, HeadTailProperties
<1>3. /\ Cardinality(Watches(messages)) = Cardinality(Watches(messages')) + 1
      /\ Cardinality(Watches(messages')) \in Nat
  BY <1>1, <1>2, WatchesTail, WatchesFinite
<1>4. /\ limit.sessions \in Nat /\ 1..limit.sessions \subseteq Sessions /\ starts \in Nat
      /\ starts + Cardinality(Watches(messages)) <= limit.sessions
  BY DEF SessionInv, PunchInv, SessionTypes, SessionsBounded
<1>5. starts' = starts + 1
  BY DEF HandleWatch
<1>6. starts' + Cardinality(Watches(messages')) <= limit.sessions
  BY <1>3, <1>4, <1>5
<1>7. starts' \in 1..limit.sessions
  BY <1>3, <1>4, <1>5
<1> QED BY <1>1, <1>2, <1>4, <1>5, <1>6, <1>7

\* The messages are answers,
LEMMA MessagesTyped ==
  ASSUME SessionInv, [Next]_vars
  PROVE  messages' \in Seq(Answers)
<1>1. messages \in Seq(Answers) /\ limit \in Limits
  BY DEF SessionInv, SessionTypes, PunchInv
<1>2. ASSUME NEW what, Take(what) PROVE messages' \in Seq(Answers)
  BY <1>1, <1>2, HeadTailProperties DEF Take
<1>3. CASE HandleNoVideo \/ HandleFull \/ HandleStop \/ HandleWatch
  BY <1>2, <1>3 DEF HandleNoVideo, HandleFull, HandleStop, HandleWatch
<1>4. CASE Respond \/ GoesOffLine
  <2>1. limit.answers \subseteq Answers
    BY <1>1 DEF Answers
  <2>2. \E a \in Answers : messages' = Append(messages, a)
    BY <1>4, <2>1 DEF Respond, GoesOffLine, Answers
  <2> QED BY <1>1, <2>2, AppendProperties
<1>5. ASSUME NEW s \in Sessions, Report(s) PROVE messages' \in Seq(Answers)
  BY <1>1, <1>5, AppendProperties DEF Report, Answers
<1>6. CASE UNCHANGED messages
  BY <1>1, <1>6
<1>7. CASE User \/ DecoderStarts \/ Packet
  BY <1>6, <1>7 DEF User, Play, Leave, Return, Retry, Exit, Back, Reopen, ChooseCamera, DecoderStarts, Packet, looper
<1>8. CASE Listen \/ ResetWatchdog \/ SetAddresses \/ Punch \/ One \/ PunchNext
  BY <1>6, <1>8 DEF Listen, ResetWatchdog, SetAddresses, Punch, One, PunchNext, looper
<1>9. ASSUME NEW s \in Sessions, TimerStep(s), ~Report(s) PROVE messages' \in Seq(Answers)
  BY <1>6, <1>9 DEF TimerStep, Tick, StoreRate, TestRate, ClearRate, ReadCount, StoreCount, CheckCount,
                    CheckListens, Rest, looper
<1>10. CASE UNCHANGED vars
  BY <1>6, <1>10 DEF vars, looper
<1> QED BY <1>3, <1>4, <1>5, <1>7, <1>8, <1>9, <1>10 DEF Next, Main

\* and no more of them are to watch than the bounds allow.
LEMMA SessionsStayBounded == SessionInv /\ [Next]_vars => SessionsBounded'
<1> SUFFICES ASSUME SessionInv, [Next]_vars PROVE SessionsBounded'
  OBVIOUS
<1>1. /\ messages \in Seq(Answers) /\ limit \in Limits /\ limit' = limit
      /\ limit.sessions \in Nat /\ starts \in Nat
      /\ Cardinality(Watches(messages)) \in Nat
      /\ starts + Cardinality(Watches(messages)) <= limit.sessions
      /\ main # "idle" => starts \in Sessions
  BY SMTT(30), StepsPunch, WatchesFinite, BoundsAreNumbers DEF SessionInv, SessionTypes, PunchInv, SessionsBounded
<1>2. CASE HandleWatch
  BY <1>1, <1>2, WatchBegins DEF SessionsBounded
<1>3. CASE HandleNoVideo \/ HandleFull \/ HandleStop
  <2>1. /\ messages # <<>> /\ messages' = Tail(messages) /\ Head(messages) # "watch" /\ UNCHANGED main
    BY <1>3 DEF HandleNoVideo, HandleFull, HandleStop, Take
  <2>2. UNCHANGED starts
    BY <1>3 DEF HandleNoVideo, HandleFull, HandleStop, Opens, InitStopCam, StopUdp, timers
  <2>3. Cardinality(Watches(messages)) = Cardinality(Watches(messages')) + 0
        /\ Cardinality(Watches(messages')) \in Nat
    BY <1>1, <2>1, WatchesTail, WatchesFinite, HeadTailProperties
  <2> QED BY <1>1, <2>1, <2>2, <2>3 DEF SessionsBounded
<1>4. CASE Respond
  <2>1. PICK answer \in limit.answers \ {"offline"} :
          /\ answer = "watch" => starts + Cardinality(Watches(messages)) < limit.sessions
          /\ messages' = Append(messages, answer)
    BY <1>4 DEF Respond, Watches
  <2>2. answer \in Answers
    BY <1>1 DEF Answers
  <2>3. UNCHANGED <<starts, main>>
    BY <1>4 DEF Respond, timers
  <2>4. Cardinality(Watches(messages')) = Cardinality(Watches(messages)) + (IF answer = "watch" THEN 1 ELSE 0)
    BY <1>1, <2>1, <2>2, WatchesAppend
  <2> QED BY <1>1, <2>1, <2>3, <2>4 DEF SessionsBounded
<1>5. ASSUME NEW s \in Sessions, Report(s) PROVE SessionsBounded'
  <2>1. messages' = messages \/ \E a \in Answers \ {"watch"} : messages' = Append(messages, a)
    BY <1>5 DEF Report, Answers
  <2>2. UNCHANGED <<starts, main>>
    BY <1>5 DEF Report, timers
  <2>3. Cardinality(Watches(messages')) = Cardinality(Watches(messages))
    <3>1. CASE messages' = messages
      BY <3>1
    <3>2. ASSUME NEW a \in Answers \ {"watch"}, messages' = Append(messages, a)
          PROVE  Cardinality(Watches(messages')) = Cardinality(Watches(messages))
      <4>1. Cardinality(Watches(messages')) = Cardinality(Watches(messages)) + 0
        BY <1>1, <3>2, WatchesAppend
      <4> QED BY <1>1, <4>1
    <3> QED BY <2>1, <3>1, <3>2
  <2> QED BY <1>1, <2>2, <2>3 DEF SessionsBounded
<1>6. ASSUME UNCHANGED <<messages, starts>>, main' # "idle" => main # "idle" PROVE SessionsBounded'
  BY <1>1, <1>6 DEF SessionsBounded
<1>7. CASE User \/ DecoderStarts \/ Packet
  BY <1>6, <1>7 DEF User, Play, Leave, Return, Retry, Exit, Back, Reopen, ChooseCamera, InitStopCam, StopUdp, DecoderStarts, Packet,
                    looper, timers
<1>8. CASE Listen \/ ResetWatchdog \/ SetAddresses \/ Punch \/ One \/ PunchNext
  BY <1>6, <1>8 DEF Listen, ResetWatchdog, SetAddresses, Punch, One, PunchNext, looper, timers
<1>9. ASSUME NEW s \in Sessions, TimerStep(s), ~Report(s) PROVE SessionsBounded'
  BY <1>6, <1>9 DEF TimerStep, Tick, StoreRate, TestRate, ClearRate, ReadCount, StoreCount, CheckCount,
                    CheckListens, Rest, looper, timers
<1>10. CASE UNCHANGED vars
  BY <1>6, <1>10 DEF vars, looper, timers
<1>11. ASSUME GoesOffLine PROVE SessionsBounded'
  <2>1. messages' = Append(messages, "offline") /\ UNCHANGED <<starts, main>>
    BY <1>11 DEF GoesOffLine, timers
  <2>2. Cardinality(Watches(messages')) = Cardinality(Watches(messages)) + 0
    BY <1>1, <2>1, WatchesAppend DEF Answers
  <2> QED BY <1>1, <2>1, <2>2 DEF SessionsBounded
<1> QED BY <1>2, <1>3, <1>4, <1>5, <1>7, <1>8, <1>9, <1>10, <1>11 DEF Next, Main

\* Types. Only HandleWatch writes starts and the sets of timers' numbers.
LEMMA SessionTypesKept == SessionInv /\ [Next]_vars => SessionTypes'
<1> SUFFICES ASSUME SessionInv, [Next]_vars PROVE SessionTypes'
  OBVIOUS
<1>1. /\ messages' \in Seq(Answers) /\ limit' = limit
      /\ limit.rounds \in Nat /\ limit.silence \in Nat /\ Sessions \subseteq Nat \ {0}
  BY MessagesTyped, StepsPunch, BoundsAreNumbers DEF SessionInv, PunchInv
<1>2. SessionTypes
  BY DEF SessionInv
<1> DEFINE Tasks == {"idle", "rated", "test", "clear", "count", "store", "check", "ask", "report"}
           ScreenOK == /\ tab \in {"cam", "other"} /\ playable \in BOOLEAN /\ builder \in {"none", "retry", "max"}
                       /\ isDisplayVideo \in BOOLEAN
           MainOK == main \in {"idle", "listen", "reset", "channel", "ip", "port", "announce", "punch"}
           TimersOK == /\ starts \in Sessions \cup {0} /\ timer \in Sessions \cup {0}
                       /\ ticking \subseteq 1..starts /\ abandoned \subseteq 1..starts
           TasksOK == /\ task \in [Sessions -> Tasks] /\ rate \in 0..limit.rounds + 1
                      /\ local \in [Sessions -> Nat]
           CountsOK == /\ noVideoInt \in 0..limit.silence + 1 /\ silence \in 0..limit.silence + 1
                       /\ inflated \in BOOLEAN
<1>3. /\ ScreenOK /\ MainOK /\ TimersOK /\ TasksOK /\ CountsOK /\ isNoVideoListen \in BOOLEAN
  BY <1>2 DEF SessionTypes
<1>4. \A n \in Nat : Capped(n, limit.rounds + 1) \in 0..limit.rounds + 1 /\ Capped(n, limit.silence + 1) \in 0..limit.silence + 1
  BY <1>1 DEF Capped
<1>5. ScreenOK'
  <2>1. CASE UNCHANGED screen
    BY <1>3, <2>1 DEF screen
  <2>2. CASE User \/ DecoderStarts
    BY <1>3, <2>2 DEF User, Play, Leave, Return, Retry, Exit, Back, Reopen, ChooseCamera, InitCam, InitStopCam, DecoderStarts
  <2>3. CASE HandleNoVideo \/ HandleFull \/ HandleStop
    BY <1>3, <2>3 DEF HandleNoVideo, HandleFull, HandleStop, Opens, InitStopCam
  <2>4. CASE Respond \/ GoesOffLine \/ HandleWatch \/ Listen \/ ResetWatchdog \/ SetAddresses \/ Punch \/ Packet \/ One \/ PunchNext
    BY <2>1, <2>4 DEF Respond, GoesOffLine, HandleWatch, Listen, ResetWatchdog, SetAddresses, Punch, Packet, One, PunchNext
  <2>5. ASSUME NEW s \in Sessions, TimerStep(s) PROVE UNCHANGED screen
    BY <2>5 DEF TimerStep, Tick, StoreRate, TestRate, ClearRate, ReadCount, StoreCount, CheckCount, CheckListens, Report, Rest
  <2> QED BY <2>1, <2>2, <2>3, <2>4, <2>5 DEF Next, Main, vars
<1>6. MainOK'
  <2>1. CASE UNCHANGED main
    BY <1>3, <2>1
  <2>2. CASE HandleWatch \/ Listen \/ ResetWatchdog \/ SetAddresses \/ Punch
    BY <2>2 DEF HandleWatch, Listen, ResetWatchdog, SetAddresses, Punch
  <2>3. CASE User \/ DecoderStarts \/ Respond \/ GoesOffLine \/ HandleNoVideo \/ HandleFull \/ HandleStop \/ Packet \/ One \/ PunchNext
    BY <2>1, <2>3 DEF User, Play, Leave, Return, Retry, Exit, Back, Reopen, ChooseCamera, DecoderStarts, Respond, GoesOffLine, HandleNoVideo, HandleFull, HandleStop,
                      Packet, One, PunchNext, looper
  <2>4. ASSUME NEW s \in Sessions, TimerStep(s) PROVE UNCHANGED main
    BY <2>4 DEF TimerStep, Tick, StoreRate, TestRate, ClearRate, ReadCount, StoreCount, CheckCount, CheckListens, Report, Rest, looper
  <2> QED BY <2>1, <2>2, <2>3, <2>4 DEF Next, Main, vars, looper
<1>7. TimersOK' /\ isNoVideoListen' \in BOOLEAN
  <2>1. CASE UNCHANGED <<timers, isNoVideoListen>>
    BY <1>3, <2>1 DEF timers
  <2>2. CASE InitStopCam
    BY <1>3, <2>2 DEF InitStopCam, StopUdp, StopTimer
  <2>3. CASE HandleWatch
    <3>1. starts' \in Sessions /\ starts' = starts + 1 /\ starts \in Nat
      BY <1>1, <1>3, <2>3, WatchBegins
    <3>2. 1..starts \subseteq 1..starts' /\ starts' \in 1..starts'
      BY <3>1
    <3>3. /\ timer' = starts' /\ ticking' = ticking \cup {starts'}
          /\ abandoned' = abandoned \cup (ticking \cap {timer}) /\ UNCHANGED isNoVideoListen
      BY <2>3 DEF HandleWatch
    <3> QED BY <1>3, <3>1, <3>2, <3>3
  <2>4. CASE User \/ HandleNoVideo \/ HandleFull \/ HandleStop
    BY <2>1, <2>2, <2>4 DEF User, Play, Leave, Return, Retry, Exit, Back, Reopen, ChooseCamera, HandleNoVideo, HandleFull, HandleStop, Opens
  <2>5. CASE DecoderStarts \/ Respond \/ GoesOffLine \/ ResetWatchdog \/ SetAddresses \/ Punch \/ Packet \/ One \/ PunchNext
    BY <2>1, <2>5 DEF DecoderStarts, Respond, GoesOffLine, ResetWatchdog, SetAddresses, Punch, Packet, One, PunchNext
  <2>6. CASE Listen
    BY <1>3, <2>6 DEF Listen, timers
  <2>7. ASSUME NEW s \in Sessions, TimerStep(s) PROVE UNCHANGED <<timers, isNoVideoListen>>
    BY <2>7 DEF TimerStep, Tick, StoreRate, TestRate, ClearRate, ReadCount, StoreCount, CheckCount, CheckListens, Report, Rest
  <2> QED BY <2>1, <2>3, <2>4, <2>5, <2>6, <2>7 DEF Next, Main, vars
<1>8. TasksOK'
  <2>1. CASE UNCHANGED tasks
    BY <1>1, <1>3, <2>1 DEF tasks
  <2>2. CASE User \/ DecoderStarts \/ Respond \/ GoesOffLine \/ Packet \/ One \/ PunchNext
    BY <2>1, <2>2 DEF User, Play, Leave, Return, Retry, Exit, Back, Reopen, ChooseCamera, DecoderStarts, Respond, GoesOffLine, Packet, One, PunchNext
  <2>3. CASE Main
    BY <2>1, <2>3 DEF Main, HandleNoVideo, HandleFull, HandleStop, HandleWatch, Listen, ResetWatchdog, SetAddresses, Punch
  <2>4. ASSUME NEW s \in Sessions, TimerStep(s) PROVE TasksOK'
    <3>1. task' \in [Sessions -> Tasks]
      BY <1>3, <2>4 DEF TimerStep, Tick, StoreRate, TestRate, ClearRate, ReadCount, StoreCount, CheckCount, CheckListens, Report, Becomes
    <3>2. local' \in [Sessions -> Nat]
      <4>1. local' = local \/ \E x \in {0, rate, noVideoInt} : local' = [local EXCEPT ![s] = x]
        BY <2>4 DEF TimerStep, Tick, StoreRate, TestRate, ClearRate, ReadCount, StoreCount, CheckCount, CheckListens, Report, Holds, Used, Rest
      <4>2. {0, rate, noVideoInt} \subseteq Nat
        BY <1>1, <1>3
      <4> QED BY <1>3, <4>1, <4>2
    <3>3. rate' \in 0..limit.rounds + 1
      <4>1. rate' \in {0, rate, Capped(local[s] + 1, limit.rounds + 1)} /\ limit' = limit
        BY <1>1, <2>4 DEF TimerStep, Tick, StoreRate, TestRate, ClearRate, ReadCount, StoreCount, CheckCount, CheckListens, Report, Rest
      <4>2. local[s] + 1 \in Nat /\ 0 \in 0..limit.rounds + 1
        BY <1>1, <1>3
      <4> QED BY <1>3, <1>4, <4>1, <4>2
    <3> QED BY <1>1, <3>1, <3>2, <3>3
  <2> QED BY <2>1, <2>2, <2>3, <2>4 DEF Next, vars
<1>9. CountsOK'
  <2>1. CASE UNCHANGED counts
    BY <1>1, <1>3, <2>1 DEF counts
  <2>2. CASE ResetCount
    BY <1>1, <2>2 DEF ResetCount
  <2>3. CASE User \/ DecoderStarts \/ Respond \/ GoesOffLine \/ PunchNext
    BY <2>1, <2>3 DEF User, Play, Leave, Return, Retry, Exit, Back, Reopen, ChooseCamera, DecoderStarts, Respond, GoesOffLine, PunchNext
  <2>4. CASE HandleNoVideo \/ HandleFull \/ HandleStop \/ Listen \/ SetAddresses \/ Punch
    BY <2>1, <2>4 DEF HandleNoVideo, HandleFull, HandleStop, Listen, SetAddresses, Punch
  <2>5. CASE ResetWatchdog \/ Packet \/ One
    BY <2>2, <2>5 DEF ResetWatchdog, Packet, One
  <2>6. CASE HandleWatch
    BY <1>1, <1>3, <2>6 DEF HandleWatch
  <2>7. ASSUME NEW s \in Sessions, StoreCount(s) PROVE CountsOK'
    <3>1. local[s] \in Nat /\ silence \in Nat
      <4>1. local[s] \in Nat
        BY <1>1, <1>3
      <4>2. silence \in 0..limit.silence + 1
        BY <1>1, <1>3
      <4> QED BY <4>1, <4>2
    <3>2. local[s] + 1 \in Nat /\ silence + 1 \in Nat
      BY <3>1
    <3> QED BY <1>1, <1>3, <1>4, <2>7, <3>2 DEF StoreCount, Rest
  <2>8. ASSUME NEW s \in Sessions, TimerStep(s), ~StoreCount(s) PROVE UNCHANGED counts
    BY <2>8 DEF TimerStep, Tick, StoreRate, TestRate, ClearRate, ReadCount, CheckCount, CheckListens, Report, Rest
  <2> QED BY <2>1, <2>3, <2>4, <2>5, <2>6, <2>7, <2>8 DEF Next, Main, vars
<1> QED BY <1>1, <1>5, <1>6, <1>7, <1>8, <1>9 DEF SessionTypes

\* The count. A task that has read it when a reset comes makes the reset lost,
\* which is noted; another writes back one more than silence at most.
LEMMA SilenceKept == SessionInv /\ [Next]_vars => ReadsSilence'
<1> SUFFICES ASSUME SessionInv, [Next]_vars PROVE ReadsSilence'
  OBVIOUS
<1>1. /\ limit' = limit /\ limit.silence \in Nat /\ noVideoInt \in Nat /\ silence \in Nat
      /\ local \in [Sessions -> Nat] /\ task \in [Sessions -> {"idle", "rated", "test", "clear", "count", "store", "check", "ask", "report"}]
  BY SMTT(30), StepsPunch, BoundsAreNumbers DEF SessionInv, SessionTypes, PunchInv
<1>2. ReadsSilence
  BY DEF SessionInv
<1>3. ASSUME UNCHANGED <<counts, task, local>>, main' \in {main} \/ main' \in {"listen", "reset"} PROVE ReadsSilence'
  BY <1>2, <1>3 DEF ReadsSilence, counts
<1>4. ASSUME ResetCount, UNCHANGED <<task, local>> PROVE ReadsSilence'
  <2>1. CASE \E s \in Sessions : task[s] = "store"
    BY <1>4, <2>1 DEF ReadsSilence, ResetCount
  <2>2. CASE \A s \in Sessions : task[s] # "store"
    <3>1. noVideoInt' = 0 /\ silence' = 0 /\ \A s \in Sessions : task'[s] # "store"
      BY <1>4, <2>2 DEF ResetCount
    <3> QED BY <3>1 DEF ReadsSilence
  <2> QED BY <2>1, <2>2
<1>5. CASE User \/ DecoderStarts \/ Respond \/ GoesOffLine \/ PunchNext
  BY <1>3, <1>5 DEF User, Play, Leave, Return, Retry, Exit, Back, Reopen, ChooseCamera, DecoderStarts, Respond, GoesOffLine, PunchNext, tasks, looper
<1>6. CASE HandleNoVideo \/ HandleFull \/ HandleStop
  BY <1>3, <1>6 DEF HandleNoVideo, HandleFull, HandleStop, tasks
<1>7. CASE HandleWatch
  BY <1>7 DEF HandleWatch, ReadsSilence
<1>8. CASE Listen
  BY <1>3, <1>8 DEF Listen, tasks
<1>9. CASE SetAddresses \/ Punch
  BY <1>2, <1>9 DEF SetAddresses, Punch, ReadsSilence, tasks, counts
<1>10. CASE ResetWatchdog \/ Packet \/ One
  BY <1>4, <1>10 DEF ResetWatchdog, Packet, One, tasks
<1>11. ASSUME NEW s \in Sessions, StoreCount(s) PROVE ReadsSilence'
  <2>1. /\ task[s] = "store" /\ task' = [task EXCEPT ![s] = "check"] /\ local' = [local EXCEPT ![s] = 0]
        /\ noVideoInt' = Capped(local[s] + 1, limit.silence + 1)
        /\ silence' = Capped(silence + 1, limit.silence + 1)
    BY <1>11 DEF StoreCount, Becomes, Used
  <2>2. inflated' = inflated /\ main' = main
    BY <1>11 DEF StoreCount, Rest, looper
  <2>3. CASE inflated \/ main \in {"listen", "reset"}
    BY <2>2, <2>3 DEF ReadsSilence
  <2>4. CASE ~inflated /\ main \notin {"listen", "reset"}
    <3>1. \A r \in Sessions : task[r] = "store" => local[r] <= silence /\ local[r] \in Nat
      BY <1>1, <1>2, <2>4 DEF ReadsSilence
    <3>2. silence' \in Nat /\ local[s] \in Nat /\ local[s] <= silence
      BY <1>1, <2>1, <3>1 DEF Capped
    <3>3. noVideoInt' <= silence'
      BY <1>1, <2>1, <3>2 DEF Capped
    <3>4. CASE silence <= limit.silence + 1
      <4>1. silence <= silence'
        BY <1>1, <2>1, <3>4 DEF Capped
      <4>2. \A r \in Sessions \ {s} : task'[r] = "store" => local'[r] <= silence'
        <5> SUFFICES ASSUME NEW r \in Sessions \ {s}, task'[r] = "store" PROVE local'[r] <= silence'
          OBVIOUS
        <5>1. task[r] = "store" /\ local'[r] = local[r]
          BY <1>1, <2>1
        <5>2. local[r] <= silence /\ local[r] \in Nat
          BY <3>1, <5>1
        <5> QED BY <1>1, <3>2, <4>1, <5>1, <5>2
      <4>3. task'[s] # "store"
        BY <1>1, <2>1
      <4> QED BY <3>3, <4>2, <4>3 DEF ReadsSilence
    <3>5. silence <= limit.silence + 1
      BY <1>1 DEF SessionInv, SessionTypes
    <3> QED BY <3>4, <3>5
  <2> QED BY <2>3, <2>4
<1>12. ASSUME NEW s \in Sessions, ReadCount(s) PROVE ReadsSilence'
  <2>1. task' = [task EXCEPT ![s] = "store"] /\ local' = [local EXCEPT ![s] = noVideoInt]
    BY <1>12 DEF ReadCount, Becomes, Holds
  <2>2. UNCHANGED <<main, noVideoInt, silence, inflated>>
    BY <1>12 DEF ReadCount, Rest, looper, counts
  <2> QED BY <1>1, <1>2, <2>1, <2>2 DEF ReadsSilence
<1>13. ASSUME NEW s \in Sessions, TimerStep(s), ~StoreCount(s), ~ReadCount(s) PROVE ReadsSilence'
  <2>1. UNCHANGED <<main, noVideoInt, silence, inflated>>
    BY <1>13 DEF TimerStep, Tick, StoreRate, TestRate, ClearRate, CheckCount, CheckListens, Report, Rest, looper, counts
  <2>2. \E l \in {"rated", "test", "clear", "idle", "count", "ask", "report"} : task' = [task EXCEPT ![s] = l]
    BY <1>13 DEF TimerStep, Tick, StoreRate, TestRate, ClearRate, CheckCount, CheckListens, Report, Becomes
  <2>3. local' = local \/ \E x : local' = [local EXCEPT ![s] = x]
    BY <1>13 DEF TimerStep, Tick, StoreRate, TestRate, ClearRate, CheckCount, CheckListens, Report, Holds, Used, Rest
  <2>4. \A r \in Sessions : task'[r] = "store" => task[r] = "store" /\ local'[r] = local[r]
    BY <1>1, <2>2, <2>3
  <2> QED BY <1>2, <2>1, <2>4 DEF ReadsSilence
<1>14. CASE UNCHANGED vars
  BY <1>3, <1>14 DEF vars, tasks, looper
<1> QED BY <1>5, <1>6, <1>7, <1>8, <1>9, <1>10, <1>11, <1>12, <1>13, <1>14 DEF Next, Main

\* Timers: the one that a second setCamIpInfo() replaces is noted if it ticks.
LEMMA TimersStayKnown == SessionInv /\ [Next]_vars => TimersKnown'
<1> SUFFICES ASSUME SessionInv, [Next]_vars PROVE TimersKnown'
  OBVIOUS
<1>1. ticking \subseteq abandoned \cup {timer}
  BY DEF SessionInv, TimersKnown
<1>2. CASE UNCHANGED timers
  BY <1>1, <1>2 DEF timers, TimersKnown
<1>3. CASE InitStopCam
  BY <1>1, <1>3 DEF InitStopCam, StopUdp, StopTimer, TimersKnown
<1>4. CASE HandleWatch
  BY <1>1, <1>4 DEF HandleWatch, TimersKnown
<1>5. CASE User \/ HandleNoVideo \/ HandleFull \/ HandleStop
  BY <1>2, <1>3, <1>5 DEF User, Play, Leave, Return, Retry, Exit, Back, Reopen, ChooseCamera, HandleNoVideo, HandleFull, HandleStop, Opens
<1>6. CASE DecoderStarts \/ Respond \/ GoesOffLine \/ Listen \/ ResetWatchdog \/ SetAddresses \/ Punch \/ Packet \/ One \/ PunchNext
  BY <1>2, <1>6 DEF DecoderStarts, Respond, GoesOffLine, Listen, ResetWatchdog, SetAddresses, Punch, Packet, One, PunchNext
<1>7. ASSUME NEW s \in Sessions, TimerStep(s) PROVE UNCHANGED timers
  BY <1>7 DEF TimerStep, Tick, StoreRate, TestRate, ClearRate, ReadCount, StoreCount, CheckCount, CheckListens, Report, Rest
<1> QED BY <1>2, <1>4, <1>5, <1>6, <1>7 DEF Next, Main, vars

\* Channel and relay: only setCamIpInfo() writes them, field after field.
LEMMA AddressesStay == SessionInv /\ [Next]_vars => AddressesSet'
<1> SUFFICES ASSUME SessionInv, [Next]_vars PROVE AddressesSet'
  OBVIOUS
<1>1. AddressesSet
  BY DEF SessionInv
<1>2. ASSUME UNCHANGED <<relay, starts>>, main' \in {"ip", "port", "announce"} => main' = main PROVE AddressesSet'
  BY <1>1, <1>2 DEF AddressesSet, relay
<1>3. CASE User
  <2>1. UNCHANGED <<relay, starts, main>>
    BY <1>3 DEF User, Play, Leave, Return, Retry, Exit, Back, Reopen, ChooseCamera, InitStopCam, StopUdp, punch, punchers,
                timers, looper
  <2> QED BY <1>2, <2>1
<1>4. CASE DecoderStarts \/ Respond \/ GoesOffLine \/ Packet
  BY <1>2, <1>4 DEF DecoderStarts, Respond, GoesOffLine, Packet, punch, punchers, timers, looper
<1>5. CASE HandleNoVideo \/ HandleFull \/ HandleStop
  BY <1>2, <1>5 DEF HandleNoVideo, HandleFull, HandleStop, Opens, InitStopCam, StopUdp, punch, punchers, timers
<1>6. CASE HandleWatch \/ Listen \/ ResetWatchdog
  BY <1>6 DEF HandleWatch, Listen, ResetWatchdog, AddressesSet
<1>7. CASE SetAddresses
  BY <1>1, <1>7 DEF SetAddresses, SetChannel, SetMcuIp, SetMcuPort, Announce, AddressesSet, relay, timers
<1>8. CASE Punch
  BY <1>8 DEF Punch, AddressesSet
<1>9. CASE One
  BY <1>2, <1>9 DEF One, ReceiveOne, punchers, timers, looper
<1>10. CASE PunchNext
  <2>1. UNCHANGED <<starts, main>>
    BY <1>10 DEF PunchNext, timers, looper
  <2>2. CASE MakeAnswer \/ SendAnswer \/ CameraSends
    BY <1>2, <2>1, <2>2 DEF MakeAnswer, SendAnswer, CameraSends, punchers
  <2>3. ASSUME NEW s \in Sessions, PunchStep(s) PROVE AddressesSet'
    BY <1>2, <2>1, <2>3, PunchersKeepRelay
  <2> QED BY <1>10, <2>2, <2>3 DEF PunchNext
<1>11. ASSUME NEW s \in Sessions, TimerStep(s) PROVE UNCHANGED <<relay, starts, main>>
  BY <1>11 DEF TimerStep, Tick, StoreRate, TestRate, ClearRate, ReadCount, StoreCount, CheckCount, CheckListens, Report, Rest,
               punch, punchers, timers, looper
<1>12. CASE UNCHANGED vars
  BY <1>2, <1>12 DEF vars, punch, punchers, timers, looper
<1> QED BY <1>2, <1>3, <1>4, <1>5, <1>6, <1>7, <1>8, <1>9, <1>10, <1>11, <1>12 DEF Next, Main

-----------------------------------------------------------------------------
\* The invariant of a session over UDP: that of its hole punching, its types,
\* and what its counts and timers are about.
THEOREM SessionInvariant == Spec => []SessionInv
<1>1. SessionInv /\ [Next]_vars => SessionInv'
  <2>1. SessionInv /\ [Next]_vars => PunchInv'
    BY StepsPunch, PunchStepKeeps DEF SessionInv
  <2> QED BY <2>1, SessionTypesKept, SessionsStayBounded, SilenceKept, TimersStayKnown, AddressesStay DEF SessionInv
<1> QED BY InitSession, <1>1, PTL DEF Spec

\* The watchdog of UdpSocket.listenVideo() counts rounds without a packet only,
\* unless a reset was lost in noVideoInt++, and after stopCam() only timers
\* tick that a second setCamIpInfo() replaced without cancelling them.
THEOREM SessionIsSafe == Spec => []SessionSafe
<1>1. SessionInv => SessionSafe
  <2> SUFFICES ASSUME SessionInv PROVE SessionSafe
    OBVIOUS
  <2>1. TypeOK
    BY DEF TypeOK, SessionInv, PunchInv, SessionTypes, Answers
  <2>2. CountsOnlySilence
    BY DEF CountsOnlySilence, SessionInv, ReadsSilence
  <2>3. StoppedMeansStopped
    BY DEF StoppedMeansStopped, SessionInv, TimersKnown, SessionTypes
  <2> QED BY <2>1, <2>2, <2>3 DEF SessionSafe
<1> QED BY SessionInvariant, <1>1, PTL

\* Whatever the sessions that SendP2PThreads of UdpSocket punch for at a time,
\* each has asked its relay for its own channel, unless another thread replaced
\* its packet or a later setCamIpInfo() came before it had read what to ask; and
\* sends to the port of its own camera, unless camera or port were changed.
THEOREM EachSessionReachesItsCamera == Spec => []ReachesItsCamera
<1>1. SessionInv => ReachesItsCamera
  BY DEF SessionInv, PunchInv, ReachesItsCamera
<1> QED BY SessionInvariant, <1>1, PTL
=============================================================================
