--------------------------- MODULE PacketAssembly ---------------------------
(***************************************************************************)
(* UdpSocket.packageVideo and packageToRealVideo: the UDP thread puts the  *)
(* chunks of a frame back together, counting them in vMap, while the timer *)
(* thread of listenVideo sizes up and empties dropVideoMap, the table of   *)
(* chunks still missing.  The two threads share no lock.                   *)
(*                                                                         *)
(* dropVideoMap is a plain TreeMap.  Looking something up in it is one     *)
(* step; put and remove are two, and when the timer's clear() falls        *)
(* between the two the tree may end up with any of its entries, its size   *)
(* is anything from then on, and the call may throw.                       *)
(*                                                                         *)
(* The network is external: it may lose, reorder and, up to MaxCopies,     *)
(* repeat the chunks the camera sends.                                     *)
(***************************************************************************)
EXTENDS Integers, Sequences, FiniteSets

CONSTANTS
  Ids,          \* message numbers of frames, 0 is where the socket starts
  Kind,         \* what each frame carries: video, audio, or nothing to play
  Total,        \* Total[id]: how many chunks frame id has
  MaxCopies,    \* MaxCopies[id]: how often the network delivers each of them, at most
  DropLimit     \* so many unfinished frames ask for a lower bit rate (10)

ASSUME FrameAssumption == /\ Ids \subseteq Nat
                          /\ Kind \in [Ids -> {"video", "audio", "other", "short"}]
                          /\ Total \in [Ids -> Nat \ {0}]
                          /\ MaxCopies \in [Ids -> Nat] /\ DropLimit \in Nat

Chunks(id) == 0..Total[id] - 1
Packets == UNION {{[id |-> id, cur |-> cur] : cur \in Chunks(id)} : id \in Ids}

VARIABLES
  arrived,             \* how often each packet came out of the network
  vMap,                \* the frames being put together, by id
  dropVideoMap,        \* the chunks missing of each unfinished frame, by id
  tempPackageVerify,   \* id of the last packet
  pc, pack,            \* where the UDP thread is, and with which packet
  before,              \* dropVideoMap when the put or remove under way began
  raced,               \* a clear() fell into a put or remove: never, now, once
  sizing,              \* where the timer thread is
  lossSeen,            \* the timer has called modifyCam() because of lost chunks
  delivered            \* frames handed to Videolist or audioArraryList, in order

frames == <<vMap, dropVideoMap>>
network == <<sizing, lossSeen>>
assemblyVars == <<arrived, frames, tempPackageVerify, pc, pack, before, raced, network, delivered>>

\* HashMap.put, remove and containsKey on partial functions.
Put(map, id, value) == [i \in DOMAIN map \cup {id} |->
                          IF i = id THEN value ELSE map[i]]
Remove(map, id) == [i \in DOMAIN map \ {id} |-> map[i]]
Has(map, id) == id \in DOMAIN map
Empty == [i \in {} |-> {}]
Part(map, ids) == [i \in ids |-> map[i]]

\* A Vdata: reciverPackeNum, and the chunks of its array that were filled in.
NewVdata == [num |-> 0, filled |-> {}]

AssemblyInit ==
  /\ arrived = [p \in Packets |-> 0]
  /\ vMap = Empty /\ dropVideoMap = Empty
  /\ tempPackageVerify = 0
  /\ pc = "receive" /\ pack = [id |-> 0, cur |-> 0]
  /\ before = Empty /\ raced = "never"
  /\ sizing = "size" /\ lossSeen = FALSE
  /\ delivered = <<>>

-----------------------------------------------------------------------------
\* The UDP thread.

GoTo(label) == pc' = label /\ UNCHANGED <<arrived, tempPackageVerify, pack>>

\* A packet comes in.  The first packet after one of another frame opens an
\* entry in both maps, unless the frame already has one.
Receive(p) ==
  /\ pc = "receive" /\ arrived[p] < MaxCopies[p.id]
  /\ arrived' = [arrived EXCEPT ![p] = @ + 1]
  /\ pack' = p /\ tempPackageVerify' = p.id
  /\ pc' = IF p.id # tempPackageVerify /\ ~Has(vMap, p.id) THEN "open" ELSE "contains"
  /\ UNCHANGED <<frames, before, raced, network, delivered>>

\* A put or remove of dropVideoMap begins ...
BeginUpdate ==
  /\ \/ pc = "open" /\ GoTo("putting")
     \/ pc = "remove" /\ GoTo("removing")
  /\ before' = dropVideoMap
  /\ UNCHANGED <<frames, raced, network, delivered>>

\* ... and ends, with the map it was to make, or if the timer emptied the map
\* meanwhile with any part of it.
Updates(map) ==
  /\ before' = Empty
  /\ raced' = IF raced = "now" THEN "once" ELSE raced
  /\ IF raced = "now"
       THEN \E ids \in SUBSET DOMAIN map : dropVideoMap' = Part(map, ids)
       ELSE dropVideoMap' = map

\* The entry of a new frame lists all its chunks as missing.
AllMissing(id) == Chunks(id)

\* dropVideoMap.put(id, tempSet), which the loop repeats with the same set as it
\* fills it: the last put is the one that counts.  An exception of put is not
\* caught: it ends the thread.
PutMissing ==
  /\ pc = "putting" /\ Updates(Put(before, pack.id, AllMissing(pack.id)))
  /\ \/ GoTo("opened")
     \/ raced = "now" /\ GoTo("dead")
  /\ UNCHANGED <<vMap, network, delivered>>

\* vMap.put(id, vData)
OpenFrame ==
  /\ pc = "opened" /\ vMap' = Put(vMap, pack.id, NewVdata) /\ GoTo("contains")
  /\ UNCHANGED <<dropVideoMap, before, raced, network, delivered>>

\* if (dropVideoMap.containsKey(id))
ContainsKey ==
  /\ pc = "contains"
  /\ GoTo(IF Has(dropVideoMap, pack.id) THEN "strike" ELSE "copy")
  /\ UNCHANGED <<frames, before, raced, network, delivered>>

\* dropVideoMap.get(id).remove(current).  When the timer emptied the map since
\* containsKey, get returns null: the NullPointerException drops the packet.
StrikeMissing ==
  /\ pc = "strike"
  /\ IF Has(dropVideoMap, pack.id)
       THEN /\ dropVideoMap' = [dropVideoMap EXCEPT ![pack.id] = @ \ {pack.cur}]
            /\ GoTo("empty")
       ELSE UNCHANGED dropVideoMap /\ GoTo("receive")
  /\ UNCHANGED <<vMap, before, raced, network, delivered>>

\* if (dropVideoMap.get(id).isEmpty()), with the same exception.
IsEmptyIgnored == pc = "empty" /\ GoTo("copy") /\ UNCHANGED <<frames, before, raced, network, delivered>>
IsEmpty ==
  /\ pc = "empty"
  /\ GoTo(IF ~Has(dropVideoMap, pack.id) THEN "receive"
          ELSE IF dropVideoMap[pack.id] = {} THEN "remove" ELSE "copy")
  /\ UNCHANGED <<frames, before, raced, network, delivered>>

\* dropVideoMap.remove(id); an exception of remove drops the packet.
RemoveEntry ==
  /\ pc = "removing" /\ Updates(Remove(before, pack.id))
  /\ \/ GoTo("copy")
     \/ raced = "now" /\ GoTo("receive")
  /\ UNCHANGED <<vMap, network, delivered>>

CompleteEarly(id, num) == num >= Total[id] - 1
CompleteLate(id, num) == num > Total[id]
Complete(id, num) == num = Total[id]

\* The chunk is copied and counted, whether or not it was there before; the
\* frame is complete when as many packets were counted as it has chunks.  A
\* frame without an entry drops its packet (NullPointerException).
CopyChunk ==
  /\ pc = "copy"
  /\ IF Has(vMap, pack.id)
       THEN LET num == vMap[pack.id].num + 1
            IN  /\ vMap' = [vMap EXCEPT ![pack.id].num = num,
                                        ![pack.id].filled = @ \cup {pack.cur}]
                /\ GoTo(IF Complete(pack.id, num) THEN "deliver" ELSE "receive")
       ELSE UNCHANGED vMap /\ GoTo("receive")
  /\ UNCHANGED <<dropVideoMap, before, raced, network, delivered>>

\* What is left of vMap once frame id was looked at: video keeps its entry (its
\* removal, line 681, is commented out), sound and a frame whose length
\* does not fit its array lose it.
Kept(id) == IF Kind[id] \in {"audio", "short"} THEN Remove(vMap, id) ELSE vMap

\* packageToRealVideo: length, command and kind are read from chunk 0, so a
\* frame without it is ignored.
Deliver ==
  /\ pc = "deliver"
  /\ IF 0 \in vMap[pack.id].filled
       THEN /\ vMap' = Kept(pack.id)
            /\ delivered' = IF Kind[pack.id] \in {"video", "audio"}
                              THEN Append(delivered, [id |-> pack.id,
                                                      filled |-> vMap[pack.id].filled])
                              ELSE delivered
       ELSE UNCHANGED <<delivered, vMap>>
  /\ GoTo("receive")
  /\ UNCHANGED <<dropVideoMap, before, raced, network>>

-----------------------------------------------------------------------------
\* The timer thread, every fifty ticks of listenVideo.  (The calls of modifyCam
\* for a low rate and for a long Videolist depend on neither map.)

\* if (dropVideoMap.size() > 10) modifyCam()
SizeUp ==
  /\ sizing = "size" /\ sizing' = "clear"
  /\ \/ lossSeen' = (lossSeen \/ Cardinality(DOMAIN dropVideoMap) > DropLimit)
     \/ raced # "never" /\ lossSeen' \in {lossSeen, TRUE}
  /\ UNCHANGED <<arrived, frames, tempPackageVerify, pc, pack, before, raced, delivered>>

ClearDropped ==
  /\ sizing = "clear" /\ sizing' = "size"
  /\ dropVideoMap' = Empty
  /\ raced' = IF pc \in {"putting", "removing"} THEN "now" ELSE raced
  /\ UNCHANGED <<arrived, vMap, tempPackageVerify, pc, pack, before, lossSeen, delivered>>

Opening == BeginUpdate \/ PutMissing \/ OpenFrame
UdpThread == \/ Opening \/ ContainsKey \/ StrikeMissing \/ IsEmpty \/ RemoveEntry
             \/ CopyChunk \/ Deliver

AssemblyNext ==
  \/ \E p \in Packets : Receive(p)
  \/ UdpThread
  \/ SizeUp \/ ClearDropped

AssemblySpec == AssemblyInit /\ [][AssemblyNext]_assemblyVars

-----------------------------------------------------------------------------
\* Correctness.

Vdata(id) == [num : 0..MaxCopies[id] * Total[id], filled : SUBSET Chunks(id)]
IsTable(map) == /\ DOMAIN map \subseteq Ids
                /\ \A id \in DOMAIN map : map[id] \subseteq Chunks(id)

\* Type invariant.
AssemblyTypeOK ==
  /\ \A p \in Packets : arrived[p] \in 0..MaxCopies[p.id]
  /\ DOMAIN vMap \subseteq Ids /\ \A id \in DOMAIN vMap : vMap[id] \in Vdata(id)
  /\ IsTable(dropVideoMap) /\ IsTable(before)
  /\ tempPackageVerify \in Ids \cup {0}
  /\ pc \in {"receive", "open", "putting", "opened", "contains", "strike", "empty",
             "remove", "removing", "copy", "deliver", "dead"}
  /\ pack \in Packets \cup {[id |-> 0, cur |-> 0]}
  /\ raced \in {"never", "now", "once"}
  /\ sizing \in {"size", "clear"} /\ lossSeen \in BOOLEAN
  /\ delivered \in Seq([id : Ids, filled : SUBSET UNION {Chunks(id) : id \in Ids}])

\* The network repeats no chunk of frame id.
Once(id) == \A c \in Chunks(id) : arrived[[id |-> id, cur |-> c]] <= 1

\* A frame of which the network repeats no chunk reaches the decoder or the player
\* without a hole in it, however chunks are lost, reordered and mixed with
\* those of other frames, and whenever the timer empties dropVideoMap.
OnlyWholeFrames ==
  \A i \in 1..Len(delivered) :
    Once(delivered[i].id) => delivered[i].filled = Chunks(delivered[i].id)

\* Nor is such a frame delivered twice.
DeliveredOnce ==
  \A i, j \in 1..Len(delivered) :
    delivered[i].id = delivered[j].id /\ Once(delivered[i].id) => i = j

\* Even a network that repeats chunks cannot make a video frame be delivered
\* twice: its entry stays in vMap and its count has passed the total.
VideoDeliveredOnce ==
  \A i, j \in 1..Len(delivered) :
    delivered[i].id = delivered[j].id /\ Kind[delivered[i].id] = "video" => i = j

\* What reaches the decoder and the player: whole frames, once each.
WholeFramesOnce == OnlyWholeFrames /\ DeliveredOnce /\ VideoDeliveredOnce

\* A video frame whose last missing chunk was copied has been delivered, if none
\* of its chunks was repeated.
NoFrameForgotten ==
  pc = "receive" =>
    \A id \in DOMAIN vMap :
      vMap[id].filled = Chunks(id) /\ Kind[id] = "video" /\ Once(id) =>
        \E i \in 1..Len(delivered) : delivered[i].id = id

\* A frame of sound whose chunks are repeated may be complete too early, and
\* leave vMap while dropVideoMap still lists a chunk of it.
Tracked(id) == Once(id) \/ Kind[id] \in {"video", "other"}

\* Between packets the two accounts of every other frame agree: dropVideoMap
\* lists just the chunks that vMap has not got, and lists no finished frame,
\* although the timer empties it at any moment but inside an update of it.
AccountsAgree ==
  pc = "receive" /\ raced = "never" =>
    \A id \in DOMAIN dropVideoMap : Tracked(id) =>
      /\ id \in DOMAIN vMap
      /\ dropVideoMap[id] = Chunks(id) \ vMap[id].filled
      /\ dropVideoMap[id] # {}

\* Types, tables that agree, and no frame forgotten.
AssemblySafe == AssemblyTypeOK /\ AccountsAgree /\ NoFrameForgotten

\* Frames that lack a chunk, one that is just opened, and sound that lost track.
Lacking == {id \in DOMAIN vMap : vMap[id].filled # Chunks(id)}
           \cup (IF pc = "opened" THEN {pack.id} ELSE {})
           \cup {id \in DOMAIN dropVideoMap : ~Tracked(id)}

\* Under the same condition the timer sees loss only when there are more than
\* DropLimit of these.
LossSeenOnlyOnLoss ==
  [][lossSeen' /\ ~lossSeen /\ raced = "never" => Cardinality(Lacking) > DropLimit]_assemblyVars

=============================================================================
