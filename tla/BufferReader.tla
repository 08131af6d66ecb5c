---------------------------- MODULE BufferReader ----------------------------
(***************************************************************************)
(* com.spoledge.aacdecoder.BufferReader: a thread reads an input stream    *)
(* into three buffers, in turn; the player takes the full ones with next() *)
(* and owns the one it took until its next call.                           *)
(*                                                                         *)
(* The stream is external: its bytes are numbered 1, 2, 3, ...  A read     *)
(* gives some of the next ones, or ends the stream (-1 or an IOException). *)
(* Calls of synchronized methods are one step up to their wait().          *)
(***************************************************************************)
EXTENDS Integers, Sequences

CONSTANTS
  Capacities,      \* the sizes of a buffer that setCapacity may ask for
  FirstCapacity,   \* the size the reader is made with
  StreamLength     \* bound: bytes the stream yields

ASSUME CapacityAssumption == /\ Capacities \subseteq Nat \ {0}
                             /\ FirstCapacity \in Capacities
ASSUME StreamAssumption == StreamLength \in Nat

VARIABLES
  buffers, capacity, indexMine, indexBlocked, stopped,
  cap, total,      \* local variables of run()
  rpc,             \* where the reading thread is
  ppc,             \* where the player is
  fetched,         \* how many bytes the stream has yielded
  got,             \* the bytes next() has returned, in order
  ended            \* the last next() returned null

fields == <<buffers, capacity, indexMine, indexBlocked>>
reading == <<cap, total, rpc, fetched>>
playing == <<ppc, got, ended>>
vars == <<fields, stopped, reading, playing>>

Index == 0..2
Succ(i) == (i + 1) % 3
MinOf(a, b) == IF a < b THEN a ELSE b

\* new Buffer(c); its bytes are 0 until the stream fills them.
Buffer(c) == [data |-> [i \in 1..c |-> 0], size |-> 0]

Init == /\ buffers = [i \in Index |-> Buffer(FirstCapacity)]
        /\ capacity = FirstCapacity /\ cap = FirstCapacity
        /\ indexMine = 0 /\ indexBlocked = 2
        /\ stopped = FALSE /\ total = 0
        /\ rpc = "new" /\ ppc = "out"
        /\ fetched = 0 /\ got = <<>> /\ ended = FALSE

\* notify(), when the only other thread that can wait is the one named.
NotifyPlayer == ppc' = IF ppc = "wait" THEN "next" ELSE ppc
NotifyReader == rpc' = IF rpc = "wait" THEN "awake" ELSE rpc

-----------------------------------------------------------------------------
\* The reading thread.

\* int cap = capacity: a setCapacity() may have come before it.
StartRun ==
  /\ rpc = "new" /\ rpc' = "loop" /\ cap' = capacity
  /\ UNCHANGED <<fields, stopped, total, fetched, playing>>

\* The buffers, with a new one in turn if the capacity changed.
Resized == IF cap = Len(buffers[indexMine].data) THEN buffers
           ELSE [buffers EXCEPT ![indexMine] = Buffer(cap)]

\* while (!stopped): take the next buffer and start to fill it.
TakeBufferKeepsTotal ==
  /\ rpc = "loop" /\ rpc' = IF stopped THEN "done" ELSE "fill"
  /\ buffers' = IF stopped THEN buffers ELSE Resized
  /\ UNCHANGED <<capacity, indexMine, indexBlocked, stopped, cap, total, fetched, playing>>
TakeBuffer ==
  /\ rpc = "loop"
  /\ IF stopped
       THEN rpc' = "done" /\ UNCHANGED <<buffers, total>>
       ELSE /\ rpc' = "fill" /\ total' = 0
            /\ buffers' = Resized
  /\ UNCHANGED <<capacity, indexMine, indexBlocked, stopped, cap, fetched, playing>>

\* while (!stopped && total < cap); after it the size of the buffer is set.
Full == stopped \/ total >= cap
Fill ==
  /\ rpc = "fill"
  /\ IF Full
       THEN rpc' = "lock" /\ buffers' = [buffers EXCEPT ![indexMine].size = total]
       ELSE rpc' = "read" /\ UNCHANGED buffers
  /\ UNCHANGED <<capacity, indexMine, indexBlocked, stopped, cap, total, fetched, playing>>

\* is.read(data, total, cap - total) returns n bytes.
Read(n) ==
  /\ rpc = "read" /\ n <= MinOf(cap - total, StreamLength - fetched)
  /\ buffers' = [buffers EXCEPT ![indexMine].data =
                   [i \in DOMAIN @ |-> IF i \in total + 1..total + n
                                         THEN fetched + i - total ELSE @[i]]]
  /\ total' = total + n /\ fetched' = fetched + n /\ rpc' = "fill"
  /\ UNCHANGED <<capacity, indexMine, indexBlocked, stopped, cap, playing>>

\* It returns -1 or throws: stopped is set, outside of the monitor.
EndOfStream ==
  /\ rpc = "read" /\ rpc' = "fill" /\ stopped' = TRUE
  /\ UNCHANGED <<fields, cap, total, fetched, playing>>

\* In the monitor: wait while the next buffer is the player's, then go on to it.
MustWaitNever == FALSE
MustWait == ~stopped /\ Succ(indexMine) = indexBlocked
GoOn == IF MustWait
          THEN rpc' = "wait" /\ UNCHANGED <<indexMine, cap>>
          ELSE rpc' = "loop" /\ indexMine' = Succ(indexMine) /\ cap' = capacity

PublishSilently == /\ rpc = "lock" /\ GoOn
                   /\ UNCHANGED <<buffers, capacity, indexBlocked, stopped, total, fetched, playing>>
Publish ==
  /\ rpc = "lock" /\ NotifyPlayer /\ GoOn
  /\ UNCHANGED <<buffers, capacity, indexBlocked, stopped, total, fetched, got, ended>>

Awake ==
  /\ rpc = "awake" /\ GoOn
  /\ UNCHANGED <<buffers, capacity, indexBlocked, stopped, total, fetched, playing>>

-----------------------------------------------------------------------------
\* The player's calls.

SetCapacity(c) ==
  /\ ppc = "out" /\ capacity' = c
  /\ UNCHANGED <<buffers, indexMine, indexBlocked, stopped, reading, playing>>

BeginNext ==
  /\ ppc = "out" /\ ppc' = "next"
  /\ UNCHANGED <<fields, stopped, reading, got, ended>>

\* In a next() that looks at stopped first, what is full would not be returned.
TakeNextUnlessStopped ==
  LET indexNew == Succ(indexBlocked) IN
  /\ ppc = "next"
  /\ IF ~stopped /\ indexNew # indexMine
       THEN /\ indexBlocked' = indexNew /\ NotifyReader
            /\ got' = got \o SubSeq(buffers[indexNew].data, 1, buffers[indexNew].size)
            /\ ppc' = "out" /\ ended' = FALSE
       ELSE /\ UNCHANGED <<indexBlocked, rpc, got>>
            /\ IF stopped THEN ppc' = "out" /\ ended' = TRUE
                          ELSE ppc' = "wait" /\ UNCHANGED ended
  /\ UNCHANGED <<buffers, capacity, indexMine, stopped, cap, total, fetched>>

\* next(): wait for a full buffer, or return null if there is none to come.
TakeNext ==
  LET indexNew == Succ(indexBlocked) IN
  /\ ppc = "next"
  /\ IF indexNew # indexMine
       THEN /\ indexBlocked' = indexNew /\ NotifyReader
            /\ got' = got \o SubSeq(buffers[indexNew].data, 1, buffers[indexNew].size)
            /\ ppc' = "out" /\ ended' = FALSE
       ELSE /\ UNCHANGED <<indexBlocked, rpc, got>>
            /\ IF stopped THEN ppc' = "out" /\ ended' = TRUE
                          ELSE ppc' = "wait" /\ UNCHANGED ended
  /\ UNCHANGED <<buffers, capacity, indexMine, stopped, cap, total, fetched>>

StopSilently == /\ ppc = "out" /\ stopped' = TRUE
                /\ UNCHANGED <<fields, reading, playing>>
Stop ==
  /\ ppc = "out" /\ stopped' = TRUE /\ NotifyReader
  /\ UNCHANGED <<fields, cap, total, fetched, playing>>

ReadSome == \E n \in 1..MinOf(cap - total, StreamLength - fetched) : Read(n)
Reader == StartRun \/ TakeBuffer \/ Fill \/ ReadSome \/ EndOfStream \/ Publish \/ Awake
Player == BeginNext \/ TakeNext \/ Stop \/ \E c \in Capacities : SetCapacity(c)

Next == Reader \/ Player

Spec == Init /\ [][Next]_vars

\* The scheduler runs both threads.  That the stream yields or ends is assumed
\* of it: SoundPlay's ring yields for as long as the camera sends sound.
Fairness == WF_vars(Reader) /\ WF_vars(TakeNext)
LiveSpec == Spec /\ Fairness

-----------------------------------------------------------------------------
\* Correctness.

Chunk == [data : UNION {[1..c -> 0..StreamLength] : c \in Capacities}, size : Nat]

\* Type invariant.
TypeOK ==
  /\ DOMAIN buffers = Index
  /\ \A i \in Index : /\ buffers[i] \in Chunk
                      /\ buffers[i].size <= Len(buffers[i].data)
  /\ capacity \in Capacities /\ cap \in Capacities
  /\ indexMine \in Index /\ indexBlocked \in Index
  /\ stopped \in BOOLEAN /\ ended \in BOOLEAN
  /\ total \in Nat /\ (rpc # "loop" /\ rpc # "done" => total <= cap)
  /\ rpc \in {"new", "loop", "fill", "read", "lock", "wait", "awake", "done"}
  /\ ppc \in {"out", "next", "wait"}
  /\ fetched \in 0..StreamLength
  /\ got \in Seq(0..StreamLength)

\* The player gets the bytes of the stream in order, none twice and none left
\* out, whatever the capacity was changed to between two buffers.
InOrder == got = [i \in 1..Len(got) |-> i]

\* Types, and bytes in order.
ReaderSafe == TypeOK /\ InOrder

\* The reader and the player never wait for each other.  Whoever sleeps can
\* count on the other: the reader sleeps only while the player holds the next
\* buffer, and while the player sleeps the reader has still a buffer to
\* publish, and so a notify() to make, before it can sleep or end; that holds
\* for the end of the stream too, which the reader notes without notifying.
\* (It is not true that the player sleeps only for want of a full buffer: when
\* it calls next() again before a reader it has awakened moves indexMine on, it
\* sleeps until one more buffer is full.)
NoLostWakeup ==
  /\ rpc = "wait" => MustWait
  /\ ppc = "wait" => /\ rpc \in {"new", "loop", "fill", "read", "lock", "awake"}
                     /\ rpc \in {"new", "loop", "awake"} => ~stopped

\* The reader never touches the buffer that the player holds.
HeldStays ==
  [][indexBlocked' = indexBlocked => buffers'[indexBlocked] = buffers[indexBlocked]]_vars

\* When next() returns null everything the stream yielded was returned before,
\* but for the buffer the reader is just filling: stopped is set before
\* that one is published, and a next() between the two does not wait for it.
NullAfterAllButTheLast ==
  [][ended' /\ ~ended =>
       Len(got) = fetched - (IF rpc \in {"fill", "read", "lock", "awake"} THEN total ELSE 0)]_vars

\* A call of next() returns, if only null.
NextReturns == ppc = "next" ~> ppc = "out"

\* Once stopped, the reading thread ends.
ReaderEnds == stopped ~> rpc = "done"

\* Neither thread stays in the monitor for ever.
BothGoOn == NextReturns /\ ReaderEnds
=============================================================================
