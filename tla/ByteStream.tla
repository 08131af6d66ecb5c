----------------------------- MODULE ByteStream -----------------------------
(***************************************************************************)
(* What CircularByteBuffer promises its clients: a first-in first-out      *)
(* stream of bytes with one mark.  There is no ring here, no length and no *)
(* position: only the bytes still kept, in the order they were written.    *)
(***************************************************************************)
EXTENDS Integers, Sequences

CONSTANTS Byte, Readers, Writers, MaxRead, MaxWrite

VARIABLES
  keptBytes,   \* the bytes from the mark on
  pos,         \* how many of them are already read, and kept for a reset
  limit,       \* how many may be read before the mark is dropped
  inClosed, outClosed,
  request,     \* the call each thread is in
  reply        \* how the last call of each thread ended

stream == <<keptBytes, pos, limit>>
flags == <<inClosed, outClosed>>
vars == <<stream, flags, request, reply>>

Threads == Readers \cup Writers
Asked(op, len, data) == [op |-> op, len |-> len, data |-> data, off |-> 0]
None == Asked("none", 0, <<>>)
MinOfTwo(a, b) == IF a <= b THEN a ELSE b
Unread == Len(keptBytes) - pos
Arrays == UNION {[1..n -> Byte] : n \in 1..MaxWrite}

Init == /\ keptBytes = <<>> /\ pos = 0 /\ limit = 0
        /\ inClosed = FALSE /\ outClosed = FALSE
        /\ request = [t \in Threads |-> None]
        /\ reply = [t \in Threads |-> [status |-> "none", data |-> <<>>, n |-> 0]]

Answer(t, status, data, n) ==
  /\ request' = [request EXCEPT ![t] = None]
  /\ reply' = [reply EXCEPT ![t] = [status |-> status, data |-> data, n |-> n]]

\* A thread starts a call.
Ask(t) ==
  /\ request[t] = None
  /\ \/ /\ t \in Readers
        /\ \E op \in {"read", "readByte", "skip"}, n \in 1..MaxRead :
             request' = [request EXCEPT ![t] = Asked(op, n, <<>>)]
     \/ /\ t \in Writers
        /\ \E op \in {"write", "writeByte"}, d \in Arrays :
             request' = [request EXCEPT ![t] = Asked(op, 0, d)]
  /\ reply' = [reply EXCEPT ![t] = [status |-> "none", data |-> <<>>, n |-> 0]]
  /\ UNCHANGED <<stream, flags>>

\* n bytes are passed; the mark goes with them when it was too far behind.
Pass(n) ==
  IF pos + n > limit
    THEN /\ keptBytes' = SubSeq(keptBytes, pos + n + 1, Len(keptBytes))
         /\ pos' = 0 /\ limit' = 0
    ELSE pos' = pos + n /\ UNCHANGED <<keptBytes, limit>>

\* A read returns the next unread bytes, in order: at least one.
\* A skip passes them without returning them.
Deliver(r) ==
  /\ request[r].op \in {"read", "readByte", "skip"} /\ ~inClosed
  /\ \E n \in 1..MinOfTwo(request[r].len, Unread) :
       /\ Pass(n)
       /\ Answer(r, "ok", IF request[r].op = "skip" THEN <<>>
                          ELSE SubSeq(keptBytes, pos + 1, pos + n), n)
  /\ UNCHANGED flags

\* The end of the stream is reported only when nothing is left unread.
AtEnd(r) ==
  /\ request[r].op \in {"read", "readByte", "skip"}
  /\ ~inClosed /\ outClosed /\ Unread = 0
  /\ Answer(r, IF request[r].op = "skip" THEN "ok" ELSE "eof", <<>>, 0)
  /\ UNCHANGED <<stream, flags>>

\* A write appends some of what is left of its array, and returns "ok" when
\* and only when nothing is left.
Accept(w) ==
  LET p == request[w]
      left == Len(p.data) - p.off IN
  /\ p.op \in {"write", "writeByte"} /\ ~inClosed /\ ~outClosed
  /\ \E n \in 1..left :
       /\ keptBytes' = keptBytes \o SubSeq(p.data, p.off + 1, p.off + n)
       /\ IF n = left THEN Answer(w, "ok", <<>>, Len(p.data))
          ELSE /\ request' = [request EXCEPT ![w].off = @ + n]
               /\ UNCHANGED reply
  /\ UNCHANGED <<pos, limit, flags>>

\* A call ends without having finished: a stream is closed, the ring is full,
\* the thread is interrupted.  The caller is told how much it had written.
Fail(t) ==
  /\ request[t] # None
  /\ \/ inClosed /\ Answer(t, "closed", <<>>, request[t].off)
     \/ t \in Writers /\ outClosed /\ Answer(t, "closed", <<>>, request[t].off)
     \/ t \in Writers /\ Answer(t, "overflow", <<>>, request[t].off)
     \/ Answer(t, "interrupted", <<>>, request[t].off)
  /\ UNCHANGED <<stream, flags>>

SetMark == /\ \E n \in 0..MaxRead : limit' = n
           /\ keptBytes' = SubSeq(keptBytes, pos + 1, Len(keptBytes)) /\ pos' = 0
           /\ UNCHANGED <<flags, request, reply>>

\* Everything since the mark will be delivered again.
GoBack == /\ ~inClosed /\ pos' = 0
          /\ UNCHANGED <<keptBytes, limit, flags, request, reply>>

Close == /\ inClosed' \in {inClosed, TRUE} /\ outClosed' \in {outClosed, TRUE}
         /\ UNCHANGED <<stream, request, reply>>

\* Everything is forgotten, except how long the next mark would have lasted.
Empty == /\ keptBytes' = <<>> /\ pos' = 0
         /\ inClosed' = FALSE /\ outClosed' = FALSE
         /\ UNCHANGED <<limit, request, reply>>

Next == \/ \E t \in Threads : Ask(t) \/ Fail(t)
        \/ \E r \in Readers : Deliver(r) \/ AtEnd(r)
        \/ \E w \in Writers : Accept(w)
        \/ SetMark \/ GoBack \/ Close \/ Empty

Spec == Init /\ [][Next]_vars

=============================================================================
