---------------------------- MODULE LinkedQueue ----------------------------
(***************************************************************************)
(* The java.util.LinkedList of the Android releases this project compiles  *)
(* for (sdk 23): a ring of links through Void, the link that holds         *)
(* nothing.  The application calls add(x), getFirst(), removeFirst() and   *)
(* size() from several threads with no lock, so every read and every write *)
(* of a link that others can reach, and of size, is a step of its own.     *)
(* A link is named by the one item that is ever put into it.               *)
(***************************************************************************)
EXTENDS Integers

CONSTANTS
  Callers,     \* the threads that call
  Item,        \* what is put into the list, each at most once
  Void         \* voidLink

ASSUME LinkedQueueAssumption == Void \notin Item

VARIABLES
  next, previous,   \* of every link
  size,
  call              \* the call each thread is in, with its local variables

queue == <<next, previous, size, call>>

Link == Item \cup {Void}

NoCall == [op |-> "none", at |-> Void, by |-> Void, n |-> 0]
Free(t) == call[t] = NoCall
At(t, op) == call[t].op = op
Others(t) == {u \in Callers \ {t} : ~Free(u)}

QueueInit == /\ next = [l \in Link |-> Void] /\ previous = next
             /\ size = 0 /\ call = [t \in Callers |-> NoCall]

First == next[Void]
Empty == First = Void

-----------------------------------------------------------------------------
\* add(x): oldLast = voidLink.previous and a new link, which nobody else sees yet ...
Add(t, x) == LET oldLast == previous[Void] IN
  /\ Free(t)
  /\ call' = [call EXCEPT ![t] = [op |-> "add", at |-> x, by |-> oldLast, n |-> 0]]
  /\ next' = [next EXCEPT ![x] = Void]
  /\ previous' = [previous EXCEPT ![x] = oldLast]
  /\ UNCHANGED size
\* ... voidLink.previous = newLink ...
BecomeLast(t) == /\ At(t, "add")
                 /\ previous' = [previous EXCEPT ![Void] = call[t].at]
                 /\ call' = [call EXCEPT ![t].op = "link"]
                 /\ UNCHANGED <<next, size>>
\* ... oldLast.next = newLink.
LinkUp(t) == /\ At(t, "link")
             /\ next' = [next EXCEPT ![call[t].by] = call[t].at]
             /\ call' = [call EXCEPT ![t].op = "longer"]
             /\ UNCHANGED <<previous, size>>

\* removeFirst(): first = voidLink.next, which is not voidLink ...
RemoveFirst(t) == /\ Free(t) /\ ~Empty
                  /\ call' = [call EXCEPT ![t] = [NoCall EXCEPT !.op = "remove", !.at = First]]
                  /\ UNCHANGED <<next, previous, size>>
\* ... next = first.next ...
ReadNext(t) == /\ At(t, "remove")
               /\ call' = [call EXCEPT ![t].op = "unlink", ![t].by = next[call[t].at]]
               /\ UNCHANGED <<next, previous, size>>
\* ... voidLink.next = next ...
Unlink(t) == /\ At(t, "unlink")
             /\ next' = [next EXCEPT ![Void] = call[t].by]
             /\ call' = [call EXCEPT ![t].op = "close"]
             /\ UNCHANGED <<previous, size>>
\* ... next.previous = voidLink.
CloseUp(t) == /\ At(t, "close")
              /\ previous' = [previous EXCEPT ![call[t].by] = Void]
              /\ call' = [call EXCEPT ![t].op = "shorter"]
              /\ UNCHANGED <<next, size>>

\* size++ and size--: read, then written.
ReadSize(t) == \E s \in {-1, 1} :
  /\ At(t, IF s = 1 THEN "longer" ELSE "shorter")
  /\ call' = [call EXCEPT ![t] = [NoCall EXCEPT !.op = "count", !.n = size + s]]
  /\ UNCHANGED <<next, previous, size>>
WriteSize(t) == /\ At(t, "count")
                /\ size' = call[t].n
                /\ call' = [call EXCEPT ![t] = NoCall]
                /\ UNCHANGED <<next, previous>>

\* The next step of the call t is in.
Continue(t) == \/ BecomeLast(t) \/ LinkUp(t)
               \/ ReadNext(t) \/ Unlink(t) \/ CloseUp(t)
               \/ ReadSize(t) \/ WriteSize(t)

-----------------------------------------------------------------------------
QueueTypeOK ==
  /\ next \in [Link -> Link]
  /\ previous \in [Link -> Link]
  /\ size \in Int
  /\ call \in [Callers -> [op : {"none", "add", "link", "remove", "unlink", "close",
                                 "longer", "shorter", "count"},
                           at : Link, by : Link, n : Int]]
=============================================================================
