----------------------------- MODULE SharedList -----------------------------
(***************************************************************************)
(* The java.util.ArrayList of the Android releases this project compiles   *)
(* for (sdk 23), as the application uses it: several threads call get(0),  *)
(* remove(0) and clear(), and one of them add(x), with no lock.  Every     *)
(* read of the field array and of size, every write of size and of one     *)
(* element is a step of its own.                                           *)
(*                                                                         *)
(* add() at a full array fills a longer copy and then replaces the array:  *)
(* a call that read the field before works on a replaced array, where its  *)
(* writes are lost.  Lengths only grow, so the length a call saw tells     *)
(* whether it has the list's array.                                        *)
(***************************************************************************)
EXTENDS Integers

CONSTANTS
  Threads,                  \* the threads that call
  Item,                     \* what is listed
  Null,                     \* null
  MIN_CAPACITY_INCREMENT    \* the first array's length (12 in the library)

ASSUME SharedListAssumption ==
  MIN_CAPACITY_INCREMENT \in Nat /\ MIN_CAPACITY_INCREMENT > 1 /\ Null \notin Item

VARIABLES
  array, length,    \* the elements, and array.length
  size,
  copy,             \* the longer array a growing add() fills
  call              \* the call each thread is in, with its local variables

list == <<array, length, size, copy, call>>

Nulls(n) == [i \in 0..n - 1 |-> Null]
NoCall == [op |-> "none", a |-> 0, s |-> 0, i |-> 0, x |-> Null]
Free(t) == call[t].op = "none"
At(t, op) == call[t].op = op
\* A call begins, or reads array and size anew: it holds the list's array.
Enter(t, op, s, x) ==
  call' = [call EXCEPT ![t] = [op |-> op, a |-> length, s |-> s, i |-> 0, x |-> x]]
Leave(t) == call' = [call EXCEPT ![t] = NoCall]

ListInit == /\ array = Nulls(0) /\ length = 0 /\ size = 0 /\ copy = Nulls(0)
            /\ call = [t \in Threads |-> NoCall]

First == array[0]
Listed == {array[i] : i \in 0..size - 1}

\* A write to the array the call holds.
Put(t, i, v) ==
  array' = IF call[t].a = length THEN [array EXCEPT ![i] = v] ELSE array

-----------------------------------------------------------------------------
\* add(x): array[s] = x, then size = s + 1, where s is size as it was read; a
\* full array is copied into a longer one first, which then takes its place.
Longer(n) == n + IF n < MIN_CAPACITY_INCREMENT \div 2
                   THEN MIN_CAPACITY_INCREMENT ELSE n \div 2
Add(t, x) == /\ Free(t)
             /\ IF size = length
                  THEN Enter(t, "grow", size, x) /\ copy' = Nulls(Longer(length))
                  ELSE Enter(t, "add", size, x) /\ UNCHANGED copy
             /\ UNCHANGED <<array, length, size>>
Copy(t) == LET c == call[t] IN
  /\ At(t, "grow") /\ c.i < c.s
  /\ copy' = [copy EXCEPT ![c.i] = array[c.i]]
  /\ call' = [call EXCEPT ![t].i = c.i + 1]
  /\ UNCHANGED <<array, length, size>>
Replace(t) == LET c == call[t] IN
  /\ At(t, "grow") /\ c.i = c.s
  /\ array' = copy /\ length' = Longer(length) /\ copy' = Nulls(0)
  /\ call' = [call EXCEPT ![t].op = "add"]
  /\ UNCHANGED size
Store(t) == /\ At(t, "add")
            /\ array' = [array EXCEPT ![call[t].s] = call[t].x]
            /\ call' = [call EXCEPT ![t].op = "added"]
            /\ UNCHANGED <<length, size, copy>>
Added(t) == /\ At(t, "added") /\ size' = call[t].s + 1 /\ Leave(t)
            /\ UNCHANGED <<array, length, copy>>

\* remove(0) reads array, then size.  An empty list throws, and so does an
\* array shorter than size.  Else System.arraycopy moves the s - 1 others one
\* place down, the last place is nulled, then size = s - 1.
RemoveFirst(t) == /\ Free(t) /\ Enter(t, "remove", 0, Null)
                  /\ UNCHANGED <<array, length, size, copy>>
RemoveSize(t) ==
  /\ At(t, "remove")
  /\ IF size = 0 \/ size > call[t].a
       THEN Leave(t)
       ELSE call' = [call EXCEPT ![t].op = "move", ![t].s = size]
  /\ UNCHANGED <<array, length, size, copy>>
Move(t) == LET c == call[t] IN
  /\ At(t, "move") /\ c.i < c.s - 1
  /\ Put(t, c.i, array[c.i + 1])
  /\ call' = [call EXCEPT ![t].i = c.i + 1]
  /\ UNCHANGED <<length, size, copy>>
DropLast(t) == LET c == call[t] IN
  /\ At(t, "move") /\ c.i = c.s - 1
  /\ Put(t, c.i, Null)
  /\ call' = [call EXCEPT ![t].op = "removed"]
  /\ UNCHANGED <<length, size, copy>>
Removed(t) == /\ At(t, "removed") /\ size' = call[t].s - 1 /\ Leave(t)
              /\ UNCHANGED <<array, length, copy>>

\* clear(), if size is not 0: Arrays.fill is passed array, then size, and
\* throws if the array is shorter; it nulls the s places, then size = 0.
Clear(t) == /\ Free(t) /\ size > 0 /\ Enter(t, "clear", 0, Null)
            /\ UNCHANGED <<array, length, size, copy>>
ClearArray(t) == /\ At(t, "clear") /\ Enter(t, "fill", 0, Null)
                 /\ UNCHANGED <<array, length, size, copy>>
ClearSize(t) ==
  /\ At(t, "fill")
  /\ call' = [call EXCEPT ![t].op = IF size > call[t].a THEN "threw" ELSE "erase",
                          ![t].s = size]
  /\ UNCHANGED <<array, length, size, copy>>
Erase(t) == LET c == call[t] IN
  /\ At(t, "erase") /\ c.i < c.s
  /\ Put(t, c.i, Null)
  /\ call' = [call EXCEPT ![t].i = c.i + 1]
  /\ UNCHANGED <<length, size, copy>>
Cleared(t) == /\ At(t, "erase") /\ call[t].i = call[t].s
              /\ size' = 0 /\ Leave(t) /\ UNCHANGED <<array, length, copy>>

\* The next step of the call t is in; there is none if it threw.
Continue(t) == \/ Copy(t) \/ Replace(t) \/ Store(t) \/ Added(t)
               \/ RemoveSize(t) \/ Move(t) \/ DropLast(t) \/ Removed(t)
               \/ ClearArray(t) \/ ClearSize(t) \/ Erase(t) \/ Cleared(t)

-----------------------------------------------------------------------------
Adds == {"grow", "add", "added"}
Removes == {"remove", "move", "removed"}
Clears == {"clear", "fill", "erase", "threw"}
Ops == {"none"} \cup Adds \cup Removes \cup Clears

\* The places a call reads and writes are in the array it holds.
InRange(c) ==
  /\ c.op = "grow" => c.s = length /\ c.i <= c.s
  /\ c.op \in {"add", "added"} => c.s < length
  /\ c.op \in Adds => c.x \in Item
  /\ c.op \in {"remove", "fill"} => c.i = 0
  /\ c.op \in {"move", "removed"} => c.i < c.s /\ c.s <= c.a
  /\ c.op = "erase" => c.i <= c.s /\ c.s <= c.a

ListTypeOK ==
  /\ length \in Nat /\ (length = 0 \/ length >= MIN_CAPACITY_INCREMENT)
  /\ array \in [0..length - 1 -> Item \cup {Null}]
  /\ size \in 0..length
  /\ call \in [Threads -> [op : Ops, a : 0..length, s : Nat, i : Nat,
                           x : Item \cup {Null}]]
  /\ \A t \in Threads :
       /\ InRange(call[t])
       /\ At(t, "grow") => copy \in [0..Longer(length) - 1 -> Item \cup {Null}]
=============================================================================
