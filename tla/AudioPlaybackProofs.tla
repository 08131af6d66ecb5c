------------------------ MODULE AudioPlaybackProofs -------------------------
(***************************************************************************)
(* Proofs about AudioPlayback for every number of players, packets and     *)
(* clears, every length of the list's first array, and either codec:       *)
(* types, what is played after sound was switched off, what can throw, and *)
(* which packets are played in which order.                                *)
(***************************************************************************)
EXTENDS AudioPlayback, TLAPS

\* What AtMostOneMore needs to be inductive: nothing is late while sound is on,
\* and a player that played late is on its way out of the loop.
LateInv ==
  /\ pc \in [Players -> Places] /\ late \in [Players -> Nat]
  /\ is_keep_running \in BOOLEAN
  /\ is_keep_running => \A g \in Players : late[g] = 0
  /\ \A g \in Players :
       /\ late[g] <= 1
       /\ late[g] = 1 => pc[g] \in {"drop", "loop", "ended"}

\* The first state.
LEMMA InitLate == Init => LateInv
<1> SUFFICES ASSUME Init PROVE LateInv
  OBVIOUS
<1>1. is_keep_running \in BOOLEAN
  BY DEF Init
<1>2. pc = [g \in Players |-> "new"] /\ late = [g \in Players |-> 0]
  BY DEF Init
<1> QED BY <1>1, <1>2 DEF LateInv, Places

\* Only the player itself moves it, and the history of late packets changes
\* with Play and SwitchOn only.
LEMMA StepLate == LateInv /\ [Next]_vars => LateInv'
<1> SUFFICES ASSUME LateInv, [Next]_vars PROVE LateInv'
  OBVIOUS
<1> USE DEF LateInv, Places
<1>1. CASE Arrive
  BY <1>1 DEF Arrive, player, view
<1>2. ASSUME NEW g \in Players, SwitchOn(g) PROVE LateInv'
  BY <1>2 DEF SwitchOn
<1>3. CASE SwitchOff
  BY <1>3 DEF SwitchOff, player
<1>4. CASE StopCam \/ StartCam \/ ClearList
  <2>1. is_keep_running' \in BOOLEAN /\ (is_keep_running' => is_keep_running)
    <3>1. CASE StopCam
      <4>1. CASE soundPlay = NoPlayer
        BY <3>1, <4>1 DEF StopCam
      <4>2. CASE soundPlay # NoPlayer
        BY <3>1, <4>2 DEF StopCam
      <4> QED BY <4>1, <4>2
    <3>2. CASE StartCam \/ ClearList
      BY <3>2 DEF StartCam, ClearList
    <3> QED BY <1>4, <3>1, <3>2
  <2>2. UNCHANGED <<pc, late>>
    BY <1>4 DEF StopCam, StartCam, ClearList, player
  <2> QED BY <2>1, <2>2 DEF LateInv
<1>5. ASSUME NEW g \in Players, PlayerStep(g) PROVE LateInv'
  <2>1. CASE WaitFirst(g) \/ Refill(g)
    BY <2>1 DEF WaitFirst, Refill, WaitLoop, PlayerAt, Go
  <2>2. CASE Loop(g)
    BY <2>2 DEF Loop, PlayerAt, Go
  <2>3. CASE Check(g) \/ Peek(g) \/ Look(g) \/ Take(g) \/ Read(g)
    <3>1. UNCHANGED <<late, is_keep_running>>
      BY <2>3 DEF Check, Peek, Look, Take, Read
    <3>2. late[g] = 0
      <4>1. pc[g] \notin {"drop", "loop", "ended"}
        BY <2>3 DEF Check, Peek, Look, Take, Read, PlayerAt
      <4> QED BY <4>1
    <3>3. \E p \in Places : pc' = [pc EXCEPT ![g] = p]
      <4>1. CASE Check(g) BY <4>1 DEF Check, Go
      <4>2. CASE Peek(g) BY <4>2 DEF Peek, Go
      <4>3. CASE Look(g) BY <4>3 DEF Look, Go
      <4>4. CASE Take(g) BY <4>4 DEF Take, Go
      <4>5. CASE Read(g) BY <4>5 DEF Read, Go
      <4> QED BY <2>3, <4>1, <4>2, <4>3, <4>4, <4>5
    <3> QED BY <3>1, <3>2, <3>3
  <2>4. CASE Play(g)
    BY <2>4 DEF Play, PlayerAt, Go
  <2>5. CASE Drop(g)
    BY <2>5 DEF Drop, PlayerAt, Go
  <2> QED BY <1>5, <2>1, <2>2, <2>3, <2>4, <2>5 DEF PlayerStep
<1>6. ASSUME NEW t \in Threads, InList(t) PROVE LateInv'
  BY <1>6 DEF InList, player
<1>7. CASE UNCHANGED vars
  BY <1>7 DEF vars, player
<1> QED BY <1>1, <1>2, <1>3, <1>4, <1>5, <1>6, <1>7 DEF Next

\* After sound is switched off no player plays more than the one packet it is
\* about to play (SoundPlay.run, adpcmPlay and WriteAudio.run test
\* is_keep_running once per packet), however many players there are.
THEOREM AtMostOneMoreHolds == Spec => []AtMostOneMore
<1>1. LateInv => AtMostOneMore
  BY DEF LateInv, AtMostOneMore
<1> QED BY InitLate, StepLate, <1>1, PTL DEF Spec

-----------------------------------------------------------------------------
-----------------------------------------------------------------------------
\* Each step inside the list, by what it does to the calls, the places, the
\* array and size.

Index == 0..length - 1
Untouched(t) == \A u \in Threads : u # t => call'[u] = call[u]
OtherPlaces(i) == \A j \in Index : j # i => array'[j] = array[j]
Call == [op : Ops, a : 0..length, s : Nat, i : Nat, x : Item \cup {Null}]

\* The threads: players, the network's and the user interface's.
LEMMA ThreadsDiffer ==
  /\ Net \in Threads /\ Ui \in Threads /\ Players \subseteq Threads /\ Net # Ui
  /\ Net \notin Players /\ Ui \notin Players
  /\ \A t \in Threads : t = Net \/ t = Ui \/ t \in Players
BY PlaybackAssumption

\* A longer array has room for one more, and the first has its least length.
LEMMA LongerIsLonger ==
  ASSUME ListTypeOK
  PROVE  Longer(length) \in Nat /\ length < Longer(length) /\ MIN_CAPACITY_INCREMENT <= Longer(length)
<1>1. MIN_CAPACITY_INCREMENT \in Nat /\ MIN_CAPACITY_INCREMENT > 1 /\ length \in Nat
  BY SharedListAssumption DEF ListTypeOK
<1>2. PICK h \in Nat : h = MIN_CAPACITY_INCREMENT \div 2 /\ 0 < h
  BY <1>1
<1>3. PICK k \in Nat : k = length \div 2 /\ (length > 1 => 0 < k)
  BY <1>1
<1> QED BY <1>1, <1>2, <1>3 DEF ListTypeOK, Longer

\* A call is a record of its fields.
LEMMA CallTyped ==
  ASSUME ListTypeOK, NEW t \in Threads
  PROVE  call[t] \in Call /\ call[t].a \in 0..length /\ call[t].s \in Nat /\ call[t].i \in Nat
         /\ call[t].x \in Item \cup {Null} /\ size \in Nat /\ size <= length /\ length \in Nat
         /\ InRange(call[t])
BY DEF ListTypeOK, Call

\* One call changes.
LEMMA CallChanges ==
  ASSUME ListTypeOK, NEW t \in Threads, NEW c, call' = [call EXCEPT ![t] = c]
  PROVE  call'[t] = c /\ Untouched(t)
BY DEF ListTypeOK, Untouched

\* ... and the others keep their types, if the array gets no shorter.
LEMMA CallKeeps ==
  ASSUME ListTypeOK, CallsOK, NEW t \in Threads, NEW c \in Call', call' = [call EXCEPT ![t] = c],
         length' \in Nat, length <= length', length' = length \/ t = Net,
         length' = 0 \/ length' >= MIN_CAPACITY_INCREMENT,
         array' \in [0..length' - 1 -> Item \cup {Null}], size' \in 0..length',
         InRange(c)', t # Net => copy' = copy,
         c.op = "grow" => copy' \in [0..Longer(length') - 1 -> Item \cup {Null}],
         c.op \in Adds => t = Net, c.op \in Removes => t \in Players, c.op \in Clears => t = Ui
  PROVE  ListTypeOK' /\ CallsOK' /\ (t # Net /\ Free(Net) => Free(Net)')
<1> USE ThreadsDiffer
<1>1. call'[t] = c /\ Untouched(t)
  BY CallChanges
<1>2. call' \in [Threads -> Call']
  <2>1. \A u \in Threads : call[u] \in Call'
    BY SMTT(30) DEF ListTypeOK, Call
  <2> QED BY <2>1 DEF ListTypeOK
<1>3. CallsOK'
  BY <1>1 DEF CallsOK, Untouched
<1>4. ASSUME NEW u \in Threads PROVE InRange(call[u])'
  <2>1. CASE u = t
    BY <1>1, <2>1 DEF InRange
  <2>2. CASE u # t
    <3>1. call'[u] = call[u] /\ InRange(call[u])
      BY <1>1, <2>2 DEF ListTypeOK, Untouched
    <3>2. CASE length' = length
      BY <3>1, <3>2 DEF InRange
    <3>3. CASE t = Net
      BY <2>2, <3>1, <3>3 DEF InRange, CallsOK, Adds
    <3> QED BY <3>2, <3>3
  <2> QED BY <2>1, <2>2
<1>5. ASSUME NEW u \in Threads, At(u, "grow")'
      PROVE  copy' \in [0..Longer(length') - 1 -> Item \cup {Null}]
  <2>1. u = Net
    BY <1>3, <1>5 DEF CallsOK, At, Adds
  <2>2. CASE t = Net
    BY <1>1, <1>5, <2>1, <2>2 DEF At
  <2>3. CASE t # Net
    BY <1>1, <1>5, <2>1, <2>3 DEF At, Untouched, ListTypeOK
  <2> QED BY <2>2, <2>3
<1>6. t # Net /\ Free(Net) => Free(Net)'
  BY <1>1 DEF Free, Untouched
<1> QED BY <1>2, <1>3, <1>4, <1>5, <1>6 DEF ListTypeOK, Call, Longer

\* A call begins with the array and the length as they are read.
LEMMA EnterMeans ==
  ASSUME ListTypeOK, NEW t \in Threads, NEW op, NEW s, NEW x, Enter(t, op, s, x)
  PROVE  /\ call'[t].op = op /\ call'[t].a = length /\ call'[t].s = s /\ call'[t].i = 0
         /\ call'[t].x = x /\ Untouched(t)
BY DEF ListTypeOK, Enter, Untouched

\* A call is over.
LEMMA LeaveMeans ==
  ASSUME ListTypeOK, NEW t \in Threads, Leave(t)
  PROVE  call'[t] = NoCall /\ Untouched(t)
BY DEF ListTypeOK, Leave, Untouched

\* A write to the array the call holds changes that place or, if the array
\* was replaced, nothing.
LEMMA PutMeans ==
  ASSUME ListTypeOK, NEW t \in Threads, NEW i \in Index, NEW v, Put(t, i, v)
  PROVE  /\ OtherPlaces(i) /\ (array'[i] = v \/ array'[i] = array[i])
         /\ (call[t].a = length => array'[i] = v)
         /\ (call[t].a # length => array' = array)
         /\ (v \in Item \cup {Null} => array' \in [Index -> Item \cup {Null}])
BY DEF ListTypeOK, Put, OtherPlaces, Index

\* add() begins: it stores where size is, after growing the array if it is full.
LEMMA AddMeans ==
  ASSUME ListTypeOK, NEW t \in Threads, NEW x, Add(t, x)
  PROVE  /\ Free(t) /\ call'[t].op \in {"grow", "add"} /\ call'[t].s = size /\ call'[t].i = 0
         /\ call'[t].x = x /\ call'[t].a = length /\ Untouched(t)
         /\ UNCHANGED <<array, length, size>>
         /\ (call'[t].op = "grow" => size = length /\ copy' = Nulls(Longer(length)))
         /\ (call'[t].op = "add" => size < length)
<1>1. CASE size = length
  BY <1>1, EnterMeans DEF Add
<1>2. CASE size # length
  BY <1>2, EnterMeans, CallTyped DEF Add
<1> QED BY <1>1, <1>2

\* Entering a call.
LEMMA EnterList ==
  ASSUME ListTypeOK, CallsOK, NEW t \in Threads,
         \/ t = Net /\ \E x \in Item : Add(t, x)
         \/ t \in Players /\ RemoveFirst(t)
         \/ t = Ui /\ Clear(t)
  PROVE  ListTypeOK' /\ CallsOK' /\ (t # Net /\ Free(Net) => Free(Net)') /\ length' = length
<1> USE ThreadsDiffer
<1>0. /\ length \in Nat /\ size \in 0..length /\ (length = 0 \/ length >= MIN_CAPACITY_INCREMENT)
      /\ array \in [0..length - 1 -> Item \cup {Null}] /\ length <= length
  BY DEF ListTypeOK
<1>1. CASE t = Net /\ \E x \in Item : Add(t, x)
  <2>1. PICK x \in Item : Add(t, x)
    BY <1>1
  <2>2. UNCHANGED <<array, length, size>>
    BY <2>1, AddMeans
  <2>3. CASE size = length
    <3>0. PICK c : c = [op |-> "grow", a |-> length, s |-> size, i |-> 0, x |-> x]
      OBVIOUS
    <3>1. call' = [call EXCEPT ![t] = c] /\ copy' = Nulls(Longer(length))
      BY <2>1, <2>3, <3>0 DEF Add, Enter
    <3>2. c \in Call' /\ InRange(c)'
      BY <1>0, <2>2, <2>3, <3>0 DEF Call, InRange, Ops, Adds
    <3>3. copy' \in [0..Longer(length') - 1 -> Item \cup {Null}]
      BY <2>2, <3>1 DEF Nulls
    <3>4. c.op \in Adds /\ c.op \notin Removes /\ c.op \notin Clears
      BY <3>0 DEF Adds, Removes, Clears
    <3> QED BY <1>0, <1>1, <2>2, <3>1, <3>2, <3>3, <3>4, CallKeeps
  <2>4. CASE size # length
    <3>0. PICK c : c = [op |-> "add", a |-> length, s |-> size, i |-> 0, x |-> x]
      OBVIOUS
    <3>1. call' = [call EXCEPT ![t] = c]
      BY <2>1, <2>4, <3>0 DEF Add, Enter
    <3>2. c \in Call' /\ InRange(c)'
      BY <1>0, <2>2, <2>4, <3>0 DEF Call, InRange, Ops, Adds
    <3>3. c.op \in Adds /\ c.op \notin Removes /\ c.op \notin Clears /\ c.op # "grow"
      BY <3>0 DEF Adds, Removes, Clears
    <3> QED BY <1>0, <1>1, <2>2, <3>1, <3>2, <3>3, CallKeeps
  <2> QED BY <2>3, <2>4
<1>2. ASSUME NEW op \in {"remove", "clear"}, Enter(t, op, 0, Null),
             UNCHANGED <<array, length, size, copy>>,
             op = "remove" => t \in Players, op = "clear" => t = Ui
      PROVE  ListTypeOK' /\ CallsOK' /\ (t # Net /\ Free(Net) => Free(Net)')
  <2>0. PICK c : c = [op |-> op, a |-> length, s |-> 0, i |-> 0, x |-> Null]
    OBVIOUS
  <2>1. call' = [call EXCEPT ![t] = c]
    BY <1>2, <2>0 DEF Enter
  <2>2. c \in Call' /\ InRange(c)'
    BY <1>0, <1>2, <2>0 DEF Call, InRange, Ops, Adds, Removes, Clears
  <2>3. /\ c.op \notin Adds /\ c.op # "grow" /\ (c.op \in Removes => c.op = "remove")
        /\ (c.op \in Clears => c.op = "clear") /\ c.op = op
    BY <1>2, <2>0 DEF Adds, Removes, Clears
  <2> QED BY <1>0, <1>2, <2>1, <2>2, <2>3, CallKeeps
<1>3. CASE t \in Players /\ RemoveFirst(t)
  BY <1>2, <1>3 DEF RemoveFirst
<1>4. CASE t = Ui /\ Clear(t)
  BY <1>2, <1>4 DEF Clear
<1> QED BY <1>1, <1>3, <1>4

\* A growing add() copies one more place ...
LEMMA CopyMeans ==
  ASSUME ListTypeOK, CallsOK, NEW t \in Threads, Copy(t)
  PROVE  /\ t = Net /\ call[t].op = "grow" /\ call'[t] = [call[t] EXCEPT !.i = call[t].i + 1]
         /\ call[t].s = length /\ call[t].i < length
         /\ call[t].i \in Index /\ Untouched(t) /\ UNCHANGED <<array, length, size>>
         /\ copy \in [0..Longer(length) - 1 -> Item \cup {Null}]
         /\ copy' = [copy EXCEPT ![call[t].i] = array[call[t].i]]
<1>0. call[t].op = "grow" /\ call[t].i < call[t].s /\ call[t].s = length
  BY DEF Copy, At, ListTypeOK, InRange
<1>1. t = Net /\ copy \in [0..Longer(length) - 1 -> Item \cup {Null}]
  BY <1>0 DEF CallsOK, Adds, ListTypeOK, At
<1>2. call[t].i \in Index
  BY <1>0, CallTyped DEF Index
<1>3. PICK c : c = [call[t] EXCEPT !.i = call[t].i + 1]
  OBVIOUS
<1>4. call' = [call EXCEPT ![t] = c]
  BY <1>3 DEF Copy
<1>5. /\ UNCHANGED <<array, length, size>>
      /\ copy' = [copy EXCEPT ![call[t].i] = array[call[t].i]]
  BY DEF Copy
<1>6. call'[t] = c /\ Untouched(t)
  BY <1>4, CallChanges
<1> QED BY <1>0, <1>1, <1>2, <1>3, <1>5, <1>6

\* ... and then the copy takes the array's place ...
LEMMA ReplaceMeans ==
  ASSUME ListTypeOK, CallsOK, NEW t \in Threads, Replace(t)
  PROVE  /\ t = Net /\ call[t].op = "grow" /\ call'[t] = [call[t] EXCEPT !.op = "add"]
         /\ call[t].s = length /\ call[t].i = length
         /\ Untouched(t) /\ size' = size
         /\ array' = copy /\ length' = Longer(length) /\ copy \in [Index' -> Item \cup {Null}]
<1>0. call[t].op = "grow" /\ call[t].i = call[t].s /\ call[t].s = length
  BY DEF Replace, At, ListTypeOK, InRange
<1>1. t = Net /\ copy \in [0..Longer(length) - 1 -> Item \cup {Null}]
  BY <1>0 DEF CallsOK, Adds, ListTypeOK, At
<1>3. PICK c : c = [call[t] EXCEPT !.op = "add"]
  OBVIOUS
<1>4. call' = [call EXCEPT ![t] = c]
  BY <1>3 DEF Replace
<1> QED BY <1>0, <1>1, <1>3, <1>4, CallChanges DEF Replace, Index

\* ... add() stores its packet where size was when it began ...
LEMMA StoreMeans ==
  ASSUME ListTypeOK, CallsOK, NEW t \in Threads, Store(t)
  PROVE  /\ t = Net /\ call[t].op = "add" /\ call'[t] = [call[t] EXCEPT !.op = "added"]
         /\ call'[t].s = call[t].s /\ call'[t].x = call[t].x
         /\ Untouched(t) /\ UNCHANGED <<length, size, copy>> /\ OtherPlaces(call[t].s)
         /\ call[t].s \in Index /\ array'[call[t].s] = call[t].x
         /\ call[t].x \in Item /\ array' \in [Index -> Item \cup {Null}]
<1>0. call[t].op = "add" /\ call[t].s < length /\ call[t].x \in Item
  BY DEF Store, At, ListTypeOK, InRange, Adds
<1>1. t = Net
  BY <1>0 DEF CallsOK, Adds
<1>2. call[t].s \in Index
  BY <1>0, CallTyped DEF Index
<1>3. PICK c : c = [call[t] EXCEPT !.op = "added"]
  OBVIOUS
<1>4. call' = [call EXCEPT ![t] = c]
  BY <1>3 DEF Store
<1>5. c.s = call[t].s /\ c.x = call[t].x
  BY <1>3, CallTyped DEF Call
<1>6. array' = [array EXCEPT ![call[t].s] = call[t].x] /\ UNCHANGED <<length, size, copy>>
  BY DEF Store
<1>7. /\ OtherPlaces(call[t].s) /\ array'[call[t].s] = call[t].x
      /\ array' \in [Index -> Item \cup {Null}]
  BY <1>0, <1>2, <1>6 DEF ListTypeOK, OtherPlaces, Index
<1> QED BY <1>0, <1>1, <1>2, <1>3, <1>4, <1>5, <1>6, <1>7, CallChanges

\* ... and writes size from that.
LEMMA AddedMeans ==
  ASSUME ListTypeOK, CallsOK, NEW t \in Threads, Added(t)
  PROVE  /\ t = Net /\ call[t].op = "added" /\ call'[t] = NoCall /\ Untouched(t)
         /\ size' = call[t].s + 1 /\ UNCHANGED <<array, length, copy>> /\ call[t].s \in Index
<1>0. call[t].op = "added" /\ call[t].s < length
  BY DEF Added, At, ListTypeOK, InRange
<1>1. t = Net
  BY <1>0 DEF CallsOK, Adds
<1>2. call[t].s \in Index
  BY <1>0, CallTyped DEF Index
<1> QED BY <1>0, <1>1, <1>2, LeaveMeans DEF Added

\* remove(0) reads size, and is over if that is not in its array ...
LEMMA RemoveSizeMeans ==
  ASSUME ListTypeOK, CallsOK, NEW t \in Threads, RemoveSize(t)
  PROVE  /\ t \in Players /\ call[t].op = "remove" /\ call[t].i = 0 /\ Untouched(t)
         /\ UNCHANGED <<array, length, size, copy>>
         /\ \/ call'[t] = NoCall /\ (size = 0 \/ size > call[t].a)
            \/ /\ call'[t] = [call[t] EXCEPT !.op = "move", !.s = size]
               /\ call'[t].op = "move" /\ call'[t].i = 0 /\ call'[t].s = size
               /\ call'[t].a = call[t].a /\ 0 < size /\ size <= call[t].a
<1>0. call[t].op = "remove" /\ call[t].i = 0
  BY DEF RemoveSize, At, ListTypeOK, InRange
<1>1. t \in Players
  BY <1>0 DEF CallsOK, Removes
<1>2. CASE size = 0 \/ size > call[t].a
  BY <1>0, <1>1, <1>2, LeaveMeans DEF RemoveSize
<1>3. CASE ~(size = 0 \/ size > call[t].a)
  <2>1. PICK c : c = [call[t] EXCEPT !.op = "move", !.s = size]
    OBVIOUS
  <2>2. call' = [call EXCEPT ![t] = c] /\ UNCHANGED <<array, length, size, copy>>
    BY <1>3, <2>1 DEF RemoveSize, ListTypeOK
  <2>3. c.op = "move" /\ c.i = 0 /\ c.s = size /\ c.a = call[t].a
    BY <1>0, <2>1, CallTyped DEF Call
  <2>4. 0 < size /\ size <= call[t].a
    BY <1>3, CallTyped
  <2> QED BY <1>0, <1>1, <2>1, <2>2, <2>3, <2>4, CallChanges
<1> QED BY <1>2, <1>3

\* ... moves the next packet one place down ...
LEMMA MoveMeans ==
  ASSUME ListTypeOK, CallsOK, NEW t \in Threads, Move(t)
  PROVE  /\ t \in Players /\ call[t].op = "move" /\ call'[t] = [call[t] EXCEPT !.i = call[t].i + 1]
         /\ call'[t].op = "move" /\ call'[t].s = call[t].s /\ call'[t].i = call[t].i + 1
         /\ call'[t].a = call[t].a
         /\ Untouched(t) /\ UNCHANGED <<length, size, copy>> /\ OtherPlaces(call[t].i)
         /\ call[t].i \in Index /\ call[t].i + 1 \in Index /\ call[t].i + 1 < call[t].s
         /\ (call[t].a = length => array'[call[t].i] = array[call[t].i + 1])
         /\ (call[t].a # length => array' = array)
         /\ array' \in [Index -> Item \cup {Null}]
<1>0. call[t].op = "move" /\ call[t].i < call[t].s - 1 /\ call[t].s <= call[t].a
  BY DEF Move, At, ListTypeOK, InRange
<1>1. t \in Players
  BY <1>0 DEF CallsOK, Removes
<1>2. call[t].i \in Index /\ call[t].i + 1 \in Index /\ call[t].i + 1 < call[t].s
  BY <1>0, CallTyped DEF Index
<1>3. PICK c : c = [call[t] EXCEPT !.i = call[t].i + 1]
  OBVIOUS
<1>4. call' = [call EXCEPT ![t] = c] /\ UNCHANGED <<length, size, copy>>
  BY <1>3 DEF Move
<1>5. c.op = "move" /\ c.s = call[t].s /\ c.i = call[t].i + 1 /\ c.a = call[t].a
  BY <1>0, <1>3, CallTyped DEF Call
<1>6. array[call[t].i + 1] \in Item \cup {Null}
  BY <1>2 DEF ListTypeOK, Index
<1>7. Put(t, call[t].i, array[call[t].i + 1])
  BY DEF Move
<1>8. /\ OtherPlaces(call[t].i) /\ array' \in [Index -> Item \cup {Null}]
      /\ (call[t].a = length => array'[call[t].i] = array[call[t].i + 1])
      /\ (call[t].a # length => array' = array)
  BY <1>2, <1>6, <1>7, PutMeans
<1> QED BY <1>0, <1>1, <1>2, <1>3, <1>4, <1>5, <1>8, CallChanges

\* ... nulls the last place ...
LEMMA DropLastMeans ==
  ASSUME ListTypeOK, CallsOK, NEW t \in Threads, DropLast(t)
  PROVE  /\ t \in Players /\ call[t].op = "move" /\ call'[t] = [call[t] EXCEPT !.op = "removed"]
         /\ call'[t].op = "removed" /\ call'[t].s = call[t].s /\ call'[t].i = call[t].i
         /\ call'[t].a = call[t].a
         /\ Untouched(t) /\ UNCHANGED <<length, size, copy>> /\ OtherPlaces(call[t].i)
         /\ call[t].i \in Index /\ call[t].i = call[t].s - 1
         /\ (call[t].a = length => array'[call[t].i] = Null)
         /\ (array'[call[t].i] = Null \/ array'[call[t].i] = array[call[t].i])
         /\ array' \in [Index -> Item \cup {Null}]
<1>0. call[t].op = "move" /\ call[t].i = call[t].s - 1 /\ call[t].s <= call[t].a
  BY DEF DropLast, At, ListTypeOK, InRange
<1>1. t \in Players
  BY <1>0 DEF CallsOK, Removes
<1>2. call[t].i \in Index
  BY <1>0, CallTyped DEF Index
<1>3. PICK c : c = [call[t] EXCEPT !.op = "removed"]
  OBVIOUS
<1>4. call' = [call EXCEPT ![t] = c] /\ UNCHANGED <<length, size, copy>>
  BY <1>3 DEF DropLast
<1>5. c.op = "removed" /\ c.s = call[t].s /\ c.i = call[t].i /\ c.a = call[t].a
  BY <1>0, <1>3, CallTyped DEF Call
<1>7. Put(t, call[t].i, Null)
  BY DEF DropLast
<1>8. /\ OtherPlaces(call[t].i) /\ array' \in [Index -> Item \cup {Null}]
      /\ (call[t].a = length => array'[call[t].i] = Null)
      /\ (array'[call[t].i] = Null \/ array'[call[t].i] = array[call[t].i])
  BY <1>2, <1>7, PutMeans
<1> QED BY <1>0, <1>1, <1>2, <1>3, <1>4, <1>5, <1>8, CallChanges

\* ... and writes size.
LEMMA RemovedMeans ==
  ASSUME ListTypeOK, CallsOK, NEW t \in Threads, Removed(t)
  PROVE  /\ t \in Players /\ call[t].op = "removed" /\ call'[t] = NoCall /\ Untouched(t)
         /\ size' = call[t].s - 1 /\ UNCHANGED <<array, length, copy>>
         /\ 0 < call[t].s /\ call[t].s <= length
<1>0. call[t].op = "removed" /\ call[t].i < call[t].s /\ call[t].s <= call[t].a
  BY DEF Removed, At, ListTypeOK, InRange
<1>1. t \in Players
  BY <1>0 DEF CallsOK, Removes
<1>2. 0 < call[t].s /\ call[t].s <= length
  BY <1>0, CallTyped
<1> QED BY <1>0, <1>1, <1>2, LeaveMeans DEF Removed

\* clear() only nulls places and, in the end, makes size 0.
LEMMA ClearMeans ==
  ASSUME ListTypeOK, CallsOK, NEW t \in Threads,
         ClearArray(t) \/ ClearSize(t) \/ Erase(t) \/ Cleared(t)
  PROVE  /\ t = Ui /\ ~Free(t) /\ Untouched(t) /\ UNCHANGED <<length, copy>>
         /\ (size' = size \/ size' = 0) /\ array' \in [Index -> Item \cup {Null}]
         /\ \A i \in Index : array'[i] = array[i] \/ array'[i] = Null
<1>0. /\ call[t].op \in {"clear", "fill", "erase"}
      /\ array \in [Index -> Item \cup {Null}]
  BY DEF ClearArray, ClearSize, Erase, Cleared, At, ListTypeOK, Index
<1>1. t = Ui /\ ~Free(t)
  BY <1>0 DEF CallsOK, Clears, Free
<1>2. CASE ClearArray(t)
  BY <1>0, <1>1, <1>2, EnterMeans DEF ClearArray
<1>3. CASE ClearSize(t)
  <2>1. PICK c : call' = [call EXCEPT ![t] = c]
    BY <1>3 DEF ClearSize
  <2> QED BY <1>0, <1>1, <1>3, <2>1, CallChanges DEF ClearSize
<1>4. CASE Erase(t)
  <2>1. PICK c : call' = [call EXCEPT ![t] = c]
    BY <1>4 DEF Erase
  <2>2. call[t].i \in Index
    BY <1>4, CallTyped DEF Erase, At, InRange, Index
  <2>3. Put(t, call[t].i, Null) /\ UNCHANGED <<length, size, copy>>
    BY <1>4 DEF Erase
  <2>4. /\ array' \in [Index -> Item \cup {Null}]
        /\ \A i \in Index : array'[i] = array[i] \/ array'[i] = Null
    BY <2>2, <2>3, PutMeans DEF OtherPlaces
  <2> QED BY <1>1, <2>1, <2>3, <2>4, CallChanges
<1>5. CASE Cleared(t)
  BY <1>0, <1>1, <1>5, LeaveMeans DEF Cleared
<1> QED BY <1>2, <1>3, <1>4, <1>5

-----------------------------------------------------------------------------
\* Type correctness.

\* Nobody plays, nobody is in the list.
LEMMA InitType == Init => TypeOK
<1> SUFFICES ASSUME Init PROVE TypeOK
  OBVIOUS
<1> USE PlaybackAssumption, SharedListAssumption DEF Init, ListInit
<1>1. ListTypeOK
  <2>1. array \in [0..length - 1 -> Item \cup {Null}] /\ length = 0 /\ size \in 0..length
    BY DEF Nulls
  <2>2. call \in [Threads -> [op : Ops, a : 0..length, s : Nat, i : Nat, x : Item \cup {Null}]]
    BY DEF NoCall, Ops
  <2>3. \A t \in Threads : InRange(call[t]) /\ ~At(t, "grow")
    BY DEF NoCall, InRange, Adds, At
  <2> QED BY <2>1, <2>2, <2>3 DEF ListTypeOK
<1>2. \A t \in Threads : call[t].op = "none"
  BY DEF NoCall
<1>3. played \in Seq(Item) /\ CallsOK
  BY <1>2 DEF CallsOK, Adds, Removes, Clears
<1>4. /\ Free(Net) /\ is_keep_running \in BOOLEAN /\ isSound \in BOOLEAN
      /\ toClear \in BOOLEAN /\ torn \in BOOLEAN
  BY <1>2 DEF Free
<1>5. /\ pc \in [Players -> Places] /\ \A g \in Players : pc[g] = "new"
      /\ m_out_bytes \in [Players -> Item \cup {Null}]
      /\ late \in [Players -> Nat]
  BY DEF Places
<1>6. /\ came \in 0..MaxPackets /\ clears \in 0..MaxClears 
      /\ soundPlay \in Players \cup {NoPlayer} /\ raced \subseteq Item
  OBVIOUS
<1>7. isAdpcm \in BOOLEAN
  OBVIOUS
<1> QED BY <1>1, <1>2, <1>3, <1>4, <1>5, <1>6, <1>7 DEF TypeOK

\* Every later step of a call keeps the list's part of the type invariant, and
\* who may be in which call.
LEMMA ContinueList ==
  ASSUME ListTypeOK, CallsOK, NEW t \in Threads, Continue(t)
  PROVE  ListTypeOK' /\ CallsOK' /\ (Free(Net) => Free(Net)') /\ length <= length'
<1> USE ThreadsDiffer
<1>0. /\ length \in Nat /\ size \in 0..length /\ (length = 0 \/ length >= MIN_CAPACITY_INCREMENT)
      /\ array \in [0..length - 1 -> Item \cup {Null}] /\ length <= length
      /\ \A u \in Threads : ~Free(u) => u = t \/ u # t
  BY DEF ListTypeOK
<1>1. call[t] \in Call /\ InRange(call[t])
  BY CallTyped
<1>2. ~Free(t)
  BY DEF Continue, Copy, Replace, Store, Added, RemoveSize, Move, DropLast, Removed,
         ClearArray, ClearSize, Erase, Cleared, At, Free
<1>3. SUFFICES ListTypeOK' /\ CallsOK' /\ (t # Net /\ Free(Net) => Free(Net)') /\ length <= length'
  BY <1>2
<1> DEFINE Fits(c) == /\ c.op \in Adds => t = Net
                      /\ c.op \in Removes => t \in Players
                      /\ c.op \in Clears => t = Ui
<1>4. CASE Copy(t)
  <2>0. PICK c : c = [call[t] EXCEPT !.i = call[t].i + 1]
    OBVIOUS
  <2>1. call' = [call EXCEPT ![t] = c] /\ UNCHANGED <<array, length, size>> /\ t = Net
    BY <1>4, <2>0, CopyMeans DEF Copy
  <2>2. /\ call[t].op = "grow" /\ call[t].s = length /\ call[t].i < length
        /\ call[t].i \in 0..length - 1
        /\ copy \in [0..Longer(length) - 1 -> Item \cup {Null}]
        /\ copy' = [copy EXCEPT ![call[t].i] = array[call[t].i]]
    BY <1>4, CopyMeans DEF Index
  <2>3. c \in Call /\ InRange(c) /\ Fits(c)
    BY <1>0, <1>1, <2>0, <2>1, <2>2 DEF Call, InRange, Ops, Adds, Removes, Clears
  <2>4. c \in Call' /\ InRange(c)'
    BY <2>1, <2>3 DEF Call, InRange
  <2>5. copy' \in [0..Longer(length) - 1 -> Item \cup {Null}]
    <3>1. array[call[t].i] \in Item \cup {Null}
      BY <1>0, <2>2
    <3> QED BY <2>2, <3>1
  <2>6. Longer(length') = Longer(length)
    BY <2>1 DEF Longer
  <2> QED BY <1>0, <2>1, <2>3, <2>4, <2>5, <2>6, CallKeeps
<1>5. CASE Replace(t)
  <2>0. PICK c : c = [call[t] EXCEPT !.op = "add"]
    OBVIOUS
  <2>1. call' = [call EXCEPT ![t] = c] /\ size' = size /\ t = Net
    BY <1>5, <2>0, ReplaceMeans DEF Replace
  <2>2. /\ call[t].op = "grow" /\ call[t].s = length /\ length' = Longer(length)
        /\ array' \in [0..length' - 1 -> Item \cup {Null}]
    BY <1>5, ReplaceMeans DEF Index
  <2>3. length' \in Nat /\ length < length' /\ length' >= MIN_CAPACITY_INCREMENT
    BY <2>2, LongerIsLonger, SharedListAssumption
  <2>4. c \in Call' /\ InRange(c)' /\ Fits(c) /\ c.op # "grow"
    BY SMTT(30), <1>0, <1>1, <2>0, <2>1, <2>2, <2>3 DEF Call, InRange, Ops, Adds, Removes, Clears
  <2>5. size' \in 0..length' /\ length <= length'
    BY <1>0, <2>1, <2>3
  <2> QED BY <1>0, <2>1, <2>2, <2>3, <2>4, <2>5, CallKeeps
<1>6. CASE Store(t)
  <2>0. PICK c : c = [call[t] EXCEPT !.op = "added"]
    OBVIOUS
  <2>1. call' = [call EXCEPT ![t] = c] /\ UNCHANGED <<length, size, copy>> /\ t = Net
    BY <1>6, <2>0, StoreMeans DEF Store
  <2>2. call[t].op = "add" /\ array' \in [0..length' - 1 -> Item \cup {Null}]
    BY <1>6, <2>1, StoreMeans DEF Index
  <2>3. c \in Call' /\ InRange(c)' /\ Fits(c) /\ c.op # "grow"
    BY <1>0, <1>1, <2>0, <2>1, <2>2 DEF Call, InRange, Ops, Adds, Removes, Clears
  <2> QED BY <1>0, <2>1, <2>2, <2>3, CallKeeps
<1>7. CASE Added(t) \/ Removed(t) \/ Cleared(t)
  <2>0. PICK c : c = NoCall
    OBVIOUS
  <2>1. call' = [call EXCEPT ![t] = c] /\ UNCHANGED <<array, length, copy>>
    BY <1>7, <2>0 DEF Added, Removed, Cleared, Leave
  <2>2. size' \in 0..length'
    <3>1. CASE Added(t)
      BY <1>0, <2>1, <3>1, AddedMeans DEF Index
    <3>2. CASE Removed(t)
      BY <1>0, <1>1, <2>1, <3>2, RemovedMeans DEF Call
    <3>3. CASE Cleared(t)
      BY <1>0, <2>1, <3>3 DEF Cleared
    <3> QED BY <1>7, <3>1, <3>2, <3>3
  <2>3. c \in Call' /\ InRange(c)' /\ Fits(c) /\ c.op # "grow"
    BY <1>0, <2>0, <2>1 DEF NoCall, Call, InRange, Ops, Adds, Removes, Clears
  <2> QED BY <1>0, <2>1, <2>2, <2>3, CallKeeps
<1>8. CASE RemoveSize(t)
  <2>1. PICK c : c = IF size = 0 \/ size > call[t].a THEN NoCall
                     ELSE [call[t] EXCEPT !.op = "move", !.s = size]
    OBVIOUS
  <2>2. call' = [call EXCEPT ![t] = c] /\ UNCHANGED <<array, length, size, copy>>
    <3>1. CASE size = 0 \/ size > call[t].a
      BY <1>8, <2>1, <3>1 DEF RemoveSize, Leave
    <3>2. CASE ~(size = 0 \/ size > call[t].a)
      BY <1>8, <2>1, <3>2 DEF RemoveSize, ListTypeOK
    <3> QED BY <3>1, <3>2
  <2>3. t \in Players /\ call[t].i = 0
    BY <1>8, RemoveSizeMeans
  <2>4. c \in Call' /\ InRange(c)' /\ Fits(c) /\ c.op # "grow"
    <3>1. CASE size = 0 \/ size > call[t].a
      BY <1>0, <2>1, <2>2, <3>1 DEF NoCall, Call, InRange, Ops, Adds, Removes, Clears
    <3>2. CASE ~(size = 0 \/ size > call[t].a)
      <4>1. c = [call[t] EXCEPT !.op = "move", !.s = size]
        BY <2>1, <3>2
      <4>2. c.op = "move" /\ c.i = 0 /\ c.s = size /\ c.a = call[t].a /\ c.x = call[t].x
        BY <1>1, <2>3, <4>1 DEF Call
      <4>3. 0 < size /\ size <= call[t].a /\ size \in Nat
        BY <1>0, <3>2, CallTyped
      <4>4. c \in Call
        BY <1>1, <4>1, <4>3 DEF Call, Ops, Removes
      <4>5. c \in Call'
        BY <2>2, <4>4 DEF Call
      <4> QED BY <2>3, <4>2, <4>3, <4>5 DEF InRange, Adds, Removes, Clears
    <3> QED BY <3>1, <3>2
  <2> QED BY <1>0, <2>2, <2>4, CallKeeps
<1>9. CASE Move(t)
  <2>0. PICK c : c = [call[t] EXCEPT !.i = call[t].i + 1]
    OBVIOUS
  <2>1. call' = [call EXCEPT ![t] = c] /\ UNCHANGED <<length, size, copy>> /\ t \in Players
    BY <1>9, <2>0, MoveMeans DEF Move
  <2>2. /\ call[t].op = "move" /\ array' \in [0..length' - 1 -> Item \cup {Null}]
        /\ call[t].i + 1 < call[t].s
    BY <1>9, <2>1, MoveMeans DEF Index
  <2>3. c \in Call' /\ InRange(c)' /\ Fits(c) /\ c.op # "grow"
    BY <1>0, <1>1, <2>0, <2>1, <2>2 DEF Call, InRange, Ops, Adds, Removes, Clears
  <2> QED BY <1>0, <2>1, <2>2, <2>3, CallKeeps
<1>10. CASE DropLast(t)
  <2>0. PICK c : c = [call[t] EXCEPT !.op = "removed"]
    OBVIOUS
  <2>1. call' = [call EXCEPT ![t] = c] /\ UNCHANGED <<length, size, copy>> /\ t \in Players
    BY <1>10, <2>0, DropLastMeans DEF DropLast
  <2>2. call[t].op = "move" /\ array' \in [0..length' - 1 -> Item \cup {Null}]
    BY <1>10, <2>1, DropLastMeans DEF Index
  <2>3. c \in Call' /\ InRange(c)' /\ Fits(c) /\ c.op # "grow"
    BY <1>0, <1>1, <2>0, <2>1, <2>2 DEF Call, InRange, Ops, Adds, Removes, Clears
  <2> QED BY <1>0, <2>1, <2>2, <2>3, CallKeeps
<1>11. CASE ClearArray(t) \/ ClearSize(t)
  <2>1. PICK c \in {[op |-> "fill", a |-> length, s |-> 0, i |-> 0, x |-> Null],
                    [call[t] EXCEPT !.op = "threw", !.s = size],
                    [call[t] EXCEPT !.op = "erase", !.s = size]} :
          /\ call' = [call EXCEPT ![t] = c] /\ (c.op = "erase" => size <= call[t].a)
    <3>1. CASE ClearArray(t)
      BY <3>1 DEF ClearArray, Enter
    <3>2. CASE ClearSize(t) /\ size > call[t].a
      BY <1>1, <3>2 DEF ClearSize, ListTypeOK, Call
    <3>3. CASE ClearSize(t) /\ ~(size > call[t].a)
      <4>1. call' = [call EXCEPT ![t] = [call[t] EXCEPT !.op = "erase", !.s = size]]
        BY <3>3 DEF ClearSize, ListTypeOK
      <4>2. size <= call[t].a
        BY <1>0, <1>1, <3>3 DEF Call
      <4> QED BY <4>1, <4>2
    <3> QED BY <1>11, <3>1, <3>2, <3>3
  <2>2. UNCHANGED <<array, length, size, copy>> /\ t = Ui
    BY <1>11, ClearMeans DEF ClearArray, ClearSize
  <2>3. ClearSize(t) => call[t].i = 0
    BY <1>1 DEF ClearSize, At, InRange
  <2>8. ASSUME NEW op \in {"threw", "erase"}, c = [call[t] EXCEPT !.op = op, !.s = size]
        PROVE  c \in Call /\ c.op = op /\ c.s = size /\ c.i = call[t].i /\ c.a = call[t].a
    <3>1. size \in Nat /\ op \in Ops
      BY <1>0 DEF Ops, Clears
    <3>2. c \in Call
      BY <1>1, <2>8, <3>1 DEF Call
    <3>3. c.op = op /\ c.s = size /\ c.i = call[t].i /\ c.a = call[t].a
      BY <1>1, <2>8 DEF Call
    <3> QED BY <3>2, <3>3
  <2>9. ASSUME c = [op |-> "fill", a |-> length, s |-> 0, i |-> 0, x |-> Null]
        PROVE  c \in Call /\ c.op = "fill" /\ c.i = 0
    BY <1>0, <2>9 DEF Call, Ops, Clears
  <2>4. c \in Call'
    <3>1. c \in Call
      BY <2>1, <2>8, <2>9
    <3> QED BY <2>2, <3>1 DEF Call
  <2>5. \/ c.op = "fill" /\ c.i = 0
        \/ c.op = "threw"
        \/ c.op = "erase" /\ c.s = size /\ c.i = call[t].i /\ c.a = call[t].a
    BY <2>1, <2>8, <2>9
  <2>6. c.op = "erase" => call[t].i = 0 /\ c.s = size /\ size <= c.a
    <3>1. ClearArray(t) => c.op = "fill"
      <4>1. ClearArray(t) => call'[t].op = "fill"
        BY EnterMeans DEF ClearArray
      <4> QED BY <2>1, <4>1, CallChanges
    <3> QED BY <1>11, <2>1, <2>3, <2>5, <3>1
  <2>7. InRange(c)' /\ Fits(c) /\ c.op # "grow"
    BY <1>0, <2>2, <2>5, <2>6 DEF InRange, Adds, Removes, Clears
  <2> QED BY <1>0, <2>1, <2>2, <2>4, <2>7, CallKeeps
<1>12. CASE Erase(t)
  <2>0. PICK c : c = [call[t] EXCEPT !.i = call[t].i + 1]
    OBVIOUS
  <2>1. call' = [call EXCEPT ![t] = c] /\ UNCHANGED <<length, size, copy>> /\ t = Ui
    BY <1>12, <2>0, ClearMeans DEF Erase
  <2>2. /\ call[t].op = "erase" /\ array' \in [0..length' - 1 -> Item \cup {Null}]
        /\ call[t].i < call[t].s
    BY <1>12, <2>1, ClearMeans DEF Index, Erase, At
  <2>3. c \in Call' /\ InRange(c)' /\ Fits(c) /\ c.op # "grow"
    BY <1>0, <1>1, <2>0, <2>1, <2>2 DEF Call, InRange, Ops, Adds, Removes, Clears
  <2> QED BY <1>0, <2>1, <2>2, <2>3, CallKeeps
<1> QED BY <1>4, <1>5, <1>6, <1>7, <1>8, <1>9, <1>10, <1>11, <1>12 DEF Continue

\* Every step keeps the type invariant.
LEMMA StepType == TypeOK /\ [Next]_vars => TypeOK'
<1> SUFFICES ASSUME TypeOK, [Next]_vars PROVE TypeOK'
  OBVIOUS
<1> DEFINE Rest ==
       /\ is_keep_running \in BOOLEAN
       /\ isSound \in BOOLEAN /\ soundPlay \in Players \cup {NoPlayer}
       /\ toClear \in BOOLEAN /\ clears \in 0..MaxClears
     PlayerOK ==
       /\ pc \in [Players -> Places]
       /\ m_out_bytes \in [Players -> Item \cup {Null}]
       /\ \A g \in Players : /\ pc[g] = "play" => m_out_bytes[g] \in Item
                             /\ pc[g] \in {"look", "read"} => length > 0
       /\ played \in Seq(Item) /\ late \in [Players -> Nat]
     ListOK == ListTypeOK /\ CallsOK /\ (~Free(Net) => came > 0)
     Came == came \in 0..MaxPackets
     Parts == ListOK /\ Came /\ Rest /\ PlayerOK
<1> USE PlaybackAssumption
<1>0. Parts /\ raced \subseteq Item /\ length \in Nat /\ size \in 0..length
  BY DEF TypeOK, ListTypeOK
<1>1. ASSUME UNCHANGED <<list, came>> PROVE ListOK'
  BY <1>0, <1>1 DEF list, ListTypeOK, InRange, CallsOK, Free, At, Longer
<1>2. ASSUME UNCHANGED player, length <= length', length' \in Nat PROVE PlayerOK'
  BY <1>0, <1>2 DEF player
<1>3. ASSUME Arrive PROVE Parts'
  <2>1. came + 1 \in Item
    BY <1>0, <1>3 DEF Arrive, Within
  <2>2. ListOK' /\ length' = length
    BY <1>0, <1>3, <2>1, EnterList, ThreadsDiffer DEF Arrive
  <2>3. PlayerOK'
    BY <1>0, <1>2, <1>3, <2>2 DEF Arrive
  <2> QED BY <1>0, <1>3, <2>1, <2>2, <2>3 DEF Arrive, view
<1>4. ASSUME NEW g \in Players, SwitchOn(g) PROVE Parts'
  <2>1. Came' /\ Rest' /\ ListOK'
    BY <1>0, <1>1, <1>4 DEF SwitchOn
  <2>2. PlayerOK'
    BY <1>0, <1>4 DEF SwitchOn, Places, list
  <2> QED BY <2>1, <2>2
<1>5. ASSUME SwitchOff PROVE Parts'
  <2>1. ListOK' /\ PlayerOK'
    BY <1>0, <1>1, <1>2, <1>5 DEF SwitchOff, list
  <2> QED BY <1>0, <1>5, <2>1 DEF SwitchOff
<1>6. ASSUME StopCam \/ StartCam PROVE Parts'
  <2>1. CASE StopCam
    <3>1. is_keep_running' \in BOOLEAN
      <4>1. CASE soundPlay = NoPlayer
        BY <1>0, <2>1, <4>1 DEF StopCam
      <4>2. CASE soundPlay # NoPlayer
        BY <2>1, <4>2 DEF StopCam
      <4> QED BY <4>1, <4>2
    <3>2. ListOK' /\ Came' /\ PlayerOK'
      BY <1>0, <1>1, <1>2, <2>1 DEF StopCam, list
    <3>3. UNCHANGED <<isSound, soundPlay>> /\ toClear' = TRUE /\ clears' \in 0..MaxClears
      BY <1>0, <2>1 DEF StopCam, Within
    <3> QED BY <1>0, <3>1, <3>2, <3>3
  <2>2. CASE StartCam
    BY <1>0, <1>1, <1>2, <2>2 DEF StartCam, Within, list
  <2> QED BY <1>6, <2>1, <2>2
<1>7. ASSUME ClearList PROVE Parts'
  <2>1. ListOK' /\ length' = length
    <3>1. CASE UNCHANGED list
      BY <1>1, <1>7, <3>1 DEF ClearList, list
    <3>2. CASE Clear(Ui)
      BY <1>0, <1>7, <3>2, EnterList, ThreadsDiffer DEF ClearList
    <3> QED BY <1>7, <3>1, <3>2 DEF ClearList
  <2>2. PlayerOK'
    BY <1>0, <1>2, <1>7, <2>1 DEF ClearList
  <2> QED BY <1>0, <1>7, <2>1, <2>2 DEF ClearList
<1>8. ASSUME NEW g \in Players, PlayerStep(g) PROVE Parts'
  <2>1. Came' /\ Rest'
    BY <1>0, <1>8 DEF PlayerStep, WaitFirst, Refill, WaitLoop, Loop, Check, Peek,
                     Look, Take, Read, Play, Drop, view
  <2>2. CASE Drop(g)
    <3>1. ListOK' /\ length' = length
      BY <1>0, <2>2, EnterList, ThreadsDiffer DEF Drop
    <3>2. PlayerOK'
      BY <1>0, <2>2, <3>1 DEF Drop, Go, Places
    <3> QED BY <2>1, <3>1, <3>2
  <2>3. CASE Play(g)
    <3>1. m_out_bytes[g] \in Item
      BY <1>0, <2>3 DEF Play, PlayerAt
    <3>2. played' \in Seq(Item) /\ late' \in [Players -> Nat]
      BY <1>0, <2>3, <3>1 DEF Play
    <3>3. PlayerOK'
      BY <1>0, <2>3, <3>2 DEF Play, Go, Places, list
    <3>4. ListOK'
      BY <1>1, <2>3 DEF Play
    <3> QED BY <2>1, <3>3, <3>4
  <2>4. CASE Read(g)
    <3>1. First # Null => First \in Item
      <4>1. 0 \in 0..length - 1
        BY <1>0, <2>4 DEF Read, PlayerAt
      <4> QED BY <1>0, <4>1 DEF ListTypeOK, First
    <3>2. PlayerOK'
      <4>1. CASE First = Null
        BY <1>0, <2>4, <4>1 DEF Read, Go, Places, list
      <4>2. CASE First # Null
        BY ZenonT(60), <1>0, <2>4, <3>1, <4>2 DEF Read, Go, Places, list
      <4> QED BY <4>1, <4>2
    <3> QED BY <1>1, <2>1, <2>4, <3>2 DEF Read
  <2>5. CASE WaitFirst(g) \/ Refill(g) \/ Loop(g) \/ Check(g) \/ Peek(g) \/ Look(g) \/ Take(g)
    <3>1. UNCHANGED <<list, m_out_bytes, played, late>>
      BY <2>5 DEF WaitFirst, Refill, WaitLoop, Loop, Check, Peek, Look, Take
    <3>2. \E p \in Places \ {"play"} : /\ pc' = [pc EXCEPT ![g] = p]
                                       /\ p \in {"look", "read"} => size > 0
      <4>1. CASE WaitFirst(g) BY <4>1 DEF WaitFirst, WaitLoop, Go, Places
      <4>2. CASE Refill(g) BY <4>2 DEF Refill, WaitLoop, Go, Places
      <4>3. CASE Loop(g)
        <5>1. \/ pc' = [pc EXCEPT ![g] = "ended"] \/ pc' = [pc EXCEPT ![g] = "refill"]
              \/ pc' = [pc EXCEPT ![g] = "check"]
          BY <4>3, Zenon DEF Loop, Go
        <5> QED BY <5>1 DEF Places
      <4>4. CASE Check(g)
        <5>1. \/ pc' = [pc EXCEPT ![g] = "loop"] \/ pc' = [pc EXCEPT ![g] = "peek"]
          BY <4>4 DEF Check, Go
        <5> QED BY <5>1 DEF Places
      <4>5. CASE Peek(g) \/ Take(g)
        <5>1. \/ pc' = [pc EXCEPT ![g] = "dead"]
              \/ size # 0 /\ pc' = [pc EXCEPT ![g] = "look"]
              \/ size # 0 /\ pc' = [pc EXCEPT ![g] = "read"]
          BY <4>5 DEF Peek, Take, Go
        <5> QED BY <1>0, <5>1 DEF Places
      <4>6. CASE Look(g)
        <5>1. \/ pc' = [pc EXCEPT ![g] = "take"] \/ pc' = [pc EXCEPT ![g] = "drop"]
              \/ pc' = [pc EXCEPT ![g] = "loop"]
          BY <4>6, Zenon DEF Look, Go
        <5> QED BY <5>1 DEF Places
      <4> QED BY <2>5, <4>1, <4>2, <4>3, <4>4, <4>5, <4>6
    <3>3. PlayerOK'
      BY <1>0, <3>1, <3>2 DEF list
    <3>4. ListOK'
      BY <1>1, <2>1, <2>5, <3>1 DEF WaitFirst, Refill, WaitLoop, Loop, Check, Peek, Look, Take
    <3> QED BY <2>1, <3>3, <3>4
  <2> QED BY <1>8, <2>2, <2>3, <2>4, <2>5 DEF PlayerStep
<1>9. ASSUME NEW t \in Threads, InList(t) PROVE Parts'
  <2>1. ListOK' /\ length <= length' /\ length' \in Nat
    BY <1>0, <1>9, ContinueList DEF InList, ListTypeOK
  <2>2. PlayerOK'
    BY <1>2, <1>9, <2>1 DEF InList
  <2> QED BY <1>0, <1>9, <2>1, <2>2 DEF InList, view
<1>10. ASSUME UNCHANGED vars PROVE TypeOK'
  BY <1>0, <1>1, <1>2, <1>10 DEF vars, view, list, TypeOK
<1>11. ASSUME Next PROVE TypeOK'
  <2>1. Parts'
    BY <1>11, <1>3, <1>4, <1>5, <1>6, <1>7, <1>8, <1>9 DEF Next
  <2>2. came' \in Item \/ Free(Net)'
    BY <2>1
  <2>3. raced' \subseteq Item
    BY <1>0, <1>11, <2>2 DEF Next, Remember, Overlap, Free
  <2>4. isAdpcm' \in BOOLEAN
    BY <1>11 DEF Next, TypeOK
  <2>5. torn' \in BOOLEAN
    BY <1>11 DEF Next, Remember
  <2> QED BY <2>1, <2>3, <2>4, <2>5 DEF TypeOK
<1> QED BY <1>10, <1>11

\* The type invariant of AudioPlayback and of the list it shares.
THEOREM TypeCorrect == Spec => []TypeOK
  BY InitType, StepType, PTL DEF Spec

\* No call reads or writes outside the array it holds, however often the
\* array is replaced under it, and players stop in time (SoundPlay.java:47-200).
THEOREM PlaybackIsSound == Spec => []PlaybackSafe
<1>1. TypeOK /\ AtMostOneMore => PlaybackSafe
  BY DEF PlaybackSafe
<1> QED BY <1>1, TypeCorrect, AtMostOneMoreHolds, PTL

-----------------------------------------------------------------------------
\* What happens inside the unlocked list while one player takes packets from it.

\* The player of a remove(0) that has read size.
Removing(g) == call[g].op \in {"move", "removed"}

\* The premises of what is proved: a lone player and no clear() and no torn
\* copy, or no overlap of an add() with another call at all.
Peace == OnePlayer /\ clears = 0 /\ ~torn
Quiet == OnePlayer /\ (raced = {} \/ (clears = 0 /\ ~torn))

\* Who is in a call, and of whose add() others know.
CallsInv ==
  /\ \A g \in Players : ~Free(g) => pc[g] = "loop"
  /\ clears = 0 => ~toClear /\ Free(Ui)
  /\ ~Free(Net) => call[Net].x = came
  /\ ~Free(Net) /\ (\E t \in Threads \ {Net} : ~Free(t)) => came \in raced
  /\ At(Net, "grow") /\ (\E t \in Threads \ {Net} : ~Free(t)) => torn
  /\ torn => raced # {}

\* Without a clear() the list is not empty from a player's isEmpty() to its
\* remove(0), torn or not.
SizeInv == OnePlayer /\ clears = 0 =>
  \A g \in Players : pc[g] \in {"peek", "look", "take", "read", "play", "drop"} \/ At(g, "remove")
                       => size > 0

\* In peace its head is the player's.
HeadInv == Peace =>
  \A g \in Players : /\ pc[g] \in {"take", "read"} => First # Null
                     /\ pc[g] = "play" => First = m_out_bytes[g]
                     /\ Removing(g) => call[g].s <= size

\* An AAC player, which never drops a null, keeps one at the head, so that the
\* copy of a growing add() has none that the array has not.
AacInv == OnePlayer /\ clears = 0 /\ ~isAdpcm =>
  /\ \A g \in Players :
       \/ pc[g] \in {"take", "read", "play", "drop"}
       \/ At(g, "remove")
       \/ At(g, "move") /\ call[g].i = 0
       => First # Null
  /\ At(Net, "grow") /\ call[Net].i > 0 /\ First # Null => copy[0] # Null

\* In quiet a remove(0) holds the list's array, and nothing changes the array
\* that is copied.
WholeInv == Quiet =>
  /\ \A g \in Players : call[g].op \in Removes => call[g].a = length
  /\ At(Net, "grow") => /\ size = call[Net].s
                        /\ \A j \in 0..call[Net].i - 1 : copy[j] = array[j]

\* An add() stores behind all that a remove() moves, and the last place of a
\* remove() is nulled before size is written.
EndInv == Quiet =>
  /\ ~Free(Net) => /\ size <= call[Net].s /\ (raced = {} => size = call[Net].s)
                   /\ \A g \in Players : Removing(g) => call[g].s <= call[Net].s
                   /\ At(Net, "added") => array[call[Net].s] = came
  /\ \A g \in Players : At(g, "removed") => call[g].i = call[g].s - 1 /\ array[call[g].i] = Null

\* The place whose packet was played, or has been moved down already.
Gone(i) == \E g \in Players : \/ pc[g] = "drop" /\ i = 0
                              \/ call[g].op \in {"remove", "move"} /\ i = call[g].i
\* The places that are in the list, will be when the calls are done, or are
\* about to be read.
Reach(i) == \/ i < size
            \/ call[Net].op \in {"grow", "add"} /\ i < call[Net].s
            \/ At(Net, "added") /\ i <= call[Net].s
            \/ \E g \in Players : Removing(g) /\ i < call[g].s
            \/ i = 0 /\ \E g \in Players : pc[g] = "read"
Left(i) == i \in Index /\ Reach(i) /\ array[i] # Null /\ ~Gone(i)
\* The next packet that is to be stored.
Fresh == IF call[Net].op \in {"grow", "add"} THEN came ELSE came + 1

\* What is left in the list is in order, and newer than what was played.
Ordered ==
  /\ \A i, j \in Index : Left(i) /\ Left(j) /\ i < j => array[i] < array[j]
  /\ \A i \in Index : Left(i) => array[i] < Fresh
  /\ \A k \in 1..Len(played) : played[k] < Fresh /\ \A i \in Index : Left(i) => played[k] < array[i]
  /\ \A k, l \in 1..Len(played) : k < l => played[k] < played[l]
  /\ \A g \in Players : pc[g] = "play" =>
       /\ m_out_bytes[g] < Fresh
       /\ \A k \in 1..Len(played) : played[k] < m_out_bytes[g]
       /\ \A i \in Index : Left(i) /\ i > 0 => m_out_bytes[g] < array[i]
OrderInv == Quiet => Ordered

\* A packet that came in peace is played, or in the list where no remove()
\* forgets it.
HasPlace(p) == \E i \in Index : /\ i < size /\ array[i] = p /\ ~Gone(i)
                                /\ \A g \in Players : Removing(g) => i < call[g].s
Accounted(p) == \/ p \in raced \/ (~Free(Net) /\ p = came)
                \/ (\E k \in 1..Len(played) : played[k] = p) \/ HasPlace(p)
PlaceInv == Peace => \A p \in 1..came : Accounted(p)

SoundInv == /\ TypeOK /\ CallsInv /\ SizeInv /\ HeadInv /\ AacInv /\ WholeInv /\ EndInv
            /\ OrderInv /\ PlaceInv /\ ThrowsOnlyWhenCleared

-----------------------------------------------------------------------------
\* What a step of a player is, and what the other steps leave alone.

Idle == {"new", "wait", "waitSix", "loop", "refill", "refillSix", "check", "ended"}

\* A step of a player outside the list, by what it saw and where it goes.
LEMMA PlayerStepMeans ==
  ASSUME TypeOK, NEW g \in Players, PlayerStep(g)
  PROVE  /\ Free(g) /\ pc[g] # "new" /\ pc'[g] # "new"
         /\ \A h \in Players \ {g} : pc'[h] = pc[h] /\ m_out_bytes'[h] = m_out_bytes[h]
         /\ UNCHANGED <<array, length, size, copy, came, view>>
         /\ \/ /\ UNCHANGED <<call, m_out_bytes, played>>
               /\ \/ pc[g] \in Idle \cup {"look"} /\ pc'[g] \in Idle
                  \/ pc[g] = "check" /\ pc'[g] = "peek" /\ size > 0
                  \/ pc[g] = "peek" /\ pc'[g] = "dead" /\ size = 0
                  \/ pc[g] = "peek" /\ pc'[g] = "look" /\ size > 0
                  \/ pc[g] = "look" /\ pc'[g] = "take" /\ First # Null
                  \/ pc[g] = "look" /\ pc'[g] = "drop" /\ First = Null /\ isAdpcm
                  \/ pc[g] = "take" /\ pc'[g] = "dead" /\ size = 0
                  \/ pc[g] = "take" /\ pc'[g] = "read" /\ size > 0
                  \/ pc[g] = "read" /\ pc'[g] = "dead" /\ First = Null
            \/ /\ pc[g] = "read" /\ pc'[g] = "play" /\ First # Null
               /\ m_out_bytes'[g] = First /\ UNCHANGED <<call, played>>
            \/ /\ pc[g] = "play" /\ pc'[g] = "drop"
               /\ played' = Append(played, m_out_bytes[g]) /\ UNCHANGED <<call, m_out_bytes>>
            \/ /\ pc[g] = "drop" /\ pc'[g] = "loop" /\ RemoveFirst(g)
               /\ UNCHANGED <<m_out_bytes, played>>
<1>0. pc \in [Players -> Places] /\ m_out_bytes \in [Players -> Item \cup {Null}] /\ size \in Nat
  BY DEF TypeOK, ListTypeOK
<1>1. CASE WaitFirst(g)
  BY <1>0, <1>1 DEF WaitFirst, WaitLoop, PlayerAt, Go, Idle, list
<1>2. CASE Refill(g)
  BY <1>0, <1>2 DEF Refill, WaitLoop, PlayerAt, Go, Idle, list
<1>3. CASE Loop(g)
  <2>1. pc' = [pc EXCEPT ![g] = pc'[g]] /\ pc'[g] \in {"ended", "refill", "check"}
    <3>1. \/ pc' = [pc EXCEPT ![g] = "ended"] \/ pc' = [pc EXCEPT ![g] = "refill"]
          \/ pc' = [pc EXCEPT ![g] = "check"]
      BY <1>3, Zenon DEF Loop, Go
    <3> QED BY <1>0, <3>1
  <2> QED BY <1>0, <1>3, <2>1 DEF Loop, PlayerAt, Idle, list
<1>4. CASE Check(g)
  BY <1>0, <1>4 DEF Check, PlayerAt, Go, Idle, list
<1>5. CASE Peek(g)
  BY <1>0, <1>5 DEF Peek, PlayerAt, Go, Idle, list
<1>6. CASE Look(g)
  <2>1. \/ pc' = [pc EXCEPT ![g] = "take"] /\ First # Null
        \/ pc' = [pc EXCEPT ![g] = "drop"] /\ First = Null /\ isAdpcm
        \/ pc' = [pc EXCEPT ![g] = "loop"]
    BY <1>6, Zenon DEF Look, Go
  <2> QED BY <1>0, <1>6, <2>1 DEF Look, PlayerAt, Idle, list
<1>7. CASE Take(g)
  BY <1>0, <1>7 DEF Take, PlayerAt, Go, Idle, list
<1>8. CASE Read(g)
  <2>1. CASE First = Null
    BY <1>0, <1>8, <2>1 DEF Read, PlayerAt, Go, Idle, list
  <2>2. CASE First # Null
    BY <1>0, <1>8, <2>2 DEF Read, PlayerAt, Go, Idle, list
  <2> QED BY <2>1, <2>2
<1>9. CASE Play(g)
  BY <1>0, <1>9 DEF Play, PlayerAt, Go, Idle, list
<1>10. CASE Drop(g)
  BY <1>0, <1>10 DEF Drop, PlayerAt, Go, RemoveFirst
<1> QED BY <1>1, <1>2, <1>3, <1>4, <1>5, <1>6, <1>7, <1>8, <1>9, <1>10 DEF PlayerStep

\* What the user interface does outside the list.
UiAside ==
  /\ UNCHANGED <<list, came, m_out_bytes, played>>
  /\ \A g \in Players : pc'[g] = pc[g] \/ (pc[g] = "new" /\ pc'[g] = "wait")
  /\ clears' = 0 => clears = 0 /\ (toClear' => toClear)

\* Switches and requests of the user interface are such steps.
LEMMA UiStepMeans ==
  TypeOK /\ (SwitchOff \/ StopCam \/ StartCam \/ \E g \in Players : SwitchOn(g)) => UiAside
<1> SUFFICES ASSUME TypeOK PROVE
      (SwitchOff \/ StopCam \/ StartCam \/ \E g \in Players : SwitchOn(g)) => UiAside
  OBVIOUS
<1>0. pc \in [Players -> Places] /\ clears \in Nat
  BY PlaybackAssumption DEF TypeOK
<1>1. CASE SwitchOff
  BY <1>1 DEF SwitchOff, UiAside, player
<1>2. CASE StopCam
  BY <1>0, <1>2 DEF StopCam, UiAside, player
<1>3. CASE StartCam
  BY <1>0, <1>3 DEF StartCam, UiAside, player
<1>4. ASSUME NEW g \in Players, SwitchOn(g) PROVE UiAside
  BY <1>0, <1>4 DEF SwitchOn, UiAside
<1> QED BY <1>1, <1>2, <1>3, <1>4

\* The user interface clears the list at once, if it is empty, or begins to.
LEMMA ClearListMeans ==
  ClearList => /\ UNCHANGED <<came, pc, m_out_bytes, played, clears, array, length, size, copy>>
               /\ toClear /\ ~toClear' /\ (UNCHANGED call \/ Clear(Ui))
  BY DEF ClearList, player, Clear, list

\* ... which touches no other call.
LEMMA ClearListCalls ==
  ASSUME ListTypeOK, ClearList PROVE UNCHANGED call \/ Untouched(Ui)
  BY ClearListMeans, EnterMeans, ThreadsDiffer DEF Clear

\* A packet arrives: its add() begins.
LEMMA ArriveMeans ==
  ASSUME ListTypeOK, Arrive
  PROVE  /\ UNCHANGED <<pc, m_out_bytes, played, clears, toClear, array, length, size>>
         /\ came' = came + 1 /\ Free(Net) /\ ~Free(Net)' /\ Untouched(Net)
         /\ call'[Net].op \in {"grow", "add"} /\ call'[Net].s = size /\ call'[Net].i = 0
         /\ call'[Net].x = came'
<1>1. Add(Net, came + 1) /\ came' = came + 1 /\ UNCHANGED <<pc, m_out_bytes, played, clears, toClear>>
  BY DEF Arrive, player, view
<1> QED BY <1>1, AddMeans, ThreadsDiffer DEF Free

\* Sound once switched on, a clear() once begun and a race once run do not go
\* away, so what holds in quiet was so before.
LEMMA QuietBefore ==
  TypeOK /\ [Next]_vars => /\ OnePlayer' => OnePlayer
                           /\ clears' = 0 => clears = 0
                           /\ raced \subseteq raced'
                           /\ ~torn' => ~torn
                           /\ Quiet' => Quiet
                           /\ Peace' => Peace
                           /\ isAdpcm' = isAdpcm
<1> SUFFICES ASSUME TypeOK, [Next]_vars
             PROVE  /\ \A g \in Players : pc'[g] = "new" => pc[g] = "new"
                    /\ clears' = 0 => clears = 0
                    /\ raced \subseteq raced'
                    /\ ~torn' => ~torn
                    /\ isAdpcm' = isAdpcm
  <2>1. ASSUME \A g \in Players : pc'[g] = "new" => pc[g] = "new" PROVE OnePlayer' => OnePlayer
    BY <2>1 DEF OnePlayer
  <2> QED BY <2>1 DEF Quiet, Peace
<1>1. raced \subseteq raced' /\ (~torn' => ~torn) /\ isAdpcm' = isAdpcm
  <2>1. raced \subseteq raced' /\ isAdpcm' = isAdpcm
    BY DEF Next, Remember, vars
  <2>2. ~torn' => ~torn
    <3>1. (torn' = (torn \/ (Overlap /\ At(Net, "grow"))')) \/ torn' = torn
      BY Zenon DEF Next, Remember, vars
    <3>2. torn \in BOOLEAN
      BY DEF TypeOK
    <3> QED BY <3>1, <3>2, Zenon
  <2> QED BY <2>1, <2>2
<1>2. (\A g \in Players : pc'[g] = "new" => pc[g] = "new") /\ (clears' = 0 => clears = 0)
  <2>1. CASE Arrive \/ ClearList
    BY <2>1, ArriveMeans, ClearListMeans DEF TypeOK
  <2>2. CASE SwitchOff \/ StopCam \/ StartCam \/ \E g \in Players : SwitchOn(g)
    BY <2>2, UiStepMeans DEF UiAside
  <2>3. ASSUME NEW g \in Players, PlayerStep(g)
        PROVE  (\A h \in Players : pc'[h] = "new" => pc[h] = "new") /\ (clears' = 0 => clears = 0)
    BY <2>3, PlayerStepMeans DEF view
  <2>4. CASE \E t \in Threads : InList(t)
    BY <2>4 DEF InList, player, view
  <2>5. CASE UNCHANGED vars
    BY <2>5 DEF vars, player, view
  <2> QED BY <2>1, <2>2, <2>3, <2>4, <2>5 DEF Next
<1> QED BY <1>1, <1>2

\* A player in the list, or with a packet, is the only one.
LEMMA LonePlayer ==
  ASSUME CallsInv, OnePlayer, NEW g \in Players, pc[g] # "new"
  PROVE  \A h \in Players \ {g} : pc[h] = "new" /\ Free(h)
  BY DEF CallsInv, OnePlayer

\* Who takes a step inside the list: the network adds, a player removes, the
\* user interface clears.
LEMMA InListMeans ==
  ASSUME TypeOK, NEW t \in Threads, InList(t)
  PROVE  /\ UNCHANGED <<came, pc, m_out_bytes, played, toClear, clears>> /\ ~Free(t) /\ Untouched(t)
         /\ \/ t = Net /\ (Copy(t) \/ Replace(t) \/ Store(t) \/ Added(t))
            \/ t \in Players /\ (RemoveSize(t) \/ Move(t) \/ DropLast(t) \/ Removed(t))
            \/ t = Ui /\ (ClearArray(t) \/ ClearSize(t) \/ Erase(t) \/ Cleared(t))
<1>0. ListTypeOK /\ CallsOK
  BY DEF TypeOK
<1>1. CASE Copy(t)
  BY <1>0, <1>1, CopyMeans DEF InList, player, view, Free
<1>2. CASE Replace(t)
  BY <1>0, <1>2, ReplaceMeans DEF InList, player, view, Free
<1>3. CASE Store(t)
  BY <1>0, <1>3, StoreMeans DEF InList, player, view, Free
<1>4. CASE Added(t)
  BY <1>0, <1>4, AddedMeans DEF InList, player, view, Free
<1>5. CASE RemoveSize(t)
  BY <1>0, <1>5, RemoveSizeMeans DEF InList, player, view, Free
<1>6. CASE Move(t)
  BY <1>0, <1>6, MoveMeans DEF InList, player, view, Free
<1>7. CASE DropLast(t)
  BY <1>0, <1>7, DropLastMeans DEF InList, player, view, Free
<1>8. CASE Removed(t)
  BY <1>0, <1>8, RemovedMeans DEF InList, player, view, Free
<1>9. CASE ClearArray(t) \/ ClearSize(t) \/ Erase(t) \/ Cleared(t)
  BY <1>0, <1>9, ClearMeans DEF InList, player, view
<1> QED BY <1>1, <1>2, <1>3, <1>4, <1>5, <1>6, <1>7, <1>8, <1>9 DEF InList, Continue

-----------------------------------------------------------------------------
\* The calls.

\* No step changes who may be in a call and who knows of an add().
LEMMA StepCalls == TypeOK /\ CallsInv /\ Next => CallsInv'
<1> SUFFICES ASSUME TypeOK, CallsInv, Next PROVE CallsInv'
  OBVIOUS
<1> DEFINE Loops == \A g \in Players : ~Free(g) => pc[g] = "loop"
           Ui0 == clears = 0 => ~toClear /\ Free(Ui)
           Own == ~Free(Net) => call[Net].x = came
<1> USE ThreadsDiffer
<1>0. ListTypeOK /\ CallsOK /\ Loops /\ Ui0 /\ Own
  BY DEF TypeOK, CallsInv
<1>1. ASSUME Arrive PROVE Loops' /\ Ui0' /\ Own'
  BY <1>0, <1>1, ArriveMeans DEF Untouched, Free
<1>2. ASSUME UiAside PROVE Loops' /\ Ui0' /\ Own'
  BY <1>0, <1>2 DEF UiAside, list, Free
<1>3. ASSUME ClearList PROVE Loops' /\ Ui0' /\ Own'
  BY <1>0, <1>3, ClearListMeans, ClearListCalls DEF Untouched, Free
<1>4. ASSUME NEW g \in Players, PlayerStep(g) PROVE Loops' /\ Ui0' /\ Own'
  <2>1. UNCHANGED call \/ (Untouched(g) /\ pc'[g] = "loop")
    BY <1>0, <1>4, PlayerStepMeans, EnterMeans DEF RemoveFirst
  <2> QED BY <1>0, <1>4, <2>1, PlayerStepMeans DEF Untouched, Free, view
<1>5. ASSUME NEW t \in Threads, InList(t) PROVE Loops' /\ Ui0' /\ Own'
  <2>1. UNCHANGED <<came, pc, toClear, clears>> /\ ~Free(t) /\ Untouched(t)
    BY <1>5, InListMeans
  <2>2. t = Net => Free(Net)' \/ call'[Net].x = call[Net].x
    <3>1. CASE Copy(t)
      BY <1>0, <3>1, CopyMeans, CallTyped DEF Call
    <3>2. CASE Replace(t)
      BY <1>0, <3>2, ReplaceMeans, CallTyped DEF Call
    <3>3. CASE Store(t)
      BY <1>0, <3>3, StoreMeans
    <3>4. CASE Added(t)
      BY <1>0, <3>4, AddedMeans DEF Free, NoCall
    <3> QED BY <1>5, <3>1, <3>2, <3>3, <3>4, InListMeans
  <2> QED BY <1>0, <2>1, <2>2 DEF Untouched, Free
<1>6. Loops' /\ Ui0' /\ Own'
  BY <1>1, <1>2, <1>3, <1>4, <1>5, UiStepMeans DEF Next
<1>7. /\ Overlap' => came' \in raced'
      /\ At(Net, "grow")' /\ Overlap' => torn'
  BY DEF Next, Remember
<1>8. torn' => raced' # {}
  <2>1. CASE torn
    BY <2>1, QuietBefore DEF CallsInv
  <2>2. CASE ~torn
    BY <1>7, <2>2 DEF Next, Remember
  <2> QED BY <2>1, <2>2
<1>9. (~Free(Net) /\ (\E t \in Threads \ {Net} : ~Free(t)) => Overlap)'
  BY DEF Overlap
<1>10. At(Net, "grow")' => ~Free(Net)'
  BY DEF At, Free
<1> QED BY <1>6, <1>7, <1>8, <1>9, <1>10 DEF CallsInv

-----------------------------------------------------------------------------
\* The head of the list, while nobody clears it.

Holding == {"peek", "look", "take", "read", "play", "drop"}

\* Without a clear() only the player's own remove(0) makes the list empty.
LEMMA StepSize == TypeOK /\ CallsInv /\ SizeInv /\ Next => SizeInv'
<1> SUFFICES ASSUME TypeOK, CallsInv, SizeInv, Next, OnePlayer', clears' = 0
             PROVE  \A g \in Players : (pc[g] \in Holding \/ At(g, "remove") => size > 0)'
  BY DEF SizeInv, Holding
<1> USE ThreadsDiffer
<1> DEFINE Part(g) == pc[g] \in Holding \/ At(g, "remove") => size > 0
<1>0. ListTypeOK /\ CallsOK /\ OnePlayer /\ clears = 0 /\ ~toClear /\ Free(Ui) /\ size \in Nat
  BY SMTT(30), QuietBefore DEF TypeOK, CallsInv, ListTypeOK
<1>1. \A g \in Players : Part(g)
  BY <1>0 DEF SizeInv, Holding
<1>2. CASE Arrive
  BY <1>0, <1>1, <1>2, ArriveMeans DEF Untouched, At
<1>3. CASE UiAside
  BY <1>1, <1>3 DEF UiAside, list, At, Holding
<1>4. CASE ClearList
  BY <1>0, <1>4, ClearListMeans
<1>5. ASSUME NEW g \in Players, PlayerStep(g) PROVE \A h \in Players : Part(h)'
  <2>1. size' = size /\ \A h \in Players \ {g} : pc'[h] = pc[h]
    BY <1>5, PlayerStepMeans
  <2>2. UNCHANGED call \/ (Untouched(g) /\ pc[g] = "drop" /\ pc'[g] = "loop")
    BY <1>0, <1>5, PlayerStepMeans, EnterMeans DEF RemoveFirst
  <2>3. pc'[g] \in Holding => size > 0
    BY <1>0, <1>1, <1>5, PlayerStepMeans DEF Idle, Holding
  <2>4. CASE UNCHANGED call
    BY <1>1, <2>1, <2>3, <2>4 DEF At
  <2>5. CASE Untouched(g) /\ pc[g] = "drop"
    <3>1. size > 0
      BY <1>1, <2>5 DEF Holding
    <3> QED BY <2>1, <3>1
  <2> QED BY <2>2, <2>4, <2>5
<1>6. ASSUME NEW t \in Threads, InList(t) PROVE \A h \in Players : Part(h)'
  <2>1. pc' = pc /\ Untouched(t) /\ ~Free(t) /\ t # Ui
    BY <1>0, <1>6, InListMeans
  <2>2. CASE Copy(t) \/ Replace(t) \/ Store(t) \/ Added(t)
    <3>1. t = Net /\ (size' = size \/ size' > 0)
      <4>1. CASE Copy(t)
        BY <1>0, <4>1, CopyMeans
      <4>2. CASE Replace(t)
        BY <1>0, <4>2, ReplaceMeans
      <4>3. CASE Store(t)
        BY <1>0, <4>3, StoreMeans
      <4>4. CASE Added(t)
        <5>1. t = Net /\ call[t].s \in Nat /\ size' = call[t].s + 1
          BY <1>0, <4>4, AddedMeans, CallTyped
        <5> QED BY <5>1
      <4> QED BY <2>2, <4>1, <4>2, <4>3, <4>4
    <3>2. \A h \in Players : call'[h] = call[h]
      BY <2>1, <3>1 DEF Untouched
    <3> QED BY <1>1, <2>1, <3>1, <3>2 DEF At
  <2>3. CASE RemoveSize(t) \/ Move(t) \/ DropLast(t)
    <3>1. t \in Players /\ size' = size /\ call'[t].op # "remove"
      <4>1. CASE RemoveSize(t)
        <5>1. t \in Players /\ size' = size /\ (call'[t] = NoCall \/ call'[t].op = "move")
          BY <1>0, <4>1, RemoveSizeMeans
        <5> QED BY <5>1 DEF NoCall
      <4>2. CASE Move(t)
        BY <1>0, <4>2, MoveMeans
      <4>3. CASE DropLast(t)
        BY <1>0, <4>3, DropLastMeans
      <4> QED BY <2>3, <4>1, <4>2, <4>3
    <3> QED BY <1>1, <2>1, <3>1 DEF Untouched, At
  <2>4. CASE Removed(t)
    <3>1. t \in Players /\ call'[t] = NoCall
      BY <1>0, <2>4, RemovedMeans
    <3>2. pc[t] = "loop" /\ \A h \in Players \ {t} : pc[h] = "new" /\ Free(h)
      BY <1>0, <2>1, <3>1, LonePlayer DEF CallsInv
    <3> QED BY <2>1, <3>1, <3>2 DEF Untouched, At, Free, NoCall, Holding
  <2> QED BY <1>6, <2>1, <2>2, <2>3, <2>4, InListMeans
<1> QED BY <1>2, <1>3, <1>4, <1>5, <1>6, UiStepMeans DEF Next

\* In peace no step takes from a player the head it has seen: an add() stores
\* behind it, what a growing one copies is what is there, and no other player
\* removes.
LEMMA StepHead == TypeOK /\ CallsInv /\ SizeInv /\ HeadInv /\ WholeInv /\ EndInv /\ Next => HeadInv'
<1> SUFFICES ASSUME TypeOK, CallsInv, SizeInv, HeadInv, WholeInv, EndInv, Next, Peace'
             PROVE  \A g \in Players : (/\ pc[g] \in {"take", "read"} => First # Null
                                        /\ pc[g] = "play" => First = m_out_bytes[g]
                                        /\ Removing(g) => call[g].s <= size)'
  BY DEF HeadInv
<1> USE ThreadsDiffer
<1> DEFINE Parts(g) == /\ pc[g] \in {"take", "read"} => First # Null
                       /\ pc[g] = "play" => First = m_out_bytes[g]
                       /\ Removing(g) => call[g].s <= size
<1>0. /\ ListTypeOK /\ CallsOK /\ OnePlayer /\ clears = 0 /\ Quiet /\ Peace
      /\ ~toClear /\ Free(Ui) /\ size \in Nat
  BY QuietBefore DEF TypeOK, Quiet, Peace, CallsInv, ListTypeOK
<1>1. \A g \in Players : Parts(g)
  BY <1>0 DEF HeadInv
<1>2. CASE Arrive
  BY <1>0, <1>1, <1>2, ArriveMeans DEF Untouched, Removing, First
<1>3. CASE UiAside
  BY <1>1, <1>3 DEF UiAside, list, Removing, First
<1>4. CASE ClearList
  BY <1>0, <1>4, ClearListMeans
<1>5. ASSUME NEW g \in Players, PlayerStep(g) PROVE \A h \in Players : Parts(h)'
  <2>1. \A h \in Players \ {g} : Parts(h)'
    <3>1. UNCHANGED call \/ Untouched(g)
      BY <1>0, <1>5, PlayerStepMeans, EnterMeans DEF RemoveFirst
    <3> QED BY <1>1, <1>5, <3>1, PlayerStepMeans DEF Untouched, Removing, First
  <2>2. Parts(g)'
    <3>1. CASE RemoveFirst(g) /\ pc'[g] = "loop"
      BY <1>0, <1>5, <3>1, EnterMeans, PlayerStepMeans DEF RemoveFirst, Removing
    <3>2. CASE UNCHANGED call
      BY <1>0, <1>1, <1>5, <3>2, PlayerStepMeans DEF Removing, First, Idle, Free
    <3> QED BY <1>5, <3>1, <3>2, PlayerStepMeans
  <2> QED BY <2>1, <2>2
<1>6. ASSUME NEW t \in Threads, InList(t) PROVE \A h \in Players : Parts(h)'
  <2>1. UNCHANGED <<pc, m_out_bytes>> /\ t # Ui /\ ~Free(t) /\ Untouched(t)
    BY <1>0, <1>6, InListMeans
  <2>2. CASE Copy(t)
    BY <1>0, <1>1, <2>1, <2>2, CopyMeans DEF Untouched, Removing, First
  <2>3. CASE Replace(t)
    <3>1. /\ t = Net /\ call[Net].op = "grow" /\ call[Net].i = length /\ size' = size /\ array' = copy
          /\ size = length
      BY <1>0, <2>3, ReplaceMeans DEF WholeInv, At
    <3>2. size > 0 => First' = First
      <4>1. ASSUME size > 0 PROVE copy[0] = array[0]
        <5>1. 0 \in 0..call[Net].i - 1
          BY <1>0, <3>1, <4>1
        <5> QED BY <1>0, <3>1, <5>1 DEF WholeInv, At
      <4> QED BY <3>1, <4>1 DEF First
    <3>3. \A h \in Players : pc[h] \in {"take", "read", "play"} => size > 0
      BY <1>0 DEF SizeInv
    <3> QED BY <1>1, <2>1, <3>1, <3>2, <3>3 DEF Untouched, Removing
  <2>4. CASE Store(t)
    <3>1. size <= call[Net].s /\ call[Net].s \in Nat
      <4>1. t = Net /\ call[Net].op = "add"
        BY <1>0, <2>4, StoreMeans
      <4> QED BY <1>0, <4>1, CallTyped DEF EndInv, Free
    <3>2. First' = First \/ size = 0
      <4>0. t = Net /\ call[Net].s \in Index /\ OtherPlaces(call[Net].s)
        BY <1>0, <2>4, StoreMeans
      <4>1. call[Net].s # 0 => 0 \in Index
        BY <1>0, <3>1, <4>0, CallTyped DEF Index
      <4>2. CASE call[Net].s = 0
        BY <1>0, <3>1, <4>2
      <4>3. CASE call[Net].s # 0
        BY <4>0, <4>1, <4>3 DEF OtherPlaces, First
      <4> QED BY <4>2, <4>3
    <3>3. \A h \in Players : pc[h] \in {"take", "read", "play"} => size > 0
      BY <1>0 DEF SizeInv
    <3>4. t = Net /\ size' = size
      BY <1>0, <2>4, StoreMeans
    <3> QED BY <1>0, <1>1, <2>1, <3>2, <3>3, <3>4 DEF Untouched, Removing
  <2>5. CASE Added(t)
    <3>1. size <= call[Net].s /\ call[Net].s \in Nat /\ size' = call[Net].s + 1
      <4>1. t = Net /\ call[Net].op = "added" /\ size' = call[Net].s + 1
        BY <1>0, <2>5, AddedMeans
      <4> QED BY <1>0, <4>1, CallTyped DEF EndInv, Free
    <3>2. \A g \in Players : Removing(g) => call[g].s <= call[Net].s /\ call[g].s \in Nat
      <4>1. t = Net /\ call[Net].op = "added"
        BY <1>0, <2>5, AddedMeans
      <4> QED BY <1>0, <4>1, CallTyped DEF EndInv, Free
    <3> QED BY <1>0, <1>1, <2>1, <2>5, <3>1, <3>2, AddedMeans DEF Untouched, Removing, First
  <2>6. CASE RemoveSize(t) \/ Move(t) \/ DropLast(t) \/ Removed(t)
    <3>1. /\ t \in Players
          /\ \/ call'[t] = NoCall
             \/ size' = size /\ call'[t].s = size
             \/ size' = size /\ Removing(t) /\ call'[t].s = call[t].s
      <4>1. CASE RemoveSize(t)
        BY <1>0, <4>1, RemoveSizeMeans
      <4>2. CASE Move(t)
        BY <1>0, <4>2, MoveMeans DEF Removing
      <4>3. CASE DropLast(t)
        BY <1>0, <4>3, DropLastMeans DEF Removing
      <4>4. CASE Removed(t)
        BY <1>0, <4>4, RemovedMeans
      <4> QED BY <2>6, <4>1, <4>2, <4>3, <4>4
    <3>2. pc[t] = "loop" /\ \A h \in Players \ {t} : pc[h] = "new" /\ Free(h)
      BY <1>0, <2>1, <3>1, LonePlayer DEF CallsInv
    <3>3. Parts(t)'
      BY <1>0, <1>1, <2>1, <3>1, <3>2 DEF Removing, NoCall
    <3>4. \A h \in Players \ {t} : Parts(h)'
      BY <1>1, <2>1, <3>1, <3>2 DEF Untouched, Removing, Free
    <3> QED BY <3>3, <3>4
  <2> QED BY <1>6, <2>1, <2>2, <2>3, <2>4, <2>5, <2>6, InListMeans
<1> QED BY <1>2, <1>3, <1>4, <1>5, <1>6, UiStepMeans DEF Next

\* An AAC player that has seen a head never finds a null there: nobody puts
\* one there before its own remove(0) moves the places.
LEMMA StepAac == TypeOK /\ CallsInv /\ SizeInv /\ AacInv /\ Next => AacInv'
<1> DEFINE Sees(g) == \/ pc[g] \in {"take", "read", "play", "drop"}
                      \/ At(g, "remove")
                      \/ At(g, "move") /\ call[g].i = 0
           Copied == At(Net, "grow") /\ call[Net].i > 0 /\ First # Null => copy[0] # Null
<1> SUFFICES ASSUME TypeOK, CallsInv, SizeInv, AacInv, Next, OnePlayer', clears' = 0, ~isAdpcm'
             PROVE  (\A g \in Players : Sees(g)' => First' # Null) /\ Copied'
  BY DEF AacInv
<1> USE ThreadsDiffer
<1>0. /\ ListTypeOK /\ CallsOK /\ OnePlayer /\ clears = 0 /\ ~toClear /\ Free(Ui) /\ ~isAdpcm
      /\ size \in Nat /\ \A g \in Players : call[g].i \in Nat
  BY QuietBefore, CallTyped DEF TypeOK, CallsInv, ListTypeOK
<1>1. (\A g \in Players : Sees(g) => First # Null) /\ Copied
  BY <1>0 DEF AacInv
<1>2. CASE Arrive
  BY <1>0, <1>1, <1>2, ArriveMeans DEF Untouched, At, First
<1>3. CASE UiAside
  BY <1>1, <1>3 DEF UiAside, list, At, First
<1>4. CASE ClearList
  BY <1>0, <1>4, ClearListMeans
<1>5. ASSUME NEW g \in Players, PlayerStep(g)
      PROVE  (\A h \in Players : Sees(h)' => First' # Null) /\ Copied'
  <2>1. UNCHANGED <<array, copy>> /\ (\A h \in Players \ {g} : pc'[h] = pc[h]) /\ Free(g)
    BY <1>5, PlayerStepMeans
  <2>2. UNCHANGED call \/ (Untouched(g) /\ pc[g] = "drop" /\ pc'[g] = "loop")
    BY <1>0, <1>5, PlayerStepMeans, EnterMeans DEF RemoveFirst
  <2>3. First' = First /\ Copied'
    BY <1>1, <2>1, <2>2 DEF First, Untouched, At
  <2>4. pc'[g] \in {"take", "read", "play", "drop"} => First # Null
    BY <1>0, <1>1, <1>5, PlayerStepMeans DEF Idle
  <2>5. CASE UNCHANGED call
    BY <1>1, <2>1, <2>3, <2>4, <2>5 DEF At
  <2>6. CASE Untouched(g) /\ pc[g] = "drop"
    BY <1>1, <2>3, <2>6
  <2> QED BY <2>2, <2>5, <2>6
<1>6. ASSUME NEW t \in Threads, InList(t)
      PROVE  (\A h \in Players : Sees(h)' => First' # Null) /\ Copied'
  <2>1. pc' = pc /\ t # Ui /\ ~Free(t) /\ Untouched(t)
    BY <1>0, <1>6, InListMeans
  <2>2. CASE Copy(t)
    <3>0. /\ t = Net /\ array' = array /\ call[Net].op = "grow" /\ call[Net].i \in Index
          /\ copy \in [0..Longer(length) - 1 -> Item \cup {Null}]
          /\ copy' = [copy EXCEPT ![call[Net].i] = array[call[Net].i]]
      BY <1>0, <2>2, CopyMeans
    <3>1. 0 \in 0..Longer(length) - 1 /\ call[Net].i \in 0..Longer(length) - 1
      <4>1. length \in Nat /\ Longer(length) \in Nat /\ length < Longer(length)
        BY <1>0, LongerIsLonger DEF ListTypeOK
      <4> QED BY <3>0, <4>1 DEF Index
    <3>2. call[Net].i # 0 => copy'[0] = copy[0] /\ call[Net].i > 0
      BY <3>0, <3>1 DEF Index
    <3>3. call[Net].i = 0 => copy'[0] = First
      BY <3>0, <3>1 DEF First
    <3>4. Copied'
      BY <1>1, <3>0, <3>2, <3>3 DEF First, At
    <3>5. \A h \in Players : call'[h] = call[h]
      BY <2>1, <3>0 DEF Untouched
    <3> QED BY <1>1, <2>1, <3>0, <3>4, <3>5 DEF At, First
  <2>3. CASE Replace(t)
    <3>1. /\ t = Net /\ call[Net].op = "grow" /\ call[Net].i = length /\ array' = copy
          /\ call'[Net] = [call[Net] EXCEPT !.op = "add"]
      BY <1>0, <2>3, ReplaceMeans
    <3>2. Copied'
      BY <1>0, <3>1, CallTyped DEF At, Call
    <3>3. \A h \in Players : Sees(h) => length > 0
      <4> SUFFICES ASSUME NEW h \in Players, Sees(h) PROVE length > 0
        OBVIOUS
      <4>1. CASE At(h, "move")
        BY <1>0, <4>1, CallTyped DEF At, InRange
      <4>2. CASE ~At(h, "move")
        <5>1. size > 0 /\ size <= length /\ length \in Nat
          BY <1>0, <4>2, CallTyped DEF SizeInv
        <5> QED BY <1>0, <5>1
      <4> QED BY <4>1, <4>2
    <3>4. \A h \in Players : call'[h] = call[h]
      BY <2>1, <3>1 DEF Untouched
    <3>5. \A h \in Players : Sees(h)' => Sees(h)
      BY <2>1, <3>4 DEF At
    <3> QED BY <1>1, <3>1, <3>2, <3>3, <3>5 DEF First, At
  <2>4. CASE Store(t) \/ Added(t)
    <3>1. /\ t = Net /\ call'[Net].op # "grow"
          /\ array' = array \/ (OtherPlaces(call[Net].s) /\ call[Net].s \in Index /\ array'[call[Net].s] \in Item)
      <4>1. CASE Store(t)
        BY <1>0, <4>1, StoreMeans, CallTyped DEF Call
      <4>2. CASE Added(t)
        BY <1>0, <4>2, AddedMeans DEF NoCall
      <4> QED BY <2>4, <4>1, <4>2
    <3>2. First' = First \/ First' # Null
      <4>1. CASE array' = array
        BY <4>1 DEF First
      <4>2. CASE OtherPlaces(call[Net].s) /\ call[Net].s \in Index /\ array'[call[Net].s] \in Item
        <5>1. call[Net].s # 0 => 0 \in Index
          BY <1>0, <4>2, CallTyped DEF Index
        <5> QED BY <4>2, <5>1, SharedListAssumption DEF First, OtherPlaces
      <4> QED BY <3>1, <4>1, <4>2
    <3> QED BY <1>1, <2>1, <3>1, <3>2 DEF Untouched, At
  <2>5. CASE RemoveSize(t) \/ Removed(t)
    <3>1. t \in Players /\ UNCHANGED <<array, copy>>
      <4>1. CASE RemoveSize(t)
        BY <1>0, <4>1, RemoveSizeMeans
      <4>2. CASE Removed(t)
        BY <1>0, <4>2, RemovedMeans
      <4> QED BY <2>5, <4>1, <4>2
    <3>2. RemoveSize(t) => Sees(t)
      BY <1>0, RemoveSizeMeans DEF At
    <3>3. Removed(t) => ~Sees(t)'
      <4>1. ASSUME Removed(t) PROVE ~Sees(t)'
        <5>1. call'[t] = NoCall /\ ~Free(t) /\ pc' = pc /\ t \in Players
          BY <1>0, <2>1, <4>1, RemovedMeans
        <5>2. call'[t].op = "none" /\ pc'[t] = "loop"
          BY <1>0, <5>1 DEF NoCall, CallsInv
        <5> QED BY <5>2 DEF At
      <4> QED BY <4>1
    <3>4. Copied'
      BY <1>1, <2>1, <3>1 DEF Untouched, At, First
    <3>5. Sees(t)' => First # Null
      BY <1>1, <2>5, <3>1, <3>2, <3>3
    <3> QED BY <1>1, <2>1, <3>1, <3>4, <3>5 DEF Untouched, At, First
  <2>6. CASE Move(t) \/ DropLast(t)
    <3>1. /\ t \in Players /\ UNCHANGED copy /\ call[t].op = "move" /\ OtherPlaces(call[t].i)
          /\ call[t].i \in Index /\ (call'[t].i > 0 \/ call'[t].op = "removed")
          /\ call'[t].op \in {"move", "removed"}
      <4>1. CASE Move(t)
        <5>1. call'[t].i = call[t].i + 1 /\ call[t].i \in Nat
          BY <1>0, <4>1, MoveMeans, CallTyped
        <5>2. call'[t].i > 0
          BY <5>1
        <5> QED BY <1>0, <4>1, <5>2, MoveMeans
      <4>2. CASE DropLast(t)
        BY <1>0, <4>2, DropLastMeans
      <4> QED BY <2>6, <4>1, <4>2
    <3>2. pc[t] = "loop" /\ \A h \in Players \ {t} : pc[h] = "new" /\ Free(h)
      BY <1>0, <2>1, <3>1, LonePlayer DEF CallsInv
    <3>3. \A h \in Players : ~Sees(h)'
      BY <1>0, <2>1, <3>1, <3>2 DEF Untouched, At, Free
    <3>4. call[t].i # 0 => First' = First
      <4>1. call[t].i # 0 => 0 \in Index
        BY <1>0, <3>1, CallTyped DEF Index
      <4> QED BY <3>1, <4>1 DEF OtherPlaces, First
    <3>5. call[t].i = 0 => First # Null
      BY <1>1, <3>1 DEF At
    <3>6. Copied'
      BY <1>1, <2>1, <3>1, <3>4, <3>5 DEF Untouched, At
    <3> QED BY <3>3, <3>6
  <2> QED BY <1>6, <2>1, <2>2, <2>3, <2>4, <2>5, <2>6, InListMeans
<1> QED BY <1>2, <1>3, <1>4, <1>5, <1>6, UiStepMeans DEF Next

\* In quiet an add() that copies the array is alone in the list.
LEMMA GrowsAlone ==
  ASSUME CallsInv, Quiet
  PROVE  ~torn /\ (At(Net, "grow") => \A t \in Threads \ {Net} : Free(t))
  BY DEF CallsInv, Quiet

\* So nobody works on an array that was replaced, and the copy is true.
LEMMA StepWhole == TypeOK /\ CallsInv /\ WholeInv /\ Next => WholeInv'
<1> SUFFICES ASSUME TypeOK, CallsInv, WholeInv, Next, Quiet', CallsInv'
             PROVE  (/\ \A g \in Players : call[g].op \in Removes => call[g].a = length
                     /\ At(Net, "grow") => /\ size = call[Net].s
                                           /\ \A j \in 0..call[Net].i - 1 : copy[j] = array[j])'
  BY StepCalls DEF WholeInv
<1> USE ThreadsDiffer
<1> DEFINE Held(g) == call[g].op \in Removes => call[g].a = length
           Faithful == At(Net, "grow") => /\ size = call[Net].s
                                      /\ \A j \in 0..call[Net].i - 1 : copy[j] = array[j]
<1>0. /\ ListTypeOK /\ CallsOK /\ Quiet
      /\ At(Net, "grow") => \A t \in Threads \ {Net} : Free(t)
      /\ At(Net, "grow")' => \A t \in Threads \ {Net} : Free(t)'
  <2>1. ListTypeOK /\ CallsOK /\ Quiet
    BY QuietBefore DEF TypeOK
  <2>2. At(Net, "grow") => \A t \in Threads \ {Net} : Free(t)
    BY <2>1, GrowsAlone
  <2>3. At(Net, "grow")' => \A t \in Threads \ {Net} : Free(t)'
    BY DEF CallsInv, Quiet
  <2> QED BY <2>1, <2>2, <2>3
<1>1. Faithful /\ \A g \in Players : Held(g)
  BY <1>0 DEF WholeInv
<1>2. CASE Arrive
  <2>1. /\ UNCHANGED <<array, length, size>> /\ Untouched(Net)
        /\ call'[Net].s = size /\ call'[Net].i = 0
    BY <1>0, <1>2, ArriveMeans
  <2>2. \A g \in Players : call'[g] = call[g]
    BY <2>1 DEF Untouched
  <2>3. Faithful'
    BY <2>1
  <2> QED BY <1>1, <2>1, <2>2, <2>3
<1>3. CASE UiAside
  BY <1>1, <1>3 DEF UiAside, list, At
<1>4. CASE ClearList
  <2>1. UNCHANGED <<array, length, size, copy>> /\ (UNCHANGED call \/ Untouched(Ui))
    BY <1>0, <1>4, ClearListMeans, ClearListCalls
  <2>2. call'[Net] = call[Net] /\ \A g \in Players : call'[g] = call[g]
    BY <2>1 DEF Untouched
  <2> QED BY <1>1, <2>1, <2>2 DEF At
<1>5. ASSUME NEW g \in Players, PlayerStep(g) PROVE Faithful' /\ \A h \in Players : Held(h)'
  <2>1. UNCHANGED <<array, length, size, copy>>
    BY <1>5, PlayerStepMeans
  <2>2. CASE UNCHANGED call
    BY <1>1, <2>1, <2>2 DEF At
  <2>3. CASE RemoveFirst(g)
    <3>1. Untouched(g) /\ call'[g].a = length
      BY <1>0, <2>3, EnterMeans DEF RemoveFirst
    <3>2. call'[Net] = call[Net] /\ \A h \in Players \ {g} : call'[h] = call[h]
      BY <3>1 DEF Untouched
    <3> QED BY <1>1, <2>1, <3>1, <3>2 DEF At
  <2> QED BY <1>5, <2>2, <2>3, PlayerStepMeans
<1>6. ASSUME NEW t \in Threads, InList(t) PROVE Faithful' /\ \A h \in Players : Held(h)'
  <2>1. Untouched(t) /\ ~Free(t)
    BY <1>6, InListMeans
  <2>2. ASSUME t = Net, length' = length PROVE \A h \in Players : Held(h)'
    BY <1>1, <2>1, <2>2 DEF Untouched
  <2>3. ASSUME t # Net PROVE Faithful'
    <3>1. call'[Net] = call[Net]
      BY <2>1, <2>3 DEF Untouched
    <3>2. ~At(Net, "grow")
      BY <1>0, <2>1, <2>3
    <3> QED BY <3>1, <3>2 DEF At
  <2>4. CASE Copy(t)
    <3>1. /\ t = Net /\ call[Net].op = "grow" /\ call'[Net] = [call[Net] EXCEPT !.i = call[Net].i + 1]
          /\ call[Net].i \in Index /\ UNCHANGED <<array, length, size>>
          /\ copy \in [0..Longer(length) - 1 -> Item \cup {Null}]
          /\ copy' = [copy EXCEPT ![call[Net].i] = array[call[Net].i]]
      BY <1>0, <2>4, CopyMeans
    <3>2. call'[Net].i = call[Net].i + 1 /\ call'[Net].s = call[Net].s /\ call[Net].i \in Nat
      BY <1>0, <3>1, CallTyped DEF Call
    <3>3. length \in Nat /\ Longer(length) \in Nat /\ length < Longer(length)
      BY <1>0, LongerIsLonger DEF ListTypeOK
    <3>4. ASSUME NEW j \in 0..call'[Net].i - 1 PROVE copy'[j] = array[j]
      <4>1. j \in 0..Longer(length) - 1 /\ call[Net].i \in 0..Longer(length) - 1
        BY <3>1, <3>2, <3>3 DEF Index
      <4>2. CASE j = call[Net].i
        BY <3>1, <4>1, <4>2
      <4>3. CASE j # call[Net].i
        <5>1. j \in 0..call[Net].i - 1
          BY <3>2, <4>3
        <5> QED BY <1>1, <3>1, <4>1, <4>3, <5>1 DEF At
      <4> QED BY <4>2, <4>3
    <3>5. Faithful'
      BY <1>1, <3>1, <3>2, <3>4 DEF At
    <3> QED BY <2>2, <3>1, <3>5
  <2>5. CASE Replace(t)
    <3>1. t = Net /\ call[Net].op = "grow" /\ call'[Net] = [call[Net] EXCEPT !.op = "add"]
      BY <1>0, <2>5, ReplaceMeans
    <3>2. call'[Net].op = "add"
      BY <1>0, <3>1, CallTyped DEF Call
    <3>3. \A h \in Players : call'[h].op = "none"
      BY <1>0, <2>1, <3>1 DEF Untouched, At, Free
    <3> QED BY <3>2, <3>3 DEF At, Removes
  <2>6. CASE Store(t)
    <3>1. t = Net /\ length' = length /\ call[Net] \in Call /\ call'[Net] = [call[Net] EXCEPT !.op = "added"]
      BY <1>0, <2>6, StoreMeans, CallTyped
    <3>2. call'[Net].op = "added"
      BY <3>1 DEF Call
    <3> QED BY <2>2, <3>1, <3>2 DEF At
  <2>7. CASE Added(t)
    <3>1. t = Net /\ length' = length /\ call'[Net] = NoCall
      BY <1>0, <2>7, AddedMeans
    <3> QED BY <2>2, <3>1 DEF At, NoCall
  <2>8. ASSUME RemoveSize(t) \/ Move(t) \/ DropLast(t) \/ Removed(t)
        PROVE  Faithful' /\ \A h \in Players : Held(h)'
    <3>1. /\ t \in Players /\ length' = length /\ call[t].op \in Removes
          /\ call'[t] = NoCall \/ call'[t].a = call[t].a
      <4>1. CASE RemoveSize(t)
        BY <1>0, <4>1, RemoveSizeMeans DEF Removes
      <4>2. CASE Move(t)
        BY <1>0, <4>2, MoveMeans DEF Removes
      <4>3. CASE DropLast(t)
        BY <1>0, <4>3, DropLastMeans DEF Removes
      <4>4. CASE Removed(t)
        BY <1>0, <4>4, RemovedMeans DEF Removes
      <4> QED BY <2>8, <4>1, <4>2, <4>3, <4>4
    <3>2. Held(t)'
      <4>1. CASE call'[t] = NoCall
        BY <4>1 DEF NoCall, Removes
      <4>2. CASE call'[t].a = call[t].a
        BY <1>1, <3>1, <4>2
      <4> QED BY <3>1, <4>1, <4>2
    <3>3. \A h \in Players \ {t} : Held(h)'
      BY <1>1, <2>1, <3>1 DEF Untouched
    <3> QED BY <2>3, <3>1, <3>2, <3>3
  <2>9. CASE ClearArray(t) \/ ClearSize(t) \/ Erase(t) \/ Cleared(t)
    <3>1. t = Ui /\ length' = length
      BY <1>0, <2>9, ClearMeans
    <3>2. \A h \in Players : call'[h] = call[h]
      BY <2>1, <3>1 DEF Untouched
    <3> QED BY <1>1, <2>3, <3>1, <3>2
  <2> QED BY <1>6, <2>4, <2>5, <2>6, <2>7, <2>8, <2>9, InListMeans
<1> QED BY <1>2, <1>3, <1>4, <1>5, <1>6, UiStepMeans DEF Next

\* The end of the list: add() stores behind what a remove(0) moves.
LEMMA StepEnd == TypeOK /\ CallsInv /\ HeadInv /\ WholeInv /\ EndInv /\ Next => EndInv'
<1> SUFFICES ASSUME TypeOK, CallsInv, HeadInv, WholeInv, EndInv, Next, Quiet', CallsInv'
             PROVE  (/\ ~Free(Net) => /\ size <= call[Net].s /\ (raced = {} => size = call[Net].s)
                                      /\ \A g \in Players : Removing(g) => call[g].s <= call[Net].s
                                      /\ At(Net, "added") => array[call[Net].s] = came
                     /\ \A g \in Players : At(g, "removed") =>
                          call[g].i = call[g].s - 1 /\ array[call[g].i] = Null)'
  BY StepCalls DEF EndInv
<1> USE ThreadsDiffer
<1> DEFINE Adding == ~Free(Net) => /\ size <= call[Net].s /\ (raced = {} => size = call[Net].s)
                                   /\ \A g \in Players : Removing(g) => call[g].s <= call[Net].s
                                   /\ At(Net, "added") => array[call[Net].s] = came
           Nulled(g) == At(g, "removed") => call[g].i = call[g].s - 1 /\ array[call[g].i] = Null
<1>0. /\ ListTypeOK /\ CallsOK /\ OnePlayer /\ OnePlayer' /\ Quiet /\ size \in Nat
      /\ raced \subseteq raced' /\ (raced' # {} => Peace)
      /\ (At(Net, "grow") => \A t \in Threads \ {Net} : Free(t))
  <2>1. /\ ListTypeOK /\ CallsOK /\ OnePlayer /\ OnePlayer' /\ Quiet /\ size \in Nat
        /\ raced \subseteq raced' /\ (raced' # {} => Peace)
    BY QuietBefore DEF TypeOK, Quiet, Peace, ListTypeOK
  <2> QED BY <2>1, GrowsAlone
<1>1. Adding /\ \A g \in Players : Nulled(g)
  BY <1>0 DEF EndInv
<1>9. \A t \in Threads : call[t].s \in Nat /\ call[t].i \in Nat
  BY <1>0, CallTyped
<1>2. CASE Arrive
  <2>1. /\ Untouched(Net) /\ call'[Net].s = size /\ call'[Net].op \in {"grow", "add"}
        /\ UNCHANGED <<array, size, clears>> /\ ~Free(Net)'
    BY <1>0, <1>2, ArriveMeans
  <2>2. \A g \in Players : Removing(g) => call[g].s <= size
    <3>1. CASE raced' # {}
      BY <1>0, <3>1 DEF HeadInv
    <3>2. CASE raced' = {}
      BY <2>1, <3>2 DEF CallsInv, Untouched, Free, Removing
    <3> QED BY <3>1, <3>2
  <2>3. \A g \in Players : call'[g] = call[g]
    BY <2>1 DEF Untouched
  <2> QED BY <1>0, <1>1, <2>1, <2>2, <2>3 DEF Removing, At
<1>3. CASE UiAside
  BY <1>0, <1>1, <1>3 DEF UiAside, list, Removing, At, Free
<1>4. CASE ClearList
  <2>1. UNCHANGED <<array, size, came>> /\ (UNCHANGED call \/ Untouched(Ui))
    BY <1>0, <1>4, ClearListMeans, ClearListCalls
  <2>2. call'[Net] = call[Net] /\ \A g \in Players : call'[g] = call[g]
    BY <2>1 DEF Untouched
  <2> QED BY <1>0, <1>1, <2>1, <2>2 DEF Removing, At, Free
<1>5. ASSUME NEW g \in Players, PlayerStep(g) PROVE Adding' /\ \A h \in Players : Nulled(h)'
  <2>1. UNCHANGED <<array, size, came>>
    BY <1>5, PlayerStepMeans
  <2>2. CASE UNCHANGED call
    BY <1>0, <1>1, <2>1, <2>2 DEF Removing, At, Free
  <2>3. CASE RemoveFirst(g)
    <3>1. Untouched(g) /\ call'[g].op = "remove"
      BY <1>0, <2>3, EnterMeans DEF RemoveFirst
    <3>2. call'[Net] = call[Net] /\ \A h \in Players \ {g} : call'[h] = call[h]
      BY <3>1 DEF Untouched
    <3> QED BY <1>0, <1>1, <2>1, <3>1, <3>2 DEF Removing, At, Free
  <2> QED BY <1>5, <2>2, <2>3, PlayerStepMeans
<1>6. ASSUME NEW t \in Threads, InList(t) PROVE Adding' /\ \A h \in Players : Nulled(h)'
  <2>1. UNCHANGED <<came, pc, m_out_bytes, clears>> /\ Untouched(t) /\ ~Free(t)
    BY <1>6, InListMeans
  <2>2. ASSUME t = Net PROVE \A g \in Players : call'[g] = call[g]
    BY <2>1, <2>2 DEF Untouched
  <2>3. CASE Copy(t)
    <3>1. /\ t = Net /\ UNCHANGED <<array, size>> /\ call[Net].op = "grow" /\ call[Net] \in Call
          /\ call'[Net] = [call[Net] EXCEPT !.i = call[Net].i + 1]
      BY <1>0, <2>3, CopyMeans, CallTyped
    <3>2. call'[Net].op = "grow" /\ call'[Net].s = call[Net].s
      BY <3>1 DEF Call
    <3> QED BY <1>0, <1>1, <2>1, <2>2, <3>1, <3>2 DEF Removing, At, Free
  <2>4. CASE Replace(t)
    <3>1. /\ t = Net /\ UNCHANGED <<size>> /\ call[Net].op = "grow" /\ call[Net] \in Call
          /\ call'[Net] = [call[Net] EXCEPT !.op = "add"]
      BY <1>0, <2>4, ReplaceMeans, CallTyped
    <3>2. call'[Net].op = "add" /\ call'[Net].s = call[Net].s
      BY <3>1 DEF Call
    <3>3. \A g \in Players : call'[g].op = "none"
      BY <1>0, <2>2, <3>1 DEF At, Free
    <3> QED BY <1>0, <1>1, <2>1, <3>1, <3>2, <3>3 DEF Removing, At, Free
  <2>5. CASE Store(t)
    <3>0. /\ t = Net /\ call[Net].op = "add" /\ call'[Net].s = call[Net].s /\ size' = size
          /\ OtherPlaces(call[Net].s) /\ array'[call[Net].s] = call[Net].x /\ call[Net].s \in Index
      BY <1>0, <2>5, StoreMeans
    <3>1. call[Net].x = came /\ ~Free(Net)
      BY <1>0, <3>0 DEF CallsInv, Free
    <3>2. \A g \in Players : Nulled(g)'
      <4> TAKE g \in Players
      <4>1. At(g, "removed") => call[g].i \in Index /\ call[g].i # call[Net].s
        <5> SUFFICES ASSUME At(g, "removed") PROVE call[g].i \in Index /\ call[g].i # call[Net].s
          OBVIOUS
        <5>1. call[g].s <= call[Net].s /\ call[g].i = call[g].s - 1
          BY <1>1, <3>1 DEF At, Removing
        <5>2. call[g].i < call[g].s /\ call[g].s <= call[g].a /\ call[g].a <= length /\ length \in Nat
          BY <1>0, CallTyped DEF At, InRange
        <5> QED BY <1>9, <5>1, <5>2, CallTyped, <1>0 DEF Index
      <4> QED BY <1>1, <2>2, <3>0, <4>1 DEF OtherPlaces, At
    <3> QED BY <1>0, <1>1, <2>1, <2>2, <3>0, <3>1, <3>2 DEF Removing, At
  <2>6. CASE Added(t)
    <3>1. t = Net /\ call'[Net] = NoCall /\ UNCHANGED array
      BY <1>0, <2>6, AddedMeans
    <3>2. Free(Net)'
      BY <3>1 DEF Free, NoCall
    <3> QED BY <1>1, <2>2, <3>1, <3>2 DEF At
  <2>7. ASSUME RemoveSize(t) \/ Move(t) \/ DropLast(t) \/ Removed(t)
        PROVE  Adding' /\ \A h \in Players : Nulled(h)'
    <3>1. t \in Players /\ call[t].op \in Removes
      BY <1>0, <2>7, RemoveSizeMeans, MoveMeans, DropLastMeans, RemovedMeans DEF Removes
    <3>2. /\ pc[t] = "loop" /\ \A h \in Players \ {t} : Free(h)
          /\ call[t].a = length
      BY <1>0, <2>1, <3>1, LonePlayer DEF CallsInv, WholeInv
    <3>3. call'[Net] = call[Net] /\ \A h \in Players \ {t} : call'[h].op = "none"
      BY <2>1, <3>1, <3>2 DEF Untouched, Free
    <3>4. ASSUME ~Free(Net) PROVE raced' # {} /\ call[Net].s \in Nat /\ size <= call[Net].s
      BY <1>0, <1>1, <1>9, <2>1, <3>1, <3>4 DEF CallsInv
    <3>5. ASSUME ~Free(Net), Removing(t) PROVE call[t].s <= call[Net].s
      BY <1>1, <3>1, <3>5
    <3>6. CASE RemoveSize(t)
      <4>1. /\ UNCHANGED <<array, size>>
            /\ call'[t] = NoCall \/ (call'[t].op = "move" /\ call'[t].s = size)
        BY <1>0, <3>6, RemoveSizeMeans
      <4>2. /\ call'[t].op # "removed"
            /\ Removing(t)' => call'[t].s = size
        BY <4>1 DEF Removing, NoCall
      <4>3. Adding'
        <5>1. ASSUME ~Free(Net)'
              PROVE (/\ size <= call[Net].s /\ (raced = {} => size = call[Net].s)
                     /\ \A g \in Players : Removing(g) => call[g].s <= call[Net].s
                     /\ At(Net, "added") => array[call[Net].s] = came)'
          <6>1. ~Free(Net)
            BY <3>3, <5>1 DEF Free
          <6>2. \A g \in Players : Removing(g)' => g = t
            BY <3>3 DEF Removing
          <6> QED BY <1>1, <2>1, <3>3, <3>4, <4>1, <4>2, <6>1, <6>2 DEF At
        <5> QED BY <5>1
      <4> QED BY <3>3, <4>2, <4>3 DEF At
    <3>7. CASE Move(t)
      <4>1. /\ call'[t].op = "move" /\ call'[t].s = call[t].s /\ UNCHANGED size
            /\ OtherPlaces(call[t].i) /\ call[t].op = "move" /\ call[t].i + 1 < call[t].s
        BY <1>0, <3>7, MoveMeans
      <4>2. ASSUME ~Free(Net)
            PROVE call[Net].s # call[t].i /\ (At(Net, "added") => call[Net].s \in Index)
        <5>1. call[t].s <= call[Net].s /\ call[t].s \in Nat /\ call[t].i \in Nat /\ call[Net].s \in Nat
          BY <1>9, <3>1, <3>4, <3>5, <4>1, <4>2 DEF Removing
        <5>2. At(Net, "added") => call[Net].s \in Index
          BY <1>0, <5>1, CallTyped DEF At, InRange, Index
        <5> QED BY <4>1, <5>1, <5>2
      <4>3. Adding'
        <5>1. At(Net, "added") => ~Free(Net)
          BY DEF At, Free
        <5>2. At(Net, "added") => array'[call[Net].s] = array[call[Net].s]
          BY <4>1, <4>2, <5>1 DEF OtherPlaces
        <5>3. \A g \in Players : Removing(g)' => g = t /\ Removing(t) /\ call'[t].s = call[t].s
          BY <3>3, <4>1 DEF Removing
        <5> QED BY <1>1, <2>1, <3>3, <3>4, <3>5, <4>1, <5>2, <5>3 DEF At, Free
      <4> QED BY <3>3, <4>1, <4>3 DEF At
    <3>8. CASE DropLast(t)
      <4>1. /\ call'[t].op = "removed" /\ call'[t].s = call[t].s /\ UNCHANGED size
            /\ OtherPlaces(call[t].i) /\ call[t].op = "move" /\ call[t].i = call[t].s - 1
            /\ call'[t].i = call[t].i /\ array'[call[t].i] = Null
        BY <1>0, <3>2, <3>8, DropLastMeans
      <4>2. ASSUME ~Free(Net)
            PROVE call[Net].s # call[t].i /\ (At(Net, "added") => call[Net].s \in Index)
        <5>1. call[t].s <= call[Net].s /\ call[t].s \in Nat /\ call[t].i \in Nat /\ call[Net].s \in Nat
          BY <1>9, <3>1, <3>4, <3>5, <4>1, <4>2 DEF Removing
        <5>2. At(Net, "added") => call[Net].s \in Index
          BY <1>0, <5>1, CallTyped DEF At, InRange, Index
        <5> QED BY <4>1, <5>1, <5>2
      <4>3. Adding'
        <5>1. At(Net, "added") => ~Free(Net)
          BY DEF At, Free
        <5>2. At(Net, "added") => array'[call[Net].s] = array[call[Net].s]
          BY <4>1, <4>2, <5>1 DEF OtherPlaces
        <5>3. \A g \in Players : Removing(g)' => g = t /\ Removing(t) /\ call'[t].s = call[t].s
          BY <3>3, <4>1 DEF Removing
        <5> QED BY <1>1, <2>1, <3>3, <3>4, <3>5, <4>1, <5>2, <5>3 DEF At, Free
      <4> QED BY <3>3, <4>1, <4>3 DEF At
    <3>9. CASE Removed(t)
      <4>1. call[t].op = "removed" /\ call'[t] = NoCall /\ UNCHANGED array /\ size' = call[t].s - 1
        BY <1>0, <3>9, RemovedMeans
      <4>2. \A g \in Players : call'[g].op = "none"
        BY <3>3, <4>1 DEF NoCall
      <4>3. ~Free(Net) => size' <= call[Net].s /\ raced' # {}
        BY <1>9, <3>1, <3>4, <3>5, <4>1 DEF Removing
      <4> QED BY <1>1, <2>1, <3>3, <4>1, <4>2, <4>3 DEF Removing, At, Free
    <3> QED BY <2>7, <3>6, <3>7, <3>8, <3>9
  <2>8. CASE ClearArray(t) \/ ClearSize(t) \/ Erase(t) \/ Cleared(t)
    <3>1. /\ t = Ui /\ \A i \in Index : array'[i] = array[i] \/ array'[i] = Null
      BY <1>0, <2>8, ClearMeans
    <3>2. Free(Net) /\ call'[Net] = call[Net] /\ \A g \in Players : call'[g] = call[g]
      <4>1. clears # 0 /\ raced = {}
        BY <1>0, <2>1, <3>1 DEF CallsInv, Quiet
      <4> QED BY <2>1, <3>1, <4>1 DEF CallsInv, Untouched
    <3>3. \A g \in Players : At(g, "removed") => call[g].i \in Index
      <4> TAKE g \in Players
      <4> QED BY <1>0, CallTyped DEF At, InRange, Index
    <3> QED BY <1>1, <3>1, <3>2, <3>3 DEF At, Free
  <2> QED BY <1>6, <2>3, <2>4, <2>5, <2>6, <2>7, <2>8, InListMeans
<1> QED BY <1>2, <1>3, <1>4, <1>5, <1>6, UiStepMeans DEF Next

-----------------------------------------------------------------------------
\* The order of what is left, and of what was played.

\* What is compared are numbers.
LEMMA PacketsAreNumbers ==
  ASSUME TypeOK
  PROVE  /\ \A i \in Index : array[i] \in Int \/ array[i] = Null
         /\ Fresh \in Int /\ Len(played) \in Nat
         /\ \A k \in 1..Len(played) : played[k] \in Int
         /\ \A g \in Players : pc[g] = "play" => m_out_bytes[g] \in Int
<1>1. \A x \in Item : x \in Int
  BY PlaybackAssumption
<1>2. \A i \in Index : array[i] \in Int \/ array[i] = Null
  BY <1>1 DEF TypeOK, ListTypeOK, Index
<1>3. Fresh \in Int
  BY PlaybackAssumption DEF TypeOK, Fresh
<1>4. Len(played) \in Nat /\ \A k \in 1..Len(played) : played[k] \in Item
  BY DEF TypeOK
<1>5. \A g \in Players : pc[g] = "play" => m_out_bytes[g] \in Int
  BY <1>1 DEF TypeOK
<1> QED BY <1>1, <1>2, <1>3, <1>4, <1>5

\* Packets that only move down without overtaking each other stay in order.
LEMMA StaysOrdered ==
  ASSUME TypeOK, TypeOK', Ordered, NEW from,
         \A i \in Index' : Left(i)' => /\ Left(from[i]) /\ array'[i] = array[from[i]]
                                       /\ i > 0 => from[i] > 0,
         \A i, j \in Index' : Left(i)' /\ Left(j)' /\ i < j => from[i] < from[j],
         Fresh <= Fresh', UNCHANGED played,
         \A g \in Players : pc'[g] = "play" => pc[g] = "play" /\ m_out_bytes'[g] = m_out_bytes[g]
  PROVE  Ordered'
<1>0. /\ Fresh \in Int /\ Fresh' \in Int
      /\ \A i \in Index : Left(i) => array[i] \in Int
      /\ \A k \in 1..Len(played) : played[k] \in Int
      /\ \A g \in Players : pc[g] = "play" => m_out_bytes[g] \in Int
  <2>1. Fresh' \in Int
    BY PlaybackAssumption DEF TypeOK, Fresh
  <2> QED BY <2>1, PacketsAreNumbers DEF Left
<1>9. \A i \in Index' : Left(i)' => from[i] \in Index
  BY DEF Left
<1>1. (\A i, j \in Index : Left(i) /\ Left(j) /\ i < j => array[i] < array[j])'
  BY <1>9 DEF Ordered
<1>2. (\A i \in Index : Left(i) => array[i] < Fresh)'
  BY <1>0, <1>9 DEF Ordered
<1>3. (\A k \in 1..Len(played) : played[k] < Fresh /\ \A i \in Index : Left(i) => played[k] < array[i])'
  BY <1>0, <1>9 DEF Ordered
<1>4. (\A k, l \in 1..Len(played) : k < l => played[k] < played[l])'
  BY DEF Ordered
<1>5. ASSUME NEW g \in Players, pc'[g] = "play"
      PROVE  (/\ m_out_bytes[g] < Fresh
              /\ \A k \in 1..Len(played) : played[k] < m_out_bytes[g]
              /\ \A i \in Index : Left(i) /\ i > 0 => m_out_bytes[g] < array[i])'
  <2>1. pc[g] = "play" /\ m_out_bytes'[g] = m_out_bytes[g]
    BY <1>5
  <2>2. /\ m_out_bytes[g] < Fresh
        /\ \A k \in 1..Len(played) : played[k] < m_out_bytes[g]
        /\ \A i \in Index : Left(i) /\ i > 0 => m_out_bytes[g] < array[i]
    BY <2>1 DEF Ordered
  <2> QED BY <1>0, <1>9, <2>1, <2>2
<1> QED BY <1>1, <1>2, <1>3, <1>4, <1>5 DEF Ordered

\* So do packets that stay where they are, or leave the list.
LEMMA StaysInPlace ==
  ASSUME TypeOK, TypeOK', Ordered,
         \A i \in Index' : Left(i)' => Left(i) /\ array'[i] = array[i],
         Fresh <= Fresh', UNCHANGED played,
         \A g \in Players : pc'[g] = "play" => pc[g] = "play" /\ m_out_bytes'[g] = m_out_bytes[g]
  PROVE  Ordered'
<1>1. PICK from : from = [i \in Index' |-> i]
  OBVIOUS
<1>2. \A i \in Index' : from[i] = i
  BY <1>1
<1> QED BY <1>2, StaysOrdered

\* What a step leaves where it is: the list and the calls of the players.
LEMMA LeftStays ==
  ASSUME UNCHANGED <<array, length, size>>,
         \A g \in Players : /\ call'[g] = call[g] /\ (pc[g] = "drop" => pc'[g] = "drop")
                            /\ pc'[g] = "read" => pc[g] = "read" \/ size > 0,
         \/ Free(Net)'
         \/ call'[Net].op \in {"grow", "add"} /\ call'[Net].s = size
         \/ call'[Net].op = call[Net].op /\ call'[Net].s = call[Net].s,
         NEW i \in Index', Left(i)'
  PROVE  Left(i) /\ array'[i] = array[i]
<1>1. i \in Index /\ array'[i] = array[i] /\ array[i] # Null
  BY DEF Left, Index
<1>2. ~Gone(i)
  BY DEF Left, Gone, At
<1>3. Reach(i)
  <2>1. CASE \E g \in Players : pc'[g] = "read" /\ i = 0
    BY <2>1 DEF Reach
  <2>2. CASE ~\E g \in Players : pc'[g] = "read" /\ i = 0
    BY <2>2 DEF Left, Reach, Removing, At, Free
  <2> QED BY <2>1, <2>2
<1> QED BY <1>1, <1>2, <1>3 DEF Left

\* A packet is read to be played ...
LEMMA ReadOrdered ==
  ASSUME TypeOK, CallsInv, OnePlayer, Ordered, NEW g \in Players, PlayerStep(g),
         pc[g] = "read", pc'[g] = "play"
  PROVE  Ordered'
<1> DEFINE m == array[0]
<1>1. /\ Free(g) /\ m # Null /\ m_out_bytes'[g] = m
      /\ UNCHANGED <<array, length, size, call, came, played>>
      /\ \A h \in Players \ {g} : pc'[h] = pc[h]
  BY PlayerStepMeans DEF First, Idle
<1>2. \A h \in Players \ {g} : pc[h] = "new" /\ Free(h)
  BY LonePlayer
<1>3. \A i \in Index' : i \in Index /\ (Left(i)' => Left(i))
  BY <1>1, <1>2 DEF Left, Reach, Gone, Removing, At, Free, Index
<1>4. Left(0) /\ 0 \in Index
  <2>1. length > 0 /\ length \in Nat
    BY DEF TypeOK, ListTypeOK
  <2> QED BY <1>1, <1>2, <2>1 DEF Left, Reach, Gone, At, Free, Index
<1>5. Fresh' = Fresh
  BY <1>1 DEF Fresh
<1>6. /\ m < Fresh /\ \A k \in 1..Len(played) : played[k] < m
      /\ \A i \in Index : Left(i) /\ i > 0 => m < array[i]
  BY <1>4 DEF Ordered
<1>7. \A h \in Players : pc'[h] = "play" => h = g
  BY <1>1, <1>2
<1> QED BY <1>1, <1>3, <1>5, <1>6, <1>7 DEF Ordered

\* ... and then it is the last one played, and its place is gone.
LEMMA PlayOrdered ==
  ASSUME TypeOK, TypeOK', CallsInv, OnePlayer, Ordered, NEW g \in Players, PlayerStep(g),
         pc[g] = "play"
  PROVE  Ordered'
<1> DEFINE m == m_out_bytes[g]
           n == Len(played)
<1>1. /\ Free(g) /\ pc'[g] = "drop" /\ played' = Append(played, m)
      /\ UNCHANGED <<array, length, size, call, came>>
      /\ \A h \in Players \ {g} : pc'[h] = pc[h]
  BY PlayerStepMeans DEF Idle
<1>2. \A h \in Players \ {g} : pc[h] = "new" /\ Free(h)
  BY LonePlayer
<1>3. /\ n \in Nat /\ Len(played') = n + 1 /\ played'[n + 1] = m
      /\ \A k \in 1..n : played'[k] = played[k]
  BY <1>1 DEF TypeOK
<1>4. \A i \in Index' : Left(i)' => i \in Index /\ Left(i) /\ i > 0 /\ array'[i] = array[i]
  <2> SUFFICES ASSUME NEW i \in Index', Left(i)'
               PROVE  i \in Index /\ Left(i) /\ i > 0 /\ array'[i] = array[i]
    OBVIOUS
  <2>0. i \in Index /\ i \in Nat
    BY <1>1 DEF Index, TypeOK, ListTypeOK
  <2>1. i # 0
    BY <1>1 DEF Gone, Left
  <2>2. ~Gone(i)
    BY <1>1, <1>2, <2>1 DEF Gone, At, Free
  <2> QED BY <1>1, <1>2, <2>0, <2>1, <2>2 DEF Left, Reach, Removing, Free, At
<1>5. Fresh' = Fresh
  BY <1>1 DEF Fresh
<1>6. /\ m < Fresh /\ \A k \in 1..n : played[k] < m
      /\ \A i \in Index : Left(i) /\ i > 0 => m < array[i]
  BY DEF Ordered
<1>7. \A h \in Players : pc'[h] # "play"
  BY <1>1, <1>2
<1>8. \A k \in 1..n + 1 : k = n + 1 \/ k \in 1..n
  BY <1>3
<1>9. (\A k \in 1..Len(played) : played[k] < Fresh /\ \A i \in Index : Left(i) => played[k] < array[i])'
  BY <1>3, <1>4, <1>5, <1>6, <1>8 DEF Ordered
<1>10. (\A k, l \in 1..Len(played) : k < l => played[k] < played[l])'
  BY <1>3, <1>6, <1>8 DEF Ordered
<1>11. (\A i \in Index : Left(i) => array[i] < Fresh)'
  BY <1>4, <1>5 DEF Ordered
<1>12. (\A i, j \in Index : Left(i) /\ Left(j) /\ i < j => array[i] < array[j])'
  BY <1>4 DEF Ordered
<1> QED BY <1>7, <1>9, <1>10, <1>11, <1>12 DEF Ordered

\* The step of an add() that stores the packet.
LEMMA StoreOrdered ==
  ASSUME TypeOK, CallsInv, EndInv, Quiet, Ordered, NEW t \in Threads, Store(t),
         UNCHANGED <<came, pc, m_out_bytes, played>>
  PROVE  Ordered'
<1> USE ThreadsDiffer
<1> DEFINE s == call[Net].s
<1>0. ListTypeOK /\ CallsOK /\ came \in Nat
  BY PlaybackAssumption DEF TypeOK
<1>1. /\ call[Net].op = "add" /\ call'[Net].op = "added" /\ call'[Net].s = s
      /\ Untouched(Net) /\ UNCHANGED <<length, size>> /\ OtherPlaces(s) /\ s \in Index
      /\ array'[s] = call[Net].x
  <2>1. t = Net /\ call[Net] \in Call /\ call'[Net] = [call[Net] EXCEPT !.op = "added"]
    BY <1>0, StoreMeans, CallTyped
  <2>2. call'[Net].op = "added"
    BY <2>1 DEF Call
  <2> QED BY <1>0, <2>1, <2>2, StoreMeans
<1>2. /\ array'[s] = came /\ size <= s /\ \A g \in Players : Removing(g) => call[g].s <= s
  BY <1>1 DEF EndInv, At, Free, CallsInv
<1>9. length \in Nat /\ size \in Nat /\ \A g \in Players : call[g].s \in Nat
  BY <1>0, CallTyped
<1>3. \A i \in Index' : Left(i)' => i \in Index /\ (i = s \/ (i < s /\ Left(i) /\ array'[i] = array[i]))
  <2> SUFFICES ASSUME NEW i \in Index', Left(i)'
               PROVE  i \in Index /\ (i = s \/ (i < s /\ Left(i) /\ array'[i] = array[i]))
    OBVIOUS
  <2>0. i \in Index /\ i \in Nat /\ s \in Nat /\ \A g \in Players : call'[g] = call[g]
    BY <1>1, <1>9 DEF Index, Untouched
  <2>1. ~Gone(i)
    BY <2>0 DEF Gone, At, Left
  <2>2. i <= s
    <3>1. Reach(i)'
      BY DEF Left
    <3> QED BY <1>1, <1>2, <1>9, <2>0, <3>1 DEF Reach, Removing
  <2>3. i < s => Reach(i)
    BY <1>1 DEF Reach
  <2>4. i # s => array'[i] = array[i]
    BY <1>1, <2>0 DEF OtherPlaces
  <2> QED BY <2>0, <2>1, <2>2, <2>3, <2>4 DEF Left
<1>4. Fresh = came /\ Fresh' = came + 1
  BY <1>1 DEF Fresh
<1>5. /\ \A i \in Index : Left(i) => array[i] < came
      /\ \A k \in 1..Len(played) : played[k] < came
      /\ \A g \in Players : pc[g] = "play" => m_out_bytes[g] < came
  BY <1>4 DEF Ordered
<1>6. (\A i, j \in Index : Left(i) /\ Left(j) /\ i < j => array[i] < array[j])'
  BY <1>2, <1>3, <1>5 DEF Ordered, Index
<1>7. (\A i \in Index : Left(i) => array[i] < Fresh)'
  <2>1. \A i \in Index : Left(i) => array[i] \in Int
    BY PacketsAreNumbers DEF Left
  <2> QED BY <1>0, <1>2, <1>3, <1>4, <1>5, <2>1
<1>8. (\A k \in 1..Len(played) : played[k] < Fresh /\ \A i \in Index : Left(i) => played[k] < array[i])'
  BY <1>0, <1>2, <1>3, <1>4, <1>5, PacketsAreNumbers DEF Ordered
<1>11. (\A k, l \in 1..Len(played) : k < l => played[k] < played[l])'
  BY DEF Ordered
<1>10. ASSUME NEW g \in Players, pc'[g] = "play"
       PROVE  (/\ m_out_bytes[g] < Fresh
               /\ \A k \in 1..Len(played) : played[k] < m_out_bytes[g]
               /\ \A i \in Index : Left(i) /\ i > 0 => m_out_bytes[g] < array[i])'
  <2>1. /\ m_out_bytes[g] \in Int /\ m_out_bytes[g] < came
        /\ \A k \in 1..Len(played) : played[k] < m_out_bytes[g]
        /\ \A i \in Index : Left(i) /\ i > 0 => m_out_bytes[g] < array[i]
    BY <1>5, <1>10, PacketsAreNumbers DEF Ordered
  <2> QED BY <1>0, <1>2, <1>3, <1>4, <2>1
<1> QED BY <1>6, <1>7, <1>8, <1>11, <1>10 DEF Ordered

\* A remove() moves a packet one place down, into the place that is gone.
LEMMA MoveOrdered ==
  ASSUME TypeOK, TypeOK', CallsInv, WholeInv, Quiet, OnePlayer, Ordered, NEW t \in Threads, Move(t),
         UNCHANGED <<came, pc, m_out_bytes, played>>
  PROVE  Ordered'
<1> DEFINE i0 == call[t].i
<1>0. ListTypeOK /\ CallsOK
  BY DEF TypeOK
<1>1. /\ t \in Players /\ call[t].op = "move" /\ call'[t].op = "move"
      /\ call'[t].s = call[t].s /\ call'[t].i = i0 + 1
      /\ Untouched(t) /\ UNCHANGED <<length, size>> /\ OtherPlaces(i0)
      /\ i0 \in Index /\ i0 + 1 \in Index /\ i0 + 1 < call[t].s
      /\ array'[i0] = array[i0 + 1]
  <2>1. t \in Players /\ call[t].op = "move"
    BY <1>0, MoveMeans
  <2>2. call[t].a = length
    BY <2>1 DEF WholeInv, Removes
  <2> QED BY <1>0, <2>2, MoveMeans
<1>2. ~Free(t) /\ pc[t] = "loop" /\ \A h \in Players \ {t} : pc[h] = "new" /\ Free(h)
  BY <1>1, LonePlayer DEF CallsInv, Free
<1>3. Net \in Threads \ {t} /\ Players \subseteq Threads
  BY <1>1, ThreadsDiffer
<1>4. PICK from : from = [i \in Index |-> IF i = i0 THEN i0 + 1 ELSE i]
  OBVIOUS
<1>44. \A i \in Index : from[i] = IF i = i0 THEN i0 + 1 ELSE i
  BY <1>4
<1>45. Index' = Index /\ \A i \in Index : i \in Int
  BY <1>1 DEF Index
<1>5. \A i \in Index : Gone(i) <=> i = i0
  BY <1>1, <1>2 DEF Gone, At, Free
<1>6. \A i \in Index : Gone(i)' <=> i = i0 + 1
  <2>1. \A h \in Players \ {t} : pc'[h] = "new" /\ call'[h].op = "none"
    BY <1>1, <1>2, <1>3 DEF Untouched, Free
  <2> QED BY <1>1, <1>2, <2>1 DEF Gone, At
<1>7. \A i \in Index : Reach(i)' <=> Reach(i)
  <2>1. call'[Net] = call[Net] /\ \A h \in Players \ {t} : call'[h] = call[h]
    BY <1>1, <1>3 DEF Untouched
  <2> QED BY <1>1, <2>1 DEF Reach, Removing, At
<1>8. Reach(i0 + 1)
  BY <1>1 DEF Reach, Removing
<1>9. \A i \in Index' : Left(i)' => /\ Left(from[i]) /\ array'[i] = array[from[i]]
                                    /\ i > 0 => from[i] > 0
  <2> SUFFICES ASSUME NEW i \in Index, Left(i)'
               PROVE  /\ Left(from[i]) /\ array'[i] = array[from[i]]
                      /\ i > 0 => from[i] > 0
    BY <1>45
  <2>1. CASE i = i0
    BY <1>1, <1>44, <1>5, <1>8, <2>1 DEF Left, Index
  <2>2. CASE i # i0
    BY <1>1, <1>44, <1>5, <1>7, <2>2 DEF Left, OtherPlaces
  <2> QED BY <2>1, <2>2
<1>10. \A i, j \in Index' : Left(i)' /\ Left(j)' /\ i < j => from[i] < from[j]
  <2>1. \A i \in Index : Left(i)' => i # i0 + 1
    BY <1>6 DEF Left
  <2> QED BY <1>1, <1>44, <1>45, <2>1
<1>11. Fresh <= Fresh'
  <2>1. Fresh' = Fresh
    BY <1>1, <1>3 DEF Fresh, Untouched
  <2> QED BY <2>1, PacketsAreNumbers
<1> QED BY <1>9, <1>10, <1>11, StaysOrdered

\* No step reorders or repeats a packet, whichever calls overlap in the list:
\* it moves one packet into the hole, adds the newest at the end, plays the
\* first, or takes something away.
LEMMA StepOrder ==
  TypeOK /\ CallsInv /\ SizeInv /\ WholeInv /\ EndInv /\ OrderInv /\ Next => OrderInv'
<1> SUFFICES ASSUME TypeOK, CallsInv, SizeInv, WholeInv, EndInv, OrderInv, Next, Quiet'
             PROVE  Ordered'
  BY DEF OrderInv
<1> USE ThreadsDiffer
<1>0. /\ ListTypeOK /\ CallsOK /\ TypeOK' /\ OnePlayer /\ Quiet /\ Ordered /\ Fresh \in Int
      /\ size \in Nat /\ length \in Nat /\ came \in Int /\ (clears # 0 => raced = {})
      /\ (At(Net, "grow") => \A t \in Threads \ {Net} : Free(t))
  <2>1. TypeOK' /\ Quiet
    BY QuietBefore, StepType
  <2>2. ListTypeOK /\ CallsOK /\ came \in Int /\ size \in Nat /\ length \in Nat
    BY PlaybackAssumption DEF TypeOK, ListTypeOK
  <2>3. OnePlayer /\ Ordered /\ (clears # 0 => raced = {})
    BY <2>1 DEF Quiet, OrderInv
  <2> QED BY <2>1, <2>2, <2>3, PacketsAreNumbers, GrowsAlone
<1>1. \A t \in Threads : call[t].s \in Nat
  BY <1>0, CallTyped
<1>2. CASE Arrive
  <2>1. /\ Untouched(Net) /\ call'[Net].s = size /\ call'[Net].op \in {"grow", "add"} /\ Free(Net)
        /\ came' = came + 1 /\ UNCHANGED <<array, length, size, pc, m_out_bytes, played>>
    BY <1>0, <1>2, ArriveMeans
  <2>2. \A g \in Players : call'[g] = call[g]
    BY <2>1 DEF Untouched
  <2>3. \A i \in Index' : Left(i)' => Left(i) /\ array'[i] = array[i]
    BY <2>1, <2>2, LeftStays
  <2>4. Fresh <= Fresh'
    BY <1>0, <2>1 DEF Fresh, Free
  <2> QED BY <1>0, <2>1, <2>3, <2>4, StaysInPlace
<1>3. CASE UiAside \/ ClearList
  <2>1. /\ UNCHANGED <<came, array, length, size, m_out_bytes, played>>
        /\ UNCHANGED call \/ Untouched(Ui)
        /\ \A g \in Players : pc'[g] = pc[g] \/ (pc[g] = "new" /\ pc'[g] = "wait")
    <3>1. CASE UiAside
      BY <3>1 DEF UiAside, list
    <3>2. CASE ClearList
      BY <1>0, <3>2, ClearListMeans, ClearListCalls
    <3> QED BY <1>3, <3>1, <3>2
  <2>2. call'[Net] = call[Net] /\ \A g \in Players : call'[g] = call[g]
    BY <2>1 DEF Untouched
  <2>3. \A i \in Index' : Left(i)' => Left(i) /\ array'[i] = array[i]
    BY <2>1, <2>2, LeftStays
  <2>4. Fresh' = Fresh
    BY <2>1, <2>2 DEF Fresh
  <2> QED BY <1>0, <2>1, <2>3, <2>4, StaysInPlace
<1>4. ASSUME NEW g \in Players, PlayerStep(g) PROVE Ordered'
  <2>1. /\ Free(g) /\ pc[g] # "new" /\ UNCHANGED <<array, length, size, came>>
        /\ \A h \in Players \ {g} : /\ pc[h] = "new" /\ Free(h) /\ pc'[h] = pc[h]
                                    /\ m_out_bytes'[h] = m_out_bytes[h]
    BY <1>0, <1>4, PlayerStepMeans, LonePlayer
  <2>2. CASE pc[g] = "read" /\ pc'[g] = "play"
    BY <1>0, <1>4, <2>2, ReadOrdered
  <2>3. CASE pc[g] = "play"
    BY <1>0, <1>4, <2>3, PlayOrdered
  <2>4. CASE /\ pc[g] # "drop" /\ pc'[g] # "play" /\ (pc'[g] = "read" => size > 0)
             /\ UNCHANGED <<call, m_out_bytes, played>>
    <3>1. Fresh' = Fresh
      BY <2>1, <2>4 DEF Fresh
    <3>2. \A i \in Index' : Left(i)' => Left(i) /\ array'[i] = array[i]
      BY <2>1, <2>4, LeftStays
    <3>3. \A h \in Players : pc'[h] = "play" => pc[h] = "play" /\ m_out_bytes'[h] = m_out_bytes[h]
      BY <2>1, <2>4
    <3> QED BY <1>0, <2>4, <3>1, <3>2, <3>3, StaysInPlace
  <2>5. CASE RemoveFirst(g) /\ pc[g] = "drop" /\ pc'[g] = "loop" /\ UNCHANGED <<m_out_bytes, played>>
    <3>1. Untouched(g) /\ call'[g].op = "remove" /\ call'[g].i = 0
      BY <1>0, <2>5, EnterMeans DEF RemoveFirst
    <3>2. call'[Net] = call[Net] /\ \A h \in Players \ {g} : call'[h] = call[h]
      BY <3>1 DEF Untouched
    <3>3. \A i \in Index' : Left(i)' => Left(i) /\ array'[i] = array[i]
      <4> SUFFICES ASSUME NEW i \in Index', Left(i)' PROVE Left(i) /\ array'[i] = array[i]
        OBVIOUS
      <4>0. i \in Index
        BY <2>1 DEF Index
      <4>1. i # 0
        BY <3>1 DEF Left, Gone, At
      <4>2. ~Gone(i)
        BY <2>1, <4>1 DEF Gone, At, Free
      <4>3. Reach(i)
        BY <2>1, <3>1, <3>2, <4>1 DEF Left, Reach, Removing, At
      <4> QED BY <2>1, <4>0, <4>2, <4>3 DEF Left
    <3>4. Fresh' = Fresh
      BY <2>1, <3>2 DEF Fresh
    <3>5. \A h \in Players : pc'[h] = "play" => pc[h] = "play" /\ m_out_bytes'[h] = m_out_bytes[h]
      BY <2>1, <2>5
    <3> QED BY <1>0, <2>5, <3>3, <3>4, <3>5, StaysInPlace
  <2> QED BY <1>4, <2>2, <2>3, <2>4, <2>5, PlayerStepMeans DEF Idle
<1>5. ASSUME NEW t \in Threads, InList(t) PROVE Ordered'
  <2>1. UNCHANGED <<came, pc, m_out_bytes, played>> /\ ~Free(t) /\ Untouched(t)
    BY <1>5, InListMeans
  <2>2. CASE Store(t)
    BY <1>0, <2>1, <2>2, StoreOrdered
  <2>3. CASE Move(t)
    BY <1>0, <2>1, <2>3, MoveOrdered
  <2>4. ASSUME Fresh' = Fresh, \A i \in Index' : Left(i)' => Left(i) /\ array'[i] = array[i]
        PROVE  Ordered'
    BY <1>0, <2>1, <2>4, StaysInPlace
  <2>5. ASSUME t = Net PROVE \A g \in Players : call'[g] = call[g]
    BY <2>1, <2>5 DEF Untouched
  <2>6. CASE Copy(t)
    <3>1. /\ t = Net /\ UNCHANGED <<array, length, size>> /\ call[Net].op = "grow" /\ call[Net] \in Call
          /\ call'[Net] = [call[Net] EXCEPT !.i = call[Net].i + 1]
      BY <1>0, <2>6, CopyMeans, CallTyped
    <3>2. call'[Net].op = call[Net].op /\ call'[Net].s = call[Net].s
      BY <3>1 DEF Call
    <3>3. \A i \in Index' : Left(i)' => Left(i) /\ array'[i] = array[i]
      BY <2>1, <2>5, <3>1, <3>2, LeftStays
    <3> QED BY <2>1, <2>4, <3>2, <3>3 DEF Fresh
  <2>7. CASE Replace(t)
    <3>1. /\ t = Net /\ size' = size /\ call[Net].op = "grow" /\ call[Net] \in Call
          /\ call'[Net] = [call[Net] EXCEPT !.op = "add"] /\ array' = copy
          /\ call[Net].s = length /\ call[Net].i = length
      BY <1>0, <2>7, ReplaceMeans, CallTyped
    <3>2. call'[Net].op = "add" /\ call'[Net].s = call[Net].s
      BY <3>1 DEF Call
    <3>3. size = length /\ \A j \in 0..length - 1 : copy[j] = array[j]
      BY <1>0, <3>1 DEF WholeInv, At
    <3>4. \A g \in Players : call[g].op = "none"
      BY <1>0, <3>1 DEF At, Free
    <3>5. \A i \in Index' : Left(i)' => Left(i) /\ array'[i] = array[i]
      <4> SUFFICES ASSUME NEW i \in Index', Left(i)' PROVE Left(i) /\ array'[i] = array[i]
        OBVIOUS
      <4>0. i \in Nat
        BY <1>0 DEF TypeOK, ListTypeOK, Index
      <4>1. i < length
        <5>1. \A g \in Players : pc[g] = "read" => length > 0
          BY DEF TypeOK
        <5> QED BY <2>1, <2>5, <3>1, <3>2, <3>3, <3>4, <5>1 DEF Left, Reach, Removing, At
      <4>2. i \in Index
        BY <1>0, <4>0, <4>1 DEF Index
      <4>3. ~Gone(i)
        BY <2>1, <2>5, <3>1 DEF Left, Gone, At
      <4>4. Reach(i)
        BY <3>3, <4>1 DEF Reach
      <4> QED BY <3>1, <3>3, <4>2, <4>3, <4>4 DEF Left, Index
    <3>6. Fresh' = Fresh
      BY <2>1, <3>1, <3>2 DEF Fresh
    <3> QED BY <2>4, <3>5, <3>6
  <2>8. CASE Added(t)
    <3>1. /\ t = Net /\ call[Net].op = "added" /\ call'[Net] = NoCall
          /\ UNCHANGED <<array, length>> /\ size' = call[Net].s + 1
      BY <1>0, <2>8, AddedMeans
    <3>2. call'[Net].op = "none"
      BY <3>1 DEF NoCall
    <3>3. \A i \in Index' : Left(i)' => Left(i) /\ array'[i] = array[i]
      <4> SUFFICES ASSUME NEW i \in Index', Left(i)' PROVE Left(i) /\ array'[i] = array[i]
        OBVIOUS
      <4>0. i \in Index /\ i \in Nat
        BY <1>0, <3>1 DEF Index
      <4>1. ~Gone(i)
        BY <2>1, <2>5, <3>1 DEF Left, Gone, At
      <4>2. Reach(i)
        BY <1>1, <2>1, <2>5, <3>1, <3>2, <4>0 DEF Left, Reach, Removing, At
      <4> QED BY <3>1, <4>0, <4>1, <4>2 DEF Left
    <3>4. Fresh' = Fresh
      BY <2>1, <3>1, <3>2 DEF Fresh
    <3> QED BY <2>4, <3>3, <3>4
  <2>9. ASSUME RemoveSize(t) \/ DropLast(t) \/ Removed(t) PROVE Ordered'
    <3>1. t \in Players /\ call[t].op \in Removes
      BY <1>0, <2>9, RemoveSizeMeans, DropLastMeans, RemovedMeans DEF Removes
    <3>2. /\ pc[t] = "loop" /\ \A h \in Players \ {t} : pc[h] = "new" /\ Free(h)
          /\ call[t].a = length
      BY <1>0, <2>1, <3>1, LonePlayer DEF CallsInv, WholeInv
    <3>3. /\ call'[Net] = call[Net]
          /\ \A h \in Players \ {t} : call'[h].op = "none" /\ call[h].op = "none"
      BY <2>1, <3>1, <3>2 DEF Untouched, Free
    <3>4. Fresh' = Fresh
      BY <2>1, <3>3 DEF Fresh
    <3>5. \A h \in Players : pc[h] \notin {"read", "drop"}
      BY <3>2
    <3>6. CASE RemoveSize(t) /\ call'[t] # NoCall
      <4>1. /\ call[t].op = "remove" /\ call[t].i = 0 /\ call'[t].i = 0 /\ call'[t].op = "move"
            /\ call'[t].s = size /\ UNCHANGED <<array, length, size>>
        BY <1>0, <3>6, RemoveSizeMeans
      <4>2. \A i \in Index' : Left(i)' => Left(i) /\ array'[i] = array[i]
        <5> SUFFICES ASSUME NEW i \in Index', Left(i)' PROVE Left(i) /\ array'[i] = array[i]
          OBVIOUS
        <5>1. i # 0
          BY <3>1, <4>1 DEF Left, Gone
        <5>2. ~Gone(i)
          BY <3>2, <3>3, <4>1, <5>1 DEF Gone, At
        <5>3. Reach(i)
          BY <2>1, <3>3, <3>5, <4>1 DEF Left, Reach, Removing, At
        <5> QED BY <4>1, <5>2, <5>3 DEF Left, Index
      <4> QED BY <2>4, <3>4, <4>2
    <3>7. CASE RemoveSize(t) /\ call'[t] = NoCall
      <4>1. /\ call[t].op = "remove" /\ UNCHANGED <<array, length, size>> /\ size = 0
        <5>1. size <= call[t].a
          BY <1>0, <3>2, CallTyped
        <5>2. call[t].op = "remove" /\ UNCHANGED <<array, length, size>>
          BY <1>0, <3>7, RemoveSizeMeans
        <5>3. size = 0 \/ size > call[t].a
          <6>1. call'[t].op = "none"
            BY <3>7 DEF NoCall
          <6> QED BY <1>0, <3>7, <6>1, RemoveSizeMeans
        <5>4. call[t].a \in Nat
          BY <1>0, <3>2
        <5> QED BY <1>0, <5>1, <5>2, <5>3, <5>4
      <4>2. Free(Net)
        <5>1. clears # 0
          BY <1>0, <3>1, <4>1 DEF SizeInv, At
        <5> QED BY <1>0, <2>1, <3>1, <5>1 DEF CallsInv
      <4>3. \A i \in Index' : ~Left(i)'
        <5> SUFFICES ASSUME NEW i \in Index', Left(i)' PROVE FALSE
          OBVIOUS
        <5>1. i >= 0
          BY <1>0, <4>1 DEF Index
        <5>2. call'[t].op = "none"
          BY <3>7 DEF NoCall
        <5>3. ~Reach(i)'
          BY <2>1, <3>3, <3>5, <4>1, <4>2, <5>1, <5>2 DEF Reach, Removing, At, Free, Index
        <5> QED BY <5>3 DEF Left
      <4> QED BY <2>4, <3>4, <4>3
    <3>8. CASE DropLast(t)
      <4>1. /\ call[t].op = "move" /\ call'[t].op = "removed" /\ call'[t].s = call[t].s
            /\ UNCHANGED <<length, size>> /\ OtherPlaces(call[t].i) /\ array'[call[t].i] = Null
        BY <1>0, <3>2, <3>8, DropLastMeans
      <4>2. \A i \in Index' : Left(i)' => Left(i) /\ array'[i] = array[i]
        <5> SUFFICES ASSUME NEW i \in Index', Left(i)' PROVE Left(i) /\ array'[i] = array[i]
          OBVIOUS
        <5>0. i \in Index
          BY <4>1 DEF Index
        <5>1. Reach(i)
          BY <2>1, <3>1, <3>3, <3>5, <4>1 DEF Left, Reach, Removing, At
        <5>2. i # call[t].i
          BY <4>1 DEF Left
        <5>3. ~Gone(i)
          BY <3>2, <3>3, <4>1, <5>2 DEF Gone, At
        <5>4. array'[i] = array[i]
          BY <4>1, <5>0, <5>2 DEF OtherPlaces
        <5> QED BY <5>0, <5>1, <5>3, <5>4 DEF Left
      <4> QED BY <2>4, <3>4, <4>2
    <3>9. CASE Removed(t)
      <4>1. /\ call[t].op = "removed" /\ call'[t] = NoCall /\ UNCHANGED <<array, length>>
            /\ size' = call[t].s - 1
        BY <1>0, <3>9, RemovedMeans
      <4>2. \A i \in Index' : Left(i)' => Left(i) /\ array'[i] = array[i]
        <5> SUFFICES ASSUME NEW i \in Index', Left(i)' PROVE Left(i) /\ array'[i] = array[i]
          OBVIOUS
        <5>0. i \in Index /\ i \in Nat
          BY <1>0, <4>1 DEF Index
        <5>1. Reach(i)
          <6>1. call'[t].op = "none"
            BY <4>1 DEF NoCall
          <6>2. i < size' => i < call[t].s
            BY <1>1, <3>1, <4>1, <5>0
          <6> QED BY <2>1, <3>1, <3>3, <3>5, <4>1, <6>1, <6>2 DEF Left, Reach, Removing, At
        <5>2. ~Gone(i)
          BY <3>2, <3>3, <4>1 DEF Gone, At
        <5> QED BY <4>1, <5>0, <5>1, <5>2 DEF Left
      <4> QED BY <2>4, <3>4, <4>2
    <3> QED BY <2>9, <3>6, <3>7, <3>8, <3>9
  <2>10. CASE ClearArray(t) \/ ClearSize(t) \/ Erase(t) \/ Cleared(t)
    <3>1. /\ t = Ui /\ length' = length /\ (size' = size \/ size' = 0)
          /\ \A i \in Index : array'[i] = array[i] \/ array'[i] = Null
      BY <1>0, <2>10, ClearMeans
    <3>2. call'[Net] = call[Net] /\ \A g \in Players : call'[g] = call[g]
      BY <2>1, <3>1 DEF Untouched
    <3>3. Fresh' = Fresh
      BY <2>1, <3>2 DEF Fresh
    <3>4. \A i \in Index' : Left(i)' => Left(i) /\ array'[i] = array[i]
      <4> SUFFICES ASSUME NEW i \in Index', Left(i)' PROVE Left(i) /\ array'[i] = array[i]
        OBVIOUS
      <4>0. i \in Index /\ i \in Nat
        BY <1>0, <3>1 DEF Index
      <4>1. Reach(i)
        <5>1. i < size' => i < size
          BY <1>0, <3>1, <4>0
        <5> QED BY <2>1, <3>2, <5>1 DEF Left, Reach, Removing, At
      <4>2. ~Gone(i)
        BY <2>1, <3>2 DEF Left, Gone, At
      <4> QED BY <3>1, <4>0, <4>1, <4>2 DEF Left
    <3> QED BY <2>4, <3>3, <3>4
  <2> QED BY <1>5, <2>2, <2>3, <2>6, <2>7, <2>8, <2>9, <2>10, InListMeans
<1> QED BY <1>2, <1>3, <1>4, <1>5, UiStepMeans DEF Next

-----------------------------------------------------------------------------
\* No packet that came in peace is forgotten.

\* A packet whose place is untouched stays accounted for.
LEMMA PlaceStays ==
  ASSUME NEW p, Accounted(p), raced \subseteq raced',
         ~Free(Net) => ~Free(Net)' /\ came' = came,
         UNCHANGED played,
         HasPlace(p) => HasPlace(p)'
  PROVE  Accounted(p)'
  BY DEF Accounted

\* A place of the array is one of a longer array.
LEMMA KeepsIndex ==
  ASSUME length \in Nat, length' \in Nat, length <= length', NEW i \in Index
  PROVE  i \in Index'
<1>1. PICK m \in Nat, n \in Nat : m = length /\ n = length'
  OBVIOUS
<1>2. i \in 0..m - 1 /\ m <= n
  BY <1>1 DEF Index
<1>3. i \in 0..n - 1
  BY <1>2
<1> QED BY <1>1, <1>3 DEF Index

\* A place is kept by steps that leave it and the players' calls alone.
LEMMA KeepsPlace ==
  ASSUME NEW p, NEW i \in Index, i \in Index', i < size', array'[i] = p, ~Gone(i),
         \A h \in Players : Removing(h) => i < call[h].s,
         \A h \in Players : call'[h] = call[h] /\ pc'[h] = pc[h]
  PROVE  HasPlace(p)'
<1>1. ~Gone(i)' /\ \A h \in Players : Removing(h)' => i < call'[h].s
  BY DEF Gone, At, Removing
<1> QED BY <1>1 DEF HasPlace

\* No step forgets a packet that came in peace: the places above the hole
\* move down with it, and the last place a remove(0) cuts off is null.
LEMMA StepPlace ==
  TypeOK /\ CallsInv /\ SizeInv /\ HeadInv /\ WholeInv /\ EndInv /\ PlaceInv /\ Next => PlaceInv'
<1> SUFFICES ASSUME TypeOK, CallsInv, SizeInv, HeadInv, WholeInv, EndInv, PlaceInv, Next, Peace',
                    NEW p \in 1..came'
             PROVE  Accounted(p)'
  BY DEF PlaceInv
<1> USE ThreadsDiffer
<1>0. /\ ListTypeOK /\ CallsOK /\ OnePlayer /\ clears = 0 /\ Peace /\ Quiet /\ Free(Ui) /\ ~toClear
      /\ came \in Nat /\ size \in Nat /\ length \in Nat /\ raced \subseteq raced'
      /\ (At(Net, "grow") => \A t \in Threads \ {Net} : Free(t))
  <2>1. OnePlayer /\ clears = 0 /\ Peace /\ Quiet /\ raced \subseteq raced'
    BY QuietBefore DEF Quiet, Peace
  <2>2. ListTypeOK /\ CallsOK /\ came \in Nat /\ size \in Nat /\ length \in Nat
    BY PlaybackAssumption DEF TypeOK, ListTypeOK
  <2> QED BY <2>1, <2>2, GrowsAlone DEF CallsInv
<1>1. (\A t \in Threads : call[t].s \in Nat) /\ (came' = came => p # Null)
  <2>1. p \in 1..came => p \in Item
    BY <1>0, PlaybackAssumption DEF TypeOK
  <2> QED BY <1>0, <2>1, SharedListAssumption, CallTyped
<1>2. came' = came => Accounted(p)
  BY <1>0 DEF PlaceInv
<1>3. CASE Arrive
  <2>1. /\ Untouched(Net) /\ Free(Net) /\ ~Free(Net)'
        /\ came' = came + 1 /\ UNCHANGED <<array, length, size, pc, played>>
    BY <1>0, <1>3, ArriveMeans
  <2>2. CASE p = came'
    BY <2>1, <2>2 DEF Accounted
  <2>3. CASE p # came'
    <3>1. Accounted(p)
      BY <1>0, <2>1, <2>3 DEF PlaceInv
    <3>2. HasPlace(p) => HasPlace(p)'
      BY <2>1, KeepsPlace DEF HasPlace, Untouched, Index
    <3> QED BY <1>0, <2>1, <3>1, <3>2, PlaceStays
  <2> QED BY <2>2, <2>3
<1>4. CASE UiAside
  <2>1. HasPlace(p) => HasPlace(p)'
    BY <1>4 DEF UiAside, list, HasPlace, Gone, Removing, At, Index
  <2> QED BY <1>0, <1>2, <1>4, <2>1, PlaceStays DEF UiAside, list, Free
<1>5. CASE ClearList
  BY <1>0, <1>5, ClearListMeans
<1>6. ASSUME NEW g \in Players, PlayerStep(g) PROVE Accounted(p)'
  <2>1. /\ Free(g) /\ pc[g] # "new" /\ UNCHANGED <<array, length, size, came>>
        /\ \A h \in Players \ {g} : pc[h] = "new" /\ Free(h) /\ pc'[h] = pc[h]
    BY <1>0, <1>6, PlayerStepMeans, LonePlayer
  <2>0. Index' = Index
    BY <2>1 DEF Index
  <2>2. CASE UNCHANGED <<call, played>>
    <3>1. pc'[g] = "drop" => First = Null
      <4>1. ~RemoveFirst(g)
        BY <1>0, <2>1, <2>2, EnterMeans DEF RemoveFirst, Free
      <4>2. played # Append(played, m_out_bytes[g])
        BY DEF TypeOK
      <4> QED BY <1>6, <2>2, <4>1, <4>2, PlayerStepMeans DEF Idle
    <3>2. HasPlace(p) => HasPlace(p)'
      <4> SUFFICES ASSUME HasPlace(p) PROVE HasPlace(p)'
        OBVIOUS
      <4>1. PICK i \in Index : /\ i < size /\ array[i] = p /\ ~Gone(i)
                               /\ \A h \in Players : Removing(h) => i < call[h].s
        BY DEF HasPlace
      <4>2. ~Gone(i)'
        BY <1>1, <2>1, <2>2, <3>1, <4>1 DEF Gone, At, First, Free
      <4> QED BY <2>0, <2>1, <2>2, <4>1, <4>2 DEF HasPlace, Removing
    <3> QED BY <1>0, <1>2, <2>1, <2>2, <3>2, PlaceStays DEF Free
  <2>3. CASE pc[g] = "play" /\ played' = Append(played, m_out_bytes[g]) /\ UNCHANGED call
    <3>1. /\ Len(played) \in Nat /\ Len(played') = Len(played) + 1
          /\ played'[Len(played) + 1] = m_out_bytes[g]
          /\ \A k \in 1..Len(played) : played'[k] = played[k]
      BY <2>3 DEF TypeOK
    <3>2. First = m_out_bytes[g]
      BY <1>0, <2>3 DEF HeadInv
    <3>3. ASSUME HasPlace(p) PROVE HasPlace(p)' \/ p = m_out_bytes[g]
      <4>1. PICK i \in Index : /\ i < size /\ array[i] = p /\ ~Gone(i)
                               /\ \A h \in Players : Removing(h) => i < call[h].s
        BY <3>3 DEF HasPlace
      <4>2. CASE i = 0
        BY <3>2, <4>1, <4>2 DEF First
      <4>3. CASE i # 0
        <5>1. ~Gone(i)'
          BY <2>1, <2>3, <4>3 DEF Gone, At, Free
        <5> QED BY <2>0, <2>1, <2>3, <4>1, <5>1 DEF HasPlace, Removing
      <4> QED BY <4>2, <4>3
    <3>4. Accounted(p)
      BY <1>2, <2>1
    <3>5. CASE \E k \in 1..Len(played) : played[k] = p
      <4>1. PICK k \in 1..Len(played) : played[k] = p
        BY <3>5
      <4>2. k \in 1..Len(played') /\ played'[k] = p
        BY <3>1, <4>1
      <4> QED BY <4>2 DEF Accounted
    <3>6. CASE p = m_out_bytes[g]
      <4>1. Len(played) + 1 \in 1..Len(played') /\ played'[Len(played) + 1] = p
        BY <3>1, <3>6
      <4> QED BY <4>1 DEF Accounted
    <3>7. CASE p \in raced \/ (~Free(Net) /\ p = came) \/ HasPlace(p)'
      BY <1>0, <2>1, <2>3, <3>7 DEF Accounted, Free
    <3> QED BY <3>3, <3>4, <3>5, <3>6, <3>7 DEF Accounted
  <2>4. CASE RemoveFirst(g) /\ pc[g] = "drop" /\ pc'[g] = "loop" /\ UNCHANGED played
    <3>1. Untouched(g) /\ call'[g].op = "remove" /\ call'[g].i = 0
      BY <1>0, <2>4, EnterMeans DEF RemoveFirst
    <3>2. call'[Net] = call[Net] /\ \A h \in Players \ {g} : call'[h] = call[h]
      BY <3>1 DEF Untouched
    <3>3. HasPlace(p) => HasPlace(p)'
      <4> SUFFICES ASSUME HasPlace(p) PROVE HasPlace(p)'
        OBVIOUS
      <4>1. PICK i \in Index : /\ i < size /\ array[i] = p /\ ~Gone(i)
                               /\ \A h \in Players : Removing(h) => i < call[h].s
        BY DEF HasPlace
      <4>2. i # 0
        BY <2>4, <4>1 DEF Gone
      <4>3. ~Gone(i)'
        BY <2>1, <2>4, <3>1, <3>2, <4>2 DEF Gone, At, Free
      <4>4. \A h \in Players : Removing(h)' => i < call'[h].s
        BY <3>1, <3>2, <4>1 DEF Removing
      <4> QED BY <2>0, <2>1, <4>1, <4>3, <4>4 DEF HasPlace
    <3> QED BY <1>0, <1>2, <2>1, <2>4, <3>2, <3>3, PlaceStays DEF Free
  <2> QED BY <1>6, <2>2, <2>3, <2>4, PlayerStepMeans
<1>7. ASSUME NEW t \in Threads, InList(t) PROVE Accounted(p)'
  <2>1. UNCHANGED <<came, pc, played>> /\ Untouched(t) /\ ~Free(t)
    BY <1>7, InListMeans
  <2>2. Accounted(p)
    BY <1>2, <2>1
  <2>3. ASSUME t = Net PROVE \A h \in Players : call'[h] = call[h] /\ pc'[h] = pc[h]
    BY <2>1, <2>3 DEF Untouched
  <2>4. CASE Copy(t) \/ Replace(t) \/ Store(t)
    <3>1. t = Net /\ ~Free(Net)' /\ size' = size /\ length <= length' /\ length' \in Nat
      <4>1. CASE Copy(t)
        <5>1. t = Net /\ call[Net].op = "grow" /\ UNCHANGED <<length, size>> /\ call[Net] \in Call
              /\ call'[Net] = [call[Net] EXCEPT !.i = call[Net].i + 1]
          BY <1>0, <4>1, CopyMeans, CallTyped
        <5>2. call'[Net].op = "grow"
          BY <5>1 DEF Call
        <5> QED BY <1>0, <5>1, <5>2 DEF Free
      <4>2. CASE Replace(t)
        <5>1. t = Net /\ length' = Longer(length) /\ size' = size /\ call[Net] \in Call
              /\ call'[Net] = [call[Net] EXCEPT !.op = "add"]
          BY <1>0, <4>2, ReplaceMeans, CallTyped
        <5>2. call'[Net].op = "add"
          BY <5>1 DEF Call
        <5>3. Longer(length) \in Nat /\ length < Longer(length)
          BY <1>0, LongerIsLonger
        <5> QED BY <1>0, <5>1, <5>2, <5>3 DEF Free
      <4>3. CASE Store(t)
        <5>1. t = Net /\ UNCHANGED <<length, size>> /\ call[Net] \in Call
              /\ call'[Net] = [call[Net] EXCEPT !.op = "added"]
          BY <1>0, <4>3, StoreMeans, CallTyped
        <5>2. call'[Net].op = "added"
          BY <5>1 DEF Call
        <5> QED BY <1>0, <5>1, <5>2 DEF Free
      <4> QED BY <2>4, <4>1, <4>2, <4>3
    <3>2. \A i \in Index : i < size => array'[i] = array[i]
      <4>1. CASE Copy(t)
        BY <1>0, <4>1, CopyMeans
      <4>2. CASE Replace(t)
        <5>1. call[Net].op = "grow" /\ array' = copy /\ call[Net].i = length
          BY <1>0, <4>2, ReplaceMeans
        <5> QED BY <1>0, <5>1 DEF WholeInv, At, Index
      <4>3. CASE Store(t)
        <5>1. OtherPlaces(call[Net].s) /\ ~Free(Net) /\ call[Net].s \in Nat
          BY <1>0, <1>1, <2>1, <3>1, <4>3, StoreMeans
        <5>2. size <= call[Net].s
          BY <1>0, <5>1 DEF EndInv
        <5> QED BY <1>0, <5>1, <5>2 DEF OtherPlaces, Index
      <4> QED BY <2>4, <4>1, <4>2, <4>3
    <3>3. HasPlace(p) => HasPlace(p)'
      <4> SUFFICES ASSUME HasPlace(p) PROVE HasPlace(p)'
        OBVIOUS
      <4>1. PICK i \in Index : /\ i < size /\ array[i] = p /\ ~Gone(i)
                               /\ \A h \in Players : Removing(h) => i < call[h].s
        BY DEF HasPlace
      <4>2. i \in Index'
        BY <1>0, <3>1, KeepsIndex
      <4>3. i < size' /\ array'[i] = p
        BY <3>1, <3>2, <4>1
      <4> QED BY <2>3, <3>1, <4>1, <4>2, <4>3, KeepsPlace
    <3> QED BY <1>0, <2>1, <2>2, <3>1, <3>3, PlaceStays
  <2>5. CASE Added(t)
    <3>0. PICK s \in Index : s = call[Net].s
      BY <1>0, <2>5, AddedMeans
    <3>1. /\ t = Net /\ call[Net].op = "added" /\ ~Free(Net)
          /\ size' = s + 1 /\ UNCHANGED <<array, length>> /\ Index' = Index
      BY <1>0, <2>5, <3>0, AddedMeans DEF Free, Index
    <3>2. array[s] = came /\ size <= s
      BY <1>0, <3>0, <3>1 DEF EndInv, At
    <3>3. \A h \in Players : call'[h] = call[h] /\ pc'[h] = pc[h]
      BY <2>3, <3>1
    <3>4. HasPlace(p) => HasPlace(p)'
      <4> SUFFICES ASSUME HasPlace(p) PROVE HasPlace(p)'
        OBVIOUS
      <4>1. PICK i \in Index : /\ i < size /\ array[i] = p /\ ~Gone(i)
                               /\ \A h \in Players : Removing(h) => i < call[h].s
        BY DEF HasPlace
      <4>2. i < size' /\ i \in Index' /\ array'[i] = p
        BY <1>0, <3>1, <3>2, <4>1 DEF Index
      <4> QED BY <3>3, <4>1, <4>2, KeepsPlace
    <3>5. CASE p = came /\ p \notin raced
      <4>1. \A h \in Players : Free(h)
        BY <3>1, <3>5 DEF CallsInv
      <4>2. \A h \in Players : pc[h] = "drop" => s # 0
        BY <1>0, <3>1, <3>2 DEF SizeInv, Index
      <4>3. ~Gone(s) /\ \A h \in Players : ~Removing(h)
        BY <4>1, <4>2 DEF Gone, Removing, Free
      <4>4. s < size' /\ s \in Index' /\ array'[s] = p
        BY <1>0, <3>1, <3>2, <3>5 DEF Index
      <4>5. HasPlace(p)'
        BY <3>3, <4>3, <4>4, KeepsPlace
      <4> QED BY <4>5 DEF Accounted
    <3>6. CASE p \in raced \/ p # came
      BY <1>0, <2>1, <2>2, <3>4, <3>6 DEF Accounted
    <3> QED BY <3>5, <3>6
  <2>6. ASSUME RemoveSize(t) \/ Move(t) \/ DropLast(t) \/ Removed(t) PROVE Accounted(p)'
    <3>1. t \in Players /\ call[t].op \in Removes /\ length' = length
      BY <1>0, <2>6, RemoveSizeMeans, MoveMeans, DropLastMeans, RemovedMeans DEF Removes
    <3>2. /\ pc[t] = "loop" /\ \A h \in Players \ {t} : pc[h] = "new" /\ Free(h)
          /\ call[t].a = length /\ Index' = Index
      BY <1>0, <2>1, <3>1, LonePlayer DEF CallsInv, WholeInv, Index
    <3>3. /\ call'[Net] = call[Net]
          /\ \A h \in Players \ {t} : call'[h].op = "none" /\ call[h].op = "none"
          /\ \A h \in Players : pc'[h] # "drop"
      BY <2>1, <3>1, <3>2 DEF Untouched, Free
    <3>4. ASSUME HasPlace(p) PROVE HasPlace(p)'
      <4>1. PICK i \in Index : /\ i < size /\ array[i] = p /\ ~Gone(i)
                               /\ \A h \in Players : Removing(h) => i < call[h].s
        BY <3>4 DEF HasPlace
      <4>2. ASSUME NEW j \in Index, j < size', array'[j] = p,
                   call'[t].op \in {"remove", "move"} => j # call'[t].i,
                   Removing(t)' => j < call'[t].s
            PROVE  HasPlace(p)'
        <5>1. ~Gone(j)' /\ \A h \in Players : Removing(h)' => j < call'[h].s
          BY <3>3, <4>2 DEF Gone, Removing
        <5> QED BY <3>2, <4>2, <5>1 DEF HasPlace
      <4>3. CASE RemoveSize(t)
        <5>1. /\ call[t].op = "remove" /\ call[t].i = 0 /\ UNCHANGED <<array, size>>
              /\ \/ call'[t] = NoCall
                 \/ call'[t].op = "move" /\ call'[t].i = 0 /\ call'[t].s = size
          BY <1>0, <4>3, RemoveSizeMeans
        <5>2. call'[t].op \in {"remove", "move"} => i # call'[t].i
          <6>1. i # 0
            BY <3>1, <4>1, <5>1 DEF Gone
          <6> QED BY <5>1, <6>1 DEF NoCall
        <5>3. Removing(t)' => i < call'[t].s
          BY <4>1, <5>1 DEF Removing, NoCall
        <5> QED BY <4>1, <4>2, <5>1, <5>2, <5>3
      <4>4. CASE Move(t)
        <5>0. PICK i0 \in Index : i0 = call[t].i
          BY <1>0, <4>4, MoveMeans
        <5>1. /\ call[t].op = "move" /\ call'[t].op = "move"
              /\ call'[t].s = call[t].s /\ call'[t].i = i0 + 1 /\ UNCHANGED size
              /\ OtherPlaces(i0) /\ i0 + 1 \in Index /\ array'[i0] = array[i0 + 1]
          BY <1>0, <3>2, <4>4, <5>0, MoveMeans
        <5>2. i # i0 /\ i < call[t].s
          BY <3>1, <4>1, <5>0, <5>1 DEF Gone, Removing
        <5>3. CASE i = i0 + 1
          <6>1. i0 < size' /\ i0 < call'[t].s /\ array'[i0] = p /\ i0 # call'[t].i
            BY <1>0, <1>1, <3>1, <4>1, <5>1, <5>2, <5>3 DEF Index
          <6> QED BY <4>2, <6>1
        <5>4. CASE i # i0 + 1
          <6>1. i < size' /\ i < call'[t].s /\ array'[i] = p /\ i # call'[t].i
            BY <4>1, <5>1, <5>2, <5>4 DEF OtherPlaces
          <6> QED BY <4>2, <6>1
        <5> QED BY <5>3, <5>4
      <4>5. CASE DropLast(t)
        <5>1. /\ call[t].op = "move" /\ call'[t].op = "removed"
              /\ call'[t].s = call[t].s /\ UNCHANGED size /\ OtherPlaces(call[t].i)
          BY <1>0, <4>5, DropLastMeans
        <5>2. i # call[t].i /\ i < call[t].s
          BY <3>1, <4>1, <5>1 DEF Gone, Removing
        <5>3. array'[i] = p
          BY <4>1, <5>1, <5>2 DEF OtherPlaces
        <5> QED BY <4>1, <4>2, <5>1, <5>2, <5>3
      <4>6. CASE Removed(t)
        <5>1. /\ call[t].op = "removed" /\ call'[t] = NoCall /\ UNCHANGED array
              /\ size' = call[t].s - 1
          BY <1>0, <4>6, RemovedMeans
        <5>2. array[call[t].s - 1] = Null /\ i < call[t].s
          BY <1>0, <3>1, <4>1, <5>1 DEF EndInv, At, Removing
        <5>3. i < size'
          <6>1. i # call[t].s - 1
            BY <1>1, <2>1, <4>1, <5>2
          <6> QED BY <1>0, <1>1, <3>1, <5>1, <5>2, <6>1 DEF Index
        <5>4. call'[t].op = "none"
          BY <5>1 DEF NoCall
        <5> QED BY <4>1, <4>2, <5>1, <5>3, <5>4 DEF Removing
      <4> QED BY <2>6, <4>3, <4>4, <4>5, <4>6
    <3> QED BY <1>0, <2>1, <2>2, <3>3, <3>4, PlaceStays DEF Free
  <2>7. CASE ClearArray(t) \/ ClearSize(t) \/ Erase(t) \/ Cleared(t)
    BY <1>0, <2>7, ClearMeans
  <2> QED BY <1>7, <2>4, <2>5, <2>6, <2>7, InListMeans
<1> QED BY <1>3, <1>4, <1>5, <1>6, <1>7, UiStepMeans DEF Next

-----------------------------------------------------------------------------
\* No get(0) throws that no clear() and no torn copy caused.
LEMMA StepAlive ==
  TypeOK /\ CallsInv /\ SizeInv /\ HeadInv /\ AacInv /\ Next => ThrowsOnlyWhenCleared'
<1> SUFFICES ASSUME TypeOK, CallsInv, SizeInv, HeadInv, AacInv, Next, CallsInv',
                    OnePlayer', clears' = 0, isAdpcm' => ~torn'
             PROVE  Alive'
  BY StepCalls DEF ThrowsOnlyWhenCleared
<1>1. OnePlayer /\ clears = 0 /\ (isAdpcm => ~torn) /\ PlayersAlive
  BY QuietBefore DEF Next, Alive
<1>2. ~At(Ui, "threw")'
  BY DEF CallsInv, At, Free
<1>3. ASSUME NEW g \in Players, PlayerStep(g) PROVE PlayersAlive'
  <2>1. pc[g] \in {"peek", "take"} => size > 0
    BY <1>1 DEF SizeInv
  <2>2. pc[g] = "read" => First # Null
    <3>1. CASE torn
      BY <1>1, <3>1 DEF AacInv
    <3>2. CASE ~torn
      BY <1>1, <3>2 DEF HeadInv, Peace
    <3> QED BY <3>1, <3>2
  <2>3. pc'[g] # "dead"
    <3>1. size \in Nat
      BY DEF TypeOK, ListTypeOK
    <3> QED BY <1>3, <2>1, <2>2, <3>1, PlayerStepMeans DEF Idle
  <2> QED BY <1>1, <1>3, <2>3, PlayerStepMeans DEF PlayersAlive
<1>4. ASSUME Arrive \/ ClearList PROVE PlayersAlive'
  BY <1>1, <1>4, ArriveMeans, ClearListMeans DEF PlayersAlive, TypeOK
<1>5. ASSUME UiAside PROVE PlayersAlive'
  BY <1>1, <1>5 DEF PlayersAlive, UiAside
<1>6. ASSUME NEW t \in Threads, InList(t) PROVE PlayersAlive'
  BY <1>1, <1>6, InListMeans DEF PlayersAlive
<1>7. PlayersAlive'
  BY <1>3, <1>4, <1>5, <1>6, UiStepMeans DEF Next
<1> QED BY <1>2, <1>7 DEF Alive

-----------------------------------------------------------------------------
\* Nothing came, nothing is played.
LEMMA InitSound == Init => SoundInv
<1> SUFFICES ASSUME Init PROVE SoundInv
  OBVIOUS
<1>0. TypeOK
  BY InitType
<1>1. /\ \A t \in Threads : call[t].op = "none"
      /\ \A g \in Players : pc[g] = "new"
      /\ ~toClear /\ came = 0 /\ size = 0 /\ length = 0 /\ Len(played) = 0 /\ ~torn
  BY DEF Init, ListInit, NoCall
<1>2. CallsInv /\ SizeInv /\ HeadInv /\ AacInv /\ WholeInv /\ EndInv /\ ThrowsOnlyWhenCleared
  BY <1>1, ThreadsDiffer DEF CallsInv, SizeInv, HeadInv, AacInv, WholeInv, EndInv, Free, At,
       Removing, Removes, ThrowsOnlyWhenCleared, Alive, PlayersAlive
<1>3. OrderInv
  <2>1. \A i \in Index : FALSE
    BY <1>1 DEF Index
  <2> QED BY <1>1, <2>1 DEF OrderInv, Ordered
<1>4. PlaceInv
  BY <1>1 DEF PlaceInv
<1> QED BY <1>0, <1>2, <1>3, <1>4 DEF SoundInv

\* All parts together are inductive.
LEMMA StepSound == SoundInv /\ [Next]_vars => SoundInv'
<1> SUFFICES ASSUME SoundInv, [Next]_vars PROVE SoundInv'
  OBVIOUS
<1>1. CASE Next
  <2>1. /\ TypeOK' /\ CallsInv' /\ SizeInv' /\ HeadInv' /\ AacInv' /\ WholeInv' /\ EndInv'
    BY <1>1, StepType, StepCalls, StepSize, StepHead, StepAac, StepWhole, StepEnd DEF SoundInv
  <2>2. OrderInv' /\ PlaceInv' /\ ThrowsOnlyWhenCleared'
    BY <1>1, StepOrder, StepPlace, StepAlive DEF SoundInv
  <2> QED BY <2>1, <2>2 DEF SoundInv
<1>2. CASE UNCHANGED vars
  <2>1. UNCHANGED <<array, length, size, copy, call, came, pc, m_out_bytes, played, toClear,
                    clears, raced, torn, isAdpcm>>
    BY <1>2 DEF vars, list, view, player
  <2>2. CallsInv' /\ SizeInv' /\ HeadInv' /\ AacInv'
    BY <2>1 DEF SoundInv, CallsInv, SizeInv, HeadInv, AacInv, Peace, OnePlayer, Free, At,
                Removing, First
  <2>3. WholeInv' /\ EndInv' /\ ThrowsOnlyWhenCleared'
    BY <2>1 DEF SoundInv, WholeInv, EndInv, Quiet, OnePlayer, ThrowsOnlyWhenCleared, Alive,
                PlayersAlive, Free, At, Removing
  <2>4. OrderInv'
    BY <2>1 DEF SoundInv, OrderInv, Ordered, Left, Reach, Gone, Fresh, Quiet, OnePlayer, Free,
                At, Removing, Index
  <2>5. PlaceInv'
    BY <2>1 DEF SoundInv, PlaceInv, Accounted, HasPlace, Gone, Peace, OnePlayer, Free, At,
                Removing, Index
  <2> QED BY <1>2, <2>2, <2>3, <2>4, <2>5, StepType DEF SoundInv
<1> QED BY <1>1, <1>2

\* What is in the list, among overlapping calls, at every moment (the
\* ArrayList of VideoData.audioArraryList under SoundPlay and UdpSocket).
THEOREM SoundCorrect == Spec => []SoundInv
  BY InitSound, StepSound, PTL DEF Spec

\* Whatever the network adds meanwhile, a lone player never finds the list
\* empty, or its head null, between its isEmpty() and its last get(0), unless
\* the user interface clears the list or, for ADPCM, a growing add() copied
\* the array under a remove() (SoundPlay.java:89-91, 177-179).
THEOREM ThrowsOnlyAfterClear == Spec => []ThrowsOnlyWhenCleared
<1>1. SoundInv => ThrowsOnlyWhenCleared
  BY DEF SoundInv
<1> QED BY <1>1, SoundCorrect, PTL

\* Packets are played in the order they came in, and only a packet whose own
\* add() overlapped a remove() is lost, though the list has no lock, unless
\* such an add() grows the array.
THEOREM SoundKept == Spec => []PlaysWhatCame
<1>1. SoundInv => PlaysWhatCame
  <2> SUFFICES ASSUME SoundInv PROVE PlaysWhatCame
    OBVIOUS
  <2>1. KeepsOrder
    <3>1. DOMAIN played = 1..Len(played)
      BY DEF SoundInv, TypeOK
    <3> QED BY <3>1 DEF SoundInv, OrderInv, Ordered, Quiet, KeepsOrder, PlayedInOrder
  <2>2. OnlyRacedPacketsAreLost
    <3> SUFFICES ASSUME OnePlayer, clears = 0, ~torn, NEW p \in 1..came
                 PROVE  \/ p \in raced \/ p \in Listed \/ \E i \in DOMAIN played : played[i] = p
                        \/ call[Net].x = p
      BY DEF OnlyRacedPacketsAreLost
    <3>1. Accounted(p)
      BY DEF SoundInv, PlaceInv, Peace
    <3>2. DOMAIN played = 1..Len(played) /\ size \in Nat
      BY DEF SoundInv, TypeOK, ListTypeOK
    <3>3. HasPlace(p) => p \in Listed
      BY <3>2 DEF HasPlace, Listed, Index
    <3>4. ~Free(Net) /\ p = came => call[Net].x = p
      BY DEF SoundInv, CallsInv
    <3> QED BY <3>1, <3>2, <3>3, <3>4 DEF Accounted
  <2> QED BY <2>1, <2>2 DEF PlaysWhatCame
<1> QED BY <1>1, SoundCorrect, PTL
=============================================================================
