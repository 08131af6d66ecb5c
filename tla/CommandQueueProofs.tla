------------------------- MODULE CommandQueueProofs -------------------------
(***************************************************************************)
(* The queue of server commands, for any number of generations, commands   *)
(* and cameras.                                                            *)
(***************************************************************************)
EXTENDS CommandQueue, SequenceTheorems, TLAPS

-----------------------------------------------------------------------------
(* The inductive invariant *)

\* The commands that have come, and 0, the link that holds nothing.
Known == 0..received
Handling == {"apply", "size", "get", "list", "remove"}

\* A call on a list of these links.
Records(K) == [op : {"none", "add", "link", "remove", "unlink", "close", "longer", "shorter", "count"},
               at : K, by : K, n : Int]

QueueTypes ==
  /\ next \in [Link -> Known] /\ previous \in [Link -> Known] /\ size \in Int
  /\ call \in [Callers -> Records(Known)]
  /\ \A t \in Callers : call[t].op = "none" => Free(t)

\* A handler has a command and has read what it says.
DispatcherTypes ==
  /\ dispatcher \in [Generations ->
       [pc : Handling \cup {"none", "loop", "look", "first", "ended"}, cmd : Known, i : Nat]]
  /\ \A g \in Generations :
       /\ dispatcher[g].pc \in Handling => dispatcher[g].cmd # 0 /\ Said(g) # "unread"
       /\ dispatcher[g].pc \in {"size", "get"} => Said(g) \in Cameras \cup {"status"}
       /\ dispatcher[g].pc = "list" => Said(g) \in Cameras

OtherTypes ==
  /\ limit \in Limits /\ received \in 0..limit.commands /\ acts \in 0..limit.acts
  /\ stop \in BOOLEAN /\ instance \in Generations \cup {0}
  /\ receiver \in [Generations -> {"none", "run", "spawn", "loop", "read", "ended"}]
  /\ cams \in Seq(Cameras)
  /\ ui \in {"idle", "isAP", "stopSoft", "heart"} /\ starting \in 0..MaxStarts
  /\ ui \in {"isAP", "stopSoft"} => starting < MaxStarts
  /\ content \in [Item -> Contents \cup {"unread"}] /\ handled \in Seq(1..received)
  /\ dead \in {"none", "empty", "index", "started"}
  /\ past \subseteq {"race", "overlap", "shifted", "returned", "twice"}

Types == OtherTypes /\ QueueTypes /\ DispatcherTypes

\* Until two isAP() threads are under way at once, there is at most one, and none
\* once there is a ReceiveThread; stopSoft() has forgotten the last one.
StartInv ==
  /\ "twice" \notin past => /\ starting <= 1 /\ (instance # 0 => starting = 0)
                            /\ dead # "started"
  /\ ui = "stopSoft" => instance = 0

\* Until cams changes under a search, a search has compared the cameras it has
\* passed, and is within the list.
CamsInv ==
  past \cap {"shifted", "overlap"} = {} =>
    /\ dead # "index" /\ IsInjective(cams)
    /\ \A g \in Generations :
         /\ dispatcher[g].pc \in {"size", "get"} =>
              dispatcher[g].i <= Len(cams) /\ \A j \in 1..dispatcher[g].i : cams[j] # Said(g)
         /\ dispatcher[g].pc = "get" => dispatcher[g].i < Len(cams)
         /\ dispatcher[g].pc = "list" => \A j \in 1..Len(cams) : cams[j] # Said(g)

\* At most one dispatcher until two overlap, at most one call until two race; a
\* dispatcher waits at its loop for its call to end.
CallersInv ==
  /\ "overlap" \notin past => \A g, h \in Generations : Dispatching(g) /\ Dispatching(h) => g = h
  /\ "race" \notin past => \A t, u \in Callers : ~Free(t) /\ ~Free(u) => t = u
  /\ \A g \in Generations : ~Free(Dispatcher(g)) => dispatcher[g].pc = "loop"
  /\ \A t \in Callers : call[t].op \in {"remove", "unlink", "close", "shorter"} =>
       \E g \in Generations : t = Dispatcher(g)

\* The ring holds the commands lo..hi in order, but for what the one call that is
\* under way has yet to write.
LastIn(lo, hi) == IF lo <= hi THEN hi ELSE 0
FirstIn(lo, hi) == IF lo <= hi THEN lo ELSE 0
RingAt(lo, hi) ==
  /\ lo \in 1..hi + 1
  /\ next[0] = FirstIn(lo, hi)
  /\ \A i \in lo..hi : next[i] = FirstIn(i + 1, hi)
AtRest(lo, hi) ==
  (\A t \in Callers : Free(t)) =>
    hi = received /\ previous[0] = LastIn(lo, hi) /\ size = hi - lo + 1
InCall(c, lo, hi, removes) ==
  /\ c.op \in {"add", "link"} =>
       /\ hi + 1 = received /\ c.at = received /\ c.by = LastIn(lo, hi) /\ next[received] = 0
       /\ previous[0] = IF c.op = "add" THEN LastIn(lo, hi) ELSE received
       /\ size = hi - lo + 1
  /\ c.op \in {"longer", "remove", "unlink", "close", "shorter", "count"} => hi = received
  /\ c.op \in {"longer", "remove", "unlink", "shorter", "count"} => previous[0] = LastIn(lo, hi)
  /\ c.op = "longer" => size = hi - lo
  /\ c.op \in {"remove", "unlink"} => c.at = lo /\ lo <= hi /\ size = hi - lo + 1
  /\ c.op = "unlink" => c.by = FirstIn(lo + 1, hi)
  /\ c.op = "close" => c.by = FirstIn(lo, hi) /\ (lo <= hi => previous[0] = hi)
  /\ c.op \in {"close", "shorter"} => size = hi - lo + 2
  /\ c.op = "count" => c.n = hi - lo + 1 /\ (size = hi - lo \/ removes)
ChainAt(lo, hi) == /\ RingAt(lo, hi) /\ AtRest(lo, hi)
                   /\ \A t \in Callers :
                        InCall(call[t], lo, hi, \E g \in Generations : t = Dispatcher(g))

\* The head of the ring is the command that was handled last, if it is to be
\* removed or was left there, or the one after it.
LastHandled == IF handled = <<>> THEN 0 ELSE handled[Len(handled)]
Removing(t) == call[t].op \in {"remove", "unlink"}
HeadAt(lo, hi) ==
  /\ lo \in {LastHandled, LastHandled + 1}
  /\ \A g \in Generations : dispatcher[g].pc \in Handling =>
       lo = LastHandled /\ dispatcher[g].cmd = lo /\ lo <= hi
  /\ \A t \in Callers : Removing(t) => lo = LastHandled
  /\ lo = LastHandled => \/ \E g \in Generations : dispatcher[g].pc \in Handling
                         \/ \E t \in Callers : Removing(t)
                         \/ content[lo] \in Cameras /\ "returned" \in past
  /\ \A g \in Generations : dispatcher[g].pc = "first" => size > 0

OrderInv ==
  past \cap {"race", "overlap"} = {} =>
    /\ dead # "empty" /\ HandledInOrder
    /\ \E lo, hi \in 0..received + 1 : ChainAt(lo, hi) /\ HeadAt(lo, hi)

CommandInv == Types /\ StartInv /\ CamsInv /\ CallersInv /\ OrderInv

-----------------------------------------------------------------------------
(* Lemmas about the constants *)

\* Every thread is one caller, and no two are the same.
LEMMA Threads ==
  /\ Ui \in Callers
  /\ \A g \in Generations : Dispatcher(g) \in Callers /\ Receiver(g) \in Callers
  /\ \A g, h \in Generations : Dispatcher(g) = Dispatcher(h) => g = h
  /\ \A g, h \in Generations : Dispatcher(g) # Receiver(h)
  /\ \A g \in Generations : Dispatcher(g) # Ui /\ Receiver(g) # Ui
BY CommandQueueAssumption DEF Ui, Dispatcher, Receiver

\* A command that came has a link of its own, and is not the link that holds nothing.
LEMMA Numbers ==
  ASSUME OtherTypes
  PROVE /\ Void = 0 /\ 0 \in Link /\ 0 \notin Item /\ received \in Nat /\ limit.commands \in Nat
        /\ 1..limit.commands \subseteq Item /\ 1..limit.commands \subseteq Link
        /\ 1..received \subseteq Item /\ Known \subseteq Link
        /\ received < limit.commands => received + 1 \in Item /\ received + 1 \in Link
<1>1. Void = 0 /\ 0 \in Link /\ 0 \notin Item
  BY CommandQueueAssumption, LinkedQueueAssumption DEF Link
<1>2. limit.commands \in Nat /\ 1..limit.commands \subseteq Item
  BY CommandQueueAssumption DEF OtherTypes
<1>3. received \in Nat /\ received <= limit.commands
  BY <1>2 DEF OtherTypes
<1> QED BY <1>1, <1>2, <1>3 DEF Known, Link

\* What happens in a step, action by action.
LEMMA NextIs ==
  ASSUME Next
  PROVE /\ dead = "none" /\ limit' = limit
        /\ \/ UiStep
           \/ \E g \in Generations : ReceiverStep(g) \/ DispatcherStep(g)
           \/ \E t \in Callers : QueueStep(t)
BY DEF Next, Alive

-----------------------------------------------------------------------------
(* Types *)

\* At first nothing has come, and every link is the one that holds nothing.
LEMMA InitTypes == Init => Types
<1> SUFFICES ASSUME Init PROVE Types
  OBVIOUS
<1>0. limit \in Limits /\ limit.commands \in Nat /\ limit.acts \in Nat
  BY CommandQueueAssumption DEF Init
<1>5. cams \in Seq(Cameras) /\ handled \in Seq(1..received)
  BY DEF Init
<1>6. content \in [Item -> Contents \cup {"unread"}]
  BY DEF Init
<1>7. received \in 0..limit.commands /\ acts \in 0..limit.acts
  BY <1>0 DEF Init
<1>8. starting \in 0..MaxStarts /\ ui = "idle"
  BY CommandQueueAssumption DEF Init
<1>1. OtherTypes
  BY <1>0, <1>5, <1>6, <1>7, <1>8 DEF Init, OtherTypes
<1>2. Void = 0 /\ Void \in Known /\ 0 \in Known
  BY Numbers, <1>1 DEF Known
<1>3. QueueTypes
  BY <1>2 DEF Records, Init, QueueInit, QueueTypes, NoCall, Free
<1>4. DispatcherTypes
  BY <1>2 DEF Init, DispatcherTypes, Handling
<1> QED BY <1>1, <1>3, <1>4 DEF Types

\* Most actions leave the ring alone.
LEMMA QueueTypesKept ==
  ASSUME QueueTypes, OtherTypes, UNCHANGED queue, received' \in Nat, received' >= received
  PROVE QueueTypes'
<1>1. Known \subseteq Known'
  BY DEF OtherTypes, Known
<1> QED BY <1>1 DEF Records, QueueTypes, queue, Free, NoCall

\* What a command says does not change once a handler has read it.
LEMMA DispatcherTypesKept ==
  ASSUME DispatcherTypes, UNCHANGED dispatcher, received' \in Nat, received' >= received, OtherTypes,
         \A n \in 1..received : content[n] # "unread" => content'[n] = content[n]
  PROVE DispatcherTypes'
<1>1. Known \subseteq Known'
  BY DEF OtherTypes, Known
<1>2. dispatcher' \in [Generations ->
        [pc : Handling \cup {"none", "loop", "look", "first", "ended"}, cmd : Known, i : Nat]]'
  BY <1>1 DEF DispatcherTypes, Handling
<1>3. ASSUME NEW g \in Generations, dispatcher[g].pc \in Handling PROVE content'[dispatcher[g].cmd] = Said(g)
  <2>1. dispatcher[g].cmd \in 1..received
    BY <1>3 DEF DispatcherTypes, Known, OtherTypes
  <2> QED BY <2>1, <1>3 DEF DispatcherTypes, Said
<1>4. \A g \in Generations : dispatcher[g].pc \in {"size", "get", "list"} => dispatcher[g].pc \in Handling
  BY DEF Handling
<1> QED BY <1>2, <1>3, <1>4 DEF DispatcherTypes, Said, Handling

\* A new pc for one dispatcher, which still has its command.
LEMMA GotoTypes ==
  ASSUME DispatcherTypes, UNCHANGED <<received, content>>, NEW g \in Generations,
         NEW pc \in Handling \cup {"none", "loop", "look", "first", "ended"}, Goto(g, pc),
         pc \in Handling => dispatcher[g].pc \in Handling,
         pc \in {"size", "get"} => Said(g) \in Cameras \cup {"status"},
         pc = "list" => Said(g) \in Cameras
  PROVE DispatcherTypes'
<1>1. dispatcher' \in [Generations ->
        [pc : Handling \cup {"none", "loop", "look", "first", "ended"}, cmd : Known, i : Nat]]'
  BY DEF DispatcherTypes, Handling, Goto, Known
<1>2. \A h \in Generations : /\ dispatcher'[h].cmd = dispatcher[h].cmd
                             /\ dispatcher'[h].pc = IF h = g THEN pc ELSE dispatcher[h].pc
  BY DEF DispatcherTypes, Goto
<1> QED BY <1>1, <1>2 DEF DispatcherTypes, Said

\* Commands only come, and what is said about one is said once.
LEMMA CommandsStep ==
  ASSUME OtherTypes, QueueTypes, Next
  PROVE /\ received' \in 0..limit.commands /\ received' >= received
        /\ content' \in [Item -> Contents \cup {"unread"}]
        /\ \A n \in 1..received : content[n] # "unread" => content'[n] = content[n]
<1> USE DEF OtherTypes
<1>1. received \in Nat /\ limit.commands \in Nat /\ 1..limit.commands \subseteq Item
  BY Numbers
<1>2. CASE received' = received + 1 /\ received < limit.commands /\ UNCHANGED content
  BY <1>1, <1>2
<1>3. CASE received' = received + 1 /\ received < limit.commands
           /\ content' = [content EXCEPT ![received'] = "other"]
  BY <1>1, <1>3 DEF Contents
<1>4. CASE UNCHANGED <<received, content>>
  BY <1>1, <1>4
<1>5. CASE \E g \in Generations : GetFirst(g)
  <2>1. PICK g \in Generations : GetFirst(g)
    BY <1>5
  <2>2. CASE Empty
    BY <2>1, <2>2, <1>4 DEF GetFirst
  <2>3. CASE ~Empty
    <3>1. PICK k \in IF content[First] = "unread" THEN limit.says ELSE {content[First]} :
            content' = [content EXCEPT ![First] = k]
      BY <2>1, <2>3 DEF GetFirst
    <3>2. First \in Item
      BY <2>3, Numbers DEF QueueTypes, Known, First, Empty, Link
    <3>3. limit.says \subseteq Contents
      BY CommandQueueAssumption
    <3>4. k \in Contents \cup {"unread"}
      BY <3>1, <3>2, <3>3
    <3> QED BY <3>1, <3>2, <3>4, <2>1, <1>1 DEF GetFirst
  <2> QED BY <2>2, <2>3
<1>6. CASE UiStep
  BY <1>6, <1>2, <1>3, <1>4 DEF UiStep, Resume, Retry, Interrupt, StopSoft, GiveUp, OnStart, StartHeart,
     Exit, Download, Delete, service, commands
<1>7. CASE \E g \in Generations : ReceiverStep(g)
  BY <1>7, <1>2, <1>4 DEF ReceiverStep, Began, Spawn, ReceiverLoop, Receive, ReceiveNothing, commands
<1>8. CASE \E g \in Generations : DispatcherStep(g)
  BY <1>8, <1>4, <1>5 DEF DispatcherStep, DispatcherLoop, Look, Apply, SearchSize, SearchGet, List, RemoveHandled, commands
<1>9. CASE \E t \in Callers : QueueStep(t)
  BY <1>9, <1>4 DEF QueueStep, commands
<1> QED BY <1>6, <1>7, <1>8, <1>9, NextIs

\* The list of cameras holds cameras.
LEMMA CamsStep ==
  ASSUME OtherTypes, DispatcherTypes, Next
  PROVE cams' \in Seq(Cameras)
<1>1. cams \in Seq(Cameras)
  BY DEF OtherTypes
<1>2. CASE UNCHANGED cams
  BY <1>1, <1>2
<1>3. CASE cams' = <<>>
  BY <1>3
<1>4. CASE \E g \in Generations : List(g)
  <2>1. PICK g \in Generations : List(g)
    BY <1>4
  <2>2. Said(g) \in Cameras
    BY <2>1 DEF List, DispatcherTypes
  <2> QED BY <2>1, <2>2, <1>1, AppendProperties DEF List
<1>5. CASE Delete
  <2>1. PICK i \in 1..Len(cams) : cams' = SubSeq(cams, 1, i - 1) \o SubSeq(cams, i + 1, Len(cams))
    BY <1>5 DEF Delete
  <2>2. SubSeq(cams, 1, i - 1) \in Seq(Cameras) /\ SubSeq(cams, i + 1, Len(cams)) \in Seq(Cameras)
    <3>1. Len(cams) \in Nat /\ \A j \in 1..Len(cams) : cams[j] \in Cameras
      BY <1>1
    <3>2. \A j \in 1..i - 1 : cams[j] \in Cameras
      BY <3>1
    <3>3. \A j \in i + 1..Len(cams) : cams[j] \in Cameras
      BY <3>1
    <3> QED BY <3>1, <3>2, <3>3, <1>1, SubSeqProperties
  <2> QED BY <2>1, <2>2, ConcatProperties
<1>6. CASE UiStep
  BY <1>6, <1>2, <1>3, <1>5 DEF UiStep, Resume, Retry, Interrupt, StopSoft, GiveUp, OnStart, StartHeart,
     Exit, Download, service, commands
<1>7. CASE \E g \in Generations : ReceiverStep(g)
  BY <1>7, <1>2 DEF ReceiverStep, Began, Spawn, ReceiverLoop, Receive, ReceiveNothing
<1>8. CASE \E g \in Generations : DispatcherStep(g)
  BY <1>8, <1>2, <1>3, <1>4 DEF DispatcherStep, DispatcherLoop, Look, GetFirst, Apply, SearchSize, SearchGet, RemoveHandled
<1>9. CASE \E t \in Callers : QueueStep(t)
  BY <1>9, <1>2 DEF QueueStep
<1> QED BY <1>6, <1>7, <1>8, <1>9, NextIs

\* Each handled command is one that came.
LEMMA HandledStep ==
  ASSUME OtherTypes, QueueTypes, Next
  PROVE handled' \in Seq(1..received')
<1>1. handled \in Seq(1..received) /\ received \in Nat /\ received' \in Nat /\ received' >= received
  BY CommandsStep, Numbers DEF OtherTypes
<1>2. CASE UNCHANGED handled
  BY <1>1, <1>2
<1>3. CASE \E g \in Generations : GetFirst(g)
  <2>1. PICK g \in Generations : GetFirst(g)
    BY <1>3
  <2>2. CASE Empty
    BY <2>1, <2>2, <1>2 DEF GetFirst
  <2>3. CASE ~Empty
    <3>1. First \in 1..received
      BY <2>3, Numbers DEF QueueTypes, Known, First, Empty
    <3>2. handled' = Append(handled, First) /\ received' = received
      BY <2>1, <2>3 DEF GetFirst
    <3> QED BY <3>1, <3>2, <1>1, AppendProperties
  <2> QED BY <2>2, <2>3
<1>6. CASE UiStep
  BY <1>6, <1>2 DEF UiStep, Resume, Retry, Interrupt, StopSoft, GiveUp, OnStart, StartHeart,
     Exit, Download, Delete, service, commands
<1>7. CASE \E g \in Generations : ReceiverStep(g)
  BY <1>7, <1>2 DEF ReceiverStep, Began, Spawn, ReceiverLoop, Receive, ReceiveNothing, commands
<1>8. CASE \E g \in Generations : DispatcherStep(g)
  BY <1>8, <1>2, <1>3 DEF DispatcherStep, DispatcherLoop, Look, Apply, SearchSize, SearchGet, List, RemoveHandled, commands
<1>9. CASE \E t \in Callers : QueueStep(t)
  BY <1>9, <1>2 DEF QueueStep, commands
<1> QED BY <1>6, <1>7, <1>8, <1>9, NextIs

\* Every step keeps the types of all but the ring and the dispatchers.
LEMMA OtherTypesStep ==
  ASSUME OtherTypes, QueueTypes, DispatcherTypes, Next
  PROVE OtherTypes'
<1>1. limit' = limit /\ limit.acts \in Nat /\ limit.commands \in Nat /\ MaxStarts \in Nat
      /\ received' \in 0..limit.commands
  BY NextIs, CommandsStep, CommandQueueAssumption DEF OtherTypes
<1>2. cams' \in Seq(Cameras) /\ handled' \in Seq(1..received') /\ content' \in [Item -> Contents \cup {"unread"}]
  BY CamsStep, HandledStep, CommandsStep
<1>3. acts' \in 0..limit.acts
  <2>1. acts' = acts \/ (acts < limit.acts /\ acts' = acts + 1)
    BY NextIs DEF UiStep, Resume, Retry, Interrupt, StopSoft, GiveUp, OnStart, StartHeart, Exit, Download, Delete, Act,
       ReceiverStep, Began, Spawn, ReceiverLoop, Receive, ReceiveNothing,
       DispatcherStep, DispatcherLoop, Look, GetFirst, Apply, SearchSize, SearchGet, List, RemoveHandled, QueueStep
  <2> QED BY <2>1, <1>1 DEF OtherTypes
<1>4. /\ starting' \in 0..MaxStarts /\ ui' \in {"idle", "isAP", "stopSoft", "heart"}
      /\ ui' \in {"isAP", "stopSoft"} => starting' < MaxStarts
  <2>1. starting \in 0..MaxStarts /\ ui \in {"idle", "isAP", "stopSoft", "heart"}
        /\ (ui \in {"isAP", "stopSoft"} => starting < MaxStarts)
    BY DEF OtherTypes
  <2>2. CASE Resume \/ Retry
    BY <2>1, <2>2, <1>1 DEF Resume, Retry, service
  <2>3. CASE UNCHANGED <<starting, ui>>
    BY <2>1, <2>3
  <2>4. CASE Interrupt
    BY <2>1, <2>4 DEF Interrupt
  <2>5. CASE StopSoft
    BY <2>1, <2>5, <1>1 DEF StopSoft
  <2>6. CASE GiveUp
    BY <2>1, <2>6, <1>1 DEF GiveUp
  <2>7. CASE OnStart
    <3>1. ui = "idle" /\ starting > 0 /\ starting' = starting - 1 /\ (ui' = ui \/ ui' \in {"idle", "heart"})
      BY <2>7 DEF OnStart, Idle
    <3> QED BY <3>1, <2>1, <1>1
  <2>8. CASE StartHeart
    BY <2>1, <2>8 DEF StartHeart, service
  <2>9. CASE Exit \/ Download \/ Delete
    BY <2>3, <2>9 DEF Exit, Download, Delete, service
  <2> QED BY <2>2, <2>3, <2>4, <2>5, <2>6, <2>7, <2>8, <2>9, NextIs DEF UiStep, ReceiverStep, Began, Spawn, ReceiverLoop, Receive, ReceiveNothing, service,
       DispatcherStep, DispatcherLoop, Look, GetFirst, Apply, SearchSize, SearchGet, List, RemoveHandled, QueueStep
<1>5. /\ stop' \in BOOLEAN /\ instance' \in Generations \cup {0}
      /\ receiver' \in [Generations -> {"none", "run", "spawn", "loop", "read", "ended"}]
  <2>1. /\ stop \in BOOLEAN /\ instance \in Generations \cup {0}
        /\ receiver \in [Generations -> {"none", "run", "spawn", "loop", "read", "ended"}]
    BY DEF OtherTypes
  <2>2. CASE UiStep
    BY <2>1, <2>2 DEF UiStep, Resume, Retry, Interrupt, StopSoft, GiveUp, OnStart, StartHeart, Exit, Download, Delete,
       service
  <2>3. CASE \E g \in Generations : ReceiverStep(g)
    BY <2>1, <2>3 DEF ReceiverStep, Began, Spawn, ReceiverLoop, Receive, ReceiveNothing
  <2>4. CASE \E g \in Generations : DispatcherStep(g)
    BY <2>1, <2>4 DEF DispatcherStep, DispatcherLoop, Look, GetFirst, Apply, SearchSize, SearchGet, List, RemoveHandled, service
  <2> QED BY <2>1, <2>2, <2>3, <2>4, NextIs DEF QueueStep, service
<1>6. /\ dead' \in {"none", "empty", "index", "started"}
      /\ past' \subseteq {"race", "overlap", "shifted", "returned", "twice"}
  BY NextIs DEF OtherTypes, UiStep, Resume, Retry, Interrupt, StopSoft, GiveUp, OnStart, StartHeart, Exit, Download, Delete,
       ReceiverStep, Began, Spawn, ReceiverLoop, Receive, ReceiveNothing, Die, Racing, Shifting,
       DispatcherStep, DispatcherLoop, Look, GetFirst, Apply, SearchSize, SearchGet, List, RemoveHandled, QueueStep
<1> QED BY <1>1, <1>2, <1>3, <1>4, <1>5, <1>6 DEF OtherTypes

\* Adding and removing write only commands that came into the ring.
LEMMA AddTypes ==
  ASSUME OtherTypes, QueueTypes, NEW t \in Callers, received < limit.commands,
         received' = received + 1, Add(t, received')
  PROVE QueueTypes'
<1>1. Known \subseteq Known' /\ received' \in Link /\ received' \in Known' /\ 0 \in Known' /\ Void = 0 /\ 0 \in Link
  BY Numbers DEF Known
<1>2. next' \in [Link -> Known'] /\ previous' \in [Link -> Known'] /\ size' \in Int /\ previous[0] \in Known'
  BY <1>1 DEF QueueTypes, Add
<1>3. \A u \in Callers : call'[u] = IF u = t THEN [op |-> "add", at |-> received', by |-> previous[0], n |-> 0]
                                    ELSE call[u]
  BY <1>1 DEF QueueTypes, Add
<1>4. call' \in [Callers -> Records(Known')]
  <2>1. call' = [call EXCEPT ![t] = [op |-> "add", at |-> received', by |-> previous[0], n |-> 0]]
    BY <1>1 DEF Add
  <2>2. \A u \in Callers : call[u] \in Records(Known')
    BY <1>1 DEF Records, QueueTypes
  <2>3. [op |-> "add", at |-> received', by |-> previous[0], n |-> 0] \in Records(Known')
    BY <1>1, <1>2 DEF Records
  <2> QED BY <2>1, <2>2, <2>3 DEF QueueTypes
<1> QED BY <1>2, <1>3, <1>4 DEF QueueTypes, Free, NoCall

\* So does the call that removes the first.
LEMMA RemoveTypes ==
  ASSUME OtherTypes, QueueTypes, NEW t \in Callers, RemoveFirst(t), UNCHANGED received
  PROVE QueueTypes'
<1>1. Void = 0 /\ 0 \in Link /\ 0 \in Known /\ Known' = Known
  BY Numbers DEF Known
<1>2. next' \in [Link -> Known'] /\ previous' \in [Link -> Known'] /\ size' \in Int /\ next[0] \in Known
  BY <1>1 DEF QueueTypes, RemoveFirst
<1> DEFINE c == [NoCall EXCEPT !.op = "remove", !.at = First]
<1>3. c \in Records(Known') /\ c.op = "remove"
  <2>1. First \in Known'
    BY <1>1, <1>2 DEF First
  <2>2. NoCall \in Records(Known')
    BY <1>1 DEF Records, NoCall
  <2> QED BY <2>1, <2>2 DEF Records
<1>4. call' = [call EXCEPT ![t] = c] /\ call \in [Callers -> Records(Known')]
  BY <1>1 DEF QueueTypes, RemoveFirst
<1> HIDE DEF c
<1>5. call' \in [Callers -> Records(Known')]
  BY <1>3, <1>4
<1>6. \A u \in Callers : call'[u].op = "none" => call'[u] = NoCall
  BY <1>3, <1>4 DEF QueueTypes, Free
<1> QED BY <1>1, <1>2, <1>5, <1>6 DEF QueueTypes, Free, Records

\* Nor does a call leave them.
LEMMA ContinueTypes ==
  ASSUME OtherTypes, QueueTypes, NEW t \in Callers, Continue(t), UNCHANGED received
  PROVE QueueTypes'
<1>1. Void = 0 /\ 0 \in Link /\ 0 \in Known /\ Known' = Known /\ Known \subseteq Link
  BY Numbers DEF Known
<1>2. call[t].at \in Known /\ call[t].by \in Known /\ call[t].n \in Int
  BY DEF Records, QueueTypes
<1>3. CASE BecomeLast(t)
  BY <1>1, <1>2, <1>3 DEF Records, QueueTypes, BecomeLast, Free, NoCall
<1>4. CASE LinkUp(t)
  BY <1>1, <1>2, <1>4 DEF Records, QueueTypes, LinkUp, Free, NoCall
<1>5. CASE ReadNext(t)
  <2>1. next[call[t].at] \in Known
    BY <1>1, <1>2 DEF QueueTypes
  <2> QED BY ZenonT(60), <1>1, <1>2, <1>5, <2>1 DEF Records, QueueTypes, ReadNext, Free, NoCall
<1>6. CASE Unlink(t)
  BY <1>1, <1>2, <1>6 DEF Records, QueueTypes, Unlink, Free, NoCall
<1>7. CASE CloseUp(t)
  BY <1>1, <1>2, <1>7 DEF Records, QueueTypes, CloseUp, Free, NoCall
<1>8. CASE ReadSize(t)
  <2>1. PICK s \in {-1, 1} : call' = [call EXCEPT ![t] = [NoCall EXCEPT !.op = "count", !.n = size + s]]
    BY <1>8 DEF ReadSize
  <2> DEFINE c == [NoCall EXCEPT !.op = "count", !.n = size + s]
  <2>2. size + s \in Int
    BY DEF QueueTypes
  <2>3. c \in Records(Known') /\ c.op = "count"
    BY <1>1, <2>2 DEF Records, NoCall
  <2>4. call' = [call EXCEPT ![t] = c] /\ call \in [Callers -> Records(Known')]
    BY <1>1, <2>1 DEF QueueTypes
  <2> HIDE DEF c
  <2>5. call' \in [Callers -> Records(Known')]
    BY <2>3, <2>4
  <2>6. \A u \in Callers : call'[u].op = "none" => call'[u] = NoCall
    BY <2>3, <2>4 DEF QueueTypes, Free
  <2> QED BY <1>1, <1>8, <2>5, <2>6 DEF QueueTypes, ReadSize, Free, Records
<1>9. CASE WriteSize(t)
  BY <1>1, <1>2, <1>9 DEF Records, QueueTypes, WriteSize, Free, NoCall
<1> QED BY <1>3, <1>4, <1>5, <1>6, <1>7, <1>8, <1>9 DEF Continue

\* Every step keeps the types of the ring and of the calls on it.
LEMMA QueueTypesStep ==
  ASSUME OtherTypes, QueueTypes, Next
  PROVE QueueTypes'
<1>1. received' \in Nat /\ received' >= received
  BY CommandsStep, Numbers
<1>2. CASE UNCHANGED queue
  BY <1>1, <1>2, QueueTypesKept
<1>3. CASE UiStep
  <2>1. CASE StartHeart /\ received < limit.commands
    BY <2>1, Threads, AddTypes DEF StartHeart
  <2>2. CASE StartHeart /\ ~(received < limit.commands)
    BY <2>2, <1>2 DEF StartHeart
  <2> QED BY <1>3, <1>2, <2>1, <2>2 DEF UiStep, Resume, Retry, Interrupt, StopSoft, GiveUp, OnStart, Exit, Download, Delete
<1>4. CASE \E g \in Generations : ReceiverStep(g)
  <2>1. PICK g \in Generations : ReceiverStep(g)
    BY <1>4
  <2>2. CASE Receive(g)
    BY <2>2, Threads, AddTypes DEF Receive
  <2> QED BY <2>1, <1>2, <2>2 DEF ReceiverStep, Began, Spawn, ReceiverLoop, ReceiveNothing
<1>5. CASE \E g \in Generations : DispatcherStep(g)
  <2>1. PICK g \in Generations : DispatcherStep(g)
    BY <1>5
  <2>2. CASE RemoveHandled(g) /\ ~Empty
    BY <2>2, Threads, RemoveTypes DEF RemoveHandled, commands
  <2>3. CASE RemoveHandled(g) /\ Empty
    BY <2>3, <1>2 DEF RemoveHandled
  <2> QED BY <2>1, <1>2, <2>2, <2>3 DEF DispatcherStep, DispatcherLoop, Look, GetFirst, Apply, SearchSize, SearchGet, List
<1>6. CASE \E t \in Callers : QueueStep(t)
  BY <1>6, ContinueTypes DEF QueueStep, commands
<1> QED BY <1>3, <1>4, <1>5, <1>6, NextIs

\* Every step keeps the types of the dispatchers, and a handler's command read.
LEMMA DispatcherTypesStep ==
  ASSUME OtherTypes, QueueTypes, DispatcherTypes, Next
  PROVE DispatcherTypes'
<1>1. /\ received' \in Nat /\ received' >= received
      /\ \A n \in 1..received : content[n] # "unread" => content'[n] = content[n]
  BY CommandsStep, Numbers
<1>2. CASE UNCHANGED dispatcher
  BY <1>1, <1>2, DispatcherTypesKept
<1>3. CASE UiStep
  BY <1>3, <1>2 DEF UiStep, Resume, Retry, Interrupt, StopSoft, GiveUp, OnStart, StartHeart, Exit, Download, Delete
<1>4. CASE \E g \in Generations : ReceiverStep(g)
  <2>1. PICK g \in Generations : ReceiverStep(g)
    BY <1>4
  <2>2. CASE Spawn(g)
    BY <2>2, GotoTypes DEF Spawn, commands, Handling
  <2> QED BY <2>1, <1>2, <2>2 DEF ReceiverStep, Began, ReceiverLoop, Receive, ReceiveNothing
<1>5. CASE \E g \in Generations : DispatcherStep(g)
  <2>1. PICK g \in Generations : DispatcherStep(g)
    BY <1>5
  <2>2. CASE DispatcherLoop(g)
    BY <2>2, GotoTypes DEF DispatcherLoop, commands, Handling
  <2>3. CASE Look(g)
    BY <2>3, GotoTypes DEF Look, commands, Handling
  <2>4. CASE GetFirst(g) /\ ~Empty
    <3>1. PICK k \in IF content[First] = "unread" THEN limit.says ELSE {content[First]} :
            /\ content' = [content EXCEPT ![First] = k]
            /\ dispatcher' = [dispatcher EXCEPT ![g] =
                 [pc |-> IF k \in Cameras \cup {"status"} THEN "size" ELSE "apply", cmd |-> First, i |-> 0]]
      BY <2>4 DEF GetFirst
    <3>2. First \in 1..received /\ First \in Item
      <4>1. First \in 1..received
        BY <2>4, Numbers DEF QueueTypes, Known, First, Empty
      <4> QED BY <4>1, Numbers
    <3>3. k # "unread"
      BY <3>1, CommandQueueAssumption DEF Contents, OtherTypes
    <3>4. content'[First] = k
      BY <3>1, <3>2 DEF OtherTypes
    <3>5. received' = received /\ Known' = Known /\ First \in Known
      BY <2>4, <3>2 DEF GetFirst, Known
    <3> DEFINE d == [pc |-> IF k \in Cameras \cup {"status"} THEN "size" ELSE "apply", cmd |-> First, i |-> 0]
    <3>6. dispatcher' \in [Generations ->
            [pc : Handling \cup {"none", "loop", "look", "first", "ended"}, cmd : Known, i : Nat]]
      BY <3>1, <3>5 DEF DispatcherTypes, Handling
    <3>7. dispatcher'[g] = d /\ \A h \in Generations \ {g} : dispatcher'[h] = dispatcher[h]
      BY <3>1 DEF DispatcherTypes
    <3>8. ASSUME NEW h \in Generations \ {g}, dispatcher[h].pc \in Handling
          PROVE content'[dispatcher[h].cmd] = Said(h)
      <4>1. dispatcher[h].cmd \in 1..received
        BY <3>8, Numbers DEF DispatcherTypes, Known
      <4> QED BY <4>1, <3>8, <1>1 DEF DispatcherTypes, Said
    <3>9. \A h \in Generations \ {g} :
            /\ dispatcher'[h].pc \in Handling => dispatcher'[h].cmd # 0 /\ Said(h)' # "unread"
            /\ dispatcher'[h].pc \in {"size", "get"} => Said(h)' \in Cameras \cup {"status"}
            /\ dispatcher'[h].pc = "list" => Said(h)' \in Cameras
      BY <3>7, <3>8 DEF DispatcherTypes, Said, Handling
    <3>10. Said(g)' = k /\ dispatcher'[g].cmd # 0 /\ dispatcher'[g].pc # "list"
           /\ (dispatcher'[g].pc \in {"size", "get"} => k \in Cameras \cup {"status"})
      BY <3>4, <3>7, <3>2 DEF Said
    <3> QED BY <3>3, <3>5, <3>6, <3>9, <3>10 DEF DispatcherTypes
  <2>5. CASE GetFirst(g) /\ Empty
    BY <2>5, <1>2 DEF GetFirst
  <2>6. CASE Apply(g)
    BY <2>6, GotoTypes DEF Apply, commands, Handling
  <2>7. CASE SearchSize(g)
    BY <2>7, GotoTypes DEF SearchSize, commands, Handling, DispatcherTypes
  <2>8. CASE SearchGet(g)
    <3>1. CASE UNCHANGED dispatcher
      BY <3>1, <1>2
    <3>2. CASE Goto(g, "ended")
      BY <3>2, <2>8, GotoTypes DEF SearchGet, commands, Handling
    <3>3. CASE dispatcher' = [dispatcher EXCEPT ![g].pc = "size", ![g].i = dispatcher[g].i + 1]
      <4>1. dispatcher' \in [Generations ->
              [pc : Handling \cup {"none", "loop", "look", "first", "ended"}, cmd : Known, i : Nat]]
        BY <3>3 DEF DispatcherTypes, Handling
      <4>2. UNCHANGED <<received, content>> /\ Known' = Known
        BY <2>8 DEF SearchGet, commands, Known
      <4>3. \A h \in Generations :
              /\ dispatcher'[h].cmd = dispatcher[h].cmd
              /\ dispatcher'[h].pc = IF h = g THEN "size" ELSE dispatcher[h].pc
        BY <3>3 DEF DispatcherTypes
      <4>4. \A h \in Generations : Said(h)' = Said(h)
        BY <4>2, <4>3 DEF Said
      <4> QED BY <2>8, <4>1, <4>2, <4>3, <4>4 DEF DispatcherTypes, SearchGet, Handling
    <3> QED BY <2>8, <3>1, <3>2, <3>3 DEF SearchGet
  <2>9. CASE List(g)
    BY <2>9, GotoTypes DEF List, commands, Handling
  <2>10. CASE RemoveHandled(g)
    <3>1. CASE UNCHANGED dispatcher
      BY <3>1, <1>2
    <3>2. CASE dispatcher' = [dispatcher EXCEPT ![g] = AtLoop]
      <4>1. AtLoop \in [pc : {"loop"}, cmd : Known, i : Nat]
        BY Numbers DEF AtLoop, Known
      <4>2. dispatcher' \in [Generations ->
              [pc : Handling \cup {"none", "loop", "look", "first", "ended"}, cmd : Known, i : Nat]]
        BY <3>2, <4>1 DEF DispatcherTypes, Handling
      <4>3. UNCHANGED <<received, content>> /\ Known' = Known
        BY <2>10 DEF RemoveHandled, commands, Known
      <4>4. dispatcher'[g].pc = "loop" /\ \A h \in Generations \ {g} : dispatcher'[h] = dispatcher[h]
        BY <3>2, <4>1 DEF DispatcherTypes
      <4> QED BY <4>2, <4>3, <4>4 DEF DispatcherTypes, Said, Handling
    <3> QED BY <2>10, <3>1, <3>2 DEF RemoveHandled
  <2> QED BY <2>1, <2>2, <2>3, <2>4, <2>5, <2>6, <2>7, <2>8, <2>9, <2>10 DEF DispatcherStep
<1>6. CASE \E t \in Callers : QueueStep(t)
  BY <1>6, <1>2 DEF QueueStep
<1> QED BY <1>3, <1>4, <1>5, <1>6, NextIs

\* So every step keeps all types.
LEMMA TypesStep == Types /\ Next => Types'
BY OtherTypesStep, QueueTypesStep, DispatcherTypesStep DEF Types

-----------------------------------------------------------------------------
(* Starting *)

\* What has happened is not forgotten.
LEMMA PastGrows == Next => past \subseteq past'
BY NextIs DEF UiStep, Resume, Retry, Interrupt, StopSoft, GiveUp, OnStart, StartHeart, Exit, Download, Delete,
     ReceiverStep, Began, Spawn, ReceiverLoop, Receive, ReceiveNothing, Racing, Shifting,
     DispatcherStep, DispatcherLoop, Look, GetFirst, Apply, SearchSize, SearchGet, List, RemoveHandled, QueueStep

\* A second isAP() thread is not forgotten; a first starts a ReceiveThread only when there is none.
LEMMA StartStep == Types /\ StartInv /\ Next => StartInv'
<1> SUFFICES ASSUME Types, StartInv, Next PROVE StartInv'
  OBVIOUS
<1>1. past \subseteq past' /\ dead = "none" /\ starting \in Nat
  BY PastGrows, NextIs, CommandQueueAssumption DEF Types, OtherTypes
<1>2. CASE /\ UNCHANGED <<instance, starting>> /\ dead' # "started"
           /\ ui' = ui \/ ui' # "stopSoft"
  BY <1>1, <1>2 DEF StartInv
<1>3. CASE UiStep
  <2>1. CASE Interrupt
    BY <1>1, <2>1 DEF StartInv, Interrupt
  <2>2. CASE StopSoft
    BY <1>1, <2>2 DEF StartInv, StopSoft
  <2>3. CASE GiveUp
    BY <1>1, <2>3 DEF StartInv, GiveUp
  <2>4. CASE OnStart
    <3>1. CASE "twice" \in past'
      BY <2>4, <3>1 DEF StartInv, OnStart, Idle
    <3>2. CASE "twice" \notin past'
      <4>1. "twice" \notin past /\ starting = 1 /\ instance = 0
        BY <1>1, <2>4, <3>2 DEF StartInv, OnStart
      <4> QED BY <1>1, <2>4, <4>1 DEF StartInv, OnStart, Idle, Die
    <3> QED BY <3>1, <3>2
  <2> QED BY <1>1, <1>2, <1>3, <2>1, <2>2, <2>3, <2>4
       DEF UiStep, Resume, Retry, StartHeart, Exit, Download, Delete, service
<1>4. CASE \E g \in Generations : ReceiverStep(g)
  BY <1>1, <1>2, <1>4 DEF ReceiverStep, Began, Spawn, ReceiverLoop, Receive, ReceiveNothing
<1>5. CASE \E g \in Generations : DispatcherStep(g)
  BY <1>1, <1>2, <1>5 DEF DispatcherStep, DispatcherLoop, Look, GetFirst, Apply, SearchSize, SearchGet, List,
     RemoveHandled, Die, service
<1>6. CASE \E t \in Callers : QueueStep(t)
  BY <1>1, <1>2, <1>6 DEF QueueStep, service
<1> QED BY <1>3, <1>4, <1>5, <1>6, NextIs

-----------------------------------------------------------------------------
(* Callers *)

\* A dispatcher in a call waits at its loop.
Waiting == \A g \in Generations : ~Free(Dispatcher(g)) => dispatcher[g].pc = "loop"
\* Only dispatchers remove.
Removers == \A t \in Callers : call[t].op \in {"remove", "unlink", "close", "shorter"} =>
              \E g \in Generations : t = Dispatcher(g)
OneDispatcher == "overlap" \notin past => \A g, h \in Generations : Dispatching(g) /\ Dispatching(h) => g = h
OneCall == "race" \notin past => \A t, u \in Callers : ~Free(t) /\ ~Free(u) => t = u

\* The parts of CallersInv by name.
LEMMA CallersAre == CallersInv <=> OneDispatcher /\ OneCall /\ Waiting /\ Removers
BY DEF CallersInv, OneDispatcher, OneCall, Waiting, Removers

\* A second dispatcher is seen when it is spawned.
LEMMA OneDispatcherStep == Types /\ OneDispatcher /\ Next => OneDispatcher'
<1> SUFFICES ASSUME Types, OneDispatcher, Next PROVE OneDispatcher'
  OBVIOUS
<1>1. past \subseteq past' /\ DispatcherTypes
  BY PastGrows DEF Types
<1>2. CASE \A g \in Generations : Dispatching(g)' => Dispatching(g)
  BY <1>1, <1>2 DEF OneDispatcher
<1>3. CASE UNCHANGED dispatcher
  BY <1>2, <1>3 DEF Dispatching
<1>4. CASE \E g \in Generations : ReceiverStep(g)
  <2>1. PICK g \in Generations : ReceiverStep(g)
    BY <1>4
  <2>2. CASE Spawn(g)
    <3>1. CASE \E h \in Generations : Dispatching(h)
      BY <2>2, <3>1 DEF Spawn, OneDispatcher
    <3>2. CASE \A h \in Generations : ~Dispatching(h)
      <4>1. \A h \in Generations \ {g} : dispatcher'[h].pc = dispatcher[h].pc
        BY <2>2, <1>1 DEF Spawn, Goto, DispatcherTypes
      <4> QED BY <4>1, <3>2 DEF OneDispatcher, Dispatching
    <3> QED BY <3>1, <3>2
  <2> QED BY <2>1, <2>2, <1>3 DEF ReceiverStep, Began, ReceiverLoop, Receive, ReceiveNothing
<1>5. CASE \E g \in Generations : DispatcherStep(g)
  <2>1. PICK g \in Generations : DispatcherStep(g)
    BY <1>5
  <2>2. Dispatching(g)
    BY <2>1 DEF Dispatching, DispatcherStep, DispatcherLoop, Look, GetFirst, Apply, SearchSize, SearchGet, List, RemoveHandled
  <2>3. \A h \in Generations \ {g} : dispatcher'[h] = dispatcher[h]
    BY <2>1, <1>1 DEF DispatcherTypes, DispatcherStep, DispatcherLoop, Look, GetFirst, Apply, SearchSize, SearchGet, List,
       RemoveHandled, Goto
  <2> QED BY <2>2, <2>3, <1>2 DEF Dispatching
<1>6. CASE UiStep
  BY <1>6, <1>3 DEF UiStep, Resume, Retry, Interrupt, StopSoft, GiveUp, OnStart, StartHeart, Exit, Download, Delete
<1>7. CASE \E t \in Callers : QueueStep(t)
  BY <1>7, <1>3 DEF QueueStep
<1> QED BY <1>4, <1>5, <1>6, <1>7, NextIs

\* The next step of a call, by what the call does.
LEMMA ContinueIs ==
  ASSUME QueueTypes, NEW t \in Callers, Continue(t), Void = 0
  PROVE  LET c == call[t]
             d == call'[t] IN
    \/ /\ c.op = "add" /\ d.op = "link" /\ d.at = c.at /\ d.by = c.by
       /\ previous' = [previous EXCEPT ![0] = c.at] /\ UNCHANGED <<next, size>>
    \/ /\ c.op = "link" /\ d.op = "longer"
       /\ next' = [next EXCEPT ![c.by] = c.at] /\ UNCHANGED <<previous, size>>
    \/ /\ c.op = "remove" /\ d.op = "unlink" /\ d.at = c.at /\ d.by = next[c.at]
       /\ UNCHANGED <<next, previous, size>>
    \/ /\ c.op = "unlink" /\ d.op = "close" /\ d.by = c.by
       /\ next' = [next EXCEPT ![0] = c.by] /\ UNCHANGED <<previous, size>>
    \/ /\ c.op = "close" /\ d.op = "shorter"
       /\ previous' = [previous EXCEPT ![c.by] = 0] /\ UNCHANGED <<next, size>>
    \/ /\ c.op \in {"longer", "shorter"} /\ d.op = "count"
       /\ d.n = IF c.op = "longer" THEN size + 1 ELSE size - 1
       /\ UNCHANGED <<next, previous, size>>
    \/ /\ c.op = "count" /\ d.op = "none"
       /\ size' = c.n /\ UNCHANGED <<next, previous>>
<1> USE DEF QueueTypes
<1>1. CASE BecomeLast(t)
  BY <1>1 DEF BecomeLast, At, Records
<1>2. CASE LinkUp(t)
  BY <1>2 DEF LinkUp, At, Records
<1>3. CASE ReadNext(t)
  BY <1>3 DEF ReadNext, At, Records
<1>4. CASE Unlink(t)
  BY <1>4 DEF Unlink, At, Records
<1>5. CASE CloseUp(t)
  BY <1>5 DEF CloseUp, At, Records
<1>6. CASE ReadSize(t)
  <2>1. PICK s \in {-1, 1} :
          /\ call[t].op = (IF s = 1 THEN "longer" ELSE "shorter")
          /\ call' = [call EXCEPT ![t] = [NoCall EXCEPT !.op = "count", !.n = size + s]]
          /\ UNCHANGED <<next, previous, size>>
    BY <1>6 DEF ReadSize, At
  <2>2. call'[t] = [NoCall EXCEPT !.op = "count", !.n = size + s]
    BY <2>1
  <2>3. call'[t].op = "count" /\ call'[t].n = size + s
    BY <2>2 DEF NoCall
  <2> QED BY <2>1, <2>3
<1>7. CASE WriteSize(t)
  BY <1>7 DEF WriteSize, At, NoCall
<1> QED BY <1>1, <1>2, <1>3, <1>4, <1>5, <1>6, <1>7 DEF Continue

\* What the other callers are doing, whatever one of them does.
LEMMA CallStep ==
  ASSUME Types, Next
  PROVE \/ UNCHANGED <<queue, received>>
        \/ \E t \in Callers :
             /\ \A u \in Callers \ {t} : call'[u] = call[u]
             /\ \/ /\ Continue(t) /\ ~Free(t)
                   /\ UNCHANGED <<service, commands, stop, dispatcher, cams, ui, dead, acts, past>>
                \/ /\ Free(t) /\ Racing(t) /\ ~Free(t)'
                   /\ \/ /\ \A g \in Generations : t # Dispatcher(g)
                         /\ received < limit.commands /\ received' = received + 1 /\ Add(t, received')
                         /\ UNCHANGED <<handled, dispatcher, dead>>
                      \/ \E g \in Generations : RemoveHandled(g) /\ ~Empty /\ t = Dispatcher(g)
<1>1. QueueTypes
  BY DEF Types
<1>2. ASSUME NEW t \in Callers, received < limit.commands, received' = received + 1, Add(t, received')
      PROVE /\ \A u \in Callers \ {t} : call'[u] = call[u]
            /\ Free(t) /\ ~Free(t)'
  BY <1>1, <1>2 DEF QueueTypes, Add, Free, NoCall
<1>3. CASE UiStep
  <2>1. CASE StartHeart /\ received < limit.commands
    BY <2>1, <1>2, Threads DEF StartHeart
  <2> QED BY <1>3, <2>1 DEF UiStep, Resume, Retry, Interrupt, StopSoft, GiveUp, OnStart, StartHeart, Exit, Download, Delete,
     commands
<1>4. CASE \E g \in Generations : ReceiverStep(g)
  <2>1. PICK g \in Generations : ReceiverStep(g)
    BY <1>4
  <2>2. CASE Receive(g)
    BY <2>2, <1>2, Threads DEF Receive
  <2> QED BY <2>1, <2>2 DEF ReceiverStep, Began, Spawn, ReceiverLoop, ReceiveNothing, commands
<1>5. CASE \E g \in Generations : DispatcherStep(g)
  <2>1. PICK g \in Generations : DispatcherStep(g)
    BY <1>5
  <2>2. CASE RemoveHandled(g) /\ ~Empty
    <3>1. Dispatcher(g) \in Callers
      BY Threads
    <3>2. RemoveFirst(Dispatcher(g)) /\ Racing(Dispatcher(g))
      BY <2>2 DEF RemoveHandled
    <3>3. /\ \A u \in Callers \ {Dispatcher(g)} : call'[u] = call[u]
          /\ Free(Dispatcher(g)) /\ call'[Dispatcher(g)].op = "remove"
      BY <3>1, <3>2, <1>1 DEF RemoveFirst, QueueTypes, NoCall
    <3>4. ~Free(Dispatcher(g))'
      BY <3>3 DEF Free, NoCall
    <3> QED BY <3>1, <3>2, <3>3, <3>4, <2>2
  <2>3. CASE RemoveHandled(g) /\ Empty
    BY <2>3 DEF RemoveHandled, commands
  <2> QED BY <2>1, <2>2, <2>3 DEF DispatcherStep, DispatcherLoop, Look, GetFirst, Apply, SearchSize, SearchGet, List, commands
<1>6. CASE \E t \in Callers : QueueStep(t)
  <2>1. PICK t \in Callers : QueueStep(t)
    BY <1>6
  <2>2. ~Free(t) /\ \A u \in Callers \ {t} : call'[u] = call[u]
    BY <2>1, <1>1 DEF QueueStep, Continue, BecomeLast, LinkUp, ReadNext, Unlink, CloseUp, ReadSize, WriteSize,
       QueueTypes, At, Free, NoCall
  <2> QED BY <2>1, <2>2 DEF QueueStep
<1> QED BY <1>3, <1>4, <1>5, <1>6, NextIs

\* A second call is seen when it begins.
LEMMA OneCallStep == Types /\ OneCall /\ Next => OneCall'
<1> SUFFICES ASSUME Types, OneCall, Next, "race" \notin past',
                    NEW t \in Callers, NEW u \in Callers, ~Free(t)', ~Free(u)'
             PROVE  t = u
  BY DEF OneCall
<1>1. "race" \notin past
  BY PastGrows
<1>2. CASE UNCHANGED queue
  BY <1>1, <1>2 DEF OneCall, queue, Free
<1>3. ASSUME NEW v \in Callers, \A w \in Callers \ {v} : call'[w] = call[w],
             ~Free(v) \/ (Free(v) /\ Racing(v))
      PROVE t = u
  <2>1. CASE ~Free(v)
    BY <1>1, <1>3, <2>1 DEF OneCall, Free
  <2>2. CASE Racing(v)
    <3>1. Others(v) = {}
      BY <1>1, <2>2 DEF Racing
    <3>2. \A w \in Callers \ {v} : Free(w)
      BY <3>1 DEF Others
    <3> QED BY <1>3, <3>2 DEF Free
  <2> QED BY <1>3, <2>1, <2>2
<1> QED BY <1>2, <1>3, CallStep

\* A dispatcher moves on from its loop only once its call is over.
LEMMA WaitingStep == Types /\ Waiting /\ Next => Waiting'
<1> SUFFICES ASSUME Types, Waiting, Next, NEW g \in Generations, ~Free(Dispatcher(g))'
             PROVE  dispatcher'[g].pc = "loop"
  BY DEF Waiting
<1>0. DispatcherTypes /\ Dispatcher(g) \in Callers
  BY Threads DEF Types
<1>1. CASE ~Free(Dispatcher(g))
  <2>1. dispatcher[g].pc = "loop"
    BY <1>1 DEF Waiting
  <2>2. CASE UNCHANGED dispatcher
    BY <2>1, <2>2
  <2>3. CASE \E h \in Generations : DispatcherStep(h)
    <3>1. PICK h \in Generations : DispatcherStep(h)
      BY <2>3
    <3>2. h # g
      BY <3>1, <2>1, <1>1 DEF DispatcherStep, DispatcherLoop, Look, GetFirst, Apply, SearchSize, SearchGet, List, RemoveHandled
    <3>3. dispatcher'[g] = dispatcher[g]
      BY <3>1, <3>2, <1>0 DEF DispatcherTypes, DispatcherStep, DispatcherLoop, Look, GetFirst, Apply, SearchSize, SearchGet,
         List, RemoveHandled, Goto
    <3> QED BY <2>1, <3>3
  <2>4. CASE \E h \in Generations : ReceiverStep(h)
    BY <2>1, <2>2, <2>4, <1>0 DEF DispatcherTypes, ReceiverStep, Began, Spawn, ReceiverLoop, Receive, ReceiveNothing, Goto
  <2>5. CASE UiStep
    BY <2>2, <2>5 DEF UiStep, Resume, Retry, Interrupt, StopSoft, GiveUp, OnStart, StartHeart, Exit, Download, Delete
  <2>6. CASE \E t \in Callers : QueueStep(t)
    BY <2>2, <2>6 DEF QueueStep
  <2> QED BY <2>3, <2>4, <2>5, <2>6, NextIs
<1>2. CASE Free(Dispatcher(g))
  <2>1. RemoveHandled(g) /\ ~Empty
    BY <1>0, <1>2, CallStep, Threads DEF queue, Free
  <2> QED BY <2>1, <1>0 DEF RemoveHandled, AtLoop, DispatcherTypes
<1> QED BY <1>1, <1>2

\* The receivers and the main thread only add.
LEMMA RemoversStep == Types /\ Removers /\ Next => Removers'
<1> DEFINE Ops == {"remove", "unlink", "close", "shorter"}
<1> SUFFICES ASSUME Types, Removers, Next, NEW t \in Callers, call'[t].op \in Ops
             PROVE  \E g \in Generations : t = Dispatcher(g)
  BY DEF Removers
<1>1. QueueTypes /\ Void = 0
  BY Numbers DEF Types
<1>2. CASE call[t].op \in Ops
  BY <1>2 DEF Removers
<1>3. ASSUME Continue(t) PROVE call[t].op \in Ops
  BY <1>1, <1>3, ContinueIs DEF QueueTypes, NoCall, Ops, Types
<1>4. ASSUME Add(t, received') PROVE FALSE
  BY <1>1, <1>4 DEF QueueTypes, Add
<1> QED BY <1>2, <1>3, <1>4, CallStep DEF queue

\* So every step keeps CallersInv.
LEMMA CallersStep == Types /\ CallersInv /\ Next => CallersInv'
<1> SUFFICES ASSUME Types, CallersInv, Next PROVE CallersInv'
  OBVIOUS
<1>1. OneDispatcher' /\ OneCall' /\ Waiting' /\ Removers'
  BY CallersAre, OneDispatcherStep, OneCallStep, WaitingStep, RemoversStep
<1>2. (CallersInv <=> OneDispatcher /\ OneCall /\ Waiting /\ Removers)'
  BY CallersAre, PTL
<1> QED BY <1>1, <1>2

-----------------------------------------------------------------------------
(* The list of cameras *)

\* A new last element makes no duplicate.
LEMMA AppendKeepsInjective ==
  ASSUME NEW S, NEW s \in Seq(S), IsInjective(s), NEW x \in S, \A j \in 1..Len(s) : s[j] # x
  PROVE  IsInjective(Append(s, x))
<1>1. Len(s) \in Nat /\ DOMAIN s = 1..Len(s) /\ DOMAIN Append(s, x) = 1..Len(s) + 1
  BY AppendProperties, LenProperties
<1>2. \A j \in 1..Len(s) : Append(s, x)[j] = s[j]
  BY AppendProperties
<1>3. Append(s, x)[Len(s) + 1] = x
  BY AppendProperties
<1>4. \A a, b \in 1..Len(s) : s[a] = s[b] => a = b
  BY <1>1 DEF IsInjective
<1>5. ASSUME NEW c \in 1..Len(s) + 1, NEW d \in 1..Len(s) + 1, Append(s, x)[c] = Append(s, x)[d] PROVE c = d
  <2>1. (c \in 1..Len(s) \/ c = Len(s) + 1) /\ (d \in 1..Len(s) \/ d = Len(s) + 1)
    BY <1>1
  <2> QED BY <2>1, <1>2, <1>3, <1>4, <1>5
<1>6. IsInjective(Append(s, x))
  BY <1>1, <1>5 DEF IsInjective
<1> QED BY <1>6

\* Nor does the removal of an element.
LEMMA DeleteKeepsInjective ==
  ASSUME NEW S, NEW s \in Seq(S), IsInjective(s), NEW n \in Nat, n = Len(s), NEW i \in 1..n
  PROVE  IsInjective(SubSeq(s, 1, i - 1) \o SubSeq(s, i + 1, n))
<1> DEFINE a == SubSeq(s, 1, i - 1)
           b == SubSeq(s, i + 1, n)
           from(j) == IF j < i THEN j ELSE j + 1
<1>1. DOMAIN s = 1..n /\ i \in Int /\ \A j \in 1..n : s[j] \in S
  BY LenProperties, ElementOfSeq
<1>2. a \in Seq(S) /\ Len(a) = i - 1 /\ \A j \in 1..i - 1 : a[j] = s[j]
  <2>1. \A j \in 1..i - 1 : s[j] \in S
    BY <1>1
  <2>2. a \in Seq(S) /\ Len(a) = (IF 1 <= i - 1 THEN i - 1 - 1 + 1 ELSE 0)
    BY <2>1, <1>1, SubSeqProperties
  <2>3. \A j \in 1..i - 1 : a[j] = s[j]
    BY <1>1
  <2> QED BY <2>2, <2>3, <1>1
<1>3. b \in Seq(S) /\ Len(b) = n - i /\ \A j \in 1..n - i : b[j] = s[i + j]
  <2>1. \A j \in i + 1..n : s[j] \in S
    BY <1>1
  <2>2. b \in Seq(S) /\ Len(b) = (IF i + 1 <= n THEN n - (i + 1) + 1 ELSE 0)
    BY <2>1, <1>1, SubSeqProperties
  <2>3. \A j \in 1..n - i : b[j] = s[i + j]
    BY <1>1
  <2>4. Len(b) = n - i
    <3>1. (IF i + 1 <= n THEN n - (i + 1) + 1 ELSE 0) = n - i
      BY <1>1
    <3> HIDE DEF b
    <3> QED BY <2>2, <3>1
  <2> QED BY <2>2, <2>3, <2>4
<1> HIDE DEF a, b
<1>4. DOMAIN (a \o b) = 1..n - 1
  <2>1. Len(a \o b) = n - 1 /\ a \o b \in Seq(S)
    <3>1. a \o b \in Seq(S) /\ Len(a \o b) = Len(a) + Len(b)
      BY <1>2, <1>3, ConcatProperties
    <3>2. Len(a) + Len(b) = n - 1
      BY <1>1, <1>2, <1>3
    <3> QED BY <3>1, <3>2
  <2> QED BY <2>1, LenProperties
<1>5. \A j \in 1..n - 1 : (a \o b)[j] = s[from(j)]
  <2> SUFFICES ASSUME NEW j \in 1..n - 1 PROVE (a \o b)[j] = s[from(j)]
    OBVIOUS
  <2>1. j \in 1..Len(a) + Len(b) /\ Len(a) = i - 1
    BY <1>1, <1>2, <1>3
  <2>2. (a \o b)[j] = IF j <= Len(a) THEN a[j] ELSE b[j - Len(a)]
    BY <2>1, <1>2, <1>3, ConcatProperties
  <2>3. CASE j < i
    BY <2>1, <2>2, <2>3, <1>2
  <2>4. CASE j >= i
    <3>1. j - (i - 1) \in 1..n - i /\ i + (j - (i - 1)) = j + 1
      BY <2>4, <1>1
    <3>2. ~(j <= Len(a)) /\ from(j) = j + 1
      BY <2>1, <2>4
    <3>3. b[j - (i - 1)] = s[j + 1]
      BY <3>1, <1>3
    <3> QED BY <2>1, <2>2, <3>2, <3>3
  <2>5. j < i \/ j >= i
    BY <1>1
  <2> QED BY <2>3, <2>4, <2>5
<1> HIDE DEF from
<1>6. \A c, d \in 1..n : s[c] = s[d] => c = d
  BY <1>1 DEF IsInjective
<1>7. ASSUME NEW c \in 1..n - 1, NEW d \in 1..n - 1, (a \o b)[c] = (a \o b)[d] PROVE c = d
  <2>1. from(c) \in 1..n /\ from(d) \in 1..n
    BY <1>1 DEF from
  <2>2. from(c) = from(d)
    BY <1>5, <1>6, <1>7, <2>1
  <2> QED BY <2>2 DEF from
<1>8. IsInjective(a \o b)
  BY <1>4, <1>7 DEF IsInjective
<1> QED BY <1>8 DEF a, b

\* A command goes on saying what its handler has read.
LEMMA SaidStep ==
  ASSUME Types, Next, NEW g \in Generations, dispatcher[g].pc \in Handling, dispatcher'[g].cmd = dispatcher[g].cmd
  PROVE  Said(g)' = Said(g)
<1>1. dispatcher[g].cmd \in 1..received /\ content[dispatcher[g].cmd] # "unread"
  BY Numbers DEF Types, DispatcherTypes, Known, Said
<1>2. content'[dispatcher[g].cmd] = content[dispatcher[g].cmd]
  BY <1>1, CommandsStep DEF Types
<1> QED BY <1>2 DEF Said

\* CamsInv for one dispatcher.
SearchOf(g) ==
  /\ dispatcher[g].pc \in {"size", "get"} =>
       dispatcher[g].i <= Len(cams) /\ \A j \in 1..dispatcher[g].i : cams[j] # Said(g)
  /\ dispatcher[g].pc = "get" => dispatcher[g].i < Len(cams)
  /\ dispatcher[g].pc = "list" => \A j \in 1..Len(cams) : cams[j] # Said(g)

\* A dispatcher that does not move searches on in a list that does not change.
LEMMA SearchKept ==
  ASSUME Types, Next, NEW g \in Generations, SearchOf(g), dispatcher'[g] = dispatcher[g],
         dispatcher[g].pc \in {"size", "get", "list"} => cams' = cams
  PROVE  SearchOf(g)'
<1>1. CASE dispatcher[g].pc \in {"size", "get", "list"}
  <2>1. Said(g)' = Said(g)
    BY <1>1, SaidStep DEF Handling
  <2> QED BY <1>1, <2>1 DEF SearchOf
<1> QED BY <1>1 DEF SearchOf

\* Every search stays true to the list it searches.
LEMMA CamsInvStep == Types /\ CallersInv /\ CamsInv /\ Next => CamsInv'
<1> SUFFICES ASSUME Types, CallersInv, CamsInv, Next, past' \cap {"shifted", "overlap"} = {}
             PROVE  dead' # "index" /\ IsInjective(cams') /\ \A g \in Generations : SearchOf(g)'
  BY DEF CamsInv, SearchOf
<1>1. /\ "shifted" \notin past /\ "overlap" \notin past /\ "shifted" \notin past' /\ "overlap" \notin past'
      /\ dead = "none" /\ past \subseteq past' /\ DispatcherTypes /\ cams \in Seq(Cameras)
  BY PastGrows, NextIs DEF Types, OtherTypes
<1>2. IsInjective(cams) /\ \A g \in Generations : SearchOf(g)
  BY <1>1 DEF CamsInv, SearchOf
<1>3. CASE UNCHANGED <<dispatcher, cams>> /\ dead' # "index"
  BY <1>2, <1>3, SearchKept
<1>4. CASE UiStep
  <2>1. CASE Resume \/ Download \/ Delete
    <3>1. ~Searching /\ UNCHANGED <<dispatcher, dead>>
      BY <1>1, <2>1 DEF Shifting, Resume, Download, Delete
    <3>2. \A g \in Generations : SearchOf(g)'
      BY <3>1 DEF Searching, SearchOf
    <3>3. CASE Resume \/ Download
      <4>1. IsInjective(<<>>)
        BY DEF IsInjective
      <4> QED BY <3>1, <3>2, <3>3, <4>1, <1>1 DEF Resume, Download
    <3>4. CASE Delete
      <4>1. PICK i \in 1..Len(cams) : cams' = SubSeq(cams, 1, i - 1) \o SubSeq(cams, i + 1, Len(cams))
        BY <3>4 DEF Delete
      <4>2. Len(cams) \in Nat
        BY <1>1, LenProperties
      <4>3. IsInjective(cams')
        BY <1>1, <1>2, <4>1, <4>2, DeleteKeepsInjective
      <4> QED BY <3>1, <3>2, <4>3, <1>1
    <3> QED BY <2>1, <3>3, <3>4
  <2> QED BY <1>1, <1>3, <1>4, <2>1 DEF UiStep, Retry, Interrupt, StopSoft, GiveUp, OnStart, StartHeart, Exit, Die
<1>5. CASE \E g \in Generations : ReceiverStep(g)
  <2>1. PICK g \in Generations : ReceiverStep(g)
    BY <1>5
  <2>2. CASE Spawn(g)
    <3>1. dispatcher'[g].pc = "loop" /\ \A h \in Generations \ {g} : dispatcher'[h] = dispatcher[h]
      BY <1>1, <2>2 DEF Spawn, Goto, DispatcherTypes
    <3>2. \A h \in Generations : SearchOf(h)'
      BY <3>1, <2>2, <1>2, SearchKept DEF Spawn, SearchOf
    <3> QED BY <3>2, <1>1, <1>2, <2>2 DEF Spawn
  <2> QED BY <1>1, <1>3, <2>1, <2>2 DEF ReceiverStep, Began, ReceiverLoop, Receive, ReceiveNothing
<1>6. CASE \E g \in Generations : DispatcherStep(g)
  <2>1. PICK g \in Generations : DispatcherStep(g)
    BY <1>6
  <2>2. \A h \in Generations \ {g} :
          dispatcher'[h] = dispatcher[h] /\ dispatcher[h].pc \notin {"size", "get", "list"}
    <3>1. Dispatching(g) /\ \A h \in Generations \ {g} : dispatcher'[h] = dispatcher[h]
      BY <2>1, <1>1 DEF DispatcherTypes, DispatcherStep, DispatcherLoop, Look, GetFirst, Apply, SearchSize, SearchGet, List,
         RemoveHandled, Goto, Dispatching
    <3> QED BY <3>1, <1>1 DEF CallersInv, Dispatching
  <2>3. \A h \in Generations \ {g} : SearchOf(h)'
    BY <2>2, <1>2, SearchKept
  <2>4. SUFFICES dead' # "index" /\ IsInjective(cams') /\ SearchOf(g)'
    BY <2>3
  <2>5. CASE DispatcherLoop(g) \/ Look(g) \/ RemoveHandled(g)
    <3>1. dispatcher'[g].pc \notin {"size", "get", "list"}
      BY <1>1, <2>5 DEF DispatcherLoop, Look, RemoveHandled, Goto, DispatcherTypes, AtLoop
    <3>2. UNCHANGED cams /\ dead' # "index"
      BY <1>1, <2>5 DEF DispatcherLoop, Look, RemoveHandled, Die
    <3> QED BY <3>1, <3>2, <1>2 DEF SearchOf
  <2>6. CASE GetFirst(g)
    <3>1. dispatcher'[g].pc \notin {"get", "list"} /\ (dispatcher'[g].pc = "size" => dispatcher'[g].i = 0)
      BY <1>1, <2>6 DEF GetFirst, DispatcherTypes
    <3>2. UNCHANGED cams /\ dead' # "index" /\ Len(cams) \in Nat
      BY <1>1, <2>6, LenProperties DEF GetFirst, Die
    <3> QED BY <3>1, <3>2, <1>2 DEF SearchOf
  <2>7. CASE Apply(g)
    <3>1. dispatcher'[g].pc = "remove" /\ dead' # "index"
      BY <1>1, <2>7 DEF Apply, Goto, DispatcherTypes
    <3>2. IsInjective(<<>>)
      BY DEF IsInjective
    <3> QED BY <3>1, <3>2, <1>2, <2>7 DEF Apply, SearchOf
  <2>8. CASE SearchSize(g)
    <3>1. /\ dispatcher'[g].cmd = dispatcher[g].cmd /\ dispatcher'[g].i = dispatcher[g].i
          /\ dispatcher'[g].pc = IF dispatcher[g].i < Len(cams) THEN "get"
                                 ELSE IF Said(g) = "status" THEN "remove" ELSE "list"
      BY <1>1, <2>8 DEF SearchSize, Goto, DispatcherTypes
    <3>2. Said(g)' = Said(g)
      BY <2>8, <3>1, SaidStep DEF SearchSize, Handling
    <3>3. /\ dispatcher[g].i <= Len(cams) /\ \A j \in 1..dispatcher[g].i : cams[j] # Said(g)
          /\ dispatcher[g].i \in Nat /\ Len(cams) \in Nat
      BY <1>1, <1>2, <2>8, LenProperties DEF SearchSize, SearchOf, DispatcherTypes
    <3>4. UNCHANGED cams /\ dead' # "index"
      BY <1>1, <2>8 DEF SearchSize
    <3> QED BY <3>1, <3>2, <3>3, <3>4, <1>2 DEF SearchOf
  <2>9. CASE SearchGet(g)
    <3>1. /\ dispatcher[g].i < Len(cams) /\ \A j \in 1..dispatcher[g].i : cams[j] # Said(g)
          /\ dispatcher[g].i \in Nat /\ Len(cams) \in Nat
      BY <1>1, <1>2, <2>9, LenProperties DEF SearchGet, SearchOf, DispatcherTypes
    <3>2. UNCHANGED <<cams, dead>>
      BY <2>9, <3>1 DEF SearchGet
    <3>3. CASE cams[dispatcher[g].i + 1] = Said(g)
      <4>1. dispatcher'[g].pc = "ended"
        BY <1>1, <2>9, <3>1, <3>3 DEF SearchGet, Goto, DispatcherTypes
      <4> QED BY <4>1, <3>2, <1>1, <1>2 DEF SearchOf
    <3>4. CASE cams[dispatcher[g].i + 1] # Said(g)
      <4>1. dispatcher' = [dispatcher EXCEPT ![g].pc = "size", ![g].i = dispatcher[g].i + 1]
        BY <2>9, <3>1, <3>4 DEF SearchGet
      <4>2. /\ dispatcher'[g].cmd = dispatcher[g].cmd /\ dispatcher'[g].i = dispatcher[g].i + 1
            /\ dispatcher'[g].pc = "size"
        BY <1>1, <4>1 DEF DispatcherTypes
      <4>3. Said(g)' = Said(g)
        BY <2>9, <4>2, SaidStep DEF SearchGet, Handling
      <4>4. \A j \in 1..dispatcher[g].i + 1 : cams[j] # Said(g)
        BY <3>1, <3>4
      <4>5. dispatcher[g].i + 1 <= Len(cams)
        BY <3>1
      <4> QED BY <4>2, <4>3, <4>4, <4>5, <3>2, <1>1, <1>2 DEF SearchOf
    <3> QED BY <3>3, <3>4
  <2>10. CASE List(g)
    <3>1. Said(g) \in Cameras /\ \A j \in 1..Len(cams) : cams[j] # Said(g)
      BY <1>1, <1>2, <2>10 DEF List, DispatcherTypes, SearchOf
    <3>2. IsInjective(cams')
      BY <1>1, <1>2, <2>10, <3>1, AppendKeepsInjective DEF List
    <3>3. dispatcher'[g].pc = "remove" /\ dead' # "index"
      BY <1>1, <2>10 DEF List, Goto, DispatcherTypes
    <3> QED BY <3>2, <3>3 DEF SearchOf
  <2> QED BY <2>1, <2>5, <2>6, <2>7, <2>8, <2>9, <2>10 DEF DispatcherStep
<1>7. CASE \E t \in Callers : QueueStep(t)
  BY <1>1, <1>3, <1>7 DEF QueueStep
<1> QED BY <1>4, <1>5, <1>6, <1>7, NextIs

-----------------------------------------------------------------------------
(* The ring *)

\* With one call under way, that call says how the ring is.
LEMMA OneCallChain ==
  ASSUME NEW t \in Callers, \A u \in Callers \ {t} : Free(u)', NEW l \in Nat, NEW h \in Nat,
         RingAt(l, h)', InCall(call[t], l, h, \E g \in Generations : t = Dispatcher(g))',
         call'[t].op = "none" => h = received' /\ previous'[0] = LastIn(l, h) /\ size' = h - l + 1
  PROVE  ChainAt(l, h)'
<1>1. \A u \in Callers \ {t} : InCall(call[u], l, h, \E g \in Generations : u = Dispatcher(g))'
  BY DEF Free, NoCall, InCall
<1>2. (\A u \in Callers : Free(u)') => call'[t].op = "none"
  BY DEF Free, NoCall
<1>3. AtRest(l, h)'
  BY <1>2 DEF AtRest
<1> QED BY <1>1, <1>3 DEF ChainAt

\* Each step of the one call under way: linking up lengthens the ring, unlinking takes off its head.
LEMMA ChainContinue ==
  ASSUME Types, Types', Removers, NEW t \in Callers, \A u \in Callers \ {t} : Free(u) /\ call'[u] = call[u],
         ~Free(t), Continue(t), UNCHANGED received, NEW lo \in Nat, NEW hi \in Nat, ChainAt(lo, hi)
  PROVE  \/ call[t].op = "link" /\ hi + 1 = received /\ ChainAt(lo, hi + 1)'
         \/ call[t].op = "unlink" /\ lo <= hi /\ hi = received /\ ChainAt(lo + 1, hi)'
         \/ call[t].op \notin {"link", "unlink"} /\ ChainAt(lo, hi)'
<1> DEFINE c == call[t]
           d == call'[t]
           removes == \E g \in Generations : t = Dispatcher(g)
<1>1. /\ QueueTypes /\ Void = 0 /\ 0 \in Link /\ received \in Nat /\ size \in Int
      /\ \A k \in 0..received : k \in Link
      /\ \A k \in 0..received : next[k] \in Nat /\ previous[k] \in Nat
  <2>1. QueueTypes /\ Void = 0 /\ 0 \in Link /\ received \in Nat /\ Known \subseteq Link
    BY Numbers DEF Types
  <2>2. /\ \A k \in Known : k \in Link /\ next[k] \in Known /\ previous[k] \in Known
        /\ size \in Int
    BY <2>1 DEF QueueTypes
  <2>3. \A k \in Known : k \in Nat
    BY DEF Known
  <2> QED BY <2>1, <2>2, <2>3 DEF Known
<1>2. RingAt(lo, hi) /\ InCall(c, lo, hi, removes)
  BY DEF ChainAt
<1>3. \A u \in Callers \ {t} : Free(u)'
  BY DEF Free
<1>4. ASSUME NEW l \in Nat, NEW h \in Nat, RingAt(l, h)', InCall(call[t], l, h, removes)',
             d.op = "none" => h = received /\ previous'[0] = LastIn(l, h) /\ size' = h - l + 1
      PROVE  ChainAt(l, h)'
  BY <1>3, <1>4, OneCallChain
<1>5. CASE c.op = "add"
  <2>1. /\ d.op = "link" /\ d.at = c.at /\ d.by = c.by
        /\ previous' = [previous EXCEPT ![0] = c.at] /\ UNCHANGED <<next, size>>
    BY <1>1, <1>5, ContinueIs
  <2>2. RingAt(lo, hi)'
    BY <1>2, <2>1 DEF RingAt
  <2>3. previous'[0] = received
    BY <1>1, <1>2, <1>5, <2>1 DEF InCall, QueueTypes
  <2>4. InCall(call[t], lo, hi, removes)'
    BY <1>2, <1>5, <2>1, <2>3 DEF InCall
  <2> QED BY <1>4, <1>5, <2>1, <2>2, <2>4
<1>6. CASE c.op = "link"
  <2>0. PICK h \in Nat : h = hi + 1
    OBVIOUS
  <2>1. d.op = "longer" /\ next' = [next EXCEPT ![c.by] = c.at] /\ UNCHANGED <<previous, size>>
    BY <1>1, <1>6, ContinueIs
  <2>2. /\ hi + 1 = received /\ c.at = received /\ c.by = LastIn(lo, hi) /\ next[received] = 0
        /\ previous[0] = received /\ size = hi - lo + 1
    BY <1>2, <1>6 DEF InCall
  <2>3. /\ lo \in 1..hi + 1 /\ next[0] = FirstIn(lo, hi)
        /\ \A i \in lo..hi : next[i] = FirstIn(i + 1, hi)
    BY <1>2 DEF RingAt
  <2>4. LastIn(lo, hi) \in 0..received
    BY <2>2 DEF LastIn
  <2>5. \A k \in 0..received : next'[k] = IF k = LastIn(lo, hi) THEN hi + 1 ELSE next[k]
    BY <1>1, <2>1, <2>2, <2>4 DEF QueueTypes
  <2>6. next'[0] = FirstIn(lo, h)
    BY <2>0, <1>1, <2>2, <2>3, <2>5 DEF FirstIn, LastIn
  <2>7. ASSUME NEW i \in lo..h PROVE next'[i] = FirstIn(i + 1, h)
    <3>1. i \in 0..received /\ i # 0
      BY <2>0, <2>2, <2>3
    <3>2. CASE i = h
      BY <2>0, <2>2, <2>3, <2>5, <3>1, <3>2 DEF FirstIn, LastIn
    <3>3. CASE i = hi
      BY <2>0, <2>2, <2>3, <2>5, <3>1, <3>3 DEF FirstIn, LastIn
    <3>4. CASE i < hi
      <4>1. next[i] = FirstIn(i + 1, hi)
        BY <2>3, <3>4
      <4> QED BY <2>0, <2>2, <2>3, <2>5, <3>1, <3>4, <4>1 DEF FirstIn, LastIn
    <3> QED BY <2>0, <3>2, <3>3, <3>4
  <2>8. RingAt(lo, h)'
    BY <2>0, <2>3, <2>6, <2>7 DEF RingAt
  <2>9. InCall(call[t], lo, h, removes)'
    <3>1. previous'[0] = LastIn(lo, h)
      BY <2>0, <2>1, <2>2, <2>3 DEF LastIn
    <3>2. size' = (h) - lo /\ h = received'
      BY <2>0, <2>1, <2>2, <2>3
    <3> QED BY <2>1, <3>1, <3>2 DEF InCall
  <2>10. ChainAt(lo, h)'
    BY <1>4, <2>1, <2>8, <2>9
  <2> QED BY <1>6, <2>0, <2>2, <2>10
<1>7. CASE c.op = "remove"
  <2>1. d.op = "unlink" /\ d.at = c.at /\ d.by = next[c.at] /\ UNCHANGED <<next, previous, size>>
    BY <1>1, <1>7, ContinueIs
  <2>2. RingAt(lo, hi)'
    BY <1>2, <2>1 DEF RingAt
  <2>3. c.at = lo /\ lo <= hi /\ hi = received /\ previous[0] = LastIn(lo, hi) /\ size = hi - lo + 1
    BY <1>2, <1>7 DEF InCall
  <2>4. next[lo] = FirstIn(lo + 1, hi)
    BY <1>2, <2>3 DEF RingAt
  <2>5. InCall(call[t], lo, hi, removes)'
    BY <2>1, <2>3, <2>4 DEF InCall
  <2> QED BY <1>4, <1>7, <2>1, <2>2, <2>5
<1>8. CASE c.op = "unlink"
  <2>0. PICK l \in Nat : l = lo + 1
    OBVIOUS
  <2>1. d.op = "close" /\ d.by = c.by /\ next' = [next EXCEPT ![0] = c.by] /\ UNCHANGED <<previous, size>>
    BY <1>1, <1>8, ContinueIs
  <2>2. /\ lo <= hi /\ hi = received /\ previous[0] = LastIn(lo, hi) /\ size = hi - lo + 1
        /\ c.by = FirstIn(lo + 1, hi)
    BY <1>2, <1>8 DEF InCall
  <2>3. lo \in 1..hi + 1 /\ \A i \in lo..hi : next[i] = FirstIn(i + 1, hi)
    BY <1>2 DEF RingAt
  <2>4. \A k \in 0..received : next'[k] = IF k = 0 THEN FirstIn(lo + 1, hi) ELSE next[k]
    BY <1>1, <2>1, <2>2 DEF QueueTypes
  <2>5. \A i \in l..hi : next'[i] = FirstIn(i + 1, hi)
    BY <2>0, <2>2, <2>3, <2>4
  <2>6. RingAt(l, hi)'
    BY <1>1, <2>0, <2>2, <2>3, <2>4, <2>5 DEF RingAt
  <2>7. InCall(call[t], l, hi, removes)'
    <3>1. d.by = FirstIn(l, hi) /\ previous'[0] = hi /\ hi = received'
      BY <2>0, <2>1, <2>2 DEF LastIn
    <3>2. size' = hi - l + 2
      BY <2>0, <2>1, <2>2
    <3> QED BY <2>1, <3>1, <3>2 DEF InCall
  <2>8. ChainAt(l, hi)'
    BY <1>4, <2>1, <2>6, <2>7
  <2> QED BY <1>8, <2>0, <2>2, <2>8
<1>9. CASE c.op = "close"
  <2>1. d.op = "shorter" /\ previous' = [previous EXCEPT ![c.by] = 0] /\ UNCHANGED <<next, size>>
    BY <1>1, <1>9, ContinueIs
  <2>2. RingAt(lo, hi)' /\ lo \in 1..hi + 1
    BY <1>2, <2>1 DEF RingAt
  <2>3. c.by = FirstIn(lo, hi) /\ (lo <= hi => previous[0] = hi) /\ size = hi - lo + 2 /\ hi = received
    BY <1>2, <1>9 DEF InCall
  <2>4. previous'[0] = LastIn(lo, hi)
    <3>1. CASE lo <= hi
      <4>1. c.by = lo /\ lo # 0 /\ previous[0] = hi
        BY <2>2, <2>3, <3>1 DEF FirstIn
      <4> QED BY <1>1, <2>1, <3>1, <4>1 DEF QueueTypes, LastIn
    <3>2. CASE ~(lo <= hi)
      BY <1>1, <2>1, <2>3, <3>2 DEF QueueTypes, LastIn, FirstIn
    <3> QED BY <3>1, <3>2
  <2>5. InCall(call[t], lo, hi, removes)'
    BY <2>1, <2>3, <2>4 DEF InCall
  <2> QED BY <1>4, <1>9, <2>1, <2>2, <2>5
<1>10. CASE c.op \in {"longer", "shorter"}
  <2>1. /\ d.op = "count" /\ d.n = IF c.op = "longer" THEN size + 1 ELSE size - 1
        /\ UNCHANGED <<next, previous, size>>
    BY <1>1, <1>10, ContinueIs
  <2>2. RingAt(lo, hi)'
    BY <1>2, <2>1 DEF RingAt
  <2>3. previous[0] = LastIn(lo, hi) /\ hi = received /\ size = IF c.op = "longer" THEN hi - lo ELSE hi - lo + 2
    BY <1>2, <1>10 DEF InCall
  <2>4. c.op = "shorter" => removes
    BY DEF Removers
  <2>5. d.n = hi - lo + 1
    BY <2>1, <2>3, <1>10
  <2>6. InCall(call[t], lo, hi, removes)'
    BY <1>10, <2>1, <2>3, <2>4, <2>5 DEF InCall
  <2> QED BY <1>4, <1>10, <2>1, <2>2, <2>6
<1>11. CASE c.op = "count"
  <2>1. d.op = "none" /\ size' = c.n /\ UNCHANGED <<next, previous>>
    BY <1>1, <1>11, ContinueIs
  <2>2. RingAt(lo, hi)'
    BY <1>2, <2>1 DEF RingAt
  <2>3. previous[0] = LastIn(lo, hi) /\ hi = received /\ c.n = hi - lo + 1
    BY <1>2, <1>11 DEF InCall
  <2>4. InCall(call[t], lo, hi, removes)'
    BY <2>1 DEF InCall
  <2> QED BY <1>4, <1>11, <2>1, <2>2, <2>3, <2>4
<1> QED BY <1>1, <1>5, <1>6, <1>7, <1>8, <1>9, <1>10, <1>11, ContinueIs

\* The ring as it is when nobody is in a call.
LEMMA ChainAtRest ==
  ASSUME NEW lo, NEW hi, ChainAt(lo, hi), \A u \in Callers : Free(u)
  PROVE  RingAt(lo, hi) /\ hi = received /\ previous[0] = LastIn(lo, hi) /\ size = hi - lo + 1
BY DEF ChainAt, AtRest

\* A call of add() begins behind the last command.
LEMMA ChainAdd ==
  ASSUME Types, NEW t \in Callers, \A u \in Callers : Free(u), \A u \in Callers \ {t} : call'[u] = call[u],
         received < limit.commands, received' = received + 1, Add(t, received'),
         NEW lo \in Nat, NEW hi \in Nat, ChainAt(lo, hi)
  PROVE  ChainAt(lo, hi)'
<1>1. QueueTypes /\ Void = 0 /\ received + 1 \in Link /\ received \in Nat
  BY Numbers DEF Types
<1>2. RingAt(lo, hi) /\ hi = received /\ previous[0] = LastIn(lo, hi) /\ size = hi - lo + 1
  BY ChainAtRest
<1>3. /\ call'[t] = [op |-> "add", at |-> received', by |-> previous[0], n |-> 0]
      /\ next' = [next EXCEPT ![received'] = 0] /\ previous' = [previous EXCEPT ![received'] = previous[0]]
      /\ size' = size
  BY <1>1 DEF Add, QueueTypes
<1>4. /\ \A k \in 0..received : next'[k] = next[k] /\ previous'[k] = previous[k]
      /\ next'[received + 1] = 0
  <2>1. Known \subseteq Link
    BY Numbers DEF Types
  <2>2. \A k \in Known : k # received + 1
    BY <1>1 DEF Known
  <2>3. \A k \in Known : next'[k] = next[k] /\ previous'[k] = previous[k]
    BY <1>3, <2>1, <2>2 DEF QueueTypes, Types
  <2> QED BY <1>1, <1>3, <2>3 DEF QueueTypes, Known
<1>5. RingAt(lo, hi)'
  <2>1. /\ lo \in 1..hi + 1 /\ next[0] = FirstIn(lo, hi)
        /\ \A i \in lo..hi : next[i] = FirstIn(i + 1, hi)
    BY <1>2 DEF RingAt
  <2>2. next'[0] = next[0] /\ \A i \in lo..hi : next'[i] = next[i]
    BY <1>1, <1>2, <1>4, <2>1
  <2> QED BY <2>1, <2>2 DEF RingAt
<1>6. InCall(call[t], lo, hi, \E g \in Generations : t = Dispatcher(g))'
  <2>1. previous'[0] = LastIn(lo, hi) /\ next'[received'] = 0
    BY <1>1, <1>2, <1>4
  <2> QED BY <1>2, <1>3, <2>1 DEF InCall
<1>7. \A u \in Callers \ {t} : Free(u)'
  BY DEF Free
<1>8. call'[t].op # "none"
  BY <1>3
<1> QED BY <1>5, <1>6, <1>7, <1>8, OneCallChain

\* A call of removeFirst() begins at the first command.
LEMMA ChainRemove ==
  ASSUME Types, NEW t \in Callers, \A u \in Callers : Free(u), \A u \in Callers \ {t} : call'[u] = call[u],
         RemoveFirst(t), UNCHANGED received, NEW lo \in Nat, NEW hi \in Nat, ChainAt(lo, hi), lo <= hi
  PROVE  call'[t].op = "remove" /\ ChainAt(lo, hi)'
<1>1. QueueTypes /\ Void = 0
  BY Numbers DEF Types
<1>2. RingAt(lo, hi) /\ hi = received /\ previous[0] = LastIn(lo, hi) /\ size = hi - lo + 1
  BY ChainAtRest
<1>3. call'[t] = [NoCall EXCEPT !.op = "remove", !.at = First] /\ UNCHANGED <<next, previous, size>>
  BY <1>1 DEF RemoveFirst, QueueTypes
<1>4. call'[t].op = "remove" /\ call'[t].at = First
  BY <1>3 DEF NoCall
<1>5. RingAt(lo, hi)' /\ First = lo
  BY <1>1, <1>2, <1>3 DEF RingAt, First, FirstIn
<1>6. InCall(call[t], lo, hi, \E g \in Generations : t = Dispatcher(g))'
  BY <1>2, <1>3, <1>4, <1>5 DEF InCall
<1>7. \A u \in Callers \ {t} : Free(u)'
  BY DEF Free
<1> QED BY <1>4, <1>5, <1>6, <1>7, OneCallChain

\* Whoever leaves the ring alone leaves it as it is.
LEMMA ChainKept ==
  ASSUME UNCHANGED <<queue, received>>, NEW lo, NEW hi, ChainAt(lo, hi)
  PROVE  ChainAt(lo, hi)'
<1>1. UNCHANGED <<next, previous, size, call, received>>
  BY DEF queue
<1>2. RingAt(lo, hi)'
  BY <1>1 DEF RingAt, ChainAt
<1>3. AtRest(lo, hi)'
  BY <1>1 DEF AtRest, ChainAt, Free
<1>4. ASSUME NEW t \in Callers PROVE InCall(call[t], lo, hi, \E g \in Generations : t = Dispatcher(g))'
  <2>1. InCall(call[t], lo, hi, \E g \in Generations : t = Dispatcher(g))
    BY DEF ChainAt
  <2> QED BY <1>1, <2>1 DEF InCall
<1> QED BY <1>2, <1>3, <1>4 DEF ChainAt

\* A dispatcher that looks at the size finds one only if the ring holds a command.
LEMMA SizeMeansFull ==
  ASSUME Types, CallersInv, NEW lo \in Nat, NEW hi \in Nat, ChainAt(lo, hi), size > 0,
         \A g \in Generations : Free(Dispatcher(g))
  PROVE  lo <= hi
<1>1. \A t \in Callers : ~Free(t) => ~(\E g \in Generations : t = Dispatcher(g))
  OBVIOUS
<1>2. CASE \A t \in Callers : Free(t)
  BY <1>2, ChainAtRest
<1>3. ASSUME NEW t \in Callers, ~Free(t) PROVE lo <= hi
  <2>1. InCall(call[t], lo, hi, \E g \in Generations : t = Dispatcher(g)) /\ lo \in 1..hi + 1
    BY DEF ChainAt, RingAt
  <2>2. call[t].op \in {"add", "link", "longer", "count"}
    BY <1>1, <1>3, <2>1 DEF CallersInv, Types, QueueTypes, Records
  <2> QED BY <1>1, <1>3, <2>1, <2>2 DEF InCall
<1> QED BY <1>2, <1>3

-----------------------------------------------------------------------------
(* The order in which commands are handled *)

\* While a dispatcher is at work, no other is, and no call removes.
LEMMA Alone ==
  ASSUME Types, CallersInv, "overlap" \notin past, NEW g \in Generations, Dispatching(g)
  PROVE  /\ \A h \in Generations \ {g} : ~Dispatching(h)
         /\ dispatcher[g].pc # "loop" => /\ \A t \in Callers : ~Removing(t)
                                         /\ \A h \in Generations : Free(Dispatcher(h))
<1>1. \A h \in Generations \ {g} : ~Dispatching(h)
  BY DEF CallersInv
<1>2. \A h \in Generations : ~Free(Dispatcher(h)) => dispatcher[h].pc = "loop"
  BY DEF CallersInv
<1>3. \A h \in Generations : dispatcher[h].pc = "loop" => Dispatching(h)
  BY DEF Dispatching
<1>4. dispatcher[g].pc # "loop" => \A h \in Generations : Free(Dispatcher(h))
  BY <1>1, <1>2, <1>3
<1>5. \A t \in Callers : Removing(t) => \E h \in Generations : t = Dispatcher(h) /\ ~Free(t)
  BY DEF CallersInv, Removing, Free, NoCall
<1> QED BY <1>1, <1>4, <1>5

\* The last handled command is one that came.
LEMMA LastIs ==
  ASSUME Types
  PROVE  /\ LastHandled \in 0..received /\ received \in Nat /\ Len(handled) \in Nat
         /\ \A i \in 1..Len(handled) : handled[i] \in 1..received
<1>1. handled \in Seq(1..received) /\ received \in Nat
  BY Numbers DEF Types, OtherTypes
<1>2. Len(handled) \in Nat /\ \A i \in 1..Len(handled) : handled[i] \in 1..received
  BY <1>1, LenProperties, ElementOfSeq
<1>3. handled # <<>> => Len(handled) \in 1..Len(handled)
  BY <1>1, <1>2, EmptySeq
<1> QED BY <1>1, <1>2, <1>3 DEF LastHandled

\* A camera that was listed already when its command came back to the head.
Returned(n) == content[n] \in Cameras /\ "returned" \in past

\* Such a camera stays where it is.
LEMMA ReturnedStep ==
  ASSUME Types, Next, NEW n \in 1..received, Returned(n)
  PROVE  Returned(n)'
<1>1. content[n] # "unread" /\ past \subseteq past'
  BY CommandQueueAssumption, PastGrows DEF Returned
<1>2. content'[n] = content[n]
  BY <1>1, CommandsStep DEF Types
<1> QED BY <1>1, <1>2 DEF Returned

\* What was handled stays in order.
LEMMA OrderKept ==
  ASSUME Types, Next, HandledInOrder, past \cap {"race", "overlap"} = {}, UNCHANGED handled
  PROVE  HandledInOrder'
<1>1. ASSUME NEW i \in DOMAIN handled
      PROVE LET before == IF i = 1 THEN 0 ELSE handled[i - 1] IN
              handled[i] = before + 1 \/ (handled[i] = before /\ Returned(before)')
  <2> DEFINE before == IF i = 1 THEN 0 ELSE handled[i - 1]
  <2>1. handled[i] = before + 1 \/ (handled[i] = before /\ Returned(before))
    BY DEF HandledInOrder, Returned
  <2>2. handled[i] \in 1..received
    BY LastIs, LenProperties DEF Types, OtherTypes
  <2> QED BY <2>1, <2>2, ReturnedStep
<1> QED BY <1>1 DEF HandledInOrder, Returned

\* A step that handles nothing and unlinks nothing leaves the head where it is.
LEMMA HeadKept ==
  ASSUME Types, Next, UNCHANGED handled, NEW lo \in Nat, NEW hi \in Nat, NEW h \in Nat, hi <= h,
         lo \in 1..hi + 1, HeadAt(lo, hi),
         \A g \in Generations : dispatcher'[g].pc \in Handling =>
           dispatcher[g].pc \in Handling /\ dispatcher'[g].cmd = dispatcher[g].cmd,
         \A t \in Callers : Removing(t)' => Removing(t) \/ lo = LastHandled,
         lo = LastHandled /\ ((\E g \in Generations : dispatcher[g].pc \in Handling) \/ (\E t \in Callers : Removing(t))) =>
           \/ \E g \in Generations : dispatcher'[g].pc \in Handling
           \/ \E t \in Callers : Removing(t)'
           \/ Returned(lo)',
         \A g \in Generations : dispatcher'[g].pc = "first" => size' > 0
  PROVE  HeadAt(lo, h)'
<1>1. LastHandled' = LastHandled
  BY DEF LastHandled
<1>2. lo = LastHandled => lo \in 1..received
  BY LastIs
<1>3. /\ lo \in {LastHandled, LastHandled + 1}
      /\ \A g \in Generations : dispatcher[g].pc \in Handling =>
           lo = LastHandled /\ dispatcher[g].cmd = lo /\ lo <= hi
      /\ \A t \in Callers : Removing(t) => lo = LastHandled
      /\ lo = LastHandled => \/ \E g \in Generations : dispatcher[g].pc \in Handling
                             \/ \E t \in Callers : Removing(t)
                             \/ Returned(lo)
  BY DEF HeadAt, Returned
<1>4. lo = LastHandled /\ Returned(lo) => Returned(lo)'
  BY <1>2, ReturnedStep
<1>5. \A g \in Generations : dispatcher'[g].pc \in Handling =>
        lo = LastHandled /\ dispatcher'[g].cmd = lo /\ lo <= h
  BY <1>3
<1>6. \A t \in Callers : Removing(t)' => lo = LastHandled
  BY <1>3
<1>7. lo = LastHandled =>
        \/ \E g \in Generations : dispatcher'[g].pc \in Handling
        \/ \E t \in Callers : Removing(t)'
        \/ Returned(lo)'
  <2>1. CASE Returned(lo)
    BY <1>4, <2>1
  <2>3. CASE lo # LastHandled
    BY <2>3
  <2>2. CASE (\E g \in Generations : dispatcher[g].pc \in Handling) \/ (\E t \in Callers : Removing(t))
    BY <2>2, <2>3
  <2> QED BY <1>3, <2>1, <2>2, <2>3
<1> QED BY <1>1, <1>3, <1>5, <1>6, <1>7 DEF HeadAt, Returned

\* The steps that leave the ring alone.
LEMMA OrderOutside ==
  ASSUME Types, CallersInv, Next, past' \cap {"race", "overlap"} = {}, HandledInOrder,
         UNCHANGED <<queue, received>>, NEW lo \in Nat, NEW hi \in Nat, ChainAt(lo, hi), HeadAt(lo, hi)
  PROVE  dead' # "empty" /\ HandledInOrder' /\ HeadAt(lo, hi)'
<1>1. /\ past \cap {"race", "overlap"} = {} /\ "overlap" \notin past /\ "overlap" \notin past' /\ dead = "none"
      /\ past \subseteq past' /\ lo \in 1..hi + 1 /\ size' = size /\ DispatcherTypes
      /\ hi <= hi /\ \A t \in Callers : Removing(t)' <=> Removing(t)
  BY PastGrows, NextIs DEF ChainAt, RingAt, queue, Removing, Types
<1>2. \A g \in Generations : dispatcher[g].pc = "first" => size > 0
  BY DEF HeadAt
<1>3. CASE UNCHANGED <<dispatcher, handled>> /\ dead' # "empty"
  <2>1. HeadAt(lo, hi)'
    BY <1>1, <1>2, <1>3, HeadKept
  <2> QED BY <1>1, <1>3, <2>1, OrderKept
<1>4. CASE UiStep
  BY <1>1, <1>3, <1>4 DEF UiStep, Resume, Retry, Interrupt, StopSoft, GiveUp, OnStart, StartHeart, Exit, Download, Delete,
     Die, commands
<1>5. CASE \E g \in Generations : ReceiverStep(g)
  <2>1. PICK g \in Generations : ReceiverStep(g)
    BY <1>5
  <2>2. CASE Spawn(g)
    <3>1. (\A h \in Generations : ~Dispatching(h)) /\ UNCHANGED handled /\ dead' # "empty"
      BY <1>1, <2>2 DEF Spawn, commands
    <3>2. \A h \in Generations : dispatcher'[h].pc \notin Handling \cup {"first"} /\ dispatcher[h].pc \notin Handling
      BY <1>1, <2>2, <3>1 DEF Spawn, Goto, DispatcherTypes, Dispatching, Handling
    <3>3. HeadAt(lo, hi)'
      BY <1>1, <3>1, <3>2, HeadKept
    <3> QED BY <1>1, <3>1, <3>3, OrderKept
  <2> QED BY <1>1, <1>3, <2>1, <2>2 DEF ReceiverStep, Began, ReceiverLoop, Receive, ReceiveNothing, commands
<1>6. CASE \E g \in Generations : DispatcherStep(g)
  <2>1. PICK g \in Generations : DispatcherStep(g)
    BY <1>6
  <2>2. Dispatching(g) /\ \A h \in Generations \ {g} : dispatcher'[h] = dispatcher[h]
    BY <2>1, <1>1 DEF DispatcherTypes, DispatcherStep, DispatcherLoop, Look, GetFirst, Apply, SearchSize, SearchGet, List,
       RemoveHandled, Goto, Dispatching
  <2>3. \A h \in Generations \ {g} : ~Dispatching(h)
    BY <1>1, <2>2, Alone
  <2>4. \A h \in Generations \ {g} : dispatcher'[h].pc \notin Handling \cup {"first"}
    BY <2>2, <2>3 DEF Dispatching, Handling
  <2>5. CASE DispatcherLoop(g) \/ Look(g)
    <3>1. /\ dispatcher[g].pc \notin Handling /\ dispatcher'[g].pc \notin Handling
          /\ dispatcher'[g].pc = "first" => size > 0
      BY <1>1, <2>5 DEF DispatcherLoop, Look, Goto, DispatcherTypes, Handling
    <3>2. UNCHANGED handled /\ dead' # "empty"
      BY <1>1, <2>5 DEF DispatcherLoop, Look, commands
    <3>3. \A h \in Generations : dispatcher'[h].pc \notin Handling /\ dispatcher[h].pc \notin Handling
      BY <2>2, <2>4, <3>1
    <3>4. \A h \in Generations : dispatcher'[h].pc = "first" => size' > 0
      BY <1>1, <2>4, <3>1
    <3>5. HeadAt(lo, hi)'
      BY <1>1, <3>2, <3>3, <3>4, HeadKept
    <3> QED BY <1>1, <3>2, <3>5, OrderKept
  <2>6. CASE /\ dispatcher[g].pc \in Handling /\ dispatcher'[g].pc \in Handling
             /\ dispatcher'[g].cmd = dispatcher[g].cmd /\ UNCHANGED handled /\ dead' # "empty"
    <3>1. \A h \in Generations : dispatcher'[h].pc # "first"
      BY <2>4, <2>6 DEF Handling
    <3>2. \A h \in Generations : dispatcher'[h].pc \in Handling =>
            dispatcher[h].pc \in Handling /\ dispatcher'[h].cmd = dispatcher[h].cmd
      BY <2>4, <2>6
    <3>3. HeadAt(lo, hi)'
      BY <1>1, <2>6, <3>1, <3>2, HeadKept
    <3> QED BY <1>1, <2>6, <3>3, OrderKept
  <2>7. CASE Apply(g) \/ SearchSize(g) \/ List(g)
    BY <1>1, <2>6, <2>7 DEF Apply, SearchSize, List, Goto, DispatcherTypes, Handling, commands
  <2>8. CASE SearchGet(g)
    <3>1. UNCHANGED <<handled, content>> /\ dead' # "empty" /\ dispatcher[g].pc \in Handling
      BY <1>1, <2>8 DEF SearchGet, Die, commands, Handling
    <3>2. CASE UNCHANGED dispatcher
      BY <3>1, <3>2, <1>3
    <3>3. CASE dispatcher' = [dispatcher EXCEPT ![g].pc = "size", ![g].i = dispatcher[g].i + 1]
      <4>1. dispatcher'[g].pc = "size" /\ dispatcher'[g].cmd = dispatcher[g].cmd
        BY <1>1, <3>3 DEF DispatcherTypes
      <4> QED BY <3>1, <4>1, <2>6 DEF Handling
    <3>4. CASE ~UNCHANGED dispatcher /\ Goto(g, "ended")
      <4>1. /\ dispatcher[g].i < Len(cams) /\ cams[dispatcher[g].i + 1] = Said(g) /\ "returned" \in past'
        <5>1. dispatcher[g].i \in Nat /\ Len(cams) \in Nat
          BY <1>1, LenProperties DEF DispatcherTypes, Types, OtherTypes
        <5>2. dispatcher'[g].pc = "ended"
          BY <1>1, <3>4 DEF Goto, DispatcherTypes
        <5>3. dispatcher' # [dispatcher EXCEPT ![g].pc = "size", ![g].i = dispatcher[g].i + 1]
          BY <1>1, <5>2 DEF DispatcherTypes
        <5> QED BY <2>8, <3>4, <5>1, <5>3 DEF SearchGet
      <4>2. Said(g) \in Cameras
        <5>1. dispatcher[g].i + 1 \in 1..Len(cams)
          BY <1>1, <4>1, LenProperties DEF DispatcherTypes, Types, OtherTypes
        <5> QED BY <4>1, <5>1, ElementOfSeq DEF Types, OtherTypes
      <4>3. dispatcher[g].cmd = lo
        BY <3>1 DEF HeadAt
      <4>4. Returned(lo)'
        BY <3>1, <4>1, <4>2, <4>3 DEF Returned, Said
      <4>5. dispatcher'[g].pc = "ended"
        BY <1>1, <3>4 DEF Goto, DispatcherTypes
      <4>6. \A h \in Generations : dispatcher'[h].pc \notin Handling \cup {"first"}
        BY <2>4, <4>5 DEF Handling
      <4>7. HeadAt(lo, hi)'
        BY <1>1, <3>1, <4>4, <4>6, HeadKept
      <4> QED BY <1>1, <3>1, <4>7, OrderKept
    <3> QED BY <2>8, <3>2, <3>3, <3>4 DEF SearchGet
  <2>9. CASE RemoveHandled(g)
    <3>1. ~(~Empty) \/ call' # call
      <4>1. Free(Dispatcher(g)) => call[Dispatcher(g)].op = "none"
        BY DEF Free, NoCall
      <4>2. RemoveFirst(Dispatcher(g)) => call'[Dispatcher(g)].op = "remove"
        BY Threads DEF RemoveFirst, Types, QueueTypes, NoCall
      <4> QED BY <2>9, <4>1, <4>2 DEF RemoveHandled, RemoveFirst
    <3>2. Empty
      BY <3>1 DEF queue
    <3>3. dispatcher[g].pc \in Handling /\ lo <= hi
      BY <2>9 DEF RemoveHandled, Handling, HeadAt
    <3>4. Void = 0
      BY Numbers DEF Types
    <3> QED BY <3>2, <3>3, <3>4 DEF Empty, First, ChainAt, RingAt, FirstIn
  <2>10. CASE GetFirst(g)
    <3>1. size > 0 /\ (\A h \in Generations : Free(Dispatcher(h))) /\ (\A t \in Callers : ~Removing(t))
      BY <1>1, <1>2, <2>10, <2>2, Alone DEF GetFirst
    <3>2. lo <= hi
      BY <3>1, SizeMeansFull
    <3>3. Void = 0 /\ First = lo /\ ~Empty
      BY <3>2, Numbers DEF Types, Empty, First, ChainAt, RingAt, FirstIn
    <3>4. /\ handled' = Append(handled, lo) /\ dead' # "empty"
          /\ dispatcher'[g].pc \in Handling /\ dispatcher'[g].cmd = lo
      <4>1. PICK k : dispatcher' = [dispatcher EXCEPT ![g] =
              [pc |-> IF k \in Cameras \cup {"status"} THEN "size" ELSE "apply", cmd |-> First, i |-> 0]]
        BY <2>10, <3>3 DEF GetFirst
      <4>2. dispatcher'[g] = [pc |-> IF k \in Cameras \cup {"status"} THEN "size" ELSE "apply", cmd |-> First, i |-> 0]
        BY <1>1, <4>1 DEF DispatcherTypes
      <4> QED BY <1>1, <2>10, <3>3, <4>2 DEF GetFirst, Handling
    <3>5. /\ Len(handled) \in Nat /\ LastHandled \in Nat /\ \A i \in 1..Len(handled) : handled[i] \in 1..received
          /\ DOMAIN handled = 1..Len(handled) /\ handled \in Seq(1..received)
      BY LastIs, LenProperties DEF Types, OtherTypes
    <3>6. lo = LastHandled + 1 \/ (lo = LastHandled /\ Returned(lo))
      <4>1. \A h \in Generations : dispatcher[h].pc \notin Handling
        BY <2>10, <2>3 DEF GetFirst, Dispatching, Handling
      <4> QED BY <3>1, <4>1 DEF HeadAt, Returned
    <3>7. handled' = Append(handled, lo) /\ lo \in Nat /\ handled \in Seq(Nat)
      BY <3>4, <3>5
    <3>8. /\ DOMAIN handled' = 1..Len(handled) + 1 /\ handled'[Len(handled) + 1] = lo
          /\ \A i \in 1..Len(handled) : handled'[i] = handled[i]
          /\ Len(handled') = Len(handled) + 1 /\ handled' # <<>>
      BY <3>5, <3>7, AppendProperties, LenProperties
    <3>9. LastHandled' = lo
      BY <3>8 DEF LastHandled
    <3>10. HandledInOrder'
      <4> DEFINE before(i) == IF i = 1 THEN 0 ELSE handled[i - 1]
                 beforeNow(i) == IF i = 1 THEN 0 ELSE handled'[i - 1]
      <4>1. ASSUME NEW i \in 1..Len(handled)
            PROVE  handled[i] = before(i) + 1 \/ (handled[i] = before(i) /\ content'[before(i)] \in Cameras /\ "returned" \in past')
        <5>1. handled[i] = before(i) + 1 \/ (handled[i] = before(i) /\ Returned(before(i)))
          BY <1>1, <3>5 DEF HandledInOrder, Returned
        <5>2. handled[i] \in 1..received
          BY <3>5
        <5>3. handled[i] = before(i) /\ Returned(before(i)) =>
                content'[before(i)] \in Cameras /\ "returned" \in past'
          <6> HIDE DEF before
          <6>1. PICK n \in 1..received : n = handled[i]
            BY <5>2
          <6>2. Returned(n) => Returned(n)'
            BY ReturnedStep
          <6> QED BY <6>1, <6>2 DEF Returned
        <5> QED BY <5>1, <5>3
      <4>2. LastHandled = before(Len(handled) + 1)
        BY <3>5, EmptySeq DEF LastHandled
      <4>3. lo = LastHandled + 1 \/ (lo = LastHandled /\ Returned(lo)')
        <5>1. lo = LastHandled => lo \in 1..received
          BY <1>1, LastIs
        <5> QED BY <3>6, <5>1, ReturnedStep
      <4>4. \A i \in 1..Len(handled) + 1 : i = Len(handled) + 1 \/ i \in 1..Len(handled)
        BY <3>5
      <4>5. \A i \in 1..Len(handled) + 1 : beforeNow(i) = before(i)
        <5>1. \A i \in 1..Len(handled) + 1 : i # 1 => i - 1 \in 1..Len(handled)
          BY <3>5
        <5> QED BY <3>8, <5>1
      <4> HIDE DEF before, beforeNow
      <4>6. ASSUME NEW i \in 1..Len(handled) + 1
            PROVE  handled'[i] = beforeNow(i) + 1
                   \/ (handled'[i] = beforeNow(i) /\ content'[beforeNow(i)] \in Cameras /\ "returned" \in past')
        <5>1. CASE i = Len(handled) + 1
          BY <3>8, <4>2, <4>3, <4>5, <5>1 DEF Returned
        <5>2. CASE i \in 1..Len(handled)
          <6>1. handled'[i] = handled[i] /\ beforeNow(i) = before(i)
            BY <3>8, <4>5, <5>2
          <6>2. handled[i] = before(i) + 1 \/ (handled[i] = before(i) /\ content'[before(i)] \in Cameras /\ "returned" \in past')
            BY <4>1, <5>2
          <6> QED BY <6>1, <6>2
        <5> QED BY <4>4, <5>1, <5>2
      <4> QED BY <3>8, <4>6 DEF HandledInOrder, beforeNow
    <3>11. HeadAt(lo, hi)'
      <4>1. \A h \in Generations : dispatcher'[h].pc \in Handling => h = g
        BY <2>4
      <4>2. \A h \in Generations : dispatcher'[h].pc # "first"
        BY <2>4, <3>4 DEF Handling
      <4> QED BY <1>1, <3>1, <3>2, <3>4, <3>9, <4>1, <4>2 DEF HeadAt
    <3> QED BY <3>4, <3>10, <3>11
  <2> QED BY <2>1, <2>5, <2>7, <2>8, <2>9, <2>10 DEF DispatcherStep
<1>7. CASE \E t \in Callers : QueueStep(t)
  BY <1>1, <1>3, <1>7 DEF QueueStep, commands
<1> QED BY <1>4, <1>5, <1>6, <1>7, NextIs

\* A step of a call on the ring.
LEMMA OrderContinue ==
  ASSUME Types, CallersInv, Next, past \cap {"race", "overlap"} = {}, HandledInOrder,
         NEW t \in Callers, \A u \in Callers \ {t} : call'[u] = call[u], Continue(t), ~Free(t),
         UNCHANGED <<service, commands, stop, dispatcher, cams, ui, dead, acts, past>>,
         NEW lo \in Nat, NEW hi \in Nat, ChainAt(lo, hi), HeadAt(lo, hi)
  PROVE  /\ dead' # "empty" /\ HandledInOrder'
         /\ \E l, h \in 0..received' + 1 : ChainAt(l, h)' /\ HeadAt(l, h)'
<1>1. /\ UNCHANGED <<received, content, handled>> /\ dead = "none" /\ "overlap" \notin past /\ "race" \notin past
      /\ Types' /\ Removers /\ QueueTypes /\ Void = 0 /\ received \in Nat /\ lo \in 1..hi + 1
  BY NextIs, TypesStep, CallersAre, Numbers DEF commands, Types, ChainAt, RingAt
<1>2. \A u \in Callers \ {t} : Free(u) /\ ~Removing(u) /\ ~Removing(u)'
  BY <1>1 DEF CallersInv, Removing, Free, NoCall
<1>3. /\ dead' # "empty" /\ HandledInOrder'
  BY <1>1, OrderKept
<1>4. InCall(call[t], lo, hi, \E g \in Generations : t = Dispatcher(g))
  BY DEF ChainAt
<1>5. \A g \in Generations : dispatcher[g].pc = "first" => size > 0
  BY DEF HeadAt
<1>6. (\E g \in Generations : t = Dispatcher(g)) => \A g \in Generations : dispatcher[g].pc \notin Handling \cup {"first"}
  <2>1. SUFFICES ASSUME NEW g \in Generations, t = Dispatcher(g)
                 PROVE  \A h \in Generations : dispatcher[h].pc \notin Handling \cup {"first"}
    OBVIOUS
  <2>2. dispatcher[g].pc = "loop"
    BY <2>1 DEF CallersInv
  <2>3. \A h \in Generations \ {g} : ~Dispatching(h)
    BY <1>1, <2>2, Alone DEF Dispatching
  <2> QED BY <2>2, <2>3 DEF Dispatching, Handling
<1>7. CASE call[t].op = "unlink"
  <2>1. lo <= hi /\ hi = received /\ ChainAt(lo + 1, hi)' /\ call'[t].op = "close"
    BY <1>1, <1>2, <1>7, ChainContinue, ContinueIs
  <2>2. PICK l \in Nat : l = lo + 1
    OBVIOUS
  <2>3. lo = LastHandled /\ LastHandled' = LastHandled
    BY <1>1, <1>7 DEF HeadAt, Removing, LastHandled
  <2>4. \A g \in Generations : dispatcher'[g].pc \notin Handling \cup {"first"}
    BY <1>6, <1>7 DEF CallersInv
  <2>5. \A u \in Callers : ~Removing(u)'
    BY <1>2, <2>1 DEF Removing
  <2>6. HeadAt(l, hi)'
    BY <2>2, <2>3, <2>4, <2>5 DEF HeadAt
  <2>7. l \in 0..received' + 1 /\ hi \in 0..received' + 1
    BY <1>1, <2>1, <2>2
  <2>8. ChainAt(l, hi)'
    BY <2>1, <2>2
  <2> QED BY <1>3, <2>6, <2>7, <2>8
<1>8. CASE call[t].op # "unlink"
  <2>1. PICK h \in Nat : hi <= h /\ h <= hi + 1 /\ ChainAt(lo, h)' /\ h <= received + 1
    <3>1. CASE call[t].op = "link"
      <4>1. PICK h \in Nat : h = hi + 1
        OBVIOUS
      <4>2. hi + 1 = received /\ ChainAt(lo, hi + 1)'
        BY <1>1, <1>2, <3>1, ChainContinue
      <4>3. ChainAt(lo, h)'
        BY <4>1, <4>2
      <4> QED BY <4>1, <4>2, <4>3
    <3>2. CASE call[t].op # "link"
      <4>1. ChainAt(lo, hi)'
        BY <1>1, <1>2, <1>8, <3>2, ChainContinue
      <4>2. hi <= received
        <5>1. call[t].op \in {"add", "link", "remove", "unlink", "close", "longer", "shorter", "count"}
          BY <1>1 DEF QueueTypes, Records
        <5> QED BY <1>1, <1>4, <5>1 DEF InCall
      <4> QED BY <1>1, <4>1, <4>2
    <3> QED BY <3>1, <3>2
  <2>2. \A g \in Generations : dispatcher'[g].pc = "first" => size' > 0
    <3>1. CASE call[t].op = "count"
      <4>1. size' = call[t].n /\ size \in Int
        BY <1>1, <3>1, ContinueIs DEF QueueTypes
      <4>2. call[t].n = hi - lo + 1 /\ (size = hi - lo \/ \E g \in Generations : t = Dispatcher(g))
        BY <1>4, <3>1 DEF InCall
      <4>3. CASE size = hi - lo
        BY <1>5, <4>1, <4>2, <4>3
      <4>4. CASE \E g \in Generations : t = Dispatcher(g)
        BY <1>6, <4>4
      <4> QED BY <4>2, <4>3, <4>4
    <3>2. CASE call[t].op # "count"
      <4>1. size' = size
        BY <1>1, <3>2, ContinueIs
      <4> QED BY <1>5, <4>1
    <3> QED BY <3>1, <3>2
  <2>3. Removing(t)' <=> Removing(t)
    BY <1>1, <1>8, ContinueIs DEF Removing
  <2>4. \A u \in Callers : Removing(u)' <=> Removing(u)
    BY <1>2, <2>3
  <2>5. HeadAt(lo, h)'
    BY <1>1, <2>1, <2>2, <2>4, HeadKept
  <2>6. lo \in 0..received' + 1 /\ h \in 0..received' + 1
    <3>1. lo \in 1..h + 1 /\ (h = received \/ h + 1 = received)
      <4>1. RingAt(lo, h)' /\ AtRest(lo, h)' /\ InCall(call[t], lo, h, \E g \in Generations : t = Dispatcher(g))'
        BY <2>1 DEF ChainAt
      <4>2. lo \in 1..h + 1
        BY <4>1 DEF RingAt
      <4>3. CASE Free(t)'
        <5>1. \A u \in Callers : Free(u)'
          BY <1>2, <4>3 DEF Free
        <5>2. h = received'
          BY <4>1, <5>1 DEF AtRest
        <5> QED BY <1>1, <4>2, <5>2
      <4>4. CASE ~Free(t)'
        <5>1. call'[t].op \in {"add", "link", "remove", "unlink", "close", "longer", "shorter", "count"}
          BY <1>1, <4>4 DEF Types, QueueTypes, Records
        <5> QED BY <1>1, <4>1, <4>2, <5>1 DEF InCall
      <4> QED BY <4>2, <4>3, <4>4
    <3> QED BY <1>1, <3>1
  <2> QED BY <1>3, <2>1, <2>5, <2>6
<1> QED BY <1>7, <1>8

\* Every step keeps the order.
LEMMA OrderStep == Types /\ CallersInv /\ OrderInv /\ Next => OrderInv'
<1> SUFFICES ASSUME Types, CallersInv, OrderInv, Next, past' \cap {"race", "overlap"} = {}
             PROVE  /\ dead' # "empty" /\ HandledInOrder'
                    /\ \E lo, hi \in 0..received' + 1 : ChainAt(lo, hi)' /\ HeadAt(lo, hi)'
  BY DEF OrderInv
<1>1. /\ past \cap {"race", "overlap"} = {} /\ "overlap" \notin past /\ "race" \notin past /\ dead = "none"
      /\ received \in Nat /\ "race" \notin past'
  BY PastGrows, NextIs, Numbers DEF Types
<1>2. HandledInOrder /\ \E lo, hi \in 0..received + 1 : ChainAt(lo, hi) /\ HeadAt(lo, hi)
  BY <1>1 DEF OrderInv
<1>3. PICK lo \in 0..received + 1, hi \in 0..received + 1 : ChainAt(lo, hi) /\ HeadAt(lo, hi)
  BY <1>2
<1>4. lo \in Nat /\ hi \in Nat /\ lo \in 1..hi + 1
  BY <1>1, <1>3 DEF ChainAt, RingAt
<1>5. CASE UNCHANGED <<queue, received>>
  <2>1. ChainAt(lo, hi)'
    BY <1>3, <1>5, ChainKept
  <2>2. dead' # "empty" /\ HandledInOrder' /\ HeadAt(lo, hi)'
    BY <1>2, <1>3, <1>4, <1>5, OrderOutside
  <2> QED BY <1>3, <1>5, <2>1, <2>2
<1>6. ASSUME NEW t \in Callers, \A u \in Callers \ {t} : call'[u] = call[u], Continue(t), ~Free(t),
             UNCHANGED <<service, commands, stop, dispatcher, cams, ui, dead, acts, past>>
      PROVE  /\ dead' # "empty" /\ HandledInOrder'
             /\ \E l, h \in 0..received' + 1 : ChainAt(l, h)' /\ HeadAt(l, h)'
  BY <1>1, <1>2, <1>3, <1>4, <1>6, OrderContinue
<1>7. ASSUME NEW t \in Callers, \A u \in Callers \ {t} : call'[u] = call[u], Free(t), Racing(t)
      PROVE  \A u \in Callers : Free(u)
  <2>1. Others(t) = {}
    BY <1>1, <1>7 DEF Racing
  <2> QED BY <1>7, <2>1 DEF Others
<1>8. ASSUME NEW t \in Callers, \A u \in Callers \ {t} : call'[u] = call[u], Free(t), Racing(t),
             received < limit.commands, received' = received + 1, Add(t, received'), UNCHANGED <<handled, dispatcher, dead>>
      PROVE  dead' # "empty" /\ HandledInOrder' /\ ChainAt(lo, hi)' /\ HeadAt(lo, hi)'
  <2>1. \A u \in Callers : Free(u)
    BY <1>7, <1>8
  <2>2. ChainAt(lo, hi)'
    BY <1>3, <1>4, <1>8, <2>1, ChainAdd
  <2>3. call'[t].op = "add" /\ size' = size
    BY <1>8 DEF Add, Types, QueueTypes
  <2>4. \A u \in Callers : ~Removing(u) /\ ~Removing(u)'
    BY <1>8, <2>1, <2>3 DEF Removing, Free, NoCall
  <2>5. \A g \in Generations : dispatcher'[g].pc = "first" => size' > 0
    BY <1>3, <1>8, <2>3 DEF HeadAt
  <2>6. HeadAt(lo, hi)'
    BY <1>3, <1>4, <1>8, <2>4, <2>5, HeadKept
  <2> QED BY <1>1, <1>2, <1>8, <2>2, <2>6, OrderKept
<1>9. ASSUME NEW g \in Generations, RemoveHandled(g), ~Empty, Free(Dispatcher(g)), Racing(Dispatcher(g)),
             \A u \in Callers \ {Dispatcher(g)} : call'[u] = call[u]
      PROVE  dead' # "empty" /\ HandledInOrder' /\ ChainAt(lo, hi)' /\ HeadAt(lo, hi)' /\ UNCHANGED received
  <2>1. Dispatcher(g) \in Callers
    BY Threads
  <2>2. \A u \in Callers : Free(u)
    BY <1>7, <1>9, <2>1
  <2>3. /\ RemoveFirst(Dispatcher(g)) /\ dispatcher' = [dispatcher EXCEPT ![g] = AtLoop]
        /\ UNCHANGED <<received, handled, content, dead, size>> /\ dispatcher[g].pc = "remove"
    BY <1>9 DEF RemoveHandled, RemoveFirst, commands
  <2>4. lo = LastHandled /\ lo <= hi
    BY <1>3, <2>3 DEF HeadAt, Handling
  <2>5. call'[Dispatcher(g)].op = "remove" /\ ChainAt(lo, hi)'
    BY <1>3, <1>4, <1>9, <2>1, <2>2, <2>3, <2>4, ChainRemove
  <2>6. Removing(Dispatcher(g))'
    BY <2>5 DEF Removing
  <2>7. dispatcher'[g].pc = "loop" /\ \A h \in Generations \ {g} : dispatcher'[h] = dispatcher[h]
    BY <2>3 DEF AtLoop, Types, DispatcherTypes
  <2>8. \A h \in Generations : dispatcher'[h].pc = "first" => size' > 0
    BY <1>3, <2>3, <2>7 DEF HeadAt
  <2>9. \A h \in Generations : dispatcher'[h].pc \in Handling =>
          dispatcher[h].pc \in Handling /\ dispatcher'[h].cmd = dispatcher[h].cmd
    BY <2>7 DEF Handling
  <2>10. HeadAt(lo, hi)'
    BY <1>3, <1>4, <2>1, <2>3, <2>4, <2>6, <2>8, <2>9, HeadKept
  <2> QED BY <1>1, <1>2, <2>3, <2>5, <2>10, OrderKept
<1> QED BY <1>1, <1>3, <1>5, <1>6, <1>8, <1>9, CallStep

-----------------------------------------------------------------------------
(* The invariant and what follows from it *)

\* The invariant holds at first ...
LEMMA InitInv == Init => CommandInv
<1> SUFFICES ASSUME Init PROVE CommandInv
  OBVIOUS
<1>1. Types /\ Void = 0 /\ received = 0 /\ \A t \in Callers : call[t].op = "none" /\ Free(t)
  BY InitTypes, Numbers DEF Init, QueueInit, Types, NoCall, Free
<1>2. \A g \in Generations : dispatcher[g].pc = "none"
  BY DEF Init
<1>3. StartInv
  BY DEF Init, StartInv
<1>4. CamsInv
  BY <1>2 DEF Init, CamsInv, IsInjective
<1>5. CallersInv
  BY <1>1, <1>2, Threads DEF CallersInv, Dispatching
<1>6. ChainAt(1, 0)
  <2>1. RingAt(1, 0)
    BY <1>1, Numbers DEF RingAt, FirstIn, Types, Init, QueueInit
  <2>2. AtRest(1, 0)
    BY <1>1, Numbers DEF AtRest, LastIn, Types, Init, QueueInit
  <2>3. \A t \in Callers, b \in BOOLEAN : InCall(call[t], 1, 0, b)
    BY <1>1 DEF InCall
  <2> QED BY <2>1, <2>2, <2>3 DEF ChainAt
<1>7. HeadAt(1, 0)
  BY <1>1, <1>2 DEF HeadAt, LastHandled, Removing, Handling, Init
<1>8. HandledInOrder
  BY DEF HandledInOrder, Init
<1>9. OrderInv
  BY <1>1, <1>6, <1>7, <1>8 DEF OrderInv, Init
<1> QED BY <1>1, <1>3, <1>4, <1>5, <1>9 DEF CommandInv

\* ... and every step keeps it ...
LEMMA StepInv == CommandInv /\ [Next]_vars => CommandInv'
<1> SUFFICES ASSUME CommandInv, [Next]_vars PROVE CommandInv'
  OBVIOUS
<1>1. CASE Next
  BY <1>1, TypesStep, StartStep, CamsInvStep, CallersStep, OrderStep DEF CommandInv
<1>2. CASE UNCHANGED vars
  <2>1. UNCHANGED <<next, previous, size, call, instance, receiver, starting, content, received, handled,
                    stop, dispatcher, cams, ui, dead, limit, acts, past>>
    BY <1>2 DEF vars, queue, service, commands
  <2>2. Types'
    BY <2>1 DEF CommandInv, Types, OtherTypes, QueueTypes, DispatcherTypes, Known, Free, Said
  <2>3. StartInv' /\ CamsInv' /\ CallersInv'
    BY <2>1 DEF CommandInv, StartInv, CamsInv, CallersInv, Said, Free, Dispatching
  <2>4. OrderInv'
    <3> SUFFICES ASSUME past' \cap {"race", "overlap"} = {}
                 PROVE  /\ dead' # "empty" /\ HandledInOrder'
                        /\ \E lo, hi \in 0..received' + 1 : ChainAt(lo, hi)' /\ HeadAt(lo, hi)'
      BY DEF OrderInv
    <3>1. PICK lo \in 0..received + 1, hi \in 0..received + 1 : ChainAt(lo, hi) /\ HeadAt(lo, hi)
      BY <2>1 DEF CommandInv, OrderInv
    <3>2. ChainAt(lo, hi)'
      BY <2>1, <3>1, ChainKept DEF queue
    <3>3. HeadAt(lo, hi)'
      BY <2>1, <3>1 DEF HeadAt, LastHandled, Removing
    <3>4. dead' # "empty" /\ HandledInOrder'
      BY <2>1 DEF CommandInv, OrderInv, HandledInOrder
    <3> QED BY <2>1, <3>1, <3>2, <3>3, <3>4
  <2> QED BY <2>2, <2>3, <2>4 DEF CommandInv
<1> QED BY <1>1, <1>2

\* ... so it holds always.
THEOREM CommandInvariant == Spec => []CommandInv
BY InitInv, StepInv, PTL DEF Spec

\* The invariant's types are those of the model.
LEMMA InvTypes == Types => TypeOK
<1> SUFFICES ASSUME Types PROVE TypeOK
  OBVIOUS
<1>1. /\ OtherTypes /\ QueueTypes /\ DispatcherTypes /\ Known \subseteq Link /\ 1..received \subseteq Item
      /\ received \in Nat
  BY Numbers DEF Types
<1>2. QueueTypeOK
  BY <1>1 DEF QueueTypes, QueueTypeOK, Records
<1>3. dispatcher \in [Generations ->
        [pc : {"none", "loop", "look", "first", "apply", "size", "get", "list", "remove", "ended"},
         cmd : Link, i : Nat]]
  BY <1>1 DEF DispatcherTypes, Handling
<1>4. handled \in Seq(Item)
  <2>1. handled \in Seq(1..received) /\ Len(handled) \in Nat
    BY <1>1, LenProperties DEF OtherTypes
  <2>2. \A i \in 1..Len(handled) : handled[i] \in Item
    BY <1>1, <2>1, ElementOfSeq
  <2> QED BY <2>1, <2>2, LenProperties, SeqDef
<1> QED BY <1>1, <1>2, <1>3, <1>4 DEF OtherTypes, TypeOK

\* Each property follows from the invariant.
LEMMA InvSafe == CommandInv => QueueSafe
BY InvTypes DEF CommandInv, CamsInv, QueueSafe, NoCameraTwice

\* The order is a part of it.
LEMMA InvOrder == CommandInv => HandledInOrder
BY DEF CommandInv, OrderInv, HandledInOrder

\* So are the reasons to die.
LEMMA InvDies == CommandInv => DiesOnlyOfRaces
BY DEF CommandInv, OrderInv, CamsInv, StartInv, DiesOnlyOfRaces

\* QueueSafe, for every number of generations, commands and cameras: types hold,
\* and handleUpdateCamera lists no camera twice unless cams changed under a search.
THEOREM QueueIsSafe == Spec => []QueueSafe
BY CommandInvariant, InvSafe, PTL

\* HandledInOrder: unless two calls on cmdMaps overlap or two DoCmdThreads are
\* alive, every command is handled once, in the order in which it came, but for a
\* camera whose handler returned before removing it.
THEOREM CommandsInOrder == Spec => []HandledInOrder
BY CommandInvariant, InvOrder, PTL

\* DiesOnlyOfRaces: getFirst(), removeFirst(), cams.get(i) and start() throw only
\* after the races that are named for each.
THEOREM DeathsHaveReasons == Spec => []DiesOnlyOfRaces
BY CommandInvariant, InvDies, PTL
=============================================================================
