---------------------------- MODULE CommandQueue ----------------------------
(***************************************************************************)
(* The commands of the server: ReceiveThread appends each to the static    *)
(* DoCmdThread.cmdMaps, DoCmdThread takes the first, handles it and        *)
(* removes the first.  Both threads belong to one generation, started by   *)
(* AppServer.onStart through the singleton ReceiveThread and ended by the  *)
(* static AppServer.stop, which the next generation resets.  The user      *)
(* interface starts and stops generations, and changes the static          *)
(* CameraListInfo.cams that the handlers search by index.                  *)
(*                                                                         *)
(* A command is its number in the order in which add() was called; content *)
(* is what the handlers tell apart, chosen when a handler first reads it.  *)
(* One access of cmdMaps, of stop or of cams is one step.  The calls on    *)
(* the ArrayList cams are atomic here.  An exception that leaves run() or  *)
(* onStart() ends the process (dead).                                      *)
(***************************************************************************)
EXTENDS LinkedQueue, Sequences, FiniteSets, Functions

CONSTANTS
  Cameras,       \* camera ids
  Generations,   \* 1..n: at most so many ReceiveThreads are made
  MaxStarts,     \* at most so many isAP() threads are under way
  Limits         \* bounds to choose from: how many commands come and what they say, how
                 \* often the user acts, how many dispatchers are alive at a time

\* Who calls cmdMaps: the threads of each generation and the main thread.
Dispatcher(g) == <<"DoCmdThread", g>>
Receiver(g) == <<"ReceiveThread", g>>
Ui == <<"main", 0>>

\* A camera of the list (its id); that there is none, or that a login succeeded,
\* which both empty cams; a kick; a camera's status; and everything that
\* changes neither cams nor stop.
Contents == Cameras \cup {"empty", "kick", "status", "other"}

ASSUME CommandQueueAssumption ==
  /\ Callers = {Ui} \cup {Dispatcher(g) : g \in Generations} \cup {Receiver(g) : g \in Generations}
  /\ Void = 0 /\ 0 \notin Generations /\ MaxStarts \in Nat /\ "unread" \notin Cameras
  /\ Limits \subseteq [commands : Nat, says : SUBSET Contents, acts : Nat, dispatchers : Nat]
  /\ \A l \in Limits : 1..l.commands \subseteq Item

VARIABLES
  stop,          \* AppServer.stop
  instance,      \* ReceiveThread.mReceiveThread: a generation, 0 is null
  receiver,      \* where each ReceiveThread is
  dispatcher,    \* where each DoCmdThread is, its command and its loop index
  cams,          \* CameraListInfo.cams, the ids
  ui, starting,  \* where the main thread is; isAP() threads that may still start the service
  content, received, handled,   \* what each command says; how many came; those handlers read
  dead,          \* the exception that ended the process
  limit, acts,   \* the bounds chosen; how often the user has acted
  past           \* history: what has happened that the properties except

service == <<instance, receiver, starting>>
commands == <<content, received, handled>>
vars == <<queue, service, commands, stop, dispatcher, cams, ui, dead, limit, acts, past>>

Alive == dead = "none"
Dispatching(g) == dispatcher[g].pc \notin {"none", "ended"}
Searching == \E g \in Generations : dispatcher[g].pc \in {"size", "get", "list"}

AtLoop == [pc |-> "loop", cmd |-> 0, i |-> 0]
Goto(g, pc) == dispatcher' = [dispatcher EXCEPT ![g].pc = pc]
Die(e) == dead' = e
\* The caller t begins a call that changes cmdMaps.
Racing(t) == past' = past \cup (IF Others(t) = {} THEN {} ELSE {"race"})

Init ==
  /\ QueueInit
  /\ stop = FALSE /\ instance = 0 /\ starting = 0 /\ ui = "idle" /\ cams = <<>>
  /\ receiver = [g \in Generations |-> "none"]
  /\ dispatcher = [g \in Generations |-> [pc |-> "none", cmd |-> 0, i |-> 0]]
  /\ content = [n \in Item |-> "unread"] /\ received = 0 /\ handled = <<>>
  /\ dead = "none" /\ limit \in Limits /\ acts = 0 /\ past = {}

-----------------------------------------------------------------------------
\* ReceiveThread

Began(g) == /\ receiver[g] = "run"
            /\ Cardinality({h \in Generations : Dispatching(h) \/ receiver[h] = "spawn"}) < limit.dispatchers
            /\ stop' = FALSE
            /\ receiver' = [receiver EXCEPT ![g] = "spawn"]
            /\ UNCHANGED <<queue, instance, starting, commands, dispatcher, cams, ui, dead, acts, past>>
Spawn(g) == /\ receiver[g] = "spawn"
            /\ receiver' = [receiver EXCEPT ![g] = "loop"]
            /\ Goto(g, "loop")
            /\ past' = past \cup (IF \E h \in Generations : Dispatching(h) THEN {"overlap"} ELSE {})
            /\ UNCHANGED <<queue, instance, starting, commands, stop, cams, ui, dead, acts>>
\* while (!AppServer.stop), once the last add() is over.
ReceiverLoop(g) == /\ receiver[g] = "loop" /\ Free(Receiver(g))
                   /\ receiver' = [receiver EXCEPT ![g] = IF stop THEN "ended" ELSE "read"]
                   /\ UNCHANGED <<queue, instance, starting, commands, stop, dispatcher, cams, ui, dead, acts, past>>
\* receiveDataParse() puts a command into the list ...
Receive(g) == /\ receiver[g] = "read" /\ received < limit.commands
              /\ received' = received + 1
              /\ Add(Receiver(g), received') /\ Racing(Receiver(g))
              /\ receiver' = [receiver EXCEPT ![g] = "loop"]
              /\ UNCHANGED <<instance, starting, content, handled, stop, dispatcher, cams, ui, dead, acts>>
\* ... or there was a heartbeat, nothing in time, no connection or an error.
ReceiveNothing(g) == /\ receiver[g] = "read"
                     /\ receiver' = [receiver EXCEPT ![g] = "loop"]
                     /\ UNCHANGED <<queue, instance, starting, commands, stop, dispatcher, cams, ui, dead, acts, past>>

-----------------------------------------------------------------------------
\* DoCmdThread

\* while (!AppServer.stop), once the last removeFirst() is over.
DispatcherForever(g) ==
  /\ dispatcher[g].pc = "loop" /\ Free(Dispatcher(g)) /\ Goto(g, "look")
  /\ UNCHANGED <<queue, service, commands, stop, cams, ui, dead, acts, past>>
DispatcherLoop(g) == /\ dispatcher[g].pc = "loop" /\ Free(Dispatcher(g))
                     /\ Goto(g, IF stop THEN "ended" ELSE "look")
                     /\ UNCHANGED <<queue, service, commands, stop, cams, ui, dead, acts, past>>
\* if (cmdMaps.size() > 0)
LookForTwo(g) ==
  /\ dispatcher[g].pc = "look" /\ Goto(g, IF size > 1 THEN "first" ELSE "loop")
  /\ UNCHANGED <<queue, service, commands, stop, cams, ui, dead, acts, past>>
Look(g) == /\ dispatcher[g].pc = "look"
           /\ Goto(g, IF size > 0 THEN "first" ELSE "loop")
           /\ UNCHANGED <<queue, service, commands, stop, cams, ui, dead, acts, past>>
\* map = cmdMaps.getFirst(), which throws if there is none; then the switch.
GetFirst(g) ==
  /\ dispatcher[g].pc = "first"
  /\ IF Empty
       THEN Die("empty") /\ UNCHANGED <<dispatcher, content, handled>>
       ELSE \E k \in IF content[First] = "unread" THEN limit.says ELSE {content[First]} :
              /\ content' = [content EXCEPT ![First] = k]
              /\ handled' = Append(handled, First)
              /\ dispatcher' = [dispatcher EXCEPT ![g] =
                   [pc |-> IF k \in Cameras \cup {"status"} THEN "size" ELSE "apply", cmd |-> First, i |-> 0]]
              /\ UNCHANGED dead
  /\ UNCHANGED <<queue, service, received, stop, cams, ui, acts, past>>

Said(g) == content[dispatcher[g].cmd]

\* The cases that do not search: no camera at all and downloadCamera() after a
\* login empty cams, offLine() after a kick sets stop.
ApplyReturns(g) ==
  /\ dispatcher[g].pc = "apply"
  /\ cams' = IF Said(g) = "empty" THEN <<>> ELSE cams
  /\ stop' = (stop \/ Said(g) = "kick")
  /\ Goto(g, IF Said(g) = "kick" THEN "ended" ELSE "remove")
  /\ UNCHANGED <<queue, service, commands, ui, dead, acts, past>>
Apply(g) ==
  /\ dispatcher[g].pc = "apply"
  /\ cams' = IF Said(g) = "empty" THEN <<>> ELSE cams
  /\ stop' = (stop \/ Said(g) = "kick")
  /\ Goto(g, "remove")
  /\ UNCHANGED <<queue, service, commands, ui, dead, acts, past>>
\* for (...; i < cams.size(); ...): a camera that is not there yet is to be
\* listed, a status needs nothing more.
SearchTooShort(g) ==
  /\ dispatcher[g].pc = "size"
  /\ Goto(g, IF dispatcher[g].i < Len(cams) - 1 THEN "get"
             ELSE IF Said(g) = "status" THEN "remove" ELSE "list")
  /\ UNCHANGED <<queue, service, commands, stop, cams, ui, dead, acts, past>>
SearchSize(g) ==
  /\ dispatcher[g].pc = "size"
  /\ Goto(g, IF dispatcher[g].i < Len(cams) THEN "get"
             ELSE IF Said(g) = "status" THEN "remove" ELSE "list")
  /\ UNCHANGED <<queue, service, commands, stop, cams, ui, dead, acts, past>>
\* cams.get(i), which throws if i is too large; a camera that is there
\* already returns from run().
SearchGet(g) == LET i == dispatcher[g].i IN
  /\ dispatcher[g].pc = "get"
  /\ IF i >= Len(cams)
       THEN Die("index") /\ UNCHANGED <<dispatcher, past>>
       ELSE IF cams[i + 1] = Said(g)
         THEN Goto(g, "ended") /\ past' = past \cup {"returned"} /\ UNCHANGED dead
         ELSE /\ dispatcher' = [dispatcher EXCEPT ![g].pc = "size", ![g].i = i + 1]
              /\ UNCHANGED <<dead, past>>
  /\ UNCHANGED <<queue, service, commands, stop, cams, ui, acts>>
List(g) == /\ dispatcher[g].pc = "list"
           /\ cams' = Append(cams, Said(g))
           /\ Goto(g, "remove")
           /\ UNCHANGED <<queue, service, commands, stop, ui, dead, acts, past>>
\* cmdMaps.removeFirst(), which throws if there is none.
RemoveHandled(g) ==
  /\ dispatcher[g].pc = "remove"
  /\ IF Empty
       THEN Die("empty") /\ UNCHANGED <<queue, dispatcher, past>>
       ELSE /\ RemoveFirst(Dispatcher(g)) /\ Racing(Dispatcher(g))
            /\ dispatcher' = [dispatcher EXCEPT ![g] = AtLoop] /\ UNCHANGED dead
  /\ UNCHANGED <<service, commands, stop, cams, ui, acts>>

-----------------------------------------------------------------------------
\* The main thread: WelcomeActivity, the other screens, AppServer.onStart

Idle == ui = "idle" /\ Free(Ui)
Act == Idle /\ acts < limit.acts /\ acts' = acts + 1
\* The main thread changes cams.
Shifting == past' = past \cup (IF Searching THEN {"shifted"} ELSE {})

\* onResume(): cams.clear(), then isAP().
Resume == /\ Act /\ starting < MaxStarts
          /\ cams' = <<>> /\ Shifting /\ ui' = "isAP"
          /\ UNCHANGED <<queue, service, commands, stop, dispatcher, dead>>
\* The retry dialog: isAP() alone.  (finish() in a camera's own network calls
\* only stopSoft(): as this, and GiveUp.)
Retry == /\ Act /\ starting < MaxStarts
         /\ ui' = "isAP"
         /\ UNCHANGED <<queue, service, commands, stop, dispatcher, cams, dead, past>>
\* stopSoft(): the singleton is interrupted, which forgets it ...
InterruptOnly ==
  /\ ui = "isAP" /\ ui' = "stopSoft"
  /\ UNCHANGED <<queue, service, commands, stop, dispatcher, cams, dead, acts, past>>
Interrupt == /\ ui = "isAP"
             /\ instance' = 0 /\ ui' = "stopSoft"
             /\ UNCHANGED <<queue, receiver, starting, commands, stop, dispatcher, cams, dead, acts, past>>
\* ... stop = true, and isAP() starts its thread.
StopSoft == /\ ui = "stopSoft"
            /\ stop' = TRUE /\ ui' = "idle"
            /\ starting' = starting + 1
            /\ past' = past \cup (IF starting > 0 THEN {"twice"} ELSE {})
            /\ UNCHANGED <<queue, instance, receiver, commands, dispatcher, cams, dead, acts>>
\* That thread finds no network, or the screen is gone.
GiveUp == /\ starting > 0 /\ starting' = starting - 1
          /\ UNCHANGED <<queue, instance, receiver, commands, stop, dispatcher, cams, ui, dead, acts, past>>
\* getInstance() makes the next ReceiveThread.
FirstUnused(g) == \A h \in Generations : receiver[h] = "none" => g <= h
\* onStart(): getInstance().start(), which throws if that thread was started
\* before; in a camera's own network a START_HEART command follows.
OnStart == \E g \in Generations :
  /\ Idle /\ starting > 0
  /\ starting' = starting - 1 /\ instance' = g
  /\ IF instance # 0
       THEN g = instance /\ Die("started") /\ UNCHANGED <<receiver, ui>>
       ELSE /\ receiver[g] = "none" /\ FirstUnused(g)
            /\ receiver' = [receiver EXCEPT ![g] = "run"]
            /\ ui' \in {"idle", "heart"} /\ UNCHANGED dead
  /\ UNCHANGED <<queue, commands, stop, dispatcher, cams, acts, past>>
StartHeart == /\ ui = "heart"
              /\ IF received < limit.commands
                   THEN /\ received' = received + 1
                        /\ Add(Ui, received') /\ Racing(Ui)
                        /\ content' = [content EXCEPT ![received'] = "other"]
                   ELSE UNCHANGED <<queue, received, past, content>>
              /\ ui' = "idle"
              /\ UNCHANGED <<service, handled, stop, dispatcher, cams, dead, acts>>

\* The home key, logging out, the dialog on another login or a lost connection.
Exit == /\ Act /\ stop' = TRUE
        /\ UNCHANGED <<queue, service, commands, dispatcher, cams, ui, dead, past>>
\* An update that is put off downloads the list again; a camera is deleted.
Download == /\ Act /\ cams' = <<>> /\ Shifting
            /\ UNCHANGED <<queue, service, commands, stop, dispatcher, ui, dead>>
Delete == /\ Act
          /\ \E i \in 1..Len(cams) : cams' = SubSeq(cams, 1, i - 1) \o SubSeq(cams, i + 1, Len(cams))
          /\ Shifting
          /\ UNCHANGED <<queue, service, commands, stop, dispatcher, ui, dead>>

UiStep == \/ Resume \/ Retry \/ Interrupt \/ StopSoft \/ GiveUp \/ OnStart \/ StartHeart
          \/ Exit \/ Download \/ Delete

-----------------------------------------------------------------------------
ReceiverStep(g) == \/ Began(g) \/ Spawn(g) \/ ReceiverLoop(g) \/ Receive(g) \/ ReceiveNothing(g)
DispatcherStep(g) == \/ DispatcherLoop(g) \/ Look(g) \/ GetFirst(g) \/ Apply(g)
                     \/ SearchSize(g) \/ SearchGet(g) \/ List(g) \/ RemoveHandled(g)
QueueStep(t) == Continue(t) /\ UNCHANGED <<service, commands, stop, dispatcher, cams, ui, dead, acts, past>>

Next == /\ Alive /\ UNCHANGED limit
        /\ \/ UiStep
           \/ \E g \in Generations : ReceiverStep(g) \/ DispatcherStep(g)
           \/ \E t \in Callers : QueueStep(t)

Spec == Init /\ [][Next]_vars

\* The threads run.  Commands need not come and the user need not act.
Run(A) == Alive /\ A /\ UNCHANGED limit
Fairness == /\ \A g \in Generations : /\ WF_vars(Run(DispatcherStep(g)))
                                      /\ WF_vars(Run(Began(g) \/ Spawn(g)))
            /\ \A t \in Callers : WF_vars(Run(QueueStep(t)))
LiveSpec == Spec /\ Fairness

-----------------------------------------------------------------------------
TypeOK ==
  /\ QueueTypeOK
  /\ stop \in BOOLEAN /\ instance \in Generations \cup {0}
  /\ receiver \in [Generations -> {"none", "run", "spawn", "loop", "read", "ended"}]
  /\ dispatcher \in [Generations ->
       [pc : {"none", "loop", "look", "first", "apply", "size", "get", "list", "remove", "ended"},
        cmd : Link, i : Nat]]
  /\ cams \in Seq(Cameras)
  /\ ui \in {"idle", "isAP", "stopSoft", "heart"} /\ starting \in 0..MaxStarts
  /\ content \in [Item -> Contents \cup {"unread"}] /\ received \in 0..limit.commands
  /\ handled \in Seq(Item)
  /\ dead \in {"none", "empty", "index", "started"}
  /\ acts \in 0..limit.acts /\ limit \in Limits /\ past \subseteq {"race", "overlap", "shifted", "returned", "twice"}

\* Commands are handled in the order in which they came and none is skipped, from
\* one generation to the next, unless two calls on the unlocked list overlapped
\* or two dispatchers were alive.  One is handled twice only if it names a camera:
\* the return of DoCmdThread.java:204 leaves it at the head of the list.
HandledInOrder == past \cap {"race", "overlap"} = {} =>
  \A i \in DOMAIN handled : LET before == IF i = 1 THEN 0 ELSE handled[i - 1] IN
    \/ handled[i] = before + 1
    \/ handled[i] = before /\ content[before] \in Cameras /\ "returned" \in past

\* No camera is listed twice, however often the server names it, unless the main
\* thread changed cams while a dispatcher searched it or two dispatchers did.
NoCameraTwice == past \cap {"shifted", "overlap"} = {} => IsInjective(cams)

\* Types, and a list of cameras without duplicates.
QueueSafe == TypeOK /\ NoCameraTwice

\* The process dies of an exception only for these reasons: getFirst() and
\* removeFirst() find nothing after size() > 0 only if calls overlapped or two
\* dispatchers took from one list; cams.get(i) only if cams changed under the
\* search; start() only if two isAP() threads were under way at once.
DiesOnlyOfRaces ==
  /\ dead = "empty" => past \cap {"race", "overlap"} # {}
  /\ dead = "index" => past \cap {"shifted", "overlap"} # {}
  /\ dead = "started" => "twice" \in past

\* Every command that came is handled, unless the client is stopped or dies, two
\* calls on the list overlapped, two dispatchers were alive, or the dispatcher
\* has returned at a camera that was listed already.
EveryCommandHandled == \A n \in Item :
  (received >= n) ~> \/ \E i \in DOMAIN handled : handled[i] = n
                     \/ stop \/ ~Alive \/ past \cap {"race", "overlap", "returned"} # {}

\* A stopped client's dispatchers end, in whatever handler or call the stop finds them.
StopEndsDispatchers == \A g \in Generations : stop ~> (~stop \/ ~Dispatching(g) \/ ~Alive)

=============================================================================
