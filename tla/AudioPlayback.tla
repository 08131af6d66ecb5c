--------------------------- MODULE AudioPlayback ----------------------------
(***************************************************************************)
(* The sound of a live view: the network thread lists audio packets        *)
(* (UdpSocket.packageToRealVideo), a gyl.cam.SoundPlay per switching-on    *)
(* takes them from the head of the list, and the user interface switches   *)
(* sound on and off and clears the list.                                   *)
(*                                                                         *)
(* A SoundPlay is one player here: its own thread, which waits for the     *)
(* first packets and then plays ADPCM itself, or its WriteAudio, which     *)
(* hands AAC packets to the ring of CircularByteBuffer.  A packet is its   *)
(* number in the order of arrival.  An exception nothing catches, of a     *)
(* player or of the user interface, ends the process, and with it the      *)
(* model.                                                                  *)
(***************************************************************************)
EXTENDS SharedList, Sequences, FiniteSets

CONSTANTS
  Players,       \* one for each time sound can be switched on
  NoPlayer,      \* null
  Net, Ui,       \* the network's and the user interface's thread
  Batch,         \* packets to wait for (6 in the code)
  MaxPackets,    \* bound: packets that arrive
  MaxClears,     \* bound: how often the user interface clears the list
  Limits         \* bound: the combinations of players that were started,
                 \* packets that arrived and clears that a behaviour reaches

ASSUME PlaybackAssumption ==
  /\ Threads = Players \cup {Net, Ui}
  /\ Net \notin Players /\ Ui \notin Players /\ Net # Ui /\ NoPlayer \notin Players
  /\ MaxPackets \in Nat /\ MaxClears \in Nat /\ Batch \in Nat
  /\ Item = 1..MaxPackets
  /\ Limits \subseteq [players : Nat, packets : 0..MaxPackets, clears : 0..MaxClears]

VARIABLES
  came,                    \* packets that arrived
  is_keep_running,         \* static, shared by all players
  isAdpcm,                 \* static: the camera sends ADPCM, else AAC
  isSound, soundPlay,      \* of the live view
  toClear, clears,         \* a clear() the user interface is about to make
  pc, m_out_bytes,         \* of each player
  played,                  \* the packets played, or written to the ring
  late,                    \* history: packets a player played with sound off
  raced,                   \* history: packets added while the list was changed
  torn                     \* history: one of those adds copied the array

view == <<isSound, soundPlay, toClear, clears>>
player == <<pc, m_out_bytes, played, late>>
vars == <<list, came, is_keep_running, isAdpcm, view, player, raced, torn>>

Init ==
  /\ ListInit /\ came = 0 /\ is_keep_running = FALSE
  /\ isAdpcm \in BOOLEAN
  /\ isSound = FALSE /\ soundPlay = NoPlayer /\ toClear = FALSE /\ clears = 0
  /\ pc = [g \in Players |-> "new"] /\ m_out_bytes = [g \in Players |-> Null]
  /\ played = <<>> /\ late = [g \in Players |-> 0]
  /\ raced = {} /\ torn = FALSE

\* The bound on what the environment of the players does.
Started == Cardinality({g \in Players : pc[g] # "new"})
Within(started, packets, cleared) ==
  \E b \in Limits : started <= b.players /\ packets <= b.packets /\ cleared <= b.clears

-----------------------------------------------------------------------------
\* The network.

Arrive == /\ Within(Started, came + 1, clears) /\ Add(Net, came + 1) /\ came' = came + 1
          /\ UNCHANGED <<is_keep_running, view, player>>

-----------------------------------------------------------------------------
\* The user interface.

UiIdle == Free(Ui) /\ ~toClear

\* soundOnClick with sound off: a new player, whichever, started at once.
SwitchOn(g) ==
  /\ UiIdle /\ ~isSound /\ pc[g] = "new" /\ g = CHOOSE h \in Players : pc[h] = "new"
  /\ Within(Started + 1, came, clears)
  /\ soundPlay' = g /\ isSound' = TRUE /\ is_keep_running' = TRUE
  /\ pc' = [pc EXCEPT ![g] = "wait"] /\ late' = [h \in Players |-> 0]
  /\ UNCHANGED <<list, came, toClear, clears, m_out_bytes, played>>

SwitchOff ==
  /\ UiIdle /\ isSound /\ soundPlay # NoPlayer
  /\ is_keep_running' = FALSE /\ soundPlay' = NoPlayer /\ isSound' = FALSE
  /\ UNCHANGED <<list, came, toClear, clears, player>>

\* initStopCam(): sound stops, isSound and soundPlay stay as they are.
StopCam ==
  /\ UiIdle /\ Within(Started, came, clears + 1)
  /\ is_keep_running' = IF soundPlay = NoPlayer THEN is_keep_running ELSE FALSE
  /\ toClear' = TRUE /\ clears' = clears + 1
  /\ UNCHANGED <<list, came, isSound, soundPlay, player>>

\* initCam(), and the end of talking to the camera: the list is cleared.
StartCam ==
  /\ UiIdle /\ Within(Started, came, clears + 1)
  /\ toClear' = TRUE /\ clears' = clears + 1
  /\ UNCHANGED <<list, came, is_keep_running, isSound, soundPlay, player>>

ClearList ==
  /\ Free(Ui) /\ toClear /\ toClear' = FALSE
  /\ IF size = 0 THEN UNCHANGED list ELSE Clear(Ui)
  /\ UNCHANGED <<came, is_keep_running, isSound, soundPlay, clears, player>>

-----------------------------------------------------------------------------
\* A player.

PlayerAt(g, where) == Free(g) /\ pc[g] = where
Go(g, where) == pc' = [pc EXCEPT ![g] = where]

\* while (size() == 0) { while (size() < 6) {} }
WaitLoop(g, outer, inner, after) ==
  /\ \/ PlayerAt(g, outer) /\ Go(g, IF size = 0 THEN inner ELSE after)
     \/ PlayerAt(g, inner) /\ size >= Batch /\ Go(g, outer)
  /\ UNCHANGED <<list, came, is_keep_running, view, m_out_bytes, played, late>>

\* run() waits, and an ADPCM player waits again before every packet.
WaitFirst(g) == WaitLoop(g, "wait", "waitSix", "loop")
Refill(g) == WaitLoop(g, "refill", "refillSix", "check")

\* while (is_keep_running)
LoopForever(g) ==
  /\ PlayerAt(g, "loop") /\ Go(g, IF isAdpcm THEN "refill" ELSE "check")
  /\ UNCHANGED <<list, came, is_keep_running, view, m_out_bytes, played, late>>
Loop(g) ==
  /\ PlayerAt(g, "loop")
  /\ Go(g, IF ~is_keep_running THEN "ended" ELSE IF isAdpcm THEN "refill" ELSE "check")
  /\ UNCHANGED <<list, came, is_keep_running, view, m_out_bytes, played, late>>

\* isEmpty()
CheckNothing(g) ==
  /\ PlayerAt(g, "check") /\ Go(g, "peek")
  /\ UNCHANGED <<list, came, is_keep_running, view, m_out_bytes, played, late>>
Check(g) ==
  /\ PlayerAt(g, "check") /\ Go(g, IF size = 0 THEN "loop" ELSE "peek")
  /\ UNCHANGED <<list, came, is_keep_running, view, m_out_bytes, played, late>>

\* get(0) != null reads size and then the array: an empty list throws, and a
\* null head is dropped from the list by the ADPCM player only.
Peek(g) ==
  /\ PlayerAt(g, "peek") /\ Go(g, IF size = 0 THEN "dead" ELSE "look")
  /\ UNCHANGED <<list, came, is_keep_running, view, m_out_bytes, played, late>>
PeekKeepsNull(g) ==
  /\ PlayerAt(g, "look") /\ Go(g, IF First # Null THEN "take" ELSE "loop")
  /\ UNCHANGED <<list, came, is_keep_running, view, m_out_bytes, played, late>>
Look(g) ==
  /\ PlayerAt(g, "look")
  /\ Go(g, IF First # Null THEN "take" ELSE IF isAdpcm THEN "drop" ELSE "loop")
  /\ UNCHANGED <<list, came, is_keep_running, view, m_out_bytes, played, late>>

\* m_out_bytes = get(0), and its length: null throws too.
Take(g) ==
  /\ PlayerAt(g, "take") /\ Go(g, IF size = 0 THEN "dead" ELSE "read")
  /\ UNCHANGED <<list, came, is_keep_running, view, m_out_bytes, played, late>>
Read(g) ==
  /\ PlayerAt(g, "read")
  /\ IF First = Null
       THEN Go(g, "dead") /\ UNCHANGED m_out_bytes
       ELSE Go(g, "play") /\ m_out_bytes' = [m_out_bytes EXCEPT ![g] = First]
  /\ UNCHANGED <<list, came, is_keep_running, view, played, late>>

\* The packet goes to the AudioTrack or into the ring, however long that takes.
Play(g) ==
  /\ PlayerAt(g, "play") /\ Go(g, "drop")
  /\ played' = Append(played, m_out_bytes[g])
  /\ late' = IF is_keep_running THEN late ELSE [late EXCEPT ![g] = @ + 1]
  /\ UNCHANGED <<list, came, is_keep_running, view, m_out_bytes>>

\* remove(0); what it throws is caught, and the packet stays in the list.
DropUnlessOne(g) ==
  /\ PlayerAt(g, "drop") /\ Go(g, "loop")
  /\ IF size <= 1 THEN UNCHANGED list ELSE RemoveFirst(g)
  /\ UNCHANGED <<came, is_keep_running, view, m_out_bytes, played, late>>
Drop(g) ==
  /\ PlayerAt(g, "drop") /\ Go(g, "loop") /\ RemoveFirst(g)
  /\ UNCHANGED <<came, is_keep_running, view, m_out_bytes, played, late>>

PlayerStep(g) == \/ WaitFirst(g) \/ Refill(g) \/ Loop(g) \/ Check(g)
                 \/ Peek(g) \/ Look(g) \/ Take(g) \/ Read(g) \/ Play(g) \/ Drop(g)

InList(t) == Continue(t) /\ UNCHANGED <<came, is_keep_running, view, player>>

-----------------------------------------------------------------------------
\* Two threads inside the list, one of them adding.
Overlap == ~Free(Net) /\ \E t \in Threads \ {Net} : ~Free(t)

Remember == /\ raced' = IF Overlap' THEN raced \cup {came'} ELSE raced
            /\ torn' = (torn \/ (Overlap /\ At(Net, "grow"))')

\* No thread has thrown what nothing catches.
PlayersAlive == \A g \in Players : pc[g] # "dead"
Alive == PlayersAlive /\ ~At(Ui, "threw")

Next == /\ Alive
        /\ \/ Arrive \/ SwitchOff \/ StopCam \/ StartCam \/ ClearList
           \/ \E g \in Players : SwitchOn(g) \/ PlayerStep(g)
           \/ \E t \in Threads : InList(t)
        /\ UNCHANGED isAdpcm /\ Remember

Spec == Init /\ [][Next]_vars

\* Threads are scheduled; the user interface and the network may stop.
LiveSpec == /\ Spec
            /\ \A g \in Players : WF_vars(Alive /\ PlayerStep(g) /\ UNCHANGED isAdpcm /\ Remember)
            /\ \A t \in Threads : WF_vars(Alive /\ InList(t) /\ UNCHANGED isAdpcm /\ Remember)

-----------------------------------------------------------------------------
\* Correctness.

Places == {"new", "wait", "waitSix", "loop", "refill", "refillSix", "check",
           "peek", "look", "take", "read", "play", "drop", "ended", "dead"}

\* Who makes which call of the list: nobody but the network's thread adds,
\* nobody but the user interface's clears.
CallsOK == \A t \in Threads : /\ call[t].op \in Adds => t = Net
                              /\ call[t].op \in Removes => t \in Players
                              /\ call[t].op \in Clears => t = Ui

\* Type invariant: no call leaves the array it holds, though the array is
\* replaced under it, and a player that is about to play holds a packet.
TypeOK ==
  /\ ListTypeOK /\ CallsOK
  /\ came \in 0..MaxPackets /\ (~Free(Net) => came > 0)
  /\ is_keep_running \in BOOLEAN /\ isAdpcm \in BOOLEAN
  /\ isSound \in BOOLEAN /\ soundPlay \in Players \cup {NoPlayer}
  /\ toClear \in BOOLEAN /\ clears \in 0..MaxClears
  /\ pc \in [Players -> Places]
  /\ m_out_bytes \in [Players -> Item \cup {Null}]
  /\ \A g \in Players : /\ pc[g] = "play" => m_out_bytes[g] \in Item
                        /\ pc[g] \in {"look", "read"} => length > 0
  /\ played \in Seq(Item) /\ late \in [Players -> Nat]
  /\ raced \subseteq Item /\ torn \in BOOLEAN

\* Sound was switched on once at most.  A second player takes packets from the
\* same list, which the first one may still play and drop.
OnePlayer == \A g, h \in Players : g # h => pc[g] = "new" \/ pc[h] = "new"

PlayedInOrder == \A i, j \in DOMAIN played : i < j => played[i] < played[j]

\* Packets are played in the order in which they came, though the list has no
\* lock: a player's remove() and the network's add() that cut into each other
\* repeat and reorder none, unless the add() is one that grows the array (its
\* copy undoes the remove()), and neither does clearing the list under a
\* player, if no packet arrives meanwhile.
KeepsOrder == OnePlayer /\ (raced = {} \/ (clears = 0 /\ ~torn)) => PlayedInOrder

\* A packet is lost only by a clear(), by growing the array under a remove(),
\* or if its own add() overlapped a change of the list: short of those,
\* corruption never spreads to packets added in peace.
OnlyRacedPacketsAreLost ==
  OnePlayer /\ clears = 0 /\ ~torn =>
    \A p \in 1..came :
      \/ p \in raced \/ p \in Listed \/ \E i \in DOMAIN played : played[i] = p
      \/ call[Net].x = p

\* What is played is what came.
PlaysWhatCame == KeepsOrder /\ OnlyRacedPacketsAreLost

\* What a player finds in the list is only taken away by itself, unless the
\* user interface clears it: without that no get(0) throws, but for an ADPCM
\* player whose array is replaced by a copy that brings a dropped null back.
ThrowsOnlyWhenCleared == OnePlayer /\ clears = 0 /\ (isAdpcm => ~torn) => Alive

\* When sound is switched off each player plays at most the packet it is about
\* to play, even one that was still waiting for its first packets.
AtMostOneMore == \A g \in Players : late[g] <= 1

\* Types, the list's size and indices included, and players that stop in time.
PlaybackSafe == TypeOK /\ AtMostOneMore

\* A list of Batch packets does not stay so while sound is on: nulls that a
\* race left in it do not stop an ADPCM player.  (They do stop an AAC player,
\* which looks at a null head for ever.)
Drains == isAdpcm /\ size >= Batch ~> size < Batch \/ ~is_keep_running \/ ~Alive

\* SoundPlay:60 says the list is only parsed when it is not empty.
ParsesOnlyWhenNotEmpty == PlayersAlive
=============================================================================
