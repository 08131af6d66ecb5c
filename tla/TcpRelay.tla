------------------------------ MODULE TcpRelay ------------------------------
(***************************************************************************)
(* Video over a second TCP connection.  TcpSocket keeps one socket in a    *)
(* static field, which connect()'s threads, the threads that send voice    *)
(* and the main thread fetch with getInstance(), each in its own time, and *)
(* which stopTcpSocket() closes and forgets.  Nothing locks the field.     *)
(*                                                                         *)
(* A relay is the number of its connect().  What the server sends is       *)
(* messages of two parts of a length and two of a body, and pos says how   *)
(* many parts of the current message have been read; the connection may    *)
(* end anywhere.  Bytes that are read where no length is are any length.   *)
(***************************************************************************)
EXTENDS Naturals, FiniteSets, Functions

CONSTANTS
  Relays,       \* calls of connect()
  Voice,        \* the thread that sends a packet of voice
  Screen,       \* the main thread
  TcpSockets,   \* more than can be in use at a time
  NoTcp         \* null

ASSUME RelayAssumption == /\ Relays \subseteq Nat \ {0} /\ IsFiniteSet(Relays)
                          /\ Voice \notin Relays /\ Screen \notin Relays \cup {Voice}
\* The field, each caller and each relay holds one socket: another can be made.
ASSUME SocketsSuffice == /\ NoTcp \notin TcpSockets /\ IsFiniteSet(TcpSockets)
                         /\ Cardinality(TcpSockets) > 2 * Cardinality(Relays) + 3

Callers == Relays \cup {Voice, Screen}

VARIABLES
  instance,     \* the static field
  tcp,          \* each socket: its state, isTcpRecive, parts read of the current message;
                \* history: the relay that connected it, whether its stream was cut
  getting,      \* of each thread: where it is in getInstance()
  using,        \* the socket it has got
  outer,        \* of each relay: the socket whose connect() was called
  rp,           \* where its thread is
  need, whole,  \* parts of the body to read; relays that read a message from its start
  dead,         \* an exception that no thread catches has ended the process
  late, crossed, doubled   \* history: relays begun, or not yet connected, at the last
                \* stop; the field was cleared, or set, between two accesses of getInstance()

streams == <<rp, need, whole>>
marks == <<late, crossed, doubled>>
relay == <<instance, tcp, getting, using, outer, streams, dead, marks>>

NewTcp == [st |-> "new", isTcpRecive |-> TRUE, pos |-> 0, by |-> 0, cut |-> FALSE]
Over(s, st) == [NewTcp EXCEPT !.st = st, !.isTcpRecive = tcp[s].isTcpRecive]

RelayInit ==
  /\ instance = NoTcp /\ tcp = [s \in TcpSockets |-> [NewTcp EXCEPT !.st = "closed"]]
  /\ getting = [x \in Callers |-> "no"] /\ using = [x \in Callers |-> NoTcp]
  /\ outer = [r \in Relays |-> NoTcp] /\ rp = [r \in Relays |-> "none"]
  /\ need = [r \in Relays |-> 0] /\ whole = {}
  /\ dead = FALSE /\ late = {} /\ crossed = FALSE /\ doubled = FALSE

Gets(x) == getting' = [getting EXCEPT ![x] = "check"]
Has(x, here) == here /\ getting[x] = "no"

-----------------------------------------------------------------------------
\* getInstance(), of thread x: if (instance == null)
CheckInstance(x) ==
  /\ getting[x] = "check" /\ getting' = [getting EXCEPT ![x] = IF instance = NoTcp THEN "make" ELSE "return"]
  /\ UNCHANGED <<instance, tcp, using, outer, streams, dead, marks>>
\* instance = new TcpSocket();
Unused == CHOOSE s \in TcpSockets : s \notin {instance} \cup Range(using) \cup Range(outer)
MakeInstance(x) ==
  /\ getting[x] = "make" /\ getting' = [getting EXCEPT ![x] = "return"]
  /\ instance' = Unused /\ tcp' = [tcp EXCEPT ![Unused] = NewTcp]
  /\ doubled' = (doubled \/ instance # NoTcp)
  /\ UNCHANGED <<using, outer, streams, dead, late, crossed>>
\* return instance: null if it was cleared since, and the caller throws.
ReturnInstance(x) ==
  /\ getting[x] = "return" /\ getting' = [getting EXCEPT ![x] = "no"]
  /\ using' = [using EXCEPT ![x] = instance] /\ dead' = (instance = NoTcp)
  /\ UNCHANGED <<instance, tcp, outer, streams, marks>>
InGetInstance(x) == CheckInstance(x) \/ MakeInstance(x) \/ ReturnInstance(x)

-----------------------------------------------------------------------------
\* The main thread: connect(),
StartRelay(r) ==
  /\ rp[r] = "none" /\ rp' = [rp EXCEPT ![r] = "connect"]
  /\ outer' = [outer EXCEPT ![r] = using[Screen]] /\ using' = [using EXCEPT ![Screen] = NoTcp]
  /\ Gets(r) /\ late' = late \cup {r}
  /\ UNCHANGED <<instance, tcp, need, whole, dead, crossed, doubled>>
StopKeepsReceiving ==
  /\ using' = [using EXCEPT ![Screen] = NoTcp]
  /\ UNCHANGED <<instance, tcp, getting, outer, streams, dead, marks>>
\* and stopTcpSocket(): isTcpRecive = false, close(), instance = null.
StopRelay ==
  /\ tcp' = [tcp EXCEPT ![using[Screen]].isTcpRecive = FALSE] /\ using' = [using EXCEPT ![Screen] = NoTcp]
  /\ UNCHANGED <<instance, getting, outer, streams, dead, marks>>
CloseNothing == UNCHANGED relay
CloseTcp ==
  /\ tcp' = IF instance = NoTcp THEN tcp ELSE [tcp EXCEPT ![instance] = Over(instance, "closed")]
  /\ UNCHANGED <<instance, getting, using, outer, streams, dead, marks>>
ForgetTcp ==
  /\ instance' = NoTcp /\ late' = {r \in Relays : rp[r] = "connect"}
  /\ crossed' = (crossed \/ \E x \in Callers : getting[x] = "return")
  /\ UNCHANGED <<tcp, getting, using, outer, streams, dead, doubled>>

\* A packet of voice, in a thread of its own.
Speak == /\ getting[Voice] = "no" /\ using[Voice] = NoTcp /\ Gets(Voice)
         /\ UNCHANGED <<instance, tcp, using, outer, streams, dead, marks>>
Spoken == /\ Has(Voice, using[Voice] # NoTcp) /\ using' = [using EXCEPT ![Voice] = NoTcp]
          /\ UNCHANGED <<instance, tcp, getting, outer, streams, dead, marks>>

-----------------------------------------------------------------------------
\* The thread of connect().
GoesTo(r, l) == rp' = [rp EXCEPT ![r] = l]
Ends(r) == /\ GoesTo(r, "done") /\ using' = [using EXCEPT ![r] = NoTcp] /\ outer' = [outer EXCEPT ![r] = NoTcp]
St(r) == tcp[using[r]].st

\* connect(): it throws if the socket is connected or closed, or nobody answers.
ConnectTcp(r) ==
  /\ Has(r, rp[r] = "connect")
  /\ \/ /\ St(r) = "new" /\ GoesTo(r, "hello") /\ Gets(r)
        /\ tcp' = [tcp EXCEPT ![using[r]].st = "open", ![using[r]].by = r] /\ UNCHANGED <<using, outer>>
     \/ /\ tcp' = [tcp EXCEPT ![using[r]].st = IF @ = "new" THEN "closed" ELSE @]
        /\ Ends(r) /\ UNCHANGED getting
  /\ UNCHANGED <<instance, need, whole, dead, marks>>
SayHello(r) ==
  /\ Has(r, rp[r] = "hello")
  /\ IF St(r) \in {"open", "ended"} THEN GoesTo(r, "loop") /\ UNCHANGED <<using, outer>> ELSE Ends(r)
  /\ UNCHANGED <<instance, tcp, getting, need, whole, dead, marks>>
\* while (isTcpRecive), of the socket whose connect() was called.
Receiving(r) ==
  /\ rp[r] = "loop"
  /\ IF tcp[outer[r]].isTcpRecive THEN GoesTo(r, "length") /\ Gets(r) /\ UNCHANGED <<using, outer>>
     ELSE Ends(r) /\ UNCHANGED getting
  /\ UNCHANGED <<instance, tcp, need, whole, dead, marks>>

\* Relay r reads n parts; another one in its body does not get them.
Others(r) == {y \in Relays \ {r} : rp[y] = "body" /\ using[y] = using[r]}
TakesParts(r, n, cuts) ==
  tcp' = [tcp EXCEPT ![using[r]].pos = (@ + n) % 4, ![using[r]].cut = @ \/ cuts \/ Others(r) # {}]
GoesRound(r) == GoesTo(r, "loop") /\ using' = [using EXCEPT ![r] = NoTcp]
\* One read() for the length may return a part of it.
ReadRelayLength(r) ==
  /\ Has(r, rp[r] = "length")
  /\ \/ St(r) # "open" /\ GoesRound(r) /\ UNCHANGED <<tcp, need, whole>>
     \/ /\ St(r) = "open"
        /\ \E n \in 1..2 :
             LET starts == tcp[using[r]].pos = 0 /\ n = 2 IN
             /\ TakesParts(r, n, n = 1)
             /\ whole' = (whole \ Others(r)) \cup {y \in {r} : starts}
             /\ \/ /\ \E l \in IF starts THEN {2} ELSE 1..2 : need' = [need EXCEPT ![r] = l]
                   /\ GoesTo(r, "body") /\ UNCHANGED using
                \/ ~starts /\ GoesRound(r) /\ UNCHANGED need
  /\ UNCHANGED <<instance, getting, outer, dead, marks>>
FirstReadOnly(r, n) == TRUE
\* read() until the body is there.  Then it is listed, or dropped; or it is no
\* message and too short to copy, and an exception ends the process.
UntilRead(r, n) == n = need[r]
ReadRelayBody(r) ==
  /\ rp[r] = "body"
  /\ \/ /\ St(r) # "open" /\ GoesRound(r) /\ need' = [need EXCEPT ![r] = 0]
        /\ whole' = whole \ {r} /\ UNCHANGED <<tcp, dead>>
     \/ /\ St(r) = "open"
        /\ \E n \in 1..need[r] :
             /\ TakesParts(r, n, FALSE)
             /\ IF UntilRead(r, n)
                  THEN /\ GoesRound(r) /\ need' = [need EXCEPT ![r] = 0]
                       /\ dead' \in IF r \in whole THEN {FALSE} ELSE BOOLEAN
                       /\ whole' = whole \ (Others(r) \cup {r})
                  ELSE /\ need' = [need EXCEPT ![r] = @ - n] /\ whole' = whole \ Others(r)
                       /\ UNCHANGED <<rp, using, dead>>
  /\ UNCHANGED <<instance, getting, outer, marks>>

RelayStep(r) == \/ InGetInstance(r) \/ ConnectTcp(r) \/ SayHello(r) \/ Receiving(r)
                \/ ReadRelayLength(r) \/ ReadRelayBody(r)
VoiceStep == InGetInstance(Voice) \/ Spoken
\* The server closes the connection.
RelayEnds == /\ \E s \in TcpSockets : tcp[s].st = "open" /\ tcp' = [tcp EXCEPT ![s] = Over(s, "ended")]
             /\ UNCHANGED <<instance, getting, using, outer, streams, dead, marks>>

-----------------------------------------------------------------------------
RelayTypeOK ==
  /\ instance \in TcpSockets \cup {NoTcp} /\ using \in [Callers -> TcpSockets \cup {NoTcp}]
  /\ tcp \in [TcpSockets -> [st : {"new", "open", "ended", "closed"}, isTcpRecive : BOOLEAN,
                             pos : 0..3, by : Relays \cup {0}, cut : BOOLEAN]]
  /\ getting \in [Callers -> {"no", "check", "make", "return"}]
  /\ outer \in [Relays -> TcpSockets \cup {NoTcp}]
  /\ rp \in [Relays -> {"none", "connect", "hello", "loop", "length", "body", "done"}]
  /\ need \in [Relays -> 0..2] /\ whole \subseteq Relays
  /\ {dead, crossed, doubled} \subseteq BOOLEAN /\ late \subseteq Relays
  /\ \A r \in Relays : Has(r, rp[r] \in {"connect", "hello", "length", "body"}) => dead \/ using[r] # NoTcp

\* A relay takes for a body only the body of a message, unless a length came in
\* parts or another relay's thread has read from the connection in between.
FramesInStep == \A r \in Relays :
  rp[r] = "body" /\ St(r) = "open" /\ r \notin whole => tcp[using[r]].cut

\* The process ends only when a stop clears the field while a thread is about to
\* return it, or when a connection is out of step.
DiesOnlyInCollisions == dead => crossed \/ \E s \in TcpSockets : tcp[s].cut
=============================================================================
