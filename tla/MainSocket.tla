----------------------------- MODULE MainSocket -----------------------------
(***************************************************************************)
(* The control connection: MainSocket keeps one socket in a static field   *)
(* that every thread fetches with getInstance() and that closeMain()       *)
(* forgets.  Nothing locks the field.                                      *)
(*                                                                         *)
(* What a server sends is a sequence of pieces: the two words of the       *)
(* answer to a verification ("type" is 1002, "zero" is 0), the word "one"  *)
(* and the byte that answer a heartbeat, and messages, a length "len" and  *)
(* a body.  The servers are external: the main server, which knows the     *)
(* agent's address, and the agent.  Both answer requests in the order in   *)
(* which they come, and none before the connection is verified.            *)
(***************************************************************************)
EXTENDS Naturals, Sequences, Functions

CONSTANTS
  Sockets,      \* as many as can be in use at a time
  NoSocket,     \* null
  Threads,      \* that hold a socket in a local variable
  MaxAsked,     \* bound: requests on their way to a server (more are lost)
  MaxBacklog    \* bound: pieces on their way from it

VARIABLES
  mMainSocket,  \* the static field
  sock,         \* each socket: its state, its server, what comes in and what was asked,
                \* whether a read gives up some time (setSoTimeout)
  held,         \* the socket each thread holds
  up            \* whether servers answer still

sockets == <<mMainSocket, sock, held, up>>

NewSocket == [st |-> "new", peer |-> "main", in |-> <<>>, asked |-> <<>>, timed |-> FALSE, known |-> FALSE]
Closed == [NewSocket EXCEPT !.st = "closed"]

SocketInit ==
  /\ mMainSocket = NoSocket /\ held = [t \in Threads |-> NoSocket]
  /\ sock = [s \in Sockets |-> Closed] /\ up = TRUE

\* connect() was successful: isConnected() stays true when the server closes.
Connected(s) == s # NoSocket /\ sock[s].st \in {"open", "ended"}
InUse == {mMainSocket} \cup Range(held)
Fresh == CHOOSE s \in Sockets : s \notin InUse

\* new MainSocket(), into the field.
Make == mMainSocket' = Fresh /\ sock' = [sock EXCEPT ![Fresh] = NewSocket]
\* getInstance(), by threads that do not run into each other here.
GetInstance == IF mMainSocket = NoSocket THEN Make ELSE UNCHANGED <<mMainSocket, sock>>
Hold(t, s) == held' = [held EXCEPT ![t] = s]

ForgetOnly ==
  /\ mMainSocket' = NoSocket /\ UNCHANGED <<sock, held, up>>
CloseMain ==
  /\ mMainSocket' = NoSocket
  /\ sock' = IF mMainSocket = NoSocket THEN sock ELSE [sock EXCEPT ![mMainSocket] = Closed]
  /\ UNCHANGED <<held, up>>

\* A request through the socket in the field, which must be connected; all but a
\* heartbeat set its timeout.
Asked(s, request) ==
  [sock[s] EXCEPT !.asked = IF sock[s].st = "open" /\ Len(@) < MaxAsked THEN Append(@, request) ELSE @,
                  !.timed = @ \/ request \notin {"beat", "verify"}]
Send(request) == IF mMainSocket = NoSocket THEN Make
                 ELSE sock' = [sock EXCEPT ![mMainSocket] = Asked(mMainSocket, request)] /\ UNCHANGED mMainSocket

\* Reading: the pieces there are, the end of the stream, a socket closed here.
Pieces(s) == sock[s].in
AtEnd(s) == sock[s].st = "ended" /\ Pieces(s) = <<>>
Broken(s) == sock[s].st = "closed"
Rest(s, n) == SubSeq(Pieces(s), n + 1, Len(Pieces(s)))

-----------------------------------------------------------------------------
\* The servers (external).

Reply(s, request) ==
  IF request = "verify" THEN <<"type", "zero">>
  ELSE IF ~sock[s].known THEN <<>>
  ELSE IF sock[s].peer = "main"
    THEN IF request = "agent" THEN <<"len", "address">> ELSE <<>>
    ELSE IF request = "beat" THEN <<"one", "byte">>
    ELSE IF request = "login" THEN <<"len", "other">> ELSE <<>>

\* The answer may come in two parts, if splits.
Answer(s, splits) ==
  /\ up /\ s \in InUse /\ sock[s].st = "open" /\ sock[s].asked # <<>>
  /\ LET request == Head(sock[s].asked)
         reply == Reply(s, request)
         later == Tail(sock[s].asked)
     IN \E n \in {Len(reply)} \cup {m \in {1} : splits /\ Len(reply) = 2 /\ request = "verify"} :
          /\ Len(Pieces(s)) + n <= MaxBacklog
          /\ sock' = [sock EXCEPT ![s].in = @ \o (IF request = "rest" THEN <<"zero">> ELSE SubSeq(reply, 1, n)),
                                  ![s].asked = IF n < Len(reply) THEN <<"rest">> \o later ELSE later,
                                  ![s].known = @ \/ request = "verify"]
  /\ UNCHANGED <<mMainSocket, held, up>>
EndStream(s) ==
  /\ s \in InUse /\ sock[s].st = "open"
  /\ sock' = [sock EXCEPT ![s].st = "ended", ![s].asked = <<>>]
  /\ UNCHANGED <<mMainSocket, held, up>>
FallSilent == up /\ up' = FALSE /\ UNCHANGED <<mMainSocket, sock, held>>

-----------------------------------------------------------------------------
SocketTypeOK ==
  /\ mMainSocket \in Sockets \cup {NoSocket} /\ held \in [Threads -> Sockets \cup {NoSocket}]
  /\ up \in BOOLEAN
  /\ sock \in [Sockets ->
       [st : {"new", "open", "ended", "closed"}, peer : {"main", "agent"},
        in : Seq({"type", "zero", "one", "byte", "len", "address", "other"}),
        asked : Seq({"verify", "rest", "agent", "beat", "login"}),
        timed : BOOLEAN, known : BOOLEAN]]
  /\ \A s \in Sockets : Len(sock[s].in) <= MaxBacklog + 1 /\ Len(sock[s].asked) <= MaxAsked + 1
=============================================================================
