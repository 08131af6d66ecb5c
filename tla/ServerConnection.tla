-------------------------- MODULE ServerConnection --------------------------
(***************************************************************************)
(* How the client gets and keeps its connection to the server.  isAP()'s   *)
(* thread starts the service, connects to the main server (getSerIP), has  *)
(* the connection verified and asks for the agent's address; DoCmdThread   *)
(* connects to that agent, has it verified, starts the heartbeats and logs *)
(* in.  Meanwhile ReceiveThread reads from whatever socket it finds.  A    *)
(* lost connection is reported to the main thread, which stops all threads *)
(* and asks the user.  One attempt is modelled, up to that question: the   *)
(* next one has threads of its own (see CommandQueue).                     *)
(*                                                                         *)
(* Waiting is a step that may come at any time: a read with a timeout      *)
(* gives up, ReceiveThread looks again, the next heartbeat is due.  An     *)
(* exception that leaves run() ends the process (dead).                    *)
(***************************************************************************)
EXTENDS HeartBeat

CONSTANTS
  Patience,      \* looks at an unconnected socket before it is reported (15)
  Attempts,      \* connections to the main server before the user is asked (3)
  Limits         \* bounds to choose from
                 \*   faults: of the network, the servers and the phone; silent and
                 \*     end are the agent's, once heartbeats are sent
                 \*   races: whether ReceiveThread looks at a socket that is being connected
                 \*   beats: whether the HeartBeatThread gets to run
                 \*   leaves: whether the user leaves

Starter == "isAP"
Dispatcher == "DoCmdThread"
Receiver == "ReceiveThread"
Connectors == {Starter, Dispatcher}
Faults == {"silent", "end", "split", "refused", "background"}

ASSUME ConnectionAssumption ==
  /\ Threads = Connectors \cup {Receiver} /\ NoSocket \notin Sockets
  /\ \A a, b \in Sockets \cup {NoSocket} : \E s \in Sockets : s \notin {a, b}
  /\ MaxAsked \in Nat /\ MaxBacklog \in Nat
  /\ Patience \in Nat \ {0} /\ Attempts \in Nat \ {0} /\ MaxCount \in Nat /\ MaxCount > 1
  /\ Limits \subseteq [faults : SUBSET Faults, races : BOOLEAN, beats : BOOLEAN, leaves : BOOLEAN]

VARIABLES
  stop,                 \* AppServer.stop
  conn, timeOutTimes,   \* where each connecting thread is, to which server; failures
  requests,             \* sendCmd() and senActionCmd() threads that have not sent yet
  receiver, timed, j,   \* ReceiveThread: where, can its read give up, its j
  cmdMaps,              \* addresses of the agent in DoCmdThread.cmdMaps
  asking, reports,      \* the user is asked to retry; a message 1 to DialogFactory
  left,                 \* the user has left
  logins,               \* history: the servers a login was sent to, and whether they knew us
  collided,             \* history: ReceiveThread read from a socket that was being verified,
                        \* or the answer to a verification was read in part
  dead, limit           \* what ended the process; the bounds

connecting == <<conn, timeOutTimes, requests>>
receiving == <<receiver, timed, j, cmdMaps>>
main == <<stop, left>>
history == <<logins, collided>>
vars == <<sockets, beating, connecting, receiving, main, asking, reports, history, dead, limit>>

Alive == dead = "none"

Init ==
  /\ SocketInit /\ BeatInit
  /\ conn = [c \in Connectors |-> [pc |-> IF c = Starter THEN "service" ELSE "none", peer |-> "main"]]
  /\ timeOutTimes = 0 /\ requests = {}
  /\ receiver = "none" /\ timed = FALSE /\ j = 0 /\ cmdMaps = 0
  /\ stop = TRUE /\ left = FALSE /\ asking = FALSE /\ reports = FALSE
  /\ logins = {} /\ collided = FALSE /\ dead = "none" /\ limit \in Limits

-----------------------------------------------------------------------------
\* isAP()'s thread and DoCmdThread: changeSocket().

At(c, pc) == conn[c].pc = pc
Go(c, pc) == conn' = [conn EXCEPT ![c].pc = pc]
GoTo(c, pc, peer) == conn' = [conn EXCEPT ![c] = [pc |-> pc, peer |-> peer]]
Idle(c) == IF c = Starter THEN "ended" ELSE "idle"

\* connectSeve(): the service starts ReceiveThread, and getSerIP().
StartService ==
  /\ At(Starter, "service") /\ Go(Starter, "close") /\ receiver' = "begin"
  /\ UNCHANGED <<sockets, beating, timeOutTimes, requests, timed, j, cmdMaps, main, asking, reports, history, dead>>

Close(c) ==
  /\ At(c, "close") /\ Go(c, "get") /\ CloseMain
  /\ UNCHANGED <<beating, timeOutTimes, requests, receiving, main, asking, reports, history, dead>>
\* getInstance(): the field is null; then it makes a socket.
Get(c) ==
  /\ At(c, "get")
  /\ IF mMainSocket = NoSocket THEN Go(c, "make") /\ UNCHANGED held
     ELSE Go(c, "connect") /\ Hold(c, mMainSocket)
  /\ UNCHANGED <<mMainSocket, sock, up, beating, timeOutTimes, requests, receiving, main, asking, reports, history, dead>>
MakeSocket(c) ==
  /\ At(c, "make") /\ Go(c, "connect") /\ Make /\ Hold(c, Fresh)
  /\ UNCHANGED <<up, beating, timeOutTimes, requests, receiving, main, asking, reports, history, dead>>

\* An IOException: getSerIP() tries again, up to three times; DoCmdThread asks the
\* user, or begins with the main server if the app is in the background.
Failed(c) ==
  /\ Hold(c, NoSocket)
  /\ IF conn[c].peer = "agent"
       THEN \/ Go(c, "idle") /\ asking' = TRUE /\ UNCHANGED timeOutTimes
            \/ "background" \in limit.faults /\ GoTo(c, "close", "main") /\ UNCHANGED <<asking, timeOutTimes>>
       ELSE IF timeOutTimes + 1 >= Attempts
         THEN timeOutTimes' = 0 /\ Go(c, Idle(c)) /\ asking' = TRUE
         ELSE timeOutTimes' = timeOutTimes + 1 /\ Go(c, "close") /\ UNCHANGED asking

\* connect(), which throws on a socket that was connected or closed.
Connect(c) == LET s == held[c] IN
  /\ At(c, "connect")
  /\ \/ /\ sock[s].st = "new" /\ Go(c, "verify")
        /\ sock' = [sock EXCEPT ![s].st = "open", ![s].peer = conn[c].peer]
        /\ UNCHANGED <<held, timeOutTimes, asking>>
     \/ /\ sock[s].st # "new" \/ "refused" \in limit.faults
        /\ Failed(c) /\ UNCHANGED sock
  /\ UNCHANGED <<mMainSocket, up, beating, requests, receiving, main, reports, history, dead>>
\* sendVerifyData(getInstance()): it writes ...
Verify(c) ==
  /\ At(c, "verify")
  /\ IF Connected(mMainSocket)
       THEN /\ Send("verify") /\ Hold(c, mMainSocket) /\ Go(c, "answer")
            /\ UNCHANGED <<timeOutTimes, asking>>
       ELSE GetInstance /\ Failed(c)
  /\ UNCHANGED <<up, beating, requests, receiving, main, reports, history, dead>>
\* ... and reads once, up to eight bytes.  An answer that is not the one expected
\* sends DoCmdThread back to the main server, and ends isAP()'s thread.
ReadAnswer(c) == LET s == held[c] IN
  /\ At(c, "answer")
  /\ \/ /\ Broken(s) \/ (sock[s].timed /\ Pieces(s) = <<>>)
        /\ Failed(c) /\ UNCHANGED <<sock, collided>>
     \/ /\ ~Broken(s) /\ (Pieces(s) # <<>> \/ AtEnd(s))
        /\ Hold(c, NoSocket) /\ sock' = [sock EXCEPT ![s].in = Rest(s, 2)]
        /\ IF SubSeq(Pieces(s), 1, IF Len(Pieces(s)) > 1 THEN 2 ELSE 0) = <<"type", "zero">> THEN Go(c, "verified")
           ELSE IF conn[c].peer = "agent" THEN GoTo(c, "close", "main")
           ELSE Go(c, Idle(c))
        /\ collided' = (collided \/ Len(Pieces(s)) = 1)
        /\ UNCHANGED <<timeOutTimes, asking>>
  /\ UNCHANGED <<mMainSocket, up, beating, requests, receiving, main, reports, logins, dead>>
\* The main server is asked for the agent's address; the agent gets heartbeats
\* and a login.
Proceed(c) ==
  /\ At(c, "verified") /\ Go(c, Idle(c))
  /\ IF conn[c].peer = "main"
       THEN requests' = requests \cup {"agent"} /\ UNCHANGED beating
       ELSE requests' = requests \cup {"login"} /\ StartBeating
  /\ UNCHANGED <<sockets, timeOutTimes, receiving, main, asking, reports, history, dead>>
\* A request's own thread, through whatever socket the field holds by then.
SendRequest(r) ==
  /\ r \in requests /\ requests' = requests \ {r} /\ Send(r)
  /\ logins' = IF r = "login" /\ Connected(mMainSocket)
                 THEN logins \cup {[peer |-> sock[mMainSocket].peer, known |-> sock[mMainSocket].known]}
                 ELSE logins
  /\ UNCHANGED <<held, up, beating, conn, timeOutTimes, receiving, main, asking, reports, collided, dead>>

\* DoCmdThread.run()
TakeAddress ==
  /\ At(Dispatcher, "idle") /\ ~stop /\ cmdMaps > 0
  /\ cmdMaps' = cmdMaps - 1 /\ GoTo(Dispatcher, "close", "agent")
  /\ UNCHANGED <<sockets, beating, timeOutTimes, requests, receiver, timed, j, main, asking, reports, history, dead>>
EndDispatcher ==
  /\ At(Dispatcher, "idle") /\ stop /\ Go(Dispatcher, "ended")
  /\ UNCHANGED <<sockets, beating, timeOutTimes, requests, receiving, main, asking, reports, history, dead>>

ConnectorStep(c) == \/ Close(c) \/ Get(c) \/ MakeSocket(c) \/ Connect(c)
                    \/ Verify(c) \/ ReadAnswer(c) \/ Proceed(c)

-----------------------------------------------------------------------------
\* ReceiveThread.run()

Begin ==
  /\ receiver = "begin" /\ receiver' = "loop" /\ stop' = FALSE
  /\ Go(Dispatcher, "idle")
  /\ UNCHANGED <<sockets, beating, timeOutTimes, requests, timed, j, cmdMaps, left, asking, reports, history, dead>>
Loop ==
  /\ receiver = "loop" /\ receiver' = IF stop THEN "ended" ELSE "look"
  /\ UNCHANGED <<sockets, beating, connecting, timed, j, cmdMaps, main, asking, reports, history, dead>>

\* Not connected: counted, reported from the fifteenth time on, then a second's sleep.
NotConnected ==
  /\ receiver' = "loop" /\ j' = IF j < Patience THEN j + 1 ELSE j
  /\ reports' = (reports \/ j' >= Patience)
Settled == \A c \in Connectors : conn[c].pc \in {"none", "idle", "ended"}
Look ==
  /\ receiver = "look" /\ (limit.races \/ Settled)
  /\ IF mMainSocket = NoSocket
       THEN receiver' = "make" /\ UNCHANGED <<j, reports, mMainSocket, sock>>
       ELSE /\ GetInstance
            /\ IF Connected(mMainSocket) THEN receiver' = "stream" /\ UNCHANGED <<j, reports>>
               ELSE NotConnected
  /\ UNCHANGED <<held, up, beating, connecting, timed, cmdMaps, main, asking, history, dead>>
LookMakes ==
  /\ receiver = "make" /\ Make /\ NotConnected
  /\ UNCHANGED <<held, up, beating, connecting, timed, cmdMaps, main, asking, history, dead>>
\* getInputStream() of what the field holds now throws if that is not connected;
\* getInetAddress() of what it holds then is null, and that exception is not caught.
Stream ==
  /\ receiver = "stream" /\ GetInstance
  /\ IF Connected(mMainSocket) THEN receiver' = "address" /\ Hold(Receiver, mMainSocket)
     ELSE receiver' = "loop" /\ UNCHANGED held
  /\ UNCHANGED <<up, beating, connecting, timed, j, cmdMaps, main, asking, reports, history, dead>>
Address ==
  /\ receiver = "address" /\ GetInstance
  /\ IF Connected(mMainSocket)
       THEN receiver' = "read" /\ timed' = sock[held[Receiver]].timed /\ UNCHANGED dead
       ELSE dead' = "address" /\ UNCHANGED <<receiver, timed>>
  /\ UNCHANGED <<held, up, beating, connecting, j, cmdMaps, main, asking, reports, history>>

Back == receiver' = "loop" /\ Hold(Receiver, NoSocket)
Take(s) == sock' = [sock EXCEPT ![s].in = Rest(s, 1)]
Has(s) == Pieces(s) # <<>> /\ ~Broken(s)
Over(s) == Broken(s) \/ AtEnd(s)
Late(s) == ~Over(s) /\ Pieces(s) = <<>>

\* What a length leads to; what is none is taken for one all the same.
AfterLength(piece) == CASE piece = "one" -> "byte" [] piece = "len" -> "body"
                        [] piece = "zero" -> "empty" [] OTHER -> "swallow"
ReadLengthUntimed == LET s == held[Receiver] IN
  /\ receiver = "read" /\ Has(s) /\ Take(s)
  /\ receiver' = AfterLength(Head(Pieces(s)))
  /\ IF Head(Pieces(s)) = "one" THEN ResetCount ELSE UNCHANGED beating
  /\ collided' = (collided \/ \E c \in Connectors : conn[c].pc = "answer" /\ held[c] = s)
  /\ UNCHANGED <<mMainSocket, held, up, connecting, timed, j, cmdMaps, main, asking, reports, logins, dead>>
\* read(temp, 0, 4), then setSoTimeout(); 1 is the answer to a heartbeat.
ReadLength == LET s == held[Receiver] IN
  /\ receiver = "read" /\ Has(s)
  /\ sock' = [sock EXCEPT ![s].in = Rest(s, 1), ![s].timed = TRUE]
  /\ receiver' = AfterLength(Head(Pieces(s)))
  /\ IF Head(Pieces(s)) = "one" THEN ResetCount ELSE UNCHANGED beating
  /\ collided' = (collided \/ \E c \in Connectors : conn[c].pc = "answer" /\ held[c] = s)
  /\ UNCHANGED <<mMainSocket, held, up, connecting, timed, j, cmdMaps, main, asking, reports, logins, dead>>
\* No length: a closed socket, the end of the stream (0, and an empty message),
\* or a timeout, which is reported.
NoLength == LET s == held[Receiver] IN
  /\ receiver = "read" /\ Back
  /\ \/ Over(s) /\ UNCHANGED reports
     \/ Late(s) /\ timed /\ reports' = TRUE
  /\ UNCHANGED <<mMainSocket, sock, up, beating, connecting, timed, j, cmdMaps, main, asking, history, dead>>
ReadNoByte ==
  /\ receiver = "byte" /\ Back
  /\ UNCHANGED <<mMainSocket, sock, up, beating, connecting, timed, j, cmdMaps, main, asking, reports, history, dead>>
\* The byte of a heartbeat's answer: a timeout is reported here too.
ReadByte == LET s == held[Receiver] IN
  /\ receiver = "byte" /\ Back
  /\ \/ Has(s) /\ Take(s) /\ UNCHANGED reports
     \/ Over(s) /\ UNCHANGED <<sock, reports>>
     \/ Late(s) /\ sock[s].timed /\ reports' = TRUE /\ UNCHANGED sock
  /\ UNCHANGED <<mMainSocket, up, beating, connecting, timed, j, cmdMaps, main, asking, history, dead>>
\* receiveDataParse(): a timeout is caught as an IOException and not reported.
Stuck(s) == Over(s) \/ (Late(s) /\ sock[s].timed)
ReadBody == LET s == held[Receiver] IN
  /\ receiver = "body" /\ Back
  /\ \/ /\ Has(s) /\ Take(s)
        /\ cmdMaps' = cmdMaps + (IF Head(Pieces(s)) = "address" THEN 1 ELSE 0)
     \/ Stuck(s) /\ UNCHANGED <<sock, cmdMaps>>
  /\ UNCHANGED <<mMainSocket, up, beating, connecting, timed, j, main, asking, reports, history, dead>>
\* The same with length 0, the second word of an answer that came in parts (a byte
\* would not fit the array of none; but nothing more comes, as the verification failed).
ReadEmpty == LET s == held[Receiver] IN
  /\ receiver = "empty" /\ Stuck(s) /\ Back
  /\ UNCHANGED <<mMainSocket, sock, up, beating, connecting, timed, j, cmdMaps, main, asking, reports, history, dead>>
\* The same with length 1002: whatever comes is part of it.
Swallow == LET s == held[Receiver] IN
  /\ receiver = "swallow"
  /\ \/ Has(s) /\ Take(s) /\ UNCHANGED <<receiver, held>>
     \/ Stuck(s) /\ Back /\ UNCHANGED sock
  /\ UNCHANGED <<mMainSocket, up, beating, connecting, timed, j, cmdMaps, main, asking, reports, history, dead>>

ReceiverStep == \/ Begin \/ Loop \/ Look \/ LookMakes \/ Stream \/ Address
                \/ ReadLength \/ NoLength \/ ReadByte \/ ReadBody \/ ReadEmpty \/ Swallow

-----------------------------------------------------------------------------
\* HeartBeatThread and the main thread

BeatStep ==
  /\ limit.beats
  /\ \/ Beat(stop) /\ UNCHANGED reports
     \/ TestCount /\ reports' = (reports \/ Missing)
     \/ PutCount /\ UNCHANGED reports
  /\ UNCHANGED <<connecting, receiving, main, asking, history, dead>>

\* DialogFactory's message 1: everything stops, the user is asked.
HandleReport ==
  /\ reports /\ reports' = FALSE /\ stop' = TRUE /\ asking' = TRUE
  /\ UNCHANGED <<sockets, beating, connecting, receiving, left, history, dead>>
\* The home key.
HomeKey ==
  /\ limit.leaves /\ ~left /\ left' = TRUE /\ stop' = TRUE /\ ResetCount /\ CloseMain
  /\ UNCHANGED <<connecting, receiving, asking, reports, history, dead>>

-----------------------------------------------------------------------------
ServerStep ==
  /\ \/ \E s \in Sockets : Answer(s, "split" \in limit.faults)
     \/ "silent" \in limit.faults /\ beater # "none" /\ FallSilent
     \/ "end" \in limit.faults /\ beater # "none" /\ \E s \in Sockets : EndStream(s)
  /\ UNCHANGED <<beating, connecting, receiving, main, asking, reports, history, dead>>

Next ==
  /\ Alive /\ UNCHANGED limit
  /\ \/ StartService \/ TakeAddress \/ EndDispatcher \/ ReceiverStep \/ BeatStep
     \/ \E c \in Connectors : ConnectorStep(c)
     \/ \E r \in requests : SendRequest(r)
     \/ HandleReport \/ HomeKey \/ ServerStep

Spec == Init /\ [][Next]_vars

\* Threads are scheduled, and a server that is up answers.
Run(A) == Alive /\ A /\ UNCHANGED limit
Fairness ==
  /\ WF_vars(Run(StartService \/ ConnectorStep(Starter)))
  /\ WF_vars(Run(TakeAddress \/ EndDispatcher \/ ConnectorStep(Dispatcher)))
  /\ WF_vars(Run(ReceiverStep)) /\ WF_vars(Run(BeatStep)) /\ WF_vars(Run(HandleReport))
  /\ WF_vars(Run(\E r \in requests : SendRequest(r)))
  /\ WF_vars(Run(/\ \E s \in Sockets : Answer(s, FALSE)
                 /\ UNCHANGED <<beating, connecting, receiving, main, asking, reports, history, dead>>))
LiveSpec == Spec /\ Fairness

-----------------------------------------------------------------------------
TypeOK ==
  /\ SocketTypeOK /\ BeatTypeOK
  /\ conn \in [Connectors -> [pc : {"none", "service", "close", "get", "make", "connect", "verify",
                                    "answer", "verified", "idle", "ended"}, peer : {"main", "agent"}]]
  /\ timeOutTimes \in 0..Attempts - 1 /\ requests \subseteq {"agent", "login"}
  /\ receiver \in {"none", "begin", "loop", "look", "make", "stream", "address", "read",
                   "byte", "body", "empty", "swallow", "ended"}
  /\ j \in 0..Patience /\ cmdMaps \in Nat
  /\ {stop, left, asking, reports, timed, collided} \subseteq BOOLEAN
  /\ dead \in {"none", "address"} /\ limit \in Limits

\* ReceiveThread stays in step with the stream, from connection to connection and
\* through heartbeats: it takes something else for a length only after it read from
\* a socket that was being verified, or after an answer that came in parts.
InStep == receiver \in {"empty", "swallow"} => collided

\* A login goes to an agent that has verified this client, and to no other server.
LoginOnlyVerified == logins \subseteq {[peer |-> "agent", known |-> TRUE]}

\* Types, a receiver in step, and logins to verified agents.
ConnectionSafe == TypeOK /\ InStep /\ LoginOnlyVerified

\* The heartbeat reports a connection only if two heartbeats are unanswered, unless
\* an answer came while the count was being raised.
MissedTwice == [][(beater = "test" /\ beater' = "put" /\ Missing) => unanswered >= 2 \/ unreset]_vars

\* Once heartbeats are sent, a server that falls silent or closes the connection is
\* noticed, though ReceiveThread takes the end of the stream for empty messages.
Unserved == ~up \/ (mMainSocket # NoSocket /\ sock[mMainSocket].st = "ended")
SilenceNoticed == (beater = "loop" /\ Unserved) ~> (stop \/ ~Alive)

\* An attempt to connect ends if those servers that can be reached answer: with a
\* login, a question to the user, or the user's leaving, however the answers to
\* verifications are stolen or split, unless that goes on for ever.
Disturbed == receiver = "swallow" \/ \E s \in Sockets : sock[s].asked # <<>> /\ Head(sock[s].asked) = "rest"
Ended == logins # {} \/ asking \/ left \/ ~Alive
AttemptEnds == limit.faults \subseteq {"refused", "split"} => <>Ended \/ []<>Disturbed

\* When the user leaves, the threads end.
LeavingEndsThreads == left ~> receiver = "ended" \/ ~Alive \/ ~stop
=============================================================================
