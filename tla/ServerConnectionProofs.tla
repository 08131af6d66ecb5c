----------------------- MODULE ServerConnectionProofs -----------------------
(***************************************************************************)
(* Proofs about ServerConnection for every set of sockets, every bound on  *)
(* requests, pieces and failures, and all combinations of faults: the      *)
(* heartbeat's count, then what ConnectionIsSafe needs.  One thing at a    *)
(* time is on its way (Base), so the socket in the field is the one the    *)
(* connecting thread works with (ConnInv), and what comes in on a socket   *)
(* fits the places of the threads that read from it (StreamInv).           *)
(***************************************************************************)
EXTENDS ServerConnection, SequenceTheorems, TLAPS

-----------------------------------------------------------------------------
\* The heartbeat.  The count is at most one above the heartbeats that are
\* unanswered, and not above them between a heartbeat and the raising of the
\* count, unless an answer came in between.

BeatInv ==
  /\ BeatTypeOK
  /\ ~unreset => /\ heartCount <= unanswered + 1
                 /\ beater = "test" => heartCount <= unanswered
                 /\ beater = "put" => counted <= unanswered

LEMMA InitBeating == Init => BeatInv
<1> SUFFICES ASSUME Init PROVE BeatInv
  OBVIOUS
<1>1. beater = "none" /\ counted = 0 /\ heartCount = 0 /\ unanswered = 0 /\ unreset = FALSE
  BY DEF Init, BeatInit
<1>2. {counted, heartCount, unanswered} \subseteq 0..MaxCount
  BY <1>1, ConnectionAssumption
<1>3. beater \in {"none", "loop", "test", "put", "ended"} /\ unreset \in BOOLEAN
  BY <1>1
<1>4. heartCount <= unanswered + 1 /\ heartCount <= unanswered /\ counted <= unanswered
  BY <1>1
<1> QED BY <1>2, <1>3, <1>4 DEF BeatInv, BeatTypeOK

\* What a step does to the heartbeat's state.
LEMMA NextBeating ==
  ASSUME [Next]_vars
  PROVE  UNCHANGED beating \/ ResetCount \/ StartBeating \/ BeatStep
<1>1. ASSUME NEW c \in Connectors, ConnectorStep(c)
      PROVE  UNCHANGED beating \/ StartBeating
  BY <1>1 DEF ConnectorStep, Close, Get, MakeSocket, Connect, Verify, ReadAnswer, Proceed
<1>2. CASE ReceiverStep
  BY <1>2 DEF ReceiverStep, Begin, Loop, Look, LookMakes, Stream, Address, ReadLength,
              NoLength, ReadByte, ReadBody, ReadEmpty, Swallow
<1>3. CASE StartService \/ TakeAddress \/ EndDispatcher \/ HandleReport \/ HomeKey \/ ServerStep
  BY <1>3 DEF StartService, TakeAddress, EndDispatcher, HandleReport, HomeKey, ServerStep
<1>4. ASSUME NEW r \in requests, SendRequest(r) PROVE UNCHANGED beating
  BY <1>4 DEF SendRequest
<1>5. CASE UNCHANGED vars
  BY <1>5 DEF vars
<1> QED BY <1>1, <1>2, <1>3, <1>4, <1>5 DEF Next

LEMMA StepBeating == BeatInv /\ [Next]_vars => BeatInv'
<1> SUFFICES ASSUME BeatInv, [Next]_vars PROVE BeatInv'
  OBVIOUS
<1> USE DEF BeatInv, BeatTypeOK
<1>0. /\ counted \in 0..MaxCount /\ heartCount \in 0..MaxCount /\ unanswered \in 0..MaxCount
      /\ MaxCount \in Nat
  BY ConnectionAssumption
<1>1. CASE UNCHANGED beating
  BY <1>1 DEF beating
<1>2. CASE ResetCount
  <2>1. /\ heartCount' = 0 /\ unanswered' = 0 /\ UNCHANGED <<beater, counted>>
        /\ unreset' \in BOOLEAN
    BY <1>2 DEF ResetCount
  <2>2. ~unreset' => beater # "put"
    BY <1>2 DEF ResetCount
  <2>3. {counted', heartCount', unanswered'} \subseteq 0..MaxCount
    BY <1>0, <2>1
  <2>4. heartCount' <= unanswered' + 1 /\ heartCount' <= unanswered'
    BY <2>1
  <2> QED BY <2>1, <2>2, <2>3, <2>4
<1>3. CASE StartBeating
  BY <1>3 DEF StartBeating
<1>4. CASE BeatStep
  <2>1. CASE Beat(stop)
    <3>1. /\ beater' = IF stop THEN "ended" ELSE "test"
          /\ beater = "loop" /\ UNCHANGED <<counted, heartCount, unreset>>
      BY <2>1 DEF Beat, BeatAt
    <3>2. CASE stop
      BY <1>0, <2>1, <3>1, <3>2 DEF Beat
    <3>3. CASE ~stop
      <4>1. unanswered' = More(unanswered) /\ beater' = "test"
        BY <2>1, <3>1, <3>3 DEF Beat
      <4>2. /\ unanswered' \in 0..MaxCount
            /\ heartCount <= unanswered + 1 => heartCount <= unanswered'
        <5> HIDE DEF BeatInv, BeatTypeOK
        <5> QED BY <1>0, <4>1 DEF More
      <4>3. {counted', heartCount', unanswered'} \subseteq 0..MaxCount
        BY <1>0, <3>1, <4>2
      <4>4. ~unreset' => heartCount' <= unanswered'
        BY <3>1, <4>2
      <4>5. heartCount' <= unanswered' => heartCount' <= unanswered' + 1
        <5>1. heartCount' = heartCount
          BY <3>1
        <5>2. heartCount \in Nat /\ unanswered' \in Nat
          BY <1>0, <4>2
        <5>3. \A a, b \in Nat : a <= b => a <= b + 1
          OBVIOUS
        <5> QED BY <5>1, <5>2, <5>3
      <4>6. beater' # "put" /\ unreset' \in BOOLEAN
        BY <3>1, <4>1
      <4> QED BY <4>1, <4>3, <4>4, <4>5, <4>6
    <3> QED BY <3>2, <3>3
  <2>2. CASE TestCount
    BY <2>2 DEF TestCount, BeatAt
  <2>3. CASE PutCount
    <3>1. /\ beater = "put" /\ beater' = "loop" /\ counted' = 0
          /\ UNCHANGED <<unanswered, unreset>> /\ heartCount' = More(counted)
      BY <2>3 DEF PutCount, BeatAt
    <3>2. heartCount' \in 0..MaxCount /\ (counted <= unanswered => heartCount' <= unanswered + 1)
      <4> HIDE DEF BeatInv, BeatTypeOK
      <4> QED BY <1>0, <3>1 DEF More
    <3>3. {counted', heartCount', unanswered'} \subseteq 0..MaxCount
      BY <1>0, <3>1, <3>2
    <3> QED BY <3>1, <3>2, <3>3
  <2> QED BY <1>4, <2>1, <2>2, <2>3 DEF BeatStep
<1> QED BY <1>1, <1>2, <1>3, <1>4, NextBeating

\* HeartBeatThread reports a connection only after two heartbeats that nobody
\* answered (HeartBeatThread.java's test of heartCount), unless ReceiveThread
\* reset the count while it was being raised.
THEOREM TwoBeatsMissed == Spec => MissedTwice
<1>1. BeatInv /\ [Next]_vars => [(beater = "test" /\ beater' = "put" /\ Missing) => unanswered >= 2 \/ unreset]_vars
  BY DEF BeatInv, BeatTypeOK, Missing
<1> QED BY <1>1, InitBeating, StepBeating, PTL DEF Spec, MissedTwice

-----------------------------------------------------------------------------
\* One thing at a time is on its way: a thread that connects, a request that has
\* not been sent, one a socket carries, an address that comes back, or an
\* address DoCmdThread has still to take.

Active(c) == conn[c].pc \notin {"none", "idle", "ended"}
AskedAt(s, i) == i \in 1..MaxAsked /\ i <= Len(sock[s].asked) /\ sock[s].asked[i] = "agent"
BroughtAt(s, i) == i \in 1..MaxBacklog + 1 /\ i <= Len(sock[s].in) /\ sock[s].in[i] = "address"
Connecting == {<<"conn", c, NoSocket, 0>> : c \in {d \in Connectors : Active(d)}}
Requested == {<<"request", r, NoSocket, 0>> : r \in requests}
Underway(s) == {<<"asked", "of", s, i>> : i \in {n \in 1..MaxAsked : AskedAt(s, n)}}
               \cup {<<"in", "of", s, i>> : i \in {n \in 1..MaxBacklog + 1 : BroughtAt(s, n)}}
Addresses == {<<"address", "of", NoSocket, n>> : n \in 1..cmdMaps}
Tasks == Connecting \cup Requested \cup Addresses \cup (UNION {Underway(s) : s \in Sockets})
OneTask == \A x, y \in Tasks : x = y

-----------------------------------------------------------------------------
\* A socket on its own.

Closes == {"byte", "address", "other", "zero"}   \* pieces that end something
Plain(k) ==
  /\ k.st # "open" => k.asked = <<>>
  /\ k.st \in {"new", "closed"} => ~k.known
  /\ ~k.known => k.in = <<>>
  /\ Len(k.asked) <= MaxAsked /\ Len(k.in) <= MaxBacklog + 1
  /\ \A i \in 1..Len(k.asked) : k.asked[i] = "rest" => i = 1 /\ k.known
  /\ \A i \in 1..Len(k.asked) : k.asked[i] = "verify" => ~k.known
  /\ \A i, n \in 1..Len(k.asked) : k.asked[i] = "verify" /\ k.asked[n] = "verify" => i = n
  /\ \A i \in 1..Len(k.in) : k.in[i] = "type" => i = 1
PlainSockets == \A s \in Sockets : Plain(sock[s])

Unverified(k) == ~k.known /\ \A i \in 1..Len(k.asked) : k.asked[i] # "verify"

\* Who holds a socket.
HoldInv ==
  /\ \A c \in Connectors : (held[c] # NoSocket) <=> conn[c].pc \in {"connect", "verify", "answer"}
  /\ (held[Receiver] # NoSocket) <=> receiver \in {"address", "read", "byte", "body", "empty", "swallow"}

\* DoCmdThread waits until ReceiveThread has begun.
StartInv ==
  /\ At(Starter, "service") => receiver = "none"
  /\ receiver \in {"none", "begin"} => At(Dispatcher, "none")

\* The connecting thread, the field and the socket it holds.
ConnInv ==
  /\ \A c \in Connectors :
       /\ conn[c].pc \in {"get", "make", "connect"} => ~Connected(mMainSocket)
       /\ Connected(mMainSocket) /\ conn[c].pc \in {"verify", "answer", "verified"} =>
            /\ sock[mMainSocket].peer = conn[c].peer
            /\ conn[c].pc = "verify" => Unverified(sock[mMainSocket])
            /\ conn[c].pc = "answer" => held[c] = mMainSocket
            /\ conn[c].pc = "verified" => sock[mMainSocket].known
  /\ "login" \in requests /\ Connected(mMainSocket) =>
       sock[mMainSocket].peer = "agent" /\ sock[mMainSocket].known

\* A verification is under way on a socket.
Verifies(k) == \/ \E i \in 1..Len(k.asked) : k.asked[i] \in {"verify", "rest"}
               \/ \E i \in 1..Len(k.in) : k.in[i] = "type"
Mid(s) == receiver \in {"byte", "body"} /\ held[Receiver] = s

\* What comes in alternates; only an answer to a verification may lack its end.
Alternates(k) ==
  /\ \A i \in 1..Len(k.in) - 1 : k.in[i] \in Closes <=> k.in[i + 1] \notin Closes
  /\ Len(k.in) > 0 /\ k.in[Len(k.in)] \notin Closes =>
       k.in = <<"type">> /\ (k.st = "ended" \/ (k.asked # <<>> /\ k.asked[1] = "rest"))
  /\ k.asked # <<>> /\ k.asked[1] = "rest" => k.in = <<"type">>

\* A socket and where its threads are: whether ReceiveThread is at the end of a
\* piece, and whether a verification is awaited.
Fits(k, mid, verifying) ==
  /\ Alternates(k)
  /\ Verifies(k) => verifying
  /\ mid /\ k.st # "closed" => k.in # <<>>
  /\ k.in # <<>> => (k.in[1] \in Closes <=> mid)
  /\ verifying /\ k.known => k.in # <<>> /\ k.in[1] = "type"
VerifiedBy(s) == \E c \in Connectors : conn[c].pc = "answer" /\ held[c] = s

\* Reads of a socket that is being connected and verified do not give up.
Early == {"get", "make", "connect", "verify", "answer"}
Timely ==
  \A c \in Connectors : conn[c].pc \in Early =>
    \A s \in Sockets : s = mMainSocket \/ s = held[c] => (sock[s].timed => sock[s].known)

InOrder(s) == Fits(sock[s], Mid(s), VerifiedBy(s))
StreamInv ==
  /\ receiver \notin {"empty", "swallow"}
  /\ \A s \in Sockets : InOrder(s)
  /\ Timely

-----------------------------------------------------------------------------
\* What the operations on sockets do, field by field.

Piece == {"type", "zero", "one", "byte", "len", "address", "other"}
Request == {"verify", "rest", "agent", "beat", "login"}
SocketRecord ==
  [st : {"new", "open", "ended", "closed"}, peer : {"main", "agent"}, in : Seq(Piece),
   asked : Seq(Request), timed : BOOLEAN, known : BOOLEAN]
SockOK == sock \in [Sockets -> SocketRecord]
Others(s) == \A u \in Sockets : u # s => sock'[u] = sock[u]

LEMMA RecordFields ==
  ASSUME NEW k \in SocketRecord
  PROVE  /\ k.st \in {"new", "open", "ended", "closed"} /\ k.peer \in {"main", "agent"}
         /\ k.in \in Seq(Piece) /\ k.asked \in Seq(Request)
         /\ k.timed \in BOOLEAN /\ k.known \in BOOLEAN
  BY DEF SocketRecord

LEMMA NewRecord ==
  /\ NewSocket \in SocketRecord /\ NewSocket.st = "new" /\ NewSocket.in = <<>>
  /\ NewSocket.asked = <<>> /\ ~NewSocket.timed /\ ~NewSocket.known
<1>1. <<>> \in Seq(Piece) /\ <<>> \in Seq(Request)
  OBVIOUS
<1> QED BY <1>1 DEF NewSocket, SocketRecord

LEMMA ClosedRecord ==
  /\ Closed \in SocketRecord /\ Closed.st = "closed" /\ Closed.in = <<>>
  /\ Closed.asked = <<>> /\ ~Closed.timed /\ ~Closed.known
<1>1. \A k \in SocketRecord :
        LET n == [k EXCEPT !.st = "closed"]
        IN  n \in SocketRecord /\ n.st = "closed" /\ n.in = k.in /\ n.asked = k.asked
            /\ n.timed = k.timed /\ n.known = k.known
  BY DEF SocketRecord
<1> QED BY <1>1, NewRecord DEF Closed

LEMMA MakeDoes ==
  ASSUME SockOK, Make, Fresh \in Sockets
  PROVE  /\ mMainSocket' = Fresh /\ SockOK' /\ sock'[Fresh] = NewSocket /\ Others(Fresh)
  BY NewRecord DEF Make, SockOK, Others

LEMMA CloseDoes ==
  ASSUME SockOK, CloseMain, mMainSocket \in Sockets \cup {NoSocket}
  PROVE  /\ mMainSocket' = NoSocket /\ SockOK' /\ UNCHANGED <<held, up>>
         /\ \/ UNCHANGED sock
            \/ mMainSocket \in Sockets /\ sock'[mMainSocket] = Closed /\ Others(mMainSocket)
<1>1. CASE mMainSocket = NoSocket
  BY <1>1 DEF CloseMain, SockOK
<1>2. CASE mMainSocket # NoSocket
  BY <1>2, ClosedRecord DEF CloseMain, SockOK, Others
<1> QED BY <1>1, <1>2

\* Tasks, types and the rest look at a socket through its fields only.
SameBut(k, n, f) ==
  /\ "st" \in f \/ n.st = k.st
  /\ "peer" \in f \/ n.peer = k.peer
  /\ "in" \in f \/ n.in = k.in
  /\ "asked" \in f \/ n.asked = k.asked
  /\ "timed" \in f \/ n.timed = k.timed
  /\ "known" \in f \/ n.known = k.known

LEMMA SendDoes ==
  ASSUME SockOK, NEW r \in Request, Send(r), mMainSocket \in Sockets
  PROVE  /\ mMainSocket' = mMainSocket /\ SockOK' /\ Others(mMainSocket)
         /\ SameBut(sock[mMainSocket], sock'[mMainSocket], {"asked", "timed"})
         /\ sock'[mMainSocket].timed = (sock[mMainSocket].timed \/ r \notin {"beat", "verify"})
         /\ \/ sock'[mMainSocket].asked = sock[mMainSocket].asked
            \/ /\ sock[mMainSocket].st = "open" /\ Len(sock[mMainSocket].asked) < MaxAsked
               /\ sock'[mMainSocket].asked = Append(sock[mMainSocket].asked, r)
<1> DEFINE k == sock[mMainSocket]
           n == Asked(mMainSocket, r)
<1>1. k \in SocketRecord
  BY DEF SockOK
<1>2. Append(k.asked, r) \in Seq(Request)
  BY <1>1, RecordFields
<1>3. /\ n \in SocketRecord /\ SameBut(k, n, {"asked", "timed"})
      /\ n.timed = (k.timed \/ r \notin {"beat", "verify"})
      /\ n.asked = IF k.st = "open" /\ Len(k.asked) < MaxAsked THEN Append(k.asked, r) ELSE k.asked
  <2>1. n = [k EXCEPT !.asked = IF k.st = "open" /\ Len(k.asked) < MaxAsked THEN Append(k.asked, r) ELSE k.asked,
                      !.timed = k.timed \/ r \notin {"beat", "verify"}]
    BY DEF Asked
  <2>2. (k.timed \/ r \notin {"beat", "verify"}) \in BOOLEAN
    OBVIOUS
  <2> DEFINE a == IF k.st = "open" /\ Len(k.asked) < MaxAsked THEN Append(k.asked, r) ELSE k.asked
             t == (k.timed \/ r \notin {"beat", "verify"})
  <2>3. a \in Seq(Request) /\ t \in BOOLEAN
    BY <1>1, <1>2, RecordFields
  <2>4. n = [k EXCEPT !.asked = a, !.timed = t]
    BY <2>1
  <2> HIDE DEF n, k, a, t
  <2>5. n \in SocketRecord /\ SameBut(k, n, {"asked", "timed"}) /\ n.timed = t /\ n.asked = a
    BY <1>1, <2>3, <2>4 DEF SocketRecord, SameBut
  <2> QED BY <2>5 DEF a, t
<1>4. mMainSocket # NoSocket
  BY ConnectionAssumption
<1>5. sock' = [sock EXCEPT ![mMainSocket] = n] /\ mMainSocket' = mMainSocket
  BY <1>4 DEF Send
<1> HIDE DEF n
<1>6. SockOK' /\ Others(mMainSocket) /\ sock'[mMainSocket] = n
  BY <1>3, <1>5 DEF SockOK, Others
<1> QED BY <1>3, <1>5, <1>6

\* What is left after n pieces were read.
LEMMA RestIs ==
  ASSUME SockOK, NEW s \in Sockets, NEW n \in Nat
  PROVE  /\ Rest(s, n) \in Seq(Piece)
         /\ Len(Rest(s, n)) = IF n <= Len(sock[s].in) THEN Len(sock[s].in) - n ELSE 0
         /\ \A i \in 1..Len(Rest(s, n)) : Rest(s, n)[i] = sock[s].in[i + n]
<1> DEFINE q == sock[s].in
           m == n + 1
<1>1. q \in Seq(Piece)
  BY RecordFields DEF SockOK
<1>2. \A i \in m..Len(q) : q[i] \in Piece
  BY <1>1
<1>3. /\ SubSeq(q, m, Len(q)) \in Seq(Piece)
      /\ Len(SubSeq(q, m, Len(q))) = IF m <= Len(q) THEN Len(q) - m + 1 ELSE 0
      /\ \A i \in 1..Len(q) - m + 1 : SubSeq(q, m, Len(q))[i] = q[m + i - 1]
  <2> HIDE DEF q
  <2> QED BY <1>1, <1>2, SubSeqProperties
<1>4. Rest(s, n) = SubSeq(q, m, Len(q))
  BY DEF Rest, Pieces
<1>5. Len(q) \in Nat
  BY <1>1
<1>6. Len(Rest(s, n)) = IF n <= Len(q) THEN Len(q) - n ELSE 0
  BY <1>3, <1>4, <1>5
<1>7. ASSUME NEW i \in 1..Len(Rest(s, n)) PROVE Rest(s, n)[i] = q[i + n]
  <2>1. i \in 1..Len(q) - m + 1 /\ m + i - 1 = i + n
    BY <1>5, <1>6
  <2> QED BY <1>3, <1>4, <2>1
<1> QED BY <1>3, <1>4, <1>6, <1>7

LEMMA ReadDoes ==
  ASSUME SockOK, NEW s \in Sockets, NEW n \in Nat,
         \/ sock' = [sock EXCEPT ![s].in = Rest(s, n)]
         \/ sock' = [sock EXCEPT ![s].in = Rest(s, n), ![s].timed = TRUE]
  PROVE  /\ SockOK' /\ Others(s) /\ SameBut(sock[s], sock'[s], {"in", "timed"})
         /\ sock'[s].in = Rest(s, n)
         /\ sock'[s].timed = sock[s].timed \/ sock'[s].timed = TRUE
<1>1. sock[s] \in SocketRecord /\ Rest(s, n) \in Seq(Piece)
  BY RestIs DEF SockOK
<1> DEFINE q == Rest(s, n)
<1> HIDE DEF q
<1>2. CASE sock' = [sock EXCEPT ![s].in = q]
  BY <1>1, <1>2 DEF SockOK, Others, SameBut, SocketRecord, q
<1>3. CASE sock' = [sock EXCEPT ![s].in = q, ![s].timed = TRUE]
  BY <1>1, <1>3 DEF SockOK, Others, SameBut, SocketRecord, q
<1> QED BY <1>2, <1>3 DEF q

LEMMA ConnectDoes ==
  ASSUME SockOK, NEW s \in Sockets, NEW p \in {"main", "agent"},
         sock' = [sock EXCEPT ![s].st = "open", ![s].peer = p]
  PROVE  /\ SockOK' /\ Others(s) /\ SameBut(sock[s], sock'[s], {"st", "peer"})
         /\ sock'[s].st = "open" /\ sock'[s].peer = p
  BY DEF SockOK, Others, SameBut, SocketRecord

LEMMA EndDoes ==
  ASSUME SockOK, NEW s \in Sockets, EndStream(s)
  PROVE  /\ SockOK' /\ Others(s) /\ SameBut(sock[s], sock'[s], {"st", "asked"})
         /\ sock[s].st = "open" /\ sock'[s].st = "ended" /\ sock'[s].asked = <<>>
         /\ UNCHANGED <<mMainSocket, held, up>>
<1>1. <<>> \in Seq(Request)
  OBVIOUS
<1> QED BY <1>1 DEF EndStream, SockOK, Others, SameBut, SocketRecord

\* What a server may send in answer to the first request, and what it leaves.
AnswerOf(k, add, later) ==
  LET r == Head(k.asked) IN
  \/ r = "verify" /\ add = <<"type", "zero">> /\ later = Tail(k.asked)
  \/ r = "verify" /\ add = <<"type">> /\ later = <<"rest">> \o Tail(k.asked)
  \/ r = "rest" /\ add = <<"zero">> /\ later = Tail(k.asked)
  \/ r = "agent" /\ add \in {<<>>, <<"len", "address">>} /\ later = Tail(k.asked) /\ (add # <<>> => k.known)
  \/ /\ r \in {"beat", "login"} /\ add \in {<<>>, <<"one", "byte">>, <<"len", "other">>}
     /\ later = Tail(k.asked) /\ (add # <<>> => k.known)

LEMMA ReplyIs ==
  ASSUME NEW s \in Sockets, NEW r \in Request, SockOK
  PROVE  /\ Reply(s, r) \in Seq(Piece)
         /\ r = "verify" => Reply(s, r) = <<"type", "zero">>
         /\ r = "rest" => Reply(s, r) = <<>>
         /\ r = "agent" => Reply(s, r) \in {<<>>, <<"len", "address">>}
         /\ r \in {"beat", "login"} => Reply(s, r) \in {<<>>, <<"one", "byte">>, <<"len", "other">>}
         /\ r # "verify" /\ ~sock[s].known => Reply(s, r) = <<>>
<1>1. /\ <<>> \in Seq(Piece) /\ <<"type", "zero">> \in Seq(Piece) /\ <<"len", "address">> \in Seq(Piece)
      /\ <<"one", "byte">> \in Seq(Piece) /\ <<"len", "other">> \in Seq(Piece)
  BY DEF Piece
<1>2. CASE r = "verify"
  BY <1>1, <1>2 DEF Reply
<1>3. CASE r # "verify" /\ ~sock[s].known
  BY <1>1, <1>3 DEF Reply, Request
<1>4. CASE r # "verify" /\ sock[s].known
  <2>1. sock[s].peer \in {"main", "agent"}
    BY RecordFields DEF SockOK
  <2>2. CASE r = "rest" BY <1>1, <1>4, <2>1, <2>2 DEF Reply
  <2>3. CASE r = "agent" BY <1>1, <1>4, <2>1, <2>3 DEF Reply
  <2>4. CASE r = "beat" BY <1>1, <1>4, <2>1, <2>4 DEF Reply
  <2>5. CASE r = "login" BY <1>1, <1>4, <2>1, <2>5 DEF Reply
  <2> QED BY <1>4, <2>2, <2>3, <2>4, <2>5 DEF Request
<1> QED BY <1>2, <1>3, <1>4

LEMMA PartsOfPair ==
  /\ \A q \in Seq(Piece) : SubSeq(q, 1, Len(q)) = q
  /\ SubSeq(<<"type", "zero">>, 1, 1) = <<"type">>
<1>1. ASSUME NEW q \in Seq(Piece) PROVE SubSeq(q, 1, Len(q)) = q
  BY SubSeqFull
<1> DEFINE q == <<"type", "zero">>
<1>2. /\ SubSeq(q, 1, 1) \in Seq(Piece)
      /\ Len(SubSeq(q, 1, 1)) = IF 1 <= 1 THEN 1 - 1 + 1 ELSE 0
      /\ \A i \in 1..1 - 1 + 1 : SubSeq(q, 1, 1)[i] = q[1 + i - 1]
  <2>1. \A i \in 1..1 : q[i] \in Piece
    BY DEF Piece
  <2> HIDE DEF q
  <2> QED BY <2>1, SubSeqProperties
<1>3. Len(SubSeq(q, 1, 1)) = 1 /\ SubSeq(q, 1, 1)[1] = "type"
  <2>1. 1 \in 1..1 - 1 + 1 /\ q[1 + 1 - 1] = "type"
    OBVIOUS
  <2> QED BY <1>2, <2>1
<1>4. <<"type">> \in Seq(Piece) /\ Len(<<"type">>) = 1 /\ <<"type">>[1] = "type"
  BY DEF Piece
<1>5. SubSeq(q, 1, 1) = <<"type">>
  <2> DEFINE a == SubSeq(q, 1, 1)
             b == <<"type">>
  <2>1. a \in Seq(Piece) /\ b \in Seq(Piece) /\ Len(a) = Len(b) /\ \A i \in 1..Len(a) : a[i] = b[i]
    BY <1>2, <1>3, <1>4
  <2> HIDE DEF a, b
  <2>2. a = b
    BY <2>1, SeqEqual
  <2> QED BY <2>2 DEF a, b
<1> QED BY <1>1, <1>5

LEMMA AnswerDoes ==
  ASSUME SockOK, NEW s \in Sockets, NEW splits \in BOOLEAN, Answer(s, splits), MaxBacklog \in Nat
  PROVE  /\ sock[s].st = "open" /\ sock[s].asked # <<>>
         /\ SockOK' /\ Others(s) /\ SameBut(sock[s], sock'[s], {"in", "asked", "known"})
         /\ sock'[s].known = (sock[s].known \/ Head(sock[s].asked) = "verify")
         /\ \E add \in Seq(Piece) :
              /\ AnswerOf(sock[s], add, sock'[s].asked)
              /\ sock'[s].in = sock[s].in \o add
              /\ Len(sock[s].in) + Len(add) <= MaxBacklog + 1
         /\ UNCHANGED <<mMainSocket, held, up>>
<1> DEFINE k == sock[s]
           r == Head(k.asked)
           later == Tail(k.asked)
           reply == Reply(s, r)
<1>1. k \in SocketRecord /\ k.st = "open" /\ k.asked # <<>> /\ k.in \in Seq(Piece) /\ k.asked \in Seq(Request)
  BY RecordFields DEF SockOK, Answer
<1>2. r \in Request /\ later \in Seq(Request)
  BY <1>1
<1>3. PICK n \in {Len(reply)} \cup {m \in {1} : splits /\ Len(reply) = 2 /\ r = "verify"} :
        /\ Len(k.in) + n <= MaxBacklog
        /\ sock' = [sock EXCEPT ![s].in = @ \o (IF r = "rest" THEN <<"zero">> ELSE SubSeq(reply, 1, n)),
                                ![s].asked = IF n < Len(reply) THEN <<"rest">> \o later ELSE later,
                                ![s].known = @ \/ r = "verify"]
  BY DEF Answer, Pieces
<1>4. PICK add \in Seq(Piece), left0 \in Seq(Request) :
        /\ add = IF r = "rest" THEN <<"zero">> ELSE SubSeq(reply, 1, n)
        /\ left0 = IF n < Len(reply) THEN <<"rest">> \o later ELSE later
        /\ AnswerOf(k, add, left0) /\ Len(k.in) + Len(add) <= MaxBacklog + 1
  <2> DEFINE A == IF r = "rest" THEN <<"zero">> ELSE SubSeq(reply, 1, n)
             L == IF n < Len(reply) THEN <<"rest">> \o later ELSE later
  <2> SUFFICES /\ A \in Seq(Piece) /\ L \in Seq(Request)
               /\ AnswerOf(k, A, L) /\ Len(k.in) + Len(A) <= MaxBacklog + 1
    OBVIOUS
  <2>0. Len(k.in) + n <= MaxBacklog /\ n \in Nat
    <3>1. Len(reply) \in Nat
      BY <1>1, <1>2, ReplyIs
    <3> QED BY <1>3, <3>1
  <2>1. <<"zero">> \in Seq(Piece) /\ <<"type">> \in Seq(Piece) /\ <<"rest">> \in Seq(Request)
        /\ Len(<<"zero">>) = 1 /\ Len(<<"type">>) = 1
    BY DEF Piece, Request
  <2>2. reply \in Seq(Piece) /\ Len(reply) \in Nat /\ Len(k.in) \in Nat
    BY <1>1, <1>2, ReplyIs
  <2>3. <<"rest">> \o later \in Seq(Request)
    BY <1>2, <2>1
  <2>4. CASE n = Len(reply) /\ r # "rest"
    <3>1. SubSeq(reply, 1, n) = reply
      BY <2>2, <2>4, PartsOfPair
    <3>2. AnswerOf(k, reply, later)
      <4>1. CASE r = "verify" BY <1>2, <4>1, ReplyIs DEF AnswerOf
      <4>2. CASE r = "agent" BY <1>2, <4>2, ReplyIs DEF AnswerOf
      <4>3. CASE r \in {"beat", "login"} BY <1>2, <4>3, ReplyIs DEF AnswerOf
      <4> QED BY <1>2, <2>4, <4>1, <4>2, <4>3 DEF Request
    <3>3. Len(k.in) + Len(reply) <= MaxBacklog + 1
      <4> HIDE DEF k, r, later, reply, A, L
      <4> QED BY <2>0, <2>2, <2>4
    <3>4. A = reply /\ L = later
      BY <2>2, <2>4, <3>1
    <3> HIDE DEF k, r, later, reply, A, L
    <3> QED BY <1>2, <2>2, <3>2, <3>3, <3>4
  <2>5. CASE r = "rest"
    <3>1. reply = <<>> /\ Len(reply) = 0 /\ n = 0
      <4>1. reply = <<>>
        BY <1>2, <2>5, ReplyIs
      <4>2. r # "verify"
        BY <2>5
      <4> QED BY <4>1, <4>2, <1>3
    <3>2. AnswerOf(k, <<"zero">>, later)
      BY <2>5 DEF AnswerOf
    <3>3. Len(k.in) + 1 <= MaxBacklog + 1
      <4> HIDE DEF k, r, later, reply, A, L
      <4> QED BY <2>0, <2>2, <3>1
    <3>4. A = <<"zero">> /\ L = later
      BY <2>5, <3>1
    <3> HIDE DEF k, r, later, reply, A, L
    <3> QED BY <1>2, <2>1, <3>2, <3>3, <3>4
  <2>6. CASE n = 1 /\ Len(reply) = 2 /\ r = "verify"
    <3>1. reply = <<"type", "zero">> /\ SubSeq(reply, 1, n) = <<"type">>
      BY <1>2, <2>6, ReplyIs, PartsOfPair
    <3>2. AnswerOf(k, <<"type">>, <<"rest">> \o later)
      BY <2>6 DEF AnswerOf
    <3>3. Len(k.in) + 1 <= MaxBacklog + 1
      <4> HIDE DEF k, r, later, reply, A, L
      <4> QED BY <2>0, <2>2, <2>6
    <3>4. A = <<"type">> /\ L = <<"rest">> \o later
      BY <2>6, <3>1
    <3> HIDE DEF k, r, later, reply, A, L
    <3> QED BY <2>1, <2>3, <3>2, <3>3, <3>4
  <2> QED BY <1>3, <2>4, <2>5, <2>6
<1>5. k.in \o add \in Seq(Piece) /\ (k.known \/ r = "verify") \in BOOLEAN
  BY <1>1
<1> DEFINE added == k.in \o add
           knows == (k.known \/ r = "verify")
<1>6. sock' = [sock EXCEPT ![s].in = added, ![s].asked = left0, ![s].known = knows]
  BY <1>3, <1>4
<1>7. added \in Seq(Piece) /\ knows \in BOOLEAN
  BY <1>5
<1> HIDE DEF added, knows
<1>8. /\ SockOK' /\ Others(s) /\ SameBut(k, sock'[s], {"in", "asked", "known"})
      /\ sock'[s].in = added /\ sock'[s].asked = left0 /\ sock'[s].known = knows
  BY <1>1, <1>4, <1>6, <1>7 DEF SockOK, Others, SameBut, SocketRecord
<1>9. UNCHANGED <<mMainSocket, held, up>>
  BY DEF Answer
<1> QED BY <1>1, <1>4, <1>8, <1>9 DEF added, knows

-----------------------------------------------------------------------------
\* One task.

IsTask(x) ==
  \/ \E c \in Connectors : Active(c) /\ x = <<"conn", c, NoSocket, 0>>
  \/ \E r \in requests : x = <<"request", r, NoSocket, 0>>
  \/ \E s \in Sockets : \E i \in 1..MaxAsked : AskedAt(s, i) /\ x = <<"asked", "of", s, i>>
  \/ \E s \in Sockets : \E i \in 1..MaxBacklog + 1 : BroughtAt(s, i) /\ x = <<"in", "of", s, i>>
  \/ \E n \in 1..cmdMaps : x = <<"address", "of", NoSocket, n>>

LEMMA TasksAre == \A x : x \in Tasks <=> IsTask(x)
<1> SUFFICES ASSUME NEW x PROVE x \in Tasks <=> IsTask(x)
  OBVIOUS
<1>1. ASSUME NEW s \in Sockets
      PROVE  x \in Underway(s)
             <=> \/ \E i \in 1..MaxAsked : AskedAt(s, i) /\ x = <<"asked", "of", s, i>>
                 \/ \E i \in 1..MaxBacklog + 1 : BroughtAt(s, i) /\ x = <<"in", "of", s, i>>
  BY DEF Underway
<1>2. x \in Connecting <=> \E c \in Connectors : Active(c) /\ x = <<"conn", c, NoSocket, 0>>
  BY DEF Connecting
<1>3. x \in Requested <=> \E r \in requests : x = <<"request", r, NoSocket, 0>>
  BY DEF Requested
<1>4. x \in Addresses <=> \E n \in 1..cmdMaps : x = <<"address", "of", NoSocket, n>>
  BY DEF Addresses
<1>5. x \in Tasks <=> \/ x \in Connecting \/ x \in Requested \/ x \in Addresses
                      \/ \E s \in Sockets : x \in Underway(s)
  <2> DEFINE All == UNION {Underway(s) : s \in Sockets}
  <2>1. x \in All <=> \E s \in Sockets : x \in Underway(s)
    OBVIOUS
  <2>2. Tasks = Connecting \cup Requested \cup Addresses \cup All
    BY DEF Tasks
  <2> HIDE DEF All
  <2> QED BY <2>1, <2>2
<1> QED BY <1>1, <1>2, <1>3, <1>4, <1>5, Zenon DEF IsTask

LEMMA TasksAreNext == (\A x : x \in Tasks <=> IsTask(x))'
  BY TasksAre, PTL

\* Tasks that stay or go: places in a socket may move forward.
LEMMA TasksStay ==
  ASSUME OneTask, NEW s \in Sockets, NEW d \in Nat, NEW e \in Nat, MaxAsked \in Nat, MaxBacklog \in Nat,
         \A u \in Sockets : u # s => sock'[u] = sock[u],
         \A i \in 1..MaxAsked : AskedAt(s, i)' => AskedAt(s, i + d),
         \A i \in 1..MaxBacklog + 1 : BroughtAt(s, i)' => BroughtAt(s, i + e),
         \A c \in Connectors : Active(c)' => Active(c),
         requests' \subseteq requests, cmdMaps \in Nat, cmdMaps' \in 0..cmdMaps
  PROVE  OneTask'
<1> DEFINE Off(x) == IF x[1] = "asked" /\ x[3] = s THEN d
                     ELSE IF x[1] = "in" /\ x[3] = s THEN e ELSE 0
           Before(x) == <<x[1], x[2], x[3], x[4] + Off(x)>>
           Shaped(x) == x = <<x[1], x[2], x[3], x[4]>> /\ x[4] \in Nat
<1>1. ASSUME NEW x, IsTask(x)' PROVE IsTask(Before(x)) /\ Shaped(x)
  <2>1. CASE \E c \in Connectors : Active(c)' /\ x = <<"conn", c, NoSocket, 0>>
    <3>1. PICK c \in Connectors : Active(c)' /\ x = <<"conn", c, NoSocket, 0>>
      BY <2>1
    <3>2. Before(x) = <<"conn", c, NoSocket, 0>> /\ Shaped(x)
      BY <3>1
    <3> HIDE DEF Before, Shaped
    <3> QED BY <3>1, <3>2 DEF IsTask
  <2>2. CASE \E r \in requests' : x = <<"request", r, NoSocket, 0>>
    <3>1. PICK r \in requests' : x = <<"request", r, NoSocket, 0>>
      BY <2>2
    <3>2. Before(x) = <<"request", r, NoSocket, 0>> /\ Shaped(x)
      BY <3>1
    <3> HIDE DEF Before, Shaped
    <3> QED BY <3>1, <3>2 DEF IsTask
  <2>3. CASE \E u \in Sockets : \E i \in 1..MaxAsked : AskedAt(u, i)' /\ x = <<"asked", "of", u, i>>
    <3>1. PICK u \in Sockets, i \in 1..MaxAsked : AskedAt(u, i)' /\ x = <<"asked", "of", u, i>>
      BY <2>3
    <3>0. x[1] = "asked" /\ x[2] = "of" /\ x[3] = u /\ x[4] = i /\ i \in Nat
      BY <3>1
    <3>2. Before(x) = <<"asked", "of", u, IF u = s THEN i + d ELSE i>> /\ Shaped(x)
      <4>1. CASE u = s BY <3>0, <3>1, <4>1
      <4>2. CASE u # s BY <3>0, <3>1, <4>2
      <4> QED BY <4>1, <4>2
    <3>3. AskedAt(u, IF u = s THEN i + d ELSE i)
      <4>1. CASE u = s BY <3>1, <4>1
      <4>2. CASE u # s BY <3>1, <4>2 DEF AskedAt
      <4> QED BY <4>1, <4>2
    <3>4. (IF u = s THEN i + d ELSE i) \in 1..MaxAsked
      BY <3>3 DEF AskedAt
    <3> HIDE DEF Before, Shaped
    <3> QED BY <3>2, <3>3, <3>4 DEF IsTask
  <2>4. CASE \E u \in Sockets : \E i \in 1..MaxBacklog + 1 : BroughtAt(u, i)' /\ x = <<"in", "of", u, i>>
    <3>1. PICK u \in Sockets, i \in 1..MaxBacklog + 1 : BroughtAt(u, i)' /\ x = <<"in", "of", u, i>>
      BY <2>4
    <3>0. x[1] = "in" /\ x[2] = "of" /\ x[3] = u /\ x[4] = i /\ i \in Nat
      BY <3>1
    <3>2. Before(x) = <<"in", "of", u, IF u = s THEN i + e ELSE i>> /\ Shaped(x)
      <4>1. CASE u = s BY <3>0, <3>1, <4>1
      <4>2. CASE u # s BY <3>0, <3>1, <4>2
      <4> QED BY <4>1, <4>2
    <3>3. BroughtAt(u, IF u = s THEN i + e ELSE i)
      <4>1. CASE u = s BY <3>1, <4>1
      <4>2. CASE u # s BY <3>1, <4>2 DEF BroughtAt
      <4> QED BY <4>1, <4>2
    <3>4. (IF u = s THEN i + e ELSE i) \in 1..MaxBacklog + 1
      BY <3>3 DEF BroughtAt
    <3> HIDE DEF Before, Shaped
    <3> QED BY <3>2, <3>3, <3>4 DEF IsTask
  <2>5. CASE \E n \in 1..cmdMaps' : x = <<"address", "of", NoSocket, n>>
    <3>1. PICK n \in 1..cmdMaps' : x = <<"address", "of", NoSocket, n>>
      BY <2>5
    <3>2. Before(x) = <<"address", "of", NoSocket, n>> /\ Shaped(x) /\ n \in 1..cmdMaps
      <4>1. x[1] = "address" /\ x[2] = "of" /\ x[3] = NoSocket /\ x[4] = n /\ n \in Nat /\ n \in 1..cmdMaps
        BY <3>1
      <4> QED BY <3>1, <4>1
    <3> HIDE DEF Before, Shaped
    <3> QED BY <3>2 DEF IsTask
  <2> QED BY <1>1, <2>1, <2>2, <2>3, <2>4, <2>5 DEF IsTask
<1>2. (\A x : x \in Tasks <=> IsTask(x))'
  BY TasksAreNext
<1>3. ASSUME NEW x \in Tasks', NEW y \in Tasks' PROVE x = y
  <2>1. Before(x) \in Tasks /\ Before(y) \in Tasks /\ Shaped(x) /\ Shaped(y)
    <3> HIDE DEF Before, Shaped
    <3> QED BY <1>1, <1>2, <1>3, TasksAre
  <2>2. Before(x) = Before(y)
    <3> HIDE DEF Before, Shaped
    <3> QED BY <2>1 DEF OneTask
  <2>3. x[1] = y[1] /\ x[2] = y[2] /\ x[3] = y[3] /\ x[4] + Off(x) = y[4] + Off(y)
    BY <2>2
  <2>4. Off(x) = Off(y) /\ Off(x) \in Nat
    BY <2>3
  <2>5. x[4] = y[4]
    <3> HIDE DEF Off
    <3> QED BY <2>1, <2>3, <2>4
  <2> QED BY <2>1, <2>3, <2>5
<1> QED BY <1>3 DEF OneTask

\* A single task means that there is no other.
LEMMA OnlyTask ==
  ASSUME OneTask, NEW x, IsTask(x)
  PROVE  \A y : IsTask(y) => y = x
  BY TasksAre DEF OneTask

LEMMA OneTaskAfter ==
  ASSUME NEW x, \A y : IsTask(y)' => y = x
  PROVE  OneTask'
<1>1. (\A y : y \in Tasks <=> IsTask(y))'
  BY TasksAreNext
<1> QED BY <1>1 DEF OneTask

\* While a thread connects nothing else is under way, and so on for each task.
LEMMA WhileActive ==
  ASSUME OneTask, NEW c \in Connectors, Active(c), cmdMaps \in Nat
  PROVE  /\ \A d \in Connectors : Active(d) => d = c
         /\ requests = {} /\ cmdMaps = 0
         /\ \A s \in Sockets : \A i \in 1..MaxAsked : ~AskedAt(s, i)
         /\ \A s \in Sockets : \A i \in 1..MaxBacklog + 1 : ~BroughtAt(s, i)
<1>1. \A y : IsTask(y) => y = <<"conn", c, NoSocket, 0>>
  BY OnlyTask DEF IsTask
<1>2. \A d \in Connectors : Active(d) => d = c
  BY <1>1 DEF IsTask
<1>3. requests = {}
  <2>1. \A r \in requests : <<"request", r, NoSocket, 0>> = <<"conn", c, NoSocket, 0>>
    BY <1>1 DEF IsTask
  <2> QED BY <2>1
<1>4. cmdMaps = 0
  <2>1. \A n \in 1..cmdMaps : <<"address", "of", NoSocket, n>> = <<"conn", c, NoSocket, 0>>
    BY <1>1 DEF IsTask
  <2>2. 1 \notin 1..cmdMaps
    BY <2>1
  <2> QED BY <2>2
<1>5. ASSUME NEW s \in Sockets, NEW i \in 1..MaxAsked, AskedAt(s, i) PROVE FALSE
  <2>1. <<"asked", "of", s, i>> = <<"conn", c, NoSocket, 0>>
    BY <1>1, <1>5 DEF IsTask
  <2> QED BY <2>1
<1>6. ASSUME NEW s \in Sockets, NEW i \in 1..MaxBacklog + 1, BroughtAt(s, i) PROVE FALSE
  <2>1. <<"in", "of", s, i>> = <<"conn", c, NoSocket, 0>>
    BY <1>1, <1>6 DEF IsTask
  <2> QED BY <2>1
<1> QED BY <1>2, <1>3, <1>4, <1>5, <1>6

-----------------------------------------------------------------------------
\* Types of everything but sockets and heartbeats.

Pcs == {"none", "service", "close", "get", "make", "connect", "verify", "answer", "verified",
        "idle", "ended"}
Places == {"none", "begin", "loop", "look", "make", "stream", "address", "read",
           "byte", "body", "empty", "swallow", "ended"}
ConnOK == conn \in [Connectors -> [pc : Pcs, peer : {"main", "agent"}]]
ControlOK ==
  /\ ConnOK /\ timeOutTimes \in 0..Attempts - 1 /\ requests \subseteq {"agent", "login"}
  /\ receiver \in Places /\ j \in 0..Patience /\ cmdMaps \in Nat
  /\ stop \in BOOLEAN /\ left \in BOOLEAN /\ asking \in BOOLEAN /\ reports \in BOOLEAN
  /\ timed \in BOOLEAN /\ collided \in BOOLEAN /\ dead \in {"none", "address"} /\ limit \in Limits

LEMMA TypesSplit == TypeOK <=> SocketTypeOK /\ BeatTypeOK /\ ControlOK
<1>1. {stop, left, asking, reports, timed, collided} \subseteq BOOLEAN
      <=> /\ stop \in BOOLEAN /\ left \in BOOLEAN /\ asking \in BOOLEAN /\ reports \in BOOLEAN
          /\ timed \in BOOLEAN /\ collided \in BOOLEAN
  OBVIOUS
<1> QED BY <1>1, Zenon DEF TypeOK, ControlOK, ConnOK, Pcs, Places

LEMMA GoTypes ==
  ASSUME ConnOK, NEW c \in Connectors, NEW q \in Pcs,
         Go(c, q) \/ \E p \in {"main", "agent"} : GoTo(c, q, p)
  PROVE  /\ ConnOK' /\ conn'[c].pc = q
         /\ (Go(c, q) => conn'[c].peer = conn[c].peer)
         /\ \A d \in Connectors : d # c => conn'[d] = conn[d]
<1>1. CASE Go(c, q)
  BY <1>1 DEF Go, ConnOK
<1>2. CASE \E p \in {"main", "agent"} : GoTo(c, q, p)
  <2>1. PICK p \in {"main", "agent"} : GoTo(c, q, p)
    BY <1>2
  <2>2. [pc |-> q, peer |-> p] \in [pc : Pcs, peer : {"main", "agent"}]
    OBVIOUS
  <2>3. /\ ConnOK' /\ conn'[c] = [pc |-> q, peer |-> p]
        /\ \A d \in Connectors : d # c => conn'[d] = conn[d]
    BY <2>1, <2>2 DEF GoTo, ConnOK
  <2>4. Go(c, q) => conn'[c].peer = conn[c].peer
    BY DEF Go, ConnOK
  <2> QED BY <2>3, <2>4
<1> QED BY <1>1, <1>2

\* A failed attempt to connect.
LEMMA FailedDoes ==
  ASSUME ConnOK, timeOutTimes \in 0..Attempts - 1, NEW c \in Connectors, Failed(c), asking \in BOOLEAN
  PROVE  /\ Hold(c, NoSocket) /\ asking' \in BOOLEAN /\ timeOutTimes' \in 0..Attempts - 1
         /\ ConnOK' /\ \A d \in Connectors : d # c => conn'[d] = conn[d]
         /\ conn'[c].pc \in {"idle", "ended", "close"}
<1>0. Attempts \in Nat \ {0}
  BY ConnectionAssumption
<1>1. Idle(c) \in {"idle", "ended"} /\ {"idle", "ended", "close"} \subseteq Pcs
  BY DEF Idle, Pcs
<1>2. CASE conn[c].peer = "agent"
  <2>1. CASE Go(c, "idle") /\ asking' = TRUE /\ UNCHANGED timeOutTimes
    BY <1>1, <2>1, GoTypes DEF Failed
  <2>2. CASE GoTo(c, "close", "main") /\ UNCHANGED <<asking, timeOutTimes>>
    BY <1>1, <2>2, GoTypes DEF Failed
  <2> QED BY <1>2, <2>1, <2>2 DEF Failed
<1>3. CASE conn[c].peer # "agent" /\ timeOutTimes + 1 >= Attempts
  <2>1. timeOutTimes' = 0 /\ Go(c, Idle(c)) /\ asking' = TRUE /\ Hold(c, NoSocket)
    BY <1>3 DEF Failed
  <2> QED BY <1>0, <1>1, <2>1, GoTypes
<1>4. CASE conn[c].peer # "agent" /\ ~(timeOutTimes + 1 >= Attempts)
  <2>1. timeOutTimes' = timeOutTimes + 1 /\ Go(c, "close") /\ UNCHANGED asking /\ Hold(c, NoSocket)
    BY <1>4 DEF Failed
  <2>2. timeOutTimes' \in 0..Attempts - 1
    BY <1>0, <1>4, <2>1
  <2> QED BY <1>1, <2>1, <2>2, GoTypes
<1> QED BY <1>2, <1>3, <1>4

-----------------------------------------------------------------------------
\* What each operation leaves of a plain socket.

LEMMA BoundsAreNat == MaxAsked \in Nat /\ MaxBacklog \in Nat
  BY ConnectionAssumption

LEMMA PlainFresh == Plain(NewSocket) /\ Plain(Closed)
<1>1. Len(<<>>) = 0
  OBVIOUS
<1> QED BY <1>1, BoundsAreNat, NewRecord, ClosedRecord DEF Plain

LEMMA PlainSend ==
  ASSUME NEW k \in SocketRecord, NEW n \in SocketRecord, Plain(k), SameBut(k, n, {"asked", "timed"}),
         NEW r \in Request \ {"rest"}, r = "verify" => Unverified(k),
         \/ n.asked = k.asked
         \/ k.st = "open" /\ Len(k.asked) < MaxAsked /\ n.asked = Append(k.asked, r)
  PROVE  Plain(n)
<1>0. n.st = k.st /\ n.in = k.in /\ n.known = k.known
  BY DEF SameBut
<1>1. /\ n.st = k.st /\ n.in = k.in /\ n.known = k.known
      /\ k.asked \in Seq(Request) /\ Len(k.asked) \in Nat /\ MaxAsked \in Nat
  BY <1>0, RecordFields, BoundsAreNat
<1>2. CASE n.asked = k.asked
  BY <1>1, <1>2 DEF Plain
<1>3. CASE k.st = "open" /\ Len(k.asked) < MaxAsked /\ n.asked = Append(k.asked, r)
  <2> DEFINE q == k.asked
             a == n.asked
  <2>1. /\ Len(a) = Len(q) + 1 /\ a[Len(q) + 1] = r
        /\ \A i \in 1..Len(q) : a[i] = q[i]
    <3>1. r \in Request /\ q \in Seq(Request) /\ a = Append(q, r)
      BY <1>1, <1>3
    <3> HIDE DEF a, q
    <3> QED BY <3>1, AppendProperties
  <2>2. \A i \in 1..Len(a) : i \in 1..Len(q) \/ i = Len(q) + 1
    BY <1>1, <2>1
  <2>3. Len(a) <= MaxAsked
    BY <1>1, <1>3, <2>1
  <2>4. ASSUME NEW i \in 1..Len(a), a[i] = "rest" PROVE i = 1 /\ n.known
    BY <1>1, <2>1, <2>2, <2>4 DEF Plain
  <2>5. ASSUME NEW i \in 1..Len(a), a[i] = "verify" PROVE ~n.known
    BY <1>1, <2>1, <2>2, <2>5 DEF Plain, Unverified
  <2>6. ASSUME NEW i \in 1..Len(a), NEW m \in 1..Len(a), a[i] = "verify", a[m] = "verify" PROVE i = m
    <3>1. CASE r = "verify"
      <4>1. \A x \in 1..Len(q) : a[x] # "verify"
        BY <2>1, <3>1 DEF Unverified
      <4> QED BY <2>2, <2>6, <4>1
    <3>2. CASE r # "verify"
      <4>1. i \in 1..Len(q) /\ m \in 1..Len(q)
        BY <2>1, <2>2, <2>6, <3>2
      <4>2. q[i] = "verify" /\ q[m] = "verify"
        BY <2>1, <2>6, <4>1
      <4> QED BY <4>1, <4>2 DEF Plain
    <3> QED BY <3>1, <3>2
  <2>7. n.st = "open" /\ ~(n.st \in {"new", "closed"}) /\ (~n.known => n.in = <<>>)
        /\ Len(n.in) <= MaxBacklog + 1 /\ \A i \in 1..Len(n.in) : n.in[i] = "type" => i = 1
    BY <1>1, <1>3 DEF Plain
  <2> QED BY <2>3, <2>4, <2>5, <2>6, <2>7 DEF Plain
<1> QED BY <1>2, <1>3

LEMMA PlainRead ==
  ASSUME NEW k \in SocketRecord, NEW n \in SocketRecord, Plain(k), SameBut(k, n, {"in", "timed"}),
         NEW d \in Nat, Len(n.in) = IF d <= Len(k.in) THEN Len(k.in) - d ELSE 0,
         \A i \in 1..Len(n.in) : n.in[i] = k.in[i + d]
  PROVE  Plain(n)
<1>1. /\ n.st = k.st /\ n.asked = k.asked /\ n.known = k.known
      /\ k.in \in Seq(Piece) /\ n.in \in Seq(Piece) /\ Len(k.in) \in Nat /\ Len(n.in) \in Nat
      /\ MaxBacklog \in Nat
  <2>1. n.st = k.st /\ n.asked = k.asked /\ n.known = k.known
    BY DEF SameBut
  <2>2. k.in \in Seq(Piece) /\ n.in \in Seq(Piece)
    BY RecordFields
  <2>3. \A q \in Seq(Piece) : Len(q) \in Nat
    OBVIOUS
  <2> QED BY <2>1, <2>2, <2>3, BoundsAreNat
<1>2. Len(n.in) <= Len(k.in)
  BY <1>1
<1>3. ~n.known => n.in = <<>>
  <2>1. ASSUME ~n.known PROVE Len(n.in) = 0
    <3>1. k.in = <<>>
      BY <1>1, <2>1 DEF Plain
    <3>2. Len(k.in) = 0
      BY <3>1
    <3> QED BY <1>1, <1>2, <3>2
  <2> QED BY <1>1, <2>1
<1>4. ASSUME NEW i \in 1..Len(n.in), n.in[i] = "type" PROVE i = 1
  <2>1. i + d \in 1..Len(k.in) /\ k.in[i + d] = "type"
    BY <1>1, <1>4
  <2>2. i + d = 1
    BY <2>1 DEF Plain
  <2> QED BY <1>4, <2>2
<1>5. Len(n.in) <= MaxBacklog + 1
  <2>1. Len(k.in) <= MaxBacklog + 1
    BY DEF Plain
  <2> QED BY <1>1, <1>2, <2>1
<1> QED BY <1>1, <1>3, <1>4, <1>5 DEF Plain

LEMMA PlainConnect ==
  ASSUME NEW k \in SocketRecord, NEW n \in SocketRecord, Plain(k), SameBut(k, n, {"st", "peer"}),
         k.st = "new", n.st = "open"
  PROVE  Plain(n)
  BY DEF Plain, SameBut

LEMMA PlainEnd ==
  ASSUME NEW k \in SocketRecord, NEW n \in SocketRecord, Plain(k), SameBut(k, n, {"st", "asked"}),
         n.st = "ended", n.asked = <<>>
  PROVE  Plain(n)
<1>1. Len(<<>>) = 0 /\ MaxAsked \in Nat
  BY BoundsAreNat
<1> QED BY <1>1 DEF Plain, SameBut

\* An answer, place by place.
Answered(k, n, add) ==
  /\ Len(k.asked) >= 1 /\ Head(k.asked) = k.asked[1] /\ k.asked[1] \in Request
  /\ Len(n.in) = Len(k.in) + Len(add)
  /\ \A i \in 1..Len(k.in) : n.in[i] = k.in[i]
  /\ \A i \in 1..Len(add) : n.in[Len(k.in) + i] = add[i]
  /\ \/ /\ add # <<"type">> /\ Len(n.asked) = Len(k.asked) - 1
        /\ \A i \in 1..Len(n.asked) : n.asked[i] = k.asked[i + 1]
     \/ /\ k.asked[1] = "verify" /\ add = <<"type">> /\ Len(n.asked) = Len(k.asked)
        /\ n.asked[1] = "rest" /\ \A i \in 2..Len(n.asked) : n.asked[i] = k.asked[i]

LEMMA AnsweredIs ==
  ASSUME NEW k \in SocketRecord, NEW n \in SocketRecord, k.asked # <<>>, NEW add \in Seq(Piece),
         AnswerOf(k, add, n.asked), n.in = k.in \o add
  PROVE  Answered(k, n, add)
<1> DEFINE q == k.asked
           t == Tail(k.asked)
<1>1. /\ q \in Seq(Request) /\ q # <<>> /\ Len(q) \in Nat /\ Len(q) >= 1
      /\ Head(q) = q[1] /\ q[1] \in Request
  BY RecordFields
<1>2. t \in Seq(Request) /\ Len(t) = Len(q) - 1 /\ \A i \in 1..Len(t) : t[i] = q[i + 1]
  <2> HIDE DEF q
  <2> QED BY <1>1, HeadTailProperties DEF t, q
<1>3. /\ Len(n.in) = Len(k.in) + Len(add)
      /\ \A i \in 1..Len(k.in) : n.in[i] = k.in[i]
      /\ \A i \in 1..Len(add) : n.in[Len(k.in) + i] = add[i]
  <2> DEFINE a == k.in
             b == n.in
  <2>1. a \in Seq(Piece) /\ b = a \o add /\ Len(a) \in Nat /\ Len(add) \in Nat
    BY RecordFields
  <2> HIDE DEF a, b
  <2>2. /\ Len(a \o add) = Len(a) + Len(add)
        /\ \A i \in 1..Len(a) + Len(add) : (a \o add)[i] = IF i <= Len(a) THEN a[i] ELSE add[i - Len(a)]
    BY <2>1, ConcatProperties
  <2>3. \A i \in 1..Len(a) : i \in 1..Len(a) + Len(add) /\ i <= Len(a)
    BY <2>1
  <2>4. \A i \in 1..Len(add) : /\ Len(a) + i \in 1..Len(a) + Len(add) /\ ~(Len(a) + i <= Len(a))
                               /\ (Len(a) + i) - Len(a) = i
    BY <2>1
  <2>5. \A i \in 1..Len(a) : b[i] = a[i]
    BY <2>1, <2>2, <2>3
  <2>6. ASSUME NEW i \in 1..Len(add) PROVE b[Len(a) + i] = add[i]
    BY <2>1, <2>2, <2>4
  <2> QED BY <2>1, <2>2, <2>5, <2>6 DEF a, b
<1>4. CASE n.asked = t /\ add # <<"type">>
  BY <1>1, <1>2, <1>3, <1>4 DEF Answered
<1>5. CASE Head(q) = "verify" /\ add = <<"type">> /\ n.asked = <<"rest">> \o t
  <2> DEFINE b == n.asked
             a == <<"rest">>
  <2>1. a \in Seq(Request) /\ Len(a) = 1 /\ a[1] = "rest"
    BY DEF Request
  <2>2. b = a \o t
    BY <1>5
  <2>3. /\ Len(a \o t) = Len(a) + Len(t)
        /\ \A i \in 1..Len(a) + Len(t) : (a \o t)[i] = IF i <= Len(a) THEN a[i] ELSE t[i - Len(a)]
    <3> HIDE DEF a, t
    <3> QED BY <1>2, <2>1, ConcatProperties
  <2> HIDE DEF a, b, t
  <2>4. Len(b) = Len(q)
    BY <1>1, <1>2, <2>1, <2>2, <2>3
  <2>5. b[1] = "rest"
    <3>1. 1 \in 1..Len(a) + Len(t) /\ 1 <= Len(a)
      BY <1>1, <1>2, <2>1
    <3> QED BY <2>1, <2>2, <2>3, <3>1
  <2>6. ASSUME NEW i \in 2..Len(b) PROVE b[i] = q[i]
    <3>1. /\ i \in 1..Len(a) + Len(t) /\ ~(i <= Len(a)) /\ i - Len(a) \in 1..Len(t)
          /\ (i - Len(a)) + 1 = i
      BY <1>1, <1>2, <2>1, <2>4
    <3>2. b[i] = t[i - Len(a)]
      BY <2>2, <2>3, <3>1
    <3>3. t[i - Len(a)] = q[(i - Len(a)) + 1]
      BY <1>2, <3>1
    <3> QED BY <3>1, <3>2, <3>3
  <2> QED BY <1>1, <1>3, <1>5, <2>4, <2>5, <2>6 DEF Answered, b
<1>6. /\ <<"type", "zero">> # <<"type">> /\ <<"zero">> # <<"type">> /\ <<>> # <<"type">>
      /\ <<"len", "address">> # <<"type">> /\ <<"one", "byte">> # <<"type">>
      /\ <<"len", "other">> # <<"type">>
  OBVIOUS
<1> QED BY <1>4, <1>5, <1>6 DEF AnswerOf

\* The pieces an answer adds.
LEMMA AddedIs ==
  ASSUME NEW k, NEW add, NEW later, AnswerOf(k, add, later)
  PROVE  /\ Len(add) \in 0..2
         /\ Len(add) = 1 => \/ Head(k.asked) = "verify" /\ add[1] = "type"
                            \/ Head(k.asked) = "rest" /\ add[1] = "zero"
         /\ Len(add) = 2 => /\ add[1] \notin Closes /\ add[2] \in Closes
                            /\ add[1] = "type" <=> Head(k.asked) = "verify"
         /\ \A m \in 1..Len(add) : add[m] = "type" => m = 1 /\ Head(k.asked) = "verify"
         /\ \A m \in 1..Len(add) : add[m] = "address" => m = 2 /\ Head(k.asked) = "agent"
<1> DEFINE Fine(q) ==
         /\ Len(q) \in 0..2
         /\ Len(q) = 1 => \/ Head(k.asked) = "verify" /\ q[1] = "type"
                          \/ Head(k.asked) = "rest" /\ q[1] = "zero"
         /\ Len(q) = 2 => /\ q[1] \notin Closes /\ q[2] \in Closes
                          /\ q[1] = "type" <=> Head(k.asked) = "verify"
         /\ \A m \in 1..Len(q) : q[m] = "type" => m = 1 /\ Head(k.asked) = "verify"
         /\ \A m \in 1..Len(q) : q[m] = "address" => m = 2 /\ Head(k.asked) = "agent"
<1>1. Fine(<<>>)
  OBVIOUS
<1>2. Head(k.asked) = "verify" => Fine(<<"type", "zero">>)
  BY DEF Closes
<1>3. Head(k.asked) = "verify" => Fine(<<"type">>)
  OBVIOUS
<1>4. Head(k.asked) = "rest" => Fine(<<"zero">>)
  OBVIOUS
<1>5. Head(k.asked) = "agent" => Fine(<<"len", "address">>)
  BY DEF Closes
<1>6. Head(k.asked) \in {"beat", "login"} => Fine(<<"one", "byte">>) /\ Fine(<<"len", "other">>)
  BY DEF Closes
<1>7. Fine(add)
  <2> HIDE DEF Fine
  <2> QED BY <1>1, <1>2, <1>3, <1>4, <1>5, <1>6 DEF AnswerOf
<1> QED BY <1>7

LEMMA PlainAnswer ==
  ASSUME NEW k \in SocketRecord, NEW n \in SocketRecord, Plain(k), k.st = "open", k.asked # <<>>,
         SameBut(k, n, {"in", "asked", "known"}), n.known = (k.known \/ Head(k.asked) = "verify"),
         NEW add \in Seq(Piece), AnswerOf(k, add, n.asked), n.in = k.in \o add,
         Len(k.in) + Len(add) <= MaxBacklog + 1
  PROVE  Plain(n)
<1>1. Answered(k, n, add)
  BY AnsweredIs
<1>2. /\ n.st = "open" /\ Len(k.asked) \in Nat /\ Len(k.in) \in Nat /\ Len(add) \in Nat
      /\ Len(n.asked) \in Nat /\ MaxAsked \in Nat /\ MaxBacklog \in Nat
  <2>1. n.st = "open"
    BY DEF SameBut
  <2>2. k.in \in Seq(Piece) /\ k.asked \in Seq(Request) /\ n.asked \in Seq(Request)
    BY RecordFields
  <2> QED BY <2>1, <2>2, BoundsAreNat
<1>3. k.known \in BOOLEAN /\ n.known \in BOOLEAN /\ (k.known => n.known) /\ (k.asked[1] = "verify" => n.known)
  BY <1>1, RecordFields DEF Answered
<1>4. Len(n.asked) <= MaxAsked /\ Len(n.in) <= MaxBacklog + 1
  <2>1. Len(k.asked) <= MaxAsked
    BY DEF Plain
  <2> QED BY <1>1, <1>2, <2>1 DEF Answered
<1>5. k.known \/ k.asked[1] = "verify" \/ add = <<>>
  <2>1. k.asked[1] = "rest" => k.known
    <3>1. 1 \in 1..Len(k.asked)
      BY <1>1, <1>2 DEF Answered
    <3> QED BY <3>1 DEF Plain
  <2> QED BY <1>1, <2>1 DEF Answered, AnswerOf
<1>6. ~n.known => n.in = <<>>
  <2>1. ASSUME ~n.known PROVE Len(n.in) = 0
    <3>1. k.in = <<>> /\ add = <<>>
      BY <1>3, <1>5, <2>1 DEF Plain
    <3> QED BY <1>1, <1>2, <3>1 DEF Answered
  <2>2. n.in \in Seq(Piece)
    BY RecordFields
  <2> QED BY <2>1, <2>2
<1>7. ASSUME NEW i \in 1..Len(n.asked), n.asked[i] = "rest" PROVE i = 1 /\ n.known
  <2>1. CASE Len(n.asked) = Len(k.asked) - 1 /\ \A m \in 1..Len(n.asked) : n.asked[m] = k.asked[m + 1]
    <3>1. i + 1 \in 1..Len(k.asked) /\ k.asked[i + 1] = "rest"
      BY <1>2, <1>7, <2>1
    <3>2. i + 1 = 1
      BY <3>1 DEF Plain
    <3> QED BY <1>2, <3>2
  <2>2. CASE /\ k.asked[1] = "verify" /\ Len(n.asked) = Len(k.asked)
             /\ n.asked[1] = "rest" /\ \A m \in 2..Len(n.asked) : n.asked[m] = k.asked[m]
    <3>1. CASE i = 1
      BY <1>3, <2>2, <3>1
    <3>2. CASE i # 1
      <4>1. i \in 2..Len(n.asked) /\ i \in 1..Len(k.asked)
        BY <1>2, <2>2, <3>2
      <4>2. k.asked[i] = "rest"
        BY <1>7, <2>2, <4>1
      <4> QED BY <3>2, <4>1, <4>2 DEF Plain
    <3> QED BY <3>1, <3>2
  <2> QED BY <1>1, <2>1, <2>2 DEF Answered
\* After a verification is answered none is asked for; before it, no answer came.
<1>8. ASSUME NEW i \in 1..Len(n.asked), n.asked[i] = "verify"
      PROVE  ~n.known /\ i + 1 \in 1..Len(k.asked) /\ k.asked[i + 1] = "verify"
  <2>1. CASE Len(n.asked) = Len(k.asked) - 1 /\ \A m \in 1..Len(n.asked) : n.asked[m] = k.asked[m + 1]
    <3>1. i + 1 \in 1..Len(k.asked) /\ k.asked[i + 1] = "verify"
      BY <1>2, <1>8, <2>1
    <3>2. k.asked[1] # "verify"
      <4>1. 1 \in 1..Len(k.asked)
        BY <3>1, <1>2
      <4>2. k.asked[1] = "verify" => i + 1 = 1
        BY <3>1, <4>1 DEF Plain
      <4> QED BY <4>2
    <3>3. ~k.known
      BY <3>1 DEF Plain
    <3> QED BY <1>1, <1>3, <3>1, <3>2, <3>3 DEF Answered
  <2>2. CASE /\ k.asked[1] = "verify" /\ Len(n.asked) = Len(k.asked)
             /\ n.asked[1] = "rest" /\ \A m \in 2..Len(n.asked) : n.asked[m] = k.asked[m]
    <3>1. i # 1
      BY <1>8, <2>2
    <3>2. i \in 2..Len(n.asked) /\ i \in 1..Len(k.asked) /\ 1 \in 1..Len(k.asked)
      BY <1>2, <2>2, <3>1
    <3>3. k.asked[i] = "verify"
      BY <1>8, <2>2, <3>2
    <3> QED BY <2>2, <3>1, <3>2, <3>3 DEF Plain
  <2> QED BY <1>1, <2>1, <2>2 DEF Answered
<1>9. ASSUME NEW i \in 1..Len(n.asked), NEW m \in 1..Len(n.asked),
             n.asked[i] = "verify", n.asked[m] = "verify"
      PROVE  i = m
  <2>1. i + 1 \in 1..Len(k.asked) /\ k.asked[i + 1] = "verify"
    BY <1>8, <1>9
  <2>2. m + 1 \in 1..Len(k.asked) /\ k.asked[m + 1] = "verify"
    BY <1>8, <1>9
  <2>3. i + 1 = m + 1
    BY <2>1, <2>2 DEF Plain
  <2> QED BY <2>3
<1>10. ASSUME NEW i \in 1..Len(n.in), n.in[i] = "type" PROVE i = 1
  <2>1. CASE i \in 1..Len(k.in)
    BY <1>1, <1>10, <2>1 DEF Answered, Plain
  <2>2. CASE i \notin 1..Len(k.in)
    <3>1. i - Len(k.in) \in 1..Len(add) /\ Len(k.in) + (i - Len(k.in)) = i
      BY <1>1, <1>2, <2>2 DEF Answered
    <3>2. add[i - Len(k.in)] = "type"
      BY <1>1, <1>10, <3>1 DEF Answered
    <3>3. k.asked[1] = "verify"
      BY <3>1, <3>2, <1>1, AddedIs DEF Answered
    <3>4. i - Len(k.in) = 1
      BY <3>1, <3>2, AddedIs
    <3>5. ~k.known
      <4>1. 1 \in 1..Len(k.asked)
        BY <1>1, <1>2 DEF Answered
      <4> QED BY <3>3, <4>1 DEF Plain
    <3>6. k.in = <<>>
      BY <3>5 DEF Plain
    <3> QED BY <1>2, <3>4, <3>6
  <2> QED BY <2>1, <2>2
<1>11. ~(n.st \in {"new", "closed"}) /\ ~(n.st # "open")
  BY <1>2
<1>12. \A i \in 1..Len(n.asked) : n.asked[i] = "verify" => ~n.known
  BY <1>8
<1> QED BY <1>4, <1>6, <1>7, <1>9, <1>10, <1>11, <1>12 DEF Plain

-----------------------------------------------------------------------------
\* Types, plain sockets, who holds what, and one task: every step keeps them.

FieldOK == mMainSocket \in Sockets \cup {NoSocket} /\ up \in BOOLEAN /\ SockOK
HeldOK == held \in [Threads -> Sockets \cup {NoSocket}]
Base == FieldOK /\ HeldOK /\ ControlOK /\ PlainSockets /\ HoldInv /\ StartInv /\ OneTask

\* The inductive invariant.
ServerInv ==
  /\ Base /\ BeatInv /\ ConnInv /\ LoginOnlyVerified
  /\ ~collided => StreamInv

LEMMA ThreadsAre ==
  /\ Threads = Connectors \cup {Receiver} /\ Receiver \notin Connectors
  /\ Starter \in Connectors /\ Dispatcher \in Connectors /\ Starter # Dispatcher
  /\ \A c \in Connectors : c = Starter \/ c = Dispatcher
  BY ConnectionAssumption DEF Connectors, Starter, Dispatcher, Receiver

LEMMA SocketsAre ==
  /\ NoSocket \notin Sockets
  /\ \A a, b \in Sockets \cup {NoSocket} : \E s \in Sockets : s # a /\ s # b
<1>1. \A a, b \in Sockets \cup {NoSocket} : \E s \in Sockets : s \notin {a, b}
  BY ConnectionAssumption
<1>2. NoSocket \notin Sockets
  BY ConnectionAssumption
<1> QED BY <1>1, <1>2

\* A new socket is none that is in use.
LEMMA FreshIsFree ==
  ASSUME HeldOK, mMainSocket \in Sockets \cup {NoSocket}, HoldInv, OneTask, cmdMaps \in Nat,
         mMainSocket = NoSocket \/ receiver = "make" \/ \E c \in Connectors : conn[c].pc = "make"
  PROVE  Fresh \in Sockets /\ Fresh # mMainSocket /\ \A t \in Threads : held[t] # Fresh
<1>0. \A t \in Threads : held[t] \in Sockets \cup {NoSocket}
  BY DEF HeldOK
<1>1. \E c \in Connectors : \A d \in Connectors : d # c => held[d] = NoSocket
  <2>1. CASE \E c \in Connectors : held[c] # NoSocket
    <3>1. PICK c \in Connectors : held[c] # NoSocket
      BY <2>1
    <3>2. Active(c)
      BY <3>1 DEF HoldInv, Active
    <3>3. ASSUME NEW d \in Connectors, d # c PROVE held[d] = NoSocket
      <4>1. ~Active(d)
        BY <3>2, <3>3, WhileActive
      <4> QED BY <4>1 DEF HoldInv, Active
    <3> QED BY <3>3
  <2>2. CASE ~ \E c \in Connectors : held[c] # NoSocket
    BY <2>2, ThreadsAre
  <2> QED BY <2>1, <2>2
<1>2. PICK a \in Sockets \cup {NoSocket}, b \in Sockets \cup {NoSocket} :
        \A s \in Sockets : s = mMainSocket \/ (\E t \in Threads : held[t] = s) => s = a \/ s = b
  <2>1. CASE mMainSocket = NoSocket
    <3>1. PICK c \in Connectors : \A d \in Connectors : d # c => held[d] = NoSocket
      BY <1>1
    <3>2. held[c] \in Sockets \cup {NoSocket} /\ held[Receiver] \in Sockets \cup {NoSocket}
      BY <1>0, ThreadsAre
    <3>3. ASSUME NEW t \in Threads PROVE held[t] \in {NoSocket, held[c], held[Receiver]}
      BY <3>1, ThreadsAre
    <3>4. \A s \in Sockets : s = mMainSocket \/ (\E t \in Threads : held[t] = s) => s = held[c] \/ s = held[Receiver]
      BY <2>1, <3>3, SocketsAre
    <3> QED BY <3>2, <3>4
  <2>2. CASE receiver = "make"
    <3>1. PICK c \in Connectors : \A d \in Connectors : d # c => held[d] = NoSocket
      BY <1>1
    <3>2. held[Receiver] = NoSocket
      BY <2>2 DEF HoldInv
    <3>3. held[c] \in Sockets \cup {NoSocket}
      BY <1>0, ThreadsAre
    <3>4. ASSUME NEW t \in Threads PROVE held[t] \in {NoSocket, held[c]}
      BY <3>1, <3>2, ThreadsAre
    <3>5. \A s \in Sockets : s = mMainSocket \/ (\E t \in Threads : held[t] = s) => s = held[c] \/ s = mMainSocket
      BY <3>4, SocketsAre
    <3> QED BY <3>3, <3>5
  <2>3. CASE \E c \in Connectors : conn[c].pc = "make"
    <3>1. PICK c \in Connectors : conn[c].pc = "make"
      BY <2>3
    <3>2. Active(c) /\ held[c] = NoSocket
      BY <3>1 DEF Active, HoldInv
    <3>3. \A d \in Connectors : d # c => ~Active(d)
      BY <3>2, WhileActive
    <3>4. \A d \in Connectors : d # c => held[d] = NoSocket
      BY <3>3 DEF Active, HoldInv
    <3>5. held[Receiver] \in Sockets \cup {NoSocket}
      BY <1>0, ThreadsAre
    <3>6. ASSUME NEW t \in Threads PROVE held[t] \in {NoSocket, held[Receiver]}
      BY <3>2, <3>4, ThreadsAre
    <3>7. \A s \in Sockets : s = mMainSocket \/ (\E t \in Threads : held[t] = s) => s = held[Receiver] \/ s = mMainSocket
      BY <3>6, SocketsAre
    <3> QED BY <3>5, <3>7
  <2> QED BY <2>1, <2>2, <2>3
<1>3. PICK s \in Sockets : s # a /\ s # b
  BY SocketsAre
<1>4. s \notin InUse
  <2>1. DOMAIN held = Threads
    BY DEF HeldOK
  <2> QED BY <1>2, <1>3, <2>1 DEF InUse, Range
<1>5. Fresh \in Sockets /\ Fresh \notin InUse
  BY <1>4 DEF Fresh
<1>6. DOMAIN held = Threads
  BY DEF HeldOK
<1> QED BY <1>5, <1>6 DEF InUse, Range

LEMMA HoldTypes ==
  ASSUME HeldOK, NEW t \in Threads, NEW s \in Sockets \cup {NoSocket}, Hold(t, s)
  PROVE  HeldOK' /\ held'[t] = s /\ \A u \in Threads : u # t => held'[u] = held[u]
  BY DEF HeldOK, Hold

LEMMA HoldByConnector ==
  ASSUME HoldInv, NEW c \in Connectors, \A d \in Connectors : d # c => conn'[d] = conn[d],
         \A u \in Threads : u # c => held'[u] = held[u],
         (held'[c] # NoSocket) <=> conn'[c].pc \in {"connect", "verify", "answer"},
         receiver' = receiver
  PROVE  HoldInv'
<1>1. Receiver \in Threads /\ Receiver # c
  BY ThreadsAre
<1>2. ASSUME NEW d \in Connectors
      PROVE  (held'[d] # NoSocket) <=> conn'[d].pc \in {"connect", "verify", "answer"}
  <2>1. d \in Threads
    BY ThreadsAre
  <2>2. CASE d = c BY <2>2
  <2>3. CASE d # c BY <2>1, <2>3 DEF HoldInv
  <2> QED BY <2>2, <2>3
<1> QED BY <1>1, <1>2 DEF HoldInv

LEMMA HoldByReceiver ==
  ASSUME HoldInv, UNCHANGED conn, \A u \in Threads : u # Receiver => held'[u] = held[u],
         (held'[Receiver] # NoSocket)
           <=> receiver' \in {"address", "read", "byte", "body", "empty", "swallow"}
  PROVE  HoldInv'
<1>1. \A c \in Connectors : c \in Threads /\ c # Receiver
  BY ThreadsAre
<1> QED BY <1>1 DEF HoldInv

LEMMA PlainOthers ==
  ASSUME PlainSockets, NEW s \in Sockets, Others(s), Plain(sock'[s])
  PROVE  PlainSockets'
<1>1. ASSUME NEW u \in Sockets PROVE Plain(sock'[u])
  <2>1. CASE u = s BY <2>1
  <2>2. CASE u # s BY <2>2 DEF Others, PlainSockets
  <2> QED BY <2>1, <2>2
<1> QED BY <1>1 DEF PlainSockets, Plain

\* An operation that leaves the tasks of sockets where they are, moves them
\* forward or ends them.
Shifted ==
  \E s \in Sockets : \E d, e \in Nat :
    /\ \A u \in Sockets : u # s => sock'[u] = sock[u]
    /\ \A i \in 1..MaxAsked : AskedAt(s, i)' => AskedAt(s, i + d)
    /\ \A i \in 1..MaxBacklog + 1 : BroughtAt(s, i)' => BroughtAt(s, i + e)

LEMMA TasksKept ==
  ASSUME OneTask, Shifted, \A c \in Connectors : Active(c)' => Active(c),
         requests' \subseteq requests, cmdMaps \in Nat, cmdMaps' \in 0..cmdMaps
  PROVE  OneTask'
<1>1. PICK s \in Sockets, d \in Nat, e \in Nat :
        /\ \A u \in Sockets : u # s => sock'[u] = sock[u]
        /\ \A i \in 1..MaxAsked : AskedAt(s, i)' => AskedAt(s, i + d)
        /\ \A i \in 1..MaxBacklog + 1 : BroughtAt(s, i)' => BroughtAt(s, i + e)
  BY DEF Shifted
<1> QED BY <1>1, TasksStay, BoundsAreNat

\* Types of the field and the sockets, and plain sockets.
SocksOK == mMainSocket \in Sockets \cup {NoSocket} /\ SockOK /\ PlainSockets

LEMMA SockIs ==
  ASSUME SocksOK, NEW s \in Sockets
  PROVE  /\ sock[s] \in SocketRecord /\ Plain(sock[s])
         /\ sock[s].asked \in Seq(Request) /\ sock[s].in \in Seq(Piece)
         /\ Len(sock[s].asked) \in Nat /\ Len(sock[s].in) \in Nat
  BY RecordFields DEF SocksOK, SockOK, PlainSockets

\* A change of one socket that keeps what is asked and what comes in.
LEMMA SamePlaces ==
  ASSUME NEW s \in Sockets, Others(s), sock'[s].asked = sock[s].asked \/ sock'[s].asked = <<>>,
         sock'[s].in = sock[s].in \/ sock'[s].in = <<>>
  PROVE  Shifted
<1>1. \A i \in 1..MaxAsked : AskedAt(s, i)' => AskedAt(s, i + 0)
  <2>1. CASE sock'[s].asked = sock[s].asked
    BY <2>1, BoundsAreNat DEF AskedAt
  <2>2. CASE sock'[s].asked = <<>>
    <3>1. ASSUME NEW i \in 1..MaxAsked PROVE ~(i <= Len(<<>>))
      BY BoundsAreNat
    <3> QED BY <2>2, <3>1 DEF AskedAt
  <2> QED BY <2>1, <2>2
<1>2. \A i \in 1..MaxBacklog + 1 : BroughtAt(s, i)' => BroughtAt(s, i + 0)
  <2>1. CASE sock'[s].in = sock[s].in
    BY <2>1, BoundsAreNat DEF BroughtAt
  <2>2. CASE sock'[s].in = <<>>
    <3>1. ASSUME NEW i \in 1..MaxBacklog + 1 PROVE ~(i <= Len(<<>>))
      BY BoundsAreNat
    <3> QED BY <2>2, <3>1 DEF BroughtAt
  <2> QED BY <2>1, <2>2
<1> QED BY <1>1, <1>2 DEF Shifted, Others

LEMMA SameKeeps ==
  ASSUME SocksOK, UNCHANGED sock, mMainSocket' \in Sockets \cup {NoSocket}
  PROVE  SocksOK' /\ Shifted
<1>1. PICK s \in Sockets : TRUE
  BY SocketsAre
<1>2. SocksOK'
  BY DEF SocksOK, SockOK, PlainSockets, Plain
<1>3. Shifted
  BY SamePlaces DEF Others
<1> QED BY <1>2, <1>3

LEMMA MakeKeeps ==
  ASSUME SocksOK, Make, Fresh \in Sockets
  PROVE  SocksOK' /\ Shifted /\ mMainSocket' = Fresh /\ sock'[Fresh] = NewSocket /\ Others(Fresh)
<1>1. mMainSocket' = Fresh /\ SockOK' /\ sock'[Fresh] = NewSocket /\ Others(Fresh)
  BY MakeDoes DEF SocksOK
<1>2. PlainSockets'
  BY <1>1, PlainFresh, PlainOthers DEF SocksOK
<1>3. Shifted
  BY <1>1, NewRecord, SamePlaces
<1> QED BY <1>1, <1>2, <1>3 DEF SocksOK

LEMMA CloseKeeps ==
  ASSUME SocksOK, CloseMain
  PROVE  SocksOK' /\ Shifted
<1>1. /\ mMainSocket' = NoSocket /\ SockOK'
      /\ \/ UNCHANGED sock
         \/ mMainSocket \in Sockets /\ sock'[mMainSocket] = Closed /\ Others(mMainSocket)
  BY CloseDoes DEF SocksOK
<1>2. CASE UNCHANGED sock
  BY <1>1, <1>2, SameKeeps
<1>3. CASE mMainSocket \in Sockets /\ sock'[mMainSocket] = Closed /\ Others(mMainSocket)
  <2>1. PlainSockets'
    BY <1>3, PlainFresh, PlainOthers DEF SocksOK
  <2>2. Shifted
    BY <1>3, ClosedRecord, SamePlaces
  <2> QED BY <1>1, <2>1, <2>2 DEF SocksOK
<1> QED BY <1>1, <1>2, <1>3

LEMMA SendKeeps ==
  ASSUME SocksOK, NEW r \in Request \ {"rest"}, Send(r), mMainSocket \in Sockets,
         r = "verify" => Unverified(sock[mMainSocket])
  PROVE  SocksOK' /\ (r # "agent" => Shifted)
<1> DEFINE s == mMainSocket
<1>1. /\ mMainSocket' = mMainSocket /\ SockOK' /\ Others(s)
      /\ SameBut(sock[s], sock'[s], {"asked", "timed"})
      /\ \/ sock'[s].asked = sock[s].asked
         \/ /\ sock[s].st = "open" /\ Len(sock[s].asked) < MaxAsked
            /\ sock'[s].asked = Append(sock[s].asked, r)
  BY SendDoes DEF SocksOK
<1>2. sock[s] \in SocketRecord /\ sock'[s] \in SocketRecord /\ Plain(sock[s]) /\ sock[s].asked \in Seq(Request)
      /\ Len(sock[s].asked) \in Nat
  BY <1>1, SockIs DEF SockOK
<1>3. Plain(sock'[s])
  BY <1>1, <1>2, PlainSend
<1>4. PlainSockets'
  BY <1>1, <1>3, PlainOthers DEF SocksOK
<1>5. ASSUME r # "agent" PROVE Shifted
  <2>1. sock'[s].in = sock[s].in
    BY <1>1 DEF SameBut
  <2>2. CASE sock'[s].asked = sock[s].asked
    BY <1>1, <2>1, <2>2, SamePlaces
  <2>3. CASE sock'[s].asked = Append(sock[s].asked, r)
    <3> DEFINE q == sock[s].asked
               a == sock'[s].asked
    <3>1. Len(a) = Len(q) + 1 /\ a[Len(q) + 1] = r /\ \A i \in 1..Len(q) : a[i] = q[i]
      <4>1. a = Append(q, r) /\ q \in Seq(Request)
        BY <1>2, <2>3
      <4> HIDE DEF a, q
      <4> QED BY <4>1, AppendProperties
    <3>2. ASSUME NEW i \in 1..MaxAsked, AskedAt(s, i)' PROVE AskedAt(s, i + 0)
      <4>1. i <= Len(a) /\ a[i] = "agent" /\ i \in Nat /\ i >= 1
        BY <1>1, <3>2, BoundsAreNat DEF AskedAt
      <4>2. i \in 1..Len(q)
        BY <1>2, <1>5, <3>1, <4>1
      <4> QED BY <3>1, <4>1, <4>2, BoundsAreNat DEF AskedAt
    <3>3. \A i \in 1..MaxBacklog + 1 : BroughtAt(s, i)' => BroughtAt(s, i + 0)
      BY <1>1, <2>1, BoundsAreNat DEF BroughtAt
    <3> QED BY <1>1, <3>2, <3>3 DEF Shifted, Others
  <2> QED BY <1>1, <2>2, <2>3
<1> QED BY <1>1, <1>4, <1>5 DEF SocksOK

LEMMA ReadKeeps ==
  ASSUME SocksOK, NEW s \in Sockets, NEW n \in Nat, UNCHANGED mMainSocket,
         \/ sock' = [sock EXCEPT ![s].in = Rest(s, n)]
         \/ sock' = [sock EXCEPT ![s].in = Rest(s, n), ![s].timed = TRUE]
  PROVE  /\ SocksOK' /\ Shifted /\ Others(s) /\ SameBut(sock[s], sock'[s], {"in", "timed"})
         /\ Len(sock'[s].in) = IF n <= Len(sock[s].in) THEN Len(sock[s].in) - n ELSE 0
         /\ \A i \in 1..Len(sock'[s].in) : sock'[s].in[i] = sock[s].in[i + n]
         /\ \A i \in 1..MaxAsked : AskedAt(s, i)' => AskedAt(s, i + 0)
         /\ \A i \in 1..MaxBacklog + 1 : BroughtAt(s, i)' => BroughtAt(s, i + n)
<1>1. /\ SockOK' /\ Others(s) /\ SameBut(sock[s], sock'[s], {"in", "timed"})
      /\ sock'[s].in = Rest(s, n)
  BY ReadDoes DEF SocksOK
<1>2. /\ Len(sock'[s].in) = IF n <= Len(sock[s].in) THEN Len(sock[s].in) - n ELSE 0
      /\ \A i \in 1..Len(sock'[s].in) : sock'[s].in[i] = sock[s].in[i + n]
  BY <1>1, RestIs DEF SocksOK
<1>3. /\ sock[s] \in SocketRecord /\ sock'[s] \in SocketRecord /\ Plain(sock[s])
      /\ Len(sock[s].in) \in Nat
  BY <1>1, SockIs DEF SockOK
<1>4. PlainSockets'
  <2>1. Plain(sock'[s])
    BY <1>1, <1>2, <1>3, PlainRead
  <2> QED BY <1>1, <2>1, PlainOthers DEF SocksOK
<1>5. \A i \in 1..MaxAsked : AskedAt(s, i)' => AskedAt(s, i + 0)
  BY <1>1, BoundsAreNat DEF AskedAt, SameBut
<1>6. ASSUME NEW i \in 1..MaxBacklog + 1, BroughtAt(s, i)' PROVE BroughtAt(s, i + n)
  <2>1. i <= Len(sock'[s].in) /\ sock'[s].in[i] = "address"
    BY <1>6 DEF BroughtAt
  <2>2. Len(sock[s].in) <= MaxBacklog + 1
    BY <1>3 DEF Plain
  <2>3. i + n \in 1..MaxBacklog + 1 /\ i + n <= Len(sock[s].in) /\ i \in 1..Len(sock'[s].in)
    <3> DEFINE L == Len(sock[s].in)
               M == Len(sock'[s].in)
    <3>1. M = (IF n <= L THEN L - n ELSE 0) /\ L \in Nat /\ L <= MaxBacklog + 1 /\ i <= M /\ MaxBacklog \in Nat
      BY <1>2, <1>3, <2>1, <2>2, BoundsAreNat
    <3>2. i \in Nat /\ i >= 1
      BY BoundsAreNat
    <3> HIDE DEF L, M
    <3>3. i + n \in 1..MaxBacklog + 1 /\ i + n <= L /\ i \in 1..M
      BY <3>1, <3>2
    <3> QED BY <3>3 DEF L, M
  <2> QED BY <1>2, <2>1, <2>3 DEF BroughtAt
<1>7. Shifted
  BY <1>1, <1>5, <1>6 DEF Shifted, Others
<1> QED BY <1>1, <1>2, <1>4, <1>5, <1>6, <1>7 DEF SocksOK

LEMMA ConnectKeeps ==
  ASSUME SocksOK, NEW s \in Sockets, NEW p \in {"main", "agent"}, sock[s].st = "new",
         sock' = [sock EXCEPT ![s].st = "open", ![s].peer = p], UNCHANGED mMainSocket
  PROVE  /\ SocksOK' /\ Shifted /\ Others(s) /\ SameBut(sock[s], sock'[s], {"st", "peer"})
         /\ sock'[s].st = "open" /\ sock'[s].peer = p
<1>1. /\ SockOK' /\ Others(s) /\ SameBut(sock[s], sock'[s], {"st", "peer"})
      /\ sock'[s].st = "open" /\ sock'[s].peer = p
  BY ConnectDoes DEF SocksOK
<1>2. Plain(sock'[s])
  <2>1. sock[s] \in SocketRecord /\ sock'[s] \in SocketRecord /\ Plain(sock[s])
    BY <1>1, SockIs DEF SockOK
  <2> QED BY <1>1, <2>1, PlainConnect
<1>3. sock'[s].in = sock[s].in /\ sock'[s].asked = sock[s].asked
  BY <1>1 DEF SameBut
<1> QED BY <1>1, <1>2, <1>3, PlainOthers, SamePlaces DEF SocksOK

LEMMA EndKeeps ==
  ASSUME SocksOK, NEW s \in Sockets, EndStream(s)
  PROVE  SocksOK' /\ Shifted
<1>1. /\ SockOK' /\ Others(s) /\ SameBut(sock[s], sock'[s], {"st", "asked"})
      /\ sock'[s].st = "ended" /\ sock'[s].asked = <<>> /\ UNCHANGED mMainSocket
  BY EndDoes DEF SocksOK
<1>2. Plain(sock'[s])
  <2>1. sock[s] \in SocketRecord /\ sock'[s] \in SocketRecord /\ Plain(sock[s])
    BY <1>1, SockIs DEF SockOK
  <2> QED BY <1>1, <2>1, PlainEnd
<1>3. sock'[s].in = sock[s].in
  BY <1>1 DEF SameBut
<1> QED BY <1>1, <1>2, <1>3, PlainOthers, SamePlaces DEF SocksOK

\* An answer, for one socket.
LEMMA AnswerIs ==
  ASSUME SocksOK, NEW s \in Sockets, NEW splits \in BOOLEAN, Answer(s, splits)
  PROVE  /\ SocksOK' /\ Others(s) /\ SameBut(sock[s], sock'[s], {"in", "asked", "known"})
         /\ sock[s].st = "open" /\ UNCHANGED <<mMainSocket, held, up>>
         /\ sock'[s].known = (sock[s].known \/ Head(sock[s].asked) = "verify")
         /\ \E add \in Seq(Piece) : /\ Answered(sock[s], sock'[s], add)
                                    /\ AnswerOf(sock[s], add, sock'[s].asked)
<1>1. /\ sock[s].st = "open" /\ sock[s].asked # <<>> /\ SockOK' /\ Others(s)
      /\ SameBut(sock[s], sock'[s], {"in", "asked", "known"})
      /\ sock'[s].known = (sock[s].known \/ Head(sock[s].asked) = "verify")
      /\ UNCHANGED <<mMainSocket, held, up>>
  BY AnswerDoes, BoundsAreNat DEF SocksOK
<1>2. PICK add \in Seq(Piece) : /\ AnswerOf(sock[s], add, sock'[s].asked)
                                /\ sock'[s].in = sock[s].in \o add
                                /\ Len(sock[s].in) + Len(add) <= MaxBacklog + 1
  BY AnswerDoes, BoundsAreNat DEF SocksOK
<1>3. sock[s] \in SocketRecord /\ sock'[s] \in SocketRecord /\ Plain(sock[s])
  BY <1>1, SockIs DEF SockOK
<1>4. Answered(sock[s], sock'[s], add)
  BY <1>1, <1>2, <1>3, AnsweredIs
<1>5. Plain(sock'[s])
  BY <1>1, <1>2, <1>3, PlainAnswer
<1>6. PlainSockets'
  BY <1>1, <1>5, PlainOthers DEF SocksOK
<1> QED BY <1>1, <1>2, <1>4, <1>6 DEF SocksOK

LEMMA AnswerKeeps ==
  ASSUME SocksOK, NEW s \in Sockets, NEW splits \in BOOLEAN, Answer(s, splits), OneTask,
         UNCHANGED <<conn, requests, cmdMaps>>, cmdMaps \in Nat
  PROVE  SocksOK' /\ OneTask'
<1> DEFINE k == sock[s]
           n == sock'[s]
<1>1. SocksOK' /\ Others(s) /\ SameBut(k, n, {"in", "asked", "known"})
  BY AnswerIs
<1>2. PICK add \in Seq(Piece) : Answered(k, n, add) /\ AnswerOf(k, add, n.asked)
  BY AnswerIs
<1>3. /\ Len(k.asked) \in Nat /\ Len(k.in) \in Nat /\ Len(add) \in Nat
      /\ Len(k.asked) >= 1 /\ Head(k.asked) = k.asked[1]
      /\ Len(n.in) = Len(k.in) + Len(add)
  BY <1>2, SockIs DEF Answered
<1>4. Len(k.asked) <= MaxAsked /\ Len(k.in) <= MaxBacklog + 1
  BY SockIs DEF Plain
<1>5. ASSUME NEW i \in 1..MaxBacklog + 1, BroughtAt(s, i)'
      PROVE  BroughtAt(s, i + 0) \/ (k.asked[1] = "agent" /\ i = Len(k.in) + 2)
  <2>1. i <= Len(n.in) /\ n.in[i] = "address" /\ i \in Nat /\ i >= 1
    BY <1>5, BoundsAreNat DEF BroughtAt
  <2>2. CASE i <= Len(k.in)
    <3>1. i \in 1..Len(k.in)
      BY <1>3, <2>1, <2>2
    <3>2. k.in[i] = "address"
      BY <1>2, <2>1, <3>1 DEF Answered
    <3> HIDE DEF n
    <3> QED BY <2>1, <2>2, <3>2 DEF BroughtAt
  <2>3. CASE ~(i <= Len(k.in))
    <3>1. i - Len(k.in) \in 1..Len(add) /\ Len(k.in) + (i - Len(k.in)) = i
      <4> DEFINE L == Len(k.in)
                 M == Len(n.in)
                 A == Len(add)
      <4>1. L \in Nat /\ A \in Nat /\ M = L + A /\ i <= M /\ i \in Nat /\ ~(i <= L)
        BY <1>3, <2>1, <2>3
      <4> HIDE DEF L, M, A
      <4>2. i - L \in 1..A /\ L + (i - L) = i
        BY <4>1
      <4> QED BY <4>2 DEF L, A
    <3>2. add[i - Len(k.in)] = "address"
      BY <1>2, <2>1, <3>1 DEF Answered
    <3>3. i - Len(k.in) = 2 /\ Head(k.asked) = "agent"
      BY <1>2, <3>1, <3>2, AddedIs
    <3> QED BY <1>3, <2>1, <3>3
  <2> QED BY <2>2, <2>3
<1>6. CASE k.asked[1] # "agent"
  <2>1. \A i \in 1..MaxBacklog + 1 : BroughtAt(s, i)' => BroughtAt(s, i + 0)
    BY <1>5, <1>6
  <2>2. CASE Len(n.asked) = Len(k.asked) - 1 /\ \A i \in 1..Len(n.asked) : n.asked[i] = k.asked[i + 1]
    <3>1. ASSUME NEW i \in 1..MaxAsked, AskedAt(s, i)' PROVE AskedAt(s, i + 1)
      <4>1. i <= Len(n.asked) /\ n.asked[i] = "agent" /\ i \in Nat /\ i >= 1
        BY <3>1, BoundsAreNat DEF AskedAt
      <4>2. i \in 1..Len(n.asked) /\ i + 1 <= Len(k.asked) /\ i + 1 \in 1..MaxAsked
        BY <1>3, <1>4, <2>2, <4>1, BoundsAreNat
      <4> QED BY <2>2, <4>1, <4>2 DEF AskedAt
    <3>2. Shifted
      BY <1>1, <2>1, <3>1 DEF Shifted, Others
    <3> QED BY <1>1, <3>2, TasksKept DEF Active
  <2>3. CASE /\ k.asked[1] = "verify" /\ Len(n.asked) = Len(k.asked)
             /\ n.asked[1] = "rest" /\ \A i \in 2..Len(n.asked) : n.asked[i] = k.asked[i]
    <3>1. ASSUME NEW i \in 1..MaxAsked, AskedAt(s, i)' PROVE AskedAt(s, i + 0)
      <4>1. i <= Len(n.asked) /\ n.asked[i] = "agent" /\ i \in Nat /\ i >= 1
        BY <3>1, BoundsAreNat DEF AskedAt
      <4>2. i # 1
        BY <2>3, <4>1
      <4>3. i \in 2..Len(n.asked)
        BY <1>3, <2>3, <4>1, <4>2
      <4>4. k.asked[i] = "agent" /\ i <= Len(k.asked)
        BY <2>3, <4>1, <4>3
      <4> QED BY <4>1, <4>4 DEF AskedAt
    <3>2. Shifted
      BY <1>1, <2>1, <3>1 DEF Shifted, Others
    <3> QED BY <1>1, <3>2, TasksKept DEF Active
  <2> QED BY <1>2, <2>2, <2>3 DEF Answered
<1>7. CASE k.asked[1] = "agent"
  <2>1. AskedAt(s, 1) /\ 1 \in 1..MaxAsked
    BY <1>3, <1>4, <1>7, BoundsAreNat DEF AskedAt
  <2>2. \A y : IsTask(y) => y = <<"asked", "of", s, 1>>
    <3>1. IsTask(<<"asked", "of", s, 1>>)
      BY <2>1 DEF IsTask
    <3> QED BY <3>1, OnlyTask
  <2>3. ASSUME NEW y, IsTask(y)' PROVE y = <<"in", "of", s, Len(k.in) + 2>>
    <3>1. ASSUME NEW c \in Connectors, Active(c)' PROVE FALSE
      <4>1. IsTask(<<"conn", c, NoSocket, 0>>)
        BY <3>1 DEF IsTask, Active
      <4>2. <<"conn", c, NoSocket, 0>> = <<"asked", "of", s, 1>>
        BY <2>2, <4>1
      <4> QED BY <4>2
    <3>2. ASSUME NEW r \in requests' PROVE FALSE
      <4>1. IsTask(<<"request", r, NoSocket, 0>>)
        BY <3>2 DEF IsTask
      <4>2. <<"request", r, NoSocket, 0>> = <<"asked", "of", s, 1>>
        BY <2>2, <4>1
      <4> QED BY <4>2
    <3>3. ASSUME NEW u \in Sockets, NEW i \in 1..MaxAsked, AskedAt(u, i)' PROVE FALSE
      <4>1. \E m \in 1..MaxAsked : AskedAt(u, m) /\ (u = s => m # 1)
        <5>1. CASE u = s
          <6>1. Len(n.asked) = Len(k.asked) - 1 /\ \A m \in 1..Len(n.asked) : n.asked[m] = k.asked[m + 1]
            BY <1>2, <1>7 DEF Answered
          <6>2. i <= Len(n.asked) /\ n.asked[i] = "agent" /\ i \in Nat /\ i >= 1
            BY <3>3, <5>1, BoundsAreNat DEF AskedAt
          <6>3. i \in 1..Len(n.asked) /\ i + 1 <= Len(k.asked) /\ i + 1 \in 1..MaxAsked /\ i + 1 # 1
            BY <1>3, <1>4, <6>1, <6>2, BoundsAreNat
          <6>4. AskedAt(s, i + 1)
            BY <6>1, <6>2, <6>3 DEF AskedAt
          <6> QED BY <5>1, <6>3, <6>4
        <5>2. CASE u # s
          BY <1>1, <3>3, <5>2 DEF AskedAt, Others
        <5> QED BY <5>1, <5>2
      <4>2. PICK m \in 1..MaxAsked : AskedAt(u, m) /\ (u = s => m # 1)
        BY <4>1
      <4>3. IsTask(<<"asked", "of", u, m>>)
        BY <4>2 DEF IsTask
      <4>4. <<"asked", "of", u, m>> = <<"asked", "of", s, 1>>
        BY <2>2, <4>3
      <4> QED BY <4>2, <4>4
    <3>4. ASSUME NEW u \in Sockets, NEW i \in 1..MaxBacklog + 1, BroughtAt(u, i)'
          PROVE  u = s /\ i = Len(k.in) + 2
      <4>1. BroughtAt(u, i) \/ (u = s /\ i = Len(k.in) + 2)
        <5>1. CASE u = s
          <6>1. i + 0 = i
            BY BoundsAreNat
          <6> QED BY <1>5, <3>4, <5>1, <6>1
        <5>2. CASE u # s
          BY <1>1, <3>4, <5>2 DEF BroughtAt, Others
        <5> QED BY <5>1, <5>2
      <4>2. ~BroughtAt(u, i)
        <5>1. SUFFICES ASSUME BroughtAt(u, i) PROVE FALSE
          OBVIOUS
        <5>2. IsTask(<<"in", "of", u, i>>)
          BY <5>1 DEF IsTask
        <5>3. <<"in", "of", u, i>> = <<"asked", "of", s, 1>>
          BY <2>2, <5>2
        <5> QED BY <5>3
      <4> QED BY <4>1, <4>2
    <3>5. ASSUME NEW m \in 1..cmdMaps' PROVE FALSE
      <4>1. IsTask(<<"address", "of", NoSocket, m>>)
        BY <3>5 DEF IsTask
      <4>2. <<"address", "of", NoSocket, m>> = <<"asked", "of", s, 1>>
        BY <2>2, <4>1
      <4> QED BY <4>2
    <3> QED BY <2>3, <3>1, <3>2, <3>3, <3>4, <3>5 DEF IsTask
  <2> QED BY <1>1, <2>3, OneTaskAfter
<1> QED BY <1>1, <1>6, <1>7

-----------------------------------------------------------------------------
\* A task that becomes another one.

\* All that is under way is the task x, so nothing is of another kind.
LEMMA NoOther ==
  ASSUME OneTask, NEW x, IsTask(x)
  PROVE  /\ \A c \in Connectors : Active(c) => <<"conn", c, NoSocket, 0>> = x
         /\ \A r \in requests : <<"request", r, NoSocket, 0>> = x
         /\ \A s \in Sockets : \A i \in 1..MaxAsked : AskedAt(s, i) => <<"asked", "of", s, i>> = x
         /\ \A s \in Sockets : \A i \in 1..MaxBacklog + 1 : BroughtAt(s, i) => <<"in", "of", s, i>> = x
         /\ \A n \in 1..cmdMaps : <<"address", "of", NoSocket, n>> = x
<1>1. \A y : IsTask(y) => y = x
  BY OnlyTask
<1>2. ASSUME NEW c \in Connectors, Active(c) PROVE IsTask(<<"conn", c, NoSocket, 0>>)
  BY <1>2 DEF IsTask
<1>3. ASSUME NEW r \in requests PROVE IsTask(<<"request", r, NoSocket, 0>>)
  BY DEF IsTask
<1>4. ASSUME NEW s \in Sockets, NEW i \in 1..MaxAsked, AskedAt(s, i) PROVE IsTask(<<"asked", "of", s, i>>)
  BY <1>4 DEF IsTask
<1>5. ASSUME NEW s \in Sockets, NEW i \in 1..MaxBacklog + 1, BroughtAt(s, i) PROVE IsTask(<<"in", "of", s, i>>)
  BY <1>5 DEF IsTask
<1>6. ASSUME NEW n \in 1..cmdMaps PROVE IsTask(<<"address", "of", NoSocket, n>>)
  BY DEF IsTask
<1> QED BY <1>1, <1>2, <1>3, <1>4, <1>5, <1>6

LEMMA WhileRequested ==
  ASSUME OneTask, NEW r \in requests, cmdMaps \in Nat
  PROVE  /\ \A c \in Connectors : ~Active(c)
         /\ requests = {r} /\ cmdMaps = 0
         /\ \A s \in Sockets : \A i \in 1..MaxAsked : ~AskedAt(s, i)
         /\ \A s \in Sockets : \A i \in 1..MaxBacklog + 1 : ~BroughtAt(s, i)
<1> DEFINE x == <<"request", r, NoSocket, 0>>
<1>1. IsTask(x)
  BY DEF IsTask
<1>2. /\ \A c \in Connectors : Active(c) => <<"conn", c, NoSocket, 0>> = x
      /\ \A q \in requests : <<"request", q, NoSocket, 0>> = x
      /\ \A s \in Sockets : \A i \in 1..MaxAsked : AskedAt(s, i) => <<"asked", "of", s, i>> = x
      /\ \A s \in Sockets : \A i \in 1..MaxBacklog + 1 : BroughtAt(s, i) => <<"in", "of", s, i>> = x
      /\ \A n \in 1..cmdMaps : <<"address", "of", NoSocket, n>> = x
  <2> HIDE DEF x
  <2> QED BY <1>1, NoOther
<1>3. cmdMaps = 0
  <2>1. 1 \notin 1..cmdMaps
    BY <1>2
  <2> QED BY <2>1
<1>4. requests = {r}
  <2>1. \A q \in requests : q = r
    BY <1>2
  <2> QED BY <2>1
<1>5. \A c \in Connectors : ~Active(c)
  BY <1>2
<1>6. \A s \in Sockets : \A i \in 1..MaxAsked : ~AskedAt(s, i)
  BY <1>2
<1>7. \A s \in Sockets : \A i \in 1..MaxBacklog + 1 : ~BroughtAt(s, i)
  BY <1>2
<1> QED BY <1>3, <1>4, <1>5, <1>6, <1>7

\* A request to be sent takes the place of the thread that connected.
LEMMA ProceedTask ==
  ASSUME OneTask, cmdMaps \in Nat, NEW c \in Connectors, Active(c), ~Active(c)', NEW r,
         \A d \in Connectors : d # c => conn'[d] = conn[d],
         requests' = requests \cup {r}, UNCHANGED <<sock, cmdMaps>>
  PROVE  OneTask'
<1>1. /\ \A d \in Connectors : Active(d) => d = c
      /\ requests = {} /\ cmdMaps = 0
      /\ \A s \in Sockets : \A i \in 1..MaxAsked : ~AskedAt(s, i)
      /\ \A s \in Sockets : \A i \in 1..MaxBacklog + 1 : ~BroughtAt(s, i)
  BY WhileActive
<1>2. \A d \in Connectors : ~Active(d)'
  BY <1>1 DEF Active
<1>3. requests' = {r} /\ cmdMaps' = 0
  BY <1>1
<1>4. \A s \in Sockets : \A i \in 1..MaxAsked : ~AskedAt(s, i)'
  BY <1>1 DEF AskedAt
<1>5. \A s \in Sockets : \A i \in 1..MaxBacklog + 1 : ~BroughtAt(s, i)'
  BY <1>1 DEF BroughtAt
<1>6. ASSUME NEW y, IsTask(y)' PROVE y = <<"request", r, NoSocket, 0>>
  <2>1. 1..cmdMaps' = {}
    BY <1>3
  <2> QED BY <1>2, <1>3, <1>4, <1>5, <1>6, <2>1 DEF IsTask
<1> QED BY <1>6, OneTaskAfter

\* A request that is sent: it is on its way, or lost.
LEMMA SendTask ==
  ASSUME SocksOK, OneTask, cmdMaps \in Nat, NEW r \in requests, requests \subseteq {"agent", "login"},
         mMainSocket = NoSocket => Fresh \in Sockets,
         Send(r), requests' = requests \ {r}, UNCHANGED <<conn, cmdMaps>>
  PROVE  SocksOK' /\ OneTask'
<1>0. r \in Request \ {"rest"} /\ r # "verify"
  BY DEF Request
<1>1. CASE mMainSocket = NoSocket
  <2>1. SocksOK' /\ Shifted
    BY <1>1, MakeKeeps DEF Send
  <2> QED BY <2>1, TasksKept DEF Active
<1>2. CASE mMainSocket # NoSocket
  <2>0. PICK s \in Sockets : s = mMainSocket
    BY <1>2 DEF SocksOK
  <2>1. SocksOK' /\ (r # "agent" => Shifted)
    BY <1>0, <2>0, SendKeeps
  <2>2. CASE r # "agent"
    BY <2>1, <2>2, TasksKept DEF Active
  <2>3. CASE r = "agent"
    <3>1. /\ \A c \in Connectors : ~Active(c)
          /\ requests = {r} /\ cmdMaps = 0
          /\ \A u \in Sockets : \A i \in 1..MaxAsked : ~AskedAt(u, i)
          /\ \A u \in Sockets : \A i \in 1..MaxBacklog + 1 : ~BroughtAt(u, i)
      BY WhileRequested
    <3>2. /\ Others(s) /\ SameBut(sock[s], sock'[s], {"asked", "timed"})
          /\ \/ sock'[s].asked = sock[s].asked
             \/ sock'[s].asked = Append(sock[s].asked, r)
      BY <1>0, <2>0, SendDoes DEF SocksOK
    <3> DEFINE q == sock[s].asked
               a == sock'[s].asked
    <3>3. q \in Seq(Request) /\ Len(q) \in Nat
      BY <2>0, SockIs
    <3>4. ASSUME NEW i \in 1..MaxAsked, AskedAt(s, i)' PROVE i = Len(q) + 1
      <4>1. i <= Len(a) /\ a[i] = "agent" /\ i \in Nat /\ i >= 1
        BY <3>4, BoundsAreNat DEF AskedAt
      <4>2. ~(i <= Len(q) /\ q[i] = "agent")
        BY <2>0, <3>1 DEF AskedAt
      <4>3. CASE a = q
        BY <4>1, <4>2, <4>3
      <4>4. CASE a = Append(q, r)
        <5>1. Len(a) = Len(q) + 1 /\ \A m \in 1..Len(q) : a[m] = q[m]
          <6>1. a = Append(q, r) /\ q \in Seq(Request) /\ r \in Request
            BY <1>0, <3>3, <4>4
          <6> HIDE DEF a, q
          <6> QED BY <6>1, AppendProperties
        <5>2. i <= Len(q) => i \in 1..Len(q)
          BY <3>3, <4>1
        <5> HIDE DEF a, q
        <5> QED BY <3>3, <4>1, <4>2, <5>1, <5>2
      <4> QED BY <3>2, <4>3, <4>4
    <3>5. ASSUME NEW u \in Sockets, NEW i \in 1..MaxAsked, AskedAt(u, i)' PROVE u = s /\ i = Len(q) + 1
      <4>1. CASE u = s BY <3>4, <3>5, <4>1
      <4>2. CASE u # s
        <5>1. AskedAt(u, i)
          BY <3>2, <3>5, <4>2 DEF AskedAt, Others
        <5> QED BY <3>1, <5>1
      <4> QED BY <4>1, <4>2
    <3>6. ASSUME NEW u \in Sockets, NEW i \in 1..MaxBacklog + 1 PROVE ~BroughtAt(u, i)'
      <4>1. sock'[u].in = sock[u].in
        BY <3>2 DEF Others, SameBut
      <4> QED BY <3>1, <4>1 DEF BroughtAt
    <3>7. requests' = {} /\ cmdMaps' = 0 /\ \A c \in Connectors : ~Active(c)'
      BY <3>1 DEF Active
    <3>8. ASSUME NEW y, IsTask(y)' PROVE y = <<"asked", "of", s, Len(q) + 1>>
      <4>1. 1..cmdMaps' = {}
        BY <3>7
      <4> HIDE DEF q
      <4> QED BY <3>5, <3>6, <3>7, <3>8, <4>1 DEF IsTask
    <3> QED BY <2>1, <3>8, OneTaskAfter
  <2> QED BY <2>2, <2>3
<1> QED BY <1>1, <1>2

\* DoCmdThread takes the address.
LEMMA TakeTask ==
  ASSUME OneTask, cmdMaps \in Nat, cmdMaps > 0, cmdMaps' = cmdMaps - 1, NEW c \in Connectors,
         \A d \in Connectors : d # c => conn'[d] = conn[d], UNCHANGED <<sock, requests>>
  PROVE  OneTask'
<1> DEFINE x == <<"address", "of", NoSocket, 1>>
<1>1. 1 \in 1..cmdMaps /\ IsTask(x)
  <2>1. 1 \in 1..cmdMaps
    OBVIOUS
  <2> QED BY <2>1 DEF IsTask
<1>2. /\ \A d \in Connectors : Active(d) => <<"conn", d, NoSocket, 0>> = x
      /\ \A q \in requests : <<"request", q, NoSocket, 0>> = x
      /\ \A s \in Sockets : \A i \in 1..MaxAsked : AskedAt(s, i) => <<"asked", "of", s, i>> = x
      /\ \A s \in Sockets : \A i \in 1..MaxBacklog + 1 : BroughtAt(s, i) => <<"in", "of", s, i>> = x
      /\ \A n \in 1..cmdMaps : <<"address", "of", NoSocket, n>> = x
  <2> HIDE DEF x
  <2> QED BY <1>1, NoOther
<1>3. \A d \in Connectors : ~Active(d)
  BY <1>2
<1>4. requests' = {}
  <2>1. \A q \in requests : FALSE
    BY <1>2
  <2> QED BY <2>1
<1>5. \A s \in Sockets : \A i \in 1..MaxAsked : ~AskedAt(s, i)'
  BY <1>2 DEF AskedAt
<1>6. \A s \in Sockets : \A i \in 1..MaxBacklog + 1 : ~BroughtAt(s, i)'
  BY <1>2 DEF BroughtAt
<1>7. cmdMaps = 1 /\ 1..cmdMaps' = {}
  <2>1. 2 \notin 1..cmdMaps
    BY <1>2
  <2> QED BY <2>1
<1>8. \A d \in Connectors : Active(d)' => d = c
  BY <1>3 DEF Active
<1>9. ASSUME NEW y, IsTask(y)' PROVE y = <<"conn", c, NoSocket, 0>>
  BY <1>4, <1>5, <1>6, <1>7, <1>8, <1>9 DEF IsTask
<1> QED BY <1>9, OneTaskAfter

\* The address arrives.
LEMMA AddressTask ==
  ASSUME OneTask, cmdMaps \in Nat, NEW s \in Sockets, BroughtAt(s, 1), Others(s),
         \A i \in 1..MaxAsked : AskedAt(s, i)' => AskedAt(s, i + 0),
         \A i \in 1..MaxBacklog + 1 : BroughtAt(s, i)' => BroughtAt(s, i + 1),
         cmdMaps' \in 0..cmdMaps + 1, UNCHANGED <<conn, requests>>
  PROVE  OneTask'
<1> DEFINE x == <<"in", "of", s, 1>>
<1>1. 1 \in 1..MaxBacklog + 1 /\ IsTask(x)
  <2>1. 1 \in 1..MaxBacklog + 1
    BY BoundsAreNat
  <2> QED BY <2>1 DEF IsTask
<1>2. /\ \A d \in Connectors : Active(d) => <<"conn", d, NoSocket, 0>> = x
      /\ \A q \in requests : <<"request", q, NoSocket, 0>> = x
      /\ \A u \in Sockets : \A i \in 1..MaxAsked : AskedAt(u, i) => <<"asked", "of", u, i>> = x
      /\ \A u \in Sockets : \A i \in 1..MaxBacklog + 1 : BroughtAt(u, i) => <<"in", "of", u, i>> = x
      /\ \A n \in 1..cmdMaps : <<"address", "of", NoSocket, n>> = x
  <2> HIDE DEF x
  <2> QED BY <1>1, NoOther
<1>3. \A d \in Connectors : ~Active(d)'
  BY <1>2 DEF Active
<1>4. requests' = {}
  <2>1. \A q \in requests : FALSE
    BY <1>2
  <2> QED BY <2>1
<1>5. \A u \in Sockets : \A i \in 1..MaxAsked : ~AskedAt(u, i)
  BY <1>2
<1>6. ASSUME NEW u \in Sockets, NEW i \in 1..MaxAsked, AskedAt(u, i)' PROVE FALSE
  <2>1. AskedAt(u, i)
    <3>1. CASE u = s
      <4>1. i + 0 = i
        BY BoundsAreNat
      <4> QED BY <1>6, <3>1, <4>1
    <3>2. CASE u # s BY <1>6, <3>2 DEF AskedAt, Others
    <3> QED BY <3>1, <3>2
  <2> QED BY <1>5, <2>1
<1>7. ASSUME NEW u \in Sockets, NEW i \in 1..MaxBacklog + 1, BroughtAt(u, i)' PROVE FALSE
  <2>1. CASE u = s
    <3>1. BroughtAt(s, i + 1)
      BY <1>7, <2>1
    <3>2. i + 1 \in 1..MaxBacklog + 1 /\ i + 1 # 1
      BY <3>1, BoundsAreNat DEF BroughtAt
    <3>3. <<"in", "of", s, i + 1>> = x
      BY <1>2, <3>1, <3>2
    <3> QED BY <3>2, <3>3
  <2>2. CASE u # s
    <3>1. BroughtAt(u, i)
      BY <1>7, <2>2 DEF BroughtAt, Others
    <3>2. <<"in", "of", u, i>> = x
      BY <1>2, <3>1
    <3> QED BY <2>2, <3>2
  <2> QED BY <2>1, <2>2
<1>8. cmdMaps = 0
  <2>1. 1 \notin 1..cmdMaps
    BY <1>2
  <2> QED BY <2>1
<1>9. ASSUME NEW y, IsTask(y)' PROVE y = <<"address", "of", NoSocket, 1>>
  <2>1. \A n \in 1..cmdMaps' : n = 1
    BY <1>8
  <2> QED BY <1>3, <1>4, <1>6, <1>7, <1>9, <2>1 DEF IsTask
<1> QED BY <1>9, OneTaskAfter

-----------------------------------------------------------------------------
\* Base after a step of a thread that connects, of ReceiveThread, and of others.

LEMMA BaseIs ==
  Base => /\ SocksOK /\ HeldOK /\ ControlOK /\ ConnOK /\ HoldInv /\ StartInv /\ OneTask
          /\ mMainSocket \in Sockets \cup {NoSocket} /\ cmdMaps \in Nat /\ up \in BOOLEAN
          /\ mMainSocket = NoSocket => Fresh \in Sockets
  BY FreshIsFree DEF Base, FieldOK, SocksOK, ControlOK

LEMMA ConnectorAfter ==
  ASSUME Base, NEW c \in Connectors, Active(c), ConnOK', conn'[c].pc # "service",
         \A d \in Connectors : d # c => conn'[d] = conn[d],
         SocksOK', up' \in BOOLEAN, HeldOK', \A u \in Threads : u # c => held'[u] = held[u],
         (held'[c] # NoSocket) <=> conn'[c].pc \in {"connect", "verify", "answer"},
         OneTask', requests' \subseteq {"agent", "login"}, timeOutTimes' \in 0..Attempts - 1,
         asking' \in BOOLEAN, collided' \in BOOLEAN, UNCHANGED <<receiving, main, reports, dead, limit>>
  PROVE  Base'
<1>1. UNCHANGED <<receiver, timed, j, cmdMaps, stop, left, reports, dead, limit>>
  BY DEF receiving, main
<1>2. ControlOK'
  BY <1>1 DEF Base, ControlOK
<1>3. HoldInv'
  BY <1>1, HoldByConnector DEF Base
<1>4. StartInv'
  <2>1. conn[c].pc # "none"
    BY DEF Active
  <2>2. CASE c = Starter
    BY <1>1, <2>1, <2>2, ThreadsAre DEF Base, StartInv, At
  <2>3. CASE c = Dispatcher
    BY <1>1, <2>1, <2>3, ThreadsAre DEF Base, StartInv, At
  <2> QED BY <2>2, <2>3, ThreadsAre
<1> QED BY <1>2, <1>3, <1>4 DEF Base, FieldOK, SocksOK

\* The task stays with the thread, or ends with it.
LEMMA ConnectorMoves ==
  ASSUME Base, NEW c \in Connectors, Active(c), ConnOK', conn'[c].pc # "service",
         \A d \in Connectors : d # c => conn'[d] = conn[d],
         SocksOK', Shifted, up' \in BOOLEAN, HeldOK', \A u \in Threads : u # c => held'[u] = held[u],
         (held'[c] # NoSocket) <=> conn'[c].pc \in {"connect", "verify", "answer"},
         UNCHANGED requests, timeOutTimes' \in 0..Attempts - 1,
         asking' \in BOOLEAN, collided' \in BOOLEAN, UNCHANGED <<receiving, main, reports, dead, limit>>
  PROVE  Base'
<1>1. \A d \in Connectors : Active(d)' => Active(d)
  BY DEF Active
<1>2. UNCHANGED cmdMaps /\ cmdMaps \in Nat /\ OneTask /\ requests \subseteq {"agent", "login"}
  BY DEF receiving, Base, ControlOK
<1>3. OneTask'
  BY <1>1, <1>2, TasksKept
<1> QED BY <1>2, <1>3, ConnectorAfter

LEMMA ReceiverAfter ==
  ASSUME Base, receiver # "none", SocksOK', up' \in BOOLEAN, HeldOK',
         \A u \in Threads : u # Receiver => held'[u] = held[u],
         receiver' \in Places \ {"none", "begin"},
         (held'[Receiver] # NoSocket)
           <=> receiver' \in {"address", "read", "byte", "body", "empty", "swallow"},
         OneTask', cmdMaps' \in Nat, j' \in 0..Patience, reports' \in BOOLEAN, timed' \in BOOLEAN,
         collided' \in BOOLEAN, dead' \in {"none", "address"},
         UNCHANGED <<connecting, main, asking, limit>>
  PROVE  Base'
<1>1. UNCHANGED <<conn, timeOutTimes, requests, stop, left, asking, limit>>
  BY DEF connecting, main
<1>2. ControlOK'
  BY <1>1 DEF Base, ControlOK, ConnOK
<1>3. HoldInv'
  BY <1>1, HoldByReceiver DEF Base
<1>4. StartInv'
  BY <1>1 DEF Base, StartInv, At
<1> QED BY <1>2, <1>3, <1>4 DEF Base, FieldOK, SocksOK

LEMMA ReceiverMoves ==
  ASSUME Base, receiver # "none", SocksOK', Shifted, up' \in BOOLEAN, HeldOK',
         \A u \in Threads : u # Receiver => held'[u] = held[u],
         receiver' \in Places \ {"none", "begin"},
         (held'[Receiver] # NoSocket)
           <=> receiver' \in {"address", "read", "byte", "body", "empty", "swallow"},
         UNCHANGED cmdMaps, j' \in 0..Patience, reports' \in BOOLEAN, timed' \in BOOLEAN,
         collided' \in BOOLEAN, dead' \in {"none", "address"},
         UNCHANGED <<connecting, main, asking, limit>>
  PROVE  Base'
<1>1. UNCHANGED <<conn, requests>> /\ cmdMaps \in Nat /\ OneTask
  BY DEF connecting, Base, ControlOK
<1>2. \A d \in Connectors : Active(d)' => Active(d)
  BY <1>1 DEF Active
<1>3. OneTask'
  BY <1>1, <1>2, TasksKept
<1> QED BY <1>1, <1>3, ReceiverAfter

\* Neither a thread that connects nor ReceiveThread.
LEMMA OtherAfter ==
  ASSUME Base, SocksOK', OneTask', up' \in BOOLEAN, UNCHANGED <<held, conn, timeOutTimes, receiving, limit>>,
         requests' \subseteq requests, stop' \in BOOLEAN, left' \in BOOLEAN, asking' \in BOOLEAN,
         reports' \in BOOLEAN, UNCHANGED <<collided, dead>>
  PROVE  Base'
<1>1. UNCHANGED <<receiver, timed, j, cmdMaps>>
  BY DEF receiving
<1>2. ControlOK' /\ HeldOK'
  BY <1>1 DEF Base, ControlOK, ConnOK, HeldOK
<1>3. HoldInv' /\ StartInv'
  BY <1>1 DEF Base, HoldInv, StartInv, At
<1> QED BY <1>2, <1>3 DEF Base, FieldOK, SocksOK

LEMMA GetInstanceKeeps ==
  ASSUME SocksOK, GetInstance, mMainSocket = NoSocket => Fresh \in Sockets
  PROVE  SocksOK' /\ Shifted
<1>1. CASE mMainSocket = NoSocket
  BY <1>1, MakeKeeps DEF GetInstance
<1>2. CASE mMainSocket # NoSocket
  BY <1>2, SameKeeps DEF GetInstance, SocksOK
<1> QED BY <1>1, <1>2

\* isAP()'s thread and DoCmdThread.
LEMMA ConnectorBase ==
  ASSUME Base, ConnInv, NEW c \in Connectors, ConnectorStep(c), UNCHANGED limit
  PROVE  Base'
<1> USE DEF Pcs
<1>0. /\ SocksOK /\ HeldOK /\ ControlOK /\ ConnOK /\ HoldInv /\ OneTask /\ cmdMaps \in Nat /\ up \in BOOLEAN
      /\ mMainSocket \in Sockets \cup {NoSocket} /\ (mMainSocket = NoSocket => Fresh \in Sockets)
      /\ asking \in BOOLEAN /\ collided \in BOOLEAN /\ timeOutTimes \in 0..Attempts - 1
      /\ requests \subseteq {"agent", "login"} /\ c \in Threads
      /\ held[c] \in Sockets \cup {NoSocket}
  BY BaseIs, ThreadsAre DEF ControlOK, HeldOK
<1>1. CASE Close(c)
  <2>1. /\ At(c, "close") /\ Go(c, "get") /\ CloseMain
        /\ UNCHANGED <<beating, timeOutTimes, requests, receiving, main, asking, reports, history, dead>>
    BY <1>1 DEF Close
  <2>2. /\ ConnOK' /\ conn'[c].pc = "get" /\ \A d \in Connectors : d # c => conn'[d] = conn[d]
    BY <1>0, <2>1, GoTypes
  <2>3. SocksOK' /\ Shifted /\ UNCHANGED <<held, up>>
    BY <1>0, <2>1, CloseKeeps DEF CloseMain
  <2>4. held[c] = NoSocket /\ Active(c)
    BY <1>0, <2>1 DEF HoldInv, At, Active
  <2>5. HeldOK' /\ UNCHANGED collided
    BY <1>0, <2>1, <2>3 DEF HeldOK, history
  <2> QED BY <1>0, <2>1, <2>2, <2>3, <2>4, <2>5, ConnectorMoves
<1>2. CASE Get(c)
  <2>1. /\ At(c, "get")
        /\ UNCHANGED <<mMainSocket, sock, up, beating, timeOutTimes, requests, receiving, main, asking, reports, history, dead>>
    BY <1>2 DEF Get
  <2>2. SocksOK' /\ Shifted /\ Active(c) /\ held[c] = NoSocket /\ UNCHANGED collided
    BY <1>0, <2>1, SameKeeps DEF HoldInv, At, Active, history
  <2>3. CASE mMainSocket = NoSocket
    <3>1. Go(c, "make") /\ UNCHANGED held
      BY <1>2, <2>3 DEF Get
    <3>2. ConnOK' /\ conn'[c].pc = "make" /\ \A d \in Connectors : d # c => conn'[d] = conn[d]
      BY <1>0, <3>1, GoTypes
    <3>3. HeldOK'
      BY <1>0, <3>1 DEF HeldOK
    <3> QED BY <1>0, <2>1, <2>2, <3>1, <3>2, <3>3, ConnectorMoves
  <2>4. CASE mMainSocket # NoSocket
    <3>1. Go(c, "connect") /\ Hold(c, mMainSocket)
      BY <1>2, <2>4 DEF Get
    <3>2. ConnOK' /\ conn'[c].pc = "connect" /\ \A d \in Connectors : d # c => conn'[d] = conn[d]
      BY <1>0, <3>1, GoTypes
    <3>3. HeldOK' /\ held'[c] = mMainSocket /\ \A u \in Threads : u # c => held'[u] = held[u]
      BY <1>0, <3>1, HoldTypes
    <3> QED BY <1>0, <2>1, <2>2, <2>4, <3>2, <3>3, ConnectorMoves
  <2> QED BY <2>3, <2>4
<1>3. CASE MakeSocket(c)
  <2>1. /\ At(c, "make") /\ Go(c, "connect") /\ Make /\ Hold(c, Fresh)
        /\ UNCHANGED <<up, beating, timeOutTimes, requests, receiving, main, asking, reports, history, dead>>
    BY <1>3 DEF MakeSocket
  <2>2. ConnOK' /\ conn'[c].pc = "connect" /\ \A d \in Connectors : d # c => conn'[d] = conn[d]
    BY <1>0, <2>1, GoTypes
  <2>3. Fresh \in Sockets
    BY <1>0, <2>1, FreshIsFree DEF At
  <2>4. SocksOK' /\ Shifted /\ Active(c) /\ UNCHANGED collided
    BY <1>0, <2>1, <2>3, MakeKeeps DEF At, Active, history
  <2>5. HeldOK' /\ held'[c] = Fresh /\ \A u \in Threads : u # c => held'[u] = held[u]
    BY <1>0, <2>1, <2>3, HoldTypes
  <2> QED BY <1>0, <2>1, <2>2, <2>3, <2>4, <2>5, SocketsAre, ConnectorMoves
<1>4. CASE Connect(c)
  <2> DEFINE s == held[c]
  <2>1. /\ At(c, "connect")
        /\ UNCHANGED <<mMainSocket, up, beating, requests, receiving, main, reports, history, dead>>
    BY <1>4 DEF Connect
  <2>2. s \in Sockets /\ Active(c) /\ UNCHANGED collided /\ UNCHANGED mMainSocket
    BY <1>0, <2>1 DEF HoldInv, At, Active, history
  <2>3. CASE /\ sock[s].st = "new" /\ Go(c, "verify")
             /\ sock' = [sock EXCEPT ![s].st = "open", ![s].peer = conn[c].peer]
             /\ UNCHANGED <<held, timeOutTimes, asking>>
    <3>1. ConnOK' /\ conn'[c].pc = "verify" /\ \A d \in Connectors : d # c => conn'[d] = conn[d]
      BY <1>0, <2>3, GoTypes
    <3>2. conn[c].peer \in {"main", "agent"}
      BY <1>0 DEF ConnOK
    <3>3. SocksOK' /\ Shifted
      BY <1>0, <2>2, <2>3, <3>2, ConnectKeeps
    <3>4. HeldOK' /\ held'[c] # NoSocket
      BY <1>0, <2>2, <2>3, SocketsAre DEF HeldOK
    <3> QED BY <1>0, <2>1, <2>2, <2>3, <3>1, <3>3, <3>4, ConnectorMoves
  <2>4. CASE Failed(c) /\ UNCHANGED sock
    <3>1. /\ Hold(c, NoSocket) /\ asking' \in BOOLEAN /\ timeOutTimes' \in 0..Attempts - 1
          /\ ConnOK' /\ \A d \in Connectors : d # c => conn'[d] = conn[d]
          /\ conn'[c].pc \in {"idle", "ended", "close"}
      BY <1>0, <2>4, FailedDoes
    <3>2. HeldOK' /\ held'[c] = NoSocket /\ \A u \in Threads : u # c => held'[u] = held[u]
      BY <1>0, <3>1, HoldTypes
    <3>3. SocksOK' /\ Shifted
      BY <1>0, <2>2, <2>4, SameKeeps
    <3> QED BY <1>0, <2>1, <2>2, <3>1, <3>2, <3>3, ConnectorMoves
  <2> QED BY <1>4, <2>3, <2>4 DEF Connect
<1>5. CASE Verify(c)
  <2>1. /\ At(c, "verify")
        /\ UNCHANGED <<up, beating, requests, receiving, main, reports, history, dead>>
    BY <1>5 DEF Verify
  <2>2. Active(c) /\ UNCHANGED collided
    BY <2>1 DEF At, Active, history
  <2>3. CASE Connected(mMainSocket)
    <3>1. /\ Send("verify") /\ Hold(c, mMainSocket) /\ Go(c, "answer") /\ UNCHANGED <<timeOutTimes, asking>>
      BY <1>5, <2>3 DEF Verify
    <3>2. ConnOK' /\ conn'[c].pc = "answer" /\ \A d \in Connectors : d # c => conn'[d] = conn[d]
      BY <1>0, <3>1, GoTypes
    <3>3. mMainSocket \in Sockets /\ mMainSocket # NoSocket
      BY <1>0, <2>3, SocketsAre DEF Connected
    <3>4. HeldOK' /\ held'[c] = mMainSocket /\ \A u \in Threads : u # c => held'[u] = held[u]
      BY <1>0, <3>1, HoldTypes
    <3>5. Unverified(sock[mMainSocket])
      BY <2>1, <2>3 DEF ConnInv, At
    <3>6. SocksOK' /\ Shifted
      <4>1. "verify" \in Request \ {"rest"} /\ "verify" # "agent"
        BY DEF Request
      <4> QED BY <1>0, <3>1, <3>3, <3>5, <4>1, SendKeeps
    <3> QED BY <1>0, <2>1, <2>2, <3>1, <3>2, <3>3, <3>4, <3>6, ConnectorMoves
  <2>4. CASE ~Connected(mMainSocket)
    <3>0. GetInstance /\ Failed(c)
      BY <1>5, <2>4 DEF Verify
    <3>1. /\ Hold(c, NoSocket) /\ asking' \in BOOLEAN /\ timeOutTimes' \in 0..Attempts - 1
          /\ ConnOK' /\ \A d \in Connectors : d # c => conn'[d] = conn[d]
          /\ conn'[c].pc \in {"idle", "ended", "close"}
      BY <1>0, <3>0, FailedDoes
    <3>2. HeldOK' /\ held'[c] = NoSocket /\ \A u \in Threads : u # c => held'[u] = held[u]
      BY <1>0, <3>1, HoldTypes
    <3>3. SocksOK' /\ Shifted
      BY <1>0, <3>0, GetInstanceKeeps
    <3> QED BY <1>0, <2>1, <2>2, <3>1, <3>2, <3>3, ConnectorMoves
  <2> QED BY <2>3, <2>4
<1>6. CASE ReadAnswer(c)
  <2> DEFINE s == held[c]
  <2>1. /\ At(c, "answer")
        /\ UNCHANGED <<mMainSocket, up, beating, requests, receiving, main, reports, logins, dead>>
    BY <1>6 DEF ReadAnswer
  <2>2. s \in Sockets /\ Active(c) /\ UNCHANGED mMainSocket
    BY <1>0, <2>1 DEF HoldInv, At, Active
  <2>3. CASE Failed(c) /\ UNCHANGED <<sock, collided>>
    <3>1. /\ Hold(c, NoSocket) /\ asking' \in BOOLEAN /\ timeOutTimes' \in 0..Attempts - 1
          /\ ConnOK' /\ \A d \in Connectors : d # c => conn'[d] = conn[d]
          /\ conn'[c].pc \in {"idle", "ended", "close"}
      BY <1>0, <2>3, FailedDoes
    <3>2. HeldOK' /\ held'[c] = NoSocket /\ \A u \in Threads : u # c => held'[u] = held[u]
      BY <1>0, <3>1, HoldTypes
    <3>3. SocksOK' /\ Shifted
      BY <1>0, <2>2, <2>3, SameKeeps
    <3> QED BY <1>0, <2>1, <2>2, <2>3, <3>1, <3>2, <3>3, ConnectorMoves
  <2>4. CASE /\ ~Broken(s) /\ (Pieces(s) # <<>> \/ AtEnd(s))
             /\ Hold(c, NoSocket) /\ sock' = [sock EXCEPT ![s].in = Rest(s, 2)]
             /\ IF SubSeq(Pieces(s), 1, IF Len(Pieces(s)) > 1 THEN 2 ELSE 0) = <<"type", "zero">> THEN Go(c, "verified")
                ELSE IF conn[c].peer = "agent" THEN GoTo(c, "close", "main")
                ELSE Go(c, Idle(c))
             /\ collided' = (collided \/ Len(Pieces(s)) = 1)
             /\ UNCHANGED <<timeOutTimes, asking>>
    <3>1. \/ Go(c, "verified") \/ GoTo(c, "close", "main") \/ Go(c, "ended") \/ Go(c, "idle")
      BY <2>4 DEF Idle
    <3>2. /\ ConnOK' /\ \A d \in Connectors : d # c => conn'[d] = conn[d]
          /\ conn'[c].pc \in {"idle", "ended", "close", "verified"}
      BY <1>0, <3>1, GoTypes
    <3>3. HeldOK' /\ held'[c] = NoSocket /\ \A u \in Threads : u # c => held'[u] = held[u]
      BY <1>0, <2>4, HoldTypes
    <3>4. SocksOK' /\ Shifted
      BY <1>0, <2>2, <2>4, ReadKeeps
    <3>5. collided' \in BOOLEAN
      BY <1>0, <2>4
    <3>6. UNCHANGED <<timeOutTimes, asking>>
      BY <2>4
    <3> HIDE DEF s
    <3> QED BY <1>0, <2>1, <2>2, <3>2, <3>3, <3>4, <3>5, <3>6, ConnectorMoves
  <2> QED BY <1>6, <2>3, <2>4 DEF ReadAnswer
<1>7. CASE Proceed(c)
  <2>1. /\ At(c, "verified") /\ Go(c, Idle(c))
        /\ UNCHANGED <<sockets, timeOutTimes, receiving, main, asking, reports, history, dead>>
    BY <1>7 DEF Proceed
  <2>2. PICK r \in {"agent", "login"} : requests' = requests \cup {r}
    BY <1>7 DEF Proceed
  <2>3. /\ ConnOK' /\ conn'[c].pc \in {"idle", "ended"} /\ \A d \in Connectors : d # c => conn'[d] = conn[d]
    <3>1. Idle(c) \in Pcs /\ Idle(c) \in {"idle", "ended"}
      BY DEF Idle
    <3> QED BY <1>0, <2>1, <3>1, GoTypes
  <2>4. UNCHANGED <<mMainSocket, sock, held, up, collided, cmdMaps>>
    BY <2>1 DEF sockets, history, receiving
  <2>5. SocksOK' /\ Active(c) /\ ~Active(c)' /\ held[c] = NoSocket /\ HeldOK'
    BY <1>0, <2>1, <2>3, <2>4, SameKeeps DEF HoldInv, At, Active, HeldOK
  <2>6. OneTask'
    BY <1>0, <2>2, <2>3, <2>4, <2>5, ProceedTask
  <2>7. requests' \subseteq {"agent", "login"}
    BY <1>0, <2>2
  <2> QED BY <1>0, <2>1, <2>3, <2>4, <2>5, <2>6, <2>7, ConnectorAfter
<1> QED BY <1>1, <1>2, <1>3, <1>4, <1>5, <1>6, <1>7 DEF ConnectorStep

\* ReceiveThread reads n pieces, or none, and stays or goes back.
LEMMA ReceiverReads ==
  ASSUME Base, UNCHANGED limit,
         receiver \in {"address", "read", "byte", "body", "empty", "swallow"},
         receiver' \in {"loop", "address", "read", "byte", "body", "empty", "swallow"},
         UNCHANGED mMainSocket,
         \/ UNCHANGED sock
         \/ Take(held[Receiver])
         \/ sock' = [sock EXCEPT ![held[Receiver]].in = Rest(held[Receiver], 1),
                                 ![held[Receiver]].timed = TRUE],
         (receiver' = "loop" /\ Hold(Receiver, NoSocket)) \/ (receiver' # "loop" /\ UNCHANGED held),
         UNCHANGED cmdMaps, timed' \in BOOLEAN, reports' \in BOOLEAN, collided' \in BOOLEAN,
         UNCHANGED <<up, connecting, j, main, asking, dead>>
  PROVE  Base'
<1>0. /\ SocksOK /\ HeldOK /\ ControlOK /\ HoldInv /\ up \in BOOLEAN /\ j \in 0..Patience
      /\ dead \in {"none", "address"} /\ Receiver \in Threads
  BY BaseIs, ThreadsAre DEF ControlOK
<1>1. held[Receiver] \in Sockets /\ held[Receiver] # NoSocket
  BY <1>0 DEF HoldInv, HeldOK
<1>2. SocksOK' /\ Shifted
  <2>1. CASE UNCHANGED sock
    BY <1>0, <2>1, SameKeeps DEF SocksOK
  <2>2. CASE Take(held[Receiver])
    BY <1>0, <1>1, <2>2, ReadKeeps DEF Take
  <2>3. CASE sock' = [sock EXCEPT ![held[Receiver]].in = Rest(held[Receiver], 1),
                                  ![held[Receiver]].timed = TRUE]
    BY <1>0, <1>1, <2>3, ReadKeeps
  <2> QED BY <2>1, <2>2, <2>3
<1>3. /\ HeldOK' /\ \A u \in Threads : u # Receiver => held'[u] = held[u]
      /\ (held'[Receiver] # NoSocket)
           <=> receiver' \in {"address", "read", "byte", "body", "empty", "swallow"}
  <2>1. CASE receiver' = "loop" /\ Hold(Receiver, NoSocket)
    BY <1>0, <2>1, HoldTypes
  <2>2. CASE receiver' # "loop" /\ UNCHANGED held
    BY <1>0, <1>1, <2>2 DEF HeldOK
  <2> QED BY <2>1, <2>2
<1>4. receiver' \in Places \ {"none", "begin"}
  BY DEF Places
<1> QED BY <1>0, <1>2, <1>3, <1>4, ReceiverMoves

LEMMA AfterLengthIs == \A piece : AfterLength(piece) \in {"byte", "body", "empty", "swallow"}
  BY DEF AfterLength

\* ReceiveThread's other steps.
LEMMA ReceiverBase ==
  ASSUME Base, ReceiverStep, UNCHANGED limit
  PROVE  Base'
<1> USE DEF Places
<1>0. /\ SocksOK /\ HeldOK /\ ControlOK /\ ConnOK /\ HoldInv /\ StartInv /\ OneTask /\ cmdMaps \in Nat
      /\ up \in BOOLEAN /\ mMainSocket \in Sockets \cup {NoSocket}
      /\ (mMainSocket = NoSocket => Fresh \in Sockets)
      /\ Receiver \in Threads /\ j \in 0..Patience /\ reports \in BOOLEAN /\ timed \in BOOLEAN
      /\ collided \in BOOLEAN /\ dead \in {"none", "address"} /\ stop \in BOOLEAN
      /\ requests \subseteq {"agent", "login"}
  BY BaseIs, ThreadsAre DEF ControlOK
<1>1. CASE Begin
  <2>1. /\ receiver = "begin" /\ receiver' = "loop" /\ stop' = FALSE /\ Go(Dispatcher, "idle")
        /\ UNCHANGED <<mMainSocket, sock, held, up, timeOutTimes, requests, timed, j, cmdMaps, left,
                       asking, reports, collided, dead>>
    BY <1>1 DEF Begin, sockets, history
  <2>2. /\ ConnOK' /\ conn'[Dispatcher].pc = "idle"
        /\ \A d \in Connectors : d # Dispatcher => conn'[d] = conn[d]
    <3>1. "idle" \in Pcs
      BY DEF Pcs
    <3> QED BY <1>0, <2>1, <3>1, ThreadsAre, GoTypes
  <2>3. conn[Dispatcher].pc = "none" /\ held[Dispatcher] = NoSocket
    BY <1>0, <2>1, ThreadsAre DEF StartInv, At, HoldInv
  <2>4. HeldOK' /\ SocksOK' /\ Shifted
    BY <1>0, <2>1, SameKeeps DEF HeldOK
  <2>5. ControlOK'
    BY <1>0, <2>1, <2>2 DEF ControlOK
  <2>6. HoldInv'
    <3>1. ASSUME NEW d \in Connectors
          PROVE  (held'[d] # NoSocket) <=> conn'[d].pc \in {"connect", "verify", "answer"}
      BY <1>0, <2>1, <2>2, <2>3 DEF HoldInv
    <3>2. (held'[Receiver] # NoSocket)
            <=> receiver' \in {"address", "read", "byte", "body", "empty", "swallow"}
      BY <1>0, <2>1 DEF HoldInv
    <3> QED BY <3>1, <3>2 DEF HoldInv
  <2>7. StartInv'
    BY <1>0, <2>1, <2>2, ThreadsAre DEF StartInv, At
  <2>8. OneTask'
    <3>1. \A d \in Connectors : Active(d)' => Active(d)
      BY <2>2 DEF Active
    <3> QED BY <1>0, <2>1, <2>4, <3>1, TasksKept
  <2> QED BY <1>0, <2>1, <2>4, <2>5, <2>6, <2>7, <2>8 DEF Base, FieldOK, SocksOK
<1>2. CASE Loop
  <2>1. /\ receiver = "loop" /\ receiver' \in {"ended", "look"}
        /\ UNCHANGED <<mMainSocket, sock, held, up, connecting, timed, j, cmdMaps, main, asking, reports, collided, dead>>
    BY <1>2 DEF Loop, sockets, history
  <2>2. HeldOK' /\ SocksOK' /\ Shifted /\ held[Receiver] = NoSocket
    BY <1>0, <2>1, SameKeeps DEF HeldOK, HoldInv
  <2> QED BY <1>0, <2>1, <2>2, ReceiverMoves
<1>3. CASE Look
  <2>1. /\ receiver = "look" /\ receiver' \in {"make", "stream", "loop"}
        /\ UNCHANGED <<held, up, connecting, timed, cmdMaps, main, asking, collided, dead>>
    BY <1>3 DEF Look, NotConnected, history
  <2>2. HeldOK' /\ held[Receiver] = NoSocket
    BY <1>0, <2>1 DEF HeldOK, HoldInv
  <2>3. SocksOK' /\ Shifted
    <3>1. CASE UNCHANGED <<mMainSocket, sock>>
      BY <1>0, <3>1, SameKeeps
    <3>2. CASE GetInstance
      BY <1>0, <3>2, GetInstanceKeeps
    <3> QED BY <1>3, <3>1, <3>2 DEF Look
  <2>4. j' \in 0..Patience /\ reports' \in BOOLEAN
    <3>1. CASE UNCHANGED <<j, reports>>
      BY <1>0, <3>1
    <3>2. CASE NotConnected
      <4>1. Patience \in Nat
        BY ConnectionAssumption
      <4>2. j' = (IF j < Patience THEN j + 1 ELSE j) /\ reports' = (reports \/ j' >= Patience)
        BY <3>2 DEF NotConnected
      <4>3. j' \in 0..Patience
        BY <1>0, <4>1, <4>2
      <4> QED BY <1>0, <4>2, <4>3
    <3> QED BY <1>3, <3>1, <3>2 DEF Look
  <2> QED BY <1>0, <2>1, <2>2, <2>3, <2>4, ReceiverMoves
<1>4. CASE LookMakes
  <2>1. /\ receiver = "make" /\ receiver' = "loop" /\ Make
        /\ UNCHANGED <<held, up, connecting, timed, cmdMaps, main, asking, collided, dead>>
    BY <1>4 DEF LookMakes, NotConnected, history
  <2>2. HeldOK' /\ held[Receiver] = NoSocket
    BY <1>0, <2>1 DEF HeldOK, HoldInv
  <2>3. SocksOK' /\ Shifted
    BY <1>0, <2>1, FreshIsFree, MakeKeeps
  <2>4. j' \in 0..Patience /\ reports' \in BOOLEAN
    <3>1. Patience \in Nat
      BY ConnectionAssumption
    <3>2. j' = (IF j < Patience THEN j + 1 ELSE j) /\ reports' = (reports \/ j' >= Patience)
      BY <1>4 DEF LookMakes, NotConnected
    <3>3. j' \in 0..Patience
      BY <1>0, <3>1, <3>2
    <3> QED BY <1>0, <3>2, <3>3
  <2> QED BY <1>0, <2>1, <2>2, <2>3, <2>4, ReceiverMoves
<1>5. CASE Stream
  <2>1. /\ receiver = "stream" /\ GetInstance
        /\ \/ receiver' = "address" /\ Hold(Receiver, mMainSocket) /\ Connected(mMainSocket)
           \/ receiver' = "loop" /\ UNCHANGED held
        /\ UNCHANGED <<up, connecting, timed, j, cmdMaps, main, asking, reports, collided, dead>>
    BY <1>5 DEF Stream, history
  <2>2. SocksOK' /\ Shifted /\ held[Receiver] = NoSocket
    BY <1>0, <2>1, GetInstanceKeeps DEF HoldInv
  <2>3. /\ HeldOK' /\ \A u \in Threads : u # Receiver => held'[u] = held[u]
        /\ (held'[Receiver] # NoSocket) <=> receiver' = "address"
    <3>1. CASE receiver' = "address" /\ Hold(Receiver, mMainSocket) /\ Connected(mMainSocket)
      <4>1. mMainSocket # NoSocket
        BY <3>1 DEF Connected
      <4> QED BY <1>0, <3>1, <4>1, HoldTypes
    <3>2. CASE receiver' = "loop" /\ UNCHANGED held
      BY <1>0, <2>2, <3>2 DEF HeldOK
    <3> QED BY <2>1, <3>1, <3>2
  <2> QED BY <1>0, <2>1, <2>2, <2>3, ReceiverMoves
<1>6. CASE Address
  <2>1. /\ receiver = "address" /\ GetInstance
        /\ \/ receiver' = "read" /\ timed' = sock[held[Receiver]].timed /\ UNCHANGED dead
           \/ dead' = "address" /\ UNCHANGED <<receiver, timed>>
        /\ UNCHANGED <<held, up, connecting, j, cmdMaps, main, asking, reports, collided>>
    BY <1>6 DEF Address, history
  <2>2. SocksOK' /\ Shifted /\ HeldOK' /\ held[Receiver] \in Sockets /\ held[Receiver] # NoSocket
    BY <1>0, <2>1, GetInstanceKeeps DEF HoldInv, HeldOK
  <2>3. timed' \in BOOLEAN
    <3>1. sock[held[Receiver]] \in SocketRecord
      BY <1>0, <2>2, SockIs
    <3> QED BY <1>0, <2>1, <3>1, RecordFields
  <2> QED BY <1>0, <2>1, <2>2, <2>3, ReceiverMoves
<1>7. CASE ReadLength
  <2>1. AfterLength(Head(Pieces(held[Receiver]))) \in {"byte", "body", "empty", "swallow"}
    BY AfterLengthIs
  <2>2. /\ receiver = "read" /\ receiver' \in {"byte", "body", "empty", "swallow"}
        /\ sock' = [sock EXCEPT ![held[Receiver]].in = Rest(held[Receiver], 1),
                                ![held[Receiver]].timed = TRUE]
        /\ UNCHANGED <<mMainSocket, held, up, connecting, timed, j, cmdMaps, main, asking, reports, dead>>
    BY <1>7, <2>1 DEF ReadLength
  <2>3. collided' \in BOOLEAN
    BY <1>0, <1>7 DEF ReadLength
  <2> QED BY <1>0, <2>2, <2>3, ReceiverReads
<1>8. CASE NoLength
  <2>1. /\ receiver = "read" /\ receiver' = "loop" /\ Hold(Receiver, NoSocket)
        /\ UNCHANGED <<mMainSocket, sock, up, connecting, timed, j, cmdMaps, main, asking, collided, dead>>
        /\ reports' \in BOOLEAN
    BY <1>0, <1>8 DEF NoLength, Back, history
  <2> QED BY <1>0, <2>1, ReceiverReads
<1>9. CASE ReadByte
  <2>1. /\ receiver = "byte" /\ receiver' = "loop" /\ Hold(Receiver, NoSocket)
        /\ UNCHANGED sock \/ Take(held[Receiver])
        /\ UNCHANGED <<mMainSocket, up, connecting, timed, j, cmdMaps, main, asking, collided, dead>>
        /\ reports' \in BOOLEAN
    BY <1>0, <1>9 DEF ReadByte, Back, history
  <2> QED BY <1>0, <2>1, ReceiverReads
<1>10. CASE ReadEmpty
  <2>1. /\ receiver = "empty" /\ receiver' = "loop" /\ Hold(Receiver, NoSocket)
        /\ UNCHANGED <<mMainSocket, sock, up, connecting, timed, j, cmdMaps, main, asking, reports, collided, dead>>
    BY <1>10 DEF ReadEmpty, Back, history
  <2> QED BY <1>0, <2>1, ReceiverReads
<1>11. CASE Swallow
  <2>1. /\ receiver = "swallow"
        /\ \/ Take(held[Receiver]) /\ UNCHANGED <<receiver, held>>
           \/ receiver' = "loop" /\ Hold(Receiver, NoSocket) /\ UNCHANGED sock
        /\ UNCHANGED <<mMainSocket, up, connecting, timed, j, cmdMaps, main, asking, reports, collided, dead>>
    BY <1>11 DEF Swallow, Back, history
  <2> QED BY <1>0, <2>1, ReceiverReads
<1>12. CASE ReadBody
  <2> DEFINE s == held[Receiver]
  <2>1. /\ receiver = "body" /\ receiver' = "loop" /\ Hold(Receiver, NoSocket)
        /\ UNCHANGED <<mMainSocket, up, connecting, timed, j, main, asking, reports, collided, dead>>
    BY <1>12 DEF ReadBody, Back, history
  <2>2. CASE UNCHANGED <<sock, cmdMaps>>
    BY <1>0, <2>1, <2>2, ReceiverReads
  <2>3. CASE Has(s) /\ Take(s) /\ cmdMaps' = cmdMaps + (IF Head(Pieces(s)) = "address" THEN 1 ELSE 0)
    <3>1. CASE Head(Pieces(s)) # "address"
      <4>1. UNCHANGED cmdMaps
        BY <1>0, <2>3, <3>1
      <4> QED BY <1>0, <2>1, <2>3, <4>1, ReceiverReads
    <3>2. CASE Head(Pieces(s)) = "address"
      <4>1. cmdMaps' = cmdMaps + 1
        BY <2>3, <3>2
      <4>2. PICK u \in Sockets : u = held[Receiver]
        BY <1>0, <2>1 DEF HoldInv, HeldOK
      <4>3. BroughtAt(u, 1)
        <5>1. sock[u].in \in Seq(Piece) /\ sock[u].in # <<>> /\ Head(sock[u].in) = "address"
          BY <1>0, <2>3, <3>2, <4>2, SockIs DEF Has, Pieces
        <5>2. 1 <= Len(sock[u].in) /\ sock[u].in[1] = "address"
          BY <5>1
        <5>3. 1 \in 1..MaxBacklog + 1
          BY BoundsAreNat
        <5> QED BY <5>2, <5>3 DEF BroughtAt
      <4>4. /\ SocksOK' /\ Others(u)
            /\ \A i \in 1..MaxAsked : AskedAt(u, i)' => AskedAt(u, i + 0)
            /\ \A i \in 1..MaxBacklog + 1 : BroughtAt(u, i)' => BroughtAt(u, i + 1)
        <5>1. sock' = [sock EXCEPT ![u].in = Rest(u, 1)]
          BY <2>3, <4>2 DEF Take
        <5> QED BY <1>0, <2>1, <5>1, ReadKeeps
      <4>5. cmdMaps' \in 0..cmdMaps + 1 /\ cmdMaps' \in Nat /\ UNCHANGED <<conn, requests>>
        BY <1>0, <2>1, <4>1 DEF connecting
      <4>6. OneTask'
        BY <1>0, <4>3, <4>4, <4>5, AddressTask
      <4>7. HeldOK' /\ held'[Receiver] = NoSocket /\ \A t \in Threads : t # Receiver => held'[t] = held[t]
        BY <1>0, <2>1, HoldTypes
      <4> QED BY <1>0, <2>1, <4>4, <4>5, <4>6, <4>7, ReceiverAfter
    <3> QED BY <3>1, <3>2
  <2> QED BY <1>12, <2>2, <2>3 DEF ReadBody
<1> QED BY <1>1, <1>2, <1>3, <1>4, <1>5, <1>6, <1>7, <1>8, <1>9, <1>10, <1>11, <1>12 DEF ReceiverStep

\* The steps that begin and end an attempt, requests, heartbeats, the user and the servers.
LEMMA OtherBase ==
  ASSUME Base, UNCHANGED limit,
         \/ StartService \/ TakeAddress \/ EndDispatcher \/ BeatStep \/ HandleReport \/ HomeKey
         \/ ServerStep \/ \E r \in requests : SendRequest(r)
  PROVE  Base'
<1>0. /\ SocksOK /\ HeldOK /\ ControlOK /\ ConnOK /\ HoldInv /\ StartInv /\ OneTask /\ cmdMaps \in Nat
      /\ up \in BOOLEAN /\ mMainSocket \in Sockets \cup {NoSocket}
      /\ (mMainSocket = NoSocket => Fresh \in Sockets)
      /\ reports \in BOOLEAN /\ asking \in BOOLEAN /\ left \in BOOLEAN /\ stop \in BOOLEAN
      /\ requests \subseteq {"agent", "login"}
  BY BaseIs DEF ControlOK
<1>1. CASE StartService
  <2>1. /\ At(Starter, "service") /\ Go(Starter, "close") /\ receiver' = "begin"
        /\ UNCHANGED <<mMainSocket, sock, held, up, timeOutTimes, requests, timed, j, cmdMaps, stop, left,
                       asking, reports, collided, dead>>
    BY <1>1 DEF StartService, sockets, main, history
  <2>2. ConnOK' /\ conn'[Starter].pc = "close" /\ \A d \in Connectors : d # Starter => conn'[d] = conn[d]
    BY <1>0, <2>1, ThreadsAre, GoTypes DEF Pcs
  <2>3. receiver = "none" /\ conn[Dispatcher].pc = "none"
    BY <1>0, <2>1 DEF StartInv, At
  <2>4. HeldOK' /\ SocksOK' /\ Shifted
    BY <1>0, <2>1, SameKeeps DEF HeldOK
  <2>5. ControlOK'
    BY <1>0, <2>1, <2>2 DEF ControlOK, Places
  <2>6. HoldInv'
    <3>1. ASSUME NEW d \in Connectors
          PROVE  (held'[d] # NoSocket) <=> conn'[d].pc \in {"connect", "verify", "answer"}
      BY <1>0, <2>1, <2>2 DEF HoldInv, At
    <3>2. (held'[Receiver] # NoSocket)
            <=> receiver' \in {"address", "read", "byte", "body", "empty", "swallow"}
      BY <1>0, <2>1, <2>3 DEF HoldInv
    <3> QED BY <3>1, <3>2 DEF HoldInv
  <2>7. StartInv'
    BY <2>1, <2>2, <2>3, ThreadsAre DEF StartInv, At
  <2>8. OneTask'
    <3>1. \A d \in Connectors : Active(d)' => Active(d)
      BY <2>1, <2>2 DEF Active, At
    <3> QED BY <1>0, <2>1, <2>4, <3>1, TasksKept
  <2> QED BY <1>0, <2>1, <2>4, <2>5, <2>6, <2>7, <2>8 DEF Base, FieldOK, SocksOK
<1>2. CASE TakeAddress \/ EndDispatcher
  <2>1. /\ At(Dispatcher, "idle")
        /\ UNCHANGED <<mMainSocket, sock, held, up, timeOutTimes, requests, receiver, timed, j, stop, left,
                       asking, reports, collided, dead>>
        /\ cmdMaps' \in Nat
        /\ conn'[Dispatcher].pc \in {"close", "ended"}
        /\ ConnOK' /\ \A d \in Connectors : d # Dispatcher => conn'[d] = conn[d]
    <3>1. CASE TakeAddress
      <4>1. /\ At(Dispatcher, "idle") /\ GoTo(Dispatcher, "close", "agent") /\ cmdMaps > 0 /\ cmdMaps' = cmdMaps - 1
            /\ UNCHANGED <<mMainSocket, sock, held, up, timeOutTimes, requests, receiver, timed, j, stop, left,
                           asking, reports, collided, dead>>
        BY <3>1 DEF TakeAddress, sockets, main, history
      <4>2. /\ conn'[Dispatcher].pc = "close" /\ ConnOK'
            /\ \A d \in Connectors : d # Dispatcher => conn'[d] = conn[d]
        BY <1>0, <4>1, ThreadsAre, GoTypes DEF Pcs
      <4>3. cmdMaps' \in Nat
        BY <1>0, <4>1
      <4> QED BY <4>1, <4>2, <4>3
    <3>2. CASE EndDispatcher
      <4>1. /\ At(Dispatcher, "idle") /\ Go(Dispatcher, "ended")
            /\ UNCHANGED <<mMainSocket, sock, held, up, timeOutTimes, requests, receiver, timed, j, stop, left,
                           asking, reports, collided, dead, cmdMaps>>
        BY <3>2 DEF EndDispatcher, sockets, main, history, receiving
      <4>2. /\ conn'[Dispatcher].pc = "ended" /\ ConnOK'
            /\ \A d \in Connectors : d # Dispatcher => conn'[d] = conn[d]
        BY <1>0, <4>1, ThreadsAre, GoTypes DEF Pcs
      <4> QED BY <1>0, <4>1, <4>2
    <3> QED BY <1>2, <3>1, <3>2
  <2>2. HeldOK' /\ SocksOK' /\ Shifted
    BY <1>0, <2>1, SameKeeps DEF HeldOK
  <2>3. ControlOK'
    BY <1>0, <2>1 DEF ControlOK
  <2>4. HoldInv'
    <3>1. held[Dispatcher] = NoSocket
      BY <1>0, <2>1, ThreadsAre DEF HoldInv, At
    <3>2. \A u \in Threads : u # Dispatcher => held'[u] = held[u]
      BY <2>1
    <3>3. held'[Dispatcher] = NoSocket /\ conn'[Dispatcher].pc \notin {"connect", "verify", "answer"}
      BY <2>1, <3>1
    <3>4. \A d \in Connectors : d # Dispatcher => conn'[d] = conn[d]
      BY <2>1
    <3> QED BY <1>0, <2>1, <3>2, <3>3, <3>4, ThreadsAre, HoldByConnector
  <2>5. StartInv'
    BY <1>0, <2>1, ThreadsAre DEF StartInv, At
  <2>6. OneTask'
    <3>1. CASE TakeAddress
      BY <1>0, <2>1, <3>1, ThreadsAre, TakeTask DEF TakeAddress
    <3>2. CASE EndDispatcher
      <4>1. cmdMaps' = cmdMaps /\ Go(Dispatcher, "ended")
        BY <3>2 DEF EndDispatcher, receiving
      <4>2. conn'[Dispatcher].pc = "ended"
        BY <1>0, <4>1, ThreadsAre, GoTypes DEF Pcs
      <4>3. \A d \in Connectors : Active(d)' => Active(d)
        BY <2>1, <4>2 DEF Active
      <4> QED BY <1>0, <2>1, <2>2, <4>1, <4>3, TasksKept
    <3> QED BY <1>2, <3>1, <3>2
  <2> QED BY <1>0, <2>1, <2>2, <2>3, <2>4, <2>5, <2>6 DEF Base, FieldOK, SocksOK
<1>3. CASE BeatStep
  <2>1. UNCHANGED <<conn, timeOutTimes, requests, receiving, stop, left, asking, collided, dead, held, up, cmdMaps>>
        /\ reports' \in BOOLEAN
    BY <1>0, <1>3 DEF BeatStep, Beat, TestCount, PutCount, connecting, main, history, sockets, receiving, Missing
  <2>2. SocksOK' /\ Shifted
    <3>1. CASE UNCHANGED <<mMainSocket, sock>>
      BY <1>0, <3>1, SameKeeps
    <3>2. CASE Send("beat")
      <4>1. CASE mMainSocket = NoSocket
        BY <1>0, <3>2, <4>1, MakeKeeps DEF Send
      <4>2. CASE mMainSocket # NoSocket
        <5>1. "beat" \in Request \ {"rest"} /\ "beat" # "agent" /\ "beat" # "verify"
          BY DEF Request
        <5>2. mMainSocket \in Sockets
          BY <1>0, <4>2
        <5> QED BY <1>0, <3>2, <5>1, <5>2, SendKeeps
      <4> QED BY <4>1, <4>2
    <3> QED BY <1>3, <3>1, <3>2 DEF BeatStep, Beat, TestCount, PutCount, sockets
  <2>3. OneTask'
    BY <1>0, <2>1, <2>2, TasksKept DEF Active
  <2> QED BY <1>0, <2>1, <2>2, <2>3, OtherAfter
<1>4. CASE HandleReport
  <2>1. /\ UNCHANGED <<mMainSocket, sock, held, up, conn, timeOutTimes, requests, receiving, cmdMaps, left, collided, dead>>
        /\ reports' = FALSE /\ stop' = TRUE /\ asking' = TRUE
    BY <1>4 DEF HandleReport, sockets, connecting, receiving, history
  <2>2. SocksOK' /\ Shifted
    BY <1>0, <2>1, SameKeeps
  <2>3. OneTask'
    BY <1>0, <2>1, <2>2, TasksKept DEF Active
  <2> QED BY <1>0, <2>1, <2>2, <2>3, OtherAfter
<1>5. CASE HomeKey
  <2>1. /\ UNCHANGED <<held, up, conn, timeOutTimes, requests, receiving, cmdMaps, asking, reports, collided, dead>>
        /\ left' = TRUE /\ stop' = TRUE /\ CloseMain
    BY <1>5 DEF HomeKey, connecting, receiving, history, CloseMain
  <2>2. SocksOK' /\ Shifted
    BY <1>0, <2>1, CloseKeeps
  <2>3. OneTask'
    BY <1>0, <2>1, <2>2, TasksKept DEF Active
  <2> QED BY <1>0, <2>1, <2>2, <2>3, OtherAfter
<1>6. CASE ServerStep
  <2>1. UNCHANGED <<conn, timeOutTimes, requests, receiving, cmdMaps, stop, left, asking, reports, collided, dead>>
    BY Zenon, <1>6 DEF ServerStep, connecting, receiving, main, history
  <2>2. held' = held /\ up' \in BOOLEAN
    BY Zenon, <1>0, <1>6 DEF ServerStep, Answer, FallSilent, EndStream
  <2>3. SocksOK' /\ OneTask'
    <3>1. ASSUME NEW s \in Sockets, Answer(s, "split" \in limit.faults) PROVE SocksOK' /\ OneTask'
      <4>1. ("split" \in limit.faults) \in BOOLEAN
        OBVIOUS
      <4> QED BY <1>0, <2>1, <3>1, <4>1, AnswerKeeps
    <3>2. CASE FallSilent
      <4>1. SocksOK' /\ Shifted
        BY <1>0, <3>2, SameKeeps DEF FallSilent
      <4> QED BY <1>0, <2>1, <4>1, TasksKept DEF Active
    <3>3. ASSUME NEW s \in Sockets, EndStream(s) PROVE SocksOK' /\ OneTask'
      <4>1. SocksOK' /\ Shifted
        BY <1>0, <3>3, EndKeeps
      <4> QED BY <1>0, <2>1, <4>1, TasksKept DEF Active
    <3> QED BY <1>6, <3>1, <3>2, <3>3 DEF ServerStep
  <2> QED BY <1>0, <2>1, <2>2, <2>3, OtherAfter
<1>7. ASSUME NEW r \in requests, SendRequest(r) PROVE Base'
  <2>1. /\ UNCHANGED <<conn, timeOutTimes, receiving, cmdMaps, stop, left, asking, reports, collided, dead, held, up>>
        /\ requests' = requests \ {r} /\ Send(r)
    BY <1>7 DEF SendRequest, receiving, main
  <2>2. SocksOK' /\ OneTask'
    BY <1>0, <2>1, SendTask
  <2>3. requests' \subseteq requests
    BY <2>1
  <2> QED BY <1>0, <2>1, <2>2, <2>3, OtherAfter
<1> QED BY <1>1, <1>2, <1>3, <1>4, <1>5, <1>6, <1>7

LEMMA BaseStep ==
  ASSUME Base, ConnInv, [Next]_vars
  PROVE  Base'
<1>1. CASE UNCHANGED vars
  <2>1. /\ UNCHANGED <<mMainSocket, sock, held, up, conn, timeOutTimes, requests, receiving, cmdMaps, stop, left,
                       asking, reports, collided, dead, limit>>
    BY <1>1 DEF vars, sockets, connecting, receiving, main, history
  <2>2. SocksOK' /\ Shifted /\ OneTask /\ cmdMaps \in Nat
    BY <2>1, BaseIs, SameKeeps
  <2>3. OneTask'
    BY <2>1, <2>2, TasksKept DEF Active
  <2> QED BY <2>1, <2>2, <2>3, OtherAfter DEF Base, FieldOK, ControlOK
<1>2. CASE Next
  BY <1>2, ConnectorBase, ReceiverBase, OtherBase DEF Next
<1> QED BY <1>1, <1>2

LEMMA BaseInit == Init => Base
<1> SUFFICES ASSUME Init PROVE Base
  OBVIOUS
<1>1. /\ mMainSocket = NoSocket /\ held = [t \in Threads |-> NoSocket]
      /\ sock = [s \in Sockets |-> Closed] /\ up = TRUE
  BY DEF Init, SocketInit
<1>2. FieldOK /\ HeldOK /\ PlainSockets
  BY <1>1, ClosedRecord, PlainFresh DEF FieldOK, HeldOK, SockOK, PlainSockets
<1>3. /\ conn = [c \in Connectors |-> [pc |-> IF c = Starter THEN "service" ELSE "none", peer |-> "main"]]
      /\ receiver = "none" /\ requests = {} /\ cmdMaps = 0 /\ collided = FALSE
  BY DEF Init
<1>4. ASSUME NEW c \in Connectors
      PROVE  conn[c].pc = IF c = Starter THEN "service" ELSE "none"
  BY <1>3
<1>5. ConnOK
  <2>1. \A c \in Connectors : [pc |-> IF c = Starter THEN "service" ELSE "none", peer |-> "main"]
                              \in [pc : Pcs, peer : {"main", "agent"}]
    BY DEF Pcs
  <2> QED BY <1>3, <2>1 DEF ConnOK
<1>6. ControlOK
  <2>1. timeOutTimes \in 0..Attempts - 1 /\ j \in 0..Patience
    BY ConnectionAssumption DEF Init
  <2>2. /\ timed = FALSE /\ stop = TRUE /\ left = FALSE /\ asking = FALSE /\ reports = FALSE
        /\ dead = "none" /\ limit \in Limits
    BY DEF Init
  <2>3. requests \subseteq {"agent", "login"} /\ receiver \in Places /\ cmdMaps \in Nat
    BY <1>3 DEF Places
  <2>4. timed \in BOOLEAN /\ stop \in BOOLEAN /\ left \in BOOLEAN /\ asking \in BOOLEAN
        /\ reports \in BOOLEAN /\ collided \in BOOLEAN
    BY <1>3, <2>2
  <2> QED BY <1>5, <2>1, <2>2, <2>3, <2>4 DEF ControlOK
<1>7. HoldInv /\ StartInv
  BY <1>1, <1>3, <1>4, ThreadsAre DEF HoldInv, StartInv, At
<1>8. OneTask
  <2>1. \A s \in Sockets : sock[s].asked = <<>> /\ sock[s].in = <<>>
    BY <1>1, ClosedRecord
  <2>2. \A i \in 1..MaxAsked : ~(i <= Len(<<>>))
    BY BoundsAreNat
  <2>3. \A i \in 1..MaxBacklog + 1 : ~(i <= Len(<<>>))
    BY BoundsAreNat
  <2>4. \A s \in Sockets : \A i \in 1..MaxAsked : ~AskedAt(s, i)
    BY <2>1, <2>2 DEF AskedAt
  <2>5. \A s \in Sockets : \A i \in 1..MaxBacklog + 1 : ~BroughtAt(s, i)
    BY <2>1, <2>3 DEF BroughtAt
  <2>6. \A c \in Connectors : Active(c) => c = Starter
    BY <1>4 DEF Active
  <2>7. 1..cmdMaps = {}
    BY <1>3
  <2>8. \A y : IsTask(y) => y = <<"conn", Starter, NoSocket, 0>>
    BY <1>3, <2>4, <2>5, <2>6, <2>7 DEF IsTask
  <2> QED BY <2>8, TasksAre DEF OneTask
<1> QED BY <1>2, <1>6, <1>7, <1>8 DEF Base

-----------------------------------------------------------------------------
\* The connection is the one that is being verified, and a login goes to an
\* agent that knows this client.

\* A connection that remains is the one there was, to the same server, which
\* does not forget this client.
MainKept ==
  Connected(mMainSocket)' =>
    /\ Connected(mMainSocket) /\ mMainSocket' = mMainSocket
    /\ sock'[mMainSocket].peer = sock[mMainSocket].peer
    /\ sock[mMainSocket].known => sock'[mMainSocket].known
    /\ Unverified(sock[mMainSocket]) => Unverified(sock'[mMainSocket])

Live(k) == k.st \in {"open", "ended"}

LEMMA KeptBut ==
  ASSUME NEW s \in Sockets, Others(s), UNCHANGED mMainSocket, mMainSocket \in Sockets \cup {NoSocket},
         Live(sock'[s]) => /\ Live(sock[s]) /\ sock'[s].peer = sock[s].peer
                           /\ sock[s].known => sock'[s].known
                           /\ Unverified(sock[s]) => Unverified(sock'[s])
  PROVE  MainKept
<1>1. CASE mMainSocket = NoSocket
  BY <1>1 DEF MainKept, Connected
<1>2. CASE mMainSocket = s
  BY <1>2, SocketsAre DEF MainKept, Connected, Live
<1>3. CASE mMainSocket # s /\ mMainSocket # NoSocket
  BY <1>3 DEF MainKept, Connected, Others
<1> QED BY <1>1, <1>2, <1>3

LEMMA KeptSame ==
  ASSUME UNCHANGED <<mMainSocket, sock>>
  PROVE  MainKept
  BY DEF MainKept, Connected

LEMMA KeptByMake ==
  ASSUME SocksOK, Make, Fresh \in Sockets
  PROVE  MainKept
<1>1. mMainSocket' = Fresh /\ sock'[Fresh] = NewSocket
  BY MakeKeeps
<1> QED BY <1>1, NewRecord DEF MainKept, Connected

LEMMA KeptByGetInstance ==
  ASSUME SocksOK, GetInstance, mMainSocket = NoSocket => Fresh \in Sockets
  PROVE  MainKept
  BY KeptByMake, KeptSame DEF GetInstance

LEMMA KeptByClose ==
  ASSUME CloseMain
  PROVE  MainKept
  BY DEF CloseMain, MainKept, Connected

LEMMA KeptBySend ==
  ASSUME SocksOK, NEW r \in Request \ {"verify"}, Send(r), mMainSocket = NoSocket => Fresh \in Sockets
  PROVE  MainKept
<1>1. CASE mMainSocket = NoSocket
  BY <1>1, KeptByMake DEF Send
<1>2. CASE mMainSocket # NoSocket
  <2>1. PICK s \in Sockets : s = mMainSocket
    BY <1>2 DEF SocksOK
  <2>2. /\ mMainSocket' = mMainSocket /\ Others(s) /\ SameBut(sock[s], sock'[s], {"asked", "timed"})
        /\ \/ sock'[s].asked = sock[s].asked
           \/ sock'[s].asked = Append(sock[s].asked, r)
    BY <2>1, SendDoes DEF SocksOK
  <2>3. Unverified(sock[s]) => Unverified(sock'[s])
    <3>1. sock'[s].known = sock[s].known
      BY <2>2 DEF SameBut
    <3>2. CASE sock'[s].asked = sock[s].asked
      BY <3>1, <3>2 DEF Unverified
    <3>3. CASE sock'[s].asked = Append(sock[s].asked, r)
      <4> DEFINE q == sock[s].asked
                 a == sock'[s].asked
      <4>1. q \in Seq(Request) /\ Len(q) \in Nat /\ r # "verify"
        BY SockIs
      <4>2. Len(a) = Len(q) + 1 /\ a[Len(q) + 1] = r /\ \A i \in 1..Len(q) : a[i] = q[i]
        <5>1. a = Append(q, r) /\ q \in Seq(Request) /\ r \in Request
          BY <3>3, <4>1
        <5> HIDE DEF a, q
        <5> QED BY <5>1, AppendProperties
      <4>3. \A i \in 1..Len(a) : i \in 1..Len(q) \/ i = Len(q) + 1
        BY <4>1, <4>2
      <4> QED BY <3>1, <4>1, <4>2, <4>3 DEF Unverified
    <3> QED BY <2>2, <3>2, <3>3
  <2> QED BY <2>1, <2>2, <2>3, KeptBut DEF SameBut, Live
<1> QED BY <1>1, <1>2

LEMMA KeptByRead ==
  ASSUME SocksOK, NEW s \in Sockets, NEW n \in Nat, UNCHANGED mMainSocket,
         \/ sock' = [sock EXCEPT ![s].in = Rest(s, n)]
         \/ sock' = [sock EXCEPT ![s].in = Rest(s, n), ![s].timed = TRUE]
  PROVE  MainKept
<1>1. Others(s) /\ SameBut(sock[s], sock'[s], {"in", "timed"})
  BY ReadKeeps
<1>2. /\ sock'[s].st = sock[s].st /\ sock'[s].peer = sock[s].peer
      /\ sock'[s].known = sock[s].known /\ sock'[s].asked = sock[s].asked
  BY <1>1 DEF SameBut
<1> QED BY <1>1, <1>2, KeptBut DEF Live, Unverified, SocksOK

LEMMA KeptByEnd ==
  ASSUME SocksOK, NEW s \in Sockets, EndStream(s)
  PROVE  MainKept
<1>1. /\ Others(s) /\ SameBut(sock[s], sock'[s], {"st", "asked"})
      /\ sock[s].st = "open" /\ sock'[s].asked = <<>> /\ UNCHANGED mMainSocket
  BY EndDoes DEF SocksOK
<1>2. sock'[s].peer = sock[s].peer /\ sock'[s].known = sock[s].known
  BY <1>1 DEF SameBut
<1>3. Unverified(sock[s]) => Unverified(sock'[s])
  BY <1>1, <1>2 DEF Unverified
<1> QED BY <1>1, <1>2, <1>3, KeptBut DEF Live, SocksOK

LEMMA KeptByAnswer ==
  ASSUME SocksOK, NEW s \in Sockets, NEW splits \in BOOLEAN, Answer(s, splits)
  PROVE  MainKept
<1> DEFINE k == sock[s]
           n == sock'[s]
<1>1. /\ Others(s) /\ SameBut(k, n, {"in", "asked", "known"}) /\ k.st = "open" /\ UNCHANGED mMainSocket
      /\ n.known = (k.known \/ Head(k.asked) = "verify")
  BY AnswerIs
<1>2. PICK add \in Seq(Piece) : Answered(k, n, add)
  BY AnswerIs
<1>3. k \in SocketRecord /\ Len(k.asked) \in Nat /\ k.known \in BOOLEAN
  BY SockIs, RecordFields
<1>4. k.known => n.known
  BY <1>1, <1>3
<1>5. ASSUME Unverified(k) PROVE Unverified(n)
  <2>1. Len(k.asked) >= 1 /\ Head(k.asked) = k.asked[1] /\ k.asked[1] # "verify"
    <3>1. Len(k.asked) >= 1 /\ Head(k.asked) = k.asked[1]
      BY <1>2 DEF Answered
    <3>2. 1 \in 1..Len(k.asked)
      BY <1>3, <3>1
    <3> QED BY <1>5, <3>1, <3>2 DEF Unverified
  <2>2. ~n.known
    BY <1>1, <1>3, <1>5, <2>1 DEF Unverified
  <2>3. Len(n.asked) = Len(k.asked) - 1 /\ \A i \in 1..Len(n.asked) : n.asked[i] = k.asked[i + 1]
    BY <1>2, <2>1 DEF Answered
  <2>4. \A i \in 1..Len(n.asked) : i + 1 \in 1..Len(k.asked)
    BY <1>3, <2>3
  <2> QED BY <1>5, <2>2, <2>3, <2>4 DEF Unverified
<1>6. n.peer = k.peer
  BY <1>1 DEF SameBut
<1> QED BY <1>1, <1>4, <1>5, <1>6, KeptBut DEF Live, SocksOK

\* No thread connects or sends a login but those that did.
LEMMA ConnKept ==
  ASSUME ConnInv, MainKept, \A c \in Connectors : held'[c] = held[c],
         \A c \in Connectors : conn'[c] = conn[c] \/ conn'[c].pc \in {"none", "close", "idle", "ended"},
         "login" \in requests' => "login" \in requests
  PROVE  ConnInv'
<1>1. ASSUME NEW c \in Connectors, conn'[c].pc \in {"get", "make", "connect"}
      PROVE  ~Connected(mMainSocket)'
  BY <1>1 DEF ConnInv, MainKept
<1>2. ASSUME NEW c \in Connectors, Connected(mMainSocket)', conn'[c].pc \in {"verify", "answer", "verified"}
      PROVE  /\ sock'[mMainSocket'].peer = conn'[c].peer
             /\ conn'[c].pc = "verify" => Unverified(sock'[mMainSocket'])
             /\ conn'[c].pc = "answer" => held'[c] = mMainSocket'
             /\ conn'[c].pc = "verified" => sock'[mMainSocket'].known
  BY <1>2 DEF ConnInv, MainKept
<1>3. ASSUME "login" \in requests', Connected(mMainSocket)'
      PROVE  sock'[mMainSocket'].peer = "agent" /\ sock'[mMainSocket'].known
  BY <1>3 DEF ConnInv, MainKept
<1> QED BY <1>1, <1>2, <1>3 DEF ConnInv, Unverified

\* A thread that has ended its attempt, or begins another one.
LEMMA ConnOut ==
  ASSUME OneTask, cmdMaps \in Nat, NEW c \in Connectors, Active(c), UNCHANGED requests,
         \A d \in Connectors : d # c => conn'[d] = conn[d],
         conn'[c].pc \in {"close", "idle", "ended"}
  PROVE  ConnInv'
<1>1. requests' = {} /\ \A d \in Connectors : d # c => ~Active(d)
  BY WhileActive
<1>2. \A d \in Connectors : conn'[d].pc \in {"none", "close", "idle", "ended"}
  BY <1>1 DEF Active
<1> QED BY <1>1, <1>2 DEF ConnInv

\* What the test of the answer to a verification says.
LEMMA PairIs ==
  ASSUME NEW q \in Seq(Piece),
         SubSeq(q, 1, IF Len(q) > 1 THEN 2 ELSE 0) = <<"type", "zero">>
  PROVE  Len(q) > 1 /\ q[1] = "type" /\ q[2] = "zero"
<1>1. Len(q) \in Nat /\ Len(<<"type", "zero">>) = 2
  OBVIOUS
<1>2. Len(q) > 1
  <2>1. CASE ~(Len(q) > 1)
    <3>1. SubSeq(q, 1, 0) = <<>>
      BY SubSeqEmpty
    <3>2. SubSeq(q, 1, 0) = <<"type", "zero">>
      BY <2>1
    <3>3. Len(<<>>) = 0
      OBVIOUS
    <3> QED BY <1>1, <3>1, <3>2, <3>3
  <2> QED BY <2>1
<1>3. \A i \in 1..2 - 1 + 1 : SubSeq(q, 1, 2)[i] = q[1 + i - 1]
  <2>1. \A i \in 1..2 : q[i] \in Piece
    BY <1>1, <1>2
  <2> QED BY <2>1, SubSeqProperties
<1>4. SubSeq(q, 1, 2) = <<"type", "zero">>
  BY <1>2
<1>5. /\ 1 \in 1..2 - 1 + 1 /\ 2 \in 1..2 - 1 + 1 /\ 1 + 1 - 1 = 1 /\ 1 + 2 - 1 = 2
      /\ <<"type", "zero">>[1] = "type" /\ <<"type", "zero">>[2] = "zero"
  OBVIOUS
<1> QED BY <1>2, <1>3, <1>4, <1>5

\* No connection while a thread gets its socket.
LEMMA ConnAt ==
  ASSUME OneTask, cmdMaps \in Nat, NEW c \in Connectors, Active(c), UNCHANGED requests,
         \A d \in Connectors : d # c => conn'[d] = conn[d],
         conn'[c].pc \in {"get", "make", "connect"}, ~Connected(mMainSocket)'
  PROVE  ConnInv'
<1>1. requests' = {} /\ \A d \in Connectors : d # c => ~Active(d)
  BY WhileActive
<1>2. \A d \in Connectors : conn'[d].pc \in {"none", "get", "make", "connect", "idle", "ended"}
  BY <1>1 DEF Active
<1> QED BY <1>1, <1>2 DEF ConnInv

\* The thread that connected and the connection.
LEMMA ConnUpon ==
  ASSUME OneTask, cmdMaps \in Nat, NEW c \in Connectors, Active(c), UNCHANGED requests,
         \A d \in Connectors : d # c => conn'[d] = conn[d],
         conn'[c].pc \in {"verify", "answer", "verified"},
         Connected(mMainSocket)' =>
           /\ sock'[mMainSocket'].peer = conn'[c].peer
           /\ conn'[c].pc = "verify" => Unverified(sock'[mMainSocket'])
           /\ conn'[c].pc = "answer" => held'[c] = mMainSocket'
           /\ conn'[c].pc = "verified" => sock'[mMainSocket'].known
  PROVE  ConnInv'
<1>1. requests' = {} /\ \A d \in Connectors : d # c => ~Active(d)
  BY WhileActive
<1>2. \A d \in Connectors : d # c => conn'[d].pc \in {"none", "idle", "ended"}
  BY <1>1 DEF Active
<1> QED BY <1>1, <1>2 DEF ConnInv, Unverified

LEMMA ConnectorConn ==
  ASSUME Base, ConnInv, NEW c \in Connectors, ConnectorStep(c)
  PROVE  ConnInv'
<1> USE DEF Pcs
<1>0. /\ SocksOK /\ HeldOK /\ ConnOK /\ HoldInv /\ OneTask /\ cmdMaps \in Nat
      /\ mMainSocket \in Sockets \cup {NoSocket} /\ (mMainSocket = NoSocket => Fresh \in Sockets)
      /\ asking \in BOOLEAN /\ timeOutTimes \in 0..Attempts - 1 /\ c \in Threads
      /\ held[c] \in Sockets \cup {NoSocket}
  BY BaseIs, ThreadsAre DEF ControlOK, HeldOK
<1>1. CASE Close(c)
  <2>1. At(c, "close") /\ Go(c, "get") /\ CloseMain /\ UNCHANGED requests
    BY <1>1 DEF Close
  <2>2. conn'[c].pc = "get" /\ \A d \in Connectors : d # c => conn'[d] = conn[d]
    BY <1>0, <2>1, GoTypes
  <2>3. ~Connected(mMainSocket)'
    BY <2>1 DEF CloseMain, Connected
  <2>4. Active(c)
    BY <2>1 DEF Active, At
  <2> QED BY <1>0, <2>1, <2>2, <2>3, <2>4, ConnAt
<1>2. CASE Get(c)
  <2>1. At(c, "get") /\ (Go(c, "make") \/ Go(c, "connect")) /\ UNCHANGED <<mMainSocket, sock, requests>>
    BY <1>2 DEF Get
  <2>2. conn'[c].pc \in {"make", "connect"} /\ \A d \in Connectors : d # c => conn'[d] = conn[d]
    BY <1>0, <2>1, GoTypes
  <2>3. ~Connected(mMainSocket)' /\ Active(c)
    BY <2>1 DEF Connected, ConnInv, At, Active
  <2> QED BY <1>0, <2>1, <2>2, <2>3, ConnAt
<1>3. CASE MakeSocket(c)
  <2>1. At(c, "make") /\ Go(c, "connect") /\ Make /\ UNCHANGED requests
    BY <1>3 DEF MakeSocket
  <2>2. conn'[c].pc = "connect" /\ \A d \in Connectors : d # c => conn'[d] = conn[d]
    BY <1>0, <2>1, GoTypes
  <2>3. ~Connected(mMainSocket)'
    <3>1. Fresh \in Sockets
      BY <1>0, <2>1, FreshIsFree DEF At
    <3>2. mMainSocket' = Fresh /\ sock'[Fresh] = NewSocket
      BY <1>0, <2>1, <3>1, MakeKeeps
    <3> QED BY <3>2, NewRecord DEF Connected
  <2>4. Active(c)
    BY <2>1 DEF Active, At
  <2> QED BY <1>0, <2>1, <2>2, <2>3, <2>4, ConnAt
<1>4. CASE Connect(c)
  <2>1. At(c, "connect") /\ Active(c) /\ UNCHANGED <<mMainSocket, requests>>
    BY <1>4 DEF Connect, At, Active
  <2>2. PICK s \in Sockets : s = held[c]
    BY <1>0, <2>1 DEF HoldInv, At
  <2>3. CASE /\ sock[s].st = "new" /\ Go(c, "verify")
             /\ sock' = [sock EXCEPT ![s].st = "open", ![s].peer = conn[c].peer]
    <3>1. conn'[c].pc = "verify" /\ conn'[c].peer = conn[c].peer /\ \A d \in Connectors : d # c => conn'[d] = conn[d]
      BY <1>0, <2>3, GoTypes
    <3>2. conn[c].peer \in {"main", "agent"}
      BY <1>0 DEF ConnOK
    <3>3. /\ Others(s) /\ SameBut(sock[s], sock'[s], {"st", "peer"})
          /\ sock'[s].peer = conn[c].peer
      BY <1>0, <2>1, <2>3, <3>2, ConnectKeeps
    <3>4. Unverified(sock'[s])
      <4>1. sock'[s].known = sock[s].known /\ sock'[s].asked = sock[s].asked
        BY <3>3 DEF SameBut
      <4>2. ~sock[s].known /\ sock[s].asked = <<>>
        BY <1>0, <2>3, SockIs DEF Plain
      <4> QED BY <4>1, <4>2 DEF Unverified
    <3>5. ASSUME Connected(mMainSocket)' PROVE mMainSocket' = s
      <4>1. ~Connected(mMainSocket)
        BY <2>1 DEF ConnInv, At
      <4> QED BY <1>0, <2>1, <3>3, <3>5, <4>1 DEF Connected, Others
    <3> QED BY <1>0, <2>1, <3>1, <3>3, <3>4, <3>5, ConnUpon
  <2>4. CASE Failed(c)
    <3>1. conn'[c].pc \in {"idle", "ended", "close"} /\ \A d \in Connectors : d # c => conn'[d] = conn[d]
      BY <1>0, <2>4, FailedDoes
    <3> QED BY <1>0, <2>1, <3>1, ConnOut
  <2> QED BY <1>4, <2>2, <2>3, <2>4 DEF Connect
<1>5. CASE Verify(c)
  <2>1. At(c, "verify") /\ Active(c) /\ UNCHANGED requests
    BY <1>5 DEF Verify, At, Active
  <2>2. CASE Connected(mMainSocket)
    <3>1. Send("verify") /\ Hold(c, mMainSocket) /\ Go(c, "answer")
      BY <1>5, <2>2 DEF Verify
    <3>2. conn'[c].pc = "answer" /\ conn'[c].peer = conn[c].peer /\ \A d \in Connectors : d # c => conn'[d] = conn[d]
      BY <1>0, <3>1, GoTypes
    <3>3. PICK s \in Sockets : s = mMainSocket
      BY <1>0, <2>2 DEF Connected
    <3>4. held'[c] = s
      BY <1>0, <3>1, <3>3, HoldTypes
    <3>5. mMainSocket' = s /\ SameBut(sock[s], sock'[s], {"asked", "timed"})
      <4>1. "verify" \in Request
        BY DEF Request
      <4> QED BY <1>0, <3>1, <3>3, <4>1, SendDoes DEF SocksOK
    <3>6. sock'[s].peer = conn[c].peer
      BY <2>1, <2>2, <3>3, <3>5 DEF SameBut, ConnInv, At
    <3> QED BY <1>0, <2>1, <3>2, <3>4, <3>5, <3>6, ConnUpon
  <2>3. CASE Failed(c)
    <3>1. conn'[c].pc \in {"idle", "ended", "close"} /\ \A d \in Connectors : d # c => conn'[d] = conn[d]
      BY <1>0, <2>3, FailedDoes
    <3> QED BY <1>0, <2>1, <3>1, ConnOut
  <2> QED BY <1>5, <2>2, <2>3 DEF Verify
<1>6. CASE ReadAnswer(c)
  <2>1. At(c, "answer") /\ Active(c) /\ UNCHANGED <<mMainSocket, requests>>
    BY <1>6 DEF ReadAnswer, At, Active
  <2>2. PICK s \in Sockets : s = held[c]
    BY <1>0, <2>1 DEF HoldInv, At
  <2>3. CASE Failed(c)
    <3>1. conn'[c].pc \in {"idle", "ended", "close"} /\ \A d \in Connectors : d # c => conn'[d] = conn[d]
      BY <1>0, <2>3, FailedDoes
    <3> QED BY <1>0, <2>1, <3>1, ConnOut
  <2>4. CASE GoTo(c, "close", "main") \/ Go(c, Idle(c))
    <3>1. GoTo(c, "close", "main") \/ Go(c, "idle") \/ Go(c, "ended")
      BY <2>4 DEF Idle
    <3>2. conn'[c].pc \in {"idle", "ended", "close"} /\ \A d \in Connectors : d # c => conn'[d] = conn[d]
      BY <1>0, <3>1, GoTypes
    <3> QED BY <1>0, <2>1, <3>2, ConnOut
  <2>5. CASE /\ sock' = [sock EXCEPT ![s].in = Rest(s, 2)]
             /\ SubSeq(Pieces(s), 1, IF Len(Pieces(s)) > 1 THEN 2 ELSE 0) = <<"type", "zero">>
             /\ Go(c, "verified")
    <3>1. conn'[c].pc = "verified" /\ conn'[c].peer = conn[c].peer /\ \A d \in Connectors : d # c => conn'[d] = conn[d]
      BY <1>0, <2>5, GoTypes
    <3>2. Others(s) /\ SameBut(sock[s], sock'[s], {"in", "timed"})
      BY <1>0, <2>1, <2>5, ReadKeeps
    <3>3. sock[s].known
      <4>1. Len(sock[s].in) > 1
        BY <1>0, <2>5, SockIs, PairIs DEF Pieces
      <4>2. sock[s].in # <<>> /\ sock[s].known \in BOOLEAN
        <5>1. Len(<<>>) = 0
          OBVIOUS
        <5> QED BY <1>0, <4>1, <5>1, SockIs, RecordFields
      <4> QED BY <1>0, <4>2, SockIs DEF Plain
    <3>4. sock'[s].peer = sock[s].peer /\ sock'[s].known = sock[s].known /\ sock'[s].st = sock[s].st
      BY <3>2 DEF SameBut
    <3>5. ASSUME Connected(mMainSocket)' PROVE mMainSocket' = s /\ sock[s].peer = conn[c].peer
      <4>1. Connected(mMainSocket)
        BY <2>1, <3>2, <3>4, <3>5, <1>0 DEF Connected, Others
      <4> QED BY <2>1, <2>2, <4>1 DEF ConnInv, At
    <3> QED BY <1>0, <2>1, <3>1, <3>3, <3>4, <3>5, ConnUpon
  <2> QED BY <1>6, <2>2, <2>3, <2>4, <2>5 DEF ReadAnswer
<1>7. CASE Proceed(c)
  <2>1. At(c, "verified") /\ Active(c) /\ Go(c, Idle(c)) /\ UNCHANGED <<mMainSocket, sock>>
    BY <1>7 DEF Proceed, At, Active, sockets
  <2>2. conn'[c].pc \in {"idle", "ended"} /\ \A d \in Connectors : d # c => conn'[d] = conn[d]
    BY <1>0, <2>1, GoTypes DEF Idle
  <2>3. requests = {} /\ \A d \in Connectors : d # c => ~Active(d)
    BY <1>0, <2>1, WhileActive
  <2>4. \A d \in Connectors : conn'[d].pc \in {"none", "idle", "ended"}
    BY <2>2, <2>3 DEF Active
  <2>5. ASSUME "login" \in requests', Connected(mMainSocket)'
        PROVE  sock'[mMainSocket'].peer = "agent" /\ sock'[mMainSocket'].known
    <3>1. conn[c].peer = "agent"
      <4>1. conn[c].peer \in {"main", "agent"}
        BY <1>0 DEF ConnOK
      <4>2. "login" # "agent"
        OBVIOUS
      <4> QED BY <1>7, <2>3, <2>5, <4>1, <4>2 DEF Proceed
    <3>2. Connected(mMainSocket)
      BY <2>1, <2>5 DEF Connected
    <3> QED BY <2>1, <3>1, <3>2 DEF ConnInv, At
  <2> QED BY <2>4, <2>5 DEF ConnInv
<1> QED BY <1>1, <1>2, <1>3, <1>4, <1>5, <1>6, <1>7 DEF ConnectorStep

LEMMA ReceiverConn ==
  ASSUME Base, ConnInv, ReceiverStep
  PROVE  ConnInv'
<1>0. /\ SocksOK /\ HeldOK /\ ConnOK /\ HoldInv /\ OneTask /\ cmdMaps \in Nat
      /\ mMainSocket \in Sockets \cup {NoSocket} /\ (mMainSocket = NoSocket => Fresh \in Sockets)
      /\ \A c \in Connectors : c \in Threads /\ c # Receiver
  BY BaseIs, ThreadsAre
<1>1. MainKept
  <2>1. CASE UNCHANGED <<mMainSocket, sock>>
    BY <2>1, KeptSame
  <2>2. CASE GetInstance
    BY <1>0, <2>2, KeptByGetInstance
  <2>3. CASE LookMakes
    BY <1>0, <2>3, FreshIsFree, KeptByMake DEF LookMakes
  <2>4. ASSUME UNCHANGED mMainSocket, held[Receiver] # NoSocket,
               \/ Take(held[Receiver])
               \/ sock' = [sock EXCEPT ![held[Receiver]].in = Rest(held[Receiver], 1),
                                       ![held[Receiver]].timed = TRUE]
        PROVE  MainKept
    <3>1. held[Receiver] \in Sockets
      BY <1>0, <2>4, ThreadsAre DEF HeldOK
    <3> QED BY <1>0, <2>4, <3>1, KeptByRead DEF Take
  <2>5. CASE Begin \/ Loop \/ Look \/ Stream \/ Address
    BY <2>1, <2>2, <2>5 DEF Begin, Loop, Look, Stream, Address, sockets
  <2>6. CASE ReadLength \/ NoLength \/ ReadByte \/ ReadBody \/ ReadEmpty \/ Swallow
    <3>1. UNCHANGED mMainSocket /\ held[Receiver] # NoSocket
      BY <1>0, <2>6 DEF HoldInv, ReadLength, NoLength, ReadByte, ReadBody, ReadEmpty, Swallow
    <3>2. \/ UNCHANGED sock
          \/ Take(held[Receiver])
          \/ sock' = [sock EXCEPT ![held[Receiver]].in = Rest(held[Receiver], 1),
                                  ![held[Receiver]].timed = TRUE]
      BY <2>6 DEF ReadLength, NoLength, ReadByte, ReadBody, ReadEmpty, Swallow
    <3> QED BY <2>1, <2>4, <3>1, <3>2
  <2> QED BY <2>3, <2>5, <2>6 DEF ReceiverStep
<1>2. \A c \in Connectors : held'[c] = held[c]
  <2>1. UNCHANGED held \/ \E s \in Sockets \cup {NoSocket} : Hold(Receiver, s)
    BY <1>0 DEF ReceiverStep, Begin, Loop, Look, LookMakes, Stream, Address, ReadLength, NoLength, ReadByte,
                ReadBody, ReadEmpty, Swallow, Back, sockets
  <2> QED BY <1>0, <2>1, ThreadsAre, HoldTypes
<1>3. UNCHANGED requests
  BY DEF ReceiverStep, Begin, Loop, Look, LookMakes, Stream, Address, ReadLength, NoLength, ReadByte,
         ReadBody, ReadEmpty, Swallow, connecting
<1>4. \A c \in Connectors : conn'[c] = conn[c] \/ conn'[c].pc \in {"none", "close", "idle", "ended"}
  <2>1. CASE Begin
    <3>1. Go(Dispatcher, "idle")
      BY <2>1 DEF Begin
    <3>2. conn'[Dispatcher].pc = "idle" /\ \A d \in Connectors : d # Dispatcher => conn'[d] = conn[d]
      BY <1>0, <3>1, ThreadsAre, GoTypes DEF Pcs
    <3> QED BY <3>2
  <2>2. CASE UNCHANGED conn
    BY <2>2
  <2> QED BY <2>1, <2>2 DEF ReceiverStep, Loop, Look, LookMakes, Stream, Address, ReadLength, NoLength,
                            ReadByte, ReadBody, ReadEmpty, Swallow, connecting
<1> QED BY <1>1, <1>2, <1>3, <1>4, ConnKept

LEMMA OtherConn ==
  ASSUME Base, ConnInv,
         \/ StartService \/ TakeAddress \/ EndDispatcher \/ BeatStep \/ HandleReport \/ HomeKey
         \/ ServerStep \/ \E r \in requests : SendRequest(r)
  PROVE  ConnInv'
<1>0. /\ SocksOK /\ HeldOK /\ ConnOK /\ OneTask /\ cmdMaps \in Nat
      /\ mMainSocket \in Sockets \cup {NoSocket} /\ (mMainSocket = NoSocket => Fresh \in Sockets)
  BY BaseIs
<1>1. MainKept
  <2>1. CASE UNCHANGED <<mMainSocket, sock>>
    BY <2>1, KeptSame
  <2>2. CASE StartService \/ TakeAddress \/ EndDispatcher \/ HandleReport
    BY <2>1, <2>2 DEF StartService, TakeAddress, EndDispatcher, HandleReport, sockets
  <2>3. CASE BeatStep
    <3>1. CASE Send("beat")
      <4>1. "beat" \in Request \ {"verify"}
        BY DEF Request
      <4> QED BY <1>0, <3>1, <4>1, KeptBySend
    <3> QED BY <2>1, <2>3, <3>1 DEF BeatStep, Beat, TestCount, PutCount, sockets
  <2>4. CASE HomeKey
    BY <2>4, KeptByClose DEF HomeKey
  <2>5. CASE ServerStep
    <3>1. ASSUME NEW s \in Sockets, Answer(s, "split" \in limit.faults) PROVE MainKept
      <4>1. ("split" \in limit.faults) \in BOOLEAN
        OBVIOUS
      <4> QED BY <1>0, <3>1, <4>1, KeptByAnswer
    <3>2. CASE FallSilent
      BY <2>1, <3>2 DEF FallSilent
    <3>3. ASSUME NEW s \in Sockets, EndStream(s) PROVE MainKept
      BY <1>0, <3>3, KeptByEnd
    <3> QED BY <2>5, <3>1, <3>2, <3>3 DEF ServerStep
  <2>6. ASSUME NEW r \in requests, SendRequest(r) PROVE MainKept
    <3>1. r \in Request \ {"verify"}
      BY DEF Base, ControlOK, Request
    <3> QED BY <1>0, <2>6, <3>1, KeptBySend DEF SendRequest
  <2> QED BY <2>2, <2>3, <2>4, <2>5, <2>6
<1>2. \A c \in Connectors : held'[c] = held[c]
  <2>1. UNCHANGED held
    BY Zenon DEF StartService, TakeAddress, EndDispatcher, BeatStep, HandleReport, HomeKey, ServerStep, SendRequest,
           Beat, TestCount, PutCount, CloseMain, Answer, FallSilent, EndStream, sockets
  <2> QED BY Zenon, <2>1
<1>3. requests' \subseteq requests
  BY DEF StartService, TakeAddress, EndDispatcher, BeatStep, HandleReport, HomeKey, ServerStep, SendRequest,
         connecting
<1>4. \A c \in Connectors : conn'[c] = conn[c] \/ conn'[c].pc \in {"none", "close", "idle", "ended"}
  <2>1. CASE StartService
    BY <1>0, <2>1, ThreadsAre, GoTypes DEF Pcs, StartService
  <2>2. CASE TakeAddress
    BY <1>0, <2>2, ThreadsAre, GoTypes DEF Pcs, TakeAddress
  <2>3. CASE EndDispatcher
    BY <1>0, <2>3, ThreadsAre, GoTypes DEF Pcs, EndDispatcher
  <2> QED BY <2>1, <2>2, <2>3 DEF BeatStep, HandleReport, HomeKey, ServerStep, SendRequest, connecting
<1> QED BY <1>1, <1>2, <1>3, <1>4, ConnKept

LEMMA ConnStep ==
  ASSUME Base, ConnInv, [Next]_vars
  PROVE  ConnInv'
<1>1. CASE UNCHANGED vars
  <2>1. UNCHANGED <<mMainSocket, sock, held, conn, requests>>
    BY <1>1 DEF vars, sockets, connecting
  <2> QED BY <2>1, KeptSame, ConnKept
<1>2. CASE Next
  BY <1>2, ConnectorConn, ReceiverConn, OtherConn DEF Next
<1> QED BY <1>1, <1>2

\* A login goes through the socket in the field: to an agent that knows this client.
LEMMA LoginStep ==
  ASSUME ConnInv, LoginOnlyVerified, [Next]_vars
  PROVE  LoginOnlyVerified'
<1>1. UNCHANGED logins \/ \E r \in requests : SendRequest(r)
  BY DEF Next, vars, StartService, TakeAddress, EndDispatcher, BeatStep, HandleReport, HomeKey, ServerStep,
         ReceiverStep, Begin, Loop, Look, LookMakes, Stream, Address, ReadLength, NoLength, ReadByte, ReadBody,
         ReadEmpty, Swallow, ConnectorStep, Close, Get, MakeSocket, Connect, Verify, ReadAnswer, Proceed, history
<1>2. ASSUME NEW r \in requests, SendRequest(r) PROVE LoginOnlyVerified'
  BY <1>2 DEF SendRequest, ConnInv, LoginOnlyVerified
<1> QED BY <1>1, <1>2 DEF LoginOnlyVerified

-----------------------------------------------------------------------------
\* ReceiveThread and the stream: a socket on its own.

\* A record's sequences and their first places.
LEMMA Lengths ==
  ASSUME NEW k \in SocketRecord
  PROVE  /\ Len(k.asked) \in Nat /\ Len(k.in) \in Nat
         /\ k.asked # <<>> <=> Len(k.asked) >= 1
         /\ k.in # <<>> <=> Len(k.in) >= 1
         /\ \A i \in 1..Len(k.asked) : k.asked[i] \in Request
         /\ \A i \in 1..Len(k.in) : k.in[i] \in Piece
<1>1. k.asked \in Seq(Request) /\ k.in \in Seq(Piece)
  BY RecordFields
<1>2. /\ \A q \in Seq(Request) : Len(q) \in Nat /\ (q # <<>> <=> Len(q) >= 1) /\ \A i \in 1..Len(q) : q[i] \in Request
      /\ \A q \in Seq(Piece) : Len(q) \in Nat /\ (q # <<>> <=> Len(q) >= 1) /\ \A i \in 1..Len(q) : q[i] \in Piece
  OBVIOUS
<1> QED BY <1>1, <1>2

\* Nothing asked, nothing there.
LEMMA FitsEmpty ==
  ASSUME NEW k, k.in = <<>>, k.asked = <<>>, NEW m \in BOOLEAN, NEW v \in BOOLEAN,
         m => k.st = "closed", v => ~k.known
  PROVE  Fits(k, m, v)
<1>1. Len(<<>>) = 0
  OBVIOUS
<1> QED BY <1>1 DEF Fits, Alternates, Verifies

\* The stream ends.
LEMMA FitsEnd ==
  ASSUME NEW k, NEW n, NEW m \in BOOLEAN, NEW v \in BOOLEAN, Fits(k, m, v),
         n.in = k.in, n.asked = <<>>, n.known = k.known, k.st = "open", n.st = "ended"
  PROVE  Fits(n, m, v)
<1>1. Len(<<>>) = 0
  OBVIOUS
<1> QED BY <1>1 DEF Fits, Alternates, Verifies

\* A request; a verification makes a thread wait for it.
LEMMA FitsSend ==
  ASSUME NEW k \in SocketRecord, NEW n \in SocketRecord, SameBut(k, n, {"asked", "timed"}),
         NEW m \in BOOLEAN, NEW v \in BOOLEAN, NEW w \in BOOLEAN, Fits(k, m, v), NEW r \in Request \ {"rest"},
         v => w, w => v \/ ~k.known, r = "verify" => w,
         n.asked = k.asked \/ n.asked = Append(k.asked, r)
  PROVE  Fits(n, m, w)
<1>0. n.in = k.in /\ n.known = k.known /\ n.st = k.st
  BY DEF SameBut
<1>1. CASE n.asked = k.asked
  BY <1>0, <1>1 DEF Fits, Alternates, Verifies
<1>2. CASE n.asked = Append(k.asked, r)
  <2> DEFINE q == k.asked
             a == n.asked
  <2>1. Len(a) = Len(q) + 1 /\ a[Len(q) + 1] = r /\ \A i \in 1..Len(q) : a[i] = q[i]
    <3>1. a = Append(q, r) /\ q \in Seq(Request) /\ r \in Request
      BY <1>2, RecordFields
    <3> HIDE DEF a, q
    <3> QED BY <3>1, AppendProperties
  <2>2. Len(q) \in Nat /\ (q # <<>> <=> Len(q) >= 1) /\ a # <<>>
    BY <2>1, Lengths
  <2>3. \A i \in 1..Len(a) : i \in 1..Len(q) \/ i = Len(q) + 1
    BY <2>1, <2>2
  <2>4. q # <<>> => a[1] = q[1]
    BY <2>1, <2>2
  <2>5. q = <<>> => a[1] = r
    BY <2>1, <2>2
  <2>6. Verifies(n) => w
    BY <1>0, <2>1, <2>3 DEF Fits, Verifies
  <2>7. Alternates(n)
    <3>1. a[1] = "rest" => q # <<>> /\ q[1] = "rest"
      BY <2>2, <2>4, <2>5
    <3>2. q # <<>> /\ q[1] = "rest" => a # <<>> /\ a[1] = "rest"
      BY <2>2, <2>4
    <3> HIDE DEF a, q
    <3>3. Alternates(k)
      BY DEF Fits
    <3> QED BY <1>0, <3>1, <3>2, <3>3 DEF Alternates, a, q
  <2> QED BY <1>0, <2>6, <2>7 DEF Fits
<1> QED BY <1>1, <1>2

\* Connected.
LEMMA FitsConnect ==
  ASSUME NEW k, NEW n, NEW m \in BOOLEAN, NEW v \in BOOLEAN, Fits(k, m, v), k.st = "new", Plain(k),
         SameBut(k, n, {"st", "peer"})
  PROVE  Fits(n, m, v)
<1>1. n.in = k.in /\ n.asked = k.asked /\ n.known = k.known
  BY DEF SameBut
<1>2. k.in = <<>> /\ k.asked = <<>> /\ ~k.known
  BY DEF Plain
<1>3. ~m
  BY <1>2 DEF Fits
<1> QED BY <1>1, <1>2, <1>3, FitsEmpty

\* n is k after d pieces were read.
Dropped(k, n, d) ==
  /\ SameBut(k, n, {"in", "timed"})
  /\ Len(n.in) = IF d <= Len(k.in) THEN Len(k.in) - d ELSE 0
  /\ \A i \in 1..Len(n.in) : n.in[i] = k.in[i + d]

LEMMA DropAlternates ==
  ASSUME NEW k \in SocketRecord, NEW n \in SocketRecord, NEW d \in Nat, Dropped(k, n, d), Alternates(k),
         k.in # <<"type">>
  PROVE  Alternates(n) /\ (Len(k.in) > 0 => k.in[Len(k.in)] \in Closes) /\ (k.asked # <<>> => k.asked[1] # "rest")
<1> DEFINE a == k.in
           b == n.in
<1>1. n.st = k.st /\ n.asked = k.asked
  BY DEF Dropped, SameBut
<1>2. Len(a) \in Nat /\ Len(b) \in Nat /\ Len(b) = (IF d <= Len(a) THEN Len(a) - d ELSE 0)
      /\ \A i \in 1..Len(b) : b[i] = a[i + d]
  BY Lengths DEF Dropped
<1>3. (Len(a) > 0 => a[Len(a)] \in Closes) /\ (k.asked # <<>> => k.asked[1] # "rest")
  BY DEF Alternates
<1>4. ASSUME NEW i \in 1..Len(b) - 1 PROVE b[i] \in Closes <=> b[i + 1] \notin Closes
  <2>1. i \in 1..Len(b) /\ i + 1 \in 1..Len(b) /\ i + d \in 1..Len(a) - 1 /\ (i + 1) + d = (i + d) + 1
    <3> HIDE DEF a, b
    <3> QED BY <1>2, <1>4
  <2>2. a[i + d] \in Closes <=> a[(i + d) + 1] \notin Closes
    BY <2>1 DEF Alternates
  <2> QED BY <1>2, <2>1, <2>2
<1>5. ASSUME Len(b) > 0 PROVE b[Len(b)] \in Closes
  <2>1. Len(b) \in 1..Len(b) /\ Len(b) + d = Len(a) /\ Len(a) > 0
    <3> HIDE DEF a, b
    <3> QED BY <1>2, <1>5
  <2> QED BY <1>2, <1>3, <2>1
<1> QED BY <1>1, <1>3, <1>4, <1>5 DEF Alternates

LEMMA OneLess ==
  ASSUME NEW a \in Nat, NEW b \in Nat, a >= 1, a # 1
  PROVE  /\ b = a - 1 => 1 \in 1..b /\ 1 \in 1..a - 1
         /\ b = (IF 2 <= a THEN a - 2 ELSE 0) => a >= 2 /\ b = a - 2
  OBVIOUS

\* A length is read, from a socket that nobody verifies.
LEMMA FitsLength ==
  ASSUME NEW k \in SocketRecord, NEW n \in SocketRecord, Dropped(k, n, 1), Fits(k, FALSE, FALSE), k.in # <<>>
  PROVE  k.in[1] \in {"one", "len"} /\ Fits(n, TRUE, FALSE)
<1>1. Len(k.in) \in Nat /\ Len(k.in) >= 1 /\ 1 \in 1..Len(k.in) /\ Len(n.in) \in Nat
      /\ Len(n.in) = Len(k.in) - 1 /\ (n.in # <<>> <=> Len(n.in) >= 1)
  <2>1. Len(k.in) \in Nat /\ Len(k.in) >= 1 /\ Len(n.in) \in Nat /\ (n.in # <<>> <=> Len(n.in) >= 1)
    BY Lengths
  <2>2. Len(n.in) = IF 1 <= Len(k.in) THEN Len(k.in) - 1 ELSE 0
    BY DEF Dropped
  <2> QED BY <2>1, <2>2
<1>2. k.in[1] \notin Closes /\ ~Verifies(k)
  BY DEF Fits
<1>3. \A i \in 1..Len(k.in) : k.in[i] # "type"
  BY <1>2 DEF Verifies
<1>4. k.in[1] \in {"one", "len"}
  BY <1>1, <1>2, <1>3, Lengths DEF Closes, Piece
<1>5. k.in # <<"type">>
  <2>1. <<"type">>[1] = "type"
    OBVIOUS
  <2> QED BY <1>1, <1>3, <2>1
<1>6. Alternates(n) /\ k.in[Len(k.in)] \in Closes
  BY <1>1, <1>5, DropAlternates DEF Fits
<1>7. n.asked = k.asked /\ n.st = k.st
  BY DEF Dropped, SameBut
<1>8. ~Verifies(n)
  <2>1. \A i \in 1..Len(n.in) : i + 1 \in 1..Len(k.in) /\ n.in[i] = k.in[i + 1]
    BY <1>1 DEF Dropped
  <2> QED BY <1>2, <1>3, <1>7, <2>1 DEF Verifies
<1>9. Len(k.in) # 1
  BY <1>2, <1>6
<1>10. n.in # <<>> /\ n.in[1] \in Closes
  <2>1. 1 \in 1..Len(n.in) /\ 1 \in 1..Len(k.in) - 1
    BY <1>1, <1>9, OneLess
  <2>2. n.in[1] = k.in[1 + 1]
    BY <2>1 DEF Dropped
  <2>3. k.in[1] \in Closes <=> k.in[1 + 1] \notin Closes
    BY <2>1 DEF Fits, Alternates
  <2> QED BY <1>1, <1>2, <2>1, <2>2, <2>3
<1> QED BY <1>4, <1>6, <1>8, <1>10 DEF Fits

\* The end of a message is read, or the byte of an answer to a heartbeat.
LEMMA FitsBody ==
  ASSUME NEW k \in SocketRecord, NEW n \in SocketRecord, Dropped(k, n, 1), NEW v \in BOOLEAN,
         Fits(k, TRUE, v), k.in # <<>>
  PROVE  Fits(n, FALSE, v)
<1>1. Len(k.in) \in Nat /\ Len(k.in) >= 1 /\ Len(n.in) \in Nat
      /\ Len(n.in) = Len(k.in) - 1 /\ (n.in # <<>> <=> Len(n.in) >= 1)
  <2>1. Len(k.in) \in Nat /\ Len(k.in) >= 1 /\ Len(n.in) \in Nat /\ (n.in # <<>> <=> Len(n.in) >= 1)
    BY Lengths
  <2>2. Len(n.in) = IF 1 <= Len(k.in) THEN Len(k.in) - 1 ELSE 0
    BY DEF Dropped
  <2> QED BY <2>1, <2>2
<1>2. k.in[1] \in Closes /\ k.in # <<"type">>
  <2>1. <<"type">>[1] = "type" /\ "type" \notin Closes
    BY DEF Closes
  <2>2. k.in[1] \in Closes
    BY DEF Fits
  <2> QED BY <2>1, <2>2
<1>3. Alternates(n)
  BY <1>2, DropAlternates DEF Fits
<1>4. n.asked = k.asked /\ n.st = k.st /\ n.known = k.known
  BY DEF Dropped, SameBut
<1>5. Verifies(n) => Verifies(k)
  <2>1. \A i \in 1..Len(n.in) : i + 1 \in 1..Len(k.in) /\ n.in[i] = k.in[i + 1]
    BY <1>1 DEF Dropped
  <2> QED BY <1>4, <2>1 DEF Verifies
<1>6. n.in # <<>> => n.in[1] \notin Closes
  <2>1. ASSUME n.in # <<>> PROVE n.in[1] \notin Closes
    <3>1. 1 \in 1..Len(n.in) /\ 1 \in 1..Len(k.in) - 1
      BY <1>1, <2>1
    <3>2. n.in[1] = k.in[1 + 1]
      BY <3>1 DEF Dropped
    <3>3. k.in[1] \in Closes <=> k.in[1 + 1] \notin Closes
      BY <3>1 DEF Fits, Alternates
    <3> QED BY <1>2, <3>2, <3>3
  <2> QED BY <2>1
<1>7. ~(v /\ k.known)
  <2>1. "type" \notin Closes
    BY DEF Closes
  <2> QED BY <1>2, <2>1 DEF Fits
<1> QED BY <1>3, <1>4, <1>5, <1>6, <1>7 DEF Fits

\* The answer to a verification is read as a whole, or the stream is at its end.
LEMMA FitsVerified ==
  ASSUME NEW k \in SocketRecord, NEW n \in SocketRecord, Dropped(k, n, 2), NEW m \in BOOLEAN,
         Fits(k, m, TRUE), Plain(k), k.in # <<>> \/ k.st = "ended", Len(k.in) # 1
  PROVE  Fits(n, m, FALSE)
<1>1. n.asked = k.asked /\ n.st = k.st /\ n.known = k.known
  BY DEF Dropped, SameBut
<1>2. /\ Len(k.in) \in Nat /\ (k.in # <<>> <=> Len(k.in) >= 1)
      /\ Len(n.in) \in Nat /\ (n.in # <<>> <=> Len(n.in) >= 1)
      /\ Len(n.in) = IF 2 <= Len(k.in) THEN Len(k.in) - 2 ELSE 0
  <2>1. Len(n.in) = IF 2 <= Len(k.in) THEN Len(k.in) - 2 ELSE 0
    BY DEF Dropped
  <2> QED BY <2>1, Lengths
<1>3. CASE k.in = <<>>
  <2>1. k.asked = <<>> /\ n.in = <<>> /\ ~m
    <3>1. k.st = "ended"
      BY <1>3
    <3>2. Len(<<>>) = 0
      OBVIOUS
    <3> QED BY <1>2, <1>3, <3>1, <3>2 DEF Plain, Fits
  <2> QED BY <1>1, <2>1, FitsEmpty
<1>4. CASE k.in # <<>>
  <2>1. Len(k.in) >= 2 /\ Len(n.in) = Len(k.in) - 2
    BY <1>2, <1>4, OneLess
  <2>2. k.known /\ k.in[1] = "type"
    <3>1. k.known
      BY <1>4, RecordFields DEF Plain
    <3> QED BY <3>1 DEF Fits
  <2>3. ~m
    <3>1. "type" \notin Closes
      BY DEF Closes
    <3> QED BY <1>4, <2>2, <3>1 DEF Fits
  <2>4. k.in # <<"type">>
    <3>1. Len(<<"type">>) = 1
      OBVIOUS
    <3> QED BY <3>1
  <2>5. Alternates(n) /\ (k.asked # <<>> => k.asked[1] # "rest")
    BY <2>4, DropAlternates DEF Fits
  <2>6. \A i \in 1..Len(n.in) : i + 2 \in 1..Len(k.in) /\ n.in[i] = k.in[i + 2] /\ i + 2 # 1
    BY <1>2, <2>1 DEF Dropped
  <2>7. ~Verifies(n)
    <3>1. \A i \in 1..Len(n.in) : n.in[i] # "type"
      BY <2>6 DEF Plain
    <3>2. ASSUME NEW i \in 1..Len(k.asked) PROVE k.asked[i] \notin {"verify", "rest"}
      <4>1. k.asked[i] # "verify"
        BY <2>2 DEF Plain
      <4>2. k.asked[i] # "rest"
        <5>1. k.asked # <<>>
          BY Lengths
        <5> QED BY <2>5, <5>1 DEF Plain
      <4> QED BY <4>1, <4>2
    <3> QED BY <1>1, <3>1, <3>2 DEF Verifies
  <2>8. n.in # <<>> => n.in[1] \notin Closes
    <3>1. ASSUME n.in # <<>> PROVE n.in[1] \notin Closes
      <4>1. 1 \in 1..Len(n.in) /\ 1 \in 1..Len(k.in) - 1 /\ 2 \in 1..Len(k.in) - 1 /\ 1 + 2 = 2 + 1 /\ 1 + 1 = 2
        BY <1>2, <2>1, <3>1
      <4>2. n.in[1] = k.in[2 + 1]
        BY <2>6, <4>1
      <4>3. /\ k.in[1] \in Closes <=> k.in[1 + 1] \notin Closes
            /\ k.in[2] \in Closes <=> k.in[2 + 1] \notin Closes
        BY <4>1 DEF Fits, Alternates
      <4>4. k.in[1] \notin Closes
        BY <2>2 DEF Closes
      <4> QED BY <4>1, <4>2, <4>3, <4>4
    <3> QED BY <3>1
  <2> QED BY <1>1, <2>3, <2>5, <2>7, <2>8 DEF Fits
<1> QED BY <1>3, <1>4

\* Places in a sequence that was made longer.
LEMMA PlacesAdd ==
  ASSUME NEW a \in Nat, NEW b \in Nat, NEW c \in Nat, c = a + b
  PROVE  /\ a >= 1 => 1 \in 1..a /\ c >= 1
         /\ \A i \in 1..c : ~(i <= a) => i - a \in 1..b /\ a + (i - a) = i
         /\ \A i \in 1..c - 1 : i + 1 <= a => i \in 1..a - 1 /\ i \in 1..a /\ i + 1 \in 1..a
         /\ \A i \in 1..c - 1 : i = a => b >= 1 /\ a > 0 /\ i \in 1..a /\ 1 \in 1..b /\ i + 1 = a + 1
         /\ \A i \in 1..c - 1 : ~(i + 1 <= a) /\ i # a => b >= 2
         /\ \A i \in 1..c - 1 : ~(i + 1 <= a) /\ i # a /\ b = 2 =>
              i = a + 1 /\ i + 1 = a + 2 /\ 1 \in 1..b /\ 2 \in 1..b
  OBVIOUS

LEMMA OnlyType ==
  ASSUME NEW q \in Seq(Piece), Len(q) = 1, q[1] = "type"
  PROVE  q = <<"type">>
<1> DEFINE b == <<"type">>
<1>1. b \in Seq(Piece) /\ Len(b) = 1 /\ b[1] = "type"
  BY DEF Piece
<1> HIDE DEF b
<1>2. \A i \in 1..Len(q) : q[i] = b[i]
  <2>1. \A i \in 1..1 : i = 1
    OBVIOUS
  <2> QED BY <1>1, <2>1
<1>3. q = b
  BY <1>1, <1>2, SeqEqual
<1> QED BY <1>3 DEF b

\* A server answers.
LEMMA FitsAnswer ==
  ASSUME NEW k \in SocketRecord, NEW n \in SocketRecord, SameBut(k, n, {"in", "asked", "known"}),
         k.st = "open", NEW m \in BOOLEAN, NEW v \in BOOLEAN, Fits(k, m, v), Plain(k),
         n.known = (k.known \/ Head(k.asked) = "verify"),
         NEW add \in Seq(Piece), Answered(k, n, add), AnswerOf(k, add, n.asked)
  PROVE  Fits(n, m, v)
<1> DEFINE h == k.asked[1]
<1>0. /\ Len(k.asked) \in Nat /\ Len(k.in) \in Nat /\ Len(n.asked) \in Nat /\ Len(n.in) \in Nat
      /\ (k.in # <<>> <=> Len(k.in) >= 1) /\ (n.in # <<>> <=> Len(n.in) >= 1)
      /\ (n.asked # <<>> <=> Len(n.asked) >= 1) /\ Len(add) \in Nat
      /\ n.st = "open" /\ k.known \in BOOLEAN
  BY Lengths, RecordFields DEF SameBut
<1>1. /\ Len(k.asked) >= 1 /\ Head(k.asked) = h /\ h \in Request /\ 1 \in 1..Len(k.asked)
      /\ Len(n.in) = Len(k.in) + Len(add)
      /\ \A i \in 1..Len(k.in) : n.in[i] = k.in[i]
      /\ \A i \in 1..Len(add) : n.in[Len(k.in) + i] = add[i]
  <2>1. Len(k.asked) >= 1 /\ Len(k.asked) \in Nat => 1 \in 1..Len(k.asked)
    OBVIOUS
  <2> QED BY <1>0, <2>1 DEF Answered
<1>2. ASSUME Len(n.asked) = Len(k.asked) - 1, \A i \in 1..Len(n.asked) : n.asked[i] = k.asked[i + 1]
      PROVE  /\ n.asked # <<>> => n.asked[1] # "rest"
             /\ \A i \in 1..Len(n.asked) : i + 1 \in 1..Len(k.asked) /\ n.asked[i] = k.asked[i + 1]
  <2>1. \A i \in 1..Len(n.asked) : i + 1 \in 1..Len(k.asked) /\ i + 1 # 1
    <3> DEFINE L == Len(k.asked)
               M == Len(n.asked)
    <3>1. L \in Nat /\ M \in Nat /\ M = L - 1
      BY <1>0, <1>2
    <3> HIDE DEF L, M
    <3>2. \A i \in 1..M : i + 1 \in 1..L /\ i + 1 # 1
      BY <3>1
    <3> QED BY <3>2 DEF L, M
  <2>2. n.asked # <<>> => 1 \in 1..Len(n.asked)
    BY <1>0
  <2>3. \A i \in 1..Len(n.asked) : n.asked[i] # "rest"
    BY <1>2, <2>1 DEF Plain
  <2> QED BY <1>2, <2>1, <2>2, <2>3
<1>3. CASE h = "verify"
  <2>1. ~k.known /\ k.in = <<>> /\ n.known /\ ~m /\ v
    <3>1. ~k.known
      BY <1>1, <1>3 DEF Plain
    <3>2. k.in = <<>>
      BY <3>1 DEF Plain
    <3>3. Verifies(k)
      BY <1>1, <1>3 DEF Verifies
    <3> QED BY <1>1, <1>3, <3>1, <3>2, <3>3 DEF Fits
  <2>2. Len(k.in) = 0
    BY <1>0, <2>1
  <2>3. CASE add = <<"type", "zero">> /\ n.asked = Tail(k.asked)
    <3>1. Len(add) = 2 /\ add[1] = "type" /\ add[2] = "zero"
      BY <2>3
    <3>2. Len(n.in) = 2 /\ n.in[1] = "type" /\ n.in[2] = "zero"
      <4>1. 1 \in 1..Len(add) /\ 2 \in 1..Len(add) /\ 0 + 1 = 1 /\ 0 + 2 = 2 /\ 0 + Len(add) = 2
        BY <3>1
      <4> QED BY <1>1, <2>2, <3>1, <4>1
    <3>3. n.asked # <<>> => n.asked[1] # "rest"
      <4>1. Len(n.asked) = Len(k.asked) - 1 /\ \A i \in 1..Len(n.asked) : n.asked[i] = k.asked[i + 1]
        <5>1. Len(<<"type">>) = 1
          OBVIOUS
        <5> QED BY <3>1, <5>1 DEF Answered
      <4> QED BY <1>2, <4>1
    <3>4. Alternates(n)
      <4>1. \A i \in 1..2 - 1 : i = 1
        OBVIOUS
      <4>2. "type" \notin Closes /\ "zero" \in Closes
        BY DEF Closes
      <4> QED BY <3>2, <3>3, <4>1, <4>2 DEF Alternates
    <3>5. n.in # <<>> /\ "type" \notin Closes
      BY <1>0, <3>2 DEF Closes
    <3> QED BY <2>1, <3>2, <3>4, <3>5 DEF Fits
  <2>4. CASE add = <<"type">> /\ n.asked = <<"rest">> \o Tail(k.asked)
    <3>1. Len(add) = 1 /\ add[1] = "type"
      BY <2>4
    <3>2. Len(n.in) = 1 /\ n.in[1] = "type"
      <4>1. 1 \in 1..Len(add) /\ 0 + 1 = 1 /\ 0 + Len(add) = 1
        BY <3>1
      <4> QED BY <1>1, <2>2, <3>1, <4>1
    <3>3. n.in = <<"type">>
      BY <3>2, OnlyType, RecordFields
    <3>4. n.asked # <<>> /\ n.asked[1] = "rest"
      <4>1. n.asked[1] = "rest" /\ Len(n.asked) = Len(k.asked)
        BY <2>4 DEF Answered
      <4> QED BY <1>0, <1>1, <4>1
    <3>5. Alternates(n)
      <4>1. \A i \in 1..1 - 1 : FALSE
        OBVIOUS
      <4> QED BY <3>2, <3>3, <3>4, <4>1 DEF Alternates
    <3>6. n.in # <<>> /\ "type" \notin Closes
      BY <1>0, <3>2 DEF Closes
    <3> QED BY <2>1, <3>2, <3>5, <3>6 DEF Fits
  <2> QED BY <1>1, <1>3, <2>3, <2>4 DEF AnswerOf
<1>4. CASE h # "verify"
  <2>1. /\ Len(n.asked) = Len(k.asked) - 1
        /\ \A i \in 1..Len(n.asked) : n.asked[i] = k.asked[i + 1]
    BY <1>4 DEF Answered
  <2>2. /\ n.asked # <<>> => n.asked[1] # "rest"
        /\ \A i \in 1..Len(n.asked) : i + 1 \in 1..Len(k.asked) /\ n.asked[i] = k.asked[i + 1]
    BY <1>2, <2>1
  <2>3. n.known = k.known
    BY <1>0, <1>1, <1>4
  <2>4. \A i \in 1..Len(add) : add[i] # "type"
    BY <1>1, <1>4, AddedIs
  <2>5. Verifies(n) => Verifies(k)
    <3>1. ASSUME NEW i \in 1..Len(n.in), n.in[i] = "type" PROVE i \in 1..Len(k.in) /\ k.in[i] = "type"
      <4>1. CASE i <= Len(k.in)
        <5>1. i \in 1..Len(k.in)
          BY <1>0, <4>1
        <5> QED BY <1>1, <3>1, <5>1
      <4>2. CASE ~(i <= Len(k.in))
        <5>1. i - Len(k.in) \in 1..Len(add) /\ Len(k.in) + (i - Len(k.in)) = i
          BY <1>0, <1>1, <4>2, PlacesAdd
        <5> QED BY <1>1, <2>4, <3>1, <5>1
      <4> QED BY <4>1, <4>2
    <3> QED BY <2>2, <3>1 DEF Verifies
  <2>6. CASE h = "rest"
    <3>1. k.in = <<"type">> /\ k.asked # <<>>
      BY <1>0, <1>1, <2>6, Lengths DEF Fits, Alternates
    <3>2. Len(k.in) = 1 /\ k.in[1] = "type"
      BY <3>1
    <3>3. Len(add) = 1 /\ add[1] = "zero"
      BY <1>1, <2>6 DEF AnswerOf
    <3>4. Len(n.in) = 2 /\ n.in[1] = "type" /\ n.in[2] = "zero"
      <4>1. 1 \in 1..Len(add) /\ 1 \in 1..Len(k.in) /\ 1 + 1 = 2
        BY <3>2, <3>3
      <4>2. Len(n.in) = 2
        BY <1>1, <3>2, <3>3
      <4> QED BY <1>1, <3>2, <3>3, <4>1, <4>2
    <3>5. Alternates(n)
      <4>1. \A i \in 1..2 - 1 : i = 1
        OBVIOUS
      <4>2. "type" \notin Closes /\ "zero" \in Closes
        BY DEF Closes
      <4> QED BY <2>2, <3>4, <4>1, <4>2 DEF Alternates
    <3>6. n.in # <<>> /\ k.in # <<>>
      BY <1>0, <3>2, <3>4
    <3> QED BY <2>3, <2>5, <3>2, <3>4, <3>5, <3>6 DEF Fits
  <2>7. CASE h # "rest"
    <3>1. Len(add) = 0 \/ (Len(add) = 2 /\ add[1] \notin Closes /\ add[2] \in Closes)
      BY <1>1, <1>4, <2>7, AddedIs
    <3>2. Len(k.in) > 0 => k.in[Len(k.in)] \in Closes
      BY <1>0, <2>7 DEF Fits, Alternates
    <3>3. Alternates(n)
      <4>1. ASSUME NEW i \in 1..Len(n.in) - 1 PROVE n.in[i] \in Closes <=> n.in[i + 1] \notin Closes
        <5>1. CASE i + 1 <= Len(k.in)
          <6>1. i \in 1..Len(k.in) - 1 /\ i \in 1..Len(k.in) /\ i + 1 \in 1..Len(k.in)
            BY <1>0, <5>1, PlacesAdd
          <6> QED BY <1>1, <6>1 DEF Fits, Alternates
        <5>2. CASE i = Len(k.in)
          <6>1. /\ i \in 1..Len(k.in) /\ 1 \in 1..Len(add) /\ i + 1 = Len(k.in) + 1 /\ Len(add) = 2
                /\ Len(k.in) > 0
            BY <1>0, <1>1, <3>1, <5>2, PlacesAdd
          <6> QED BY SMTT(30), <1>1, <3>1, <3>2, <5>2, <6>1
        <5>3. CASE ~(i + 1 <= Len(k.in)) /\ i # Len(k.in)
          <6>0. Len(add) >= 2
            BY <1>0, <1>1, <5>3, PlacesAdd
          <6>1. /\ i = Len(k.in) + 1 /\ i + 1 = Len(k.in) + 2 /\ 1 \in 1..Len(add) /\ 2 \in 1..Len(add)
                /\ Len(add) = 2
            <7>1. Len(add) = 2
              BY <3>1, <6>0
            <7> QED BY <1>0, <1>1, <5>3, <7>1, PlacesAdd
          <6> QED BY <1>1, <3>1, <6>1
        <5> QED BY <5>1, <5>2, <5>3
      <4>2. ASSUME Len(n.in) > 0 PROVE n.in[Len(n.in)] \in Closes
        <5>1. CASE Len(add) = 0
          <6>1. Len(n.in) = Len(k.in) /\ Len(n.in) \in 1..Len(k.in)
            BY <1>0, <1>1, <4>2, <5>1
          <6> QED BY <1>1, <3>2, <4>2, <6>1
        <5>2. CASE Len(add) = 2
          <6>1. 2 \in 1..Len(add) /\ Len(n.in) = Len(k.in) + 2
            BY <1>1, <5>2
          <6> QED BY <1>1, <3>1, <5>2, <6>1
        <5> QED BY <3>1, <5>1, <5>2
      <4> QED BY <2>2, <4>1, <4>2 DEF Alternates
    <3>4. CASE k.in # <<>>
      <4>1. 1 \in 1..Len(k.in) /\ n.in # <<>>
        BY <1>0, <1>1, <3>4, PlacesAdd
      <4>2. n.in[1] = k.in[1]
        BY <1>1, <4>1
      <4> QED BY <2>3, <2>5, <3>3, <3>4, <4>1, <4>2 DEF Fits
    <3>5. CASE k.in = <<>>
      <4>1. ~m /\ ~(v /\ k.known)
        BY <3>5 DEF Fits
      <4>2. n.in # <<>> => n.in[1] \notin Closes
        <5>1. ASSUME n.in # <<>> PROVE n.in[1] \notin Closes
          <6>1. Len(k.in) = 0 /\ Len(add) = 2 /\ 1 \in 1..Len(add) /\ 0 + 1 = 1
            BY <1>0, <1>1, <3>1, <3>5, <5>1
          <6> QED BY <1>1, <3>1, <6>1
        <5> QED BY <5>1
      <4> QED BY <2>3, <2>5, <3>3, <4>1, <4>2 DEF Fits
    <3> QED BY <3>4, <3>5
  <2> QED BY <2>6, <2>7
<1> QED BY <1>3, <1>4

-----------------------------------------------------------------------------
\* ReceiveThread and the stream: every step.

\* The flags of a socket, and what its order follows from.
FlagsKept(u) == (Mid(u)' <=> Mid(u)) /\ (VerifiedBy(u)' <=> VerifiedBy(u))

LEMMA InOrderIs ==
  ASSUME NEW s \in Sockets
  PROVE  \E m, v \in BOOLEAN : /\ m <=> Mid(s)
                               /\ v <=> VerifiedBy(s)
                               /\ InOrder(s) <=> Fits(sock[s], m, v)
<1>1. PICK m \in BOOLEAN : m <=> Mid(s)
  OBVIOUS
<1>2. PICK v \in BOOLEAN : v <=> VerifiedBy(s)
  OBVIOUS
<1>3. InOrder(s) <=> Fits(sock[s], m, v)
  BY <1>1, <1>2 DEF InOrder, Fits
<1> QED BY <1>1, <1>2, <1>3

LEMMA InOrderBy ==
  ASSUME NEW s \in Sockets, NEW m \in BOOLEAN, NEW v \in BOOLEAN, Fits(sock'[s], m, v),
         m <=> Mid(s)', v <=> VerifiedBy(s)'
  PROVE  InOrder(s)'
  BY DEF InOrder, Fits

LEMMA InOrderStays ==
  ASSUME NEW s \in Sockets, InOrder(s), sock'[s] = sock[s], FlagsKept(s)
  PROVE  InOrder(s)'
<1>1. PICK m, v \in BOOLEAN : /\ m <=> Mid(s)
                              /\ v <=> VerifiedBy(s)
                              /\ InOrder(s) <=> Fits(sock[s], m, v)
  BY InOrderIs
<1>2. Fits(sock'[s], m, v)
  BY <1>1
<1> QED BY <1>1, <1>2, InOrderBy DEF FlagsKept

LEMMA StreamIs ==
  ASSUME StreamInv, \A u \in Sockets : InOrder(u)', Timely', receiver' \notin {"empty", "swallow"}
  PROVE  StreamInv'
  BY DEF StreamInv

LEMMA StreamStays ==
  ASSUME StreamInv, UNCHANGED sock, \A u \in Sockets : FlagsKept(u), Timely',
         receiver' \notin {"empty", "swallow"}
  PROVE  StreamInv'
  BY InOrderStays, StreamIs DEF StreamInv

LEMMA StreamAt ==
  ASSUME StreamInv, NEW s \in Sockets, Others(s), \A u \in Sockets : u # s => FlagsKept(u),
         InOrder(s)', Timely', receiver' \notin {"empty", "swallow"}
  PROVE  StreamInv'
<1>1. ASSUME NEW u \in Sockets PROVE InOrder(u)'
  BY InOrderStays DEF StreamInv, Others
<1> QED BY <1>1, StreamIs

\* The threads stay where they are, as far as a socket is concerned.
LEMMA FlagsSame ==
  ASSUME UNCHANGED held, receiver' = receiver \/ {receiver, receiver'} \cap {"byte", "body"} = {},
         \A c \in Connectors : conn'[c].pc = "answer" <=> conn[c].pc = "answer"
  PROVE  \A u \in Sockets : FlagsKept(u)
  BY DEF FlagsKept, Mid, VerifiedBy

LEMMA TimelyKept ==
  ASSUME Timely,
         \A c \in Connectors : conn'[c].pc \in Early =>
           conn[c].pc \in Early \/ (mMainSocket' = NoSocket /\ held'[c] = NoSocket),
         \A c \in Connectors : \A s \in Sockets : conn'[c].pc \in Early /\ (s = mMainSocket' \/ s = held'[c]) =>
           s = mMainSocket \/ s = held[c] \/ ~sock'[s].timed,
         \A s \in Sockets : sock'[s].timed /\ ~sock'[s].known => sock[s].timed /\ ~sock[s].known
  PROVE  Timely'
<1>1. ASSUME NEW c \in Connectors, conn'[c].pc \in Early, NEW s \in Sockets, s = mMainSocket' \/ s = held'[c],
             sock'[s].timed
      PROVE  sock'[s].known
  BY ZenonT(60), <1>1, SocketsAre DEF Timely
<1> QED BY <1>1 DEF Timely

\* What a step does to the sockets does not make a read give up too early.
Calm ==
  /\ \A s \in Sockets : s = mMainSocket' => s = mMainSocket \/ ~sock'[s].timed
  /\ \A s \in Sockets : sock'[s].timed /\ ~sock'[s].known => sock[s].timed /\ ~sock[s].known

LEMMA TimelyCalm ==
  ASSUME Timely, Calm,
         \A c \in Connectors : conn'[c].pc \in Early =>
           conn[c].pc \in Early /\ \A s \in Sockets : s = held'[c] => s = mMainSocket \/ s = held[c] \/ ~sock'[s].timed
  PROVE  Timely'
  BY TimelyKept DEF Calm

LEMMA CalmSame == ASSUME UNCHANGED <<mMainSocket, sock>> PROVE Calm
  BY DEF Calm

LEMMA CalmMake ==
  ASSUME SocksOK, Make, Fresh \in Sockets
  PROVE  Calm
  BY MakeKeeps, NewRecord DEF Calm, Others

LEMMA CalmGet ==
  ASSUME SocksOK, GetInstance, mMainSocket = NoSocket => Fresh \in Sockets
  PROVE  Calm
  BY CalmMake, CalmSame DEF GetInstance

LEMMA CalmClose ==
  ASSUME SocksOK, CloseMain
  PROVE  Calm
<1>1. CASE mMainSocket = NoSocket
  BY <1>1, SocketsAre DEF Calm, CloseMain
<1>2. CASE mMainSocket # NoSocket
  <2>1. mMainSocket \in Sockets /\ mMainSocket' = NoSocket
    BY <1>2 DEF SocksOK, CloseMain
  <2>2. UNCHANGED sock \/ (sock'[mMainSocket] = Closed /\ Others(mMainSocket))
    BY CloseDoes DEF SocksOK
  <2> QED BY <2>1, <2>2, ClosedRecord, SocketsAre DEF Calm, Others
<1> QED BY <1>1, <1>2

LEMMA CalmSend ==
  ASSUME SocksOK, NEW r \in {"beat", "verify"}, Send(r), mMainSocket = NoSocket => Fresh \in Sockets
  PROVE  Calm
<1>1. CASE mMainSocket = NoSocket
  BY <1>1, CalmMake DEF Send
<1>2. CASE mMainSocket # NoSocket
  <2>1. mMainSocket \in Sockets /\ r \in Request
    BY <1>2 DEF SocksOK, Request
  <2>2. /\ mMainSocket' = mMainSocket /\ Others(mMainSocket)
        /\ SameBut(sock[mMainSocket], sock'[mMainSocket], {"asked", "timed"})
        /\ sock'[mMainSocket].timed = (sock[mMainSocket].timed \/ r \notin {"beat", "verify"})
    BY <2>1, SendDoes DEF SocksOK
  <2>3. sock'[mMainSocket].timed = sock[mMainSocket].timed
    <3>1. sock[mMainSocket].timed \in BOOLEAN
      BY <2>1, SockIs, RecordFields
    <3> QED BY <2>2, <3>1
  <2> QED BY <2>2, <2>3 DEF Calm, Others, SameBut
<1> QED BY <1>1, <1>2

LEMMA CalmRead ==
  ASSUME SocksOK, NEW s \in Sockets, UNCHANGED mMainSocket,
         \/ Take(s)
         \/ sock' = [sock EXCEPT ![s].in = Rest(s, 2)]
         \/ sock' = [sock EXCEPT ![s].in = Rest(s, 1), ![s].timed = TRUE] /\ sock[s].in # <<>>
  PROVE  Calm
<1>1. Others(s) /\ SameBut(sock[s], sock'[s], {"in", "timed"})
  BY ReadKeeps DEF Take
<1>2. sock'[s].timed => sock[s].timed \/ sock[s].known
  <2>1. CASE Take(s) \/ sock' = [sock EXCEPT ![s].in = Rest(s, 2)]
    <3>1. sock'[s].timed = sock[s].timed
      <4>1. \A n \in Nat : sock' = [sock EXCEPT ![s].in = Rest(s, n)] => sock'[s].timed = sock[s].timed
        <5>1. ASSUME NEW q, sock' = [sock EXCEPT ![s].in = q] PROVE sock'[s].timed = sock[s].timed
          BY <5>1 DEF SocksOK, SockOK, SocketRecord
        <5> QED BY <5>1
      <4> QED BY <2>1, <4>1 DEF Take
    <3> QED BY <3>1
  <2>2. CASE sock[s].in # <<>>
    BY <2>2, SockIs, RecordFields DEF Plain
  <2> QED BY <2>1, <2>2
<1>3. sock'[s].known = sock[s].known
  BY <1>1 DEF SameBut
<1> QED BY <1>1, <1>2, <1>3 DEF Calm, Others

LEMMA CalmEnd ==
  ASSUME SocksOK, NEW s \in Sockets, EndStream(s)
  PROVE  Calm
<1>1. Others(s) /\ SameBut(sock[s], sock'[s], {"st", "asked"}) /\ UNCHANGED mMainSocket
  BY EndDoes DEF SocksOK
<1> QED BY <1>1 DEF Calm, Others, SameBut

LEMMA CalmAnswer ==
  ASSUME SocksOK, NEW s \in Sockets, NEW splits \in BOOLEAN, Answer(s, splits)
  PROVE  Calm
<1>1. /\ Others(s) /\ SameBut(sock[s], sock'[s], {"in", "asked", "known"}) /\ UNCHANGED mMainSocket
      /\ sock'[s].known = (sock[s].known \/ Head(sock[s].asked) = "verify")
  BY AnswerIs
<1>2. sock'[s].timed = sock[s].timed /\ (sock[s].known => sock'[s].known)
  BY <1>1 DEF SameBut
<1> QED BY <1>1, <1>2 DEF Calm, Others

\* The sockets change and the threads stay where they are.
LEMMA StreamMakes ==
  ASSUME Base, StreamInv, Make, \A u \in Sockets : FlagsKept(u), Timely', receiver' \notin {"empty", "swallow"},
         mMainSocket = NoSocket \/ receiver = "make" \/ \E c \in Connectors : conn[c].pc = "make"
  PROVE  StreamInv'
<1>1. Fresh \in Sockets /\ \A t \in Threads : held[t] # Fresh
  BY BaseIs, FreshIsFree
<1>2. PICK f \in Sockets : f = Fresh
  BY <1>1
<1>3. sock'[f] = NewSocket /\ Others(f)
  BY <1>1, <1>2, BaseIs, MakeKeeps
<1>4. ~Mid(f)' /\ ~VerifiedBy(f)'
  BY <1>1, <1>2, ThreadsAre DEF FlagsKept, Mid, VerifiedBy
<1>5. Fits(sock'[f], FALSE, FALSE)
  BY <1>3, NewRecord, FitsEmpty
<1>6. InOrder(f)'
  BY <1>4, <1>5, InOrderBy
<1> QED BY <1>3, <1>6, StreamAt

LEMMA StreamGets ==
  ASSUME Base, StreamInv, GetInstance, \A u \in Sockets : FlagsKept(u), Timely',
         receiver' \notin {"empty", "swallow"}
  PROVE  StreamInv'
  BY StreamMakes, StreamStays DEF GetInstance

LEMMA StreamCloses ==
  ASSUME Base, StreamInv, CloseMain, \A u \in Sockets : FlagsKept(u), Timely',
         receiver' \notin {"empty", "swallow"}
  PROVE  StreamInv'
<1>1. CASE UNCHANGED sock
  BY <1>1, StreamStays
<1>2. CASE mMainSocket \in Sockets /\ sock'[mMainSocket] = Closed /\ Others(mMainSocket)
  <2>1. PICK s \in Sockets : s = mMainSocket
    BY <1>2
  <2>2. ASSUME NEW m \in BOOLEAN, NEW v \in BOOLEAN PROVE Fits(sock'[s], m, v)
    BY <1>2, <2>1, ClosedRecord, FitsEmpty
  <2>3. InOrder(s)'
    <3>1. PICK m \in BOOLEAN : m <=> Mid(s)'
      OBVIOUS
    <3>2. PICK v \in BOOLEAN : v <=> VerifiedBy(s)'
      OBVIOUS
    <3>3. Fits(sock'[s], m, v)
      BY <2>2
    <3> QED BY <3>1, <3>2, <3>3, InOrderBy
  <2> QED BY <1>2, <2>1, <2>3, StreamAt
<1> QED BY <1>1, <1>2, BaseIs, CloseDoes DEF SocksOK

LEMMA StreamSends ==
  ASSUME Base, StreamInv, NEW r \in Request \ {"rest", "verify"}, Send(r), \A u \in Sockets : FlagsKept(u),
         Timely', receiver' \notin {"empty", "swallow"}
  PROVE  StreamInv'
<1>1. CASE mMainSocket = NoSocket
  BY <1>1, StreamMakes DEF Send
<1>2. CASE mMainSocket # NoSocket
  <2>1. PICK s \in Sockets : s = mMainSocket
    BY <1>2, BaseIs
  <2>2. /\ SockOK' /\ Others(s) /\ SameBut(sock[s], sock'[s], {"asked", "timed"})
        /\ sock'[s].asked = sock[s].asked \/ sock'[s].asked = Append(sock[s].asked, r)
    BY <2>1, BaseIs, SendDoes DEF SocksOK
  <2>3. PICK m, v \in BOOLEAN : /\ m <=> Mid(s)
                                /\ v <=> VerifiedBy(s)
                                /\ InOrder(s) <=> Fits(sock[s], m, v)
    BY InOrderIs
  <2>4. sock[s] \in SocketRecord /\ sock'[s] \in SocketRecord
    BY <2>2, BaseIs DEF SocksOK, SockOK
  <2>5. Fits(sock[s], m, v)
    BY <2>3 DEF StreamInv
  <2>6. Fits(sock'[s], m, v)
    BY <2>2, <2>4, <2>5, FitsSend
  <2>7. InOrder(s)'
    BY <2>3, <2>6, InOrderBy DEF FlagsKept
  <2> QED BY <2>2, <2>7, StreamAt
<1> QED BY <1>1, <1>2

LEMMA StreamEnds ==
  ASSUME Base, StreamInv, NEW s \in Sockets, EndStream(s), \A u \in Sockets : FlagsKept(u),
         Timely', receiver' \notin {"empty", "swallow"}
  PROVE  StreamInv'
<1>1. /\ Others(s) /\ SameBut(sock[s], sock'[s], {"st", "asked"})
      /\ sock[s].st = "open" /\ sock'[s].st = "ended" /\ sock'[s].asked = <<>>
  BY BaseIs, EndDoes DEF SocksOK
<1>2. PICK m, v \in BOOLEAN : /\ m <=> Mid(s)
                              /\ v <=> VerifiedBy(s)
                              /\ InOrder(s) <=> Fits(sock[s], m, v)
  BY InOrderIs
<1>3. sock'[s].in = sock[s].in /\ sock'[s].known = sock[s].known
  BY <1>1 DEF SameBut
<1>4. Fits(sock'[s], m, v)
  BY <1>1, <1>2, <1>3, FitsEnd DEF StreamInv
<1>5. InOrder(s)'
  BY <1>2, <1>4, InOrderBy DEF FlagsKept
<1> QED BY <1>1, <1>5, StreamAt

LEMMA StreamAnswers ==
  ASSUME Base, StreamInv, NEW s \in Sockets, NEW splits \in BOOLEAN, Answer(s, splits),
         \A u \in Sockets : FlagsKept(u), Timely', receiver' \notin {"empty", "swallow"}
  PROVE  StreamInv'
<1>1. /\ SocksOK' /\ Others(s) /\ SameBut(sock[s], sock'[s], {"in", "asked", "known"})
      /\ sock[s].st = "open" /\ sock'[s].known = (sock[s].known \/ Head(sock[s].asked) = "verify")
  BY BaseIs, AnswerIs
<1>2. PICK add \in Seq(Piece) : Answered(sock[s], sock'[s], add) /\ AnswerOf(sock[s], add, sock'[s].asked)
  BY BaseIs, AnswerIs
<1>3. PICK m, v \in BOOLEAN : /\ m <=> Mid(s)
                              /\ v <=> VerifiedBy(s)
                              /\ InOrder(s) <=> Fits(sock[s], m, v)
  BY InOrderIs
<1>4. sock[s] \in SocketRecord /\ sock'[s] \in SocketRecord /\ Plain(sock[s])
  BY <1>1, BaseIs DEF SocksOK, SockOK, PlainSockets
<1>5. Fits(sock[s], m, v)
  BY <1>3 DEF StreamInv
<1>6. Fits(sock'[s], m, v)
  BY <1>1, <1>2, <1>4, <1>5, FitsAnswer
<1>7. InOrder(s)'
  BY <1>3, <1>6, InOrderBy DEF FlagsKept
<1> QED BY <1>1, <1>7, StreamAt

LEMMA OtherStream ==
  ASSUME Base, StreamInv,
         \/ StartService \/ TakeAddress \/ EndDispatcher \/ BeatStep \/ HandleReport \/ HomeKey
         \/ ServerStep \/ \E r \in requests : SendRequest(r)
  PROVE  StreamInv'
<1> USE DEF Pcs
<1>0. /\ SocksOK /\ HeldOK /\ ConnOK /\ HoldInv /\ StartInv /\ OneTask /\ cmdMaps \in Nat
      /\ mMainSocket \in Sockets \cup {NoSocket} /\ (mMainSocket = NoSocket => Fresh \in Sockets)
      /\ Timely /\ receiver \notin {"empty", "swallow"}
  BY BaseIs DEF StreamInv
<1>1. UNCHANGED held
  BY DEF StartService, TakeAddress, EndDispatcher, BeatStep, HandleReport, HomeKey, ServerStep, SendRequest,
         Beat, TestCount, PutCount, CloseMain, Answer, FallSilent, EndStream, sockets
<1>2. \A c \in Connectors : conn'[c] = conn[c] \/ {conn[c].pc, conn'[c].pc} \subseteq {"service", "close", "idle", "ended"}
  <2>1. CASE StartService
    BY <1>0, <2>1, ThreadsAre, GoTypes DEF StartService, At
  <2>2. CASE TakeAddress
    BY <1>0, <2>2, ThreadsAre, GoTypes DEF TakeAddress, At
  <2>3. CASE EndDispatcher
    BY <1>0, <2>3, ThreadsAre, GoTypes DEF EndDispatcher, At
  <2> QED BY <2>1, <2>2, <2>3 DEF BeatStep, HandleReport, HomeKey, ServerStep, SendRequest, connecting
<1>3. receiver' = receiver \/ {receiver, receiver'} \cap {"byte", "body"} = {}
  <2>1. CASE StartService
    BY <1>0, <2>1 DEF StartService, StartInv
  <2> QED BY <2>1 DEF TakeAddress, EndDispatcher, BeatStep, HandleReport, HomeKey, ServerStep, SendRequest, receiving
<1>4. receiver' \notin {"empty", "swallow"}
  <2>1. CASE StartService
    BY <2>1 DEF StartService
  <2> QED BY <1>0, <2>1 DEF TakeAddress, EndDispatcher, BeatStep, HandleReport, HomeKey, ServerStep, SendRequest, receiving
<1>5. \A u \in Sockets : FlagsKept(u)
  BY <1>1, <1>2, <1>3, FlagsSame
<1>6. ASSUME Calm PROVE Timely'
  <2>1. \A c \in Connectors : conn'[c].pc \in Early => conn[c].pc \in Early
    BY <1>2 DEF Early
  <2> QED BY <1>0, <1>1, <1>6, <2>1, TimelyCalm
<1>7. ASSUME UNCHANGED <<mMainSocket, sock>> PROVE StreamInv'
  BY <1>4, <1>5, <1>6, <1>7, CalmSame, StreamStays
<1>8. CASE StartService \/ TakeAddress \/ EndDispatcher \/ HandleReport
  BY <1>7, <1>8 DEF StartService, TakeAddress, EndDispatcher, HandleReport, sockets
<1>9. CASE BeatStep
  <2>1. CASE Send("beat")
    <3>1. "beat" \in Request \ {"rest", "verify"} /\ "beat" \in {"beat", "verify"}
      BY DEF Request
    <3> QED BY <1>0, <1>4, <1>5, <1>6, <2>1, <3>1, CalmSend, StreamSends
  <2> QED BY <1>7, <1>9, <2>1 DEF BeatStep, Beat, TestCount, PutCount, sockets
<1>10. CASE HomeKey
  BY <1>0, <1>4, <1>5, <1>6, <1>10, CalmClose, StreamCloses DEF HomeKey
<1>11. CASE ServerStep
  <2>1. ASSUME NEW s \in Sockets, Answer(s, "split" \in limit.faults) PROVE StreamInv'
    <3>1. ("split" \in limit.faults) \in BOOLEAN
      OBVIOUS
    <3> QED BY <1>0, <1>4, <1>5, <1>6, <2>1, <3>1, CalmAnswer, StreamAnswers
  <2>2. CASE FallSilent
    BY <1>7, <2>2 DEF FallSilent
  <2>3. ASSUME NEW s \in Sockets, EndStream(s) PROVE StreamInv'
    BY <1>0, <1>4, <1>5, <1>6, <2>3, CalmEnd, StreamEnds
  <2> QED BY <1>11, <2>1, <2>2, <2>3 DEF ServerStep
<1>12. ASSUME NEW r \in requests, SendRequest(r) PROVE StreamInv'
  <2>1. r \in Request \ {"rest", "verify"}
    BY DEF Base, ControlOK, Request
  <2>2. \A c \in Connectors : ~Active(c)
    BY <1>0, WhileRequested
  <2>3. Timely'
    BY <1>12, <2>2 DEF Timely, Active, Early, SendRequest
  <2> QED BY <1>4, <1>5, <1>12, <2>1, <2>3, StreamSends DEF SendRequest
<1> QED BY <1>8, <1>9, <1>10, <1>11, <1>12

LEMMA ReceiverStream ==
  ASSUME Base, StreamInv, ReceiverStep, ~collided'
  PROVE  StreamInv'
<1> USE DEF Pcs
<1>0. /\ SocksOK /\ HeldOK /\ ConnOK /\ HoldInv /\ StartInv /\ OneTask /\ cmdMaps \in Nat
      /\ mMainSocket \in Sockets \cup {NoSocket} /\ (mMainSocket = NoSocket => Fresh \in Sockets)
      /\ Timely /\ receiver \notin {"empty", "swallow"}
      /\ \A c \in Connectors : c \in Threads /\ c # Receiver
  BY BaseIs, ThreadsAre DEF StreamInv
<1>1. \A c \in Connectors : held'[c] = held[c]
  <2>1. UNCHANGED held \/ \E s \in Sockets \cup {NoSocket} : Hold(Receiver, s)
    BY <1>0 DEF ReceiverStep, Begin, Loop, Look, LookMakes, Stream, Address, ReadLength, NoLength, ReadByte,
                ReadBody, ReadEmpty, Swallow, Back, sockets
  <2> QED BY <1>0, <2>1, ThreadsAre, HoldTypes
<1>2. \A c \in Connectors : conn'[c] = conn[c] \/ {conn[c].pc, conn'[c].pc} \subseteq {"none", "idle"}
  <2>1. CASE Begin
    <3>1. Go(Dispatcher, "idle") /\ At(Dispatcher, "none")
      BY <1>0, <2>1 DEF Begin, StartInv
    <3>2. conn'[Dispatcher].pc = "idle" /\ \A d \in Connectors : d # Dispatcher => conn'[d] = conn[d]
      BY <1>0, <3>1, ThreadsAre, GoTypes
    <3> QED BY <3>1, <3>2 DEF At
  <2>2. CASE UNCHANGED conn
    BY <2>2
  <2> QED BY <2>1, <2>2 DEF ReceiverStep, Loop, Look, LookMakes, Stream, Address, ReadLength, NoLength,
                            ReadByte, ReadBody, ReadEmpty, Swallow, connecting
<1>3. \A u \in Sockets : VerifiedBy(u)' <=> VerifiedBy(u)
  BY <1>1, <1>2 DEF VerifiedBy
<1>4. ASSUME Calm PROVE Timely'
  <2>1. \A c \in Connectors : conn'[c].pc \in Early => conn[c].pc \in Early
    BY <1>2 DEF Early
  <2> QED BY <1>0, <1>1, <1>4, <2>1, TimelyCalm
<1>5. ASSUME receiver \notin {"byte", "body"}, receiver' \notin {"byte", "body"}
      PROVE  \A u \in Sockets : FlagsKept(u)
  BY <1>3, <1>5 DEF FlagsKept, Mid
<1>6. CASE Begin \/ Loop \/ NoLength
  <2>1. UNCHANGED <<mMainSocket, sock>> /\ {receiver, receiver'} \subseteq {"begin", "loop", "ended", "look", "read"}
    BY <1>6 DEF Begin, Loop, NoLength, Back, sockets
  <2> QED BY <1>4, <1>5, <2>1, CalmSame, StreamStays
<1>7. CASE Look \/ Stream \/ Address
  <2>1. {receiver, receiver'} \subseteq {"look", "make", "stream", "loop", "address", "read"}
    BY <1>7 DEF Look, Stream, Address, NotConnected
  <2>2. UNCHANGED <<mMainSocket, sock>> \/ GetInstance
    BY <1>7 DEF Look, Stream, Address
  <2>3. Calm
    BY <1>0, <2>2, CalmSame, CalmGet
  <2> QED BY <1>4, <1>5, <2>1, <2>2, <2>3, StreamStays, StreamGets
<1>8. CASE LookMakes
  <2>1. receiver = "make" /\ receiver' = "loop" /\ Make
    BY <1>8 DEF LookMakes, NotConnected
  <2>2. Fresh \in Sockets
    BY <1>0, <2>1, FreshIsFree
  <2>3. Calm
    BY <1>0, <2>1, <2>2, CalmMake
  <2> QED BY <1>4, <1>5, <2>1, <2>3, StreamMakes
<1>9. ASSUME receiver \in {"read", "byte", "body"} PROVE held[Receiver] \in Sockets
  BY <1>0, <1>9, ThreadsAre DEF HoldInv, HeldOK
<1>10. CASE ReadLength
  <2>1. PICK s \in Sockets : s = held[Receiver]
    BY <1>9, <1>10 DEF ReadLength
  <2>2. /\ receiver = "read" /\ sock[s].in # <<>> /\ UNCHANGED <<mMainSocket, held>>
        /\ sock' = [sock EXCEPT ![s].in = Rest(s, 1), ![s].timed = TRUE]
        /\ receiver' = AfterLength(Head(sock[s].in))
        /\ ~VerifiedBy(s)
    BY <1>10, <2>1 DEF ReadLength, Has, Pieces, VerifiedBy
  <2>3. SocksOK' /\ Others(s) /\ Dropped(sock[s], sock'[s], 1)
    BY <1>0, <2>2, ReadKeeps DEF Dropped
  <2>4. sock[s] \in SocketRecord /\ sock'[s] \in SocketRecord
    BY <1>0, <2>3 DEF SocksOK, SockOK
  <2>5. Fits(sock[s], FALSE, FALSE)
    <3>1. PICK m, v \in BOOLEAN : /\ m <=> Mid(s)
                                  /\ v <=> VerifiedBy(s)
                                  /\ InOrder(s) <=> Fits(sock[s], m, v)
      BY InOrderIs
    <3>2. m = FALSE /\ v = FALSE
      BY <2>2, <3>1 DEF Mid
    <3> QED BY <3>1, <3>2 DEF StreamInv
  <2>6. sock[s].in[1] \in {"one", "len"} /\ Fits(sock'[s], TRUE, FALSE)
    BY <2>2, <2>3, <2>4, <2>5, FitsLength
  <2>7. receiver' \in {"byte", "body"}
    <3>1. Head(sock[s].in) = sock[s].in[1]
      BY <1>0, <2>2, SockIs
    <3> QED BY <2>2, <2>6, <3>1 DEF AfterLength
  <2>8. \A u \in Sockets : u # s => FlagsKept(u)
    BY <1>3, <2>1, <2>2 DEF FlagsKept, Mid
  <2>9. InOrder(s)'
    <3>1. Mid(s)' /\ ~VerifiedBy(s)'
      BY <1>3, <2>1, <2>2, <2>7 DEF Mid
    <3> QED BY <2>6, <3>1, InOrderBy
  <2>10. Calm
    BY <1>0, <2>2, CalmRead
  <2> QED BY <1>4, <2>3, <2>7, <2>8, <2>9, <2>10, StreamAt
<1>11. CASE ReadByte \/ ReadBody
  <2>1. PICK s \in Sockets : s = held[Receiver]
    BY <1>9, <1>11 DEF ReadByte, ReadBody
  <2>2. /\ receiver \in {"byte", "body"} /\ receiver' = "loop" /\ UNCHANGED mMainSocket
        /\ \/ sock[s].in # <<>> /\ Take(s)
           \/ UNCHANGED sock /\ (sock[s].in = <<>> \/ sock[s].st = "closed")
    BY <1>11, <2>1 DEF ReadByte, ReadBody, Back, Has, Over, Late, Stuck, AtEnd, Broken, Pieces
  <2>3. PICK v \in BOOLEAN : v <=> VerifiedBy(s)
    OBVIOUS
  <2>4. Fits(sock[s], TRUE, v)
    <3>1. PICK m, w \in BOOLEAN : /\ m <=> Mid(s)
                                  /\ w <=> VerifiedBy(s)
                                  /\ InOrder(s) <=> Fits(sock[s], m, w)
      BY InOrderIs
    <3>2. m = TRUE /\ w = v
      BY <2>1, <2>2, <2>3, <3>1 DEF Mid
    <3> QED BY <3>1, <3>2 DEF StreamInv
  <2>5. \A u \in Sockets : u # s => FlagsKept(u)
    BY <1>3, <2>1, <2>2 DEF FlagsKept, Mid
  <2>6. ~Mid(s)' /\ (v <=> VerifiedBy(s)')
    BY <1>3, <2>2, <2>3 DEF Mid
  <2>7. CASE sock[s].in # <<>> /\ Take(s)
    <3>1. SocksOK' /\ Others(s) /\ Dropped(sock[s], sock'[s], 1)
      BY <1>0, <2>2, <2>7, ReadKeeps DEF Dropped, Take
    <3>2. sock[s] \in SocketRecord /\ sock'[s] \in SocketRecord
      BY <1>0, <3>1 DEF SocksOK, SockOK
    <3>3. Fits(sock'[s], FALSE, v)
      BY <2>4, <2>7, <3>1, <3>2, FitsBody
    <3>4. InOrder(s)'
      BY <2>6, <3>3, InOrderBy
    <3>5. Calm
      BY <1>0, <2>2, <2>7, CalmRead
    <3> QED BY <1>4, <2>2, <2>5, <3>1, <3>4, <3>5, StreamAt
  <2>8. CASE UNCHANGED sock /\ (sock[s].in = <<>> \/ sock[s].st = "closed")
    <3>1. sock[s].st = "closed"
      BY <2>4, <2>8 DEF Fits
    <3>2. sock[s].in = <<>> /\ sock[s].asked = <<>> /\ ~sock[s].known
      BY <1>0, <3>1, SockIs DEF Plain
    <3>3. Fits(sock'[s], FALSE, v)
      BY <2>8, <3>2, FitsEmpty
    <3>4. InOrder(s)'
      BY <2>6, <3>3, InOrderBy
    <3>5. Calm /\ Others(s)
      BY <2>2, <2>8, CalmSame DEF Others
    <3> QED BY <1>4, <2>2, <2>5, <3>4, <3>5, StreamAt
  <2> QED BY <2>2, <2>7, <2>8
<1>12. ~ReadEmpty /\ ~Swallow
  BY <1>0 DEF ReadEmpty, Swallow
<1> QED BY <1>6, <1>7, <1>8, <1>10, <1>11, <1>12 DEF ReceiverStep

\* The one thread that connects.
LEMMA ConnectorTimely ==
  ASSUME Timely, Calm, OneTask, cmdMaps \in Nat, NEW c \in Connectors, Active(c),
         \A d \in Connectors : d # c => conn'[d] = conn[d],
         \/ conn'[c].pc \notin Early
         \/ mMainSocket' = NoSocket /\ held'[c] = NoSocket
         \/ /\ conn[c].pc \in Early
            /\ \A s \in Sockets : s = held'[c] => s = mMainSocket \/ s = held[c] \/ ~sock'[s].timed
  PROVE  Timely'
<1>1. \A d \in Connectors : conn'[d].pc \in Early => d = c
  <2>1. \A d \in Connectors : Active(d) => d = c
    BY WhileActive
  <2> QED BY <2>1 DEF Active, Early
<1>2. CASE conn'[c].pc \notin Early
  BY <1>1, <1>2 DEF Timely
<1>3. CASE mMainSocket' = NoSocket /\ held'[c] = NoSocket
  BY ZenonT(60), <1>1, <1>3, SocketsAre DEF Timely
<1>4. CASE /\ conn[c].pc \in Early
           /\ \A s \in Sockets : s = held'[c] => s = mMainSocket \/ s = held[c] \/ ~sock'[s].timed
  <2>1. \A d \in Connectors : conn'[d].pc \in Early =>
          conn[d].pc \in Early /\ \A s \in Sockets : s = held'[d] => s = mMainSocket \/ s = held[d] \/ ~sock'[s].timed
    BY <1>1, <1>4
  <2> QED BY <2>1, TimelyCalm
<1> QED BY <1>2, <1>3, <1>4

LEMMA ConnectorVerifies ==
  ASSUME OneTask, cmdMaps \in Nat, NEW c \in Connectors, Active(c),
         \A d \in Connectors : d # c => conn'[d] = conn[d]
  PROVE  \A u \in Sockets : /\ VerifiedBy(u) <=> conn[c].pc = "answer" /\ held[c] = u
                            /\ VerifiedBy(u)' <=> conn'[c].pc = "answer" /\ held'[c] = u
<1>1. \A d \in Connectors : Active(d) => d = c
  BY WhileActive
<1>2. \A d \in Connectors : /\ conn[d].pc = "answer" => d = c
                            /\ conn'[d].pc = "answer" => d = c
  BY <1>1 DEF Active
<1> QED BY <1>2 DEF VerifiedBy

\* ReceiveThread is not disturbed by it.
LEMMA ConnectorMids ==
  ASSUME NEW c \in Connectors, \A t \in Threads : t # c => held'[t] = held[t], receiver' = receiver
  PROVE  \A u \in Sockets : Mid(u)' <=> Mid(u)
  BY ThreadsAre DEF Mid

LEMMA HeldByOthers ==
  ASSUME HeldOK, NEW c \in Connectors, UNCHANGED held \/ \E s \in Sockets \cup {NoSocket} : Hold(c, s)
  PROVE  \A t \in Threads : t # c => held'[t] = held[t]
  BY HoldTypes, ThreadsAre

LEMMA VerifyStream ==
  ASSUME Base, ConnInv, StreamInv, NEW c \in Connectors, Verify(c)
  PROVE  StreamInv'
<1> USE DEF Pcs
<1>0. /\ SocksOK /\ HeldOK /\ ConnOK /\ OneTask /\ cmdMaps \in Nat
      /\ mMainSocket \in Sockets \cup {NoSocket} /\ (mMainSocket = NoSocket => Fresh \in Sockets)
      /\ asking \in BOOLEAN /\ timeOutTimes \in 0..Attempts - 1
      /\ Timely /\ receiver \notin {"empty", "swallow"}
  BY BaseIs DEF ControlOK, StreamInv
<1>1. At(c, "verify") /\ Active(c) /\ receiver' = receiver
  BY DEF Verify, At, Active, receiving
<1>2. CASE Connected(mMainSocket)
  <2>1. Send("verify") /\ Hold(c, mMainSocket) /\ Go(c, "answer")
    BY <1>2 DEF Verify
  <2>2. conn'[c].pc = "answer" /\ \A d \in Connectors : d # c => conn'[d] = conn[d]
    BY <1>0, <2>1, GoTypes
  <2>3. PICK s \in Sockets : s = mMainSocket
    BY <1>0, <1>2 DEF Connected
  <2>4. held'[c] = s /\ \A t \in Threads : t # c => held'[t] = held[t]
    BY <1>0, <2>1, <2>3, HoldTypes, HeldByOthers, ThreadsAre
  <2>5. /\ SockOK' /\ Others(s) /\ SameBut(sock[s], sock'[s], {"asked", "timed"})
        /\ sock'[s].asked = sock[s].asked \/ sock'[s].asked = Append(sock[s].asked, "verify")
    <3>1. "verify" \in Request
      BY DEF Request
    <3> QED BY <1>0, <2>1, <2>3, <3>1, SendDoes DEF SocksOK
  <2>6. \A u \in Sockets : /\ Mid(u)' <=> Mid(u)
                           /\ ~VerifiedBy(u)
                           /\ VerifiedBy(u)' <=> u = s
    BY <1>0, <1>1, <2>2, <2>4, ConnectorVerifies, ConnectorMids DEF At
  <2>7. Unverified(sock[s])
    BY <1>1, <1>2, <2>3 DEF ConnInv, At
  <2>8. PICK m, v \in BOOLEAN : /\ m <=> Mid(s)
                                /\ v <=> VerifiedBy(s)
                                /\ InOrder(s) <=> Fits(sock[s], m, v)
    BY InOrderIs
  <2>9. sock[s] \in SocketRecord /\ sock'[s] \in SocketRecord
    BY <1>0, <2>5 DEF SocksOK, SockOK
  <2>10. Fits(sock[s], m, FALSE)
    <3>1. v = FALSE
      BY <2>6, <2>8
    <3> QED BY <2>8, <3>1 DEF StreamInv
  <2>11. Fits(sock'[s], m, TRUE)
    <3>1. ~sock[s].known /\ "verify" \in Request \ {"rest"}
      BY <2>7 DEF Unverified, Request
    <3> QED BY <2>5, <2>9, <2>10, <3>1, FitsSend
  <2>12. InOrder(s)'
    BY <2>6, <2>8, <2>11, InOrderBy
  <2>13. Calm
    BY <1>0, <2>1, CalmSend
  <2>14. Timely'
    <3>1. conn[c].pc \in Early /\ \A u \in Sockets : u = held'[c] => u = mMainSocket
      BY <1>1, <2>3, <2>4 DEF At, Early
    <3> QED BY <1>0, <1>1, <2>2, <2>13, <3>1, ConnectorTimely
  <2>15. \A u \in Sockets : u # s => FlagsKept(u)
    BY <2>6 DEF FlagsKept
  <2> QED BY <1>0, <1>1, <2>5, <2>12, <2>14, <2>15, StreamAt
<1>3. CASE GetInstance /\ Failed(c)
  <2>1. Hold(c, NoSocket) /\ conn'[c].pc \notin Early /\ \A d \in Connectors : d # c => conn'[d] = conn[d]
    BY <1>0, <1>3, FailedDoes DEF Early
  <2>2. \A u \in Sockets : FlagsKept(u)
    BY <1>0, <1>1, <2>1, HeldByOthers, ConnectorVerifies, ConnectorMids DEF FlagsKept, At, Early
  <2>3. Calm
    BY <1>0, <1>3, CalmGet
  <2>4. Timely'
    BY <1>0, <1>1, <2>1, <2>3, ConnectorTimely
  <2> QED BY <1>0, <1>1, <1>3, <2>2, <2>4, StreamGets
<1> QED BY <1>2, <1>3 DEF Verify

LEMMA ReadAnswerStream ==
  ASSUME Base, StreamInv, NEW c \in Connectors, ReadAnswer(c), ~collided'
  PROVE  StreamInv'
<1> USE DEF Pcs
<1>0. /\ SocksOK /\ HeldOK /\ ConnOK /\ HoldInv /\ OneTask /\ cmdMaps \in Nat
      /\ asking \in BOOLEAN /\ timeOutTimes \in 0..Attempts - 1
      /\ Timely /\ receiver \notin {"empty", "swallow"}
      /\ held[c] \in Sockets \cup {NoSocket}
  BY BaseIs, ThreadsAre DEF ControlOK, StreamInv, HeldOK
<1>1. At(c, "answer") /\ Active(c) /\ receiver' = receiver /\ UNCHANGED mMainSocket
  BY DEF ReadAnswer, At, Active, receiving
<1>2. PICK s \in Sockets : s = held[c]
  BY <1>0, <1>1 DEF HoldInv, At
<1>3. Hold(c, NoSocket)
  BY <1>0, FailedDoes DEF ReadAnswer
<1>4. conn'[c].pc \in {"verified", "idle", "ended", "close"} /\ \A d \in Connectors : d # c => conn'[d] = conn[d]
  <2>1. CASE Failed(c)
    BY <1>0, <2>1, FailedDoes
  <2>2. CASE Go(c, "verified") \/ GoTo(c, "close", "main") \/ Go(c, "idle") \/ Go(c, "ended")
    BY <1>0, <2>2, GoTypes
  <2> QED BY <2>1, <2>2 DEF ReadAnswer, Idle
<1>5. \A u \in Sockets : /\ Mid(u)' <=> Mid(u)
                         /\ VerifiedBy(u) <=> u = s
                         /\ ~VerifiedBy(u)'
  BY <1>0, <1>1, <1>2, <1>3, <1>4, HeldByOthers, ConnectorVerifies, ConnectorMids DEF At
<1>6. PICK m \in BOOLEAN : (m <=> Mid(s)) /\ Fits(sock[s], m, TRUE)
  <2>1. PICK m, v \in BOOLEAN : /\ m <=> Mid(s)
                                /\ v <=> VerifiedBy(s)
                                /\ InOrder(s) <=> Fits(sock[s], m, v)
    BY InOrderIs
  <2>2. v = TRUE
    BY <1>5, <2>1
  <2> QED BY <2>1, <2>2 DEF StreamInv
<1>7. \A u \in Sockets : u # s => FlagsKept(u)
  BY <1>5 DEF FlagsKept
<1>8. ASSUME Calm PROVE Timely'
  BY <1>0, <1>1, <1>4, <1>8, ConnectorTimely DEF Early
<1>9. sock[s] \in SocketRecord /\ Plain(sock[s])
  BY <1>0, SockIs
<1>10. CASE (sock[s].st = "closed" \/ (sock[s].timed /\ sock[s].in = <<>>)) /\ UNCHANGED sock
  <2>1. sock[s].st = "closed"
    <3>1. sock[s].timed => sock[s].known
      BY <1>0, <1>1, <1>2 DEF Timely, At, Early
    <3> QED BY <1>6, <1>10, <3>1 DEF Fits
  <2>2. sock[s].in = <<>> /\ sock[s].asked = <<>>
    BY <1>9, <2>1 DEF Plain
  <2>3. Fits(sock'[s], m, FALSE)
    BY <1>10, <2>1, <2>2, FitsEmpty
  <2>4. InOrder(s)'
    BY <1>5, <1>6, <2>3, InOrderBy
  <2>5. Calm /\ Others(s)
    BY <1>1, <1>10, CalmSame DEF Others
  <2> QED BY <1>0, <1>1, <1>7, <1>8, <2>4, <2>5, StreamAt
<1>11. CASE /\ sock[s].in # <<>> \/ sock[s].st = "ended"
            /\ sock' = [sock EXCEPT ![s].in = Rest(s, 2)] /\ Len(sock[s].in) # 1
  <2>1. SocksOK' /\ Others(s) /\ Dropped(sock[s], sock'[s], 2)
    BY <1>0, <1>1, <1>11, ReadKeeps DEF Dropped
  <2>2. sock'[s] \in SocketRecord
    BY <2>1 DEF SocksOK, SockOK
  <2>3. Fits(sock'[s], m, FALSE)
    BY <1>6, <1>9, <1>11, <2>1, <2>2, FitsVerified
  <2>4. InOrder(s)'
    BY <1>5, <1>6, <2>3, InOrderBy
  <2>5. Calm
    BY <1>0, <1>1, <1>11, CalmRead
  <2> QED BY <1>0, <1>1, <1>7, <1>8, <2>1, <2>4, <2>5, StreamAt
<1> QED BY <1>2, <1>10, <1>11 DEF ReadAnswer, Broken, Pieces, AtEnd

LEMMA ConnectorStream ==
  ASSUME Base, ConnInv, StreamInv, NEW c \in Connectors, ConnectorStep(c), ~collided'
  PROVE  StreamInv'
<1> USE DEF Pcs
<1>0. /\ SocksOK /\ HeldOK /\ ConnOK /\ HoldInv /\ OneTask /\ cmdMaps \in Nat
      /\ mMainSocket \in Sockets \cup {NoSocket} /\ (mMainSocket = NoSocket => Fresh \in Sockets)
      /\ asking \in BOOLEAN /\ timeOutTimes \in 0..Attempts - 1
      /\ Timely /\ receiver \notin {"empty", "swallow"}
  BY BaseIs DEF ControlOK, StreamInv
<1>1. ASSUME Active(c), \A d \in Connectors : d # c => conn'[d] = conn[d], receiver' = receiver,
             UNCHANGED held \/ (\E s \in Sockets \cup {NoSocket} : Hold(c, s)),
             conn[c].pc # "answer", conn'[c].pc # "answer"
      PROVE  \A u \in Sockets : FlagsKept(u)
  BY <1>0, <1>1, HeldByOthers, ConnectorVerifies, ConnectorMids DEF FlagsKept
<1>2. CASE Close(c)
  <2>1. At(c, "close") /\ Go(c, "get") /\ CloseMain /\ UNCHANGED <<held, receiver>>
    BY <1>2 DEF Close, CloseMain, receiving
  <2>2. conn'[c].pc = "get" /\ \A d \in Connectors : d # c => conn'[d] = conn[d]
    BY <1>0, <2>1, GoTypes
  <2>3. Active(c) /\ held'[c] = NoSocket /\ mMainSocket' = NoSocket
    BY <1>0, <2>1 DEF Active, At, HoldInv, CloseMain
  <2>4. \A u \in Sockets : FlagsKept(u)
    BY <1>1, <2>1, <2>2, <2>3 DEF At
  <2>5. Timely'
    BY <1>0, <2>1, <2>2, <2>3, CalmClose, ConnectorTimely
  <2> QED BY <1>0, <2>1, <2>4, <2>5, StreamCloses
<1>3. CASE Get(c)
  <2>1. /\ At(c, "get") /\ UNCHANGED <<mMainSocket, sock, receiver>>
        /\ (Go(c, "make") /\ UNCHANGED held) \/ (Go(c, "connect") /\ Hold(c, mMainSocket))
    BY <1>3 DEF Get, receiving
  <2>2. conn'[c].pc \in {"make", "connect"} /\ \A d \in Connectors : d # c => conn'[d] = conn[d]
    BY <1>0, <2>1, GoTypes
  <2>3. Active(c) /\ conn[c].pc \in Early
    BY <2>1 DEF Active, At, Early
  <2>4. \A u \in Sockets : FlagsKept(u)
    BY <1>0, <1>1, <2>1, <2>2, <2>3 DEF At
  <2>5. held'[c] = held[c] \/ held'[c] = mMainSocket
    BY <1>0, <2>1, HoldTypes, ThreadsAre
  <2>6. Timely'
    BY <1>0, <2>1, <2>2, <2>3, <2>5, CalmSame, ConnectorTimely
  <2> QED BY <1>0, <2>1, <2>4, <2>6, StreamStays
<1>4. CASE MakeSocket(c)
  <2>1. At(c, "make") /\ Go(c, "connect") /\ Make /\ Hold(c, Fresh) /\ UNCHANGED receiver
    BY <1>4 DEF MakeSocket, receiving
  <2>2. conn'[c].pc = "connect" /\ \A d \in Connectors : d # c => conn'[d] = conn[d]
    BY <1>0, <2>1, GoTypes
  <2>3. Fresh \in Sockets
    BY <1>0, <2>1, FreshIsFree DEF At
  <2>4. Active(c) /\ conn[c].pc \in Early
    BY <2>1 DEF Active, At, Early
  <2>5. \A u \in Sockets : FlagsKept(u)
    BY <1>1, <2>1, <2>2, <2>3, <2>4 DEF At
  <2>6. \A u \in Sockets : u = held'[c] => ~sock'[u].timed
    BY <1>0, <2>1, <2>3, MakeKeeps, HoldTypes, ThreadsAre, NewRecord
  <2>7. Timely'
    BY <1>0, <2>2, <2>1, <2>3, <2>4, <2>6, CalmMake, ConnectorTimely
  <2> QED BY <1>0, <2>1, <2>5, <2>7, StreamMakes DEF At
<1>5. CASE Connect(c)
  <2>1. At(c, "connect") /\ Active(c) /\ UNCHANGED <<mMainSocket, receiver>>
    BY <1>5 DEF Connect, At, Active, receiving
  <2>2. PICK s \in Sockets : s = held[c]
    BY <1>0, <2>1, ThreadsAre DEF HoldInv, At, HeldOK
  <2>3. CASE /\ sock[s].st = "new" /\ Go(c, "verify") /\ UNCHANGED held
             /\ sock' = [sock EXCEPT ![s].st = "open", ![s].peer = conn[c].peer]
    <3>1. conn'[c].pc = "verify" /\ \A d \in Connectors : d # c => conn'[d] = conn[d]
      BY <1>0, <2>3, GoTypes
    <3>2. conn[c].peer \in {"main", "agent"}
      BY <1>0 DEF ConnOK
    <3>3. Others(s) /\ SameBut(sock[s], sock'[s], {"st", "peer"})
      BY <1>0, <2>1, <2>3, <3>2, ConnectKeeps
    <3>4. \A u \in Sockets : FlagsKept(u)
      BY <1>1, <2>1, <2>3, <3>1 DEF At
    <3>5. PICK m, v \in BOOLEAN : /\ m <=> Mid(s)
                                  /\ v <=> VerifiedBy(s)
                                  /\ InOrder(s) <=> Fits(sock[s], m, v)
      BY InOrderIs
    <3>6. Fits(sock'[s], m, v)
      BY <1>0, <2>3, <3>3, <3>5, SockIs, FitsConnect DEF StreamInv
    <3>7. InOrder(s)'
      BY <3>4, <3>5, <3>6, InOrderBy DEF FlagsKept
    <3>8. Calm
      BY <2>1, <3>3 DEF Calm, Others, SameBut
    <3>9. Timely'
      BY <1>0, <2>1, <2>3, <3>1, <3>8, ConnectorTimely DEF Early, At
    <3> QED BY <1>0, <2>1, <3>3, <3>4, <3>7, <3>9, StreamAt
  <2>4. CASE Failed(c) /\ UNCHANGED sock
    <3>1. /\ Hold(c, NoSocket) /\ conn'[c].pc \notin Early
          /\ \A d \in Connectors : d # c => conn'[d] = conn[d]
      BY <1>0, <2>4, FailedDoes DEF Early
    <3>2. \A u \in Sockets : FlagsKept(u)
      BY <1>1, <2>1, <3>1 DEF At, Early
    <3>3. Timely'
      BY <1>0, <2>1, <2>4, <3>1, CalmSame, ConnectorTimely
    <3> QED BY <1>0, <2>1, <2>4, <3>2, <3>3, StreamStays
  <2> QED BY <1>5, <2>2, <2>3, <2>4 DEF Connect
<1>6. CASE Proceed(c)
  <2>1. /\ At(c, "verified") /\ Active(c) /\ (Go(c, "idle") \/ Go(c, "ended"))
        /\ UNCHANGED <<mMainSocket, sock, held, receiver>>
    BY <1>6 DEF Proceed, At, Active, sockets, receiving, Idle
  <2>2. conn'[c].pc \in {"idle", "ended"} /\ \A d \in Connectors : d # c => conn'[d] = conn[d]
    BY <1>0, <2>1, GoTypes
  <2>3. \A u \in Sockets : FlagsKept(u)
    BY <1>1, <2>1, <2>2 DEF At
  <2>4. Timely'
    BY <1>0, <2>1, <2>2, CalmSame, ConnectorTimely DEF Early
  <2> QED BY <1>0, <2>1, <2>3, <2>4, StreamStays
<1> QED BY <1>2, <1>3, <1>4, <1>5, <1>6, VerifyStream, ReadAnswerStream DEF ConnectorStep

LEMMA StreamStep ==
  ASSUME Base, ConnInv, ~collided => StreamInv, [Next]_vars, ~collided'
  PROVE  StreamInv'
<1>1. ~collided
  BY DEF Next, vars, StartService, TakeAddress, EndDispatcher, BeatStep, HandleReport, HomeKey, ServerStep,
         SendRequest, ReceiverStep, Begin, Loop, Look, LookMakes, Stream, Address, ReadLength, NoLength,
         ReadByte, ReadBody, ReadEmpty, Swallow, ConnectorStep, Close, Get, MakeSocket, Connect, Verify,
         ReadAnswer, Proceed, history
<1>2. CASE UNCHANGED vars
  <2>1. UNCHANGED <<mMainSocket, sock, held, conn, receiver>>
    BY <1>2 DEF vars, sockets, connecting, receiving
  <2>2. \A u \in Sockets : FlagsKept(u)
    BY <2>1 DEF FlagsKept, Mid, VerifiedBy
  <2>3. Timely' /\ receiver' \notin {"empty", "swallow"}
    BY <1>1, <2>1, CalmSame, TimelyCalm DEF StreamInv
  <2> QED BY <1>1, <2>1, <2>2, <2>3, StreamStays
<1>3. CASE Next
  BY <1>1, <1>3, ConnectorStream, ReceiverStream, OtherStream DEF Next
<1> QED BY <1>2, <1>3

-----------------------------------------------------------------------------
\* The inductive invariant holds, and implies what the run checks.

LEMMA ServerInit == Init => ServerInv
<1> SUFFICES ASSUME Init PROVE ServerInv
  OBVIOUS
<1>1. Base /\ BeatInv
  BY BaseInit, InitBeating
<1>2. \A s \in Sockets : sock[s] = Closed
  BY DEF Init, SocketInit
<1>3. /\ mMainSocket = NoSocket /\ \A t \in Threads : held[t] = NoSocket
      /\ requests = {} /\ logins = {} /\ receiver = "none"
  BY DEF Init, SocketInit
<1>4. \A c \in Connectors : conn[c].pc \in {"service", "none"}
  BY DEF Init
<1>5. ConnInv /\ LoginOnlyVerified
  BY <1>3, <1>4 DEF ConnInv, Connected, LoginOnlyVerified
<1>6. StreamInv
  <2>1. ASSUME NEW s \in Sockets PROVE InOrder(s)
    <3>1. ~Mid(s) /\ ~VerifiedBy(s)
      BY <1>3, <1>4 DEF Mid, VerifiedBy
    <3>2. Fits(sock[s], FALSE, FALSE)
      BY <1>2, ClosedRecord, FitsEmpty
    <3> QED BY <3>1, <3>2 DEF InOrder, Fits
  <2>2. Timely
    BY <1>4 DEF Timely, Early
  <2> QED BY <1>3, <2>1, <2>2 DEF StreamInv
<1> QED BY <1>1, <1>5, <1>6 DEF ServerInv

LEMMA ServerStays == ServerInv /\ [Next]_vars => ServerInv'
<1> SUFFICES ASSUME ServerInv, [Next]_vars PROVE ServerInv'
  OBVIOUS
<1>1. Base' /\ ConnInv' /\ LoginOnlyVerified'
  BY BaseStep, ConnStep, LoginStep DEF ServerInv
<1>2. BeatInv'
  BY StepBeating DEF ServerInv
<1>3. ~collided' => StreamInv'
  BY StreamStep DEF ServerInv
<1> QED BY <1>1, <1>2, <1>3 DEF ServerInv

LEMMA ServerIsSafe == ServerInv => ConnectionSafe
<1> SUFFICES ASSUME ServerInv PROVE ConnectionSafe
  OBVIOUS
<1>1. SocketTypeOK
  <2>1. \A s \in Sockets : Len(sock[s].in) <= MaxBacklog + 1 /\ Len(sock[s].asked) <= MaxAsked + 1
    <3>1. \A s \in Sockets : Len(sock[s].in) <= MaxBacklog + 1 /\ Len(sock[s].asked) <= MaxAsked
      BY DEF ServerInv, Base, PlainSockets, Plain
    <3>2. \A s \in Sockets : Len(sock[s].asked) \in Nat
      BY BaseIs, SockIs DEF ServerInv
    <3> QED BY <3>1, <3>2, BoundsAreNat
  <2> QED BY <2>1 DEF ServerInv, Base, FieldOK, HeldOK, SockOK, SocketRecord, Piece, Request, SocketTypeOK
<1>2. TypeOK
  BY <1>1, TypesSplit DEF ServerInv, Base, BeatInv
<1>3. InStep
  BY DEF ServerInv, StreamInv, InStep
<1> QED BY <1>2, <1>3 DEF ServerInv, ConnectionSafe

\* In every behaviour types are right, ReceiveThread takes nothing but a length for
\* a length unless it read from a socket that was being verified or an answer to a
\* verification came in parts, and a login goes only to an agent that has verified
\* this client.
THEOREM ConnectionIsSafe == Spec => []ConnectionSafe
<1>1. Init => ServerInv
  BY ServerInit
<1>2. ServerInv /\ [Next]_vars => ServerInv'
  BY ServerStays
<1>3. ServerInv => ConnectionSafe
  BY ServerIsSafe
<1> QED BY <1>1, <1>2, <1>3, PTL DEF Spec
=============================================================================
