------------------------- MODULE RelaySessionProofs -------------------------
(* Proofs about RelaySession and TcpRelay: for any number of connections and *)
(* stops and any interleaving of the threads that fetch, connect, read and   *)
(* close the one socket of TcpSocket, a relay's bodies are those of messages *)
(* unless a length came in parts or threads met, the process dies of         *)
(* collisions only, and what is open after a stop was connected since.       *)
EXTENDS RelaySession, FiniteSetTheorems, FunctionTheorems, TLAPS

USE RelayAssumption, SocketsSuffice, LimitsAssumption

-----------------------------------------------------------------------------
\* Acts: nothing is asked that the user did not ask for.
AskedByActs == asked \in Nat /\ acts \in Nat /\ messages \in Nat /\ asked <= acts /\ acts <= limit.acts

\* A relay's thread is in getInstance() only before it uses the socket,
GetsBeforeUse == \A r \in Relays : getting[r] # "no" => rp[r] \in {"connect", "hello", "length"}

\* and what a thread is about to return has been there when it looked.
ReturnsSomething == \A x \in Callers : getting[x] = "return" => instance # NoTcp \/ crossed

\* The main thread alone clears the field: what it has got is there until then.
ScreenHolds ==
  /\ getting[Screen] # "no" => main \in {"connect", "stop"}
  /\ \/ getting[Screen] = "return"
     \/ main \in {"connect", "stop"} /\ getting[Screen] = "no"
     \/ main \in {"close", "forget"}
     => instance # NoTcp

\* A socket that is not connected has no stream, and no thread that reads it.
NewIsUnread == \A s \in TcpSockets : tcp[s].st = "new" => tcp[s].pos = 0 /\ ~tcp[s].cut
BodyOf(r, s) == rp[r] = "body" /\ using[r] = s
BodiesConnected == \A r \in Relays :
  rp[r] = "body" => using[r] \in TcpSockets /\ tcp[using[r]].st # "new"

\* A stream that was not cut is at the start of a message, or in the body that
\* the one relay that is in a body on it took for one, and has yet to read.
InMessage(s) ==
  \/ tcp[s].pos = 0 /\ \A r \in Relays : ~BodyOf(r, s)
  \/ \E r \in Relays : /\ BodyOf(r, s) /\ r \in whole /\ need[r] + tcp[s].pos = 4
                       /\ \A y \in Relays : BodyOf(y, s) => y = r
StreamsInStep == \A s \in TcpSockets : tcp[s].st = "open" /\ ~tcp[s].cut => InMessage(s)

\* A socket that is new or open is the one in the field, and never while a stop
\* is about to clear the field.
OneSocket == \A s \in TcpSockets :
  tcp[s].st \in {"new", "open"} => doubled \/ (s = instance /\ main # "forget")

\* A relay that has still to connect is late.
ConnectsLate == \A r \in Relays : rp[r] = "connect" => r \in late

RelayInv == /\ limit \in Limits /\ TypeOK /\ AskedByActs /\ GetsBeforeUse /\ ReturnsSomething /\ ScreenHolds
            /\ NewIsUnread /\ BodiesConnected /\ StreamsInStep /\ OneSocket /\ ConnectsLate
            /\ StoppedMeansClosed /\ DiesOnlyInCollisions

-----------------------------------------------------------------------------
\* A new socket is one that nobody holds: there are enough of them.
LEMMA RangeIsSmall ==
  ASSUME NEW S, IsFiniteSet(S), NEW T, NEW f \in [S -> T]
  PROVE  IsFiniteSet(Range(f)) /\ Cardinality(Range(f)) <= Cardinality(S)
<1>1. f \in Surjection(S, Range(f))
  BY DEF Surjection, Range
<1> QED BY <1>1, FS_Surjection

LEMMA UnusedIsUnused ==
  ASSUME using \in [Callers -> TcpSockets \cup {NoTcp}], outer \in [Relays -> TcpSockets \cup {NoTcp}]
  PROVE  Unused \in TcpSockets /\ Unused # instance /\ (\A x \in Callers : using[x] # Unused)
         /\ (\A r \in Relays : outer[r] # Unused)
<1> DEFINE used == {instance} \cup Range(using) \cup Range(outer)
           n == Cardinality(Relays)
<1>1. n \in Nat /\ IsFiniteSet(Relays)
  BY FS_CardinalityType
<1>2. IsFiniteSet(Callers) /\ Cardinality(Callers) = n + 2
  <2>1. IsFiniteSet(Relays \cup {Voice}) /\ Cardinality(Relays \cup {Voice}) = n + 1
    BY <1>1, FS_AddElement
  <2>2. Callers = (Relays \cup {Voice}) \cup {Screen}
    BY DEF Callers
  <2>3. /\ IsFiniteSet((Relays \cup {Voice}) \cup {Screen})
        /\ Cardinality((Relays \cup {Voice}) \cup {Screen}) = Cardinality(Relays \cup {Voice}) + 1
    BY <2>1, FS_AddElement
  <2> QED BY <1>1, <2>1, <2>2, <2>3
<1>3. IsFiniteSet(Range(using)) /\ Cardinality(Range(using)) \in Nat /\ Cardinality(Range(using)) <= n + 2
  <2>1. IsFiniteSet(Range(using)) /\ Cardinality(Range(using)) <= Cardinality(Callers)
    BY <1>2, RangeIsSmall
  <2> QED BY <1>2, <2>1, FS_CardinalityType
<1>4. IsFiniteSet(Range(outer)) /\ Cardinality(Range(outer)) \in Nat /\ Cardinality(Range(outer)) <= n
  BY <1>1, RangeIsSmall, FS_CardinalityType
<1>5. IsFiniteSet({instance}) /\ Cardinality({instance}) = 1
  BY FS_Singleton
<1>6. /\ IsFiniteSet({instance} \cup Range(using))
      /\ Cardinality({instance} \cup Range(using)) \in Nat
      /\ Cardinality({instance} \cup Range(using)) <= n + 3
  <2>1. Cardinality({instance} \cap Range(using)) \in Nat
    BY <1>5, FS_Intersection, FS_CardinalityType
  <2>2. /\ IsFiniteSet({instance} \cup Range(using))
        /\ Cardinality({instance} \cup Range(using))
             = Cardinality({instance}) + Cardinality(Range(using)) - Cardinality({instance} \cap Range(using))
    BY <1>3, <1>5, FS_Union
  <2>3. Cardinality({instance} \cup Range(using)) \in Nat
    BY <2>2, FS_CardinalityType
  <2> QED BY <1>1, <1>3, <1>5, <2>1, <2>2, <2>3
<1>7. IsFiniteSet(used) /\ Cardinality(used) \in Nat /\ Cardinality(used) <= 2 * n + 3
  <2>1. Cardinality(({instance} \cup Range(using)) \cap Range(outer)) \in Nat
    BY <1>6, FS_Intersection, FS_CardinalityType
  <2>2. /\ IsFiniteSet(used)
        /\ Cardinality(used) = Cardinality({instance} \cup Range(using)) + Cardinality(Range(outer))
             - Cardinality(({instance} \cup Range(using)) \cap Range(outer))
    BY <1>4, <1>6, FS_Union
  <2>3. Cardinality(used) \in Nat
    BY <2>2, FS_CardinalityType
  <2> QED BY <1>1, <1>4, <1>6, <2>1, <2>2, <2>3
<1>8. \E s \in TcpSockets : s \notin used
  <2> SUFFICES ASSUME TcpSockets \in SUBSET used PROVE FALSE
    OBVIOUS
  <2>1. Cardinality(TcpSockets) <= Cardinality(used)
    BY <1>7, FS_Subset
  <2>2. Cardinality(TcpSockets) \in Nat
    BY FS_CardinalityType
  <2> QED BY <1>1, <1>7, <2>1, <2>2
<1>9. Unused \in TcpSockets /\ Unused \notin used
  BY <1>8 DEF Unused
<1> QED BY <1>9 DEF Range

-----------------------------------------------------------------------------
\* What a step does to the state of TcpRelay, and where it leaves the main thread.
Asks(x) == Gets(x) /\ UNCHANGED <<instance, tcp, using, outer, streams, dead, marks>>
TcpAction ==
  \/ UNCHANGED <<relay, main>>
  \/ ~dead /\ \/ Asks(Voice) /\ UNCHANGED main
              \/ Asks(Screen) /\ main' \in {"connect", "stop"}
              \/ (\E x \in Callers : InGetInstance(x)) /\ UNCHANGED main
              \/ Has(Screen, main = "connect") /\ StartRelay(Begun + 1) /\ Begun + 1 \in Relays /\ main' = "idle"
              \/ Has(Screen, main = "stop") /\ StopRelay /\ main' = "close"
              \/ CloseTcp /\ main = "close" /\ main' = "forget"
              \/ ForgetTcp /\ main = "forget" /\ main' = "idle"
              \/ (Spoken \/ RelayEnds) /\ UNCHANGED main
              \/ (\E r \in Relays : ConnectTcp(r) \/ SayHello(r) \/ Receiving(r) \/ ReadRelayLength(r) \/ ReadRelayBody(r))
                 /\ UNCHANGED main

\* The relay that a connect() starts is one the bounds allow.
LEMMA StartedCount ==
  ASSUME NEW f
  PROVE  IsFiniteSet({r \in Relays : f[r] # "none"}) /\ Cardinality({r \in Relays : f[r] # "none"}) \in Nat
<1>1. {r \in Relays : f[r] # "none"} \in SUBSET Relays
  OBVIOUS
<1> QED BY <1>1, FS_Subset, FS_CardinalityType

LEMMA ConnectingCount ==
  ASSUME NEW m
  PROVE  Cardinality({h \in {m} : h = "connect"}) = IF m = "connect" THEN 1 ELSE 0
<1>1. CASE m = "connect"
  <2>1. {h \in {m} : h = "connect"} = {m}
    BY <1>1
  <2> QED BY <1>1, <2>1, FS_Singleton
<1>2. CASE m # "connect"
  <2>1. {h \in {m} : h = "connect"} = {}
    BY <1>2
  <2> QED BY <1>2, <2>1, FS_EmptySet
<1> QED BY <1>1, <1>2

LEMMA ComingCounts == Begun \in Nat /\ Coming = Begun + messages + (IF main = "connect" THEN 1 ELSE 0)
  BY StartedCount, ConnectingCount DEF Begun, Coming

LEMMA StepsTcp == RelayInv /\ [Next]_vars => limit' = limit /\ TcpAction
<1> SUFFICES ASSUME RelayInv, [Next]_vars PROVE limit' = limit /\ TcpAction
  OBVIOUS
<1>1. CASE UNCHANGED vars
  BY <1>1 DEF vars, looper, TcpAction
<1>2. CASE ~dead /\ (Play \/ Return \/ Respond)
  BY <1>2 DEF Play, Return, Respond, looper, TcpAction
<1>3. CASE ~dead /\ Leave
  BY <1>3 DEF Leave, Act, TcpAction, Asks
<1>4. CASE ~dead /\ Speaks
  BY <1>4 DEF Speaks, Speak, looper, TcpAction, Asks
<1>5. CASE ~dead /\ HandleAddress
  BY <1>5 DEF HandleAddress, TcpAction, Asks
<1>6. CASE ~dead /\ InHandler
  <2>1. CASE main \in {"connect", "stop"} /\ InGetInstance(Screen) /\ UNCHANGED main
    BY <1>6, <2>1 DEF InHandler, TcpAction, Callers
  <2>2. CASE Has(Screen, main = "connect") /\ StartRelay(Begun + 1) /\ main' = "idle"
    <3>1. /\ Begun \in Nat /\ main = "connect" /\ Coming = Begun + messages + 1 /\ messages \in Nat
          /\ Coming <= limit.relays /\ limit.relays \in Nat /\ 1..limit.relays \subseteq Relays
      BY <2>2, ComingCounts DEF Has, RelayInv, TypeOK, AskedByActs
    <3>2. Begun + 1 \in 1..limit.relays
      BY <3>1
    <3> QED BY <1>6, <2>2, <3>1, <3>2 DEF InHandler, TcpAction
  <2>3. CASE Has(Screen, main = "stop") /\ StopRelay /\ main' = "close"
    BY <1>6, <2>3 DEF InHandler, TcpAction
  <2>4. CASE main = "close" /\ CloseTcp /\ main' = "forget"
    BY <1>6, <2>4 DEF InHandler, TcpAction
  <2>5. CASE main = "forget" /\ ForgetTcp /\ main' = "idle"
    BY <1>6, <2>5 DEF InHandler, TcpAction
  <2> QED BY <1>6, <2>1, <2>2, <2>3, <2>4, <2>5 DEF InHandler
<1>7. CASE ~dead /\ (Steps(RelayEnds) \/ Steps(VoiceStep))
  BY <1>7 DEF Steps, VoiceStep, looper, TcpAction, Callers
<1>8. ASSUME NEW r \in Relays, ~dead, Steps(RelayStep(r)) PROVE limit' = limit /\ TcpAction
  BY <1>8 DEF Steps, RelayStep, looper, TcpAction, Callers
<1> QED BY <1>1, <1>2, <1>3, <1>4, <1>5, <1>6, <1>7, <1>8 DEF Next, Main

-----------------------------------------------------------------------------
\* What a socket is, and stays when a field is set.
Socket == [st : {"new", "open", "ended", "closed"}, isTcpRecive : BOOLEAN,
           pos : 0..3, by : Relays \cup {0}, cut : BOOLEAN]

LEMMA SocketFields ==
  ASSUME NEW v \in Socket
  PROVE  /\ \A b \in BOOLEAN : [v EXCEPT !.isTcpRecive = b] \in Socket
         /\ \A x \in {"new", "open", "ended", "closed"} : [v EXCEPT !.st = x] \in Socket
         /\ \A r \in Relays : [v EXCEPT !.st = "open", !.by = r] \in Socket
  BY DEF Socket

LEMMA NewSockets ==
  ASSUME RelayTypeOK
  PROVE  /\ NewTcp \in Socket
         /\ \A s \in TcpSockets, x \in {"ended", "closed"} : Over(s, x) \in Socket /\ Over(s, x).st = x
<1>1. NewTcp \in Socket
  BY DEF NewTcp, Socket
<1>2. ASSUME NEW s \in TcpSockets, NEW x \in {"ended", "closed"}
      PROVE  Over(s, x) \in Socket /\ Over(s, x).st = x
  <2>1. tcp[s].isTcpRecive \in BOOLEAN
    BY DEF RelayTypeOK
  <2> DEFINE bare == [NewTcp EXCEPT !.st = x]
  <2>2. bare \in Socket
    BY <1>1, SocketFields
  <2>3. Over(s, x) = [bare EXCEPT !.isTcpRecive = tcp[s].isTcpRecive]
    BY DEF Over
  <2>4. Over(s, x) \in Socket
    <3> HIDE DEF bare
    <3> QED BY <2>1, <2>2, <2>3, SocketFields
  <2>5. Over(s, x).st = x
    BY DEF Over, NewTcp
  <2> QED BY <2>4, <2>5
<1> QED BY <1>1, <1>2

\* Reading moves a stream on, and no other.
LEMMA TakingParts ==
  ASSUME RelayTypeOK, NEW r \in Relays, using[r] \in TcpSockets, NEW n \in 1..2, NEW cuts \in BOOLEAN,
         TakesParts(r, n, cuts)
  PROVE  /\ \A s \in TcpSockets \ {using[r]} : tcp'[s] = tcp[s]
         /\ tcp'[using[r]].st = tcp[using[r]].st /\ tcp'[using[r]].by = tcp[using[r]].by
         /\ tcp'[using[r]].pos = (tcp[using[r]].pos + n) % 4
         /\ tcp'[using[r]].cut = (tcp[using[r]].cut \/ cuts \/ Others(r) # {})
         /\ tcp' \in [TcpSockets -> Socket]
<1> DEFINE u == using[r]
           old == tcp[u]
           then == [old EXCEPT !.pos = (@ + n) % 4, !.cut = @ \/ cuts \/ Others(r) # {}]
<1>1. tcp' = [tcp EXCEPT ![u] = then]
  BY DEF TakesParts, RelayTypeOK
<1>2. old \in Socket
  BY DEF RelayTypeOK, Socket
<1>3. (old.pos + n) % 4 \in 0..3
  <2>1. old.pos \in 0..3
    BY <1>2 DEF Socket
  <2> QED BY <2>1
<1>4. (old.cut \/ cuts \/ Others(r) # {}) \in BOOLEAN
  OBVIOUS
<1>5. then \in Socket
  BY <1>2, <1>3, <1>4 DEF Socket
<1>6. /\ then.st = old.st /\ then.by = old.by /\ then.pos = (old.pos + n) % 4
      /\ then.cut = (old.cut \/ cuts \/ Others(r) # {})
  BY <1>2 DEF Socket
<1>7. tcp' \in [TcpSockets -> Socket]
  BY <1>1, <1>5 DEF RelayTypeOK, Socket
<1>8. tcp'[u] = then /\ \A s \in TcpSockets \ {u} : tcp'[s] = tcp[s]
  BY <1>1 DEF RelayTypeOK
<1> HIDE DEF then
<1> QED BY <1>6, <1>7, <1>8

\* Types.
LEMMA TcpTypes == RelayInv /\ limit' = limit /\ TcpAction => RelayTypeOK'
<1> SUFFICES ASSUME RelayInv, TcpAction PROVE RelayTypeOK'
  OBVIOUS
<1>0. RelayTypeOK /\ tcp \in [TcpSockets -> Socket] /\ Screen \in Callers /\ Voice \in Callers /\ Relays \subseteq Callers
  BY DEF RelayInv, TypeOK, RelayTypeOK, Callers, Socket
<1> USE DEF RelayTypeOK, Has
<1>1. CASE UNCHANGED relay
  BY <1>0, <1>1 DEF relay, streams, marks
<1>2. ASSUME NEW x \in {Voice, Screen}, Asks(x) PROVE RelayTypeOK'
  BY <1>0, <1>2 DEF Asks, Gets, streams, marks
<1>3. ASSUME NEW x \in Callers, CheckInstance(x) PROVE RelayTypeOK'
  BY <1>0, <1>3 DEF CheckInstance, streams, marks
<1>4. ASSUME NEW x \in Callers, MakeInstance(x) PROVE RelayTypeOK'
  <2>1. Unused \in TcpSockets /\ NewTcp \in Socket
    BY <1>0, UnusedIsUnused, NewSockets
  <2>2. tcp' \in [TcpSockets -> Socket] /\ instance' \in TcpSockets \cup {NoTcp}
    BY <1>0, <1>4, <2>1 DEF MakeInstance
  <2>3. doubled' \in BOOLEAN
    BY <1>4 DEF MakeInstance
  <2> QED BY <1>0, <1>4, <2>2, <2>3 DEF MakeInstance, streams, Socket
<1>5. ASSUME NEW x \in Callers, ReturnInstance(x), ~dead PROVE RelayTypeOK'
  <2>1. /\ getting' = [getting EXCEPT ![x] = "no"] /\ using' = [using EXCEPT ![x] = instance]
        /\ UNCHANGED <<instance, tcp, outer, streams, marks>>
    BY <1>5 DEF ReturnInstance
  <2>2. dead' \in BOOLEAN /\ (dead' <=> instance = NoTcp)
    BY <1>5 DEF ReturnInstance
  <2>3. using' \in [Callers -> TcpSockets \cup {NoTcp}] /\ getting' \in [Callers -> {"no", "check", "make", "return"}]
    BY <1>0, <2>1
  <2>4. \A y \in Relays : Has(y, rp[y] \in {"connect", "hello", "length", "body"})' => (dead \/ using[y] # NoTcp)'
    BY <1>0, <2>1, <2>2, <1>5 DEF streams
  <2> QED BY <1>0, <2>1, <2>2, <2>3, <2>4 DEF streams, marks
<1>6. ASSUME NEW r \in Relays, StartRelay(r) PROVE RelayTypeOK'
  BY <1>0, <1>6 DEF StartRelay, Gets
<1>7. CASE StopRelay
  <2>1. using' = [using EXCEPT ![Screen] = NoTcp] /\ UNCHANGED <<instance, getting, outer, streams, dead, marks>>
    BY <1>7 DEF StopRelay
  <2>2. tcp' \in [TcpSockets -> Socket]
    <3>1. using[Screen] \in TcpSockets => [tcp[using[Screen]] EXCEPT !.isTcpRecive = FALSE] \in Socket
      BY <1>0, SocketFields
    <3>2. tcp' = [tcp EXCEPT ![using[Screen]] = [@ EXCEPT !.isTcpRecive = FALSE]]
      BY <1>7 DEF StopRelay
    <3> QED BY <1>0, <3>1, <3>2
  <2> QED BY <1>0, <2>1, <2>2 DEF streams, marks, Socket
<1>8. CASE CloseTcp
  <2>1. instance # NoTcp => Over(instance, "closed") \in Socket
    BY <1>0, NewSockets
  <2>2. tcp' \in [TcpSockets -> Socket]
    BY <1>0, <1>8, <2>1 DEF CloseTcp
  <2> QED BY <1>0, <1>8, <2>2 DEF CloseTcp, streams, marks, Socket
<1>9. CASE ForgetTcp
  BY <1>0, <1>9 DEF ForgetTcp, streams
<1>10. CASE Spoken
  BY <1>0, <1>10 DEF Spoken, streams, marks
<1>11. CASE RelayEnds
  <2>1. PICK s \in TcpSockets : tcp' = [tcp EXCEPT ![s] = Over(s, "ended")]
    BY <1>11 DEF RelayEnds
  <2>2. Over(s, "ended") \in Socket
    BY <1>0, NewSockets
  <2>3. tcp' \in [TcpSockets -> Socket]
    BY <1>0, <2>1, <2>2
  <2> QED BY <1>0, <1>11, <2>3 DEF RelayEnds, streams, marks, Socket
<1>12. ASSUME NEW r \in Relays, ConnectTcp(r) PROVE RelayTypeOK'
  <2>1. tcp' \in [TcpSockets -> Socket]
    <3>1. CASE tcp' = [tcp EXCEPT ![using[r]].st = "open", ![using[r]].by = r]
      <4>1. using[r] \in TcpSockets => [tcp[using[r]] EXCEPT !.st = "open", !.by = r] \in Socket
        BY <1>0, SocketFields
      <4>2. tcp' = [tcp EXCEPT ![using[r]] = [@ EXCEPT !.st = "open", !.by = r]]
        BY <1>0, <3>1
      <4> QED BY <1>0, <4>1, <4>2
    <3>2. CASE tcp' = [tcp EXCEPT ![using[r]].st = IF @ = "new" THEN "closed" ELSE @]
      <4> DEFINE x == IF tcp[using[r]].st = "new" THEN "closed" ELSE tcp[using[r]].st
      <4>1. using[r] \in TcpSockets => [tcp[using[r]] EXCEPT !.st = x] \in Socket
        <5>1. using[r] \in TcpSockets => x \in {"new", "open", "ended", "closed"}
          BY <1>0 DEF Socket
        <5> QED BY <1>0, <5>1, SocketFields
      <4>2. tcp' = [tcp EXCEPT ![using[r]] = [@ EXCEPT !.st = x]]
        BY <1>0, <3>2
      <4> HIDE DEF x
      <4> QED BY <1>0, <4>1, <4>2
    <3> QED BY <1>12, <3>1, <3>2 DEF ConnectTcp
  <2>2. UNCHANGED <<instance, need, whole, dead, marks>>
    BY <1>12 DEF ConnectTcp
  <2>3. \/ rp' = [rp EXCEPT ![r] = "hello"] /\ getting' = [getting EXCEPT ![r] = "check"] /\ UNCHANGED <<using, outer>>
        \/ /\ rp' = [rp EXCEPT ![r] = "done"] /\ using' = [using EXCEPT ![r] = NoTcp]
           /\ outer' = [outer EXCEPT ![r] = NoTcp] /\ UNCHANGED getting
    BY <1>12 DEF ConnectTcp, GoesTo, Gets, Ends
  <2> QED BY <1>0, <2>1, <2>2, <2>3 DEF marks, Socket
<1>13. ASSUME NEW r \in Relays, SayHello(r) PROVE RelayTypeOK'
  BY <1>0, <1>13 DEF SayHello, GoesTo, Ends, marks
<1>14. ASSUME NEW r \in Relays, Receiving(r) PROVE RelayTypeOK'
  BY <1>0, <1>14 DEF Receiving, GoesTo, Gets, Ends, marks
<1>15. ASSUME NEW r \in Relays, ReadRelayLength(r), ~dead PROVE RelayTypeOK'
  <2>1. using[r] \in TcpSockets
    BY <1>0, <1>15 DEF ReadRelayLength
  <2>2. UNCHANGED <<instance, getting, outer, dead, marks>>
    BY <1>15 DEF ReadRelayLength
  <2>3. CASE GoesRound(r) /\ UNCHANGED <<tcp, need, whole>>
    BY <1>0, <2>2, <2>3 DEF GoesRound, GoesTo, marks
  <2>4. ASSUME NEW n \in 1..2, TakesParts(r, n, n = 1) PROVE tcp' \in [TcpSockets -> Socket]
    BY <1>0, <2>1, <2>4, TakingParts
  <2>5. ASSUME NEW n \in 1..2, TakesParts(r, n, n = 1), NEW starts \in BOOLEAN,
               whole' = (whole \ Others(r)) \cup {y \in {r} : starts},
               \/ (\E l \in 1..2 : need' = [need EXCEPT ![r] = l]) /\ GoesTo(r, "body") /\ UNCHANGED using
               \/ GoesRound(r) /\ UNCHANGED need
        PROVE  RelayTypeOK'
    <3>1. whole' \subseteq Relays
      BY <1>0, <2>5
    <3>2. need' \in [Relays -> 0..2] /\ rp' \in [Relays -> {"none", "connect", "hello", "loop", "length", "body", "done"}]
      BY <1>0, <2>5 DEF GoesRound, GoesTo
    <3>3. using' \in [Callers -> TcpSockets \cup {NoTcp}]
      BY <1>0, <2>5 DEF GoesRound
    <3>4. \A y \in Relays : Has(y, rp[y] \in {"connect", "hello", "length", "body"})' => (dead \/ using[y] # NoTcp)'
      <4>1. CASE GoesTo(r, "body") /\ UNCHANGED using
        BY <1>0, <2>1, <2>2, <4>1 DEF GoesTo
      <4>2. CASE GoesRound(r)
        BY <1>0, <2>2, <4>2 DEF GoesRound, GoesTo
      <4> QED BY <2>5, <4>1, <4>2
    <3> QED BY <1>0, <2>2, <2>4, <2>5, <3>1, <3>2, <3>3, <3>4 DEF marks, Socket
  <2> QED BY <1>15, <2>3, <2>5 DEF ReadRelayLength
<1>16. ASSUME NEW r \in Relays, ReadRelayBody(r), ~dead PROVE RelayTypeOK'
  <2>1. rp[r] = "body" /\ using[r] \in TcpSockets
    BY <1>16 DEF ReadRelayBody, RelayInv, BodiesConnected
  <2>2. UNCHANGED <<instance, getting, outer, marks>>
    BY <1>16 DEF ReadRelayBody
  <2>3. CASE GoesRound(r) /\ need' = [need EXCEPT ![r] = 0] /\ whole' = whole \ {r} /\ UNCHANGED <<tcp, dead>>
    <3>1. need' \in [Relays -> 0..2] /\ rp' = [rp EXCEPT ![r] = "loop"] /\ using' = [using EXCEPT ![r] = NoTcp]
      BY <1>0, <2>3 DEF GoesRound, GoesTo
    <3> QED BY <1>0, <2>2, <2>3, <3>1 DEF marks
  <2>4. ASSUME NEW n \in 1..need[r], TakesParts(r, n, FALSE) PROVE n \in 1..2 /\ tcp' \in [TcpSockets -> Socket]
    <3>1. need[r] \in 0..2
      BY <1>0
    <3>2. n \in 1..2
      BY <2>4, <3>1
    <3> QED BY <1>0, <2>1, <2>4, <3>2, TakingParts
  <2>5. ASSUME NEW n \in 1..need[r], TakesParts(r, n, FALSE),
               GoesRound(r) /\ need' = [need EXCEPT ![r] = 0] /\ dead' \in BOOLEAN /\ whole' = whole \ (Others(r) \cup {r})
        PROVE  RelayTypeOK'
    <3>1. tcp' \in [TcpSockets -> Socket]
      BY <2>4, <2>5
    <3>2. need' \in [Relays -> 0..2] /\ rp' = [rp EXCEPT ![r] = "loop"] /\ using' = [using EXCEPT ![r] = NoTcp]
      BY <1>0, <2>5 DEF GoesRound, GoesTo
    <3>3. \A y \in Relays : Has(y, rp[y] \in {"connect", "hello", "length", "body"})' => (dead \/ using[y] # NoTcp)'
      BY <1>0, <2>2, <3>2, <1>16
    <3> QED BY <1>0, <2>2, <2>5, <3>1, <3>2, <3>3 DEF marks, Socket
  <2>6. ASSUME NEW n \in 1..need[r], TakesParts(r, n, FALSE), n # need[r],
               need' = [need EXCEPT ![r] = @ - n] /\ whole' = whole \ Others(r) /\ UNCHANGED <<rp, using, dead>>
        PROVE  RelayTypeOK'
    <3>1. tcp' \in [TcpSockets -> Socket]
      BY <2>4, <2>6
    <3>2. need' \in [Relays -> 0..2]
      BY <1>0, <2>4, <2>6
    <3> QED BY <1>0, <2>2, <2>6, <3>1, <3>2 DEF marks, Socket
  <2> QED BY <1>16, <2>3, <2>5, <2>6 DEF ReadRelayBody, UntilRead
<1> QED BY <1>1, <1>2, <1>3, <1>4, <1>5, <1>6, <1>7, <1>8, <1>9, <1>10, <1>11, <1>12, <1>13, <1>14, <1>15, <1>16
        DEF TcpAction, InGetInstance

-----------------------------------------------------------------------------
\* getInstance(): where it is called from, and what it is about to return.
LEMMA TcpGets == RelayInv /\ TcpAction => (GetsBeforeUse /\ ReturnsSomething)'
<1> SUFFICES ASSUME RelayInv, TcpAction PROVE (GetsBeforeUse /\ ReturnsSomething)'
  OBVIOUS
<1> DEFINE Goal == (GetsBeforeUse /\ ReturnsSomething)'
<1>0. /\ getting \in [Callers -> {"no", "check", "make", "return"}] /\ instance \in TcpSockets \cup {NoTcp}
      /\ rp \in [Relays -> {"none", "connect", "hello", "loop", "length", "body", "done"}]
      /\ Relays \subseteq Callers /\ Voice \in Callers /\ Screen \in Callers
      /\ GetsBeforeUse /\ ReturnsSomething
  BY DEF RelayInv, TypeOK, RelayTypeOK, Callers
<1> USE DEF GetsBeforeUse, ReturnsSomething, Has
<1>1. CASE UNCHANGED relay
  BY <1>0, <1>1 DEF relay, streams, marks
<1>2. ASSUME NEW x \in {Voice, Screen}, Asks(x) PROVE Goal
  BY <1>0, <1>2 DEF Asks, Gets, streams, marks
<1>3. ASSUME NEW x \in Callers, CheckInstance(x) PROVE Goal
  <2>1. CASE instance = NoTcp
    BY <1>0, <1>3, <2>1 DEF CheckInstance, streams, marks
  <2>2. CASE instance # NoTcp
    BY <1>0, <1>3, <2>2 DEF CheckInstance, streams, marks
  <2> QED BY <2>1, <2>2
<1>4. ASSUME NEW x \in Callers, MakeInstance(x) PROVE Goal
  <2>1. instance' \in TcpSockets
    BY <1>4, UnusedIsUnused DEF MakeInstance, RelayInv, TypeOK, RelayTypeOK
  <2> QED BY <1>0, <1>4, <2>1 DEF MakeInstance, streams
<1>5. ASSUME NEW x \in Callers, ReturnInstance(x) PROVE Goal
  BY <1>0, <1>5 DEF ReturnInstance, streams, marks
<1>6. ASSUME NEW r \in Relays, StartRelay(r) PROVE Goal
  BY <1>0, <1>6 DEF StartRelay, Gets
<1>7. CASE StopRelay \/ CloseTcp \/ Spoken \/ RelayEnds
  BY <1>0, <1>7 DEF StopRelay, CloseTcp, Spoken, RelayEnds, streams, marks
<1>9. CASE ForgetTcp
  BY <1>0, <1>9 DEF ForgetTcp, streams
<1>10. ASSUME NEW r \in Relays, ConnectTcp(r) PROVE Goal
  <2>1. /\ getting[r] = "no" /\ UNCHANGED <<instance, marks>>
        /\ \/ rp' = [rp EXCEPT ![r] = "hello"] /\ getting' = [getting EXCEPT ![r] = "check"]
           \/ rp' = [rp EXCEPT ![r] = "done"] /\ UNCHANGED getting
    BY <1>10 DEF ConnectTcp, GoesTo, Gets, Ends
  <2> QED BY <1>0, <2>1 DEF marks
<1>11. ASSUME NEW r \in Relays, Receiving(r) PROVE Goal
  <2>1. /\ rp[r] = "loop" /\ UNCHANGED <<instance, marks>>
        /\ \/ rp' = [rp EXCEPT ![r] = "length"] /\ getting' = [getting EXCEPT ![r] = "check"]
           \/ rp' = [rp EXCEPT ![r] = "done"] /\ UNCHANGED getting
    BY <1>11 DEF Receiving, GoesTo, Gets, Ends
  <2> QED BY <1>0, <2>1 DEF marks
<1>12. ASSUME NEW r \in Relays, SayHello(r) \/ ReadRelayLength(r) \/ ReadRelayBody(r) PROVE Goal
  <2>1. /\ getting[r] = "no" \/ rp[r] = "body"
        /\ UNCHANGED <<instance, getting, marks>>
    BY <1>12 DEF SayHello, ReadRelayLength, ReadRelayBody
  <2>2. getting[r] = "no"
    BY <1>0, <2>1
  <2>3. rp' = rp \/ \E l : rp' = [rp EXCEPT ![r] = l]
    BY <1>12 DEF SayHello, ReadRelayLength, ReadRelayBody, GoesTo, GoesRound, Ends
  <2> QED BY <1>0, <2>1, <2>2, <2>3 DEF marks
<1> QED BY <1>1, <1>2, <1>3, <1>4, <1>5, <1>6, <1>7, <1>9, <1>10, <1>11, <1>12 DEF TcpAction, InGetInstance

LEMMA ScreenKeeps == RelayInv /\ TcpAction => ScreenHolds'
<1> SUFFICES ASSUME RelayInv, TcpAction PROVE ScreenHolds'
  OBVIOUS
<1>0. /\ getting \in [Callers -> {"no", "check", "make", "return"}] /\ instance \in TcpSockets \cup {NoTcp}
      /\ Relays \subseteq Callers /\ Voice \in Callers /\ Screen \in Callers /\ ScreenHolds
  BY DEF RelayInv, TypeOK, RelayTypeOK, Callers
<1> USE DEF ScreenHolds, Has
<1>1. CASE UNCHANGED <<relay, main>>
  BY <1>0, <1>1 DEF relay
<1>2. CASE \/ Asks(Voice) /\ UNCHANGED main
           \/ Asks(Screen) /\ main' \in {"connect", "stop"}
  BY <1>0, <1>2 DEF Asks, Gets
<1>3. ASSUME NEW x \in Callers, CheckInstance(x), UNCHANGED main PROVE ScreenHolds'
  <2>1. CASE instance = NoTcp
    BY <1>0, <1>3, <2>1 DEF CheckInstance
  <2>2. CASE instance # NoTcp
    BY <1>0, <1>3, <2>2 DEF CheckInstance
  <2> QED BY <2>1, <2>2
<1>4. ASSUME NEW x \in Callers, MakeInstance(x), UNCHANGED main PROVE ScreenHolds'
  <2>1. instance' \in TcpSockets
    BY <1>4, UnusedIsUnused DEF MakeInstance, RelayInv, TypeOK, RelayTypeOK
  <2> QED BY <1>0, <1>4, <2>1 DEF MakeInstance
<1>5. ASSUME NEW x \in Callers, ReturnInstance(x), UNCHANGED main PROVE ScreenHolds'
  BY <1>0, <1>5 DEF ReturnInstance
<1>6. ASSUME NEW r \in Relays, StartRelay(r), main' = "idle", Has(Screen, main = "connect") PROVE ScreenHolds'
  BY <1>0, <1>6 DEF StartRelay, Gets
<1>7. CASE Has(Screen, main = "stop") /\ StopRelay /\ main' = "close"
  BY <1>0, <1>7 DEF StopRelay
<1>8. CASE CloseTcp /\ main = "close" /\ main' = "forget"
  BY <1>0, <1>8 DEF CloseTcp
<1>9. CASE ForgetTcp /\ main = "forget" /\ main' = "idle"
  BY <1>0, <1>9 DEF ForgetTcp
<1>10. CASE (Spoken \/ RelayEnds) /\ UNCHANGED main
  BY <1>0, <1>10 DEF Spoken, RelayEnds
<1>11. ASSUME NEW r \in Relays, UNCHANGED main,
              ConnectTcp(r) \/ SayHello(r) \/ Receiving(r) \/ ReadRelayLength(r) \/ ReadRelayBody(r)
       PROVE  ScreenHolds'
  <2>1. UNCHANGED instance /\ (UNCHANGED getting \/ getting' = [getting EXCEPT ![r] = "check"])
    BY <1>11 DEF ConnectTcp, SayHello, Receiving, ReadRelayLength, ReadRelayBody, Gets
  <2> QED BY <1>0, <1>11, <2>1
<1> HIDE DEF ScreenHolds, Has
<1>12. ASSUME NEW x \in Callers, InGetInstance(x), UNCHANGED main PROVE ScreenHolds'
  BY <1>3, <1>4, <1>5, <1>12 DEF InGetInstance
<1>13. CASE Has(Screen, main = "connect") /\ StartRelay(Begun + 1) /\ Begun + 1 \in Relays /\ main' = "idle"
  BY <1>6, <1>13
<1>14. CASE /\ \E r \in Relays : ConnectTcp(r) \/ SayHello(r) \/ Receiving(r) \/ ReadRelayLength(r) \/ ReadRelayBody(r)
            /\ UNCHANGED main
  BY <1>11, <1>14
<1>15. CASE (\E x \in Callers : InGetInstance(x)) /\ UNCHANGED main
  BY <1>12, <1>15
<1> QED BY <1>1, <1>2, <1>7, <1>8, <1>9, <1>10, <1>13, <1>14, <1>15 DEF TcpAction

\* Reading changes neither the state of a socket nor who connected it.
LEMMA ReadingKeepsSockets ==
  ASSUME RelayInv, ~dead, NEW r \in Relays, ReadRelayLength(r) \/ ReadRelayBody(r)
  PROVE  \A s \in TcpSockets : tcp'[s].st = tcp[s].st /\ tcp'[s].by = tcp[s].by
<1>1. using[r] \in TcpSockets /\ RelayTypeOK
  BY DEF ReadRelayLength, ReadRelayBody, RelayInv, TypeOK, RelayTypeOK, BodiesConnected, Has, Callers
<1>2. tcp' = tcp \/ \E n \in 1..2, cuts \in BOOLEAN : TakesParts(r, n, cuts)
  <2>1. need[r] \in 0..2 /\ FALSE \in BOOLEAN /\ \A n \in 1..2 : (n = 1) \in BOOLEAN
    BY <1>1 DEF RelayTypeOK
  <2>2. ReadRelayLength(r) => tcp' = tcp \/ \E n \in 1..2 : TakesParts(r, n, n = 1)
    BY DEF ReadRelayLength
  <2>3. ReadRelayBody(r) => tcp' = tcp \/ \E n \in 1..need[r] : TakesParts(r, n, FALSE)
    BY DEF ReadRelayBody
  <2>4. 1..need[r] \subseteq 1..2
    BY <2>1
  <2> QED BY <2>1, <2>2, <2>3, <2>4
<1>3. CASE tcp' = tcp
  BY <1>3
<1>4. ASSUME NEW n \in 1..2, NEW cuts \in BOOLEAN, TakesParts(r, n, cuts)
      PROVE  \A s \in TcpSockets : tcp'[s].st = tcp[s].st /\ tcp'[s].by = tcp[s].by
  BY <1>1, <1>4, TakingParts
<1> QED BY <1>2, <1>3, <1>4

\* The one socket, and which connections are late.
LEMMA TcpSocketIsOne ==
  RelayInv /\ TcpAction => (OneSocket /\ ConnectsLate /\ StoppedMeansClosed)'
<1> SUFFICES ASSUME RelayInv, TcpAction PROVE (OneSocket /\ ConnectsLate /\ StoppedMeansClosed)'
  OBVIOUS
<1> DEFINE Goal == (OneSocket /\ ConnectsLate /\ StoppedMeansClosed)'
<1>0. /\ RelayTypeOK /\ OneSocket /\ ConnectsLate /\ StoppedMeansClosed
      /\ tcp \in [TcpSockets -> Socket] /\ doubled \in BOOLEAN /\ instance \in TcpSockets \cup {NoTcp}
      /\ rp \in [Relays -> {"none", "connect", "hello", "loop", "length", "body", "done"}]
      /\ late \subseteq Relays
  BY DEF RelayInv, TypeOK, RelayTypeOK, Socket
<1> USE DEF OneSocket, ConnectsLate, StoppedMeansClosed, Has
<1>1. ASSUME UNCHANGED <<instance, tcp, late, doubled>>, main' = main \/ main' # "forget",
             \A r \in Relays : rp'[r] = "connect" => rp[r] = "connect"
      PROVE  Goal
  BY <1>0, <1>1
<1>2. CASE UNCHANGED <<relay, main>>
  BY <1>1, <1>2 DEF relay, streams, marks
<1>3. ASSUME NEW x \in Callers, Asks(x), main' = main \/ main' # "forget" PROVE Goal
  BY <1>1, <1>3 DEF Asks, streams, marks
<1>4. ASSUME NEW x \in Callers, MakeInstance(x), UNCHANGED main PROVE Goal
  <2>1. /\ Unused \in TcpSockets /\ instance' = Unused /\ tcp' = [tcp EXCEPT ![Unused] = NewTcp]
        /\ doubled' = (doubled \/ instance # NoTcp) /\ UNCHANGED <<rp, late>>
    BY <1>0, <1>4, UnusedIsUnused DEF MakeInstance, RelayTypeOK, streams
  <2>2. tcp'[Unused].st = "new" /\ \A s \in TcpSockets \ {Unused} : tcp'[s] = tcp[s]
    BY <1>0, <2>1 DEF NewTcp
  <2>3. CASE doubled \/ instance # NoTcp
    <3>1. doubled'
      BY <2>1, <2>3
    <3> QED BY <1>0, <2>1, <3>1
  <2>4. CASE ~doubled /\ instance = NoTcp
    <3>1. \A s \in TcpSockets : tcp[s].st \notin {"new", "open"}
      BY <1>0, <2>4
    <3>2. main # "forget"
      BY <2>4 DEF RelayInv, ScreenHolds
    <3> QED BY <1>0, <1>4, <2>1, <2>2, <3>1, <3>2
  <2> QED BY <2>3, <2>4
<1>5. ASSUME NEW x \in Callers, CheckInstance(x) \/ ReturnInstance(x), UNCHANGED main PROVE Goal
  BY <1>1, <1>5 DEF CheckInstance, ReturnInstance, streams, marks
<1>6. ASSUME NEW r \in Relays, StartRelay(r), main' = "idle" PROVE Goal
  BY <1>0, <1>6 DEF StartRelay
<1>7. CASE StopRelay /\ main' = "close"
  <2>1. /\ \A s \in TcpSockets : tcp'[s].st = tcp[s].st /\ tcp'[s].by = tcp[s].by
        /\ UNCHANGED <<instance, late, doubled, rp>>
    BY <1>0, <1>7 DEF StopRelay, Socket, streams, marks
  <2> QED BY <1>0, <1>7, <2>1
<1>8. CASE CloseTcp /\ main' = "forget"
  <2>1. /\ UNCHANGED <<instance, late, doubled, rp>>
        /\ tcp' = IF instance = NoTcp THEN tcp ELSE [tcp EXCEPT ![instance] = Over(instance, "closed")]
    BY <1>8 DEF CloseTcp, streams, marks
  <2>2. instance \in TcpSockets => tcp'[instance].st = "closed"
    BY <1>0, <2>1, NewSockets
  <2>3. \A s \in TcpSockets \ {instance} : tcp'[s] = tcp[s]
    BY <1>0, <2>1
  <2> QED BY <1>0, <2>1, <2>2, <2>3
<1>9. CASE ForgetTcp /\ main = "forget" /\ main' = "idle"
  <2>1. /\ instance' = NoTcp /\ late' = {r \in Relays : rp[r] = "connect"} /\ UNCHANGED <<tcp, doubled, rp>>
    BY <1>9 DEF ForgetTcp, streams
  <2> QED BY <1>0, <1>9, <2>1
<1>10. CASE RelayEnds /\ UNCHANGED main
  <2>1. PICK s \in TcpSockets : tcp[s].st = "open" /\ tcp' = [tcp EXCEPT ![s] = Over(s, "ended")]
    BY <1>10 DEF RelayEnds
  <2>2. tcp'[s].st = "ended" /\ \A x \in TcpSockets \ {s} : tcp'[x] = tcp[x]
    BY <1>0, <2>1, NewSockets
  <2>3. UNCHANGED <<instance, late, doubled, rp>>
    BY <1>10 DEF RelayEnds, streams, marks
  <2> QED BY <1>0, <1>10, <2>2, <2>3
<1>11. ASSUME NEW r \in Relays, ConnectTcp(r), UNCHANGED main PROVE Goal
  <2>1. /\ rp[r] = "connect" /\ UNCHANGED <<instance, late, doubled>>
        /\ \E l \in {"hello", "done"} : rp' = [rp EXCEPT ![r] = l]
    BY <1>11 DEF ConnectTcp, GoesTo, Ends, marks
  <2>2. CASE St(r) = "new" /\ tcp' = [tcp EXCEPT ![using[r]].st = "open", ![using[r]].by = r]
    <3>1. CASE using[r] \in TcpSockets
      <4> DEFINE u == using[r]
      <4>1. tcp' = [tcp EXCEPT ![u] = [@ EXCEPT !.st = "open", !.by = r]]
        BY <1>0, <2>2
      <4>2. tcp'[u].st = "open" /\ tcp'[u].by = r /\ tcp[u].st = "new" /\ \A s \in TcpSockets \ {u} : tcp'[s] = tcp[s]
        BY <1>0, <2>2, <3>1, <4>1 DEF Socket, St
      <4>3. r \in late
        BY <1>0, <2>1
      <4> HIDE DEF u
      <4> QED BY <1>0, <1>11, <2>1, <4>2, <4>3
    <3>2. CASE using[r] \notin TcpSockets
      <4>1. \A s \in TcpSockets : tcp'[s] = tcp[s]
        BY <1>0, <2>2, <3>2
      <4> QED BY <1>0, <1>11, <2>1, <4>1
    <3> QED BY <3>1, <3>2
  <2>3. CASE tcp' = [tcp EXCEPT ![using[r]].st = IF @ = "new" THEN "closed" ELSE @]
    <3>1. \A s \in TcpSockets : tcp'[s].by = tcp[s].by /\ (tcp'[s].st = "closed" \/ tcp'[s].st = tcp[s].st)
      BY <1>0, <2>3 DEF Socket
    <3> QED BY <1>0, <1>11, <2>1, <3>1
  <2> QED BY <1>11, <2>2, <2>3 DEF ConnectTcp
<1>12. ASSUME NEW r \in Relays, SayHello(r) \/ Receiving(r), UNCHANGED main PROVE Goal
  <2>1. UNCHANGED <<instance, tcp, late, doubled>> /\ \E l \in {"loop", "length", "done"} : rp' = [rp EXCEPT ![r] = l]
    BY <1>12 DEF SayHello, Receiving, GoesTo, Ends, marks
  <2> QED BY <1>0, <1>1, <1>12, <2>1
<1>13. ASSUME NEW r \in Relays, ReadRelayLength(r) \/ ReadRelayBody(r), ~dead, UNCHANGED main PROVE Goal
  <2>1. UNCHANGED <<instance, late, doubled>> /\ (rp' = rp \/ \E l \in {"loop", "body"} : rp' = [rp EXCEPT ![r] = l])
    BY <1>13 DEF ReadRelayLength, ReadRelayBody, GoesTo, GoesRound, marks
  <2>2. \A s \in TcpSockets : tcp'[s].st = tcp[s].st /\ tcp'[s].by = tcp[s].by
    BY <1>13, ReadingKeepsSockets
  <2> QED BY <1>0, <1>13, <2>1, <2>2
<1>14. CASE Spoken /\ UNCHANGED main
  BY <1>1, <1>14 DEF Spoken, streams, marks
<1>15. ASSUME NEW x \in Callers, InGetInstance(x), UNCHANGED main PROVE Goal
  BY <1>4, <1>5, <1>15 DEF InGetInstance
<1>16. Voice \in Callers /\ Screen \in Callers
  BY DEF Callers
<1> QED BY <1>2, <1>3, <1>6, <1>7, <1>8, <1>9, <1>10, <1>11, <1>12, <1>13, <1>14, <1>15, <1>16 DEF TcpAction

-----------------------------------------------------------------------------
\* A stream is in step if its socket and those who are in a body on it are as
\* they were.
LEMMA InMessageKept ==
  ASSUME NEW s \in TcpSockets, InMessage(s), tcp'[s].pos = tcp[s].pos,
         \A r \in Relays : BodyOf(r, s)' <=> BodyOf(r, s),
         \A r \in Relays : BodyOf(r, s) => (r \in whole => r \in whole') /\ need'[r] = need[r]
  PROVE  InMessage(s)'
<1> USE DEF BodyOf
<1>1. CASE tcp[s].pos = 0 /\ \A r \in Relays : ~BodyOf(r, s)
  BY <1>1 DEF InMessage
<1>2. ASSUME NEW r \in Relays, BodyOf(r, s), r \in whole, need[r] + tcp[s].pos = 4,
             \A y \in Relays : BodyOf(y, s) => y = r
      PROVE  InMessage(s)'
  <2>1. BodyOf(r, s)' /\ r \in whole' /\ need'[r] + tcp'[s].pos = 4
    BY <1>2
  <2>2. \A y \in Relays : BodyOf(y, s)' => y = r
    BY <1>2
  <2> QED BY <2>1, <2>2 DEF InMessage
<1> QED BY <1>1, <1>2 DEF InMessage

\* What a length takes the relay into, on a stream that is not cut.
LEMMA LengthInStep ==
  ASSUME RelayInv, ~dead, NEW r \in Relays, ReadRelayLength(r)
  PROVE  (NewIsUnread /\ BodiesConnected /\ StreamsInStep)'
<1>1. /\ using[r] \in TcpSockets /\ RelayTypeOK /\ rp[r] = "length" /\ tcp \in [TcpSockets -> Socket]
      /\ using \in [Callers -> TcpSockets \cup {NoTcp}] /\ Relays \subseteq Callers
      /\ rp \in [Relays -> {"none", "connect", "hello", "loop", "length", "body", "done"}]
      /\ need \in [Relays -> 0..2] /\ NewIsUnread /\ BodiesConnected /\ StreamsInStep
  BY DEF ReadRelayLength, RelayInv, TypeOK, RelayTypeOK, Has, Callers, Socket
<1> PICK u \in TcpSockets : u = using[r]
  BY <1>1
<1> DEFINE Goal == (NewIsUnread /\ BodiesConnected /\ StreamsInStep)'
<1>2. CASE GoesRound(r) /\ UNCHANGED <<tcp, need, whole>>
  <2>1. \A y \in Relays, s \in TcpSockets : BodyOf(y, s)' <=> BodyOf(y, s)
    BY <1>1, <1>2 DEF GoesRound, GoesTo, BodyOf
  <2>2. NewIsUnread'
    BY <1>1, <1>2 DEF NewIsUnread
  <2>3. BodiesConnected'
    BY <1>1, <1>2 DEF BodiesConnected, GoesRound, GoesTo
  <2>4. StreamsInStep'
    BY <1>1, <1>2, <2>1, InMessageKept DEF StreamsInStep
  <2> QED BY <2>2, <2>3, <2>4
<1>3. ASSUME St(r) = "open", NEW n \in 1..2, TakesParts(r, n, n = 1), NEW starts \in BOOLEAN,
             starts <=> tcp[u].pos = 0 /\ n = 2,
             whole' = (whole \ Others(r)) \cup {y \in {r} : starts},
             \/ /\ \E l \in IF starts THEN {2} ELSE 1..2 : need' = [need EXCEPT ![r] = l]
                /\ GoesTo(r, "body") /\ UNCHANGED using
             \/ ~starts /\ GoesRound(r) /\ UNCHANGED need
      PROVE  Goal
  <2>1. /\ \A s \in TcpSockets \ {u} : tcp'[s] = tcp[s]
        /\ tcp'[u].st = "open"
        /\ tcp'[u].pos = (tcp[u].pos + n) % 4
        /\ tcp'[u].cut = (tcp[u].cut \/ n = 1 \/ Others(r) # {})
    BY <1>1, <1>3, TakingParts DEF St
  <2>2. \A y \in Relays \ {r} : rp'[y] = rp[y] /\ using'[y] = using[y] /\ need'[y] = need[y]
    BY <1>1, <1>3 DEF GoesRound, GoesTo
  <2>3. \/ rp'[r] = "body" /\ using'[r] = u /\ (starts => need'[r] = 2)
        \/ rp'[r] = "loop" /\ ~starts
    BY <1>1, <1>3 DEF GoesRound, GoesTo
  <2>4. NewIsUnread'
    BY <1>1, <2>1 DEF NewIsUnread
  <2>5. BodiesConnected'
    BY <1>1, <2>1, <2>2, <2>3 DEF BodiesConnected
  <2>6. ASSUME NEW s \in TcpSockets \ {u}, (tcp[s].st = "open" /\ ~tcp[s].cut)' PROVE InMessage(s)'
    <3>1. InMessage(s) /\ tcp'[s].pos = tcp[s].pos
      BY <1>1, <2>1, <2>6 DEF StreamsInStep
    <3>2. \A y \in Relays : BodyOf(y, s)' <=> BodyOf(y, s)
      BY <1>1, <2>2, <2>3, <2>6 DEF BodyOf
    <3>3. \A y \in Relays : BodyOf(y, s) => (y \in whole => y \in whole') /\ need'[y] = need[y]
      BY <1>1, <1>3, <2>2, <2>6 DEF BodyOf, Others
    <3> QED BY <3>1, <3>2, <3>3, InMessageKept
  <2>7. ASSUME (tcp[u].st = "open" /\ ~tcp[u].cut)' PROVE InMessage(u)'
    <3>0. ~(tcp[u].cut \/ n = 1 \/ Others(r) # {}) /\ tcp[u].st = "open"
      BY <1>3, <2>1, <2>7 DEF St
    <3>1. ~tcp[u].cut /\ n = 2 /\ Others(r) = {} /\ InMessage(u)
      BY <1>1, <3>0 DEF StreamsInStep
    <3>2. \A y \in Relays : ~BodyOf(y, u)
      BY <1>1, <3>1 DEF Others, BodyOf
    <3>3. tcp[u].pos = 0
      BY <3>1, <3>2 DEF InMessage
    <3>4. starts /\ tcp'[u].pos = 2
      BY <1>3, <2>1, <3>1, <3>3
    <3>5. rp'[r] = "body" /\ using'[r] = u /\ need'[r] = 2 /\ r \in whole'
      BY <1>3, <2>3, <3>4
    <3>6. \A y \in Relays : BodyOf(y, u)' => y = r
      BY <2>2, <3>2 DEF BodyOf
    <3> QED BY <3>4, <3>5, <3>6 DEF InMessage, BodyOf
  <2> QED BY <2>4, <2>5, <2>6, <2>7 DEF StreamsInStep
<1>4. \/ GoesRound(r) /\ UNCHANGED <<tcp, need, whole>>
      \/ /\ St(r) = "open"
         /\ \E n \in 1..2 : \E starts \in BOOLEAN :
              /\ starts <=> tcp[u].pos = 0 /\ n = 2
              /\ TakesParts(r, n, n = 1)
              /\ whole' = (whole \ Others(r)) \cup {y \in {r} : starts}
              /\ \/ /\ \E l \in IF starts THEN {2} ELSE 1..2 : need' = [need EXCEPT ![r] = l]
                    /\ GoesTo(r, "body") /\ UNCHANGED using
                 \/ ~starts /\ GoesRound(r) /\ UNCHANGED need
  BY DEF ReadRelayLength
<1> QED BY <1>2, <1>3, <1>4

\* What is read of a body, and what is left of it.
LEMMA BodyInStep ==
  ASSUME RelayInv, ~dead, NEW r \in Relays, ReadRelayBody(r)
  PROVE  (NewIsUnread /\ BodiesConnected /\ StreamsInStep)'
<1>1. /\ using[r] \in TcpSockets /\ RelayTypeOK /\ rp[r] = "body" /\ tcp \in [TcpSockets -> Socket]
      /\ using \in [Callers -> TcpSockets \cup {NoTcp}] /\ Relays \subseteq Callers
      /\ rp \in [Relays -> {"none", "connect", "hello", "loop", "length", "body", "done"}]
      /\ need \in [Relays -> 0..2] /\ NewIsUnread /\ BodiesConnected /\ StreamsInStep
  BY DEF ReadRelayBody, RelayInv, TypeOK, RelayTypeOK, Callers, Socket, BodiesConnected
<1> PICK u \in TcpSockets : u = using[r]
  BY <1>1
<1> DEFINE Goal == (NewIsUnread /\ BodiesConnected /\ StreamsInStep)'
<1>2. CASE St(r) # "open" /\ GoesRound(r) /\ need' = [need EXCEPT ![r] = 0] /\ whole' = whole \ {r} /\ UNCHANGED tcp
  <2>1. /\ rp' = [rp EXCEPT ![r] = "loop"] /\ using' = [using EXCEPT ![r] = NoTcp]
        /\ \A y \in Relays \ {r} : need'[y] = need[y] /\ (y \in whole' <=> y \in whole)
    BY <1>1, <1>2 DEF GoesRound, GoesTo
  <2>2. NewIsUnread' /\ BodiesConnected'
    BY <1>1, <1>2, <2>1 DEF NewIsUnread, BodiesConnected
  <2>3. ASSUME NEW s \in TcpSockets, (tcp[s].st = "open" /\ ~tcp[s].cut)' PROVE InMessage(s)'
    <3>1. InMessage(s) /\ s # u
      BY <1>1, <1>2, <2>3 DEF StreamsInStep, St
    <3>2. \A y \in Relays : BodyOf(y, s)' <=> BodyOf(y, s)
      BY <1>1, <2>1, <3>1 DEF BodyOf
    <3>3. \A y \in Relays : BodyOf(y, s) => (y \in whole => y \in whole') /\ need'[y] = need[y]
      BY <1>1, <2>1, <3>1 DEF BodyOf
    <3> QED BY <1>2, <3>1, <3>2, <3>3, InMessageKept
  <2> QED BY <2>2, <2>3 DEF StreamsInStep
<1>3. ASSUME St(r) = "open", NEW n \in 1..need[r], TakesParts(r, n, FALSE),
             \/ n = need[r] /\ GoesRound(r) /\ need' = [need EXCEPT ![r] = 0] /\ whole' = whole \ (Others(r) \cup {r})
             \/ n # need[r] /\ need' = [need EXCEPT ![r] = @ - n] /\ whole' = whole \ Others(r) /\ UNCHANGED <<rp, using>>
      PROVE  Goal
  <2>0. need[r] \in 0..2 /\ n \in 1..2
    <3>1. need[r] \in 0..2
      BY <1>1
    <3> QED BY <1>3, <3>1
  <2>1. /\ \A s \in TcpSockets \ {u} : tcp'[s] = tcp[s]
        /\ tcp'[u].st = "open" /\ tcp[u].st = "open"
        /\ tcp'[u].pos = (tcp[u].pos + n) % 4
        /\ tcp'[u].cut = (tcp[u].cut \/ Others(r) # {})
    BY <1>1, <1>3, <2>0, TakingParts DEF St
  <2>2. \A y \in Relays \ {r} : rp'[y] = rp[y] /\ using'[y] = using[y] /\ need'[y] = need[y]
    BY <1>1, <1>3 DEF GoesRound, GoesTo
  <2>3. \/ n = need[r] /\ rp'[r] = "loop"
        \/ n # need[r] /\ rp'[r] = "body" /\ using'[r] = u /\ need'[r] = need[r] - n
    BY <1>1, <1>3 DEF GoesRound, GoesTo
  <2>4. NewIsUnread'
    BY <1>1, <2>1 DEF NewIsUnread
  <2>5. BodiesConnected'
    BY <1>1, <2>1, <2>2, <2>3 DEF BodiesConnected
  <2>6. ASSUME NEW s \in TcpSockets \ {u}, (tcp[s].st = "open" /\ ~tcp[s].cut)' PROVE InMessage(s)'
    <3>1. InMessage(s) /\ tcp'[s].pos = tcp[s].pos
      BY <1>1, <2>1, <2>6 DEF StreamsInStep
    <3>2. \A y \in Relays : BodyOf(y, s)' <=> BodyOf(y, s)
      BY <1>1, <2>2, <2>3, <2>6 DEF BodyOf
    <3>3. \A y \in Relays : BodyOf(y, s) => (y \in whole => y \in whole') /\ need'[y] = need[y]
      BY <1>1, <1>3, <2>2, <2>6 DEF BodyOf, Others
    <3> QED BY <3>1, <3>2, <3>3, InMessageKept
  <2>7. ASSUME (tcp[u].st = "open" /\ ~tcp[u].cut)' PROVE InMessage(u)'
    <3>1. ~tcp[u].cut /\ Others(r) = {}
      BY <2>1, <2>7
    <3>2. InMessage(u) /\ BodyOf(r, u)
      BY <1>1, <2>1, <3>1 DEF StreamsInStep, BodyOf
    <3>3. r \in whole /\ need[r] + tcp[u].pos = 4 /\ \A y \in Relays : BodyOf(y, u) => y = r
      BY <3>2 DEF InMessage
    <3>4. tcp[u].pos \in 0..3 /\ need[r] \in 0..2
      BY <1>1, <2>0 DEF Socket
    <3>5. CASE n = need[r]
      <4>1. tcp'[u].pos = 0
        BY <2>0, <2>1, <3>3, <3>4, <3>5
      <4>2. rp'[r] = "loop"
        BY <2>3, <3>5
      <4>3. \A y \in Relays : ~BodyOf(y, u)'
        BY <2>2, <3>3, <4>2 DEF BodyOf
      <4> QED BY <4>1, <4>3 DEF InMessage
    <3>6. CASE n # need[r]
      <4>1. tcp'[u].pos = tcp[u].pos + n
        BY <2>0, <2>1, <3>3, <3>4, <3>6
      <4>2. need'[r] + tcp'[u].pos = 4
        BY <2>0, <2>3, <3>3, <3>4, <3>6, <4>1
      <4>3. r \in whole'
        BY <1>3, <3>3, <3>6 DEF Others
      <4>4. \A y \in Relays : BodyOf(y, u)' => y = r
        BY <2>2, <3>3 DEF BodyOf
      <4>5. BodyOf(r, u)'
        BY <2>3, <3>6 DEF BodyOf
      <4> QED BY <4>2, <4>3, <4>4, <4>5 DEF InMessage
    <3> QED BY <3>5, <3>6
  <2> QED BY <2>4, <2>5, <2>6, <2>7 DEF StreamsInStep
<1>4. \/ St(r) # "open" /\ GoesRound(r) /\ need' = [need EXCEPT ![r] = 0] /\ whole' = whole \ {r} /\ UNCHANGED tcp
      \/ /\ St(r) = "open"
         /\ \E n \in 1..need[r] :
              /\ TakesParts(r, n, FALSE)
              /\ \/ n = need[r] /\ GoesRound(r) /\ need' = [need EXCEPT ![r] = 0] /\ whole' = whole \ (Others(r) \cup {r})
                 \/ n # need[r] /\ need' = [need EXCEPT ![r] = @ - n] /\ whole' = whole \ Others(r) /\ UNCHANGED <<rp, using>>
  BY DEF ReadRelayBody, UntilRead
<1> QED BY <1>2, <1>3, <1>4

\* Streams: a socket that is made or closed is read by nobody.
LEMMA TcpStreams == RelayInv /\ TcpAction => (NewIsUnread /\ BodiesConnected /\ StreamsInStep)'
<1> SUFFICES ASSUME RelayInv, TcpAction PROVE (NewIsUnread /\ BodiesConnected /\ StreamsInStep)'
  OBVIOUS
<1> DEFINE Goal == (NewIsUnread /\ BodiesConnected /\ StreamsInStep)'
<1>0. /\ RelayTypeOK /\ tcp \in [TcpSockets -> Socket]
      /\ using \in [Callers -> TcpSockets \cup {NoTcp}] /\ Relays \subseteq Callers
      /\ rp \in [Relays -> {"none", "connect", "hello", "loop", "length", "body", "done"}]
      /\ Screen \in Callers /\ Voice \in Callers /\ Screen \notin Relays /\ Voice \notin Relays
      /\ GetsBeforeUse /\ NewIsUnread /\ BodiesConnected /\ StreamsInStep
  BY DEF RelayInv, TypeOK, RelayTypeOK, Socket, Callers
\* A step that keeps who is in a body, and of each socket its stream or its end.
<1>1. ASSUME UNCHANGED <<need, whole>>, \A r \in Relays : rp'[r] = "body" <=> rp[r] = "body",
             \A r \in Relays : rp[r] = "body" => using'[r] = using[r],
             \A s \in TcpSockets :
               \/ tcp'[s].st = tcp[s].st /\ tcp'[s].pos = tcp[s].pos /\ tcp'[s].cut = tcp[s].cut
               \/ tcp'[s].st \in {"ended", "closed"}
               \/ tcp[s].st = "new" /\ tcp'[s].st = "open" /\ tcp'[s].pos = tcp[s].pos /\ tcp'[s].cut = tcp[s].cut
      PROVE  Goal
  <2>1. NewIsUnread' /\ BodiesConnected'
    BY <1>0, <1>1 DEF NewIsUnread, BodiesConnected
  <2>2. ASSUME NEW s \in TcpSockets, (tcp[s].st = "open" /\ ~tcp[s].cut)' PROVE InMessage(s)'
    <3>1. \A y \in Relays : BodyOf(y, s)' <=> BodyOf(y, s)
      BY <1>1 DEF BodyOf
    <3>2. CASE tcp[s].st = "new"
      <4>1. tcp'[s].pos = 0 /\ \A y \in Relays : ~BodyOf(y, s)
        BY <1>0, <1>1, <2>2, <3>2 DEF NewIsUnread, BodiesConnected, BodyOf
      <4> QED BY <3>1, <4>1 DEF InMessage
    <3>3. CASE tcp[s].st # "new"
      <4>1. tcp[s].st = "open" /\ ~tcp[s].cut /\ tcp'[s].pos = tcp[s].pos
        BY <1>1, <2>2, <3>3
      <4>2. InMessage(s)
        BY <1>0, <4>1 DEF StreamsInStep
      <4> QED BY <1>1, <3>1, <4>1, <4>2, InMessageKept
    <3> QED BY <3>2, <3>3
  <2> QED BY <2>1, <2>2 DEF StreamsInStep
<1>2. ASSUME UNCHANGED <<tcp, streams>>, \A r \in Relays : rp[r] = "body" => using'[r] = using[r] PROVE Goal
  BY <1>1, <1>2 DEF streams
<1>3. CASE UNCHANGED relay
  BY <1>2, <1>3 DEF relay
<1>4. ASSUME NEW x \in Callers, Asks(x) \/ CheckInstance(x) PROVE Goal
  BY <1>2, <1>4 DEF Asks, CheckInstance
<1>5. ASSUME NEW x \in Callers, ReturnInstance(x) PROVE Goal
  <2>1. \A r \in Relays : rp[r] = "body" => r # x
    BY <1>0, <1>5 DEF ReturnInstance, GetsBeforeUse
  <2>2. UNCHANGED <<tcp, streams>> /\ \A r \in Relays \ {x} : using'[r] = using[r]
    BY <1>0, <1>5 DEF ReturnInstance
  <2> QED BY <1>2, <2>1, <2>2
<1>6. ASSUME NEW x \in Callers, MakeInstance(x) PROVE Goal
  <2>1. /\ Unused \in TcpSockets /\ tcp' = [tcp EXCEPT ![Unused] = NewTcp] /\ UNCHANGED <<using, need, whole, rp>>
        /\ \A r \in Relays : using[r] # Unused
    BY <1>0, <1>6, UnusedIsUnused DEF MakeInstance, RelayTypeOK, streams
  <2>2. /\ tcp'[Unused].st = "new" /\ tcp'[Unused].pos = 0 /\ tcp'[Unused].cut = FALSE
        /\ \A s \in TcpSockets \ {Unused} : tcp'[s] = tcp[s]
    BY <1>0, <2>1 DEF NewTcp
  <2> HIDE DEF Unused
  <2>3. NewIsUnread' /\ BodiesConnected'
    BY <1>0, <2>1, <2>2 DEF NewIsUnread, BodiesConnected
  <2>4. ASSUME NEW s \in TcpSockets, (tcp[s].st = "open" /\ ~tcp[s].cut)' PROVE InMessage(s)'
    <3>1. s # Unused /\ tcp'[s] = tcp[s] /\ InMessage(s)
      BY <1>0, <2>1, <2>2, <2>4 DEF StreamsInStep
    <3> QED BY <2>1, <3>1, InMessageKept DEF BodyOf
  <2> QED BY <2>3, <2>4 DEF StreamsInStep
<1>7. ASSUME NEW r \in Relays, StartRelay(r) PROVE Goal
  BY <1>0, <1>1, <1>7 DEF StartRelay
<1>8. CASE StopRelay
  <2>1. \A s \in TcpSockets : tcp'[s].st = tcp[s].st /\ tcp'[s].pos = tcp[s].pos /\ tcp'[s].cut = tcp[s].cut
    BY <1>0, <1>8 DEF StopRelay, Socket
  <2>2. UNCHANGED streams /\ \A r \in Relays : using'[r] = using[r]
    BY <1>0, <1>8 DEF StopRelay
  <2> QED BY <1>1, <2>1, <2>2 DEF streams
<1>9. CASE CloseTcp
  <2>1. \A s \in TcpSockets : tcp'[s] = tcp[s] \/ tcp'[s].st = "closed"
    BY <1>0, <1>9, NewSockets DEF CloseTcp
  <2> QED BY <1>1, <1>9, <2>1 DEF CloseTcp, streams
<1>10. CASE ForgetTcp
  BY <1>2, <1>10 DEF ForgetTcp
<1>11. CASE Spoken
  BY <1>0, <1>2, <1>11 DEF Spoken
<1>12. CASE RelayEnds
  <2>1. \A s \in TcpSockets : tcp'[s] = tcp[s] \/ tcp'[s].st = "ended"
    BY <1>0, <1>12, NewSockets DEF RelayEnds
  <2> QED BY <1>1, <1>12, <2>1 DEF RelayEnds, streams
<1>13. ASSUME NEW r \in Relays, ConnectTcp(r) PROVE Goal
  <2>1. /\ rp[r] = "connect" /\ UNCHANGED <<need, whole>> /\ \E l \in {"hello", "done"} : rp' = [rp EXCEPT ![r] = l]
        /\ \A y \in Relays \ {r} : using'[y] = using[y]
    <3>1. /\ rp[r] = "connect" /\ UNCHANGED <<need, whole>>
          /\ \/ rp' = [rp EXCEPT ![r] = "hello"] /\ UNCHANGED using
             \/ rp' = [rp EXCEPT ![r] = "done"] /\ using' = [using EXCEPT ![r] = NoTcp]
      BY <1>13 DEF ConnectTcp, GoesTo, Ends, Has
    <3> QED BY <1>0, <3>1
  <2>2. ASSUME NEW s \in TcpSockets
        PROVE  \/ tcp'[s].st = tcp[s].st /\ tcp'[s].pos = tcp[s].pos /\ tcp'[s].cut = tcp[s].cut
               \/ tcp'[s].st \in {"ended", "closed"}
               \/ tcp[s].st = "new" /\ tcp'[s].st = "open" /\ tcp'[s].pos = tcp[s].pos /\ tcp'[s].cut = tcp[s].cut
    <3>1. CASE St(r) = "new" /\ tcp' = [tcp EXCEPT ![using[r]].st = "open", ![using[r]].by = r]
      <4>1. CASE s = using[r]
        <5>1. tcp'[s] = [tcp[s] EXCEPT !.st = "open", !.by = r]
          BY <1>0, <3>1, <4>1
        <5>2. tcp'[s].st = "open" /\ tcp'[s].pos = tcp[s].pos /\ tcp'[s].cut = tcp[s].cut
          BY <1>0, <5>1 DEF Socket
        <5> QED BY <3>1, <4>1, <5>2 DEF St
      <4>2. CASE s # using[r]
        BY <1>0, <3>1, <4>2
      <4> QED BY <4>1, <4>2
    <3>2. CASE tcp' = [tcp EXCEPT ![using[r]].st = IF @ = "new" THEN "closed" ELSE @]
      BY <1>0, <3>2 DEF Socket
    <3> QED BY <1>13, <3>1, <3>2 DEF ConnectTcp
  <2>3. (\A y \in Relays : rp'[y] = "body" <=> rp[y] = "body") /\ \A y \in Relays : rp[y] = "body" => using'[y] = using[y]
    BY <1>0, <2>1
  <2> QED BY <1>1, <2>1, <2>2, <2>3
<1>14. ASSUME NEW r \in Relays, SayHello(r) \/ Receiving(r) PROVE Goal
  <2>1. /\ rp[r] \in {"hello", "loop"} /\ UNCHANGED <<tcp, need, whole>>
        /\ \E l \in {"loop", "length", "done"} : rp' = [rp EXCEPT ![r] = l]
        /\ \A y \in Relays \ {r} : using'[y] = using[y]
    BY <1>0, <1>14 DEF SayHello, Receiving, GoesTo, Ends, Has
  <2>2. (\A y \in Relays : rp'[y] = "body" <=> rp[y] = "body") /\ \A y \in Relays : rp[y] = "body" => using'[y] = using[y]
    BY <1>0, <2>1
  <2> QED BY <1>1, <2>1, <2>2
<1>15. ASSUME NEW x \in Callers, InGetInstance(x) PROVE Goal
  BY <1>4, <1>5, <1>6, <1>15 DEF InGetInstance
<1> QED BY <1>0, <1>3, <1>4, <1>7, <1>8, <1>9, <1>10, <1>11, <1>12, <1>13, <1>14, <1>15, LengthInStep, BodyInStep DEF TcpAction

-----------------------------------------------------------------------------
\* What the streams say of a body that was not a message's.
LEMMA InStepMeansFrames == RelayInv => FramesInStep
<1> SUFFICES ASSUME RelayInv, NEW r \in Relays, rp[r] = "body", St(r) = "open", r \notin whole
             PROVE  tcp[using[r]].cut
  BY DEF FramesInStep
<1>1. using[r] \in TcpSockets /\ BodyOf(r, using[r]) /\ tcp[using[r]].cut \in BOOLEAN
  BY DEF RelayInv, BodiesConnected, BodyOf, TypeOK, RelayTypeOK
<1>2. ~tcp[using[r]].cut => InMessage(using[r])
  BY <1>1 DEF RelayInv, StreamsInStep, St
<1>3. InMessage(using[r]) => r \in whole
  BY <1>1 DEF InMessage
<1> QED BY <1>1, <1>2, <1>3

\* The process ends only in a collision.
LEMMA TcpDies == RelayInv /\ TcpAction => DiesOnlyInCollisions'
<1> SUFFICES ASSUME RelayInv, TcpAction PROVE DiesOnlyInCollisions'
  OBVIOUS
<1>0. /\ RelayTypeOK /\ tcp \in [TcpSockets -> Socket] /\ dead \in BOOLEAN /\ Relays \subseteq Callers
      /\ DiesOnlyInCollisions /\ ReturnsSomething
  BY DEF RelayInv, TypeOK, RelayTypeOK, Socket, Callers
<1>1. ASSUME ~dead, UNCHANGED dead PROVE DiesOnlyInCollisions'
  BY <1>1 DEF DiesOnlyInCollisions
<1>2. CASE UNCHANGED relay
  BY <1>0, <1>2 DEF DiesOnlyInCollisions, relay, marks
<1>3. ASSUME NEW x \in Callers, InGetInstance(x), ~dead PROVE DiesOnlyInCollisions'
  <2>1. CASE CheckInstance(x) \/ MakeInstance(x)
    BY <1>1, <1>3, <2>1 DEF CheckInstance, MakeInstance
  <2>2. CASE ReturnInstance(x)
    BY <1>0, <2>2 DEF ReturnInstance, ReturnsSomething, DiesOnlyInCollisions, marks
  <2> QED BY <1>3, <2>1, <2>2 DEF InGetInstance
<1>4. CASE ~dead /\ (Asks(Voice) \/ Asks(Screen) \/ StopRelay \/ CloseTcp \/ ForgetTcp \/ Spoken \/ RelayEnds)
  BY <1>1, <1>4 DEF Asks, StopRelay, CloseTcp, ForgetTcp, Spoken, RelayEnds
<1>5. ASSUME ~dead, NEW r \in Relays, StartRelay(r) \/ ConnectTcp(r) \/ SayHello(r) \/ Receiving(r) \/ ReadRelayLength(r)
      PROVE  DiesOnlyInCollisions'
  BY <1>1, <1>5 DEF StartRelay, ConnectTcp, SayHello, Receiving, ReadRelayLength
<1>6. ASSUME ~dead, NEW r \in Relays, ReadRelayBody(r) PROVE DiesOnlyInCollisions'
  <2>1. CASE UNCHANGED dead
    BY <1>1, <1>6, <2>1
  <2>2. CASE dead' # dead
    <3>1. PICK n \in 1..need[r] : TakesParts(r, n, FALSE) /\ (dead' => r \notin whole) /\ St(r) = "open" /\ rp[r] = "body"
      BY <1>6, <2>2 DEF ReadRelayBody, UntilRead
    <3>2. using[r] \in TcpSockets /\ n \in 1..2
      <4>1. need[r] \in 0..2
        BY <1>0 DEF RelayTypeOK
      <4>2. n \in 1..2
        BY <4>1
      <4> QED BY <3>1, <4>2 DEF RelayInv, BodiesConnected
    <3>3. dead' => tcp[using[r]].cut
      BY <3>1, InStepMeansFrames DEF FramesInStep
    <3>4. tcp'[using[r]].cut = (tcp[using[r]].cut \/ FALSE \/ Others(r) # {})
      BY <1>0, <3>1, <3>2, TakingParts
    <3> QED BY <3>2, <3>3, <3>4 DEF DiesOnlyInCollisions
  <2> QED BY <2>1, <2>2
<1> QED BY <1>0, <1>2, <1>3, <1>4, <1>5, <1>6 DEF TcpAction

-----------------------------------------------------------------------------
\* The user and the main thread.
LEMMA StartsOne ==
  ASSUME RelayInv, Begun + 1 \in Relays, StartRelay(Begun + 1)
  PROVE  Begun' = Begun + 1
<1> DEFINE old == {r \in Relays : rp[r] # "none"}
           new == {r \in Relays : rp'[r] # "none"}
<1>1. new = old \cup {Begun + 1} /\ Begun + 1 \notin old
  BY DEF StartRelay, RelayInv, TypeOK, RelayTypeOK
<1>2. IsFiniteSet(old)
  BY StartedCount
<1>3. Begun = Cardinality(old) /\ Begun' = Cardinality(new)
  BY DEF Begun
<1> HIDE DEF old, new
<1>4. Cardinality(old \cup {Begun + 1}) = Cardinality(old) + 1
  BY <1>1, <1>2, FS_AddElement
<1> QED BY <1>1, <1>3, <1>4

\* No other step begins a relay.
LEMMA BeginsOrNot ==
  ASSUME RelayInv, TcpAction
  PROVE  \/ \A r \in Relays : rp'[r] = "none" <=> rp[r] = "none"
         \/ getting[Screen] = "no" /\ main = "connect" /\ StartRelay(Begun + 1) /\ Begun + 1 \in Relays /\ main' = "idle"
<1> DEFINE Keeps == \A r \in Relays : rp'[r] = "none" <=> rp[r] = "none"
<1>0. rp \in [Relays -> {"none", "connect", "hello", "loop", "length", "body", "done"}]
  BY DEF RelayInv, TypeOK, RelayTypeOK
<1>1. CASE UNCHANGED rp
  BY <1>1
<1>2. CASE UNCHANGED relay
  BY <1>1, <1>2 DEF relay, streams
<1>3. ASSUME NEW x \in Callers, InGetInstance(x) PROVE Keeps
  BY <1>1, <1>3 DEF InGetInstance, CheckInstance, MakeInstance, ReturnInstance, streams
<1>4. CASE Asks(Voice) \/ Asks(Screen) \/ StopRelay \/ CloseTcp \/ ForgetTcp \/ Spoken \/ RelayEnds
  BY <1>1, <1>4 DEF Asks, StopRelay, CloseTcp, ForgetTcp, Spoken, RelayEnds, streams
<1>5. ASSUME NEW r \in Relays, ConnectTcp(r) \/ SayHello(r) \/ Receiving(r) \/ ReadRelayLength(r) \/ ReadRelayBody(r)
      PROVE  Keeps
  <2>1. /\ rp[r] \in {"connect", "hello", "loop", "length", "body"}
        /\ rp' = rp \/ \E l \in {"hello", "loop", "length", "body", "done"} : rp' = [rp EXCEPT ![r] = l]
    BY <1>5 DEF ConnectTcp, SayHello, Receiving, ReadRelayLength, ReadRelayBody, GoesTo, GoesRound, Ends, Has
  <2> QED BY <1>0, <2>1
<1> QED BY <1>2, <1>3, <1>4, <1>5 DEF TcpAction, Has

LEMMA SessionTypesKept == RelayInv /\ [Next]_vars => (TypeOK /\ AskedByActs)'
<1> SUFFICES ASSUME RelayInv, [Next]_vars PROVE (TypeOK /\ AskedByActs)'
  OBVIOUS
<1>0. /\ limit' = limit /\ RelayTypeOK' /\ limit.relays \in Nat /\ limit.acts \in Nat /\ limit.packets \in Nat
      /\ Begun \in Nat /\ messages \in Nat /\ asked \in Nat /\ acts \in Nat /\ packets \in Nat
      /\ asked <= acts /\ acts <= limit.acts /\ packets <= limit.packets
      /\ Begun + messages + (IF main = "connect" THEN 1 ELSE 0) <= limit.relays
  BY StepsTcp, TcpTypes, ComingCounts DEF RelayInv, TypeOK, AskedByActs
<1>1. shown \in BOOLEAN /\ playable \in BOOLEAN /\ main \in {"idle", "connect", "stop", "close", "forget"}
  BY DEF RelayInv, TypeOK
<1>2. shown' \in BOOLEAN /\ playable' \in BOOLEAN
  BY <1>1 DEF Next, Play, Leave, Return, Speaks, Respond, Main, HandleAddress, InHandler, Steps, vars, user, looper
<1>3. main' \in {"idle", "connect", "stop", "close", "forget"}
  BY <1>1 DEF Next, Play, Leave, Return, Speaks, Respond, Main, HandleAddress, InHandler, Steps, vars, looper
<1>4. /\ asked' \in Nat /\ acts' \in Nat /\ messages' \in Nat /\ packets' \in Nat
      /\ asked' <= acts' /\ acts' <= limit.acts /\ packets' <= limit.packets
  <2>1. CASE UNCHANGED <<asked, messages, user>>
    BY <1>0, <2>1 DEF user
  <2>2. CASE Play
    BY <1>0, <2>2 DEF Play, Act
  <2>3. CASE Leave
    BY <1>0, <2>3 DEF Leave, Act
  <2>4. CASE Return \/ HandleAddress
    BY <1>0, <2>4 DEF Return, HandleAddress, looper, user
  <2>5. CASE Speaks
    BY <1>0, <2>5 DEF Speaks, looper
  <2>6. CASE Respond
    BY <1>0, <2>6 DEF Respond, user
  <2>7. CASE InHandler
    BY <2>1, <2>7 DEF InHandler
  <2> QED BY <2>1, <2>2, <2>3, <2>4, <2>5, <2>6, <2>7 DEF Next, Main, Steps, vars, looper
<1>5. Coming' <= limit'.relays
  <2>1. Coming' = Begun' + messages' + (IF main' = "connect" THEN 1 ELSE 0) /\ Begun' \in Nat
    BY StartedCount, ConnectingCount DEF Begun, Coming
  <2>2. \/ messages' = messages /\ (main' = "connect" => main = "connect")
        \/ messages' = messages + 1 /\ main' = main /\ Coming < limit.relays
        \/ messages' = messages - 1 /\ main' = "connect" /\ main = "idle"
    <3>1. CASE UNCHANGED <<main, messages>>
      BY <3>1
    <3>2. CASE Play \/ Return \/ Speaks
      BY <3>1, <3>2 DEF Play, Return, Speaks, looper
    <3>3. CASE Leave
      BY <3>3 DEF Leave
    <3>4. CASE Respond
      BY <3>4 DEF Respond
    <3>5. CASE HandleAddress
      BY <3>5 DEF HandleAddress
    <3>6. CASE InHandler
      BY <3>6 DEF InHandler, Has
    <3> QED BY <3>1, <3>2, <3>3, <3>4, <3>5, <3>6 DEF Next, Main, Steps, vars, looper
  <2>3. CASE \A r \in Relays : rp'[r] = "none" <=> rp[r] = "none"
    <3>1. {r \in Relays : rp'[r] # "none"} = {r \in Relays : rp[r] # "none"}
      BY <2>3
    <3>2. Begun' = Begun
      BY <3>1 DEF Begun
    <3>3. Coming = Begun + messages + (IF main = "connect" THEN 1 ELSE 0)
      BY ComingCounts
    <3>4. Begun + messages' + (IF main' = "connect" THEN 1 ELSE 0) <= limit.relays
      BY <1>0, <2>2, <3>3
    <3> QED BY <1>0, <2>1, <3>2, <3>4
  <2>4. CASE main = "connect" /\ StartRelay(Begun + 1) /\ Begun + 1 \in Relays /\ main' = "idle"
    <3>1. Begun' = Begun + 1
      BY <2>4, StartsOne
    <3>2. messages' = messages
      BY <2>2, <2>4
    <3>3. (Begun + 1) + messages + 0 <= limit.relays
      BY <1>0, <2>4
    <3> QED BY <1>0, <2>1, <2>4, <3>1, <3>2, <3>3
  <2> QED BY <2>3, <2>4, StepsTcp, BeginsOrNot
<1>6. {asked', acts'} \subseteq 0..limit'.acts /\ packets' \in 0..limit'.packets
  BY <1>0, <1>4
<1> QED BY <1>0, <1>2, <1>3, <1>4, <1>5, <1>6 DEF TypeOK, AskedByActs

-----------------------------------------------------------------------------
LEMMA UnmadeSocket == [NewTcp EXCEPT !.st = "closed"] \in Socket
<1>1. NewTcp \in Socket
  BY DEF NewTcp, Socket
<1> QED BY <1>1, SocketFields

LEMMA InitRelay == Init => RelayInv
<1> SUFFICES ASSUME Init PROVE RelayInv
  OBVIOUS
<1> USE DEF Init, RelayInit
<1>1. RelayTypeOK
  <2>3. tcp \in [TcpSockets -> Socket]
    BY UnmadeSocket
  <2>4. /\ using \in [Callers -> TcpSockets \cup {NoTcp}] /\ outer \in [Relays -> TcpSockets \cup {NoTcp}]
        /\ getting \in [Callers -> {"no", "check", "make", "return"}] /\ need \in [Relays -> 0..2]
        /\ rp \in [Relays -> {"none", "connect", "hello", "loop", "length", "body", "done"}]
    OBVIOUS
  <2>5. {dead, crossed, doubled} \subseteq BOOLEAN
    OBVIOUS
  <2>6. \A r \in Relays : rp[r] = "none"
    OBVIOUS
  <2> QED BY <2>3, <2>4, <2>5, <2>6 DEF RelayTypeOK, Has, Socket
<1>2. TypeOK
  <2>1. {r \in Relays : rp[r] # "none"} = {} /\ main # "connect" /\ messages = 0
    OBVIOUS
  <2>2. Coming = 0
    <3>1. Cardinality({r \in Relays : rp[r] # "none"}) = 0
      BY <2>1, FS_EmptySet
    <3> QED BY <2>1, <3>1, ComingCounts DEF Begun
  <2> QED BY <1>1, <2>2 DEF TypeOK
<1>3. \A s \in TcpSockets : tcp[s].st = "closed"
  BY DEF NewTcp
<1>4. NewIsUnread /\ BodiesConnected /\ StreamsInStep /\ OneSocket /\ StoppedMeansClosed
  BY <1>3 DEF NewIsUnread, BodiesConnected, StreamsInStep, OneSocket, StoppedMeansClosed
<1>5. AskedByActs /\ GetsBeforeUse /\ ReturnsSomething /\ ScreenHolds /\ ConnectsLate /\ DiesOnlyInCollisions
  BY DEF AskedByActs, GetsBeforeUse, ReturnsSomething, ScreenHolds, ConnectsLate, DiesOnlyInCollisions, Callers
<1> QED BY <1>2, <1>4, <1>5 DEF RelayInv

\* The invariant of a session over TCP: types, who is in getInstance() and what
\* it returns, streams in step, and one socket at a time.
THEOREM RelayInvariant == Spec => []RelayInv
<1>1. RelayInv /\ [Next]_vars => RelayInv'
  BY StepsTcp, SessionTypesKept, TcpGets, ScreenKeeps, TcpSocketIsOne, TcpStreams, TcpDies DEF RelayInv
<1> QED BY InitRelay, <1>1, PTL DEF Spec

\* TcpSocket's receiving threads take for the body of a message only a body,
\* unless read() returned a part of a length or two threads read one connection,
\* and the process ends only if getInstance() returns the null that
\* stopTcpSocket() has just set, or of such a connection.
THEOREM RelayIsSafe == Spec => []RelaySafe
<1>1. RelayInv => RelaySafe
  BY InStepMeansFrames DEF RelayInv, RelaySafe
<1> QED BY RelayInvariant, <1>1, PTL

\* stopTcpSocket() leaves no connection open but one that was connected by a
\* thread started or still connecting after it, unless two threads of
\* getInstance() have made a socket at once.
THEOREM StopClosesConnections == Spec => []StoppedMeansClosed
<1>1. RelayInv => StoppedMeansClosed
  BY DEF RelayInv
<1> QED BY RelayInvariant, <1>1, PTL
=============================================================================
