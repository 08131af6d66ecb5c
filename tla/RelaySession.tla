---------------------------- MODULE RelaySession ----------------------------
(***************************************************************************)
(* A live view over TCP: the user, who plays and leaves, and the main      *)
(* thread, which handles the server's answers, late ones too, with         *)
(* connect() and a stop with stopTcpSocket(), while the threads of         *)
(* TcpRelay run.  No watchdog looks after such a session, and of the       *)
(* server's refusals nothing reaches the screen.                           *)
(***************************************************************************)
EXTENDS TcpRelay

CONSTANT Limits    \* bounds to choose from: acts of the user, connections, packets of voice

ASSUME LimitsAssumption == \A l \in Limits :
  l.acts \in Nat /\ l.relays \in Nat /\ 1..l.relays \subseteq Relays /\ l.packets \in Nat

VARIABLES
  limit,             \* the bounds chosen
  shown, playable,   \* the live view is shown; its play button listens
  main,              \* where the main thread is in a handler
  asked, messages,   \* requests not answered; answers in the main thread's queue
  acts, packets      \* what the user did; packets of voice

looper == <<main, asked, messages>>
user == <<shown, playable, acts, packets>>
vars == <<relay, limit, looper, user>>

Init ==
  /\ RelayInit /\ limit \in Limits
  /\ shown = TRUE /\ playable = TRUE /\ main = "idle"
  /\ asked = 0 /\ messages = 0 /\ acts = 0 /\ packets = 0

Begun == Cardinality({r \in Relays : rp[r] # "none"})
Coming == Begun + messages + Cardinality({h \in {main} : h = "connect"})
Act == main = "idle" /\ acts < limit.acts /\ acts' = acts + 1

\* initCam(): watchCameraTcp().
Play == /\ Act /\ shown /\ playable /\ playable' = FALSE /\ asked' = asked + 1
        /\ UNCHANGED <<relay, limit, main, messages, shown, packets>>
\* Another tab is chosen: initStopCam().
Leave == /\ Act /\ shown /\ shown' = FALSE /\ main' = "stop" /\ Gets(Screen)
         /\ UNCHANGED <<instance, tcp, using, outer, streams, dead, marks, limit, asked, messages, playable, packets>>
Return == /\ main = "idle" /\ ~shown /\ shown' = TRUE /\ playable' = TRUE
          /\ UNCHANGED <<relay, limit, looper, acts, packets>>
Speaks == /\ shown /\ packets < limit.packets /\ packets' = packets + 1 /\ Speak
          /\ UNCHANGED <<limit, looper, shown, playable, acts>>

\* The server answers; DoCmdThread passes on the address and drops a refusal.
Respond == /\ asked > 0 /\ asked' = asked - 1
           /\ messages' \in {messages} \cup {n \in {messages + 1} : Coming < limit.relays}
           /\ UNCHANGED <<relay, limit, main, user>>
HandleAddress == /\ main = "idle" /\ messages > 0 /\ messages' = messages - 1
                 /\ main' = "connect" /\ Gets(Screen)
                 /\ UNCHANGED <<instance, tcp, using, outer, streams, dead, marks, limit, asked, user>>
\* connect() and stopTcpSocket(), which begin with getInstance().
InHandler ==
  /\ \/ main \in {"connect", "stop"} /\ InGetInstance(Screen) /\ UNCHANGED main
     \/ Has(Screen, main = "connect") /\ StartRelay(Begun + 1) /\ main' = "idle"
     \/ Has(Screen, main = "stop") /\ StopRelay /\ main' = "close"
     \/ main = "close" /\ CloseTcp /\ main' = "forget"
     \/ main = "forget" /\ ForgetTcp /\ main' = "idle"
  /\ UNCHANGED <<limit, asked, messages, user>>

Steps(A) == A /\ UNCHANGED <<limit, looper, user>>
Main == HandleAddress \/ InHandler
Next == ~dead /\ \/ Play \/ Leave \/ Return \/ Speaks \/ Respond \/ Main
                 \/ Steps(RelayEnds) \/ Steps(VoiceStep) \/ \E r \in Relays : Steps(RelayStep(r))
Spec == Init /\ [][Next]_vars
\* Every thread runs, and a relay sends for as long as its connection is open.
LiveSpec == /\ Spec /\ WF_vars(~dead /\ Main) /\ WF_vars(~dead /\ Steps(VoiceStep))
            /\ \A r \in Relays : WF_vars(~dead /\ Steps(RelayStep(r)))

-----------------------------------------------------------------------------
TypeOK ==
  /\ RelayTypeOK /\ shown \in BOOLEAN /\ playable \in BOOLEAN
  /\ main \in {"idle", "connect", "stop", "close", "forget"}
  /\ Coming <= limit.relays /\ {asked, acts} \subseteq 0..limit.acts
  /\ packets \in 0..limit.packets

\* Types, receivers in step, and a process that dies of nothing else.
RelaySafe == TypeOK /\ FramesInStep /\ DiesOnlyInCollisions

\* What initStopCam() leaves open was connected since, by a thread that was
\* started or had still to connect after it, unless two threads have made
\* a socket at once.
StoppedMeansClosed == \A s \in TcpSockets :
  tcp[s].st = "open" => tcp[s].by \in late \/ doubled

\* The thread of a connection that was stopped ends, under the same condition:
\* it does not read on for ever from the next connection.
StoppedRelaysEnd == \A r \in Relays :
  rp[r] # "none" /\ r \notin late ~> rp[r] = "done" \/ dead \/ doubled
=============================================================================
