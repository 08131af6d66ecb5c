----------------------------- MODULE HeartBeat ------------------------------
(***************************************************************************)
(* HeartBeatThread: every ten seconds it sends a heartbeat, reports the    *)
(* connection if AppServer.heartCount is above 1, and counts one more.     *)
(* ReceiveThread sets the count back to 0 on an answer, in between if it   *)
(* so happens: counting is a read and a write.                             *)
(***************************************************************************)
EXTENDS MainSocket

CONSTANT MaxCount    \* bound: heartCount and unanswered stay at it; above 1

VARIABLES
  beater, counted,   \* where the HeartBeatThread is; the count it has read
  heartCount,        \* AppServer.heartCount
  unanswered,        \* history: heartbeats sent since the last answer was handled
  unreset            \* history: an answer was handled while the count was being raised

beating == <<beater, counted, heartCount, unanswered, unreset>>

More(n) == IF n < MaxCount THEN n + 1 ELSE n

BeatInit == /\ beater = "none" /\ counted = 0 /\ heartCount = 0
            /\ unanswered = 0 /\ unreset = FALSE

\* getInstance().start()
StartBeating == /\ beater' = "loop"
                /\ UNCHANGED <<counted, heartCount, unanswered, unreset>>

\* An answer to a heartbeat, and leaving.
ResetCount == /\ heartCount' = 0 /\ unanswered' = 0
              /\ unreset' = (unreset \/ beater = "put")
              /\ UNCHANGED <<beater, counted>>

BeatAt(from, to) == beater = from /\ beater' = to

\* while (!stop) send: through whatever socket the field holds.
Beat(stop) ==
  /\ BeatAt("loop", IF stop THEN "ended" ELSE "test")
  /\ IF stop THEN UNCHANGED <<mMainSocket, sock, unanswered>>
             ELSE Send("beat") /\ unanswered' = More(unanswered)
  /\ UNCHANGED <<counted, heartCount, unreset, held, up>>
MissingOne == heartCount > 0
\* if (heartCount > 1) report.  heartCount++ reads the count again (at once, here),
\* writes it, and the thread sleeps.
Missing == heartCount > 1
TestCount == /\ BeatAt("test", "put") /\ counted' = heartCount
             /\ UNCHANGED <<heartCount, unanswered, unreset, sockets>>
PutUnraised == /\ BeatAt("put", "loop")
               /\ heartCount' = counted /\ counted' = 0
               /\ UNCHANGED <<unanswered, unreset, sockets>>
PutCount == /\ BeatAt("put", "loop")
            /\ heartCount' = More(counted) /\ counted' = 0
            /\ UNCHANGED <<unanswered, unreset, sockets>>

BeatTypeOK == /\ beater \in {"none", "loop", "test", "put", "ended"}
              /\ {counted, heartCount, unanswered} \subseteq 0..MaxCount /\ unreset \in BOOLEAN
=============================================================================
