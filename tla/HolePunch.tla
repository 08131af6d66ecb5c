----------------------------- MODULE HolePunch ------------------------------
(***************************************************************************)
(* How a UdpSocket reaches a camera: a SendP2PThread per session joins the *)
(* data channel at the relay and sends '1' to the camera's addresses; the  *)
(* UdpThread answers a '1' of the camera with a '1', two times of three.   *)
(* All of them send through the one field dpSend.  They find the channel   *)
(* and the relay in fields that the next setCamIpInfo() overwrites, and    *)
(* the NAT port in CameraListInfo.currentCam, which a scan overwrites and  *)
(* an activity replaces.                                                   *)
(*                                                                         *)
(* A session is the number of its setCamIpInfo(), and stands for the       *)
(* channel, the relay's address and the camera's that this call is given.  *)
(* A packet is where it goes, who made it and, for a request to join, what *)
(* it asks.  The camera is external: it answers what reaches it with a     *)
(* '1', and the network loses what it likes.                               *)
(***************************************************************************)
EXTENDS Naturals, FiniteSets

CONSTANTS
  Sessions,     \* 1..n, calls of setCamIpInfo()
  Receiver,     \* the UdpThread
  Guess,        \* a port that a scan tries
  Limits        \* bounds to choose from; among them
                \*   punching: whether the threads get to run
                \*   cameras: objects of cameras, numbered from the first chosen
                \*   scans, directs: rounds of a scan, and of direct punching
                \*   ones: '1's of the camera on their way at a time
                \*   cameraOnes: '1's that the camera sends by itself
                \* and, for VideoSession, sessions, acts of the user, decoders,
                \* rounds of a timer, silence, messages in the queue, and answers

ASSUME PunchAssumption ==
  /\ Sessions \subseteq Nat \ {0} /\ Receiver \notin Sessions /\ Guess \notin Nat
  /\ \A l \in Limits : /\ l.punching \in BOOLEAN /\ l.cameras \in Nat \ {0} /\ l.scans \in Nat /\ l.directs \in Nat
                        /\ l.ones \in Nat /\ l.cameraOnes \in Nat

VARIABLES
  limit,                \* the bounds chosen
  currentCam, natPort,  \* CameraListInfo.currentCam; getNatPort() of each camera
  channelId, camMcuIp, camMcuPort,    \* of the UdpSocket: the session that set each
  isP2pSuccess, senNo1Tiem, dpSend,   \* of the UdpSocket
  at, round, asks,      \* of each SendP2PThread: where it is, rounds done, what it
                        \* has read of the request to join
  answering,            \* where the UdpThread is in its answer
  ones, cameraSent,     \* '1's on their way to the client; those the camera began with
  announced,            \* the camera and NAT port the server announced for each session
  joined, overwritten, overtaken, disturbed
                        \* history: sessions whose request to join was sent; threads
                        \* whose packet another replaced before it was sent; threads
                        \* for which a later setCamIpInfo() changed what they had to
                        \* ask before they read it; and whose camera or port changed

aim == <<currentCam, natPort, announced, disturbed>>
relay == <<channelId, camMcuIp, camMcuPort, overtaken>>
answers == <<isP2pSuccess, senNo1Tiem, answering, ones, cameraSent>>
sending == <<dpSend, overwritten>>
punchers == <<aim, relay, at, round, asks, joined>>
punch == <<punchers, answers, sending>>

Cameras == 1..limit.cameras
AskFor(s) == [ip |-> s, port |-> s, channel |-> s]
NoPacket == [to |-> "nobody", by |-> Receiver, ask |-> AskFor(0)]
Punching(s) == at[s] \notin {"none", "done"}
Goto(s, l) == at' = [at EXCEPT ![s] = l]

PunchInit ==
  /\ limit \in Limits /\ currentCam = 1 /\ natPort = [c \in Cameras |-> 0]
  /\ channelId = 0 /\ camMcuIp = 0 /\ camMcuPort = 0
  /\ isP2pSuccess = FALSE /\ senNo1Tiem = 0 /\ dpSend = NoPacket
  /\ at = [s \in Sessions |-> "none"] /\ round = [s \in Sessions |-> 0] /\ asks = [s \in Sessions |-> AskFor(0)]
  /\ answering = "no" /\ ones = 0 /\ cameraSent = 0
  /\ announced = [s \in Sessions |-> [cam |-> 1, port |-> 0]]
  /\ joined = {} /\ overwritten = {} /\ overtaken = {} /\ disturbed = {}

-----------------------------------------------------------------------------
\* dpSend = new DatagramPacket(...), of thread x.
About == {s \in Sessions : at[s] \in {"sendJoin", "sendLocal", "sendNat", "sendScanLocal", "sendScanNat"}} \cup
         {r \in {Receiver} : answering = "send"}
Make(x, to, ask) == /\ dpSend' = [to |-> to, by |-> x, ask |-> ask]
                    /\ overwritten' = overwritten \cup (About \ {x})
\* dsSend.send(dpSend): whatever is there now.  It may reach the camera.
Reaches == ones' \in {ones} \cup {n \in {ones + 1} : n <= limit.ones}
Send == IF dpSend.to = "relay" THEN joined' = joined \cup {c \in Sessions : dpSend.ask = AskFor(c)} /\ UNCHANGED ones
        ELSE Reaches /\ UNCHANGED joined

\* setCamIpInfo() sets the channel and the relay's address, which the threads
\* of earlier sessions read when they get to run.
Overtakes(places) == overtaken' = overtaken \cup {r \in Sessions : at[r] \in places}
SetChannel(s) == /\ channelId' = s /\ Overtakes({"new", "join", "port", "channel"})
                 /\ UNCHANGED <<aim, camMcuIp, camMcuPort, at, round, asks, joined, answers, sending>>
SetMcuIp(s) == /\ camMcuIp' = s /\ Overtakes({"new", "join"})
               /\ UNCHANGED <<aim, channelId, camMcuPort, at, round, asks, joined, answers, sending>>
SetMcuPort(s) == /\ camMcuPort' = s /\ Overtakes({"new", "join", "port"})
                 /\ UNCHANGED <<aim, channelId, camMcuIp, at, round, asks, joined, answers, sending>>
\* The NAT port announced, 0 for a symmetric NAT.
Ports(s) == {s} \cup {p \in {0} : limit.scans > 0}
\* It gives the current camera its addresses, and starts the thread.
Announce(s) ==
  /\ at[s] = "none" /\ Goto(s, "new")
  /\ \E port \in Ports(s) :
       /\ natPort' = [natPort EXCEPT ![currentCam] = port]
       /\ announced' = [announced EXCEPT ![s] = [cam |-> currentCam, port |-> port]]
  /\ disturbed' = disturbed \cup {r \in Sessions : Punching(r)}
  /\ UNCHANGED <<currentCam, relay, round, asks, joined, answers, sending>>
StartPunching(s) == at[s] = "new" /\ Goto(s, "join") /\ UNCHANGED <<aim, relay, round, asks, joined, answers, sending>>
\* setCurrentCam(): an activity that starts chooses a camera, old or new.
ChooseCamera == /\ currentCam' \in Cameras
                /\ disturbed' = disturbed \cup {r \in Sessions : currentCam' # currentCam /\ Punching(r)}
                /\ UNCHANGED <<natPort, announced, relay, at, round, asks, joined, answers, sending>>

-----------------------------------------------------------------------------
\* SendP2PThread of session s: it reads where to join and what,
Reads(s, field, x, next) == /\ asks' = [asks EXCEPT ![s][field] = x] /\ Goto(s, next)
                            /\ UNCHANGED <<aim, relay, round, joined, answers, sending>>
ReadIp(s) == at[s] = "join" /\ Reads(s, "ip", camMcuIp, "port")
ReadPort(s) == at[s] = "port" /\ Reads(s, "port", camMcuPort, "channel")
ReadChannel(s) == at[s] = "channel" /\ Reads(s, "channel", channelId, "make")
JoinUnlessReached(s) ==
  /\ at[s] = "make" /\ asks' = [asks EXCEPT ![s] = AskFor(0)]
  /\ IF isP2pSuccess THEN Goto(s, "choose") /\ UNCHANGED sending
     ELSE Make(s, "relay", asks[s]) /\ Goto(s, "sendJoin")
  /\ UNCHANGED <<aim, relay, round, joined, answers>>
\* asks to join,
MakeJoin(s) == /\ at[s] = "make" /\ Make(s, "relay", asks[s]) /\ Goto(s, "sendJoin")
               /\ asks' = [asks EXCEPT ![s] = AskFor(0)] /\ UNCHANGED <<aim, relay, round, joined, answers>>
SendJoin(s) == /\ at[s] = "sendJoin" /\ Send /\ Goto(s, "choose")
               /\ UNCHANGED <<aim, relay, round, asks, isP2pSuccess, senNo1Tiem, answering, cameraSent, sending>>
\* scans the ports of a symmetric NAT, or sends to the port announced.
Choose(s) == /\ at[s] = "choose" /\ Goto(s, IF natPort[currentCam] = 0 THEN "scanLocal" ELSE "local")
             /\ UNCHANGED <<aim, relay, round, asks, joined, answers, sending>>
MakeLocal(s) == /\ at[s] \in {"local", "scanLocal"} /\ Make(s, "camera", AskFor(0))
                /\ Goto(s, IF at[s] = "local" THEN "sendLocal" ELSE "sendScanLocal")
                /\ UNCHANGED <<aim, relay, round, asks, joined, answers>>
SendLocal(s) == /\ at[s] \in {"sendLocal", "sendScanLocal"} /\ Send
                /\ Goto(s, IF at[s] = "sendLocal" THEN "nat" ELSE "guess")
                /\ UNCHANGED <<aim, relay, round, asks, isP2pSuccess, senNo1Tiem, answering, cameraSent, sending>>
\* A round of a scan: its two guesses are one here.
SetGuess(s) ==
  /\ at[s] = "guess"
  /\ IF isP2pSuccess \/ round[s] >= limit.scans
     THEN Goto(s, "done") /\ UNCHANGED <<natPort, disturbed>>
     ELSE /\ natPort' = [natPort EXCEPT ![currentCam] = Guess] /\ Goto(s, "scanNat")
          /\ disturbed' = disturbed \cup {r \in Sessions \ {s} : Punching(r)}
  /\ UNCHANGED <<currentCam, announced, relay, round, asks, joined, answers, sending>>
MakeNat(s) == /\ at[s] \in {"nat", "scanNat"} /\ Make(s, "camera", AskFor(0))
              /\ Goto(s, IF at[s] = "nat" THEN "sendNat" ELSE "sendScanNat")
              /\ UNCHANGED <<aim, relay, round, asks, joined, answers>>
SendNat(s) == /\ at[s] \in {"sendNat", "sendScanNat"} /\ Send
              /\ Goto(s, IF at[s] = "sendNat" THEN "sleep" ELSE "guess")
              /\ round' = [round EXCEPT ![s] = @ + 1]
              /\ UNCHANGED <<aim, relay, asks, isP2pSuccess, senNo1Tiem, answering, cameraSent, sending>>
Sleep(s) == /\ at[s] = "sleep" /\ Goto(s, IF isP2pSuccess \/ round[s] >= limit.directs THEN "done" ELSE "local")
            /\ UNCHANGED <<aim, relay, round, asks, joined, answers, sending>>

-----------------------------------------------------------------------------
AnswerEach == /\ senNo1Tiem' = 0 /\ isP2pSuccess' = TRUE /\ answering' = "make"
\* The UdpThread gets a '1': every third is not answered.
Answer == IF senNo1Tiem + 1 >= 3
          THEN senNo1Tiem' = 0 /\ UNCHANGED <<isP2pSuccess, answering>>
          ELSE senNo1Tiem' = senNo1Tiem + 1 /\ isP2pSuccess' = TRUE /\ answering' = "make"
ReceiveOne == /\ answering = "no" /\ ones > 0 /\ ones' = ones - 1 /\ Answer
              /\ UNCHANGED <<punchers, sending, cameraSent>>
MakeAnswer == /\ answering = "make" /\ Make(Receiver, "camera", AskFor(0)) /\ answering' = "send"
              /\ UNCHANGED <<punchers, isP2pSuccess, senNo1Tiem, ones, cameraSent>>
SendAnswer == /\ answering = "send" /\ Send /\ answering' = "no"
              /\ UNCHANGED <<aim, relay, at, round, asks, isP2pSuccess, senNo1Tiem, cameraSent, sending>>
\* A camera punches from its side.
CameraSends == /\ cameraSent < limit.cameraOnes /\ ones < limit.ones
               /\ cameraSent' = cameraSent + 1 /\ ones' = ones + 1
               /\ UNCHANGED <<punchers, sending, isP2pSuccess, senNo1Tiem, answering>>

PunchStep(s) ==
  limit.punching /\ (ReadIp(s) \/ ReadPort(s) \/ ReadChannel(s) \/ MakeJoin(s) \/ SendJoin(s) \/ Choose(s) \/ MakeLocal(s)
                     \/ SendLocal(s) \/ SetGuess(s) \/ MakeNat(s) \/ SendNat(s) \/ Sleep(s))
ReceiverStep == ReceiveOne \/ MakeAnswer \/ SendAnswer

-----------------------------------------------------------------------------
Scanning == {"scanLocal", "sendScanLocal", "guess", "scanNat", "sendScanNat"}
Direct == {"local", "sendLocal", "nat", "sendNat", "sleep"}
Places == {"none", "new", "join", "port", "channel", "make", "sendJoin", "choose", "done"} \cup Scanning \cup Direct

Requests == LET x == Sessions \cup {0} IN [ip : x, port : x, channel : x]
PunchTypeOK ==
  /\ currentCam \in Cameras /\ natPort \in [Cameras -> Sessions \cup {0, Guess}]
  /\ {channelId, camMcuIp, camMcuPort} \subseteq Sessions \cup {0} /\ asks \in [Sessions -> Requests]
  /\ isP2pSuccess \in BOOLEAN /\ senNo1Tiem \in 0..2
  /\ dpSend \in [to : {"nobody", "relay", "camera"}, by : Sessions \cup {Receiver}, ask : Requests]
  /\ at \in [Sessions -> Places]
  /\ round \in [Sessions -> Nat] /\ answering \in {"no", "make", "send"}
  /\ ones \in 0..limit.ones /\ cameraSent \in 0..limit.cameraOnes
  /\ announced \in [Sessions -> [cam : Cameras, port : Sessions \cup {0}]]
  /\ joined \subseteq Sessions /\ overwritten \subseteq Sessions \cup {Receiver}
  /\ overtaken \subseteq Sessions /\ disturbed \subseteq Sessions

\* A session's request to join its channel at its relay is on the wire before the
\* punching, unless another thread has put its packet into dpSend in between, or
\* a later setCamIpInfo() came before the thread had read what to ask.
JoinsItsChannel == \A s \in Sessions :
  at[s] \in Scanning \cup Direct \cup {"choose", "done"} => s \in joined \cup overwritten \cup overtaken

\* A thread punches the camera announced for its session: it scans only if that
\* is behind a symmetric NAT, and otherwise sends to the port announced, unless
\* another session, a scan or an activity has changed the camera or its port.
PunchesItsCamera == \A s \in Sessions \ disturbed :
  /\ at[s] \in Scanning \cup Direct => currentCam = announced[s].cam
  /\ at[s] \in Scanning => announced[s].port = 0
  /\ at[s] \in Direct => natPort[currentCam] = announced[s].port /\ announced[s].port # 0

\* Client and camera do not answer each other for ever.
EchoDies == <>[](ones = 0 /\ answering = "no")
=============================================================================
