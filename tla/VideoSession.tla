---------------------------- MODULE VideoSession ----------------------------
(***************************************************************************)
(* A live view over UDP: the user who plays, leaves and retries, the main  *)
(* thread that handles the messages, setCamIpInfo() with a watchdog timer  *)
(* and a hole-punching thread per call, listenVideo() on the timers, and   *)
(* the UdpThread whose every packet resets the watchdog's count.           *)
(*                                                                         *)
(* A timer is the number of its setCamIpInfo().  Cancelling it lets a task *)
(* that runs go on.  Requests to watch are answered late, or never.        *)
(***************************************************************************)
EXTENDS HolePunch, Sequences

ASSUME SessionAssumption == \A l \in Limits :
  /\ l.sessions \in Nat /\ 1..l.sessions \subseteq Sessions
  /\ l.rounds \in Nat /\ l.silence \in Nat
  /\ l.answers \subseteq {"watch", "full", "denied", "offline"}

VARIABLES
  tab, playable, builder,      \* the tab shown; the play button listens; the dialog open
  isDisplayVideo, decoders,    \* static flag of AppServer; decoding threads started
  main, messages,              \* where the main thread is in setCamIpInfo(); its queue
  asked, acts,                 \* requests not answered; what the user did
  starts, timer, ticking,      \* calls of setCamIpInfo(); the static timer; timers not cancelled
  task, local,                 \* of each timer: where its listenVideo() is, what it has read
  rate, noVideoInt, isNoVideoListen,
  silence,              \* history: rounds counted since the last packet or start
  inflated, abandoned, overlapped   \* history: a reset of the count was lost; timers
                        \* replaced and not cancelled; two tasks ran at once

screen == <<tab, playable, builder, isDisplayVideo, decoders>>
looper == <<main, messages, asked, acts>>
timers == <<starts, timer, ticking, abandoned>>
tasks == <<task, local, rate, overlapped>>
counts == <<noVideoInt, silence, inflated>>
vars == <<limit, punch, screen, looper, timers, tasks, counts, isNoVideoListen>>

Capped(n, most) == IF n > most THEN most ELSE n
Running == {s \in Sessions : task[s] # "idle"}
KeepCount == /\ silence' = 0 /\ UNCHANGED noVideoInt
             /\ inflated' = \E s \in Sessions : task[s] = "store"
\* noVideoInt = 0, which a task that has read the count before undoes.
ResetCount == /\ noVideoInt' = 0 /\ silence' = 0
              /\ inflated' = \E s \in Sessions : task[s] = "store"

Init ==
  /\ PunchInit
  /\ tab = "cam" /\ playable = TRUE /\ builder = "none" /\ isDisplayVideo = FALSE /\ decoders = 0
  /\ main = "idle" /\ messages = <<>> /\ asked = 0 /\ acts = 0
  /\ starts = 0 /\ timer = 0 /\ ticking = {} /\ abandoned = {}
  /\ task = [s \in Sessions |-> "idle"] /\ local = [s \in Sessions |-> 0]
  /\ rate = 0 /\ noVideoInt = 0 /\ isNoVideoListen = FALSE
  /\ silence = 0 /\ inflated = FALSE /\ overlapped = FALSE

-----------------------------------------------------------------------------
\* The user.  A dialog is modal.
Act == acts < limit.acts /\ acts' = acts + 1
Ready == main = "idle"

\* UdpSocket.stopCam() and closeTimer().
StopTimer == ticking' = ticking \ {timer}
StopUdp == /\ isNoVideoListen' = FALSE /\ StopTimer /\ timer' = 0
           /\ UNCHANGED <<starts, abandoned>>
InitStopCam == StopUdp /\ isDisplayVideo' = FALSE
\* initCam(): the server is asked for the camera.
InitCam == asked' = asked + 1 /\ playable' = FALSE

Play == /\ Ready /\ Act /\ tab = "cam" /\ playable /\ builder = "none" /\ InitCam
        /\ UNCHANGED <<limit, punch, tab, builder, isDisplayVideo, decoders, main, messages, timers, tasks, counts, isNoVideoListen>>
Leave == /\ Ready /\ Act /\ tab = "cam" /\ builder = "none" /\ tab' = "other" /\ InitStopCam
         /\ UNCHANGED <<limit, punch, playable, builder, decoders, main, messages, asked, tasks, counts>>
Return == /\ Ready /\ tab = "other" /\ builder = "none" /\ tab' = "cam"
          /\ playable' = TRUE /\ isDisplayVideo' = TRUE
          /\ UNCHANGED <<limit, punch, builder, decoders, looper, timers, tasks, counts, isNoVideoListen>>
Retry == /\ Ready /\ Act /\ builder = "retry" /\ builder' = "none" /\ InitCam
         /\ UNCHANGED <<limit, punch, tab, isDisplayVideo, decoders, main, messages, timers, tasks, counts, isNoVideoListen>>
\* finish() leaves the activity, which stops all; it comes back for a camera
\* of the user's choice, with a view that can play.
Reopen == /\ builder' = "none" /\ tab' = "cam" /\ playable' = TRUE /\ InitStopCam /\ ChooseCamera
          /\ UNCHANGED <<limit, decoders, main, messages, asked, tasks, counts>>
\* The other button of either dialog, or the back key.
Exit == Ready /\ builder # "none" /\ Reopen /\ UNCHANGED acts
Back == Ready /\ Act /\ builder = "none" /\ Reopen
\* A decoding thread of VideoSurfaceView starts.
DecoderStarts == /\ decoders < limit.decoders /\ decoders' = decoders + 1 /\ isDisplayVideo' = TRUE
                 /\ UNCHANGED <<limit, punch, tab, playable, builder, looper, timers, tasks, counts, isNoVideoListen>>

-----------------------------------------------------------------------------
\* The server's answer, through DoCmdThread: the camera's addresses, too many
\* viewers, or a wrong password.
Respond == /\ asked > 0 /\ asked' = asked - 1
           /\ \E answer \in limit.answers \ {"offline"} :
                /\ answer = "watch" => starts + Cardinality({i \in DOMAIN messages : messages[i] = "watch"}) < limit.sessions
                /\ messages' = Append(messages, answer)
           /\ UNCHANGED <<limit, punch, screen, main, acts, timers, tasks, counts, isNoVideoListen>>
\* The camera goes off line.
GoesOffLine == /\ Act /\ "offline" \in limit.answers /\ messages' = Append(messages, "offline")
               /\ UNCHANGED <<limit, punch, screen, main, asked, timers, tasks, counts, isNoVideoListen>>

Take(what) == Ready /\ messages # <<>> /\ Head(messages) \in what /\ messages' = Tail(messages)
\* ShowRetryDialog() and showCamMaxDialog().
Opens(dialog) == IF builder # "none" THEN UNCHANGED <<builder, isDisplayVideo, timers, isNoVideoListen>>
                 ELSE builder' = dialog /\ InitStopCam
HandleNoVideo == /\ Take({"noVideo"}) /\ Opens("retry")
                 /\ UNCHANGED <<limit, punch, tab, playable, decoders, main, asked, acts, tasks, counts>>
HandleFull == /\ Take({"full"}) /\ Opens("max")
              /\ UNCHANGED <<limit, punch, tab, playable, decoders, main, asked, acts, tasks, counts>>
HandleStop == /\ Take({"denied", "offline"}) /\ InitStopCam
              /\ UNCHANGED <<limit, punch, tab, playable, builder, decoders, main, asked, acts, tasks, counts>>

\* setCamIpInfo(), on the main thread: the timer runs at once, and the timer
\* before it is not cancelled.
HandleWatch == /\ Take({"watch"})
               /\ starts' = starts + 1 /\ timer' = starts' /\ ticking' = ticking \cup {starts'}
               /\ abandoned' = abandoned \cup (ticking \cap {timer})
               /\ main' = "listen" /\ silence' = 0
               /\ UNCHANGED <<limit, punch, screen, asked, acts, tasks, noVideoInt, inflated, isNoVideoListen>>
Listen == /\ main = "listen" /\ main' = "reset" /\ isNoVideoListen' = TRUE
          /\ UNCHANGED <<limit, punch, screen, messages, asked, acts, timers, tasks, counts>>
ResetWatchdog == /\ main = "reset" /\ main' = "channel" /\ ResetCount
                 /\ UNCHANGED <<limit, punch, screen, messages, asked, acts, timers, tasks, isNoVideoListen>>
SetAddresses == /\ \/ main = "channel" /\ main' = "ip" /\ SetChannel(starts)
                   \/ main = "ip" /\ main' = "port" /\ SetMcuIp(starts)
                   \/ main = "port" /\ main' = "announce" /\ SetMcuPort(starts)
                   \/ main = "announce" /\ main' = "punch" /\ Announce(starts)
                /\ UNCHANGED <<limit, screen, messages, asked, acts, timers, tasks, counts, isNoVideoListen>>
Punch == /\ main = "punch" /\ main' = "idle" /\ StartPunching(starts)
         /\ UNCHANGED <<limit, screen, messages, asked, acts, timers, tasks, counts, isNoVideoListen>>

-----------------------------------------------------------------------------
\* listenVideo() on the thread of timer s, one action per access of a field.
\* rate++,
Becomes(s, l) == /\ task' = [task EXCEPT ![s] = l]
                 /\ overlapped' = (overlapped \/ (l # "idle" /\ Running \ {s} # {}))
Holds(s, x) == local' = [local EXCEPT ![s] = x]
Used(s) == local' = [local EXCEPT ![s] = 0]
Rest(what) == UNCHANGED <<limit, punch, screen, looper, timers, isNoVideoListen, what>>

Tick(s) == /\ task[s] = "idle" /\ s \in ticking /\ limit.rounds > 0 /\ Becomes(s, "rated") /\ Holds(s, rate)
           /\ Rest(<<rate, counts>>)
StoreRate(s) == /\ task[s] = "rated" /\ rate' = Capped(local[s] + 1, limit.rounds + 1)
                /\ Becomes(s, "test") /\ Used(s) /\ Rest(counts)
\* if (rate == 10) rate = 0,
TestRate(s) == /\ task[s] = "test" /\ Becomes(s, IF rate = limit.rounds THEN "clear" ELSE "idle")
               /\ Rest(<<local, rate, counts>>)
KeepRate(s) == /\ task[s] = "clear" /\ Becomes(s, "count") /\ Rest(<<local, rate, counts>>)
ClearRate(s) == /\ task[s] = "clear" /\ rate' = 0 /\ Becomes(s, "count")
                /\ Rest(<<local, counts>>)
\* noVideoInt++,
ReadCount(s) == /\ task[s] = "count" /\ Becomes(s, "store") /\ Holds(s, noVideoInt)
                /\ Rest(<<rate, counts>>)
StoreCount(s) == /\ task[s] = "store" /\ Becomes(s, "check")
                 /\ noVideoInt' = Capped(local[s] + 1, limit.silence + 1)
                 /\ silence' = Capped(silence + 1, limit.silence + 1)
                 /\ Used(s) /\ Rest(<<rate, inflated>>)
\* if (noVideoInt > 30 && isNoVideoListen),
CheckCount(s) == /\ task[s] = "check" /\ Becomes(s, IF noVideoInt > limit.silence THEN "ask" ELSE "idle")
                 /\ Rest(<<local, rate, counts>>)
CheckListens(s) == /\ task[s] = "ask" /\ Becomes(s, IF isNoVideoListen THEN "report" ELSE "idle")
                   /\ Rest(<<local, rate, counts>>)
\* noVideoListener().
Report(s) == /\ task[s] = "report" /\ Becomes(s, "idle") /\ Len(messages) < limit.messages
             /\ messages' = IF isDisplayVideo THEN Append(messages, "noVideo") ELSE messages
             /\ UNCHANGED <<limit, punch, screen, main, asked, acts, timers, local, rate, counts, isNoVideoListen>>
TimerStep(s) == Tick(s) \/ StoreRate(s) \/ TestRate(s) \/ ClearRate(s) \/ ReadCount(s) \/ StoreCount(s)
                \/ CheckCount(s) \/ CheckListens(s) \/ Report(s)

-----------------------------------------------------------------------------
\* The UdpThread: whatever comes resets the count, an exception of receive() too.
Packet == /\ answering = "no" /\ starts > 0 /\ ResetCount
          /\ UNCHANGED <<limit, punch, screen, looper, timers, tasks, isNoVideoListen>>
One == /\ ReceiveOne /\ ResetCount
       /\ UNCHANGED <<limit, screen, looper, timers, tasks, isNoVideoListen>>
PunchNext == /\ MakeAnswer \/ SendAnswer \/ CameraSends \/ \E s \in Sessions : PunchStep(s)
             /\ UNCHANGED <<limit, screen, looper, timers, tasks, counts, isNoVideoListen>>

User == Play \/ Leave \/ Return \/ Retry \/ Exit \/ Back
Main == HandleNoVideo \/ HandleFull \/ HandleStop \/ HandleWatch \/ Listen \/ ResetWatchdog \/ SetAddresses \/ Punch
Next == User \/ DecoderStarts \/ Respond \/ GoesOffLine \/ Main \/ Packet \/ One \/ PunchNext
        \/ \E s \in Sessions : TimerStep(s)
Spec == Init /\ [][Next]_vars
\* Every thread runs; the user, the server and the camera need not do anything.
LiveSpec == /\ Spec /\ WF_vars(Main) /\ WF_vars(PunchNext /\ ~CameraSends) /\ WF_vars(One)
            /\ \A s \in Sessions : WF_vars(TimerStep(s))

-----------------------------------------------------------------------------
TypeOK ==
  /\ PunchTypeOK
  /\ tab \in {"cam", "other"} /\ playable \in BOOLEAN /\ builder \in {"none", "retry", "max"}
  /\ isDisplayVideo \in BOOLEAN /\ main \in {"idle", "listen", "reset", "channel", "ip", "port", "announce", "punch"}
  /\ messages \in Seq({"watch", "full", "denied", "offline", "noVideo"})
  /\ starts \in Sessions \cup {0} /\ timer \in Sessions \cup {0}
  /\ ticking \subseteq 1..starts /\ abandoned \subseteq 1..starts
  /\ task \in [Sessions -> {"idle", "rated", "test", "clear", "count", "store", "check", "ask", "report"}]
  /\ rate \in 0..limit.rounds + 1 /\ noVideoInt \in 0..limit.silence + 1
  /\ isNoVideoListen \in BOOLEAN /\ silence \in 0..limit.silence + 1

\* The watchdog counts rounds without a packet only, in this session only: but
\* for a reset that a task undoes, and for the moment in which setCamIpInfo()
\* has started the timer and not yet reset the count.
CountsOnlySilence == noVideoInt <= silence \/ inflated \/ main \in {"listen", "reset"}

\* After stopCam() no timer ticks on but those that a second setCamIpInfo()
\* has replaced, which nobody can cancel.
StoppedMeansStopped == timer = 0 => ticking \subseteq abandoned

\* Types, a count of silence only, and no timer left that could be cancelled.
SessionSafe == TypeOK /\ CountsOnlySilence /\ StoppedMeansStopped

\* Each session's packets reach its own channel and camera.
ReachesItsCamera == JoinsItsChannel /\ PunchesItsCamera

\* If nothing comes any more, a session that is watched is not left at that:
\* the dialog opens, unless the tasks of two timers have met, after which
\* rate may have passed the value it is compared with.
Watched == isNoVideoListen /\ isDisplayVideo /\ ticking # {} /\ builder = "none" /\ limit.rounds > 0
SilenceNoticed == <>[]Watched /\ <>[][~Packet /\ ~One]_vars => <>overlapped
=============================================================================
