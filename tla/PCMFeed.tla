------------------------------ MODULE PCMFeed ------------------------------
(***************************************************************************)
(* com.spoledge.aacdecoder.PCMFeed: a thread that plays the arrays of      *)
(* samples handed to it with feed(), one array ahead.                      *)
(*                                                                         *)
(* The AudioTrack is external: a write takes some of the samples offered,  *)
(* or fails.  Synchronized methods are one step up to their wait().        *)
(***************************************************************************)
EXTENDS Integers, Sequences

CONSTANTS
  Arrays,          \* the arrays feed() is called with
  NoArray          \* null

VARIABLES
  samples, samplesCount, lsamples, stopped,
  ln,              \* local variable of run(): samples left to write
  fpc,             \* where run() is, "new" before the thread is started
  cpc,             \* where the caller of feed() is
  offer,           \* the arguments of feed()
  accepted,        \* what feed() returned
  trackFailed,     \* AudioTrack.write has returned an error
  pcm,             \* which block of sound each array holds
  played           \* the block each sample written to the track belongs to

slot == <<samples, samplesCount>>
running == <<lsamples, ln, fpc, trackFailed, played>>
calling == <<cpc, offer, accepted>>
vars == <<slot, running, calling, stopped, pcm>>

Init == /\ samples = NoArray /\ samplesCount = 0
        /\ lsamples = NoArray /\ ln = 0 /\ fpc = "new"
        /\ trackFailed = FALSE /\ played = <<>>
        /\ cpc = "out" /\ offer = [s |-> NoArray, n |-> 0] /\ accepted = TRUE
        /\ stopped = FALSE
        /\ pcm = [a \in Arrays |-> 0]

NotifyFeeder == cpc' = IF cpc = "wait" THEN "feed" ELSE cpc
NotifyRun == fpc' = IF fpc = "wait" THEN "acquire" ELSE fpc

-----------------------------------------------------------------------------
\* run()

Start == /\ fpc = "new" /\ fpc' = "check"
         /\ UNCHANGED <<slot, lsamples, ln, trackFailed, played, calling, stopped, pcm>>

\* while (!stopped)
Check == /\ fpc = "check" /\ fpc' = IF stopped THEN "done" ELSE "acquire"
         /\ UNCHANGED <<slot, lsamples, ln, trackFailed, played, calling, stopped, pcm>>

\* acquireSamples(): take the array out of the slot, which is then free.
Acquire ==
  /\ fpc = "acquire"
  /\ IF samplesCount = 0 /\ ~stopped
       THEN fpc' = "wait" /\ UNCHANGED <<slot, lsamples, ln, cpc>>
       ELSE /\ lsamples' = samples /\ ln' = samplesCount
            /\ samples' = NoArray /\ samplesCount' = 0
            /\ fpc' = "acquired" /\ NotifyFeeder
  /\ UNCHANGED <<trackFailed, played, offer, accepted, stopped, pcm>>

\* if (stopped) break
CheckAcquired ==
  /\ fpc = "acquired" /\ fpc' = IF stopped THEN "done" ELSE "write"
  /\ UNCHANGED <<slot, lsamples, ln, trackFailed, played, calling, stopped, pcm>>

\* The track takes k of the ln samples left.
Write(k) ==
  /\ fpc = "write" /\ k <= ln
  /\ played' = played \o [i \in 1..k |-> pcm[lsamples]]
  /\ ln' = ln - k
  /\ fpc' = IF ln' = 0 THEN "check" ELSE "write"
  /\ UNCHANGED <<slot, lsamples, trackFailed, calling, stopped, pcm>>

\* The track fails: stopped is set outside of the monitor, without notify().
WriteFails ==
  /\ fpc = "write" /\ stopped' = TRUE /\ fpc' = "done" /\ trackFailed' = TRUE
  /\ UNCHANGED <<slot, lsamples, ln, played, calling, pcm>>

-----------------------------------------------------------------------------
\* The calls of the decoding thread.

BeginFeed(s, n) ==
  /\ cpc = "out" /\ cpc' = "feed" /\ offer' = [s |-> s, n |-> n]
  /\ UNCHANGED <<slot, running, accepted, stopped, pcm>>

\* feed(): wait for the slot, unless stopped, and put the array into it.
MustWaitNever == FALSE
MustWait == samples # NoArray /\ ~stopped
Feed ==
  /\ cpc = "feed"
  /\ IF MustWait
       THEN cpc' = "wait" /\ UNCHANGED <<slot, fpc, accepted>>
       ELSE /\ samples' = offer.s /\ samplesCount' = offer.n
            /\ NotifyRun /\ cpc' = "out" /\ accepted' = ~stopped
  /\ UNCHANGED <<lsamples, ln, trackFailed, played, offer, stopped, pcm>>

StopSilently == /\ cpc = "out" /\ stopped' = TRUE
                /\ UNCHANGED <<slot, running, calling, pcm>>
Stop == /\ cpc = "out" /\ stopped' = TRUE /\ NotifyRun
        /\ UNCHANGED <<slot, lsamples, ln, trackFailed, played, calling, pcm>>

WriteSome == \E k \in 1..ln : Write(k)
Run == Check \/ Acquire \/ CheckAcquired \/ WriteSome \/ WriteFails
=============================================================================
