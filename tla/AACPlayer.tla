----------------------------- MODULE AACPlayer -----------------------------
(***************************************************************************)
(* com.spoledge.aacdecoder.AACPlayer.play: the player's thread decodes     *)
(* what a BufferReader reads into three arrays of samples in turn, and has *)
(* a PCMFeed play them.  Three threads, two monitors, and a stop() that    *)
(* any other thread may call.  BufferReader is extended: its next(),       *)
(* setCapacity(), stop() and run() are steps of this module.               *)
(*                                                                         *)
(* The native decoder is external: it takes as many buffers as it likes    *)
(* and yields a block of samples, or none when it fails or has no input.   *)
(***************************************************************************)
EXTENDS BufferReader

CONSTANT
  Samples          \* Samples[b]: how many samples block b has

ASSUME SamplesAssumption == Samples \in Seq(Nat \ {0})

MaxBlocks == Len(Samples)   \* bound: blocks that are decoded
Arrays == 0..2
NoArray == 3

VARIABLES
  samples, samplesCount, lsamples, feedStopped,
  ln, fpc, cpc, offer, accepted, trackFailed, pcm, played,
  playerStopped, apc,     \* AACPlayer.stopped, and where play() is
  decodeBufferIndex,      \* mod 3
  decoded, nsamp          \* blocks decoded, samples in the last one

Feed == INSTANCE PCMFeed WITH stopped <- feedStopped

readerVars == vars
feedVars == <<samples, samplesCount, lsamples, feedStopped,
              ln, fpc, cpc, offer, accepted, trackFailed, pcm, played>>
decoding == <<decodeBufferIndex, decoded, nsamp>>
playerVars == <<playerStopped, apc, decoding>>
allVars == <<readerVars, feedVars, playerVars>>

PlayInit == /\ Init /\ Feed!Init
            /\ playerStopped = FALSE /\ apc = "new"
            /\ decodeBufferIndex = 0 /\ decoded = 0 /\ nsamp = 0

GoTo(label) == apc' = label
OutOfCalls == ppc = "out" /\ cpc = "out"

-----------------------------------------------------------------------------
\* play(): stopped is reset, and the reading thread started.
Play == /\ apc = "new" /\ GoTo("start") /\ playerStopped' = FALSE
        /\ UNCHANGED <<readerVars, feedVars, decoding>>

\* decoder.start and decoder.decode call reader.next().
CallNext == /\ apc \in {"start", "decode"} /\ OutOfCalls /\ BeginNext
            /\ UNCHANGED <<feedVars, playerVars>>

\* decoder.start returns: the PCMFeed is made and started.
Started == /\ apc = "start" /\ OutOfCalls /\ GoTo("loop") /\ Feed!Start
           /\ UNCHANGED <<readerVars, playerStopped, decoding>>

\* decoder.start fails, or there are too many channels: no PCMFeed is made.
StartFails == /\ apc = "start" /\ OutOfCalls /\ GoTo("finally")
              /\ UNCHANGED <<readerVars, feedVars, playerStopped, decoding>>

\* decoder.decode starts to overwrite the array whose turn it is ...
BeginDecode == /\ apc = "loop" /\ GoTo("decode")
               /\ pcm' = [pcm EXCEPT ![decodeBufferIndex] = 0]
               /\ UNCHANGED <<readerVars, samples, samplesCount, lsamples, feedStopped, ln,
                              fpc, cpc, offer, accepted, trackFailed, played, playerStopped, decoding>>

\* ... and returns with a block in it, or with none.
Decoded ==
  /\ apc = "decode" /\ OutOfCalls /\ GoTo("decoded")
  /\ \/ /\ nsamp' = 0 /\ UNCHANGED <<decoded, pcm>>
     \/ /\ ~ended /\ decoded < MaxBlocks
        /\ decoded' = decoded + 1 /\ nsamp' = Samples[decoded']
        /\ pcm' = [pcm EXCEPT ![decodeBufferIndex] = decoded']
  /\ UNCHANGED <<readerVars, samples, samplesCount, lsamples, feedStopped, ln,
                 fpc, cpc, offer, accepted, trackFailed, played, playerStopped, decodeBufferIndex>>

\* if (nsamp == 0 || stopped) break; otherwise the array is fed.
BreakOrFeed ==
  /\ apc = "decoded"
  /\ IF nsamp = 0 \/ playerStopped
       THEN GoTo("finally") /\ UNCHANGED feedVars
       ELSE GoTo("feed") /\ Feed!BeginFeed(decodeBufferIndex, nsamp)
  /\ UNCHANGED <<readerVars, playerStopped, decoding>>

\* if (!pcmfeed.feed(...) || stopped) break
BreakOrGoOn ==
  /\ apc = "feed" /\ cpc = "out"
  /\ GoTo(IF ~accepted \/ playerStopped THEN "finally" ELSE "rate")
  /\ UNCHANGED <<readerVars, feedVars, playerStopped, decoding>>

\* The bit rate may have changed: reader.setCapacity.  Then the next array is
\* taken, and while (!stopped) goes round.
NextIndex == (decodeBufferIndex + 1) % 3
GoRound ==
  /\ apc = "rate"
  /\ \/ \E c \in Capacities \ {capacity} : SetCapacity(c)
     \/ UNCHANGED readerVars
  /\ decodeBufferIndex' = NextIndex
  /\ GoTo(IF playerStopped THEN "finally" ELSE "loop")
  /\ UNCHANGED <<feedVars, playerStopped, decoded, nsamp>>

\* finally: stop the feed, if it was made, and the reader, and join the feed.
StopFeed ==
  /\ apc = "finally" /\ GoTo("stop") /\ playerStopped' = TRUE
  /\ IF fpc = "new" THEN UNCHANGED feedVars ELSE Feed!Stop
  /\ UNCHANGED <<readerVars, decoding>>

StopReader == /\ apc = "stop" /\ GoTo("join") /\ Stop
              /\ UNCHANGED <<feedVars, playerStopped, decoding>>

Join == /\ apc = "join" /\ fpc \in {"new", "done"} /\ GoTo("done")
        /\ UNCHANGED <<readerVars, feedVars, playerStopped, decoding>>

\* stop(), called by another thread at any time.
StopPlayer == /\ ~playerStopped /\ playerStopped' = TRUE
              /\ UNCHANGED <<readerVars, feedVars, apc, decoding>>

PlayThread == \/ Play \/ CallNext \/ Started \/ StartFails \/ BeginDecode \/ Decoded
              \/ BreakOrFeed \/ BreakOrGoOn \/ GoRound \/ StopFeed \/ StopReader \/ Join
InNext == TakeNext /\ UNCHANGED <<feedVars, playerVars>>
InFeed == Feed!Feed /\ UNCHANGED <<readerVars, playerVars>>
ReadThread == apc # "new" /\ Reader /\ UNCHANGED <<feedVars, playerVars>>
FeedThread == Feed!Run /\ UNCHANGED <<readerVars, playerVars>>

PlayNext == \/ PlayThread \/ InNext \/ InFeed \/ ReadThread \/ FeedThread
            \/ StopPlayer

PlaySpec == PlayInit /\ [][PlayNext]_allVars

\* Every thread runs, the stream yields or ends, the track takes samples, and
\* the decoder returns: it does not ask for buffers for ever.
DecoderReturns == Started \/ StartFails \/ Decoded
PlayLiveSpec ==
  /\ PlaySpec
  /\ WF_allVars(PlayThread) /\ WF_allVars(InNext) /\ WF_allVars(InFeed)
  /\ WF_allVars(ReadThread) /\ WF_allVars(FeedThread)
  /\ SF_allVars(DecoderReturns)

-----------------------------------------------------------------------------
\* Correctness.

\* Type invariant.
PlayTypeOK ==
  /\ TypeOK
  /\ samples \in Arrays \cup {NoArray} /\ lsamples \in Arrays \cup {NoArray}
  /\ samplesCount \in Nat /\ ln \in Nat
  /\ fpc \in {"new", "check", "acquire", "wait", "acquired", "write", "done"}
  /\ cpc \in {"out", "feed", "wait"}
  /\ pcm \in [Arrays -> 0..MaxBlocks] /\ played \in Seq(1..MaxBlocks)
  /\ apc \in {"new", "start", "loop", "decode", "decoded", "feed", "rate",
              "finally", "stop", "join", "done"}
  /\ decodeBufferIndex \in Arrays /\ decoded \in 0..MaxBlocks

\* Three arrays are enough: while one is played and one waits in the slot the
\* decoder overwrites neither, so what is played is the sound as it was decoded,
\* block 1 first, all samples of a block before the next block, none torn,
\* repeated or left out, up to where playing stops.
Begins(i) == i = 1 \/ played[i - 1] # played[i]
PlaysTheSound ==
  \A i \in DOMAIN played : LET b == played[i] IN
    /\ i = 1 => b = 1
    /\ Begins(i) => \A j \in DOMAIN played :
         /\ i <= j /\ j < i + Samples[b] => played[j] = b
         /\ j = i + Samples[b] => played[j] = b + 1

\* As long as the track has not failed, every thread asleep has another one to
\* wake it: in next() the reader, which has a buffer to publish yet; in feed()
\* the feed, which has not been stopped or left; in acquireSamples() the player,
\* which has something to feed or a stop() to make before it joins.  (When the
\* track fails the feed ends without a notify(), and a feed() that waits for the
\* slot then waits for ever: stop() sets a flag it does not look at.)
NobodySleepsOn ==
  /\ ppc = "wait" => rpc \notin {"wait", "done"}
  /\ cpc = "wait" => trackFailed \/ fpc \notin {"new", "wait", "done"}
  /\ fpc = "wait" => samples = NoArray /\ ~feedStopped /\ apc \notin {"stop", "join", "done"}

\* Types, the sound untorn, and no thread asleep that nobody will wake.
PlayerSafe == PlayTypeOK /\ PlaysTheSound /\ NobodySleepsOn

\* Once play() is under way, stop(), the end of the stream or a failing decoder
\* ends all three threads, unless the track fails.
AllThreadsEnd ==
  apc # "new" /\ playerStopped ~>
    trackFailed \/ (apc = "done" /\ rpc = "done" /\ fpc \in {"new", "done"})
=============================================================================
