---------------------------- MODULE VideoDisplay ----------------------------
(***************************************************************************)
(* Frames from the shared VideoData.Videolist to the screen: the decoding  *)
(* threads of VideoSurfaceView, one for each surfaceChanged() that comes   *)
(* before a first frame and none of which ever ends, the native entry      *)
(* points they call, the receiving thread, and the user interface that     *)
(* changes surfaces, clears the list and asks for pictures to be saved.    *)
(*                                                                         *)
(* A view is one VideoSurfaceView (one visit of the live view), a window   *)
(* one Surface of it.  A frame is its number and its resolution; what the  *)
(* decoder makes of it is left open.  The monitor of Videolist and the     *)
(* native mutex are modelled with the accesses they do and do not cover;   *)
(* jvideo_decode_init() makes the mutex anew whoever holds it or waits.    *)
(***************************************************************************)
EXTENDS GlWindow, Sequences, FiniteSets

CONSTANTS
  Views,            \* 1..n, in the order in which they are opened
  Resolutions,      \* byte 6 of a frame
  NoThread, Net,    \* nobody, or the receiving thread, is inside the monitor
  Nulled,           \* an element clear() has erased
  Torn,             \* a file name that is being copied
  Limits            \* bounds to choose from

ASSUME VideoDisplayAssumption ==
  /\ IsFiniteSet(Threads)
  /\ Views \subseteq Nat \ {0} /\ NoWindow = 0 /\ Resolutions \subseteq Nat \ {0}
  /\ NoThread \notin Threads /\ Net \notin Threads /\ Net # NoThread /\ Torn \notin Nat
  /\ Nulled \notin [n : Nat, type : Resolutions]
  /\ Limits \subseteq [frames : Nat, room : Nat, threads : Nat, windows : Nat, changes : Nat,
                       clears : Nat, clicks : Nat]

VARIABLES
  Videolist, monitor,   \* the list, and who is inside synchronized(Videolist)
  work,                 \* what add() or remove(0) under way will leave in the list
  changeSurface, startDecodeThread, recType, holder,  \* of each view; holder.getSurface()
  pc, view, frame, surface,   \* of each thread: where it is, its view and its locals
  glMutex, asleep,      \* th_mutex_lock is held; threads that still wait for an earlier one
  IsSnapShot, FileName_Jpg,   \* a picture is asked for, under this name
  ui,                   \* the main thread: idle, in clear() or in strcpy()
  limit, count,         \* the bounds chosen; what of them is used up
  decoded, saved,       \* history: numbers of the frames decoded; names written,
  overlapped,           \* a clear() ended while an add() or remove(0) was under way
  remade, inits         \* the mutex was made anew while in use; how often a surface was
                        \* asked for since all of them were destroyed

fields == <<changeSurface, startDecodeThread, recType, holder>>
threads == <<pc, view, frame, surface>>
mutex == <<glMutex, asleep, remade>>
snap == <<IsSnapShot, FileName_Jpg, saved>>
list == <<Videolist, monitor, work, overlapped>>
bounds == <<limit, count>>
vars == <<gl, fields, threads, mutex, snap, list, ui, decoded, bounds, inits>>

NoFrame == [n |-> 0, type |-> 0]
Started == {t \in Threads : pc[t] # "none"}
Alone == Cardinality(Started) <= 1
Goto(t, l) == pc' = [pc EXCEPT ![t] = l]
Use(what) == count[what] < limit[what] /\ count' = [count EXCEPT ![what] = @ + 1] /\ UNCHANGED limit
InGl == {t \in Threads : pc[t] \in {"changeIn", "initIn", "drawIn"}}
Waiting == {t \in Threads : pc[t] \in {"change", "init", "draw"}}

Init ==
  /\ GlInit
  /\ Videolist = <<>> /\ monitor = NoThread /\ work = <<>> /\ overlapped = FALSE
  /\ changeSurface = [v \in Views |-> FALSE] /\ startDecodeThread = [v \in Views |-> FALSE]
  /\ recType = [v \in Views |-> 0] /\ holder = [v \in Views |-> NoWindow]
  /\ pc = [t \in Threads |-> "none"] /\ view = [t \in Threads |-> 0]
  /\ frame = [t \in Threads |-> NoFrame] /\ surface = [t \in Threads |-> NoWindow]
  /\ glMutex = FALSE /\ asleep = {} /\ IsSnapShot = FALSE /\ FileName_Jpg = 0 /\ ui = "idle"
  /\ limit \in Limits
  /\ count = [what \in {"frames", "threads", "windows", "changes", "clears", "clicks"} |-> 0]
  /\ decoded = <<>> /\ saved = {} /\ remade = FALSE /\ inits = 0

-----------------------------------------------------------------------------
\* The receiving thread adds a frame inside the monitor: add() reads size, puts
\* the frame behind the others, and only then writes size.
Arrive == /\ monitor = NoThread /\ Use("frames") /\ monitor' = Net
          /\ \E r \in Resolutions : work' = Append(Videolist, [n |-> count'["frames"], type |-> r])
          /\ UNCHANGED <<gl, fields, threads, mutex, snap, Videolist, overlapped, ui, decoded, inits>>
Arrived == /\ monitor = Net /\ monitor' = NoThread /\ Videolist' = work /\ work' = <<>>
           /\ UNCHANGED <<gl, fields, threads, mutex, snap, overlapped, ui, decoded, bounds, inits>>
\* Between a call's reading of size and its writing of it.
Working == monitor = Net \/ \E t \in Threads : pc[t] = "resize"

\* The main thread.  surfaceCreated() does nothing: the Surface is there.
SurfaceCreated(v) ==
  /\ ui = "idle" /\ holder[v] = NoWindow /\ \A u \in Views : holder[u] = NoWindow
  /\ v = 1 \/ \E t \in Started : view[t] = v - 1
  /\ ~ \E t \in Started : view[t] > v
  /\ startDecodeThread[v] \/ Cardinality(Started) < limit.threads
  /\ Use("windows")
  /\ LET w == count'["windows"] IN alive' = {w} /\ holder' = [holder EXCEPT ![v] = w]
  /\ ui' = "created"
  /\ UNCHANGED <<eglWindow, made, current, changeSurface, startDecodeThread, recType, threads, mutex, snap, list, decoded, inits>>
\* surfaceChanged(), always after surfaceCreated() and whenever the size
\* changes: before a first frame it starts one more thread.
SurfaceChanged(v) ==
  /\ holder[v] # NoWindow
  /\ \/ ui = "created" /\ UNCHANGED bounds
     \/ ui = "idle" /\ Use("changes")
  /\ changeSurface' = [changeSurface EXCEPT ![v] = TRUE] /\ ui' = "idle"
  /\ IF startDecodeThread[v] THEN UNCHANGED <<pc, view>>
     ELSE \E t \in Threads \ Started :
            /\ Cardinality(Started) < limit.threads
            /\ Goto(t, "loop") /\ view' = [view EXCEPT ![t] = v]
  /\ UNCHANGED <<gl, startDecodeThread, recType, holder, frame, surface, mutex, snap, list, decoded, inits>>
\* surfaceDestroyed() does nothing either: the Surface is gone, the threads go on.
SurfaceDestroyed(v) ==
  /\ ui = "idle" /\ holder[v] # NoWindow
  /\ holder' = [holder EXCEPT ![v] = NoWindow] /\ alive' = {}
  /\ UNCHANGED <<eglWindow, made, current, changeSurface, startDecodeThread, recType, threads, mutex, snap, list, ui, decoded, bounds, inits>>
\* Videolist.clear() of initCam() and initStopCam(), outside of the monitor, of a
\* list that is not empty: the elements are nulled, then size is 0.  Of a call
\* under way it misses the frame being added and what has been copied already.
Clear == /\ ui = "idle" /\ Videolist # <<>> /\ Use("clears") /\ ui' = "clear"
         /\ Videolist' = [i \in DOMAIN Videolist |-> Nulled]
         /\ \E missed \in SUBSET DOMAIN work :
              /\ monitor = Net => Len(work) \in missed
              /\ work' = [i \in DOMAIN work |-> IF i \in missed THEN work[i] ELSE Nulled]
         /\ UNCHANGED <<gl, fields, threads, mutex, snap, monitor, overlapped, decoded, inits>>
Cleared == /\ ui = "clear" /\ ui' = "idle" /\ Videolist' = <<>>
           /\ overlapped' = (overlapped \/ Working)
           /\ UNCHANGED <<gl, fields, threads, mutex, snap, monitor, work, decoded, bounds, inits>>
\* jlocal_SnapShot(): the name is copied, then the flag is set.
Click == /\ ui = "idle" /\ Use("clicks") /\ ui' = "strcpy" /\ FileName_Jpg' = Torn
         /\ UNCHANGED <<gl, fields, threads, mutex, IsSnapShot, saved, list, decoded, inits>>
Copied == /\ ui = "strcpy" /\ ui' = "copied" /\ FileName_Jpg' = count["clicks"]
          /\ UNCHANGED <<gl, fields, threads, mutex, IsSnapShot, saved, list, decoded, bounds, inits>>
SetSnapShot == /\ ui = "copied" /\ ui' = "idle" /\ IsSnapShot' = TRUE
               /\ UNCHANGED <<gl, fields, threads, mutex, FileName_Jpg, saved, list, decoded, bounds, inits>>

-----------------------------------------------------------------------------
\* A decoding thread t of the view v.  The top of the loop: a surface that has
\* changed is taken up, if this view has seen a frame.
Loop(t, v) ==
  /\ pc[t] = "loop"
  /\ IF changeSurface[v] /\ startDecodeThread[v]
     THEN changeSurface' = [changeSurface EXCEPT ![v] = FALSE] /\ Goto(t, "getSurface")
     ELSE UNCHANGED changeSurface /\ Goto(t, "look")
  /\ UNCHANGED <<gl, startDecodeThread, recType, holder, view, frame, surface, mutex, snap, list, ui, decoded, bounds, inits>>
GetFirstSurface(t, v) ==
  /\ pc[t] \in {"getSurface", "getFirst"}
  /\ surface' = [surface EXCEPT ![t] = IF @ = NoWindow THEN holder[v] ELSE @]
  /\ Goto(t, IF pc[t] = "getFirst" THEN "init" ELSE "change")
  /\ UNCHANGED <<gl, fields, view, frame, mutex, snap, list, ui, decoded, bounds, inits>>
\* The argument of jopenglSurfaceChanged or jopenglInit.
GetSurface(t, v) ==
  /\ pc[t] \in {"getSurface", "getFirst"}
  /\ surface' = [surface EXCEPT ![t] = holder[v]]
  /\ Goto(t, IF pc[t] = "getFirst" THEN "init" ELSE "change")
  /\ UNCHANGED <<gl, fields, view, frame, mutex, snap, list, ui, decoded, bounds, inits>>
LockNothing(t) ==
  /\ t \in Waiting \ asleep /\ glMutex' = TRUE
  /\ Goto(t, CASE pc[t] = "change" -> "changeIn" [] pc[t] = "init" -> "initIn" [] pc[t] = "draw" -> "drawIn")
  /\ UNCHANGED <<gl, fields, view, frame, surface, asleep, remade, snap, list, ui, decoded, bounds, inits>>
\* pthread_mutex_lock, at the start of a native section.
Lock(t) ==
  /\ t \in Waiting \ asleep /\ ~glMutex /\ glMutex' = TRUE
  /\ Goto(t, CASE pc[t] = "change" -> "changeIn" [] pc[t] = "init" -> "initIn" [] pc[t] = "draw" -> "drawIn")
  /\ UNCHANGED <<gl, fields, view, frame, surface, asleep, remade, snap, list, ui, decoded, bounds, inits>>
\* pthread_mutex_unlock asks nobody who holds it; it may wake a thread that
\* waits for an earlier incarnation.
Unlock(t) == glMutex' = FALSE /\ asleep' \in SUBSET asleep /\ UNCHANGED remade

Change(t) == /\ pc[t] = "changeIn" /\ OpenglSurfaceChanged(t, surface[t]) /\ inits' = 1
             /\ Unlock(t) /\ Goto(t, "look")
             /\ UNCHANGED <<fields, view, frame, surface, snap, list, ui, decoded, bounds>>
\* Videolist.size() == 0, outside of the monitor.
Look(t) == /\ pc[t] = "look" /\ Goto(t, IF Videolist = <<>> THEN "loop" ELSE "get")
           /\ UNCHANGED <<gl, fields, view, frame, surface, mutex, snap, list, ui, decoded, bounds, inits>>
GetUnguarded(t) ==
  /\ pc[t] = "get" /\ monitor = NoThread
  /\ IF Videolist = <<>> \/ Videolist[1] = Nulled THEN Goto(t, "loop") /\ UNCHANGED frame
     ELSE frame' = [frame EXCEPT ![t] = Videolist[1]] /\ Goto(t, "remove")
  /\ UNCHANGED <<gl, fields, view, surface, mutex, snap, list, ui, decoded, bounds, inits>>
\* get(0).getVideoData(): both exceptions of a clear() in between are caught.
Get(t) == /\ pc[t] = "get" /\ monitor = NoThread
          /\ IF Videolist = <<>> \/ Videolist[1] = Nulled
             THEN Goto(t, "loop") /\ UNCHANGED <<monitor, frame>>
             ELSE /\ monitor' = t /\ frame' = [frame EXCEPT ![t] = Videolist[1]]
                  /\ Goto(t, "remove")
          /\ UNCHANGED <<gl, fields, view, surface, mutex, snap, Videolist, work, overlapped, ui, decoded, bounds, inits>>
\* remove(0) reads size, and throws if it is 0 by now; it moves the others down and
\* writes size.  Then clear() if too many are left, and out of the monitor.
Remove(t) == /\ pc[t] = "remove"
             /\ IF Videolist = <<>>
                THEN Goto(t, "loop") /\ monitor' = NoThread /\ UNCHANGED work
                ELSE Goto(t, "resize") /\ work' = Tail(Videolist) /\ UNCHANGED monitor
             /\ UNCHANGED <<gl, fields, view, frame, surface, mutex, snap, Videolist, overlapped, ui, decoded, bounds, inits>>
Resize(t) == /\ pc[t] = "resize" /\ Goto(t, "parse") /\ monitor' = NoThread /\ work' = <<>>
             /\ Videolist' = IF Len(work) > limit.room THEN <<>> ELSE work
             /\ UNCHANGED <<gl, fields, view, frame, surface, mutex, snap, overlapped, ui, decoded, bounds, inits>>
\* parse(): a new resolution starts everything anew.
Parse(t, v) ==
  /\ pc[t] = "parse"
  /\ IF frame[t].type = recType[v] THEN Goto(t, "decode") /\ UNCHANGED recType
     ELSE recType' = [recType EXCEPT ![v] = frame[t].type] /\ Goto(t, "start")
  /\ UNCHANGED <<gl, changeSurface, startDecodeThread, holder, view, frame, surface, mutex, snap, list, ui, decoded, bounds, inits>>
Start(t, v) == /\ pc[t] = "start" /\ Goto(t, "unchanged")
               /\ startDecodeThread' = [startDecodeThread EXCEPT ![v] = TRUE]
               /\ UNCHANGED <<gl, changeSurface, recType, holder, view, frame, surface, mutex, snap, list, ui, decoded, bounds, inits>>
Unchanged(t, v) == /\ pc[t] = "unchanged" /\ Goto(t, "getFirst")
                   /\ changeSurface' = [changeSurface EXCEPT ![v] = FALSE]
                   /\ UNCHANGED <<gl, startDecodeThread, recType, holder, view, frame, surface, mutex, snap, list, ui, decoded, bounds, inits>>
InitGl(t) == /\ pc[t] = "initIn" /\ OpenglInit(t, surface[t]) /\ inits' = inits + 1
             /\ Unlock(t) /\ Goto(t, "initDecoder")
             /\ UNCHANGED <<fields, view, frame, surface, snap, list, ui, decoded, bounds>>
\* jvideo_decode_init(): pthread_mutex_init on the mutex all of them use.
InitDecoder(t) == /\ pc[t] = "initDecoder" /\ Goto(t, "decode")
                  /\ glMutex' = FALSE /\ asleep' \in {asleep \cup s : s \in SUBSET Waiting}
                  /\ remade' = (remade \/ InGl # {})
                  /\ UNCHANGED <<gl, fields, view, frame, surface, snap, list, ui, decoded, bounds, inits>>
\* jvideo_decode_frame(): the codec makes a picture of it or not,
Decode(t) == /\ pc[t] = "decode" /\ decoded' = Append(decoded, frame[t].n)
             /\ \E gotPicture \in BOOLEAN : Goto(t, IF gotPicture THEN "snap" ELSE "loop")
             /\ UNCHANGED <<gl, fields, view, frame, surface, mutex, snap, list, ui, bounds, inits>>
\* video_decode_SnapShot() saves it if somebody asked,
Snap(t) == /\ pc[t] = "snap" /\ Goto(t, IF IsSnapShot THEN "reset" ELSE "draw")
           /\ UNCHANGED <<gl, fields, view, frame, surface, mutex, snap, list, ui, decoded, bounds, inits>>
Reset(t) == /\ pc[t] = "reset" /\ Goto(t, "save") /\ IsSnapShot' = FALSE
            /\ UNCHANGED <<gl, fields, view, frame, surface, mutex, FileName_Jpg, saved, list, ui, decoded, bounds, inits>>
Save(t) == /\ pc[t] = "save" /\ Goto(t, "draw") /\ saved' = saved \cup {FileName_Jpg}
           /\ UNCHANGED <<gl, fields, view, frame, surface, mutex, IsSnapShot, FileName_Jpg, list, ui, decoded, bounds, inits>>
\* and draws it.
Draw(t) == /\ pc[t] = "drawIn" /\ Unlock(t) /\ Goto(t, "loop")
           /\ UNCHANGED <<gl, fields, view, frame, surface, snap, list, ui, decoded, bounds, inits>>

DecoderStep(t) ==
  \/ Lock(t) \/ Change(t) \/ Look(t) \/ Get(t) \/ Remove(t) \/ Resize(t) \/ InitGl(t) \/ InitDecoder(t)
  \/ Decode(t) \/ Snap(t) \/ Reset(t) \/ Save(t) \/ Draw(t)
  \/ \E v \in Views : view[t] = v /\ (Loop(t, v) \/ GetSurface(t, v) \/ Parse(t, v) \/ Start(t, v) \/ Unchanged(t, v))
Ui == Clear \/ Cleared \/ Click \/ Copied \/ SetSnapShot
      \/ \E v \in Views : SurfaceCreated(v) \/ SurfaceChanged(v) \/ SurfaceDestroyed(v)
Next == Arrive \/ Arrived \/ Ui \/ \E t \in Threads : DecoderStep(t)
Spec == Init /\ [][Next]_vars
\* Every thread that is started runs, what one call of the main thread or of
\* the receiving thread does it does to the end, and surfaceChanged() follows
\* surfaceCreated().
LiveSpec == /\ Spec /\ \A t \in Threads : WF_vars(DecoderStep(t))
            /\ WF_vars(\E v \in Views : SurfaceChanged(v) /\ ui = "created")
            /\ WF_vars(Cleared \/ Copied \/ SetSnapShot) /\ WF_vars(Arrived)

-----------------------------------------------------------------------------
TypeOK ==
  /\ eglWindow \in {NoWindow} \cup Nat /\ made \subseteq Nat \ {0} /\ alive \subseteq Nat \ {0}
  /\ current \in [Threads -> Nat]
  /\ \A elements \in {Videolist, work} : \A i \in DOMAIN elements :
       elements[i] = Nulled \/ elements[i] \in [n : Nat, type : Resolutions]
  /\ monitor \in Threads \cup {NoThread, Net} /\ overlapped \in BOOLEAN
  /\ changeSurface \in [Views -> BOOLEAN] /\ startDecodeThread \in [Views -> BOOLEAN]
  /\ recType \in [Views -> Resolutions \cup {0}] /\ holder \in [Views -> Nat]
  /\ view \in [Threads -> Views \cup {0}] /\ frame \in [Threads -> [n : Nat, type : Resolutions \cup {0}]]
  /\ surface \in [Threads -> Nat]
  /\ glMutex \in BOOLEAN /\ asleep \subseteq Waiting /\ IsSnapShot \in BOOLEAN
  /\ ui \in {"idle", "created", "clear", "strcpy", "copied"}
  /\ remade \in BOOLEAN /\ inits \in Nat

\* No frame is decoded twice, whatever threads and clears do to the list, and
\* a lone decoding thread decodes the frames in the order in which they came.
DecodedInOrder == \A i, j \in DOMAIN decoded : i < j =>
                     decoded[i] # decoded[j] /\ (Alone => decoded[i] < decoded[j])

\* Two threads are inside the native sections at once only after
\* jvideo_decode_init() has made the mutex anew under one of them.
NativeSectionsExclude == Cardinality(InGl) > 1 => remade

\* A lone decoding thread draws a picture that nobody sees only while the view
\* has no Surface, while a change of it is still to be taken up, or after a
\* second jopenglInit() on the same Surface.
LostOnlyInChanges == \A t \in Threads :
  Alone /\ pc[t] = "drawIn" /\ ~Shows(t) =>
    \/ holder[view[t]] = NoWindow \/ changeSurface[view[t]] \/ ui = "created"
    \/ inits > 1

\* The last picture asked for is saved under its name, unless it is still to
\* come: no request is forgotten.
LastRequestSaved ==
  ui \in {"idle", "created", "clear"} /\ count["clicks"] > 0 =>
    count["clicks"] \in saved \/ IsSnapShot \/ \E t \in Threads : pc[t] = "save"

\* A null at which the decoding threads would spin, as they do not remove it, is
\* in the list only during a clear(), or once a clear() has ended during an add()
\* or remove(0), which then wrote its older size.
NullsOnlyAfterOverlap ==
  ui # "clear" /\ (\E i \in DOMAIN Videolist : Videolist[i] = Nulled) => overlapped

\* Types, one thread that draws at a time, no picture forgotten, and no null left
\* behind but by calls that overlapped.
DisplaySafe == TypeOK /\ NativeSectionsExclude /\ LastRequestSaved /\ NullsOnlyAfterOverlap

\* As long as no second thread is started, a new Surface is drawn on at last,
\* or jopenglInit() has been called on one that carries an EGLSurface already.
SurfaceTakenUp == \A v \in Views :
  (changeSurface[v] /\ startDecodeThread[v]) ~> (eglWindow = holder[v] \/ ~Alone \/ inits > 1)
=============================================================================
