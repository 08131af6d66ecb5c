------------------------- MODULE VideoDisplayProofs -------------------------
(***************************************************************************)
(* Proofs about VideoDisplay for every number of decoding threads, views,  *)
(* windows and frames: no frame is decoded twice and one decoding thread   *)
(* keeps their order (FrameInv), native sections exclude each other while  *)
(* the mutex is not made anew (SectionInv), requested pictures are saved   *)
(* (PictureInv), nulls stay in the list only after calls that overlapped   *)
(* (NullInv), and one decoding thread draws on the Surface there is        *)
(* (WindowInv).                                                            *)
(***************************************************************************)
EXTENDS VideoDisplay, FiniteSetTheorems, SequenceTheorems, TLAPS

-----------------------------------------------------------------------------
Places == {"none", "loop", "getSurface", "change", "changeIn", "look", "get", "remove", "resize", "parse",
           "start", "unchanged", "getFirst", "init", "initIn", "initDecoder", "decode", "snap", "reset", "save",
           "draw", "drawIn"}
Counted == {"frames", "threads", "windows", "changes", "clears", "clicks"}
Frames == [n : Nat, type : Resolutions]
Carries == {"remove", "resize", "parse", "start", "unchanged", "getFirst", "init", "initIn", "initDecoder", "decode"}
Inside == {"remove", "resize"}
Carrying(t) == pc[t] \in Carries

\* Types, of what TypeOK leaves out too: a thread that carries a frame has one.
TypeInv ==
  /\ TypeOK
  /\ pc \in [Threads -> Places] /\ count \in [Counted -> Nat] /\ limit \in Limits
  /\ Videolist \in Seq(Frames \cup {Nulled}) /\ work \in Seq(Frames \cup {Nulled}) /\ decoded \in Seq(Nat)
  /\ \A t \in Threads : Carrying(t) => frame[t] \in Frames

-----------------------------------------------------------------------------
\* A frame is in the list, with one thread, or decoded.  What add() or remove(0)
\* under way will leave counts, and the first one of the list is already the
\* thread's that is about to remove it.
Todo == IF Working THEN work ELSE Videolist
AtRemove == \E t \in Threads : pc[t] = "remove"
Listed(i) == i \in 1..Len(Todo) /\ Todo[i] # Nulled /\ (i = 1 => ~AtRemove)
Before(m, n) == m # n /\ (Alone => m < n)

\* The frames decoded, the frame of thread t, and the frame at i of the list.
DecodedOnce ==
  /\ \A i, k \in 1..Len(decoded) : i < k => Before(decoded[i], decoded[k])
  /\ \A i \in 1..Len(decoded) : decoded[i] <= count["frames"]
CarriedOnce(t) ==
  /\ frame[t].n <= count["frames"]
  /\ \A i \in 1..Len(decoded) : Before(decoded[i], frame[t].n)
  /\ \A u \in Threads : u # t /\ Carrying(u) => frame[u].n # frame[t].n
ListedOnce(i) ==
  /\ Todo[i].n <= count["frames"]
  /\ \A k \in 1..Len(decoded) : Before(decoded[k], Todo[i].n)
  /\ \A t \in Threads : Carrying(t) => Before(frame[t].n, Todo[i].n)
  /\ \A k \in 1..Len(Todo) : i < k /\ Listed(k) => Todo[i].n < Todo[k].n
MonitorInv == \A t \in Threads : monitor = t <=> pc[t] \in Inside
FrameInv ==
  /\ MonitorInv
  /\ DecodedOnce
  /\ \A t \in Threads : Carrying(t) => CarriedOnce(t)
  /\ \A i \in 1..Len(Todo) : Listed(i) => ListedOnce(i)

\* Unless a clear() ended during a call, its nulls are gone when it has ended.
NullInv ==
  ~overlapped /\ ui # "clear" =>
    /\ \A i \in DOMAIN Videolist : Videolist[i] # Nulled
    /\ Working => (\A i \in DOMAIN work : work[i] # Nulled)

-----------------------------------------------------------------------------
\* While the mutex is the one that was made first, who is inside a section holds it.
SectionInv == ~remade => /\ \A t, u \in InGl : t = u
                         /\ InGl # {} => glMutex

\* The name is whole while nobody copies one.
PictureInv == /\ ui # "strcpy" => FileName_Jpg = count["clicks"]
              /\ LastRequestSaved

-----------------------------------------------------------------------------
\* The Surface there is, and what a thread has seen of it.
SurfaceInv ==
  /\ \A v \in Views : holder[v] # NoWindow => alive = {holder[v]}
  /\ \A v, w \in Views : holder[v] # NoWindow /\ holder[w] # NoWindow => v = w
  /\ inits = 0 => made = {} /\ eglWindow = NoWindow /\ \A t \in Threads : current[t] = NoWindow
  /\ \A t \in Threads : pc[t] = "none" => current[t] = NoWindow
  /\ \A t \in Threads : pc[t] # "none" => view[t] \in Views
  /\ \A v \in Views : (\A t \in Started : view[t] # v) => recType[v] = 0 /\ ~startDecodeThread[v]
  /\ Started = {} => inits = 0

Settled(v) == holder[v] # NoWindow /\ ~changeSurface[v] /\ ui # "created"
Drawn == {"initDecoder", "decode", "snap", "reset", "save", "draw", "drawIn"}
Lone(t, v) ==
  /\ recType[v] # 0 => startDecodeThread[v] \/ pc[t] = "start"
  /\ startDecodeThread[v] => inits > 0 \/ pc[t] \in {"unchanged", "getFirst", "init", "initIn"}
  /\ pc[t] \in {"getSurface", "change", "changeIn", "unchanged", "getFirst", "init", "initIn"} \cup Drawn =>
       startDecodeThread[v]
  /\ Settled(v) /\ pc[t] \in {"change", "changeIn", "init", "initIn"} => surface[t] = holder[v]
  /\ Settled(v) /\ inits = 1 /\ startDecodeThread[v] =>
       \/ pc[t] \in {"start", "unchanged", "getFirst", "init", "initIn", "getSurface", "change", "changeIn"}
       \/ eglWindow = holder[v] /\ current[t] = eglWindow
WindowInv == Alone => \A t \in Started, v \in Views : view[t] = v => Lone(t, v)

-----------------------------------------------------------------------------
\* Types.

Bools == /\ overlapped \in BOOLEAN /\ glMutex \in BOOLEAN /\ IsSnapShot \in BOOLEAN /\ remade \in BOOLEAN
         /\ ui \in {"idle", "created", "clear", "strcpy", "copied"}
GlOK == /\ eglWindow \in Nat /\ made \subseteq Nat \ {0} /\ alive \subseteq Nat \ {0}
        /\ current \in [Threads -> Nat] /\ inits \in Nat
FieldsOK == /\ changeSurface \in [Views -> BOOLEAN] /\ startDecodeThread \in [Views -> BOOLEAN]
            /\ recType \in [Views -> Resolutions \cup {0}] /\ holder \in [Views -> Nat]
ThreadsOK == /\ pc \in [Threads -> Places] /\ view \in [Threads -> Views \cup {0}]
             /\ surface \in [Threads -> Nat] /\ asleep \subseteq Waiting
ListOK == /\ Videolist \in Seq(Frames \cup {Nulled}) /\ work \in Seq(Frames \cup {Nulled})
          /\ decoded \in Seq(Nat) /\ monitor \in Threads \cup {NoThread, Net}
          /\ frame \in [Threads -> [n : Nat, type : Resolutions \cup {0}]]
          /\ \A t \in Threads : Carrying(t) => frame[t] \in Frames
BoundsOK == count \in [Counted -> Nat] /\ limit \in Limits

LEMMA TypesSplit ==
  TypeInv <=> Bools /\ GlOK /\ FieldsOK /\ ThreadsOK /\ ListOK /\ BoundsOK
<1>1. ASSUME Videolist \in Seq(Frames \cup {Nulled})
      PROVE  \A i \in DOMAIN Videolist : Videolist[i] = Nulled \/ Videolist[i] \in Frames
  BY <1>1
<1>2. NoWindow \in Nat /\ {NoWindow} \cup Nat = Nat
  BY VideoDisplayAssumption
<1> QED BY <1>1, <1>2, SMTT(30) DEF TypeInv, TypeOK, Bools, GlOK, FieldsOK, ThreadsOK, ListOK, BoundsOK, Frames

LEMMA TypesInit == Init => TypeInv
<1> SUFFICES ASSUME Init PROVE TypeInv
  OBVIOUS
<1>1. Bools /\ GlOK /\ FieldsOK
  BY VideoDisplayAssumption DEF Init, GlInit, Bools, GlOK, FieldsOK
<1>2. ThreadsOK /\ BoundsOK
  BY VideoDisplayAssumption DEF Init, ThreadsOK, Places, BoundsOK, Counted
<1>3. ListOK
  BY DEF Init, ListOK, Carrying, Carries, NoFrame
<1> QED BY <1>1, <1>2, <1>3, TypesSplit

\* The steps, by what they do to the types.
LEMMA StepBools ==
  ASSUME Bools, Next
  PROVE  Bools'
<1>1. CASE Arrive \/ Arrived \/ Ui
  BY <1>1, ZenonT(60) DEF Bools, Arrive, Arrived, Ui, Clear, Cleared, Click, Copied, SetSnapShot, SurfaceCreated, SurfaceChanged,
              SurfaceDestroyed, mutex, snap, list
<1>2. ASSUME NEW t \in Threads, DecoderStep(t) PROVE Bools'
  BY <1>2, ZenonT(60) DEF Bools, DecoderStep, Lock, Change, Look, Get, Remove, Resize, InitGl, InitDecoder, Decode, Snap, Reset, Save,
              Draw, Loop, GetSurface, Parse, Start, Unchanged, Unlock, mutex, snap, list
<1> QED BY <1>1, <1>2 DEF Next

LEMMA StepBounds ==
  ASSUME BoundsOK, Next
  PROVE  /\ BoundsOK' /\ \A what \in Counted : count'[what] >= count[what]
<1>1. ASSUME NEW what \in Counted, Use(what)
      PROVE  BoundsOK' /\ \A other \in Counted : count'[other] >= count[other]
  BY <1>1 DEF Use, BoundsOK
<1>2. ASSUME UNCHANGED bounds PROVE BoundsOK' /\ \A other \in Counted : count'[other] >= count[other]
  BY <1>2 DEF bounds, BoundsOK
<1>3. CASE Arrive \/ Arrived \/ Ui
  <2>1. UNCHANGED bounds \/ \E what \in Counted : Use(what)
    BY <1>3 DEF Arrive, Arrived, Ui, Clear, Cleared, Click, Copied, SetSnapShot, SurfaceCreated, SurfaceChanged,
                SurfaceDestroyed, Counted
  <2> QED BY <1>1, <1>2, <2>1
<1>4. ASSUME NEW t \in Threads, DecoderStep(t) PROVE UNCHANGED bounds
  BY <1>4 DEF DecoderStep, Lock, Change, Look, Get, Remove, Resize, InitGl, InitDecoder, Decode, Snap, Reset, Save,
              Draw, Loop, GetSurface, Parse, Start, Unchanged, bounds
<1> QED BY <1>2, <1>3, <1>4 DEF Next

LEMMA MakeTypes ==
  ASSUME NEW t \in Threads, NEW w \in Nat, GlOK, NEW kept \in SUBSET made, NEW bound \in [Threads -> Nat],
         MakeWindow(t, w, kept, bound)
  PROVE  eglWindow' \in Nat /\ made' \subseteq Nat \ {0} /\ current' \in [Threads -> Nat]
<1>1. CASE w \in alive /\ w \notin kept /\ \A u \in Threads : bound[u] # w
  BY <1>1 DEF MakeWindow, GlOK
<1>2. CASE ~(w \in alive /\ w \notin kept /\ \A u \in Threads : bound[u] # w)
  <2>1. eglWindow' = NoWindow /\ made' = kept /\ current' \in {bound, [bound EXCEPT ![t] = NoWindow]}
    BY <1>2 DEF MakeWindow
  <2> QED BY <2>1, VideoDisplayAssumption DEF GlOK
<1> QED BY <1>1, <1>2

LEMMA StepGl ==
  ASSUME GlOK, FieldsOK, ThreadsOK, BoundsOK, Next
  PROVE  GlOK'
<1>1. CASE Arrive \/ Arrived \/ Clear \/ Cleared \/ Click \/ Copied \/ SetSnapShot
  BY <1>1 DEF Arrive, Arrived, Clear, Cleared, Click, Copied, SetSnapShot, gl, GlOK
<1>2. ASSUME NEW v \in Views, SurfaceCreated(v) PROVE GlOK'
  <2>1. alive' = {count'["windows"]} /\ UNCHANGED <<eglWindow, made, current, inits>>
    BY <1>2 DEF SurfaceCreated
  <2>2. count'["windows"] \in Nat \ {0}
    BY <1>2 DEF SurfaceCreated, Use, BoundsOK, Counted
  <2> QED BY <2>1, <2>2 DEF GlOK
<1>3. ASSUME NEW v \in Views, SurfaceChanged(v) PROVE GlOK'
  BY <1>3 DEF SurfaceChanged, gl, GlOK
<1>4. ASSUME NEW v \in Views, SurfaceDestroyed(v) PROVE GlOK'
  BY <1>4 DEF SurfaceDestroyed, GlOK
<1>5. ASSUME NEW t \in Threads, Change(t) \/ InitGl(t) PROVE GlOK'
  <2>1. surface[t] \in Nat /\ [current EXCEPT ![t] = NoWindow] \in [Threads -> Nat] /\ current \in [Threads -> Nat]
    BY VideoDisplayAssumption DEF ThreadsOK, GlOK
  <2>2. UNCHANGED alive /\ inits' \in Nat
    BY <1>5 DEF Change, InitGl, OpenglSurfaceChanged, OpenglInit, GlOK
  <2>3. \/ MakeWindow(t, surface[t], {}, [current EXCEPT ![t] = NoWindow])
        \/ MakeWindow(t, surface[t], made, current)
    BY <1>5 DEF Change, InitGl, OpenglSurfaceChanged, OpenglInit
  <2>4. eglWindow' \in Nat /\ made' \subseteq Nat \ {0} /\ current' \in [Threads -> Nat]
    BY <2>1, <2>3, MakeTypes
  <2> QED BY <2>2, <2>4 DEF GlOK
<1>6. ASSUME NEW t \in Threads, DecoderStep(t), ~Change(t), ~InitGl(t) PROVE GlOK'
  BY <1>6 DEF DecoderStep, Lock, Look, Get, Remove, Resize, InitDecoder, Decode, Snap, Reset, Save, Draw,
              Loop, GetSurface, Parse, Start, Unchanged, gl, GlOK
<1> QED BY <1>1, <1>2, <1>3, <1>4, <1>5, <1>6 DEF Next, Ui

LEMMA StepFields ==
  ASSUME FieldsOK, ListOK, BoundsOK, Next
  PROVE  FieldsOK'
<1>1. CASE Arrive \/ Arrived \/ Clear \/ Cleared \/ Click \/ Copied \/ SetSnapShot
  BY <1>1 DEF Arrive, Arrived, Clear, Cleared, Click, Copied, SetSnapShot, fields, FieldsOK
<1>2. ASSUME NEW v \in Views, SurfaceCreated(v) PROVE FieldsOK'
  <2>1. holder' = [holder EXCEPT ![v] = count'["windows"]] /\ UNCHANGED <<changeSurface, startDecodeThread, recType>>
    BY <1>2 DEF SurfaceCreated
  <2>2. count'["windows"] \in Nat
    BY <1>2 DEF SurfaceCreated, Use, BoundsOK, Counted
  <2> QED BY <2>1, <2>2 DEF FieldsOK
<1>3. ASSUME NEW v \in Views, SurfaceChanged(v) \/ SurfaceDestroyed(v) PROVE FieldsOK'
  <2>1. /\ UNCHANGED <<startDecodeThread, recType>>
        /\ holder' = holder \/ holder' = [holder EXCEPT ![v] = NoWindow]
        /\ changeSurface' = changeSurface \/ changeSurface' = [changeSurface EXCEPT ![v] = TRUE]
    BY <1>3 DEF SurfaceChanged, SurfaceDestroyed
  <2>2. NoWindow \in Nat
    BY VideoDisplayAssumption
  <2> QED BY <2>1, <2>2 DEF FieldsOK
<1>4. ASSUME NEW t \in Threads, NEW v \in Views, Parse(t, v) PROVE FieldsOK'
  <2>1. frame[t].type \in Resolutions \cup {0}
    BY DEF ListOK
  <2> QED BY <1>4, <2>1 DEF Parse, FieldsOK
<1>5. ASSUME NEW t \in Threads, NEW v \in Views, Loop(t, v) \/ Start(t, v) \/ Unchanged(t, v) \/ GetSurface(t, v)
      PROVE  FieldsOK'
  BY <1>5 DEF Loop, Start, Unchanged, GetSurface, fields, FieldsOK
<1>6. ASSUME NEW t \in Threads, \/ Lock(t) \/ Change(t) \/ Look(t) \/ Get(t) \/ Remove(t) \/ Resize(t) \/ InitGl(t) \/ InitDecoder(t)
                                \/ Decode(t) \/ Snap(t) \/ Reset(t) \/ Save(t) \/ Draw(t)
      PROVE  FieldsOK'
  BY <1>6 DEF Lock, Change, Look, Get, Remove, Resize, InitGl, InitDecoder, Decode, Snap, Reset, Save, Draw, fields, FieldsOK
<1> QED BY <1>1, <1>2, <1>3, <1>4, <1>5, <1>6 DEF Next, Ui, DecoderStep

\* Where a thread goes, and who waits for the mutex.
LEMMA GotoTypes ==
  ASSUME ThreadsOK, NEW t \in Threads, NEW l \in Places, Goto(t, l)
  PROVE  /\ pc' \in [Threads -> Places] /\ pc'[t] = l /\ \A u \in Threads : u # t => pc'[u] = pc[u]
  BY DEF ThreadsOK, Goto

LEMMA StepThreads ==
  ASSUME FieldsOK, ThreadsOK, Next
  PROVE  ThreadsOK'
<1> USE DEF Places
<1>1. CASE Arrive \/ Arrived \/ Clear \/ Cleared \/ Click \/ Copied \/ SetSnapShot
  BY <1>1 DEF Arrive, Arrived, Clear, Cleared, Click, Copied, SetSnapShot, threads, mutex, ThreadsOK, Waiting
<1>2. ASSUME NEW v \in Views, SurfaceCreated(v) \/ SurfaceDestroyed(v) PROVE ThreadsOK'
  BY <1>2 DEF SurfaceCreated, SurfaceDestroyed, threads, mutex, ThreadsOK, Waiting
<1>3. ASSUME NEW v \in Views, SurfaceChanged(v) PROVE ThreadsOK'
  <2>1. CASE UNCHANGED <<pc, view>>
    BY <1>3, <2>1 DEF SurfaceChanged, mutex, ThreadsOK, Waiting
  <2>2. ASSUME NEW t \in Threads \ Started, Goto(t, "loop"), view' = [view EXCEPT ![t] = v] PROVE ThreadsOK'
    <3>1. pc' \in [Threads -> Places] /\ \A u \in Threads : u # t => pc'[u] = pc[u]
      BY <2>2, GotoTypes
    <3>2. pc[t] = "none"
      BY DEF Started
    <3>3. asleep' \subseteq Waiting'
      BY <1>3, <3>1, <3>2 DEF SurfaceChanged, mutex, ThreadsOK, Waiting
    <3> QED BY <1>3, <2>2, <3>1, <3>3 DEF SurfaceChanged, ThreadsOK
  <2> QED BY <1>3, <2>1, <2>2 DEF SurfaceChanged
<1>4. ASSUME NEW t \in Threads, NEW l \in Places, Goto(t, l), UNCHANGED view, surface' \in [Threads -> Nat],
             \/ pc[t] \notin {"change", "init", "draw"} /\ asleep' \subseteq asleep \cup Waiting
             \/ t \notin asleep /\ asleep' = asleep
      PROVE  ThreadsOK'
  <2>1. pc' \in [Threads -> Places] /\ \A u \in Threads : u # t => pc'[u] = pc[u]
    BY <1>4, GotoTypes
  <2>2. asleep' \subseteq Waiting'
    BY <1>4, <2>1 DEF ThreadsOK, Waiting
  <2> QED BY <1>4, <2>1, <2>2 DEF ThreadsOK
<1>5. ASSUME NEW t \in Threads, Lock(t) PROVE ThreadsOK'
  <2>1. t \notin asleep /\ asleep' = asleep /\ UNCHANGED <<view, surface>> /\ surface \in [Threads -> Nat]
    BY <1>5 DEF Lock, ThreadsOK
  <2>2. Goto(t, "changeIn") \/ Goto(t, "initIn") \/ Goto(t, "drawIn")
    BY <1>5 DEF Lock, Waiting
  <2> QED BY <1>4, <2>1, <2>2
<1>6. ASSUME NEW t \in Threads, NEW v \in Views, GetSurface(t, v) PROVE ThreadsOK'
  <2>1. /\ pc[t] \notin {"change", "init", "draw"} /\ UNCHANGED <<view, asleep>>
        /\ Goto(t, "init") \/ Goto(t, "change")
    BY <1>6 DEF GetSurface, mutex
  <2>2. surface' \in [Threads -> Nat]
    BY <1>6 DEF GetSurface, FieldsOK, ThreadsOK
  <2> QED BY <1>4, <2>1, <2>2
<1>7. ASSUME NEW t \in Threads, DecoderStep(t), ~Lock(t), ~\E v \in Views : GetSurface(t, v) PROVE ThreadsOK'
  <2>1. UNCHANGED <<view, surface>> /\ surface \in [Threads -> Nat]
    BY <1>7 DEF DecoderStep, Change, Look, Get, Remove, Resize, InitGl, InitDecoder, Decode, Snap, Reset, Save, Draw,
                Loop, Parse, Start, Unchanged, ThreadsOK
  <2>2. pc[t] \notin {"change", "init", "draw"} /\ \E l \in Places : Goto(t, l)
    <3>1. CASE Change(t) \/ Look(t) \/ Get(t) \/ Remove(t) \/ Resize(t) \/ InitGl(t) \/ InitDecoder(t)
      BY <3>1 DEF Change, Look, Get, Remove, Resize, InitGl, InitDecoder
    <3>2. CASE Decode(t)
      <4>1. PICK got \in BOOLEAN : Goto(t, IF got THEN "snap" ELSE "loop")
        BY <3>2 DEF Decode
      <4> QED BY <3>2, <4>1 DEF Decode
    <3>3. CASE Snap(t) \/ Reset(t) \/ Save(t) \/ Draw(t)
      BY <3>3 DEF Snap, Reset, Save, Draw
    <3>4. CASE \E v \in Views : Loop(t, v) \/ Parse(t, v) \/ Start(t, v) \/ Unchanged(t, v)
      BY <3>4 DEF Loop, Parse, Start, Unchanged
    <3> QED BY <1>7, <3>1, <3>2, <3>3, <3>4 DEF DecoderStep
  <2>3. asleep' \subseteq asleep \cup Waiting
    BY <1>7 DEF DecoderStep, Change, Look, Get, Remove, Resize, InitGl, InitDecoder, Decode, Snap, Reset, Save, Draw,
                Loop, Parse, Start, Unchanged, mutex, Unlock
  <2> QED BY <1>4, <2>1, <2>2, <2>3
<1> QED BY <1>1, <1>2, <1>3, <1>5, <1>6, <1>7 DEF Next, Ui

\* The steps of a thread that leave the list and its frame alone.
Elsewhere(t) ==
  \/ Lock(t) \/ Change(t) \/ Look(t) \/ InitGl(t) \/ InitDecoder(t) \/ Snap(t) \/ Reset(t) \/ Save(t)
  \/ Draw(t) \/ \E v \in Views : Loop(t, v) \/ GetSurface(t, v) \/ Parse(t, v) \/ Start(t, v) \/ Unchanged(t, v)

MovesElsewhere == \A u \in Threads : /\ Carrying(u)' => Carrying(u)
                                     /\ (pc'[u] = "remove") <=> (pc[u] = "remove")
                                     /\ (pc'[u] = "resize") <=> (pc[u] = "resize")

LEMMA GotoElsewhere ==
  ASSUME ThreadsOK, NEW t \in Threads, NEW l \in Places, Goto(t, l), l \in Carries => pc[t] \in Carries,
         l \notin Inside, pc[t] \notin Inside
  PROVE  MovesElsewhere
<1>1. pc'[t] = l /\ \A u \in Threads : u # t => pc'[u] = pc[u]
  BY GotoTypes
<1> QED BY <1>1 DEF MovesElsewhere, Carrying, Inside

LEMMA ElsewhereKeeps ==
  ASSUME ThreadsOK, NEW t \in Threads, Elsewhere(t)
  PROVE  UNCHANGED <<Videolist, work, monitor, overlapped, frame, decoded>> /\ MovesElsewhere
<1>1. UNCHANGED <<Videolist, work, monitor, overlapped, frame, decoded>>
  BY DEF Elsewhere, Lock, Change, Look, InitGl, InitDecoder, Snap, Reset, Save, Draw, Loop, GetSurface, Parse,
         Start, Unchanged, list
<1>2. \E l \in Places : Goto(t, l) /\ (l \in Carries => pc[t] \in Carries) /\ l \notin Inside /\ pc[t] \notin Inside
  <2>1. CASE Lock(t)
    <3>1. \/ (pc[t] = "change" /\ Goto(t, "changeIn")) \/ (pc[t] = "init" /\ Goto(t, "initIn"))
          \/ (pc[t] = "draw" /\ Goto(t, "drawIn"))
      BY <2>1 DEF Lock, Waiting
    <3> QED BY <3>1 DEF Carries, Inside, Places
  <2>2. CASE Change(t) \/ Look(t) \/ InitGl(t) \/ InitDecoder(t) \/ Snap(t) \/ Reset(t) \/ Save(t) \/ Draw(t)
    BY <2>2 DEF Change, Look, InitGl, InitDecoder, Snap, Reset, Save, Draw, Carries, Inside, Places
  <2>3. ASSUME NEW v \in Views, Loop(t, v) \/ GetSurface(t, v) \/ Parse(t, v) \/ Start(t, v) \/ Unchanged(t, v)
        PROVE  \E l \in Places : /\ Goto(t, l) /\ (l \in Carries => pc[t] \in Carries)
                                 /\ l \notin Inside /\ pc[t] \notin Inside
    BY <2>3 DEF Loop, GetSurface, Parse, Start, Unchanged, Carries, Inside, Places
  <2> QED BY <2>1, <2>2, <2>3 DEF Elsewhere
<1> QED BY <1>1, <1>2, GotoElsewhere

LEMMA StepList ==
  ASSUME ListOK, ThreadsOK, BoundsOK, Next
  PROVE  ListOK'
<1> USE DEF Places
<1>1. ASSUME UNCHANGED <<decoded, frame>>, Videolist' \in Seq(Frames \cup {Nulled}),
             work' \in Seq(Frames \cup {Nulled}), monitor' \in Threads \cup {NoThread, Net}, \A t \in Threads : Carrying(t)' => Carrying(t)
      PROVE  ListOK'
  BY <1>1 DEF ListOK
<1>2. ASSUME Arrive PROVE ListOK'
  <2>1. PICK r \in Resolutions : work' = Append(Videolist, [n |-> count'["frames"], type |-> r])
    BY <1>2 DEF Arrive
  <2>2. count'["frames"] \in Nat
    BY <1>2 DEF Arrive, Use, BoundsOK, Counted
  <2>3. [n |-> count'["frames"], type |-> r] \in Frames
    BY <2>2 DEF Frames
  <2>4. work' \in Seq(Frames \cup {Nulled})
    <3> DEFINE e == [n |-> count'["frames"], type |-> r]
    <3>1. e \in Frames
      BY <2>3
    <3>2. work' = Append(Videolist, e)
      BY <2>1
    <3> HIDE DEF e
    <3> QED BY <3>1, <3>2 DEF ListOK
  <2> QED BY <1>1, <1>2, <2>4 DEF Arrive, threads, ListOK, Carrying
<1>11. CASE Arrived
  <2>1. <<>> \in Seq(Frames \cup {Nulled})
    OBVIOUS
  <2> QED BY <1>1, <1>11, <2>1 DEF Arrived, threads, ListOK, Carrying
<1>3. CASE Clear \/ Cleared
  <2>1. [i \in DOMAIN Videolist |-> Nulled] \in Seq(Frames \cup {Nulled})
    <3>1. DOMAIN Videolist = 1..Len(Videolist) /\ Len(Videolist) \in Nat
      BY DEF ListOK
    <3> QED BY <3>1
  <2>2. ASSUME NEW missed PROVE [i \in DOMAIN work |-> IF i \in missed THEN work[i] ELSE Nulled] \in Seq(Frames \cup {Nulled})
    <3>1. DOMAIN work = 1..Len(work) /\ Len(work) \in Nat /\ \A i \in 1..Len(work) : work[i] \in Frames \cup {Nulled}
      BY DEF ListOK
    <3> QED BY <3>1
  <2>3. work' \in Seq(Frames \cup {Nulled})
    BY <1>3, <2>2 DEF Clear, Cleared, ListOK
  <2>4. <<>> \in Seq(Frames \cup {Nulled})
    OBVIOUS
  <2> QED BY <1>1, <1>3, <2>1, <2>3, <2>4 DEF Clear, Cleared, threads, ListOK, Carrying
<1>4. CASE Click \/ Copied \/ SetSnapShot
  BY <1>1, <1>4 DEF Click, Copied, SetSnapShot, threads, list, ListOK, Carrying
<1>5. ASSUME NEW v \in Views, SurfaceCreated(v) \/ SurfaceDestroyed(v) PROVE ListOK'
  BY <1>1, <1>5 DEF SurfaceCreated, SurfaceDestroyed, threads, list, ListOK, Carrying
<1>6. ASSUME NEW v \in Views, SurfaceChanged(v) PROVE ListOK'
  <2>1. \A t \in Threads : Carrying(t)' => Carrying(t)
    <3>1. CASE UNCHANGED pc
      BY <3>1 DEF Carrying
    <3>2. ASSUME NEW t \in Threads, Goto(t, "loop") PROVE \A u \in Threads : Carrying(u)' => Carrying(u)
      BY <3>2, GotoTypes DEF Carrying, Carries
    <3> QED BY <1>6, <3>1, <3>2 DEF SurfaceChanged
  <2> QED BY <1>1, <1>6, <2>1 DEF SurfaceChanged, list, ListOK
<1>7. ASSUME NEW t \in Threads, Get(t) PROVE ListOK'
  <2>1. CASE Videolist = <<>> \/ Videolist[1] = Nulled
    <3>1. Goto(t, "loop") /\ UNCHANGED <<monitor, frame, Videolist, work, decoded>>
      BY <1>7, <2>1 DEF Get
    <3>2. \A u \in Threads : Carrying(u)' => Carrying(u)
      BY <3>1, GotoTypes DEF Carrying, Carries
    <3> QED BY <1>1, <3>1, <3>2 DEF ListOK
  <2>2. CASE ~(Videolist = <<>> \/ Videolist[1] = Nulled)
    <3>1. /\ Goto(t, "remove") /\ UNCHANGED <<Videolist, work, decoded>> /\ monitor' = t
          /\ frame' = [frame EXCEPT ![t] = Videolist[1]]
      BY <1>7, <2>2 DEF Get
    <3>2. Videolist[1] \in Frames
      <4>1. 1 \in 1..Len(Videolist)
        BY <2>2 DEF ListOK
      <4> QED BY <2>2, <4>1 DEF ListOK
    <3>3. Frames \subseteq [n : Nat, type : Resolutions \cup {0}]
      BY DEF Frames
    <3>4. \A u \in Threads : u # t => (Carrying(u)' => Carrying(u))
      BY <3>1, GotoTypes DEF Carrying
    <3> QED BY <3>1, <3>2, <3>3, <3>4 DEF ListOK
  <2> QED BY <2>1, <2>2
<1>8. ASSUME NEW t \in Threads, Remove(t) PROVE ListOK'
  <2>1. Goto(t, "loop") \/ Goto(t, "resize")
    BY <1>8 DEF Remove
  <2>2. \A u \in Threads : Carrying(u)' => Carrying(u)
    BY <1>8, <2>1, GotoTypes DEF Carrying, Carries, Remove
  <2>3. Videolist # <<>> => Tail(Videolist) \in Seq(Frames \cup {Nulled})
    BY DEF ListOK
  <2> QED BY <1>1, <1>8, <2>2, <2>3 DEF Remove, ListOK
<1>12. ASSUME NEW t \in Threads, Resize(t) PROVE ListOK'
  <2>1. \A u \in Threads : Carrying(u)' => Carrying(u)
    BY <1>12, GotoTypes DEF Carrying, Carries, Resize
  <2>2. <<>> \in Seq(Frames \cup {Nulled})
    OBVIOUS
  <2> QED BY <1>1, <1>12, <2>1, <2>2 DEF Resize, ListOK
<1>9. ASSUME NEW t \in Threads, Decode(t) PROVE ListOK'
  <2>1. PICK got \in BOOLEAN : Goto(t, IF got THEN "snap" ELSE "loop")
    BY <1>9 DEF Decode
  <2>2. \A u \in Threads : Carrying(u)' => Carrying(u)
    <3>1. Goto(t, "snap") \/ Goto(t, "loop")
      BY <2>1
    <3> QED BY <3>1, GotoTypes DEF Carrying, Carries
  <2>3. frame[t].n \in Nat /\ decoded' = Append(decoded, frame[t].n) /\ UNCHANGED <<Videolist, work, monitor, frame>>
    BY <1>9 DEF Decode, list, ListOK
  <2> QED BY <2>2, <2>3 DEF ListOK
<1>10. ASSUME NEW t \in Threads, Elsewhere(t) PROVE ListOK'
  <2>1. UNCHANGED <<Videolist, work, monitor, frame, decoded>> /\ \A u \in Threads : Carrying(u)' => Carrying(u)
    BY <1>10, ElsewhereKeeps DEF MovesElsewhere
  <2> QED BY <1>1, <2>1 DEF ListOK
<1> QED BY <1>2, <1>3, <1>4, <1>5, <1>6, <1>7, <1>8, <1>9, <1>10, <1>11, <1>12 DEF Next, Ui, DecoderStep, Elsewhere

LEMMA TypesStep == TypeInv /\ [Next]_vars => TypeInv'
<1>1. ASSUME TypeInv, Next PROVE TypeInv'
  <2>1. Bools /\ GlOK /\ FieldsOK /\ ThreadsOK /\ ListOK /\ BoundsOK
    BY <1>1, TypesSplit
  <2>2. Bools' /\ GlOK' /\ FieldsOK' /\ ThreadsOK' /\ ListOK' /\ BoundsOK'
    BY <1>1, <2>1, StepBools, StepGl, StepFields, StepThreads, StepList, StepBounds
  <2>3. (TypeInv <=> Bools /\ GlOK /\ FieldsOK /\ ThreadsOK /\ ListOK /\ BoundsOK)'
    BY TypesSplit, PTL
  <2> QED BY <2>2, <2>3
<1>2. ASSUME TypeInv, UNCHANGED vars PROVE TypeInv'
  BY <1>2 DEF TypeInv, TypeOK, vars, gl, fields, threads, mutex, snap, list, bounds, Waiting, Carrying
<1> QED BY <1>1, <1>2

-----------------------------------------------------------------------------
\* Who has started, and whether one thread is alone.

LEMMA ThreadMoves ==
  ASSUME ThreadsOK, NEW t \in Threads, DecoderStep(t)
  PROVE  pc[t] # "none" /\ \E l \in Places \ {"none"} : Goto(t, l)
<1> USE DEF Places
<1>1. CASE Lock(t)
  BY <1>1 DEF Lock, Waiting
<1>2. CASE Change(t) \/ Look(t) \/ Get(t) \/ Remove(t) \/ Resize(t) \/ InitGl(t) \/ InitDecoder(t)
  BY <1>2 DEF Change, Look, Get, Remove, Resize, InitGl, InitDecoder
<1>3. CASE Decode(t)
  <2>1. PICK got \in BOOLEAN : Goto(t, IF got THEN "snap" ELSE "loop")
    BY <1>3 DEF Decode
  <2> QED BY <1>3, <2>1 DEF Decode
<1>4. CASE Snap(t) \/ Reset(t) \/ Save(t) \/ Draw(t)
  BY <1>4 DEF Snap, Reset, Save, Draw
<1>5. CASE \E v \in Views : Loop(t, v) \/ GetSurface(t, v) \/ Parse(t, v) \/ Start(t, v) \/ Unchanged(t, v)
  BY <1>5 DEF Loop, GetSurface, Parse, Start, Unchanged
<1> QED BY <1>1, <1>2, <1>3, <1>4, <1>5 DEF DecoderStep

\* A thread moves on; the user interface starts one at most.
LEMMA PlacesAfter ==
  ASSUME ThreadsOK, Next
  PROVE  \/ UNCHANGED pc
         \/ \E t \in Threads \ Started, v \in Views :
              SurfaceChanged(v) /\ Goto(t, "loop") /\ view' = [view EXCEPT ![t] = v] /\ ~startDecodeThread[v]
         \/ \E t \in Threads : DecoderStep(t) /\ UNCHANGED view
<1>1. CASE Arrive \/ Arrived \/ Clear \/ Cleared \/ Click \/ Copied \/ SetSnapShot
  BY <1>1 DEF Arrive, Arrived, Clear, Cleared, Click, Copied, SetSnapShot, threads
<1>2. ASSUME NEW v \in Views, SurfaceCreated(v) \/ SurfaceDestroyed(v) PROVE UNCHANGED pc
  BY <1>2 DEF SurfaceCreated, SurfaceDestroyed, threads
<1>3. ASSUME NEW v \in Views, SurfaceChanged(v)
      PROVE  \/ UNCHANGED pc
             \/ \E t \in Threads \ Started :
                  Goto(t, "loop") /\ view' = [view EXCEPT ![t] = v] /\ ~startDecodeThread[v]
  BY <1>3 DEF SurfaceChanged
<1>4. ASSUME NEW t \in Threads, DecoderStep(t) PROVE UNCHANGED view
  BY <1>4 DEF DecoderStep, Lock, Change, Look, Get, Remove, Resize, InitGl, InitDecoder, Decode, Snap, Reset, Save, Draw,
              Loop, GetSurface, Parse, Start, Unchanged
<1> QED BY <1>1, <1>2, <1>3, <1>4 DEF Next, Ui

LEMMA StartedGrows ==
  ASSUME ThreadsOK, Next
  PROVE  Started \subseteq Started'
<1>1. ASSUME NEW t \in Threads, NEW l \in Places \ {"none"}, Goto(t, l) PROVE Started \subseteq Started'
  BY <1>1, GotoTypes DEF Started
<1>2. CASE UNCHANGED pc
  BY <1>2 DEF Started
<1>3. "loop" \in Places \ {"none"}
  BY DEF Places
<1> QED BY <1>1, <1>2, <1>3, PlacesAfter, ThreadMoves

LEMMA AloneBefore ==
  ASSUME ThreadsOK, Next, Alone'
  PROVE  Alone
<1>1. Started \subseteq Started' /\ Started' \subseteq Threads /\ IsFiniteSet(Threads)
  BY StartedGrows, VideoDisplayAssumption DEF Started
<1>2. IsFiniteSet(Started') /\ IsFiniteSet(Started)
  BY <1>1, FS_Subset
<1>3. Cardinality(Started) \in Nat /\ Cardinality(Started') \in Nat /\ Cardinality(Started) <= Cardinality(Started')
  BY <1>1, <1>2, FS_Subset, FS_CardinalityType
<1> QED BY <1>3 DEF Alone

LEMMA AloneMeans ==
  ASSUME Alone
  PROVE  \A t, u \in Threads : pc[t] # "none" /\ pc[u] # "none" => t = u
<1> SUFFICES ASSUME NEW t \in Threads, NEW u \in Threads, pc[t] # "none", pc[u] # "none", t # u PROVE FALSE
  OBVIOUS
<1>1. {t, u} \subseteq Started /\ Started \subseteq Threads /\ IsFiniteSet(Threads)
  BY VideoDisplayAssumption DEF Started
<1>2. IsFiniteSet(Started)
  BY <1>1, FS_Subset
<1>3. Cardinality({t, u}) <= Cardinality(Started) /\ Cardinality(Started) \in Nat
  BY <1>1, <1>2, FS_Subset, FS_CardinalityType
<1>4. Cardinality({t, u}) = 2
  <2>1. IsFiniteSet({u}) /\ Cardinality({u}) = 1
    BY FS_Singleton
  <2>2. {t, u} = {u} \cup {t} /\ t \notin {u}
    OBVIOUS
  <2> QED BY <2>1, <2>2, FS_AddElement
<1> QED BY <1>3, <1>4 DEF Alone

-----------------------------------------------------------------------------
\* Every frame is decoded once.

\* The monitor tells which call is under way.
LEMMA InnerCalls ==
  MonitorInv =>
    /\ monitor = NoThread => ~Working /\ ~AtRemove
    /\ monitor = Net => Working /\ ~AtRemove
    /\ \A t \in Threads : pc[t] = "remove" => monitor = t /\ ~Working /\ AtRemove
    /\ \A t \in Threads : pc[t] = "resize" => monitor = t /\ Working /\ ~AtRemove
BY VideoDisplayAssumption DEF MonitorInv, Inside, Working, AtRemove

LEMMA Numbers ==
  ASSUME ListOK, BoundsOK
  PROVE  /\ count["frames"] \in Nat /\ Len(decoded) \in Nat /\ Len(Todo) \in Nat
         /\ \A i \in 1..Len(decoded) : decoded[i] \in Nat
         /\ \A t \in Threads : frame[t].n \in Nat
         /\ \A i \in 1..Len(Todo) : Listed(i) => Todo[i].n \in Nat
<1>1. Todo \in Seq(Frames \cup {Nulled})
  BY DEF ListOK, Todo
<1>2. Len(Todo) \in Nat /\ \A i \in 1..Len(Todo) : Todo[i] \in Frames \cup {Nulled}
  BY <1>1
<1> QED BY <1>2 DEF ListOK, BoundsOK, Counted, Listed, Frames

\* What is decoded and carried stays.
LEMMA FrameKept ==
  ASSUME FrameInv, ListOK, BoundsOK, BoundsOK', UNCHANGED <<decoded, frame>>, count'["frames"] >= count["frames"],
         \A t \in Threads : Carrying(t)' => Carrying(t), Alone' => Alone, MonitorInv',
         \A i \in 1..Len(Todo') : Listed(i)' => ListedOnce(i)'
  PROVE  FrameInv'
<1>1. count["frames"] \in Nat /\ count'["frames"] \in Nat
  BY DEF BoundsOK, Counted
<1>2. DecodedOnce'
  BY <1>1, Numbers DEF FrameInv, DecodedOnce, Before
<1>3. ASSUME NEW t \in Threads, Carrying(t)' PROVE CarriedOnce(t)'
  BY <1>1, <1>3, Numbers DEF FrameInv, CarriedOnce, Before
<1> QED BY <1>2, <1>3 DEF FrameInv

\* Steps that list nothing new.
LEMMA FrameThinned ==
  ASSUME FrameInv, ListOK, BoundsOK, BoundsOK', UNCHANGED <<decoded, frame>>, count'["frames"] >= count["frames"],
         \A t \in Threads : Carrying(t)' => Carrying(t), Alone' => Alone, MonitorInv',
         \A i \in 1..Len(Todo') : Listed(i)' => Listed(i) /\ Todo'[i] = Todo[i]
  PROVE  FrameInv'
<1>1. count["frames"] \in Nat /\ count'["frames"] \in Nat
  BY DEF BoundsOK, Counted
<1>2. ASSUME NEW i \in 1..Len(Todo'), Listed(i)' PROVE ListedOnce(i)'
  <2>1. Listed(i) /\ ListedOnce(i) /\ Todo'[i] = Todo[i] /\ i \in 1..Len(Todo)
    BY <1>2 DEF FrameInv, Listed
  <2>2. Todo[i].n <= count'["frames"]
    BY <1>1, <2>1, Numbers DEF ListedOnce
  <2>3. ASSUME NEW k \in 1..Len(Todo'), i < k, Listed(k)' PROVE Todo[i].n < Todo'[k].n
    <3>1. Listed(k) /\ Todo'[k] = Todo[k] /\ k \in 1..Len(Todo)
      BY <2>3 DEF Listed
    <3> QED BY <2>1, <2>3, <3>1 DEF ListedOnce
  <2> QED BY <2>1, <2>2, <2>3 DEF ListedOnce, Before
<1> QED BY <1>2, FrameKept

\* Steps that have nothing to do with frames.
LEMMA FrameSame ==
  ASSUME FrameInv, ListOK, BoundsOK, BoundsOK', UNCHANGED <<Videolist, work, monitor, decoded, frame>>,
         count'["frames"] >= count["frames"], Alone' => Alone, MovesElsewhere
  PROVE  FrameInv'
<1>1. MonitorInv' /\ Todo' = Todo /\ (AtRemove' <=> AtRemove)
  BY DEF FrameInv, MonitorInv, MovesElsewhere, Inside, Todo, Working, AtRemove
<1>2. \A i \in 1..Len(Todo') : Listed(i)' => Listed(i)
  BY <1>1 DEF Listed
<1> QED BY <1>1, <1>2, FrameThinned DEF MovesElsewhere

LEMMA FrameArrives ==
  ASSUME FrameInv, ListOK, BoundsOK, BoundsOK', Arrive
  PROVE  FrameInv'
<1>1. PICK r \in Resolutions : work' = Append(Videolist, [n |-> count'["frames"], type |-> r])
  BY DEF Arrive
<1>2. /\ UNCHANGED <<decoded, frame, pc>> /\ count'["frames"] = count["frames"] + 1
      /\ monitor = NoThread /\ monitor' = Net
  BY DEF Arrive, threads, Use, BoundsOK, Counted
<1>3. \A t \in Threads : Carrying(t)' <=> Carrying(t)
  BY <1>2 DEF Carrying
<1>4. Alone' <=> Alone
  BY <1>2 DEF Alone, Started
<1>9. MonitorInv'
  BY <1>2, VideoDisplayAssumption DEF FrameInv, MonitorInv
<1>11. Todo = Videolist /\ Todo' = work' /\ ~AtRemove /\ ~AtRemove'
  <2>1. ~Working /\ ~AtRemove
    BY <1>2, InnerCalls DEF FrameInv
  <2>2. Working' /\ ~AtRemove'
    BY <1>2, <2>1 DEF Working, AtRemove
  <2> QED BY <2>1, <2>2 DEF Todo
<1>5. count["frames"] \in Nat /\ Len(Todo) \in Nat
  BY Numbers
<1>6. Len(Todo') = Len(Todo) + 1 /\ Todo'[Len(Todo) + 1].n = count'["frames"]
      /\ \A i \in 1..Len(Todo) : Todo'[i] = Todo[i]
  <2> DEFINE e == [n |-> count'["frames"], type |-> r]
  <2>1. e.n = count'["frames"] /\ work' = Append(Videolist, e)
    BY <1>1
  <2> HIDE DEF e
  <2>2. Len(work') = Len(Videolist) + 1 /\ work'[Len(Videolist) + 1] = e
        /\ \A i \in 1..Len(Videolist) : work'[i] = Videolist[i]
    BY <2>1 DEF ListOK
  <2> QED BY <1>11, <2>1, <2>2
<1>7. \A i \in 1..Len(Todo) : Listed(i)' => Listed(i)
  BY <1>5, <1>6, <1>11 DEF Listed
<1>8. ASSUME NEW i \in 1..Len(Todo'), Listed(i)' PROVE ListedOnce(i)'
  <2>1. CASE i = Len(Todo) + 1
    <3>1. \A k \in 1..Len(decoded) : decoded[k] \in Nat /\ decoded[k] <= count["frames"]
      BY Numbers DEF FrameInv, DecodedOnce
    <3>2. \A t \in Threads : Carrying(t) => frame[t].n \in Nat /\ frame[t].n <= count["frames"]
      BY Numbers DEF FrameInv, CarriedOnce
    <3>3. Todo'[i].n = count["frames"] + 1
      BY <1>2, <1>6, <2>1
    <3>4. \A k \in 1..Len(Todo') : ~(i < k)
      BY <1>5, <1>6, <2>1
    <3>5. /\ Todo'[i].n <= count'["frames"]
          /\ \A k \in 1..Len(decoded) : decoded[k] # Todo'[i].n /\ decoded[k] < Todo'[i].n
          /\ \A t \in Threads : Carrying(t) => frame[t].n # Todo'[i].n /\ frame[t].n < Todo'[i].n
      BY <1>2, <1>5, <3>1, <3>2, <3>3
    <3> QED BY <1>2, <1>3, <3>4, <3>5 DEF ListedOnce, Before
  <2>2. CASE i # Len(Todo) + 1
    <3>1. i \in 1..Len(Todo) /\ Listed(i) /\ Todo'[i] = Todo[i]
      BY <1>5, <1>6, <1>7, <1>8, <2>2
    <3>2. ListedOnce(i) /\ Todo[i].n \in Nat /\ Todo[i].n <= count["frames"]
      BY <3>1, Numbers DEF FrameInv, ListedOnce
    <3>3. ASSUME NEW k \in 1..Len(Todo'), i < k, Listed(k)' PROVE Todo[i].n < Todo'[k].n
      <4>1. CASE k = Len(Todo) + 1
        BY <1>2, <1>5, <1>6, <3>2, <4>1
      <4>2. CASE k # Len(Todo) + 1
        <5>1. k \in 1..Len(Todo)
          BY <1>5, <1>6, <4>2
        <5> QED BY <1>6, <1>7, <3>1, <3>2, <3>3, <5>1 DEF ListedOnce
      <4> QED BY <4>1, <4>2
    <3>4. Todo[i].n <= count'["frames"]
      BY <1>2, <1>5, <3>2
    <3> QED BY <1>2, <1>3, <1>4, <3>1, <3>2, <3>3, <3>4 DEF ListedOnce, Before
  <2> QED BY <2>1, <2>2
<1>10. count'["frames"] >= count["frames"]
  BY <1>2, <1>5
<1> QED BY <1>2, <1>3, <1>4, <1>8, <1>9, <1>10, FrameKept

LEMMA FrameArrived ==
  ASSUME FrameInv, ListOK, BoundsOK, BoundsOK', Arrived
  PROVE  FrameInv'
<1>1. UNCHANGED <<decoded, frame, pc, count>> /\ monitor = Net /\ monitor' = NoThread /\ Videolist' = work
  BY DEF Arrived, threads, bounds
<1>2. Todo' = Todo /\ (AtRemove' <=> AtRemove)
  BY <1>1, InnerCalls, VideoDisplayAssumption DEF FrameInv, Todo, Working, AtRemove
<1>3. MonitorInv' /\ (Alone' => Alone) /\ \A t \in Threads : Carrying(t)' => Carrying(t)
  BY <1>1, VideoDisplayAssumption DEF FrameInv, MonitorInv, Alone, Started, Carrying
<1>4. \A i \in 1..Len(Todo') : Listed(i)' => Listed(i) /\ Todo'[i] = Todo[i]
  BY <1>2 DEF Listed
<1>5. count'["frames"] >= count["frames"]
  BY <1>1, Numbers
<1> QED BY <1>1, <1>3, <1>4, <1>5, FrameThinned

LEMMA FrameCleared ==
  ASSUME FrameInv, ListOK, BoundsOK, BoundsOK', Clear \/ Cleared
  PROVE  FrameInv'
<1>1. UNCHANGED <<decoded, frame, pc, monitor>> /\ count'["frames"] = count["frames"]
  BY DEF Clear, Cleared, threads, Use, bounds, BoundsOK, Counted
<1>2. (Working' <=> Working) /\ (AtRemove' <=> AtRemove)
  BY <1>1 DEF Working, AtRemove
<1>3. \A i \in 1..Len(Videolist') : Videolist'[i] = Nulled
  <2>1. CASE Clear
    BY <2>1 DEF Clear, ListOK
  <2>2. CASE Cleared
    BY <2>2 DEF Cleared
  <2> QED BY <2>1, <2>2
<1>4. Len(work') = Len(work) /\ \A i \in 1..Len(work') : work'[i] = work[i] \/ work'[i] = Nulled
  <2>1. CASE Clear
    <3>1. DOMAIN work = 1..Len(work) /\ Len(work) \in Nat
      BY DEF ListOK
    <3>2. PICK missed \in SUBSET DOMAIN work : work' = [i \in DOMAIN work |-> IF i \in missed THEN work[i] ELSE Nulled]
      BY <2>1 DEF Clear
    <3> QED BY <3>1, <3>2
  <2>2. CASE Cleared
    BY <2>2 DEF Cleared
  <2> QED BY <2>1, <2>2
<1>5. \A i \in 1..Len(Todo') : Listed(i)' => Listed(i) /\ Todo'[i] = Todo[i]
  BY <1>2, <1>3, <1>4 DEF Listed, Todo
<1>6. MonitorInv' /\ (Alone' => Alone) /\ \A t \in Threads : Carrying(t)' => Carrying(t)
  BY <1>1 DEF FrameInv, MonitorInv, Alone, Started, Carrying
<1>7. count'["frames"] >= count["frames"]
  BY <1>1, Numbers
<1> QED BY <1>1, <1>5, <1>6, <1>7, FrameThinned

LEMMA FrameTaken ==
  ASSUME FrameInv, ListOK, ThreadsOK, BoundsOK, BoundsOK', Alone' => Alone, NEW t \in Threads, Get(t)
  PROVE  FrameInv'
<1> USE DEF Places
<1>0. UNCHANGED <<Videolist, work, decoded>> /\ count'["frames"] = count["frames"] /\ pc[t] = "get" /\ monitor = NoThread
  BY DEF Get, bounds
<1>1. count'["frames"] >= count["frames"]
  BY <1>0, Numbers
<1>4. ~Working /\ ~AtRemove /\ Todo = Videolist
  BY <1>0, InnerCalls DEF FrameInv, Todo
<1>2. CASE Videolist = <<>> \/ Videolist[1] = Nulled
  <2>1. Goto(t, "loop") /\ UNCHANGED <<monitor, frame>>
    BY <1>2 DEF Get
  <2>2. MovesElsewhere
    BY <1>0, <2>1, GotoTypes DEF MovesElsewhere, Carrying, Carries
  <2> QED BY <1>0, <1>1, <2>1, <2>2, FrameSame
<1>3. CASE ~(Videolist = <<>> \/ Videolist[1] = Nulled)
  <2>1. Goto(t, "remove") /\ monitor' = t /\ frame' = [frame EXCEPT ![t] = Videolist[1]]
    BY <1>3 DEF Get
  <2>2. 1 \in 1..Len(Todo) /\ Listed(1)
    <3>1. 1 \in 1..Len(Videolist)
      BY <1>3 DEF ListOK
    <3> QED BY <1>3, <1>4, <3>1 DEF Listed
  <2>3. ListedOnce(1) /\ Todo[1].n \in Nat
    BY <2>2, Numbers DEF FrameInv
  <2>4. frame'[t] = Todo[1] /\ \A u \in Threads : u # t => frame'[u] = frame[u]
    BY <1>4, <2>1 DEF ListOK
  <2>5. /\ pc'[t] = "remove" /\ \A u \in Threads : u # t => pc'[u] = pc[u]
        /\ ~Carrying(t) /\ \A u \in Threads : u # t => (Carrying(u)' <=> Carrying(u))
    BY <1>0, <2>1, GotoTypes DEF Carrying, Carries
  <2>6. MonitorInv'
    <3>1. \A u \in Threads : pc[u] \notin Inside
      BY <1>0, VideoDisplayAssumption DEF FrameInv, MonitorInv
    <3> QED BY <2>1, <2>5, <3>1 DEF MonitorInv, Inside
  <2>10. AtRemove' /\ Todo' = Todo
    <3>1. monitor' # Net /\ \A u \in Threads : pc'[u] # "resize"
      BY <1>4, <2>1, <2>5, VideoDisplayAssumption DEF Working
    <3> QED BY <1>0, <1>4, <2>5, <3>1 DEF AtRemove, Todo, Working
  <2>7. DecodedOnce'
    BY <1>0 DEF FrameInv, DecodedOnce, Before
  <2>8. ASSUME NEW u \in Threads, Carrying(u)' PROVE CarriedOnce(u)'
    <3>1. CASE u = t
      <4>1. \A w \in Threads : w # t /\ Carrying(w)' => frame[w].n # Todo[1].n
        BY <2>3, <2>5 DEF ListedOnce, Before
      <4> QED BY <1>0, <2>3, <2>4, <3>1, <4>1 DEF CarriedOnce, ListedOnce, Before
    <3>2. CASE u # t
      <4>1. Carrying(u) /\ CarriedOnce(u) /\ frame'[u] = frame[u]
        BY <2>4, <2>5, <2>8, <3>2 DEF FrameInv
      <4>2. frame[u].n # Todo[1].n
        BY <2>3, <4>1 DEF ListedOnce, Before
      <4>3. ASSUME NEW w \in Threads, w # u, Carrying(w)' PROVE frame'[w].n # frame[u].n
        BY <2>4, <2>5, <4>1, <4>2, <4>3 DEF CarriedOnce
      <4> QED BY <1>0, <4>1, <4>3 DEF CarriedOnce, Before
    <3> QED BY <3>1, <3>2
  <2>9. ASSUME NEW i \in 1..Len(Todo), Listed(i)' PROVE ListedOnce(i)'
    <3>1. i # 1 /\ Listed(i) /\ i > 1
      BY <1>4, <2>9, <2>10, Numbers DEF Listed
    <3>2. ListedOnce(i)
      BY <3>1 DEF FrameInv
    <3>3. ASSUME NEW u \in Threads, Carrying(u)' PROVE Before(frame'[u].n, Todo[i].n)
      <4>1. CASE u = t
        <5>1. Todo[1].n < Todo[i].n /\ Todo[i].n \in Nat
          BY <2>3, <3>1, Numbers DEF ListedOnce
        <5> QED BY <2>3, <2>4, <4>1, <5>1 DEF Before
      <4>2. CASE u # t
        BY <2>4, <2>5, <3>2, <3>3, <4>2 DEF ListedOnce
      <4> QED BY <4>1, <4>2
    <3>4. \A k \in 1..Len(Todo) : Listed(k)' => Listed(k)
      BY <1>4, <2>10 DEF Listed
    <3> QED BY <1>0, <2>10, <3>2, <3>3, <3>4 DEF ListedOnce, Before
  <2> QED BY <1>0, <2>6, <2>7, <2>8, <2>9, <2>10 DEF FrameInv
<1> QED BY <1>2, <1>3

LEMMA FrameRemoved ==
  ASSUME FrameInv, ListOK, ThreadsOK, BoundsOK, BoundsOK', Alone' => Alone, NEW t \in Threads, Remove(t)
  PROVE  FrameInv'
<1> USE DEF Places
<1>0. /\ UNCHANGED <<frame, decoded, Videolist>> /\ count'["frames"] = count["frames"] /\ pc[t] = "remove"
  BY DEF Remove, bounds
<1>1. count'["frames"] >= count["frames"]
  BY <1>0, Numbers
<1>2. ~Working /\ monitor = t /\ Todo = Videolist /\ \A u \in Threads : u # t => pc[u] \notin Inside
  BY <1>0, InnerCalls DEF FrameInv, Todo, MonitorInv
<1>3. CASE Videolist = <<>>
  <2>1. Goto(t, "loop") /\ monitor' = NoThread
    BY <1>3 DEF Remove
  <2>2. pc'[t] = "loop" /\ \A u \in Threads : u # t => pc'[u] = pc[u]
    BY <2>1, GotoTypes
  <2>3. MonitorInv' /\ \A u \in Threads : Carrying(u)' => Carrying(u)
    BY <1>2, <2>1, <2>2, VideoDisplayAssumption DEF MonitorInv, Inside, Carrying, Carries
  <2>4. Todo' = <<>>
    BY <1>0, <1>2, <1>3, <2>1, <2>2, VideoDisplayAssumption DEF Todo, Working, Inside
  <2>5. \A i \in 1..Len(Todo') : FALSE
    BY <2>4
  <2> QED BY <1>0, <1>1, <2>3, <2>5, FrameKept
<1>4. CASE Videolist # <<>>
  <2>0. Goto(t, "resize") /\ monitor' = monitor /\ work' = Tail(Videolist)
    BY <1>4 DEF Remove
  <2>9. pc'[t] = "resize" /\ \A u \in Threads : u # t => pc'[u] = pc[u]
    BY <2>0, GotoTypes
  <2>8. MonitorInv' /\ \A u \in Threads : Carrying(u)' => Carrying(u)
    BY <1>0, <1>2, <2>0, <2>9 DEF MonitorInv, Inside, Carrying, Carries
  <2>7. Todo' = Tail(Todo)
    BY <1>2, <2>0, <2>9 DEF Todo, Working
  <2>1. /\ Len(Todo) \in Nat /\ Len(Todo) >= 1 /\ Len(Todo') = Len(Todo) - 1
        /\ \A i \in 1..Len(Todo') : Todo'[i] = Todo[i + 1]
    BY <1>2, <1>4, <2>7 DEF ListOK
  <2>2. \A i \in 1..Len(Todo') : i + 1 \in 1..Len(Todo) /\ i + 1 # 1
    BY <2>1
  <2>3. \A i \in 1..Len(Todo') : Listed(i)' => Listed(i + 1)
    BY <2>1, <2>2 DEF Listed
  <2>4. ASSUME NEW i \in 1..Len(Todo'), Listed(i)' PROVE ListedOnce(i)'
    <3>1. Listed(i + 1) /\ ListedOnce(i + 1) /\ Todo'[i] = Todo[i + 1]
      BY <2>1, <2>2, <2>3, <2>4 DEF FrameInv
    <3>2. ASSUME NEW k \in 1..Len(Todo'), i < k, Listed(k)' PROVE Todo'[i].n < Todo'[k].n
      <4>1. i + 1 < k + 1
        BY <3>2, <2>1
      <4> QED BY <2>1, <2>2, <2>3, <3>1, <3>2, <4>1 DEF ListedOnce
    <3> QED BY <1>0, <2>8, <3>1, <3>2 DEF ListedOnce, Before
  <2> QED BY <1>0, <1>1, <2>8, <2>4, FrameKept
<1> QED BY <1>3, <1>4

LEMMA FrameResized ==
  ASSUME FrameInv, ListOK, ThreadsOK, BoundsOK, BoundsOK', Alone' => Alone, NEW t \in Threads, Resize(t)
  PROVE  FrameInv'
<1> USE DEF Places
<1>0. /\ UNCHANGED <<frame, decoded, count>> /\ pc[t] = "resize" /\ Goto(t, "parse") /\ monitor' = NoThread
      /\ Videolist' = work \/ Videolist' = <<>>
  BY DEF Resize, bounds
<1>1. count'["frames"] >= count["frames"]
  BY <1>0, Numbers
<1>2. /\ Working /\ ~AtRemove /\ monitor = t /\ Todo = work
      /\ \A u \in Threads : u # t => pc[u] \notin Inside
  BY <1>0, InnerCalls DEF FrameInv, Todo, MonitorInv
<1>3. pc'[t] = "parse" /\ \A u \in Threads : u # t => pc'[u] = pc[u]
  BY <1>0, GotoTypes
<1>4. MonitorInv' /\ \A u \in Threads : Carrying(u)' => Carrying(u)
  BY <1>0, <1>2, <1>3, VideoDisplayAssumption DEF MonitorInv, Inside, Carrying, Carries
<1>5. Todo' = Videolist'
  BY <1>0, <1>2, <1>3, VideoDisplayAssumption DEF Todo, Working, Inside
<1>6. \A i \in 1..Len(Todo') : Listed(i)' => Listed(i) /\ Todo'[i] = Todo[i]
  <2>1. CASE Videolist' = work
    BY <1>2, <1>5, <2>1 DEF Listed
  <2>2. CASE Videolist' = <<>>
    BY <1>5, <2>2
  <2> QED BY <1>0, <2>1, <2>2
<1> QED BY <1>0, <1>1, <1>4, <1>6, FrameThinned

LEMMA FrameDecoded ==
  ASSUME FrameInv, ListOK, ThreadsOK, BoundsOK, BoundsOK', Alone' => Alone, NEW t \in Threads, Decode(t)
  PROVE  FrameInv'
<1> USE DEF Places
<1>0. /\ UNCHANGED <<Videolist, work, monitor, frame>> /\ count'["frames"] = count["frames"] /\ pc[t] = "decode"
      /\ decoded' = Append(decoded, frame[t].n)
  BY DEF Decode, list, bounds
<1>1. Goto(t, "snap") \/ Goto(t, "loop")
  <2>1. PICK got \in BOOLEAN : Goto(t, IF got THEN "snap" ELSE "loop")
    BY DEF Decode
  <2> QED BY <2>1
<1>2. MovesElsewhere /\ \A u \in Threads : Carrying(u)' => u # t
  BY <1>0, <1>1, GotoTypes DEF MovesElsewhere, Carrying, Carries
<1>10. MonitorInv' /\ Todo' = Todo /\ (AtRemove' <=> AtRemove)
  BY <1>0, <1>2 DEF FrameInv, MonitorInv, MovesElsewhere, Inside, Todo, Working, AtRemove
<1>3. Carrying(t) /\ CarriedOnce(t) /\ frame[t].n \in Nat
  BY <1>0, Numbers DEF Carrying, Carries, FrameInv
<1>4. /\ Len(decoded) \in Nat /\ Len(decoded') = Len(decoded) + 1 /\ decoded'[Len(decoded) + 1] = frame[t].n
      /\ \A i \in 1..Len(decoded) : decoded'[i] = decoded[i]
  BY <1>0, <1>3 DEF ListOK
<1>5. \A i \in 1..Len(decoded') : i \in 1..Len(decoded) \/ i = Len(decoded) + 1
  BY <1>4
<1>6. DecodedOnce'
  <2>1. ASSUME NEW i \in 1..Len(decoded'), NEW k \in 1..Len(decoded'), i < k
        PROVE  decoded'[i] # decoded'[k] /\ (Alone' => decoded'[i] < decoded'[k])
    <3>1. i \in 1..Len(decoded)
      BY <1>4, <2>1
    <3>2. CASE k = Len(decoded) + 1
      BY <1>3, <1>4, <3>1, <3>2 DEF CarriedOnce, Before
    <3>3. CASE k \in 1..Len(decoded)
      BY <1>4, <2>1, <3>1, <3>3 DEF FrameInv, DecodedOnce, Before
    <3> QED BY <1>5, <3>2, <3>3
  <2>2. ASSUME NEW i \in 1..Len(decoded') PROVE decoded'[i] <= count'["frames"]
    BY <1>0, <1>3, <1>4, <1>5 DEF FrameInv, DecodedOnce, CarriedOnce
  <2> QED BY <2>1, <2>2 DEF DecodedOnce, Before
<1>7. ASSUME NEW u \in Threads, Carrying(u)' PROVE CarriedOnce(u)'
  <2>1. Carrying(u) /\ u # t /\ CarriedOnce(u)
    BY <1>2, <1>7 DEF FrameInv, MovesElsewhere
  <2>2. ~Alone'
    BY <1>0, <2>1, AloneMeans DEF Carrying, Carries
  <2>3. frame[t].n # frame[u].n
    BY <1>3, <2>1 DEF CarriedOnce
  <2>4. \A i \in 1..Len(decoded') : decoded'[i] # frame[u].n
    BY <1>4, <1>5, <2>1, <2>3 DEF CarriedOnce, Before
  <2> QED BY <1>0, <1>2, <2>1, <2>2, <2>4 DEF CarriedOnce, Before, MovesElsewhere
<1>8. ASSUME NEW i \in 1..Len(Todo), Listed(i)' PROVE ListedOnce(i)'
  <2>1. Listed(i) /\ ListedOnce(i)
    BY <1>10, <1>8 DEF FrameInv, Listed
  <2>2. \A k \in 1..Len(decoded') : decoded'[k] # Todo[i].n /\ (Alone' => decoded'[k] < Todo[i].n)
    BY <1>3, <1>4, <1>5, <2>1 DEF ListedOnce, Before
  <2>3. \A k \in 1..Len(Todo) : Listed(k)' => Listed(k)
    BY <1>10 DEF Listed
  <2> QED BY <1>0, <1>2, <1>10, <2>1, <2>2, <2>3 DEF ListedOnce, Before, MovesElsewhere
<1> QED BY <1>0, <1>6, <1>7, <1>8, <1>10 DEF FrameInv

LEMMA FrameStep == TypeInv /\ FrameInv /\ [Next]_vars => FrameInv'
<1> USE DEF Places
<1>1. ASSUME TypeInv, FrameInv, UNCHANGED vars PROVE FrameInv'
  <2>1. UNCHANGED <<Videolist, work, monitor, decoded, frame, pc, count>>
    BY <1>1 DEF vars, list, threads, bounds
  <2>2. /\ ListOK /\ BoundsOK /\ BoundsOK' /\ count'["frames"] >= count["frames"]
    <3>1. ListOK /\ BoundsOK
      BY <1>1, TypesSplit
    <3> QED BY <1>1, <2>1, <3>1, Numbers DEF BoundsOK, vars, bounds
  <2>3. (Alone' => Alone) /\ MovesElsewhere
    BY <2>1 DEF Alone, Started, Carrying, MovesElsewhere
  <2> QED BY <1>1, <2>1, <2>2, <2>3, FrameSame
<1>2. ASSUME TypeInv, FrameInv, Next PROVE FrameInv'
  <2>1. Bools /\ FieldsOK /\ ThreadsOK /\ ListOK /\ BoundsOK
    BY <1>2, TypesSplit
  <2>2. BoundsOK' /\ count'["frames"] >= count["frames"] /\ (Alone' => Alone)
    BY <1>2, <2>1, StepBounds, AloneBefore DEF Counted
  <2>3. ASSUME UNCHANGED <<Videolist, work, monitor, decoded, frame, pc>> PROVE FrameInv'
    BY <1>2, <2>1, <2>2, <2>3, FrameSame DEF Carrying, MovesElsewhere
  <2>4. CASE Click \/ Copied \/ SetSnapShot
    BY <2>3, <2>4 DEF Click, Copied, SetSnapShot, list, threads
  <2>5. ASSUME NEW v \in Views, SurfaceCreated(v) \/ SurfaceDestroyed(v) PROVE FrameInv'
    BY <2>3, <2>5 DEF SurfaceCreated, SurfaceDestroyed, list, threads
  <2>6. ASSUME NEW v \in Views, SurfaceChanged(v) PROVE FrameInv'
    <3>1. UNCHANGED <<Videolist, work, monitor, decoded, frame>>
      BY <2>6 DEF SurfaceChanged, list
    <3>2. ASSUME NEW t \in Threads \ Started, Goto(t, "loop")
          PROVE  MovesElsewhere
      BY <2>1, <3>2, GotoTypes DEF MovesElsewhere, Carrying, Carries, Started
    <3>3. UNCHANGED pc \/ \E t \in Threads \ Started : Goto(t, "loop")
      BY <2>6 DEF SurfaceChanged
    <3> QED BY <1>2, <2>1, <2>2, <2>3, <3>1, <3>2, <3>3, FrameSame
  <2>7. ASSUME NEW t \in Threads, Elsewhere(t) PROVE FrameInv'
    BY <1>2, <2>1, <2>2, <2>7, ElsewhereKeeps, FrameSame
  <2> QED BY <1>2, <2>1, <2>2, <2>4, <2>5, <2>6, <2>7, FrameArrives, FrameArrived, FrameCleared, FrameTaken,
             FrameRemoved, FrameResized, FrameDecoded DEF Next, Ui, DecoderStep, Elsewhere
<1> QED BY <1>1, <1>2

LEMMA FrameInit == Init => FrameInv
<1> SUFFICES ASSUME Init PROVE FrameInv
  OBVIOUS
<1>1. \A t \in Threads : monitor # t /\ pc[t] = "none"
  BY VideoDisplayAssumption DEF Init
<1>2. Len(decoded) = 0 /\ Todo = <<>>
  BY DEF Init, Todo
<1> QED BY <1>1, <1>2 DEF FrameInv, MonitorInv, Inside, DecodedOnce, Carrying, Carries

LEMMA TypesAlways == Spec => []TypeInv
  BY TypesInit, TypesStep, PTL DEF Spec

\* In every behaviour, however many threads decode and whatever is cleared in
\* between, no frame is decoded twice; one thread alone decodes the frames in
\* the order in which they came.
THEOREM EachFrameDecodedOnce == Spec => []DecodedInOrder
<1>1. FrameInv /\ TypeInv => DecodedInOrder
  <2> SUFFICES ASSUME FrameInv, TypeInv PROVE DecodedInOrder
    OBVIOUS
  <2>1. DOMAIN decoded = 1..Len(decoded)
    BY DEF TypeInv
  <2> QED BY <2>1 DEF FrameInv, DecodedOnce, Before, DecodedInOrder
<1> QED BY <1>1, FrameInit, FrameStep, TypesAlways, PTL DEF Spec

-----------------------------------------------------------------------------
\* One thread at a time is inside a native section.

LEMMA SectionStep == TypeInv /\ SectionInv /\ [Next]_vars => SectionInv'
<1> USE DEF Places
<1>1. ASSUME SectionInv, UNCHANGED <<pc, glMutex, remade>> PROVE SectionInv'
  BY <1>1 DEF SectionInv, InGl
<1>2. ASSUME TypeInv, SectionInv, Next PROVE SectionInv'
  <2>0. ThreadsOK /\ Bools
    BY <1>2, TypesSplit
  <2>1. ASSUME NEW t \in Threads, NEW l \in Places, Goto(t, l), UNCHANGED <<glMutex, remade>>,
               pc[t] \notin {"changeIn", "initIn", "drawIn"}, l \notin {"changeIn", "initIn", "drawIn"}
        PROVE  SectionInv'
    <3>1. InGl' = InGl
      BY <2>0, <2>1, GotoTypes DEF InGl
    <3> QED BY <1>2, <2>1, <3>1 DEF SectionInv
  <2>2. CASE Arrive \/ Arrived \/ Clear \/ Cleared \/ Click \/ Copied \/ SetSnapShot
    BY <1>1, <1>2, <2>2 DEF Arrive, Arrived, Clear, Cleared, Click, Copied, SetSnapShot, threads, mutex
  <2>3. ASSUME NEW v \in Views, SurfaceCreated(v) \/ SurfaceDestroyed(v) PROVE SectionInv'
    BY <1>1, <1>2, <2>3 DEF SurfaceCreated, SurfaceDestroyed, threads, mutex
  <2>4. ASSUME NEW v \in Views, SurfaceChanged(v) PROVE SectionInv'
    <3>1. UNCHANGED pc \/ \E t \in Threads \ Started : Goto(t, "loop")
      BY <2>4 DEF SurfaceChanged
    <3>2. \A t \in Threads \ Started : pc[t] = "none"
      BY DEF Started
    <3> QED BY <1>1, <1>2, <2>1, <2>4, <3>1, <3>2 DEF SurfaceChanged, mutex
  <2>5. ASSUME NEW t \in Threads, Lock(t) PROVE SectionInv'
    <3>1. ~glMutex /\ glMutex' = TRUE /\ UNCHANGED remade
      BY <2>5 DEF Lock
    <3>2. PICK l \in Places : Goto(t, l)
      BY <2>0, <2>5, ThreadMoves DEF DecoderStep
    <3>3. InGl' \subseteq InGl \cup {t}
      BY <2>0, <3>2, GotoTypes DEF InGl
    <3> QED BY <1>2, <3>1, <3>3 DEF SectionInv
  <2>6. ASSUME NEW t \in Threads, Change(t) \/ InitGl(t) \/ Draw(t) PROVE SectionInv'
    <3>1. t \in InGl /\ glMutex' = FALSE /\ UNCHANGED remade
      BY <2>6 DEF Change, InitGl, Draw, Unlock, InGl
    <3>2. Goto(t, "look") \/ Goto(t, "initDecoder") \/ Goto(t, "loop")
      BY <2>6 DEF Change, InitGl, Draw
    <3>3. InGl' = InGl \ {t}
      BY <2>0, <3>2, GotoTypes DEF InGl
    <3> QED BY <1>2, <3>1, <3>3 DEF SectionInv
  <2>7. ASSUME NEW t \in Threads, InitDecoder(t) PROVE SectionInv'
    <3>1. remade' = (remade \/ InGl # {}) /\ pc[t] = "initDecoder" /\ Goto(t, "decode")
      BY <2>7 DEF InitDecoder
    <3>2. InGl' = InGl
      BY <2>0, <3>1, GotoTypes DEF InGl
    <3> QED BY <1>2, <3>1, <3>2 DEF SectionInv
  <2>8. ASSUME NEW t \in Threads, Look(t) \/ Get(t) \/ Remove(t) \/ Resize(t) \/ Snap(t) \/ Reset(t) \/ Save(t)
        PROVE  SectionInv'
    BY <2>1, <2>8 DEF Look, Get, Remove, Resize, Snap, Reset, Save, mutex
  <2>9. ASSUME NEW t \in Threads, Decode(t) PROVE SectionInv'
    <3>1. PICK got \in BOOLEAN : Goto(t, IF got THEN "snap" ELSE "loop")
      BY <2>9 DEF Decode
    <3>2. Goto(t, "snap") \/ Goto(t, "loop")
      BY <3>1
    <3> QED BY <2>1, <2>9, <3>2 DEF Decode, mutex
  <2>10. ASSUME NEW t \in Threads, NEW v \in Views,
                Loop(t, v) \/ GetSurface(t, v) \/ Parse(t, v) \/ Start(t, v) \/ Unchanged(t, v)
         PROVE  SectionInv'
    BY <2>1, <2>10 DEF Loop, GetSurface, Parse, Start, Unchanged, mutex
  <2> QED BY <1>2, <2>2, <2>3, <2>4, <2>5, <2>6, <2>7, <2>8, <2>9, <2>10 DEF Next, Ui, DecoderStep
<1> QED BY <1>1, <1>2 DEF vars, threads, mutex

LEMMA SectionsExclude == SectionInv => NativeSectionsExclude
<1> SUFFICES ASSUME SectionInv, ~remade PROVE ~(Cardinality(InGl) > 1)
  BY DEF NativeSectionsExclude
<1>1. CASE InGl = {}
  BY <1>1, FS_EmptySet
<1>2. CASE InGl # {}
  <2>1. PICK t \in InGl : InGl = {t}
    BY <1>2 DEF SectionInv
  <2> QED BY <2>1, FS_Singleton
<1> QED BY <1>1, <1>2

LEMMA SectionInit == Init => SectionInv
BY DEF Init, SectionInv, InGl

-----------------------------------------------------------------------------
\* Pictures that were asked for.

LEMMA PictureInit == Init => PictureInv
BY DEF Init, PictureInv, LastRequestSaved

LEMMA PictureStep == TypeInv /\ PictureInv /\ [Next]_vars => PictureInv'
<1>1. ASSUME TypeInv, PictureInv, Next PROVE PictureInv'
  <2>0. ThreadsOK /\ BoundsOK
    BY <1>1, TypesSplit
  <2>1. ASSUME UNCHANGED <<IsSnapShot, FileName_Jpg, saved>>, count'["clicks"] = count["clicks"],
               ui' = ui \/ {ui, ui'} \subseteq {"idle", "created", "clear"},
               \A u \in Threads : pc[u] = "save" => pc'[u] = "save"
        PROVE  PictureInv'
    BY <1>1, <2>1 DEF PictureInv, LastRequestSaved
  <2>2. ASSUME NEW what \in Counted, what # "clicks", Use(what) PROVE count'["clicks"] = count["clicks"]
    BY <2>0, <2>2 DEF Use, BoundsOK, Counted
  <2>3. ASSUME NEW t \in Threads, NEW l \in Places, Goto(t, l), pc[t] # "save" \/ l = "save"
        PROVE  \A u \in Threads : pc[u] = "save" => pc'[u] = "save"
    BY <2>0, <2>3, GotoTypes
  <2>4. CASE Arrive \/ Arrived \/ Clear \/ Cleared
    <3>1. UNCHANGED <<IsSnapShot, FileName_Jpg, saved, pc>> /\ (ui' = ui \/ {ui, ui'} \subseteq {"idle", "created", "clear"})
      BY <2>4 DEF Arrive, Arrived, Clear, Cleared, snap, threads
    <3>2. count'["clicks"] = count["clicks"]
      BY <2>2, <2>4 DEF Arrive, Arrived, Clear, Cleared, bounds, Counted
    <3> QED BY <2>1, <3>1, <3>2
  <2>5. CASE Click \/ Copied \/ SetSnapShot
    BY <1>1, <2>5 DEF Click, Copied, SetSnapShot, PictureInv, LastRequestSaved, bounds
  <2>6. ASSUME NEW v \in Views, SurfaceCreated(v) \/ SurfaceDestroyed(v) PROVE PictureInv'
    <3>1. UNCHANGED <<IsSnapShot, FileName_Jpg, saved, pc>> /\ (ui' = ui \/ {ui, ui'} \subseteq {"idle", "created", "clear"})
      BY <2>6 DEF SurfaceCreated, SurfaceDestroyed, snap, threads
    <3>2. count'["clicks"] = count["clicks"]
      BY <2>2, <2>6 DEF SurfaceCreated, SurfaceDestroyed, bounds, Counted
    <3> QED BY <2>1, <3>1, <3>2
  <2>7. ASSUME NEW v \in Views, SurfaceChanged(v) PROVE PictureInv'
    <3>1. UNCHANGED <<IsSnapShot, FileName_Jpg, saved>> /\ {ui, ui'} \subseteq {"idle", "created", "clear"}
      BY <2>7 DEF SurfaceChanged, snap
    <3>2. count'["clicks"] = count["clicks"]
      BY <2>2, <2>7 DEF SurfaceChanged, bounds, Counted
    <3>3. UNCHANGED pc \/ \E t \in Threads \ Started : Goto(t, "loop")
      BY <2>7 DEF SurfaceChanged
    <3>4. \A t \in Threads \ Started : pc[t] = "none"
      BY DEF Started
    <3>5. \A u \in Threads : pc[u] = "save" => pc'[u] = "save"
      BY <2>3, <3>3, <3>4 DEF Places
    <3> QED BY <2>1, <3>1, <3>2, <3>5
  <2>8. ASSUME NEW t \in Threads, DecoderStep(t) PROVE PictureInv'
    <3>1. UNCHANGED <<ui, count>>
      BY <2>8 DEF DecoderStep, Lock, Change, Look, Get, Remove, Resize, InitGl, InitDecoder, Decode, Snap, Reset, Save,
                  Draw, Loop, GetSurface, Parse, Start, Unchanged, bounds
    <3>2. CASE Reset(t)
      <4>1. pc'[t] = "save" /\ UNCHANGED FileName_Jpg
        BY <2>0, <3>2, GotoTypes DEF Reset, Places
      <4> QED BY <1>1, <3>1, <4>1 DEF PictureInv, LastRequestSaved
    <3>3. CASE Save(t)
      <4>1. saved' = saved \cup {FileName_Jpg} /\ UNCHANGED <<IsSnapShot, FileName_Jpg>>
        BY <3>3 DEF Save
      <4> QED BY <1>1, <3>1, <4>1 DEF PictureInv, LastRequestSaved
    <3>4. CASE ~Reset(t) /\ ~Save(t)
      <4>1. UNCHANGED <<IsSnapShot, FileName_Jpg, saved>>
        BY <2>8, <3>4 DEF DecoderStep, Lock, Change, Look, Get, Remove, Resize, InitGl, InitDecoder, Decode, Snap,
                          Draw, Loop, GetSurface, Parse, Start, Unchanged, snap
      <4>2. pc[t] # "save"
        BY <2>8, <3>4 DEF DecoderStep, Lock, Waiting, Change, Look, Get, Remove, Resize, InitGl, InitDecoder, Decode, Snap,
                          Draw, Loop, GetSurface, Parse, Start, Unchanged
      <4>3. PICK l \in Places : Goto(t, l)
        BY <2>0, <2>8, ThreadMoves
      <4>4. \A u \in Threads : pc[u] = "save" => pc'[u] = "save"
        BY <2>3, <4>2, <4>3
      <4> QED BY <2>1, <3>1, <4>1, <4>4
    <3> QED BY <3>2, <3>3, <3>4
  <2> QED BY <1>1, <2>4, <2>5, <2>6, <2>7, <2>8 DEF Next, Ui
<1>2. ASSUME PictureInv, UNCHANGED vars PROVE PictureInv'
  BY <1>2 DEF PictureInv, LastRequestSaved, vars, threads, snap, bounds
<1> QED BY <1>1, <1>2

-----------------------------------------------------------------------------
\* Nulls in the list.

NullStays == /\ (Working' => Working) /\ UNCHANGED <<Videolist, work, overlapped>>
             /\ ui' # "clear" => ui # "clear"

LEMMA NullInit == Init => NullInv
BY DEF Init, NullInv, Working

LEMMA NullStep == TypeInv /\ NullInv /\ [Next]_vars => NullInv'
<1> USE DEF Places
<1>1. ASSUME NullInv, NullStays PROVE NullInv'
  BY <1>1 DEF NullInv, NullStays
<1>2. ASSUME TypeInv, NullInv, Next PROVE NullInv'
  <2>0. ThreadsOK /\ ListOK
    BY <1>2, TypesSplit
  <2>1. CASE Arrive
    <3>1. PICK r \in Resolutions : work' = Append(Videolist, [n |-> count'["frames"], type |-> r])
      BY <2>1 DEF Arrive
    <3>2. [n |-> count'["frames"], type |-> r] # Nulled
      <4>1. count'["frames"] \in Nat
        BY <1>2, <2>1 DEF Arrive, Use, TypeInv, Counted
      <4> QED BY <4>1, VideoDisplayAssumption
    <3>3. (\A i \in DOMAIN Videolist : Videolist[i] # Nulled) => \A i \in DOMAIN work' : work'[i] # Nulled
      <4> DEFINE e == [n |-> count'["frames"], type |-> r]
      <4>1. e # Nulled /\ work' = Append(Videolist, e)
        BY <3>1, <3>2
      <4> HIDE DEF e
      <4>2. DOMAIN Videolist = 1..Len(Videolist) /\ Len(Videolist) \in Nat
        BY <2>0 DEF ListOK
      <4> QED BY <4>1, <4>2, <2>0 DEF ListOK
    <3> QED BY <1>2, <2>1, <3>3 DEF Arrive, NullInv
  <2>2. CASE Arrived
    <3>1. monitor = Net
      BY <2>2 DEF Arrived
    <3> QED BY <1>2, <2>2, <3>1 DEF Arrived, NullInv, Working
  <2>3. CASE Clear
    BY <2>3 DEF Clear, NullInv
  <2>4. CASE Cleared
    <3>1. Working' <=> Working
      BY <2>4 DEF Cleared, threads, Working
    <3>2. \A i \in DOMAIN Videolist' : FALSE
      BY <2>4 DEF Cleared
    <3>3. ~overlapped' => ~Working
      BY <2>4 DEF Cleared
    <3> QED BY <3>1, <3>2, <3>3 DEF NullInv
  <2>5. CASE Click \/ Copied \/ SetSnapShot
    BY <1>1, <1>2, <2>5 DEF Click, Copied, SetSnapShot, threads, list, NullStays, Working
  <2>6. ASSUME NEW v \in Views, SurfaceCreated(v) \/ SurfaceDestroyed(v) PROVE NullInv'
    BY <1>1, <1>2, <2>6 DEF SurfaceCreated, SurfaceDestroyed, threads, list, NullStays, Working
  <2>7. ASSUME NEW v \in Views, SurfaceChanged(v) PROVE NullInv'
    <3>1. ASSUME NEW t \in Threads, Goto(t, "loop") PROVE \A u \in Threads : pc'[u] = "resize" => pc[u] = "resize"
      BY <2>0, <3>1, GotoTypes
    <3>2. \A u \in Threads : pc'[u] = "resize" => pc[u] = "resize"
      BY <2>7, <3>1 DEF SurfaceChanged
    <3> QED BY <1>1, <1>2, <2>7, <3>2 DEF SurfaceChanged, list, NullStays, Working
  <2>8. ASSUME NEW t \in Threads, Elsewhere(t) \/ Get(t) \/ Decode(t) PROVE NullInv'
    <3>1. CASE Elsewhere(t)
      <4>1. UNCHANGED ui
        BY <3>1 DEF Elsewhere, Lock, Change, Look, InitGl, InitDecoder, Snap, Reset, Save, Draw, Loop, GetSurface,
                    Parse, Start, Unchanged
      <4> QED BY <1>1, <1>2, <2>0, <3>1, <4>1, ElsewhereKeeps DEF MovesElsewhere, NullStays, Working
    <3>2. CASE Get(t)
      <4>1. Goto(t, "loop") \/ Goto(t, "remove")
        BY <3>2 DEF Get
      <4>2. \A u \in Threads : pc'[u] = "resize" => pc[u] = "resize"
        BY <2>0, <4>1, GotoTypes
      <4>3. monitor' # Net /\ UNCHANGED <<Videolist, work, overlapped, ui>>
        BY <3>2, VideoDisplayAssumption DEF Get
      <4> QED BY <1>1, <1>2, <4>2, <4>3 DEF NullStays, Working
    <3>3. CASE Decode(t)
      <4>1. PICK got \in BOOLEAN : Goto(t, IF got THEN "snap" ELSE "loop")
        BY <3>3 DEF Decode
      <4>2. Goto(t, "snap") \/ Goto(t, "loop")
        BY <4>1
      <4>3. \A u \in Threads : pc'[u] = "resize" => pc[u] = "resize"
        BY <2>0, <4>2, GotoTypes
      <4> QED BY <1>1, <1>2, <3>3, <4>3 DEF Decode, list, NullStays, Working
    <3> QED BY <2>8, <3>1, <3>2, <3>3
  <2>9. ASSUME NEW t \in Threads, Remove(t) PROVE NullInv'
    <3>1. CASE Videolist = <<>>
      <4>1. Goto(t, "loop")
        BY <2>9, <3>1 DEF Remove
      <4>2. \A u \in Threads : pc'[u] = "resize" => pc[u] = "resize"
        BY <2>0, <4>1, GotoTypes
      <4>3. monitor' # Net /\ UNCHANGED <<Videolist, work, overlapped, ui>>
        BY <2>9, <3>1, VideoDisplayAssumption DEF Remove
      <4> QED BY <1>1, <1>2, <4>2, <4>3 DEF NullStays, Working
    <3>2. CASE Videolist # <<>>
      <4>1. work' = Tail(Videolist) /\ UNCHANGED <<Videolist, overlapped, ui>>
        BY <2>9, <3>2 DEF Remove
      <4>2. (\A i \in DOMAIN Videolist : Videolist[i] # Nulled) => \A i \in DOMAIN work' : work'[i] # Nulled
        <5>1. DOMAIN Videolist = 1..Len(Videolist) /\ Len(Videolist) \in Nat
          BY <2>0 DEF ListOK
        <5> QED BY <2>0, <3>2, <4>1, <5>1 DEF ListOK
      <4> QED BY <1>2, <4>1, <4>2 DEF NullInv
    <3> QED BY <3>1, <3>2
  <2>10. ASSUME NEW t \in Threads, Resize(t) PROVE NullInv'
    <3>1. Working
      BY <2>10 DEF Resize, Working
    <3> QED BY <1>2, <2>10, <3>1 DEF Resize, NullInv
  <2> QED BY <1>2, <2>1, <2>2, <2>3, <2>4, <2>5, <2>6, <2>7, <2>8, <2>9, <2>10 DEF Next, Ui, DecoderStep, Elsewhere
<1>3. ASSUME NullInv, UNCHANGED vars PROVE NullInv'
  BY <1>1, <1>3 DEF vars, threads, list, NullStays, Working
<1> QED BY <1>2, <1>3

-----------------------------------------------------------------------------
\* Whatever views, threads, frames and clicks there are: everything has its
\* type, two decoding threads are inside the native sections at once only after
\* jvideo_decode_init() has made th_mutex_lock anew under one of them, the last
\* picture that jlocal_SnapShot() was asked for is saved under its name or still
\* to be saved, and a null at which run() spins is left in Videolist only by a
\* clear() that ended during an add() or remove(0).
THEOREM DisplayIsSafe == Spec => []DisplaySafe
<1>1. Init => SectionInv /\ PictureInv /\ NullInv
  BY SectionInit, PictureInit, NullInit
<1>2. TypeInv /\ (SectionInv /\ PictureInv /\ NullInv) /\ [Next]_vars => (SectionInv /\ PictureInv /\ NullInv)'
  BY SectionStep, PictureStep, NullStep
<1>3. TypeInv /\ SectionInv /\ PictureInv /\ NullInv => DisplaySafe
  BY SectionsExclude DEF TypeInv, PictureInv, NullInv, NullsOnlyAfterOverlap, DisplaySafe
<1> QED BY <1>1, <1>2, <1>3, TypesAlways, PTL DEF Spec

-----------------------------------------------------------------------------
\* The Surface there is, and what the decoding threads have seen of it.

LEMMA SurfaceInit == Init => SurfaceInv
BY VideoDisplayAssumption DEF Init, GlInit, SurfaceInv, Started

\* eglMakeCurrent touches the calling thread only.
LEMMA MakeOthers ==
  ASSUME NEW t \in Threads, NEW w, NEW kept, NEW bound \in [Threads -> Nat], MakeWindow(t, w, kept, bound)
  PROVE  \A u \in Threads : u # t => current'[u] = bound[u]
<1>1. current' \in {bound, [bound EXCEPT ![t] = NoWindow], [bound EXCEPT ![t] = w]}
  BY DEF MakeWindow
<1> QED BY <1>1

\* and succeeds if the window is there and nothing is bound to it.
LEMMA MakeSucceeds ==
  ASSUME NEW t \in Threads, NEW w, NEW kept, NEW bound \in [Threads -> Nat], MakeWindow(t, w, kept, bound),
         w \in alive, w \notin kept, \A u \in Threads : bound[u] # w
  PROVE  eglWindow' = w /\ current'[t] = w
BY DEF MakeWindow

LEMMA SurfaceStep == TypeInv /\ SurfaceInv /\ [Next]_vars => SurfaceInv'
<1>1. ASSUME SurfaceInv, UNCHANGED <<gl, holder, inits, recType, startDecodeThread>>,
             \A t \in Started : t \in Started' /\ view'[t] = view[t],
             \A t \in Threads : pc'[t] # "none" => view'[t] \in Views
      PROVE  SurfaceInv'
  <2>1. \A v \in Views : (\A t \in Started' : view'[t] # v) => (\A t \in Started : view[t] # v)
    BY <1>1
  <2>2. \A t \in Threads : pc'[t] = "none" => pc[t] = "none"
    BY <1>1 DEF Started
  <2>3. Started' = {} => Started = {}
    BY <1>1
  <2> QED BY <1>1, <2>1, <2>2, <2>3 DEF SurfaceInv, gl
<1>2. ASSUME TypeInv, SurfaceInv, Next PROVE SurfaceInv'
  <2>0. ThreadsOK /\ GlOK /\ FieldsOK /\ BoundsOK /\ NoWindow = 0
    BY <1>2, TypesSplit, VideoDisplayAssumption
  <2>1. Started \subseteq Started'
    BY <1>2, <2>0, StartedGrows
  <2>2. \A t \in Started : view'[t] = view[t]
    <3>1. ASSUME NEW s \in Threads \ Started, NEW v \in Views, view' = [view EXCEPT ![s] = v]
          PROVE  \A t \in Started : view'[t] = view[t]
      BY <2>0, <3>1 DEF ThreadsOK, Started
    <3> QED
      <4>1. UNCHANGED view \/ \E s \in Threads \ Started, v \in Views : view' = [view EXCEPT ![s] = v]
        BY <1>2, <2>0 DEF Next, Ui, Arrive, Arrived, Clear, Cleared, Click, Copied, SetSnapShot, SurfaceCreated, SurfaceChanged,
             SurfaceDestroyed, DecoderStep, Lock, Change, Look, Get, Remove, Resize, InitGl, InitDecoder, Decode, Snap, Reset,
             Save, Draw, Loop, GetSurface, Parse, Start, Unchanged, threads
      <4> QED BY <3>1, <4>1
  <2>3. ASSUME UNCHANGED view, NEW t \in Threads, pc[t] # "none", \A u \in Threads : u # t => pc'[u] = pc[u]
        PROVE  \A u \in Threads : pc'[u] # "none" => view'[u] \in Views
    BY <1>2, <2>3 DEF SurfaceInv
  <2>4. CASE Arrive \/ Arrived \/ Clear \/ Cleared \/ Click \/ Copied \/ SetSnapShot
    <3>1. UNCHANGED <<gl, holder, inits, recType, startDecodeThread, pc, view>>
      BY <2>4 DEF Arrive, Arrived, Clear, Cleared, Click, Copied, SetSnapShot, threads, fields
    <3>2. \A t \in Threads : pc'[t] # "none" => view'[t] \in Views
      BY <1>2, <3>1 DEF SurfaceInv
    <3> QED BY <1>1, <1>2, <2>1, <2>2, <3>1, <3>2
  <2>5. ASSUME NEW v \in Views, SurfaceCreated(v) PROVE SurfaceInv'
    <3>1. /\ \A u \in Views : holder[u] = NoWindow
          /\ holder' = [holder EXCEPT ![v] = count'["windows"]] /\ alive' = {count'["windows"]}
          /\ UNCHANGED <<eglWindow, made, current, recType, startDecodeThread, inits, pc, view>>
      BY <2>5 DEF SurfaceCreated, threads
    <3>2. Started' = Started
      BY <3>1 DEF Started
    <3>3. \A u \in Views : holder'[u] # NoWindow => u = v /\ alive' = {holder'[u]}
      BY <2>0, <3>1 DEF FieldsOK
    <3> QED BY <1>2, <3>1, <3>2, <3>3 DEF SurfaceInv
  <2>6. ASSUME NEW v \in Views, SurfaceDestroyed(v) PROVE SurfaceInv'
    <3>1. /\ holder[v] # NoWindow /\ holder' = [holder EXCEPT ![v] = NoWindow]
          /\ UNCHANGED <<eglWindow, made, current, recType, startDecodeThread, inits, pc, view>>
      BY <2>6 DEF SurfaceDestroyed, threads
    <3>2. Started' = Started
      BY <3>1 DEF Started
    <3>3. \A u \in Views : holder'[u] = NoWindow
      BY <1>2, <2>0, <3>1 DEF FieldsOK, SurfaceInv
    <3> QED BY <1>2, <3>1, <3>2, <3>3 DEF SurfaceInv
  <2>7. ASSUME NEW v \in Views, SurfaceChanged(v) PROVE SurfaceInv'
    <3>1. UNCHANGED <<gl, holder, inits, recType, startDecodeThread>>
      BY <2>7 DEF SurfaceChanged
    <3>2. \A t \in Threads : pc'[t] # "none" => view'[t] \in Views
      <4>1. CASE UNCHANGED <<pc, view>>
        BY <1>2, <4>1 DEF SurfaceInv
      <4>2. ASSUME NEW s \in Threads, Goto(s, "loop"), view' = [view EXCEPT ![s] = v]
            PROVE  \A t \in Threads : pc'[t] # "none" => view'[t] \in Views
        <5>1. \A t \in Threads : t # s => pc'[t] = pc[t] /\ view'[t] = view[t]
          BY <2>0, <4>2, GotoTypes DEF ThreadsOK, Places
        <5>2. view'[s] = v
          BY <2>0, <4>2 DEF ThreadsOK
        <5> QED BY <1>2, <5>1, <5>2 DEF SurfaceInv
      <4> QED BY <2>7, <4>1, <4>2 DEF SurfaceChanged
    <3> QED BY <1>1, <1>2, <2>1, <2>2, <3>1, <3>2
  <2>8. ASSUME NEW t \in Threads, DecoderStep(t) PROVE SurfaceInv'
    <3>1. UNCHANGED <<view, holder>>
      BY <2>8 DEF DecoderStep, Lock, Change, Look, Get, Remove, Resize, InitGl, InitDecoder, Decode, Snap, Reset, Save, Draw,
                  Loop, GetSurface, Parse, Start, Unchanged, fields
    <3>2. pc[t] # "none" /\ \A u \in Threads : u # t => pc'[u] = pc[u]
      BY <2>0, <2>8, ThreadMoves, GotoTypes
    <3>3. \A u \in Threads : pc'[u] # "none" => view'[u] \in Views
      BY <2>3, <3>1, <3>2
    <3>4. \A u \in Threads : pc'[u] = "none" => pc[u] = "none" /\ u # t
      BY <2>1, <3>2 DEF Started
    <3>5. t \in Started /\ t \in Started'
      BY <2>1, <3>2 DEF Started
    <3>6. CASE Change(t) \/ InitGl(t)
      <4>1. inits' # 0 /\ UNCHANGED <<recType, startDecodeThread, alive>>
        BY <2>0, <3>6 DEF Change, InitGl, GlOK, fields, OpenglInit, OpenglSurfaceChanged
      <4>2. \A u \in Threads : u # t => current'[u] = current[u]
        <5>1. current \in [Threads -> Nat] /\ [current EXCEPT ![t] = NoWindow] \in [Threads -> Nat]
          BY <2>0 DEF GlOK
        <5>2. \/ MakeWindow(t, surface[t], {}, [current EXCEPT ![t] = NoWindow])
              \/ MakeWindow(t, surface[t], made, current)
          BY <3>6 DEF Change, InitGl, OpenglSurfaceChanged, OpenglInit
        <5> QED BY <5>1, <5>2, MakeOthers
      <4>3. \A v \in Views : (\A u \in Started' : view'[u] # v) => (\A u \in Started : view[u] # v)
        BY <2>1, <2>2
      <4>4. Started' # {}
        BY <3>5
      <4> QED BY <1>2, <3>1, <3>3, <3>4, <4>1, <4>2, <4>3, <4>4 DEF SurfaceInv
    <3>7. CASE \E v \in Views : view[t] = v /\ (Parse(t, v) \/ Start(t, v))
      <4>1. PICK v \in Views : view[t] = v /\ (Parse(t, v) \/ Start(t, v))
        BY <3>7
      <4>2. UNCHANGED <<gl, inits>>
        BY <4>1 DEF Parse, Start
      <4>3. \A u \in Views : u # v => recType'[u] = recType[u] /\ startDecodeThread'[u] = startDecodeThread[u]
        BY <2>0, <4>1 DEF FieldsOK, Parse, Start
      <4>4. \A u \in Views : (\A s \in Started' : view'[s] # u) => u # v /\ (\A s \in Started : view[s] # u)
        BY <2>1, <2>2, <3>5, <4>1
      <4>5. Started' # {}
        BY <3>5
      <4> QED BY <1>2, <3>1, <3>3, <3>4, <4>2, <4>3, <4>4, <4>5 DEF SurfaceInv, gl
    <3>8. CASE ~Change(t) /\ ~InitGl(t) /\ ~\E v \in Views : view[t] = v /\ (Parse(t, v) \/ Start(t, v))
      <4>1. UNCHANGED <<gl, holder, inits, recType, startDecodeThread>>
        BY <2>8, <3>8 DEF DecoderStep, Lock, Look, Get, Remove, Resize, InitDecoder, Decode, Snap, Reset, Save, Draw,
                          Loop, GetSurface, Unchanged, fields
      <4> QED BY <1>1, <1>2, <2>1, <2>2, <3>3, <4>1
    <3> QED BY <3>6, <3>7, <3>8
  <2> QED BY <1>2, <2>4, <2>5, <2>6, <2>7, <2>8 DEF Next, Ui
<1>3. ASSUME SurfaceInv, UNCHANGED vars PROVE SurfaceInv'
  BY <1>3 DEF SurfaceInv, Started, vars, gl, fields, threads
<1> QED BY <1>2, <1>3

\* A step of the lone thread t of the view v that leaves the surfaces alone.
Calm == UNCHANGED <<eglWindow, current, inits, holder, changeSurface, startDecodeThread, recType, surface, ui>>
CalmMove(l, m) ==
  \/ /\ l = "change" /\ m = "changeIn"
  \/ /\ l = "init" /\ m = "initIn"
  \/ /\ l = "draw" /\ m = "drawIn"
  \/ /\ l = "look" /\ m \in {"loop", "get"}
  \/ /\ l = "get" /\ m \in {"loop", "remove"}
  \/ /\ l = "remove" /\ m \in {"loop", "resize"}
  \/ /\ l = "resize" /\ m = "parse"
  \/ /\ l = "initDecoder" /\ m = "decode"
  \/ /\ l = "decode" /\ m \in {"snap", "loop"}
  \/ /\ l = "snap" /\ m \in {"reset", "draw"}
  \/ /\ l = "reset" /\ m = "save"
  \/ /\ l = "save" /\ m = "draw"
  \/ /\ l = "drawIn" /\ m = "loop"

LEMMA LoneCalm ==
  ASSUME NEW t \in Threads, NEW v \in Views, Lone(t, v), Calm, CalmMove(pc[t], pc'[t])
  PROVE  Lone(t, v)'
<1>1. Settled(v)' <=> Settled(v)
  BY DEF Calm, Settled
<1> QED BY <1>1 DEF Lone, Calm, CalmMove, Drawn

\* The main thread does not settle anything.
LEMMA LoneUi ==
  ASSUME NEW t \in Threads, NEW v \in Views, Lone(t, v), Settled(v)' => Settled(v), holder'[v] = holder[v] \/ ~Settled(v)',
         UNCHANGED <<eglWindow, current, inits, startDecodeThread, recType, surface>>, pc'[t] = pc[t]
  PROVE  Lone(t, v)'
BY DEF Lone

OnlyOne == \A t, u \in Threads : pc[t] # "none" /\ pc[u] # "none" => t = u

LEMMA OneThread == Alone => OnlyOne
BY AloneMeans DEF OnlyOne

LEMMA UiStep ==
  ASSUME TypeInv, SurfaceInv, Arrive \/ Arrived \/ Ui, Alone', NEW t \in Started', NEW v \in Views, view'[t] = v,
         t \in Started => view[t] = v /\ Lone(t, v)
  PROVE  Lone(t, v)'
<1>0. ThreadsOK /\ FieldsOK /\ t \in Threads
  BY TypesSplit DEF Started
<1>1. CASE Arrive \/ Arrived \/ Clear \/ Cleared \/ Click \/ Copied \/ SetSnapShot
  <2>1. /\ UNCHANGED <<eglWindow, current, inits, startDecodeThread, recType, surface, pc, holder, changeSurface>>
        /\ ui' # "created" => ui # "created"
    BY <1>1 DEF Arrive, Arrived, Clear, Cleared, Click, Copied, SetSnapShot, gl, fields, threads
  <2>2. Settled(v)' => Settled(v)
    BY <2>1 DEF Settled
  <2>3. t \in Started
    BY <2>1 DEF Started
  <2> QED BY <1>0, <2>1, <2>2, <2>3, LoneUi
<1>2. ASSUME NEW u \in Views, SurfaceCreated(u) \/ SurfaceDestroyed(u) PROVE Lone(t, v)'
  <2>1. UNCHANGED <<eglWindow, current, inits, startDecodeThread, recType, surface, pc>>
    BY <1>2 DEF SurfaceCreated, SurfaceDestroyed, threads
  <2>2. ~Settled(v)'
    <3>1. CASE SurfaceCreated(u)
      BY <3>1 DEF SurfaceCreated, Settled
    <3>2. CASE SurfaceDestroyed(u)
      BY <1>0, <3>2 DEF SurfaceDestroyed, Settled, SurfaceInv, FieldsOK
    <3> QED BY <1>2, <3>1, <3>2
  <2>3. t \in Started
    BY <2>1 DEF Started
  <2> QED BY <1>0, <2>1, <2>2, <2>3, LoneUi
<1>3. ASSUME NEW u \in Views, SurfaceChanged(u) PROVE Lone(t, v)'
  <2>1. UNCHANGED <<eglWindow, current, inits, startDecodeThread, recType, surface, holder>>
    BY <1>3 DEF SurfaceChanged, gl
  <2>2. ~Settled(v)'
    <3>1. holder[u] # NoWindow /\ changeSurface' = [changeSurface EXCEPT ![u] = TRUE] /\ UNCHANGED holder
      BY <1>3 DEF SurfaceChanged
    <3>2. CASE v = u
      BY <1>0, <3>1, <3>2 DEF Settled, FieldsOK
    <3>3. CASE v # u
      BY <3>1, <3>3 DEF Settled, SurfaceInv
    <3> QED BY <3>2, <3>3
  <2>4. CASE t \in Started
    <3>1. UNCHANGED pc \/ \E s \in Threads \ Started : Goto(s, "loop")
      BY <1>3 DEF SurfaceChanged
    <3>2. pc'[t] = pc[t]
      BY <1>0, <2>4, <3>1, GotoTypes DEF Places
    <3> QED BY <1>0, <2>1, <2>2, <2>4, <3>2, LoneUi
  <2>5. CASE t \notin Started
    <3>1. PICK s \in Threads \ Started : Goto(s, "loop")
      <4>1. ~UNCHANGED pc
        BY <2>5 DEF Started
      <4> QED BY <1>3, <4>1 DEF SurfaceChanged
    <3>2. pc'[s] = "loop" /\ \A x \in Threads : x # s => pc'[x] = pc[x]
      BY <1>0, <3>1, GotoTypes DEF Places
    <3>3. s = t
      BY <1>0, <2>5, <3>2 DEF Started
    <3>4. Started = {}
      <4>1. SUFFICES ASSUME NEW x \in Started PROVE FALSE
        OBVIOUS
      <4>2. x \in Threads /\ x # t /\ pc'[x] # "none" /\ pc'[t] # "none"
        BY <2>5, <3>2, <3>3 DEF Started
      <4>3. (Alone => OnlyOne)'
        BY OneThread, PTL
      <4> QED BY <1>0, <4>2, <4>3 DEF OnlyOne
    <3>5. recType[v] = 0 /\ ~startDecodeThread[v]
      BY <3>4 DEF SurfaceInv
    <3> QED BY <2>1, <2>2, <3>2, <3>3, <3>5 DEF Lone, Drawn
  <2> QED BY <2>4, <2>5
<1> QED BY <1>1, <1>2, <1>3 DEF Ui

\* The lone thread makes the Surface of its view current.
LEMMA MakesCurrent ==
  ASSUME TypeInv, SurfaceInv, Alone, NEW t \in Started, NEW v \in Views, Settled(v), surface[t] = holder[v],
         \/ OpenglSurfaceChanged(t, surface[t])
         \/ OpenglInit(t, surface[t]) /\ inits = 0
  PROVE  eglWindow' = holder[v] /\ current'[t] = eglWindow'
<1>1. ThreadsOK /\ GlOK /\ NoWindow = 0 /\ t \in Threads /\ pc[t] # "none"
  BY TypesSplit, VideoDisplayAssumption DEF Started
<1>2. holder[v] \in alive /\ holder[v] # 0
  BY <1>1 DEF SurfaceInv, Settled
<1>3. \A u \in Threads : u # t => current[u] = 0
  BY <1>1, AloneMeans DEF SurfaceInv
<1>4. CASE OpenglSurfaceChanged(t, surface[t])
  <2> DEFINE bound == [current EXCEPT ![t] = NoWindow]
  <2>1. bound \in [Threads -> Nat] /\ \A u \in Threads : bound[u] # holder[v]
    BY <1>1, <1>2, <1>3 DEF GlOK
  <2>2. MakeWindow(t, holder[v], {}, bound)
    BY <1>4 DEF OpenglSurfaceChanged
  <2> HIDE DEF bound
  <2> QED BY <1>1, <1>2, <2>1, <2>2, MakeSucceeds
<1>5. CASE OpenglInit(t, surface[t]) /\ inits = 0
  <2>1. current \in [Threads -> Nat] /\ \A u \in Threads : current[u] # holder[v]
    BY <1>1, <1>2, <1>5 DEF GlOK, SurfaceInv
  <2>2. MakeWindow(t, holder[v], made, current) /\ holder[v] \notin made
    BY <1>5 DEF OpenglInit, SurfaceInv
  <2> QED BY <1>1, <1>2, <2>1, <2>2, MakeSucceeds
<1> QED BY <1>4, <1>5

LEMMA DecoderAlone ==
  ASSUME TypeInv, SurfaceInv, Alone, NEW t \in Started, NEW v \in Views, view[t] = v, Lone(t, v), DecoderStep(t)
  PROVE  Lone(t, v)'
<1>0. ThreadsOK /\ FieldsOK /\ ListOK /\ GlOK /\ t \in Threads
  BY TypesSplit DEF Started
<1>1. CASE Lock(t) \/ Look(t) \/ Get(t) \/ Remove(t) \/ Resize(t) \/ InitDecoder(t) \/ Decode(t) \/ Snap(t) \/ Reset(t)
           \/ Save(t) \/ Draw(t)
  <2>1. Calm
    BY <1>1 DEF Calm, Lock, Look, Get, Remove, Resize, InitDecoder, Decode, Snap, Reset, Save, Draw, gl, fields
  <2>2. \E m \in Places : Goto(t, m) /\ CalmMove(pc[t], m)
    <3>1. CASE Lock(t)
      BY <3>1 DEF Lock, Waiting, CalmMove, Places
    <3>2. CASE Decode(t)
      <4>1. PICK got \in BOOLEAN : Goto(t, IF got THEN "snap" ELSE "loop")
        BY <3>2 DEF Decode
      <4> QED BY <3>2, <4>1 DEF Decode, CalmMove, Places
    <3>3. CASE Look(t) \/ Get(t) \/ Remove(t) \/ Resize(t)
      BY <3>3 DEF Look, Get, Remove, Resize, CalmMove, Places
    <3>4. CASE InitDecoder(t) \/ Snap(t) \/ Reset(t) \/ Save(t) \/ Draw(t)
      BY <3>4 DEF InitDecoder, Snap, Reset, Save, Draw, CalmMove, Places
    <3> QED BY <1>1, <3>1, <3>2, <3>3, <3>4
  <2>3. CalmMove(pc[t], pc'[t])
    BY <1>0, <2>2, GotoTypes
  <2> QED BY <1>0, <2>1, <2>3, LoneCalm
<1>2. CASE Change(t)
  <2>1. pc[t] = "changeIn" /\ pc'[t] = "look" /\ inits' = 1 /\ UNCHANGED <<holder, changeSurface, startDecodeThread, recType, ui>>
    BY <1>0, <1>2, GotoTypes DEF Change, fields, Places
  <2>2. Settled(v)' <=> Settled(v)
    BY <2>1 DEF Settled
  <2>3. Settled(v) => eglWindow' = holder[v] /\ current'[t] = eglWindow'
    BY <1>2, <2>1, MakesCurrent DEF Lone, Change
  <2> QED BY <2>1, <2>2, <2>3 DEF Lone, Drawn
<1>3. CASE InitGl(t)
  <2>1. /\ pc[t] = "initIn" /\ pc'[t] = "initDecoder" /\ inits' = inits + 1
        /\ UNCHANGED <<holder, changeSurface, startDecodeThread, recType, ui>>
    BY <1>0, <1>3, GotoTypes DEF InitGl, fields, Places
  <2>2. Settled(v)' <=> Settled(v)
    BY <2>1 DEF Settled
  <2>3. inits' > 0 /\ (inits' = 1 => inits = 0)
    BY <1>0, <2>1 DEF GlOK
  <2>4. Settled(v) /\ inits' = 1 => eglWindow' = holder[v] /\ current'[t] = eglWindow'
    BY <1>3, <2>1, <2>3, MakesCurrent DEF Lone, InitGl
  <2> QED BY <2>1, <2>2, <2>3, <2>4 DEF Lone, Drawn
<1>4. CASE Loop(t, v)
  <2>1. /\ pc[t] = "loop" /\ UNCHANGED <<eglWindow, current, inits, holder, startDecodeThread, recType, surface, ui>>
        /\ \/ startDecodeThread[v] /\ pc'[t] = "getSurface"
           \/ pc'[t] = "look" /\ UNCHANGED changeSurface
    BY <1>0, <1>4, GotoTypes DEF Loop, gl, Places
  <2> QED BY <2>1 DEF Lone, Settled, Drawn
<1>5. CASE GetSurface(t, v)
  <2>1. /\ UNCHANGED <<eglWindow, current, inits, holder, changeSurface, startDecodeThread, recType, ui>>
        /\ surface'[t] = holder[v]
        /\ \/ pc[t] = "getFirst" /\ pc'[t] = "init"
           \/ pc[t] = "getSurface" /\ pc'[t] = "change"
    BY <1>0, <1>5, GotoTypes DEF GetSurface, gl, fields, Places, ThreadsOK
  <2> QED BY <2>1 DEF Lone, Drawn
<1>6. CASE Parse(t, v)
  <2>1. /\ UNCHANGED <<eglWindow, current, inits, holder, changeSurface, startDecodeThread, surface, ui>>
        /\ pc[t] = "parse"
    BY <1>6 DEF Parse, gl
  <2>2. \/ pc'[t] = "decode" /\ recType'[v] = recType[v] /\ recType[v] # 0
        \/ pc'[t] = "start"
    <3>1. frame[t].type # 0
      BY <1>0, <2>1, VideoDisplayAssumption DEF ListOK, Frames, Carrying, Carries
    <3>2. CASE frame[t].type = recType[v]
      BY <1>0, <1>6, <3>1, <3>2, GotoTypes DEF Parse, Places
    <3>3. CASE frame[t].type # recType[v]
      BY <1>0, <1>6, <3>3, GotoTypes DEF Parse, Places
    <3> QED BY <3>2, <3>3
  <2> QED BY <2>1, <2>2 DEF Lone, Settled, Drawn
<1>7. CASE Start(t, v)
  <2>1. /\ UNCHANGED <<eglWindow, current, inits, holder, changeSurface, recType, surface, ui>>
        /\ pc'[t] = "unchanged" /\ startDecodeThread'[v] = TRUE
    BY <1>0, <1>7, GotoTypes DEF Start, gl, Places, FieldsOK
  <2> QED BY <2>1 DEF Lone, Drawn
<1>8. CASE Unchanged(t, v)
  <2>1. /\ UNCHANGED <<eglWindow, current, inits, holder, startDecodeThread, recType, surface, ui>>
        /\ pc[t] = "unchanged" /\ pc'[t] = "getFirst"
    BY <1>0, <1>8, GotoTypes DEF Unchanged, gl, Places
  <2> QED BY <2>1 DEF Lone, Drawn
<1> QED BY <1>1, <1>2, <1>3, <1>4, <1>5, <1>6, <1>7, <1>8 DEF DecoderStep

LEMMA WindowStep == TypeInv /\ SurfaceInv /\ WindowInv /\ [Next]_vars => WindowInv'
<1>1. ASSUME TypeInv, SurfaceInv, WindowInv, Next PROVE WindowInv'
  <2>0. ThreadsOK
    BY <1>1, TypesSplit
  <2> SUFFICES ASSUME Alone', NEW t \in Started', NEW v \in Views, view'[t] = v PROVE Lone(t, v)'
    BY DEF WindowInv
  <2>1. Alone /\ Started \subseteq Started'
    BY <1>1, <2>0, AloneBefore, StartedGrows
  <2>2. CASE Arrive \/ Arrived \/ Ui
    <3>1. t \in Started => view[t] = v
      <4>1. UNCHANGED view \/ \E s \in Threads \ Started, u \in Views : view' = [view EXCEPT ![s] = u]
        BY <2>2 DEF Ui, Arrive, Arrived, Clear, Cleared, Click, Copied, SetSnapShot, SurfaceCreated, SurfaceChanged,
                    SurfaceDestroyed, threads
      <4>2. t \in Started => view'[t] = view[t]
        BY <2>0, <4>1 DEF ThreadsOK, Started
      <4> QED BY <4>2
    <3>2. t \in Started => Lone(t, v)
      BY <1>1, <2>1, <3>1 DEF WindowInv
    <3> QED BY <1>1, <2>2, <3>1, <3>2, UiStep
  <2>3. ASSUME NEW s \in Threads, DecoderStep(s) PROVE Lone(t, v)'
    <3>1. s \in Started /\ UNCHANGED view
      BY <2>0, <2>3, ThreadMoves DEF Started, DecoderStep, Lock, Change, Look, Get, Remove, Resize, InitGl, InitDecoder,
         Decode, Snap, Reset, Save, Draw, Loop, GetSurface, Parse, Start, Unchanged
    <3>2. s = t
      <4>1. (Alone => OnlyOne)'
        BY OneThread, PTL
      <4> QED BY <2>1, <3>1, <4>1 DEF Started, OnlyOne
    <3>3. Lone(t, v)
      BY <1>1, <2>1, <3>1, <3>2 DEF WindowInv
    <3> QED BY <1>1, <2>1, <2>3, <3>1, <3>2, <3>3, DecoderAlone
  <2> QED BY <1>1, <2>2, <2>3 DEF Next
<1>2. ASSUME WindowInv, UNCHANGED vars PROVE WindowInv'
  BY <1>2 DEF WindowInv, Alone, Started, Lone, Settled, vars, gl, fields, threads
<1> QED BY <1>1, <1>2

LEMMA WindowInit == Init => WindowInv
BY DEF Init, WindowInv, Started

\* Whatever surfaces come, change and go: a picture that a lone decoding thread
\* draws is shown on the Surface of its view, unless there is none, a change of it
\* is still to be taken up, or jopenglInit() has been called on it twice.
THEOREM LonePictureShown == Spec => []LostOnlyInChanges
<1>1. TypeInv /\ SurfaceInv /\ WindowInv => LostOnlyInChanges
  <2> SUFFICES ASSUME TypeInv, SurfaceInv, WindowInv, NEW t \in Threads, Alone, pc[t] = "drawIn", ~Shows(t),
                      Settled(view[t]), ~(inits > 1)
               PROVE  FALSE
    BY DEF LostOnlyInChanges, Settled
  <2>1. t \in Started /\ view[t] \in Views /\ inits \in Nat
    BY TypesSplit DEF SurfaceInv, Started, GlOK
  <2>2. Lone(t, view[t])
    BY <2>1 DEF WindowInv
  <2>3. startDecodeThread[view[t]] /\ inits > 0
    BY <2>2 DEF Lone, Drawn
  <2>4. inits = 1
    BY <2>1, <2>3
  <2>5. eglWindow = holder[view[t]] /\ current[t] = eglWindow
    BY <2>2, <2>3, <2>4 DEF Lone
  <2>6. eglWindow \in alive
    BY <2>1, <2>5 DEF SurfaceInv, Settled
  <2> QED BY <2>5, <2>6 DEF Shows
<1>2. Init => SurfaceInv /\ WindowInv
  BY SurfaceInit, WindowInit
<1>3. TypeInv /\ (SurfaceInv /\ WindowInv) /\ [Next]_vars => (SurfaceInv /\ WindowInv)'
  BY SurfaceStep, WindowStep
<1> QED BY <1>1, <1>2, <1>3, TypesAlways, PTL DEF Spec
=============================================================================
