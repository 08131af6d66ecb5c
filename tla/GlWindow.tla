------------------------------ MODULE GlWindow ------------------------------
(***************************************************************************)
(* The drawing surface behind the native entry points of jniMain.cpp: one  *)
(* static eglWindow and context for the whole process, made by the thread  *)
(* that calls jopenglInit or jopenglSurfaceChanged and current on that     *)
(* thread only.  EGL itself is external: a native window carries at most   *)
(* one EGLSurface, one that is current on a thread outlives its            *)
(* destruction, and buffers are swapped only by the thread the surface is  *)
(* current on.                                                             *)
(***************************************************************************)
EXTENDS Naturals

CONSTANTS
  Threads,      \* the threads that may draw
  NoWindow      \* EGL_NO_SURFACE, or a Surface that is gone

VARIABLES
  eglWindow,    \* the native window of the static eglWindow
  made,         \* the windows with an EGLSurface that is not destroyed
  current,      \* the window current on each thread
  alive         \* the native windows that exist

gl == <<eglWindow, made, current, alive>>

GlInit == /\ eglWindow = NoWindow /\ made = {} /\ alive = {}
          /\ current = [t \in Threads |-> NoWindow]

\* eglCreateWindowSurface, eglCreateContext and eglMakeCurrent of thread t on
\* the window w.  The first fails if w is gone or still carries an EGLSurface;
\* nothing is checked, and making no surface current fails or leaves none.
MakeWindow(t, w, kept, bound) ==
  IF w \in alive /\ w \notin kept /\ \A u \in Threads : bound[u] # w
  THEN /\ eglWindow' = w /\ made' = kept \cup {w}
       /\ current' = [bound EXCEPT ![t] = w]
  ELSE /\ eglWindow' = NoWindow /\ made' = kept
       /\ current' \in {bound, [bound EXCEPT ![t] = NoWindow]}

\* jopenglInit() forgets the surface before; jopenglSurfaceChanged() lets go of
\* it first, and eglTerminate destroys every other one.
OpenglInit(t, w) == MakeWindow(t, w, made, current) /\ UNCHANGED alive
ChangedKeepsSurface(t, w) == MakeWindow(t, w, made, [current EXCEPT ![t] = NoWindow]) /\ UNCHANGED alive
OpenglSurfaceChanged(t, w) == /\ MakeWindow(t, w, {}, [current EXCEPT ![t] = NoWindow])
                              /\ UNCHANGED alive

\* eglSwapBuffers shows what thread t has drawn.
Shows(t) == eglWindow \in alive /\ current[t] = eglWindow
=============================================================================
