---------------------------- MODULE SessionCalls ----------------------------
(***************************************************************************)
(* The threads that meet at one session's mutex and condition variable:    *)
(* the worker threads that deliver native events, the MCP calls that wait  *)
(* for a state (rdp_open in wait_connected, rdp_screenshot, rdp_resize),   *)
(* the call that closes the session, and the MJPEG preview viewers.        *)
(* The events arrive in any order: the stream comes from another process,  *)
(* and close runs concurrently with its delivery.                          *)
(*                                                                         *)
(* Each action is one critical section of CallbackState.inner; between two *)
(* of them the mutex is free.  Deadlines are flags that some step raises.  *)
(***************************************************************************)
EXTENDS SessionState

CONSTANTS Openers,     \* calls in Session::wait_connected
          Shooters,    \* calls of rdp_screenshot
          Resizers,    \* calls of rdp_resize
          Viewers,     \* MJPEG preview streams
          Sizes,       \* the <<width, height>> pairs a size event may carry
          Bitmaps,     \* the updates a bitmap event may carry
          Target,      \* the <<width, height>> every rdp_resize asks for
          MaxVersion   \* bound: bitmap updates stop at this frame_version

Threads == Openers \cup Shooters \cup Resizers

ASSUME RolesAssumption ==
  /\ Openers \cap Shooters = {} /\ Openers \cap Resizers = {}
  /\ Shooters \cap Resizers = {}
ASSUME InputAssumption ==
  /\ Sizes \subseteq Nat \X Nat
  /\ Bitmaps \subseteq Bitmap
  /\ Target \in Nat \X Nat
  /\ MaxVersion \in Nat

None == [width |-> 0, height |-> 0, version |-> 0, pixels |-> << >>]

VARIABLES
  state,      \* SessionState, under the mutex
  poisoned,   \* a thread panicked while it held the mutex
  pc,         \* where each call is
  site,       \* the wait each call is in
  expired,    \* the deadline of that wait has passed
  waited,     \* waited_for_frame: the loop had to sleep
  shot,       \* the frame the last screenshot copied out
  viewer,     \* where each preview stream is
  grabbed,    \* the frame a viewer copied out and has yet to encode
  part        \* Viewer.key and Viewer.part: the frame of the cached JPEG

callVars == <<pc, site, expired, waited, shot>>
viewVars == <<viewer, grabbed, part>>
vars == <<state, poisoned, callVars, viewVars>>

Done == {"idle", "ok", "err"}

TypeOK ==
  /\ state \in State
  /\ poisoned \in BOOLEAN
  /\ pc \in [Threads -> Done \cup {"enter", "asleep", "woken", "capture"}]
  /\ site \in [Threads -> {"ready", "frame", "pause", "size"}]
  /\ expired \in [Threads -> BOOLEAN]
  /\ waited \in [Threads -> BOOLEAN]
  /\ shot \in [Shooters -> Frames]
  /\ viewer \in [Viewers -> {"poll", "encode", "ended"}]
  /\ grabbed \in [Viewers -> Frames]
  /\ part \in [Viewers -> Frames]

FirstSite(t) == IF t \in Openers THEN "ready"
                ELSE IF t \in Shooters THEN "frame" ELSE "size"

Init ==
  /\ state = InitState
  /\ poisoned = FALSE
  /\ pc = [t \in Threads |-> "idle"]
  /\ site = [t \in Threads |-> FirstSite(t)]
  /\ expired = [t \in Threads |-> FALSE]
  /\ waited = [t \in Threads |-> FALSE]
  /\ shot = [t \in Shooters |-> None]
  /\ viewer = [v \in Viewers |-> "poll"]
  /\ grabbed = [v \in Viewers |-> None]
  /\ part = [v \in Viewers |-> None]

-----------------------------------------------------------------------------
(* Writers of the state. *)

(* notify_all: every sleeping call will lock the mutex and look again. *)
WakeAll == pc' = [t \in Threads |-> IF pc[t] = "asleep" THEN "woken" ELSE pc[t]]

(* The events the worker's threads may hand to handle_native_output. *)
Events == {ReadyEvent, ErrorEvent}
          \cup {ResizedEvent(z[1], z[2]) : z \in Sizes}
          \cup {BitmapEvent(b) : b \in Bitmaps}
          \cup {DisconnectedEvent(c) : c \in {NoError, "exit"}}

Deliver(ev) ==
  /\ ~poisoned
  /\ ev.kind = "BITMAP" => state.frame_version < MaxVersion
  /\ IF Panics(state, ev)
     THEN poisoned' = TRUE /\ UNCHANGED <<state, callVars>>
     ELSE /\ state' = HandleNativeOutput(state, ev)
          /\ IF Notifies(state, ev) THEN WakeAll ELSE UNCHANGED pc
          /\ UNCHANGED <<poisoned, site, expired, waited, shot>>
  /\ UNCHANGED viewVars

StopSilently(cause) ==
  /\ ~poisoned
  /\ state' = Stop(state, cause)
  /\ UNCHANGED <<poisoned, callVars, viewVars>>

(* CallbackState::stop, from Session::shutdown (no cause) or from a failed *)
(* write to the worker.                                                    *)
CallStop(cause) ==
  /\ ~poisoned
  /\ state' = Stop(state, cause)
  /\ WakeAll
  /\ UNCHANGED <<poisoned, site, expired, waited, shot, viewVars>>

-----------------------------------------------------------------------------
(* Calls that wait.  The condition each wait loop sleeps on. *)

WaitingAt(where) ==
  CASE where = "ready" -> /\ ~state.connected
                          /\ state.error = NoError /\ ~state.disconnected
    [] where = "frame" -> /\ ~state.has_frame
                          /\ state.error = NoError /\ ~state.disconnected
    [] where = "pause" -> CheckConnected(state)
    [] where = "size"  -> /\ <<state.width, state.height>> # Target
                          /\ state.error = NoError /\ ~state.disconnected

Waiting(t) == WaitingAt(site[t])

(* The call heads for its first wait loop, with a fresh deadline.  A       *)
(* session is opened once; rdp_resize first passes the check of            *)
(* with_session and writes its command.                                    *)
Call(t) ==
  /\ ~poisoned
  /\ pc[t] \in IF t \in Openers THEN {"idle"} ELSE Done
  /\ IF t \in Resizers /\ ~CheckConnected(state)
     THEN pc' = [pc EXCEPT ![t] = "err"] /\ UNCHANGED <<site, expired, waited>>
     ELSE /\ pc' = [pc EXCEPT ![t] = "enter"]
          /\ site' = [site EXCEPT ![t] = FirstSite(t)]
          /\ expired' = [expired EXCEPT ![t] = FALSE]
          /\ waited' = [waited EXCEPT ![t] = FALSE]
  /\ UNCHANGED <<state, poisoned, shot, viewVars>>

(* The clock: the deadline of a wait passes, which ends a timed sleep. *)
Expire(t) ==
  /\ pc[t] \in {"enter", "asleep", "woken"} /\ ~expired[t]
  /\ expired' = [expired EXCEPT ![t] = TRUE]
  /\ pc' = IF pc[t] = "asleep" THEN [pc EXCEPT ![t] = "woken"] ELSE pc
  /\ UNCHANGED <<state, poisoned, site, waited, shot, viewVars>>

(* A condition variable may wake a sleeper for no reason. *)
SpuriousWake(t) ==
  /\ pc[t] = "asleep"
  /\ pc' = [pc EXCEPT ![t] = "woken"]
  /\ UNCHANGED <<state, poisoned, site, expired, waited, shot, viewVars>>

(* The loop condition holds and time is left: release the mutex and sleep. *)
SleepForever(t) ==
  /\ ~poisoned
  /\ pc[t] \in {"enter", "woken"} /\ Waiting(t)
  /\ pc' = [pc EXCEPT ![t] = "asleep"]
  /\ waited' = [waited EXCEPT ![t] = TRUE]
  /\ UNCHANGED <<state, poisoned, site, expired, shot, viewVars>>

Sleep(t) ==
  /\ ~poisoned
  /\ pc[t] \in {"enter", "woken"} /\ Waiting(t) /\ ~expired[t]
  /\ pc' = [pc EXCEPT ![t] = "asleep"]
  /\ waited' = [waited EXCEPT ![t] = TRUE]
  /\ UNCHANGED <<state, poisoned, site, expired, shot, viewVars>>

(* What follows the loop: check_connected, then the rest of the call. *)
AfterWait(t) ==
  LET ok == CheckConnected(state) IN
  CASE site[t] = "ready" -> IF ok THEN "ok" ELSE "err"
    [] site[t] = "frame" -> IF ~ok THEN "err"
                            ELSE IF waited[t] THEN "enter" ELSE "capture"
    [] site[t] = "pause" -> IF ok THEN "capture" ELSE "err"
    [] site[t] = "size"  -> IF ok /\ <<state.width, state.height>> = Target
                            THEN "ok" ELSE "err"

(* A screenshot that had to wait for its first frame pauses, with a        *)
(* deadline of its own, before it copies the frame.                        *)
PausesNext(t) == site[t] = "frame" /\ AfterWait(t) = "enter"

LeaveWait(t) ==
  /\ pc' = [pc EXCEPT ![t] = AfterWait(t)]
  /\ site' = IF PausesNext(t) THEN [site EXCEPT ![t] = "pause"] ELSE site
  /\ expired' = IF PausesNext(t) THEN [expired EXCEPT ![t] = FALSE] ELSE expired
  /\ UNCHANGED <<state, poisoned, waited, shot, viewVars>>

(* The loop condition is false. *)
Resume(t) ==
  /\ ~poisoned
  /\ pc[t] \in {"enter", "woken"} /\ ~Waiting(t)
  /\ LeaveWait(t)

(* The loop condition holds but the deadline has passed: wait_connected    *)
(* and screenshot bail, resize breaks out, pause has run its time.         *)
GiveUp(t) ==
  /\ ~poisoned
  /\ pc[t] \in {"enter", "woken"} /\ Waiting(t) /\ expired[t]
  /\ IF site[t] \in {"ready", "frame"}
     THEN /\ pc' = [pc EXCEPT ![t] = "err"]
          /\ UNCHANGED <<state, poisoned, site, expired, waited, shot, viewVars>>
     ELSE LeaveWait(t)

CaptureUnchecked(t) ==
  /\ ~poisoned
  /\ pc[t] = "capture"
  /\ pc' = [pc EXCEPT ![t] = "ok"]
  /\ shot' = [shot EXCEPT ![t] = Frame(state)]
  /\ UNCHANGED <<state, poisoned, site, expired, waited, viewVars>>

(* The second critical section of screenshot, after the mutex was free. *)
Capture(t) ==
  /\ ~poisoned
  /\ pc[t] = "capture"
  /\ IF CheckConnected(state) /\ state.has_frame
     THEN /\ pc' = [pc EXCEPT ![t] = "ok"]
          /\ shot' = [shot EXCEPT ![t] = Frame(state)]
     ELSE pc' = [pc EXCEPT ![t] = "err"] /\ UNCHANGED shot
  /\ UNCHANGED <<state, poisoned, site, expired, waited, viewVars>>

-----------------------------------------------------------------------------
(* Preview viewers: stream_preview's loop body, around PreviewSource::frame. *)

Key(f) == <<f.width, f.height, f.version>>

(* frame() finds the mutex taken, or no frame to show: forget the cache. *)
Skip(v) ==
  /\ viewer[v] = "poll"
  /\ part' = [part EXCEPT ![v] = None]
  /\ UNCHANGED <<state, poisoned, callVars, viewer, grabbed>>

Grab(v) ==
  /\ ~poisoned
  /\ viewer[v] = "poll"
  /\ CheckConnected(state) /\ state.has_frame
  /\ viewer' = [viewer EXCEPT ![v] = "encode"]
  /\ grabbed' = [grabbed EXCEPT ![v] = Frame(state)]
  /\ UNCHANGED <<state, poisoned, callVars, part>>

(* frame() fails, or the stream is cancelled. *)
EndStream(v) ==
  /\ viewer[v] = "poll"
  /\ viewer' = [viewer EXCEPT ![v] = "ended"]
  /\ UNCHANGED <<state, poisoned, callVars, grabbed, part>>

(* Encode unless the cached JPEG has the same key (encoding may fail,      *)
(* which empties the cache); a part that is not empty is then sent.        *)
Encode(v) ==
  /\ viewer[v] = "encode"
  /\ viewer' = [viewer EXCEPT ![v] = "poll"]
  /\ IF Key(part[v]) = Key(grabbed[v]) THEN UNCHANGED part
     ELSE \E encoded \in {grabbed[v], None} : part' = [part EXCEPT ![v] = encoded]
  /\ UNCHANGED <<state, poisoned, callVars, grabbed>>

-----------------------------------------------------------------------------
CallStep(t) == Sleep(t) \/ Resume(t) \/ GiveUp(t)

Next ==
  \/ \E ev \in Events : Deliver(ev)
  \/ \E cause \in {NoError, "write"} : CallStop(cause)
  \/ \E t \in Threads : Call(t) \/ Expire(t) \/ SpuriousWake(t) \/ CallStep(t)
  \/ \E t \in Shooters : Capture(t)
  \/ \E v \in Viewers : Skip(v) \/ Grab(v) \/ EndStream(v) \/ Encode(v)

Spec == Init /\ [][Next]_vars

(* The deadlines pass, and a call that can take the mutex takes it.  The   *)
(* worker and the user owe nothing: events and new calls may never come.   *)
Fairness == /\ \A t \in Threads : WF_vars(Expire(t)) /\ WF_vars(CallStep(t))
            /\ \A t \in Shooters : WF_vars(Capture(t))

FairSpec == Spec /\ Fairness

-----------------------------------------------------------------------------
(* Properties. *)

(* No sequence of worker events makes apply_bitmap slice outside a buffer: *)
(* the session mutex is never poisoned, so no later lock().expect fails.   *)
NeverPoisoned == ~poisoned

(* Until the session stops, the framebuffer is exactly width * height      *)
(* pixels; a stopped session is not connected and holds no pixels.         *)
BufferFits(s) == IF s.disconnected
                 THEN ~s.connected /\ s.framebuffer = << >> /\ ~s.has_frame
                 ELSE Len(s.framebuffer) = s.width * s.height
FramebufferMatches == BufferFits(state)

(* Every frame some observer holds: taken screenshots, frames on their way *)
(* to the encoder, cached JPEGs.                                           *)
Held == {shot[t] : t \in Shooters} \cup {grabbed[v] : v \in Viewers}
        \cup {part[v] : v \in Viewers}

(* (width, height, frame_version) identifies the pixels: two observers     *)
(* that copied a frame at any two times under the same key hold the same   *)
(* pixels.  This is what makes the preview's cached JPEG reusable.         *)
KeyIdentifiesPixels == \A f, g \in Held : Key(f) = Key(g) => f = g

(* Why it holds: no held frame is newer than the state, and one that has   *)
(* the key of the frame on show is that frame.  A resize reuses a version  *)
(* but leaves no frame on show until an update has raised the version.     *)
HeldFramesFresh ==
  /\ state.has_frame => state.width # 0
  /\ \A f \in Held : /\ f.version <= state.frame_version
                     /\ state.has_frame /\ Key(f) = Key(Frame(state))
                          => f = Frame(state)
                     /\ f.width = 0 => f = None

(* A screenshot never shows only the zero-filled buffer that a resize has  *)
(* just allocated: a pixel of it comes from an update of the worker.  An   *)
(* update without black pixels thus makes a screenshot that is not black.  *)
Painted(p) == \E b \in Bitmaps : \E j \in 1..Len(b.pixels) : p = b.pixels[j]
NoBlankScreenshot ==
  \A t \in Shooters : shot[t] # None =>
     \E i \in 1..Len(shot[t].pixels) : Painted(shot[t].pixels[i])

(* The part a viewer sends shows the very frame it has just copied out,    *)
(* even when it comes from the cache.                                      *)
SentPartIsCurrent ==
  [][\A v \in Viewers : viewer[v] = "encode" /\ part'[v] # None
                          => viewer'[v] = "encode" \/ part'[v] = grabbed[v]]_vars

(* A stopped session is final: no late event, second close or failed write *)
(* changes anything, the recorded cause included.                          *)
StoppedIsFinal == [][state.disconnected => state' = state]_vars

(* No missed wake-up: while a call sleeps, what it waits for has not       *)
(* happened, so every step that could end a wait notified the sleepers.    *)
NoMissedWakeup == \A t \in Threads : pc[t] = "asleep" => Waiting(t) /\ ~expired[t]

(* The reported status follows the abstract specification.                 *)
Abstract == INSTANCE SessionStatus WITH status <- Status(state)
StatusOnlyAdvances == Abstract!Spec

(* Every waiting call returns, whatever the worker does or fails to do.    *)
CallsReturn == \A t \in Threads : pc[t] \notin Done ~> pc[t] \in Done
=============================================================================
