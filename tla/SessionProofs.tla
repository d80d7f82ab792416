--------------------------- MODULE SessionProofs ----------------------------
(***************************************************************************)
(* Theorems about SessionCalls, for every set of calls and viewers, every  *)
(* desktop size and every stream of worker events.                         *)
(***************************************************************************)
EXTENDS SessionCalls, TLAPS

-----------------------------------------------------------------------------
(* Arithmetic of the copy loop. *)

(* A product of naturals is a natural: TLAPS needs it for row offsets. *)
LEMMA ProductNat == \A m, n \in Nat : m * n \in Nat
  OBVIOUS

(* Whole rows before row h end before the h-th row does. *)
LEMMA RowEnd ==
  ASSUME NEW r \in Nat, NEW h \in Nat, NEW w \in Nat, r + 1 <= h
  PROVE  r * w + w <= h * w
<1>1. PICK k \in Nat : h = (r + 1) + k
  <2>1. h - (r + 1) \in Nat
    OBVIOUS
  <2>2. h = (r + 1) + (h - (r + 1))
    OBVIOUS
  <2> QED
    BY <2>1, <2>2
<1>2. h * w = (r * w + w) + k * w
  BY <1>1
<1>3. k * w \in Nat /\ r * w \in Nat /\ h * w \in Nat
  BY ProductNat, <1>1
<1> QED
  BY <1>2, <1>3

(* A slice that starts in row r at offset x and stays in the row ends      *)
(* inside the h rows.                                                      *)
LEMMA SliceEnd ==
  ASSUME NEW r \in Nat, NEW h \in Nat, NEW w \in Nat, NEW x \in Nat,
         NEW c \in Nat, r + 1 <= h, x + c <= w
  PROVE  /\ r * w + x \in Nat
         /\ (r * w + x) + c <= w * h
<1>1. r * w + w <= h * w
  BY RowEnd
<1>2. h * w = w * h
  OBVIOUS
<1>3. r * w \in Nat /\ w * h \in Nat
  BY ProductNat
<1> DEFINE p == r * w
           q == w * h
<1>4. p + w <= q /\ p \in Nat /\ q \in Nat
  BY <1>1, <1>2, <1>3
<1> HIDE DEF p, q
<1>5. p + x \in Nat /\ (p + x) + c <= q
  BY <1>4
<1> QED
  BY <1>5 DEF p, q

(* The clipped size is a natural and stays inside both rectangles. *)
LEMMA ClipBounds ==
  ASSUME NEW s \in State, NEW b \in Bitmap, Copies(s, b)
  PROVE  /\ CopyWidth(s, b) \in Nat /\ CopyHeight(s, b) \in Nat
         /\ CopyWidth(s, b) <= b.width /\ b.x + CopyWidth(s, b) <= s.width
         /\ CopyHeight(s, b) <= b.height /\ b.y + CopyHeight(s, b) <= s.height
<1>1. /\ s.width \in Nat /\ s.height \in Nat
      /\ b.x \in Nat /\ b.y \in Nat /\ b.width \in Nat /\ b.height \in Nat
  BY MaxDimAssumption DEF State, Bitmap
<1> QED
  BY <1>1 DEF Copies, CopyWidth, CopyHeight, Least, SaturatingSub

(* apply_bitmap: when the framebuffer has the size the state announces,    *)
(* clipping keeps every row slice inside the framebuffer and the payload.  *)
LEMMA SlicesInBounds ==
  ASSUME NEW s \in State, NEW b \in Bitmap, Copies(s, b),
         Len(s.framebuffer) = s.width * s.height
  PROVE  SlicesExist(s, b)
<1>1. /\ s.width \in Nat /\ s.height \in Nat
      /\ b.x \in Nat /\ b.y \in Nat /\ b.width \in Nat /\ b.height \in Nat
  BY MaxDimAssumption DEF State, Bitmap
<1>2. Len(b.pixels) = b.width * b.height
  BY DEF Copies, PayloadValid
<1>3. SUFFICES ASSUME NEW row \in 0..(CopyHeight(s, b) - 1)
               PROVE  /\ TargetOffset(s, b, row) + CopyWidth(s, b)
                           <= s.width * s.height
                      /\ SourceOffset(b, row) + CopyWidth(s, b)
                           <= b.width * b.height
  BY <1>2 DEF SlicesExist
<1> DEFINE cw == CopyWidth(s, b)
           ch == CopyHeight(s, b)
<1>4. /\ cw \in Nat /\ ch \in Nat
      /\ cw <= b.width /\ b.x + cw <= s.width
      /\ ch <= b.height /\ b.y + ch <= s.height
  BY ClipBounds
<1>5. row \in 0..(ch - 1)
  OBVIOUS
<1> HIDE DEF cw, ch
<1>6. row \in Nat /\ row + 1 <= b.height /\ b.y + row \in Nat /\ (b.y + row) + 1 <= s.height
  <2>1. ASSUME NEW r \in 0..(ch - 1), NEW h \in Nat, NEW y \in Nat, NEW g \in Nat,
               ch <= h, y + ch <= g
        PROVE  r \in Nat /\ r + 1 <= h /\ y + r \in Nat /\ (y + r) + 1 <= g
    BY <1>4, <2>1
  <2> QED
    BY <1>1, <1>4, <1>5, <2>1
<1>7. ((b.y + row) * s.width + b.x) + cw <= s.width * s.height
  BY <1>1, <1>4, <1>6, SliceEnd
<1>8. (row * b.width + 0) + cw <= b.width * b.height
  <2>1. 0 \in Nat /\ 0 + cw <= b.width
    BY <1>1, <1>4
  <2> QED
    BY <1>1, <1>4, <1>6, <2>1, SliceEnd
<1>9. row * b.width + 0 = row * b.width
  BY <1>1, <1>6
<1> QED
  BY <1>7, <1>8, <1>9 DEF TargetOffset, SourceOffset, cw

(* A function on 1..n is a sequence of length n. *)
LEMMA SeqOfFunction ==
  ASSUME NEW S, NEW n \in Nat, NEW f \in [1..n -> S]
  PROVE  f \in Seq(S) /\ Len(f) = n
  OBVIOUS

(* The copy loop replaces pixels by pixels and keeps the length. *)
LEMMA BlitType ==
  ASSUME NEW s \in State, NEW b \in Bitmap, Copies(s, b), SlicesExist(s, b)
  PROVE  /\ Blit(s, b) \in Seq(Pixel)
         /\ Len(Blit(s, b)) = Len(s.framebuffer)
<1> DEFINE n == Len(s.framebuffer)
<1>1. n \in Nat /\ s.framebuffer \in Seq(Pixel) /\ b.pixels \in Seq(Pixel)
  BY DEF State, Bitmap
<1>2. ASSUME NEW i \in 1..n,
             NEW row \in 0..(CopyHeight(s, b) - 1), Covers(s, b, row, i)
      PROVE  b.pixels[SourceOffset(b, row) + (i - TargetOffset(s, b, row))] \in Pixel
  <2>1. /\ s.width \in Nat /\ b.x \in Nat /\ b.y \in Nat /\ b.width \in Nat
    BY MaxDimAssumption DEF State, Bitmap
  <2>2. row \in Nat /\ b.y + row \in Nat /\ CopyWidth(s, b) \in Nat
    BY <2>1, ClipBounds
  <2>3. (b.y + row) * s.width \in Nat /\ row * b.width \in Nat
    BY <2>1, <2>2, ProductNat
  <2>4. TargetOffset(s, b, row) \in Nat /\ SourceOffset(b, row) \in Nat
    BY <2>1, <2>3 DEF TargetOffset, SourceOffset
  <2>5. SourceOffset(b, row) + CopyWidth(s, b) <= Len(b.pixels)
    BY DEF SlicesExist
  <2>6. SourceOffset(b, row) + (i - TargetOffset(s, b, row)) \in 1..Len(b.pixels)
    BY <1>1, <1>2, <2>2, <2>4, <2>5 DEF Covers
  <2> QED
    BY <1>1, <2>6
<1>3. \A i \in 1..n : Blit(s, b)[i] \in Pixel
  <2> SUFFICES ASSUME NEW i \in 1..n PROVE Blit(s, b)[i] \in Pixel
    OBVIOUS
  <2>1. CASE \E row \in 0..(CopyHeight(s, b) - 1) : Covers(s, b, row, i)
    <3> DEFINE row == CHOOSE r \in 0..(CopyHeight(s, b) - 1) : Covers(s, b, r, i)
    <3>1. row \in 0..(CopyHeight(s, b) - 1) /\ Covers(s, b, row, i)
      BY <2>1
    <3>2. Blit(s, b)[i] = b.pixels[SourceOffset(b, row)
                                     + (i - TargetOffset(s, b, row))]
      BY <2>1 DEF Blit
    <3> HIDE DEF row
    <3> QED
      BY <3>1, <3>2, <1>2
  <2>2. CASE ~\E row \in 0..(CopyHeight(s, b) - 1) : Covers(s, b, row, i)
    BY <1>1, <2>2 DEF Blit
  <2> QED
    BY <2>1, <2>2
<1>4. Blit(s, b) \in [1..n -> Pixel]
  BY <1>3 DEF Blit
<1> QED
  BY <1>1, <1>4, SeqOfFunction

-----------------------------------------------------------------------------
(* The operators of the critical sections keep states well typed and the   *)
(* framebuffer the size the state announces.                               *)

(* stop empties the framebuffer. *)
LEMMA StopType ==
  ASSUME NEW s \in State, NEW c \in Cause \cup {NoError}
  PROVE  Stop(s, c) \in State /\ BufferFits(Stop(s, c))
<1> DEFINE e == IF ~s.disconnected /\ s.error = NoError THEN c ELSE s.error
<1>1. e \in Cause \cup {NoError}
  BY DEF State
<1>2. Stop(s, c) = [s EXCEPT !.error = e, !.connected = FALSE,
                             !.disconnected = TRUE,
                             !.framebuffer = << >>, !.has_frame = FALSE]
  BY DEF Stop
<1> HIDE DEF e
<1>3. << >> \in Seq(Pixel)
  OBVIOUS
<1> QED
  BY <1>1, <1>2, <1>3 DEF State, BufferFits

(* A size event allocates a framebuffer of the new size. *)
LEMMA ResizedType ==
  ASSUME NEW s \in State, NEW w \in Nat, NEW h \in Nat,
         ~s.disconnected, BufferFits(s)
  PROVE  OnResized(s, w, h) \in State /\ BufferFits(OnResized(s, w, h))
<1>1. CASE ~SizeAccepted(w, h)
  BY <1>1 DEF OnResized
<1>2. CASE SizeAccepted(w, h)
  <2>1. BlankFramebuffer(w, h) \in [1..(w * h) -> Pixel] /\ w * h \in Nat
    BY PixelAssumption, ProductNat DEF BlankFramebuffer
  <2>2. /\ BlankFramebuffer(w, h) \in Seq(Pixel)
        /\ Len(BlankFramebuffer(w, h)) = w * h
    BY <2>1, SeqOfFunction
  <2>3. w \in 0..MaxDim /\ h \in 0..MaxDim
    BY <1>2, MaxDimAssumption DEF SizeAccepted
  <2>4. OnResized(s, w, h) = [s EXCEPT !.width = w, !.height = h,
                                       !.framebuffer = BlankFramebuffer(w, h),
                                       !.has_frame = FALSE]
    BY <1>2 DEF OnResized
  <2> QED
    BY <2>2, <2>3, <2>4 DEF State, BufferFits
<1> QED
  BY <1>1, <1>2

(* A bitmap update keeps the size. *)
LEMMA BitmapType ==
  ASSUME NEW s \in State, NEW b \in Bitmap, ~s.disconnected, BufferFits(s)
  PROVE  ApplyBitmap(s, b) \in State /\ BufferFits(ApplyBitmap(s, b))
<1>1. CASE s.width = 0 \/ s.height = 0
  BY <1>1 DEF ApplyBitmap
<1>2. CASE ~(s.width = 0 \/ s.height = 0) /\ ~PayloadValid(b)
  BY <1>2 DEF ApplyBitmap, State, BufferFits, Cause
<1>3. CASE ~(s.width = 0 \/ s.height = 0) /\ PayloadValid(b) /\ ~Copies(s, b)
  BY <1>3 DEF ApplyBitmap
<1>4. CASE ~(s.width = 0 \/ s.height = 0) /\ PayloadValid(b) /\ Copies(s, b)
  <2>1. Len(s.framebuffer) = s.width * s.height
    BY DEF BufferFits
  <2>2. Blit(s, b) \in Seq(Pixel) /\ Len(Blit(s, b)) = s.width * s.height
    BY <1>4, <2>1, SlicesInBounds, BlitType
  <2>3. ApplyBitmap(s, b) = [s EXCEPT !.framebuffer = Blit(s, b),
                                      !.frame_version = s.frame_version + 1,
                                      !.has_frame = TRUE]
    BY <1>4 DEF ApplyBitmap
  <2>4. s.frame_version + 1 \in Nat
    BY DEF State
  <2>5. ApplyBitmap(s, b) \in State
    BY <2>2, <2>3, <2>4 DEF State
  <2>6. /\ ApplyBitmap(s, b).framebuffer = Blit(s, b)
        /\ ApplyBitmap(s, b).width = s.width
        /\ ApplyBitmap(s, b).height = s.height
        /\ ApplyBitmap(s, b).disconnected = s.disconnected
    BY <2>3 DEF State
  <2> QED
    BY <2>2, <2>5, <2>6 DEF BufferFits
<1> QED
  BY <1>1, <1>2, <1>3, <1>4

(* Every event is of one of the five kinds. *)
LEMMA EventKinds ==
  ASSUME NEW ev \in Events
  PROVE  \/ ev = ReadyEvent
         \/ ev = ErrorEvent
         \/ \E w, h \in Nat : ev = ResizedEvent(w, h)
         \/ \E b \in Bitmap : ev = BitmapEvent(b)
         \/ \E c \in Cause \cup {NoError} : ev = DisconnectedEvent(c)
<1>1. ASSUME NEW z \in Sizes, ev = ResizedEvent(z[1], z[2])
      PROVE  \E w, h \in Nat : ev = ResizedEvent(w, h)
  BY <1>1, InputAssumption
<1>2. ASSUME NEW b \in Bitmaps, ev = BitmapEvent(b)
      PROVE  \E bm \in Bitmap : ev = BitmapEvent(bm)
  BY <1>2, InputAssumption
<1> QED
  BY <1>1, <1>2 DEF Events, Cause

(* handle_native_output, whichever event it is given. *)
LEMMA HandleType ==
  ASSUME NEW s \in State, NEW ev \in Events, BufferFits(s)
  PROVE  /\ HandleNativeOutput(s, ev) \in State
         /\ BufferFits(HandleNativeOutput(s, ev))
         /\ ~Panics(s, ev)
<1>1. CASE Ignores(s, ev)
  BY <1>1 DEF HandleNativeOutput, Panics
<1>2. CASE ~Ignores(s, ev) /\ ev = ReadyEvent
  BY <1>2 DEF HandleNativeOutput, Ignores, Dispatch, Panics, ReadyEvent,
              OnReady, State, BufferFits
<1>3. CASE ~Ignores(s, ev) /\ ev = ErrorEvent
  BY <1>3 DEF HandleNativeOutput, Ignores, Dispatch, Panics, ErrorEvent,
              OnError, State, BufferFits, Cause
<1>4. ASSUME NEW w \in Nat, NEW h \in Nat, ~Ignores(s, ev),
             ev = ResizedEvent(w, h)
      PROVE  /\ HandleNativeOutput(s, ev) = OnResized(s, w, h)
             /\ ~s.disconnected /\ ~Panics(s, ev)
  BY <1>4 DEF HandleNativeOutput, Ignores, Dispatch, Panics, ResizedEvent
<1>5. ASSUME NEW b \in Bitmap, ~Ignores(s, ev), ev = BitmapEvent(b)
      PROVE  /\ HandleNativeOutput(s, ev) = ApplyBitmap(s, b)
             /\ ~s.disconnected /\ ~Panics(s, ev)
  <2>1. ~s.disconnected /\ ev.kind = "BITMAP" /\ ev.bitmap = b
    BY <1>5 DEF Ignores, BitmapEvent
  <2>2. Copies(s, b) => SlicesExist(s, b)
    BY <2>1, SlicesInBounds DEF BufferFits
  <2> QED
    BY <1>5, <2>1, <2>2 DEF HandleNativeOutput, Dispatch, Panics
<1>6. ASSUME NEW c \in Cause \cup {NoError}, ev = DisconnectedEvent(c)
      PROVE  HandleNativeOutput(s, ev) = Stop(s, c) /\ ~Panics(s, ev)
  BY <1>6 DEF HandleNativeOutput, Ignores, Panics, DisconnectedEvent
<1> QED
  BY <1>1, <1>2, <1>3, <1>4, <1>5, <1>6, EventKinds, StopType, ResizedType,
     BitmapType

-----------------------------------------------------------------------------
(* First inductive invariant: types, no panic, and a framebuffer of the    *)
(* announced size.  Each needs the others: the copy stays in bounds only   *)
(* if the buffer has its size, and the result is typed only if it does.    *)

Safe == TypeOK /\ NeverPoisoned /\ FramebufferMatches

(* A new session is safe: its buffer is empty and so is its desktop. *)
LEMMA SafeInit == Init => Safe
<1> SUFFICES ASSUME Init PROVE Safe
  OBVIOUS
<1>1. InitState \in State /\ BufferFits(InitState)
  BY MaxDimAssumption DEF InitState, State, BufferFits, Cause, NoError
<1>2. None \in Frames
  BY MaxDimAssumption DEF None, Frames
<1> QED
  BY <1>1, <1>2 DEF Init, Safe, TypeOK, NeverPoisoned, FramebufferMatches,
                    FirstSite, Done

(* What notify_all and the end of a wait do to the program counters. *)
LEMMA WakeType ==
  ASSUME TypeOK, WakeAll
  PROVE  pc' \in [Threads -> Done \cup {"enter", "asleep", "woken", "capture"}]
  BY DEF TypeOK, WakeAll, Done

(* What a critical section copies out of the state is a frame. *)
LEMMA FrameType == ASSUME NEW s \in State PROVE Frame(s) \in Frames
  BY DEF State, Frame, Frames

(* Leaving a wait loop keeps every call at a known place. *)
LEMMA LeaveType ==
  ASSUME TypeOK, NEW t \in Threads, LeaveWait(t)
  PROVE  TypeOK'
<1>1. AfterWait(t) \in Done \cup {"enter", "capture"}
  BY DEF TypeOK, AfterWait, Done
<1>2. pc' \in [Threads -> Done \cup {"enter", "asleep", "woken", "capture"}]
  BY <1>1 DEF LeaveWait, TypeOK
<1>3. site' \in [Threads -> {"ready", "frame", "pause", "size"}]
  BY DEF LeaveWait, TypeOK
<1>4. expired' \in [Threads -> BOOLEAN]
  BY DEF LeaveWait, TypeOK
<1> QED
  BY <1>2, <1>3, <1>4 DEF LeaveWait, TypeOK, viewVars

(* Every critical section keeps the safety invariant. *)
LEMMA SafeNext == Safe /\ [Next]_vars => Safe'
<1> SUFFICES ASSUME Safe, [Next]_vars PROVE Safe'
  OBVIOUS
<1> USE DEF Safe
<1>s. state \in State /\ BufferFits(state) /\ ~poisoned
  BY DEF TypeOK, FramebufferMatches, NeverPoisoned
<1>1. ASSUME NEW ev \in Events, Deliver(ev) PROVE Safe'
  <2>1. /\ HandleNativeOutput(state, ev) \in State
        /\ BufferFits(HandleNativeOutput(state, ev))
        /\ ~Panics(state, ev)
    BY <1>s, HandleType
  <2>2. /\ state' = HandleNativeOutput(state, ev)
        /\ WakeAll \/ UNCHANGED pc
        /\ UNCHANGED <<poisoned, site, expired, waited, shot, viewVars>>
    BY <1>1, <2>1 DEF Deliver
  <2>3. pc' \in [Threads -> Done \cup {"enter", "asleep", "woken", "capture"}]
    BY <2>2, WakeType DEF TypeOK
  <2> QED
    BY <2>1, <2>2, <2>3 DEF TypeOK, NeverPoisoned, FramebufferMatches, viewVars
<1>2. ASSUME NEW cause \in {NoError, "write"}, CallStop(cause) PROVE Safe'
  <2>1. Stop(state, cause) \in State /\ BufferFits(Stop(state, cause))
    BY <1>s, StopType DEF Cause
  <2>2. pc' \in [Threads -> Done \cup {"enter", "asleep", "woken", "capture"}]
    BY <1>2, WakeType DEF CallStop
  <2> QED
    BY <1>2, <2>1, <2>2 DEF CallStop, TypeOK, NeverPoisoned, FramebufferMatches, viewVars
<1>3. ASSUME NEW t \in Threads, Call(t) PROVE Safe'
  <2>1. FirstSite(t) \in {"ready", "frame", "pause", "size"}
    BY DEF FirstSite
  <2> QED
    BY <1>3, <2>1 DEF Call, TypeOK, NeverPoisoned, FramebufferMatches, viewVars, Done
<1>4. ASSUME NEW t \in Threads, Expire(t) \/ SpuriousWake(t) \/ Sleep(t) PROVE Safe'
  <2>1. CASE Expire(t)
    <3>1. pc' \in [Threads -> Done \cup {"enter", "asleep", "woken", "capture"}]
      BY <2>1 DEF Expire, TypeOK
    <3>2. expired' \in [Threads -> BOOLEAN]
      BY <2>1 DEF Expire, TypeOK
    <3> QED
      BY <2>1, <3>1, <3>2 DEF Expire, TypeOK, NeverPoisoned, FramebufferMatches, viewVars
  <2>2. CASE SpuriousWake(t)
    BY <2>2 DEF SpuriousWake, TypeOK, NeverPoisoned, FramebufferMatches, viewVars
  <2>3. CASE Sleep(t)
    BY <2>3 DEF Sleep, TypeOK, NeverPoisoned, FramebufferMatches, viewVars
  <2> QED
    BY <1>4, <2>1, <2>2, <2>3
<1>5. ASSUME NEW t \in Threads, Resume(t) \/ GiveUp(t) PROVE Safe'
  <2>1. CASE LeaveWait(t)
    BY <2>1, LeaveType DEF LeaveWait, NeverPoisoned, FramebufferMatches
  <2>2. CASE GiveUp(t) /\ site[t] \in {"ready", "frame"}
    BY <2>2 DEF GiveUp, TypeOK, NeverPoisoned, FramebufferMatches, viewVars, Done
  <2> QED
    BY <1>5, <2>1, <2>2 DEF Resume, GiveUp
<1>6. ASSUME NEW t \in Shooters, Capture(t) PROVE Safe'
  <2>1. Frame(state) \in Frames
    BY <1>s, FrameType
  <2> QED
    BY <1>6, <2>1 DEF Capture, TypeOK, NeverPoisoned, FramebufferMatches,
                      viewVars, Done, Threads
<1>7. ASSUME NEW v \in Viewers, Skip(v) \/ EndStream(v) \/ Encode(v) PROVE Safe'
  <2>1. None \in Frames
    BY MaxDimAssumption DEF None, Frames
  <2> QED
    BY <1>7, <2>1 DEF Skip, EndStream, Encode, TypeOK, NeverPoisoned,
                      FramebufferMatches, callVars
<1>8. ASSUME NEW v \in Viewers, Grab(v) PROVE Safe'
  <2>1. Frame(state) \in Frames
    BY <1>s, FrameType
  <2> QED
    BY <1>8, <2>1 DEF Grab, TypeOK, NeverPoisoned, FramebufferMatches, callVars
<1>9. CASE UNCHANGED vars
  BY <1>9 DEF vars, callVars, viewVars, TypeOK, NeverPoisoned, FramebufferMatches
<1> QED
  BY <1>1, <1>2, <1>3, <1>4, <1>5, <1>6, <1>7, <1>8, <1>9 DEF Next, CallStep

(* The safety invariant holds in every reachable state. *)
LEMMA SafeAlways == Spec => []Safe
  BY SafeInit, SafeNext, PTL DEF Spec

(* Every variable keeps its type in every behaviour. *)
THEOREM TypeCorrect == Spec => []TypeOK
<1>1. Safe => TypeOK
  BY DEF Safe
<1> QED
  BY <1>1, SafeAlways, PTL

(* apply_bitmap never slices out of bounds, so the session mutex is never  *)
(* poisoned, whatever the worker sends and whenever the session is closed. *)
THEOREM MutexNeverPoisoned == Spec => []NeverPoisoned
<1>1. Safe => NeverPoisoned
  BY DEF Safe
<1> QED
  BY <1>1, SafeAlways, PTL

(* Until the session stops, the framebuffer has the announced size. *)
THEOREM FramebufferAlwaysFits == Spec => []FramebufferMatches
<1>1. Safe => FramebufferMatches
  BY DEF Safe
<1> QED
  BY <1>1, SafeAlways, PTL

-----------------------------------------------------------------------------
(* Second inductive invariant: observers agree.  What a critical section   *)
(* may do to the frame on show: replace it under a greater version, hide   *)
(* it, or leave it as it was.                                              *)

FrameStep(s, s2) ==
  /\ s2.frame_version >= s.frame_version
  /\ s2.has_frame => s2.width # 0
  /\ s2.has_frame => \/ s2.frame_version > s.frame_version
                     \/ s.has_frame /\ Frame(s2) = Frame(s)

(* CallbackState::stop takes the frame off show and keeps the version. *)
LEMMA StopFrameStep ==
  ASSUME NEW s \in State, NEW c \in Cause \cup {NoError}
  PROVE  FrameStep(s, Stop(s, c))
<1>1. /\ Stop(s, c).frame_version = s.frame_version
      /\ Stop(s, c).has_frame = FALSE
  BY DEF Stop, State
<1> QED
  BY <1>1 DEF FrameStep, State

(* A step that leaves the frame fields alone is a frame step. *)
LEMMA SameFrameStep ==
  ASSUME NEW s \in State, s.has_frame => s.width # 0
  PROVE  FrameStep(s, s)
  BY DEF FrameStep, State

(* A resize keeps the version and takes the frame off show. *)
LEMMA ResizedFrameStep ==
  ASSUME NEW s \in State, NEW w \in Nat, NEW h \in Nat,
         s.has_frame => s.width # 0
  PROVE  FrameStep(s, OnResized(s, w, h))
<1>1. CASE ~SizeAccepted(w, h)
  BY <1>1, SameFrameStep DEF OnResized
<1>2. CASE SizeAccepted(w, h)
  <2>1. /\ OnResized(s, w, h).frame_version = s.frame_version
        /\ OnResized(s, w, h).has_frame = FALSE
    BY <1>2 DEF OnResized, State
  <2> QED
    BY <2>1 DEF FrameStep, State
<1> QED
  BY <1>1, <1>2

(* apply_bitmap puts a frame on show only with a higher version. *)
LEMMA BitmapFrameStep ==
  ASSUME NEW s \in State, NEW b \in Bitmap, s.has_frame => s.width # 0
  PROVE  FrameStep(s, ApplyBitmap(s, b))
<1>1. CASE s.width = 0 \/ s.height = 0
  BY <1>1, SameFrameStep DEF ApplyBitmap
<1>2. CASE ~(s.width = 0 \/ s.height = 0) /\ ~PayloadValid(b)
  <2>1. ApplyBitmap(s, b) = [s EXCEPT !.error = "payload"]
    BY <1>2 DEF ApplyBitmap
  <2> QED
    BY <2>1 DEF FrameStep, State, Frame
<1>3. CASE ~(s.width = 0 \/ s.height = 0) /\ PayloadValid(b) /\ ~Copies(s, b)
  BY <1>3, SameFrameStep DEF ApplyBitmap
<1>4. CASE ~(s.width = 0 \/ s.height = 0) /\ PayloadValid(b) /\ Copies(s, b)
  <2>1. /\ ApplyBitmap(s, b).frame_version = s.frame_version + 1
        /\ ApplyBitmap(s, b).width = s.width
    BY <1>4 DEF ApplyBitmap, State
  <2> QED
    BY <1>4, <2>1 DEF FrameStep, State
<1> QED
  BY <1>1, <1>2, <1>3, <1>4

(* Hence every native event is a frame step. *)
LEMMA HandleFrameStep ==
  ASSUME NEW s \in State, NEW ev \in Events, s.has_frame => s.width # 0
  PROVE  FrameStep(s, HandleNativeOutput(s, ev))
<1>1. CASE Ignores(s, ev)
  BY <1>1, SameFrameStep DEF HandleNativeOutput
<1>2. CASE ~Ignores(s, ev) /\ ev = ReadyEvent
  <2>1. HandleNativeOutput(s, ev) = [s EXCEPT !.connected = TRUE]
    BY <1>2 DEF HandleNativeOutput, Dispatch, ReadyEvent, OnReady
  <2> QED
    BY <2>1 DEF FrameStep, State, Frame
<1>3. CASE ~Ignores(s, ev) /\ ev = ErrorEvent
  <2>1. HandleNativeOutput(s, ev) = [s EXCEPT !.error = "native"]
    BY <1>3 DEF HandleNativeOutput, Dispatch, ErrorEvent, OnError
  <2> QED
    BY <2>1 DEF FrameStep, State, Frame
<1>4. ASSUME NEW w \in Nat, NEW h \in Nat, ~Ignores(s, ev),
             ev = ResizedEvent(w, h)
      PROVE  HandleNativeOutput(s, ev) = OnResized(s, w, h)
  BY <1>4 DEF HandleNativeOutput, Ignores, Dispatch, ResizedEvent
<1>5. ASSUME NEW b \in Bitmap, ~Ignores(s, ev), ev = BitmapEvent(b)
      PROVE  HandleNativeOutput(s, ev) = ApplyBitmap(s, b)
  BY <1>5 DEF HandleNativeOutput, Ignores, Dispatch, BitmapEvent
<1>6. ASSUME NEW c \in Cause \cup {NoError}, ev = DisconnectedEvent(c)
      PROVE  HandleNativeOutput(s, ev) = Stop(s, c)
  BY <1>6 DEF HandleNativeOutput, Ignores, DisconnectedEvent
<1> QED
  BY <1>1, <1>2, <1>3, <1>4, <1>5, <1>6, EventKinds, StopFrameStep,
     ResizedFrameStep, BitmapFrameStep

Agree == KeyIdentifiesPixels /\ HeldFramesFresh

(* The frames that observers hold are frames. *)
LEMMA HeldTyped == TypeOK => Held \subseteq Frames
  BY DEF TypeOK, Held

(* At first every observer holds the empty frame. *)
LEMMA AgreeInit == Init => Agree
<1> SUFFICES ASSUME Init PROVE Agree
  OBVIOUS
<1>1. Held \subseteq {None}
  BY DEF Init, Held
<1>2. state.frame_version = 0 /\ state.has_frame = FALSE
  BY DEF Init, InitState
<1> QED
  BY <1>1, <1>2 DEF Agree, KeyIdentifiesPixels, HeldFramesFresh, None

(* A critical section that writes the state leaves the observers alone. *)
LEMMA AgreeWhenStateMoves ==
  ASSUME Safe, Agree, Held' = Held, state' \in State, FrameStep(state, state')
  PROVE  Agree'
<1>1. KeyIdentifiesPixels'
  BY DEF Agree, KeyIdentifiesPixels
<1>2. state'.has_frame => state'.width # 0
  BY DEF FrameStep
<1>3. ASSUME NEW f \in Held
      PROVE  /\ f.version <= state'.frame_version
             /\ state'.has_frame /\ Key(f) = Key(Frame(state'))
                   => f = Frame(state')
             /\ f.width = 0 => f = None
  <2>1. /\ f.version \in Nat /\ state.frame_version \in Nat
        /\ state'.frame_version \in Nat
    BY HeldTyped DEF Safe, TypeOK, State, Frames
  <2>2. f.version <= state.frame_version
    BY DEF Agree, HeldFramesFresh
  <2>3. f.version <= state'.frame_version
    BY <2>1, <2>2 DEF FrameStep
  <2>4. ASSUME state'.has_frame, Key(f) = Key(Frame(state'))
        PROVE  f = Frame(state')
    <3>1. f.version = state'.frame_version
      BY <2>4 DEF Key, Frame
    <3>2. state.has_frame /\ Frame(state') = Frame(state)
      BY <2>1, <2>2, <2>4, <3>1 DEF FrameStep
    <3> QED
      BY <2>4, <3>2 DEF Agree, HeldFramesFresh
  <2> QED
    BY <2>3, <2>4 DEF Agree, HeldFramesFresh
<1> QED
  BY <1>1, <1>2, <1>3 DEF Agree, HeldFramesFresh

(* An observer that copies the frame on show, or another held frame, joins *)
(* frames that agree with it.                                              *)
LEMMA AgreeWhenObserved ==
  ASSUME Safe, Agree, state' = state,
         \A f \in Held' : \/ f \in Held \/ f = None
                          \/ state.has_frame /\ f = Frame(state)
  PROVE  Agree'
<1>1. None \in Frames /\ None.version = 0 /\ None.width = 0
  BY MaxDimAssumption DEF None, Frames
<1>2. /\ state.has_frame => state.width # 0
      /\ state.frame_version \in Nat
  BY DEF Agree, HeldFramesFresh, Safe, TypeOK, State
<1>3. ASSUME NEW f \in Held'
      PROVE  /\ f.version <= state.frame_version
             /\ state.has_frame /\ Key(f) = Key(Frame(state)) => f = Frame(state)
             /\ f.width = 0 => f = None
  <2>1. CASE f \in Held
    BY <2>1 DEF Agree, HeldFramesFresh
  <2>2. CASE f = None
    BY <1>1, <1>2, <2>2 DEF Key, Frame
  <2>3. CASE state.has_frame /\ f = Frame(state)
    BY <1>2, <2>3 DEF Frame
  <2> QED
    BY <2>1, <2>2, <2>3
<1>4. ASSUME NEW f \in Held', NEW g \in Held', Key(f) = Key(g)
      PROVE  f = g
  <2>1. f.width = g.width /\ f.version = g.version
    BY <1>4 DEF Key
  <2>2. CASE f.width = 0
    BY <1>3, <2>1, <2>2
  <2>3. CASE f.width # 0 /\ f \in Held /\ g \in Held
    BY <1>4, <2>3 DEF Agree, KeyIdentifiesPixels
  <2>4. CASE state.has_frame /\ f = Frame(state)
    BY <1>3, <1>4, <2>4
  <2>5. CASE state.has_frame /\ g = Frame(state)
    BY <1>3, <1>4, <2>5
  <2> QED
    BY <1>1, <2>1, <2>2, <2>3, <2>4, <2>5
<1> QED
  BY <1>2, <1>3, <1>4 DEF Agree, KeyIdentifiesPixels, HeldFramesFresh

(* Every critical section keeps the observers in agreement. *)
LEMMA AgreeNext == Safe /\ Safe' /\ Agree /\ [Next]_vars => Agree'
<1> SUFFICES ASSUME Safe, Safe', Agree, [Next]_vars PROVE Agree'
  OBVIOUS
<1>s. /\ state \in State /\ state' \in State /\ BufferFits(state)
      /\ state.has_frame => state.width # 0
  BY DEF Safe, TypeOK, Agree, HeldFramesFresh, FramebufferMatches
<1>1. ASSUME NEW ev \in Events, Deliver(ev) PROVE Agree'
  <2>1. state' = HandleNativeOutput(state, ev) /\ UNCHANGED <<shot, viewVars>>
    BY <1>s, <1>1, HandleType DEF Deliver
  <2>2. Held' = Held
    BY <2>1 DEF Held, viewVars
  <2> QED
    BY <1>s, <2>1, <2>2, HandleFrameStep, AgreeWhenStateMoves
<1>2. ASSUME NEW cause \in {NoError, "write"}, CallStop(cause) PROVE Agree'
  <2>1. state' = Stop(state, cause) /\ Held' = Held
    BY <1>2 DEF CallStop, Held, viewVars
  <2>2. FrameStep(state, state')
    BY <1>s, <2>1, StopFrameStep DEF Cause
  <2> QED
    BY <1>s, <2>1, <2>2, AgreeWhenStateMoves
<1>3. ASSUME NEW t \in Threads, Call(t) \/ Expire(t) \/ SpuriousWake(t) \/ CallStep(t)
      PROVE  Agree'
  <2>1. UNCHANGED <<state, shot, viewVars>>
    BY <1>3 DEF Call, Expire, SpuriousWake, CallStep, Sleep, Resume, GiveUp, LeaveWait
  <2>2. Held' = Held
    BY <2>1 DEF Held, viewVars
  <2> QED
    BY <2>1, <2>2, AgreeWhenObserved
<1>4. ASSUME NEW t \in Shooters, Capture(t) PROVE Agree'
  <2>1. /\ UNCHANGED <<state, viewVars>>
        /\ \/ UNCHANGED shot
           \/ state.has_frame /\ shot' = [shot EXCEPT ![t] = Frame(state)]
    BY <1>4 DEF Capture
  <2>2. ASSUME NEW f \in Held'
        PROVE  f \in Held \/ (state.has_frame /\ f = Frame(state))
    BY <2>1 DEF Held, viewVars, Safe, TypeOK
  <2> QED
    BY <2>1, <2>2, AgreeWhenObserved
<1>5. ASSUME NEW v \in Viewers, Grab(v) PROVE Agree'
  <2>1. /\ UNCHANGED <<state, shot, part>> /\ state.has_frame
        /\ grabbed' = [grabbed EXCEPT ![v] = Frame(state)]
    BY <1>5 DEF Grab, callVars
  <2>2. ASSUME NEW f \in Held'
        PROVE  f \in Held \/ f = Frame(state)
    BY <2>1 DEF Held, Safe, TypeOK
  <2> QED
    BY <2>1, <2>2, AgreeWhenObserved
<1>6. ASSUME NEW v \in Viewers, Skip(v) \/ EndStream(v) \/ Encode(v) PROVE Agree'
  <2>1. /\ UNCHANGED <<state, shot, grabbed>>
        /\ \/ UNCHANGED part
           \/ part' = [part EXCEPT ![v] = None]
           \/ part' = [part EXCEPT ![v] = grabbed[v]]
    BY <1>6 DEF Skip, EndStream, Encode, callVars
  <2>2. ASSUME NEW f \in Held'
        PROVE  f \in Held \/ f = None
    BY <2>1 DEF Held, Safe, TypeOK
  <2> QED
    BY <2>1, <2>2, AgreeWhenObserved
<1>7. CASE UNCHANGED vars
  <2>1. UNCHANGED state /\ Held' = Held
    BY <1>7 DEF vars, callVars, viewVars, Held
  <2> QED
    BY <2>1, AgreeWhenObserved
<1> QED
  BY <1>1, <1>2, <1>3, <1>4, <1>5, <1>6, <1>7 DEF Next

(* The observers agree in every reachable state. *)
LEMMA AgreeAlways == Spec => []Agree
  BY AgreeInit, AgreeNext, SafeAlways, PTL DEF Spec

(* (width, height, frame_version) identifies the pixels for all observers  *)
(* at all times: the preview may resend its cached JPEG.                   *)
THEOREM ObserversAgree == Spec => []KeyIdentifiesPixels
<1>1. Agree => KeyIdentifiesPixels
  BY DEF Agree
<1> QED
  BY <1>1, AgreeAlways, PTL

(* A viewer sends exactly the frame it has just copied out, cached or not. *)
THEOREM ViewersSendCurrentFrame == Spec => SentPartIsCurrent
<1>1. ASSUME Safe, Agree, [Next]_vars, NEW v \in Viewers,
             viewer[v] = "encode", part'[v] # None, viewer'[v] # "encode"
      PROVE  part'[v] = grabbed[v]
  <2>1. Encode(v)
    BY <1>1 DEF Next, Safe, TypeOK, Deliver, CallStop, Call, Expire, SpuriousWake,
                CallStep, Sleep, Resume, GiveUp, LeaveWait, Capture, Skip, Grab,
                EndStream, Encode, vars, callVars, viewVars
  <2>2. CASE Key(part[v]) = Key(grabbed[v])
    <3>1. part[v] = grabbed[v]
      BY <1>1, <2>2 DEF Agree, KeyIdentifiesPixels, Held
    <3> QED
      BY <2>1, <2>2, <3>1 DEF Encode
  <2>3. CASE Key(part[v]) # Key(grabbed[v])
    BY <1>1, <2>1, <2>3 DEF Encode, Safe, TypeOK
  <2> QED
    BY <2>2, <2>3
<1>2. Safe /\ Agree /\ [Next]_vars
        => [\A v \in Viewers : viewer[v] = "encode" /\ part'[v] # None
              => viewer'[v] = "encode" \/ part'[v] = grabbed[v]]_vars
  BY <1>1
<1> QED
  BY <1>2, SafeAlways, AgreeAlways, PTL DEF Spec, SentPartIsCurrent

-----------------------------------------------------------------------------
(* Third inductive invariant: whatever is on show was painted.  A resize   *)
(* fills the buffer with black and takes the frame off show in the same    *)
(* critical section; a pixel of the first row of an update puts it back.   *)

OnShow(s) == s.has_frame => \E i \in 1..Len(s.framebuffer) : Painted(s.framebuffer[i])

(* The pixel below the corner of an update that is not clipped away is of  *)
(* the update.                                                             *)
LEMMA BlitPaints ==
  ASSUME NEW s \in State, NEW b \in Bitmaps, Copies(s, b), SlicesExist(s, b)
  PROVE  \E i \in 1..Len(Blit(s, b)) : Painted(Blit(s, b)[i])
<1> DEFINE i == TargetOffset(s, b, 0) + 1
           rows == 0..(CopyHeight(s, b) - 1)
           row == CHOOSE r \in rows : Covers(s, b, r, i)
           j == SourceOffset(b, row) + (i - TargetOffset(s, b, row))
<1>0. b \in Bitmap
  BY InputAssumption
<1>1. /\ s.width \in Nat /\ b.x \in Nat /\ b.y \in Nat /\ b.width \in Nat
      /\ CopyWidth(s, b) \in Nat \ {0} /\ CopyHeight(s, b) \in Nat \ {0}
  BY <1>0, ClipBounds, MaxDimAssumption DEF State, Bitmap, Copies
<1>2. ASSUME NEW r \in rows
      PROVE  TargetOffset(s, b, r) \in Nat /\ SourceOffset(b, r) \in Nat
  <2>1. r \in Nat /\ b.y + r \in Nat
    BY <1>1
  <2>2. (b.y + r) * s.width \in Nat /\ r * b.width \in Nat
    BY <1>1, <2>1, ProductNat
  <2> QED
    BY <1>1, <2>2 DEF TargetOffset, SourceOffset
<1>3. 0 \in rows /\ i \in Nat \ {0}
  BY <1>1, <1>2
<1>4. Covers(s, b, 0, i) /\ i <= Len(s.framebuffer)
  <2>1. TargetOffset(s, b, 0) + CopyWidth(s, b) <= Len(s.framebuffer)
    BY <1>3 DEF SlicesExist
  <2>2. Len(s.framebuffer) \in Nat
    BY DEF State
  <2> QED
    BY <1>1, <1>2, <1>3, <2>1, <2>2 DEF Covers
<1>5. row \in rows /\ Covers(s, b, row, i)
  BY <1>3, <1>4
<1>6. Len(s.framebuffer) \in Nat /\ Len(b.pixels) \in Nat
  BY <1>0 DEF State, Bitmap
<1>7. i \in 1..Len(s.framebuffer)
  BY <1>3, <1>4, <1>6
<1>8. Blit(s, b)[i] = b.pixels[j]
  BY <1>3, <1>4, <1>7 DEF Blit
<1>9. j \in 1..Len(b.pixels)
  <2>1. SourceOffset(b, row) + CopyWidth(s, b) <= Len(b.pixels)
    BY <1>5 DEF SlicesExist
  <2>2. /\ TargetOffset(s, b, row) < i
        /\ i <= TargetOffset(s, b, row) + CopyWidth(s, b)
    BY <1>5 DEF Covers
  <2>3. TargetOffset(s, b, row) \in Nat /\ SourceOffset(b, row) \in Nat
    BY <1>2, <1>5
  <2>4. ASSUME NEW from \in Nat, NEW to \in Nat, NEW w \in Nat, NEW n \in Nat, NEW k \in Nat,
               from + w <= n, to < k, k <= to + w
        PROVE  from + (k - to) \in 1..n
    BY <2>4
  <2> HIDE DEF i, row
  <2> QED
    BY <1>1, <1>3, <1>6, <2>1, <2>2, <2>3, <2>4
<1> HIDE DEF i, j
<1>10. Len(Blit(s, b)) = Len(s.framebuffer)
  BY <1>0, BlitType
<1> QED
  BY <1>7, <1>8, <1>9, <1>10 DEF Painted

(* Every native event keeps what is on show painted. *)
LEMMA HandlePaints ==
  ASSUME NEW s \in State, NEW ev \in Events, BufferFits(s), OnShow(s)
  PROVE  OnShow(HandleNativeOutput(s, ev))
<1>1. CASE Ignores(s, ev)
  BY <1>1 DEF HandleNativeOutput
<1>2. CASE ~Ignores(s, ev) /\ ev \in {ReadyEvent, ErrorEvent}
  <2>1. /\ HandleNativeOutput(s, ev).has_frame = s.has_frame
        /\ HandleNativeOutput(s, ev).framebuffer = s.framebuffer
    BY <1>2 DEF HandleNativeOutput, Dispatch, ReadyEvent, ErrorEvent, OnReady, OnError, State
  <2> QED
    BY <2>1 DEF OnShow
<1>3. ASSUME NEW z \in Sizes, ~Ignores(s, ev), ev = ResizedEvent(z[1], z[2])
      PROVE  OnShow(HandleNativeOutput(s, ev))
  <2>1. HandleNativeOutput(s, ev) = OnResized(s, z[1], z[2])
    BY <1>3 DEF HandleNativeOutput, Dispatch, ResizedEvent
  <2>2. \/ OnResized(s, z[1], z[2]) = s
        \/ OnResized(s, z[1], z[2]).has_frame = FALSE
    BY DEF OnResized, State
  <2> QED
    BY <2>1, <2>2 DEF OnShow
<1>4. ASSUME NEW b \in Bitmaps, ~Ignores(s, ev), ev = BitmapEvent(b)
      PROVE  OnShow(HandleNativeOutput(s, ev))
  <2>1. HandleNativeOutput(s, ev) = ApplyBitmap(s, b) /\ ~s.disconnected
    BY <1>4 DEF HandleNativeOutput, Ignores, Dispatch, BitmapEvent
  <2>2. CASE Copies(s, b)
    <3>1. SlicesExist(s, b)
      BY <2>1, <2>2, InputAssumption, SlicesInBounds DEF BufferFits
    <3>2. ApplyBitmap(s, b).framebuffer = Blit(s, b)
      BY <2>2 DEF ApplyBitmap, Copies, State
    <3> QED
      BY <2>1, <2>2, <3>1, <3>2, BlitPaints DEF OnShow
  <2>3. CASE ~Copies(s, b)
    <3>1. /\ ApplyBitmap(s, b).framebuffer = s.framebuffer
          /\ ApplyBitmap(s, b).has_frame = s.has_frame
      BY <2>3 DEF ApplyBitmap, State
    <3> QED
      BY <2>1, <3>1 DEF OnShow
  <2> QED
    BY <2>2, <2>3
<1>5. ASSUME NEW c \in {NoError, "exit"}, ev = DisconnectedEvent(c)
      PROVE  OnShow(HandleNativeOutput(s, ev))
  <2>1. HandleNativeOutput(s, ev) = Stop(s, c)
    BY <1>5 DEF HandleNativeOutput, Ignores, DisconnectedEvent
  <2> QED
    BY <2>1 DEF Stop, State, OnShow
<1> QED
  BY <1>1, <1>2, <1>3, <1>4, <1>5 DEF Events

(* A screenshot shows what the worker has painted, never the empty buffer  *)
(* of a resize that came between its wait and its copy (screenshot looks   *)
(* at has_frame again under the lock of the copy).                         *)
THEOREM ScreenshotsNeverBlank == Spec => []NoBlankScreenshot
<1> DEFINE Inv == OnShow(state) /\ NoBlankScreenshot
<1>1. Init => Inv
  BY DEF Init, InitState, OnShow, NoBlankScreenshot
<1>2. Safe /\ Inv /\ [Next]_vars => Inv'
  <2> SUFFICES ASSUME Safe, Inv, [Next]_vars PROVE Inv'
    OBVIOUS
  <2>s. state \in State /\ BufferFits(state) /\ shot \in [Shooters -> Frames]
    BY DEF Safe, TypeOK, FramebufferMatches
  <2>1. ASSUME NEW ev \in Events, Deliver(ev) PROVE Inv'
    <3>1. state' = HandleNativeOutput(state, ev) /\ UNCHANGED shot
      BY <2>s, <2>1, HandleType DEF Deliver
    <3> QED
      BY <2>s, <3>1, HandlePaints DEF NoBlankScreenshot
  <2>2. ASSUME NEW cause \in {NoError, "write"}, CallStop(cause) PROVE Inv'
    <3>1. state'.has_frame = FALSE /\ UNCHANGED shot
      BY <2>s, <2>2 DEF CallStop, Stop, State
    <3> QED
      BY <3>1 DEF OnShow, NoBlankScreenshot
  <2>3. ASSUME NEW t \in Shooters, Capture(t) PROVE Inv'
    <3>1. CASE UNCHANGED <<state, shot>>
      BY <3>1 DEF NoBlankScreenshot
    <3>2. CASE UNCHANGED state /\ state.has_frame /\ shot' = [shot EXCEPT ![t] = Frame(state)]
      <4>1. \E i \in 1..Len(Frame(state).pixels) : Painted(Frame(state).pixels[i])
        BY <3>2 DEF OnShow, Frame
      <4>2. ASSUME NEW u \in Shooters PROVE shot'[u] = shot[u] \/ shot'[u] = Frame(state)
        BY <2>s, <3>2
      <4> QED
        BY <3>2, <4>1, <4>2 DEF NoBlankScreenshot
    <3> QED
      BY <2>3, <3>1, <3>2 DEF Capture
  <2>4. CASE UNCHANGED <<state, shot>>
    BY <2>4 DEF NoBlankScreenshot
  <2> QED
    BY <2>1, <2>2, <2>3, <2>4
    DEF Next, Call, Expire, SpuriousWake, CallStep, Sleep, Resume, GiveUp, LeaveWait,
        Skip, Grab, EndStream, Encode, vars, callVars
<1> QED
  BY <1>1, <1>2, SafeAlways, PTL DEF Spec

-----------------------------------------------------------------------------
(* Stopping is final. *)

(* Stopping a stopped session changes nothing, its error included. *)
LEMMA StopTwice ==
  ASSUME NEW s \in State, NEW c, BufferFits(s), s.disconnected
  PROVE  Stop(s, c) = s
  BY DEF Stop, State, BufferFits

(* The only step that can write the state of a stopped session is stop,    *)
(* and it finds nothing to change: the first cause stays.                  *)
THEOREM StoppedStaysStopped == Spec => StoppedIsFinal
<1>1. ASSUME Safe, [Next]_vars, state.disconnected PROVE state' = state
  <2>s. state \in State /\ BufferFits(state)
    BY <1>1 DEF Safe, TypeOK, FramebufferMatches
  <2>1. ASSUME NEW ev \in Events, Deliver(ev) PROVE state' = state
    <3>1. CASE Ignores(state, ev)
      BY <2>1, <3>1 DEF Deliver, HandleNativeOutput
    <3>2. CASE ~Ignores(state, ev)
      <4>1. ev.kind = "DISCONNECTED"
        BY <1>1, <3>2 DEF Ignores
      <4>2. HandleNativeOutput(state, ev) = Stop(state, ev.error)
        BY <3>2, <4>1 DEF HandleNativeOutput
      <4> QED
        BY <1>1, <2>s, <2>1, <4>2, StopTwice DEF Deliver
    <3> QED
      BY <3>1, <3>2
  <2>2. ASSUME NEW cause \in {NoError, "write"}, CallStop(cause)
        PROVE  state' = state
    BY <1>1, <2>s, <2>2, StopTwice DEF CallStop
  <2>3. CASE \/ \E t \in Threads : Call(t) \/ Expire(t) \/ SpuriousWake(t) \/ CallStep(t)
             \/ \E t \in Shooters : Capture(t)
             \/ \E v \in Viewers : Skip(v) \/ Grab(v) \/ EndStream(v) \/ Encode(v)
             \/ UNCHANGED vars
    BY <2>3 DEF Call, Expire, SpuriousWake, CallStep, Sleep, Resume, GiveUp,
                LeaveWait, Capture, Skip, Grab, EndStream, Encode, vars
  <2> QED
    BY <1>1, <2>1, <2>2, <2>3 DEF Next
<1>2. Safe /\ [Next]_vars => [state.disconnected => state' = state]_vars
  BY <1>1
<1> QED
  BY <1>2, SafeAlways, PTL DEF Spec, StoppedIsFinal

-----------------------------------------------------------------------------
(* The session implements SessionStatus. *)

(* A critical section never clears an error or a stop, and loses the       *)
(* connection only by stopping.                                            *)
Advances(s, s2) == /\ s.error # NoError => s2.error # NoError
                   /\ s.disconnected => s2.disconnected
                   /\ s.connected => s2.connected \/ s2.disconnected

(* stop makes the status disconnected. *)
LEMMA StopAdvances ==
  ASSUME NEW s \in State, NEW c \in Cause \cup {NoError}
  PROVE  Advances(s, Stop(s, c))
<1>1. /\ Stop(s, c).disconnected = TRUE
      /\ s.error # NoError => Stop(s, c).error = s.error
  BY DEF Stop, State
<1> QED
  BY <1>1 DEF Advances

(* A resize does not change the status. *)
LEMMA ResizedAdvances ==
  ASSUME NEW s \in State, NEW w, NEW h
  PROVE  Advances(s, OnResized(s, w, h))
<1>1. /\ OnResized(s, w, h).error = s.error
      /\ OnResized(s, w, h).disconnected = s.disconnected
      /\ OnResized(s, w, h).connected = s.connected
  BY DEF OnResized, State
<1> QED
  BY <1>1 DEF Advances

(* An update keeps the status, or ends it with a payload error. *)
LEMMA BitmapAdvances ==
  ASSUME NEW s \in State, NEW b
  PROVE  Advances(s, ApplyBitmap(s, b))
<1>1. /\ ApplyBitmap(s, b).error \in {s.error, "payload"}
      /\ ApplyBitmap(s, b).disconnected = s.disconnected
      /\ ApplyBitmap(s, b).connected = s.connected
  BY DEF ApplyBitmap, State
<1> QED
  BY <1>1 DEF Advances, NoError

(* Hence every native event moves the status forward or not at all. *)
LEMMA HandleAdvances ==
  ASSUME NEW s \in State, NEW ev \in Events
  PROVE  Advances(s, HandleNativeOutput(s, ev))
<1>1. CASE Ignores(s, ev)
  BY <1>1 DEF HandleNativeOutput, Advances
<1>2. CASE ~Ignores(s, ev) /\ ev = ReadyEvent
  BY <1>2 DEF HandleNativeOutput, Dispatch, ReadyEvent, OnReady, State, Advances
<1>3. CASE ~Ignores(s, ev) /\ ev = ErrorEvent
  BY <1>3 DEF HandleNativeOutput, Dispatch, ErrorEvent, OnError, State,
              Advances, NoError
<1>4. ASSUME NEW w \in Nat, NEW h \in Nat, ~Ignores(s, ev),
             ev = ResizedEvent(w, h)
      PROVE  HandleNativeOutput(s, ev) = OnResized(s, w, h)
  BY <1>4 DEF HandleNativeOutput, Ignores, Dispatch, ResizedEvent
<1>5. ASSUME NEW b \in Bitmap, ~Ignores(s, ev), ev = BitmapEvent(b)
      PROVE  HandleNativeOutput(s, ev) = ApplyBitmap(s, b)
  BY <1>5 DEF HandleNativeOutput, Ignores, Dispatch, BitmapEvent
<1>6. ASSUME NEW c \in Cause \cup {NoError}, ev = DisconnectedEvent(c)
      PROVE  HandleNativeOutput(s, ev) = Stop(s, c)
  BY <1>6 DEF HandleNativeOutput, Ignores, DisconnectedEvent
<1> QED
  BY <1>1, <1>2, <1>3, <1>4, <1>5, <1>6, EventKinds, StopAdvances,
     ResizedAdvances, BitmapAdvances

(* rdp_list never reports a session as coming back: every step of the      *)
(* session is a step of SessionStatus or leaves the status alone.          *)
THEOREM ImplementsSessionStatus == Spec => StatusOnlyAdvances
<1>1. Init => Abstract!Init
  BY DEF Init, InitState, Abstract!Init, Status, NoError
<1>2. ASSUME Safe, [Next]_vars PROVE [Abstract!Next]_(Status(state))
  <2>s. state \in State /\ BufferFits(state)
    BY <1>2 DEF Safe, TypeOK, FramebufferMatches
  <2>1. Advances(state, state')
    <3>1. ASSUME NEW ev \in Events, Deliver(ev) PROVE Advances(state, state')
      BY <2>s, <3>1, HandleAdvances, HandleType DEF Deliver
    <3>2. ASSUME NEW cause \in {NoError, "write"}, CallStop(cause)
          PROVE  Advances(state, state')
      BY <2>s, <3>2, StopAdvances DEF CallStop, Cause
    <3>3. CASE \/ \E t \in Threads : Call(t) \/ Expire(t) \/ SpuriousWake(t) \/ CallStep(t)
               \/ \E t \in Shooters : Capture(t)
               \/ \E v \in Viewers : Skip(v) \/ Grab(v) \/ EndStream(v) \/ Encode(v)
               \/ UNCHANGED vars
      <4>1. state' = state
        BY <3>3 DEF Call, Expire, SpuriousWake, CallStep, Sleep, Resume, GiveUp,
                    LeaveWait, Capture, Skip, Grab, EndStream, Encode, vars
      <4> QED
        BY <4>1 DEF Advances
    <3> QED
      BY <1>2, <3>1, <3>2, <3>3 DEF Next
  <2> QED
    BY <2>1 DEF Advances, Status, Abstract!Next, Abstract!Connect, Abstract!Disconnect
<1> QED
  BY <1>1, <1>2, SafeAlways, PTL DEF Spec, StatusOnlyAdvances, Abstract!Spec

-----------------------------------------------------------------------------
(* No missed wake-up. *)

(* No critical section ends a sleeper's wait without waking it. *)
LEMMA WakeupNext == Safe /\ NoMissedWakeup /\ [Next]_vars => NoMissedWakeup'
<1> SUFFICES ASSUME Safe, NoMissedWakeup, [Next]_vars,
                    NEW t \in Threads, pc'[t] = "asleep"
             PROVE  (Waiting(t) /\ ~expired[t])'
  BY DEF NoMissedWakeup
<1>s. state \in State /\ BufferFits(state) /\ pc \in [Threads -> Done \cup {"enter", "asleep", "woken", "capture"}]
  BY DEF Safe, TypeOK, FramebufferMatches
<1>w. ~WakeAll
  BY DEF WakeAll
<1>k. ASSUME pc[t] = "asleep", state' = state, site'[t] = site[t], expired'[t] = expired[t]
      PROVE  (Waiting(t) /\ ~expired[t])'
  BY <1>k DEF NoMissedWakeup, Waiting, WaitingAt, CheckConnected
<1>1. ASSUME NEW ev \in Events, Deliver(ev) PROVE (Waiting(t) /\ ~expired[t])'
  <2>1. ~Panics(state, ev)
    BY <1>s, HandleType
  <2>2. Ignores(state, ev) /\ UNCHANGED <<pc, site, expired>>
    BY <1>1, <1>w, <2>1 DEF Deliver, Notifies
  <2>3. state' = state
    BY <1>1, <2>1, <2>2 DEF Deliver, HandleNativeOutput
  <2> QED
    BY <1>k, <2>2, <2>3
<1>2. ASSUME NEW cause \in {NoError, "write"}, CallStop(cause)
      PROVE  (Waiting(t) /\ ~expired[t])'
  BY <1>2, <1>w DEF CallStop
<1>3. ASSUME NEW u \in Threads, Sleep(u) PROVE (Waiting(t) /\ ~expired[t])'
  <2>1. CASE u = t
    BY <1>3, <2>1 DEF Sleep, Waiting, WaitingAt, CheckConnected
  <2>2. CASE u # t
    BY <1>s, <1>3, <1>k, <2>2 DEF Sleep
  <2> QED
    BY <2>1, <2>2
<1>4. ASSUME NEW u \in Threads,
             Call(u) \/ Expire(u) \/ SpuriousWake(u) \/ Resume(u) \/ GiveUp(u)
      PROVE  (Waiting(t) /\ ~expired[t])'
  <2>1. site \in [Threads -> {"ready", "frame", "pause", "size"}]
        /\ expired \in [Threads -> BOOLEAN]
    BY DEF Safe, TypeOK
  <2>2. AfterWait(u) # "asleep"
    BY <2>1 DEF AfterWait
  <2>3. u # t
    <3>1. CASE Call(u)
      BY <1>s, <3>1 DEF Call
    <3>2. CASE Expire(u)
      BY <1>s, <3>2 DEF Expire
    <3>3. CASE SpuriousWake(u)
      BY <1>s, <3>3 DEF SpuriousWake
    <3>4. CASE Resume(u) \/ GiveUp(u)
      BY <1>s, <2>2, <3>4 DEF Resume, GiveUp, LeaveWait
    <3> QED
      BY <1>4, <3>1, <3>2, <3>3, <3>4
  <2>4. /\ state' = state /\ pc'[t] = pc[t]
        /\ site'[t] = site[t] /\ expired'[t] = expired[t]
    <3>1. CASE Call(u)
      BY <1>s, <2>1, <2>3, <3>1 DEF Call
    <3>2. CASE Expire(u)
      BY <1>s, <2>1, <2>3, <3>2 DEF Expire
    <3>3. CASE SpuriousWake(u)
      BY <1>s, <2>1, <2>3, <3>3 DEF SpuriousWake
    <3>4. CASE Resume(u) \/ GiveUp(u)
      BY <1>s, <2>1, <2>3, <3>4 DEF Resume, GiveUp, LeaveWait
    <3> QED
      BY <1>4, <3>1, <3>2, <3>3, <3>4
  <2> QED
    BY <1>k, <2>4
<1>5. ASSUME NEW u \in Shooters, Capture(u) PROVE (Waiting(t) /\ ~expired[t])'
  BY <1>s, <1>5, <1>k DEF Capture, Threads
<1>6. CASE \/ \E v \in Viewers : Skip(v) \/ Grab(v) \/ EndStream(v) \/ Encode(v)
           \/ UNCHANGED vars
  BY <1>6, <1>k DEF Skip, Grab, EndStream, Encode, vars, callVars
<1> QED
  BY <1>1, <1>2, <1>3, <1>4, <1>5, <1>6 DEF Next, CallStep

(* While a call sleeps on the condition variable, what it waits for has    *)
(* not happened: every writer of the state notifies.                       *)
THEOREM WakeupsNeverMissed == Spec => []NoMissedWakeup
<1>1. Init => NoMissedWakeup
  BY DEF Init, NoMissedWakeup
<1> QED
  BY <1>1, WakeupNext, SafeAlways, PTL DEF Spec
=============================================================================
