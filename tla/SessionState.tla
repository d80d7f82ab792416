---------------------------- MODULE SessionState ----------------------------
(***************************************************************************)
(* The state one RDP session shares between the worker's reader thread,    *)
(* its supervisor thread, the MCP calls and the preview viewers:           *)
(* SessionState and CallbackState of src/session.rs, with the functions    *)
(* that run under its mutex.  A state is a record; every operator below    *)
(* maps the state before a critical section to the state after it.         *)
(*                                                                         *)
(* A pixel stands for the four bytes of one BGRA pixel, so a framebuffer   *)
(* of width * height * 4 bytes is a sequence of width * height pixels.     *)
(***************************************************************************)
EXTENDS Integers, Sequences

CONSTANTS Pixel,    \* the values of one pixel
          Black,    \* the value a freshly allocated framebuffer is filled with
          MaxDim    \* the largest desktop side accepted (8192 in the code)

ASSUME PixelAssumption == Black \in Pixel
ASSUME MaxDimAssumption == MaxDim \in Nat \ {0}

(* Option<String>: only the origin of an error message is kept. *)
NoError == "none"
Cause == {"native", "payload", "exit", "write"}

State == [connected : BOOLEAN, disconnected : BOOLEAN,
          width : 0..MaxDim, height : 0..MaxDim,
          framebuffer : Seq(Pixel), has_frame : BOOLEAN,
          frame_version : Nat, error : Cause \cup {NoError}]

InitState ==
  [connected |-> FALSE, disconnected |-> FALSE, width |-> 0, height |-> 0,
   framebuffer |-> << >>, has_frame |-> FALSE, frame_version |-> 0,
   error |-> NoError]

-----------------------------------------------------------------------------
(* What callers ask of a state. *)

(* check_connected: Ok iff no error, not disconnected, connected. *)
CheckConnected(s) == s.error = NoError /\ ~s.disconnected /\ s.connected

(* The status rdp_list reports (Session::info). *)
Status(s) == IF s.disconnected \/ s.error # NoError THEN "disconnected"
             ELSE IF s.connected THEN "connected" ELSE "connecting"

(* The four fields a screenshot or a preview copies out under the lock. *)
Frame(s) == [width |-> s.width, height |-> s.height,
             version |-> s.frame_version, pixels |-> s.framebuffer]

Frames == [width : 0..MaxDim, height : 0..MaxDim, version : Nat,
           pixels : Seq(Pixel)]

-----------------------------------------------------------------------------
(* CallbackState::stop. *)

StopForgetsFirstCause(s, cause) ==
  [s EXCEPT !.error = cause, !.connected = FALSE, !.disconnected = TRUE,
            !.framebuffer = << >>, !.has_frame = FALSE]

Stop(s, cause) ==
  [s EXCEPT !.error = IF ~s.disconnected /\ s.error = NoError
                      THEN cause ELSE s.error,
            !.connected = FALSE, !.disconnected = TRUE,
            !.framebuffer = << >>, !.has_frame = FALSE]

-----------------------------------------------------------------------------
(* apply_bitmap. *)

Bitmap == [x : Nat, y : Nat, width : Nat, height : Nat, pixels : Seq(Pixel)]

Least(a, b) == IF a < b THEN a ELSE b
SaturatingSub(a, b) == IF a < b THEN 0 ELSE a - b

(* An implementation that clips the source without subtracting the offset. *)
CopyWidthUnclipped(s, b) == Least(b.width, s.width)

CopyWidth(s, b) == Least(b.width, SaturatingSub(s.width, b.x))
CopyHeight(s, b) == Least(b.height, SaturatingSub(s.height, b.y))

(* Offsets, counted from 0, of the first pixel of a copied row. *)
SourceOffset(b, row) == row * b.width
TargetOffset(s, b, row) == (b.y + row) * s.width + b.x

PayloadValid(b) == Len(b.pixels) = b.width * b.height

(* The update reaches the copy loop: it is neither ignored nor rejected. *)
Copies(s, b) == /\ s.width # 0 /\ s.height # 0
                /\ PayloadValid(b)
                /\ CopyWidth(s, b) # 0 /\ CopyHeight(s, b) # 0

(* Both slices of every copied row exist.  Otherwise the slice operation   *)
(* panics with the mutex held, which poisons it for every later lock.      *)
SlicesExist(s, b) ==
  \A row \in 0..(CopyHeight(s, b) - 1) :
    /\ TargetOffset(s, b, row) + CopyWidth(s, b) <= Len(s.framebuffer)
    /\ SourceOffset(b, row) + CopyWidth(s, b) <= Len(b.pixels)

(* Row `row` of the update covers the pixel with (1-based) index i. *)
Covers(s, b, row, i) == /\ TargetOffset(s, b, row) < i
                        /\ i <= TargetOffset(s, b, row) + CopyWidth(s, b)

(* The framebuffer after the copy loop. *)
Blit(s, b) ==
  [i \in 1..Len(s.framebuffer) |->
     IF \E row \in 0..(CopyHeight(s, b) - 1) : Covers(s, b, row, i)
     THEN LET row == CHOOSE r \in 0..(CopyHeight(s, b) - 1) : Covers(s, b, r, i)
          IN  b.pixels[SourceOffset(b, row) + (i - TargetOffset(s, b, row))]
     ELSE s.framebuffer[i]]

ApplyBitmapKeepsVersion(s, b) ==
  IF s.width = 0 \/ s.height = 0 THEN s
  ELSE IF ~PayloadValid(b) THEN [s EXCEPT !.error = "payload"]
  ELSE IF ~Copies(s, b) THEN s
  ELSE [s EXCEPT !.framebuffer = Blit(s, b), !.has_frame = TRUE]

ApplyBitmap(s, b) ==
  IF s.width = 0 \/ s.height = 0 THEN s
  ELSE IF ~PayloadValid(b) THEN [s EXCEPT !.error = "payload"]
  ELSE IF ~Copies(s, b) THEN s
  ELSE [s EXCEPT !.framebuffer = Blit(s, b),
                 !.frame_version = s.frame_version + 1,
                 !.has_frame = TRUE]

-----------------------------------------------------------------------------
(* handle_native_output: one operator per message kind, then the dispatch. *)

OnReadyClearsError(s) == [s EXCEPT !.connected = TRUE, !.error = NoError]

OnReady(s) == [s EXCEPT !.connected = TRUE]

BlankFramebuffer(w, h) == [i \in 1..(w * h) |-> Black]

SizeAcceptedUnbounded(w, h) == w # 0 /\ h # 0

SizeAccepted(w, h) == w \in 1..MaxDim /\ h \in 1..MaxDim

OnResizedResetsVersion(s, w, h) ==
  IF ~SizeAccepted(w, h) THEN s
  ELSE [s EXCEPT !.width = w, !.height = h,
                 !.framebuffer = BlankFramebuffer(w, h),
                 !.frame_version = 0, !.has_frame = FALSE]

(* MSG_CONNECTED and MSG_RESIZED.  The version is not reset. *)
OnResized(s, w, h) ==
  IF ~SizeAccepted(w, h) THEN s
  ELSE [s EXCEPT !.width = w, !.height = h,
                 !.framebuffer = BlankFramebuffer(w, h),
                 !.has_frame = FALSE]

(* MSG_ERROR overwrites whatever error was recorded before. *)
OnError(s) == [s EXCEPT !.error = "native"]

ReadyEvent == [kind |-> "READY"]
ErrorEvent == [kind |-> "ERROR"]
ResizedEvent(w, h) == [kind |-> "RESIZED", width |-> w, height |-> h]
BitmapEvent(b) == [kind |-> "BITMAP", bitmap |-> b]
DisconnectedEvent(cause) == [kind |-> "DISCONNECTED", error |-> cause]

(* The match on the message kind, reached while not disconnected. *)
Dispatch(s, ev) ==
  CASE ev.kind = "READY"   -> OnReady(s)
    [] ev.kind = "RESIZED" -> OnResized(s, ev.width, ev.height)
    [] ev.kind = "BITMAP"  -> ApplyBitmap(s, ev.bitmap)
    [] ev.kind = "ERROR"   -> OnError(s)

IgnoresNothing(s, ev) == FALSE

(* The early return: once disconnected, only MSG_DISCONNECTED is handled. *)
Ignores(s, ev) == s.disconnected /\ ev.kind # "DISCONNECTED"

HandleNativeOutput(s, ev) ==
  IF Ignores(s, ev) THEN s
  ELSE IF ev.kind = "DISCONNECTED" THEN Stop(s, ev.error)
  ELSE Dispatch(s, ev)

(* Every path past the early return ends with notify_all. *)
Notifies(s, ev) == ~Ignores(s, ev)

(* The handler panics while it holds the mutex. *)
Panics(s, ev) ==
  /\ ev.kind = "BITMAP" /\ ~Ignores(s, ev)
  /\ Copies(s, ev.bitmap) /\ ~SlicesExist(s, ev.bitmap)
=============================================================================
