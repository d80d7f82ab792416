------------------------------ MODULE PaintClip ------------------------------
(***************************************************************************)
(* The arithmetic of cb_end_paint (connection.c): what part of a damaged   *)
(* region lies in the frame buffer, and how a region is written into a     *)
(* message whose fields are 16 bits wide.                                  *)
(***************************************************************************)
EXTENDS Integers

CONSTANT U16   \* the fields of a bitmap or cursor header count modulo this
ASSUME U16Assumption == U16 \in Nat \ {0}

Rect(x, y, w, h) == [x |-> x, y |-> y, w |-> w, h |-> h]

ClipPosition(pos) == IF pos < 0 THEN 0 ELSE pos
ClipLengthAtZero(pos, len) == IF pos < 0 THEN len + pos ELSE len

(* One axis: cut off what lies before 0, then what lies past the limit. *)
ClipLength(pos, len, limit) ==
  LET p == ClipPosition(pos)
      l == ClipLengthAtZero(pos, len)
  IN  IF p + l > limit THEN limit - p ELSE l

Clip(r, size) ==
  Rect(ClipPosition(r.x), ClipPosition(r.y),
       ClipLength(r.x, r.w, size.w), ClipLength(r.y, r.h, size.h))

Empty(r) == r.w <= 0 \/ r.h <= 0

(* The points of a region, and whether one is among them. *)
Cells(r) == (r.x .. r.x + r.w - 1) \X (r.y .. r.y + r.h - 1)
Frame(size) == Rect(0, 0, size.w, size.h)

(* (uint16_t): the fields a header can hold. *)
Header(r) == Rect(r.x % U16, r.y % U16, r.w % U16, r.h % U16)
=============================================================================
