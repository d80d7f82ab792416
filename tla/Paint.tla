-------------------------------- MODULE Paint --------------------------------
(***************************************************************************)
(* Painting (connection.c and pointer.c): FreeRDP draws into a frame       *)
(* buffer and reports the damage between two callbacks; the damaged region *)
(* goes to the viewer as a bitmap.  A change of the desktop replaces the   *)
(* buffer and, by a RESIZED message, what the viewer shows.  Points of the *)
(* buffer are only told apart by whether the viewer has them as they are.  *)
(***************************************************************************)
EXTENDS PaintClip, FiniteSets, FiniteSetsExt

CONSTANTS
  Sizes,          \* desktop sizes of the server, records of w and h
  Rects,          \* regions it draws to
  Pointers,       \* pointer objects FreeRDP keeps
  PointerSizes,   \* widths (and heights) of the pointers it makes
  PointerLimit    \* the largest cb_pointer_new accepts (384)

ASSUME SizesAssumption ==
  \A s \in Sizes : s.w \in 1 .. U16 - 1 /\ s.h \in 1 .. U16 - 1
ASSUME RectsAssumption == Rects \subseteq [x : Int, y : Int, w : Int, h : Int]
ASSUME PointersAssumption ==
  PointerLimit \in 0 .. U16 - 1 /\ PointerSizes \subseteq Nat

VARIABLES
  settings,   \* the desktop size of the settings
  gdi,        \* the size of the frame buffer
  primary,    \* the frame buffer exists
  painting,   \* between BeginPaint and EndPaint
  invalid,    \* the damaged region, Null when there is none
  view,       \* the size the viewer was last told
  stale,      \* points the viewer does not have as they are in the buffer
  owed,       \* points the server has yet to draw again after a resize
  lost,       \* points whose damage was dropped for want of memory
  bitmap,     \* the last bitmap written: its header, its size, the buffer then
  pointers,   \* size of the pixels kept with each pointer, 0 for none
  cursor      \* the last cursor message

vars == <<settings, gdi, primary, painting, invalid, view, stale, owed, lost,
          bitmap, pointers, cursor>>
paintVars == <<settings, gdi, primary, painting, invalid, view, stale, owed, lost, bitmap>>

Null == Rect(0, 0, 0, 0)
NoSize == [w |-> 0, h |-> 0]
Cursor(kind, w, bytes) == [kind |-> kind, w |-> w, bytes |-> bytes]
Shown == IF primary THEN Cells(Frame(gdi)) ELSE {}

Init ==
  /\ settings \in Sizes /\ gdi = NoSize /\ primary = FALSE /\ painting = FALSE
  /\ invalid = Null /\ view = NoSize
  /\ stale = {} /\ owed = {} /\ lost = {}
  /\ bitmap = [head |-> Null, bytes |-> 0, of |-> NoSize]
  /\ pointers = [p \in Pointers |-> 0] /\ cursor = Cursor("default", 0, 0)

(* cb_post_connect: CONNECTED, then gdi_init; after it all is painted once. *)
PostConnect ==
  /\ gdi = NoSize
  /\ view' = settings /\ gdi' = settings /\ primary' = TRUE
  /\ owed' = Cells(Frame(settings)) /\ UNCHANGED <<stale, lost>>
  /\ UNCHANGED <<settings, painting, invalid, bitmap, pointers, cursor>>

(* cb_begin_paint *)
BeginPaint ==
  /\ gdi # NoSize /\ ~painting /\ painting' = TRUE
  /\ invalid' = IF primary THEN Null ELSE invalid
  /\ UNCHANGED <<settings, gdi, primary, view, stale, owed, lost, bitmap, pointers, cursor>>

(* FreeRDP draws (external): what of r is in the buffer changes, and the   *)
(* damaged region becomes the smallest that holds the old one and r.       *)
Around(a, b) ==
  IF a = Null THEN b
  ELSE LET x == Min({a.x, b.x})
           y == Min({a.y, b.y})
       IN  Rect(x, y, Max({a.x + a.w, b.x + b.w}) - x, Max({a.y + a.h, b.y + b.h}) - y)

Draw(r) ==
  /\ painting /\ primary
  /\ invalid' = Around(invalid, r)
  /\ stale' = stale \cup (Cells(r) \cap Shown)
  /\ owed' = owed \ Cells(r) /\ lost' = lost \ Cells(r)
  /\ UNCHANGED <<settings, gdi, primary, painting, view, bitmap, pointers, cursor>>

DamageOfSettings == Clip(invalid, settings)

(* The region of the buffer to send: cut to the size of the buffer. *)
Damage == Clip(invalid, gdi)

SkipsPartlyOutside == ~primary \/ invalid = Null \/ invalid.x < 0 \/ Empty(Damage)

Skips == ~primary \/ invalid = Null \/ Empty(Damage)

(* cb_end_paint and output_send_bitmap *)
EndPaint ==
  /\ painting /\ painting' = FALSE
  /\ IF Skips
     THEN UNCHANGED <<bitmap, stale>>
     ELSE /\ bitmap' = [head |-> Header(Damage), bytes |-> 4 * Damage.w * Damage.h, of |-> gdi]
          /\ stale' = stale \ Cells(Damage)
  /\ UNCHANGED <<settings, gdi, primary, invalid, view, owed, lost, pointers, cursor>>

(* malloc fails: nothing is sent, and the next BeginPaint forgets the damage. *)
EndPaintWithoutMemory ==
  /\ painting /\ painting' = FALSE /\ ~Skips
  /\ lost' = lost \cup (stale \cap Cells(Damage))
  /\ UNCHANGED <<settings, gdi, primary, invalid, view, stale, owed, bitmap, pointers, cursor>>

(* The server changes the desktop (external): FreeRDP has it in the        *)
(* settings before it calls cb_desktop_resize.                             *)
DesktopChanges(s) ==
  /\ gdi # NoSize /\ settings' = s
  /\ UNCHANGED <<gdi, primary, painting, invalid, view, stale, owed, lost, bitmap, pointers, cursor>>

(* gdi_resize (external) puts a blank buffer in the place of the old one;  *)
(* when it fails it has kept the old one or is left without any.           *)
GdiResize ==
  \/ gdi' = settings /\ primary' = TRUE /\ invalid' = Null
  \/ UNCHANGED <<gdi, primary, invalid>>
  \/ gdi' = settings /\ primary' = FALSE /\ invalid' = Null

(* The viewer blanks its picture whatever size it is told. *)
AfterResize ==
  /\ stale' = IF primary' /\ gdi' = gdi THEN Shown ELSE {}
  /\ owed' = IF primary' THEN Cells(Frame(gdi')) ELSE {}
  /\ lost' = {}

(* cb_desktop_resize: the size is announced even when gdi_resize fails. *)
DesktopResize ==
  /\ gdi # NoSize
  /\ IF gdi # settings THEN GdiResize ELSE UNCHANGED <<gdi, primary, invalid>>
  /\ AfterResize
  /\ view' = settings
  /\ UNCHANGED <<settings, painting, bitmap, pointers, cursor>>

(* cb_post_disconnect: gdi_free. *)
PostDisconnect ==
  /\ gdi # NoSize /\ ~painting
  /\ gdi' = NoSize /\ primary' = FALSE /\ invalid' = Null
  /\ stale' = {} /\ owed' = {} /\ lost' = {} /\ view' = NoSize
  /\ UNCHANGED <<settings, painting, bitmap, pointers, cursor>>

-----------------------------------------------------------------------------
(* Pointers (pointer.c).  A pointer is as high as it is wide here; FreeRDP *)
(* keeps its size for as long as it keeps the pointer.                     *)

PointerNewUnlimited(p, w) ==
  /\ gdi # NoSize /\ pointers[p] = 0 /\ w > 0
  /\ pointers' = [pointers EXCEPT ![p] = w]
  /\ UNCHANGED <<cursor, paintVars>>

PointerNew(p, w) ==
  /\ gdi # NoSize /\ pointers[p] = 0
  /\ w > 0 /\ w <= PointerLimit
  /\ pointers' = [pointers EXCEPT ![p] = w]
  /\ UNCHANGED <<cursor, paintVars>>

PointerSet(p) ==
  /\ gdi # NoSize /\ pointers[p] # 0
  /\ LET w == pointers[p] IN cursor' = Cursor("set", w % U16, 4 * w * w)
  /\ UNCHANGED <<pointers, paintVars>>

PointerFree(p) ==
  /\ pointers[p] # 0 /\ pointers' = [pointers EXCEPT ![p] = 0]
  /\ UNCHANGED <<cursor, paintVars>>

(* cb_pointer_set_null and cb_pointer_set_default *)
PointerSetStock(kind) ==
  /\ gdi # NoSize /\ cursor' = Cursor(kind, 0, 0)
  /\ UNCHANGED <<pointers, paintVars>>

Next ==
  \/ PostConnect \/ BeginPaint \/ EndPaint \/ EndPaintWithoutMemory
  \/ DesktopResize \/ PostDisconnect
  \/ \E r \in Rects : Draw(r)
  \/ \E s \in Sizes : DesktopChanges(s)
  \/ \E p \in Pointers :
       PointerSet(p) \/ PointerFree(p) \/ \E w \in PointerSizes : PointerNew(p, w)
  \/ \E kind \in {"null", "default"} : PointerSetStock(kind)

Spec == Init /\ [][Next]_vars

-----------------------------------------------------------------------------
(* Properties. *)

(* A bitmap is read from the buffer as it is allocated, not as the settings *)
(* have it while a resize is under way (the comment in cb_end_paint), and   *)
(* its header says where and how large it is: no field is cut to 16 bits.   *)
BitmapIsOfTheBuffer ==
  bitmap.bytes > 0 =>
    /\ Cells(bitmap.head) \subseteq Cells(Frame(bitmap.of))
    /\ bitmap.bytes = 4 * bitmap.head.w * bitmap.head.h

(* Between paints the viewer has every point of the buffer as it is, except *)
(* those the server draws again after a resize and those lost when there    *)
(* was no memory for a bitmap: clipping and resizing drop nothing else.     *)
ViewIsCurrent == ~painting => stale \subseteq owed \cup lost

(* The size of a cursor in its message is the size of its pixels: the limit *)
(* of cb_pointer_new keeps it within the header's 16 bits.                  *)
CursorIsWhole == cursor.kind = "set" => cursor.bytes = 4 * cursor.w * cursor.w

(* What a reader takes from a header is what was read from memory, of      *)
(* bitmaps and of cursors.                                                 *)
HeadersAreExact == BitmapIsOfTheBuffer /\ CursorIsWhole
=============================================================================
