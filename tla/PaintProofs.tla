---------------------------- MODULE PaintProofs -----------------------------
(***************************************************************************)
(* Theorems about Paint, for every set of desktop sizes that fit a header, *)
(* every region FreeRDP draws to, inside the desktop or not, and every     *)
(* order of paints, resizes and pointer updates; and about Output beside   *)
(* it (MCPainting), for every set of threads that send messages and every  *)
(* order of their sections.                                                *)
(***************************************************************************)
EXTENDS MCPainting, TLAPS

-----------------------------------------------------------------------------
(* The arithmetic of cb_end_paint. *)

Region == [x : Int, y : Int, w : Int, h : Int]

(* One axis of a rectangle and of a frame: what is cut off is exactly what *)
(* lies outside.                                                           *)
LEMMA ClipAxis ==
  ASSUME NEW pos \in Int, NEW len \in Int, NEW limit \in Nat
  PROVE  /\ ClipPosition(pos) \in Nat /\ ClipLength(pos, len, limit) \in Int
         /\ ClipPosition(pos) + ClipLength(pos, len, limit) <= limit
         /\ \A i : i \in ClipPosition(pos)
                          .. ClipPosition(pos) + ClipLength(pos, len, limit) - 1
                    <=> i \in pos .. pos + len - 1 /\ i \in 0 .. limit - 1
  BY DEF ClipPosition, ClipLength, ClipLengthAtZero

(* The points of a region, one coordinate at a time. *)
LEMMA CellsByAxis ==
  ASSUME NEW r \in Region, NEW c
  PROVE  c \in Cells(r) <=> /\ c = <<c[1], c[2]>>
                            /\ c[1] \in r.x .. r.x + r.w - 1
                            /\ c[2] \in r.y .. r.y + r.h - 1
  BY DEF Cells

(* A desktop is a region that starts at the origin. *)
LEMMA FrameIsRegion ==
  ASSUME NEW s, s.w \in Nat, s.h \in Nat
  PROVE  /\ Frame(s) \in Region
         /\ Frame(s).x = 0 /\ Frame(s).y = 0 /\ Frame(s).w = s.w /\ Frame(s).h = s.h
  BY DEF Frame, Rect, Region

(* Clipping keeps the points that lie in the buffer and no others. *)
LEMMA ClipIsIntersection ==
  ASSUME NEW r \in Region, NEW s, s.w \in Nat, s.h \in Nat
  PROVE  /\ Clip(r, s) \in Region
         /\ Cells(Clip(r, s)) = Cells(r) \cap Cells(Frame(s))
<1> DEFINE x == r.x
           y == r.y
           w == r.w
           h == r.h
           right == s.w
           bottom == s.h
<1>1. /\ x \in Int /\ y \in Int /\ w \in Int /\ h \in Int
      /\ right \in Nat /\ bottom \in Nat
  BY DEF Region
<1> HIDE DEF x, y, w, h, right, bottom
<1>2. /\ ClipPosition(x) \in Nat /\ ClipLength(x, w, right) \in Int
      /\ \A i : i \in ClipPosition(x) .. ClipPosition(x) + ClipLength(x, w, right) - 1
                 <=> i \in x .. x + w - 1 /\ i \in 0 .. right - 1
  BY <1>1, ClipAxis
<1>3. /\ ClipPosition(y) \in Nat /\ ClipLength(y, h, bottom) \in Int
      /\ \A i : i \in ClipPosition(y) .. ClipPosition(y) + ClipLength(y, h, bottom) - 1
                 <=> i \in y .. y + h - 1 /\ i \in 0 .. bottom - 1
  BY <1>1, ClipAxis
<1>4. /\ Clip(r, s) \in Region
      /\ Clip(r, s).x = ClipPosition(x) /\ Clip(r, s).w = ClipLength(x, w, right)
      /\ Clip(r, s).y = ClipPosition(y) /\ Clip(r, s).h = ClipLength(y, h, bottom)
  BY <1>2, <1>3 DEF Clip, Rect, Region, x, y, w, h, right, bottom
<1>5. ASSUME NEW c
      PROVE  c \in Cells(Clip(r, s)) <=> c \in Cells(r) /\ c \in Cells(Frame(s))
  <2>1. c \in Cells(Clip(r, s)) <=> /\ c = <<c[1], c[2]>>
                                    /\ c[1] \in x .. x + w - 1 /\ c[1] \in 0 .. right - 1
                                    /\ c[2] \in y .. y + h - 1 /\ c[2] \in 0 .. bottom - 1
    BY <1>2, <1>3, <1>4, CellsByAxis
  <2> QED
    BY <2>1, CellsByAxis, FrameIsRegion DEF x, y, w, h, right, bottom
<1> QED
  BY <1>4, <1>5

(* A clipped region that is not empty fits the 16-bit fields of a header,  *)
(* so the casts of output_send_bitmap change nothing.                      *)
LEMMA HeaderIsExact ==
  ASSUME NEW r \in Region, NEW s, s.w \in 1 .. U16 - 1, s.h \in 1 .. U16 - 1,
         ~Empty(Clip(r, s))
  PROVE  Header(Clip(r, s)) = Clip(r, s)
<1>1. r.x \in Int /\ r.y \in Int /\ r.w \in Int /\ r.h \in Int /\ U16 \in Nat
      /\ s.w \in Nat /\ s.h \in Nat
  BY U16Assumption DEF Region
<1> DEFINE c == Clip(r, s)
<1>2. c = Rect(c.x, c.y, c.w, c.h)
  BY DEF Clip, Rect
<1>3. /\ c.x \in Nat /\ c.w \in Int /\ c.x + c.w <= s.w
      /\ c.y \in Nat /\ c.h \in Int /\ c.y + c.h <= s.h
  BY <1>1, ClipAxis DEF Clip, Rect
<1>4. c.w > 0 /\ c.h > 0
  BY <1>3 DEF Empty
<1> HIDE DEF c
<1>5. /\ c.x \in 0 .. U16 - 1 /\ c.y \in 0 .. U16 - 1
      /\ c.w \in 0 .. U16 - 1 /\ c.h \in 0 .. U16 - 1
  BY <1>1, <1>3, <1>4
<1>6. \A n \in 0 .. U16 - 1 : n % U16 = n
  BY <1>1
<1>7. Header(c) = Rect(c.x, c.y, c.w, c.h)
  BY <1>5, <1>6 DEF Header
<1> QED
  BY <1>2, <1>7 DEF c

(* The region FreeRDP keeps holds everything drawn since BeginPaint. *)
LEMMA AroundHoldsBoth ==
  ASSUME NEW a \in Region, NEW b \in Region
  PROVE  /\ Around(a, b) \in Region
         /\ Cells(a) \subseteq Cells(Around(a, b))
         /\ Cells(b) \subseteq Cells(Around(a, b))
<1>1. /\ a.x \in Int /\ a.y \in Int /\ a.w \in Int /\ a.h \in Int
      /\ b.x \in Int /\ b.y \in Int /\ b.w \in Int /\ b.h \in Int
  BY DEF Region
<1>2. CASE a = Null
  <2>1. Cells(a) = {}
    <3>1. \A c : c \notin Cells(a)
      BY <1>2, CellsByAxis DEF Null, Rect
    <3> QED
      BY <3>1
  <2> QED
    BY <1>2, <2>1 DEF Around
<1>3. CASE a # Null
  <2>0. a.x + a.w \in Int /\ b.x + b.w \in Int /\ a.y + a.h \in Int /\ b.y + b.h \in Int
    BY <1>1
  <2>1. ASSUME NEW i \in Int, NEW j \in Int
        PROVE  /\ Min({i, j}) \in Int /\ Min({i, j}) <= i /\ Min({i, j}) <= j
               /\ Max({i, j}) \in Int /\ Max({i, j}) >= i /\ Max({i, j}) >= j
    BY DEF Min, Max
  <2> DEFINE x == Min({a.x, b.x})
             y == Min({a.y, b.y})
             right == Max({a.x + a.w, b.x + b.w})
             bottom == Max({a.y + a.h, b.y + b.h})
  <2>2. /\ x \in Int /\ x <= a.x /\ x <= b.x
        /\ y \in Int /\ y <= a.y /\ y <= b.y
        /\ right \in Int /\ right >= a.x + a.w /\ right >= b.x + b.w
        /\ bottom \in Int /\ bottom >= a.y + a.h /\ bottom >= b.y + b.h
    BY <1>1, <2>0, <2>1
  <2>3. Around(a, b) = Rect(x, y, right - x, bottom - y)
    BY <1>3 DEF Around
  <2> HIDE DEF x, y, right, bottom
  <2>4. /\ Around(a, b) \in Region
        /\ Around(a, b).x = x /\ Around(a, b).w = right - x
        /\ Around(a, b).y = y /\ Around(a, b).h = bottom - y
    BY <2>2, <2>3 DEF Rect, Region
  <2>5. ASSUME NEW c, c \in Cells(a) \/ c \in Cells(b)
        PROVE  c \in Cells(Around(a, b))
    <3>1. c = <<c[1], c[2]>> /\ c[1] \in Int /\ c[2] \in Int
      BY <1>1, <2>5, CellsByAxis
    <3>2. c[1] \in x .. right - 1 /\ c[2] \in y .. bottom - 1
      BY <1>1, <2>2, <2>5, <3>1, CellsByAxis
    <3>3. x + (right - x) - 1 = right - 1 /\ y + (bottom - y) - 1 = bottom - 1
      BY <2>2
    <3> QED
      BY <2>4, <3>1, <3>2, <3>3, CellsByAxis
  <2> QED
    BY <2>4, <2>5
<1> QED
  BY <1>2, <1>3

-----------------------------------------------------------------------------
(* The inductive invariant. *)

(* A frame buffer has one of the server's sizes, painting needs one, and   *)
(* no pointer is larger than the limit.                                    *)
Typed ==
  /\ settings \in Sizes /\ gdi \in Sizes \cup {NoSize}
  /\ primary \in BOOLEAN /\ painting \in BOOLEAN
  /\ invalid \in Region
  /\ pointers \in [Pointers -> 0 .. PointerLimit]
  /\ gdi = NoSize => ~primary /\ ~painting

(* What the viewer misses is in the buffer; while a paint is under way,    *)
(* the damaged region accounts for what neither a resize nor a lost bitmap *)
(* does.                                                                   *)
Accounted ==
  /\ stale \subseteq Shown
  /\ painting => stale \subseteq owed \cup lost \cup Cells(invalid)

Safe == Typed /\ Accounted /\ ViewIsCurrent /\ HeadersAreExact

(* Desktop sizes are naturals, and none is the size of no buffer. *)
LEMMA SizesFit ==
  /\ \A s \in Sizes : s.w \in Nat /\ s.h \in Nat /\ s # NoSize
  /\ NoSize.w \in Nat /\ NoSize.h \in Nat /\ NoSize.w = 0 /\ NoSize.h = 0
  BY SizesAssumption, U16Assumption DEF NoSize

(* No damage, no points. *)
LEMMA NullIsEmpty == Null \in Region /\ Cells(Null) = {}
<1>1. Null \in Region /\ Null.x = 0 /\ Null.w = 0
  BY DEF Null, Rect, Region
<1>2. \A c : c \notin Cells(Null)
  BY <1>1, CellsByAxis
<1> QED
  BY <1>1, <1>2

(* Nor has a region of no width or no height any. *)
LEMMA EmptyHasNoCells ==
  ASSUME NEW r \in Region, Empty(r)
  PROVE  Cells(r) = {}
<1>1. r.x \in Int /\ r.y \in Int /\ r.w \in Int /\ r.h \in Int
  BY DEF Region
<1>2. \A c : c \notin Cells(r)
  BY <1>1, CellsByAxis DEF Empty
<1> QED
  BY <1>2

(* Before the connection. *)
LEMMA SafeInit == Init => Safe
<1> SUFFICES ASSUME Init PROVE Safe
  OBVIOUS
<1>1. Typed
  <2>1. 0 \in 0 .. PointerLimit
    BY PointersAssumption, U16Assumption
  <2> QED
    BY <2>1, NullIsEmpty DEF Init, Typed
<1>2. Accounted /\ ViewIsCurrent
  BY DEF Init, Accounted, ViewIsCurrent
<1>3. HeadersAreExact
  BY DEF Init, HeadersAreExact, BitmapIsOfTheBuffer, CursorIsWhole, Cursor
<1> QED
  BY <1>1, <1>2, <1>3 DEF Safe

(* Resizing keeps a buffer of one of the server's sizes, or none. *)
LEMMA TypedNext == Typed /\ [Next]_vars => Typed'
<1> SUFFICES ASSUME Typed, [Next]_vars PROVE Typed'
  OBVIOUS
<1> USE SizesFit, NullIsEmpty DEF Typed
<1>1. CASE PostConnect
  BY <1>1 DEF PostConnect
<1>2. CASE BeginPaint
  BY <1>2 DEF BeginPaint
<1>3. CASE EndPaint
  BY <1>3 DEF EndPaint
<1>4. CASE EndPaintWithoutMemory
  BY <1>4 DEF EndPaintWithoutMemory
<1>5. CASE DesktopResize
  BY <1>5 DEF DesktopResize, GdiResize
<1>6. CASE PostDisconnect
  BY <1>6 DEF PostDisconnect
<1>7. ASSUME NEW r \in Rects, Draw(r) PROVE Typed'
  <2>1. invalid' \in Region
    BY <1>7, AroundHoldsBoth, RectsAssumption DEF Draw, Region
  <2> QED
    BY <1>7, <2>1 DEF Draw
<1>8. ASSUME NEW s \in Sizes, DesktopChanges(s) PROVE Typed'
  BY <1>8 DEF DesktopChanges
<1>9. ASSUME NEW p \in Pointers, PointerSet(p) PROVE Typed'
  BY <1>9 DEF PointerSet, paintVars
<1>10. ASSUME NEW p \in Pointers, PointerFree(p) PROVE Typed'
  BY <1>10, PointersAssumption, U16Assumption DEF PointerFree, paintVars
<1>11. ASSUME NEW p \in Pointers, NEW w \in PointerSizes, PointerNew(p, w) PROVE Typed'
  BY <1>11, PointersAssumption, U16Assumption DEF PointerNew, paintVars
<1>12. ASSUME NEW kind, PointerSetStock(kind) PROVE Typed'
  BY <1>12 DEF PointerSetStock, paintVars
<1>13. CASE UNCHANGED vars
  BY <1>13 DEF vars
<1> QED
  BY <1>1, <1>2, <1>3, <1>4, <1>5, <1>6, <1>7, <1>8, <1>9, <1>10, <1>11, <1>12, <1>13
     DEF Next

(* Damage is the part of the damaged region that lies in the buffer. *)
LEMMA DamageIsWhatShows ==
  ASSUME Typed
  PROVE  /\ Damage \in Region
         /\ primary => Cells(Damage) = Cells(invalid) \cap Shown
  BY ClipIsIntersection, SizesFit DEF Typed, Damage, Shown

(* A point the viewer misses is in the damaged region, owed by the server  *)
(* or lost, through every paint and resize.                                *)
LEMMA AccountedNext ==
  Typed /\ Accounted /\ ViewIsCurrent /\ [Next]_vars => Accounted' /\ ViewIsCurrent'
<1> SUFFICES ASSUME Typed, Accounted, ViewIsCurrent, [Next]_vars
             PROVE  Accounted' /\ ViewIsCurrent'
  OBVIOUS
<1>1. CASE PostConnect
  <2>1. stale = {} /\ ~painting
    BY <1>1 DEF PostConnect, Typed, Accounted, Shown
  <2> QED
    BY <1>1, <2>1 DEF PostConnect, Accounted, ViewIsCurrent
<1>2. CASE BeginPaint
  BY <1>2 DEF BeginPaint, Accounted, ViewIsCurrent, Shown
<1>3. CASE EndPaint
  <2>1. CASE Skips
    <3>1. stale \cap Cells(invalid) = {}
      BY <2>1, DamageIsWhatShows, EmptyHasNoCells, NullIsEmpty
         DEF Skips, Accounted, Shown
    <3> QED
      BY <1>3, <2>1, <3>1 DEF EndPaint, Accounted, ViewIsCurrent, Shown
  <2>2. CASE ~Skips
    <3>1. stale \cap Cells(invalid) \subseteq Cells(Damage)
      BY <2>2, DamageIsWhatShows DEF Skips, Accounted
    <3> QED
      BY <1>3, <2>2, <3>1 DEF EndPaint, Accounted, ViewIsCurrent, Shown
  <2> QED
    BY <2>1, <2>2
<1>4. CASE EndPaintWithoutMemory
  <2>1. stale \cap Cells(invalid) \subseteq Cells(Damage)
    BY <1>4, DamageIsWhatShows DEF EndPaintWithoutMemory, Skips, Accounted
  <2> QED
    BY <1>4, <2>1 DEF EndPaintWithoutMemory, Accounted, ViewIsCurrent, Shown
<1>5. CASE DesktopResize
  <2>1. stale' \subseteq owed' /\ stale' \subseteq Shown'
    BY <1>5 DEF DesktopResize, AfterResize, Shown
  <2> QED
    BY <2>1 DEF Accounted, ViewIsCurrent
<1>6. CASE PostDisconnect
  BY <1>6 DEF PostDisconnect, Accounted, ViewIsCurrent
<1>7. ASSUME NEW r \in Rects, Draw(r) PROVE Accounted' /\ ViewIsCurrent'
  <2>1. Cells(invalid) \cup Cells(r) \subseteq Cells(invalid')
    BY <1>7, AroundHoldsBoth, RectsAssumption DEF Draw, Typed, Region
  <2>2. UNCHANGED Shown /\ painting /\ painting'
    BY <1>7 DEF Draw, Shown
  <2> QED
    BY <1>7, <2>1, <2>2 DEF Draw, Accounted, ViewIsCurrent
<1>8. ASSUME UNCHANGED <<gdi, primary, painting, invalid, stale, owed, lost>>
      PROVE  Accounted' /\ ViewIsCurrent'
  BY <1>8 DEF Accounted, ViewIsCurrent, Shown
<1>9. ASSUME NEW s \in Sizes, DesktopChanges(s) PROVE Accounted' /\ ViewIsCurrent'
  BY <1>8, <1>9 DEF DesktopChanges
<1>10. ASSUME NEW p \in Pointers, \/ PointerSet(p) \/ PointerFree(p)
                                  \/ \E w \in PointerSizes : PointerNew(p, w)
       PROVE  Accounted' /\ ViewIsCurrent'
  BY <1>8, <1>10 DEF PointerSet, PointerFree, PointerNew, paintVars
<1>11. ASSUME NEW kind, PointerSetStock(kind) PROVE Accounted' /\ ViewIsCurrent'
  BY <1>8, <1>11 DEF PointerSetStock, paintVars
<1>12. CASE UNCHANGED vars
  BY <1>8, <1>12 DEF vars
<1> QED
  BY <1>1, <1>2, <1>3, <1>4, <1>5, <1>6, <1>7, <1>9, <1>10, <1>11, <1>12 DEF Next

(* A bitmap is written from clipped damage, a cursor from a pointer within *)
(* the limit.                                                              *)
LEMMA HeadersNext == Typed /\ HeadersAreExact /\ [Next]_vars => HeadersAreExact'
<1> SUFFICES ASSUME Typed, HeadersAreExact, [Next]_vars PROVE HeadersAreExact'
  OBVIOUS
<1> USE DEF HeadersAreExact
<1>1. ASSUME UNCHANGED <<bitmap, cursor>> PROVE HeadersAreExact'
  BY <1>1 DEF BitmapIsOfTheBuffer, CursorIsWhole
<1>2. CASE EndPaint /\ ~Skips
  <2>1. primary /\ gdi \in Sizes /\ ~Empty(Damage)
    BY <1>2 DEF Skips, Typed
  <2>2. Header(Damage) = Damage
    BY <2>1, HeaderIsExact, SizesAssumption DEF Damage, Typed
  <2>3. Cells(Damage) \subseteq Cells(Frame(gdi))
    BY <2>1, DamageIsWhatShows DEF Shown
  <2>4. bitmap' = [head |-> Damage, bytes |-> 4 * Damage.w * Damage.h, of |-> gdi]
    BY <1>2, <2>2 DEF EndPaint
  <2>5. UNCHANGED cursor
    BY <1>2 DEF EndPaint
  <2> QED
    BY <2>3, <2>4, <2>5 DEF BitmapIsOfTheBuffer, CursorIsWhole
<1>3. ASSUME NEW p \in Pointers, PointerSet(p) PROVE HeadersAreExact'
  <2>1. pointers[p] % U16 = pointers[p]
    BY PointersAssumption, U16Assumption DEF Typed
  <2>2. cursor' = [kind |-> "set", w |-> pointers[p],
                   bytes |-> 4 * pointers[p] * pointers[p]] /\ UNCHANGED bitmap
    BY <1>3, <2>1 DEF PointerSet, Cursor, paintVars
  <2> QED
    BY <2>2 DEF BitmapIsOfTheBuffer, CursorIsWhole
<1>4. ASSUME NEW kind \in {"null", "default"}, PointerSetStock(kind)
      PROVE  HeadersAreExact'
  <2>1. cursor'.kind # "set" /\ UNCHANGED bitmap
    BY <1>4 DEF PointerSetStock, Cursor, paintVars
  <2> QED
    BY <2>1 DEF BitmapIsOfTheBuffer, CursorIsWhole
<1>5. CASE \/ PostConnect \/ BeginPaint \/ (EndPaint /\ Skips) \/ EndPaintWithoutMemory
           \/ DesktopResize \/ PostDisconnect
  BY <1>1, <1>5 DEF PostConnect, BeginPaint, EndPaint, EndPaintWithoutMemory,
                    DesktopResize, PostDisconnect
<1>6. ASSUME NEW r \in Rects, Draw(r) PROVE HeadersAreExact'
  BY <1>1, <1>6 DEF Draw
<1>7. ASSUME NEW s \in Sizes, DesktopChanges(s) PROVE HeadersAreExact'
  BY <1>1, <1>7 DEF DesktopChanges
<1>8. ASSUME NEW p \in Pointers,
             PointerFree(p) \/ \E w \in PointerSizes : PointerNew(p, w)
      PROVE  HeadersAreExact'
  BY <1>1, <1>8 DEF PointerFree, PointerNew, paintVars
<1>9. CASE UNCHANGED vars
  BY <1>1, <1>9 DEF vars
<1> QED
  BY <1>2, <1>3, <1>4, <1>5, <1>6, <1>7, <1>8, <1>9 DEF Next

(* The parts together. *)
LEMMA SafeAlways == Spec => []Safe
<1>1. Safe /\ [Next]_vars => Safe'
  BY TypedNext, AccountedNext, HeadersNext DEF Safe
<1> QED
  BY SafeInit, <1>1, PTL DEF Spec

-----------------------------------------------------------------------------
(* The theorems. *)

(* Between paints the viewer has every point of the buffer as it is, save  *)
(* those owed after a resize or lost for want of memory: the clipping of   *)
(* cb_end_paint and the order of paint and resize drop nothing else.       *)
THEOREM ViewAlwaysCurrent == Spec => []ViewIsCurrent
<1>1. Safe => ViewIsCurrent
  BY DEF Safe
<1> QED
  BY <1>1, SafeAlways, PTL

(* No bitmap reaches outside the buffer it was read from, and no field of  *)
(* a bitmap or cursor header is cut to 16 bits, whatever the server draws. *)
THEOREM HeadersAlwaysExact == Spec => []HeadersAreExact
<1>1. Safe => HeadersAreExact
  BY DEF Safe
<1> QED
  BY <1>1, SafeAlways, PTL

-----------------------------------------------------------------------------
-----------------------------------------------------------------------------
(* The messages of all threads (Output).  The thread that has entered      *)
(* holds the mutex, and only it is inside the callback.                    *)
AllKinds == Writing!Kinds \cup {"none"}
Pieces == [by : Writers, head : BOOLEAN, length : 0 .. 2]
OutputTyped ==
  /\ out \in {"none", "stream", "callback"} /\ inited \in BOOLEAN
  /\ mutex \in Writers \cup {Writing!Nobody}
  /\ doing \in [Writers -> [kind : AllKinds, at : 0 .. 4]]
  /\ stream \in Seq(Pieces) /\ calling \subseteq Writers
Exclusive ==
  /\ \A w \in Writers :
       /\ doing[w].at > 0 => mutex = w /\ doing[w].kind # "none"
       /\ doing[w].kind # "none" => doing[w].at <= Writing!Payload(doing[w].kind) + 2
  /\ \A w \in calling : doing[w].at = 1 /\ out = "callback"

(* A message is open from its header to the end of its section.  What it   *)
(* has written so far is the end of the stream; every other message in the *)
(* stream is complete.                                                     *)
OpenBy(w) == out = "stream" /\ doing[w].at >= 2
Begin(w) == Len(stream) - (doing[w].at - 2)
Unfinished ==
  /\ \A w \in Writers : OpenBy(w) =>
       /\ Begin(w) \in 1 .. Len(stream) /\ stream[Begin(w)].head
       /\ stream[Begin(w)].by = w
       /\ stream[Begin(w)].length = Writing!Payload(doing[w].kind)
  /\ \A i \in 1 .. Len(stream) : stream[i].head =>
       \/ i + stream[i].length <= Len(stream)
       \/ \E w \in Writers : OpenBy(w) /\ i = Begin(w)
OutputInv == OutputTyped /\ Exclusive /\ Unfinished /\ Writing!StreamIsFramed

LEMMA PayloadIs ==
  ASSUME NEW kind \in Writing!Kinds
  PROVE  Writing!Payload(kind) \in 0 .. 2 /\ Writing!Length(kind) = Writing!Payload(kind)
  BY DEF Writing!Kinds, Writing!Payload, Writing!Length

(* Two threads are never past the beginning of a section at once. *)
LEMMA OneInside ==
  ASSUME OutputTyped, Exclusive, NEW v \in Writers, NEW w \in Writers,
         doing[v].at > 0, doing[w].at > 0
  PROVE  v = w
  BY DEF Exclusive

LEMMA OutputTypedNext == OutputTyped /\ Exclusive /\ [Writing!Next]_outputVars => OutputTyped'
<1> SUFFICES ASSUME OutputTyped, Exclusive, [Writing!Next]_outputVars PROVE OutputTyped'
  OBVIOUS
<1> USE DEF OutputTyped
<1>0. "none" \in AllKinds /\ \A kind \in Writing!Kinds : kind \in AllKinds
  BY DEF AllKinds
<1>1. ASSUME NEW mode \in {"stream", "callback"}, Writing!OutputInit(mode) PROVE OutputTyped'
  BY <1>1 DEF Writing!OutputInit
<1>2. CASE Writing!OutputCleanup
  BY <1>2 DEF Writing!OutputCleanup
<1>3. ASSUME NEW w \in Writers, NEW kind \in Writing!Kinds, Writing!Check(w, kind)
      PROVE  OutputTyped'
  BY <1>0, <1>3 DEF Writing!Check
<1>4. ASSUME NEW w \in Writers, Writing!Write(w) PROVE OutputTyped'
  <2>0. doing[w] \in [kind : AllKinds, at : 0 .. 4]
    OBVIOUS
  <2>1. CASE Writing!Enter(w)
    BY <2>0, <2>1 DEF Writing!Enter
  <2>2. CASE Writing!Callback(w)
    BY <2>2 DEF Writing!Callback
  <2>3. CASE Writing!CallbackReturns(w)
    <3>1. doing[w].kind \in Writing!Kinds
      BY <2>0, <2>3 DEF Writing!CallbackReturns, Exclusive, AllKinds
    <3>2. Writing!Payload(doing[w].kind) + 2 \in 0 .. 4
      BY <3>1, PayloadIs
    <3> QED
      BY <2>0, <2>3, <3>2 DEF Writing!CallbackReturns
  <2>4. CASE Writing!WriteHeader(w)
    <3>1. doing[w].kind \in Writing!Kinds
      BY <2>0, <2>4 DEF Writing!WriteHeader, Exclusive, AllKinds
    <3>2. [by |-> w, head |-> TRUE, length |-> Writing!Length(doing[w].kind)] \in Pieces
      BY <3>1, PayloadIs DEF Pieces
    <3>3. stream' \in Seq(Pieces)
      BY <2>4, <3>2 DEF Writing!WriteHeader
    <3> QED
      BY <2>0, <2>4, <3>3 DEF Writing!WriteHeader
  <2>5. CASE Writing!WritePayload(w)
    <3>1. doing[w].kind \in Writing!Kinds
      BY <2>0, <2>5 DEF Writing!WritePayload, Exclusive, AllKinds
    <3>2. doing[w].at + 1 \in 0 .. 4
      <4>1. Writing!Payload(doing[w].kind) \in 0 .. 2
        BY <3>1, PayloadIs
      <4>2. doing[w].at \in 0 .. 4 /\ doing[w].at < Writing!Payload(doing[w].kind) + 2
        BY <2>0, <2>5 DEF Writing!WritePayload
      <4> HIDE DEF OutputTyped
      <4> QED
        BY <4>1, <4>2
    <3>3. [by |-> w, head |-> FALSE, length |-> 0] \in Pieces
      BY DEF Pieces
    <3>4. stream' \in Seq(Pieces)
      BY <2>5, <3>3 DEF Writing!WritePayload
    <3> QED
      BY <2>0, <2>5, <3>2, <3>4 DEF Writing!WritePayload
  <2>6. CASE Writing!Leave(w)
    <3>1. Writing!Idle \in [kind : AllKinds, at : 0 .. 4]
      BY <1>0 DEF Writing!Idle
    <3> QED
      BY <2>6, <3>1 DEF Writing!Leave
  <2> QED
    BY <1>4, <2>1, <2>2, <2>3, <2>4, <2>5, <2>6 DEF Writing!Write
<1>5. CASE UNCHANGED outputVars
  BY <1>5 DEF outputVars
<1> QED
  BY <1>1, <1>2, <1>3, <1>4, <1>5 DEF Writing!Next

LEMMA ExclusiveNext == OutputTyped /\ Exclusive /\ [Writing!Next]_outputVars => Exclusive'
<1> SUFFICES ASSUME OutputTyped, Exclusive, [Writing!Next]_outputVars PROVE Exclusive'
  OBVIOUS
<1>0. /\ doing \in [Writers -> [kind : AllKinds, at : 0 .. 4]] /\ calling \subseteq Writers
      /\ Writing!Nobody \notin Writers
  BY WritersAssumption DEF OutputTyped
<1>1. ASSUME NEW mode \in {"stream", "callback"}, Writing!OutputInit(mode) PROVE Exclusive'
  BY <1>0, <1>1 DEF Writing!OutputInit, Exclusive
<1>2. CASE Writing!OutputCleanup
  <2>1. \A w \in Writers : doing[w].at = 0
    BY <1>2 DEF Writing!OutputCleanup, Writing!Quiet, Writing!Idle
  <2> QED
    BY <1>0, <1>2, <2>1 DEF Writing!OutputCleanup, Exclusive
<1>3. ASSUME NEW w \in Writers, NEW kind \in Writing!Kinds, Writing!Check(w, kind)
      PROVE  Exclusive'
  <2>1. doing[w].at = 0
    BY <1>3 DEF Writing!Check, Writing!Idle
  <2>2. 0 <= Writing!Payload(kind) + 2
    BY PayloadIs
  <2> QED
    BY <1>0, <1>3, <2>1, <2>2 DEF Writing!Check, Exclusive
<1>4. ASSUME NEW w \in Writers, Writing!Write(w) PROVE Exclusive'
  <2>1. CASE Writing!Enter(w)
    <3>1. doing[w].kind # "none" /\ \A v \in Writers : doing[v].at = 0
      <4>1. \A v \in Writers : doing[v].at = 0
        BY <1>0, <2>1 DEF Writing!Enter, Exclusive
      <4>2. doing[w].kind # "none"
        BY <1>0, <2>1, <4>1 DEF Writing!Enter, Writing!Idle
      <4> QED
        BY <4>1, <4>2
    <3>2. doing[w].kind \in Writing!Kinds
      BY <1>0, <3>1 DEF AllKinds
    <3>3. 1 <= Writing!Payload(doing[w].kind) + 2
      BY <3>2, PayloadIs
    <3> QED
      BY <1>0, <2>1, <3>1, <3>3 DEF Writing!Enter, Exclusive
  <2>2. CASE Writing!Callback(w)
    BY <1>0, <2>2 DEF Writing!Callback, Exclusive
  <2>3. CASE Writing!CallbackReturns(w)
    <3>1. \A v \in calling : v = w
      <4>1. \A v \in calling : v \in Writers /\ doing[v].at > 0
        BY <1>0 DEF Exclusive
      <4>2. w \in calling
        BY <2>3 DEF Writing!CallbackReturns
      <4> QED
        BY <4>1, <4>2, OneInside
    <3>2. doing[w].kind \in Writing!Kinds /\ doing[w].at = 1
      BY <1>0, <2>3 DEF Writing!CallbackReturns, Exclusive, AllKinds
    <3>3. Writing!Payload(doing[w].kind) \in 0 .. 2
      BY <3>2, PayloadIs
    <3>4. calling' = {} /\ mutex' = mutex
          /\ doing' = [doing EXCEPT ![w].at = Writing!Payload(doing[w].kind) + 2]
      BY <2>3, <3>1 DEF Writing!CallbackReturns
    <3> QED
      BY <1>0, <3>2, <3>3, <3>4 DEF Exclusive
  <2>4. CASE Writing!WriteHeader(w)
    <3>1. doing[w].kind \in Writing!Kinds
      BY <1>0, <2>4 DEF Writing!WriteHeader, Exclusive, AllKinds
    <3>2. 2 <= Writing!Payload(doing[w].kind) + 2
      BY <3>1, PayloadIs
    <3> QED
      BY <1>0, <2>4, <3>2 DEF Writing!WriteHeader, Exclusive
  <2>5. CASE Writing!WritePayload(w)
    <3>1. doing[w].kind \in Writing!Kinds
      BY <1>0, <2>5 DEF Writing!WritePayload, Exclusive, AllKinds
    <3>2. doing[w].at + 1 <= Writing!Payload(doing[w].kind) + 2
      BY <1>0, <2>5, <3>1, PayloadIs DEF Writing!WritePayload
    <3> QED
      BY <1>0, <2>5, <3>2 DEF Writing!WritePayload, Exclusive
  <2>6. CASE Writing!Leave(w)
    <3>1. doing[w].kind \in Writing!Kinds
      BY <1>0, <2>6 DEF Writing!Leave, Writing!Idle, Exclusive, AllKinds
    <3>2. w \notin calling
      BY <1>0, <2>6, <3>1, PayloadIs DEF Writing!Leave, Exclusive
    <3>3. \A v \in Writers : v # w => doing[v].at = 0
      <4>1. doing[w].at > 0
        BY <2>6, <3>1, PayloadIs DEF Writing!Leave
      <4> QED
        BY <1>0, <4>1, OneInside
    <3> QED
      BY <1>0, <2>6, <3>2, <3>3 DEF Writing!Leave, Writing!Idle, Exclusive
  <2> QED
    BY <1>4, <2>1, <2>2, <2>3, <2>4, <2>5, <2>6 DEF Writing!Write
<1>5. CASE UNCHANGED outputVars
  BY <1>5 DEF outputVars, Exclusive
<1> QED
  BY <1>1, <1>2, <1>3, <1>4, <1>5 DEF Writing!Next

(* The end of the stream, as the thread that writes finds it: before the   *)
(* open message everything is complete.                                    *)
LEMMA BeforeOpen ==
  ASSUME OutputInv, NEW w \in Writers, OpenBy(w), NEW i \in 1 .. Len(stream),
         stream[i].head, i # Begin(w)
  PROVE  i + stream[i].length < Begin(w)
<1>1. /\ Begin(w) \in 1 .. Len(stream) /\ stream[Begin(w)].head
      /\ stream[Begin(w)].length = Writing!Payload(doing[w].kind)
  BY DEF OutputInv, Unfinished
<1>2. doing[w].at \in 2 .. 4 /\ doing[w].kind \in Writing!Kinds
  BY DEF OutputInv, OutputTyped, Exclusive, OpenBy, AllKinds
<1>3. doing[w].at - 2 <= Writing!Payload(doing[w].kind) /\ Writing!Payload(doing[w].kind) \in 0 .. 2
  BY <1>2, PayloadIs DEF OutputInv, Exclusive, Writing!Kinds
<1>4. stream[i].length \in 0 .. 2 /\ Len(stream) \in Nat
  <2>1. stream \in Seq(Pieces)
    BY DEF OutputInv, OutputTyped
  <2>2. stream[i] \in Pieces
    BY <2>1
  <2> QED
    BY <2>1, <2>2 DEF Pieces
<1>5. CASE i > Begin(w)
  <2> DEFINE k == i - Begin(w)
  <2>1. k \in 1 .. stream[Begin(w)].length /\ Begin(w) + k = i
    <3>1. k <= doing[w].at - 2
      BY <1>2, <1>4, <1>5 DEF Begin
    <3>2. k \in Nat \ {0}
      BY <1>1, <1>4, <1>5
    <3> HIDE DEF k
    <3>3. k \in 1 .. Writing!Payload(doing[w].kind)
      BY <1>2, <1>3, <3>1, <3>2
    <3> QED
      BY <1>1, <1>4, <3>3 DEF k
  <2> HIDE DEF k
  <2>2. ~stream[Begin(w) + k].head
    BY <1>1, <2>1 DEF OutputInv, Writing!StreamIsFramed
  <2> QED
    BY <2>1, <2>2
<1>6. CASE i < Begin(w)
  <2> SUFFICES ASSUME i + stream[i].length >= Begin(w) PROVE FALSE
    BY <1>1, <1>4
  <2> DEFINE k == Begin(w) - i
  <2>1. k \in 1 .. stream[i].length /\ i + k = Begin(w)
    BY <1>1, <1>4, <1>6
  <2>2. ~stream[Begin(w)].head
    BY <1>1, <2>1 DEF OutputInv, Writing!StreamIsFramed
  <2> QED
    BY <1>1, <2>2
<1> QED
  BY <1>1, <1>5, <1>6

(* What is written while nobody has a message open begins one; *)
LEMMA HeaderFrames ==
  ASSUME OutputInv, NEW w \in Writers, Writing!WriteHeader(w)
  PROVE  Unfinished' /\ Writing!StreamIsFramed'
<1> DEFINE n == Len(stream)
<1>1. /\ doing \in [Writers -> [kind : AllKinds, at : 0 .. 4]]
      /\ n \in Nat /\ \A i \in 1 .. n : stream[i] \in Pieces
  BY DEF OutputInv, OutputTyped
<1>2. doing[w].at = 1 /\ doing[w].kind \in Writing!Kinds
  BY <1>1 DEF Writing!WriteHeader, OutputInv, Exclusive, AllKinds
<1>3. \A v \in Writers : v # w => doing[v].at = 0
  BY <1>1, <1>2, OneInside DEF OutputInv
<1>4. \A v \in Writers : ~OpenBy(v)
  BY <1>2, <1>3 DEF OpenBy
<1>5. \A i \in 1 .. n : stream[i].head => i + stream[i].length <= n
  BY <1>4 DEF OutputInv, Unfinished
<1>6. /\ Len(stream') = n + 1 /\ \A i \in 1 .. n : stream'[i] = stream[i]
      /\ stream'[n + 1] = [by |-> w, head |-> TRUE, length |-> Writing!Payload(doing[w].kind)]
      /\ doing' = [doing EXCEPT ![w].at = 2] /\ UNCHANGED out
  <2>1. Writing!Length(doing[w].kind) = Writing!Payload(doing[w].kind)
    BY <1>2, PayloadIs
  <2>2. stream \in Seq(Pieces)
    BY DEF OutputInv, OutputTyped
  <2> QED
    BY <1>1, <2>1, <2>2 DEF Writing!WriteHeader
<1>7. \A i \in 1 .. n : stream[i].length \in 0 .. 2
  BY <1>1 DEF Pieces
<1>8. Writing!Payload(doing[w].kind) \in 0 .. 2
  BY <1>2, PayloadIs
<1>9. Writing!StreamIsFramed'
  <2> SUFFICES ASSUME NEW i \in 1 .. n + 1, stream'[i].head
               PROVE  /\ \A k \in 1 .. stream'[i].length : i + k <= n + 1 =>
                           ~stream'[i + k].head /\ stream'[i + k].by = stream'[i].by
                      /\ i + stream'[i].length < n + 1 => stream'[i + stream'[i].length + 1].head
    BY <1>6 DEF Writing!StreamIsFramed
  <2>1. CASE i = n + 1
    BY <1>1, <1>6, <1>8, <2>1
  <2>2. CASE i # n + 1
    <3>1. i \in 1 .. n /\ stream[i].head /\ stream'[i] = stream[i] /\ i + stream[i].length <= n
      BY <1>1, <1>5, <1>6, <2>2
    <3>2. ASSUME NEW k \in 1 .. stream[i].length
          PROVE  ~stream'[i + k].head /\ stream'[i + k].by = stream[i].by
      <4>1. i + k \in 1 .. n
        BY <1>1, <1>7, <3>1
      <4> QED
        BY <1>1, <1>6, <3>1, <4>1 DEF OutputInv, Writing!StreamIsFramed
    <3>3. stream'[i + stream[i].length + 1].head
      <4>1. CASE i + stream[i].length = n
        BY <1>6, <4>1
      <4>2. CASE i + stream[i].length < n
        <5>1. i + stream[i].length + 1 \in 1 .. n
          BY <1>1, <1>7, <3>1, <4>2
        <5> QED
          BY <1>6, <3>1, <4>2, <5>1 DEF OutputInv, Writing!StreamIsFramed
      <4> QED
        BY <1>1, <1>7, <3>1, <4>1, <4>2
    <3> QED
      BY <3>1, <3>2, <3>3
  <2> QED
    BY <2>1, <2>2
<1>10. Unfinished'
  <2>1. out' = "stream" /\ doing'[w].at = 2 /\ doing'[w].kind = doing[w].kind
    BY <1>1, <1>6 DEF Writing!WriteHeader
  <2>2. \A v \in Writers : v # w => ~OpenBy(v)'
    BY <1>1, <1>3, <1>6 DEF OpenBy
  <2>3. OpenBy(w)' /\ Begin(w)' = n + 1
    BY <1>1, <1>6, <2>1 DEF OpenBy, Begin
  <2>4. \A i \in 1 .. n + 1 : stream'[i].head =>
          i + stream'[i].length <= n + 1 \/ i = n + 1
    BY <1>1, <1>5, <1>6, <1>7
  <2> QED
    BY <1>1, <1>6, <2>1, <2>2, <2>3, <2>4 DEF Unfinished
<1> QED
  BY <1>9, <1>10

(* what the holder of the mutex writes next continues it, up to its length. *)
LEMMA PayloadFrames ==
  ASSUME OutputInv, NEW w \in Writers, Writing!WritePayload(w)
  PROVE  Unfinished' /\ Writing!StreamIsFramed'
<1> DEFINE n == Len(stream)
           h == Begin(w)
           l == Writing!Payload(doing[w].kind)
<1>1. /\ doing \in [Writers -> [kind : AllKinds, at : 0 .. 4]]
      /\ n \in Nat /\ \A i \in 1 .. n : stream[i] \in Pieces
  BY DEF OutputInv, OutputTyped
<1>2. doing[w].at \in 2 .. 4 /\ doing[w].kind \in Writing!Kinds /\ OpenBy(w)
  BY <1>1 DEF Writing!WritePayload, OutputInv, Exclusive, AllKinds, OpenBy
<1>3. \A v \in Writers : v # w => doing[v].at = 0
  BY <1>1, <1>2, OneInside DEF OutputInv
<1>4. h \in 1 .. n /\ stream[h].head /\ stream[h].by = w /\ stream[h].length = l
  BY <1>2 DEF OutputInv, Unfinished
<1>5. l \in 0 .. 2 /\ doing[w].at < l + 2 /\ h = n - (doing[w].at - 2)
  BY <1>2, PayloadIs DEF Writing!WritePayload, Begin
<1>6. /\ Len(stream') = n + 1 /\ \A i \in 1 .. n : stream'[i] = stream[i]
      /\ stream'[n + 1] = [by |-> w, head |-> FALSE, length |-> 0]
      /\ doing' = [doing EXCEPT ![w].at = @ + 1] /\ UNCHANGED out
  BY <1>1 DEF Writing!WritePayload, OutputInv, OutputTyped
<1>7. \A i \in 1 .. n : stream[i].length \in 0 .. 2
  BY <1>1 DEF Pieces
<1>8. \A i \in 1 .. n : stream[i].head /\ i # h => i + stream[i].length < h
  BY <1>2, BeforeOpen
<1> HIDE DEF h, l
<1>9. Writing!StreamIsFramed'
  <2> SUFFICES ASSUME NEW i \in 1 .. n + 1, stream'[i].head
               PROVE  /\ \A k \in 1 .. stream'[i].length : i + k <= n + 1 =>
                           ~stream'[i + k].head /\ stream'[i + k].by = stream'[i].by
                      /\ i + stream'[i].length < n + 1 => stream'[i + stream'[i].length + 1].head
    BY <1>6 DEF Writing!StreamIsFramed
  <2>1. i \in 1 .. n /\ stream[i].head /\ stream'[i] = stream[i]
    BY <1>1, <1>6
  <2>2. CASE i = h
    <3>1. stream[i].length = l /\ stream[i].by = w /\ i + l >= n + 1
      BY <1>1, <1>2, <1>4, <1>5, <2>2
    <3>2. ASSUME NEW k \in 1 .. l, i + k <= n + 1
          PROVE  ~stream'[i + k].head /\ stream'[i + k].by = w
      <4>1. CASE i + k = n + 1
        BY <1>6, <4>1
      <4>2. CASE i + k # n + 1
        <5>1. i + k \in 1 .. n
          BY <1>1, <1>5, <3>2, <4>2
        <5> QED
          BY <1>6, <2>1, <3>1, <5>1 DEF OutputInv, Writing!StreamIsFramed
      <4> QED
        BY <4>1, <4>2
    <3> QED
      BY <1>1, <1>5, <2>1, <3>1, <3>2
  <2>3. CASE i # h
    <3>1. i + stream[i].length < h /\ h <= n
      BY <1>4, <1>8, <2>1, <2>3
    <3>2. ASSUME NEW k \in 1 .. stream[i].length
          PROVE  ~stream'[i + k].head /\ stream'[i + k].by = stream[i].by
      <4>1. i + k \in 1 .. n
        BY <1>1, <1>4, <1>7, <2>1, <3>1
      <4>2. i + k <= Len(stream)
        BY <4>1
      <4>3. ~stream[i + k].head /\ stream[i + k].by = stream[i].by
        BY <2>1, <4>2 DEF OutputInv, Writing!StreamIsFramed
      <4> QED
        BY <1>6, <4>1, <4>3
    <3>3. stream'[i + stream[i].length + 1].head
      <4>1. i + stream[i].length + 1 \in 1 .. n /\ i + stream[i].length < n
        BY <1>1, <1>4, <1>7, <2>1, <3>1
      <4> QED
        BY <1>6, <2>1, <4>1 DEF OutputInv, Writing!StreamIsFramed
    <3> QED
      BY <2>1, <3>2, <3>3
  <2> QED
    BY <2>2, <2>3
<1>10. Unfinished'
  <2>1. out' = "stream" /\ doing'[w].at = doing[w].at + 1 /\ doing'[w].kind = doing[w].kind
    BY <1>1, <1>6 DEF Writing!WritePayload
  <2>2. \A v \in Writers : v # w => ~OpenBy(v)'
    BY <1>1, <1>3, <1>6 DEF OpenBy
  <2>3. OpenBy(w)' /\ Begin(w)' = h
    BY <1>1, <1>2, <1>5, <1>6, <2>1 DEF OpenBy, Begin
  <2>4. \A i \in 1 .. n + 1 : stream'[i].head => i + stream'[i].length <= n + 1 \/ i = h
    BY <1>1, <1>4, <1>6, <1>7, <1>8
  <2>5. h \in 1 .. n + 1 /\ stream'[h] = stream[h]
    BY <1>1, <1>4, <1>6
  <2> QED
    BY <1>4, <1>6, <2>1, <2>2, <2>3, <2>4, <2>5 DEF Unfinished, l
<1> QED
  BY <1>9, <1>10

(* At the end of a section the message is complete. *)
LEMMA LeaveCloses ==
  ASSUME OutputInv, NEW w \in Writers, Writing!Leave(w)
  PROVE  Unfinished'
<1>1. /\ doing \in [Writers -> [kind : AllKinds, at : 0 .. 4]] /\ Len(stream) \in Nat
      /\ \A i \in 1 .. Len(stream) : stream[i] \in Pieces
  BY DEF OutputInv, OutputTyped
<1>2. doing[w].kind \in Writing!Kinds
  BY <1>1 DEF Writing!Leave, Writing!Idle, OutputInv, Exclusive, AllKinds
<1>3. doing[w].at = Writing!Payload(doing[w].kind) + 2 /\ doing[w].at > 0
  BY <1>2, PayloadIs DEF Writing!Leave
<1>4. \A v \in Writers : v # w => doing[v].at = 0
  BY <1>1, <1>3, OneInside DEF OutputInv
<1>5. \A v \in Writers : ~OpenBy(v)'
  BY <1>1, <1>4 DEF Writing!Leave, Writing!Idle, OpenBy
<1>6. ASSUME NEW i \in 1 .. Len(stream), stream[i].head
      PROVE  i + stream[i].length <= Len(stream)
  <2>1. CASE \E v \in Writers : OpenBy(v) /\ i = Begin(v)
    <3>1. OpenBy(w) /\ i = Begin(w)
      BY <1>4, <2>1 DEF OpenBy
    <3>2. stream[i].length = Writing!Payload(doing[w].kind)
      BY <3>1 DEF OutputInv, Unfinished
    <3> QED
      BY <1>1, <1>2, <1>3, <3>1, <3>2, PayloadIs DEF Begin
  <2> QED
    BY <1>6, <2>1 DEF OutputInv, Unfinished
<1> QED
  BY <1>5, <1>6 DEF Writing!Leave, Unfinished

(* Whoever neither writes nor leaves a section changes no message. *)
LEMMA OthersFrame ==
  ASSUME OutputInv, UNCHANGED stream,
         \/ UNCHANGED <<out, doing>>
         \/ \A w \in Writers : ~OpenBy(w) /\ ~OpenBy(w)'
  PROVE  Unfinished' /\ Writing!StreamIsFramed'
<1>1. Writing!StreamIsFramed'
  BY DEF OutputInv, Writing!StreamIsFramed
<1>2. CASE UNCHANGED <<out, doing>>
  BY <1>1, <1>2 DEF OutputInv, Unfinished, OpenBy, Begin
<1>3. CASE \A w \in Writers : ~OpenBy(w) /\ ~OpenBy(w)'
  BY <1>1, <1>3 DEF OutputInv, Unfinished
<1> QED
  BY <1>2, <1>3

(* A thread that has not written its header yet changes no message. *)
LEMMA SectionsStay ==
  ASSUME OutputInv, UNCHANGED <<out, stream>>, NEW w \in Writers,
         \A v \in Writers : v # w => doing'[v] = doing[v],
         doing[w].at \in 0 .. 1, doing'[w].at \in 0 .. 1
  PROVE  Unfinished' /\ Writing!StreamIsFramed'
<1>1. ~OpenBy(w) /\ ~OpenBy(w)'
  BY DEF OpenBy
<1>2. \A v \in Writers : (OpenBy(v)' <=> OpenBy(v)) /\ (OpenBy(v) => Begin(v)' = Begin(v))
  BY <1>1 DEF OpenBy, Begin
<1>3. \A v \in Writers : OpenBy(v) => doing'[v] = doing[v]
  BY <1>1
<1> QED
  BY <1>2, <1>3 DEF OutputInv, Unfinished, Writing!StreamIsFramed

LEMMA FramesNext == OutputInv /\ [Writing!Next]_outputVars => Unfinished' /\ Writing!StreamIsFramed'
<1> SUFFICES ASSUME OutputInv, [Writing!Next]_outputVars
             PROVE  Unfinished' /\ Writing!StreamIsFramed'
  OBVIOUS
<1>0. doing \in [Writers -> [kind : AllKinds, at : 0 .. 4]] /\ calling \subseteq Writers
  BY DEF OutputInv, OutputTyped
<1>1. ASSUME NEW mode \in {"stream", "callback"}, Writing!OutputInit(mode)
      PROVE  Unfinished' /\ Writing!StreamIsFramed'
  BY <1>1, OthersFrame DEF Writing!OutputInit, Writing!Quiet, Writing!Idle, OpenBy
<1>2. CASE Writing!OutputCleanup
  BY <1>2, OthersFrame DEF Writing!OutputCleanup, Writing!Quiet, Writing!Idle, OpenBy
<1>3. ASSUME NEW w \in Writers, NEW kind \in Writing!Kinds, Writing!Check(w, kind)
      PROVE  Unfinished' /\ Writing!StreamIsFramed'
  <2>1. /\ UNCHANGED <<out, stream>> /\ doing[w] = [kind |-> "none", at |-> 0]
        /\ doing' = [doing EXCEPT ![w] = [kind |-> kind, at |-> 0]]
    BY <1>3 DEF Writing!Check, Writing!Idle
  <2> QED
    BY <1>0, <2>1, SectionsStay
<1>4. ASSUME NEW w \in Writers, Writing!Write(w)
      PROVE  Unfinished' /\ Writing!StreamIsFramed'
  <2>1. CASE Writing!Enter(w)
    <3>1. /\ UNCHANGED <<out, stream>> /\ doing[w].at = 0
          /\ doing' = [doing EXCEPT ![w].at = 1]
      BY <2>1 DEF Writing!Enter
    <3> QED
      BY <1>0, <3>1, SectionsStay
  <2>2. CASE Writing!Callback(w)
    BY <2>2, OthersFrame DEF Writing!Callback
  <2>3. CASE Writing!CallbackReturns(w)
    BY <2>3, OthersFrame DEF Writing!CallbackReturns, OutputInv, Exclusive, OpenBy
  <2>4. CASE Writing!WriteHeader(w)
    BY <2>4, HeaderFrames
  <2>5. CASE Writing!WritePayload(w)
    BY <2>5, PayloadFrames
  <2>6. CASE Writing!Leave(w)
    <3>1. Writing!StreamIsFramed'
      BY <2>6 DEF OutputInv, Writing!Leave, Writing!StreamIsFramed
    <3> QED
      BY <2>6, <3>1, LeaveCloses
  <2> QED
    BY <1>4, <2>1, <2>2, <2>3, <2>4, <2>5, <2>6 DEF Writing!Write
<1>5. CASE UNCHANGED outputVars
  BY <1>5, OthersFrame DEF outputVars
<1> QED
  BY <1>1, <1>2, <1>3, <1>4, <1>5 DEF Writing!Next

(* Messages get out whole and one by one, whatever the number of threads,  *)
(* in stream mode as in callback mode and through changes between them:    *)
(* the lengths in the headers cut the stream into what was written, and    *)
(* the callback is never entered twice (output.c).                         *)
THEOREM MessagesStayWhole == MCSpec => [](Writing!StreamIsFramed /\ Writing!CallbackAlone)
<1>1. MCInit => OutputInv
  <2> SUFFICES ASSUME Writing!Init PROVE OutputInv
    BY DEF MCInit
  <2>1. /\ out = "none" /\ inited = FALSE /\ mutex = Writing!Nobody /\ calling = {}
        /\ doing = [w \in Writers |-> [kind |-> "none", at |-> 0]]
        /\ stream = << >> /\ Len(stream) = 0
    BY DEF Writing!Init, Writing!Idle
  <2>2. [kind |-> "none", at |-> 0] \in [kind : AllKinds, at : 0 .. 4]
    BY DEF AllKinds
  <2>3. OutputTyped
    <3> DEFINE idle == [kind |-> "none", at |-> 0]
               D == [kind : AllKinds, at : 0 .. 4]
    <3>1. doing = [w \in Writers |-> idle] /\ idle \in D
      BY <2>1, <2>2
    <3> HIDE DEF idle, D
    <3>2. doing \in [Writers -> D]
      BY <3>1
    <3>3. << >> \in Seq(Pieces)
      OBVIOUS
    <3> QED
      BY <2>1, <3>2, <3>3 DEF OutputTyped, D
  <2>4. Exclusive
    BY <2>1 DEF Exclusive
  <2>5. Unfinished /\ Writing!StreamIsFramed
    BY <2>1 DEF Unfinished, OpenBy, Writing!StreamIsFramed
  <2> QED
    BY <2>3, <2>4, <2>5 DEF OutputInv
<1> DEFINE N == InPaint(Next) \/ InOutput(Writing!Next)
<1>2. OutputInv /\ [N]_MCVars => OutputInv'
  <2>1. ASSUME [N]_MCVars PROVE [Writing!Next]_outputVars
    BY <2>1 DEF InPaint, InOutput, MCVars
  <2> QED
    BY <2>1, OutputTypedNext, ExclusiveNext, FramesNext DEF OutputInv
<1>3. OutputInv => Writing!StreamIsFramed /\ Writing!CallbackAlone
  <2>1. ASSUME OutputInv, NEW v \in calling, NEW w \in calling PROVE v = w
    BY <2>1, OneInside DEF OutputInv, OutputTyped, Exclusive
  <2> QED
    BY <2>1 DEF OutputInv, Writing!CallbackAlone
<1> QED
  BY <1>1, <1>2, <1>3, PTL DEF MCSpec
=============================================================================
