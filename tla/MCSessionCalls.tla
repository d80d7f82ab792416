--------------------------- MODULE MCSessionCalls ---------------------------
EXTENDS SessionCalls

(* Two sizes of different area, and sizes that are rejected. *)
MCSizes == {<<2, 1>>, <<2, 2>>, <<0, 1>>, <<3, 1>>}
MCTarget == <<2, 2>>

Paint(x, y, w, h, p) ==
  [x |-> x, y |-> y, width |-> w, height |-> h, pixels |-> [i \in 1..(w * h) |-> p]]

(* One whole-desktop update, one that sticks out to the right and below,   *)
(* one beyond the desktop, and one with a payload of the wrong length.     *)
MCBitmaps == {Paint(0, 0, 2, 1, "red"), Paint(1, 0, 2, 2, "blue"),
              Paint(2, 0, 1, 1, "red"),
              [Paint(0, 0, 1, 1, "red") EXCEPT !.pixels = << >>]}

(* One update is enough to make a frame appear. *)
MCOneBitmap == {Paint(0, 0, 2, 1, "red")}
=============================================================================
