------------------------------- MODULE MCDisp -------------------------------
EXTENDS Disp

(* Below the least side, odd, and above the greatest. *)
MCSizes == {1, 5, 9}
=============================================================================
