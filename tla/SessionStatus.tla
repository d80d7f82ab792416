---------------------------- MODULE SessionStatus ---------------------------
(***************************************************************************)
(* What rdp_list promises about one connection: it is reported connecting, *)
(* then perhaps connected, then disconnected, and it never goes back.      *)
(***************************************************************************)
VARIABLE status

Init == status = "connecting"

Connect == status = "connecting" /\ status' = "connected"
Disconnect == status # "disconnected" /\ status' = "disconnected"

Next == Connect \/ Disconnect

Spec == Init /\ [][Next]_status
=============================================================================
