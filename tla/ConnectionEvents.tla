-------------------------- MODULE ConnectionEvents --------------------------
(***************************************************************************)
(* What a reader of the native output may rely on: the messages of two     *)
(* connections never mix.  open is the connection whose messages may come  *)
(* (0 for none), last the message that came last.                          *)
(***************************************************************************)
EXTENDS Naturals

CONSTANT Connections   \* the numbers of the connections

VARIABLES open, last
eventVars == <<open, last>>

Message(kind, n) == [kind |-> kind, of |-> n]

Init == open = 0 /\ last = Message("none", 0)

(* A connection opens when no other is open, *)
Connected ==
  \E n \in Connections : open = 0 /\ open' = n /\ last' = Message("connected", n)

(* shows its frames while it is open, *)
Frame == open # 0 /\ open' = open /\ last' = Message("frame", open)

(* and closes once.  An error may be about the open connection or not. *)
Disconnected == open # 0 /\ open' = 0 /\ last' = Message("disconnected", open)
Error == \E n \in Connections \cup {0} : open' \in {open, 0} /\ last' = Message("error", n)

(* The reader is taken away. *)
Closed == open' = 0 /\ last' = Message("none", 0)

Next == Connected \/ Frame \/ Disconnected \/ Error \/ Closed

Spec == Init /\ [][Next]_eventVars
=============================================================================
