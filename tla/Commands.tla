------------------------------ MODULE Commands ------------------------------
(***************************************************************************)
(* rdp_mcp_native_command (library.c) for the commands that reach the      *)
(* remote desktop as input: a caller of the library gives any command, the *)
(* connection comes and goes.  Connecting itself is in NativeRuntime, the  *)
(* clipboard and the display in modules of their own.                      *)
(***************************************************************************)
EXTENDS InputEncoding

CONSTANT Inputs   \* pairs of an input command's type and its JSON members

VARIABLES
  up,        \* g_connected && g_instance
  broken,    \* the transport of the connection fails from now on
  held,      \* what is pressed on the remote desktop
  asked,     \* what the caller has pressed and not released, as it said it
  pos,       \* where the remote pointer is
  wheel,     \* the last wheel event, and the delta that asked for it
  heap,      \* what parsed commands still hold
  result     \* what the last call returned

vars == <<up, broken, held, asked, pos, wheel, heap, result>>

Others == {"connect", "disconnect", "resize", "clipboard_set", "clipboard_set_files",
           "clipboard_request_files"}

Init ==
  /\ up = FALSE /\ broken = FALSE /\ held = {} /\ asked = {} /\ pos = <<0, 0>>
  /\ wheel = [delta |-> 0, amount |-> 0, negative |-> FALSE]
  /\ heap = {} /\ result = 0

(* The connection is made, or lost with all that was pressed. *)
Connected ==
  /\ ~up /\ up' = TRUE /\ UNCHANGED <<broken, held, asked, pos, wheel, heap, result>>
Lost ==
  /\ up /\ up' = FALSE /\ broken' = FALSE /\ held' = {} /\ asked' = {}
  /\ UNCHANGED <<pos, wheel, heap, result>>
Breaks == up /\ broken' = TRUE /\ UNCHANGED <<up, held, asked, pos, wheel, heap, result>>

Free(type) == heap' = (heap \cup Allocated(type)) \ Freed(type)

(* Keys report that they were not sent, the mouse does not. *)
ReportsFailure == {"key_down", "key_up", "unicode_key_down", "unicode_key_up"}

Asked(type, c) ==
  IF type \in {"mouse_button_down", "mouse_button_up"}
  THEN <<"button", c.button, FALSE>> ELSE Thing(type, c)

Input(type, json) ==
  LET c == Parse(type, json)
      sent == up /\ ~Refused(type, c) /\ ~broken
      ok == sent \/ ~up \/ type \notin ReportsFailure
  IN  /\ result' = IF ok THEN 0 ELSE -7
      /\ held' = IF sent THEN HeldAfter(held, type, c) ELSE held
      /\ pos' = IF sent THEN PositionAfter(pos, type, c) ELSE pos
      /\ wheel' = IF sent /\ type = "mouse_scroll"
                  THEN [delta |-> c.delta, amount |-> WheelAmount(c.delta),
                        negative |-> WheelNegative(c.delta)]
                  ELSE wheel
      /\ asked' = CASE ok /\ up /\ type \in Presses -> asked \cup {Asked(type, c)}
                    [] ok /\ up /\ type \in Releases -> asked \ {Asked(type, c)}
                    [] OTHER -> asked
      /\ Free(type) /\ UNCHANGED <<up, broken>>

(* The other commands: here only what they hold on the heap. *)
Other(type) ==
  /\ result' = IF type = "connect" /\ up THEN -3 ELSE 0
  /\ Free(type) /\ UNCHANGED <<up, broken, held, asked, pos, wheel>>

(* CMD_UNKNOWN: text that is no JSON, has no type or an unknown one. *)
Unknown ==
  /\ result' = -6 /\ UNCHANGED <<up, broken, held, asked, pos, wheel, heap>>

Next ==
  \/ Connected \/ Lost \/ Breaks \/ Unknown
  \/ \E type \in Others : Other(type)
  \/ \E i \in Inputs : Input(i[1], i[2])

Spec == Init /\ [][Next]_vars

-----------------------------------------------------------------------------
(* Properties. *)

(* No command leaves anything on the heap, whichever way it ends: what     *)
(* protocol_parse_command allocates protocol_free_command frees.           *)
HeapIsEmpty == heap = {}

(* When the caller has released all it pressed, as it named it, nothing is *)
(* held on the remote desktop: presses and releases are encoded alike, for *)
(* buttons that do not exist, missing members and refused keys too.        *)
NothingStaysHeld == asked = {} /\ ~broken => held = {}

(* A wheel event goes the way the caller asked for, by the amount it asked *)
(* for or by a whole step, except for the one delta whose negation is not  *)
(* an int.                                                                 *)
WheelFollowsDelta ==
  LET abs == IF wheel.delta < 0 THEN -wheel.delta ELSE wheel.delta
  IN  wheel.delta # -IntLimit =>
        /\ wheel.amount = (IF abs < WheelStep THEN abs ELSE WheelStep)
        /\ wheel.negative <=> wheel.delta < 0
=============================================================================
