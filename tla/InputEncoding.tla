---------------------------- MODULE InputEncoding ----------------------------
(***************************************************************************)
(* How a command becomes an input event: protocol.c parses it, library.c   *)
(* dispatches it, input.c encodes it; and the path of a drag (session.rs). *)
(* A JSON object is a function from the members it has to values of the    *)
(* type the parser wants; a value of another type counts as missing.       *)
(***************************************************************************)
EXTENDS Integers

CONSTANTS
  U16,        \* 2^16
  IntLimit    \* 2^31
ASSUME WidthAssumption == U16 \in Nat \ {0} /\ IntLimit \in Nat \ {0}

I32 == -IntLimit .. IntLimit - 1

(* The members protocol_parse_command reads of a command that becomes an   *)
(* input event, with what cjson_get_int and cjson_get_bool return for one  *)
(* that is missing.                                                        *)
Button == [x |-> 0, y |-> 0, button |-> 0]
Key == [scancode |-> 0, extended |-> FALSE]
Unit == [code_unit |-> 0]
Members ==
  [mouse_move |-> [x |-> 0, y |-> 0],
   mouse_button_down |-> Button, mouse_button_up |-> Button,
   mouse_scroll |-> [x |-> 0, y |-> 0, delta |-> 0, vertical |-> TRUE],
   key_down |-> Key, key_up |-> Key,
   unicode_key_down |-> Unit, unicode_key_up |-> Unit]

Parse(type, json) ==
  [k \in DOMAIN Members[type] |-> IF k \in DOMAIN json THEN json[k] ELSE Members[type][k]]

(* What a command holds on the heap once it is parsed: the strings of a    *)
(* connect command and of its drives, the text, files or directory of a    *)
(* clipboard command.                                                      *)
Allocated(type) ==
  CASE type = "connect" -> {"host", "username", "password", "domain", "drives", "drive"}
    [] type = "clipboard_set" -> {"text"}
    [] type = "clipboard_set_files" -> {"json"}
    [] type = "clipboard_request_files" -> {"temp_dir"}
    [] OTHER -> {}

FreedButDrives(type) == Allocated(type) \ {"drive"}

(* protocol_free_command *)
Freed(type) ==
  CASE type \in {"clipboard_set", "clipboard_set_files", "clipboard_request_files"} ->
         Allocated(type)
    [] type = "connect" -> {"host", "username", "password", "domain", "drives", "drive"}
    [] OTHER -> {}

-----------------------------------------------------------------------------
(* input.c *)

(* PTR_FLAGS_BUTTON1 to 3 of a press and of a release. *)
ButtonDownFlag(button) == CASE button = 1 -> 3 [] button = 2 -> 2 [] OTHER -> 1
ButtonUpFlagOther(button) == CASE button = 1 -> 3 [] button = 2 -> 2 [] button = 0 -> 1 [] OTHER -> 0
ButtonUpFlag(button) == CASE button = 1 -> 3 [] button = 2 -> 2 [] OTHER -> 1

Negate(n) == IF n = -IntLimit THEN n ELSE -n

(* The low byte of a wheel event, and PTR_FLAGS_WHEEL_NEGATIVE.            *)
WheelStep == 120
WheelAmountUnclamped(delta) ==
  LET abs == IF delta < 0 THEN Negate(delta) ELSE delta IN abs % 256
WheelAmount(delta) ==
  LET abs == IF delta < 0 THEN Negate(delta) ELSE delta
  IN  IF abs > WheelStep THEN WheelStep ELSE abs % 256
WheelNegative(delta) == delta < 0

(* A key the functions refuse before anything is sent. *)
Scancodes == 1 .. 255
CodeUnits == 1 .. 65535
Refused(type, c) ==
  \/ type \in {"key_down", "key_up"} /\ c.scancode \notin Scancodes
  \/ type \in {"unicode_key_down", "unicode_key_up"} /\ c.code_unit \notin CodeUnits

(* Events press and release things: a scancode (one that is extended is    *)
(* another key), a code unit, a button.                                    *)
Thing(type, c) ==
  CASE type \in {"key_down", "key_up"} -> <<"key", c.scancode, c.extended>>
    [] type \in {"unicode_key_down", "unicode_key_up"} -> <<"unit", c.code_unit, FALSE>>
    [] type = "mouse_button_down" -> <<"button", ButtonDownFlag(c.button), FALSE>>
    [] type = "mouse_button_up" -> <<"button", ButtonUpFlag(c.button), FALSE>>

Presses == {"key_down", "unicode_key_down", "mouse_button_down"}
Releases == {"key_up", "unicode_key_up", "mouse_button_up"}

(* What is held on the remote desktop after an event was sent. *)
HeldAfter(held, type, c) ==
  CASE type \in Presses -> held \cup {Thing(type, c)}
    [] type \in Releases -> held \ {Thing(type, c)}
    [] OTHER -> held

(* (UINT16)x, (UINT16)y of every mouse event *)
PositionAfter(pos, type, c) ==
  IF type \in {"mouse_move", "mouse_button_down", "mouse_button_up", "mouse_scroll"}
  THEN <<c.x % U16, c.y % U16>> ELSE pos

-----------------------------------------------------------------------------
(* session.rs: from + (to - from) * step / 10 in i32, as a release build   *)
(* computes it.                                                            *)

Wrap(n) == ((n + IntLimit) % (2 * IntLimit)) - IntLimit
DivideByTen(n) == IF n < 0 THEN -((-n) \div 10) ELSE n \div 10
DragPointPast(from, to, step) ==
  Wrap(from + DivideByTen(Wrap(Wrap(to - from) * (step + 1))))
DragPoint(from, to, step) ==
  Wrap(from + DivideByTen(Wrap(Wrap(to - from) * step)))
=============================================================================
