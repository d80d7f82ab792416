------------------------------ MODULE MCInput ------------------------------
(***************************************************************************)
(* Input from both sides of the pipe: the operations of a session, and the *)
(* native library under any commands.  A behaviour is one of one of them,  *)
(* chosen at the beginning; the other stays in its initial state.          *)
(***************************************************************************)
EXTENDS InputOps

CONSTANT Inputs

(* cjson_get_int returns an int. *)
ASSUME InputsAssumption ==
  \A i \in Inputs : /\ i[1] \in DOMAIN Members
                    /\ "delta" \in DOMAIN i[2] => i[2].delta \in I32
VARIABLES side, up, broken, nativeHeld, nativeAsked, pos, wheel, heap, result

Native == INSTANCE Commands WITH held <- nativeHeld, asked <- nativeAsked

Press(modifiers, key, shift) ==
  [kind |-> "press", modifiers |-> modifiers, key |-> key, shift |-> shift]
Drag(from, to) == [kind |-> "drag", from |-> from, to |-> to, button |-> 0]
MCOperations ==
  {Press(<<29, Shift>>, 30, TRUE), Press(<<29>>, 31, TRUE),
   [kind |-> "down", key |-> Shift], [kind |-> "up", key |-> Shift],
   [kind |-> "click", from |-> 5, button |-> 2, double |-> TRUE],
   Drag(90, -7), Drag(0, 99), Drag(-500, 500),
   [kind |-> "type", text |-> << <<65>>, <<55357, 56832>> >>],
   [kind |-> "type", text |-> << <<0>>, <<65>> >>]}

(* Each command without members, and values at the edges of their types. *)
NoMembers == [k \in {} |-> 0]
MCInputs ==
  {<<t, NoMembers>> : t \in DOMAIN Members}
  \cup {<<t, [x |-> x, button |-> b]>> :
          t \in {"mouse_button_down", "mouse_button_up"}, x \in {-1}, b \in {1, 2, 7}}
  \cup {<<t, [scancode |-> s, extended |-> e]>> :
          t \in {"key_down", "key_up"}, s \in {29, 256}, e \in BOOLEAN}
  \cup {<<t, [code_unit |-> u]>> :
          t \in {"unicode_key_down", "unicode_key_up"}, u \in {65535, 65536}}
  \cup {<<"mouse_scroll", [delta |-> d]>> : d \in {-1000, -400, -1, 121}}

nativeVars == <<up, broken, nativeHeld, nativeAsked, pos, wheel, heap, result>>
MCVars == <<vars, nativeVars, side>>
Here(A) == side = "session" /\ A /\ UNCHANGED <<nativeVars, side>>
There(A) == side = "native" /\ A /\ UNCHANGED <<vars, side>>

MCInit ==
  /\ Init /\ Native!Init /\ side \in {"session", "native"}

MCSpec ==
  /\ MCInit
  /\ [][Here(Next) \/ There(Native!Next)]_MCVars
  /\ \A c \in Callers : WF_MCVars(Here(Caller(c)))
  /\ WF_MCVars(Here(Execute \/ Told \/ Drop))

(* Nothing of an operation or a command stays behind: what was pressed is  *)
(* released unless it was to stay pressed, on either side of the pipe      *)
(* (session.rs, input.c), and protocol_free_command frees what the parser  *)
(* allocated.                                                              *)
NothingStaysBehind == HeldAsAsked /\ Native!NothingStaysHeld /\ Native!HeapIsEmpty

(* The arithmetic of input keeps to what was asked for at the edges of the *)
(* integers: the points of a drag lie between its ends, and the wheel      *)
(* turns the way and by the amount that was asked for.                     *)
NumbersAreKept == DragStaysBetween /\ Native!WheelFollowsDelta
=============================================================================
