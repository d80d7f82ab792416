------------------------------ MODULE InputOps ------------------------------
(***************************************************************************)
(* The compound input operations of a session (session.rs): a chord, a     *)
(* click, a drag, typed text.  Each is a sequence of commands and pauses   *)
(* that a caller runs holding the session's operation lock; the commands   *)
(* go through a pipe to the worker, whose native side sends them on.       *)
(***************************************************************************)
EXTENDS InputEncoding, Sequences, FiniteSets, SequencesExt

CONSTANTS
  Callers,          \* threads that serve tool calls for this session
  Operations,       \* the operations they ask for
  MaxPipe,          \* commands the pipe holds (its size in bytes on a real system)
  InvalidBitmaps,   \* the session may receive a bitmap it cannot use
  NoCaller          \* nobody

ASSUME NoCallerAssumption == NoCaller \notin Callers

(* The arguments of the calls: scancodes come from the tables of           *)
(* keyboard.rs, text is a sequence of characters of code units.            *)
ASSUME OperationsAssumption ==
  Operations \subseteq
    [kind : {"press"}, modifiers : Seq(Scancodes), key : Scancodes, shift : BOOLEAN]
    \cup [kind : {"down", "up"}, key : Scancodes]
    \cup [kind : {"click"}, from : I32, button : Nat, double : BOOLEAN]
    \cup [kind : {"drag"}, from : I32, to : I32, button : Nat]
    \cup [kind : {"type"}, text : Seq(Seq(Nat))]

VARIABLES
  session,   \* check_connected succeeds
  link,      \* the worker runs and its connection is up
  lock,      \* who holds the operation lock
  running,   \* the operation of each caller
  at,        \* the next step of each caller's operation
  pipe,      \* commands on their way
  held,      \* what is pressed on the remote desktop
  asked      \* what the finished operations have left pressed

vars == <<session, link, lock, running, at, pipe, held, asked>>

-----------------------------------------------------------------------------
(* The steps of the operations. *)

Pause == [type |-> "pause", args |-> <<>>]
Command(type, args) == [type |-> type, args |-> args]
KeyEvent(key, down) ==
  Command(IF down THEN "key_down" ELSE "key_up", [scancode |-> key, extended |-> FALSE])
Shift == 42

(* A key typed with shift adds it unless it is already among the modifiers. *)
EffectiveModifiers(op) ==
  IF op.shift /\ ~Contains(op.modifiers, Shift) THEN Append(op.modifiers, Shift) ELSE op.modifiers

PressStepsKeepsShift(op) ==
  LET mods == EffectiveModifiers(op)
      n == Len(op.modifiers)
  IN  [i \in 1 .. Len(mods) |-> KeyEvent(mods[i], TRUE)]
      \o <<KeyEvent(op.key, TRUE), Pause, KeyEvent(op.key, FALSE)>>
      \o [i \in 1 .. n |-> KeyEvent(op.modifiers[n + 1 - i], FALSE)]

(* send_key_stroke *)
PressSteps(op) ==
  LET mods == EffectiveModifiers(op)
      n == Len(mods)
      down == [i \in 1 .. 2 * n |->
                IF i % 2 = 1 THEN KeyEvent(mods[(i + 1) \div 2], TRUE) ELSE Pause]
      up == [i \in 1 .. 2 * n |->
              IF i % 2 = 1 THEN Pause ELSE KeyEvent(mods[n + 1 - i \div 2], FALSE)]
  IN  down \o <<KeyEvent(op.key, TRUE), Pause, KeyEvent(op.key, FALSE)>> \o up \o <<Pause>>

ButtonEvent(type, x, button) == Command(type, [x |-> x, y |-> 0, button |-> button])

(* mouse_click *)
ClickSteps(op) ==
  LET once == <<ButtonEvent("mouse_button_down", op.from, op.button),
                ButtonEvent("mouse_button_up", op.from, op.button)>>
  IN  IF op.double THEN once \o <<Pause>> \o once ELSE once

(* mouse_drag *)
Move(x) == Command("mouse_move", [x |-> x, y |-> 0])
DragSteps(op) ==
  <<Move(op.from), ButtonEvent("mouse_button_down", op.from, op.button)>>
  \o [i \in 1 .. 20 |-> IF i % 2 = 1 THEN Move(DragPoint(op.from, op.to, (i + 1) \div 2))
                        ELSE Pause]
  \o <<ButtonEvent("mouse_button_up", op.to, op.button)>>

(* type_text: the code units of each character, then a pause. *)
UnitEvents(u) == <<Command("unicode_key_down", [code_unit |-> u]),
                   Command("unicode_key_up", [code_unit |-> u])>>
TypeSteps(op) ==
  FlattenSeq([i \in 1 .. Len(op.text) |->
    FlattenSeq([j \in 1 .. Len(op.text[i]) |-> UnitEvents(op.text[i][j])]) \o <<Pause>>])

Steps(op) ==
  CASE op.kind = "press" -> PressSteps(op)
    [] op.kind = "down" -> <<KeyEvent(op.key, TRUE)>>
    [] op.kind = "up" -> <<KeyEvent(op.key, FALSE)>>
    [] op.kind = "click" -> ClickSteps(op)
    [] op.kind = "drag" -> DragSteps(op)
    [] op.kind = "type" -> TypeSteps(op)

(* What an operation that is over leaves pressed of what was. *)
Leaves(op, before) ==
  LET k(key) == <<"key", key, FALSE>>
  IN  CASE op.kind = "press" ->
             before \ ({k(op.key)} \cup {k(m) : m \in ToSet(EffectiveModifiers(op))})
        [] op.kind = "down" -> before \cup {k(op.key)}
        [] op.kind = "up" -> before \ {k(op.key)}
        [] OTHER -> before

-----------------------------------------------------------------------------
NoOp == [kind |-> "none"]

Init ==
  /\ session = TRUE /\ link = TRUE /\ lock = NoCaller
  /\ running = [c \in Callers |-> NoOp] /\ at = [c \in Callers |-> 0]
  /\ pipe = <<>> /\ held = {} /\ asked = {}

BeginWithoutLock(c, op) ==
  /\ running[c] = NoOp /\ session
  /\ UNCHANGED lock
  /\ running' = [running EXCEPT ![c] = op] /\ at' = [at EXCEPT ![c] = 1]
  /\ UNCHANGED <<session, link, pipe, held, asked>>

(* with_session: the lock, then check_connected. *)
Begin(c, op) ==
  /\ running[c] = NoOp /\ session /\ lock = NoCaller
  /\ lock' = c
  /\ running' = [running EXCEPT ![c] = op] /\ at' = [at EXCEPT ![c] = 1]
  /\ UNCHANGED <<session, link, pipe, held, asked>>

Step(c) == Steps(running[c])[at[c]]
Ready(c) == running[c] # NoOp /\ at[c] <= Len(Steps(running[c]))

(* pause returns when the time is over *)
Paused(c) ==
  /\ Ready(c) /\ session /\ Step(c) = Pause
  /\ at' = [at EXCEPT ![c] = @ + 1]
  /\ UNCHANGED <<session, link, lock, running, pipe, held, asked>>

(* Session::command writes to the worker's pipe, *)
Send(c) ==
  /\ Ready(c) /\ session /\ Step(c) # Pause /\ Len(pipe) < MaxPipe
  /\ pipe' = Append(pipe, [type |-> Step(c).type, args |-> Step(c).args, of |-> running[c]])
  /\ at' = [at EXCEPT ![c] = @ + 1]
  /\ UNCHANGED <<session, link, lock, running, held, asked>>

FailAtCommands(c) ==
  /\ Ready(c) /\ ~session /\ Step(c) # Pause
  /\ running' = [running EXCEPT ![c] = NoOp] /\ at' = [at EXCEPT ![c] = 0]
  /\ lock' = IF lock = c THEN NoCaller ELSE lock
  /\ UNCHANGED <<session, link, pipe, held, asked>>

(* or fails, as pause does, once the session has: the operation returns.   *)
(* mouse_drag asks for the release before it does; it fails likewise.      *)
Fail(c) ==
  /\ Ready(c) /\ ~session
  /\ running' = [running EXCEPT ![c] = NoOp] /\ at' = [at EXCEPT ![c] = 0]
  /\ lock' = IF lock = c THEN NoCaller ELSE lock
  /\ UNCHANGED <<session, link, pipe, held, asked>>

Return(c) ==
  /\ running[c] # NoOp /\ at[c] > Len(Steps(running[c]))
  /\ running' = [running EXCEPT ![c] = NoOp] /\ at' = [at EXCEPT ![c] = 0]
  /\ lock' = IF lock = c THEN NoCaller ELSE lock
  /\ asked' = Leaves(running[c], asked)
  /\ UNCHANGED <<session, link, pipe, held>>

(* The worker gives the next command to the native library.  One that      *)
(* reports a failure ends the worker, and the session learns of it.        *)
Execute ==
  /\ link /\ pipe # <<>> /\ pipe' = Tail(pipe)
  /\ LET type == Head(pipe).type
         c == Parse(type, Head(pipe).args)
     IN  IF Refused(type, c)
         THEN link' = FALSE /\ session' = FALSE /\ held' = {}
         ELSE held' = HeldAfter(held, type, c) /\ UNCHANGED <<session, link>>
  /\ UNCHANGED <<lock, running, at, asked>>

(* The connection is lost, and with it what was pressed; the session is    *)
(* told later.  Commands still on their way change nothing.                *)
Lose ==
  /\ link /\ link' = FALSE /\ held' = {} /\ pipe' = <<>>
  /\ UNCHANGED <<session, lock, running, at, asked>>
Told ==
  /\ ~link /\ session /\ session' = FALSE
  /\ UNCHANGED <<link, lock, running, at, pipe, held, asked>>
Drop ==
  /\ ~link /\ pipe # <<>> /\ pipe' = <<>>
  /\ UNCHANGED <<session, link, lock, running, at, held, asked>>

(* apply_bitmap finds a bitmap invalid: the session fails, its worker and  *)
(* the connection stay.                                                    *)
InvalidBitmap ==
  /\ InvalidBitmaps /\ session /\ session' = FALSE
  /\ UNCHANGED <<link, lock, running, at, pipe, held, asked>>

Caller(c) == Paused(c) \/ Send(c) \/ Fail(c) \/ Return(c)

Next ==
  \/ \E c \in Callers : Caller(c) \/ \E op \in Operations : Begin(c, op)
  \/ Execute \/ Lose \/ Told \/ Drop \/ InvalidBitmap

Spec == Init /\ [][Next]_vars

(* Pauses end, the worker reads, and the end of a connection is reported. *)
FairSpec == Spec /\ \A c \in Callers : WF_vars(Caller(c)) /\ WF_vars(Execute \/ Told \/ Drop)

-----------------------------------------------------------------------------
(* Properties. *)

Quiet == pipe = <<>> /\ \A c \in Callers : running[c] = NoOp

(* Once the operations are over and their commands through, the remote     *)
(* desktop holds what they were to leave pressed and nothing else.         *)
HeldAsAsked == Quiet /\ session /\ link => held = asked

(* A key reaches the remote desktop while all modifiers of its chord are   *)
(* pressed, whatever the other callers do meanwhile.  (The first press of  *)
(* a key that is also one of its modifiers is that of the modifier.)       *)
PressesItsKey(command) ==
  /\ command.of.kind = "press" /\ command.type = "key_down"
  /\ command.args.scancode = command.of.key
  /\ ~Contains(EffectiveModifiers(command.of), command.of.key)
ModifiersDown(op) == {<<"key", m, FALSE>> : m \in ToSet(EffectiveModifiers(op))}
ChordIsHeldTogether ==
  [][Execute /\ PressesItsKey(Head(pipe)) => ModifiersDown(Head(pipe).of) \subseteq held']_vars

(* A drag moves between its two ends, if ten times the distance is an i32: *)
(* session.rs computes the points in i32, and further apart they wrap.     *)
DragStaysBetween ==
  \A i \in 1 .. Len(pipe) :
    LET drag == pipe[i].of
        x == pipe[i].args.x
    IN  /\ drag.kind = "drag" /\ pipe[i].type = "mouse_move"
        /\ 10 * (drag.to - drag.from) \in I32
        => \/ drag.from <= x /\ x <= drag.to
           \/ drag.to <= x /\ x <= drag.from

(* Every operation ends, and the lock it holds is free again. *)
OperationEnds == \A c \in Callers : lock = c ~> lock = NoCaller

-----------------------------------------------------------------------------
(* A statement that the code does not keep in every case (see the README). *)

(* A press releases the modifiers it sends down (README.md), even when the *)
(* session fails in between.                                               *)
PressReleases == Quiet /\ link => held \subseteq asked
=============================================================================
