----------------------------- MODULE MCPainting -----------------------------
(***************************************************************************)
(* What is painted, and how the messages of all threads get out.  The      *)
(* regions of a paint do not depend on the interleaving of the threads     *)
(* that write, so a behaviour is one of one of the two, chosen at the      *)
(* beginning; the other stays in its initial state.                        *)
(***************************************************************************)
EXTENDS Paint, Sequences

CONSTANTS Writers, MaxWrites
VARIABLES part, out, inited, mutex, doing, stream, calling

Writing == INSTANCE Output

ASSUME WritersAssumption == MaxWrites \in Nat /\ Writing!Nobody \notin Writers

MCSizes == {[w |-> 2, h |-> 1], [w |-> 1, h |-> 2], [w |-> 3, h |-> 2]}
MCRects == {Rect(0, 0, 1, 1), Rect(-1, 0, 3, 1), Rect(1, 1, 2, 2), Rect(0, -1, 4, 5)}

outputVars == <<out, inited, mutex, doing, stream, calling>>
MCVars == <<vars, outputVars, part>>
InPaint(A) == part = "paint" /\ A /\ UNCHANGED <<outputVars, part>>
InOutput(A) == part = "output" /\ A /\ UNCHANGED <<vars, part>>

MCInit ==
  /\ Init /\ Writing!Init
  /\ part \in {"paint", "output"}
  /\ part = "output" => settings = CHOOSE s \in Sizes : TRUE

MCSpec ==
  /\ MCInit
  /\ [][InPaint(Next) \/ InOutput(Writing!Next)]_MCVars
  /\ \A w \in Writers : WF_MCVars(InOutput(Writing!Write(w)))

(* Messages get out one by one (output.c): the lengths in the headers cut  *)
(* the stream into the messages that were written, the callback is never   *)
(* called by two threads at a time, and the mutex is released on every     *)
(* path of a send.                                                         *)
MessagesGetOut ==
  [](Writing!StreamIsFramed /\ Writing!CallbackAlone) /\ Writing!MutexIsReleased
=============================================================================
