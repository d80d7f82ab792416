----------------------------- MODULE EventThread -----------------------------
(***************************************************************************)
(* The event loop thread of a connection, as library.c and main.c both     *)
(* have it, with what it shares with the thread that gives commands.  The  *)
(* connections of a process are numbered.                                  *)
(***************************************************************************)
EXTENDS Naturals

CONSTANT MaxConnections

VARIABLES
  running, connected,  \* g_running, g_connected
  live,                \* the FreeRDP instances that exist
  thread,              \* where the event loop thread of each connection is
  open, last           \* the messages written, as a reader follows them

threadVars == <<running, connected, live, thread, open, last>>

Connections == 1 .. MaxConnections
Places == {"none", "test", "check", "exit", "send", "done"}
Message(kind, n) == [kind |-> kind, of |-> n]
Emit(kind, n) == last' = Message(kind, n)

ThreadInit ==
  /\ live = {} /\ thread = [n \in Connections |-> "none"]
  /\ open = 0 /\ last = Message("none", 0)

Goto(n, at) == thread' = [thread EXCEPT ![n] = at]

TestAlways(n) ==
  /\ thread[n] = "test" /\ Goto(n, "check")
  /\ UNCHANGED <<running, connected, live, open, last>>

(* while (g_running && g_connected) *)
Test(n) ==
  /\ thread[n] = "test"
  /\ Goto(n, IF running /\ connected THEN "check" ELSE "exit")
  /\ UNCHANGED <<running, connected, live, open, last>>

(* connection_check_events waits for 100 ms at most and runs the callbacks *)
(* of what has arrived; a frame stands for all they write.                 *)
Check(n) ==
  /\ thread[n] = "check" /\ Goto(n, "test")
  /\ \/ Emit("frame", n) \/ UNCHANGED last
  /\ UNCHANGED <<running, connected, live, open>>

(* It fails: the connection is lost or has ended. *)
CheckFails(n) ==
  /\ thread[n] = "check" /\ Goto(n, "exit")
  /\ connected' = FALSE
  /\ UNCHANGED <<running, live, open, last>>

ExitSilently(n) ==
  /\ thread[n] = "exit" /\ Goto(n, "done")
  /\ UNCHANGED <<running, connected, live, open, last>>

(* After the loop: if (g_running) output_send_disconnected(NULL) *)
Exit(n) ==
  /\ thread[n] = "exit" /\ Goto(n, IF running THEN "send" ELSE "done")
  /\ UNCHANGED <<running, connected, live, open, last>>

SendDisconnected(n) ==
  /\ thread[n] = "send" /\ Goto(n, "done")
  /\ Emit("disconnected", n) /\ open' = 0
  /\ UNCHANGED <<running, connected, live>>

ThreadStep(n) == Test(n) \/ Check(n) \/ CheckFails(n) \/ Exit(n) \/ SendDisconnected(n)

Alive(n) == thread[n] \notin {"none", "done"}

ThreadTypeOK ==
  /\ running \in BOOLEAN /\ connected \in BOOLEAN
  /\ live \in SUBSET Connections
  /\ thread \in [Connections -> Places]
  /\ open \in Connections \cup {0}
  /\ last \in [kind : {"none", "connected", "frame", "disconnected", "error"},
               of : Connections \cup {0}]
=============================================================================
