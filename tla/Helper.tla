------------------------------- MODULE Helper -------------------------------
(***************************************************************************)
(* The standalone helper (main.c): the main thread reads commands from     *)
(* stdin, and every connection it makes gets an event loop thread.  Unlike *)
(* the library it does not stop an earlier connection before the next one, *)
(* and a disconnect command ends the process.                              *)
(***************************************************************************)
EXTENDS EventThread

VARIABLES
  instance, handle,   \* g_instance and g_event_thread, 0 for NULL
  at,                 \* where the main thread is
  count,              \* connections so far
  cause               \* what made g_running false

mainVars == <<instance, handle, at, count, cause>>
vars == <<running, connected, live, thread, open, last, instance, handle, at, count, cause>>

(* main, up to command_loop. *)
Init ==
  /\ ThreadInit /\ running = TRUE /\ connected = FALSE
  /\ instance = 0 /\ handle = 0 /\ at = "loop" /\ count = 0 /\ cause = "none"

(* while (g_running), then the blocking read. *)
Loop ==
  /\ at = "loop" /\ at' = IF running THEN "read" ELSE "stop"
  /\ UNCHANGED <<instance, handle, count, cause>> /\ UNCHANGED threadVars

(* protocol_read_command has no command: the end of stdin, or a line that  *)
(* is empty.                                                               *)
ReadNothing(what) ==
  /\ at = "read" /\ at' = "stop"
  /\ running' = FALSE /\ cause' = IF running THEN what ELSE cause
  /\ UNCHANGED <<connected, live, thread, open, last, instance, handle, count>>

ReadDisconnect ==
  /\ at = "read" /\ at' = "loop"
  /\ running' = FALSE /\ cause' = IF running THEN "disconnect" ELSE cause
  /\ UNCHANGED <<connected, live, thread, open, last, instance, handle, count>>

ReadConnect ==
  /\ at = "read" /\ count < MaxConnections
  /\ IF connected
     THEN at' = "loop" /\ Emit("error", 0) /\ UNCHANGED count
     ELSE at' = "start" /\ count' = count + 1 /\ UNCHANGED last
  /\ UNCHANGED <<running, connected, live, thread, open, instance, handle, cause>>

(* Any other command changes nothing here. *)
ReadOther ==
  /\ at = "read" /\ at' = "loop"
  /\ UNCHANGED <<instance, handle, count, cause>> /\ UNCHANGED threadVars

(* connection_init; the earlier instance is forgotten. *)
InitFails ==
  /\ at = "start" /\ at' = "loop" /\ instance' = 0 /\ Emit("error", count)
  /\ UNCHANGED <<running, connected, live, thread, open, handle, count, cause>>

InitInstance ==
  /\ at = "start" /\ at' = "connect"
  /\ instance' = count /\ live' = live \cup {count}
  /\ UNCHANGED <<running, connected, thread, open, last, handle, count, cause>>

ConnectFails ==
  /\ at \in {"connect", "posted"} /\ at' = "loop"
  /\ instance' = 0 /\ live' = live \ {instance}
  /\ Emit("error", count) /\ open' = 0
  /\ UNCHANGED <<running, connected, thread, handle, count, cause>>

PostConnect ==
  /\ at = "connect" /\ at' = "posted" /\ Emit("connected", count) /\ open' = count
  /\ UNCHANGED <<running, connected, live, thread, instance, handle, count, cause>>

SetConnected ==
  /\ at = "posted" /\ at' = "spawn" /\ connected' = TRUE
  /\ UNCHANGED <<running, live, thread, open, last, instance, handle, count, cause>>

Spawn ==
  /\ at = "spawn" /\ at' = "loop"
  /\ handle' = count /\ Goto(count, "test")
  /\ UNCHANGED <<running, connected, live, open, last, instance, count, cause>>

SpawnFails ==
  /\ at = "spawn" /\ at' = "loop"
  /\ handle' = 0 /\ instance' = 0 /\ live' = live \ {instance} /\ connected' = FALSE
  /\ Emit("error", count) /\ open' = 0
  /\ UNCHANGED <<running, thread, count, cause>>

(* After the loop: the thread is waited for and the instance freed, if     *)
(* there is one.                                                           *)
Stop ==
  /\ at = "stop" /\ at' = "join" /\ connected' = FALSE
  /\ UNCHANGED <<running, live, thread, open, last, instance, handle, count, cause>>

FinishWithoutWait ==
  /\ at = "join" /\ at' = "exited"
  /\ instance' = 0 /\ live' = live \ {instance} /\ handle' = 0
  /\ UNCHANGED <<running, connected, thread, open, last, count, cause>>

Finish ==
  /\ at = "join" /\ at' = "exited"
  /\ instance # 0 /\ handle # 0 => ~Alive(handle)
  /\ instance' = 0 /\ live' = live \ {instance}
  /\ handle' = IF instance = 0 THEN handle ELSE 0
  /\ UNCHANGED <<running, connected, thread, open, last, count, cause>>

(* signal_handler or console_ctrl_handler, at any time. *)
Signal ==
  /\ running /\ running' = FALSE /\ cause' = "signal"
  /\ UNCHANGED <<connected, live, thread, open, last, instance, handle, at, count>>

Reads == ReadNothing("eof") \/ ReadNothing("empty") \/ ReadDisconnect \/ ReadConnect \/ ReadOther
Main == Loop \/ InitFails \/ InitInstance \/ ConnectFails \/ PostConnect \/ SetConnected
          \/ Spawn \/ SpawnFails \/ Stop \/ Finish

(* Once main has returned the process is gone, its threads with it. *)
Thread(n) == at # "exited" /\ ThreadStep(n) /\ UNCHANGED mainVars

Next == Reads \/ Main \/ Signal \/ \E n \in Connections : Thread(n)

Spec == Init /\ [][Next]_vars
FairSpec == Spec /\ WF_vars(Main) /\ \A n \in Connections : WF_vars(Thread(n))

-----------------------------------------------------------------------------
(* Properties. *)

(* The event loop threads only use instances that have not been freed,     *)
(* although earlier connections are neither stopped nor waited for.        *)
LoopUsesWhatExists == \A n \in Connections : Alive(n) => n \in live

(* Once the command loop has ended the helper exits: no connection, however *)
(* it stands, keeps the main thread waiting.                               *)
HelperExits == at = "stop" ~> at = "exited"

-----------------------------------------------------------------------------
(* Statements that the code does not keep in every case (see the README).  *)

(* "Wait for event thread to finish" (main.c:340): when main returns no    *)
(* event loop thread runs.  One whose handle was overwritten by a later    *)
(* connect, or whose successor failed to connect, is not waited for.       *)
ExitWaitsForThreads == at = "exited" => \A n \in Connections : ~Alive(n)

(* "On "disconnect" or stdin EOF, disconnect and exit" (main.c:12): an     *)
(* empty line is neither, and ends the helper as well.                     *)
OnlyDisconnectOrEofEnds == cause # "empty"
=============================================================================
