---------------------------- MODULE NativeRuntime ----------------------------
(***************************************************************************)
(* The in-process library (library.c): one thread initializes it, gives it *)
(* commands and shuts it down; the event loop thread of a connection runs  *)
(* beside it.  An action is what the calling thread does between two       *)
(* accesses to what it shares with the event loop thread.                  *)
(***************************************************************************)
EXTENDS EventThread

VARIABLES
  initialized,     \* g_initialized
  output,          \* the output callback is set and its mutex exists
  instance,        \* g_instance, 0 for NULL
  handle,          \* g_event_thread, 0 for NULL
  at, next,        \* where the caller is, and what follows stop_connection
  count            \* connections so far

callVars == <<initialized, output, instance, handle, at, next, count>>
vars == <<running, connected, live, thread, open, last,
          initialized, output, instance, handle, at, next, count>>

Init ==
  /\ ThreadInit /\ running = FALSE /\ connected = FALSE
  /\ initialized = FALSE /\ output = FALSE
  /\ instance = 0 /\ handle = 0 /\ at = "idle" /\ next = "return" /\ count = 0

(* rdp_mcp_native_initialize. *)
Initialize ==
  /\ at = "idle" /\ ~initialized
  /\ initialized' = TRUE /\ output' = TRUE /\ running' = TRUE /\ connected' = FALSE
  /\ UNCHANGED <<live, thread, open, last, instance, handle, at, next, count>>

(* A connect command while connected. *)
ConnectRefused ==
  /\ at = "idle" /\ initialized /\ running /\ connected
  /\ Emit("error", 0)
  /\ UNCHANGED <<running, connected, live, thread, open>> /\ UNCHANGED callVars

ConnectKeepsThread ==
  /\ at = "idle" /\ initialized /\ running /\ ~connected /\ count < MaxConnections
  /\ count' = count + 1 /\ next' = "start" /\ at' = "start"
  /\ UNCHANGED <<initialized, output, instance, handle>> /\ UNCHANGED threadVars

(* A connect command: what is left of an earlier connection is stopped     *)
(* before start_connection goes on.                                        *)
Connect ==
  /\ at = "idle" /\ initialized /\ running /\ ~connected /\ count < MaxConnections
  /\ count' = count + 1 /\ next' = "start"
  /\ at' = IF instance # 0 \/ handle # 0 THEN "stop" ELSE "start"
  /\ UNCHANGED <<initialized, output, instance, handle>> /\ UNCHANGED threadVars

(* A disconnect command. *)
Disconnect ==
  /\ at = "idle" /\ initialized /\ running
  /\ at' = "stop" /\ next' = "return"
  /\ UNCHANGED <<initialized, output, instance, handle, count>> /\ UNCHANGED threadVars

(* rdp_mcp_native_shutdown. *)
Shutdown ==
  /\ at = "idle" /\ initialized
  /\ running' = FALSE /\ at' = "stop" /\ next' = "cleanup"
  /\ UNCHANGED <<connected, live, thread, open, last>>
  /\ UNCHANGED <<initialized, output, instance, handle, count>>

-----------------------------------------------------------------------------
(* stop_connection: the flag is cleared, the thread waited for and only    *)
(* then the instance freed.                                                *)

StopKeepsConnected ==
  /\ at = "stop" /\ at' = "join"
  /\ UNCHANGED threadVars
  /\ UNCHANGED <<initialized, output, instance, handle, next, count>>

Stop ==
  /\ at = "stop" /\ at' = "join"
  /\ connected' = FALSE
  /\ UNCHANGED <<running, live, thread, open, last>>
  /\ UNCHANGED <<initialized, output, instance, handle, next, count>>

JoinTimesOut ==
  /\ at = "join" /\ at' = "free"
  /\ handle' = 0
  /\ UNCHANGED <<initialized, output, instance, next, count>> /\ UNCHANGED threadVars

JoinKeepsHandle ==
  /\ at = "join" /\ (handle # 0 => ~Alive(handle)) /\ at' = "free"
  /\ UNCHANGED <<initialized, output, instance, handle, next, count>> /\ UNCHANGED threadVars

Join ==
  /\ at = "join" /\ (handle # 0 => ~Alive(handle)) /\ at' = "free"
  /\ handle' = 0
  /\ UNCHANGED <<initialized, output, instance, next, count>> /\ UNCHANGED threadVars

(* connection_free, and on to what called stop_connection. *)
Free ==
  /\ at = "free" /\ at' = IF next = "return" THEN "idle" ELSE next
  /\ instance' = 0 /\ live' = live \ {instance}
  /\ UNCHANGED <<running, connected, thread, open, last>>
  /\ UNCHANGED <<initialized, output, handle, next, count>>

(* The end of rdp_mcp_native_shutdown: the callback goes, its mutex too. *)
Cleanup ==
  /\ at = "cleanup" /\ at' = "idle"
  /\ output' = FALSE /\ initialized' = FALSE
  /\ open' = 0 /\ last' = Message("none", 0)
  /\ UNCHANGED <<running, connected, live, thread, instance, handle, next, count>>

-----------------------------------------------------------------------------
(* The rest of start_connection. *)

(* connection_init fails. *)
InitFails ==
  /\ at = "start" /\ at' = "idle" /\ Emit("error", count)
  /\ UNCHANGED <<running, connected, live, thread, open>>
  /\ UNCHANGED <<initialized, output, instance, handle, next, count>>

InitInstance ==
  /\ at = "start" /\ at' = "connect"
  /\ instance' = count /\ live' = live \cup {count}
  /\ UNCHANGED <<running, connected, thread, open, last>>
  /\ UNCHANGED <<initialized, output, handle, next, count>>

(* connection_connect fails, before cb_post_connect has announced the      *)
(* connection or after it (gdi_init).                                      *)
ConnectFails ==
  /\ at \in {"connect", "posted"} /\ at' = "idle"
  /\ Emit("error", count) /\ open' = 0
  /\ instance' = 0 /\ live' = live \ {instance}
  /\ UNCHANGED <<running, connected, thread>>
  /\ UNCHANGED <<initialized, output, handle, next, count>>

PostConnect ==
  /\ at = "connect" /\ at' = "posted"
  /\ Emit("connected", count) /\ open' = count
  /\ UNCHANGED <<running, connected, live, thread>>
  /\ UNCHANGED <<initialized, output, instance, handle, next, count>>

(* Painting starts while freerdp_connect still runs. *)
FirstPaint ==
  /\ at = "posted" /\ Emit("frame", count)
  /\ UNCHANGED <<running, connected, live, thread, open>> /\ UNCHANGED callVars

SetConnected ==
  /\ at = "posted" /\ at' = "spawn" /\ connected' = TRUE
  /\ UNCHANGED <<running, live, thread, open, last>>
  /\ UNCHANGED <<initialized, output, instance, handle, next, count>>

Spawn ==
  /\ at = "spawn" /\ at' = "idle"
  /\ handle' = count /\ Goto(count, "test")
  /\ UNCHANGED <<running, connected, live, open, last>>
  /\ UNCHANGED <<initialized, output, instance, next, count>>

(* CreateThread fails: the connection is taken down again. *)
SpawnFails ==
  /\ at = "spawn" /\ at' = "stop" /\ next' = "return"
  /\ Emit("error", count) /\ open' = 0
  /\ UNCHANGED <<running, connected, live, thread>>
  /\ UNCHANGED <<initialized, output, instance, handle, count>>

-----------------------------------------------------------------------------
Call == Initialize \/ ConnectRefused \/ Connect \/ Disconnect \/ Shutdown
Progress ==
  \/ Stop \/ Join \/ Free \/ Cleanup \/ InitFails \/ InitInstance \/ ConnectFails
  \/ PostConnect \/ SetConnected \/ Spawn \/ SpawnFails
Thread(n) == ThreadStep(n) /\ UNCHANGED callVars

Next == Call \/ Progress \/ FirstPaint \/ \E n \in Connections : Thread(n)

Spec == Init /\ [][Next]_vars

(* A call that has begun goes on, and the event loop thread with it: its   *)
(* wait is limited to 100 ms (connection.c:437).                           *)
FairSpec == Spec /\ WF_vars(Progress) /\ \A n \in Connections : WF_vars(Thread(n))

-----------------------------------------------------------------------------
(* Properties. *)

(* A thread handle belongs to the instance that exists, and everything is  *)
(* of its type (library.c, 35-39).                                         *)
TypeOK ==
  /\ ThreadTypeOK
  /\ initialized \in BOOLEAN /\ output \in BOOLEAN
  /\ instance \in Connections \cup {0} /\ handle \in {instance, 0}
  /\ at \in {"idle", "stop", "join", "free", "start", "connect", "posted", "spawn", "cleanup"}
  /\ next \in {"return", "start", "cleanup"}
  /\ count \in Connections \cup {0}

(* The event loop thread only ever uses an instance that has not been      *)
(* freed, and an output callback whose mutex still exists, whichever call  *)
(* of the other thread its last iterations meet.                           *)
LoopUsesWhatExists ==
  \A n \in Connections : Alive(n) => n \in live /\ output

(* No FreeRDP instance is lost: outside of a call that is taking it down,  *)
(* the one that exists is the one g_instance points to.                    *)
NoLostInstance == live \subseteq {instance}

(* A reader sees the connections one after the other: nothing of a         *)
(* connection comes after its end or after the beginning of the next.      *)
Events == INSTANCE ConnectionEvents
ConnectionsDoNotMix == Events!Spec

(* Every call returns: the wait for the event loop thread always ends. *)
CallReturns == at # "idle" ~> at = "idle"

(* A connection that has ended is reported: the reader gets its end, or    *)
(* the library is being shut down.                                         *)
EndIsReported == (open # 0 /\ ~connected /\ at = "idle") ~> (open = 0 \/ ~running \/ connected)
=============================================================================
