--------------------------- MODULE SessionRegistry ---------------------------
(***************************************************************************)
(* SessionManager (session.rs) with many sessions: rdp_open, rdp_close and *)
(* the shutdown of the server around one registry.  What WorkerLifecycle   *)
(* shows for the worker of one session in detail is one step here.         *)
(*                                                                         *)
(* Every rdp_open makes a session of its own, so a session and the call    *)
(* that opens it have one name.  A task is a call of Session::shutdown     *)
(* that has begun.                                                         *)
(***************************************************************************)
EXTENDS Naturals, FiniteSets

CONSTANTS
  Sessions,   \* calls of rdp_open and the sessions they make
  Closers,    \* threads that serve rdp_close
  Manager     \* the thread of SessionManager::shutdown
ASSUME NamesAssumption == Manager \notin Sessions \cup Closers /\ Sessions \cap Closers = {}

VARIABLES
  registered, closed,   \* Registry
  open,                 \* where each rdp_open is
  stopped,              \* state.disconnected of each session
  slot,                 \* sessions whose worker slot is filled
  worker,               \* sessions whose worker process runs
  tasks,                \* [by, of, at]
  manager               \* "serving", "closing", "closed"

vars == <<registered, closed, open, stopped, slot, worker, tasks, manager>>

Task(by, s, at) == [by |-> by, of |-> s, at |-> at]

Init ==
  /\ registered = {} /\ closed = FALSE /\ manager = "serving"
  /\ open = [s \in Sessions |-> "new"]
  /\ stopped = {} /\ slot = {} /\ worker = {} /\ tasks = {}

Goto(s, at) == open' = [open EXCEPT ![s] = at]

-----------------------------------------------------------------------------
(* rdp_open *)

OpenUnchecked(s) ==
  /\ open[s] = "new"
  /\ registered' = registered \cup {s} /\ Goto(s, "spawn")
  /\ UNCHANGED <<closed, stopped, slot, worker, tasks, manager>>

(* A session is registered unless the manager is shutting down, *)
Open(s) ==
  /\ open[s] = "new"
  /\ IF closed THEN Goto(s, "refused") /\ UNCHANGED registered
     ELSE registered' = registered \cup {s} /\ Goto(s, "spawn")
  /\ UNCHANGED <<closed, stopped, slot, worker, tasks, manager>>

(* its worker is spawned, *)
Spawn(s) ==
  /\ open[s] = "spawn"
  /\ \/ worker' = worker \cup {s} /\ Goto(s, "store")
     \/ Goto(s, "remove") /\ UNCHANGED worker
  /\ UNCHANGED <<registered, closed, stopped, slot, tasks, manager>>

StoreUnchecked(s) ==
  /\ open[s] = "store"
  /\ slot' = slot \cup {s} /\ Goto(s, "wait") /\ UNCHANGED worker
  /\ UNCHANGED <<registered, closed, stopped, tasks, manager>>

(* and stored unless the session was stopped in the meantime: the worker   *)
(* that is dropped then is shut down (WorkerProcess::drop).                *)
Store(s) ==
  /\ open[s] = "store"
  /\ IF s \in stopped
     THEN worker' = worker \ {s} /\ Goto(s, "remove") /\ UNCHANGED slot
     ELSE slot' = slot \cup {s} /\ Goto(s, "wait") /\ UNCHANGED worker
  /\ UNCHANGED <<registered, closed, stopped, tasks, manager>>

(* The connection is made, or fails, is stopped or takes too long. *)
Wait(s) ==
  /\ open[s] = "wait"
  /\ \/ s \notin stopped /\ Goto(s, "returned")
     \/ Goto(s, "remove")
  /\ UNCHANGED <<registered, closed, stopped, slot, worker, tasks, manager>>

(* What failed is taken out of the registry, if it is still there, and     *)
(* shut down.                                                              *)
Remove(s) ==
  /\ open[s] = "remove" /\ Goto(s, "failed")
  /\ registered' = registered \ {s}
  /\ tasks' = tasks \cup {Task(s, s, "stop")}
  /\ UNCHANGED <<closed, stopped, slot, worker, manager>>

-----------------------------------------------------------------------------
(* rdp_close and SessionManager::shutdown *)

Close(c, s) ==
  /\ s \in registered /\ \A t \in tasks : t.by # c
  /\ registered' = registered \ {s}
  /\ tasks' = tasks \cup {Task(c, s, "stop")}
  /\ UNCHANGED <<closed, open, stopped, slot, worker, manager>>

(* The registry is closed and drained in one section; a thread for each    *)
(* session shuts it down,                                                  *)
Shutdown ==
  /\ manager = "serving" /\ manager' = "closing"
  /\ closed' = TRUE /\ registered' = {}
  /\ tasks' = tasks \cup {Task(Manager, s, "stop") : s \in registered}
  /\ UNCHANGED <<open, stopped, slot, worker>>

(* and all of them are joined. *)
ShutdownReturns ==
  /\ manager = "closing" /\ \A t \in tasks : t.by # Manager
  /\ manager' = "closed"
  /\ UNCHANGED <<registered, closed, open, stopped, slot, worker, tasks>>

-----------------------------------------------------------------------------
(* Session::shutdown *)

At(t, at) == (tasks \ {t}) \cup {Task(t.by, t.of, at)}

Stop(t) ==
  /\ t.at = "stop" /\ stopped' = stopped \cup {t.of} /\ tasks' = At(t, "take")
  /\ UNCHANGED <<registered, closed, open, slot, worker, manager>>

TakeLeaves(t) ==
  /\ t.at = "take"
  /\ tasks' = IF t.of \in slot THEN At(t, "end") ELSE tasks \ {t}
  /\ UNCHANGED <<registered, closed, open, stopped, slot, worker, manager>>

Take(t) ==
  /\ t.at = "take"
  /\ slot' = slot \ {t.of}
  /\ tasks' = IF t.of \in slot THEN At(t, "end") ELSE tasks \ {t}
  /\ UNCHANGED <<registered, closed, open, stopped, worker, manager>>

(* WorkerProcess::shutdown returns once the process is reaped. *)
EndWorker(t) ==
  /\ t.at = "end" /\ worker' = worker \ {t.of} /\ tasks' = tasks \ {t}
  /\ UNCHANGED <<registered, closed, open, stopped, slot, manager>>

(* A worker ends by itself; the session is told and keeps its slot and its *)
(* entry.                                                                  *)
WorkerEnds(s) ==
  /\ s \in worker /\ worker' = worker \ {s} /\ stopped' = stopped \cup {s}
  /\ UNCHANGED <<registered, closed, open, slot, tasks, manager>>

Opener(s) == Open(s) \/ Spawn(s) \/ Store(s) \/ Wait(s) \/ Remove(s)
TaskStep == \E t \in tasks : Stop(t) \/ Take(t) \/ EndWorker(t)

Next ==
  \/ \E s \in Sessions : Opener(s) \/ WorkerEnds(s) \/ \E c \in Closers : Close(c, s)
  \/ TaskStep \/ Shutdown \/ ShutdownReturns

Spec == Init /\ [][Next]_vars

(* Waits are limited in time and so are the shutdowns of workers (see      *)
(* WorkerLifecycle), so calls that have begun go on.                       *)
FairSpec ==
  /\ Spec /\ WF_vars(TaskStep) /\ WF_vars(ShutdownReturns)
  /\ \A s \in Sessions : WF_vars(Opener(s))

-----------------------------------------------------------------------------
(* Properties. *)

(* Everything has its type, and a registry that was closed is empty and    *)
(* stays so: an rdp_open that comes late is refused in the same section.   *)
TypeOK ==
  /\ registered \in SUBSET Sessions /\ closed \in BOOLEAN
  /\ closed => registered = {}
  /\ open \in [Sessions -> {"new", "spawn", "store", "wait", "remove", "failed", "refused", "returned"}]
  /\ stopped \in SUBSET Sessions /\ slot \in SUBSET Sessions /\ worker \in SUBSET Sessions
  /\ tasks \in SUBSET [by : Sessions \cup Closers \cup {Manager}, of : Sessions,
                       at : {"stop", "take", "end"}]
  /\ manager \in {"serving", "closing", "closed"}

(* Somebody will still look at the slot of session s: it is registered, or *)
(* a shutdown of it has not come to its slot.                              *)
Attended(s) ==
  \/ s \in registered \/ open[s] = "remove"
  \/ \E t \in tasks : t.of = s /\ t.at \in {"stop", "take"}

(* No worker is forgotten: a running one is in the hands of the call that  *)
(* spawned it, of one that shuts it down, or in a slot somebody will look  *)
(* at, however open, close and the shutdown of the manager interleave.     *)
WorkersAreOwned ==
  \A s \in worker :
    \/ open[s] = "store"
    \/ s \in slot /\ Attended(s)
    \/ \E t \in tasks : t.of = s /\ t.at = "end"

(* A worker is shut down by one thread only: whoever takes it from the     *)
(* slot.                                                                   *)
OneEnds ==
  \A t, u \in tasks : t.of = u.of /\ t.at = "end" /\ u.at = "end" => t = u

(* Once the manager has shut down nothing can be reached any more, and     *)
(* every worker ends, also that of an rdp_open still under way.            *)
NothingOutlivesShutdown == closed ~> [](registered = {} /\ worker = {})
=============================================================================
