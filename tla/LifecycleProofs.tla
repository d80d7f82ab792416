-------------------------- MODULE LifecycleProofs --------------------------
(***************************************************************************)
(* Theorems about what is opened and closed: the sessions of the server,   *)
(* for any number of sessions and of threads that close them, and beside   *)
(* them the event loop threads of the native library and of the standalone *)
(* helper, for every number of connections.                                *)
(***************************************************************************)
EXTENDS MCLifecycles, TLAPS

-----------------------------------------------------------------------------
(* The sessions of the server. *)

(* The calls whose worker has been stored, or will never be. *)
AfterStore == {"wait", "remove", "failed", "returned"}

(* Nothing is in a slot before it was stored, *)
SlotsAfterStore == \A s \in slot : open[s] \in AfterStore

(* a session that is being ended has an empty slot that stays empty, *)
EndsAfterTake ==
  \A t \in tasks : t.at = "end" => t.of \notin slot /\ open[t.of] \in AfterStore

(* and one that will still store its worker is registered, or a shutdown   *)
(* of it will stop it and then look at the slot.                           *)
StoresAreSeen ==
  \A s \in Sessions : open[s] \in {"spawn", "store"} /\ s \notin stopped =>
    \/ s \in registered
    \/ \E t \in tasks : t.of = s /\ t.at = "stop"

Ownership == SlotsAfterStore /\ EndsAfterTake /\ StoresAreSeen /\ WorkersAreOwned /\ OneEnds

(* The states in which TypeOK and Ownership hold are closed under Next. *)
RegistryInv == TypeOK /\ Ownership

-----------------------------------------------------------------------------
(* The types are kept by every step; a closed registry gets no session.    *)
LEMMA TypeStep == TypeOK /\ [Next]_vars => TypeOK'
<1> SUFFICES ASSUME TypeOK, [Next]_vars PROVE TypeOK'
  OBVIOUS
<1> USE DEF TypeOK
<1>1. ASSUME NEW s \in Sessions, Open(s) PROVE TypeOK'
  BY <1>1 DEF Open, Goto
<1>2. ASSUME NEW s \in Sessions, Spawn(s) PROVE TypeOK'
  BY <1>2 DEF Spawn, Goto
<1>3. ASSUME NEW s \in Sessions, Store(s) PROVE TypeOK'
  BY <1>3 DEF Store, Goto
<1>4. ASSUME NEW s \in Sessions, Wait(s) PROVE TypeOK'
  BY <1>4 DEF Wait, Goto
<1>5. ASSUME NEW s \in Sessions, Remove(s) PROVE TypeOK'
  BY <1>5 DEF Remove, Goto, Task
<1>6. ASSUME NEW s \in Sessions, NEW c \in Closers, Close(c, s) PROVE TypeOK'
  BY <1>6 DEF Close, Task
<1>7. CASE Shutdown
  BY <1>7 DEF Shutdown, Task
<1>8. CASE ShutdownReturns
  BY <1>8 DEF ShutdownReturns
<1>9. ASSUME NEW t \in tasks, Stop(t) PROVE TypeOK'
  BY <1>9 DEF Stop, At, Task
<1>10. ASSUME NEW t \in tasks, Take(t) PROVE TypeOK'
  BY <1>10 DEF Take, At, Task
<1>11. ASSUME NEW t \in tasks, EndWorker(t) PROVE TypeOK'
  BY <1>11 DEF EndWorker
<1>12. ASSUME NEW s \in Sessions, WorkerEnds(s) PROVE TypeOK'
  BY <1>12 DEF WorkerEnds
<1>13. CASE UNCHANGED vars
  BY <1>13 DEF vars
<1> QED
  BY <1>1, <1>2, <1>3, <1>4, <1>5, <1>6, <1>7, <1>8, <1>9, <1>10, <1>11, <1>12, <1>13
  DEF Next, Opener, TaskStep

(* rdp_open, before the worker is stored *)
LEMMA OpenStep ==
  ASSUME RegistryInv, TypeOK', NEW s \in Sessions, Open(s) \/ Spawn(s)
  PROVE  Ownership'
<1> USE DEF RegistryInv, Ownership, TypeOK, AfterStore, Goto
<1>1. CASE Open(s)
  <2>1. SlotsAfterStore' /\ EndsAfterTake'
    BY <1>1 DEF Open, SlotsAfterStore, EndsAfterTake
  <2>2. StoresAreSeen'
    BY <1>1 DEF Open, StoresAreSeen
  <2>3. WorkersAreOwned' /\ OneEnds'
    BY <1>1 DEF Open, WorkersAreOwned, Attended, OneEnds
  <2> QED
    BY <2>1, <2>2, <2>3
<1>2. CASE Spawn(s)
  <2>1. SlotsAfterStore' /\ EndsAfterTake'
    BY <1>2 DEF Spawn, SlotsAfterStore, EndsAfterTake
  <2>2. StoresAreSeen'
    BY <1>2 DEF Spawn, StoresAreSeen
  <2>3. WorkersAreOwned' /\ OneEnds'
    BY <1>2 DEF Spawn, WorkersAreOwned, Attended, OneEnds
  <2> QED
    BY <2>1, <2>2, <2>3
<1> QED
  BY <1>1, <1>2

(* The step that stores the worker, or drops it when the session was       *)
(* stopped: here StoresAreSeen says that somebody will look at the slot.   *)
LEMMA StoreStep ==
  ASSUME RegistryInv, TypeOK', NEW s \in Sessions, Store(s)
  PROVE  Ownership'
<1> USE DEF RegistryInv, Ownership, TypeOK, AfterStore, Goto
<1>1. SlotsAfterStore'
  BY DEF Store, SlotsAfterStore
<1>2. EndsAfterTake'
  <2>1. \A t \in tasks : t.at = "end" => t.of # s
    BY DEF Store, EndsAfterTake
  <2> QED
    BY <2>1 DEF Store, EndsAfterTake
<1>3. StoresAreSeen'
  BY DEF Store, StoresAreSeen
<1>4. WorkersAreOwned'
  <2>1. CASE s \in stopped
    BY <2>1 DEF Store, WorkersAreOwned, Attended
  <2>2. CASE s \notin stopped
    <3>1. Attended(s)'
      BY <2>2 DEF Store, StoresAreSeen, Attended
    <3> QED
      BY <2>2, <3>1 DEF Store, WorkersAreOwned, Attended
  <2> QED
    BY <2>1, <2>2
<1>5. OneEnds'
  BY DEF Store, OneEnds
<1> QED
  BY <1>1, <1>2, <1>3, <1>4, <1>5

(* A call that takes sessions out of the registry leaves a task for each,  *)
(* and that task stands in for the entry.                                  *)
LEMMA HandOver ==
  ASSUME RegistryInv, NEW R \in SUBSET Sessions,
         registered' = registered \ R, UNCHANGED <<stopped, slot, worker>>,
         \A s \in Sessions : \/ open'[s] = open[s]
                             \/ s \in R /\ open[s] = "remove" /\ open'[s] = "failed",
         tasks \subseteq tasks', \A t \in tasks' : t.at = "end" => t \in tasks,
         \A s \in R : \E t \in tasks' : t.of = s /\ t.at = "stop"
  PROVE  Ownership'
<1> USE DEF RegistryInv, Ownership, TypeOK, AfterStore
<1>1. SlotsAfterStore'
  BY DEF SlotsAfterStore
<1>2. EndsAfterTake'
  BY DEF EndsAfterTake
<1>3. StoresAreSeen'
  BY DEF StoresAreSeen
<1>4. WorkersAreOwned'
  <2> SUFFICES ASSUME NEW s \in worker
               PROVE  \/ open'[s] = "store"
                      \/ s \in slot /\ Attended(s)'
                      \/ \E t \in tasks' : t.of = s /\ t.at = "end"
    BY DEF WorkersAreOwned
  <2>1. Attended(s) => Attended(s)'
    BY DEF Attended
  <2> QED
    BY <2>1 DEF WorkersAreOwned
<1>5. OneEnds'
  BY DEF OneEnds
<1> QED
  BY <1>1, <1>2, <1>3, <1>4, <1>5

(* rdp_open, after the worker is stored *)
LEMMA WaitStep ==
  ASSUME RegistryInv, TypeOK', NEW s \in Sessions, Wait(s) \/ Remove(s)
  PROVE  Ownership'
<1>1. CASE Wait(s)
  <2> USE DEF RegistryInv, Ownership, TypeOK, AfterStore, Goto
  <2>1. SlotsAfterStore' /\ EndsAfterTake' /\ StoresAreSeen'
    BY <1>1 DEF Wait, SlotsAfterStore, EndsAfterTake, StoresAreSeen
  <2>2. WorkersAreOwned' /\ OneEnds'
    BY <1>1 DEF Wait, WorkersAreOwned, Attended, OneEnds
  <2> QED
    BY <2>1, <2>2
<1>2. CASE Remove(s)
  <2> DEFINE n == Task(s, s, "stop")
  <2>1. n.of = s /\ n.at = "stop" /\ tasks' = tasks \cup {n}
    BY <1>2 DEF Remove, Task
  <2>2. \A u \in Sessions : \/ open'[u] = open[u]
                            \/ u \in {s} /\ open[u] = "remove" /\ open'[u] = "failed"
    BY <1>2 DEF Remove, Goto, RegistryInv, TypeOK
  <2>3. registered' = registered \ {s} /\ UNCHANGED <<stopped, slot, worker>>
    BY <1>2 DEF Remove
  <2> HIDE DEF n
  <2> QED
    BY <2>1, <2>2, <2>3, HandOver
<1> QED
  BY <1>1, <1>2

(* rdp_close and the manager's shutdown leave a task for what they remove. *)
LEMMA CloseStep ==
  ASSUME RegistryInv, TypeOK',
         (\E s \in Sessions, c \in Closers : Close(c, s)) \/ Shutdown \/ ShutdownReturns
  PROVE  Ownership'
<1>1. ASSUME NEW s \in Sessions, NEW c \in Closers, Close(c, s) PROVE Ownership'
  <2> DEFINE n == Task(c, s, "stop")
  <2>1. n.of = s /\ n.at = "stop" /\ tasks' = tasks \cup {n}
    BY <1>1 DEF Close, Task
  <2>2. registered' = registered \ {s} /\ UNCHANGED <<open, stopped, slot, worker>>
    BY <1>1 DEF Close
  <2> HIDE DEF n
  <2>3. /\ \A u \in {s} : \E t \in tasks' : t.of = u /\ t.at = "stop"
        /\ tasks \subseteq tasks' /\ \A t \in tasks' : t.at = "end" => t \in tasks
    BY <2>1
  <2>4. {s} \in SUBSET Sessions /\ \A u \in Sessions : open'[u] = open[u]
    BY <2>2
  <2> QED
    BY <2>2, <2>3, <2>4, HandOver
<1>2. CASE Shutdown
  <2>1. \A s \in registered : Task(Manager, s, "stop") \in tasks'
    BY <1>2 DEF Shutdown
  <2>2. \A s \in registered : \E t \in tasks' : t.of = s /\ t.at = "stop"
    BY <2>1 DEF Task
  <2>3. tasks \subseteq tasks' /\ \A t \in tasks' : t.at = "end" => t \in tasks
    BY <1>2 DEF Shutdown, Task
  <2>4. PICK R \in SUBSET Sessions : R = registered
    BY DEF RegistryInv, TypeOK
  <2>5. registered' = registered \ R /\ UNCHANGED <<open, stopped, slot, worker>>
    BY <1>2, <2>4 DEF Shutdown
  <2>6. \A s \in R : \E t \in tasks' : t.of = s /\ t.at = "stop"
    BY <2>2, <2>4
  <2> QED
    BY <2>3, <2>5, <2>6, HandOver
<1>3. CASE ShutdownReturns
  BY <1>3 DEF ShutdownReturns, RegistryInv, Ownership, SlotsAfterStore, EndsAfterTake,
              StoresAreSeen, WorkersAreOwned, Attended, OneEnds
<1> QED
  BY <1>1, <1>2, <1>3

(* Session::shutdown, and a worker that ends by itself *)
LEMMA TasksStep ==
  ASSUME RegistryInv, TypeOK', TaskStep \/ \E s \in Sessions : WorkerEnds(s)
  PROVE  Ownership'
<1> USE DEF RegistryInv, Ownership, TypeOK, AfterStore
<1>1. ASSUME NEW t \in tasks, Stop(t) PROVE Ownership'
  <2>1. SlotsAfterStore' /\ EndsAfterTake'
    BY <1>1 DEF Stop, At, Task, SlotsAfterStore, EndsAfterTake
  <2>2. StoresAreSeen'
    BY <1>1 DEF Stop, At, Task, StoresAreSeen
  <2>3. WorkersAreOwned'
    <3> DEFINE n == Task(t.by, t.of, "take")
    <3>1. n \in tasks' /\ n.of = t.of /\ n.at = "take"
      BY <1>1 DEF Stop, At, Task
    <3>2. \A u \in tasks : u # t => u \in tasks'
      BY <1>1 DEF Stop, At
    <3> HIDE DEF n
    <3>3. \A s \in Sessions : Attended(s) => Attended(s)'
      BY <1>1, <3>1, <3>2 DEF Stop, Attended
    <3> QED
      BY <1>1, <3>2, <3>3 DEF Stop, WorkersAreOwned
  <2>4. OneEnds'
    BY <1>1 DEF Stop, At, Task, OneEnds
  <2> QED
    BY <2>1, <2>2, <2>3, <2>4
<1>2. ASSUME NEW t \in tasks, Take(t) PROVE Ownership'
  <2>1. SlotsAfterStore' /\ EndsAfterTake'
    BY <1>2 DEF Take, At, Task, SlotsAfterStore, EndsAfterTake
  <2>2. StoresAreSeen'
    BY <1>2 DEF Take, At, Task, StoresAreSeen
  <2>3. WorkersAreOwned'
    <3> DEFINE n == Task(t.by, t.of, "end")
    <3>1. n.of = t.of /\ n.at = "end" /\ (t.of \in slot => n \in tasks')
      BY <1>2 DEF Take, At, Task
    <3>2. \A u \in tasks : u # t => u \in tasks'
      BY <1>2 DEF Take, At
    <3> HIDE DEF n
    <3>3. \A s \in Sessions : s # t.of /\ Attended(s) => Attended(s)'
      BY <1>2, <3>2 DEF Take, Attended
    <3> QED
      BY <1>2, <3>1, <3>2, <3>3 DEF Take, WorkersAreOwned
  <2>4. OneEnds'
    BY <1>2 DEF Take, At, Task, OneEnds, EndsAfterTake
  <2> QED
    BY <2>1, <2>2, <2>3, <2>4
<1>3. ASSUME NEW t \in tasks, EndWorker(t) PROVE Ownership'
  <2>1. SlotsAfterStore' /\ EndsAfterTake' /\ StoresAreSeen' /\ OneEnds'
    BY <1>3 DEF EndWorker, SlotsAfterStore, EndsAfterTake, StoresAreSeen, OneEnds
  <2>2. WorkersAreOwned'
    BY <1>3 DEF EndWorker, WorkersAreOwned, Attended
  <2> QED
    BY <2>1, <2>2
<1>4. ASSUME NEW s \in Sessions, WorkerEnds(s) PROVE Ownership'
  BY <1>4 DEF WorkerEnds, SlotsAfterStore, EndsAfterTake, StoresAreSeen,
              WorkersAreOwned, Attended, OneEnds
<1> QED
  BY <1>1, <1>2, <1>3, <1>4 DEF TaskStep

(* RegistryInv is an inductive invariant of the registry. *)
LEMMA RegistryAlways == Spec => []RegistryInv
<1>1. Init => RegistryInv
  BY DEF Init, RegistryInv, TypeOK, Ownership, SlotsAfterStore, EndsAfterTake, StoresAreSeen,
         WorkersAreOwned, OneEnds
<1>2. RegistryInv /\ [Next]_vars => RegistryInv'
  <2> SUFFICES ASSUME RegistryInv, [Next]_vars PROVE RegistryInv'
    OBVIOUS
  <2>1. TypeOK'
    BY TypeStep DEF RegistryInv
  <2>2. CASE Next
    BY <2>1, <2>2, OpenStep, StoreStep, WaitStep, CloseStep, TasksStep DEF Next, Opener, RegistryInv
  <2>3. CASE UNCHANGED vars
    BY <2>3 DEF vars, RegistryInv, TypeOK, Ownership, SlotsAfterStore, EndsAfterTake, StoresAreSeen,
                WorkersAreOwned, Attended, OneEnds
  <2> QED
    BY <2>2, <2>3
<1> QED
  BY <1>1, <1>2, PTL DEF Spec

(* The registry and the calls around it keep their types, and a closed     *)
(* registry stays empty: SessionManager::open refuses in the section in    *)
(* which it would insert.                                                  *)
THEOREM RegistryTypeCorrect == Spec => []TypeOK
  BY RegistryAlways, PTL DEF RegistryInv

(* However rdp_open, rdp_close and SessionManager::shutdown interleave, a  *)
(* running worker is never out of everybody's hands.                       *)
THEOREM WorkersAlwaysOwned == Spec => []WorkersAreOwned
  BY RegistryAlways, PTL DEF RegistryInv, Ownership

(* Session::shutdown takes the worker from its slot, so that only one of   *)
(* the calls that shut a session down ends its process.                    *)
THEOREM OneCallEndsAWorker == Spec => []OneEnds
  BY RegistryAlways, PTL DEF RegistryInv, Ownership

-----------------------------------------------------------------------------
(* The library.  Between the acceptance of a connect command and the       *)
(* creation of its thread the new connection has no thread yet.            *)

Stopping == at \in {"stop", "join", "free"}
Starting == at \in {"start", "connect", "posted", "spawn"}
Fresh == Starting \/ (Stopping /\ next = "start")

(* There is at most one event loop thread, that of g_event_thread; it runs *)
(* on the instance that exists, for the connection the reader sees.        *)
OneThread ==
  /\ live = {instance} \ {0}
  /\ \A n \in Connections : Library!Alive(n) => n = handle /\ n = current
  /\ \A n \in Connections : n > count \/ (n = count /\ Fresh) => thread[n] = "none"

(* What stop_connection and start_connection have reached. *)
Progressed ==
  /\ Fresh => count # 0
  /\ Starting \/ at \in {"free", "cleanup"} => handle = 0
  /\ at \in {"start", "cleanup"} => instance = 0
  /\ at \in {"connect", "posted", "spawn"} => instance = count

(* The reader has no open connection but that of the thread or the one     *)
(* being made, until a shutdown cuts it off.                               *)
Announced ==
  /\ at \in {"posted", "spawn"} => current = count
  /\ current # 0 /\ running =>
       at \in {"posted", "spawn"} \/ \E n \in Connections : n = current /\ Library!Alive(n)

(* g_running is false before the initialization and from shutdown on. *)
Switched ==
  /\ initialized = output
  /\ running <=> initialized /\ at # "cleanup" /\ ~ (Stopping /\ next = "cleanup")
  /\ ~initialized => at = "idle" /\ instance = 0 /\ handle = 0 /\ current = 0

LibraryInv == Library!TypeOK /\ OneThread /\ Progressed /\ Announced /\ Switched

-----------------------------------------------------------------------------
(* The helper.  Threads of earlier connections may still run, each on its  *)
(* own instance; g_instance is the instance of g_event_thread unless a     *)
(* connection is being made.                                               *)

HelperStarting == helperAt \in {"connect", "posted", "spawn"}
HelperInv ==
  /\ helperThread \in [Connections -> {"none", "test", "check", "exit", "send", "done"}]
  /\ helperCount \in Connections \cup {0}
  /\ Standalone!LoopUsesWhatExists
  /\ \A n \in Connections :
       n > helperCount \/ (n = helperCount /\ (helperAt = "start" \/ HelperStarting))
         => helperThread[n] = "none"
  /\ helperAt = "start" \/ HelperStarting => helperCount # 0
  /\ HelperStarting => helperInstance = helperCount /\ helperInstance \in helperLive
  /\ ~HelperStarting /\ helperInstance # 0 => helperHandle = helperInstance

LifecycleInv == LibraryInv /\ HelperInv

LEMMA LibraryInit == Library!Init => LibraryInv
<1> SUFFICES ASSUME Library!Init PROVE LibraryInv
  OBVIOUS
<1>1. Library!TypeOK
  BY DEF Library!Init, Library!ThreadInit, Library!TypeOK, Library!ThreadTypeOK,
         Library!Connections, Library!Places, Library!Message
<1>2. OneThread
  BY DEF Library!Init, Library!ThreadInit, OneThread, Connections, Library!Connections,
         Library!Alive
<1>3. Progressed /\ Announced /\ Switched
  BY DEF Library!Init, Library!ThreadInit, Progressed, Announced, Switched, Stopping, Starting, Fresh
<1> QED
  BY <1>1, <1>2, <1>3 DEF LibraryInv

(* Every step of the calling thread and of the event loop thread keeps     *)
(* the invariant.                                                          *)
LEMMA LibraryNext == LibraryInv /\ [Library!Next]_libraryVars => LibraryInv'
<1> SUFFICES ASSUME LibraryInv, [Library!Next]_libraryVars PROVE LibraryInv'
  OBVIOUS
<1> USE MaxConnectionsAssumption
    DEF LibraryInv, OneThread, Progressed, Announced, Switched, Stopping, Starting, Fresh, Connections,
        Library!TypeOK, Library!ThreadTypeOK, Library!Connections, Library!Places, Library!Alive,
        Library!threadVars, Library!callVars, Library!Emit, Library!Message
<1>1. CASE Library!Initialize
  BY <1>1 DEF Library!Initialize
<1>2. CASE Library!ConnectRefused
  BY <1>2 DEF Library!ConnectRefused
<1>3. CASE Library!Connect
  <2>1. /\ at = "idle" /\ initialized /\ running /\ count < MaxConnections
        /\ count' = count + 1 /\ next' = "start"
        /\ at' = IF instance # 0 \/ handle # 0 THEN "stop" ELSE "start"
        /\ UNCHANGED <<initialized, output, instance, handle, running, connected, live, thread,
                       current, last>>
    BY <1>3 DEF Library!Connect
  <2>2. count' \in Connections /\ count' # 0
    BY <2>1
  <2>3. Library!TypeOK'
    BY <2>1, <2>2
  <2>4. OneThread'
    BY <2>1, <2>2
  <2>5. Progressed' /\ Switched'
    BY <2>1, <2>2
  <2>6. Announced'
    BY <2>1
  <2> QED
    BY <2>3, <2>4, <2>5, <2>6
<1>4. CASE Library!Disconnect
  <2>1. /\ at = "idle" /\ initialized /\ running /\ at' = "stop" /\ next' = "return"
        /\ UNCHANGED <<running, connected, live, thread, current, last>>
        /\ UNCHANGED <<initialized, output, instance, handle, count>>
    BY <1>4 DEF Library!Disconnect
  <2>2. Library!TypeOK'
    BY <2>1
  <2>3. OneThread'
    BY <2>1
  <2>4. Progressed' /\ Announced'
    BY <2>1
  <2>5. Switched'
    BY <2>1
  <2> QED
    BY <2>2, <2>3, <2>4, <2>5
<1>5. CASE Library!Shutdown
  <2>1. /\ at = "idle" /\ initialized /\ running' = FALSE /\ at' = "stop" /\ next' = "cleanup"
        /\ UNCHANGED <<connected, live, thread, current, last>>
        /\ UNCHANGED <<initialized, output, instance, handle, count>>
    BY <1>5 DEF Library!Shutdown
  <2>2. Library!TypeOK'
    BY <2>1
  <2>3. OneThread'
    BY <2>1
  <2>4. Progressed' /\ Announced'
    BY <2>1
  <2>5. Switched'
    BY <2>1
  <2> QED
    BY <2>2, <2>3, <2>4, <2>5
<1>6. CASE Library!Stop
  <2>1. /\ at = "stop" /\ at' = "join" /\ connected' = FALSE
        /\ UNCHANGED <<running, live, thread, current, last>>
        /\ UNCHANGED <<initialized, output, instance, handle, next, count>>
    BY <1>6 DEF Library!Stop
  <2>2. Library!TypeOK'
    BY <2>1
  <2>3. OneThread'
    BY <2>1
  <2>4. Progressed' /\ Announced'
    BY <2>1
  <2>5. Switched'
    BY <2>1
  <2> QED
    BY <2>2, <2>3, <2>4, <2>5
<1>7. CASE Library!Join
  BY <1>7 DEF Library!Join
<1>8. CASE Library!Free
  BY <1>8 DEF Library!Free
<1>9. CASE Library!Cleanup
  BY <1>9 DEF Library!Cleanup
<1>10. CASE Library!InitFails
  BY <1>10 DEF Library!InitFails
<1>11. CASE Library!InitInstance
  BY <1>11 DEF Library!InitInstance
<1>12. CASE Library!ConnectFails
  BY <1>12 DEF Library!ConnectFails
<1>13. CASE Library!PostConnect
  BY <1>13 DEF Library!PostConnect
<1>14. CASE Library!SetConnected
  BY <1>14 DEF Library!SetConnected
<1>15. CASE Library!Spawn
  BY <1>15 DEF Library!Spawn, Library!Goto
<1>16. CASE Library!SpawnFails
  BY <1>16 DEF Library!SpawnFails
<1>17. CASE Library!FirstPaint
  BY <1>17 DEF Library!FirstPaint
<1>18. ASSUME NEW n \in Library!Connections, Library!Thread(n) PROVE LibraryInv'
  <2>1. CASE Library!Test(n)
    BY <1>18, <2>1 DEF Library!Thread, Library!Test, Library!Goto
  <2>2. CASE Library!Check(n)
    BY <1>18, <2>2 DEF Library!Thread, Library!Check, Library!Goto
  <2>3. CASE Library!CheckFails(n)
    <3>1. /\ thread[n] = "check" /\ thread' = [thread EXCEPT ![n] = "exit"] /\ connected' = FALSE
          /\ UNCHANGED <<running, live, current, last>>
          /\ UNCHANGED <<initialized, output, instance, handle, at, next, count>>
      BY <1>18, <2>3 DEF Library!Thread, Library!CheckFails, Library!Goto
    <3>2. Library!TypeOK'
      <4> HIDE DEF OneThread, Progressed, Announced, Switched
      <4>1. thread' \in [Connections -> Library!Places] /\ connected' \in BOOLEAN
        BY <3>1
      <4> QED
        BY <3>1, <4>1
    <3>3. OneThread'
      BY <3>1
    <3>4. Progressed'
      BY <3>1
    <3>5. Announced'
      BY <3>1
    <3>6. Switched'
      BY <3>1
    <3> QED
      BY <3>2, <3>3, <3>4, <3>5, <3>6
  <2>4. CASE Library!Exit(n)
    BY <1>18, <2>4 DEF Library!Thread, Library!Exit, Library!Goto
  <2>5. CASE Library!SendDisconnected(n)
    BY <1>18, <2>5 DEF Library!Thread, Library!SendDisconnected, Library!Goto
  <2> QED
    BY <1>18, <2>1, <2>2, <2>3, <2>4, <2>5 DEF Library!Thread, Library!ThreadStep
<1>19. CASE UNCHANGED libraryVars
  BY <1>19 DEF libraryVars
<1> QED
  BY <1>1, <1>2, <1>3, <1>4, <1>5, <1>6, <1>7, <1>8, <1>9, <1>10, <1>11, <1>12, <1>13, <1>14,
     <1>15, <1>16, <1>17, <1>18, <1>19 DEF Library!Next, Library!Call, Library!Progress

LEMMA HelperInit == Standalone!Init => HelperInv
  BY DEF Standalone!Init, Standalone!ThreadInit, HelperInv, HelperStarting, Connections,
         Standalone!Connections, Standalone!LoopUsesWhatExists, Standalone!Alive

(* Every step of the helper keeps its invariant. *)
LEMMA HelperNext == HelperInv /\ [Standalone!Next]_helperVars => HelperInv'
<1> SUFFICES ASSUME HelperInv, [Standalone!Next]_helperVars PROVE HelperInv'
  OBVIOUS
<1> USE MaxConnectionsAssumption
    DEF HelperInv, HelperStarting, Connections, Standalone!Connections,
        Standalone!LoopUsesWhatExists, Standalone!Alive, Standalone!threadVars, Standalone!mainVars
<1>1. CASE Standalone!Loop
  BY <1>1 DEF Standalone!Loop
<1>2. CASE Standalone!InitFails
  BY <1>2 DEF Standalone!InitFails
<1>3. CASE Standalone!InitInstance
  BY <1>3 DEF Standalone!InitInstance
<1>4. CASE Standalone!ConnectFails
  BY <1>4 DEF Standalone!ConnectFails
<1>5. CASE Standalone!PostConnect
  BY <1>5 DEF Standalone!PostConnect
<1>6. CASE Standalone!SetConnected
  BY <1>6 DEF Standalone!SetConnected
<1>7. CASE Standalone!Spawn
  BY <1>7 DEF Standalone!Spawn, Standalone!Goto
<1>8. CASE Standalone!SpawnFails
  BY <1>8 DEF Standalone!SpawnFails
<1>9. CASE Standalone!Stop
  BY <1>9 DEF Standalone!Stop
<1>10. CASE Standalone!Finish
  BY <1>10 DEF Standalone!Finish
<1>11. CASE Standalone!Signal
  BY <1>11 DEF Standalone!Signal
<1>12. CASE Standalone!Reads
  BY <1>12 DEF Standalone!Reads, Standalone!ReadNothing, Standalone!ReadDisconnect,
               Standalone!ReadConnect, Standalone!ReadOther
<1>13. ASSUME NEW n \in Standalone!Connections, Standalone!Thread(n) PROVE HelperInv'
  BY <1>13 DEF Standalone!Thread, Standalone!ThreadStep, Standalone!Test, Standalone!Check,
               Standalone!CheckFails, Standalone!Exit, Standalone!SendDisconnected, Standalone!Goto
<1>14. CASE UNCHANGED helperVars
  BY <1>14 DEF helperVars
<1> QED
  BY <1>1, <1>2, <1>3, <1>4, <1>5, <1>6, <1>7, <1>8, <1>9, <1>10, <1>11, <1>12, <1>13, <1>14
     DEF Standalone!Next, Standalone!Main

-----------------------------------------------------------------------------
(* All together: a step is one of one process, which leaves the others     *)
(* alone.                                                                  *)

MCNext == InServer(Next) \/ InLibrary(Library!Next) \/ InHelper(Standalone!Next)

LEMMA MCSpecSteps == MCSpec => MCInit /\ [][MCNext]_MCVars
  BY PTL DEF MCSpec, MCNext

LEMMA OwnSteps ==
  ASSUME [MCNext]_MCVars
  PROVE  [Library!Next]_libraryVars /\ [Standalone!Next]_helperVars
  BY DEF MCNext, InServer, InLibrary, InHelper, MCVars

LEMMA LifecycleNext == LifecycleInv /\ [MCNext]_MCVars => LifecycleInv'
  BY OwnSteps, LibraryNext, HelperNext DEF LifecycleInv

LEMMA LifecycleInit == MCInit => LifecycleInv
  BY LibraryInit, HelperInit DEF MCInit, LifecycleInv

(* No event loop thread, of the library or of the helper, ever uses a      *)
(* FreeRDP instance that has been freed or an output callback whose mutex  *)
(* is gone, and the library never loses an instance: for every interleaving *)
(* of the calls with the thread's last iterations (library.c               *)
(* stop_connection, start_connection, rdp_mcp_native_shutdown; main.c).    *)
THEOREM InstancesAlwaysKept == MCSpec => []InstancesAreKept
<1>1. LifecycleInv => InstancesAreKept
  <2> SUFFICES ASSUME LifecycleInv PROVE InstancesAreKept
    OBVIOUS
  <2>1. /\ Library!TypeOK /\ OneThread /\ Switched /\ Standalone!LoopUsesWhatExists
    BY DEF LifecycleInv, LibraryInv, HelperInv
  <2>2. Library!LoopUsesWhatExists
    <3> SUFFICES ASSUME NEW n \in Library!Connections, Library!Alive(n)
                 PROVE  n \in live /\ output
      BY DEF Library!LoopUsesWhatExists
    <3>1. n = handle /\ n # 0
      BY <2>1 DEF OneThread, Library!Connections, Connections
    <3>2. n = instance
      BY <2>1, <3>1 DEF Library!TypeOK
    <3>3. n \in live
      BY <2>1, <3>1, <3>2 DEF OneThread
    <3>4. output
      BY <2>1, <3>1 DEF Switched
    <3> QED
      BY <3>3, <3>4
  <2>3. Library!NoLostInstance
    BY <2>1 DEF OneThread, Library!NoLostInstance
  <2> QED
    BY <2>1, <2>2, <2>3 DEF InstancesAreKept
<1> QED
  BY <1>1, MCSpecSteps, LifecycleInit, LifecycleNext, PTL

(* Each step of the library shows its reader a step of ConnectionEvents or *)
(* nothing.                                                                *)
LEMMA EventStep ==
  ASSUME LibraryInv, [Library!Next]_libraryVars
  PROVE  [Library!Events!Next]_(Library!Events!eventVars)
<1> USE DEF Library!Events!eventVars, Library!Message, Library!Events!Message
<1>1. CASE UNCHANGED <<current, last>>
  BY <1>1
<1>2. /\ current \in Connections \cup {0} /\ count \in Connections \cup {0}
      /\ \A n \in Connections : n # 0 /\ (Library!Alive(n) => current = n)
      /\ Starting => count # 0 /\ count \in Connections /\ running
      /\ Starting => \A n \in Connections : ~Library!Alive(n)
      /\ at \in {"posted", "spawn"} => current = count
  BY DEF LibraryInv, Library!TypeOK, Library!ThreadTypeOK, OneThread, Progressed, Announced,
         Switched, Connections, Library!Connections, Fresh, Starting, Stopping
<1>3. CASE Library!ConnectRefused \/ Library!InitFails \/ Library!ConnectFails \/ Library!SpawnFails
  <2>1. PICK n \in Connections \cup {0} : last' = Library!Message("error", n) /\ current' \in {current, 0}
    BY <1>2, <1>3 DEF Library!ConnectRefused, Library!InitFails, Library!ConnectFails,
                      Library!SpawnFails, Library!Emit
  <2>2. Library!Events!Error
    BY <2>1 DEF Library!Events!Error, Connections, Library!Connections
  <2> QED
    BY <2>2 DEF Library!Events!Next
<1>4. CASE Library!PostConnect
  <2>1. at = "connect" /\ current' = count /\ last' = Library!Message("connected", count)
    BY <1>4 DEF Library!PostConnect, Library!Emit
  <2>2. current = 0 /\ count \in Connections
    BY <1>2, <2>1 DEF LibraryInv, Announced, Starting
  <2>3. Library!Events!Connected
    BY <2>1, <2>2 DEF Library!Events!Connected, Connections, Library!Connections
  <2> QED
    BY <2>3 DEF Library!Events!Next
<1>5. CASE Library!FirstPaint
  <2>1. current' = current /\ current # 0 /\ last' = Library!Message("frame", current)
    BY <1>2, <1>5 DEF Library!FirstPaint, Library!Emit, Starting
  <2>2. Library!Events!Frame
    BY <2>1 DEF Library!Events!Frame
  <2> QED
    BY <2>2 DEF Library!Events!Next
<1>6. CASE Library!Cleanup
  <2>1. Library!Events!Closed
    BY <1>6 DEF Library!Cleanup, Library!Events!Closed
  <2> QED
    BY <2>1 DEF Library!Events!Next
<1>7. ASSUME NEW n \in Library!Connections, Library!Thread(n)
      PROVE  [Library!Events!Next]_(Library!Events!eventVars)
  <2>1. n \in Connections
    BY DEF Connections, Library!Connections
  <2>2. CASE Library!Check(n)
    <3>1. current = n /\ n # 0
      BY <1>2, <2>1, <2>2 DEF Library!Check, Library!Alive
    <3>2. UNCHANGED <<current, last>> \/ Library!Events!Frame
      BY <2>2, <3>1 DEF Library!Check, Library!Emit, Library!Events!Frame
    <3> QED
      BY <1>1, <3>2 DEF Library!Events!Next
  <2>3. CASE Library!SendDisconnected(n)
    <3>1. current = n /\ n # 0
      BY <1>2, <2>1, <2>3 DEF Library!SendDisconnected, Library!Alive
    <3>2. Library!Events!Disconnected
      BY <2>3, <3>1 DEF Library!SendDisconnected, Library!Emit, Library!Events!Disconnected
    <3> QED
      BY <3>2 DEF Library!Events!Next
  <2>4. CASE Library!Test(n) \/ Library!CheckFails(n) \/ Library!Exit(n)
    BY <1>1, <2>4 DEF Library!Test, Library!CheckFails, Library!Exit
  <2> QED
    BY <1>7, <2>2, <2>3, <2>4 DEF Library!Thread, Library!ThreadStep
<1>8. CASE \/ Library!Initialize \/ Library!Connect \/ Library!Disconnect \/ Library!Shutdown
           \/ Library!Stop \/ Library!Join \/ Library!Free \/ Library!InitInstance
           \/ Library!SetConnected \/ Library!Spawn \/ UNCHANGED libraryVars
  BY <1>1, <1>8 DEF Library!Initialize, Library!Connect, Library!Disconnect, Library!Shutdown,
     Library!Stop, Library!Join, Library!Free, Library!InitInstance, Library!SetConnected,
     Library!Spawn, Library!threadVars, libraryVars
<1> QED
  BY <1>3, <1>4, <1>5, <1>6, <1>7, <1>8 DEF Library!Next, Library!Call, Library!Progress

(* library.c implements ConnectionEvents: a reader of its output sees the  *)
(* connections one after the other, nothing of one after its end or after  *)
(* the beginning of the next, and each end at most once.                   *)
THEOREM LibraryImplementsEvents == MCSpec => ConnectionsDoNotMix
<1>1. MCInit => Library!Events!Init
  BY DEF MCInit, Library!Init, Library!ThreadInit, Library!Message, Library!Events!Init,
         Library!Events!Message
<1>2. LifecycleInv /\ [MCNext]_MCVars => [Library!Events!Next]_(Library!Events!eventVars)
  BY OwnSteps, EventStep DEF LifecycleInv
<1> QED
  BY <1>1, <1>2, MCSpecSteps, LifecycleInit, LifecycleNext, PTL
     DEF ConnectionsDoNotMix, Library!ConnectionsDoNotMix, Library!Events!Spec
=============================================================================
