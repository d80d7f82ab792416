--------------------------- MODULE WorkerLifecycle --------------------------
(***************************************************************************)
(* One session and its worker process, from rdp_open to the last thread:   *)
(* SessionManager::open and close, Session::connect, command and shutdown  *)
(* (src/session.rs), WorkerProcess with its reader and supervisor threads, *)
(* and the command loop of the worker process itself (src/worker.rs).      *)
(*                                                                         *)
(* The worker may hang in any step, crash at any moment, and stop reading  *)
(* its standard input, so a write to the pipe may block.  Desktop contents *)
(* are the subject of SessionCalls; here the state keeps no pixels.        *)
(***************************************************************************)
EXTENDS SessionState

CONSTANTS Opener,     \* the call of rdp_open
          Closers,    \* calls of rdp_close
          Operators,  \* callers of input operations
          PipeCap     \* bound: messages a pipe holds before a write blocks

Threads == {Opener} \cup Closers \cup Operators
Free == "free"

ASSUME ThreadsAssumption ==
  /\ Opener \notin Closers \cup Operators /\ Closers \cap Operators = {}
  /\ Free \notin Threads
ASSUME PipeCapAssumption == PipeCap \in Nat \ {0}

VARIABLES
  state,       \* the session's SessionState
  registered,  \* the manager's registry holds the session
  pc,          \* where each thread is
  dropping,    \* rdp_open is dropping a worker that it did not store
  slotLock, slot,         \* Session::worker: its mutex, and whether it is Some
  opLock,                 \* Session::operation
  inputLock, input,       \* WorkerProcess::input: mutex, Some or None
  joinLock, handle,       \* WorkerProcess::supervisor: mutex, Some or None
  control,     \* the channel of Control messages to the supervisor
  deadline,    \* the supervisor's deadline: none, set, due
  supervisor,  \* the supervisor thread
  reader,      \* the reader thread
  child,       \* the worker process as its parent sees it
  phase,       \* where the worker's command loop is
  lost,        \* the native event loop has reported the end of the session
  stdin, stdout \* the two pipes

sessionVars == <<state, registered, dropping, slotLock, slot, opLock>>
workerVars == <<inputLock, input, joinLock, handle>>
childVars == <<child, phase, lost>>
vars == <<sessionVars, pc, workerVars, control, deadline, supervisor, reader,
          childVars, stdin, stdout>>

(* A connect command may be longer than the pipe: then "part" is as much   *)
(* of it as fits, and "connect" the rest.                                  *)
Commands == {"part", "connect", "input", "disconnect"}
Truncated == [kind |-> "TRUNCATED"]  \* a message cut off by the worker's death
Output == {ReadyEvent, ErrorEvent, DisconnectedEvent(NoError), Truncated}

OpenSteps == {"open", "spawn", "check", "store", "send", "write", "rest", "await",
              "remove", "connected"}
OperatorSteps == {"idle", "clone", "send", "write", "failed"}
ShutdownSteps == {"stop", "take", "close", "try", "farewell", "acquire",
                  "join", "drop"}

(* Which mutex a thread holds follows from where it is. *)
LocksOwned ==
  \A t \in Threads :
    /\ slotLock = t <=> pc[t] = "store"
    /\ opLock = t <=> t \in Operators /\ pc[t] \in {"clone", "send", "write", "failed"}
    /\ inputLock = t <=> pc[t] \in {"write", "rest", "farewell"}
    /\ joinLock = t <=> pc[t] \in {"join", "drop"}

(* Types, and the owners of the four mutexes: each is held by the thread   *)
(* that is inside its section, from the step that takes it to the step     *)
(* that ends the section.  The supervisor's is held to the end of          *)
(* WorkerProcess::shutdown, across the join and the wait for the input.    *)
TypeOK ==
  /\ state \in State
  /\ registered \in BOOLEAN /\ slot \in BOOLEAN /\ input \in BOOLEAN
  /\ handle \in BOOLEAN /\ lost \in BOOLEAN /\ dropping \in BOOLEAN
  /\ slotLock \in Threads \cup {Free} /\ opLock \in Threads \cup {Free}
  /\ inputLock \in Threads \cup {Free} /\ joinLock \in Threads \cup {Free}
  /\ pc \in [Threads -> OpenSteps \cup OperatorSteps \cup ShutdownSteps
                        \cup {"closed", "not found"}]
  /\ control \in Seq({"Close", "Stop"})
  /\ deadline \in {"none", "set", "due"}
  /\ supervisor \in {"none", "watch", "join", "publish", "ended"}
  /\ reader \in {"none", "read", "ended"}
  /\ child \in {"none", "running", "exited 0", "exited 1", "reaped 0", "reaped 1"}
  /\ phase \in {"start", "connecting", "serving", "failing", "leaving"}
  /\ stdin \in Seq(Commands) /\ stdout \in Seq(Output)
  /\ Len(stdin) <= PipeCap /\ Len(stdout) <= PipeCap + 1
  /\ LocksOwned

Init ==
  /\ state = InitState /\ registered = FALSE /\ dropping = FALSE
  /\ pc = [t \in Threads |-> IF t = Opener THEN "open" ELSE "idle"]
  /\ slotLock = Free /\ slot = FALSE /\ opLock = Free
  /\ inputLock = Free /\ input = FALSE
  /\ joinLock = Free /\ handle = FALSE
  /\ control = << >> /\ deadline = "none"
  /\ supervisor = "none" /\ reader = "none"
  /\ child = "none" /\ phase = "start" /\ lost = FALSE
  /\ stdin = << >> /\ stdout = << >>

Goto(t, step) == pc' = [pc EXCEPT ![t] = step]

(* mpsc send: lost once the supervisor has dropped the receiver. *)
Sent(messages) == IF supervisor = "watch" THEN control \o messages ELSE control

-----------------------------------------------------------------------------
(* rdp_open. *)

OpenInsert ==
  /\ pc[Opener] = "open"
  /\ registered' = TRUE
  /\ Goto(Opener, "spawn")
  /\ UNCHANGED <<state, dropping, slotLock, slot, opLock, workerVars, control, deadline,
                 supervisor, reader, childVars, stdin, stdout>>

(* WorkerProcess::spawn: the process, its reader and its supervisor. *)
Spawn ==
  /\ pc[Opener] = "spawn"
  /\ Goto(Opener, "check")
  /\ input' = TRUE /\ handle' = TRUE
  /\ supervisor' = "watch" /\ reader' = "read" /\ child' = "running"
  /\ UNCHANGED <<sessionVars, inputLock, joinLock, control, deadline, phase,
                 lost, stdin, stdout>>

SpawnFails ==
  /\ pc[Opener] = "spawn"
  /\ Goto(Opener, "remove")
  /\ UNCHANGED <<sessionVars, workerVars, control, deadline, supervisor, reader,
                 childVars, stdin, stdout>>

(* Session::connect, without taking the slot's lock for the check. *)
CheckSlotUnlocked ==
  /\ pc[Opener] = "check"
  /\ Goto(Opener, IF state.disconnected THEN "close" ELSE "store")
  /\ dropping' = state.disconnected
  /\ UNCHANGED <<state, registered, slotLock, slot, opLock, workerVars, control, deadline, supervisor, reader,
                 childVars, stdin, stdout>>

(* Session::connect locks the slot and looks whether the session was       *)
(* closed meanwhile; if so it drops the worker, which shuts it down.       *)
CheckSlot ==
  /\ pc[Opener] = "check" /\ slotLock = Free
  /\ IF state.disconnected
     THEN Goto(Opener, "close") /\ UNCHANGED slotLock
     ELSE Goto(Opener, "store") /\ slotLock' = Opener
  /\ dropping' = state.disconnected
  /\ UNCHANGED <<state, registered, slot, opLock, workerVars, control, deadline,
                 supervisor, reader, childVars, stdin, stdout>>

Store ==
  /\ pc[Opener] = "store"
  /\ slot' = TRUE /\ slotLock' = Free
  /\ Goto(Opener, "send")
  /\ UNCHANGED <<state, registered, dropping, opLock, workerVars, control, deadline,
                 supervisor, reader, childVars, stdin, stdout>>

(* wait_connected returns, or its deadline passes first. *)
AwaitReturns ==
  /\ pc[Opener] = "await"
  /\ state.connected \/ state.error # NoError \/ state.disconnected
  /\ Goto(Opener, IF CheckConnected(state) THEN "connected" ELSE "remove")
  /\ UNCHANGED <<sessionVars, workerVars, control, deadline, supervisor, reader,
                 childVars, stdin, stdout>>

WaitsForEver == FALSE

AwaitTimesOut ==
  /\ pc[Opener] = "await"
  /\ ~state.connected /\ state.error = NoError /\ ~state.disconnected
  /\ Goto(Opener, "remove")
  /\ UNCHANGED <<sessionVars, workerVars, control, deadline, supervisor, reader,
                 childVars, stdin, stdout>>

(* A failed open takes its entry out of the registry, then shuts down. *)
OpenRemove ==
  /\ pc[Opener] = "remove"
  /\ registered' = FALSE
  /\ Goto(Opener, "stop")
  /\ UNCHANGED <<state, dropping, slotLock, slot, opLock, workerVars, control, deadline,
                 supervisor, reader, childVars, stdin, stdout>>

-----------------------------------------------------------------------------
(* WorkerProcess::send, for the connect command and for input. *)

(* Only a connect command can reach MAX_COMMAND: its strings are the       *)
(* caller's.                                                               *)
ConnectTooLarge ==
  /\ pc[Opener] = "send"
  /\ Goto(Opener, "remove")
  /\ UNCHANGED <<sessionVars, workerVars, control, deadline, supervisor, reader,
                 childVars, stdin, stdout>>

SendLock(t) ==
  /\ pc[t] = "send" /\ inputLock = Free
  /\ inputLock' = t
  /\ Goto(t, "write")
  /\ UNCHANGED <<sessionVars, input, joinLock, handle, control, deadline,
                 supervisor, reader, childVars, stdin, stdout>>

Room == Len(stdin) < PipeCap
ReadEnd == child = "running"  \* the worker still holds its end of the pipe

(* write_all of a connect command that is longer than the pipe: the rest   *)
(* goes in when the worker has read what fitted.  No deadline is armed.    *)
SendPart ==
  /\ pc[Opener] = "write" /\ input /\ ReadEnd /\ Room
  /\ stdin' = Append(stdin, "part")
  /\ Goto(Opener, "rest")
  /\ UNCHANGED <<sessionVars, workerVars, control, deadline, supervisor, reader,
                 childVars, stdout>>

(* write_all returns once the pipe has room. *)
SendWrites(t) ==
  /\ pc[t] \in {"write", "rest"} /\ input /\ ReadEnd /\ Room
  /\ stdin' = Append(stdin, IF t = Opener THEN "connect" ELSE "input")
  /\ inputLock' = Free
  /\ Goto(t, IF t = Opener THEN "await" ELSE "idle")
  /\ opLock' = IF t = Opener THEN opLock ELSE Free
  /\ UNCHANGED <<state, registered, dropping, slotLock, slot, input, joinLock, handle,
                 control, deadline, supervisor, reader, childVars, stdout>>

(* The input is gone, or the worker is: a broken pipe. *)
SendFails(t) ==
  /\ pc[t] \in {"write", "rest"} /\ (~input \/ ~ReadEnd)
  /\ inputLock' = Free
  /\ Goto(t, IF t = Opener THEN "remove" ELSE "failed")
  /\ UNCHANGED <<sessionVars, input, joinLock, handle, control, deadline,
                 supervisor, reader, childVars, stdin, stdout>>

-----------------------------------------------------------------------------
(* Input operations: with_session and Session::command.  The session was   *)
(* fetched from the registry at some earlier time.  The operation is one   *)
(* command; the checks of with_session and of command are one, the later.  *)

OperationStarts(t) ==
  /\ pc[t] = "idle" /\ opLock = Free /\ CheckConnected(state)
  /\ opLock' = t
  /\ Goto(t, "clone")
  /\ UNCHANGED <<state, registered, dropping, slotLock, slot, workerVars, control, deadline,
                 supervisor, reader, childVars, stdin, stdout>>

(* The worker handle is cloned out of its slot, if it is still there. *)
CloneSlot(t) ==
  /\ pc[t] = "clone" /\ slotLock = Free
  /\ IF slot THEN Goto(t, "send") /\ UNCHANGED opLock
             ELSE Goto(t, "idle") /\ opLock' = Free
  /\ UNCHANGED <<state, registered, dropping, slotLock, slot, workerVars, control, deadline,
                 supervisor, reader, childVars, stdin, stdout>>

(* A failed write stops the session; it does not stop the worker. *)
OperationFails(t) ==
  /\ pc[t] = "failed"
  /\ state' = Stop(state, "write")
  /\ opLock' = Free
  /\ Goto(t, "idle")
  /\ UNCHANGED <<registered, dropping, slotLock, slot, workerVars, control, deadline,
                 supervisor, reader, childVars, stdin, stdout>>

-----------------------------------------------------------------------------
(* rdp_close, and the shutdown it shares with a failed rdp_open. *)

CloseRemove(t) ==
  /\ pc[t] = "idle" /\ pc[Opener] # "open"
  /\ registered' = FALSE
  /\ Goto(t, IF registered THEN "stop" ELSE "not found")
  /\ UNCHANGED <<state, dropping, slotLock, slot, opLock, workerVars, control, deadline,
                 supervisor, reader, childVars, stdin, stdout>>

(* Session::shutdown: stop the state, take the worker, shut it down. *)
ShutdownStops(t) ==
  /\ pc[t] = "stop"
  /\ state' = Stop(state, NoError)
  /\ Goto(t, "take")
  /\ UNCHANGED <<registered, dropping, slotLock, slot, opLock, workerVars, control, deadline,
                 supervisor, reader, childVars, stdin, stdout>>

TakeSlotLeaves(t) ==
  /\ pc[t] = "take" /\ slotLock = Free
  /\ slot' = FALSE
  /\ Goto(t, "closed")
  /\ UNCHANGED <<state, registered, dropping, slotLock, opLock, workerVars, control, deadline,
                 supervisor, reader, childVars, stdin, stdout>>

TakeSlot(t) ==
  /\ pc[t] = "take" /\ slotLock = Free
  /\ slot' = FALSE
  /\ Goto(t, IF slot THEN "close" ELSE "closed")
  /\ UNCHANGED <<state, registered, dropping, slotLock, opLock, workerVars, control, deadline,
                 supervisor, reader, childVars, stdin, stdout>>

CloseForgotten(t) ==
  /\ pc[t] = "close"
  /\ Goto(t, "try")
  /\ UNCHANGED <<sessionVars, workerVars, control, deadline, supervisor, reader,
                 childVars, stdin, stdout>>

(* WorkerProcess::shutdown.  First the supervisor's deadline. *)
RequestClose(t) ==
  /\ pc[t] = "close"
  /\ control' = Sent(<<"Close">>)
  /\ Goto(t, "try")
  /\ UNCHANGED <<sessionVars, workerVars, deadline, supervisor, reader, childVars,
                 stdin, stdout>>

(* Then try_lock the input: a blocked writer may hold it. *)
TryInput(t) ==
  /\ pc[t] = "try"
  /\ IF inputLock = Free /\ input
     THEN inputLock' = t /\ Goto(t, "farewell")
     ELSE UNCHANGED inputLock /\ Goto(t, "acquire")
  /\ UNCHANGED <<sessionVars, input, joinLock, handle, control, deadline,
                 supervisor, reader, childVars, stdin, stdout>>

(* The disconnect command; its write may block, and its failure is ignored. *)
Farewell(t) ==
  /\ pc[t] = "farewell"
  /\ \/ ReadEnd /\ Room /\ stdin' = Append(stdin, "disconnect")
     \/ ~ReadEnd /\ UNCHANGED stdin
  /\ inputLock' = Free
  /\ Goto(t, "acquire")
  /\ UNCHANGED <<sessionVars, input, joinLock, handle, control, deadline,
                 supervisor, reader, childVars, stdout>>

(* Take the supervisor's mutex, and the handle if it is still there. *)
AcquireHandle(t) ==
  /\ pc[t] = "acquire" /\ joinLock = Free
  /\ joinLock' = t
  /\ Goto(t, IF handle THEN "join" ELSE "drop")
  /\ handle' = FALSE
  /\ UNCHANGED <<sessionVars, inputLock, input, control, deadline, supervisor,
                 reader, childVars, stdin, stdout>>

(* Join the supervisor; its mutex stays locked. *)
Join(t) ==
  /\ pc[t] = "join" /\ supervisor = "ended"
  /\ Goto(t, "drop")
  /\ UNCHANGED <<sessionVars, workerVars, control, deadline, supervisor, reader,
                 childVars, stdin, stdout>>

(* Wait for the input and close it, still under the supervisor's mutex,    *)
(* which is released at the end.  An rdp_open whose worker was never       *)
(* stored goes on to remove its entry; every other shutdown is over.       *)
DropInput(t) ==
  /\ pc[t] = "drop" /\ inputLock = Free
  /\ input' = FALSE /\ joinLock' = Free
  /\ Goto(t, IF t = Opener /\ dropping THEN "remove" ELSE "closed")
  /\ dropping' = IF t = Opener THEN FALSE ELSE dropping
  /\ UNCHANGED <<state, registered, slotLock, slot, opLock, inputLock, handle, control, deadline,
                 supervisor, reader, childVars, stdin, stdout>>

-----------------------------------------------------------------------------
(* The supervisor thread. *)

Deliver(ev) == state' = HandleNativeOutput(state, ev)

Alive == child = "running"

(* The deadline: CLOSE_TIMEOUT after the first Close the supervisor saw. *)
DeadlinePasses ==
  /\ deadline = "set"
  /\ deadline' = "due"
  /\ UNCHANGED <<sessionVars, pc, workerVars, control, supervisor, reader,
                 childVars, stdin, stdout>>

(* try_wait finds that the worker has exited by itself. *)
SupervisorReaps ==
  /\ supervisor = "watch" /\ child \in {"exited 0", "exited 1"}
  /\ child' = IF child = "exited 0" THEN "reaped 0" ELSE "reaped 1"
  /\ supervisor' = "join"
  /\ UNCHANGED <<sessionVars, pc, workerVars, control, deadline, reader, phase,
                 lost, stdin, stdout>>

(* What ends with the process: its command loop and the pipe it read. *)
Dies == phase' = "start" /\ lost' = FALSE /\ stdin' = << >>

(* kill and wait.  A worker killed while it writes cuts its last message.  *)
Kill ==
  /\ Dies
  /\ child' = CASE child = "exited 0" -> "reaped 0"
                [] OTHER -> "reaped 1"
  /\ \/ UNCHANGED stdout
     \/ Alive /\ stdout' = Append(stdout, Truncated)
  /\ supervisor' = "join"

SupervisorTimesOut ==
  /\ supervisor = "watch" /\ deadline = "due"
  /\ Kill
  /\ UNCHANGED <<sessionVars, pc, workerVars, control, deadline, reader>>

SupervisorStops ==
  /\ supervisor = "watch" /\ control # << >> /\ Head(control) = "Stop"
  /\ control' = Tail(control)
  /\ Kill
  /\ UNCHANGED <<sessionVars, pc, workerVars, deadline, reader>>

(* Close starts the deadline unless it runs already (get_or_insert). *)
SupervisorArms ==
  /\ supervisor = "watch" /\ control # << >> /\ Head(control) = "Close"
  /\ control' = Tail(control)
  /\ deadline' = IF deadline = "none" THEN "set" ELSE deadline
  /\ UNCHANGED <<sessionVars, pc, workerVars, supervisor, reader, childVars,
                 stdin, stdout>>

SupervisorSkipsJoin ==
  /\ supervisor = "join"
  /\ supervisor' = "publish"
  /\ UNCHANGED <<sessionVars, pc, workerVars, control, deadline, reader, childVars,
                 stdin, stdout>>

SupervisorJoinsReader ==
  /\ supervisor = "join" /\ reader = "ended"
  /\ supervisor' = "publish"
  /\ UNCHANGED <<sessionVars, pc, workerVars, control, deadline, reader, childVars,
                 stdin, stdout>>

(* The terminal event, with the exit status as its cause. *)
SupervisorPublishes ==
  /\ supervisor = "publish"
  /\ Deliver(DisconnectedEvent(IF child = "reaped 0" THEN NoError ELSE "exit"))
  /\ supervisor' = "ended"
  /\ UNCHANGED <<registered, dropping, slotLock, slot, opLock, pc, workerVars,
                 control, deadline, reader, childVars, stdin, stdout>>

-----------------------------------------------------------------------------
(* The reader thread: read_events.  A handled event and the control        *)
(* message that follows it are one step: a later send is a later receipt.  *)

ControlForIgnoresErrors(ev) == IF ev.kind = "DISCONNECTED" THEN <<"Stop">> ELSE << >>

ControlFor(ev) == IF ev.kind = "DISCONNECTED" THEN <<"Stop">>
                  ELSE IF ev.kind = "ERROR" THEN <<"Close">> ELSE << >>

ReadEvent ==
  /\ reader = "read" /\ stdout # << >> /\ Head(stdout) # Truncated
  /\ stdout' = Tail(stdout)
  /\ Deliver(Head(stdout))
  /\ control' = Sent(ControlFor(Head(stdout)))
  /\ UNCHANGED <<registered, dropping, slotLock, slot, opLock, pc, workerVars,
                 deadline, supervisor, reader, childVars, stdin>>

(* The stream breaks off inside a message. *)
ReadFails ==
  /\ reader = "read" /\ stdout # << >> /\ Head(stdout) = Truncated
  /\ stdout' = Tail(stdout)
  /\ Deliver(ErrorEvent)
  /\ control' = Sent(<<"Stop">>)
  /\ reader' = "ended"
  /\ UNCHANGED <<registered, dropping, slotLock, slot, opLock, pc, workerVars,
                 deadline, supervisor, childVars, stdin>>

ReadEof ==
  /\ reader = "read" /\ stdout = << >> /\ ~Alive
  /\ control' = Sent(<<"Stop">>)
  /\ reader' = "ended"
  /\ UNCHANGED <<sessionVars, pc, workerVars, deadline, supervisor, childVars,
                 stdin, stdout>>

-----------------------------------------------------------------------------
(* The worker process: run().  Its native calls may block for ever.        *)

NextCommand(c) == Alive /\ stdin # << >> /\ Head(stdin) = c
CanEmit == Len(stdout) < PipeCap
parentVars == <<sessionVars, pc, workerVars, control, deadline, supervisor, reader>>

(* The command loop reads on until the line is complete. *)
WorkerReadsPart ==
  /\ NextCommand("part") /\ phase = "start"
  /\ stdin' = Tail(stdin)
  /\ UNCHANGED <<parentVars, childVars, stdout>>

WorkerConnects ==
  /\ NextCommand("connect") /\ phase = "start"
  /\ stdin' = Tail(stdin)
  /\ phase' = "connecting"
  /\ UNCHANGED <<parentVars, child, lost, stdout>>

WorkerReady ==
  /\ Alive /\ phase = "connecting" /\ CanEmit
  /\ stdout' = Append(stdout, ReadyEvent)
  /\ phase' = "serving"
  /\ UNCHANGED <<parentVars, child, lost, stdin>>

WorkerServes ==
  /\ NextCommand("input") /\ phase = "serving"
  /\ stdin' = Tail(stdin)
  /\ UNCHANGED <<parentVars, childVars, stdout>>

(* The native command fails: MSG_ERROR, then run() returns its error. *)
WorkerFails ==
  /\ CanEmit
  /\ \/ Alive /\ phase = "connecting" /\ UNCHANGED stdin
     \/ NextCommand("input") /\ phase = "serving" /\ stdin' = Tail(stdin)
  /\ stdout' = Append(stdout, ErrorEvent)
  /\ phase' = "failing"
  /\ UNCHANGED <<parentVars, child, lost>>

WorkerLeaves ==
  /\ NextCommand("disconnect") /\ phase \in {"start", "serving"}
  /\ stdin' = Tail(stdin)
  /\ phase' = "leaving"
  /\ UNCHANGED <<parentVars, child, lost, stdout>>

(* Native shutdown has finished: the process exits. *)
WorkerExits ==
  /\ Alive /\ phase \in {"failing", "leaving"}
  /\ child' = IF phase = "leaving" THEN "exited 0" ELSE "exited 1"
  /\ Dies
  /\ UNCHANGED <<parentVars, stdout>>

(* The native event loop sees the remote side go, perhaps before READY. *)
SessionLost ==
  /\ Alive /\ phase \in {"connecting", "serving"} /\ ~lost /\ CanEmit
  /\ lost' = TRUE
  /\ stdout' = Append(stdout, DisconnectedEvent(NoError))
  /\ UNCHANGED <<parentVars, child, phase, stdin>>

WorkerCrashes ==
  /\ Alive
  /\ child' = "exited 1"
  /\ \/ UNCHANGED stdout \/ stdout' = Append(stdout, Truncated)
  /\ Dies
  /\ UNCHANGED parentVars

-----------------------------------------------------------------------------
ShutdownStep(t) == \/ ShutdownStops(t) \/ TakeSlot(t) \/ RequestClose(t)
                   \/ TryInput(t) \/ Farewell(t) \/ AcquireHandle(t)
                   \/ Join(t) \/ DropInput(t)

SendStep(t) == SendLock(t) \/ SendWrites(t) \/ SendFails(t)

OpenStep == \/ OpenInsert \/ Spawn \/ SpawnFails \/ CheckSlot \/ Store
            \/ SendPart \/ SendStep(Opener) \/ AwaitReturns \/ AwaitTimesOut \/ OpenRemove
            \/ ShutdownStep(Opener)

OperatorStep(t) == \/ CloneSlot(t) \/ SendStep(t) \/ OperationFails(t)

SupervisorStep == \/ SupervisorReaps \/ SupervisorTimesOut \/ SupervisorStops
                  \/ SupervisorArms \/ SupervisorJoinsReader \/ SupervisorPublishes

ReaderStep == ReadEvent \/ ReadFails \/ ReadEof

WorkerStep == \/ WorkerReadsPart \/ WorkerConnects \/ WorkerReady \/ WorkerServes \/ WorkerFails
              \/ WorkerLeaves \/ WorkerExits \/ SessionLost \/ WorkerCrashes

Next == \/ OpenStep \/ ConnectTooLarge
        \/ \E t \in Closers : CloseRemove(t) \/ ShutdownStep(t)
        \/ \E t \in Operators : OperationStarts(t) \/ OperatorStep(t)
        \/ SupervisorStep \/ DeadlinePasses
        \/ ReaderStep
        \/ WorkerStep

Spec == Init /\ [][Next]_vars

(* The threads of the server run and its clocks advance.  Nothing is       *)
(* assumed of the worker process, and nobody has to call anything.         *)
Fairness == /\ WF_vars(OpenStep)
            /\ \A t \in Closers : WF_vars(ShutdownStep(t))
            /\ \A t \in Operators : WF_vars(OperatorStep(t))
            /\ WF_vars(SupervisorStep) /\ WF_vars(DeadlinePasses)
            /\ WF_vars(ReaderStep)

FairSpec == Spec /\ Fairness

-----------------------------------------------------------------------------
(* Properties. *)

Gone == child \in {"none", "reaped 0", "reaped 1"}
Closed == \E t \in Closers : pc[t] = "closed"

(* Who still refers to the WorkerProcess: the session's slot, an rdp_open  *)
(* that has not stored it, a sender's clone, or a shutdown under way.      *)
Holds(t) == pc[t] \in {"check", "store", "send", "write", "rest", "close", "try",
                       "farewell", "acquire", "join", "drop"}
WorkerHeld == slot \/ \E t \in Threads : Holds(t)

(* No orphan: once nothing refers to the worker any more, its process has  *)
(* been reaped, its supervisor joined and its input closed, so the shutdown *)
(* that Drop repeats on the last reference finds nothing left to do.  And   *)
(* after an rdp_close or a failed rdp_open the session holds no worker,     *)
(* even when the close came before the open had stored it.                  *)
NoOrphan ==
  /\ ~WorkerHeld => Gone /\ ~handle /\ ~input /\ supervisor \in {"none", "ended"}
  /\ Closed \/ pc[Opener] = "closed" => ~slot

(* After a close has returned, the credentials of a connect that it        *)
(* overtook are never written to the worker; nor is the input of an        *)
(* operation under way, unless a failed rdp_open took the worker first and *)
(* is still shutting it down.                                              *)
NothingSentAfterClose ==
  [][Closed => /\ stdin' \notin {Append(stdin, "part"), Append(stdin, "connect")}
               /\ stdin' = Append(stdin, "input") => pc[Opener] \in ShutdownSteps]_vars

(* The terminal event is the last one: when the supervisor publishes it,   *)
(* the worker is reaped and every event it wrote has been delivered.       *)
TerminalEventIsLast ==
  supervisor \in {"publish", "ended"} => reader = "ended" /\ stdout = << >> /\ Gone

(* rdp_close returns although the worker may hang, its input pipe may be   *)
(* full and another thread may be blocked writing to it.                   *)
CloseReturns == \A t \in Closers : pc[t] = "stop" ~> pc[t] = "closed"

(* rdp_open waits to write the rest of its connect command to a worker     *)
(* that does not read, and nobody has asked for a deadline.                *)
WriteHangs == pc[Opener] = "rest" /\ Alive /\ ~Room /\ deadline = "none"

(* rdp_open returns, connected or failed, unless it hangs in that write    *)
(* for ever: its own timeout of 30 seconds only begins afterwards.         *)
OpenReturns ==
  []<>~WriteHangs => (pc[Opener] # "open" ~> pc[Opener] \in {"connected", "closed"})

(* A worker that reports an error or dies is reaped and its session shown  *)
(* as disconnected, without anybody calling rdp_close.                     *)
FailureIsNoticed ==
  (state.error = "native" \/ (~Alive /\ child # "none")) ~> (Gone /\ state.disconnected)
-----------------------------------------------------------------------------
(* A statement of the documentation that the code does not keep in every   *)
(* case (see the README).                                                  *)

(* "Opening a connection waits up to 30 seconds" (README.md:27): rdp_open  *)
(* returns whatever the worker does.  A connect command longer than the    *)
(* pipe, written to a worker that does not read, has no timeout.           *)
OpenAlwaysReturns == pc[Opener] # "open" ~> pc[Opener] \in {"connected", "closed"}
=============================================================================
