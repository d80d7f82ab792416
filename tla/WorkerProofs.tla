---------------------------- MODULE WorkerProofs ----------------------------
(***************************************************************************)
(* Theorems about WorkerLifecycle, for any number of rdp_close calls and   *)
(* of input operations, any pipe capacity, and a worker that may hang,     *)
(* crash or stop reading at any moment.                                    *)
(***************************************************************************)
EXTENDS WorkerLifecycle, TLAPS

-----------------------------------------------------------------------------
(* The inductive invariant, in named parts. *)

(* WorkerProcess::shutdown, from the Close message to the dropped input. *)
WorkerShutdown == {"close", "try", "farewell", "acquire", "join", "drop"}

(* Who runs what. *)
Steps ==
  /\ pc[Opener] \in OpenSteps \cup ShutdownSteps \cup {"closed"}
  /\ \A t \in Closers : pc[t] \in {"idle", "not found", "closed"} \cup ShutdownSteps
  /\ \A t \in Operators : pc[t] \in OperatorSteps

(* The supervisor's progress against the process and the reader. *)
Process ==
  /\ supervisor = "none" <=> child = "none"
  /\ reader = "none" <=> child = "none"
  /\ supervisor = "watch" => child \in {"running", "exited 0", "exited 1"}
  /\ supervisor \in {"join", "publish", "ended"} => child \in {"reaped 0", "reaped 1"}
  /\ supervisor \in {"publish", "ended"} => reader = "ended"

(* A message cut off is the last of the stream, and its writer is dead;    *)
(* the reader ends after the writer, with the pipe empty.                  *)
Stream ==
  /\ Alive => Len(stdout) <= PipeCap
  /\ \A i \in 1..Len(stdout) : stdout[i] = Truncated => i = Len(stdout) /\ ~Alive
  /\ reader = "ended" => ~Alive /\ stdout = << >>

(* Before the spawn there is nothing to hold. *)
Unborn ==
  /\ child = "none" => ~handle /\ ~input /\ ~slot /\ stdout = << >>
  /\ pc[Opener] \in {"open", "spawn"} => child = "none"
  /\ \A t \in Threads : Holds(t) => child # "none"

(* The worker's input stays open only for somebody who will close it, and  *)
(* it is closed only after the supervisor has been joined.                 *)
Owned ==
  /\ input => \/ slot \/ pc[Opener] \in {"check", "store"}
              \/ \E t \in Threads : pc[t] \in WorkerShutdown
  /\ child # "none" /\ ~input => ~handle /\ supervisor = "ended"
  /\ child # "none" /\ ~handle /\ joinLock = Free => supervisor = "ended"
  /\ \A t \in Threads : pc[t] = "join" => ~handle
  /\ \A t \in Threads : pc[t] = "drop" => ~handle /\ supervisor = "ended"

(* Once a shutdown has taken the slot it stays empty: the flag that        *)
(* rdp_open checks under the slot's lock was set before.                   *)
Taken ==
  /\ pc[Opener] \in {"open", "spawn", "check", "store"} => ~slot
  /\ \A t \in Threads :
       /\ pc[t] \in WorkerShutdown \cup {"take", "closed"} => state.disconnected
       /\ pc[t] \in WorkerShutdown \cup {"closed"} => ~slot /\ pc[Opener] # "store"

(* The registry hands a session to one rdp_close only, and an operation    *)
(* holds a worker only after rdp_open has stored it.                       *)
OneCloser ==
  /\ pc[Opener] = "open" => \A t \in Closers : pc[t] = "idle"
  /\ registered => \A t \in Closers : pc[t] \notin ShutdownSteps \cup {"closed"}
  /\ \A t, u \in Closers :
       pc[t] \in ShutdownSteps \cup {"closed"} /\ pc[u] \in ShutdownSteps \cup {"closed"}
         => t = u
  /\ \A t \in Operators : pc[t] \in {"send", "write"} =>
       pc[Opener] \notin {"open", "spawn", "check", "store"}

-----------------------------------------------------------------------------
(* Who may take which step, and what the steps outside the server's calls  *)
(* leave alone.                                                            *)

(* The calls are threads, and no call is of two kinds. *)
LEMMA ThreadKinds ==
  /\ Opener \in Threads /\ Closers \subseteq Threads /\ Operators \subseteq Threads
  /\ Opener \notin Closers /\ Opener \notin Operators
  /\ \A t \in Closers : t \notin Operators
  /\ Free \notin Threads
  BY ThreadsAssumption DEF Threads

(* A step of one of the server's calls. *)
CallStep ==
  \/ OpenInsert \/ Spawn \/ SpawnFails \/ CheckSlot \/ Store
  \/ AwaitReturns \/ AwaitTimesOut \/ OpenRemove \/ ConnectTooLarge \/ SendPart
  \/ \E t \in Threads \ Closers : SendStep(t)
  \/ \E t \in Threads \ Operators : ShutdownStep(t)
  \/ \E t \in Closers : CloseRemove(t)
  \/ \E t \in Operators : OperationStarts(t) \/ CloneSlot(t) \/ OperationFails(t)

(* A step of the supervisor, of the clock or of the reader. *)
WatchStep == SupervisorStep \/ DeadlinePasses \/ ReaderStep

(* The steps by who takes them. *)
LEMMA StepKinds == Next => CallStep \/ WatchStep \/ WorkerStep
  BY ThreadKinds DEF Next, OpenStep, OperatorStep, CallStep, WatchStep

(* The worker process changes nothing of the server's. *)
LEMMA WorkerFrame == WorkerStep => UNCHANGED parentVars
  BY DEF WorkerStep, WorkerReadsPart, WorkerConnects, WorkerReady, WorkerServes, WorkerFails,
         WorkerLeaves, WorkerExits, SessionLost, WorkerCrashes, childVars

(* The supervisor and the reader move no call, lock, slot or handle. *)
LEMMA WatchFrame ==
  WatchStep => UNCHANGED <<registered, dropping, slotLock, slot, opLock, pc, workerVars>>
  BY DEF WatchStep, SupervisorStep, ReaderStep, SupervisorReaps, SupervisorTimesOut,
         SupervisorStops, SupervisorArms, SupervisorJoinsReader, SupervisorPublishes,
         DeadlinePasses, ReadEvent, ReadFails, ReadEof, sessionVars

(* Stop sets the flag and keeps the type. *)
LEMMA StopSets ==
  ASSUME NEW s \in State, NEW cause \in Cause \cup {NoError}
  PROVE  Stop(s, cause) \in State /\ Stop(s, cause).disconnected
<1>1. << >> \in Seq(Pixel)
  OBVIOUS
<1> QED
  BY <1>1 DEF Stop, State

(* No worker event clears the flag, and each keeps the type. *)
LEMMA EventKeeps ==
  ASSUME NEW s \in State,
         NEW ev \in {ReadyEvent, ErrorEvent} \cup
                    {DisconnectedEvent(c) : c \in Cause \cup {NoError}}
  PROVE  /\ HandleNativeOutput(s, ev) \in State
         /\ s.disconnected => HandleNativeOutput(s, ev).disconnected
<1>1. CASE ev = ReadyEvent
  BY <1>1 DEF ReadyEvent, HandleNativeOutput, Ignores, Dispatch, OnReady, State
<1>2. CASE ev = ErrorEvent
  BY <1>2 DEF ErrorEvent, HandleNativeOutput, Ignores, Dispatch, OnError, State, Cause
<1>3. ASSUME NEW c \in Cause \cup {NoError}, ev = DisconnectedEvent(c)
      PROVE  HandleNativeOutput(s, ev) = Stop(s, c)
  BY <1>3 DEF DisconnectedEvent, HandleNativeOutput, Ignores
<1> QED
  BY <1>1, <1>2, <1>3, StopSets

(* What the steps of the calls have in common.  They touch the process and *)
(* its threads only to spawn them, send the supervisor nothing but Close,  *)
(* and write to the worker only where the pipe has room.                   *)
LEMMA CallFrame ==
  ASSUME CallStep
  PROVE  /\ Spawn \/ UNCHANGED <<supervisor, reader, childVars, stdout>>
         /\ UNCHANGED deadline
         /\ UNCHANGED control \/ control' = Sent(<<"Close">>)
         /\ UNCHANGED stdin \/ (Room /\ \E c \in Commands : stdin' = Append(stdin, c))
         /\ \E t \in Threads : \E s : Goto(t, s)
<1>1. UNCHANGED stdin \/ (Room /\ \E c \in Commands : stdin' = Append(stdin, c))
  <2>1. "part" \in Commands /\ "connect" \in Commands /\ "input" \in Commands /\ "disconnect" \in Commands
    BY DEF Commands
  <2>2. ASSUME NEW t \in Threads, SendWrites(t)
        PROVE  Room /\ \E c \in Commands : stdin' = Append(stdin, c)
    BY <2>1, <2>2 DEF SendWrites
  <2>3. ASSUME NEW t \in Threads, Farewell(t)
        PROVE  UNCHANGED stdin \/ (Room /\ \E c \in Commands : stdin' = Append(stdin, c))
    BY <2>1, <2>3 DEF Farewell
  <2>5. CASE SendPart
    BY <2>1, <2>5 DEF SendPart
  <2>4. CASE ~SendPart /\ ~ \E t \in Threads : SendWrites(t) \/ Farewell(t)
    BY <2>4, ThreadKinds
       DEF CallStep, SendStep, ShutdownStep, OpenInsert, Spawn, SpawnFails, CheckSlot,
           Store, AwaitReturns, AwaitTimesOut, OpenRemove, ConnectTooLarge, SendPart, SendLock,
           SendFails, ShutdownStops, TakeSlot, RequestClose, TryInput, AcquireHandle,
           Join, DropInput, CloseRemove, OperationStarts, CloneSlot, OperationFails
  <2> QED
    BY <2>2, <2>3, <2>4, <2>5
<1> USE DEF CallStep, SendStep, ShutdownStep, OpenInsert, Spawn, SpawnFails, CheckSlot,
            Store, AwaitReturns, AwaitTimesOut, OpenRemove, ConnectTooLarge, SendPart, SendLock,
            SendWrites, SendFails, ShutdownStops, TakeSlot, RequestClose, TryInput,
            Farewell, AcquireHandle, Join, DropInput, CloseRemove, OperationStarts,
            CloneSlot, OperationFails
<1>2. Spawn \/ UNCHANGED <<supervisor, reader, childVars, stdout>>
  OBVIOUS
<1>3. UNCHANGED deadline
  OBVIOUS
<1>4. UNCHANGED control \/ control' = Sent(<<"Close">>)
  OBVIOUS
<1>5. \E t \in Threads : \E s : Goto(t, s)
  BY ThreadKinds
<1> QED
  BY <1>1, <1>2, <1>3, <1>4, <1>5

(* Where each call is, as the provers need it. *)
LEMMA PcFunction == TypeOK => pc = [t \in Threads |-> pc[t]] /\ LocksOwned
  BY DEF TypeOK

(* The supervisor reaps before it joins the reader, and joins before it    *)
(* publishes.                                                              *)
LEMMA ProcessNext == TypeOK /\ Process /\ Unborn /\ [Next]_vars => Process'
<1> SUFFICES ASSUME TypeOK, Process, Unborn, [Next]_vars PROVE Process'
  OBVIOUS
<1> USE DEF Process
<1>1. CASE Spawn
  BY <1>1 DEF Spawn
<1>2. CASE CallStep /\ ~Spawn
  BY <1>2, CallFrame DEF childVars
<1>3. CASE SupervisorReaps
  BY <1>3 DEF SupervisorReaps
<1>4. CASE SupervisorTimesOut
  BY <1>4 DEF SupervisorTimesOut, Kill
<1>5. CASE SupervisorStops
  BY <1>5 DEF SupervisorStops, Kill
<1>6. CASE SupervisorArms
  BY <1>6 DEF SupervisorArms, childVars
<1>7. CASE SupervisorJoinsReader
  BY <1>7 DEF SupervisorJoinsReader, childVars
<1>8. CASE SupervisorPublishes
  BY <1>8 DEF SupervisorPublishes, childVars
<1>9. CASE DeadlinePasses
  BY <1>9 DEF DeadlinePasses, childVars
<1>10. CASE ReadEvent
  BY <1>10 DEF ReadEvent, childVars
<1>11. CASE ReadFails
  BY <1>11 DEF ReadFails, childVars
<1>12. CASE ReadEof
  BY <1>12 DEF ReadEof, childVars
<1>13. CASE WorkerExits
  BY <1>13, WorkerFrame DEF WorkerStep, WorkerExits, Alive, parentVars
<1>14. CASE WorkerCrashes
  BY <1>14, WorkerFrame DEF WorkerStep, WorkerCrashes, Alive, parentVars
<1>15. CASE WorkerStep /\ ~WorkerExits /\ ~WorkerCrashes
  <2>1. UNCHANGED child
    BY <1>15 DEF WorkerStep, WorkerReadsPart, WorkerConnects, WorkerReady, WorkerServes, WorkerFails,
                 WorkerLeaves, SessionLost, childVars
  <2> QED
    BY <1>15, <2>1, WorkerFrame DEF parentVars
<1>16. CASE UNCHANGED vars
  BY <1>16 DEF vars, childVars
<1> QED
  BY <1>1, <1>2, <1>3, <1>4, <1>5, <1>6, <1>7, <1>8, <1>9, <1>10, <1>11, <1>12,
     <1>13, <1>14, <1>15, <1>16, StepKinds DEF WatchStep, SupervisorStep, ReaderStep

(* Reading takes the first message: what is left is the old stream, one    *)
(* place further.                                                          *)
LEMMA TailPlaces ==
  ASSUME NEW s \in Seq(Output), s # << >>
  PROVE  /\ Tail(s) \in Seq(Output) /\ Len(Tail(s)) = Len(s) - 1
         /\ \A i \in 1..Len(Tail(s)) : Tail(s)[i] = s[i + 1]
         /\ Head(s) = s[1] /\ Head(s) \in Output /\ Len(s) \in Nat \ {0}
  OBVIOUS

(* Writing adds one message at the end. *)
LEMMA AppendPlaces ==
  ASSUME NEW s \in Seq(Output), NEW m \in Output
  PROVE  /\ Append(s, m) \in Seq(Output) /\ Len(Append(s, m)) = Len(s) + 1
         /\ \A i \in 1..Len(s) : Append(s, m)[i] = s[i]
         /\ Append(s, m)[Len(s) + 1] = m /\ Len(s) \in Nat
         /\ Append(s, m) # << >>
  OBVIOUS

(* The three messages a worker completes are not the cut-off one. *)
LEMMA Complete ==
  /\ ReadyEvent \in Output /\ ErrorEvent \in Output /\ Truncated \in Output
  /\ DisconnectedEvent(NoError) \in Output
  /\ ReadyEvent # Truncated /\ ErrorEvent # Truncated
  /\ DisconnectedEvent(NoError) # Truncated
  BY DEF Output, ReadyEvent, ErrorEvent, Truncated, DisconnectedEvent

(* Kill and a crash append a cut-off message while the worker is alive and *)
(* leave it dead; the reader has not ended while it was alive.             *)
LEMMA StreamCut ==
  ASSUME TypeOK, Stream, child' # "running", UNCHANGED reader,
         UNCHANGED stdout \/ (Alive /\ stdout' = Append(stdout, Truncated))
  PROVE  Stream'
<1>1. CASE UNCHANGED stdout
  BY <1>1 DEF Stream, Alive
<1>2. CASE Alive /\ stdout' = Append(stdout, Truncated)
  <2>1. stdout \in Seq(Output) /\ reader # "ended"
    BY <1>2 DEF TypeOK, Stream
  <2>2. \A i \in 1..Len(stdout) : stdout'[i] # Truncated
    BY <1>2, <2>1, AppendPlaces, Complete DEF Stream
  <2>3. /\ Len(stdout') = Len(stdout) + 1 /\ Len(stdout) \in Nat
    BY <1>2, <2>1, AppendPlaces, Complete
  <2> QED
    BY <2>1, <2>2, <2>3 DEF Stream, Alive
<1> QED
  BY <1>1, <1>2

(* A complete message from a living worker that found room. *)
LEMMA StreamEmit ==
  ASSUME TypeOK, Stream, Alive, CanEmit, UNCHANGED <<child, reader>>,
         NEW m \in Output, m # Truncated, stdout' = Append(stdout, m)
  PROVE  Stream'
<1>1. stdout \in Seq(Output) /\ reader # "ended"
  BY DEF TypeOK, Stream
<1>2. \A i \in 1..Len(stdout) : stdout'[i] # Truncated
  BY <1>1, AppendPlaces DEF Stream
<1>3. /\ Len(stdout') = Len(stdout) + 1 /\ Len(stdout) \in Nat
      /\ stdout'[Len(stdout) + 1] # Truncated
  BY <1>1, AppendPlaces
<1> QED
  BY <1>1, <1>2, <1>3, PipeCapAssumption DEF Stream, Alive, CanEmit

(* Nothing follows a cut-off message, and the reader ends on it or on the  *)
(* end of the stream.                                                      *)
LEMMA StreamNext == TypeOK /\ Process /\ Unborn /\ Stream /\ [Next]_vars => Stream'
<1> SUFFICES ASSUME TypeOK, Process, Unborn, Stream, [Next]_vars PROVE Stream'
  OBVIOUS
<1>1. CASE Spawn
  BY <1>1, PipeCapAssumption DEF Spawn, Stream, Unborn, Alive
<1>2. CASE UNCHANGED <<child, reader, stdout>>
  BY <1>2 DEF Stream, Alive
<1>3. CASE SupervisorReaps
  BY <1>3, StreamCut DEF SupervisorReaps
<1>4. CASE SupervisorTimesOut \/ SupervisorStops
  <2>1. child' # "running" /\ UNCHANGED reader
    BY <1>4 DEF SupervisorTimesOut, SupervisorStops, Kill
  <2>2. UNCHANGED stdout \/ (Alive /\ stdout' = Append(stdout, Truncated))
    BY <1>4 DEF SupervisorTimesOut, SupervisorStops, Kill
  <2> QED
    BY <2>1, <2>2, StreamCut
<1>5. CASE ReadEvent
  <2>1. /\ reader = "read" /\ stdout \in Seq(Output) /\ stdout # << >>
        /\ stdout' = Tail(stdout) /\ UNCHANGED <<child, reader>>
    BY <1>5 DEF ReadEvent, TypeOK, childVars
  <2> QED
    BY <2>1, TailPlaces, PipeCapAssumption DEF Stream, Alive
<1>6. CASE ReadFails
  <2>1. /\ stdout \in Seq(Output) /\ stdout # << >> /\ Head(stdout) = Truncated
        /\ stdout' = Tail(stdout) /\ UNCHANGED child
    BY <1>6 DEF ReadFails, TypeOK, childVars
  <2>2. stdout[1] = Truncated /\ 1 \in 1..Len(stdout)
    BY <2>1, TailPlaces
  <2>3. Len(stdout) = 1 /\ ~Alive
    BY <2>2 DEF Stream
  <2>4. stdout' = << >>
    BY <2>1, <2>3, TailPlaces
  <2>5. ~Alive' /\ Len(stdout') = 0
    BY <2>1, <2>3, <2>4 DEF Alive
  <2> QED
    BY <2>4, <2>5 DEF Stream
<1>7. CASE ReadEof
  BY <1>7 DEF ReadEof, Stream, Alive, childVars
<1>8. CASE WorkerReady
  BY <1>8, StreamEmit, Complete DEF WorkerReady, parentVars
<1>9. CASE WorkerFails
  <2>1. Alive
    BY <1>9 DEF WorkerFails, NextCommand
  <2> QED
    BY <1>9, <2>1, StreamEmit, Complete DEF WorkerFails, parentVars
<1>10. CASE SessionLost
  BY <1>10, StreamEmit, Complete DEF SessionLost, parentVars
<1>11. CASE WorkerExits
  BY <1>11, StreamCut DEF WorkerExits, parentVars
<1>12. CASE WorkerCrashes
  BY <1>12, StreamCut DEF WorkerCrashes, parentVars
<1>13. CASE WorkerReadsPart \/ WorkerConnects \/ WorkerServes \/ WorkerLeaves
  BY <1>13, <1>2 DEF WorkerReadsPart, WorkerConnects, WorkerServes, WorkerLeaves, parentVars, childVars
<1>14. CASE \/ SupervisorArms \/ SupervisorJoinsReader \/ SupervisorPublishes
            \/ DeadlinePasses
  BY <1>14, <1>2 DEF SupervisorArms, SupervisorJoinsReader, SupervisorPublishes,
                     DeadlinePasses, childVars
<1>15. CASE CallStep
  BY <1>15, <1>1, <1>2, CallFrame DEF childVars
<1>16. CASE UNCHANGED vars
  BY <1>16, <1>2 DEF vars, childVars
<1> QED
  BY <1>3, <1>4, <1>5, <1>6, <1>7, <1>8, <1>9, <1>10, <1>11, <1>12, <1>13, <1>14,
     <1>15, <1>16, StepKinds DEF WatchStep, SupervisorStep, ReaderStep, WorkerStep

(* A call stays in its own program. *)
LEMMA StepsNext == TypeOK /\ Steps /\ [Next]_vars => Steps'
<1> SUFFICES ASSUME TypeOK, Steps, [Next]_vars PROVE Steps'
  OBVIOUS
<1>1. CASE OpenInsert
  BY <1>1, ThreadKinds
     DEF OpenInsert, TypeOK, Steps, Goto, OpenSteps, OperatorSteps,
      ShutdownSteps
<1>2. CASE Spawn
  BY <1>2, ThreadKinds
     DEF Spawn, TypeOK, Steps, Goto, OpenSteps, OperatorSteps, ShutdownSteps
<1>3. CASE SpawnFails
  BY <1>3, ThreadKinds
     DEF SpawnFails, TypeOK, Steps, Goto, OpenSteps, OperatorSteps,
      ShutdownSteps
<1>4. CASE CheckSlot
  BY <1>4, ThreadKinds
     DEF CheckSlot, TypeOK, Steps, Goto, OpenSteps, OperatorSteps,
      ShutdownSteps
<1>5. CASE Store
  BY <1>5, ThreadKinds
     DEF Store, TypeOK, Steps, Goto, OpenSteps, OperatorSteps, ShutdownSteps
<1>6. CASE AwaitReturns
  BY <1>6, ThreadKinds
     DEF AwaitReturns, TypeOK, Steps, Goto, OpenSteps, OperatorSteps,
      ShutdownSteps
<1>7. CASE AwaitTimesOut
  BY <1>7, ThreadKinds
     DEF AwaitTimesOut, TypeOK, Steps, Goto, OpenSteps, OperatorSteps,
      ShutdownSteps
<1>8. CASE OpenRemove
  BY <1>8, ThreadKinds
     DEF OpenRemove, TypeOK, Steps, Goto, OpenSteps, OperatorSteps,
      ShutdownSteps
<1>9. CASE ConnectTooLarge
  BY <1>9, ThreadKinds
     DEF ConnectTooLarge, TypeOK, Steps, Goto, OpenSteps, OperatorSteps,
      ShutdownSteps
<1>10. ASSUME NEW t \in Threads \ Closers, SendLock(t) PROVE Steps'
  BY <1>10, ThreadKinds
     DEF SendLock, TypeOK, Steps, Goto, OpenSteps, OperatorSteps,
      ShutdownSteps
<1>11. ASSUME NEW t \in Threads \ Closers, SendWrites(t) PROVE Steps'
  BY <1>11, ThreadKinds
     DEF SendWrites, TypeOK, Steps, Goto, OpenSteps, OperatorSteps,
      ShutdownSteps
<1>12. ASSUME NEW t \in Threads \ Closers, SendFails(t) PROVE Steps'
  BY <1>12, ThreadKinds
     DEF SendFails, TypeOK, Steps, Goto, OpenSteps, OperatorSteps,
      ShutdownSteps
<1>13. ASSUME NEW t \in Threads \ Operators, ShutdownStops(t) PROVE Steps'
  BY <1>13, ThreadKinds
     DEF ShutdownStops, TypeOK, Steps, Goto, OpenSteps, OperatorSteps,
      ShutdownSteps
<1>14. ASSUME NEW t \in Threads \ Operators, TakeSlot(t) PROVE Steps'
  BY <1>14, ThreadKinds
     DEF TakeSlot, TypeOK, Steps, Goto, OpenSteps, OperatorSteps,
      ShutdownSteps
<1>15. ASSUME NEW t \in Threads \ Operators, RequestClose(t) PROVE Steps'
  BY <1>15, ThreadKinds
     DEF RequestClose, TypeOK, Steps, Goto, OpenSteps, OperatorSteps,
      ShutdownSteps
<1>16. ASSUME NEW t \in Threads \ Operators, TryInput(t) PROVE Steps'
  BY <1>16, ThreadKinds
     DEF TryInput, TypeOK, Steps, Goto, OpenSteps, OperatorSteps,
      ShutdownSteps
<1>17. ASSUME NEW t \in Threads \ Operators, Farewell(t) PROVE Steps'
  BY <1>17, ThreadKinds
     DEF Farewell, TypeOK, Steps, Goto, OpenSteps, OperatorSteps,
      ShutdownSteps
<1>18. ASSUME NEW t \in Threads \ Operators, AcquireHandle(t) PROVE Steps'
  BY <1>18, ThreadKinds
     DEF AcquireHandle, TypeOK, Steps, Goto, OpenSteps, OperatorSteps,
      ShutdownSteps
<1>19. ASSUME NEW t \in Threads \ Operators, Join(t) PROVE Steps'
  BY <1>19, ThreadKinds
     DEF Join, TypeOK, Steps, Goto, OpenSteps, OperatorSteps, ShutdownSteps
<1>20. ASSUME NEW t \in Threads \ Operators, DropInput(t) PROVE Steps'
  BY <1>20, ThreadKinds
     DEF DropInput, TypeOK, Steps, Goto, OpenSteps, OperatorSteps,
      ShutdownSteps
<1>21. ASSUME NEW t \in Closers, CloseRemove(t) PROVE Steps'
  BY <1>21, ThreadKinds
     DEF CloseRemove, TypeOK, Steps, Goto, OpenSteps, OperatorSteps,
      ShutdownSteps
<1>22. ASSUME NEW t \in Operators, OperationStarts(t) PROVE Steps'
  BY <1>22, ThreadKinds
     DEF OperationStarts, TypeOK, Steps, Goto, OpenSteps, OperatorSteps,
      ShutdownSteps
<1>23. ASSUME NEW t \in Operators, CloneSlot(t) PROVE Steps'
  BY <1>23, ThreadKinds
     DEF CloneSlot, TypeOK, Steps, Goto, OpenSteps, OperatorSteps,
      ShutdownSteps
<1>24. ASSUME NEW t \in Operators, OperationFails(t) PROVE Steps'
  BY <1>24, ThreadKinds
     DEF OperationFails, TypeOK, Steps, Goto, OpenSteps, OperatorSteps,
      ShutdownSteps
<1>29. CASE SendPart
  BY <1>29, ThreadKinds
     DEF SendPart, TypeOK, Steps, Goto, OpenSteps, OperatorSteps,
      ShutdownSteps
<1>25. CASE CallStep
  BY <1>25, <1>1, <1>2, <1>3, <1>4, <1>5, <1>6, <1>7, <1>8, <1>9, <1>10,
      <1>11, <1>12, <1>13, <1>14, <1>15, <1>16, <1>17, <1>18, <1>19, <1>20,
      <1>21, <1>22, <1>23, <1>24, <1>29
     DEF CallStep, SendStep, ShutdownStep
<1>26. CASE WatchStep
  BY <1>26, WatchFrame DEF Steps
<1>27. CASE WorkerStep
  BY <1>27, WorkerFrame DEF parentVars, sessionVars, Steps
<1>28. CASE UNCHANGED vars
  BY <1>28 DEF vars, sessionVars, workerVars, childVars, Steps
<1> QED
  BY <1>25, <1>26, <1>27, <1>28, StepKinds

(* Removing the session from the registry is what lets a close go on. *)
LEMMA OneCloserNext == TypeOK /\ Taken /\ OneCloser /\ [Next]_vars => OneCloser'
<1> SUFFICES ASSUME TypeOK, Taken, OneCloser, [Next]_vars PROVE OneCloser'
  OBVIOUS
<1>1. CASE OpenInsert
  BY <1>1, ThreadKinds DEF OpenInsert, TypeOK, OneCloser, Goto, ShutdownSteps
<1>2. CASE Spawn
  BY <1>2, ThreadKinds
     DEF Spawn, sessionVars, TypeOK, OneCloser, Goto, ShutdownSteps
<1>3. CASE SpawnFails
  BY <1>3, ThreadKinds
     DEF SpawnFails, sessionVars, TypeOK, OneCloser, Goto, ShutdownSteps
<1>4. CASE CheckSlot
  <2>1. /\ pc'[Opener] \in {"close", "store"} /\ pc[Opener] = "check"
        /\ \A u \in Threads : u # Opener => pc'[u] = pc[u]
    BY <1>4, ThreadKinds DEF CheckSlot, TypeOK, Goto
  <2> QED
    BY <1>4, <2>1, ThreadKinds DEF CheckSlot, OneCloser, ShutdownSteps
<1>5. CASE Store
  BY <1>5, ThreadKinds DEF Store, TypeOK, OneCloser, Goto, ShutdownSteps
<1>6. CASE AwaitReturns
  BY <1>6, ThreadKinds
     DEF AwaitReturns, sessionVars, TypeOK, OneCloser, Goto, ShutdownSteps
<1>7. CASE AwaitTimesOut
  BY <1>7, ThreadKinds
     DEF AwaitTimesOut, sessionVars, TypeOK, OneCloser, Goto, ShutdownSteps
<1>8. CASE OpenRemove
  BY <1>8, ThreadKinds DEF OpenRemove, TypeOK, OneCloser, Goto, ShutdownSteps
<1>9. CASE ConnectTooLarge
  BY <1>9, ThreadKinds
     DEF ConnectTooLarge, sessionVars, TypeOK, OneCloser, Goto,
      ShutdownSteps
<1>10. ASSUME NEW t \in Threads \ Closers, SendLock(t) PROVE OneCloser'
  BY <1>10, ThreadKinds
     DEF SendLock, sessionVars, TypeOK, OneCloser, Goto, ShutdownSteps
<1>11. ASSUME NEW t \in Threads \ Closers, SendWrites(t) PROVE OneCloser'
  BY <1>11, ThreadKinds DEF SendWrites, TypeOK, OneCloser, Goto, ShutdownSteps
<1>12. ASSUME NEW t \in Threads \ Closers, SendFails(t) PROVE OneCloser'
  BY <1>12, ThreadKinds
     DEF SendFails, sessionVars, TypeOK, OneCloser, Goto, ShutdownSteps
<1>13. ASSUME NEW t \in Threads \ Operators, ShutdownStops(t) PROVE OneCloser'
  BY <1>13, ThreadKinds
     DEF ShutdownStops, TypeOK, OneCloser, Goto, ShutdownSteps
<1>14. ASSUME NEW t \in Threads \ Operators, TakeSlot(t) PROVE OneCloser'
  BY <1>14, ThreadKinds DEF TakeSlot, TypeOK, OneCloser, Goto, ShutdownSteps
<1>15. ASSUME NEW t \in Threads \ Operators, RequestClose(t) PROVE OneCloser'
  BY <1>15, ThreadKinds
     DEF RequestClose, sessionVars, TypeOK, OneCloser, Goto, ShutdownSteps
<1>16. ASSUME NEW t \in Threads \ Operators, TryInput(t) PROVE OneCloser'
  <2>1. pc'[t] \in {"farewell", "acquire"} /\ \A u \in Threads : u # t => pc'[u] = pc[u]
    BY <1>16, ThreadKinds DEF TryInput, TypeOK, Goto
  <2> QED
    BY <1>16, <2>1, ThreadKinds DEF TryInput, sessionVars, OneCloser, ShutdownSteps
<1>17. ASSUME NEW t \in Threads \ Operators, Farewell(t) PROVE OneCloser'
  BY <1>17, ThreadKinds
     DEF Farewell, sessionVars, TypeOK, OneCloser, Goto, ShutdownSteps
<1>18. ASSUME NEW t \in Threads \ Operators, AcquireHandle(t) PROVE OneCloser'
  <2>1. pc'[t] \in {"join", "drop"} /\ \A u \in Threads : u # t => pc'[u] = pc[u]
    BY <1>18, ThreadKinds DEF AcquireHandle, TypeOK, Goto
  <2> QED
    BY <1>18, <2>1, ThreadKinds DEF AcquireHandle, sessionVars, OneCloser, ShutdownSteps
<1>19. ASSUME NEW t \in Threads \ Operators, Join(t) PROVE OneCloser'
  BY <1>19, ThreadKinds
     DEF Join, sessionVars, TypeOK, OneCloser, Goto, ShutdownSteps
<1>20. ASSUME NEW t \in Threads \ Operators, DropInput(t) PROVE OneCloser'
  BY <1>20, ThreadKinds DEF DropInput, TypeOK, OneCloser, Goto, ShutdownSteps
<1>21. ASSUME NEW t \in Closers, CloseRemove(t) PROVE OneCloser'
  BY <1>21, ThreadKinds
     DEF CloseRemove, TypeOK, OneCloser, Goto, ShutdownSteps
<1>22. ASSUME NEW t \in Operators, OperationStarts(t) PROVE OneCloser'
  BY <1>22, ThreadKinds
     DEF OperationStarts, TypeOK, OneCloser, Goto, ShutdownSteps
<1>23. ASSUME NEW t \in Operators, CloneSlot(t) PROVE OneCloser'
  <2>1. pc'[t] \in {"send", "idle"} /\ \A u \in Threads : u # t => pc'[u] = pc[u]
    BY <1>23, ThreadKinds DEF CloneSlot, TypeOK, Goto
  <2>2. pc'[t] = "send" => slot
    BY <1>23, ThreadKinds DEF CloneSlot, TypeOK, Goto
  <2>3. pc'[t] = "send" => pc[Opener] \notin {"open", "spawn", "check", "store"}
    BY <2>2 DEF Taken
  <2>4. UNCHANGED registered
    BY <1>23 DEF CloneSlot
  <2> QED
    BY <2>1, <2>3, <2>4, ThreadKinds DEF OneCloser
<1>24. ASSUME NEW t \in Operators, OperationFails(t) PROVE OneCloser'
  BY <1>24, ThreadKinds
     DEF OperationFails, TypeOK, OneCloser, Goto, ShutdownSteps
<1>29. CASE SendPart
  BY <1>29, ThreadKinds
     DEF SendPart, sessionVars, TypeOK, OneCloser, Goto, ShutdownSteps
<1>25. CASE CallStep
  BY <1>25, <1>1, <1>2, <1>3, <1>4, <1>5, <1>6, <1>7, <1>8, <1>9, <1>10,
      <1>11, <1>12, <1>13, <1>14, <1>15, <1>16, <1>17, <1>18, <1>19, <1>20,
      <1>21, <1>22, <1>23, <1>24, <1>29
     DEF CallStep, SendStep, ShutdownStep
<1>26. CASE WatchStep
  BY <1>26, WatchFrame DEF OneCloser
<1>27. CASE WorkerStep
  BY <1>27, WorkerFrame DEF parentVars, sessionVars, OneCloser
<1>28. CASE UNCHANGED vars
  BY <1>28 DEF vars, sessionVars, workerVars, childVars, OneCloser
<1> QED
  BY <1>25, <1>26, <1>27, <1>28, StepKinds

(* The process is spawned once, and the supervisor does not start again. *)
LEMMA WatchProgress ==
  ASSUME TypeOK, Process, WatchStep
  PROVE  /\ child' = "none" <=> child = "none"
         /\ supervisor = "ended" => supervisor' = "ended"
         /\ child = "none" => UNCHANGED stdout
  BY DEF Process, WatchStep, SupervisorStep, ReaderStep, SupervisorReaps,
         SupervisorTimesOut, SupervisorStops, SupervisorArms, SupervisorJoinsReader,
         SupervisorPublishes, DeadlinePasses, ReadEvent, ReadFails, ReadEof, Kill,
         childVars

(* Only a living worker takes a step, and it stays a process to be reaped. *)
LEMMA WorkerProgress == WorkerStep => child # "none" /\ child' # "none"
  BY DEF WorkerStep, WorkerReadsPart, WorkerConnects, WorkerReady, WorkerServes, WorkerFails,
         WorkerLeaves, WorkerExits, SessionLost, WorkerCrashes, NextCommand, Alive,
         childVars

(* Nothing the supervisor or the reader delivers clears the flag. *)
LEMMA WatchKeepsFlag ==
  ASSUME TypeOK, WatchStep
  PROVE  state' \in State /\ (state.disconnected => state'.disconnected)
<1> USE DEF TypeOK
<1>1. CASE UNCHANGED state
  BY <1>1
<1>2. CASE SupervisorPublishes
  BY <1>2, EventKeeps DEF SupervisorPublishes, Deliver, Cause
<1>3. CASE ReadEvent
  <2>1. Head(stdout) \in {ReadyEvent, ErrorEvent, DisconnectedEvent(NoError)}
    BY <1>3, TailPlaces DEF ReadEvent, Output
  <2> QED
    BY <1>3, <2>1, EventKeeps DEF ReadEvent, Deliver
<1>4. CASE ReadFails
  BY <1>4, EventKeeps DEF ReadFails, Deliver
<1>5. CASE WatchStep /\ ~SupervisorPublishes /\ ~ReadEvent /\ ~ReadFails
  <2>1. UNCHANGED state
    BY <1>5 DEF WatchStep, SupervisorStep, ReaderStep, SupervisorReaps,
         SupervisorTimesOut, SupervisorStops, SupervisorArms, SupervisorJoinsReader,
         DeadlinePasses, ReadEof, sessionVars
  <2> QED
    BY <2>1, <1>1
<1> QED
  BY <1>2, <1>3, <1>4, <1>5


(* A shutdown sets the flag before it takes the slot, and rdp_open looks   *)
(* at the flag with the slot's lock held.                                  *)
LEMMA TakenNext == TypeOK /\ Taken /\ [Next]_vars => Taken'
<1> SUFFICES ASSUME TypeOK, Taken, [Next]_vars PROVE Taken'
  OBVIOUS
<1>1. CASE OpenInsert
  BY <1>1, ThreadKinds
     DEF OpenInsert, Taken, TypeOK, LocksOwned, Goto, WorkerShutdown
<1>2. CASE Spawn
  BY <1>2, ThreadKinds
     DEF Spawn, sessionVars, Taken, TypeOK, LocksOwned, Goto, WorkerShutdown
<1>3. CASE SpawnFails
  BY <1>3, ThreadKinds
     DEF SpawnFails, sessionVars, Taken, TypeOK, LocksOwned, Goto,
      WorkerShutdown
<1>4. CASE CheckSlot
  BY <1>4, ThreadKinds
     DEF CheckSlot, Taken, TypeOK, LocksOwned, Goto, WorkerShutdown
<1>5. CASE Store
  BY <1>5, ThreadKinds
     DEF Store, Taken, TypeOK, LocksOwned, Goto, WorkerShutdown
<1>6. CASE AwaitReturns
  BY <1>6, ThreadKinds
     DEF AwaitReturns, sessionVars, Taken, TypeOK, LocksOwned, Goto,
      WorkerShutdown
<1>7. CASE AwaitTimesOut
  BY <1>7, ThreadKinds
     DEF AwaitTimesOut, sessionVars, Taken, TypeOK, LocksOwned, Goto,
      WorkerShutdown
<1>8. CASE OpenRemove
  BY <1>8, ThreadKinds
     DEF OpenRemove, Taken, TypeOK, LocksOwned, Goto, WorkerShutdown
<1>9. CASE ConnectTooLarge
  BY <1>9, ThreadKinds
     DEF ConnectTooLarge, sessionVars, Taken, TypeOK, LocksOwned, Goto,
      WorkerShutdown
<1>10. ASSUME NEW t \in Threads \ Closers, SendLock(t) PROVE Taken'
  BY <1>10, ThreadKinds
     DEF SendLock, sessionVars, Taken, TypeOK, LocksOwned, Goto,
      WorkerShutdown
<1>11. ASSUME NEW t \in Threads \ Closers, SendWrites(t) PROVE Taken'
  BY <1>11, ThreadKinds
     DEF SendWrites, Taken, TypeOK, LocksOwned, Goto, WorkerShutdown
<1>12. ASSUME NEW t \in Threads \ Closers, SendFails(t) PROVE Taken'
  BY <1>12, ThreadKinds
     DEF SendFails, sessionVars, Taken, TypeOK, LocksOwned, Goto,
      WorkerShutdown
<1>13. ASSUME NEW t \in Threads \ Operators, ShutdownStops(t) PROVE Taken'
  <2>1. state'.disconnected
    BY <1>13, StopSets DEF ShutdownStops, TypeOK, Cause
  <2> QED
    BY <1>13, <2>1, ThreadKinds DEF ShutdownStops, Taken, TypeOK, Goto, WorkerShutdown
<1>14. ASSUME NEW t \in Threads \ Operators, TakeSlot(t) PROVE Taken'
  BY <1>14, ThreadKinds
     DEF TakeSlot, Taken, TypeOK, LocksOwned, Goto, WorkerShutdown
<1>15. ASSUME NEW t \in Threads \ Operators, RequestClose(t) PROVE Taken'
  BY <1>15, ThreadKinds
     DEF RequestClose, sessionVars, Taken, TypeOK, LocksOwned, Goto,
      WorkerShutdown
<1>16. ASSUME NEW t \in Threads \ Operators, TryInput(t) PROVE Taken'
  BY <1>16, ThreadKinds
     DEF TryInput, sessionVars, Taken, TypeOK, LocksOwned, Goto,
      WorkerShutdown
<1>17. ASSUME NEW t \in Threads \ Operators, Farewell(t) PROVE Taken'
  BY <1>17, ThreadKinds
     DEF Farewell, sessionVars, Taken, TypeOK, LocksOwned, Goto,
      WorkerShutdown
<1>18. ASSUME NEW t \in Threads \ Operators, AcquireHandle(t) PROVE Taken'
  BY <1>18, ThreadKinds
     DEF AcquireHandle, sessionVars, Taken, TypeOK, LocksOwned, Goto,
      WorkerShutdown
<1>19. ASSUME NEW t \in Threads \ Operators, Join(t) PROVE Taken'
  BY <1>19, ThreadKinds
     DEF Join, sessionVars, Taken, TypeOK, LocksOwned, Goto, WorkerShutdown
<1>20. ASSUME NEW t \in Threads \ Operators, DropInput(t) PROVE Taken'
  BY <1>20, ThreadKinds
     DEF DropInput, Taken, TypeOK, LocksOwned, Goto, WorkerShutdown
<1>21. ASSUME NEW t \in Closers, CloseRemove(t) PROVE Taken'
  BY <1>21, ThreadKinds
     DEF CloseRemove, Taken, TypeOK, LocksOwned, Goto, WorkerShutdown
<1>22. ASSUME NEW t \in Operators, OperationStarts(t) PROVE Taken'
  BY <1>22, ThreadKinds
     DEF OperationStarts, Taken, TypeOK, LocksOwned, Goto, WorkerShutdown
<1>23. ASSUME NEW t \in Operators, CloneSlot(t) PROVE Taken'
  <2>1. pc'[t] \in {"send", "idle"} /\ \A u \in Threads : u # t => pc'[u] = pc[u]
    BY <1>23, ThreadKinds DEF CloneSlot, TypeOK, Goto
  <2> QED
    BY <1>23, <2>1, ThreadKinds DEF CloneSlot, Taken, WorkerShutdown
<1>24. ASSUME NEW t \in Operators, OperationFails(t) PROVE Taken'
  <2>1. state'.disconnected
    BY <1>24, StopSets DEF OperationFails, TypeOK, Cause
  <2> QED
    BY <1>24, <2>1, ThreadKinds DEF OperationFails, Taken, TypeOK, Goto, WorkerShutdown
<1>29. CASE SendPart
  BY <1>29, ThreadKinds
     DEF SendPart, sessionVars, Taken, TypeOK, LocksOwned, Goto,
      WorkerShutdown
<1>25. CASE CallStep
  BY <1>25, <1>1, <1>2, <1>3, <1>4, <1>5, <1>6, <1>7, <1>8, <1>9, <1>10,
      <1>11, <1>12, <1>13, <1>14, <1>15, <1>16, <1>17, <1>18, <1>19, <1>20,
      <1>21, <1>22, <1>23, <1>24, <1>29
     DEF CallStep, SendStep, ShutdownStep
<1>26. CASE WatchStep
  BY <1>26, WatchFrame, WatchKeepsFlag DEF Taken
<1>27. CASE WorkerStep
  BY <1>27, WorkerFrame DEF parentVars, sessionVars, Taken
<1>28. CASE UNCHANGED vars
  BY <1>28 DEF vars, sessionVars, workerVars, childVars, Taken
<1> QED
  BY <1>25, <1>26, <1>27, <1>28, StepKinds

(* A worker is held only after it was spawned. *)
LEMMA UnbornNext == TypeOK /\ Process /\ Unborn /\ [Next]_vars => Unborn'
<1> SUFFICES ASSUME TypeOK, Process, Unborn, [Next]_vars PROVE Unborn'
  OBVIOUS
<1>1. CASE OpenInsert
  BY <1>1, ThreadKinds
     DEF OpenInsert, workerVars, childVars, Unborn, TypeOK, Goto, Holds
<1>2. CASE Spawn
  BY <1>2, ThreadKinds DEF Spawn, sessionVars, Unborn, TypeOK, Goto, Holds
<1>3. CASE SpawnFails
  BY <1>3, ThreadKinds
     DEF SpawnFails, sessionVars, workerVars, childVars, Unborn, TypeOK,
      Goto, Holds
<1>4. CASE CheckSlot
  BY <1>4, ThreadKinds
     DEF CheckSlot, workerVars, childVars, Unborn, TypeOK, Goto, Holds
<1>5. CASE Store
  BY <1>5, ThreadKinds
     DEF Store, workerVars, childVars, Unborn, TypeOK, Goto, Holds
<1>6. CASE AwaitReturns
  BY <1>6, ThreadKinds
     DEF AwaitReturns, sessionVars, workerVars, childVars, Unborn, TypeOK,
      Goto, Holds
<1>7. CASE AwaitTimesOut
  BY <1>7, ThreadKinds
     DEF AwaitTimesOut, sessionVars, workerVars, childVars, Unborn, TypeOK,
      Goto, Holds
<1>8. CASE OpenRemove
  BY <1>8, ThreadKinds
     DEF OpenRemove, workerVars, childVars, Unborn, TypeOK, Goto, Holds
<1>9. CASE ConnectTooLarge
  BY <1>9, ThreadKinds
     DEF ConnectTooLarge, sessionVars, workerVars, childVars, Unborn,
      TypeOK, Goto, Holds
<1>10. ASSUME NEW t \in Threads \ Closers, SendLock(t) PROVE Unborn'
  BY <1>10, ThreadKinds
     DEF SendLock, sessionVars, childVars, Unborn, TypeOK, Goto, Holds
<1>11. ASSUME NEW t \in Threads \ Closers, SendWrites(t) PROVE Unborn'
  BY <1>11, ThreadKinds DEF SendWrites, childVars, Unborn, TypeOK, Goto, Holds
<1>12. ASSUME NEW t \in Threads \ Closers, SendFails(t) PROVE Unborn'
  BY <1>12, ThreadKinds
     DEF SendFails, sessionVars, childVars, Unborn, TypeOK, Goto, Holds
<1>13. ASSUME NEW t \in Threads \ Operators, ShutdownStops(t) PROVE Unborn'
  BY <1>13, ThreadKinds
     DEF ShutdownStops, workerVars, childVars, Unborn, TypeOK, Goto, Holds
<1>14. ASSUME NEW t \in Threads \ Operators, TakeSlot(t) PROVE Unborn'
  BY <1>14, ThreadKinds
     DEF TakeSlot, workerVars, childVars, Unborn, TypeOK, Goto, Holds
<1>15. ASSUME NEW t \in Threads \ Operators, RequestClose(t) PROVE Unborn'
  BY <1>15, ThreadKinds
     DEF RequestClose, sessionVars, workerVars, childVars, Unborn, TypeOK,
      Goto, Holds
<1>16. ASSUME NEW t \in Threads \ Operators, TryInput(t) PROVE Unborn'
  BY <1>16, ThreadKinds
     DEF TryInput, sessionVars, childVars, Unborn, TypeOK, Goto, Holds
<1>17. ASSUME NEW t \in Threads \ Operators, Farewell(t) PROVE Unborn'
  BY <1>17, ThreadKinds
     DEF Farewell, sessionVars, childVars, Unborn, TypeOK, Goto, Holds
<1>18. ASSUME NEW t \in Threads \ Operators, AcquireHandle(t) PROVE Unborn'
  BY <1>18, ThreadKinds
     DEF AcquireHandle, sessionVars, childVars, Unborn, TypeOK, Goto, Holds
<1>19. ASSUME NEW t \in Threads \ Operators, Join(t) PROVE Unborn'
  BY <1>19, ThreadKinds
     DEF Join, sessionVars, workerVars, childVars, Unborn, TypeOK, Goto, Holds
<1>20. ASSUME NEW t \in Threads \ Operators, DropInput(t) PROVE Unborn'
  BY <1>20, ThreadKinds DEF DropInput, childVars, Unborn, TypeOK, Goto, Holds
<1>21. ASSUME NEW t \in Closers, CloseRemove(t) PROVE Unborn'
  BY <1>21, ThreadKinds
     DEF CloseRemove, workerVars, childVars, Unborn, TypeOK, Goto, Holds
<1>22. ASSUME NEW t \in Operators, OperationStarts(t) PROVE Unborn'
  BY <1>22, ThreadKinds
     DEF OperationStarts, workerVars, childVars, Unborn, TypeOK, Goto, Holds
<1>23. ASSUME NEW t \in Operators, CloneSlot(t) PROVE Unborn'
  BY <1>23, ThreadKinds
     DEF CloneSlot, workerVars, childVars, Unborn, TypeOK, Goto, Holds
<1>24. ASSUME NEW t \in Operators, OperationFails(t) PROVE Unborn'
  BY <1>24, ThreadKinds
     DEF OperationFails, workerVars, childVars, Unborn, TypeOK, Goto, Holds
<1>29. CASE SendPart
  BY <1>29, ThreadKinds
     DEF SendPart, sessionVars, workerVars, childVars, Unborn, TypeOK,
      Goto, Holds
<1>25. CASE CallStep
  BY <1>25, <1>1, <1>2, <1>3, <1>4, <1>5, <1>6, <1>7, <1>8, <1>9, <1>10,
      <1>11, <1>12, <1>13, <1>14, <1>15, <1>16, <1>17, <1>18, <1>19, <1>20,
      <1>21, <1>22, <1>23, <1>24, <1>29
     DEF CallStep, SendStep, ShutdownStep
<1>26. CASE WatchStep
  BY <1>26, WatchFrame, WatchProgress DEF workerVars, Unborn, Holds
<1>27. CASE WorkerStep
  BY <1>27, WorkerFrame, WorkerProgress
     DEF parentVars, sessionVars, workerVars, Unborn, Holds
<1>28. CASE UNCHANGED vars
  BY <1>28 DEF vars, sessionVars, workerVars, childVars, Unborn, Holds
<1> QED
  BY <1>25, <1>26, <1>27, <1>28, StepKinds

(* Every holder of the worker closes it, after joining the supervisor. *)
LEMMA OwnedNext == TypeOK /\ Process /\ Unborn /\ Owned /\ [Next]_vars => Owned'
<1> SUFFICES ASSUME TypeOK, Process, Unborn, Owned, [Next]_vars PROVE Owned'
  OBVIOUS
<1>1. CASE OpenInsert
  BY <1>1, ThreadKinds
     DEF OpenInsert, workerVars, childVars, Owned, TypeOK, Goto,
      WorkerShutdown
<1>2. CASE Spawn
  BY <1>2, ThreadKinds
     DEF Spawn, sessionVars, Unborn, Holds, Owned, TypeOK, Goto,
      WorkerShutdown
<1>3. CASE SpawnFails
  BY <1>3, ThreadKinds
     DEF SpawnFails, sessionVars, workerVars, childVars, Owned, TypeOK,
      Goto, WorkerShutdown
<1>4. CASE CheckSlot
  BY <1>4, ThreadKinds
     DEF CheckSlot, workerVars, childVars, Owned, TypeOK, Goto,
      WorkerShutdown
<1>5. CASE Store
  BY <1>5, ThreadKinds
     DEF Store, workerVars, childVars, Owned, TypeOK, Goto, WorkerShutdown
<1>6. CASE AwaitReturns
  BY <1>6, ThreadKinds
     DEF AwaitReturns, sessionVars, workerVars, childVars, Owned, TypeOK,
      Goto, WorkerShutdown
<1>7. CASE AwaitTimesOut
  BY <1>7, ThreadKinds
     DEF AwaitTimesOut, sessionVars, workerVars, childVars, Owned, TypeOK,
      Goto, WorkerShutdown
<1>8. CASE OpenRemove
  BY <1>8, ThreadKinds
     DEF OpenRemove, workerVars, childVars, Owned, TypeOK, Goto,
      WorkerShutdown
<1>9. CASE ConnectTooLarge
  BY <1>9, ThreadKinds
     DEF ConnectTooLarge, sessionVars, workerVars, childVars, Owned, TypeOK,
      Goto, WorkerShutdown
<1>10. ASSUME NEW t \in Threads \ Closers, SendLock(t) PROVE Owned'
  BY <1>10, ThreadKinds
     DEF SendLock, sessionVars, childVars, Owned, TypeOK, Goto,
      WorkerShutdown
<1>11. ASSUME NEW t \in Threads \ Closers, SendWrites(t) PROVE Owned'
  BY <1>11, ThreadKinds
     DEF SendWrites, childVars, Owned, TypeOK, Goto, WorkerShutdown
<1>12. ASSUME NEW t \in Threads \ Closers, SendFails(t) PROVE Owned'
  BY <1>12, ThreadKinds
     DEF SendFails, sessionVars, childVars, Owned, TypeOK, Goto,
      WorkerShutdown
<1>13. ASSUME NEW t \in Threads \ Operators, ShutdownStops(t) PROVE Owned'
  BY <1>13, ThreadKinds
     DEF ShutdownStops, workerVars, childVars, Owned, TypeOK, Goto,
      WorkerShutdown
<1>14. ASSUME NEW t \in Threads \ Operators, TakeSlot(t) PROVE Owned'
  BY <1>14, ThreadKinds
     DEF TakeSlot, workerVars, childVars, Owned, TypeOK, Goto,
      WorkerShutdown
<1>15. ASSUME NEW t \in Threads \ Operators, RequestClose(t) PROVE Owned'
  BY <1>15, ThreadKinds
     DEF RequestClose, sessionVars, workerVars, childVars, Owned, TypeOK,
      Goto, WorkerShutdown
<1>16. ASSUME NEW t \in Threads \ Operators, TryInput(t) PROVE Owned'
  BY <1>16, ThreadKinds
     DEF TryInput, sessionVars, childVars, Owned, TypeOK, Goto,
      WorkerShutdown
<1>17. ASSUME NEW t \in Threads \ Operators, Farewell(t) PROVE Owned'
  BY <1>17, ThreadKinds
     DEF Farewell, sessionVars, childVars, Owned, TypeOK, Goto,
      WorkerShutdown
<1>18. ASSUME NEW t \in Threads \ Operators, AcquireHandle(t) PROVE Owned'
  BY <1>18, ThreadKinds
     DEF AcquireHandle, sessionVars, childVars, Unborn, Holds, Owned,
      TypeOK, Goto, WorkerShutdown
<1>19. ASSUME NEW t \in Threads \ Operators, Join(t) PROVE Owned'
  BY <1>19, ThreadKinds
     DEF Join, sessionVars, workerVars, childVars, LocksOwned, Owned, TypeOK,
      Goto, WorkerShutdown
<1>20. ASSUME NEW t \in Threads \ Operators, DropInput(t) PROVE Owned'
  BY <1>20, ThreadKinds
     DEF DropInput, childVars, Owned, TypeOK, Goto, WorkerShutdown
<1>21. ASSUME NEW t \in Closers, CloseRemove(t) PROVE Owned'
  BY <1>21, ThreadKinds
     DEF CloseRemove, workerVars, childVars, Owned, TypeOK, Goto,
      WorkerShutdown
<1>22. ASSUME NEW t \in Operators, OperationStarts(t) PROVE Owned'
  BY <1>22, ThreadKinds
     DEF OperationStarts, workerVars, childVars, Owned, TypeOK, Goto,
      WorkerShutdown
<1>23. ASSUME NEW t \in Operators, CloneSlot(t) PROVE Owned'
  BY <1>23, ThreadKinds
     DEF CloneSlot, workerVars, childVars, Owned, TypeOK, Goto,
      WorkerShutdown
<1>24. ASSUME NEW t \in Operators, OperationFails(t) PROVE Owned'
  BY <1>24, ThreadKinds
     DEF OperationFails, workerVars, childVars, Owned, TypeOK, Goto,
      WorkerShutdown
<1>29. CASE SendPart
  BY <1>29, ThreadKinds
     DEF SendPart, sessionVars, workerVars, childVars, Owned, TypeOK,
      Goto, WorkerShutdown
<1>25. CASE CallStep
  BY <1>25, <1>1, <1>2, <1>3, <1>4, <1>5, <1>6, <1>7, <1>8, <1>9, <1>10,
      <1>11, <1>12, <1>13, <1>14, <1>15, <1>16, <1>17, <1>18, <1>19, <1>20,
      <1>21, <1>22, <1>23, <1>24, <1>29
     DEF CallStep, SendStep, ShutdownStep
<1>26. CASE WatchStep
  BY <1>26, WatchFrame, WatchProgress DEF workerVars, Owned
<1>27. CASE WorkerStep
  BY <1>27, WorkerFrame, WorkerProgress
     DEF parentVars, sessionVars, workerVars, Owned
<1>28. CASE UNCHANGED vars
  BY <1>28 DEF vars, sessionVars, workerVars, childVars, Owned
<1> QED
  BY <1>25, <1>26, <1>27, <1>28, StepKinds

(* A step that takes a mutex found it free, and the owner gives it back. *)
LEMMA LocksNext == TypeOK /\ Steps /\ [Next]_vars => LocksOwned'
<1> SUFFICES ASSUME TypeOK, Steps, [Next]_vars PROVE LocksOwned'
  OBVIOUS
<1>1. CASE OpenInsert
  BY <1>1, ThreadKinds, PcFunction
     DEF OpenInsert, workerVars, childVars, LocksOwned, Goto
<1>2. CASE Spawn
  BY <1>2, ThreadKinds, PcFunction DEF Spawn, sessionVars, LocksOwned, Goto
<1>3. CASE SpawnFails
  BY <1>3, ThreadKinds, PcFunction
     DEF SpawnFails, sessionVars, workerVars, childVars, LocksOwned, Goto
<1>4. CASE CheckSlot
  <2>1. CASE state.disconnected
    BY <1>4, <2>1, ThreadKinds, PcFunction
       DEF CheckSlot, workerVars, childVars, LocksOwned, Goto
  <2>2. CASE ~(state.disconnected)
    BY <1>4, <2>2, ThreadKinds, PcFunction
       DEF CheckSlot, workerVars, childVars, LocksOwned, Goto
  <2> QED
    BY <2>1, <2>2
<1>5. CASE Store
  BY <1>5, ThreadKinds, PcFunction
     DEF Store, workerVars, childVars, LocksOwned, Goto
<1>6. CASE AwaitReturns
  BY <1>6, ThreadKinds, PcFunction
     DEF AwaitReturns, sessionVars, workerVars, childVars, LocksOwned, Goto
<1>7. CASE AwaitTimesOut
  BY <1>7, ThreadKinds, PcFunction
     DEF AwaitTimesOut, sessionVars, workerVars, childVars, LocksOwned, Goto
<1>8. CASE OpenRemove
  BY <1>8, ThreadKinds, PcFunction
     DEF OpenRemove, workerVars, childVars, LocksOwned, Goto
<1>9. CASE ConnectTooLarge
  BY <1>9, ThreadKinds, PcFunction
     DEF ConnectTooLarge, sessionVars, workerVars, childVars, LocksOwned,
      Goto
<1>10. ASSUME NEW t \in Threads \ Closers, SendLock(t) PROVE LocksOwned'
  BY <1>10, ThreadKinds, PcFunction
     DEF SendLock, sessionVars, childVars, LocksOwned, Goto
<1>11. ASSUME NEW t \in Threads \ Closers, SendWrites(t) PROVE LocksOwned'
  <2>1. CASE t = Opener
    BY <1>11, <2>1, ThreadKinds, PcFunction
       DEF SendWrites, childVars, Threads, LocksOwned, Goto
  <2>2. CASE ~(t = Opener)
    <3>1. pc[t] = "write" /\ t \in Operators
      BY <1>11, <2>2 DEF SendWrites, Steps, OperatorSteps, Threads
    <3> QED
      BY <1>11, <2>2, <3>1, ThreadKinds, PcFunction
         DEF SendWrites, childVars, LocksOwned, Goto
  <2> QED
    BY <2>1, <2>2
<1>12. ASSUME NEW t \in Threads \ Closers, SendFails(t) PROVE LocksOwned'
  <2>1. t \in Operators => pc[t] = "write"
    BY <1>12 DEF SendFails, Steps, OperatorSteps
  <2> QED
    BY <1>12, <2>1, ThreadKinds, PcFunction
       DEF SendFails, sessionVars, childVars, Threads, LocksOwned, Goto
<1>13. ASSUME NEW t \in Threads \ Operators, ShutdownStops(t) PROVE LocksOwned'
  BY <1>13, ThreadKinds, PcFunction
     DEF ShutdownStops, workerVars, childVars, LocksOwned, Goto
<1>14. ASSUME NEW t \in Threads \ Operators, TakeSlot(t) PROVE LocksOwned'
  BY <1>14, ThreadKinds, PcFunction
     DEF TakeSlot, workerVars, childVars, LocksOwned, Goto
<1>15. ASSUME NEW t \in Threads \ Operators, RequestClose(t) PROVE LocksOwned'
  BY <1>15, ThreadKinds, PcFunction
     DEF RequestClose, sessionVars, workerVars, childVars, LocksOwned, Goto
<1>16. ASSUME NEW t \in Threads \ Operators, TryInput(t) PROVE LocksOwned'
  BY <1>16, ThreadKinds, PcFunction
     DEF TryInput, sessionVars, childVars, LocksOwned, Goto
<1>17. ASSUME NEW t \in Threads \ Operators, Farewell(t) PROVE LocksOwned'
  BY <1>17, ThreadKinds, PcFunction
     DEF Farewell, sessionVars, childVars, LocksOwned, Goto
<1>18. ASSUME NEW t \in Threads \ Operators, AcquireHandle(t) PROVE LocksOwned'
  <2>1. CASE handle
    BY <1>18, <2>1, ThreadKinds, PcFunction
       DEF AcquireHandle, sessionVars, childVars, LocksOwned, Goto
  <2>2. CASE ~(handle)
    BY <1>18, <2>2, ThreadKinds, PcFunction
       DEF AcquireHandle, sessionVars, childVars, LocksOwned, Goto
  <2> QED
    BY <2>1, <2>2
<1>19. ASSUME NEW t \in Threads \ Operators, Join(t) PROVE LocksOwned'
  BY <1>19, ThreadKinds, PcFunction
     DEF Join, sessionVars, workerVars, childVars, LocksOwned, Goto
<1>20. ASSUME NEW t \in Threads \ Operators, DropInput(t) PROVE LocksOwned'
  BY <1>20, ThreadKinds, PcFunction DEF DropInput, childVars, LocksOwned, Goto
<1>21. ASSUME NEW t \in Closers, CloseRemove(t) PROVE LocksOwned'
  BY <1>21, ThreadKinds, PcFunction
     DEF CloseRemove, workerVars, childVars, LocksOwned, Goto
<1>22. ASSUME NEW t \in Operators, OperationStarts(t) PROVE LocksOwned'
  BY <1>22, ThreadKinds, PcFunction
     DEF OperationStarts, workerVars, childVars, LocksOwned, Goto
<1>23. ASSUME NEW t \in Operators, CloneSlot(t) PROVE LocksOwned'
  <2>1. CASE slot
    BY <1>23, <2>1, ThreadKinds, PcFunction
       DEF CloneSlot, workerVars, childVars, LocksOwned, Goto
  <2>2. CASE ~(slot)
    BY <1>23, <2>2, ThreadKinds, PcFunction
       DEF CloneSlot, workerVars, childVars, LocksOwned, Goto
  <2> QED
    BY <2>1, <2>2
<1>24. ASSUME NEW t \in Operators, OperationFails(t) PROVE LocksOwned'
  BY <1>24, ThreadKinds, PcFunction
     DEF OperationFails, workerVars, childVars, LocksOwned, Goto
<1>29. CASE SendPart
  BY <1>29, ThreadKinds, PcFunction
     DEF SendPart, sessionVars, workerVars, childVars, LocksOwned, Goto
<1>25. CASE CallStep
  BY <1>25, <1>1, <1>2, <1>3, <1>4, <1>5, <1>6, <1>7, <1>8, <1>9, <1>10,
      <1>11, <1>12, <1>13, <1>14, <1>15, <1>16, <1>17, <1>18, <1>19, <1>20,
      <1>21, <1>22, <1>23, <1>24, <1>29
     DEF CallStep, SendStep, ShutdownStep
<1>26. CASE WatchStep
  BY <1>26, PcFunction, WatchFrame DEF LocksOwned, workerVars
<1>27. CASE WorkerStep
  BY <1>27, PcFunction, WorkerFrame
     DEF parentVars, sessionVars, workerVars, LocksOwned
<1>28. CASE UNCHANGED vars
  BY <1>28, PcFunction DEF vars, sessionVars, workerVars, LocksOwned
<1> QED
  BY <1>25, <1>26, <1>27, <1>28, StepKinds

(* What the pipes and the control channel carry keeps its type. *)
LEMMA ChannelTypes ==
  ASSUME TypeOK
  PROVE  /\ \A m \in Seq({"Close", "Stop"}) : Sent(m) \in Seq({"Close", "Stop"})
         /\ control # << >> => Tail(control) \in Seq({"Close", "Stop"})
         /\ stdin # << >> => /\ Tail(stdin) \in Seq(Commands)
                             /\ Len(Tail(stdin)) <= PipeCap
         /\ \A c \in Commands : Append(stdin, c) \in Seq(Commands)
                                /\ (Room => Len(Append(stdin, c)) <= PipeCap)
<1>1. /\ control \in Seq({"Close", "Stop"}) /\ stdin \in Seq(Commands)
      /\ Len(stdin) <= PipeCap
  BY DEF TypeOK
<1>2. \A m \in Seq({"Close", "Stop"}) : Sent(m) \in Seq({"Close", "Stop"})
  BY <1>1 DEF Sent
<1>3. control # << >> => Tail(control) \in Seq({"Close", "Stop"})
  BY <1>1
<1>4. stdin # << >> => Tail(stdin) \in Seq(Commands) /\ Len(Tail(stdin)) <= PipeCap
  BY <1>1, PipeCapAssumption
<1>5. ASSUME NEW c \in Commands
      PROVE  /\ Append(stdin, c) \in Seq(Commands)
             /\ Room => Len(Append(stdin, c)) <= PipeCap
  BY <1>1, PipeCapAssumption DEF Room
<1> QED
  BY <1>2, <1>3, <1>4, <1>5


(* The calls change flags and mutexes only to values of their types. *)
LEMMA CallTypes ==
  ASSUME TypeOK, CallStep
  PROVE  /\ registered' \in BOOLEAN /\ slot' \in BOOLEAN /\ input' \in BOOLEAN
         /\ handle' \in BOOLEAN /\ dropping' \in BOOLEAN
         /\ slotLock' \in Threads \cup {Free} /\ opLock' \in Threads \cup {Free}
         /\ inputLock' \in Threads \cup {Free} /\ joinLock' \in Threads \cup {Free}
<1> DEFINE Goal == /\ registered' \in BOOLEAN /\ slot' \in BOOLEAN /\ input' \in BOOLEAN
                   /\ handle' \in BOOLEAN /\ dropping' \in BOOLEAN
                   /\ slotLock' \in Threads \cup {Free}
                   /\ opLock' \in Threads \cup {Free}
                   /\ inputLock' \in Threads \cup {Free}
                   /\ joinLock' \in Threads \cup {Free}
<1>1. /\ registered \in BOOLEAN /\ slot \in BOOLEAN /\ input \in BOOLEAN
      /\ handle \in BOOLEAN /\ dropping \in BOOLEAN /\ state.disconnected \in BOOLEAN
      /\ slotLock \in Threads \cup {Free} /\ opLock \in Threads \cup {Free}
      /\ inputLock \in Threads \cup {Free} /\ joinLock \in Threads \cup {Free}
  BY DEF TypeOK, State
<1> USE ThreadKinds DEF sessionVars, workerVars
<1>2. CASE \/ OpenInsert \/ Spawn \/ SpawnFails \/ CheckSlot \/ Store
           \/ AwaitReturns \/ AwaitTimesOut \/ OpenRemove \/ ConnectTooLarge \/ SendPart
  BY <1>1, <1>2 DEF OpenInsert, Spawn, SpawnFails, CheckSlot, Store, AwaitReturns,
                    AwaitTimesOut, OpenRemove, ConnectTooLarge, SendPart
<1>3. CASE \E t \in Threads \ Closers : SendStep(t)
  BY <1>1, <1>3 DEF SendStep, SendLock, SendWrites, SendFails
<1>4. ASSUME NEW t \in Threads, ShutdownStops(t) \/ TakeSlot(t) \/ RequestClose(t)
      PROVE  Goal
  BY <1>1, <1>4 DEF ShutdownStops, TakeSlot, RequestClose
<1>5. ASSUME NEW t \in Threads, TryInput(t) \/ Farewell(t)
      PROVE  Goal
  BY <1>1, <1>5 DEF TryInput, Farewell
<1>6. ASSUME NEW t \in Threads, AcquireHandle(t) \/ Join(t) \/ DropInput(t)
      PROVE  Goal
  BY <1>1, <1>6 DEF AcquireHandle, Join, DropInput
<1>7. CASE \/ \E t \in Closers : CloseRemove(t)
           \/ \E t \in Operators : OperationStarts(t) \/ CloneSlot(t) \/ OperationFails(t)
  BY <1>1, <1>7 DEF CloseRemove, OperationStarts, CloneSlot, OperationFails
<1> QED
  BY <1>2, <1>3, <1>4, <1>5, <1>6, <1>7 DEF CallStep, ShutdownStep

(* Every step leaves the session's state a state. *)
LEMMA StateNext == TypeOK /\ [Next]_vars => state' \in State
<1> SUFFICES ASSUME TypeOK, [Next]_vars PROVE state' \in State
  OBVIOUS
<1>0. state \in State
  BY DEF TypeOK
<1>1. ASSUME NEW t \in Threads, OperationFails(t) \/ ShutdownStops(t)
      PROVE  state' \in State
  BY <1>0, <1>1, StopSets DEF OperationFails, ShutdownStops, Cause
<1>2. CASE CallStep /\ ~ \E t \in Threads : OperationFails(t) \/ ShutdownStops(t)
  <2>1. UNCHANGED state
    BY <1>2, ThreadKinds
     DEF CallStep, SendStep, ShutdownStep, OpenInsert, Spawn, SpawnFails, CheckSlot,
         Store, AwaitReturns, AwaitTimesOut, OpenRemove, ConnectTooLarge, SendPart, SendLock,
         SendWrites, SendFails, TakeSlot, RequestClose, TryInput, Farewell,
         AcquireHandle, Join, DropInput, CloseRemove, OperationStarts, CloneSlot,
         sessionVars
  <2> QED
    BY <1>0, <2>1
<1>3. CASE WatchStep
  BY <1>3, WatchKeepsFlag
<1>4. CASE WorkerStep
  BY <1>0, <1>4, WorkerFrame DEF parentVars, sessionVars
<1>5. CASE UNCHANGED vars
  BY <1>0, <1>5 DEF vars, sessionVars
<1> QED
  BY <1>1, <1>2, <1>3, <1>4, <1>5, StepKinds

(* A call moves itself; nobody else moves it. *)
LEMMA PcNext ==
  ASSUME TypeOK, [Next]_vars
  PROVE  pc' = [t \in Threads |-> pc'[t]]
<1>2. ASSUME CallStep PROVE pc' = [t \in Threads |-> pc'[t]]
  BY <1>2, CallFrame, PcFunction DEF Goto
<1>3. ASSUME ~CallStep PROVE UNCHANGED pc
  BY <1>3, StepKinds, WatchFrame, WorkerFrame DEF parentVars, vars
<1> QED
  BY <1>2, <1>3, PcFunction

(* The supervisor, the reader and the worker keep the types of what they   *)
(* share with the calls.                                                   *)
LEMMA ThreadTypes ==
  ASSUME TypeOK, [Next]_vars
  PROVE  /\ deadline' \in {"none", "set", "due"}
         /\ supervisor' \in {"none", "watch", "join", "publish", "ended"}
         /\ reader' \in {"none", "read", "ended"}
         /\ child' \in {"none", "running", "exited 0", "exited 1", "reaped 0", "reaped 1"}
         /\ phase' \in {"start", "connecting", "serving", "failing", "leaving"}
         /\ lost' \in BOOLEAN
<1>1. /\ deadline \in {"none", "set", "due"}
      /\ supervisor \in {"none", "watch", "join", "publish", "ended"}
      /\ reader \in {"none", "read", "ended"}
      /\ child \in {"none", "running", "exited 0", "exited 1", "reaped 0", "reaped 1"}
      /\ phase \in {"start", "connecting", "serving", "failing", "leaving"}
      /\ lost \in BOOLEAN
  BY DEF TypeOK
<1>2. CASE CallStep
  BY <1>1, <1>2, CallFrame DEF Spawn, childVars
<1>3. CASE SupervisorStep \/ DeadlinePasses
  BY <1>1, <1>3
     DEF SupervisorStep, SupervisorReaps, SupervisorTimesOut, SupervisorStops,
         SupervisorArms, SupervisorJoinsReader, SupervisorPublishes, DeadlinePasses,
         Kill, Dies, childVars
<1>4. CASE ReaderStep
  BY <1>1, <1>4 DEF ReaderStep, ReadEvent, ReadFails, ReadEof, childVars
<1>5. CASE WorkerStep
  BY <1>1, <1>5, WorkerFrame
     DEF WorkerStep, WorkerReadsPart, WorkerConnects, WorkerReady, WorkerServes, WorkerFails,
         WorkerLeaves, WorkerExits, SessionLost, WorkerCrashes, Dies, childVars,
         parentVars
<1>6. CASE UNCHANGED vars
  BY <1>1, <1>6 DEF vars, childVars
<1> QED
  BY <1>2, <1>3, <1>4, <1>5, <1>6, StepKinds DEF WatchStep

(* Nobody but the calls writes to the worker's input: the worker reads it, *)
(* and it ends with the worker.                                            *)
LEMMA OthersDoNotWrite ==
  ASSUME WatchStep \/ WorkerStep
  PROVE  \/ UNCHANGED stdin
         \/ stdin # << >> /\ stdin' = Tail(stdin)
         \/ stdin' = << >>
<1>1. CASE WatchStep
  BY <1>1
     DEF WatchStep, SupervisorStep, SupervisorReaps, SupervisorTimesOut,
         SupervisorStops, SupervisorArms, SupervisorJoinsReader, SupervisorPublishes,
         DeadlinePasses, ReaderStep, ReadEvent, ReadFails, ReadEof, Kill, Dies
<1>2. CASE WorkerStep
  BY <1>2
     DEF WorkerStep, WorkerReadsPart, WorkerConnects, WorkerReady, WorkerServes, WorkerFails,
         WorkerLeaves, WorkerExits, SessionLost, WorkerCrashes, Dies, NextCommand
<1> QED
  BY <1>1, <1>2

(* Every message goes into the channel made for it, and into a pipe only   *)
(* where there is room.                                                    *)
LEMMA PipeTypes ==
  ASSUME TypeOK, Stream, [Next]_vars
  PROVE  /\ control' \in Seq({"Close", "Stop"})
         /\ stdin' \in Seq(Commands) /\ Len(stdin') <= PipeCap
         /\ stdout' \in Seq(Output) /\ Len(stdout') <= PipeCap + 1
<1>1. /\ control \in Seq({"Close", "Stop"})
      /\ stdin \in Seq(Commands) /\ Len(stdin) <= PipeCap
      /\ stdout \in Seq(Output) /\ Len(stdout) <= PipeCap + 1
  BY DEF TypeOK
<1>2. control' \in Seq({"Close", "Stop"})
  <2>1. /\ \A m \in Seq({"Close", "Stop"}) : Sent(m) \in Seq({"Close", "Stop"})
        /\ control # << >> => Tail(control) \in Seq({"Close", "Stop"})
    BY ChannelTypes
  <2>2. /\ <<"Close">> \in Seq({"Close", "Stop"}) /\ <<"Stop">> \in Seq({"Close", "Stop"})
        /\ << >> \in Seq({"Close", "Stop"})
    OBVIOUS
  <2>3. \A ev : ControlFor(ev) \in {<<"Close">>, <<"Stop">>, << >>}
    BY DEF ControlFor
  <2>4. CASE CallStep
    BY <1>1, <2>1, <2>2, <2>4, CallFrame
  <2>5. CASE SupervisorStep \/ DeadlinePasses
    BY <1>1, <2>1, <2>5
       DEF SupervisorStep, SupervisorReaps, SupervisorTimesOut, SupervisorStops,
           SupervisorArms, SupervisorJoinsReader, SupervisorPublishes, DeadlinePasses
  <2>6. CASE ReaderStep
    BY <2>1, <2>2, <2>3, <2>6 DEF ReaderStep, ReadEvent, ReadFails, ReadEof
  <2>7. CASE WorkerStep
    BY <1>1, <2>7, WorkerFrame DEF parentVars
  <2>8. CASE UNCHANGED vars
    BY <1>1, <2>8 DEF vars
  <2> QED
    BY <2>4, <2>5, <2>6, <2>7, <2>8, StepKinds DEF WatchStep
<1>3. stdin' \in Seq(Commands) /\ Len(stdin') <= PipeCap
  <2>1. /\ "part" \in Commands /\ "connect" \in Commands /\ "input" \in Commands /\ "disconnect" \in Commands
        /\ << >> \in Seq(Commands) /\ Len(<< >>) <= PipeCap
    BY PipeCapAssumption DEF Commands
  <2>2. \/ UNCHANGED stdin
        \/ Room /\ \E c \in Commands : stdin' = Append(stdin, c)
        \/ stdin # << >> /\ stdin' = Tail(stdin)
        \/ stdin' = << >>
    <3>1. CASE CallStep
      BY <3>1, CallFrame
    <3>2. CASE WatchStep \/ WorkerStep
      BY <3>2, OthersDoNotWrite
    <3>3. CASE UNCHANGED vars
      BY <3>3 DEF vars
    <3> QED
      BY <3>1, <3>2, <3>3, StepKinds
  <2> QED
    BY <1>1, <2>1, <2>2, ChannelTypes
<1>4. stdout' \in Seq(Output) /\ Len(stdout') <= PipeCap + 1
  <2>1. \/ UNCHANGED stdout
        \/ stdout # << >> /\ stdout' = Tail(stdout)
        \/ Alive /\ \E m \in Output : stdout' = Append(stdout, m)
    <3>1. CASE CallStep
      BY <3>1, CallFrame DEF Spawn
    <3>2. CASE WatchStep
      BY <3>2, Complete
       DEF WatchStep, SupervisorStep, SupervisorReaps, SupervisorTimesOut,
           SupervisorStops, SupervisorArms, SupervisorJoinsReader, SupervisorPublishes,
           DeadlinePasses, ReaderStep, ReadEvent, ReadFails, ReadEof, Kill
    <3>3. CASE WorkerStep
      BY <3>3, Complete
       DEF WorkerStep, WorkerReadsPart, WorkerConnects, WorkerReady, WorkerServes, WorkerFails,
           WorkerLeaves, WorkerExits, SessionLost, WorkerCrashes, NextCommand
    <3>4. CASE UNCHANGED vars
      BY <3>4 DEF vars
    <3> QED
      BY <3>1, <3>2, <3>3, <3>4, StepKinds
  <2>2. Alive => Len(stdout) <= PipeCap
    BY DEF Stream
  <2>3. CASE stdout # << >> /\ stdout' = Tail(stdout)
    BY <1>1, <2>3, TailPlaces, PipeCapAssumption
  <2>4. ASSUME Alive, NEW m \in Output, stdout' = Append(stdout, m)
        PROVE  stdout' \in Seq(Output) /\ Len(stdout') <= PipeCap + 1
    BY <1>1, <2>2, <2>4, AppendPlaces, PipeCapAssumption
  <2> QED
    BY <1>1, <2>1, <2>3, <2>4
<1> QED
  BY <1>2, <1>3, <1>4

(* Every step keeps the types. *)
LEMMA TypeNext == TypeOK /\ Steps /\ Stream /\ [Next]_vars => TypeOK'
<1> SUFFICES ASSUME TypeOK, Steps, Stream, [Next]_vars PROVE TypeOK'
  OBVIOUS
<1>1. /\ registered' \in BOOLEAN /\ slot' \in BOOLEAN /\ input' \in BOOLEAN
      /\ handle' \in BOOLEAN /\ dropping' \in BOOLEAN
      /\ slotLock' \in Threads \cup {Free} /\ opLock' \in Threads \cup {Free}
      /\ inputLock' \in Threads \cup {Free} /\ joinLock' \in Threads \cup {Free}
  <2>1. CASE CallStep
    BY <2>1, CallTypes
  <2>2. CASE ~CallStep
    <3>1. UNCHANGED <<registered, dropping, slotLock, slot, opLock, inputLock, input,
                      joinLock, handle>>
      BY <2>2, StepKinds, WatchFrame, WorkerFrame
         DEF parentVars, vars, sessionVars, workerVars
    <3> QED
      BY <3>1 DEF TypeOK
  <2> QED
    BY <2>1, <2>2
<1>2. pc' \in [Threads -> OpenSteps \cup OperatorSteps \cup ShutdownSteps
                          \cup {"closed", "not found"}]
  <2>1. \A t \in Threads : pc'[t] \in OpenSteps \cup OperatorSteps \cup ShutdownSteps
                                      \cup {"closed", "not found"}
    BY StepsNext DEF Steps, Threads, OperatorSteps
  <2> QED
    BY <2>1, PcNext
<1> QED
  BY <1>1, <1>2, StateNext, ThreadTypes, PipeTypes, LocksNext DEF TypeOK

-----------------------------------------------------------------------------
(* The theorems. *)

Safe == TypeOK /\ Steps /\ Process /\ Stream /\ Unborn /\ Owned /\ Taken /\ OneCloser

(* A server that has not opened the session yet. *)
LEMMA SafeInit == Init => Safe
<1> SUFFICES ASSUME Init PROVE Safe
  OBVIOUS
<1>1. state \in State /\ ~state.disconnected
  <2>1. << >> \in Seq(Pixel)
    OBVIOUS
  <2> QED
    BY <2>1, MaxDimAssumption DEF Init, InitState, State
<1>2. /\ pc[Opener] = "open"
      /\ \A t \in Threads : t # Opener => pc[t] = "idle"
      /\ pc = [t \in Threads |-> pc[t]]
  BY ThreadKinds DEF Init
<1>3. /\ registered = FALSE /\ slot = FALSE /\ input = FALSE /\ handle = FALSE
      /\ dropping = FALSE /\ lost = FALSE
      /\ slotLock = Free /\ opLock = Free /\ inputLock = Free /\ joinLock = Free
      /\ control = << >> /\ stdin = << >> /\ stdout = << >>
      /\ deadline = "none" /\ supervisor = "none" /\ reader = "none"
      /\ child = "none" /\ phase = "start"
  BY DEF Init
<1>4. LocksOwned
  BY <1>2, <1>3, ThreadKinds DEF LocksOwned
<1>5. pc \in [Threads -> OpenSteps \cup OperatorSteps \cup ShutdownSteps
                         \cup {"closed", "not found"}]
  BY <1>2 DEF OpenSteps, OperatorSteps
<1>6. TypeOK
  <2>1. /\ << >> \in Seq({"Close", "Stop"}) /\ << >> \in Seq(Commands)
        /\ << >> \in Seq(Output) /\ Len(<< >>) <= PipeCap /\ Len(<< >>) <= PipeCap + 1
    BY PipeCapAssumption
  <2> QED
    BY <1>1, <1>3, <1>4, <1>5, <2>1 DEF TypeOK
<1>7. Steps
  BY <1>2, ThreadKinds DEF Steps, OpenSteps, OperatorSteps
<1>8. Process /\ Stream
  BY <1>3 DEF Process, Stream, Alive
<1>9. Unborn /\ Owned
  BY <1>2, <1>3, ThreadKinds DEF Unborn, Owned, Holds
<1>10. Taken /\ OneCloser
  BY <1>2, <1>3, ThreadKinds DEF Taken, OneCloser, WorkerShutdown, ShutdownSteps
<1> QED
  BY <1>6, <1>7, <1>8, <1>9, <1>10 DEF Safe

(* The parts support each other. *)
LEMMA SafeNext == Safe /\ [Next]_vars => Safe'
  BY TypeNext, StepsNext, ProcessNext, StreamNext, UnbornNext, OwnedNext, TakenNext,
     OneCloserNext
  DEF Safe

(* The inductive invariant holds throughout. *)
LEMMA SafeAlways == Spec => []Safe
  BY SafeInit, SafeNext, PTL DEF Spec

(* Types, and every mutex is held by the call that acts as its owner and   *)
(* by no other, for any number of calls (src/session.rs, src/worker.rs).   *)
THEOREM WorkerTypeCorrect == Spec => []TypeOK
<1>1. Safe => TypeOK
  BY DEF Safe
<1> QED
  BY <1>1, SafeAlways, PTL

(* The supervisor publishes the end of the session only after the worker   *)
(* is reaped and everything it wrote has been delivered.                   *)
THEOREM TerminalEventIsAlwaysLast == Spec => []TerminalEventIsLast
<1>1. Safe => TerminalEventIsLast
  BY DEF Safe, Process, Stream, TerminalEventIsLast, Gone
<1> QED
  BY <1>1, SafeAlways, PTL

(* A worker that nobody refers to has been reaped, joined and closed, and  *)
(* a closed session holds none, however the close and the open interleave. *)
THEOREM WorkerNeverOrphaned == Spec => []NoOrphan
<1>1. ASSUME Safe PROVE NoOrphan
  <2>1. ASSUME ~WorkerHeld PROVE ~input
    BY <1>1, <2>1, ThreadKinds DEF Safe, Owned, WorkerHeld, Holds, WorkerShutdown
  <2>2. ASSUME ~input
        PROVE  Gone /\ ~handle /\ supervisor \in {"none", "ended"}
    BY <1>1, <2>2 DEF Safe, Owned, Process, Unborn, Gone
  <2>3. Closed \/ pc[Opener] = "closed" => ~slot
    BY <1>1, ThreadKinds DEF Safe, Taken, Closed
  <2> QED
    BY <2>1, <2>2, <2>3 DEF NoOrphan
<1> QED
  BY <1>1, SafeAlways, PTL

(* After rdp_close has returned, the write of a connect command that it    *)
(* overtook fails, and input reaches the worker only while a failed        *)
(* rdp_open that took the worker first is still shutting it down.          *)
THEOREM ClosedSessionsStayQuiet == Spec => NothingSentAfterClose
<1> DEFINE Quiet == Closed => /\ stdin' \notin {Append(stdin, "part"), Append(stdin, "connect")}
                              /\ stdin' = Append(stdin, "input")
                                   => pc[Opener] \in ShutdownSteps
<1>1. ASSUME Safe, [Next]_vars PROVE [Quiet]_vars
  <2> SUFFICES ASSUME Closed PROVE Quiet
    OBVIOUS
  <2>1. stdin \in Seq(Commands)
    BY <1>1 DEF Safe, TypeOK
  <2>2. PICK c \in Closers : pc[c] = "closed"
    BY DEF Closed
  <2>3. /\ ~slot /\ pc[Opener] # "store"
        /\ \A t \in Closers : pc[t] \notin WorkerShutdown
    BY <1>1, <2>2, ThreadKinds DEF Safe, Taken, OneCloser, WorkerShutdown, ShutdownSteps
  <2>4. input => pc[Opener] \in {"check"} \cup WorkerShutdown
    <3>1. \A t \in Operators : pc[t] \notin WorkerShutdown
      BY <1>1 DEF Safe, Steps, OperatorSteps, WorkerShutdown
    <3> QED
      BY <1>1, <2>3, <3>1 DEF Safe, Owned, Threads
  <2>5. CASE SendWrites(Opener)
    BY <2>4, <2>5 DEF SendWrites, WorkerShutdown
  <2>12. CASE SendPart
    BY <2>4, <2>12 DEF SendPart, WorkerShutdown
  <2>6. ASSUME NEW t \in Operators, SendWrites(t) PROVE Quiet
    <3>1. stdin' = Append(stdin, "input")
      BY <2>6, ThreadKinds DEF SendWrites
    <3>2. pc[Opener] # "check"
      BY <1>1, <2>6 DEF Safe, Steps, OperatorSteps, OneCloser, SendWrites
    <3>3. pc[Opener] \in ShutdownSteps
      BY <2>4, <2>6, <3>2 DEF SendWrites, WorkerShutdown, ShutdownSteps
    <3>4. Append(stdin, "input") \notin {Append(stdin, "part"), Append(stdin, "connect")}
      BY <2>1 DEF Commands
    <3> QED
      BY <3>1, <3>3, <3>4
  <2>7. CASE \/ UNCHANGED stdin
             \/ stdin' = Append(stdin, "disconnect")
             \/ stdin # << >> /\ stdin' = Tail(stdin)
             \/ stdin' = << >>
    <3>1. /\ Append(stdin, "part") \notin {stdin, << >>, Append(stdin, "disconnect")}
          /\ Append(stdin, "connect") \notin {stdin, << >>, Append(stdin, "disconnect")}
          /\ Append(stdin, "input") \notin {stdin, << >>, Append(stdin, "disconnect")}
      BY <2>1 DEF Commands
    <3>2. stdin # << >> =>
            Tail(stdin) \notin {Append(stdin, "part"), Append(stdin, "connect"),
                                Append(stdin, "input")}
      BY <2>1 DEF Commands
    <3> QED
      BY <2>7, <3>1, <3>2
  <2>8. CASE CallStep /\ ~SendPart /\ ~ \E t \in Threads \ Closers : SendWrites(t)
    <3>1. UNCHANGED stdin \/ stdin' = Append(stdin, "disconnect")
      BY <2>8
         DEF CallStep, SendStep, ShutdownStep, OpenInsert, Spawn, SpawnFails, CheckSlot,
             Store, AwaitReturns, AwaitTimesOut, OpenRemove, ConnectTooLarge, SendPart, SendLock,
             SendFails, ShutdownStops, TakeSlot, RequestClose, TryInput, Farewell,
             AcquireHandle, Join, DropInput, CloseRemove, OperationStarts, CloneSlot,
             OperationFails
    <3> QED
      BY <2>7, <3>1
  <2>9. CASE WatchStep \/ WorkerStep
    BY <2>7, <2>9, OthersDoNotWrite
  <2>10. CASE UNCHANGED vars
    BY <2>7, <2>10 DEF vars
  <2>11. \A t \in Threads \ Closers : t = Opener \/ t \in Operators
    BY DEF Threads
  <2> QED
    BY <1>1, <2>5, <2>6, <2>8, <2>9, <2>10, <2>11, <2>12, StepKinds
<1> QED
  BY <1>1, SafeAlways, PTL DEF Spec, NothingSentAfterClose

=============================================================================
