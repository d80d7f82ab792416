---------------------------- MODULE MCLifecycles ----------------------------
(***************************************************************************)
(* What is opened and closed in three processes that share no state: the   *)
(* sessions of the server, the connections of the native library and those *)
(* of the standalone helper.  A behaviour is one of one of them, chosen at *)
(* the beginning; the others stay in their initial states.                 *)
(***************************************************************************)
EXTENDS SessionRegistry

CONSTANT MaxConnections
ASSUME MaxConnectionsAssumption == MaxConnections \in Nat

VARIABLES
  part,
  running, connected, live, thread, current, last,
  initialized, output, instance, handle, at, next, count,
  helperRunning, helperConnected, helperLive, helperThread, helperOpen, helperLast,
  helperInstance, helperHandle, helperAt, helperCount, cause

Library == INSTANCE NativeRuntime WITH open <- current
Standalone == INSTANCE Helper WITH
  running <- helperRunning, connected <- helperConnected, live <- helperLive,
  thread <- helperThread, open <- helperOpen, last <- helperLast,
  instance <- helperInstance, handle <- helperHandle, at <- helperAt, count <- helperCount

libraryVars ==
  <<running, connected, live, thread, current, last,
    initialized, output, instance, handle, at, next, count>>
helperVars ==
  <<helperRunning, helperConnected, helperLive, helperThread, helperOpen, helperLast,
    helperInstance, helperHandle, helperAt, helperCount, cause>>
MCVars == <<vars, libraryVars, helperVars, part>>

InServer(A) == part = "server" /\ A /\ UNCHANGED <<libraryVars, helperVars, part>>
InLibrary(A) == part = "library" /\ A /\ UNCHANGED <<vars, helperVars, part>>
InHelper(A) == part = "helper" /\ A /\ UNCHANGED <<vars, libraryVars, part>>

Connections == 1 .. MaxConnections

MCInit ==
  /\ Init /\ Library!Init /\ Standalone!Init /\ part \in {"server", "library", "helper"}

MCSpec ==
  /\ MCInit
  /\ [][InServer(Next) \/ InLibrary(Library!Next) \/ InHelper(Standalone!Next)]_MCVars
  /\ WF_MCVars(InServer(TaskStep)) /\ WF_MCVars(InServer(ShutdownReturns))
  /\ \A s \in Sessions : WF_MCVars(InServer(Opener(s)))
  /\ WF_MCVars(InLibrary(Library!Progress)) /\ WF_MCVars(InHelper(Standalone!Main))
  /\ \A n \in Connections : WF_MCVars(InLibrary(Library!Thread(n)))
  /\ \A n \in Connections : WF_MCVars(InHelper(Standalone!Thread(n)))

(* FreeRDP instances are neither freed under an event loop thread nor lost *)
(* (library.c, main.c), and the handles of the library are of one          *)
(* connection.                                                             *)
InstancesAreKept ==
  /\ Library!TypeOK /\ Library!LoopUsesWhatExists /\ Library!NoLostInstance
  /\ Standalone!LoopUsesWhatExists

(* The messages of the library's connections come one connection after the *)
(* other: library.c implements ConnectionEvents.                           *)
ConnectionsDoNotMix == Library!ConnectionsDoNotMix

(* The native side gets on: every call of the library returns, the end of  *)
(* a connection is reported, and the helper exits once its loop has ended. *)
NativeSideGoesOn ==
  Library!CallReturns /\ Library!EndIsReported /\ Standalone!HelperExits
=============================================================================
