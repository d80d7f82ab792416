------------------------------- MODULE Output -------------------------------
(***************************************************************************)
(* The output of the native side (output.c): the thread that gives         *)
(* commands, the event loop thread and the clipboard thread write messages *)
(* to one stream, or to a callback that has to be called by one of them at *)
(* a time.  A message is a header and up to two more writes; a reader      *)
(* takes as much after a header as its length field says.                  *)
(***************************************************************************)
EXTENDS Naturals, Sequences

CONSTANTS
  Writers,     \* the threads
  MaxWrites    \* writes to the stream after which no message begins

VARIABLES
  out,         \* "none", "stream" (g_binary_out) or "callback"
  inited,      \* g_output_initialized: the mutex exists
  mutex,       \* who holds output_mutex
  doing,       \* the message each thread writes and how far it is
  stream,      \* what was written
  calling      \* the threads inside the callback

vars == <<out, inited, mutex, doing, stream, calling>>

Nobody == "nobody"
Idle == [kind |-> "none", at |-> 0]
Kinds == {"json", "empty", "bitmap"}

(* Writes after the header: the JSON text, nothing for CURSOR_NULL and     *)
(* CURSOR_DEFAULT, the region and the pixels of a bitmap or a cursor.      *)
Payload(kind) == CASE kind = "json" -> 1 [] kind = "empty" -> 0 [] kind = "bitmap" -> 2
LengthWithoutRegion(kind) == IF kind = "empty" THEN 0 ELSE 1
Length(kind) == Payload(kind)

Init ==
  /\ out = "none" /\ inited = FALSE /\ mutex = Nobody
  /\ doing = [w \in Writers |-> Idle] /\ stream = <<>> /\ calling = {}

Quiet == \A w \in Writers : doing[w] = Idle

(* output_init and output_init_callback, before any thread is started. *)
OutputInit(mode) ==
  /\ out = "none" /\ Quiet
  /\ out' = mode /\ inited' = TRUE
  /\ UNCHANGED <<mutex, doing, stream, calling>>

(* output_cleanup, once the other threads are waited for (see the property *)
(* LoopUsesWhatExists of NativeRuntime).                                   *)
OutputCleanup ==
  /\ inited /\ Quiet
  /\ out' = "none" /\ inited' = FALSE
  /\ UNCHANGED <<mutex, doing, stream, calling>>

(* output_send, output_send_bitmap and output_send_cursor: the check at    *)
(* the beginning,                                                          *)
Check(w, kind) ==
  /\ doing[w] = Idle /\ out # "none"
  /\ Len(stream) < MaxWrites
  /\ doing' = [doing EXCEPT ![w] = [kind |-> kind, at |-> 0]]
  /\ UNCHANGED <<out, inited, mutex, stream, calling>>

LeaveLocked(w) ==
  /\ doing[w] # Idle /\ doing[w].at = Payload(doing[w].kind) + 2
  /\ mutex' = IF mutex = w /\ out = "stream" THEN Nobody ELSE mutex
  /\ doing' = [doing EXCEPT ![w] = Idle]
  /\ UNCHANGED <<out, inited, stream, calling>>

EnterWithoutLock(w) ==
  /\ doing[w] # Idle /\ doing[w].at = 0
  /\ doing' = [doing EXCEPT ![w].at = 1]
  /\ UNCHANGED <<out, inited, mutex, stream, calling>>

(* EnterCriticalSection, *)
Enter(w) ==
  /\ doing[w] # Idle /\ doing[w].at = 0 /\ inited /\ mutex = Nobody
  /\ mutex' = w /\ doing' = [doing EXCEPT ![w].at = 1]
  /\ UNCHANGED <<out, inited, stream, calling>>

(* the call of the callback and its return, *)
Callback(w) ==
  /\ doing[w].at = 1 /\ out = "callback" /\ w \notin calling
  /\ calling' = calling \cup {w}
  /\ UNCHANGED <<out, inited, mutex, doing, stream>>

CallbackReturns(w) ==
  /\ w \in calling /\ calling' = calling \ {w}
  /\ doing' = [doing EXCEPT ![w].at = Payload(doing[w].kind) + 2]
  /\ UNCHANGED <<out, inited, mutex, stream>>

(* the header, *)
WriteHeader(w) ==
  /\ doing[w].at = 1 /\ out = "stream"
  /\ stream' = Append(stream, [by |-> w, head |-> TRUE, length |-> Length(doing[w].kind)])
  /\ doing' = [doing EXCEPT ![w].at = 2]
  /\ UNCHANGED <<out, inited, mutex, calling>>

(* and what follows it, *)
WritePayload(w) ==
  /\ doing[w].at > 1 /\ doing[w].at < Payload(doing[w].kind) + 2 /\ out = "stream"
  /\ stream' = Append(stream, [by |-> w, head |-> FALSE, length |-> 0])
  /\ doing' = [doing EXCEPT ![w].at = @ + 1]
  /\ UNCHANGED <<out, inited, mutex, calling>>

(* fflush and LeaveCriticalSection. *)
Leave(w) ==
  /\ doing[w] # Idle /\ doing[w].at = Payload(doing[w].kind) + 2
  /\ mutex' = IF mutex = w THEN Nobody ELSE mutex
  /\ doing' = [doing EXCEPT ![w] = Idle]
  /\ UNCHANGED <<out, inited, stream, calling>>

Write(w) ==
  Enter(w) \/ Callback(w) \/ CallbackReturns(w) \/ WriteHeader(w) \/ WritePayload(w) \/ Leave(w)

Next ==
  \/ \E mode \in {"stream", "callback"} : OutputInit(mode)
  \/ OutputCleanup
  \/ \E w \in Writers : Write(w) \/ \E kind \in Kinds : Check(w, kind)

Spec == Init /\ [][Next]_vars

(* A thread that holds the mutex goes on.  Which waiting thread gets it    *)
(* next is not promised.                                                   *)
FairSpec == Spec /\ \A w \in Writers : WF_vars(Write(w))

-----------------------------------------------------------------------------
(* Properties. *)

(* The lengths of the headers cut the stream into the messages that were   *)
(* written: after a header comes exactly what the same thread wrote with   *)
(* it, and then the next header.                                           *)
StreamIsFramed ==
  \A i \in 1 .. Len(stream) : stream[i].head =>
    /\ \A k \in 1 .. stream[i].length :
         i + k <= Len(stream) => ~stream[i + k].head /\ stream[i + k].by = stream[i].by
    /\ i + stream[i].length < Len(stream) => stream[i + stream[i].length + 1].head

(* The callback, which has no lock of its own, is not called twice at a time. *)
CallbackAlone == \A v, w \in calling : v = w

(* The mutex is always released again, on every path of a send. *)
MutexIsReleased == mutex # Nobody ~> mutex = Nobody
=============================================================================
