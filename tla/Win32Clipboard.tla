--------------------------- MODULE Win32Clipboard ---------------------------
(***************************************************************************)
(* cliprdr_win32.c: the thread that ties the Windows clipboard to the      *)
(* remote one.  It owns a hidden window; the system posts                  *)
(* WM_CLIPBOARDUPDATE to it when the clipboard changes, the event loop     *)
(* thread posts what the server copied, and s_we_set_clipboard tells the   *)
(* two apart.                                                              *)
(*                                                                         *)
(* Windows is external: a window has one queue, served in order; closing   *)
(* the clipboard after a change posts WM_CLIPBOARDUPDATE to the listener.  *)
(* PostMessageW to a window that exists succeeds; the code looks at its    *)
(* result nowhere but for the copies of the server, and a WM_CLIPRDR_CLEAR *)
(* that could not be posted would leave the guard up until the next write. *)
(***************************************************************************)
EXTENDS Naturals, Sequences

CONSTANTS
  Roots,        \* names of top-level items that downloads leave on disk
  MaxPending,   \* server copies waiting for the clipboard thread
  MaxUpdates,   \* change notices waiting for it
  ThreadInTime  \* it serves its queue within the three seconds of the cleanup

VARIABLES
  thread,       \* where the clipboard thread is
  s_thread,     \* the handle is held
  s_hwnd, s_thread_running, s_ready, s_we_set_clipboard,
  queue,        \* the window's message queue
  handler,      \* the message whose handler has not returned, and its step
  clip,         \* the Windows clipboard: who wrote it, and what can be read
  forwarded,    \* what was last passed on to the remote clipboard
  cleanup       \* "no", "waiting", "returned": cliprdr_win32_cleanup

vars == <<thread, s_thread, s_hwnd, s_thread_running, s_ready,
          s_we_set_clipboard, queue, handler, clip, forwarded, cleanup>>
windowVars == <<thread, s_thread, s_hwnd, s_thread_running, s_ready, cleanup>>

Formats == {"files", "text"}
Clips == [by : {"us", "user"}, formats : SUBSET Formats]
Msg(kind) == [kind |-> kind, formats |-> {}]
SetMsg(kind) == [kind |-> "SET", formats |-> {kind}]
Idle == [at |-> "idle", formats |-> {}]
Count(kind) == Len(SelectSeq(queue, LAMBDA m : m.kind = kind))
Waits(kind) == \E i \in 1 .. Len(queue) : queue[i].kind = kind

(* The first change of the clipboard is the user's. *)
Init ==
  /\ thread = "none" /\ s_thread = FALSE /\ s_hwnd = FALSE
  /\ s_thread_running = FALSE /\ s_ready = FALSE
  /\ s_we_set_clipboard = FALSE /\ queue = <<>> /\ handler = Idle
  /\ clip = [by |-> "user", formats |-> {}]
  /\ forwarded = clip /\ cleanup = "no"

(***************************************************************************)
(* The main thread.                                                        *)
(***************************************************************************)
(* cliprdr_win32_init, once at startup; CreateThread may fail. *)
Win32Init ==
  /\ cleanup = "no" /\ ~s_thread /\ thread = "none"
  /\ s_ready' = FALSE /\ s_we_set_clipboard' = FALSE
  /\ \/ s_thread' = TRUE /\ thread' = "starting"
     \/ UNCHANGED <<s_thread, thread>>
  /\ UNCHANGED <<s_hwnd, s_thread_running, queue, handler, clip, forwarded, cleanup>>

(* cliprdr_win32_cleanup up to WaitForSingleObject(s_thread, 3000) ... *)
CleanupPosts ==
  /\ cleanup = "no"
  /\ s_ready' = FALSE
  /\ queue' = IF s_hwnd THEN Append(queue, Msg("SHUTDOWN")) ELSE queue
  /\ cleanup' = IF s_thread THEN "waiting" ELSE "returned"
  /\ UNCHANGED <<thread, s_thread, s_hwnd, s_thread_running, s_we_set_clipboard,
                 handler, clip, forwarded>>

(* ... which ends when the thread does, or after the three seconds: only if *)
(* the thread has not been told to end, when it takes its messages in time. *)
CleanupReturns ==
  /\ cleanup = "waiting"
  /\ ThreadInTime => thread = "done" \/ (thread # "quit" /\ ~Waits("SHUTDOWN"))
  /\ cleanup' = "returned" /\ s_thread' = FALSE
  /\ UNCHANGED <<thread, s_hwnd, s_thread_running, s_ready, s_we_set_clipboard,
                 queue, handler, clip, forwarded>>

(***************************************************************************)
(* The event loop thread: channel callbacks.                               *)
(***************************************************************************)
(* cliprdr_win32_set_ready, as the channel connects and disconnects *)
SetReady(ready) ==
  /\ cleanup = "no" /\ s_ready # ready /\ s_ready' = ready
  /\ UNCHANGED <<thread, s_thread, s_hwnd, s_thread_running, s_we_set_clipboard,
                 queue, handler, clip, forwarded, cleanup>>

IsActive == s_thread_running /\ s_hwnd

(* A copy waits from its SET until its CLEAR. *)
Pending == Count("SET") + Count("CLEAR") + (IF handler = Idle THEN 0 ELSE 1)

Post(m) == Pending < MaxPending /\ queue' = Append(queue, m)

(* Text has come from the server: cliprdr_win32_set_text *)
SetText ==
  /\ IsActive /\ Post(SetMsg("text"))
  /\ UNCHANGED <<s_we_set_clipboard, handler, clip, forwarded, windowVars>>

(* All files are downloaded: the top-level items of the complete ones, each *)
(* once, go to cliprdr_win32_set_files.                                     *)
SetFiles(complete) ==
  /\ IsActive /\ complete # {} /\ Post(SetMsg("files"))
  /\ UNCHANGED <<s_we_set_clipboard, handler, clip, forwarded, windowVars>>

(***************************************************************************)
(* The clipboard thread.                                                   *)
(***************************************************************************)
(* Registering the class, the window or the listener fails. *)
StartFails ==
  /\ thread = "starting" /\ thread' = "done"
  /\ UNCHANGED <<s_thread, s_hwnd, s_thread_running, s_ready, s_we_set_clipboard,
                 queue, handler, clip, forwarded, cleanup>>

CreateWindow ==
  /\ thread = "starting" /\ thread' = "window" /\ s_hwnd' = TRUE
  /\ UNCHANGED <<s_thread, s_thread_running, s_ready, s_we_set_clipboard,
                 queue, handler, clip, forwarded, cleanup>>

(* AddClipboardFormatListener fails: the window is destroyed again. *)
ListenFailsKeepsWindow ==
  /\ thread = "window" /\ thread' = "done"
  /\ UNCHANGED <<s_thread, s_hwnd, s_thread_running, s_ready, s_we_set_clipboard,
                 queue, handler, clip, forwarded, cleanup>>
ListenFails ==
  /\ thread = "window" /\ thread' = "done" /\ s_hwnd' = FALSE /\ queue' = <<>>
  /\ UNCHANGED <<s_thread, s_thread_running, s_ready, s_we_set_clipboard,
                 handler, clip, forwarded, cleanup>>

Listen ==
  /\ thread = "window" /\ thread' = "pump" /\ s_thread_running' = TRUE
  /\ UNCHANGED <<s_thread, s_hwnd, s_ready, s_we_set_clipboard,
                 queue, handler, clip, forwarded, cleanup>>

Take(kind) ==
  /\ thread \in {"pump", "quit"} /\ handler = Idle /\ queue # <<>>
  /\ Head(queue).kind = kind /\ queue' = Tail(queue)

(* WM_CLIPBOARDUPDATE: on_local_clipboard_changed reads the clipboard as it *)
(* is now, files before text, unless it cannot be opened.                   *)
Update ==
  /\ Take("UPDATE")
  /\ \/ /\ ~s_we_set_clipboard /\ s_ready /\ clip.formats # {}
        /\ forwarded' = [clip EXCEPT !.formats =
             IF "files" \in @ THEN {"files"} ELSE {"text"}]
     \/ UNCHANGED forwarded
  /\ UNCHANGED <<s_we_set_clipboard, handler, clip, windowVars>>

(* WM_CLIPRDR_SET_TEXT and SET_FILES *)
SetBeginsUnguarded ==
  /\ Take("SET")
  /\ handler' = [at |-> "open", formats |-> Head(queue).formats]
  /\ UNCHANGED <<s_we_set_clipboard, clip, forwarded, windowVars>>
SetBegins ==
  /\ Take("SET")
  /\ s_we_set_clipboard' = TRUE
  /\ handler' = [at |-> "open", formats |-> Head(queue).formats]
  /\ UNCHANGED <<clip, forwarded, windowVars>>

(* The clipboard is emptied, filled and closed; filling it may fail. *)
Write ==
  /\ handler.at = "open" /\ handler' = [handler EXCEPT !.at = "close"]
  /\ \E f \in {handler.formats, {}} : clip' = [by |-> "us", formats |-> f]
  /\ queue' = Append(queue, Msg("UPDATE"))
  /\ UNCHANGED <<s_we_set_clipboard, forwarded, windowVars>>

(* open_clipboard_retry gives up after three attempts. *)
OpenFails ==
  /\ handler.at = "open" /\ handler' = [handler EXCEPT !.at = "close"]
  /\ UNCHANGED <<s_we_set_clipboard, queue, clip, forwarded, windowVars>>

SetEndsWithoutClear ==
  /\ handler.at = "close" /\ handler' = Idle
  /\ UNCHANGED <<queue, s_we_set_clipboard, clip, forwarded, windowVars>>
SetEnds ==
  /\ handler.at = "close" /\ handler' = Idle
  /\ queue' = Append(queue, Msg("CLEAR"))
  /\ UNCHANGED <<s_we_set_clipboard, clip, forwarded, windowVars>>

ClearFlag ==
  /\ Take("CLEAR") /\ s_we_set_clipboard' = FALSE
  /\ UNCHANGED <<handler, clip, forwarded, windowVars>>

(* PostQuitMessage: WM_QUIT is retrieved when no posted message is left. *)
ShutdownIgnored ==
  /\ Take("SHUTDOWN") /\ UNCHANGED thread
  /\ UNCHANGED <<s_thread, s_hwnd, s_thread_running, s_ready, cleanup,
                 s_we_set_clipboard, handler, clip, forwarded>>
Shutdown ==
  /\ Take("SHUTDOWN") /\ thread' = "quit"
  /\ UNCHANGED <<s_thread, s_hwnd, s_thread_running, s_ready, cleanup,
                 s_we_set_clipboard, handler, clip, forwarded>>

(* GetMessage returns 0; the window and what is posted to it are destroyed. *)
Quit ==
  /\ thread = "quit" /\ handler = Idle /\ queue = <<>>
  /\ thread' = "done" /\ s_hwnd' = FALSE /\ s_thread_running' = FALSE
  /\ UNCHANGED <<s_thread, s_ready, cleanup, s_we_set_clipboard,
                 queue, handler, clip, forwarded>>

(***************************************************************************)
(* Another program changes the clipboard (external); it cannot while the   *)
(* handler has it open, that is within Write.                              *)
(***************************************************************************)
UserCopies(formats) ==
  /\ Count("UPDATE") < MaxUpdates
  /\ clip' = [by |-> "user", formats |-> formats]
  /\ queue' = IF thread \in {"pump", "quit"} THEN Append(queue, Msg("UPDATE")) ELSE queue
  /\ UNCHANGED <<s_we_set_clipboard, handler, forwarded, windowVars>>

Posts ==
  \/ SetText
  \/ \E complete \in SUBSET Roots : SetFiles(complete)
  \/ \E formats \in SUBSET Formats : UserCopies(formats)

ClipboardThread ==
  \/ StartFails \/ CreateWindow \/ ListenFails \/ Listen
  \/ Update \/ SetBegins \/ Write \/ OpenFails \/ SetEnds \/ ClearFlag
  \/ Shutdown \/ Quit

Next ==
  \/ Win32Init \/ CleanupPosts \/ CleanupReturns
  \/ \E ready \in BOOLEAN : SetReady(ready)
  \/ Posts \/ ClipboardThread

Spec == Init /\ [][Next]_vars

(* The system schedules the clipboard thread. *)
FairSpec == Spec /\ WF_vars(ClipboardThread)

(***************************************************************************)
(* Properties.                                                             *)
(***************************************************************************)
(* The queue holds known messages; window, listener and flag exist only as *)
(* far as the thread has come (cliprdr_win32.c, 41-48).                    *)
TypeOK ==
  /\ \A i \in 1 .. Len(queue) :
       queue[i].kind \in {"SET", "UPDATE", "CLEAR", "SHUTDOWN"}
  /\ handler.at \in {"idle", "open", "close"}
  /\ clip \in Clips /\ forwarded \in Clips
  /\ s_hwnd <=> thread \in {"window", "pump", "quit"}
  /\ s_thread_running <=> thread \in {"pump", "quit"}
  /\ ~s_hwnd => queue = <<>> /\ handler = Idle
  /\ s_thread => thread # "none"

(* No copy of the server is taken while the guard of an earlier one waits  *)
(* to come down.                                                           *)
OneCopyAtATime == handler # Idle => ~Waits("CLEAR")

(* Echo prevention: copies of the server that are handled one at a time    *)
(* are never passed back to it as local copies, whatever the user copies   *)
(* and whichever step of the handler fails.  When they overlap, what is    *)
(* passed back is a copy whose own CLEAR is still waiting.                 *)
EchoPrevented ==
  /\ []OneCopyAtATime => [](forwarded.by = "user")
  /\ [][forwarded' # forwarded /\ forwarded'.by = "us" => Waits("CLEAR")]_vars

(* The guard is only ever up for a write under way: it comes down again, or *)
(* no later copy of the user would be passed on.                            *)
FlagClears == s_we_set_clipboard ~> (~s_we_set_clipboard \/ thread = "done")

(* A thread told to shut down destroys its window, once no more changes of *)
(* the clipboard come in.                                                  *)
WindowGoesAway ==
  <>[][~Posts]_vars => (Waits("SHUTDOWN") ~> ~s_hwnd)

-----------------------------------------------------------------------------
(* Statements that the code does not keep in every case (see the README).  *)

(* WM_CLIPBOARDUPDATE ignores only the change this thread made: a change   *)
(* of the user that is still on the clipboard is passed on, or a notice of *)
(* it is still waiting.                                                    *)
IgnoredChangeIsOurs ==
  [][Take("UPDATE") /\ s_we_set_clipboard =>
       clip.by = "us" \/ \E i \in 1 .. Len(queue') : queue'[i].kind = "UPDATE"]_vars

(* cliprdr_win32_cleanup joins the clipboard thread. *)
CleanupJoins == cleanup = "returned" => thread \in {"none", "done"}
=============================================================================
