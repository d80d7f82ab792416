------------------------------ MODULE ClipLocal ------------------------------
(***************************************************************************)
(* What the native helper offers to the remote clipboard: text and files   *)
(* of the local side (cliprdr.c and the local half of cliprdr_file.c).     *)
(*                                                                         *)
(* Two threads meet here.  The command thread runs cliprdr_set_text and    *)
(* cliprdr_file_set_local_files + cliprdr_announce_files; the event loop   *)
(* thread runs every callback.  An action is one critical section, except  *)
(* that a thread's consecutive sections are one action where the other     *)
(* thread cannot tell: the event loop does not change the staged files, so *)
(* looking at them and clearing them is one step.                          *)
(*                                                                         *)
(* In the Windows build the clipboard thread makes the same calls, for     *)
(* what the user copies (on_local_clipboard_changed).  Its calls are among *)
(* those of the command thread here: the two are taken one after the       *)
(* other, and what happens when they overlap is not modelled.              *)
(*                                                                         *)
(* The two tick counters stand for s_last_format_list_ms and               *)
(* s_last_reject_ms: the time since then, up to the interval that matters. *)
(***************************************************************************)
EXTENDS Integers, Sequences, SequencesExt

CONSTANTS
  Texts, NoText,     \* clipboard texts, and the NULL pointer
  Files,             \* local files; other items of a list are malformed
  FileLists,         \* the arrays a clipboard_set_files command may hold
  MaxLocalFiles,     \* MAX_LOCAL_FILES
  TextId, OurId,     \* CF_UNICODETEXT and the fixed 0xC0BC
  ServerIds,         \* ids the server uses for FileGroupDescriptorW
  LockIds,           \* ids of the server's locks
  MinInterval,       \* FORMAT_LIST_MIN_INTERVAL_MS, in ticks
  Backoff            \* REJECT_BACKOFF_MS, in ticks

ASSUME TextAssumption == NoText \notin Texts
ASSUME IdAssumption ==
  /\ TextId \in Nat \ {0} /\ OurId \in Nat \ {0, TextId}
  /\ ServerIds \subseteq Nat \ {0, TextId}

(* A list of malformed items only, which leaves an array of no entries      *)
(* instead of none, is left out.                                           *)
ASSUME ListAssumption ==
  \A list \in FileLists :
    Len(list) \in Nat /\ (list = << >> \/ \E i \in DOMAIN list : list[i] \in Files)
ASSUME IntervalAssumption == MinInterval \in Nat /\ Backoff \in Nat /\ MaxLocalFiles \in Nat

VARIABLES
  up, ready,         \* s_cliprdr # NULL, s_ready
  text,              \* s_client_text
  files,             \* s_local_files: the staged list, << >> for none
  fgdId,             \* s_fgd_format_id, 0 for unknown
  rejected,          \* s_format_list_rejected
  sinceList, sinceReject,
  cmd,               \* where the command thread is in a clipboard command
  reading,           \* the file whose contents the event loop thread is reading
  serverLock,        \* s_server_lock_id and s_server_has_lock
  told, shown,       \* the server's view: our last list, our last descriptors
  locked,            \* and the descriptors it had when it took its lock
  failed             \* a format list could not be sent

chanVars == <<up, ready>>
listVars == <<fgdId, rejected, sinceList, told, failed>>
serveVars == <<reading, serverLock, locked>>
vars == <<up, ready, text, files, fgdId, rejected, sinceList, sinceReject, cmd,
          reading, serverLock, told, shown, locked, failed>>

Ids == {0, TextId, OurId} \cup ServerIds

(* The items of a command that cliprdr_file_set_local_files keeps: strings. *)
OnlyFiles(list) ==
  FlattenSeq([i \in 1 .. Len(list) |-> IF list[i] \in Files THEN <<list[i]>> ELSE << >>])
Lists == {OnlyFiles(list) : list \in FileLists} \cup {<< >>}
Idle == [at |-> "idle", text |-> NoText, hadFiles |-> FALSE]
Dead == [Idle EXCEPT !.at = "dead"]
NothingTold == [id |-> 0, text |-> NoText]

TypeOK ==
  /\ {up, ready, rejected, failed} \subseteq BOOLEAN
  /\ text \in Texts \cup {NoText}
  /\ files \in Lists /\ shown \in Lists /\ locked \in Lists
  /\ fgdId \in Ids \ {TextId}
  /\ sinceList \in 0..MinInterval /\ sinceReject \in 0..Backoff
  /\ cmd \in [at : {"idle", "text", "announce", "dead"}, text : Texts \cup {NoText}, hadFiles : BOOLEAN]
  /\ reading \in SUBSET [index : Nat, file : Files]
  /\ serverLock \in [id : LockIds \cup {0}, held : BOOLEAN]
  /\ told \in [id : Ids, text : Texts \cup {NoText}]

(* cliprdr_init and cliprdr_file_init. *)
Init ==
  /\ up = FALSE /\ ready = FALSE
  /\ text = NoText /\ files = << >> /\ fgdId = 0
  /\ rejected = FALSE /\ sinceList = MinInterval /\ sinceReject = Backoff
  /\ cmd = Idle /\ reading = {} /\ serverLock = [id |-> 0, held |-> FALSE]
  /\ told = NothingTold /\ shown = << >> /\ locked = << >>
  /\ failed = FALSE

(* The same again before the next connection: the previous one has ended,  *)
(* and the command thread is in start_connection.                          *)
StartConnection ==
  /\ ~up /\ cmd = Idle
  /\ text' = NoText /\ files' = << >> /\ fgdId' = 0
  /\ rejected' = FALSE /\ sinceList' = MinInterval /\ sinceReject' = Backoff
  /\ serverLock' = [id |-> 0, held |-> FALSE]
  /\ shown' = << >> /\ locked' = << >>
  /\ UNCHANGED <<up, ready, cmd, reading, told, failed>>

-----------------------------------------------------------------------------
(* Format lists. *)

Limited == \/ rejected /\ sinceReject < Backoff
           \/ sinceList < MinInterval

(* The id a list announces: files come first, under the id last seen. *)
AnnouncedId == IF files = << >> THEN TextId ELSE IF fgdId = 0 THEN OurId ELSE fgdId

(* send_format_list_locked, with the text as it is after the step.  The    *)
(* time is stamped and the rejection forgotten whether the send succeeds   *)
(* or not.                                                                 *)
SendFormatList(bypass, t) ==
  IF ~up \/ (~bypass /\ Limited)
  THEN UNCHANGED listVars
  ELSE /\ fgdId' = IF files = << >> THEN fgdId ELSE AnnouncedId
       /\ sinceList' = 0 /\ rejected' = FALSE
       /\ \/ told' = [id |-> AnnouncedId, text |-> t] /\ UNCHANGED failed
          \/ failed' = TRUE /\ UNCHANGED told

-----------------------------------------------------------------------------
(* The event loop thread.  It is free while it reads no file. *)

ChannelConnected ==
  /\ ~up /\ cmd # Dead /\ up' = TRUE /\ ready' = FALSE
  /\ UNCHANGED <<text, files, fgdId, rejected, sinceList, sinceReject, cmd, shown, told, failed>>
  /\ UNCHANGED serveVars

(* With the channel the server forgets what it was told. *)
ChannelDisconnected ==
  /\ up /\ reading = {}
  /\ up' = FALSE /\ ready' = FALSE
  /\ told' = NothingTold /\ shown' = << >> /\ locked' = << >>
  /\ UNCHANGED <<text, files, fgdId, rejected, sinceList, sinceReject, cmd,
                 reading, serverLock, failed>>

MonitorReadyKeepsText ==
  /\ up /\ reading = {} /\ ready' = TRUE
  /\ SendFormatList(TRUE, text)
  /\ UNCHANGED <<up, text, files, sinceReject, cmd, shown>> /\ UNCHANGED serveVars

(* cb_monitor_ready: the capabilities are sent, older text is dropped and  *)
(* the first list goes out past the limits.  When the capabilities cannot  *)
(* be sent nothing else happens.                                           *)
MonitorReady ==
  /\ up /\ reading = {} /\ ready' = TRUE
  /\ text' = NoText
  /\ SendFormatList(TRUE, NoText)
  /\ UNCHANGED <<up, files, sinceReject, cmd, shown>> /\ UNCHANGED serveVars

(* cb_server_format_list: any list ends a backoff, and one with files      *)
(* brings the server's id for them (cliprdr_file_server_has_files).  The   *)
(* transfer itself is the subject of ClipRemote.                           *)
ServerFormatList(id) ==
  /\ up /\ reading = {}
  /\ rejected' = FALSE
  /\ fgdId' = IF id = 0 THEN fgdId ELSE id
  /\ UNCHANGED <<text, files, sinceList, sinceReject, cmd, told, shown, failed>>
  /\ UNCHANGED chanVars /\ UNCHANGED serveVars

(* cb_server_format_list_response with a refusal. *)
FormatListRejected ==
  /\ up /\ reading = {} /\ told.id # 0
  /\ rejected' = TRUE /\ sinceReject' = 0
  /\ UNCHANGED <<text, files, fgdId, sinceList, cmd, told, shown, failed>>
  /\ UNCHANGED chanVars /\ UNCHANGED serveVars

(* cb_server_format_data_request and cliprdr_file_handle_fgd_request: the  *)
(* descriptors of the staged files; the text, or a refusal, changes        *)
(* nothing here.                                                           *)
FormatDataRequest(id) ==
  /\ up /\ reading = {}
  /\ shown' = IF id = fgdId /\ files # << >> THEN files ELSE shown
  /\ UNCHANGED <<text, files, sinceReject, cmd>> /\ UNCHANGED listVars
  /\ UNCHANGED chanVars /\ UNCHANGED serveVars

(* cb_server_file_contents_request for a range, up to the unlock: the path *)
(* is looked up and the file opened under the mutex.  A bad index, a file  *)
(* that cannot be opened and a size request are answered at once.  The     *)
(* server (external) asks for files it was shown: an index of 2^31 or more *)
(* is none of them, and what the conversion to int makes of it (:519) is   *)
(* not modelled.                                                           *)
ContentsRequest(i) ==
  /\ up /\ reading = {} /\ i < Len(shown) /\ i < Len(files)
  /\ reading' = {[index |-> i, file |-> files[i + 1]]}
  /\ UNCHANGED <<text, files, sinceReject, cmd, serverLock, shown, locked>>
  /\ UNCHANGED listVars /\ UNCHANGED chanVars

(* The position cannot be reached or there is no memory for the data: the  *)
(* request is refused.                                                     *)
ReadFails ==
  /\ reading # {} /\ reading' = {}
  /\ UNCHANGED <<text, files, sinceReject, cmd, serverLock, shown, locked>>
  /\ UNCHANGED listVars /\ UNCHANGED chanVars

(* The rest of it: the mutex is taken again to count the bytes served to   *)
(* the entry with that index, and the answer is sent.  The index is not    *)
(* checked again: with no list left the pointer is NULL and the process    *)
(* dies, past the end of a shorter one it may.                             *)
ContentsServed ==
  /\ reading # {} /\ reading' = {}
  /\ \/ files # << >> /\ UNCHANGED <<up, ready, cmd>>
     \/ /\ \E r \in reading : r.index >= Len(files)
        /\ up' = FALSE /\ ready' = FALSE /\ cmd' = Dead
  /\ UNCHANGED <<text, files, sinceReject, serverLock, shown, locked>>
  /\ UNCHANGED listVars

(* cb_server_lock_clipboard_data and cb_server_unlock_clipboard_data. *)
ServerLocks(id) ==
  /\ up /\ reading = {}
  /\ serverLock' = [id |-> id, held |-> TRUE] /\ locked' = shown
  /\ UNCHANGED <<text, files, sinceReject, cmd, reading, shown>>
  /\ UNCHANGED listVars /\ UNCHANGED chanVars

ServerUnlocks(id) ==
  /\ up /\ reading = {}
  /\ serverLock' = [serverLock EXCEPT !.held = @ /\ serverLock.id # id]
  /\ locked' = IF serverLock.id = id THEN << >> ELSE locked
  /\ UNCHANGED <<text, files, sinceReject, cmd, reading, shown>>
  /\ UNCHANGED listVars /\ UNCHANGED chanVars

-----------------------------------------------------------------------------
(* The command thread. *)

(* cliprdr_set_text up to its own mutex: the staged files are dropped.     *)
(* The clipboard thread of Windows has dropped them before it calls        *)
(* (cleared), so that there are none left to be seen.                      *)
SetText(t, cleared) ==
  /\ cmd = Idle
  /\ cmd' = [at |-> "text", text |-> t, hadFiles |-> files # << >> /\ ~cleared]
  /\ files' = << >>
  /\ UNCHANGED <<text, sinceReject, shown>> /\ UNCHANGED listVars
  /\ UNCHANGED chanVars /\ UNCHANGED serveVars

Duplicate == ~cmd.hadFiles /\ text = cmd.text

(* Identical text is skipped. *)
SkipText ==
  /\ cmd.at = "text" /\ Duplicate
  /\ cmd' = Idle
  /\ UNCHANGED <<text, files, sinceReject, shown>> /\ UNCHANGED listVars
  /\ UNCHANGED chanVars /\ UNCHANGED serveVars

(* Other text is stored, and announced when the channel is ready. *)
StoreText ==
  /\ cmd.at = "text" /\ ~Duplicate
  /\ cmd' = Idle /\ text' = cmd.text
  /\ IF ready THEN SendFormatList(cmd.hadFiles, cmd.text) ELSE UNCHANGED listVars
  /\ UNCHANGED <<files, sinceReject, shown>> /\ UNCHANGED chanVars /\ UNCHANGED serveVars

StagedWithMalformed(list) == IF Len(list) > MaxLocalFiles THEN << >> ELSE list

(* cliprdr_file_set_local_files: a list that is empty or too long only     *)
(* drops the old one; malformed items are left out.                        *)
Staged(list) == IF Len(list) > MaxLocalFiles THEN << >> ELSE OnlyFiles(list)

SetLocalFiles(list) ==
  /\ cmd = Idle /\ cmd' = [Idle EXCEPT !.at = "announce"]
  /\ files' = Staged(list)
  /\ UNCHANGED <<text, sinceReject, shown>> /\ UNCHANGED listVars
  /\ UNCHANGED chanVars /\ UNCHANGED serveVars

AnnounceFilesLimited ==
  /\ cmd.at = "announce" /\ cmd' = Idle
  /\ IF ready /\ files # << >>
     THEN text' = NoText /\ SendFormatList(FALSE, NoText)
     ELSE UNCHANGED text /\ UNCHANGED listVars
  /\ UNCHANGED <<files, sinceReject, shown>> /\ UNCHANGED chanVars /\ UNCHANGED serveVars

(* cliprdr_announce_files: drops the text and sends past the limits. *)
AnnounceFiles ==
  /\ cmd.at = "announce" /\ cmd' = Idle
  /\ IF ready /\ files # << >>
     THEN text' = NoText /\ SendFormatList(TRUE, NoText)
     ELSE UNCHANGED text /\ UNCHANGED listVars
  /\ UNCHANGED <<files, sinceReject, shown>> /\ UNCHANGED chanVars /\ UNCHANGED serveVars

(* GetTickCount64. *)
Tick ==
  /\ sinceList' = IF sinceList < MinInterval THEN sinceList + 1 ELSE sinceList
  /\ sinceReject' = IF sinceReject < Backoff THEN sinceReject + 1 ELSE sinceReject
  /\ UNCHANGED <<text, files, fgdId, rejected, cmd, told, shown, failed>>
  /\ UNCHANGED chanVars /\ UNCHANGED serveVars

CommandThread ==
  \/ StartConnection \/ SkipText \/ StoreText \/ AnnounceFiles
  \/ \E t \in Texts, cleared \in BOOLEAN : SetText(t, cleared)
  \/ \E list \in FileLists : SetLocalFiles(list)

EventLoop ==
  \/ ChannelConnected \/ ChannelDisconnected \/ MonitorReady
  \/ FormatListRejected \/ ReadFails \/ ContentsServed
  \/ \E id \in ServerIds \cup {0} : ServerFormatList(id)
  \/ \E id \in Ids \ {0} : FormatDataRequest(id)
  \/ \E i \in 0..MaxLocalFiles : ContentsRequest(i)
  \/ \E id \in LockIds : ServerLocks(id) \/ ServerUnlocks(id)

Next == CommandThread \/ EventLoop \/ Tick

Spec == Init /\ [][Next]_vars

-----------------------------------------------------------------------------
(* Properties. *)

(* On a ready channel the local side offers text or files, never both:     *)
(* otherwise a server that was told of files could still fetch old text.   *)
(* The command thread may be between its two sections.                     *)
OneClipboard == ready /\ cmd = Idle => text = NoText \/ files = << >>

(* Once the command thread is done, files that are staged on a ready       *)
(* channel have been announced, whatever the handshake, the limits and the *)
(* server's own lists did in between, unless a send has failed.            *)
StagedFilesAreAnnounced ==
  ready /\ cmd = Idle /\ files # << >> /\ ~failed => told.id \notin {0, TextId}

(* What the local side offers is one thing, it is what the server was told *)
(* of, and lists hold only files that passed cliprdr_file_set_local_files. *)
OfferIsConsistent == TypeOK /\ OneClipboard /\ StagedFilesAreAnnounced

-----------------------------------------------------------------------------
(* Statements that the code does not keep in every case (see the README).  *)

(* "Store the ID so cb_server_format_data_request can match it"            *)
(* (cliprdr.c:98): a request for the files under the announced id is       *)
(* recognised as long as they are staged.  A list of the server's own      *)
(* files, sent before it had ours, overwrites the id.                      *)
AnnouncedIdIsKnown ==
  told.id \notin {0, TextId} /\ files # << >> => fgdId = told.id

(* "MUST tell the server we now have CF_UNICODETEXT instead"               *)
(* (cliprdr.c:502): text that takes the place of announced files is        *)
(* announced.  After the clipboard thread of Windows has cleared the files *)
(* itself (cliprdr_win32.c:192) the limits are not bypassed.               *)
TextReplacesFiles ==
  [][StoreText /\ ready /\ ~failed' => told'.id = TextId]_vars

(* "skip if identical text is already stored and announced"                *)
(* (cliprdr.c:477): text that was stored while rate limited or backing off *)
(* is skipped as well, so it is never announced.                           *)
SkippedTextWasAnnounced ==
  [][SkipText /\ ready /\ ~failed => told = [id |-> TextId, text |-> text]]_vars

(* "All shared state is protected by a critical section"                   *)
(* (cliprdr_file.h:11): when the bytes of a read are counted, the entry is *)
(* still that of the file that was read.                                   *)
CountsTheFileRead ==
  [][\A r \in reading : ContentsServed =>
       r.index < Len(files) /\ files[r.index + 1] = r.file]_vars

(* "Server locks clipboard data during multi-file transfer"                *)
(* (cliprdr_file.c:807): while it holds the lock, the server is served the *)
(* files whose descriptors it was given.                                   *)
LockedListIsServed ==
  \A r \in reading : serverLock.held /\ r.index < Len(locked)
                       => locked[r.index + 1] = r.file
=============================================================================
