-------------------------- MODULE MCClipboardLocal --------------------------
(***************************************************************************)
(* The local clipboard: what is offered to the server, the thread that     *)
(* ties it to the clipboard of Windows, and the names of downloaded files. *)
(* A behaviour is one of one of the three, chosen at the beginning; the    *)
(* others stay in their initial states.                                    *)
(***************************************************************************)
EXTENDS MCClipLocal

CONSTANTS Roots, MaxPending, MaxUpdates, ThreadInTime, Letters, Builds, MaxLength

VARIABLES
  part,
  thread, s_thread, s_hwnd, s_thread_running, s_ready, s_we_set_clipboard,
  queue, handler, clip, forwarded, cleanup,
  name, len, at, p, base

Windows == INSTANCE Win32Clipboard
Names == INSTANCE FileNames

ASSUME BoundsAssumption ==
  /\ MaxPending \in Nat /\ MaxUpdates \in Nat /\ ThreadInTime \in BOOLEAN
  /\ MaxLength \in Nat /\ Builds \subseteq BOOLEAN
  /\ Letters \cap (Names!Separators \cup {Names!Dot, Names!Underscore}) = {}

windowsVars ==
  <<thread, s_thread, s_hwnd, s_thread_running, s_ready, s_we_set_clipboard,
    queue, handler, clip, forwarded, cleanup>>
nameVars == <<name, len, at, p, base>>
MCVars == <<vars, windowsVars, nameVars, part>>

InChannel(A) == part = "channel" /\ A /\ UNCHANGED <<windowsVars, nameVars, part>>
InWindows(A) == part = "windows" /\ A /\ UNCHANGED <<vars, nameVars, part>>
InNames(A) == part = "names" /\ A /\ UNCHANGED <<vars, windowsVars, part>>

MCInit ==
  /\ Init /\ Windows!Init /\ Names!Init /\ part \in {"channel", "windows", "names"}
  /\ part # "names" => len = 0

MCSpec ==
  /\ MCInit
  /\ [][InChannel(Next) \/ InWindows(Windows!Next) \/ InNames(Names!Next)]_MCVars
  /\ WF_MCVars(InWindows(Windows!ClipboardThread))
  /\ WF_MCVars(InNames(Names!Next))

(* Copies of the server that are handled one at a time are never echoed to *)
(* it (cliprdr_win32.c), and the window, its queue and the flag exist as far  *)
(* as the clipboard thread has come.                                       *)
EchoPrevented == Windows!EchoPrevented /\ []Windows!TypeOK

(* The clipboard thread gets on: the guard against echoes comes down       *)
(* again, and a thread that is told to shut down destroys its window.  The *)
(* loops over a name end (cliprdr_win32.c, cliprdr_file.c).                *)
LocalSideGoesOn ==
  Windows!FlagClears /\ Windows!WindowGoesAway /\ (part = "names" => Names!Sanitized)

(* A sanitized name stays below the download directory (cliprdr_file.c),   *)
(* and a name without ".." components is left alone.                       *)
NamesAreSanitized == Names!TypeOK /\ Names!StaysBelow /\ Names!OthersAreKept
=============================================================================
