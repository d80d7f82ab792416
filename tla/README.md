# A TLA+ verification of rdp-mcp

rdp-mcp is a Model Context Protocol server that drives remote desktops. The
server process (Rust, `src/src`) keeps one *session* per remote desktop and starts
one *worker process* per session; the worker links a native library (C,
`src/native/freerdp-helper`) that runs FreeRDP. Paths below are relative to the
repository root.

## 1. Inventory of the system

| component | state | operations | interacts with | hard behaviour | what makes it correct |
|---|---|---|---|---|---|
| `SessionState`, `CallbackState` (`src/session.rs`) | connected, disconnected, size, framebuffer, has_frame, frame_version, error; one mutex, one condition variable | native events, `stop`, waits of open / screenshot / resize, copies for screenshots and previews | called by the worker's reader and supervisor threads, MCP calls, viewers | events in any order, late events after a close, resize between wait and copy, three kinds of waiters on one condition variable | no copy outside a buffer, one key names one picture, a stopped session is final, no lost wake-up, calls return |
| `WorkerProcess` (`src/worker.rs`) | stdin handle, control channel, supervisor handle; a reader and a supervisor thread | spawn, send, shutdown | owned by the session's slot and cloned by senders | hung worker with a full pipe, crash inside a message, deadline against exit, two shutdowns | no orphan process, close always returns, terminal event last |
| `SessionManager` (`src/session.rs`) | registry of sessions, closed flag | open, close, list, get, shutdown | calls sessions without holding its lock | open racing close and shutdown | every worker has an owner, nothing outlives shutdown |
| input operations (`src/session.rs`, `src/keyboard.rs`) | per-session operation mutex | click, drag, scroll, text, chords | send commands, pause on the condition variable | interruption half way | operations do not interleave; what is pressed is released |
| worker main loop (`src/worker.rs` `run`) | connected flag, output mutex | one command at a time | native library, parent through two pipes | native calls that never return | READY only after connect; error then exit |
| preview (`src/preview.rs`) | cached JPEG and its key per viewer | poll, encode, send | reads the session state with `try_lock` | resize back to a cached size | never sends a stale picture |
| native runtime (`library.c`, `connection.c`) | instance, event thread, three flags | initialize, connect, disconnect, shutdown, event loop | worker main loop and FreeRDP callbacks | a connection that ends while it is stopped or replaced | no use after free, messages of connections do not mix |
| painting (`connection.c`, `pointer.c`) | frame buffer, damaged region, pointers | begin and end of paint, resize, pointer callbacks | FreeRDP, output | settings and buffer of different sizes, failed allocations | bitmaps of the buffer, nothing left unsent |
| output (`output.c`) | stream or callback, mutex | messages of three shapes | three threads | pieces of messages of several threads | framing |
| commands (`protocol.c`, `input.c`, dispatch of `library.c`) | memory of the command; what the server holds down | parse, dispatch, translate, free | cJSON, FreeRDP | defaults, narrowing, extreme numbers | no leak, releases release, the wheel turns as asked |
| display control (`disp.c`) | channel, activated flag, queue of one layout, initial layout, time of last send | init, connect, caps, disconnect, request, check | command thread and event loop thread | reconnection, cooldown | requests in order, newest one wins, legal sizes, rate limit |
| clipboard, local to server (`cliprdr.c`, `cliprdr_file.c`) | text or staged files, format id, rate limit and back-off, the server's lock | set text, stage files, announce, serve requests | command thread and event loop thread | suppressed announcements, lists replaced while a file is read | one clipboard, what is staged is announced |
| clipboard, server to local (`cliprdr.c`, `cliprdr_file.c`) | pending kind, file list, download queue, our lock, stream ids | format lists, data and contents answers, download | server, disk | late and refused answers, new copies under way, failing sends | whole files of one copy, released locks, an end to every download |
| file names (`cliprdr_file.c`) | a string in place | normalize, strip, scan | downloads | boundaries | stays below the directory |
| Windows clipboard (`cliprdr_win32.c`) | window, thread, flag against echoes | set text and files, updates, cleanup | Windows messages | own writes and the user's copies interleave | no echo, flag clears, window goes away |
| standalone helper (`main.c`) | the same as the native runtime | commands from standard input, signals | event threads | reconnection, signals at any time | no use after free, it exits |
| image arithmetic (`src/image.rs`), server, CLI, transport (`src/server.rs`, `src/cli.rs`, `src/lib.rs`) | none of their own | adapt MCP calls, scale, encode | manager | order of shutdown | - |

`PROJECT.json` lists the same components with their status, and the hazards with
the line where each one bites.

## 2. The modules

| module | what it is |
|---|---|
| `SessionState` | the state record and, as operators on it, every function that runs under the session mutex |
| `SessionStatus` | abstract specification: the status goes connecting, connected, disconnected and never back |
| `SessionCalls` | the threads that meet at one session's mutex and condition variable |
| `SessionProofs` | the theorems about `SessionCalls` |
| `WorkerLifecycle`, `WorkerProofs` | one session and one worker process from `rdp_open` to the last thread, with both pipes, and the theorems about it |
| `SessionRegistry` | many sessions around one registry |
| `InputEncoding` | operators: the members of a command, what parsing allocates, and the arithmetic of `input.c` and of a drag |
| `InputOps` | compound operations as sequences of commands under the operation lock |
| `Commands` | one command after another through parser, dispatch and `input.c` |
| `InputProofs` | the theorems about `InputOps` and `Commands`, by way of `MCInput` |
| `Disp`, `DispProofs` | the display control channel, and the theorems about it |
| `ConnectionEvents` | abstract specification: the messages of connections come one connection after the other |
| `EventThread` | the event loop thread, shared by the next two |
| `NativeRuntime` | `library.c`: the calling thread beside event threads |
| `Helper` | `main.c`: the command loop beside event threads |
| `LifecycleProofs` | the theorems about `SessionRegistry`, `NativeRuntime` and `Helper`, by way of `MCLifecycles` |
| `PaintClip`, `Paint`, `PaintProofs` | the clipping arithmetic, painting between FreeRDP and the viewer, and the theorems about it and, by way of `MCPainting`, about `Output` |
| `Output` | three threads writing messages |
| `ClipLocal`, `ClipLocalProofs` | the clipboard offered to the server: text, staged files and the requests on them; its theorem, and by way of `MCClipboardLocal` those about `FileNames` and `Win32Clipboard` |
| `ClipRemote`, `ClipRemoteProofs` | the server's clipboard: routing of answers, downloads, locks, and the server itself; its theorems |
| `FileNames` | the sanitizing of names |
| `Win32Clipboard` | the clipboard thread of the Windows build |
| `MC*` | instances for TLC |

### SessionState and SessionCalls

A pixel stands for four bytes, so the framebuffer of `width * height * 4` bytes is
a sequence of `width * height` pixels. An error message is reduced to its origin
(`native`, `payload`, `exit`, `write`). `HandleNativeOutput` is the function
`handle_native_output` with its early return (`Ignores`), the dispatch, and
`apply_bitmap` with its clipping; `Panics` says that a slice of the copy loop does
not exist, in which case the thread panics with the mutex held (`poisoned`).

Each action of `SessionCalls` is one critical section:

* `Deliver(ev)` is the handler with its `notify_all`; `CallStop` is
  `CallbackState::stop` from `Session::shutdown` or from a failed write.
* `Call`, `Sleep`, `Resume`, `GiveUp`, `Expire`, `SpuriousWake` are the wait loops
  of `wait_connected` (site `ready`), `screenshot` (`frame`, then `pause`) and
  `resize` (`size`). `waited` is `waited_for_frame`. A deadline is a flag that
  `Expire` raises at any time.
* `Capture` is the second critical section of `screenshot`.
* `Skip`, `Grab`, `EndStream`, `Encode` are the body of the viewer's loop; the
  mutex is free between `Grab` and `Encode`.

Events come in any order and number: the stream comes from another process. A
message kind the handler does not know only notifies, like a size it rejects.

### WorkerLifecycle

Threads: the `rdp_open` call, `rdp_close` calls, callers of input operations, the
supervisor and the reader; and the worker's command loop. The four mutexes
(`Session::worker`, `Session::operation`, `WorkerProcess::input`,
`WorkerProcess::supervisor`) are variables holding their owner, and a lock that is
held over a blocking call (a pipe write, a join) is held over several actions.
The supervisor's mutex is one of these: `WorkerProcess::shutdown` takes it in
`AcquireHandle`, whether the handle is still there or not, and keeps it over `Join` and
the wait for the input to the end (`DropInput`), as the guard of `worker.rs:189` lives to
the end of the function.
The pipes are sequences of at most `PipeCap` messages: a write blocks while the
pipe is full and fails when the worker is gone. A connect command may be longer than the
pipe (`MAX_COMMAND` is a megabyte): `SendPart` fills the pipe, `rdp_open` waits in `rest`
with the input's mutex held and no deadline armed, and the rest follows when the worker
has read on (`WorkerReadsPart`). A worker may hang anywhere (nothing
obliges it to move), crash at any time and cut its last message (`Truncated`).
The supervisor's loop keeps its order of tests: exit status, deadline, control.
The reader handles an event and sends its control message in one step, because a
control message that is sent later is only received later.

Drop of the last reference runs `shutdown` again. It is not a step of the model:
`NoOrphan` shows that whenever nothing refers to the worker the handle is taken,
the input is closed and the process reaped, so that shutdown does nothing.

### Disp

Every entry point of `disp.c` is one action (one critical section of `s_mutex`).
A layout carries the number of its request so that old and new can be told apart;
the scale factors, always sent with the size, are left out. The clock is the time
since the last send, up to the rate limit. A send may fail.

### SessionRegistry

A session has the name of the `rdp_open` call that makes it. The call goes through
`Open`, `Spawn`, `Store`, `Wait` and, when it fails, `Remove`. A *task* is a call of
`Session::shutdown`, begun by a failed open, by `rdp_close` or by the manager's
shutdown, in its three critical sections `Stop`, `Take` and `EndWorker`. What
`WorkerLifecycle` shows about ending one worker is one step here.

### InputEncoding, InputOps, Commands

A compound operation is the sequence of commands and pauses that
`SessionManager::mouse_click`, `mouse_drag`, `type_text` and `send_key_stroke` send.
Each command passes the check of the session (`Send` or `Fail`), the pipe and
`Execute`, which changes what the server holds down. The connection may be lost, and
an invalid bitmap may fail the session while the worker lives on, between any two
steps. `IntLimit` stands for 2^31, so that a drag can wrap around in a small instance.

`Commands` gives every command of `protocol.c` with values at and past the edges of
the 8-, 16- and 32-bit conversions. `heap` holds what parsing allocated; `Freed` is
`protocol_free_command`.

### EventThread, NativeRuntime, Helper

`g_running`, `g_connected`, `g_instance` and `g_event_thread` are variables; the
accesses of the calling thread to what it shares are separate actions, so that the
event thread can run in between. `NativeRuntime` refines `ConnectionEvents`
(`ConnectionsDoNotMix`). `Helper` has the same thread under a command loop that takes
a connect command as soon as `g_connected` is false, and signals that clear
`g_running` at any time.

### PaintClip, Paint, Output

The buffer's points are told apart only by whether the viewer has them (`stale`).
`owed` are those the server draws again after a resize, `lost` those dropped when
`malloc` failed. `gdi_resize` may fail with or without losing the buffer, and
the new size is announced all the same. A message of `Output` is a header and up to
two more writes.

### ClipLocal, ClipRemote, FileNames

Two actors share the mutexes: the command thread and the event loop. An action is one
critical section. In `ClipLocal` the command thread's `cliprdr_set_text` is two
sections (`SetText`, then `SkipText` or `StoreText`) because it releases one mutex to
take the other. The clipboard thread of the Windows build makes the same calls; it has
cleared the files itself before it sets a text (`cleared`), and its calls are taken one at
a time with those of the command thread. A contents request is two sections
(`ContentsRequest`, then `ContentsServed` or `ReadFails`) because the file is read without
the mutex. Time is counted since the last announcement and the last rejection.

`ClipRemote` has two ordered channels and a server that copies new contents at any
time, answers in order, refuses, and honours locks. The initial state chooses one of
the `Environments`: how many copies and downloads there are, where stream ids wrap
around, and what may go wrong (sends that fail, a full disk, answers without data, files
that cannot be opened, a server that refuses). A block
of a file carries its copy and its position, so that a whole file can be told from a
mixed one.

`FileNames` treats one name, character by character, in the loops of the code.

### Win32Clipboard

The window's queue is a sequence; the clipboard holds who wrote it and which formats.
`SetBegins`, `Write`, `SetEnds` are the parts of a write between which the user may
copy; `MaxPending` bounds the copies of the server that wait for the thread. A message to a window
that exists is always posted.

## 3. The runs

| run | instance | shows |
|---|---|---|
| `session_frames` | one screenshot caller, one viewer, two accepted and two rejected sizes, updates that fit, stick out, lie outside or are malformed, three versions, three pixel values | `TypeOK`, `NeverPoisoned`, `FramebufferMatches`, `KeyIdentifiesPixels`, `NoBlankScreenshot`, `SentPartIsCurrent`, `StoppedIsFinal` |
| `session_waits` | one opener, one screenshot caller and one resizer, one update | `NoMissedWakeup`, `CallsReturn`, and refinement of `SessionStatus` (`StatusOnlyAdvances`) |
| `worker_lifecycle` | the opener, one closer, one operator, pipes of one message, connect commands that fit and that do not | `TypeOK`, `NoOrphan`, `TerminalEventIsLast`, `NothingSentAfterClose`, `CloseReturns`, `OpenReturns`, `FailureIsNoticed` |
| `disp_resize` | three requests, sides below, inside (odd) and above the limits, a rate limit of two ticks | `TypeOK`, `NeverRegresses`, `NewestRequestIsSent` |
| `lifecycles` | two sessions, two closers and the manager; three connections of the library; three of the helper, with signals | `WorkersAreOwned`, `OneEnds`, `NothingOutlivesShutdown`; `InstancesAreKept`, `NativeSideGoesOn`, refinement of `ConnectionEvents` (`ConnectionsDoNotMix`) |
| `input` | two callers with one of each operation, a drag of the largest distance and one far beyond it, a text with a NUL, which `input.c` refuses and which ends the worker; every command, with arguments at the edges of their types | `NothingStaysBehind`, `NumbersAreKept`, `ChordIsHeldTogether`, `OperationEnds` |
| `painting` | three desktop sizes, regions inside, across and outside the buffer, pointers at and past the limit; three writers, four writes | `HeadersAreExact`, `ViewIsCurrent`; `MessagesGetOut` |
| `clipboard_local` | two texts, lists below, at and past the limit, with malformed items, an id of the server; two copies of the server and two of the user waiting; all names of at most five characters in both builds | `OfferIsConsistent`; `EchoPrevented`; `NamesAreSanitized`; `LocalSideGoesOn` |
| `clipboard_download` | text, and a directory with an empty file and one that takes two ranges; three copies and two downloads of a connection that loses nothing, then two downloads or three copies with files that are refused or cannot be opened, two downloads in a connection with four stream ids, which wrap, and one with every fault | `DownloadsAreFaithful`, `NoLeakedLock`, `DownloadEnds` |

The runs that expect a violation (`disp_rate_limit`, `clipboard_count`,
`clipboard_routing`) are in section 6.

**Components that share no state** are checked in one run (`MCLifecycles`, `MCInput`,
`MCPainting`, `MCClipboardLocal`): the initial state chooses the part that runs and the
others keep their initial state, so that the states add up instead of multiplying. Each
part has the actions, the fairness and the properties of its own module; several
statements about one subject are conjuncts of one property:

| property | conjuncts |
|---|---|
| `InstancesAreKept` | `TypeOK`, `LoopUsesWhatExists`, `NoLostInstance` of `NativeRuntime`; `LoopUsesWhatExists` of `Helper` |
| `NativeSideGoesOn` | `CallReturns` and `EndIsReported` of `NativeRuntime`; `HelperExits` of `Helper` |
| `NothingStaysBehind` | `HeldAsAsked` of `InputOps`; `NothingStaysHeld` and `HeapIsEmpty` of `Commands` |
| `NumbersAreKept` | `DragStaysBetween` of `InputOps`; `WheelFollowsDelta` of `Commands` |
| `HeadersAreExact` | `BitmapIsOfTheBuffer`, `CursorIsWhole` of `Paint` |
| `MessagesGetOut` | `StreamIsFramed`, `CallbackAlone`, `MutexIsReleased` of `Output` |
| `OfferIsConsistent` | `TypeOK`, `OneClipboard`, `StagedFilesAreAnnounced` of `ClipLocal` |
| `EchoPrevented` | `EchoPrevented`, `TypeOK` of `Win32Clipboard` |
| `LocalSideGoesOn` | `FlagClears`, `WindowGoesAway` of `Win32Clipboard`; `Sanitized` of `FileNames` |
| `NamesAreSanitized` | `TypeOK`, `StaysBelow`, `OthersAreKept` of `FileNames` |
| `DownloadsAreFaithful` | `TypeOK`, `DownloadOfTheListShown` and, while `StreamsApart`, `DoneFilesAreWhole` of `ClipRemote` |

**Bounds.** `MaxDim` = 2 is enough for an update to be clipped on the right, below
and on both sides, and for two sizes with equal and different areas. `MaxVersion` =
3 allows a frame to be cached, replaced, and the desktop to be resized back.
`PipeCap` = 1 makes every write but the first a possible block, and the first when the
connect command is longer than the pipe; a longer pipe only delays it. One
closer next to the opener already gives two threads that may shut the same worker
down. `MaxRequests` = 3 gives a sent, a queued and a replacing request.
Two sessions, two closers and the manager give every pair of calls that can meet at
one session, and a second session for the drain of the registry. Three connections give
one that ends, one that replaces it and one after a failed start. Two callers are enough
to mix two chords; `IntLimit` = 1000 stands for 2^31, so that ten times a distance of 99
fits and of 1000 does not. `MaxWrites` = 4 lets two messages of two writes meet.
`MaxPending` = 2 is the least with which copies of the server overlap in the Windows
queue. Names of five characters hold two `..` components with their separators. A chunk
of two blocks cuts a file of three into ranges; three copies let a late answer meet a
list that is two copies newer. Four stream ids come round within two downloads. `U16` = 4 in `painting` puts the limit of a header field
just above the largest desktop. The theorems of section 4 hold without these bounds.

**Deadlock.** `worker_lifecycle`, `lifecycles`, `input`, `painting` and
`clipboard_local` allow it: processes exit, operations, writes, connections and names
come to an end, and what stops then is the model's bound or the program itself. That
nobody waits for ever is what the liveness properties say. In the other models calls can
always be repeated.

**Fairness.** `SessionCalls`: a deadline passes (`Expire`), and a call that can take
the mutex eventually does. Every critical section is short and the standard
library's waits are timed. `WorkerLifecycle`: the server's threads run and the close
deadline passes; nothing is assumed of the worker process, the callers or the
network, and the failure of an oversized connect command is not counted as
progress. `OpenReturns` therefore has a condition: that `rdp_open` does not hang for ever
in writing a connect command longer than the pipe to a worker that does not read
(`WriteHangs`). Its 30 seconds only begin after that write; as soon as somebody calls
`rdp_close`, the supervisor's deadline ends the wait (`CloseReturns` has no such
condition). `Disp`: time passes and the event loop calls `disp_check_pending`, which
it does after every turn of at most 100 ms. `SessionRegistry`: calls that have begun go
on, since each of their waits is timed and `WorkerLifecycle` shows that a shutdown of a
worker ends. `NativeRuntime` and `Helper`: the calling thread goes on once it is in a
call, and so does the event loop thread, whose wait is limited to 100 ms
(`connection.c:437`); no fairness is assumed of the network, of commands or of signals.
`InputOps`: pauses end and the worker reads its pipe; a worker that does not is the
subject of `WorkerLifecycle`. `Output`: a thread that holds the mutex goes on; which
waiting thread gets it is not promised. `ClipRemote`: both threads handle what has come,
and the server answers in the end, if only with a refusal. `Win32Clipboard`: the system
schedules the clipboard thread; nothing is assumed of other programs, and
`WindowGoesAway` is about the case that they stop changing the clipboard.

`NothingSentAfterClose` is as strong as the code allows. When a failed `rdp_open`
has taken the worker out of its slot first, `rdp_close` finds none and returns
while the open is still shutting the worker down, and an operation that had cloned
the handle before may write one more command in that time. The credentials of a
connect are never written after a close has returned.

## 4. The proofs

Eight modules hold theorems; TLAPS checks each of them to the last leaf. The table lists
the results, the paragraphs below say along which argument. They hold for all values of
the constants that satisfy the named assumptions of the modules, which say what the code
guarantees of them:

| assumptions | say |
|---|---|
| `PixelAssumption`, `MaxDimAssumption`, `RolesAssumption`, `InputAssumption` (`SessionState`, `SessionCalls`) | black is a pixel, the largest side is positive, one call has one role, inputs have their types |
| `ThreadsAssumption`, `PipeCapAssumption` (`WorkerLifecycle`) | the opener, the closers and the operators are different threads, a pipe holds a message |
| `SizeAssumption`, `BoundAssumption` (`Disp`) | the limits of a layout are even at the minimum and ordered, the rate limit is positive |
| `WidthAssumption`, `NoCallerAssumption`, `OperationsAssumption`, `InputsAssumption` (`InputEncoding`, `InputOps`, `MCInput`) | the widths of integers are positive; scancodes of operations come from the tables of `keyboard.rs`, coordinates and deltas are `i32` |
| `U16Assumption`, `SizesAssumption`, `RectsAssumption`, `PointersAssumption` (`PaintClip`, `Paint`) | a desktop and the largest pointer fit a 16-bit field; regions are any integers, negative ones and those outside the desktop included |
| `TextAssumption`, `IdAssumption`, `ListAssumption`, `IntervalAssumption` (`ClipLocal`) | ids of formats are distinct where the protocol makes them so; a list has a length, and is empty or has an item that is well formed |
| `NamesAssumption`, `MaxConnectionsAssumption` (`SessionRegistry`, `MCLifecycles`) | the names of sessions and closers differ (no theorem uses that), the number of connections is a natural |
| `WritersAssumption` (`MCPainting`) | the mutex has a name for "nobody" that no thread has; the writes are bounded |
| `BoundsAssumption` (`MCClipboardLocal`) | the bounds are naturals; a letter is neither a separator nor a dot nor an underscore |
| `ChunkAssumption`, `ContentsAssumption`, `EnvironmentsAssumption` (`ClipRemote`) | a chunk has a block, a directory is not a size, there is a stream id |

| theorem | statement |
|---|---|
| `SessionProofs!TypeCorrect` | `Spec => []TypeOK` |
| `MutexNeverPoisoned` | `Spec => []NeverPoisoned` |
| `FramebufferAlwaysFits` | `Spec => []FramebufferMatches` |
| `ObserversAgree` | `Spec => []KeyIdentifiesPixels` |
| `ViewersSendCurrentFrame` | `Spec => SentPartIsCurrent` |
| `ScreenshotsNeverBlank` | `Spec => []NoBlankScreenshot` |
| `StoppedStaysStopped` | `Spec => StoppedIsFinal` |
| `ImplementsSessionStatus` | `Spec => StatusOnlyAdvances` |
| `WakeupsNeverMissed` | `Spec => []NoMissedWakeup` |
| `WorkerProofs!WorkerTypeCorrect` | `Spec => []TypeOK` |
| `TerminalEventIsAlwaysLast` | `Spec => []TerminalEventIsLast` |
| `WorkerNeverOrphaned` | `Spec => []NoOrphan` |
| `ClosedSessionsStayQuiet` | `Spec => NothingSentAfterClose` |
| `LifecycleProofs!RegistryTypeCorrect` | `Spec => []TypeOK` of `SessionRegistry` (a closed registry stays empty) |
| `WorkersAlwaysOwned` | `Spec => []WorkersAreOwned` |
| `OneCallEndsAWorker` | `Spec => []OneEnds` |
| `InstancesAlwaysKept` | `MCSpec => []InstancesAreKept` |
| `LibraryImplementsEvents` | `MCSpec => ConnectionsDoNotMix` |
| `InputProofs!NothingEverStaysBehind` | `MCSpec => []NothingStaysBehind` |
| `NumbersAreAlwaysKept` | `MCSpec => []NumbersAreKept` |
| `ChordsAreHeldTogether` | `MCSpec => ChordIsHeldTogether` |
| `PaintProofs!ViewAlwaysCurrent` | `Spec => []ViewIsCurrent` |
| `HeadersAlwaysExact` | `Spec => []HeadersAreExact` |
| `MessagesStayWhole` | `MCSpec => [](StreamIsFramed /\ CallbackAlone)` of `Output` |
| `DispProofs!LayoutsLegal` | `Spec => []TypeOK` |
| `RequestsInOrder` | `Spec => NeverRegresses` |
| `ClipLocalProofs!OfferAlwaysConsistent` | `Spec => []OfferIsConsistent` |
| `NamesAlwaysSanitized` | `MCSpec => []NamesAreSanitized` |
| `EchoAlwaysPrevented` | `MCSpec => EchoPrevented` |
| `ClipRemoteProofs!LocksNeverLeak` | `Spec => []NoLeakedLock` |
| `DownloadsMatchTheList` | `Spec => [](TypeOK /\ DownloadOfTheListShown)` |
| `DownloadsAlwaysFaithful` | `Spec => DownloadsAreFaithful` |
| `StreamsApartUntilTheyWrap` | `Spec => ([](Reliable /\ nextStream < env.streams) => [](StreamsApart /\ DoneFilesAreWhole))` |

The specifications of `MCInput`, `MCLifecycles`, `MCPainting` and `MCClipboardLocal` are the
disjunctions of their parts, and what is proved of them is proved for any values of their
constants (`Inputs`, `MaxConnections`, `Writers`, `MaxLength` and the constants of the
parts), not for those of the run.

### Session

*Poisoning.* `TypeOK /\ NeverPoisoned /\ FramebufferMatches` is inductive. That the
buffer fits is what makes the copy loop safe, and that a copy loop keeps the length
is what keeps the buffer fitting, so neither stands alone. The arithmetic is in
`RowEnd` and `SliceEnd` (a clipped row ends inside a buffer of `w * h` pixels),
`ClipBounds` and `SlicesInBounds`.

*Keys.* `KeyIdentifiesPixels` is not inductive: nothing in it relates the frames
that are held to the frame that will be copied next. `HeldFramesFresh` does: no held
frame has a version above the state's, and one with the key of the frame on show is
that frame. A resize keeps the version but takes the frame off show, and it comes
back only with an update that raises the version. The `FrameStep` lemmas say this of
each operation, and the induction needs nothing else about them.

*Blank screenshots.* The invariant is `OnShow`: a frame on show has a pixel of an update.
The corner of an update that is not clipped away is always copied (it lies in the first
row of the copy loop), which is what puts the frame on show.

*Wake-ups, finality, refinement* are each one step per action over the type
invariant.

### Worker process

The inductive invariant `Safe` has seven parts beside the types, and each needs some of
the others:

* `Process`: the supervisor is past its watch only when the process is reaped, and past
  the join only when the reader has ended.
* `Stream`: a message cut off by a crash or a kill is the last of the pipe and its writer
  is dead; the reader ends only on that or on the end of the stream. With `Process` this is
  `TerminalEventIsLast`.
* `Owned`: the input stays open only while the slot, `rdp_open` or a shutdown still has
  the worker, and is closed only after the supervisor was joined. This is the heart of
  `NoOrphan`: it says who *will* end a worker, where the property says that nobody needs
  to any more.
* `Taken`: a shutdown sets the session's flag before it empties the slot, and `rdp_open`
  reads the flag with the slot's lock held, so that nothing is stored afterwards. The
  mutual exclusion is part of `TypeOK` (`LocksOwned`), since a step that takes a mutex
  relies on it. It says exactly between which steps each mutex is held, the
  supervisor's from `AcquireHandle` to `DropInput`.
* `OneCloser`: the registry gives a session to one `rdp_close`, and an operation holds a
  worker only after it was stored.
* `Steps` and `Unborn` say who runs which program and that nothing is held before the spawn.

`NothingSentAfterClose` is an action property over the same invariant: after a close,
`Taken` and `Owned` leave only the steps of a failed open that took the worker first.

### Registry, library and helper

`WorkersAreOwned` says who will still look at a worker, but not why a slot can be filled
only while somebody will. The inductive invariant adds three facts: a slot is filled only
after its session's `Store` (`SlotsAfterStore`), a task ends a worker only after taking
it from the slot, which then stays empty (`EndsAfterTake`), and a session that will
still store its worker is registered, already stopped (so that `Store` drops the worker),
or about to be stopped by a task that looks at the slot afterwards (`StoresAreSeen`). The
lemma `HandOver` is used wherever a worker passes from one owner to the next.

`InstancesAreKept` of the library rests on `OneThread` (at most one event loop thread is
alive, the one of `g_event_thread`, on the only instance there is), `Progressed` (what
`stop_connection` has cleared by the time `start_connection` sets it) and `Switched` (when
`g_running` and the output callback exist). For the refinement of `ConnectionEvents`,
`Announced` relates what the reader has seen to the thread: there is no open connection
but the thread's or the one being made. `EventStep` then takes each action to a step of
the abstract specification or to a stutter. The helper has no such order: threads of
earlier connections may still run, so `HelperInv` says of each that the instance it uses
is its own.

### Input

The properties compare what the server holds down with what was asked, but in between there
is a pipe. `Pressed(s, n, before)` is what is pressed once the first `n` events of `s` have
been executed, and `Balanced` is the invariant: *once the pipe is through, the server holds
what the finished operations were to leave and what the running one has pressed so far*.
Executing the first command and appending one at the end both keep it (`PressedTail`,
`AppendPressed`), and at the end of an operation `StepsLeave` says that all its steps
together leave what the operation stands for. That lemma has one proof per kind of operation
(`PressLeaves`, `ClickLeaves`, `DragLeaves`, `TypeLeaves`), each from the shape of the
sequence that the operation sends (`PressShape`, ...). `Chords` says in the same way that at
the place of a chord's key in the pipe all its modifiers are pressed; `Locked` that the
holder of the operation lock is the only caller with an operation, without which neither
would hold.

The library has no usable induction over sequences here; the flattening of typed text
(`FlattenClosed`) is proved by the least counterexample over the graph of `FlattenSeq`,
which `WellFoundedInduction` provides. Drag points are shown to lie between the ends from
truncating division (`TenthIs`, `DragPointBetween`), a wheel event to keep its direction and
amount for every delta but `i32::MIN`, which has no negation (`WheelTurnsRight`). On the native side, what is
held is the encoding of what was asked (`HeldIsAsked`): buttons that do not exist are
encoded as one that does, by press and release alike.

### Painting

`ClipIsIntersection` shows that the clipping of `cb_end_paint` keeps exactly the points of
the damaged region that lie in the buffer, whatever its corner and size, and `HeaderIsExact`
that the result fits 16 bits. `ViewIsCurrent` speaks of the time between paints only;
`Accounted` extends it into the paint: every point that the viewer misses is in the
damaged region, owed by the server or lost.

### Message output

`StreamIsFramed` speaks only of headers whose message is complete or still growing at the
end. `Unfinished` says whose that is: a thread that is past its header (`OpenBy`) began its
message `at - 2` pieces before the end of the stream, all of them its own, and every header
that no such thread has written is followed by its whole message. `Exclusive` says that the
thread inside its section holds the mutex, so that there is one open message at most
(`OneInside`); `LeaveCloses` that the message is complete when the mutex is released. The
same `Exclusive` is what keeps a second thread out of the callback.

### Display control

The order of requests needs `QueueIsNewer`: the queued layout is newer than the one the
server has, nothing is newer than the newest request, and the initial layout is kept only
while nothing was sent. `clamp_even` yields a legal side for any integer.

### Clipboard

`OfferIsConsistent` becomes inductive with two facts: a channel that is ready is up, so
that an announcement is not dropped, and the files stay cleared between the two sections of
`cliprdr_set_text`. That what is staged are files is proved for lists of any length
(`OnlyFilesAreFiles`), with the argument of `FlattenClosed` again.

`NoLeakedLock` speaks of the locks the server holds; the locks and releases that are still
in the channel decide whether it stays true. `Matched` says of every lock, held or on its
way, that it is the active one or has its release *behind* it. Posting a lock needs that
none is active, and taking one out of the channel keeps the place of the release
(`MatchLock`, `MatchTail`).

*Whole files.* `DownloadsMatchTheList` is the part of `DownloadsAreFaithful` that holds
whatever is lost and however few stream ids there are. It needs the types of all messages under way (`Typed`), that a position at which
`start_next_download` waits exists (`StopExists`, by the least entry that is not passed
over), and `Waiting`: nothing is downloaded while descriptors are waited for, which is when
the list is replaced.

`DoneFilesAreWhole` speaks of files that are complete; three invariants carry it there. All
of them are about the messages under way, and each relates the two ends of the channel:

* `Connected`. The server reads a contents request from what it has at that time, or had
  when it was locked, and neither need be the clipboard whose list the helper shows.
  `Lists` says why that does no harm: whatever has been copied after the descriptors in hand,
  after those on their way or after the active lock was taken is *announced behind them* in
  the channel to the helper. An answer from a newer clipboard therefore comes after the list
  that drops the queue it was for.
* `Downloads`. Every entry holds the first blocks of its file (`EntryFits`); the entry that
  is waited for has been asked for under its stream id, every request, job and answer with
  that id is about exactly what it lacks (`AskedFor`, `JobFits`, `AnswerFits`, the last two
  unless a list of files is ahead), nothing under way has the id of an entry before it
  (`Passed`), and the entries after it have none (`Coming`). An answer consumes the only
  message with its id, which is what makes each block written once.
* `StreamsApart`. The code looks up an answer by its stream id and by nothing else, so an id
  that comes round while an answer with it is still under way is taken for the new request.
  This is not an invariant of the code but the condition of the property; TLC finds both
  `DoneFilesAreWhole` and `DownloadEnds` violated without it in a connection with four ids.
  `StreamsApartUntilTheyWrap` shows that it is met as long as the counter has not wrapped,
  by `Ordered`: all ids in use are apart and below the next one. The code has 2^31-1 of them.

The induction has one lemma per step: messages that pass the queue (`MessagePassed`,
`RequestPassed`), a request that becomes a job (`RequestTaken`) and a job that becomes an
answer (`JobAnswered`), and for an answer that is taken what becomes of its entry
(`AnswerDoes`) and how the queue goes on (`QueueGoesOn`, `AskKeeps`).

*File names.* The invariant `NameInv` says that no component before the scan position is
`..`. Putting underscores over one makes no new one (`ScanClears`): a component that became
`..` would have to end where the underscores begin, and they are no separators. The loops
visit a name position by position, so the length is arbitrary.

*Echoes.* That the guard is up whenever one of our own changes is announced follows from the
order of the window's queue. `ClearsFollow`: while the clipboard is ours, every notice that
waits has a CLEAR behind it, since the CLEAR is posted after the clipboard was written.
`Guarded` adds, for copies that do not overlap, that at most one CLEAR waits and that the
guard is up until it is taken. The first attempt at the proof showed that an action property
alone (an echo has a CLEAR waiting) holds for a handler that never raises the guard;
`EchoPrevented` therefore also says that without overlapping copies nothing is echoed at
all, and a handler without the guard violates it.

### Model-checked only

* Liveness (`CallsReturn`, `CloseReturns`, `OpenReturns`, `FailureIsNoticed`,
  `NewestRequestIsSent`, `NothingOutlivesShutdown`, `NativeSideGoesOn`, `OperationEnds`,
  `LocalSideGoesOn`, `DownloadEnds`, and `MutexIsReleased` in `MessagesGetOut`): fairness and
  `ENABLED` are outside what the prover handles.

## 5. Not modelled

* `src/image.rs`: the region of a screenshot and its scaling, pure functions of their
  arguments; the encoders are libraries.
* `src/server.rs`, `src/cli.rs`, `src/lib.rs`: adapters of MCP calls, arguments and the
  start of the transport. They keep no state beyond the manager; the shutdown they start
  is in `SessionRegistry`.
* cJSON is vendored. `Commands` takes the members of a parsed command as its input.
* The settings that `connection_init` fills in, the layout of file descriptors, JSON
  members of messages and the conversion of pointer pixels: data without control.
* The death of the server itself (`watch_parent`): the operating system closes the
  pipes and the worker ends on its own.
* The multipart stream of the preview and its router: pure I/O around the loop in
  `SessionCalls`.
* `ClipLocal` leaves out a list of malformed items only, which stages an array without
  entries; `Win32Clipboard` tells apart kinds of contents, not contents.
* Two threads that stage at once: the clipboard thread of Windows beside the command thread
  (`cliprdr_win32.c:162`, `:192`). `OfferIsConsistent` is about one at a time.
* A message that Windows does not post to an existing window. The result is ignored for
  `WM_CLIPRDR_CLEAR_FLAG` (`cliprdr_win32.c:255`, `:321`); the flag would stay up until the
  next write has cleared it, and copies of the user would be dropped until then.
* A contents request of the server with an index that is none of the files it was shown;
  from 2^31 on the conversion to `int` (`cliprdr_file.c:519`) makes it negative.
* That text is announced: what is stored while announcements are limited waits for the next
  occasion (see `SkippedTextWasAnnounced`). `OfferIsConsistent` speaks of files.

## 6. Findings

`disp_rate_limit`: `disp.c:22` says "Rate limit: minimum 200ms between resize PDUs",
but `cb_disp_caps` sends a queued layout without looking at the clock. TLC's trace:
the channel activates and the initial layout goes out; a resize arrives during the
cooldown and is queued; the channel is connected anew and activates within the 200 ms; the
queued layout is sent at once. (A second set of capabilities on a channel that stays
activated is not counted.)

`clipboard_count` (`cliprdr_file.c:588`): a contents request releases the mutex to read
the file and takes it again to count the bytes at the same index, of whatever list is
staged by then, without checking the index again. `cliprdr_file.h:11` says "All shared
state is protected by a critical section".

`clipboard_routing` (`cliprdr.c:39`): one flag says whether the next data response is a
file list. TLC's trace, in which nothing is lost or refused: the server copies text, and the
text is asked for; it copies files, and the helper sets the flag and asks for the list; it
copies text again, which leaves the flag set; now the answer to the first request arrives,
a text, and is read as a list of files, and the flag is cleared before that list comes.
`cliprdr.c:38` says "Track
pending FGD data request (for routing FormatDataResponse)".

**Further observations.** The modules keep, in a section of their own, statements of
comments or of the documentation that TLC refutes when they are added to a
configuration (with `ThreadInTime = TRUE` for `CleanupJoins`):

* `OpenAlwaysReturns` (`WorkerLifecycle`; `README.md:27`): `rdp_open` writes a connect
  command longer than the pipe to a worker that hangs, and waits without a timeout until
  somebody closes the session (`worker.rs:176`).
* `PressReleases` (`InputOps`; `README.md:194`): an invalid bitmap fails the session
  between two commands of a chord (`session.rs:760`) while worker and connection go on;
  the modifiers pressed so far stay down.
* `ExitWaitsForThreads` (`Helper`; `main.c:340`): the handle of an event loop thread is
  overwritten by the next connect command, and main waits for the last one only.
* `OnlyDisconnectOrEofEnds` (`Helper`; `main.c:12`): an empty line is reported like the
  end of the input (`protocol.c:44`).
* `AnnouncedIdIsKnown` (`ClipLocal`; `cliprdr.c:98`): the server's id for its own files
  overwrites the id under which local files were announced, and a request for that is
  refused.
* `SkippedTextWasAnnounced` (`ClipLocal`; `cliprdr.c:477`): text that was stored while
  announcements were limited is skipped when it is set again.
* `TextReplacesFiles` (`ClipLocal`; `cliprdr.c:502`): the clipboard thread of Windows
  clears the files before `cliprdr_set_text` looks for them (`cliprdr_win32.c:192`), so
  that the announcement of the text is not forced and the server goes on offering files.
* `LockedListIsServed` (`ClipLocal`; `cliprdr_file.c:807`): a lock of the server does
  not keep a new list from replacing the locked one.
* `RequestsAreLocked` (`ClipRemote`; `cliprdr_file.c:250`): the lock is released at the
  end of a batch (`:496`), and a second download of the same list runs without.
* `EveryFileIsReported` (`ClipRemote`; `output.h:101`): a range request that cannot be
  sent (`cliprdr_file.c:388`) is waited for all the same.
* `IgnoredChangeIsOurs` (`Win32Clipboard`; `cliprdr_win32.c:46`): a copy of the user
  between our write and the clearing of the flag is dropped.
* `CleanupJoins` (`Win32Clipboard`; `cliprdr_win32.h:32`): nothing is posted to a
  window that does not exist yet, and the wait ends after three seconds.

More stand in the conditions of properties that hold. `EchoPrevented` (its condition
`OneCopyAtATime`): when a second copy of the server is taken before the guard of the first
has come down, the deferred clear of the first uncovers the second, which is echoed
(`cliprdr_win32.c:337`).
`DragStaysBetween`: a drag over more than a tenth of the i32 range wraps
(`session.rs:520`). `DownloadsAreFaithful` and `DownloadEnds` (their condition
`StreamsApart`): stream ids wrap (`cliprdr_file.c:289`), and an answer that is a whole round
late is written to another file, or read as that of an earlier entry while the queue goes on
waiting. `DoneFilesAreWhole` and `DownloadEnds` (their condition `Reliable`): on a full disk
the same chunk is asked for again and again (`cliprdr_file.c:740`). `ViewIsCurrent`: damage
that is lost for want of memory is not sent again (`connection.c:207`).
`WheelFollowsDelta`: the smallest integer (`input.c:78`). And `sanitize_filename` puts two
underscores in the place of `..`, where its comment has one, without an effect on a
property.

## 7. Plan

1. A refinement from `WorkerLifecycle` to the steps that `SessionRegistry` takes.
2. `ImageGeometry`: clipping and scaling of a screenshot against a reference definition.
