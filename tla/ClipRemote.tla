----------------------------- MODULE ClipRemote -----------------------------
(***************************************************************************)
(* What the server offers on its clipboard, and how the helper fetches it: *)
(* the remote half of cliprdr.c and cliprdr_file.c.  The event loop thread *)
(* handles the server's messages in the order they come, the command       *)
(* thread starts downloads.                                                *)
(*                                                                         *)
(* A callback is one action although it enters the two critical sections   *)
(* several times: the only thing the command thread does in between is to  *)
(* start a download, and that has the effect it has before the callback    *)
(* (its entries are freed) or after it (no descriptors, nothing happens).  *)
(*                                                                         *)
(* File contents are counted in blocks.  A block is known by the clipboard *)
(* it was copied from, its file and its offset.                            *)
(***************************************************************************)
EXTENDS Integers, Sequences, FiniteSets, SequencesExt

CONSTANTS
  Contents,      \* what the server may put on its clipboard: sequences of
                 \* file sizes in blocks, Dir for a directory; << >> for text
  Dir,
  Chunk,         \* FILE_CONTENTS_CHUNK_SIZE, in blocks
  Environments   \* bounds on copies and downloads, MAX_STREAM_ID, and the faults
                 \* that may happen: "send", "refuse", "empty", "open", "disk"

ASSUME ChunkAssumption == Chunk \in Nat \ {0}
ASSUME ContentsAssumption == Dir \notin Nat /\ Contents \subseteq Seq(Nat \cup {Dir})
ASSUME EnvironmentsAssumption ==
  \A e \in Environments : e.copies \in Nat /\ e.downloads \in Nat /\ e.streams \in Nat \ {0}

VARIABLES
  up,            \* s_cliprdr # NULL
  pendingFgd,    \* s_pending_fgd of cliprdr.c
  desc,          \* s_server_descriptors: [copy, files], files = << >> for NULL
  dls,           \* s_downloads
  current,       \* s_download_current
  downloading,   \* s_downloading
  nextStream, lock, nextLock,
  toServer, toClient,        \* the channel, in both directions
  copies,        \* all the server has had on its clipboard, the last is there now
  held,          \* the server's locks: [id, copy]
  jobs,          \* contents requests the server is working on
  downloads,     \* how many have been asked for
  env            \* the environment of this connection

clientVars == <<up, pendingFgd, desc, dls, current, downloading, nextStream, lock, nextLock>>
serverVars == <<copies, held, jobs, env>>
vars == <<up, pendingFgd, desc, dls, current, downloading, nextStream, lock, nextLock,
          toServer, toClient, copies, held, jobs, downloads, env>>

NoFiles == [copy |-> 0, files |-> << >>]
NoLock == [id |-> 0, active |-> FALSE]

(* cliprdr_file_init; the channel is connected. *)
Init ==
  /\ up = TRUE /\ pendingFgd = FALSE
  /\ desc = NoFiles /\ dls = << >> /\ current = 0 /\ downloading = FALSE
  /\ nextStream = 1 /\ lock = NoLock /\ nextLock = 100
  /\ toServer = << >> /\ toClient = << >>
  /\ copies = << >> /\ held = {} /\ jobs = {} /\ downloads = 0 /\ env \in Environments

-----------------------------------------------------------------------------
(* Sending.  A message that cannot be sent is lost; the code looks at the  *)
(* result of some sends only.                                              *)

MayFail == "send" \in env.faults
Post(msgs) ==
  \/ toServer' = toServer \o msgs
  \/ /\ MayFail
     /\ \E n \in 0 .. Len(msgs) - 1 : \E sent \in [1 .. n -> DOMAIN msgs] :
          /\ \A i, j \in 1 .. n : i < j => sent[i] < sent[j]
          /\ toServer' = toServer \o [i \in 1 .. n |-> msgs[sent[i]]]

LockMsg(id) == [kind |-> "lock", id |-> id]
UnlockMsg(id) == [kind |-> "unlock", id |-> id]
DataRequest(what) == [kind |-> "data", what |-> what]

StreamAfterFromZero(n) == (nextStream + n) % env.streams

(* send_file_contents_request: the stream ids count up and wrap to 1. *)
StreamAfter(n) == ((nextStream - 1 + n) % env.streams) + 1
ContentsRequest(i, stream, from, want) ==
  [kind |-> "contents", stream |-> stream, index |-> i, from |-> from, want |-> want,
   lock |-> IF lock.active THEN lock.id ELSE 0]

-----------------------------------------------------------------------------
(* The download queue.  An entry is complete when its outcome has been     *)
(* reported to the application.                                            *)

Entry(d, i) == [dir |-> d.files[i] = Dir, copy |-> d.copy, size |-> 0, sized |-> FALSE,
                data |-> << >>, open |-> FALSE, stream |-> 0, outcome |-> "none"]
Left(e) == e.size - Len(e.data)
AskedRange(e) == IF Left(e) > Chunk THEN Chunk ELSE Left(e)
RangeRequest(i, e, stream) == ContentsRequest(i, stream, Len(e.data), AskedRange(e))
SizeRequest(i, stream) == ContentsRequest(i, stream, 0, 0)

(* The queue is worked off: nothing is left to do, and the lock is given up. *)
FinishDownloads(d) ==
  /\ dls' = d /\ current' = Len(d) /\ downloading' = FALSE
  /\ lock' = [lock EXCEPT !.active = FALSE]
  /\ IF lock.active THEN Post(<<UnlockMsg(lock.id)>>) ELSE UNCHANGED toServer

(* start_next_download from position c of the queue d: directories are     *)
(* reported at once, files whose size cannot be asked for are reported as  *)
(* failed (the set skipped); the first other file is asked for and waited  *)
(* for.  When the range of a file that has its size cannot be asked for,   *)
(* the queue waits all the same.                                           *)
StartNext(d, c) ==
  \E skipped \in SUBSET {i \in c + 1 .. Len(d) : d[i].outcome = "none" /\ ~d[i].dir /\ ~d[i].sized} :
    LET passed == {i \in c + 1 .. Len(d) : d[i].dir \/ d[i].outcome # "none" \/ i \in skipped}
        stop == CHOOSE k \in c .. Len(d) : c + 1 .. k \subseteq passed /\ k + 1 \notin passed
        Stream(i) == StreamAfter(Cardinality({j \in skipped : j < i}))
        reported == [i \in DOMAIN d |->
                       IF i \notin c + 1 .. stop \/ d[i].outcome # "none" THEN d[i]
                       ELSE IF d[i].dir THEN [d[i] EXCEPT !.outcome = "done"]
                       ELSE [d[i] EXCEPT !.outcome = "error", !.stream = Stream(i)]]
        e == d[stop + 1]
    IN /\ skipped # {} => MayFail
       /\ skipped \subseteq 1 .. stop
       /\ IF stop = Len(d)
          THEN FinishDownloads(reported) /\ nextStream' = StreamAfter(Cardinality(skipped))
          ELSE /\ dls' = [reported EXCEPT ![stop + 1].stream = Stream(stop + 1)]
               /\ current' = stop
               /\ nextStream' = StreamAfter(Cardinality(skipped) + 1)
               /\ IF e.sized
                  THEN Post(<<RangeRequest(stop + 1, e, Stream(stop + 1))>>)
                  ELSE toServer' = Append(toServer, SizeRequest(stop + 1, Stream(stop + 1)))
               /\ downloading' = TRUE /\ UNCHANGED lock

(* cliprdr_file_request_download, on the command thread.  It needs the     *)
(* channel and descriptors, and cancels the download in progress.          *)
RequestDownload ==
  /\ downloads < env.downloads /\ downloads' = downloads + 1
  /\ up /\ desc.files # << >>
  /\ StartNext([i \in DOMAIN desc.files |-> Entry(desc, i)], 0)
  /\ UNCHANGED <<up, pendingFgd, desc, nextLock, toClient>> /\ UNCHANGED serverVars

FreeDownloads == dls' = << >> /\ current' = 0 /\ downloading' = FALSE

-----------------------------------------------------------------------------
(* The event loop thread: the next message of the server. *)

Receive(kind) ==
  /\ up /\ toClient # << >> /\ Head(toClient).kind = kind
  /\ toClient' = Tail(toClient)
  /\ UNCHANGED <<up, downloads>> /\ UNCHANGED serverVars
Message == Head(toClient)

(* cb_server_format_list whose acknowledgement cannot be sent: no more is  *)
(* done about the list.                                                    *)
ListNotAcknowledged ==
  /\ Receive("list") /\ MayFail
  /\ UNCHANGED <<pendingFgd, desc, dls, current, downloading, nextStream, lock, nextLock, toServer>>

(* cb_server_format_list without files: the text is asked for. *)
TextOffered ==
  /\ Receive("list") /\ ~Message.files
  /\ Post(<<DataRequest("text")>>)
  /\ UNCHANGED <<pendingFgd, desc, dls, current, downloading, nextStream, lock, nextLock>>

FilesOfferedKeepsLock ==
  /\ Receive("list") /\ Message.files
  /\ pendingFgd' = TRUE /\ desc' = NoFiles /\ FreeDownloads
  /\ lock' = [id |-> nextLock, active |-> TRUE] /\ nextLock' = nextLock + 1
  /\ Post(<<LockMsg(nextLock), DataRequest("files")>>)
  /\ UNCHANGED nextStream

FilesOfferedKeepsDownload ==
  /\ Receive("list") /\ Message.files
  /\ pendingFgd' = TRUE
  /\ lock' = [id |-> nextLock, active |-> TRUE] /\ nextLock' = nextLock + 1
  /\ Post((IF lock.active THEN <<UnlockMsg(lock.id)>> ELSE << >>)
            \o <<LockMsg(nextLock), DataRequest("files")>>)
  /\ UNCHANGED <<desc, dls, current, downloading, nextStream>>

(* cb_server_format_list with files and cliprdr_file_server_has_files:     *)
(* downloads and descriptors of the earlier list are dropped, and the new  *)
(* one is locked before its descriptors are asked for.                     *)
FilesOffered ==
  /\ Receive("list") /\ Message.files
  /\ pendingFgd' = TRUE /\ desc' = NoFiles /\ FreeDownloads
  /\ lock' = [id |-> nextLock, active |-> TRUE] /\ nextLock' = nextLock + 1
  /\ Post((IF lock.active THEN <<UnlockMsg(lock.id)>> ELSE << >>)
            \o <<LockMsg(nextLock), DataRequest("files")>>)
  /\ UNCHANGED nextStream

(* cb_server_format_data_response: a refusal forgets that files were asked *)
(* for, an answer without data is dropped, and one flag routes the rest.   *)
(* Text that is taken for descriptors does not parse.                      *)
DataAnswered ==
  /\ Receive("data")
  /\ pendingFgd' = (pendingFgd /\ Message.result = "empty")
  /\ desc' = IF Message.result # "ok" \/ ~pendingFgd THEN desc
             ELSE [copy |-> Message.copy, files |-> Message.files]
  /\ UNCHANGED <<dls, current, downloading, nextStream, lock, nextLock, toServer>>

AskingInQueue == {i \in DOMAIN dls : i = current + 1}

(* cb_server_file_contents_response.  An answer belongs to the entry that  *)
(* asked last under its stream id.                                         *)
Asking == {i \in DOMAIN dls : dls[i].stream = Message.stream}

LateAnswer ==
  /\ Receive("contents") /\ (~downloading \/ Asking = {})
  /\ UNCHANGED <<pendingFgd, desc, dls, current, downloading, nextStream, lock, nextLock, toServer>>

ContentsRefusedWaits(i) ==
  /\ Message.result = "refused"
  /\ dls' = [dls EXCEPT ![i].outcome = "error"] /\ current' = current + 1
  /\ UNCHANGED <<downloading, nextStream, lock, toServer>>

(* The server refuses: the file is reported as failed. *)
ContentsRefused(i) ==
  /\ Message.result = "refused"
  /\ StartNext([dls EXCEPT ![i].outcome = "error"], current + 1)

(* The size: no data means zero.  An empty file is done; another one is    *)
(* opened and its first range asked for, or is reported as failed.         *)
SizeAnswered(i) ==
  LET size == IF Message.result = "empty" THEN 0 ELSE Message.size
      sized == [dls EXCEPT ![i].sized = TRUE, ![i].size = size]
  IN /\ Message.result # "refused" /\ ~dls[i].sized
     /\ \/ size = 0 /\ StartNext([sized EXCEPT ![i].outcome = "done"], current + 1)
        \/ size > 0 /\ StartNext([sized EXCEPT ![i].open = TRUE], current)
        \/ /\ size > 0 /\ "open" \in env.faults
           /\ StartNext([sized EXCEPT ![i].outcome = "error"], current + 1)

Written == IF "disk" \in env.faults THEN 0 .. Len(Message.data) ELSE {Len(Message.data)}

(* A range: what could be written counts.  The file is done, or the rest   *)
(* is asked for, with the result of the request ignored.                   *)
RangeAnswered(i) ==
  /\ Message.result = "ok" /\ dls[i].sized /\ dls[i].open /\ Message.data # << >>
  /\ \E n \in Written :
       LET e == [dls[i] EXCEPT !.data = @ \o SubSeq(Message.data, 1, n)]
       IN IF Left(e) <= 0
          THEN StartNext([dls EXCEPT ![i] = [e EXCEPT !.open = FALSE, !.outcome = "done"]], current + 1)
          ELSE /\ dls' = [dls EXCEPT ![i] = [e EXCEPT !.stream = StreamAfter(0)]]
               /\ nextStream' = StreamAfter(1)
               /\ Post(<<RangeRequest(i, e, StreamAfter(0))>>)
               /\ UNCHANGED <<current, downloading, lock>>

(* A range without data is dropped, and one for a file that is not open:   *)
(* it is done, or could not be opened, and the id has come round again.    *)
NoRange(i) ==
  /\ Message.result # "refused" /\ dls[i].sized
  /\ Message.data = << >> \/ ~dls[i].open
  /\ UNCHANGED <<dls, current, downloading, nextStream, lock, toServer>>

ContentsAnswered ==
  /\ Receive("contents") /\ downloading /\ Asking # {}
  /\ LET i == CHOOSE j \in Asking : \A k \in Asking : j <= k
     IN ContentsRefused(i) \/ SizeAnswered(i) \/ RangeAnswered(i) \/ NoRange(i)
  /\ UNCHANGED <<pendingFgd, desc, nextLock>>

(* The channel goes down and with it everything under way; the descriptors *)
(* stay until cliprdr_file_init prepares the next connection.              *)
ChannelDisconnected ==
  /\ up /\ up' = FALSE
  /\ pendingFgd' = FALSE /\ lock' = [lock EXCEPT !.active = FALSE] /\ FreeDownloads
  /\ toServer' = << >> /\ toClient' = << >> /\ held' = {} /\ jobs' = {} /\ copies' = copies
  /\ UNCHANGED <<desc, nextStream, nextLock, downloads, env>>

StartConnection ==
  /\ ~up /\ up' = TRUE
  /\ desc' = NoFiles /\ nextStream' = 1 /\ lock' = NoLock /\ nextLock' = 100
  /\ UNCHANGED <<pendingFgd, dls, current, downloading, toServer, toClient, downloads>>
  /\ UNCHANGED serverVars

-----------------------------------------------------------------------------
(* The server, as MS-RDPECLIP has it: it announces what is copied, handles *)
(* requests in order, serves a locked clipboard as it was when locked, and *)
(* answers contents requests when it has read the file.                    *)

Copied == copies[Len(copies)]

Copy(c) ==
  /\ up /\ Len(copies) < env.copies
  /\ copies' = Append(copies, c)
  /\ toClient' = Append(toClient, [kind |-> "list", files |-> c # << >>])
  /\ UNCHANGED <<toServer, held, jobs, downloads, env>> /\ UNCHANGED clientVars

Results(has) == (IF has THEN {"ok"} ELSE {}) \cup (IF ~has \/ "refuse" \in env.faults THEN {"refused"} ELSE {})
                  \cup (IF "empty" \in env.faults THEN {"empty"} ELSE {})

Accept(kind) ==
  /\ toServer # << >> /\ Head(toServer).kind = kind /\ toServer' = Tail(toServer)
  /\ UNCHANGED <<copies, downloads, env>> /\ UNCHANGED clientVars
Request == Head(toServer)

AcceptLock ==
  /\ Accept("lock") /\ held' = held \cup {[id |-> Request.id, copy |-> Len(copies)]}
  /\ UNCHANGED <<toClient, jobs>>

AcceptUnlock ==
  /\ Accept("unlock") /\ held' = {l \in held : l.id # Request.id}
  /\ UNCHANGED <<toClient, jobs>>

AcceptDataRequest ==
  /\ Accept("data")
  /\ \E result \in Results((Request.what = "files") <=> (Copied # << >>)) :
       toClient' = Append(toClient, [kind |-> "data", what |-> Request.what, result |-> result,
                                     copy |-> IF Copied = << >> THEN 0 ELSE Len(copies),
                                     files |-> Copied])
  /\ UNCHANGED <<held, jobs>>

AcceptContentsRequest ==
  /\ Accept("contents")
  /\ jobs' = jobs \cup {[request |-> Request,
                         copy |-> IF \E l \in held : l.id = Request.lock
                                  THEN (CHOOSE l \in held : l.id = Request.lock).copy
                                  ELSE Len(copies)]}
  /\ UNCHANGED <<toClient, held>>

Blocks(copy, i, from, n) == [k \in 1 .. n |-> <<copy, i, from + k - 1>>]

AnswerContents(job) ==
  LET r == job.request
      files == copies[job.copy]
      size == IF r.index \in DOMAIN files /\ files[r.index] # Dir THEN files[r.index] ELSE 0
      readable == IF r.want < size - r.from THEN r.want ELSE size - r.from
      has == r.index \in DOMAIN files /\ (r.want = 0 \/ readable > 0)
  IN /\ jobs' = jobs \ {job}
     /\ \E result \in Results(has) : \E n \in 1 .. (IF readable > 1 THEN readable ELSE 1) :
          toClient' = Append(toClient,
            [kind |-> "contents", stream |-> r.stream, result |-> result, size |-> size,
             data |-> IF r.want = 0 \/ result # "ok" THEN << >>
                      ELSE Blocks(job.copy, r.index, r.from, n)])
     /\ UNCHANGED <<toServer, copies, held, downloads, env>> /\ UNCHANGED clientVars

EventLoop ==
  \/ ListNotAcknowledged \/ TextOffered \/ FilesOffered \/ DataAnswered \/ LateAnswer \/ ContentsAnswered

Server ==
  \/ AcceptLock \/ AcceptUnlock \/ AcceptDataRequest \/ AcceptContentsRequest
  \/ \E job \in jobs : AnswerContents(job)

Next ==
  \/ EventLoop \/ Server \/ RequestDownload
  \/ ChannelDisconnected \/ StartConnection
  \/ \E c \in Contents : Copy(c)

Spec == Init /\ [][Next]_vars

(* The event loop keeps running and the server answers what it is asked. *)
FairSpec == Spec /\ WF_vars(EventLoop) /\ WF_vars(Server)

-----------------------------------------------------------------------------
(* Properties. *)

Entries == [dir : BOOLEAN, copy : 0 .. env.copies, size : Nat, sized : BOOLEAN,
            data : Seq((1 .. env.copies) \X Nat \X Nat), open : BOOLEAN,
            stream : 0 .. env.streams, outcome : {"none", "done", "error"}]
TypeOK ==
  /\ {up, pendingFgd, downloading, lock.active} \subseteq BOOLEAN
  /\ dls \in Seq(Entries) /\ current \in 0 .. Len(dls)
  /\ nextStream \in 1 .. env.streams /\ nextLock \in Nat

(* A download in progress is a download of the files whose descriptors the *)
(* helper has, entry for entry: later lists, refusals and misrouted        *)
(* answers never leave a queue of one list beside descriptors of another.  *)
DownloadOfTheListShown ==
  downloading => /\ Len(dls) = Len(desc.files)
                 /\ \A i \in DOMAIN dls : dls[i].copy = desc.copy /\ (dls[i].dir <=> desc.files[i] = Dir)

(* No message is lost, answers have the data they say they have, and what  *)
(* is written to a file is kept.                                           *)
Reliable == env.faults \cap {"send", "empty", "disk"} = {}

(* A file that is reported as done holds every block of that file of that  *)
(* clipboard, once and in order, although answers to cancelled downloads   *)
(* still arrive, the server may answer with less than was asked for and    *)
(* its clipboard may have changed.  (An answer without data to a request   *)
(* for the size is read as a size of zero.)                                *)
DoneFilesAreWhole ==
  Reliable => \A i \in DOMAIN dls :
    dls[i].outcome = "done" /\ ~dls[i].dir
      => dls[i].data = Blocks(dls[i].copy, i, 0, copies[dls[i].copy][i])

(* Requests that the server has not taken yet, and its answers to them.    *)
Asked == {i \in DOMAIN toServer : toServer[i].kind = "contents"}
Answered == {i \in DOMAIN toClient : toClient[i].kind = "contents"}

(* No stream id is used again while the queue remembers it or a request or *)
(* an answer under way carries it: the ids wrap around, and an answer that *)
(* is a whole round late would be taken for a new one.                     *)
StreamsApart ==
  /\ \A i, j \in DOMAIN dls : i # j /\ dls[i].stream # 0 => dls[i].stream # dls[j].stream
  /\ \A i, j \in Asked : i # j => toServer[i].stream # toServer[j].stream
  /\ \A a, b \in jobs : a # b => a.request.stream # b.request.stream
  /\ \A i, j \in Answered : i # j => toClient[i].stream # toClient[j].stream
  /\ \A i \in Asked, job \in jobs : toServer[i].stream # job.request.stream
  /\ \A i \in Asked, j \in Answered : toServer[i].stream # toClient[j].stream
  /\ \A job \in jobs, j \in Answered : job.request.stream # toClient[j].stream

(* What is downloaded is what was shown and what the server had, and the   *)
(* stream ids stay within their range as they wrap around.                 *)
DownloadsAreFaithful ==
  [](TypeOK /\ DownloadOfTheListShown) /\ ([]StreamsApart => []DoneFilesAreWhole)

(* Unless a message is lost, the server never keeps a clipboard locked that *)
(* the helper has forgotten about: a lock is the active one, or its release *)
(* is on the way.                                                           *)
NoLeakedLock ==
  Reliable => \A l \in held : \/ lock.active /\ l.id = lock.id
                              \/ UnlockMsg(l.id) \in ToSet(toServer)

(* A download ends: each file is fetched, refused or fails to open, and    *)
(* the queue moves on to the next one until the application knows of all.  *)
(* (Not when a range request is lost or an answer has no data: see below;  *)
(* nor when an id comes round while it is remembered: the answer would be  *)
(* taken for that of an earlier entry.)                                    *)
DownloadEnds == []StreamsApart => ((Reliable /\ downloading) ~> ~downloading)

(* "Track pending FGD data request (for routing FormatDataResponse)"       *)
(* (cliprdr.c:38): an answer is read as what was asked for.                *)
AnswerReachesItsReader ==
  [][DataAnswered /\ Message.result = "ok" => (pendingFgd <=> Message.what = "files")]_vars

-----------------------------------------------------------------------------
(* Statements of comments that the code does not keep in every case (see   *)
(* the README).                                                            *)

(* "Send CLIPBOARD_FILE_ERROR message on file download error" (output.h):  *)
(* whatever goes wrong, a file that is waited for is reported in the end   *)
(* or the download is over.  A range request that cannot be sent and an    *)
(* answer without data leave the queue waiting for good.                   *)
EveryFileIsReported ==
  \A i \in 1 .. 3 :
    (downloading /\ i \in DOMAIN dls /\ dls[i].outcome = "none")
      ~> (~downloading \/ i \notin DOMAIN dls \/ dls[i].outcome # "none")

(* "This MUST be done before FileContentsRequests" (cliprdr_file.c:250):   *)
(* file contents are asked for under a lock.                               *)
RequestsAreLocked ==
  \A i \in DOMAIN toServer : toServer[i].kind = "contents" => toServer[i].lock # 0
=============================================================================
