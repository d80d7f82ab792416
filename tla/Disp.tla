-------------------------------- MODULE Disp --------------------------------
(***************************************************************************)
(* The display control channel of the native helper (disp.c): resize       *)
(* requests from the command thread, rate limited and queued while the     *)
(* channel is down, and sent by the event loop thread.  Each action is one *)
(* critical section of s_mutex.                                            *)
(*                                                                         *)
(* A layout carries the number of the request it came from, so that the    *)
(* properties can tell an old request from a new one; the initial layout   *)
(* is number 0.  The tick counter stands for GetTickCount64, of which only *)
(* the time since the last send matters, up to the rate limit.             *)
(***************************************************************************)
EXTENDS Integers

CONSTANTS MinSize, MaxSize,  \* DISP_MIN_SIZE, DISP_MAX_SIZE
          RateLimit,         \* DISP_RATE_LIMIT_MS, in ticks
          Sizes,             \* the sides a request may name
          MaxRequests        \* bound: resize commands of one connection

ASSUME SizeAssumption ==
  /\ MinSize \in Nat /\ MaxSize \in Nat /\ MinSize <= MaxSize
  /\ MinSize % 2 = 0 /\ Sizes \subseteq Int
ASSUME BoundAssumption == RateLimit \in Nat \ {0} /\ MaxRequests \in Nat

VARIABLES
  started,     \* start_connection has created the event loop thread
  s_disp,      \* the channel is connected
  s_activated, \* its capabilities have arrived
  elapsed,     \* ticks since s_last_send_ms, at most RateLimit
  s_pending,   \* the queued layouts: at most one
  s_initial,   \* the initial layout, until the channel first activates
  requests,    \* resize commands so far
  sent,        \* the last layout the server was sent
  failed       \* a SendMonitorLayout has failed

vars == <<started, s_disp, s_activated, elapsed, s_pending, s_initial,
          requests, sent, failed>>

EvenSizes == {n \in MinSize..MaxSize : n % 2 = 0}
Layout == [no : 0..MaxRequests, width : EvenSizes, height : EvenSizes]

TypeOK ==
  /\ started \in BOOLEAN /\ s_disp \in BOOLEAN /\ s_activated \in BOOLEAN
  /\ elapsed \in 0..RateLimit
  /\ s_pending \in SUBSET Layout /\ s_initial \in SUBSET Layout
  /\ sent \in SUBSET Layout
  /\ requests \in 0..MaxRequests
  /\ failed \in BOOLEAN

ClampOnly(n) == IF n < MinSize THEN MinSize ELSE IF n > MaxSize THEN MaxSize ELSE n

ClampEven(n) ==
  LET v == IF n < MinSize THEN MinSize ELSE IF n > MaxSize THEN MaxSize ELSE n
  IN  v - (v % 2)

LayoutOf(no, w, h) == [no |-> no, width |-> ClampEven(w), height |-> ClampEven(h)]

(* disp_init.  The clock has run for longer than the rate limit. *)
Init ==
  /\ started = FALSE
  /\ s_disp = FALSE /\ s_activated = FALSE
  /\ elapsed = RateLimit
  /\ s_pending = {} /\ s_initial = {}
  /\ requests = 0 /\ sent = {} /\ failed = FALSE

(* disp_set_initial_layout, after freerdp_connect and before the event     *)
(* loop thread that runs every channel callback.                           *)
SetInitialLayout(w, h) ==
  /\ ~started
  /\ started' = TRUE
  /\ s_initial' = {LayoutOf(0, w, h)}
  /\ UNCHANGED <<s_disp, s_activated, elapsed, s_pending, requests, sent, failed>>

(* send_resize_locked with the channel active: SendMonitorLayout succeeds  *)
(* and stamps the time, or fails.                                          *)
Send(layout) ==
  \/ sent' = {layout} /\ elapsed' = 0 /\ UNCHANGED failed
  \/ failed' = TRUE /\ UNCHANGED <<sent, elapsed>>

ChannelConnected ==
  /\ started
  /\ s_disp' = TRUE /\ s_activated' = FALSE
  /\ UNCHANGED <<started, elapsed, s_pending, s_initial, requests, sent, failed>>

ChannelDisconnectedForgets ==
  /\ s_disp
  /\ s_disp' = FALSE /\ s_activated' = FALSE
  /\ s_pending' = {}
  /\ UNCHANGED <<started, elapsed, s_initial, requests, sent, failed>>

(* Keeps s_pending for the next activation. *)
ChannelDisconnected ==
  /\ s_disp
  /\ s_disp' = FALSE /\ s_activated' = FALSE
  /\ UNCHANGED <<started, elapsed, s_pending, s_initial, requests, sent, failed>>

CapsKeepsInitial ==
  /\ s_disp
  /\ s_activated' = TRUE
  /\ IF s_pending \cup s_initial = {} THEN UNCHANGED <<elapsed, sent, failed>>
     ELSE \E layout \in IF s_pending # {} THEN s_pending ELSE s_initial : Send(layout)
  /\ s_pending' = {}
  /\ UNCHANGED <<started, s_disp, s_initial, requests>>

(* cb_disp_caps: the queued layout, or else the initial one. *)
Caps ==
  /\ s_disp
  /\ s_activated' = TRUE
  /\ IF s_pending \cup s_initial = {} THEN UNCHANGED <<elapsed, sent, failed>>
     ELSE \E layout \in IF s_pending # {} THEN s_pending ELSE s_initial : Send(layout)
  /\ s_pending' = {} /\ s_initial' = {}
  /\ UNCHANGED <<started, s_disp, requests>>

RequestResizeKeepsQueue(w, h) ==
  LET layout == LayoutOf(requests + 1, w, h) IN
  /\ started /\ requests < MaxRequests
  /\ requests' = requests + 1
  /\ IF ~s_disp \/ ~s_activated \/ elapsed < RateLimit
     THEN s_pending' = {layout} /\ UNCHANGED <<elapsed, sent, failed>>
     ELSE Send(layout) /\ UNCHANGED s_pending
  /\ UNCHANGED <<started, s_disp, s_activated, s_initial>>

(* disp_request_resize: queued while the channel is down or cooling down,  *)
(* replacing what was queued before; otherwise sent, and the queue cleared.*)
RequestResize(w, h) ==
  LET layout == LayoutOf(requests + 1, w, h) IN
  /\ started /\ requests < MaxRequests
  /\ requests' = requests + 1
  /\ IF ~s_disp \/ ~s_activated \/ elapsed < RateLimit
     THEN s_pending' = {layout} /\ UNCHANGED <<elapsed, sent, failed>>
     ELSE s_pending' = {} /\ Send(layout)
  /\ UNCHANGED <<started, s_disp, s_activated, s_initial>>

(* disp_check_pending, once per turn of the event loop. *)
CheckPending ==
  /\ s_disp /\ s_activated /\ elapsed >= RateLimit
  /\ \E layout \in s_pending : Send(layout)
  /\ s_pending' = {}
  /\ UNCHANGED <<started, s_disp, s_activated, s_initial, requests>>

Tick ==
  /\ elapsed < RateLimit
  /\ elapsed' = elapsed + 1
  /\ UNCHANGED <<started, s_disp, s_activated, s_pending, s_initial, requests,
                 sent, failed>>

Next ==
  \/ \E w, h \in Sizes : SetInitialLayout(w, h) \/ RequestResize(w, h)
  \/ ChannelConnected \/ ChannelDisconnected \/ Caps \/ CheckPending \/ Tick

(* Time passes and the event loop turns at least every 100 ms. *)
Spec == Init /\ [][Next]_vars /\ WF_vars(Tick) /\ WF_vars(CheckPending)

-----------------------------------------------------------------------------
(* Properties. *)

(* Requests never overtake each other: the server is never sent a layout   *)
(* older than one it already has, whatever the channel does in between.    *)
NeverRegresses ==
  [][\A old \in sent, new \in sent' : old # new => new.no > old.no]_vars

(* Why it holds: the server has one layout, the queued one is newer, no     *)
(* layout is newer than the newest request, and the initial one is kept     *)
(* only while nothing was sent.                                             *)
QueueIsNewer ==
  /\ \A a, b \in sent : a = b
  /\ \A old \in sent, new \in s_pending : new.no > old.no
  /\ \A layout \in sent \cup s_pending \cup s_initial : layout.no <= requests
  /\ ~started \/ s_initial # {} => sent = {}
  /\ s_disp \/ s_activated => started
  /\ s_activated => s_initial = {}

(* Once the channel stays active the newest request is what the server     *)
(* has, unless a send has failed: no request is lost in the queue, in the  *)
(* cooldown or over a reconnection of the channel.                         *)
NewestRequestIsSent ==
  <>[](s_disp /\ s_activated)
    => <>[](failed \/ requests = 0 \/ \E layout \in sent : layout.no = requests)

(* Two resize PDUs are at least the rate limit apart, as the comment at     *)
(* disp.c:22 says, even if a server never repeats its capabilities on an    *)
(* active channel.  The activation of the channel sends without a look at   *)
(* the clock, so a channel that is connected anew and activates again       *)
(* within the limit breaks it.                                              *)
RepeatedCaps == s_activated /\ Caps
RateLimited == [][sent' # sent /\ ~RepeatedCaps => elapsed >= RateLimit]_vars
=============================================================================
