----------------------------- MODULE DispProofs -----------------------------
(***************************************************************************)
(* Proofs about Disp: every layout has legal sides, and the server never   *)
(* gets an older layout after a newer one, for any limits, any sides asked *)
(* for and any number of requests.                                         *)
(***************************************************************************)
EXTENDS Disp, TLAPS

(* clamp_even returns an even side between the limits, for every integer. *)
LEMMA ClampLegal ==
  ASSUME NEW n \in Int PROVE ClampEven(n) \in EvenSizes
<1> DEFINE v == IF n < MinSize THEN MinSize ELSE IF n > MaxSize THEN MaxSize ELSE n
<1>1. v \in Int /\ MinSize <= v /\ v <= MaxSize  BY SizeAssumption
<1>2. ClampEven(n) = v - (v % 2)  BY DEF ClampEven
<1> HIDE DEF v
<1>3. v % 2 \in 0..1 /\ (v - (v % 2)) % 2 = 0  BY <1>1
<1>4. MinSize <= v - (v % 2)
  <2>1. CASE v % 2 = 0  BY <1>1, <2>1
  <2>2. CASE v % 2 = 1
    <3>1. v # MinSize  BY <2>2, SizeAssumption
    <3> QED  BY <1>1, <2>2, <3>1, SizeAssumption
  <2> QED  BY <1>3, <2>1, <2>2
<1> QED  BY <1>1, <1>2, <1>3, <1>4, SizeAssumption DEF EvenSizes

(* So the arguments of a request become a layout, whatever they are. *)
LEMMA LayoutLegal ==
  ASSUME NEW no \in 0..MaxRequests, NEW w \in Sizes, NEW h \in Sizes
  PROVE  LayoutOf(no, w, h) \in Layout /\ LayoutOf(no, w, h).no = no
<1>1. ClampEven(w) \in EvenSizes /\ ClampEven(h) \in EvenSizes
  BY ClampLegal, SizeAssumption
<1> QED  BY <1>1 DEF LayoutOf, Layout

(* A send keeps the types: it replaces the layout or marks a failure. *)
LEMMA SendType ==
  ASSUME TypeOK, NEW layout \in Layout, Send(layout)
  PROVE  /\ sent' \in SUBSET Layout /\ elapsed' \in 0..RateLimit /\ failed' \in BOOLEAN
         /\ sent' = sent \/ sent' = {layout}
<1>1. 0 \in 0..RateLimit  BY BoundAssumption
<1> QED  BY <1>1 DEF Send, TypeOK

(* The invariant holds when disp_init returns. *)
LEMMA OrderInit == Init => TypeOK /\ QueueIsNewer
<1> SUFFICES ASSUME Init PROVE TypeOK /\ QueueIsNewer  OBVIOUS
<1>1. RateLimit \in 0..RateLimit /\ 0 \in 0..MaxRequests  BY BoundAssumption
<1>2. TypeOK  BY <1>1 DEF Init, TypeOK
<1>3. QueueIsNewer  BY DEF Init, QueueIsNewer
<1> QED  BY <1>2, <1>3

(* Every entry point of disp.c keeps the invariant and the order. *)
LEMMA OrderNext ==
  ASSUME TypeOK, QueueIsNewer, [Next]_vars
  PROVE  /\ TypeOK' /\ QueueIsNewer'
         /\ \A old \in sent, new \in sent' : old # new => new.no > old.no
<1> DEFINE Goal == /\ TypeOK' /\ QueueIsNewer'
                   /\ \A old \in sent, new \in sent' : old # new => new.no > old.no
<1>0. \A layout \in Layout : layout.no \in Nat
  BY BoundAssumption DEF Layout
<1>1. ASSUME NEW w \in Sizes, NEW h \in Sizes, SetInitialLayout(w, h) PROVE Goal
  <2>1. LayoutOf(0, w, h) \in Layout /\ LayoutOf(0, w, h).no = 0  BY LayoutLegal, BoundAssumption
  <2>2. TypeOK'  BY <1>1, <2>1 DEF SetInitialLayout, TypeOK
  <2>3. QueueIsNewer' /\ sent' = sent
    BY <1>1, <2>1 DEF SetInitialLayout, QueueIsNewer, TypeOK
  <2> QED  BY <2>2, <2>3 DEF QueueIsNewer
<1>2. ASSUME NEW w \in Sizes, NEW h \in Sizes, RequestResize(w, h) PROVE Goal
  <2> DEFINE layout == LayoutOf(requests + 1, w, h)
  <2>1. requests \in Nat /\ requests + 1 \in 0..MaxRequests
    BY <1>2, BoundAssumption DEF RequestResize, TypeOK
  <2>2. layout \in Layout /\ layout.no = requests + 1  BY <2>1, LayoutLegal
  <2>3. \A old \in sent \cup s_pending \cup s_initial : old.no \in Nat /\ old.no <= requests
    BY <1>0 DEF TypeOK, QueueIsNewer
  <2> HIDE DEF layout
  <2>4. CASE ~s_disp \/ ~s_activated \/ elapsed < RateLimit
    <3>1. /\ s_pending' = {layout} /\ requests' = requests + 1
          /\ UNCHANGED <<elapsed, sent, failed, started, s_disp, s_activated, s_initial>>
      BY <1>2, <2>4 DEF RequestResize, layout
    <3>2. TypeOK'  BY <2>1, <2>2, <3>1 DEF TypeOK
    <3>3. QueueIsNewer'  BY <2>1, <2>2, <2>3, <3>1 DEF QueueIsNewer
    <3> QED  BY <3>1, <3>2, <3>3 DEF QueueIsNewer
  <2>5. CASE s_disp /\ s_activated /\ ~(elapsed < RateLimit)
    <3>1. /\ s_pending' = {} /\ requests' = requests + 1 /\ Send(layout)
          /\ UNCHANGED <<started, s_disp, s_activated, s_initial>>
      BY <1>2, <2>5 DEF RequestResize, layout
    <3>2. /\ sent' \in SUBSET Layout /\ elapsed' \in 0..RateLimit /\ failed' \in BOOLEAN
          /\ sent' = sent \/ sent' = {layout}
      BY <2>2, <3>1, SendType
    <3>3. TypeOK'  BY <2>1, <3>1, <3>2 DEF TypeOK
    <3>4. QueueIsNewer'  BY <2>1, <2>2, <2>3, <2>5, <3>1, <3>2 DEF QueueIsNewer
    <3> QED  BY <2>1, <2>2, <2>3, <3>2, <3>3, <3>4 DEF QueueIsNewer
  <2> QED  BY <2>4, <2>5 DEF TypeOK
<1>3. CASE ChannelConnected
  BY <1>3 DEF ChannelConnected, TypeOK, QueueIsNewer
<1>4. CASE ChannelDisconnected
  BY <1>4 DEF ChannelDisconnected, TypeOK, QueueIsNewer
<1>5. CASE Caps
  <2>1. started  BY <1>5 DEF Caps, QueueIsNewer
  <2>2. CASE s_pending \cup s_initial = {}
    <3>1. UNCHANGED <<elapsed, sent, failed>>  BY <1>5, <2>2 DEF Caps
    <3> QED  BY <1>5, <2>1, <3>1 DEF Caps, TypeOK, QueueIsNewer
  <2>3. CASE s_pending \cup s_initial # {}
    <3>1. PICK layout \in IF s_pending # {} THEN s_pending ELSE s_initial : Send(layout)
      BY <1>5, <2>3 DEF Caps
    <3>2. layout \in Layout  BY <3>1 DEF TypeOK
    <3>3. /\ sent' \in SUBSET Layout /\ elapsed' \in 0..RateLimit /\ failed' \in BOOLEAN
          /\ sent' = sent \/ sent' = {layout}
      BY <3>1, <3>2, SendType
    <3>4. layout.no <= requests
      <4>1. CASE s_pending # {}  BY <3>1, <4>1 DEF QueueIsNewer
      <4>2. CASE s_pending = {}
        BY <3>1, <4>2, BoundAssumption DEF QueueIsNewer, TypeOK
      <4> QED  BY <4>1, <4>2
    <3>5. \A old \in sent : layout.no > old.no  BY <3>1 DEF QueueIsNewer
    <3>6. TypeOK'  BY <1>5, <3>3 DEF Caps, TypeOK
    <3>7. QueueIsNewer'  BY <1>5, <2>1, <3>3, <3>4 DEF Caps, QueueIsNewer
    <3> QED  BY <3>3, <3>5, <3>6, <3>7 DEF QueueIsNewer
  <2> QED  BY <2>2, <2>3
<1>6. CASE CheckPending
  <2>1. PICK layout \in s_pending : Send(layout)  BY <1>6 DEF CheckPending
  <2>2. /\ sent' \in SUBSET Layout /\ elapsed' \in 0..RateLimit /\ failed' \in BOOLEAN
        /\ sent' = sent \/ sent' = {layout}
    BY <2>1, SendType DEF TypeOK
  <2>3. TypeOK'  BY <1>6, <2>2 DEF CheckPending, TypeOK
  <2>4. QueueIsNewer'  BY <1>0, <1>6, <2>2 DEF CheckPending, TypeOK, QueueIsNewer
  <2> QED  BY <2>2, <2>3, <2>4 DEF QueueIsNewer
<1>7. CASE Tick
  <2>1. elapsed' \in 0..RateLimit  BY <1>7, BoundAssumption DEF Tick, TypeOK
  <2> QED  BY <1>7, <2>1 DEF Tick, TypeOK, QueueIsNewer
<1>8. CASE UNCHANGED vars
  BY <1>8 DEF vars, TypeOK, QueueIsNewer
<1> QED  BY <1>1, <1>2, <1>3, <1>4, <1>5, <1>6, <1>7, <1>8 DEF Next

(* The invariant holds always. *)
LEMMA OrderAlways == Spec => [](TypeOK /\ QueueIsNewer)
<1>1. TypeOK /\ QueueIsNewer /\ [Next]_vars => (TypeOK /\ QueueIsNewer)'
  BY OrderNext
<1> QED  BY <1>1, OrderInit, PTL DEF Spec

(* Every layout that is queued, kept or sent has even sides between the    *)
(* limits of the protocol, whatever sides were asked for.                  *)
THEOREM LayoutsLegal == Spec => []TypeOK
  BY OrderAlways, PTL

(* The server is never sent a layout older than the one it has.            *)
THEOREM RequestsInOrder == Spec => NeverRegresses
<1>1. TypeOK /\ QueueIsNewer /\ [Next]_vars
        => [\A old \in sent, new \in sent' : old # new => new.no > old.no]_vars
  BY OrderNext
<1> QED  BY <1>1, OrderAlways, PTL DEF Spec, NeverRegresses
=============================================================================
