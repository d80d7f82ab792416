-------------------------- MODULE ClipLocalProofs ---------------------------
(***************************************************************************)
(* Theorems about ClipLocal, for every set of texts and files, every       *)
(* length of the rate limit and the backoff, and every order in which the  *)
(* command thread and the event loop thread enter their critical sections; *)
(* and about Win32Clipboard and FileNames beside it (MCClipboardLocal),    *)
(* for every bound of their queues and lengths and every copy and name.    *)
(***************************************************************************)
EXTENDS MCClipboardLocal, WellFoundedInduction, TLAPS

-----------------------------------------------------------------------------
(* The inductive invariant.  Beside the property it says that only a       *)
(* channel that is up is ready, which is why a list that announces files   *)
(* is not dropped, and that the files stay dropped between the two         *)
(* sections of cliprdr_set_text.                                           *)
Safe ==
  /\ OfferIsConsistent
  /\ ready => up
  /\ cmd.at = "text" => files = << >>

(* The ids of lists of files are neither unknown nor the id of text. *)
LEMMA IdsDiffer ==
  /\ TextId # 0 /\ OurId # 0 /\ OurId # TextId
  /\ \A id \in ServerIds : id # 0 /\ id # TextId
  BY IdAssumption

-----------------------------------------------------------------------------
(* Induction by the least counterexample. *)

LEMMA LeastOf ==
  ASSUME NEW T \in SUBSET Nat, T # {}
  PROVE  \E x \in T : \A y \in T : x <= y
<1> DEFINE R == OpToRel(<, Nat)
<1>1. \A x, y \in Nat : y < x => <<y, x>> \in R
  BY DEF OpToRel
<1> HIDE DEF R
<1>2. IsWellFoundedOn(R, Nat)
  BY NatLessThanWellFounded DEF R
<1>3. PICK x \in T : \A y \in T : ~ (<<y, x>> \in R)
  BY <1>2, WFMin
<1>4. \A y \in T : ~ (y < x)
  BY <1>1, <1>3
<1>5. \A y \in T : x \in Nat /\ y \in Nat
  OBVIOUS
<1>6. \A y \in T : x <= y
  BY <1>4, <1>5
<1> QED
  BY <1>6

(* What holds of 1, and of k + 1 with k, holds up to n. *)
LEMMA UpTo ==
  ASSUME NEW n \in Nat, NEW G \in SUBSET (1 .. n), n = 0 \/ 1 \in G,
         \A k \in 1 .. n - 1 : k \in G => k + 1 \in G
  PROVE  G = 1 .. n
<1> SUFFICES ASSUME (1 .. n) \ G # {} PROVE FALSE
  OBVIOUS
<1> DEFINE Bad == (1 .. n) \ G
<1>0. Bad \in SUBSET Nat /\ Bad # {}
  OBVIOUS
<1>1. PICK x \in Bad : \A y \in Bad : x <= y
  <2> HIDE DEF Bad
  <2> QED
    BY <1>0, LeastOf
<1>2. x # 1 /\ x \in 1 .. n
  BY <1>1
<1>3. x - 1 \in 1 .. n - 1 /\ ~ (x <= x - 1) /\ x - 1 \in 1 .. n /\ (x - 1) + 1 = x
  BY <1>2
<1>4. x - 1 \in G
  BY <1>1, <1>3
<1> QED
  BY <1>1, <1>3, <1>4

(* A set of sequences that has the empty one and is closed under           *)
(* concatenation is closed under FlattenSeq.                               *)
LEMMA FlattenClosed ==
  ASSUME NEW T, << >> \in T, \A a, b \in T : a \o b \in T, NEW ss \in Seq(T)
  PROVE  FlattenSeq(ss) \in T
<1>1. CASE ss = << >>
  BY <1>1 DEF FlattenSeq
<1>2. CASE ss # << >>
  <2> DEFINE n == Len(ss)
             Flat(g, k) == g = [i \in 1 .. k |-> IF i = 1 THEN ss[i] ELSE g[i - 1] \o ss[i]]
             f == CHOOSE g : Flat(g, n)
             Good == {k \in 1 .. n : \E g : Flat(g, k)}
  <2>1. n \in Nat \ {0} /\ \A i \in 1 .. n : ss[i] \in T
    BY <1>2
  <2>2. 1 \in Good
    <3> DEFINE g == [i \in 1 .. 1 |-> ss[1]]
    <3>1. Flat(g, 1)
      OBVIOUS
    <3>2. 1 \in 1 .. n
      BY <2>1
    <3> HIDE DEF g, Flat
    <3> QED
      BY <3>1, <3>2
  <2>3. ASSUME NEW k \in 1 .. n - 1, k \in Good PROVE k + 1 \in Good
    <3>1. PICK g : Flat(g, k)
      BY <2>3
    <3> DEFINE h == [i \in 1 .. k + 1 |-> IF i = k + 1 THEN g[k] \o ss[k + 1] ELSE g[i]]
    <3>2. \A i \in 1 .. k : g[i] = IF i = 1 THEN ss[i] ELSE g[i - 1] \o ss[i]
      BY <3>1
    <3>3. ASSUME NEW i \in 1 .. k + 1
          PROVE  h[i] = IF i = 1 THEN ss[i] ELSE h[i - 1] \o ss[i]
      <4>1. CASE i = k + 1
        <5>1. i # 1 /\ i - 1 = k /\ k # k + 1 /\ k \in 1 .. k + 1
          BY <4>1, <2>1
        <5>2. h[i - 1] = g[k]
          BY <5>1
        <5> QED
          BY <4>1, <5>1, <5>2
      <4>2. CASE i # k + 1
        <5>1. i \in 1 .. k /\ (i # 1 => i - 1 \in 1 .. k + 1 /\ i - 1 # k + 1)
          BY <4>2, <2>1
        <5>2. h[i] = g[i] /\ (i # 1 => h[i - 1] = g[i - 1])
          BY <4>2, <5>1
        <5> HIDE DEF h
        <5> QED
          BY <3>2, <5>1, <5>2
      <4> QED
        BY <4>1, <4>2
    <3>4. Flat(h, k + 1)
      <4>1. h = [i \in 1 .. k + 1 |-> h[i]]
        OBVIOUS
      <4> HIDE DEF h
      <4> QED
        BY <3>3, <4>1
    <3>5. k + 1 \in 1 .. n
      BY <2>1
    <3> QED
      BY <3>4, <3>5
  <2>4. n \in Good
    <3>1. Good = 1 .. n
      <4> HIDE DEF Good
      <4>1. Good \in SUBSET (1 .. n)
        BY DEF Good
      <4> QED
        BY <2>1, <2>2, <2>3, <4>1, UpTo
    <3> HIDE DEF Good
    <3> QED
      BY <2>1, <3>1
  <2>5. Flat(f, n)
    BY <2>4
  <2>6. FlattenSeq(ss) = f[n]
    <3>1. Len(ss) # 0
      BY <1>2
    <3> QED
      BY <3>1, Zenon DEF FlattenSeq
  <2> DEFINE Typed == {k \in 1 .. n : f[k] \in T}
  <2> HIDE DEF f
  <2>7. \A i \in 1 .. n : f[i] = IF i = 1 THEN ss[i] ELSE f[i - 1] \o ss[i]
    BY <2>5
  <2>8. 1 \in Typed
    BY <2>1, <2>7
  <2>9. ASSUME NEW k \in 1 .. n - 1, k \in Typed PROVE k + 1 \in Typed
    <3>1. k + 1 \in 1 .. n /\ k + 1 # 1 /\ (k + 1) - 1 = k
      BY <2>1
    <3>2. f[k + 1] = f[k] \o ss[k + 1]
      BY <2>7, <3>1
    <3> QED
      BY <2>1, <2>9, <3>1, <3>2
  <2>10. Typed = 1 .. n
    <3> HIDE DEF Typed
    <3>1. Typed \in SUBSET (1 .. n)
      BY DEF Typed
    <3> QED
      BY <2>1, <2>8, <2>9, <3>1, UpTo
  <2> QED
    BY <2>1, <2>6, <2>10
<1> QED
  BY <1>1, <1>2

-----------------------------------------------------------------------------
(* What is staged is a list of files. *)
LEMMA OnlyFilesAreFiles == ASSUME NEW list, Len(list) \in Nat PROVE OnlyFiles(list) \in Seq(Files)
<1> DEFINE T == Seq(Files)
           piece(i) == IF list[i] \in Files THEN <<list[i]>> ELSE << >>
           parts == [i \in 1 .. Len(list) |-> piece(i)]
<1>1. << >> \in T /\ \A a, b \in T : a \o b \in T
  OBVIOUS
<1>2. \A i \in 1 .. Len(list) : piece(i) \in T
  OBVIOUS
<1>3. OnlyFiles(list) = FlattenSeq(parts)
  BY DEF OnlyFiles
<1> HIDE DEF T, piece
<1>4. parts \in Seq(T)
  <2>1. parts \in [1 .. Len(list) -> T]
    BY <1>2
  <2> HIDE DEF parts
  <2> QED
    BY <2>1
<1> HIDE DEF parts
<1>5. FlattenSeq(parts) \in T
  BY <1>1, <1>4, FlattenClosed
<1> QED
  BY <1>3, <1>5 DEF T

LEMMA ListsHoldFiles ==
  /\ << >> \in Lists
  /\ \A list \in FileLists : Staged(list) \in Lists
  /\ \A l \in Lists : l \in Seq(Files)
<1>1. << >> \in Seq(Files)
  OBVIOUS
<1>2. \A list \in FileLists : OnlyFiles(list) \in Seq(Files)
  BY OnlyFilesAreFiles, ListAssumption
<1> QED
  BY <1>1, <1>2 DEF Lists, Staged

(* send_format_list_locked keeps the types, and a list that is sent while  *)
(* files are staged announces them.                                        *)
LEMMA SendKeepsTypes ==
  ASSUME TypeOK, NEW bypass \in BOOLEAN, NEW t \in Texts \cup {NoText},
         SendFormatList(bypass, t)
  PROVE  /\ fgdId' \in Ids \ {TextId} /\ rejected' \in BOOLEAN /\ failed' \in BOOLEAN
         /\ sinceList' \in 0 .. MinInterval
         /\ told' \in [id : Ids, text : Texts \cup {NoText}]
<1>1. /\ fgdId \in Ids \ {TextId} /\ rejected \in BOOLEAN /\ failed \in BOOLEAN
      /\ sinceList \in 0 .. MinInterval /\ 0 \in 0 .. MinInterval
      /\ told \in [id : Ids, text : Texts \cup {NoText}]
  BY IntervalAssumption DEF TypeOK
<1>2. /\ AnnouncedId \in Ids
      /\ files # << >> => AnnouncedId \notin {0, TextId}
  BY <1>1, IdsDiffer DEF AnnouncedId, Ids
<1>3. CASE ~up \/ (~bypass /\ Limited)
  BY <1>1, <1>3 DEF SendFormatList, listVars
<1>4. CASE ~(~up \/ (~bypass /\ Limited))
  <2>1. /\ fgdId' = IF files = << >> THEN fgdId ELSE AnnouncedId
        /\ sinceList' = 0 /\ rejected' = FALSE
        /\ \/ told' = [id |-> AnnouncedId, text |-> t] /\ UNCHANGED failed
           \/ failed' = TRUE /\ UNCHANGED told
    BY <1>4 DEF SendFormatList
  <2>2. fgdId' \in Ids \ {TextId}
    BY <1>1, <1>2, <2>1
  <2>3. told' \in [id : Ids, text : Texts \cup {NoText}] /\ failed' \in BOOLEAN
    <3>1. [id |-> AnnouncedId, text |-> t] \in [id : Ids, text : Texts \cup {NoText}]
      BY <1>2
    <3>2. CASE told' = [id |-> AnnouncedId, text |-> t] /\ UNCHANGED failed
      BY <1>1, <3>1, <3>2
    <3>3. CASE failed' = TRUE /\ UNCHANGED told
      BY <1>1, <3>3
    <3> QED
      BY <2>1, <3>2, <3>3
  <2> QED
    BY <1>1, <2>1, <2>2, <2>3
<1> QED
  BY <1>3, <1>4

(* Past the limits, on a channel that is up, files that are staged are     *)
(* announced, or the failure is recorded.                                  *)
LEMMA SendAnnounces ==
  ASSUME TypeOK, NEW t \in Texts \cup {NoText}, SendFormatList(TRUE, t), up,
         files # << >>, ~failed'
  PROVE  told'.id \notin {0, TextId}
<1>1. AnnouncedId \notin {0, TextId}
  BY IdsDiffer DEF TypeOK, AnnouncedId, Ids
<1>2. failed \in BOOLEAN
  BY DEF TypeOK
<1>3. told' = [id |-> AnnouncedId, text |-> t]
  BY <1>2 DEF SendFormatList
<1> QED
  BY <1>1, <1>3

(* Before the first connection. *)
LEMMA SafeInit == Init => Safe
<1> SUFFICES ASSUME Init PROVE Safe
  OBVIOUS
<1>1. TypeOK
  <2>1. 0 \in Ids \ {TextId} /\ MinInterval \in 0 .. MinInterval /\ Backoff \in 0 .. Backoff
    BY IdsDiffer, IntervalAssumption DEF Ids
  <2> QED
    BY <2>1, ListsHoldFiles DEF Init, TypeOK, Idle, NothingTold
<1> QED
  BY <1>1 DEF Init, Safe, OfferIsConsistent, OneClipboard, StagedFilesAreAnnounced, Idle

-----------------------------------------------------------------------------
(* Every critical section keeps the types. *)
LEMMA TypeNext == TypeOK /\ [Next]_vars => TypeOK'
<1> SUFFICES ASSUME TypeOK, [Next]_vars PROVE TypeOK'
  OBVIOUS
<1> USE DEF TypeOK
<1>1. CASE StartConnection
  <2>1. 0 \in Ids \ {TextId} /\ MinInterval \in 0 .. MinInterval /\ Backoff \in 0 .. Backoff
    BY IdsDiffer, IntervalAssumption DEF Ids
  <2> QED
    BY <1>1, <2>1, ListsHoldFiles DEF StartConnection
<1>2. CASE SkipText
  BY <1>2 DEF SkipText, Idle, listVars, chanVars, serveVars
<1>3. CASE StoreText
  <2>1. cmd.text \in Texts \cup {NoText} /\ cmd.hadFiles \in BOOLEAN
    OBVIOUS
  <2>2. CASE ready
    BY <1>3, <2>1, <2>2, SendKeepsTypes DEF StoreText, Idle, chanVars, serveVars
  <2>3. CASE ~ready
    BY <1>3, <2>1, <2>3 DEF StoreText, Idle, chanVars, serveVars, listVars
  <2> QED
    BY <2>2, <2>3
<1>4. CASE AnnounceFiles
  <2>1. CASE ready /\ files # << >>
    BY <1>4, <2>1, SendKeepsTypes DEF AnnounceFiles, Idle, chanVars, serveVars
  <2>2. CASE ~(ready /\ files # << >>)
    BY <1>4, <2>2 DEF AnnounceFiles, Idle, chanVars, serveVars, listVars
  <2> QED
    BY <2>1, <2>2
<1>5. ASSUME NEW t \in Texts, NEW cleared \in BOOLEAN, SetText(t, cleared) PROVE TypeOK'
  BY <1>5, ListsHoldFiles DEF SetText, listVars, chanVars, serveVars
<1>6. ASSUME NEW list \in FileLists, SetLocalFiles(list) PROVE TypeOK'
  BY <1>6, ListsHoldFiles DEF SetLocalFiles, Idle, listVars, chanVars, serveVars
<1>7. CASE ChannelConnected
  BY <1>7 DEF ChannelConnected, serveVars
<1>8. CASE ChannelDisconnected
  <2>1. 0 \in Ids
    BY DEF Ids
  <2> QED
    BY <1>8, <2>1, ListsHoldFiles DEF ChannelDisconnected, NothingTold
<1>9. CASE MonitorReady
  BY <1>9, SendKeepsTypes DEF MonitorReady, serveVars
<1>10. CASE FormatListRejected
  BY <1>10, IntervalAssumption DEF FormatListRejected, chanVars, serveVars
<1>11. CASE ReadFails
  BY <1>11 DEF ReadFails, listVars, chanVars
<1>12. CASE ContentsServed
  BY <1>12 DEF ContentsServed, listVars, Dead, Idle
<1>13. ASSUME NEW id \in ServerIds \cup {0}, ServerFormatList(id) PROVE TypeOK'
  <2>1. fgdId' \in Ids \ {TextId}
    BY <1>13, IdsDiffer DEF ServerFormatList, Ids
  <2> QED
    BY <1>13, <2>1 DEF ServerFormatList, chanVars, serveVars
<1>14. ASSUME NEW id \in Ids \ {0}, FormatDataRequest(id) PROVE TypeOK'
  BY <1>14 DEF FormatDataRequest, listVars, chanVars, serveVars
<1>15. ASSUME NEW i \in 0 .. MaxLocalFiles, ContentsRequest(i) PROVE TypeOK'
  <2>1. files \in Seq(Files) /\ i \in Nat /\ i < Len(files)
    BY <1>15, ListsHoldFiles, IntervalAssumption DEF ContentsRequest
  <2>2. files[i + 1] \in Files
    BY <2>1
  <2> QED
    BY <1>15, <2>1, <2>2 DEF ContentsRequest, listVars, chanVars
<1>16. ASSUME NEW id \in LockIds, ServerLocks(id) PROVE TypeOK'
  BY <1>16 DEF ServerLocks, listVars, chanVars
<1>17. ASSUME NEW id \in LockIds, ServerUnlocks(id) PROVE TypeOK'
  BY <1>17, ListsHoldFiles DEF ServerUnlocks, listVars, chanVars
<1>18. CASE Tick
  <2>1. sinceList' \in 0 .. MinInterval /\ sinceReject' \in 0 .. Backoff
    BY <1>18, IntervalAssumption DEF Tick
  <2> QED
    BY <1>18, <2>1 DEF Tick, chanVars, serveVars
<1>19. CASE UNCHANGED vars
  BY <1>19 DEF vars
<1> QED
  BY <1>1, <1>2, <1>3, <1>4, <1>5, <1>6, <1>7, <1>8, <1>9, <1>10, <1>11, <1>12, <1>13,
     <1>14, <1>15, <1>16, <1>17, <1>18, <1>19 DEF Next, CommandThread, EventLoop

-----------------------------------------------------------------------------
(* Every critical section keeps the offer one thing, and files announced. *)
LEMMA SafeNext == Safe /\ [Next]_vars => Safe'
<1> SUFFICES ASSUME Safe, [Next]_vars PROVE Safe'
  OBVIOUS
<1>0. TypeOK /\ TypeOK'
  BY TypeNext DEF Safe, OfferIsConsistent
<1> USE <1>0 DEF Safe, OfferIsConsistent
<1>1. ASSUME ready' => ready, UNCHANGED <<text, files, cmd, told, failed>>,
             ready' => up'
      PROVE  Safe'
  BY <1>1 DEF OneClipboard, StagedFilesAreAnnounced
<1>2. CASE StartConnection
  BY <1>2 DEF StartConnection, OneClipboard, StagedFilesAreAnnounced, Idle
<1>3. CASE SkipText
  BY <1>3 DEF SkipText, OneClipboard, StagedFilesAreAnnounced, Idle, listVars, chanVars
<1>4. CASE StoreText
  <2>1. files' = << >> /\ cmd' = Idle /\ UNCHANGED <<up, ready>>
    BY <1>4 DEF StoreText, chanVars
  <2> QED
    BY <2>1 DEF OneClipboard, StagedFilesAreAnnounced, Idle
<1>5. CASE AnnounceFiles
  <2>1. cmd' = Idle /\ UNCHANGED <<up, ready, files>>
    BY <1>5 DEF AnnounceFiles, chanVars
  <2>2. CASE ready /\ files # << >>
    <3>1. text' = NoText /\ SendFormatList(TRUE, NoText)
      BY <1>5, <2>2 DEF AnnounceFiles
    <3>2. ~failed' => told'.id \notin {0, TextId}
      BY <2>2, <3>1, SendAnnounces
    <3> QED
      BY <2>1, <3>1, <3>2 DEF OneClipboard, StagedFilesAreAnnounced, Idle
  <2>3. CASE ~(ready /\ files # << >>)
    BY <2>1, <2>3 DEF OneClipboard, StagedFilesAreAnnounced, Idle
  <2> QED
    BY <2>2, <2>3
<1>6. ASSUME NEW t \in Texts, NEW cleared \in BOOLEAN, SetText(t, cleared) PROVE Safe'
  BY <1>6 DEF SetText, OneClipboard, StagedFilesAreAnnounced, Idle, chanVars
<1>7. ASSUME NEW list \in FileLists, SetLocalFiles(list) PROVE Safe'
  BY <1>7 DEF SetLocalFiles, OneClipboard, StagedFilesAreAnnounced, Idle, chanVars
<1>8. CASE ChannelConnected
  BY <1>8, <1>1 DEF ChannelConnected
<1>9. CASE ChannelDisconnected
  BY <1>9 DEF ChannelDisconnected, OneClipboard, StagedFilesAreAnnounced
<1>10. CASE MonitorReady
  <2>1. text' = NoText /\ up /\ SendFormatList(TRUE, NoText) /\ UNCHANGED <<up, files, cmd>>
    BY <1>10 DEF MonitorReady
  <2>2. files # << >> /\ ~failed' => told'.id \notin {0, TextId}
    BY <2>1, SendAnnounces
  <2> QED
    BY <2>1, <2>2 DEF OneClipboard, StagedFilesAreAnnounced
<1>11. CASE FormatListRejected \/ ReadFails \/ Tick
  BY <1>11, <1>1 DEF FormatListRejected, ReadFails, Tick, chanVars, listVars
<1>12. CASE ContentsServed
  <2>1. CASE UNCHANGED <<up, ready, cmd>>
    BY <1>12, <2>1, <1>1 DEF ContentsServed, listVars
  <2>2. CASE ~ready' /\ cmd' = Dead
    BY <2>2 DEF OneClipboard, StagedFilesAreAnnounced, Dead, Idle
  <2> QED
    BY <1>12, <2>1, <2>2 DEF ContentsServed
<1>13. ASSUME NEW id, \/ ServerFormatList(id) \/ FormatDataRequest(id)
                      \/ ServerLocks(id) \/ ServerUnlocks(id)
       PROVE  Safe'
  BY <1>13, <1>1 DEF ServerFormatList, FormatDataRequest, ServerLocks, ServerUnlocks,
                     chanVars, listVars
<1>14. ASSUME NEW i, ContentsRequest(i) PROVE Safe'
  BY <1>14, <1>1 DEF ContentsRequest, chanVars, listVars
<1>15. CASE UNCHANGED vars
  BY <1>15, <1>1 DEF vars
<1> QED
  BY <1>2, <1>3, <1>4, <1>5, <1>6, <1>7, <1>8, <1>9, <1>10, <1>11, <1>12, <1>13, <1>14,
     <1>15 DEF Next, CommandThread, EventLoop

(* On a ready channel the local side offers text or files and never both,  *)
(* staged files have been announced under an id of files unless a send     *)
(* failed, and what is staged, shown and read are files                    *)
(* (cliprdr.c, cliprdr_file.c).                                            *)
THEOREM OfferAlwaysConsistent == Spec => []OfferIsConsistent
<1>1. Safe => OfferIsConsistent
  BY DEF Safe
<1> QED
  BY <1>1, SafeInit, SafeNext, PTL DEF Spec

-----------------------------------------------------------------------------
(* One of the three parts that MCClipboardLocal runs beside one another.  *)
Step == InChannel(Next) \/ InWindows(Windows!Next) \/ InNames(Names!Next)

-----------------------------------------------------------------------------
(* File names.  The scan has put every ".." component before its position  *)
(* out of the way, and a name without one is as it was.                    *)
NameInv ==
  /\ NamesAreSanitized
  /\ at \in {"normalize", "strip"} => p = 1 /\ name = base
  /\ at \in {"scan", "done"} =>
       /\ len > 0 => name[1] \notin Names!Separators
       /\ \A i \in 1 .. len : i < p => ~Names!DotDotAt(name, len, i)

(* Neither a dot nor an underscore separates components. *)
LEMMA NotSeparators ==
  /\ Names!Dot # Names!Underscore
  /\ Names!Dot \notin Names!Separators /\ Names!Underscore \notin Names!Separators
  BY DEF Names!Dot, Names!Underscore, Names!Separators, Names!Slash, Names!Backslash

(* Putting underscores over the component at p makes no other one: the     *)
(* component before it would have to end in a separator.                   *)
LEMMA ScanClears ==
  ASSUME NEW l \in Nat, NEW n \in [1 .. l -> Names!Chars], NEW q \in 1 .. l,
         Names!DotDotAt(n, l, q), NEW m,
         \A i \in 1 .. l : m[i] = IF i \in {q, q + 1} THEN Names!Underscore ELSE n[i]
  PROVE  /\ ~Names!DotDotAt(m, l, q)
         /\ m[1] \in Names!Separators => n[1] \in Names!Separators
         /\ \A i \in 1 .. l : i < q /\ Names!DotDotAt(m, l, i) => Names!DotDotAt(n, l, i)
<1>1. q + 1 \in 1 .. l /\ q # q + 1
  BY DEF Names!DotDotAt
<1>2. \A i \in 1 .. l : m[i] = IF i \in {q, q + 1} THEN Names!Underscore ELSE n[i]
  OBVIOUS
<1>4. ~Names!DotDotAt(m, l, q)
  BY <1>2, NotSeparators DEF Names!DotDotAt
<1>5. m[1] \in Names!Separators => n[1] \in Names!Separators
  BY <1>2, NotSeparators
<1>6. ASSUME NEW i \in 1 .. l, i < q, Names!DotDotAt(m, l, i) PROVE Names!DotDotAt(n, l, i)
  <2>1. i + 1 \in 1 .. l /\ i + 1 # q /\ i + 1 # q + 1 /\ n[i] = Names!Dot /\ n[i + 1] = Names!Dot
    BY <1>2, <1>6, NotSeparators DEF Names!DotDotAt
  <2>2. i = 1 \/ n[i - 1] \in Names!Separators
    <3>1. i = 1 \/ i - 1 \in 1 .. l
      OBVIOUS
    <3> QED
      BY <1>2, <1>6, <3>1, NotSeparators DEF Names!DotDotAt
  <2>3. i + 1 = l \/ n[i + 2] \in Names!Separators
    <3>1. i + 1 = l \/ i + 2 \in 1 .. l
      BY <2>1
    <3> QED
      BY <1>2, <1>6, <3>1, NotSeparators DEF Names!DotDotAt
  <2> QED
    BY <2>1, <2>2, <2>3 DEF Names!DotDotAt
<1> QED
  BY <1>4, <1>5, <1>6

LEMMA NameNext == NameInv /\ [Names!Next]_nameVars => NameInv'
<1> SUFFICES ASSUME NameInv, [Names!Next]_nameVars PROVE NameInv'
  OBVIOUS
<1>0. /\ len \in Nat /\ name \in [1 .. len -> Names!Chars] /\ base \in [1 .. len -> Names!Chars]
      /\ at \in {"normalize", "strip", "scan", "done"} /\ p \in 1 .. len + 1
  BY DEF NameInv, NamesAreSanitized, Names!TypeOK
<1> USE DEF NameInv, NamesAreSanitized, Names!TypeOK, Names!StaysBelow, Names!OthersAreKept
<1>1. CASE Names!Normalize
  <2>1. PICK windows \in Builds :
          name' = IF windows THEN name
                  ELSE [i \in 1 .. len |-> IF name[i] = Names!Backslash THEN Names!Slash ELSE name[i]]
    BY <1>1 DEF Names!Normalize
  <2>2. name' \in [1 .. len -> Names!Chars]
    <3>1. Names!Slash \in Names!Chars
      BY DEF Names!Chars, Names!Separators
    <3> QED
      BY <1>0, <2>1, <3>1
  <2> QED
    BY <1>0, <1>1, <2>2 DEF Names!Normalize
<1>2. CASE Names!Strip
  <2>1. CASE len > 0 /\ name[1] \in Names!Separators
    <3>1. name' = [i \in 1 .. len - 1 |-> name[i + 1]] /\ len' = len - 1
          /\ base' = name' /\ UNCHANGED <<at, p>> /\ at = "strip" /\ p = 1
      BY <1>2, <2>1 DEF Names!Strip
    <3>2. name' \in [1 .. len' -> Names!Chars] /\ len' \in Nat
      BY <1>0, <2>1, <3>1
    <3> QED
      BY <1>0, <2>1, <3>1, <3>2
  <2>2. CASE ~(len > 0 /\ name[1] \in Names!Separators)
    <3>1. UNCHANGED <<name, len, p>> /\ base' = name /\ at' = "scan" /\ p = 1
      BY <1>2, <2>2 DEF Names!Strip
    <3> QED
      BY <1>0, <2>2, <3>1
  <2> QED
    BY <2>1, <2>2
<1>3. CASE Names!Scan
  <2>1. /\ at = "scan" /\ p \in 1 .. len /\ p' = p + 1 /\ UNCHANGED <<len, at, base>>
    BY <1>0, <1>3 DEF Names!Scan
  <2>2. CASE Names!DotDotAt(name, len, p)
    <3>1. name' = [name EXCEPT ![p] = Names!Underscore, ![p + 1] = Names!Underscore]
      BY <1>3, <2>2 DEF Names!Scan
    <3>2. /\ name' \in [1 .. len -> Names!Chars]
          /\ \A i \in 1 .. len :
               name'[i] = IF i \in {p, p + 1} THEN Names!Underscore ELSE name[i]
      <4>1. p + 1 \in 1 .. len
        BY <1>0, <2>1, <2>2 DEF Names!DotDotAt
      <4>2. Names!Underscore \in Names!Chars
        BY DEF Names!Chars
      <4> QED
        BY <1>0, <2>1, <3>1, <4>1, <4>2
    <3>3. /\ ~Names!DotDotAt(name', len, p)
          /\ name'[1] \in Names!Separators => name[1] \in Names!Separators
          /\ \A i \in 1 .. len : i < p /\ Names!DotDotAt(name', len, i) => Names!DotDotAt(name, len, i)
      <4>1. p \in 1 .. len /\ len \in Nat /\ name \in [1 .. len -> Names!Chars]
        BY <1>0, <2>1
      <4> HIDE DEF NameInv, NamesAreSanitized, Names!TypeOK, Names!StaysBelow, Names!OthersAreKept
      <4> QED
        BY <4>1, <2>2, <3>2, ScanClears
    <3>4. \A i \in 1 .. len : i < p + 1 => ~Names!DotDotAt(name', len, i)
      BY <1>0, <2>1, <3>3
    <3>5. \E i \in 1 .. len : Names!DotDotAt(base, len, i)
      <4>1. base # name => \E i \in 1 .. len : Names!DotDotAt(base, len, i)
        OBVIOUS
      <4> QED
        BY <2>1, <2>2, <4>1
    <3> QED
      BY <1>0, <2>1, <3>2, <3>3, <3>4, <3>5
  <2>3. CASE ~Names!DotDotAt(name, len, p)
    <3>1. UNCHANGED name
      BY <1>3, <2>3 DEF Names!Scan
    <3>2. \A i \in 1 .. len : i < p + 1 => ~Names!DotDotAt(name, len, i)
      BY <1>0, <2>1, <2>3
    <3> QED
      BY <1>0, <2>1, <3>1, <3>2
  <2> QED
    BY <2>2, <2>3
<1>4. CASE Names!Finish
  <2>1. at = "scan" /\ p > len /\ at' = "done" /\ UNCHANGED <<name, len, p, base>>
    BY <1>4 DEF Names!Finish
  <2>2. \A i \in 1 .. len : i < p
    BY <1>0, <2>1
  <2> QED
    BY <1>0, <2>1, <2>2
<1>5. CASE UNCHANGED nameVars
  BY <1>5 DEF nameVars
<1> QED
  BY <1>1, <1>2, <1>3, <1>4, <1>5 DEF Names!Next

(* A name that a server offers, of any length, becomes the name of a file  *)
(* below the download directory, in both builds, and is left alone when it *)
(* was one (cliprdr_file.c sanitize_filename).                             *)
THEOREM NamesAlwaysSanitized == MCSpec => []NamesAreSanitized
<1>1. MCInit => NameInv
  <2> SUFFICES ASSUME Names!Init PROVE NameInv
    BY DEF MCInit
  <2>1. /\ len \in Nat /\ name \in [1 .. len -> Names!Chars] /\ at = "normalize" /\ p = 1
        /\ base = name
    BY BoundsAssumption DEF Names!Init
  <2> QED
    BY <2>1 DEF NameInv, NamesAreSanitized, Names!TypeOK, Names!StaysBelow, Names!OthersAreKept
<1>2. NameInv /\ [Step]_MCVars => NameInv'
  <2>1. ASSUME [Step]_MCVars PROVE [Names!Next]_nameVars
    BY <2>1 DEF Step, InChannel, InWindows, InNames, MCVars
  <2> QED
    BY <2>1, NameNext
<1>3. NameInv => NamesAreSanitized
  BY DEF NameInv
<1> QED
  BY <1>1, <1>2, <1>3, PTL DEF MCSpec, Step

-----------------------------------------------------------------------------
(* The Windows clipboard.  A notice of our own change that is still in the *)
(* queue has the clearing of its guard behind it, once its handler has     *)
(* returned.                                                               *)
Messages == [kind : {"SET", "UPDATE", "CLEAR", "SHUTDOWN"}, formats : SUBSET Windows!Formats]
WindowTyped ==
  /\ Windows!TypeOK /\ queue \in Seq(Messages)
  /\ handler \in [at : {"idle", "open", "close"}, formats : SUBSET Windows!Formats]
  /\ handler # Windows!Idle => thread \in {"pump", "quit"}
NoticeAt(q, i) == i \in 1 .. Len(q) /\ q[i].kind = "UPDATE"
ClearAt(q, i) == i \in 1 .. Len(q) /\ q[i].kind = "CLEAR"
ClearsFollow ==
  clip.by = "us" /\ handler = Windows!Idle =>
    \A i \in Nat : NoticeAt(queue, i) => \E j \in Nat : i < j /\ ClearAt(queue, j)
WindowInv == WindowTyped /\ ClearsFollow

(* As long as copies do not overlap there is at most one clearing to come, *)
(* until it has come the guard is up, and what is passed on is the user's. *)
Guarded ==
  /\ \A i, j \in Nat : ClearAt(queue, i) /\ ClearAt(queue, j) => i = j
  /\ handler # Windows!Idle \/ Windows!Waits("CLEAR") => s_we_set_clipboard
  /\ forwarded.by = "user"

(* What is posted is the last message, and what is taken the first. *)
LEMMA PostedIsLast ==
  ASSUME NEW q \in Seq(Messages), NEW m \in Messages
  PROVE  /\ Append(q, m) \in Seq(Messages) /\ Len(q) \in Nat /\ Len(q) + 1 \in Nat
         /\ \A i \in Nat : NoticeAt(Append(q, m), i)
              <=> NoticeAt(q, i) \/ (i = Len(q) + 1 /\ m.kind = "UPDATE")
         /\ \A i \in Nat : ClearAt(Append(q, m), i)
              <=> ClearAt(q, i) \/ (i = Len(q) + 1 /\ m.kind = "CLEAR")
         /\ \A i \in Nat : NoticeAt(q, i) \/ ClearAt(q, i) => i <= Len(q)
<1>1. /\ Len(q) \in Nat /\ Len(Append(q, m)) = Len(q) + 1 /\ Append(q, m)[Len(q) + 1] = m
      /\ \A i \in 1 .. Len(q) : Append(q, m)[i] = q[i]
  OBVIOUS
<1>2. Append(q, m) \in Seq(Messages)
  OBVIOUS
<1> QED
  BY <1>1, <1>2 DEF NoticeAt, ClearAt

LEMMA TakenIsFirst ==
  ASSUME NEW q \in Seq(Messages), q # << >>
  PROVE  /\ Tail(q) \in Seq(Messages) /\ Head(q) \in Messages
         /\ \A i \in Nat : NoticeAt(Tail(q), i) <=> i # 0 /\ NoticeAt(q, i + 1)
         /\ \A i \in Nat : ClearAt(Tail(q), i) <=> i # 0 /\ ClearAt(q, i + 1)
         /\ NoticeAt(q, 1) <=> Head(q).kind = "UPDATE"
         /\ ClearAt(q, 1) <=> Head(q).kind = "CLEAR"
<1>1. /\ Len(q) \in Nat \ {0} /\ Len(Tail(q)) = Len(q) - 1 /\ Head(q) = q[1]
      /\ \A i \in 1 .. Len(q) - 1 : Tail(q)[i] = q[i + 1]
  OBVIOUS
<1>2. Tail(q) \in Seq(Messages) /\ Head(q) \in Messages
  OBVIOUS
<1> QED
  BY <1>1, <1>2 DEF NoticeAt, ClearAt

LEMMA WaitsIs == queue \in Seq(Messages) => (Windows!Waits("CLEAR") <=> \E i \in Nat : ClearAt(queue, i))
  BY DEF Windows!Waits, ClearAt

LEMMA PostTyped ==
  /\ Windows!Msg("UPDATE") \in Messages /\ Windows!Msg("CLEAR") \in Messages
  /\ Windows!Msg("SHUTDOWN") \in Messages
  /\ Windows!SetMsg("text") \in Messages /\ Windows!SetMsg("files") \in Messages
  /\ Windows!Msg("UPDATE").kind = "UPDATE" /\ Windows!Msg("CLEAR").kind = "CLEAR"
  /\ Windows!Msg("SHUTDOWN").kind = "SHUTDOWN"
  /\ Windows!SetMsg("text").kind = "SET" /\ Windows!SetMsg("files").kind = "SET"
  BY DEF Windows!Msg, Windows!SetMsg, Messages, Windows!Formats

(* What a step does to the queue: nothing, it posts one message, takes the *)
(* first, or drops everything with the window.                             *)
LEMMA WindowTypedNext == WindowTyped /\ [Windows!Next]_windowsVars => WindowTyped'
<1> SUFFICES ASSUME WindowTyped, [Windows!Next]_windowsVars PROVE WindowTyped'
  OBVIOUS
<1>0. /\ queue \in Seq(Messages) /\ clip \in Windows!Clips /\ forwarded \in Windows!Clips
      /\ handler \in [at : {"idle", "open", "close"}, formats : SUBSET Windows!Formats]
      /\ s_hwnd <=> thread \in {"window", "pump", "quit"}
      /\ s_thread_running <=> thread \in {"pump", "quit"}
      /\ ~s_hwnd => queue = <<>>
      /\ handler # Windows!Idle => thread \in {"pump", "quit"}
      /\ s_thread => thread # "none"
  BY DEF WindowTyped, Windows!TypeOK
<1> SUFFICES
      /\ queue' \in Seq(Messages) /\ clip' \in Windows!Clips /\ forwarded' \in Windows!Clips
      /\ handler' \in [at : {"idle", "open", "close"}, formats : SUBSET Windows!Formats]
      /\ s_hwnd' <=> thread' \in {"window", "pump", "quit"}
      /\ s_thread_running' <=> thread' \in {"pump", "quit"}
      /\ ~s_hwnd' => queue' = <<>>
      /\ handler' # Windows!Idle => thread' \in {"pump", "quit"}
      /\ s_thread' => thread' # "none"
  <2>1. queue' \in Seq(Messages) => \A i \in 1 .. Len(queue') : queue'[i].kind \in {"SET", "UPDATE", "CLEAR", "SHUTDOWN"}
    <3> SUFFICES ASSUME queue' \in Seq(Messages), NEW i \in 1 .. Len(queue')
                 PROVE  queue'[i].kind \in {"SET", "UPDATE", "CLEAR", "SHUTDOWN"}
      OBVIOUS
    <3>1. queue'[i] \in Messages
      OBVIOUS
    <3> QED
      BY <3>1 DEF Messages
  <2>2. handler' \in [at : {"idle", "open", "close"}, formats : SUBSET Windows!Formats]
          => handler'.at \in {"idle", "open", "close"}
    OBVIOUS
  <2> QED
    BY <2>1, <2>2 DEF WindowTyped, Windows!TypeOK
<1>1. CASE \/ Windows!Win32Init \/ Windows!CleanupReturns \/ (\E value \in BOOLEAN : Windows!SetReady(value))
           \/ Windows!StartFails \/ Windows!CreateWindow \/ Windows!Listen
  BY <1>0, <1>1 DEF Windows!Win32Init, Windows!CleanupReturns, Windows!SetReady,
                    Windows!StartFails, Windows!CreateWindow, Windows!Listen
<1>2. CASE Windows!CleanupPosts
  <2>1. Append(queue, Windows!Msg("SHUTDOWN")) \in Seq(Messages)
    BY <1>0, PostedIsLast, PostTyped
  <2> QED
    BY <1>0, <1>2, <2>1 DEF Windows!CleanupPosts
<1>3. CASE Windows!Posts
  <2>1. CASE Windows!SetText \/ \E complete \in SUBSET Roots : Windows!SetFiles(complete)
    <3>1. PICK m \in Messages : queue' = Append(queue, m)
      BY <2>1, PostTyped DEF Windows!SetText, Windows!SetFiles, Windows!Post
    <3>2. queue' \in Seq(Messages)
      BY <1>0, <3>1, PostedIsLast
    <3> QED
      BY <1>0, <2>1, <3>2 DEF Windows!SetText, Windows!SetFiles, Windows!IsActive, Windows!windowVars
  <2>2. ASSUME NEW formats \in SUBSET Windows!Formats, Windows!UserCopies(formats)
        PROVE  /\ queue' \in Seq(Messages) /\ clip' \in Windows!Clips
               /\ (~s_hwnd => queue' = <<>>)
               /\ UNCHANGED <<forwarded, handler, s_hwnd, thread, s_thread_running, s_thread>>
    <3>1. Append(queue, Windows!Msg("UPDATE")) \in Seq(Messages)
      BY <1>0, PostedIsLast, PostTyped
    <3>2. [by |-> "user", formats |-> formats] \in Windows!Clips
      BY DEF Windows!Clips
    <3> QED
      BY <1>0, <2>2, <3>1, <3>2 DEF Windows!UserCopies, Windows!windowVars
  <2> QED
    BY <1>0, <1>3, <2>1, <2>2 DEF Windows!Posts
<1>4. CASE Windows!ListenFails
  <2>1. << >> \in Seq(Messages) /\ handler' = handler
    BY <1>4 DEF Windows!ListenFails
  <2> QED
    BY <1>0, <1>4, <2>1 DEF Windows!ListenFails
<1>5. ASSUME NEW kind, Windows!Take(kind)
      PROVE  /\ queue' \in Seq(Messages) /\ Head(queue) \in Messages /\ s_hwnd
             /\ thread \in {"pump", "quit"} /\ handler = Windows!Idle
  BY <1>0, <1>5, TakenIsFirst DEF Windows!Take
<1>6. CASE Windows!Update
  <2>1. [clip EXCEPT !.formats = IF "files" \in @ THEN {"files"} ELSE {"text"}] \in Windows!Clips
    BY <1>0 DEF Windows!Clips, Windows!Formats
  <2> QED
    BY <1>0, <1>5, <1>6, <2>1 DEF Windows!Update, Windows!windowVars
<1>7. CASE Windows!SetBegins
  <2>1. Head(queue).formats \in SUBSET Windows!Formats
    BY <1>5, <1>7 DEF Windows!SetBegins, Messages
  <2> QED
    BY <1>0, <1>5, <1>7, <2>1 DEF Windows!SetBegins, Windows!windowVars
<1>8. CASE Windows!Write
  <2>1. \A f \in {handler.formats, {}} : [by |-> "us", formats |-> f] \in Windows!Clips
    BY <1>0 DEF Windows!Clips
  <2>2. queue' \in Seq(Messages)
    BY <1>0, <1>8, PostedIsLast, PostTyped DEF Windows!Write
  <2>3. s_hwnd /\ thread \in {"pump", "quit"} /\ handler' = [handler EXCEPT !.at = "close"]
    BY <1>0, <1>8 DEF Windows!Write, Windows!Idle
  <2> QED
    BY <1>0, <1>8, <2>1, <2>2, <2>3 DEF Windows!Write, Windows!windowVars
<1>9. CASE Windows!OpenFails
  <2>1. s_hwnd /\ thread \in {"pump", "quit"}
    BY <1>0, <1>9 DEF Windows!OpenFails, Windows!Idle
  <2> QED
    BY <1>0, <1>9, <2>1 DEF Windows!OpenFails, Windows!windowVars
<1>10. CASE Windows!SetEnds
  <2>1. queue' \in Seq(Messages)
    BY <1>0, <1>10, PostedIsLast, PostTyped DEF Windows!SetEnds
  <2>2. s_hwnd /\ Windows!Idle \in [at : {"idle", "open", "close"}, formats : SUBSET Windows!Formats]
    BY <1>0, <1>10 DEF Windows!SetEnds, Windows!Idle
  <2> QED
    BY <1>0, <1>10, <2>1, <2>2 DEF Windows!SetEnds, Windows!windowVars
<1>11. CASE Windows!ClearFlag \/ Windows!Shutdown
  BY <1>0, <1>5, <1>11 DEF Windows!ClearFlag, Windows!Shutdown, Windows!windowVars
<1>12. CASE Windows!Quit
  BY <1>0, <1>12 DEF Windows!Quit
<1>13. CASE UNCHANGED windowsVars
  BY <1>0, <1>13 DEF windowsVars
<1> QED
  BY <1>1, <1>2, <1>3, <1>4, <1>6, <1>7, <1>8, <1>9, <1>10, <1>11, <1>12, <1>13
     DEF Windows!Next, Windows!ClipboardThread

LEMMA ClearsFollowNext == WindowInv /\ [Windows!Next]_windowsVars => ClearsFollow'
<1> SUFFICES ASSUME WindowInv, [Windows!Next]_windowsVars, clip'.by = "us", handler' = Windows!Idle,
                    NEW i \in Nat, NoticeAt(queue', i)
             PROVE  \E j \in Nat : i < j /\ ClearAt(queue', j)
  BY DEF ClearsFollow
<1>0. queue \in Seq(Messages)
  BY DEF WindowInv, WindowTyped
<1>1. ASSUME UNCHANGED <<queue, clip, handler>>
      PROVE  \E j \in Nat : i < j /\ ClearAt(queue', j)
  BY <1>1 DEF WindowInv, ClearsFollow
<1>2. ASSUME NEW m \in Messages, m.kind # "UPDATE", queue' = Append(queue, m),
             UNCHANGED <<clip, handler>>
      PROVE  \E j \in Nat : i < j /\ ClearAt(queue', j)
  <2>1. NoticeAt(queue, i)
    BY <1>0, <1>2, PostedIsLast
  <2>2. PICK j \in Nat : i < j /\ ClearAt(queue, j)
    BY <1>2, <2>1 DEF WindowInv, ClearsFollow
  <2>3. ClearAt(queue', j)
    BY <1>0, <1>2, <2>2, PostedIsLast
  <2> QED
    BY <2>2, <2>3
<1>3. ASSUME NEW kind, Windows!Take(kind), UNCHANGED clip
      PROVE  \E j \in Nat : i < j /\ ClearAt(queue', j)
  <2>1. queue' = Tail(queue) /\ queue # << >> /\ handler = Windows!Idle
    BY <1>3 DEF Windows!Take
  <2>2. i # 0 /\ NoticeAt(queue, i + 1) /\ i + 1 \in Nat
    BY <1>0, <2>1, TakenIsFirst
  <2>3. PICK j \in Nat : i + 1 < j /\ ClearAt(queue, j)
    BY <1>3, <2>1, <2>2 DEF WindowInv, ClearsFollow
  <2>4. j - 1 \in Nat /\ j - 1 # 0 /\ (j - 1) + 1 = j /\ i < j - 1
    BY <2>3
  <2>5. ClearAt(queue', j - 1)
    BY <1>0, <2>1, <2>3, <2>4, TakenIsFirst
  <2> QED
    BY <2>4, <2>5
<1>4. CASE \/ Windows!Win32Init \/ Windows!CleanupReturns \/ (\E value \in BOOLEAN : Windows!SetReady(value))
           \/ Windows!StartFails \/ Windows!CreateWindow \/ Windows!Listen \/ Windows!Quit
           \/ UNCHANGED windowsVars
  BY <1>1, <1>4 DEF Windows!Win32Init, Windows!CleanupReturns, Windows!SetReady, Windows!Quit,
                    Windows!StartFails, Windows!CreateWindow, Windows!Listen, windowsVars
<1>5. CASE Windows!CleanupPosts
  BY <1>1, <1>2, <1>5, PostTyped DEF Windows!CleanupPosts
<1>6. CASE Windows!SetText \/ \E complete \in SUBSET Roots : Windows!SetFiles(complete)
  BY <1>2, <1>6, PostTyped DEF Windows!SetText, Windows!SetFiles, Windows!Post
<1>7. CASE \E formats \in SUBSET Windows!Formats : Windows!UserCopies(formats)
  BY <1>7 DEF Windows!UserCopies
<1>8. CASE Windows!ListenFails
  BY <1>8 DEF Windows!ListenFails, NoticeAt
<1>9. CASE Windows!Update \/ Windows!ClearFlag \/ Windows!Shutdown
  BY <1>3, <1>9 DEF Windows!Update, Windows!ClearFlag, Windows!Shutdown
<1>10. CASE Windows!SetBegins \/ Windows!Write \/ Windows!OpenFails
  <2>1. handler'.at # "idle"
    BY <1>10 DEF Windows!SetBegins, Windows!Write, Windows!OpenFails, WindowInv, WindowTyped
  <2> QED
    BY <2>1 DEF Windows!Idle
<1>11. CASE Windows!SetEnds
  <2>1. queue' = Append(queue, Windows!Msg("CLEAR"))
    BY <1>11 DEF Windows!SetEnds
  <2>2. ClearAt(queue', Len(queue) + 1) /\ Len(queue) + 1 \in Nat /\ Len(queue) \in Nat
    BY <1>0, <2>1, PostedIsLast, PostTyped
  <2>3. NoticeAt(queue, i)
    BY <1>0, <2>1, PostedIsLast, PostTyped
  <2>4. i < Len(queue) + 1
    BY <1>0, <2>2, <2>3, PostedIsLast, PostTyped
  <2> QED
    BY <2>2, <2>4
<1> QED
  BY <1>4, <1>5, <1>6, <1>7, <1>8, <1>9, <1>10, <1>11
     DEF Windows!Next, Windows!ClipboardThread, Windows!Posts

LEMMA GuardedNext ==
  WindowInv /\ Guarded /\ Windows!OneCopyAtATime /\ [Windows!Next]_windowsVars => Guarded'
<1> SUFFICES ASSUME WindowInv, Guarded, Windows!OneCopyAtATime, [Windows!Next]_windowsVars
             PROVE  Guarded'
  OBVIOUS
<1>0. queue \in Seq(Messages) /\ clip.by \in {"us", "user"}
  BY DEF WindowInv, WindowTyped, Windows!TypeOK, Windows!Clips
<1>1. queue' \in Seq(Messages)
  BY WindowTypedNext DEF WindowInv, WindowTyped
<1>2. Windows!Waits("CLEAR") <=> \E i \in Nat : ClearAt(queue, i)
  BY <1>0, WaitsIs
<1>3. Windows!Waits("CLEAR")' <=> \E i \in Nat : ClearAt(queue', i)
  BY <1>1 DEF Windows!Waits, ClearAt
<1>4. ASSUME \A i \in Nat : ClearAt(queue', i) <=> ClearAt(queue, i),
             UNCHANGED <<handler, s_we_set_clipboard, forwarded>>
      PROVE  Guarded'
  BY <1>2, <1>3, <1>4 DEF Guarded
<1>5. ASSUME NEW m \in Messages, m.kind # "CLEAR", queue' = Append(queue, m)
      PROVE  \A i \in Nat : ClearAt(queue', i) <=> ClearAt(queue, i)
  BY <1>0, <1>5, PostedIsLast
<1>6. ASSUME NEW kind, Windows!Take(kind)
      PROVE  /\ \A i, j \in Nat : ClearAt(queue', i) /\ ClearAt(queue', j) => i = j
             /\ Windows!Waits("CLEAR")' => Windows!Waits("CLEAR")
             /\ kind = "CLEAR" => ~Windows!Waits("CLEAR")'
             /\ handler = Windows!Idle
  <2>1. queue' = Tail(queue) /\ queue # << >> /\ Head(queue).kind = kind /\ handler = Windows!Idle
    BY <1>6 DEF Windows!Take
  <2>2. \A i \in Nat : ClearAt(queue', i) => i # 0 /\ i + 1 \in Nat /\ ClearAt(queue, i + 1)
    BY <1>0, <2>1, TakenIsFirst
  <2>3. ASSUME NEW i \in Nat, NEW j \in Nat, ClearAt(queue', i), ClearAt(queue', j) PROVE i = j
    <3>1. i + 1 = j + 1
      BY <2>2, <2>3 DEF Guarded
    <3> QED
      BY <3>1
  <2>4. ASSUME kind = "CLEAR", NEW i \in Nat, ClearAt(queue', i) PROVE FALSE
    <3>1. ClearAt(queue, 1)
      BY <1>0, <2>1, <2>4, TakenIsFirst
    <3>2. i + 1 = 1
      BY <2>2, <2>4, <3>1 DEF Guarded
    <3> QED
      BY <2>2, <2>4, <3>2
  <2> QED
    BY <1>2, <1>3, <2>1, <2>2, <2>3, <2>4
<1>7. CASE Windows!Win32Init
  <2>1. queue = << >> /\ handler = Windows!Idle /\ UNCHANGED <<queue, handler, forwarded>>
    BY <1>7 DEF Windows!Win32Init, WindowInv, WindowTyped, Windows!TypeOK
  <2>2. \A i \in Nat : ~ClearAt(queue', i)
    BY <2>1 DEF ClearAt
  <2> QED
    BY <1>3, <2>1, <2>2 DEF Guarded
<1>8. CASE \/ Windows!CleanupReturns \/ (\E value \in BOOLEAN : Windows!SetReady(value))
           \/ Windows!StartFails \/ Windows!CreateWindow \/ Windows!Listen \/ Windows!Quit
           \/ UNCHANGED windowsVars
  BY <1>4, <1>8 DEF Windows!CleanupReturns, Windows!SetReady, Windows!Quit,
                    Windows!StartFails, Windows!CreateWindow, Windows!Listen, windowsVars
<1>9. CASE Windows!CleanupPosts
  BY <1>4, <1>5, <1>9, PostTyped DEF Windows!CleanupPosts
<1>10. CASE Windows!Posts
  BY <1>4, <1>5, <1>10, PostTyped
     DEF Windows!Posts, Windows!SetText, Windows!SetFiles, Windows!UserCopies, Windows!Post
<1>11. CASE Windows!ListenFails
  <2>1. handler = Windows!Idle /\ queue' = << >> /\ UNCHANGED <<handler, s_we_set_clipboard, forwarded>>
    BY <1>11 DEF Windows!ListenFails, WindowInv, WindowTyped
  <2>2. \A i \in Nat : ~ClearAt(queue', i)
    BY <2>1 DEF ClearAt
  <2> QED
    BY <1>3, <2>1, <2>2 DEF Guarded
<1>12. CASE Windows!Update
  <2>1. Windows!Take("UPDATE") /\ UNCHANGED <<s_we_set_clipboard, handler>>
    BY <1>12 DEF Windows!Update
  <2>2. s_we_set_clipboard \/ clip.by = "user"
    <3> SUFFICES ASSUME clip.by = "us" PROVE s_we_set_clipboard
      BY <1>0
    <3>1. queue # << >> /\ Head(queue).kind = "UPDATE" /\ handler = Windows!Idle
      BY <2>1 DEF Windows!Take
    <3>2. NoticeAt(queue, 1)
      BY <1>0, <3>1, TakenIsFirst
    <3>3. \E j \in Nat : ClearAt(queue, j)
      BY <3>1, <3>2 DEF WindowInv, ClearsFollow
    <3> QED
      BY <1>2, <3>3 DEF Guarded
  <2>3. forwarded'.by = "user"
    <3>1. CASE UNCHANGED forwarded
      BY <3>1 DEF Guarded
    <3>2. CASE ~s_we_set_clipboard /\ forwarded' = [clip EXCEPT !.formats =
                 IF "files" \in @ THEN {"files"} ELSE {"text"}]
      <4>1. clip \in [by : {"us", "user"}, formats : SUBSET Windows!Formats]
        BY DEF WindowInv, WindowTyped, Windows!TypeOK, Windows!Clips
      <4> QED
        BY <2>2, <3>2, <4>1
    <3> QED
      BY <1>12, <3>1, <3>2 DEF Windows!Update
  <2> QED
    BY <1>6, <2>1, <2>3 DEF Guarded
<1>13. CASE Windows!SetBegins
  BY <1>6, <1>13 DEF Windows!SetBegins, Guarded
<1>14. CASE Windows!Write
  <2>1. \A i \in Nat : ClearAt(queue', i) <=> ClearAt(queue, i)
    BY <1>5, <1>14, PostTyped DEF Windows!Write
  <2>2. s_we_set_clipboard' /\ UNCHANGED forwarded
    BY <1>14 DEF Windows!Write, Windows!Idle, Guarded
  <2> QED
    BY <2>1, <2>2 DEF Guarded
<1>15. CASE Windows!OpenFails
  <2>1. s_we_set_clipboard' /\ UNCHANGED <<forwarded, queue>>
    BY <1>15 DEF Windows!OpenFails, Windows!Idle, Guarded
  <2> QED
    BY <2>1 DEF Guarded
<1>16. CASE Windows!SetEnds
  <2>1. s_we_set_clipboard' /\ UNCHANGED forwarded /\ \A i \in Nat : ~ClearAt(queue, i)
    BY <1>2, <1>16 DEF Windows!SetEnds, Windows!Idle, Guarded, Windows!OneCopyAtATime
  <2>2. \A i \in Nat : ClearAt(queue', i) => i = Len(queue) + 1
    BY <1>0, <1>16, <2>1, PostedIsLast, PostTyped DEF Windows!SetEnds
  <2> QED
    BY <2>1, <2>2 DEF Guarded
<1>17. CASE Windows!ClearFlag
  <2>1. Windows!Take("CLEAR") /\ UNCHANGED <<handler, forwarded>>
    BY <1>17 DEF Windows!ClearFlag
  <2> QED
    BY <1>6, <2>1 DEF Guarded
<1>18. CASE Windows!Shutdown
  BY <1>6, <1>18 DEF Windows!Shutdown, Guarded
<1> QED
  BY <1>7, <1>8, <1>9, <1>10, <1>11, <1>12, <1>13, <1>14, <1>15, <1>16, <1>17, <1>18
     DEF Windows!Next, Windows!ClipboardThread

LEMMA WindowInit == MCInit => WindowInv /\ Guarded
<1> SUFFICES ASSUME Windows!Init PROVE WindowInv /\ Guarded
  BY DEF MCInit
<1>1. /\ thread = "none" /\ s_thread = FALSE /\ s_hwnd = FALSE /\ s_thread_running = FALSE
      /\ queue = << >> /\ Len(queue) = 0 /\ handler = Windows!Idle
      /\ clip = [by |-> "user", formats |-> {}] /\ forwarded = clip
  BY DEF Windows!Init
<1>2. clip \in Windows!Clips /\ clip.by = "user"
  BY <1>1 DEF Windows!Clips
<1>3. handler \in [at : {"idle", "open", "close"}, formats : SUBSET Windows!Formats]
  BY <1>1 DEF Windows!Idle
<1>4. queue \in Seq(Messages)
  BY <1>1
<1>5. WindowTyped
  BY <1>1, <1>2, <1>3, <1>4 DEF WindowTyped, Windows!TypeOK
<1>6. Guarded
  BY <1>1, <1>2 DEF Guarded, ClearAt, Windows!Waits
<1> QED
  BY <1>2, <1>5, <1>6 DEF WindowInv, ClearsFollow

(* What the server copied is not passed back to it as a copy of the user:  *)
(* never when copies are handled one at a time, and otherwise only while   *)
(* the copy's own CLEAR is still waiting, for any number of copies and any *)
(* failure of the handlers (cliprdr_win32.c).                              *)
THEOREM EchoAlwaysPrevented == MCSpec => EchoPrevented
<1> DEFINE Echo == forwarded' # forwarded /\ forwarded'.by = "us" => Windows!Waits("CLEAR")
<1>1. WindowInv /\ [Step]_MCVars => WindowInv'
  <2>1. ASSUME [Step]_MCVars PROVE [Windows!Next]_windowsVars
    BY <2>1 DEF Step, InChannel, InWindows, InNames, MCVars
  <2> QED
    BY <2>1, WindowTypedNext, ClearsFollowNext DEF WindowInv
<1>2. WindowInv /\ Guarded /\ Windows!OneCopyAtATime /\ [Step]_MCVars => Guarded'
  <2>1. ASSUME [Step]_MCVars PROVE [Windows!Next]_windowsVars
    BY <2>1 DEF Step, InChannel, InWindows, InNames, MCVars
  <2> QED
    BY <2>1, GuardedNext
<1>3. WindowInv /\ [Step]_MCVars => [Echo]_(Windows!vars)
  <2> SUFFICES ASSUME WindowInv, [Step]_MCVars, forwarded' # forwarded, forwarded'.by = "us"
               PROVE  Windows!Waits("CLEAR")
    OBVIOUS
  <2>1. [Windows!Next]_windowsVars
    BY DEF Step, InChannel, InWindows, InNames, MCVars
  <2>2. Windows!Update
    BY <2>1 DEF windowsVars, Windows!Next, Windows!ClipboardThread, Windows!Posts,
         Windows!Win32Init, Windows!CleanupPosts, Windows!CleanupReturns, Windows!SetReady,
         Windows!SetText, Windows!SetFiles, Windows!UserCopies, Windows!StartFails,
         Windows!CreateWindow, Windows!ListenFails, Windows!Listen, Windows!SetBegins,
         Windows!Write, Windows!OpenFails, Windows!SetEnds, Windows!ClearFlag,
         Windows!Shutdown, Windows!Quit
  <2>3. queue \in Seq(Messages) /\ clip \in [by : {"us", "user"}, formats : SUBSET Windows!Formats]
    BY DEF WindowInv, WindowTyped, Windows!TypeOK, Windows!Clips
  <2>4. clip.by = "us"
    BY <2>2, <2>3 DEF Windows!Update
  <2>5. queue # << >> /\ Head(queue).kind = "UPDATE" /\ handler = Windows!Idle
    BY <2>2 DEF Windows!Update, Windows!Take
  <2>6. NoticeAt(queue, 1)
    BY <2>3, <2>5, TakenIsFirst
  <2> QED
    BY <2>3, <2>4, <2>5, <2>6, WaitsIs DEF WindowInv, ClearsFollow
<1>4. WindowInv => Windows!TypeOK
  BY DEF WindowInv, WindowTyped
<1>5. Guarded => forwarded.by = "user"
  BY DEF Guarded
<1> QED
  BY WindowInit, <1>1, <1>2, <1>3, <1>4, <1>5, PTL
     DEF MCSpec, Step, EchoPrevented, Windows!EchoPrevented
=============================================================================
