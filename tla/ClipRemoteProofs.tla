-------------------------- MODULE ClipRemoteProofs --------------------------
(***************************************************************************)
(* Theorems about ClipRemote, for everything the server may have on its    *)
(* clipboard, every order of its messages and of the download commands,    *)
(* and every number of copies, downloads and connections.                  *)
(***************************************************************************)
EXTENDS ClipRemote, FiniteSetTheorems, WellFoundedInduction, TLAPS

-----------------------------------------------------------------------------
(* The channel to the server. *)

IsSequence(s) == \E S : s \in Seq(S)

(* A queue that grows by one message. *)
LEMMA Grows ==
  ASSUME NEW s, IsSequence(s), NEW m
  PROVE  /\ IsSequence(Append(s, m)) /\ Len(s) \in Nat
         /\ Len(Append(s, m)) = Len(s) + 1
         /\ \A i \in 1 .. Len(s) : Append(s, m)[i] = s[i]
         /\ Append(s, m)[Len(s) + 1] = m
<1>1. PICK S : s \in Seq(S)
  BY DEF IsSequence
<1>2. s \in Seq(S \cup {m})
  BY <1>1
<1>3. Append(s, m) \in Seq(S \cup {m})
  BY <1>2
<1> QED
  BY <1>2, <1>3 DEF IsSequence

(* Several messages are one after the other. *)
LEMMA OneByOne ==
  ASSUME NEW s, IsSequence(s), NEW a, NEW b, NEW c
  PROVE  /\ s \o <<a>> = Append(s, a)
         /\ s \o <<a, b>> = Append(Append(s, a), b)
         /\ s \o <<a, b, c>> = Append(Append(Append(s, a), b), c)
<1>1. PICK S : s \in Seq(S)
  BY DEF IsSequence
<1>2. s \in Seq(S \cup {a, b, c})
  BY <1>1
<1> QED
  BY <1>2

(* And one that is taken out. *)
LEMMA Shrinks ==
  ASSUME NEW s, IsSequence(s), s # << >>
  PROVE  /\ IsSequence(Tail(s)) /\ Len(s) \in Nat \ {0} /\ Head(s) = s[1]
         /\ Len(Tail(s)) = Len(s) - 1
         /\ \A i \in 1 .. Len(s) - 1 : Tail(s)[i] = s[i + 1]
<1>1. PICK S : s \in Seq(S)
  BY DEF IsSequence
<1>2. Tail(s) \in Seq(S)
  BY <1>1
<1> QED
  BY <1>1, <1>2 DEF IsSequence

-----------------------------------------------------------------------------
(* Locks.  A lock that the server holds, or that is on its way to it, is   *)
(* the helper's active one or has its release behind it in the channel.    *)

IsLock(m, id) == m.kind = "lock" /\ m.id = id
Active(lk, id) == lk.active /\ id = lk.id
Released(s, id, from) == \E j \in from .. Len(s) : s[j] = UnlockMsg(id)
Matched(s, h, lk) ==
  /\ IsSequence(s)
  /\ \A l \in h : Active(lk, l.id) \/ Released(s, l.id, 1)
  /\ \A i \in 1 .. Len(s) : \A id :
       IsLock(s[i], id) => Active(lk, id) \/ Released(s, id, i + 1)

(* A message that locks nothing changes nothing. *)
LEMMA MatchAppend ==
  ASSUME NEW s, NEW h, NEW lk, NEW m, Matched(s, h, lk), m.kind # "lock"
  PROVE  Matched(Append(s, m), h, lk)
<1>1. /\ IsSequence(Append(s, m)) /\ Len(s) \in Nat /\ Len(Append(s, m)) = Len(s) + 1
      /\ \A i \in 1 .. Len(s) : Append(s, m)[i] = s[i]
      /\ Append(s, m)[Len(s) + 1] = m
  BY Grows DEF Matched
<1>2. ASSUME NEW id, NEW from \in Nat \ {0}, Released(s, id, from)
      PROVE  Released(Append(s, m), id, from)
  BY <1>1, <1>2 DEF Released
<1>3. \A l \in h : Active(lk, l.id) \/ Released(Append(s, m), l.id, 1)
  BY <1>2 DEF Matched
<1>4. ASSUME NEW i \in 1 .. Len(Append(s, m)), NEW id, IsLock(Append(s, m)[i], id)
      PROVE  Active(lk, id) \/ Released(Append(s, m), id, i + 1)
  <2>1. i \in 1 .. Len(s) /\ IsLock(s[i], id) /\ i + 1 \in Nat \ {0}
    BY <1>1, <1>4 DEF IsLock
  <2> QED
    BY <2>1, <1>2 DEF Matched
<1> QED
  BY <1>1, <1>3, <1>4 DEF Matched

(* Nothing is lost of a match when no lock is active. *)
LEMMA MatchInactive ==
  ASSUME NEW s, NEW h, NEW lk, NEW any, Matched(s, h, lk), ~lk.active
  PROVE  Matched(s, h, any)
  BY DEF Matched, Active

(* The helper may forget its lock when it posts the release. *)
LEMMA MatchUnlock ==
  ASSUME NEW s, NEW h, NEW lk, NEW any, Matched(s, h, lk)
  PROVE  Matched(Append(s, UnlockMsg(lk.id)), h, any)
<1> DEFINE m == UnlockMsg(lk.id)
<1>1. Matched(Append(s, m), h, lk)
  BY MatchAppend DEF UnlockMsg
<1>2. /\ Len(s) \in Nat /\ Len(Append(s, m)) = Len(s) + 1
      /\ Append(s, m)[Len(s) + 1] = UnlockMsg(lk.id)
  BY Grows DEF Matched
<1>3. ASSUME NEW from \in 1 .. Len(s) + 1 PROVE Released(Append(s, m), lk.id, from)
  BY <1>2 DEF Released
<1>4. \A l \in h : Released(Append(s, m), l.id, 1)
  <2>1. 1 \in 1 .. Len(s) + 1
    BY <1>2
  <2> QED
    BY <1>1, <1>3, <2>1 DEF Matched, Active
<1>5. ASSUME NEW i \in 1 .. Len(Append(s, m)), NEW id, IsLock(Append(s, m)[i], id)
      PROVE  Released(Append(s, m), id, i + 1)
  <2>1. i # Len(s) + 1
    BY <1>2, <1>5 DEF IsLock, UnlockMsg
  <2>2. i + 1 \in 1 .. Len(s) + 1
    BY <1>2, <2>1
  <2>3. Active(lk, id) \/ Released(Append(s, m), id, i + 1)
    BY <1>1, <1>5 DEF Matched
  <2> QED
    BY <1>3, <2>2, <2>3 DEF Active
<1> QED
  BY <1>1, <1>4, <1>5 DEF Matched

(* A new lock may be posted when none is active; it is then the active one. *)
LEMMA MatchLock ==
  ASSUME NEW s, NEW h, NEW lk, NEW n, Matched(s, h, lk), ~lk.active
  PROVE  Matched(Append(s, LockMsg(n)), h, [id |-> n, active |-> TRUE])
<1> DEFINE m == LockMsg(n)
           new == [id |-> n, active |-> TRUE]
<1>1. /\ IsSequence(Append(s, m)) /\ Len(s) \in Nat /\ Len(Append(s, m)) = Len(s) + 1
      /\ \A i \in 1 .. Len(s) : Append(s, m)[i] = s[i]
      /\ Append(s, m)[Len(s) + 1] = m
  BY Grows DEF Matched
<1>2. ASSUME NEW id, NEW from \in Nat \ {0}, Released(s, id, from)
      PROVE  Released(Append(s, m), id, from)
  BY <1>1, <1>2 DEF Released
<1>3. \A l \in h : Released(Append(s, m), l.id, 1)
  BY <1>2 DEF Matched, Active
<1>4. ASSUME NEW i \in 1 .. Len(Append(s, m)), NEW id, IsLock(Append(s, m)[i], id)
      PROVE  Active(new, id) \/ Released(Append(s, m), id, i + 1)
  <2>1. CASE i = Len(s) + 1
    BY <1>1, <1>4, <2>1 DEF Active, LockMsg, IsLock
  <2>2. CASE i # Len(s) + 1
    <3>1. i \in 1 .. Len(s) /\ IsLock(s[i], id) /\ i + 1 \in Nat \ {0}
      BY <1>1, <1>4, <2>2
    <3> QED
      BY <3>1, <1>2 DEF Matched, Active
  <2> QED
    BY <2>1, <2>2
<1> QED
  BY <1>1, <1>3, <1>4 DEF Matched

(* The server takes the first message of the channel; a lock it takes has  *)
(* its release behind it, and the release of another lock stays there.     *)
LEMMA MatchTail ==
  ASSUME NEW s, NEW h, NEW lk, Matched(s, h, lk), s # << >>,
         NEW h2, \A l \in h2 : \/ l \in h /\ Head(s) # UnlockMsg(l.id)
                               \/ IsLock(Head(s), l.id)
  PROVE  Matched(Tail(s), h2, lk)
<1>1. /\ IsSequence(Tail(s)) /\ Len(s) \in Nat \ {0} /\ Head(s) = s[1]
      /\ Len(Tail(s)) = Len(s) - 1
      /\ \A i \in 1 .. Len(s) - 1 : Tail(s)[i] = s[i + 1]
  BY Shrinks DEF Matched
<1>2. ASSUME NEW id, NEW from \in Nat \ {0}, Released(s, id, from + 1)
      PROVE  Released(Tail(s), id, from)
  <2>1. PICK j \in from + 1 .. Len(s) : s[j] = UnlockMsg(id)
    BY <1>2 DEF Released
  <2>2. j - 1 \in from .. Len(s) - 1 /\ j - 1 \in 1 .. Len(s) - 1 /\ (j - 1) + 1 = j
    BY <1>1, <2>1
  <2> QED
    BY <1>1, <2>1, <2>2 DEF Released
<1>3. ASSUME NEW l \in h2 PROVE Active(lk, l.id) \/ Released(Tail(s), l.id, 1)
  <2>1. CASE l \in h /\ Head(s) # UnlockMsg(l.id)
    <3>1. CASE Released(s, l.id, 1)
      <4>1. Released(s, l.id, 1 + 1)
        BY <1>1, <2>1, <3>1 DEF Released
      <4> QED
        BY <4>1, <1>2
    <3> QED
      BY <2>1, <3>1 DEF Matched
  <2>2. CASE IsLock(Head(s), l.id)
    <3>1. Active(lk, l.id) \/ Released(s, l.id, 1 + 1)
      BY <1>1, <2>2 DEF Matched
    <3> QED
      BY <3>1, <1>2
  <2> QED
    BY <2>1, <2>2
<1>4. ASSUME NEW i \in 1 .. Len(Tail(s)), NEW id, IsLock(Tail(s)[i], id)
      PROVE  Active(lk, id) \/ Released(Tail(s), id, i + 1)
  <2>1. i + 1 \in 1 .. Len(s) /\ i + 1 \in Nat \ {0} /\ IsLock(s[i + 1], id)
    BY <1>1, <1>4
  <2>2. Active(lk, id) \/ Released(s, id, (i + 1) + 1)
    BY <2>1 DEF Matched
  <2> QED
    BY <1>2, <2>1, <2>2
<1> QED
  BY <1>1, <1>3, <1>4 DEF Matched

-----------------------------------------------------------------------------
(* The steps of the helper. *)

(* Starting the next download either asks for one thing more or gives the  *)
(* lock up; it does not take one.                                          *)
SendsOnly(m) == toServer' = Append(toServer, m) /\ UNCHANGED lock
GivesUp == /\ lock' = [lock EXCEPT !.active = FALSE]
           /\ toServer' = IF lock.active THEN Append(toServer, UnlockMsg(lock.id))
                          ELSE toServer

LEMMA StartNextSends ==
  ASSUME ~MayFail, IsSequence(toServer), NEW d, NEW c, StartNext(d, c)
  PROVE  GivesUp \/ \E i, stream, from, want :
                      SendsOnly(ContentsRequest(i, stream, from, want))
<1>1. ASSUME NEW m, Post(<<m>>) PROVE toServer' = Append(toServer, m)
  BY <1>1, OneByOne DEF Post
<1>2. CASE \E r : FinishDownloads(r)
  BY <1>1, <1>2 DEF FinishDownloads, GivesUp
<1>3. ASSUME ~ \E r : FinishDownloads(r)
      PROVE  \E i, stream, from, want :
               /\ UNCHANGED lock
               /\ \/ Post(<<ContentsRequest(i, stream, from, want)>>)
                  \/ toServer' = Append(toServer, ContentsRequest(i, stream, from, want))
  BY <1>3 DEF StartNext, RangeRequest, SizeRequest
<1>4. CASE ~ \E r : FinishDownloads(r)
  <2>1. PICK i, stream, from, want :
               /\ UNCHANGED lock
               /\ \/ Post(<<ContentsRequest(i, stream, from, want)>>)
                  \/ toServer' = Append(toServer, ContentsRequest(i, stream, from, want))
    BY <1>3, <1>4
  <2>2. SendsOnly(ContentsRequest(i, stream, from, want))
    BY <1>1, <2>1 DEF SendsOnly
  <2> QED
    BY <2>2
<1> QED
  BY <1>2, <1>4

(* The locks as the property needs them, in a connection that loses        *)
(* nothing; without a channel there is nothing to release.                 *)
LockInv ==
  /\ lock \in [id : Nat, active : BOOLEAN] /\ nextLock \in Nat
  /\ Reliable => /\ Matched(toServer, held, lock)
                 /\ ~up => held = {} /\ toServer = << >>

(* No lock, no message. *)
LEMMA MatchNothing == ASSUME NEW lk PROVE Matched(<< >>, {}, lk)
<1>1. << >> \in Seq({})
  OBVIOUS
<1> QED
  BY <1>1 DEF Matched, IsSequence

(* A step that starts the next download keeps locks and releases together. *)
LEMMA StartNextKeepsLocks ==
  ASSUME LockInv, NEW d, NEW c, StartNext(d, c), up, UNCHANGED <<nextLock, up, held, env>>,
         Reliable
  PROVE  LockInv'
<1>1. ~MayFail /\ Matched(toServer, held, lock) /\ IsSequence(toServer) /\ Reliable'
  BY DEF LockInv, Reliable, MayFail, Matched
<1>2. CASE GivesUp
  <2>1. lock' \in [id : Nat, active : BOOLEAN] /\ lock'.active = FALSE
    BY <1>2 DEF GivesUp, LockInv
  <2>2. Matched(toServer', held, lock')
    BY <1>1, <1>2, MatchUnlock, MatchInactive DEF GivesUp
  <2> QED
    BY <2>1, <2>2 DEF LockInv
<1>3. ASSUME NEW i, NEW stream, NEW from, NEW want,
             SendsOnly(ContentsRequest(i, stream, from, want))
      PROVE  LockInv'
  <2>1. ContentsRequest(i, stream, from, want).kind # "lock"
    BY DEF ContentsRequest
  <2>2. Matched(toServer', held, lock)
    BY <1>1, <1>3, <2>1, MatchAppend DEF SendsOnly
  <2> QED
    BY <1>3, <2>2 DEF SendsOnly, LockInv
<1> QED
  BY <1>1, <1>2, <1>3, StartNextSends

(* Every step changes the lock to a lock. *)
LEMMA LockTypes ==
  ASSUME lock \in [id : Nat, active : BOOLEAN], nextLock \in Nat, [Next]_vars
  PROVE  lock' \in [id : Nat, active : BOOLEAN] /\ nextLock' \in Nat
<1>1. ASSUME NEW d, NEW c, StartNext(d, c) PROVE lock' \in [id : Nat, active : BOOLEAN]
  BY <1>1 DEF StartNext, FinishDownloads
<1>2. CASE FilesOffered
  BY <1>2 DEF FilesOffered
<1>3. CASE RequestDownload
  BY <1>1, <1>3 DEF RequestDownload
<1>4. CASE ContentsAnswered
  <2>1. UNCHANGED nextLock
    BY <1>4 DEF ContentsAnswered
  <2>2. UNCHANGED lock \/ \E d, c : StartNext(d, c)
    BY <1>4 DEF ContentsAnswered, ContentsRefused, SizeAnswered, RangeAnswered, NoRange
  <2> QED
    BY <1>1, <2>1, <2>2
<1>5. CASE ListNotAcknowledged \/ TextOffered \/ DataAnswered \/ LateAnswer
  BY <1>5 DEF ListNotAcknowledged, TextOffered, DataAnswered, LateAnswer
<1>6. CASE ChannelDisconnected \/ StartConnection
  <2>1. CASE ChannelDisconnected
    BY <2>1 DEF ChannelDisconnected
  <2>2. CASE StartConnection
    <3>1. lock' = [id |-> 0, active |-> FALSE] /\ nextLock' = 100
      BY <2>2 DEF StartConnection, NoLock
    <3> QED
      BY <3>1
  <2> QED
    BY <1>6, <2>1, <2>2
<1>7. CASE Server
  BY <1>7 DEF Server, AcceptLock, AcceptUnlock, AcceptDataRequest, AcceptContentsRequest,
              AnswerContents, Accept, clientVars
<1>8. CASE \E c \in Contents : Copy(c)
  BY <1>8 DEF Copy, clientVars
<1>9. CASE UNCHANGED vars
  BY <1>9 DEF vars
<1> QED
  BY <1>2, <1>3, <1>4, <1>5, <1>6, <1>7, <1>8, <1>9 DEF Next, EventLoop

(* The environment is that of the connection. *)
LEMMA EnvNext == [Next]_vars => UNCHANGED env
  BY DEF Next, EventLoop, ListNotAcknowledged, TextOffered, FilesOffered, DataAnswered,
         LateAnswer, ContentsAnswered, Receive, RequestDownload, ChannelDisconnected,
         StartConnection, Server, AcceptLock, AcceptUnlock, AcceptDataRequest,
         AcceptContentsRequest, AnswerContents, Accept, Copy, serverVars, vars

(* Every step keeps locks and releases together. *)
LEMMA LockNext == LockInv /\ [Next]_vars => LockInv'
<1> SUFFICES ASSUME LockInv, [Next]_vars PROVE LockInv'
  OBVIOUS
<1>0. /\ lock' \in [id : Nat, active : BOOLEAN] /\ nextLock' \in Nat
      /\ lock \in [id : Nat, active : BOOLEAN] /\ nextLock \in Nat
  BY LockTypes DEF LockInv
<1>1. UNCHANGED env
  BY EnvNext
<1>2. SUFFICES ASSUME Reliable
               PROVE  /\ Matched(toServer', held', lock')
                      /\ ~up' => held' = {} /\ toServer' = << >>
  BY <1>0, <1>1 DEF LockInv, Reliable
<1>3. /\ ~MayFail /\ Matched(toServer, held, lock) /\ IsSequence(toServer) /\ Reliable'
      /\ ~up => held = {} /\ toServer = << >>
  BY <1>1, <1>2 DEF LockInv, Reliable, MayFail, Matched
<1>4. CASE UNCHANGED <<toServer, held, lock, up>>
  BY <1>3, <1>4
<1>5. ASSUME NEW d, NEW c, StartNext(d, c), up, UNCHANGED <<nextLock, up, held, env>>
      PROVE  /\ Matched(toServer', held', lock')
             /\ ~up' => held' = {} /\ toServer' = << >>
  BY <1>2, <1>3, <1>5, StartNextKeepsLocks DEF LockInv
<1>6. CASE RequestDownload
  BY <1>5, <1>6 DEF RequestDownload, serverVars
<1>7. CASE ContentsAnswered
  <2>1. up /\ UNCHANGED <<nextLock, up, held, env>>
    BY <1>7 DEF ContentsAnswered, Receive, serverVars
  <2>2. PICK i : ContentsRefused(i) \/ SizeAnswered(i) \/ RangeAnswered(i) \/ NoRange(i)
    BY <1>7 DEF ContentsAnswered
  <2>3. CASE \E d, c : StartNext(d, c)
    BY <1>5, <2>1, <2>3
  <2>4. CASE UNCHANGED <<lock, toServer>>
    BY <1>4, <2>1, <2>4
  <2>5. CASE \E e, stream : Post(<<RangeRequest(i, e, stream)>>) /\ UNCHANGED lock
    <3>1. PICK e, stream : Post(<<RangeRequest(i, e, stream)>>) /\ UNCHANGED lock
      BY <2>5
    <3>2. toServer' = Append(toServer, RangeRequest(i, e, stream))
      BY <1>3, <3>1, OneByOne DEF Post
    <3>3. RangeRequest(i, e, stream).kind # "lock"
      BY DEF RangeRequest, ContentsRequest
    <3> QED
      BY <1>3, <2>1, <3>1, <3>2, <3>3, MatchAppend
  <2>6. \/ \E d, c : StartNext(d, c)
        \/ UNCHANGED <<lock, toServer>>
        \/ \E e, stream : Post(<<RangeRequest(i, e, stream)>>) /\ UNCHANGED lock
    BY <2>2 DEF ContentsRefused, SizeAnswered, RangeAnswered, NoRange
  <2> QED
    BY <2>3, <2>4, <2>5, <2>6
<1>8. CASE FilesOffered
  <2> DEFINE off == [id |-> 0, active |-> FALSE]
             s == IF lock.active THEN Append(toServer, UnlockMsg(lock.id)) ELSE toServer
             L == LockMsg(nextLock)
             D == DataRequest("files")
  <2>1. up /\ UNCHANGED <<up, held>> /\ lock' = [id |-> nextLock, active |-> TRUE]
    BY <1>8 DEF FilesOffered, Receive, serverVars
  <2>2. Matched(s, held, off)
    BY <1>3, MatchUnlock, MatchInactive
  <2>3. Matched(Append(s, L), held, lock')
    BY <2>1, <2>2, MatchLock
  <2>4. D.kind # "lock"
    BY DEF DataRequest
  <2>5. Matched(Append(Append(s, L), D), held, lock')
    BY <2>3, <2>4, MatchAppend
  <2>6. toServer' = Append(Append(s, L), D)
    <3>1. toServer' = toServer \o ((IF lock.active THEN <<UnlockMsg(lock.id)>> ELSE << >>)
                                     \o <<L, D>>)
      BY <1>3, <1>8 DEF FilesOffered, Post
    <3>2. CASE lock.active
      <4>1. toServer' = toServer \o <<UnlockMsg(lock.id), L, D>>
        BY <3>1, <3>2
      <4> QED
        BY <1>3, <3>2, <4>1, OneByOne
    <3>3. CASE ~lock.active
      <4>1. toServer' = toServer \o <<L, D>>
        BY <3>1, <3>3
      <4> QED
        BY <1>3, <3>3, <4>1, OneByOne
    <3> QED
      BY <3>2, <3>3
  <2> QED
    BY <2>1, <2>5, <2>6
<1>9. CASE TextOffered
  <2>1. up /\ UNCHANGED <<up, held, lock>>
    BY <1>9 DEF TextOffered, Receive, serverVars
  <2>2. toServer' = Append(toServer, DataRequest("text"))
    BY <1>3, <1>9, OneByOne DEF TextOffered, Post
  <2>3. DataRequest("text").kind # "lock"
    BY DEF DataRequest
  <2> QED
    BY <1>3, <2>1, <2>2, <2>3, MatchAppend
<1>10. CASE ListNotAcknowledged \/ DataAnswered \/ LateAnswer
  BY <1>4, <1>10 DEF ListNotAcknowledged, DataAnswered, LateAnswer, Receive, serverVars
<1>11. CASE ChannelDisconnected
  BY <1>11, MatchNothing DEF ChannelDisconnected
<1>12. CASE StartConnection
  BY <1>3, <1>12, MatchNothing DEF StartConnection, serverVars
<1>13. CASE \E c \in Contents : Copy(c)
  BY <1>4, <1>13 DEF Copy, clientVars
<1>14. CASE Server
  <2>1. UNCHANGED <<up, lock>>
    BY <1>14 DEF Server, AcceptLock, AcceptUnlock, AcceptDataRequest,
                 AcceptContentsRequest, AnswerContents, Accept, clientVars
  <2>2. CASE \E job \in jobs : AnswerContents(job)
    BY <1>4, <2>1, <2>2 DEF AnswerContents
  <2>3. ASSUME toServer # << >>, toServer' = Tail(toServer),
               \A l \in held' : \/ l \in held /\ Head(toServer) # UnlockMsg(l.id)
                                \/ IsLock(Head(toServer), l.id)
        PROVE  /\ Matched(toServer', held', lock')
               /\ ~up' => held' = {} /\ toServer' = << >>
    BY <1>3, <2>1, <2>3, MatchTail
  <2>4. CASE AcceptLock
    <3>1. \A l \in held : Head(toServer) # UnlockMsg(l.id)
      BY <2>4 DEF AcceptLock, Accept, UnlockMsg
    <3> QED
      BY <2>3, <2>4, <3>1 DEF AcceptLock, Accept, Request, IsLock
  <2>5. CASE AcceptUnlock
    BY <2>3, <2>5 DEF AcceptUnlock, Accept, Request, UnlockMsg
  <2>6. CASE AcceptDataRequest \/ AcceptContentsRequest
    BY <2>3, <2>6 DEF AcceptDataRequest, AcceptContentsRequest, Accept, Request, UnlockMsg
  <2> QED
    BY <1>14, <2>2, <2>4, <2>5, <2>6 DEF Server
<1>15. CASE UNCHANGED vars
  BY <1>4, <1>15 DEF vars
<1> QED
  BY <1>6, <1>7, <1>8, <1>9, <1>10, <1>11, <1>12, <1>13, <1>14, <1>15 DEF Next, EventLoop

LEMMA LockInit == Init => LockInv
<1> SUFFICES ASSUME Init PROVE LockInv
  OBVIOUS
<1>1. lock = [id |-> 0, active |-> FALSE] /\ nextLock = 100
  BY DEF Init, NoLock
<1>2. toServer = << >> /\ held = {}
  BY DEF Init
<1> QED
  BY <1>1, <1>2, MatchNothing DEF LockInv

(* Unless a message is lost, the server never keeps a clipboard locked that *)
(* the helper has forgotten about, through any sequence of lists that       *)
(* replace each other, downloads that end or are cancelled, and             *)
(* reconnections (cliprdr_file_server_has_files, unlock_clipboard).         *)
THEOREM LocksNeverLeak == Spec => []NoLeakedLock
<1>1. LockInv => NoLeakedLock
  <2> SUFFICES ASSUME LockInv, Reliable, NEW l \in held,
                      ~ (lock.active /\ l.id = lock.id)
               PROVE  UnlockMsg(l.id) \in ToSet(toServer)
    BY DEF NoLeakedLock
  <2>1. PICK j \in 1 .. Len(toServer) : toServer[j] = UnlockMsg(l.id)
    BY DEF LockInv, Matched, Active, Released
  <2>2. IsSequence(toServer)
    BY DEF LockInv, Matched
  <2>3. j \in DOMAIN toServer
    BY <2>1, <2>2 DEF IsSequence
  <2> QED
    BY <2>1, <2>3 DEF ToSet
<1> QED
  BY <1>1, LockInit, LockNext, PTL DEF Spec

-----------------------------------------------------------------------------
(* Types, those of the messages included.  A server that has not had       *)
(* anything on its clipboard has not said anything and is asked nothing.   *)

Names == Nat \cup {Dir}
ContentsRequests == [kind : {"contents"}, stream : Nat, index : Nat, from : Nat, want : Int,
                     lock : Nat]
LockRequests == [kind : {"lock", "unlock"}, id : Nat]
DataRequests == [kind : {"data"}, what : {"text", "files"}]
Requests == LockRequests \cup DataRequests \cup ContentsRequests

Block == (1 .. env.copies) \X Nat \X Nat
Verdicts == {"ok", "refused", "empty"}
Announcements == [kind : {"list"}, files : BOOLEAN]
DataAnswers == [kind : {"data"}, what : {"text", "files"}, result : Verdicts,
                copy : 0 .. env.copies, files : Seq(Names)]
ContentsAnswers == [kind : {"contents"}, stream : Nat, result : Verdicts, size : Nat,
                    data : Seq(Block)]
Answers == Announcements \cup DataAnswers \cup ContentsAnswers

QueueTyped == /\ dls \in Seq(Entries) /\ current \in 0 .. Len(dls)
              /\ downloading \in BOOLEAN /\ (downloading => current < Len(dls))
              /\ nextStream \in 1 .. env.streams
LockTyped == lock \in [id : Nat, active : BOOLEAN] /\ nextLock \in Nat
DescTyped == /\ up \in BOOLEAN /\ pendingFgd \in BOOLEAN
             /\ desc \in [copy : 0 .. env.copies, files : Seq(Names)]
ServerTyped == /\ copies \in Seq(Contents) /\ Len(copies) <= env.copies
               /\ held \subseteq [id : Nat, copy : 1 .. Len(copies)]
               /\ jobs \subseteq [request : ContentsRequests, copy : 1 .. Len(copies)]
Silent == copies = << >> => toServer = << >> /\ toClient = << >> /\ desc.files = << >>
Typed == /\ env \in Environments /\ QueueTyped /\ LockTyped /\ DescTyped /\ ServerTyped /\ Silent
         /\ toServer \in Seq(Requests) /\ toClient \in Seq(Answers)

LEMMA EnvTyped ==
  ASSUME env \in Environments
  PROVE  env.copies \in Nat /\ env.streams \in Nat \ {0}
  BY EnvironmentsAssumption

(* The least of some numbers. *)
LEMMA LeastOf ==
  ASSUME NEW T \in SUBSET Nat, T # {}
  PROVE  \E x \in T : \A y \in T : x <= y
<1> DEFINE R == OpToRel(<, Nat)
<1>1. \A x, y \in Nat : y < x => <<y, x>> \in R
  BY DEF OpToRel
<1> HIDE DEF R
<1>2. IsWellFoundedOn(R, Nat)
  BY NatLessThanWellFounded DEF R
<1>3. PICK x \in T : \A y \in T : ~ (<<y, x>> \in R)
  BY <1>2, WFMin
<1>4. \A y \in T : ~ (y < x)
  BY <1>1, <1>3
<1>5. \A y \in T : x \in Nat /\ y \in Nat
  OBVIOUS
<1>6. \A y \in T : x <= y
  BY <1>4, <1>5
<1> QED
  BY <1>6

(* What gets through of some requests is requests. *)
LEMMA PostTyped ==
  ASSUME toServer \in Seq(Requests), NEW msgs \in Seq(Requests), Post(msgs)
  PROVE  toServer' \in Seq(Requests)
<1>1. CASE toServer' = toServer \o msgs
  BY <1>1
<1>2. ASSUME NEW n \in 0 .. Len(msgs) - 1, NEW sent \in [1 .. n -> DOMAIN msgs],
             toServer' = toServer \o [i \in 1 .. n |-> msgs[sent[i]]]
      PROVE  toServer' \in Seq(Requests)
  <2> DEFINE through == [i \in 1 .. n |-> msgs[sent[i]]]
  <2>1. through \in [1 .. n -> Requests] /\ n \in Nat
    OBVIOUS
  <2>2. through \in Seq(Requests)
    BY <2>1
  <2> QED
    BY <1>2, <2>2
<1> QED
  BY <1>1, <1>2 DEF Post

(* The stream ids stay within their range. *)
LEMMA StreamTyped ==
  ASSUME env \in Environments, nextStream \in 1 .. env.streams, NEW n \in Nat
  PROVE  StreamAfter(n) \in 1 .. env.streams
<1>1. env.streams \in Nat \ {0} /\ nextStream - 1 + n \in Nat
  BY EnvTyped
<1>2. (nextStream - 1 + n) % env.streams \in 0 .. env.streams - 1
  BY <1>1
<1> QED
  BY <1>1, <1>2 DEF StreamAfter

LEMMA RequestTyped ==
  ASSUME LockTyped, NEW i \in Nat, NEW stream \in Nat, NEW from \in Nat, NEW want \in Int
  PROVE  ContentsRequest(i, stream, from, want) \in ContentsRequests
  BY DEF LockTyped, ContentsRequest, ContentsRequests

LEMMA AskedTyped ==
  ASSUME NEW e \in Entries
  PROVE  Len(e.data) \in Nat /\ AskedRange(e) \in Int
<1>1. e.data \in Seq((1 .. env.copies) \X Nat \X Nat) /\ e.size \in Nat
  BY DEF Entries
<1> DEFINE n == Len(e.data)
           size == e.size
<1>2. n \in Nat /\ size \in Nat
  BY <1>1
<1>3. AskedRange(e) = IF size - n > Chunk THEN Chunk ELSE size - n
  BY DEF AskedRange, Left
<1> HIDE DEF n, size
<1>4. AskedRange(e) \in Int
  BY <1>2, <1>3, ChunkAssumption
<1> QED
  BY <1>2, <1>4 DEF n

(* A queue has a first entry, from any position on, that is not passed     *)
(* over, or ends without one.                                              *)
LEMMA StopExists ==
  ASSUME NEW n \in Nat, NEW c \in 0 .. n, NEW passed \in SUBSET (c + 1 .. n)
  PROVE  \E k \in c .. n : c + 1 .. k \subseteq passed /\ k + 1 \notin passed
<1> DEFINE T == {k \in c .. n : k + 1 \notin passed}
<1>1. n \in T /\ T \in SUBSET Nat
  OBVIOUS
<1>2. PICK k \in T : \A j \in T : k <= j
  BY <1>1, LeastOf
<1>3. ASSUME NEW j \in c + 1 .. k PROVE j \in passed
  <2>1. j - 1 \in c .. n /\ j - 1 < k /\ (j - 1) + 1 = j
    BY <1>2
  <2>2. j - 1 \notin T
    BY <1>2, <2>1
  <2> QED
    BY <2>1, <2>2
<1> QED
  BY <1>2, <1>3

(* Reporting the outcome of an entry, or asking for it, leaves it the entry *)
(* of the same file of the same copy.                                       *)
SameQueue(s, d) ==
  Len(s) = Len(d) /\ \A i \in 1 .. Len(d) : s[i].copy = d[i].copy /\ s[i].dir = d[i].dir
SameFile(f, e) == f \in Entries /\ f.copy = e.copy /\ f.dir = e.dir

LEMMA EntryKept ==
  ASSUME NEW e \in Entries, NEW stream \in 0 .. env.streams
  PROVE  /\ SameFile(e, e) /\ SameFile([e EXCEPT !.stream = stream], e)
         /\ SameFile([e EXCEPT !.outcome = "done"], e)
         /\ SameFile([e EXCEPT !.outcome = "error"], e)
         /\ SameFile([e EXCEPT !.outcome = "error", !.stream = stream], e)
  BY DEF Entries, SameFile

(* Starting the next download keeps the queue a queue of the same files,   *)
(* and stops within it when it waits.                                      *)
LEMMA NextStarted ==
  ASSUME env \in Environments, nextStream \in 1 .. env.streams, LockTyped,
         toServer \in Seq(Requests), UNCHANGED env,
         NEW d \in Seq(Entries), NEW c \in 0 .. Len(d), StartNext(d, c)
  PROVE  /\ QueueTyped' /\ toServer' \in Seq(Requests)
         /\ SameQueue(dls', d)
<1> DEFINE Open == {i \in c + 1 .. Len(d) : d[i].outcome = "none" /\ ~d[i].dir /\ ~d[i].sized}
           Passed(skipped) == {i \in c + 1 .. Len(d) : d[i].dir \/ d[i].outcome # "none" \/ i \in skipped}
           Stop(skipped) == CHOOSE k \in c .. Len(d) :
                              c + 1 .. k \subseteq Passed(skipped) /\ k + 1 \notin Passed(skipped)
           Stream(skipped, i) == StreamAfter(Cardinality({j \in skipped : j < i}))
           Reported(skipped, stop) ==
             [i \in DOMAIN d |->
                IF i \notin c + 1 .. stop \/ d[i].outcome # "none" THEN d[i]
                ELSE IF d[i].dir THEN [d[i] EXCEPT !.outcome = "done"]
                ELSE [d[i] EXCEPT !.outcome = "error", !.stream = Stream(skipped, i)]]
           Asks(skipped, stop) ==
             /\ dls' = [Reported(skipped, stop) EXCEPT ![stop + 1].stream = Stream(skipped, stop + 1)]
             /\ current' = stop
             /\ nextStream' = StreamAfter(Cardinality(skipped) + 1)
             /\ IF d[stop + 1].sized
                THEN Post(<<RangeRequest(stop + 1, d[stop + 1], Stream(skipped, stop + 1))>>)
                ELSE toServer' = Append(toServer, SizeRequest(stop + 1, Stream(skipped, stop + 1)))
             /\ downloading' = TRUE /\ UNCHANGED lock
<1>1. PICK skipped \in SUBSET Open :
        IF Stop(skipped) = Len(d)
        THEN FinishDownloads(Reported(skipped, Stop(skipped)))
               /\ nextStream' = StreamAfter(Cardinality(skipped))
        ELSE Asks(skipped, Stop(skipped))
  BY DEF StartNext
<1> DEFINE stop == Stop(skipped)
           r == Reported(skipped, stop)
<1>2. stop \in c .. Len(d)
  <2> DEFINE passed == Passed(skipped)
  <2>1. passed \in SUBSET (c + 1 .. Len(d)) /\ Len(d) \in Nat
    OBVIOUS
  <2>2. stop = CHOOSE k \in c .. Len(d) : c + 1 .. k \subseteq passed /\ k + 1 \notin passed
    OBVIOUS
  <2> HIDE DEF passed, stop
  <2>3. \E k \in c .. Len(d) : c + 1 .. k \subseteq passed /\ k + 1 \notin passed
    BY <2>1, StopExists
  <2> QED
    BY <2>2, <2>3
<1>3. ASSUME NEW T \in SUBSET skipped PROVE Cardinality(T) \in Nat
  <2>1. T \in SUBSET (c + 1 .. Len(d)) /\ c + 1 \in Int /\ Len(d) \in Int
    OBVIOUS
  <2>2. IsFiniteSet(T)
    BY <2>1, FS_Interval, FS_Subset
  <2> QED
    BY <2>2, FS_CardinalityType
<1>4. ASSUME NEW i PROVE Stream(skipped, i) \in 1 .. env.streams
  <2>1. Cardinality({j \in skipped : j < i}) \in Nat
    BY <1>3
  <2> QED
    BY <2>1, StreamTyped
<1>5. /\ StreamAfter(Cardinality(skipped)) \in 1 .. env.streams
      /\ StreamAfter(Cardinality(skipped) + 1) \in 1 .. env.streams
  <2>1. Cardinality(skipped) \in Nat /\ Cardinality(skipped) + 1 \in Nat
    BY <1>3
  <2> QED
    BY <2>1, StreamTyped
<1>6. env.streams \in Nat \ {0}
  BY EnvTyped
<1>7. /\ \A i \in 1 .. Len(d) : r[i] \in Entries /\ r[i].copy = d[i].copy /\ r[i].dir = d[i].dir
      /\ DOMAIN r = 1 .. Len(d) /\ r \in [1 .. Len(d) -> Entries] /\ Len(d) \in Nat
  <2>1. ASSUME NEW i \in 1 .. Len(d)
        PROVE  r[i] \in Entries /\ r[i].copy = d[i].copy /\ r[i].dir = d[i].dir
    <3> DEFINE st == Stream(skipped, i)
    <3>1. st \in 1 .. env.streams
      BY <1>4
    <3>2. i \in DOMAIN d
      OBVIOUS
    <3>3. r[i] = IF i \notin c + 1 .. stop \/ d[i].outcome # "none" THEN d[i]
                 ELSE IF d[i].dir THEN [d[i] EXCEPT !.outcome = "done"]
                 ELSE [d[i] EXCEPT !.outcome = "error", !.stream = st]
      BY <3>2
    <3> HIDE DEF st, r, stop
    <3>4. d[i] \in Entries /\ st \in 0 .. env.streams
      BY <3>1, <1>6
    <3>5. \/ r[i] = d[i]
          \/ r[i] = [d[i] EXCEPT !.outcome = "done"]
          \/ r[i] = [d[i] EXCEPT !.outcome = "error", !.stream = st]
      BY <3>3
    <3> QED
      <4>1. /\ SameFile(d[i], d[i])
            /\ SameFile([d[i] EXCEPT !.outcome = "done"], d[i])
            /\ SameFile([d[i] EXCEPT !.outcome = "error", !.stream = st], d[i])
        BY <3>4, EntryKept
      <4>2. SameFile(r[i], d[i])
        BY <3>5, <4>1
      <4> QED
        BY <4>2 DEF SameFile
  <2>2. DOMAIN r = 1 .. Len(d) /\ Len(d) \in Nat /\ r = [i \in 1 .. Len(d) |-> r[i]]
    OBVIOUS
  <2> HIDE DEF r
  <2> QED
    BY <2>1, <2>2
<1> HIDE DEF r, stop
<1>8. CASE stop = Len(d)
  <2>1. FinishDownloads(r) /\ nextStream' = StreamAfter(Cardinality(skipped))
    BY <1>1, <1>8 DEF stop, r
  <2>2. r \in Seq(Entries) /\ Len(r) = Len(d)
    BY <1>7
  <2>3. /\ dls' = r /\ current' = Len(d) /\ downloading' = FALSE
        /\ IF lock.active THEN Post(<<UnlockMsg(lock.id)>>) ELSE UNCHANGED toServer
        /\ nextStream' \in 1 .. env.streams
    <3>1. nextStream' \in 1 .. env.streams
      BY <2>1, <1>5
    <3> QED
      BY <2>1, <2>2, <3>1 DEF FinishDownloads
  <2>4. <<UnlockMsg(lock.id)>> \in Seq(Requests)
    BY DEF UnlockMsg, LockTyped, Requests, LockRequests
  <2>5. toServer' \in Seq(Requests)
    BY <2>3, <2>4, PostTyped
  <2>6. QueueTyped'
    <3>1. Entries' = Entries
      BY DEF Entries
    <3> QED
      <4>1. /\ dls' \in Seq(Entries') /\ nextStream' \in 1 .. env'.streams
            /\ downloading' = FALSE
        BY <2>3, <2>2, <3>1
      <4>2. current' \in 0 .. Len(dls')
        BY <2>3, <2>2, <1>7
      <4> QED
        BY <4>1, <4>2 DEF QueueTyped
  <2> QED
    BY <2>3, <2>2, <2>5, <2>6, <1>7 DEF SameQueue
<1>9. CASE stop # Len(d)
  <2> DEFINE st == Stream(skipped, stop + 1)
             e == d[stop + 1]
  <2>1. Asks(skipped, stop)
    BY <1>1, <1>9 DEF stop
  <2>2. /\ dls' = [r EXCEPT ![stop + 1].stream = st]
        /\ current' = stop /\ downloading' = TRUE /\ nextStream' \in 1 .. env.streams
        /\ \/ Post(<<RangeRequest(stop + 1, e, st)>>)
           \/ toServer' = Append(toServer, SizeRequest(stop + 1, st))
    BY <2>1, <1>5 DEF r
  <2>3. st \in 1 .. env.streams
    BY <1>4
  <2> HIDE DEF st
  <2>4. stop + 1 \in 1 .. Len(d) /\ st \in 0 .. env.streams /\ st \in Nat
    BY <1>2, <1>6, <1>9, <2>3
  <2>5. dls' \in [1 .. Len(d) -> Entries]
        /\ \A i \in 1 .. Len(d) : dls'[i].copy = d[i].copy /\ dls'[i].dir = d[i].dir
    <3>1. dls' = [i \in 1 .. Len(d) |-> IF i = stop + 1 THEN [r[i] EXCEPT !.stream = st] ELSE r[i]]
      BY <2>2, <2>4, <1>7
    <3>2. ASSUME NEW i \in 1 .. Len(d)
          PROVE  dls'[i] \in Entries /\ dls'[i].copy = d[i].copy /\ dls'[i].dir = d[i].dir
      <4>1. CASE i = stop + 1
        <5>1. dls'[i] = [r[i] EXCEPT !.stream = st]
          BY <4>1, <3>1
        <5>2. SameFile(dls'[i], r[i])
          BY <5>1, <2>4, <1>7, EntryKept
        <5> QED
          BY <5>2, <1>7 DEF SameFile
      <4>2. CASE i # stop + 1
        BY <4>2, <3>1, <1>7
      <4> QED
        BY <4>1, <4>2
    <3> QED
      BY <3>1, <3>2
  <2>6. dls' \in Seq(Entries) /\ Len(dls') = Len(d)
    <3>1. Len(d) \in Nat /\ dls' \in [1 .. Len(d) -> Entries]
      BY <2>5
    <3> QED
      BY <3>1
  <2>7. e \in Entries /\ Len(e.data) \in Nat /\ AskedRange(e) \in Int /\ stop + 1 \in Nat
    <3>1. e \in Entries /\ stop + 1 \in Nat
      BY <2>4
    <3> HIDE DEF e
    <3> QED
      BY <3>1, AskedTyped
  <2> HIDE DEF e
  <2>8. /\ RangeRequest(stop + 1, e, st) \in Requests
        /\ SizeRequest(stop + 1, st) \in Requests
    BY <2>4, <2>7, RequestTyped DEF RangeRequest, SizeRequest, Requests
  <2>9. toServer' \in Seq(Requests)
    <3>1. <<RangeRequest(stop + 1, e, st)>> \in Seq(Requests)
      BY <2>8
    <3> QED
      <4>1. CASE Post(<<RangeRequest(stop + 1, e, st)>>)
        BY <4>1, <3>1, PostTyped
      <4>2. CASE toServer' = Append(toServer, SizeRequest(stop + 1, st))
        BY <4>2, <2>8
      <4> QED
        BY <2>2, <4>1, <4>2
  <2>10. QueueTyped'
    <3>1. Entries' = Entries
      BY DEF Entries
    <3> QED
      BY <1>2, <1>9, <2>2, <2>3, <2>6, <3>1 DEF QueueTyped
  <2> QED
    BY <2>5, <2>6, <2>9, <2>10 DEF SameQueue
<1> QED
  BY <1>8, <1>9

(* A change to one entry that leaves it the same file of the same copy. *)
LEMMA OneEntryKept ==
  ASSUME NEW d \in Seq(Entries), NEW i \in DOMAIN d, NEW f, SameFile(f, d[i])
  PROVE  LET s == [d EXCEPT ![i] = f]
         IN s \in Seq(Entries) /\ Len(s) = Len(d) /\ SameQueue(s, d)
<1> DEFINE s == [d EXCEPT ![i] = f]
<1>1. i \in 1 .. Len(d) /\ Len(d) \in Nat /\ f \in Entries
  BY DEF SameFile
<1>2. s \in [1 .. Len(d) -> Entries]
  BY <1>1
<1>3. s \in Seq(Entries) /\ Len(s) = Len(d)
  BY <1>1, <1>2
<1>4. \A k \in 1 .. Len(d) : s[k].copy = d[k].copy /\ s[k].dir = d[k].dir
  BY <1>1 DEF SameFile
<1> QED
  BY <1>3, <1>4 DEF SameQueue

(* The first message in either direction is one of its kind. *)
LEMMA MessageTyped ==
  ASSUME toClient \in Seq(Answers), toClient # << >>
  PROVE  /\ Tail(toClient) \in Seq(Answers)
         /\ Message.kind = "list" => Message \in Announcements
         /\ Message.kind = "data" => Message \in DataAnswers
         /\ Message.kind = "contents" => Message \in ContentsAnswers
<1>1. Message \in Answers /\ Tail(toClient) \in Seq(Answers)
  BY DEF Message
<1> QED
  BY <1>1 DEF Answers, Announcements, DataAnswers, ContentsAnswers

LEMMA RequestKinds ==
  ASSUME toServer \in Seq(Requests), toServer # << >>
  PROVE  /\ Tail(toServer) \in Seq(Requests)
         /\ Request.kind \in {"lock", "unlock"} => Request \in LockRequests
         /\ Request.kind = "data" => Request \in DataRequests
         /\ Request.kind = "contents" => Request \in ContentsRequests
<1>1. Request \in Requests /\ Tail(toServer) \in Seq(Requests)
  BY DEF Request
<1> QED
  BY <1>1 DEF Requests, LockRequests, DataRequests, ContentsRequests

(* An answer to a contents request changes outcomes, sizes and data, never *)
(* the files the queue is about.                                           *)
LEMMA ContentsKept ==
  ASSUME Typed, ContentsAnswered, UNCHANGED env
  PROVE  QueueTyped' /\ toServer' \in Seq(Requests) /\ SameQueue(dls', dls)
<1>1. /\ env \in Environments /\ QueueTyped /\ LockTyped /\ toServer \in Seq(Requests)
      /\ toClient \in Seq(Answers)
  BY DEF Typed
<1>2. /\ dls \in Seq(Entries) /\ Len(dls) \in Nat /\ nextStream \in 1 .. env.streams
      /\ current \in 0 .. Len(dls) /\ current + 1 \in 0 .. Len(dls)
  BY <1>1 DEF QueueTyped, ContentsAnswered
<1>3. Message \in ContentsAnswers
  BY <1>1, MessageTyped DEF ContentsAnswered, Receive, Message
<1>4. Message.size \in Nat /\ Message.data \in Seq(Block)
  BY <1>3 DEF ContentsAnswers
<1>5. ASSUME NEW d \in Seq(Entries), SameQueue(d, dls), Len(d) = Len(dls),
             StartNext(d, current) \/ StartNext(d, current + 1)
      PROVE  QueueTyped' /\ toServer' \in Seq(Requests) /\ SameQueue(dls', dls)
  <2>1. QueueTyped' /\ toServer' \in Seq(Requests) /\ SameQueue(dls', d)
    BY <1>1, <1>2, <1>5, NextStarted
  <2> QED
    BY <1>5, <2>1 DEF SameQueue
<1>6. PICK i : /\ i \in Asking
               /\ ContentsRefused(i) \/ SizeAnswered(i) \/ RangeAnswered(i) \/ NoRange(i)
  <2>1. Asking \in SUBSET Nat /\ Asking # {}
    <3>1. DOMAIN dls \subseteq Nat
      BY <1>2
    <3>2. Asking \subseteq DOMAIN dls
      BY DEF Asking
    <3>3. Asking # {}
      BY DEF ContentsAnswered
    <3> QED
      BY <3>1, <3>2, <3>3
  <2>2. \E j \in Asking : \A k \in Asking : j <= k
    BY <2>1, LeastOf
  <2> QED
    BY <2>2 DEF ContentsAnswered
<1>7. i \in DOMAIN dls /\ dls[i] \in Entries
  BY <1>2, <1>6 DEF Asking
<1>8. ASSUME NEW f, SameFile(f, dls[i]),
             \/ StartNext([dls EXCEPT ![i] = f], current)
             \/ StartNext([dls EXCEPT ![i] = f], current + 1)
      PROVE  QueueTyped' /\ toServer' \in Seq(Requests) /\ SameQueue(dls', dls)
  BY <1>2, <1>5, <1>7, <1>8, OneEntryKept
<1>9. CASE ContentsRefused(i)
  <2>1. StartNext([dls EXCEPT ![i] = [dls[i] EXCEPT !.outcome = "error"]], current + 1)
    BY <1>7, <1>9 DEF ContentsRefused
  <2>2. SameFile([dls[i] EXCEPT !.outcome = "error"], dls[i])
    BY <1>7 DEF SameFile, Entries
  <2> QED
    BY <1>8, <2>1, <2>2
<1>10. CASE SizeAnswered(i)
  <2> DEFINE size == IF Message.result = "empty" THEN 0 ELSE Message.size
             e == [dls[i] EXCEPT !.sized = TRUE, !.size = size]
  <2>1. size \in Nat
    BY <1>4
  <2>2. \E f : /\ f \in {[e EXCEPT !.outcome = "done"], [e EXCEPT !.open = TRUE],
                         [e EXCEPT !.outcome = "error"]}
               /\ \/ StartNext([dls EXCEPT ![i] = f], current)
                  \/ StartNext([dls EXCEPT ![i] = f], current + 1)
    <3> DEFINE sized == [dls EXCEPT ![i].sized = TRUE, ![i].size = size]
    <3>1. \/ StartNext([sized EXCEPT ![i].outcome = "done"], current + 1)
          \/ StartNext([sized EXCEPT ![i].open = TRUE], current)
          \/ StartNext([sized EXCEPT ![i].outcome = "error"], current + 1)
      BY <1>10 DEF SizeAnswered
    <3> HIDE DEF size
    <3>2. /\ [sized EXCEPT ![i].outcome = "done"] = [dls EXCEPT ![i] = [e EXCEPT !.outcome = "done"]]
          /\ [sized EXCEPT ![i].open = TRUE] = [dls EXCEPT ![i] = [e EXCEPT !.open = TRUE]]
          /\ [sized EXCEPT ![i].outcome = "error"] = [dls EXCEPT ![i] = [e EXCEPT !.outcome = "error"]]
      BY <1>7
    <3> HIDE DEF sized, e
    <3> QED
      BY <3>1, <3>2
  <2> HIDE DEF size
  <2>3. \A f \in {[e EXCEPT !.outcome = "done"], [e EXCEPT !.open = TRUE],
                  [e EXCEPT !.outcome = "error"]} : SameFile(f, dls[i])
    <3>1. SameFile(e, dls[i])
      BY <1>7, <2>1 DEF SameFile, Entries
    <3> HIDE DEF e
    <3>2. SameFile([e EXCEPT !.outcome = "done"], dls[i])
      BY <3>1 DEF SameFile, Entries
    <3>3. SameFile([e EXCEPT !.open = TRUE], dls[i])
      BY <3>1 DEF SameFile, Entries
    <3>4. SameFile([e EXCEPT !.outcome = "error"], dls[i])
      BY <3>1 DEF SameFile, Entries
    <3> QED
      BY <3>2, <3>3, <3>4
  <2> HIDE DEF e
  <2> QED
    BY <1>8, <2>2, <2>3
<1>11. CASE NoRange(i)
  <2>1. Entries' = Entries
    BY DEF Entries
  <2> QED
    BY <1>1, <1>11, <2>1 DEF NoRange, QueueTyped, SameQueue
<1>12. CASE RangeAnswered(i)
  <2>1. PICK n \in Written :
          LET e == [dls[i] EXCEPT !.data = @ \o SubSeq(Message.data, 1, n)]
          IN IF Left(e) <= 0
             THEN StartNext([dls EXCEPT ![i] = [e EXCEPT !.open = FALSE, !.outcome = "done"]], current + 1)
             ELSE /\ dls' = [dls EXCEPT ![i] = [e EXCEPT !.stream = StreamAfter(0)]]
                  /\ nextStream' = StreamAfter(1)
                  /\ Post(<<RangeRequest(i, e, StreamAfter(0))>>)
                  /\ UNCHANGED <<current, downloading, lock>>
    BY <1>12 DEF RangeAnswered
  <2> DEFINE e == [dls[i] EXCEPT !.data = @ \o SubSeq(Message.data, 1, n)]
  <2>2. SubSeq(Message.data, 1, n) \in Seq(Block)
    <3>1. n \in 0 .. Len(Message.data)
      BY <1>4 DEF Written
    <3> QED
      BY <1>4, <3>1
  <2>3. SameFile(e, dls[i])
    <3> DEFINE data == dls[i].data \o SubSeq(Message.data, 1, n)
    <3>1. dls[i].data \in Seq(Block)
      BY <1>7 DEF Entries, Block
    <3>2. data \in Seq(Block)
      BY <2>2, <3>1
    <3>3. e = [dls[i] EXCEPT !.data = data]
      OBVIOUS
    <3> HIDE DEF data, e
    <3> QED
      BY <1>7, <3>2, <3>3 DEF SameFile, Entries, Block
  <2>4. CASE Left(e) <= 0
    <3>1. StartNext([dls EXCEPT ![i] = [e EXCEPT !.open = FALSE, !.outcome = "done"]], current + 1)
      BY <2>1, <2>4
    <3> HIDE DEF e
    <3>2. SameFile([e EXCEPT !.open = FALSE, !.outcome = "done"], dls[i])
      BY <2>3 DEF SameFile, Entries
    <3> QED
      BY <1>8, <3>1, <3>2
  <2>5. CASE ~ (Left(e) <= 0)
    <3>1. /\ dls' = [dls EXCEPT ![i] = [e EXCEPT !.stream = StreamAfter(0)]]
          /\ nextStream' = StreamAfter(1)
          /\ Post(<<RangeRequest(i, e, StreamAfter(0))>>)
          /\ UNCHANGED <<current, downloading, lock>>
      BY <2>1, <2>5
    <3> HIDE DEF e
    <3>2. /\ StreamAfter(0) \in 1 .. env.streams /\ StreamAfter(1) \in 1 .. env.streams
          /\ StreamAfter(0) \in 0 .. env.streams /\ StreamAfter(0) \in Nat
      <4>1. StreamAfter(0) \in 1 .. env.streams /\ StreamAfter(1) \in 1 .. env.streams
        BY <1>1, <1>2, StreamTyped
      <4>2. env.streams \in Nat
        BY <1>1, EnvTyped
      <4> QED
        BY <4>1, <4>2
    <3>3. SameFile([e EXCEPT !.stream = StreamAfter(0)], dls[i])
      BY <2>3, <3>2 DEF SameFile, Entries
    <3>4. dls' \in Seq(Entries) /\ Len(dls') = Len(dls) /\ SameQueue(dls', dls)
      BY <1>2, <1>7, <3>1, <3>3, OneEntryKept
    <3>5. i \in Nat
      BY <1>2, <1>7
    <3>6. Len(e.data) \in Nat /\ AskedRange(e) \in Int
      BY <2>3, AskedTyped DEF SameFile
    <3>7. RangeRequest(i, e, StreamAfter(0)) \in Requests
      BY <1>1, <3>2, <3>5, <3>6, RequestTyped DEF RangeRequest, Requests
    <3>8. toServer' \in Seq(Requests)
      <4>1. <<RangeRequest(i, e, StreamAfter(0))>> \in Seq(Requests)
        BY <3>7
      <4> QED
        BY <1>1, <3>1, <4>1, PostTyped
    <3>9. Entries' = Entries
      BY DEF Entries
    <3>10. QueueTyped'
      BY <1>1, <3>1, <3>2, <3>4, <3>9 DEF QueueTyped
    <3> QED
      BY <3>4, <3>8, <3>10
  <2> QED
    BY <2>4, <2>5
<1> QED
  BY <1>6, <1>9, <1>10, <1>11, <1>12

(* A new queue is one of entries, for the files and the copy described. *)
LEMMA QueueMade ==
  ASSUME DescTyped, env \in Environments
  PROVE  LET d == [i \in DOMAIN desc.files |-> Entry(desc, i)]
         IN /\ d \in Seq(Entries) /\ Len(d) = Len(desc.files)
            /\ \A i \in 1 .. Len(d) : d[i].copy = desc.copy /\ (d[i].dir <=> desc.files[i] = Dir)
<1> DEFINE d == [i \in DOMAIN desc.files |-> Entry(desc, i)]
<1>1. /\ desc.files \in Seq(Names) /\ desc.copy \in 0 .. env.copies
      /\ DOMAIN desc.files = 1 .. Len(desc.files) /\ Len(desc.files) \in Nat
  BY DEF DescTyped
<1>2. ASSUME NEW i \in 1 .. Len(desc.files) PROVE Entry(desc, i) \in Entries
  <2>1. << >> \in Seq((1 .. env.copies) \X Nat \X Nat) /\ 0 \in 0 .. env.streams
    BY EnvTyped
  <2> QED
    BY <1>1, <2>1 DEF Entry, Entries
<1>3. d \in [1 .. Len(desc.files) -> Entries]
  BY <1>1, <1>2
<1>4. d \in Seq(Entries) /\ Len(d) = Len(desc.files)
  BY <1>1, <1>3
<1>5. ASSUME NEW i \in 1 .. Len(d)
      PROVE  d[i].copy = desc.copy /\ (d[i].dir <=> desc.files[i] = Dir)
  BY <1>1, <1>4 DEF Entry
<1> QED
  BY <1>4, <1>5

(* The server's answers have the types of answers. *)
LEMMA AnswerTyped ==
  ASSUME Typed, NEW job \in jobs, AnswerContents(job)
  PROVE  toClient' \in Seq(Answers)
<1> DEFINE r == job.request
           files == copies[job.copy]
           size == IF r.index \in DOMAIN files /\ files[r.index] # Dir THEN files[r.index] ELSE 0
           readable == IF r.want < size - r.from THEN r.want ELSE size - r.from
           has == r.index \in DOMAIN files /\ (r.want = 0 \/ readable > 0)
<1>1. PICK result \in Results(has), n \in 1 .. (IF readable > 1 THEN readable ELSE 1) :
        toClient' = Append(toClient,
            [kind |-> "contents", stream |-> r.stream, result |-> result, size |-> size,
             data |-> IF r.want = 0 \/ result # "ok" THEN << >>
                      ELSE Blocks(job.copy, r.index, r.from, n)])
  BY DEF AnswerContents
<1>2. /\ r \in ContentsRequests /\ job.copy \in 1 .. Len(copies) /\ copies \in Seq(Contents)
      /\ Len(copies) <= env.copies /\ env.copies \in Nat /\ toClient \in Seq(Answers)
  BY EnvTyped DEF Typed, ServerTyped
<1>3. r.stream \in Nat /\ r.index \in Nat /\ r.from \in Nat /\ r.want \in Int
  BY <1>2 DEF ContentsRequests
<1>4. files \in Seq(Names)
  BY <1>2, ContentsAssumption DEF Names
<1> HIDE DEF r, files
<1>5. size \in Nat
  BY <1>4 DEF Names
<1> HIDE DEF size
<1>6. n \in Nat
  BY <1>3, <1>5
<1> HIDE DEF readable, has
<1>7. Blocks(job.copy, r.index, r.from, n) \in Seq(Block)
  <2>1. ASSUME NEW k \in 1 .. n PROVE <<job.copy, r.index, r.from + k - 1>> \in Block
    <3>1. job.copy \in 1 .. env.copies
      BY <1>2
    <3>2. r.from + k - 1 \in Nat
      BY <1>3, <1>6
    <3> QED
      BY <1>3, <3>1, <3>2 DEF Block
  <2>2. Blocks(job.copy, r.index, r.from, n) \in [1 .. n -> Block]
    BY <2>1 DEF Blocks
  <2> QED
    BY <1>6, <2>2
<1>8. result \in Verdicts
  BY DEF Results, Verdicts
<1> DEFINE data == IF r.want = 0 \/ result # "ok" THEN << >> ELSE Blocks(job.copy, r.index, r.from, n)
           m == [kind |-> "contents", stream |-> r.stream, result |-> result, size |-> size,
                 data |-> data]
<1>9. data \in Seq(Block)
  BY <1>7
<1> HIDE DEF data
<1>10. m \in Answers
  BY <1>3, <1>5, <1>8, <1>9 DEF Answers, ContentsAnswers
<1>11. toClient' = Append(toClient, m)
  BY <1>1 DEF data
<1> HIDE DEF m
<1> QED
  BY <1>2, <1>10, <1>11

(* A queue that is dropped. *)
LEMMA NoQueueTyped ==
  ASSUME QueueTyped, dls' = << >>, current' = 0, downloading' = FALSE,
         UNCHANGED <<nextStream, env>>
  PROVE  QueueTyped'
<1>1. << >> \in Seq(Entries') /\ Len(<< >>) = 0
  OBVIOUS
<1>2. 0 \in 0 .. 0
  OBVIOUS
<1> QED
  BY <1>1, <1>2 DEF QueueTyped

(* Every step keeps the types. *)
LEMMA TypedNext == Typed /\ [Next]_vars => Typed'
<1> SUFFICES ASSUME Typed, [Next]_vars PROVE Typed'
  OBVIOUS
<1>1. /\ UNCHANGED env /\ env \in Environments /\ env.copies \in Nat /\ env.streams \in Nat \ {0}
      /\ Entries' = Entries /\ Answers' = Answers
  <2>1. UNCHANGED env
    BY EnvNext
  <2> QED
    BY <2>1, EnvTyped DEF Typed, Entries, Answers, Announcements, DataAnswers, ContentsAnswers, Block
<1>2. LockTyped'
  BY LockTypes DEF Typed, LockTyped
<1>3. /\ QueueTyped /\ LockTyped /\ DescTyped /\ ServerTyped /\ Silent
      /\ toServer \in Seq(Requests) /\ toClient \in Seq(Answers)
  BY DEF Typed
<1>4. ASSUME NEW kind, Receive(kind), QueueTyped', pendingFgd' \in BOOLEAN,
             desc' \in [copy : 0 .. env.copies, files : Seq(Names)], toServer' \in Seq(Requests)
      PROVE  Typed'
  <2>1. /\ UNCHANGED <<up, copies, held, jobs>> /\ toClient # << >> /\ toClient' = Tail(toClient)
    BY <1>4 DEF Receive, serverVars
  <2>2. toClient' \in Seq(Answers')
    BY <1>1, <1>3, <2>1, MessageTyped
  <2>3. ServerTyped' /\ Silent' /\ DescTyped'
    BY <1>1, <1>3, <1>4, <2>1 DEF ServerTyped, Silent, DescTyped
  <2> QED
    BY <1>1, <1>2, <1>4, <2>2, <2>3 DEF Typed
<1>5. ASSUME UNCHANGED <<dls, current, downloading, nextStream>> PROVE QueueTyped'
  BY <1>1, <1>3, <1>5 DEF QueueTyped
<1>6. pendingFgd \in BOOLEAN /\ desc \in [copy : 0 .. env.copies, files : Seq(Names)]
  BY <1>3 DEF DescTyped
<1>7. CASE ListNotAcknowledged
  BY <1>3, <1>4, <1>5, <1>6, <1>7 DEF ListNotAcknowledged
<1>8. CASE LateAnswer
  BY <1>3, <1>4, <1>5, <1>6, <1>8 DEF LateAnswer
<1>9. CASE TextOffered
  <2>1. <<DataRequest("text")>> \in Seq(Requests)
    BY DEF DataRequest, Requests, DataRequests
  <2>2. toServer' \in Seq(Requests)
    BY <1>3, <1>9, <2>1, PostTyped DEF TextOffered
  <2> QED
    BY <1>4, <1>5, <1>6, <1>9, <2>2 DEF TextOffered
<1>10. CASE FilesOffered
  <2> DEFINE msgs == (IF lock.active THEN <<UnlockMsg(lock.id)>> ELSE << >>)
                       \o <<LockMsg(nextLock), DataRequest("files")>>
  <2>1. /\ UnlockMsg(lock.id) \in Requests /\ LockMsg(nextLock) \in Requests
        /\ DataRequest("files") \in Requests
    BY <1>3 DEF LockTyped, UnlockMsg, LockMsg, DataRequest, Requests, DataRequests, LockRequests
  <2>2. msgs \in Seq(Requests)
    BY <2>1
  <2>3. toServer' \in Seq(Requests)
    BY <1>3, <1>10, <2>2, PostTyped DEF FilesOffered
  <2>4. NoFiles \in [copy : 0 .. env.copies, files : Seq(Names)]
    BY <1>1 DEF NoFiles
  <2>5. dls' = << >> /\ current' = 0 /\ downloading' = FALSE /\ UNCHANGED nextStream
    BY <1>10 DEF FilesOffered, FreeDownloads
  <2>6. QueueTyped'
    BY <1>1, <1>3, <2>5, NoQueueTyped
  <2> QED
    BY <1>4, <1>10, <2>3, <2>4, <2>6 DEF FilesOffered
<1>11. CASE DataAnswered
  <2>1. Message \in DataAnswers
    BY <1>3, <1>11, MessageTyped DEF DataAnswered, Receive, Message
  <2>2. Message.copy \in 0 .. env.copies /\ Message.files \in Seq(Names)
    BY <2>1 DEF DataAnswers
  <2>3. desc' \in [copy : 0 .. env.copies, files : Seq(Names)]
    BY <1>6, <1>11, <2>2 DEF DataAnswered
  <2>4. pendingFgd' \in BOOLEAN
    BY <1>6, <1>11 DEF DataAnswered
  <2>5. Receive("data") /\ QueueTyped' /\ toServer' \in Seq(Requests)
    BY <1>3, <1>5, <1>11 DEF DataAnswered
  <2> QED
    BY <1>4, <2>3, <2>4, <2>5
<1>12. CASE ContentsAnswered
  BY <1>1, <1>4, <1>6, <1>12, ContentsKept DEF ContentsAnswered
<1>13. CASE RequestDownload
  <2> DEFINE d == [i \in DOMAIN desc.files |-> Entry(desc, i)]
  <2>1. d \in Seq(Entries) /\ StartNext(d, 0) /\ 0 \in 0 .. Len(d)
    BY <1>1, <1>3, <1>13, QueueMade DEF RequestDownload
  <2> HIDE DEF d
  <2>2. QueueTyped' /\ toServer' \in Seq(Requests)
    BY <1>1, <1>3, <2>1, NextStarted DEF QueueTyped
  <2>3. /\ UNCHANGED <<up, pendingFgd, desc, toClient, copies, held, jobs>> /\ desc.files # << >>
    BY <1>13 DEF RequestDownload, serverVars
  <2>4. ServerTyped' /\ Silent' /\ DescTyped' /\ toClient' \in Seq(Answers')
    BY <1>1, <1>3, <2>3 DEF ServerTyped, Silent, DescTyped
  <2> QED
    BY <1>1, <1>2, <2>2, <2>4 DEF Typed
<1>14. CASE ChannelDisconnected
  <2>1. /\ up' = FALSE /\ pendingFgd' = FALSE /\ UNCHANGED <<desc, nextStream, copies>>
        /\ dls' = << >> /\ current' = 0 /\ downloading' = FALSE
        /\ toServer' = << >> /\ toClient' = << >> /\ held' = {} /\ jobs' = {}
    BY <1>14 DEF ChannelDisconnected, FreeDownloads
  <2>2. QueueTyped'
    BY <1>1, <1>3, <2>1, NoQueueTyped
  <2>3. ServerTyped' /\ Silent' /\ DescTyped'
    BY <1>1, <1>3, <2>1 DEF ServerTyped, Silent, DescTyped
  <2> QED
    BY <1>1, <1>2, <2>1, <2>2, <2>3 DEF Typed
<1>15. CASE StartConnection
  <2>1. /\ up' = TRUE /\ desc' = NoFiles /\ nextStream' = 1
        /\ UNCHANGED <<pendingFgd, dls, current, downloading, toServer, toClient, copies, held, jobs>>
    BY <1>15 DEF StartConnection, serverVars
  <2>2. QueueTyped'
    BY <1>1, <1>3, <2>1 DEF QueueTyped
  <2>3. ServerTyped' /\ Silent' /\ DescTyped'
    BY <1>1, <1>3, <2>1 DEF ServerTyped, Silent, DescTyped, NoFiles
  <2> QED
    BY <1>1, <1>2, <1>3, <2>1, <2>2, <2>3 DEF Typed
<1>16. ASSUME NEW c \in Contents, Copy(c) PROVE Typed'
  <2> DEFINE m == [kind |-> "list", files |-> c # << >>]
  <2>1. /\ UNCHANGED <<up, pendingFgd, desc, dls, current, downloading, nextStream>>
        /\ UNCHANGED <<toServer, held, jobs>>
        /\ copies' = Append(copies, c) /\ toClient' = Append(toClient, m) /\ Len(copies) < env.copies
    BY <1>16 DEF Copy, clientVars
  <2>2. m \in Answers
    BY DEF Answers, Announcements
  <2> HIDE DEF m
  <2>3. /\ copies' \in Seq(Contents) /\ Len(copies') = Len(copies) + 1 /\ Len(copies) \in Nat
        /\ copies' # << >>
    <3>1. copies \in Seq(Contents) /\ copies' = Append(copies, c)
      BY <1>3, <2>1 DEF ServerTyped
    <3>2. Append(copies, c) \in Seq(Contents) /\ Len(Append(copies, c)) = Len(copies) + 1
      BY <3>1
    <3>3. Len(copies) \in Nat /\ Len(copies) + 1 # 0 /\ Len(<< >>) = 0
      BY <3>1
    <3> QED
      BY <3>1, <3>2, <3>3
  <2>4. 1 .. Len(copies) \subseteq 1 .. Len(copies')
    BY <2>3
  <2>5. ServerTyped'
    <3>1. held' \subseteq [id : Nat, copy : 1 .. Len(copies')]
      BY <1>3, <2>1, <2>4 DEF ServerTyped
    <3>2. jobs' \subseteq [request : ContentsRequests, copy : 1 .. Len(copies')]
      BY <1>3, <2>1, <2>4 DEF ServerTyped
    <3>3. Len(copies') <= env'.copies
      BY <1>1, <2>1, <2>3
    <3> QED
      BY <2>3, <3>1, <3>2, <3>3 DEF ServerTyped
  <2>6. Silent' /\ DescTyped' /\ QueueTyped'
    BY <1>1, <1>3, <1>5, <2>1, <2>3 DEF Silent, DescTyped
  <2>7. toClient' \in Seq(Answers')
    BY <1>1, <1>3, <2>1, <2>2
  <2> QED
    BY <1>1, <1>2, <1>3, <2>1, <2>5, <2>6, <2>7 DEF Typed
<1>17. CASE Server
  <2>1. UNCHANGED <<up, pendingFgd, desc, dls, current, downloading, nextStream, copies>>
    BY <1>17 DEF Server, AcceptLock, AcceptUnlock, AcceptDataRequest,
                 AcceptContentsRequest, AnswerContents, Accept, clientVars
  <2>2. ASSUME copies # << >>, toServer' \in Seq(Requests), toClient' \in Seq(Answers),
               held' \subseteq [id : Nat, copy : 1 .. Len(copies)],
               jobs' \subseteq [request : ContentsRequests, copy : 1 .. Len(copies)]
        PROVE  Typed'
    <3>1. QueueTyped'
      BY <1>5, <2>1
    <3>2. DescTyped' /\ Silent' /\ ServerTyped'
      BY <1>1, <1>3, <2>1, <2>2 DEF DescTyped, Silent, ServerTyped
    <3> QED
      BY <1>1, <1>2, <2>2, <3>1, <3>2 DEF Typed
  <2>3. /\ held \subseteq [id : Nat, copy : 1 .. Len(copies)]
        /\ jobs \subseteq [request : ContentsRequests, copy : 1 .. Len(copies)]
        /\ copies \in Seq(Contents) /\ Len(copies) <= env.copies
    BY <1>3 DEF ServerTyped
  <2>4. ASSUME NEW job \in jobs, AnswerContents(job) PROVE Typed'
    <3>1. UNCHANGED <<toServer, held>> /\ jobs' = jobs \ {job}
      BY <2>4 DEF AnswerContents
    <3>2. copies # << >>
      BY <2>3, <2>4
    <3> QED
      BY <1>3, <2>2, <2>3, <2>4, <3>1, <3>2, AnswerTyped
  <2>5. ASSUME NEW kind, Accept(kind)
        PROVE  /\ toServer' \in Seq(Requests) /\ copies # << >> /\ Request.kind = kind
               /\ Len(copies) \in 1 .. Len(copies)
    <3>1. toServer # << >> /\ toServer' = Tail(toServer) /\ Request.kind = kind
      BY <2>5 DEF Accept, Request
    <3>2. copies # << >>
      BY <1>3, <3>1 DEF Silent
    <3> QED
      BY <1>3, <2>3, <3>1, <3>2, RequestKinds
  <2>6. toServer # << >> => /\ Request.kind \in {"lock", "unlock"} => Request \in LockRequests
                            /\ Request.kind = "data" => Request \in DataRequests
                            /\ Request.kind = "contents" => Request \in ContentsRequests
    BY <1>3, RequestKinds
  <2>7. CASE AcceptLock
    <3>1. Request.id \in Nat
      BY <2>5, <2>6, <2>7 DEF AcceptLock, Accept, LockRequests
    <3>2. held' \subseteq [id : Nat, copy : 1 .. Len(copies)]
      BY <2>3, <2>5, <2>7, <3>1 DEF AcceptLock
    <3> QED
      BY <1>3, <2>2, <2>3, <2>5, <2>7, <3>2 DEF AcceptLock
  <2>8. CASE AcceptUnlock
    BY <1>3, <2>2, <2>3, <2>5, <2>8 DEF AcceptUnlock
  <2>9. CASE AcceptContentsRequest
    <3> DEFINE new == [request |-> Request,
                       copy |-> IF \E l \in held : l.id = Request.lock
                                THEN (CHOOSE l \in held : l.id = Request.lock).copy
                                ELSE Len(copies)]
    <3>1. Request \in ContentsRequests
      BY <2>5, <2>6, <2>9 DEF AcceptContentsRequest, Accept
    <3>2. new.copy \in 1 .. Len(copies)
      BY <2>3, <2>5, <2>9 DEF AcceptContentsRequest
    <3>3. new \in [request : ContentsRequests, copy : 1 .. Len(copies)]
      BY <3>1, <3>2
    <3>4. jobs' = jobs \cup {new} /\ UNCHANGED <<toClient, held>> /\ Accept("contents")
      BY <2>9 DEF AcceptContentsRequest
    <3> HIDE DEF new
    <3> QED
      BY <1>3, <2>2, <2>3, <2>5, <3>3, <3>4
  <2>10. CASE AcceptDataRequest
    <3>1. Request.what \in {"text", "files"} /\ Accept("data") /\ UNCHANGED <<held, jobs>>
      BY <2>5, <2>6, <2>10 DEF AcceptDataRequest, Accept, DataRequests
    <3>2. Copied \in Seq(Names)
      BY <2>3, <2>5, <3>1, ContentsAssumption DEF Copied, Names
    <3> DEFINE copy == IF Copied = << >> THEN 0 ELSE Len(copies)
               m(result) == [kind |-> "data", what |-> Request.what, result |-> result,
                             copy |-> copy, files |-> Copied]
    <3>3. copy \in 0 .. env.copies
      BY <1>1, <2>3
    <3>4. PICK result \in Verdicts : toClient' = Append(toClient, m(result))
      <4>1. \A has : Results(has) \subseteq Verdicts
        BY DEF Results, Verdicts
      <4> QED
        BY <2>10, <4>1 DEF AcceptDataRequest
    <3> HIDE DEF copy
    <3>5. m(result) \in Answers
      BY <3>1, <3>2, <3>3 DEF Answers, DataAnswers
    <3> HIDE DEF m
    <3> QED
      BY <1>3, <2>2, <2>3, <2>5, <3>1, <3>4, <3>5
  <2> QED
    BY <1>17, <2>4, <2>7, <2>8, <2>9, <2>10 DEF Server
<1>18. CASE UNCHANGED vars
  <2>1. QueueTyped'
    BY <1>5, <1>18 DEF vars
  <2> QED
    BY <1>1, <1>2, <1>3, <1>18, <2>1 DEF vars, Typed, DescTyped, ServerTyped, Silent
<1> QED
  BY <1>7, <1>8, <1>9, <1>10, <1>11, <1>12, <1>13, <1>14, <1>15, <1>16, <1>17, <1>18
     DEF Next, EventLoop

LEMMA TypedInit == Init => Typed
<1> SUFFICES ASSUME Init PROVE Typed
  OBVIOUS
<1>1. env \in Environments /\ env.copies \in Nat /\ env.streams \in Nat \ {0}
  BY EnvTyped DEF Init
<1>2. << >> \in Seq(Entries) /\ << >> \in Seq(Requests) /\ << >> \in Seq(Answers)
      /\ << >> \in Seq(Contents) /\ << >> \in Seq(Names) /\ Len(<< >>) = 0
  OBVIOUS
<1>3. QueueTyped
  <2>1. dls = << >> /\ current = 0 /\ downloading = FALSE /\ nextStream = 1
    BY DEF Init
  <2>2. 0 \in 0 .. 0 /\ 1 \in 1 .. env.streams
    BY <1>1
  <2> QED
    BY <1>2, <2>1, <2>2 DEF QueueTyped
<1>4. LockTyped
  <2>1. lock = [id |-> 0, active |-> FALSE] /\ nextLock = 100
    BY DEF Init, NoLock
  <2> QED
    BY <2>1 DEF LockTyped
<1>5. DescTyped
  <2>1. up = TRUE /\ pendingFgd = FALSE /\ desc = [copy |-> 0, files |-> << >>]
    BY DEF Init, NoFiles
  <2>2. 0 \in 0 .. env.copies
    BY <1>1
  <2> QED
    BY <1>2, <2>1, <2>2 DEF DescTyped
<1>6. ServerTyped /\ Silent
  BY <1>1, <1>2 DEF Init, ServerTyped, Silent, NoFiles
<1> QED
  BY <1>1, <1>2, <1>3, <1>4, <1>5, <1>6 DEF Typed, Init

-----------------------------------------------------------------------------
(* What is downloaded is what was shown: while descriptors are waited for  *)
(* there are none, and nothing is downloaded then or without the channel.  *)

Waiting == (pendingFgd \/ ~up) => ~downloading
Shown == DownloadOfTheListShown /\ Waiting /\ (pendingFgd => desc.files = << >>)

LEMMA ShownNext == Typed /\ Shown /\ [Next]_vars => Shown'
<1> SUFFICES ASSUME Typed, Shown, [Next]_vars PROVE Shown'
  OBVIOUS
<1>1. UNCHANGED env /\ env \in Environments /\ DescTyped
  BY EnvNext DEF Typed
<1>2. Typed'
  BY TypedNext
<1>3. CASE UNCHANGED <<up, pendingFgd, desc, dls, downloading>>
  BY <1>3 DEF Shown, Waiting, DownloadOfTheListShown
<1>4. CASE ~downloading' /\ (pendingFgd' => desc'.files = << >>)
  BY <1>4 DEF Shown, Waiting, DownloadOfTheListShown
<1> DEFINE ForTheFiles ==
      /\ Len(dls') = Len(desc'.files)
      /\ \A i \in 1 .. Len(dls') : dls'[i].copy = desc'.copy /\ (dls'[i].dir <=> desc'.files[i] = Dir)
<1>5. ASSUME up', ~pendingFgd', ForTheFiles PROVE Shown'
  <2>1. DOMAIN dls' = 1 .. Len(dls')
    BY <1>2 DEF Typed, QueueTyped
  <2> QED
    BY <1>5, <2>1 DEF Shown, Waiting, DownloadOfTheListShown
<1>6. CASE ContentsAnswered
  <2>1. up /\ downloading /\ UNCHANGED <<up, pendingFgd, desc>>
    BY <1>6 DEF ContentsAnswered, Receive
  <2>2. SameQueue(dls', dls)
    BY <1>1, <1>6, ContentsKept
  <2>3. /\ Len(dls) = Len(desc.files) /\ DOMAIN dls = 1 .. Len(dls)
        /\ \A i \in DOMAIN dls : dls[i].copy = desc.copy /\ (dls[i].dir <=> desc.files[i] = Dir)
        /\ ~pendingFgd
    BY <2>1 DEF Shown, Waiting, DownloadOfTheListShown, Typed, QueueTyped
  <2>4. ForTheFiles
    BY <2>1, <2>2, <2>3 DEF SameQueue
  <2> QED
    <3>1. up' /\ ~pendingFgd'
      BY <2>1, <2>3
    <3> HIDE DEF ForTheFiles
    <3> QED
      BY <1>5, <2>4, <3>1
<1>7. CASE RequestDownload
  <2> DEFINE d == [i \in DOMAIN desc.files |-> Entry(desc, i)]
  <2>1. up /\ desc.files # << >> /\ StartNext(d, 0) /\ UNCHANGED <<up, pendingFgd, desc>>
    BY <1>7 DEF RequestDownload
  <2>2. /\ d \in Seq(Entries) /\ Len(d) = Len(desc.files)
        /\ \A i \in 1 .. Len(d) : d[i].copy = desc.copy /\ (d[i].dir <=> desc.files[i] = Dir)
    BY <1>1, QueueMade
  <2> HIDE DEF d
  <2>3. SameQueue(dls', d)
    <3>1. 0 \in 0 .. Len(d)
      BY <2>2
    <3> QED
      BY <1>1, <2>1, <2>2, <3>1, NextStarted DEF Typed, QueueTyped
  <2>4. ForTheFiles
    BY <2>1, <2>2, <2>3 DEF SameQueue
  <2>5. ~pendingFgd
    BY <2>1 DEF Shown
  <2> QED
    <3>1. up' /\ ~pendingFgd'
      BY <2>1, <2>5
    <3> HIDE DEF ForTheFiles
    <3> QED
      BY <1>5, <2>4, <3>1
<1>8. CASE FilesOffered
  BY <1>4, <1>8 DEF FilesOffered, FreeDownloads, NoFiles
<1>9. CASE DataAnswered
  <2>1. CASE pendingFgd
    <3>1. ~downloading' /\ (pendingFgd' => desc'.files = << >>)
      BY <1>9, <2>1 DEF DataAnswered, Shown, Waiting
    <3> QED
      BY <1>4, <3>1
  <2>2. CASE ~pendingFgd
    <3>1. pendingFgd \in BOOLEAN
      BY <1>1 DEF DescTyped
    <3>2. UNCHANGED <<up, pendingFgd, desc, dls, downloading>>
      BY <1>9, <2>2, <3>1 DEF DataAnswered, Receive
    <3> QED
      BY <1>3, <3>2
  <2> QED
    BY <2>1, <2>2
<1>10. CASE ListNotAcknowledged \/ TextOffered \/ LateAnswer
  BY <1>3, <1>10 DEF ListNotAcknowledged, TextOffered, LateAnswer, Receive
<1>11. CASE ChannelDisconnected
  BY <1>4, <1>11 DEF ChannelDisconnected, FreeDownloads
<1>12. CASE StartConnection
  BY <1>4, <1>12 DEF StartConnection, NoFiles, Shown, Waiting
<1>13. CASE Server
  BY <1>3, <1>13 DEF Server, AcceptLock, AcceptUnlock, AcceptDataRequest,
                     AcceptContentsRequest, AnswerContents, Accept, clientVars
<1>14. CASE \E c \in Contents : Copy(c)
  BY <1>3, <1>14 DEF Copy, clientVars
<1>15. CASE UNCHANGED vars
  BY <1>3, <1>15 DEF vars
<1> QED
  BY <1>6, <1>7, <1>8, <1>9, <1>10, <1>11, <1>12, <1>13, <1>14, <1>15 DEF Next, EventLoop

(* Whatever messages are lost, refused or answered without data, a queue in *)
(* progress is that of the descriptors shown to the application, entry for  *)
(* entry, its position lies within it, and the stream ids of its requests   *)
(* stay within their range as they wrap (cliprdr_file_server_has_files,     *)
(* cliprdr_file_request_download, cb_server_file_contents_response).        *)
THEOREM DownloadsMatchTheList == Spec => [](TypeOK /\ DownloadOfTheListShown)
<1>1. Init => Typed /\ Shown
  <2>1. Init => Shown
    BY DEF Init, Shown, Waiting, DownloadOfTheListShown
  <2> QED
    BY <2>1, TypedInit
<1>2. Typed /\ Shown /\ [Next]_vars => (Typed /\ Shown)'
  BY TypedNext, ShownNext
<1>3. Typed /\ Shown => TypeOK /\ DownloadOfTheListShown
  BY DEF Typed, QueueTyped, LockTyped, DescTyped, Shown, TypeOK
<1> QED
  BY <1>1, <1>2, <1>3, PTL DEF Spec

-----------------------------------------------------------------------------
(* Lists of files in the channel to the helper.  The contents of one       *)
(* message are told apart from those of another by what comes before and   *)
(* after it: a list of files drops the queue and the descriptors.          *)

FileList == [kind |-> "list", files |-> TRUE]
Ahead(t, p) == \E q \in 1 .. p - 1 : t[q] = FileList
Behind(t, p) == \E q \in p + 1 .. Len(t) : t[q] = FileList

(* Files were copied after the n-th copy. *)
Newer(cs, n) == \E k \in 1 .. Len(cs) : k > n /\ cs[k] # << >>
Described(m) == m.kind = "data" /\ m.result = "ok" /\ m.files # << >>

(* Whatever was copied after the descriptors in hand (d), after those on   *)
(* their way, or after the active lock was taken (a), is announced behind  *)
(* them; and descriptors newer than the lock have a list ahead of them,    *)
(* which replaces the lock first.                                          *)
Lists(t, cs, d, a, u) ==
  /\ IsSequence(t) /\ IsSequence(cs)
  /\ \A i \in 1 .. Len(t) : t[i].kind # "list" => t[i].result # "empty"
  /\ d.files # << >> => d.copy \in 1 .. Len(cs) /\ d.files = cs[d.copy]
  /\ \A i \in 1 .. Len(t) :
       Described(t[i]) => t[i].copy \in 1 .. Len(cs) /\ t[i].files = cs[t[i].copy]
  /\ u /\ d.files # << >> /\ Newer(cs, d.copy) => Behind(t, 0)
  /\ \A l \in a : l.copy \in 1 .. Len(cs) /\ (Newer(cs, l.copy) => Behind(t, 0))
  /\ \A i \in 1 .. Len(t) : Described(t[i]) /\ Newer(cs, t[i].copy) => Behind(t, i)
  /\ \A i \in 1 .. Len(t) : \A l \in a :
       Described(t[i]) /\ l.copy < t[i].copy => Ahead(t, i)
  /\ \A l \in a : u /\ d.files # << >> => d.copy <= l.copy

LEMMA TakenMeets ==
  ASSUME NEW t, IsSequence(t), t # << >>
  PROVE  /\ IsSequence(Tail(t)) /\ Len(t) \in Nat \ {0} /\ Head(t) = t[1]
         /\ Len(Tail(t)) = Len(t) - 1
         /\ \A i \in 1 .. Len(Tail(t)) : i + 1 \in 1 .. Len(t) /\ Tail(t)[i] = t[i + 1]
         /\ \A i \in 1 .. Len(Tail(t)) : Behind(t, i + 1) => Behind(Tail(t), i)
         /\ Head(t) # FileList =>
              /\ Behind(t, 0) => Behind(Tail(t), 0)
              /\ \A i \in 1 .. Len(Tail(t)) : Ahead(t, i + 1) => Ahead(Tail(t), i)
<1>1. /\ IsSequence(Tail(t)) /\ Len(t) \in Nat \ {0} /\ Head(t) = t[1]
      /\ Len(Tail(t)) = Len(t) - 1
      /\ \A i \in 1 .. Len(t) - 1 : Tail(t)[i] = t[i + 1]
  BY Shrinks
<1>2. ASSUME NEW i \in 0 .. Len(Tail(t)), NEW q \in i + 2 .. Len(t), t[q] = FileList
      PROVE  Behind(Tail(t), i)
  <2>1. q - 1 \in i + 1 .. Len(Tail(t)) /\ q - 1 \in 1 .. Len(t) - 1 /\ (q - 1) + 1 = q
    BY <1>1
  <2>2. Tail(t)[q - 1] = FileList
    BY <1>1, <1>2, <2>1
  <2> QED
    BY <2>1, <2>2 DEF Behind
<1>3. ASSUME NEW i \in 1 .. Len(Tail(t)), Behind(t, i + 1) PROVE Behind(Tail(t), i)
  <2>1. PICK q \in (i + 1) + 1 .. Len(t) : t[q] = FileList
    BY <1>3 DEF Behind
  <2>2. q \in i + 2 .. Len(t) /\ i \in 0 .. Len(Tail(t))
    BY <1>1, <2>1
  <2> QED
    BY <1>2, <2>1, <2>2
<1>4. ASSUME Head(t) # FileList, Behind(t, 0) PROVE Behind(Tail(t), 0)
  <2>1. PICK q \in 0 + 1 .. Len(t) : t[q] = FileList
    BY <1>4 DEF Behind
  <2>2. q \in 0 + 2 .. Len(t) /\ 0 \in 0 .. Len(Tail(t))
    BY <1>1, <1>4, <2>1
  <2> QED
    BY <1>2, <2>1, <2>2
<1>5. ASSUME Head(t) # FileList, NEW i \in 1 .. Len(Tail(t)), Ahead(t, i + 1)
      PROVE  Ahead(Tail(t), i)
  <2>1. PICK q \in 1 .. (i + 1) - 1 : t[q] = FileList
    BY <1>5 DEF Ahead
  <2>2. q # 1
    BY <1>1, <1>5, <2>1
  <2>3. q - 1 \in 1 .. i - 1 /\ q - 1 \in 1 .. Len(t) - 1 /\ (q - 1) + 1 = q
    BY <1>1, <2>1, <2>2
  <2>4. Tail(t)[q - 1] = FileList
    BY <1>1, <2>1, <2>3
  <2> QED
    BY <2>3, <2>4 DEF Ahead
<1>6. \A i \in 1 .. Len(Tail(t)) : i + 1 \in 1 .. Len(t) /\ Tail(t)[i] = t[i + 1]
  BY <1>1
<1> QED
  BY <1>1, <1>3, <1>4, <1>5, <1>6

LEMMA AddedMeets ==
  ASSUME NEW t, IsSequence(t), NEW m
  PROVE  LET s == Append(t, m) IN
         /\ IsSequence(s) /\ Len(t) \in Nat /\ Len(s) = Len(t) + 1
         /\ \A i \in 1 .. Len(t) : s[i] = t[i]
         /\ s[Len(s)] = m
         /\ \A i \in 0 .. Len(t) : Behind(t, i) => Behind(s, i)
         /\ m = FileList => \A i \in 0 .. Len(t) : Behind(s, i)
         /\ \A i \in 1 .. Len(t) : Ahead(s, i) <=> Ahead(t, i)
         /\ Behind(t, 0) <=> Ahead(s, Len(s))
<1> DEFINE s == Append(t, m)
<1>1. /\ IsSequence(s) /\ Len(t) \in Nat /\ Len(s) = Len(t) + 1
      /\ \A i \in 1 .. Len(t) : s[i] = t[i]
      /\ s[Len(t) + 1] = m
  BY Grows
<1> HIDE DEF s
<1>2. \A i \in 0 .. Len(t) : Behind(t, i) => Behind(s, i)
  BY <1>1 DEF Behind
<1>3. m = FileList => \A i \in 0 .. Len(t) : Behind(s, i)
  <2> SUFFICES ASSUME m = FileList, NEW i \in 0 .. Len(t) PROVE Behind(s, i)
    OBVIOUS
  <2>1. Len(s) \in i + 1 .. Len(s) /\ s[Len(s)] = FileList
    BY <1>1
  <2> QED
    BY <2>1 DEF Behind
<1>4. \A i \in 1 .. Len(t) : Ahead(s, i) <=> Ahead(t, i)
  <2> SUFFICES ASSUME NEW i \in 1 .. Len(t) PROVE Ahead(s, i) <=> Ahead(t, i)
    OBVIOUS
  <2>1. \A q \in 1 .. i - 1 : s[q] = t[q]
    BY <1>1
  <2> QED
    BY <2>1 DEF Ahead
<1>5. Behind(t, 0) <=> Ahead(s, Len(s))
  <2>1. 1 .. Len(s) - 1 = 0 + 1 .. Len(t) /\ \A q \in 0 + 1 .. Len(t) : s[q] = t[q]
    BY <1>1
  <2> QED
    BY <2>1 DEF Ahead, Behind
<1> QED
  BY <1>1, <1>2, <1>3, <1>4, <1>5 DEF s

(* Fewer locks, or no descriptors, owe less. *)
LEMMA ListsFewer ==
  ASSUME NEW t, NEW cs, NEW d, NEW a, NEW u, Lists(t, cs, d, a, u),
         NEW a2 \in SUBSET a, NEW d2, d2 = d \/ d2.files = << >>
  PROVE  Lists(t, cs, d2, a2, u)
  BY DEF Lists

(* A message is taken that is no list of files. *)
LEMMA ListsTaken ==
  ASSUME NEW t, NEW cs, NEW d, NEW a, NEW u, Lists(t, cs, d, a, u),
         t # << >>, Head(t) # FileList
  PROVE  Lists(Tail(t), cs, d, a, u)
<1>1. /\ IsSequence(Tail(t)) /\ Len(t) \in Nat \ {0} /\ Head(t) = t[1]
      /\ Len(Tail(t)) = Len(t) - 1
      /\ \A i \in 1 .. Len(Tail(t)) : i + 1 \in 1 .. Len(t) /\ Tail(t)[i] = t[i + 1]
      /\ \A i \in 1 .. Len(Tail(t)) : Behind(t, i + 1) => Behind(Tail(t), i)
      /\ Behind(t, 0) => Behind(Tail(t), 0)
      /\ \A i \in 1 .. Len(Tail(t)) : Ahead(t, i + 1) => Ahead(Tail(t), i)
  BY TakenMeets DEF Lists
<1> QED
  BY <1>1 DEF Lists

(* A list of files is taken, and descriptors and lock with it. *)
LEMMA ListsReplaced ==
  ASSUME NEW t, NEW cs, NEW d, NEW a, NEW u, Lists(t, cs, d, a, u), t # << >>,
         NEW d2, d2.files = << >>
  PROVE  Lists(Tail(t), cs, d2, {}, u)
<1>1. /\ IsSequence(Tail(t)) /\ Len(t) \in Nat \ {0}
      /\ \A i \in 1 .. Len(Tail(t)) : i + 1 \in 1 .. Len(t) /\ Tail(t)[i] = t[i + 1]
      /\ \A i \in 1 .. Len(Tail(t)) : Behind(t, i + 1) => Behind(Tail(t), i)
  BY TakenMeets DEF Lists
<1> QED
  BY <1>1 DEF Lists

(* Descriptors are taken from the channel and kept. *)
LEMMA ListsTold ==
  ASSUME NEW t, NEW cs, NEW d, NEW a, NEW u, Lists(t, cs, d, a, u),
         t # << >>, Head(t).kind = "data", Head(t).result = "ok"
  PROVE  Lists(Tail(t), cs, [copy |-> Head(t).copy, files |-> Head(t).files], a, u)
<1> DEFINE d2 == [copy |-> Head(t).copy, files |-> Head(t).files]
<1>1. Head(t) # FileList
  BY DEF FileList
<1>2. Lists(Tail(t), cs, d, a, u)
  BY <1>1, ListsTaken
<1>3. CASE d2.files = << >>
  BY <1>2, <1>3, ListsFewer
<1>4. CASE d2.files # << >>
  <2>1. 1 \in 1 .. Len(t) /\ Head(t) = t[1] /\ Described(t[1])
    BY <1>4, TakenMeets DEF Lists, Described
  <2>2. d2.copy \in 1 .. Len(cs) /\ d2.files = cs[d2.copy] /\ Len(cs) \in Nat
    BY <2>1, Grows DEF Lists
  <2>3. ASSUME Newer(cs, d2.copy) PROVE Behind(Tail(t), 0)
    <3>1. Behind(t, 1)
      BY <2>1, <2>3 DEF Lists
    <3>2. Behind(t, 0)
      BY <3>1 DEF Behind
    <3> QED
      BY <1>1, <3>2, TakenMeets DEF Lists
  <2>4. ASSUME NEW l \in a PROVE d2.copy <= l.copy
    <3>1. ~Ahead(t, 1)
      BY DEF Ahead
    <3>2. ~(l.copy < t[1].copy) /\ l.copy \in 1 .. Len(cs)
      BY <2>1, <3>1 DEF Lists
    <3> QED
      BY <2>1, <2>2, <3>2
  <2> HIDE DEF d2
  <2>5. \A l \in a : u /\ d2.files # << >> => d2.copy <= l.copy
    BY <2>4
  <2>6. u /\ d2.files # << >> /\ Newer(cs, d2.copy) => Behind(Tail(t), 0)
    BY <2>3
  <2>7. Lists(Tail(t), cs, d2, a, u)
    BY <1>2, <2>2, <2>5, <2>6 DEF Lists
  <2> QED
    BY <2>7 DEF d2
<1> QED
  BY <1>3, <1>4

(* Something is copied, and announced. *)
LEMMA ListsCopied ==
  ASSUME NEW t, NEW cs, NEW d, NEW a, NEW u, Lists(t, cs, d, a, u), NEW c
  PROVE  Lists(Append(t, [kind |-> "list", files |-> c # << >>]), Append(cs, c), d, a, u)
<1> DEFINE m == [kind |-> "list", files |-> c # << >>]
           s == Append(t, m)
           ds == Append(cs, c)
<1>1. /\ IsSequence(s) /\ Len(t) \in Nat /\ Len(s) = Len(t) + 1
      /\ \A i \in 1 .. Len(t) : s[i] = t[i]
      /\ s[Len(s)] = m
      /\ \A i \in 0 .. Len(t) : Behind(t, i) => Behind(s, i)
      /\ m = FileList => \A i \in 0 .. Len(t) : Behind(s, i)
      /\ \A i \in 1 .. Len(t) : Ahead(s, i) <=> Ahead(t, i)
  BY AddedMeets DEF Lists
<1>2. /\ IsSequence(ds) /\ Len(cs) \in Nat /\ Len(ds) = Len(cs) + 1
      /\ \A i \in 1 .. Len(cs) : ds[i] = cs[i]
      /\ ds[Len(cs) + 1] = c
  BY Grows DEF Lists
<1>3. c # << >> => m = FileList
  BY DEF FileList
<1>4. m.kind = "list"
  OBVIOUS
<1> HIDE DEF m, s, ds
<1>5. ASSUME NEW n, Newer(ds, n) PROVE Newer(cs, n) \/ m = FileList
  <2>1. PICK k \in 1 .. Len(ds) : k > n /\ ds[k] # << >>
    BY <1>5 DEF Newer
  <2>2. CASE k = Len(cs) + 1
    BY <1>2, <1>3, <2>1, <2>2
  <2>3. CASE k # Len(cs) + 1
    <3>1. k \in 1 .. Len(cs) /\ ds[k] = cs[k]
      BY <1>2, <2>3
    <3> QED
      BY <2>1, <3>1 DEF Newer
  <2> QED
    BY <2>2, <2>3
<1>6. ASSUME NEW i \in 1 .. Len(s)
      PROVE  (i \in 1 .. Len(t) /\ s[i] = t[i]) \/ s[i] = m
  BY <1>1
<1>7. \A i \in 1 .. Len(s) : s[i].kind # "list" => s[i].result # "empty"
  BY <1>4, <1>6 DEF Lists
<1>8. ASSUME NEW i \in 1 .. Len(s), Described(s[i])
      PROVE  /\ i \in 1 .. Len(t) /\ s[i] = t[i]
             /\ s[i].copy \in 1 .. Len(ds) /\ s[i].files = ds[s[i].copy]
             /\ Newer(ds, s[i].copy) => Behind(s, i)
             /\ \A l \in a : l.copy < s[i].copy => Ahead(s, i)
  <2>1. i \in 1 .. Len(t) /\ s[i] = t[i]
    BY <1>4, <1>6, <1>8 DEF Described
  <2>2. s[i].copy \in 1 .. Len(cs) /\ s[i].files = cs[s[i].copy]
    BY <1>8, <2>1 DEF Lists
  <2>3. Newer(ds, s[i].copy) => Behind(s, i)
    BY <1>1, <1>5, <1>8, <2>1 DEF Lists
  <2>4. \A l \in a : l.copy < s[i].copy => Ahead(s, i)
    BY <1>1, <1>8, <2>1 DEF Lists
  <2> QED
    BY <1>2, <2>1, <2>2, <2>3, <2>4
<1>9. d.files # << >> => d.copy \in 1 .. Len(ds) /\ d.files = ds[d.copy]
  BY <1>2 DEF Lists
<1>10. /\ u /\ d.files # << >> /\ Newer(ds, d.copy) => Behind(s, 0)
       /\ \A l \in a : Newer(ds, l.copy) => Behind(s, 0)
  <2>1. 0 \in 0 .. Len(t)
    BY <1>1
  <2> QED
    BY <1>1, <1>5, <2>1 DEF Lists
<1>11. \A l \in a : l.copy \in 1 .. Len(ds) /\ (u /\ d.files # << >> => d.copy <= l.copy)
  BY <1>2 DEF Lists
<1>12. Lists(s, ds, d, a, u)
  BY <1>1, <1>2, <1>7, <1>8, <1>9, <1>10, <1>11 DEF Lists
<1> QED
  BY <1>12 DEF s, ds, m

(* The clipboard is locked as it is now. *)
LEMMA ListsLocked ==
  ASSUME NEW t, NEW cs, NEW d, NEW a, NEW u, Lists(t, cs, d, a, u), cs # << >>,
         NEW l, l.copy = Len(cs)
  PROVE  Lists(t, cs, d, a \cup {l}, u)
<1>1. Len(cs) \in 1 .. Len(cs) /\ Len(cs) \in Nat
  BY Shrinks DEF Lists
<1>2. ~Newer(cs, l.copy)
  BY <1>1 DEF Newer
<1>3. \A i \in 1 .. Len(t) : Described(t[i]) => ~(l.copy < t[i].copy)
  BY <1>1 DEF Lists
<1>4. d.files # << >> => d.copy <= l.copy
  BY <1>1 DEF Lists
<1> QED
  BY <1>1, <1>2, <1>3, <1>4 DEF Lists

(* The server answers; descriptors are those of what it has now. *)
LEMMA ListsAnswered ==
  ASSUME NEW t, NEW cs, NEW d, NEW a, NEW u, Lists(t, cs, d, a, u),
         NEW m, m.kind # "list", m.result # "empty",
         Described(m) => cs # << >> /\ m.copy = Len(cs) /\ m.files = cs[Len(cs)]
  PROVE  Lists(Append(t, m), cs, d, a, u)
<1> DEFINE s == Append(t, m)
<1>1. /\ IsSequence(s) /\ Len(t) \in Nat /\ Len(s) = Len(t) + 1
      /\ \A i \in 1 .. Len(t) : s[i] = t[i]
      /\ s[Len(s)] = m
      /\ \A i \in 0 .. Len(t) : Behind(t, i) => Behind(s, i)
      /\ \A i \in 1 .. Len(t) : Ahead(s, i) <=> Ahead(t, i)
      /\ Behind(t, 0) <=> Ahead(s, Len(s))
  BY AddedMeets DEF Lists
<1> HIDE DEF s
<1>2. ASSUME Described(m)
      PROVE  /\ m.copy \in 1 .. Len(cs) /\ m.files = cs[m.copy] /\ ~Newer(cs, m.copy)
             /\ \A l \in a : l.copy < m.copy => Ahead(s, Len(s))
  <2>1. m.copy = Len(cs) /\ Len(cs) \in 1 .. Len(cs) /\ Len(cs) \in Nat /\ m.files = cs[Len(cs)]
    BY <1>2, Shrinks DEF Lists
  <2>2. ~Newer(cs, m.copy)
    BY <2>1 DEF Newer
  <2>3. ASSUME NEW l \in a, l.copy < m.copy PROVE Ahead(s, Len(s))
    <3>1. Newer(cs, l.copy)
      <4>1. cs[Len(cs)] # << >>
        BY <1>2, <2>1 DEF Described
      <4> QED
        BY <2>1, <2>3, <4>1 DEF Newer
    <3>2. Behind(t, 0)
      BY <3>1 DEF Lists
    <3> QED
      BY <1>1, <3>2
  <2> QED
    BY <2>1, <2>2, <2>3
<1>3. ASSUME NEW i \in 1 .. Len(s)
      PROVE  /\ s[i].kind # "list" => s[i].result # "empty"
             /\ Described(s[i]) => /\ s[i].copy \in 1 .. Len(cs) /\ s[i].files = cs[s[i].copy]
                                   /\ Newer(cs, s[i].copy) => Behind(s, i)
                                   /\ \A l \in a : l.copy < s[i].copy => Ahead(s, i)
  <2>1. CASE i = Len(s)
    BY <1>1, <1>2, <2>1
  <2>2. CASE i # Len(s)
    <3>1. i \in 1 .. Len(t) /\ s[i] = t[i]
      BY <1>1, <2>2
    <3> QED
      BY <1>1, <3>1 DEF Lists
  <2> QED
    BY <2>1, <2>2
<1>4. Behind(t, 0) => Behind(s, 0)
  BY <1>1
<1>5. Lists(s, cs, d, a, u)
  BY <1>1, <1>3, <1>4 DEF Lists
<1> QED
  BY <1>5 DEF s

(* With nothing on its way nothing is owed. *)
LEMMA ListsNone ==
  ASSUME NEW cs, IsSequence(cs), NEW d, NEW u,
         d.files # << >> => d.copy \in 1 .. Len(cs) /\ d.files = cs[d.copy],
         u => d.files = << >>
  PROVE  Lists(<< >>, cs, d, {}, u)
<1>1. << >> \in Seq({})
  OBVIOUS
<1>2. IsSequence(<< >>) /\ Len(<< >>) = 0
  BY <1>1 DEF IsSequence
<1> QED
  BY <1>2 DEF Lists

-----------------------------------------------------------------------------
(* A connection that loses nothing: its locks are numbered, and what is    *)
(* copied is announced.                                                    *)

Numbered(s, n) ==
  /\ IsSequence(s)
  /\ \A i \in 1 .. Len(s) : s[i].kind = "lock" => s[i].id \in 100 .. n - 1
LocksNumbered ==
  /\ nextLock \in Nat /\ nextLock >= 100 /\ (lock.active => lock.id \in 100 .. nextLock - 1)
  /\ \A l \in held : l.id \in 100 .. nextLock - 1
  /\ Numbered(toServer, nextLock)
Down ==
  ~up => /\ toServer = << >> /\ toClient = << >> /\ held = {} /\ jobs = {} /\ dls = << >>
         /\ ~downloading /\ ~pendingFgd /\ ~lock.active
ActiveHeld == {l \in held : lock.active /\ l.id = lock.id}
ListsAnnounced == Lists(toClient, copies, desc, ActiveHeld, up)
Connected == LocksNumbered /\ Down /\ ListsAnnounced

LEMMA NumberedMore ==
  ASSUME NEW s, NEW n \in Nat, Numbered(s, n), NEW m,
         m.kind = "lock" => m.id \in 100 .. n - 1
  PROVE  Numbered(Append(s, m), n)
<1>1. /\ IsSequence(Append(s, m)) /\ Len(s) \in Nat /\ Len(Append(s, m)) = Len(s) + 1
      /\ \A i \in 1 .. Len(s) : Append(s, m)[i] = s[i]
      /\ Append(s, m)[Len(s) + 1] = m
  BY Grows DEF Numbered
<1>2. \A i \in 1 .. Len(Append(s, m)) : i \in 1 .. Len(s) \/ i = Len(s) + 1
  BY <1>1
<1> QED
  BY <1>1, <1>2 DEF Numbered

LEMMA NumberedFewer ==
  ASSUME NEW s, NEW n \in Nat, Numbered(s, n), s # << >>
  PROVE  Numbered(Tail(s), n)
<1>1. /\ IsSequence(Tail(s)) /\ Len(s) \in Nat /\ Len(Tail(s)) = Len(s) - 1
      /\ \A i \in 1 .. Len(s) - 1 : Tail(s)[i] = s[i + 1]
  BY Shrinks DEF Numbered
<1>2. \A i \in 1 .. Len(Tail(s)) : i + 1 \in 1 .. Len(s) /\ Tail(s)[i] = s[i + 1]
  BY <1>1
<1> QED
  BY <1>1, <1>2 DEF Numbered

LEMMA NumberedNone == ASSUME NEW n PROVE Numbered(<< >>, n)
<1>1. << >> \in Seq({})
  OBVIOUS
<1> QED
  BY <1>1 DEF Numbered, IsSequence

(* An answer to a contents request makes the helper ask for more, give its *)
(* lock up, or neither.                                                    *)
LEMMA ContentsSends ==
  ASSUME ~MayFail, IsSequence(toServer), ContentsAnswered
  PROVE  \/ GivesUp \/ UNCHANGED <<lock, toServer>>
         \/ \E i, stream, from, want : SendsOnly(ContentsRequest(i, stream, from, want))
<1>1. PICK i : ContentsRefused(i) \/ SizeAnswered(i) \/ RangeAnswered(i) \/ NoRange(i)
  BY DEF ContentsAnswered
<1>2. \/ \E d, c : StartNext(d, c)
      \/ UNCHANGED <<lock, toServer>>
      \/ \E e, stream : Post(<<RangeRequest(i, e, stream)>>) /\ UNCHANGED lock
  BY <1>1 DEF ContentsRefused, SizeAnswered, RangeAnswered, NoRange
<1>3. ASSUME NEW e, NEW stream, Post(<<RangeRequest(i, e, stream)>>), UNCHANGED lock
      PROVE  SendsOnly(ContentsRequest(i, stream, Len(e.data), AskedRange(e)))
  <2>1. toServer' = Append(toServer, RangeRequest(i, e, stream))
    BY <1>3, OneByOne DEF Post
  <2> QED
    BY <1>3, <2>1 DEF SendsOnly, RangeRequest
<1> QED
  BY <1>2, <1>3, StartNextSends

LEMMA ConnectedSends ==
  ASSUME Connected, lock \in [id : Nat, active : BOOLEAN], UNCHANGED <<up, nextLock, held>>, up,
         \/ GivesUp \/ UNCHANGED <<lock, toServer>>
         \/ \E i, stream, from, want : SendsOnly(ContentsRequest(i, stream, from, want))
  PROVE  LocksNumbered' /\ Down' /\ ActiveHeld' \subseteq ActiveHeld
<1>1. \/ UNCHANGED lock
      \/ lock'.active = FALSE
  BY DEF GivesUp, SendsOnly
<1>2. \/ UNCHANGED toServer
      \/ \E m : toServer' = Append(toServer, m) /\ m.kind # "lock"
  <2>1. \A id : UnlockMsg(id).kind # "lock"
    BY DEF UnlockMsg
  <2>2. \A i, stream, from, want : ContentsRequest(i, stream, from, want).kind # "lock"
    BY DEF ContentsRequest
  <2> QED
    BY <2>1, <2>2 DEF GivesUp, SendsOnly
<1>3. Numbered(toServer', nextLock)
  BY <1>2, NumberedMore DEF Connected, LocksNumbered
<1>4. ActiveHeld' \subseteq ActiveHeld
  BY <1>1 DEF ActiveHeld
<1>5. LocksNumbered'
  BY <1>1, <1>3 DEF Connected, LocksNumbered
<1>6. Down'
  BY DEF Down
<1> QED
  BY <1>4, <1>5, <1>6

LEMMA ConnectedNext == Typed /\ Reliable /\ Connected /\ [Next]_vars => Connected'
<1> SUFFICES ASSUME Typed, Reliable, Connected, [Next]_vars PROVE Connected'
  OBVIOUS
<1>1. /\ ~MayFail /\ IsSequence(toServer) /\ lock \in [id : Nat, active : BOOLEAN]
      /\ LocksNumbered /\ Down /\ Lists(toClient, copies, desc, ActiveHeld, up)
      /\ nextLock \in Nat /\ Numbered(toServer, nextLock)
  BY DEF Reliable, MayFail, Typed, LockTyped, IsSequence, Connected, ListsAnnounced, LocksNumbered
<1>2. CASE ContentsAnswered
  <2>1. /\ up /\ UNCHANGED <<up, nextLock, held, copies, desc>> /\ toClient # << >>
        /\ toClient' = Tail(toClient) /\ Head(toClient).kind = "contents"
    BY <1>2 DEF ContentsAnswered, Receive, serverVars
  <2>2. LocksNumbered' /\ Down' /\ ActiveHeld' \subseteq ActiveHeld
    BY <1>1, <1>2, <2>1, ContentsSends, ConnectedSends
  <2>3. Head(toClient) # FileList
    BY <2>1 DEF FileList
  <2>4. Lists(toClient', copies, desc, ActiveHeld, up)
    BY <1>1, <2>1, <2>3, ListsTaken
  <2>5. Lists(toClient', copies, desc, ActiveHeld', up)
    BY <2>2, <2>4, ListsFewer
  <2> QED
    BY <2>1, <2>2, <2>5 DEF Connected, ListsAnnounced
<1>3. CASE RequestDownload
  <2>1. /\ up /\ UNCHANGED <<up, nextLock, held, copies, desc, toClient>>
        /\ \E d, c : StartNext(d, c)
    BY <1>3 DEF RequestDownload, serverVars
  <2>2. \/ GivesUp
        \/ \E i, stream, from, want : SendsOnly(ContentsRequest(i, stream, from, want))
    BY <1>1, <2>1, StartNextSends
  <2>3. LocksNumbered' /\ Down' /\ ActiveHeld' \subseteq ActiveHeld
    BY <1>1, <2>1, <2>2, ConnectedSends
  <2>4. Lists(toClient, copies, desc, ActiveHeld', up)
    BY <1>1, <2>3, ListsFewer
  <2> QED
    BY <2>1, <2>3, <2>4 DEF Connected, ListsAnnounced
<1>4. CASE FilesOffered
  <2> DEFINE s == IF lock.active THEN Append(toServer, UnlockMsg(lock.id)) ELSE toServer
             L == LockMsg(nextLock)
             D == DataRequest("files")
  <2>1. /\ up /\ UNCHANGED <<up, held, copies>> /\ lock' = [id |-> nextLock, active |-> TRUE]
        /\ nextLock' = nextLock + 1 /\ desc' = NoFiles
        /\ toClient # << >> /\ toClient' = Tail(toClient)
    BY <1>4 DEF FilesOffered, Receive, serverVars
  <2>2. toServer' = Append(Append(s, L), D)
    <3>1. toServer' = toServer \o ((IF lock.active THEN <<UnlockMsg(lock.id)>> ELSE << >>)
                                     \o <<L, D>>)
      BY <1>1, <1>4 DEF FilesOffered, Post
    <3>2. CASE lock.active
      <4>1. toServer' = toServer \o <<UnlockMsg(lock.id), L, D>>
        BY <3>1, <3>2
      <4> QED
        BY <1>1, <3>2, <4>1, OneByOne
    <3>3. CASE ~lock.active
      <4>1. toServer' = toServer \o <<L, D>>
        BY <3>1, <3>3
      <4> QED
        BY <1>1, <3>3, <4>1, OneByOne
    <3> QED
      BY <3>2, <3>3
  <2>3. nextLock' \in Nat /\ nextLock \in 100 .. nextLock' - 1 /\ nextLock' >= 100
    BY <1>1, <2>1 DEF LocksNumbered
  <2>4. Numbered(toServer, nextLock')
    BY <1>1, <2>1 DEF Numbered
  <2>5. Numbered(s, nextLock')
    <3>1. UnlockMsg(lock.id).kind # "lock"
      BY DEF UnlockMsg
    <3> QED
      BY <2>3, <2>4, <3>1, NumberedMore
  <2> HIDE DEF s
  <2>6. Numbered(Append(s, L), nextLock')
    BY <2>3, <2>5, NumberedMore DEF LockMsg
  <2>7. Numbered(toServer', nextLock')
    <3>1. D.kind # "lock"
      BY DEF DataRequest
    <3> QED
      BY <2>2, <2>3, <2>6, <3>1, NumberedMore
  <2>8. LocksNumbered'
    <3>1. \A l \in held : l.id \in 100 .. nextLock' - 1
      BY <1>1, <2>1 DEF LocksNumbered
    <3> QED
      BY <2>1, <2>3, <2>7, <3>1 DEF LocksNumbered
  <2>9. ActiveHeld' = {}
    <3>1. \A l \in held : l.id # nextLock
      BY <1>1 DEF LocksNumbered
    <3> QED
      BY <2>1, <3>1 DEF ActiveHeld
  <2>10. desc'.files = << >>
    BY <2>1 DEF NoFiles
  <2>11. Lists(toClient', copies, desc', {}, up)
    BY <1>1, <2>1, <2>10, ListsReplaced
  <2> QED
    BY <2>1, <2>8, <2>9, <2>11 DEF Connected, ListsAnnounced, Down
<1>5. ASSUME UNCHANGED <<lock, nextLock, held, up>>, up \/ UNCHANGED vars,
             Numbered(toServer', nextLock), ListsAnnounced'
      PROVE  Connected'
  <2>1. LocksNumbered'
    BY <1>1, <1>5 DEF LocksNumbered
  <2>2. Down'
    BY <1>1, <1>5 DEF Down, vars
  <2> QED
    BY <1>5, <2>1, <2>2 DEF Connected
<1>6. CASE TextOffered
  <2>1. /\ up /\ UNCHANGED <<up, lock, nextLock, held, copies, desc>> /\ toClient # << >>
        /\ toClient' = Tail(toClient) /\ ~Head(toClient).files
    BY <1>6 DEF TextOffered, Receive, serverVars, Message
  <2>2. Head(toClient) # FileList
    BY <2>1 DEF FileList
  <2>3. Lists(toClient', copies, desc, ActiveHeld, up)
    BY <1>1, <2>1, <2>2, ListsTaken
  <2>4. toServer' = Append(toServer, DataRequest("text"))
    BY <1>1, <1>6, OneByOne DEF TextOffered, Post
  <2>5. DataRequest("text").kind # "lock"
    BY DEF DataRequest
  <2>6. Numbered(toServer', nextLock)
    BY <1>1, <2>4, <2>5, NumberedMore
  <2> QED
    BY <1>5, <2>1, <2>3, <2>6 DEF ListsAnnounced, ActiveHeld
<1>7. CASE DataAnswered
  <2>1. /\ up /\ UNCHANGED <<up, lock, nextLock, held, copies, toServer>> /\ toClient # << >>
        /\ toClient' = Tail(toClient) /\ Head(toClient).kind = "data"
        /\ \/ UNCHANGED desc
           \/ /\ Head(toClient).result = "ok"
              /\ desc' = [copy |-> Head(toClient).copy, files |-> Head(toClient).files]
    BY <1>7 DEF DataAnswered, Receive, serverVars, Message
  <2>2. Head(toClient) # FileList
    BY <2>1 DEF FileList
  <2>3. Lists(toClient', copies, desc', ActiveHeld, up)
    BY <1>1, <2>1, <2>2, ListsTaken, ListsTold
  <2> QED
    BY <1>1, <1>5, <2>1, <2>3 DEF ListsAnnounced, ActiveHeld
<1>8. CASE LateAnswer
  <2>1. /\ up /\ UNCHANGED <<up, lock, nextLock, held, copies, toServer, desc>> /\ toClient # << >>
        /\ toClient' = Tail(toClient) /\ Head(toClient).kind = "contents"
    BY <1>8 DEF LateAnswer, Receive, serverVars
  <2>2. Head(toClient) # FileList
    BY <2>1 DEF FileList
  <2>3. Lists(toClient', copies, desc, ActiveHeld, up)
    BY <1>1, <2>1, <2>2, ListsTaken
  <2> QED
    BY <1>1, <1>5, <2>1, <2>3 DEF ListsAnnounced, ActiveHeld
<1>9. CASE ChannelDisconnected
  <2>1. /\ up' = FALSE /\ ~pendingFgd' /\ ~lock'.active /\ dls' = << >> /\ ~downloading'
        /\ toServer' = << >> /\ toClient' = << >> /\ held' = {} /\ jobs' = {}
        /\ UNCHANGED <<copies, desc, nextLock>>
    BY <1>1, <1>9 DEF ChannelDisconnected, FreeDownloads
  <2>2. ActiveHeld' = {}
    BY <2>1 DEF ActiveHeld
  <2>3. Lists(<< >>, copies, desc, {}, FALSE)
    BY <1>1, ListsNone DEF Lists
  <2>4. LocksNumbered'
    BY <1>1, <2>1, NumberedNone DEF LocksNumbered
  <2> QED
    BY <2>1, <2>2, <2>3, <2>4 DEF Connected, Down, ListsAnnounced
<1>10. CASE StartConnection
  <2>1. /\ up' = TRUE /\ desc' = NoFiles /\ lock' = NoLock /\ nextLock' = 100
        /\ toServer' = << >> /\ toClient' = << >> /\ held' = {} /\ UNCHANGED copies
    BY <1>1, <1>10 DEF StartConnection, serverVars, Down
  <2>2. ActiveHeld' = {} /\ desc'.files = << >> /\ ~lock'.active
    BY <2>1 DEF ActiveHeld, NoFiles, NoLock
  <2>3. Lists(<< >>, copies, desc', {}, TRUE)
    BY <1>1, <2>2, ListsNone DEF Lists
  <2>4. LocksNumbered'
    BY <2>1, <2>2, NumberedNone DEF LocksNumbered
  <2> QED
    BY <2>1, <2>2, <2>3, <2>4 DEF Connected, Down, ListsAnnounced
<1>11. ASSUME NEW c \in Contents, Copy(c) PROVE Connected'
  <2>1. /\ up /\ UNCHANGED <<up, lock, nextLock, held, desc, toServer>>
        /\ copies' = Append(copies, c)
        /\ toClient' = Append(toClient, [kind |-> "list", files |-> c # << >>])
    BY <1>11 DEF Copy, clientVars
  <2>2. Lists(toClient', copies', desc, ActiveHeld, up)
    BY <1>1, <2>1, ListsCopied
  <2> QED
    BY <1>1, <1>5, <2>1, <2>2 DEF ListsAnnounced, ActiveHeld
<1>12. \A has : "empty" \notin Results(has)
  BY DEF Reliable, Results
<1>13. ASSUME NEW job \in jobs, AnswerContents(job) PROVE Connected'
  <2>1. /\ UNCHANGED <<up, lock, nextLock, held, desc, toServer, copies>>
        /\ \E m : /\ toClient' = Append(toClient, m)
                  /\ m.kind = "contents" /\ m.result # "empty"
    <3>1. UNCHANGED <<up, lock, nextLock, held, desc, toServer, copies>>
      BY <1>13 DEF AnswerContents, clientVars
    <3>2. \E has, stream, size, data : \E result \in Results(has) :
            toClient' = Append(toClient, [kind |-> "contents", stream |-> stream,
                                          result |-> result, size |-> size, data |-> data])
      <4> DEFINE r == job.request
                 files == copies[job.copy]
                 size == IF r.index \in DOMAIN files /\ files[r.index] # Dir THEN files[r.index] ELSE 0
                 readable == IF r.want < size - r.from THEN r.want ELSE size - r.from
                 has == r.index \in DOMAIN files /\ (r.want = 0 \/ readable > 0)
                 data(result, n) == IF r.want = 0 \/ result # "ok" THEN << >>
                                    ELSE Blocks(job.copy, r.index, r.from, n)
      <4>1. \E result \in Results(has) : \E n \in 1 .. (IF readable > 1 THEN readable ELSE 1) :
              toClient' = Append(toClient, [kind |-> "contents", stream |-> r.stream,
                                            result |-> result, size |-> size, data |-> data(result, n)])
        BY <1>13 DEF AnswerContents
      <4> HIDE DEF size, readable, has, data
      <4> QED
        BY <4>1
    <3> QED
      BY <1>12, <3>1, <3>2
  <2>2. PICK m : toClient' = Append(toClient, m) /\ m.kind = "contents" /\ m.result # "empty"
    BY <2>1
  <2>3. Lists(toClient', copies, desc, ActiveHeld, up)
    BY <1>1, <2>2, ListsAnswered DEF Described
  <2>4. up
    BY <1>1, <1>13 DEF Down
  <2> QED
    BY <1>1, <1>5, <2>1, <2>3, <2>4 DEF ListsAnnounced, ActiveHeld
<1>14. ASSUME NEW kind, Accept(kind)
       PROVE  /\ up /\ UNCHANGED <<up, lock, nextLock, desc, copies>> /\ copies # << >>
              /\ Numbered(toServer', nextLock)
  <2>1. toServer # << >> /\ toServer' = Tail(toServer) /\ UNCHANGED <<up, lock, nextLock, desc, copies>>
    BY <1>14 DEF Accept, clientVars
  <2>2. copies # << >>
    BY <2>1 DEF Typed, Silent
  <2> QED
    BY <1>1, <2>1, <2>2, NumberedFewer DEF Down
<1>15. CASE AcceptLock
  <2>1. /\ Accept("lock") /\ UNCHANGED toClient
        /\ held' = held \cup {[id |-> Request.id, copy |-> Len(copies)]}
    BY <1>15 DEF AcceptLock
  <2>2. Request.id \in 100 .. nextLock - 1
    <3>1. toServer # << >> /\ Head(toServer).kind = "lock"
      BY <2>1 DEF Accept
    <3>2. Head(toServer) = toServer[1] /\ 1 \in 1 .. Len(toServer)
      BY <1>1, <3>1, Shrinks
    <3> QED
      BY <1>1, <3>1, <3>2 DEF Numbered, Request
  <2> DEFINE l == [id |-> Request.id, copy |-> Len(copies)]
  <2>3. ActiveHeld' = ActiveHeld \/ ActiveHeld' = ActiveHeld \cup {l}
    BY <1>14, <2>1 DEF ActiveHeld
  <2>4. Lists(toClient, copies, desc, ActiveHeld', up)
    <3>1. l.copy = Len(copies)
      OBVIOUS
    <3> HIDE DEF l
    <3> QED
      BY <1>1, <1>14, <2>1, <2>3, <3>1, ListsLocked
  <2>5. LocksNumbered'
    <3>1. UNCHANGED <<lock, nextLock>> /\ Numbered(toServer', nextLock)
      BY <1>14, <2>1
    <3>2. \A k \in held' : k.id \in 100 .. nextLock - 1
      BY <1>1, <2>1, <2>2 DEF LocksNumbered
    <3> QED
      BY <1>1, <3>1, <3>2 DEF LocksNumbered
  <2> QED
    BY <1>14, <2>1, <2>4, <2>5 DEF Connected, Down, ListsAnnounced
<1>16. CASE AcceptUnlock
  <2>1. Accept("unlock") /\ UNCHANGED toClient /\ held' \subseteq held
    BY <1>16 DEF AcceptUnlock
  <2>2. ActiveHeld' \subseteq ActiveHeld
    BY <1>14, <2>1 DEF ActiveHeld
  <2>3. Lists(toClient, copies, desc, ActiveHeld', up)
    BY <1>1, <2>2, ListsFewer
  <2>4. LocksNumbered'
    <3>1. UNCHANGED <<lock, nextLock>> /\ Numbered(toServer', nextLock)
      BY <1>14, <2>1
    <3> QED
      BY <1>1, <2>1, <3>1 DEF LocksNumbered
  <2> QED
    BY <1>14, <2>1, <2>3, <2>4 DEF Connected, Down, ListsAnnounced
<1>17. CASE AcceptDataRequest
  <2>1. Accept("data") /\ UNCHANGED held
    BY <1>17 DEF AcceptDataRequest
  <2>2. PICK m : /\ toClient' = Append(toClient, m) /\ m.kind = "data" /\ m.result # "empty"
                 /\ m.files = Copied /\ m.copy = IF Copied = << >> THEN 0 ELSE Len(copies)
    BY <1>12, <1>17 DEF AcceptDataRequest
  <2>3. Described(m) => copies # << >> /\ m.copy = Len(copies) /\ m.files = copies[Len(copies)]
    BY <1>14, <2>1, <2>2 DEF Described, Copied
  <2>4. Lists(toClient', copies, desc, ActiveHeld, up)
    BY <1>1, <2>2, <2>3, ListsAnswered
  <2> QED
    BY <1>5, <1>14, <2>1, <2>4 DEF ListsAnnounced, ActiveHeld
<1>18. CASE AcceptContentsRequest
  <2>1. Accept("contents") /\ UNCHANGED <<held, toClient>>
    BY <1>18 DEF AcceptContentsRequest
  <2> QED
    BY <1>1, <1>5, <1>14, <2>1 DEF ListsAnnounced, ActiveHeld
<1>19. CASE UNCHANGED vars
  BY <1>1, <1>5, <1>19 DEF ListsAnnounced, ActiveHeld, vars
<1>20. ~ListNotAcknowledged
  BY <1>1 DEF ListNotAcknowledged
<1> QED
  BY <1>2, <1>3, <1>4, <1>6, <1>7, <1>8, <1>9, <1>10, <1>11, <1>13, <1>15, <1>16, <1>17,
     <1>18, <1>19, <1>20 DEF Next, EventLoop, Server

LEMMA ConnectedInit == Init => Connected
<1> SUFFICES ASSUME Init PROVE Connected
  OBVIOUS
<1>1. /\ up = TRUE /\ desc = NoFiles /\ lock = NoLock /\ nextLock = 100
      /\ toServer = << >> /\ toClient = << >> /\ held = {} /\ copies = << >>
  BY DEF Init
<1>2. ActiveHeld = {} /\ desc.files = << >> /\ ~lock.active
  BY <1>1 DEF ActiveHeld, NoFiles, NoLock
<1>3. << >> \in Seq({})
  OBVIOUS
<1>4. Lists(<< >>, copies, desc, {}, TRUE)
  BY <1>1, <1>2, <1>3, ListsNone DEF IsSequence
<1>5. LocksNumbered
  BY <1>1, <1>2, NumberedNone DEF LocksNumbered
<1> QED
  BY <1>1, <1>2, <1>4, <1>5 DEF Connected, Down, ListsAnnounced

-----------------------------------------------------------------------------
(* The queue: every entry holds the beginning of its file, the one that is *)
(* waited for has been asked for, and the requests and answers under way   *)
(* with its stream id are about what it lacks.                             *)

Holds(q, x) == \E i \in 1 .. Len(q) : q[i].kind = "contents" /\ q[i].stream = x
UnderWay(x, s, js, t) == Holds(s, x) \/ Holds(t, x) \/ \E job \in js : job.request.stream = x

EntryFits(cs, e, i) ==
  /\ e.copy \in 1 .. Len(cs) /\ i \in DOMAIN cs[e.copy]
  /\ e.dir <=> cs[e.copy][i] = Dir
  /\ e.data = Blocks(e.copy, i, 0, Len(e.data))
  /\ IF e.sized THEN ~e.dir /\ e.size = cs[e.copy][i] /\ Len(e.data) <= e.size ELSE e.data = << >>
  /\ e.outcome = "done" /\ ~e.dir => e.sized /\ Len(e.data) = e.size
QueueFits(cs, d) == \A i \in 1 .. Len(d) : EntryFits(cs, d[i], i)

Ready(e) == e.outcome = "none" /\ ~e.dir /\ (e.sized => e.open /\ Len(e.data) < e.size)
Fresh(e) == e.stream = 0 /\ ~e.sized /\ e.outcome = "none"
Passed(d, k, s, js, t) ==
  \A i \in 1 .. k - 1 : d[i].stream # 0 => ~UnderWay(d[i].stream, s, js, t)
Coming(d, k) == \A i \in 1 .. Len(d) : i > k => Fresh(d[i])

(* A request for what e, the k-th entry, lacks; a job that reads what it   *)
(* asks for, unless the queue is about to be dropped; and its answer.      *)
AskedFor(r, e, k, lk) ==
  r.stream = e.stream =>
    /\ r.index = k /\ r.from = Len(e.data)
    /\ r.want = IF e.sized THEN AskedRange(e) ELSE 0
    /\ r.lock = IF lk.active THEN lk.id ELSE 0
JobFits(job, e, cs, t) ==
  job.request.stream = e.stream => job.copy = e.copy \/ cs[job.copy] = << >> \/ Behind(t, 0)
AnswerFits(m, e, k, cs) ==
  m.stream = e.stream /\ m.result = "ok" =>
    IF e.sized THEN \E n \in 1 .. e.size - Len(e.data) : m.data = Blocks(e.copy, k, Len(e.data), n)
    ELSE m.size = cs[e.copy][k]

RequestsFit(s, e, k, lk) ==
  \A i \in 1 .. Len(s) : s[i].kind = "contents" => AskedFor(s[i], e, k, lk)
JobsFit(js, t, e, k, lk, cs) ==
  \A job \in js : /\ job.copy \in 1 .. Len(cs) /\ AskedFor(job.request, e, k, lk)
                  /\ JobFits(job, e, cs, t)
AnswersFit(t, e, k, cs) ==
  \A i \in 1 .. Len(t) : t[i].kind = "contents" /\ ~Ahead(t, i) => AnswerFits(t[i], e, k, cs)
Fits(s, js, t, e, k, lk, cs) ==
  RequestsFit(s, e, k, lk) /\ JobsFit(js, t, e, k, lk, cs) /\ AnswersFit(t, e, k, cs)

Downloads ==
  /\ QueueFits(copies, dls) /\ ~UnderWay(0, toServer, jobs, toClient)
  /\ downloading =>
       /\ Ready(dls[current + 1]) /\ dls[current + 1].stream # 0
       /\ Passed(dls, current + 1, toServer, jobs, toClient) /\ Coming(dls, current + 1)
       /\ Fits(toServer, jobs, toClient, dls[current + 1], current + 1, lock, copies)

(* Blocks of a file one after the other. *)
Joined(s, t) == s \o t

LEMMA BlocksJoin ==
  ASSUME NEW c, NEW i, NEW m \in Nat, NEW n \in Nat
  PROVE  /\ Joined(Blocks(c, i, 0, m), Blocks(c, i, m, n)) = Blocks(c, i, 0, m + n)
         /\ Len(Blocks(c, i, m, n)) = n
         /\ SubSeq(Blocks(c, i, m, n), 1, n) = Blocks(c, i, m, n)
<1> DEFINE S == {<<c, i, x>> : x \in Int}
<1>1. ASSUME NEW f \in Nat, NEW k \in Nat
      PROVE  /\ Blocks(c, i, f, k) \in Seq(S) /\ Len(Blocks(c, i, f, k)) = k
             /\ \A j \in 1 .. k : Blocks(c, i, f, k)[j] = <<c, i, f + j - 1>>
  <2>1. \A j \in 1 .. k : <<c, i, f + j - 1>> \in S
    OBVIOUS
  <2>2. Blocks(c, i, f, k) \in [1 .. k -> S]
    BY <2>1 DEF Blocks
  <2> HIDE DEF S
  <2>3. Blocks(c, i, f, k) \in Seq(S) /\ Len(Blocks(c, i, f, k)) = k
    BY <2>2
  <2> QED
    BY <2>3 DEF Blocks
<1> HIDE DEF S
<1> DEFINE a == Blocks(c, i, 0, m)
           b == Blocks(c, i, m, n)
           z == Blocks(c, i, 0, m + n)
<1>2. /\ a \in Seq(S) /\ Len(a) = m /\ \A j \in 1 .. m : a[j] = <<c, i, 0 + j - 1>>
      /\ b \in Seq(S) /\ Len(b) = n /\ \A j \in 1 .. n : b[j] = <<c, i, m + j - 1>>
      /\ z \in Seq(S) /\ Len(z) = m + n /\ \A j \in 1 .. m + n : z[j] = <<c, i, 0 + j - 1>>
  <2>1. 0 \in Nat /\ m + n \in Nat
    OBVIOUS
  <2> HIDE DEF a, b, z
  <2>2. a \in Seq(S) /\ Len(a) = m /\ \A j \in 1 .. m : a[j] = <<c, i, 0 + j - 1>>
    BY <1>1, <2>1 DEF a
  <2>3. b \in Seq(S) /\ Len(b) = n /\ \A j \in 1 .. n : b[j] = <<c, i, m + j - 1>>
    BY <1>1, <2>1 DEF b
  <2>4. z \in Seq(S) /\ Len(z) = m + n /\ \A j \in 1 .. m + n : z[j] = <<c, i, 0 + j - 1>>
    BY <1>1, <2>1 DEF z
  <2> QED
    BY <2>2, <2>3, <2>4
<1> HIDE DEF a, b, z
<1>3. a \o b = z
  <2>1. a \o b \in Seq(S) /\ Len(a \o b) = m + n
    <3>1. a \in Seq(S) /\ b \in Seq(S) /\ Len(a) = m /\ Len(b) = n
      BY <1>2
    <3> QED
      BY <3>1
  <2>2. ASSUME NEW j \in 1 .. m + n PROVE (a \o b)[j] = z[j]
    <3>1. CASE j <= m
      <4>1. j \in 1 .. m /\ (a \o b)[j] = a[j]
        BY <1>2, <3>1
      <4> QED
        BY <1>2, <4>1
    <3>2. CASE ~ (j <= m)
      <4>1. j - m \in 1 .. n /\ (a \o b)[j] = b[j - m]
        BY <1>2, <3>2
      <4>2. b[j - m] = <<c, i, m + (j - m) - 1>> /\ z[j] = <<c, i, 0 + j - 1>>
        BY <1>2, <4>1
      <4>3. m + (j - m) - 1 = 0 + j - 1
        OBVIOUS
      <4> QED
        BY <4>1, <4>2, <4>3
    <3> QED
      BY <3>1, <3>2
  <2>3. z \in Seq(S) /\ Len(z) = m + n
    BY <1>2
  <2>4. \A s \in Seq(S) : s = [j \in 1 .. Len(s) |-> s[j]]
    OBVIOUS
  <2>5. /\ a \o b = [j \in 1 .. m + n |-> (a \o b)[j]]
        /\ z = [j \in 1 .. m + n |-> z[j]]
    BY <2>1, <2>3, <2>4
  <2> DEFINE ab == a \o b
  <2> HIDE DEF ab
  <2>6. ab = [j \in 1 .. m + n |-> ab[j]] /\ \A j \in 1 .. m + n : ab[j] = z[j]
    BY <2>2, <2>5 DEF ab
  <2>7. ab = z
    BY <2>5, <2>6
  <2> QED
    BY <2>7 DEF ab
<1>4. SubSeq(b, 1, n) = b
  BY <1>2
<1> QED
  BY <1>2, <1>3, <1>4 DEF Joined, a, b, z

LEMMA NoBlocks == ASSUME NEW c, NEW i PROVE Blocks(c, i, 0, 0) = << >>
<1>1. 1 .. 0 = {}
  OBVIOUS
<1> QED
  BY <1>1 DEF Blocks

LEMMA StreamNow ==
  ASSUME env \in Environments, nextStream \in 1 .. env.streams
  PROVE  StreamAfter(0) = nextStream
<1>1. env.streams \in Nat \ {0} /\ nextStream - 1 \in 0 .. env.streams - 1
  BY EnvTyped
<1>2. (nextStream - 1) % env.streams = nextStream - 1
  BY <1>1
<1>3. nextStream - 1 + 0 = nextStream - 1
  BY <1>1
<1> QED
  BY <1>1, <1>2, <1>3 DEF StreamAfter

(* The next download is asked for, unless the queue ends.  Only            *)
(* directories are passed over.                                            *)
Reported(d, c, stop) ==
  [i \in DOMAIN d |-> IF i \in c + 1 .. stop /\ d[i].outcome = "none"
                      THEN [d[i] EXCEPT !.outcome = "done"] ELSE d[i]]
Wanted(k, e) == IF e.sized THEN RangeRequest(k, e, nextStream) ELSE SizeRequest(k, nextStream)
Asks(d, k) ==
  /\ dls' = [d EXCEPT ![k].stream = nextStream]
  /\ current' = k - 1 /\ downloading' = TRUE /\ nextStream' = StreamAfter(1) /\ UNCHANGED lock
  /\ toServer' = Append(toServer, Wanted(k, d[k]))
Stops(d, c, stop) ==
  /\ stop \in c .. Len(d)
  /\ \A i \in c + 1 .. stop : d[i].dir \/ d[i].outcome # "none"
  /\ stop # Len(d) => ~d[stop + 1].dir /\ d[stop + 1].outcome = "none"
  /\ IF stop = Len(d) THEN FinishDownloads(Reported(d, c, stop)) /\ UNCHANGED nextStream
     ELSE Asks(Reported(d, c, stop), stop + 1)

LEMMA StartDoes ==
  ASSUME ~MayFail, env \in Environments, nextStream \in 1 .. env.streams, IsSequence(toServer),
         NEW d \in Seq(Entries), NEW c \in 0 .. Len(d), StartNext(d, c)
  PROVE  \E stop : Stops(d, c, stop)
<1> DEFINE Over(skipped) == {i \in c + 1 .. Len(d) : d[i].dir \/ d[i].outcome # "none" \/ i \in skipped}
           Stop(skipped) == CHOOSE k \in c .. Len(d) :
                              c + 1 .. k \subseteq Over(skipped) /\ k + 1 \notin Over(skipped)
           Stream(skipped, i) == StreamAfter(Cardinality({j \in skipped : j < i}))
           Rep(skipped, stop) ==
             [i \in DOMAIN d |->
                IF i \notin c + 1 .. stop \/ d[i].outcome # "none" THEN d[i]
                ELSE IF d[i].dir THEN [d[i] EXCEPT !.outcome = "done"]
                ELSE [d[i] EXCEPT !.outcome = "error", !.stream = Stream(skipped, i)]]
           Next1(skipped, stop) ==
             /\ dls' = [Rep(skipped, stop) EXCEPT ![stop + 1].stream = Stream(skipped, stop + 1)]
             /\ current' = stop
             /\ nextStream' = StreamAfter(Cardinality(skipped) + 1)
             /\ IF d[stop + 1].sized
                THEN Post(<<RangeRequest(stop + 1, d[stop + 1], Stream(skipped, stop + 1))>>)
                ELSE toServer' = Append(toServer, SizeRequest(stop + 1, Stream(skipped, stop + 1)))
             /\ downloading' = TRUE /\ UNCHANGED lock
<1>1. PICK skipped : /\ skipped # {} => MayFail
                     /\ IF Stop(skipped) = Len(d)
                        THEN /\ FinishDownloads(Rep(skipped, Stop(skipped)))
                             /\ nextStream' = StreamAfter(Cardinality(skipped))
                        ELSE Next1(skipped, Stop(skipped))
  BY DEF StartNext
<1>2. skipped = {}
  BY <1>1
<1> DEFINE stop == Stop({})
           passed == Over({})
<1>3. /\ stop \in c .. Len(d)
      /\ c + 1 .. stop \subseteq passed /\ stop + 1 \notin passed
  <2>1. passed \in SUBSET (c + 1 .. Len(d)) /\ Len(d) \in Nat
    OBVIOUS
  <2>2. stop = CHOOSE k \in c .. Len(d) : c + 1 .. k \subseteq passed /\ k + 1 \notin passed
    OBVIOUS
  <2> HIDE DEF passed, stop
  <2>3. \E k \in c .. Len(d) : c + 1 .. k \subseteq passed /\ k + 1 \notin passed
    BY <2>1, StopExists
  <2> QED
    BY <2>2, <2>3
<1>4. ASSUME NEW i PROVE Stream({}, i) = nextStream
  <2>1. {j \in {} : j < i} = {}
    OBVIOUS
  <2>2. Cardinality({}) = 0
    BY FS_EmptySet
  <2>3. StreamAfter(0) = nextStream
    BY StreamNow
  <2> QED
    BY <2>1, <2>2, <2>3
<1>5. IF stop = Len(d)
      THEN FinishDownloads(Rep({}, stop)) /\ nextStream' = StreamAfter(Cardinality({}))
      ELSE Next1({}, stop)
  <2> HIDE DEF Stop, Rep, Next1
  <2> QED
    BY <1>1, <1>2
<1>6. \A i \in c + 1 .. stop : i \in DOMAIN d /\ (d[i].dir \/ d[i].outcome # "none")
  <2>1. \A i \in c + 1 .. stop : i \in passed
    BY <1>3
  <2> QED
    BY <2>1
<1>7. stop # Len(d) => /\ stop + 1 \in c + 1 .. Len(d) /\ ~d[stop + 1].dir
                       /\ d[stop + 1].outcome = "none"
  <2>1. stop # Len(d) => stop + 1 \in c + 1 .. Len(d)
    BY <1>3
  <2> QED
    BY <1>3, <2>1
<1> HIDE DEF stop, passed
<1>8. Rep({}, stop) = Reported(d, c, stop)
  <2>1. ASSUME NEW i \in DOMAIN d
        PROVE  (IF i \notin c + 1 .. stop \/ d[i].outcome # "none" THEN d[i]
                ELSE IF d[i].dir THEN [d[i] EXCEPT !.outcome = "done"]
                ELSE [d[i] EXCEPT !.outcome = "error", !.stream = Stream({}, i)])
               = IF i \in c + 1 .. stop /\ d[i].outcome = "none"
                 THEN [d[i] EXCEPT !.outcome = "done"] ELSE d[i]
    BY <1>6
  <2> QED
    BY <2>1 DEF Reported
<1> HIDE DEF Rep
<1>9. stop # Len(d) => Asks(Reported(d, c, stop), stop + 1)
  <2> SUFFICES ASSUME stop # Len(d) PROVE Asks(Reported(d, c, stop), stop + 1)
    OBVIOUS
  <2> DEFINE e == d[stop + 1]
             r == Reported(d, c, stop)
  <2>1. r[stop + 1] = e
    <3>1. stop + 1 \in DOMAIN d /\ stop + 1 \notin c + 1 .. stop
      BY <1>3, <1>7
    <3> QED
      BY <3>1 DEF Reported
  <2>2. /\ dls' = [r EXCEPT ![stop + 1].stream = nextStream]
        /\ current' = stop
        /\ nextStream' = StreamAfter(Cardinality({}) + 1)
        /\ IF e.sized
           THEN Post(<<RangeRequest(stop + 1, e, nextStream)>>)
           ELSE toServer' = Append(toServer, SizeRequest(stop + 1, nextStream))
        /\ downloading' = TRUE /\ UNCHANGED lock
    BY <1>4, <1>5, <1>8
  <2>3. current' = (stop + 1) - 1
    BY <1>3, <2>2
  <2> HIDE DEF e, r
  <2>4. toServer' = Append(toServer, Wanted(stop + 1, e))
    <3>1. CASE e.sized
      <4>1. Post(<<RangeRequest(stop + 1, e, nextStream)>>)
        BY <2>2, <3>1
      <4> QED
        BY <3>1, <4>1, OneByOne DEF Post, Wanted
    <3>2. CASE ~e.sized
      BY <2>2, <3>2 DEF Wanted
    <3> QED
      BY <3>1, <3>2
  <2>5. nextStream' = StreamAfter(1)
    <3>1. Cardinality({}) + 1 = 1
      BY FS_EmptySet
    <3> QED
      BY <2>2, <3>1
  <2>6. Asks(r, stop + 1)
    BY <2>1, <2>2, <2>3, <2>4, <2>5 DEF Asks
  <2> QED
    BY <2>6 DEF r
<1>10. stop = Len(d) => FinishDownloads(Reported(d, c, stop)) /\ UNCHANGED nextStream
  <2>1. StreamAfter(Cardinality({})) = nextStream
    BY StreamNow, FS_EmptySet
  <2> QED
    BY <1>5, <1>8, <2>1
<1>11. Stops(d, c, stop)
  BY <1>3, <1>6, <1>7, <1>9, <1>10 DEF Stops
<1> QED
  BY <1>11

(* What a step of the channel does to what is under way. *)
LEMMA HoldsMore ==
  ASSUME NEW s, IsSequence(s), NEW m, NEW x
  PROVE  Holds(Append(s, m), x) <=> Holds(s, x) \/ (m.kind = "contents" /\ m.stream = x)
<1>1. /\ Len(s) \in Nat /\ Len(Append(s, m)) = Len(s) + 1
      /\ \A i \in 1 .. Len(s) : Append(s, m)[i] = s[i]
      /\ Append(s, m)[Len(s) + 1] = m
  BY Grows
<1> DEFINE z == Append(s, m)
<1> HIDE DEF z
<1>2. /\ Len(s) \in Nat /\ Len(z) = Len(s) + 1 /\ z[Len(s) + 1] = m
      /\ \A i \in 1 .. Len(s) : z[i] = s[i]
  BY <1>1 DEF z
<1>3. ASSUME Holds(z, x) PROVE Holds(s, x) \/ (m.kind = "contents" /\ m.stream = x)
  <2>1. PICK i \in 1 .. Len(z) : z[i].kind = "contents" /\ z[i].stream = x
    BY <1>3 DEF Holds
  <2>2. i \in 1 .. Len(s) \/ i = Len(s) + 1
    BY <1>2, <2>1
  <2> QED
    BY <1>2, <2>1, <2>2 DEF Holds
<1>4. ASSUME Holds(s, x) PROVE Holds(z, x)
  <2>1. PICK i \in 1 .. Len(s) : s[i].kind = "contents" /\ s[i].stream = x
    BY <1>4 DEF Holds
  <2>2. i \in 1 .. Len(z) /\ z[i] = s[i]
    BY <1>2, <2>1
  <2> QED
    BY <2>1, <2>2 DEF Holds
<1>5. ASSUME m.kind = "contents", m.stream = x PROVE Holds(z, x)
  <2>1. Len(s) + 1 \in 1 .. Len(z)
    BY <1>2
  <2> QED
    BY <1>2, <1>5, <2>1 DEF Holds
<1> QED
  BY <1>3, <1>4, <1>5 DEF z

LEMMA HoldsFewer ==
  ASSUME NEW s, IsSequence(s), s # << >>, NEW x
  PROVE  /\ Holds(Tail(s), x) => Holds(s, x)
         /\ Head(s).kind = "contents" => Holds(s, Head(s).stream)
<1>1. /\ Len(s) \in Nat \ {0} /\ Head(s) = s[1] /\ Len(Tail(s)) = Len(s) - 1
      /\ \A i \in 1 .. Len(s) - 1 : Tail(s)[i] = s[i + 1]
  BY Shrinks
<1>2. ASSUME Holds(Tail(s), x) PROVE Holds(s, x)
  <2>1. PICK i \in 1 .. Len(Tail(s)) : Tail(s)[i].kind = "contents" /\ Tail(s)[i].stream = x
    BY <1>2 DEF Holds
  <2>2. i + 1 \in 1 .. Len(s) /\ Tail(s)[i] = s[i + 1]
    BY <1>1, <2>1
  <2> QED
    BY <2>1, <2>2 DEF Holds
<1>3. 1 \in 1 .. Len(s)
  BY <1>1
<1> QED
  BY <1>1, <1>2, <1>3 DEF Holds

LEMMA RequestsFitMore ==
  ASSUME NEW s, IsSequence(s), NEW m, NEW e, NEW k, NEW lk, RequestsFit(s, e, k, lk),
         m.kind = "contents" => AskedFor(m, e, k, lk)
  PROVE  RequestsFit(Append(s, m), e, k, lk)
<1> DEFINE z == Append(s, m)
<1>1. /\ Len(s) \in Nat /\ Len(z) = Len(s) + 1 /\ z[Len(s) + 1] = m
      /\ \A i \in 1 .. Len(s) : z[i] = s[i]
  BY Grows
<1> HIDE DEF z
<1>2. ASSUME NEW i \in 1 .. Len(z), z[i].kind = "contents" PROVE AskedFor(z[i], e, k, lk)
  <2>1. i \in 1 .. Len(s) \/ i = Len(s) + 1
    BY <1>1
  <2> QED
    BY <1>1, <1>2, <2>1 DEF RequestsFit
<1> QED
  BY <1>2 DEF RequestsFit, z

LEMMA RequestsFitFewer ==
  ASSUME NEW s, IsSequence(s), s # << >>, NEW e, NEW k, NEW lk, RequestsFit(s, e, k, lk)
  PROVE  /\ RequestsFit(Tail(s), e, k, lk)
         /\ Head(s).kind = "contents" => AskedFor(Head(s), e, k, lk)
<1>1. /\ Len(s) \in Nat \ {0} /\ Head(s) = s[1] /\ Len(Tail(s)) = Len(s) - 1
      /\ \A i \in 1 .. Len(s) - 1 : Tail(s)[i] = s[i + 1]
  BY Shrinks
<1>2. ASSUME NEW i \in 1 .. Len(Tail(s)), Tail(s)[i].kind = "contents"
      PROVE  AskedFor(Tail(s)[i], e, k, lk)
  <2>1. i + 1 \in 1 .. Len(s) /\ Tail(s)[i] = s[i + 1]
    BY <1>1
  <2> QED
    BY <1>2, <2>1 DEF RequestsFit
<1>3. 1 \in 1 .. Len(s)
  BY <1>1
<1> QED
  BY <1>1, <1>2, <1>3 DEF RequestsFit

LEMMA AnswersFitMore ==
  ASSUME NEW t, IsSequence(t), NEW m, NEW e, NEW k, NEW cs, AnswersFit(t, e, k, cs),
         m.kind = "contents" /\ ~Behind(t, 0) => AnswerFits(m, e, k, cs)
  PROVE  AnswersFit(Append(t, m), e, k, cs)
<1> DEFINE z == Append(t, m)
<1>1. /\ Len(t) \in Nat /\ Len(z) = Len(t) + 1
      /\ \A i \in 1 .. Len(t) : z[i] = t[i]
      /\ z[Len(z)] = m
      /\ \A i \in 1 .. Len(t) : Ahead(z, i) <=> Ahead(t, i)
      /\ Behind(t, 0) <=> Ahead(z, Len(z))
  BY AddedMeets
<1> HIDE DEF z
<1>2. ASSUME NEW i \in 1 .. Len(z), z[i].kind = "contents", ~Ahead(z, i)
      PROVE  AnswerFits(z[i], e, k, cs)
  <2>1. i \in 1 .. Len(t) \/ i = Len(z)
    BY <1>1
  <2> QED
    BY <1>1, <1>2, <2>1 DEF AnswersFit
<1> QED
  BY <1>2 DEF AnswersFit, z

LEMMA AnswersFitFewer ==
  ASSUME NEW t, IsSequence(t), t # << >>, Head(t) # FileList, NEW e, NEW k, NEW cs,
         AnswersFit(t, e, k, cs)
  PROVE  /\ AnswersFit(Tail(t), e, k, cs)
         /\ Head(t).kind = "contents" => AnswerFits(Head(t), e, k, cs)
<1>1. /\ Len(t) \in Nat \ {0} /\ Head(t) = t[1]
      /\ \A i \in 1 .. Len(Tail(t)) : i + 1 \in 1 .. Len(t) /\ Tail(t)[i] = t[i + 1]
      /\ \A i \in 1 .. Len(Tail(t)) : Ahead(t, i + 1) => Ahead(Tail(t), i)
  BY TakenMeets
<1>2. ASSUME NEW i \in 1 .. Len(Tail(t)), Tail(t)[i].kind = "contents", ~Ahead(Tail(t), i)
      PROVE  AnswerFits(Tail(t)[i], e, k, cs)
  BY <1>1, <1>2 DEF AnswersFit
<1>3. 1 \in 1 .. Len(t) /\ ~Ahead(t, 1)
  BY <1>1 DEF Ahead
<1> QED
  BY <1>1, <1>2, <1>3 DEF AnswersFit

(* Copies that were made stay. *)
Grown(cs, cs2) == \A n \in 1 .. Len(cs) : n \in 1 .. Len(cs2) /\ cs2[n] = cs[n]

LEMMA CopiesStay ==
  ASSUME NEW cs, NEW cs2, Grown(cs, cs2), NEW e, e.copy \in 1 .. Len(cs)
  PROVE  /\ \A i : EntryFits(cs, e, i) => EntryFits(cs2, e, i)
         /\ \A t, k : AnswersFit(t, e, k, cs) => AnswersFit(t, e, k, cs2)
         /\ \A js, t, t2, k, lk :
              JobsFit(js, t, e, k, lk, cs) /\ (Behind(t, 0) => Behind(t2, 0))
                => JobsFit(js, t2, e, k, lk, cs2)
  BY DEF Grown, EntryFits, AnswersFit, AnswerFits, JobsFit, JobFits

(* A step that leaves the queue alone and that brings nothing under way    *)
(* that was not, or that does not fit.                                     *)
LEMMA QueueWaits ==
  ASSUME Typed, Downloads, UNCHANGED <<dls, current, downloading, lock>>, Grown(copies, copies'),
         \A x : UnderWay(x, toServer', jobs', toClient') => UnderWay(x, toServer, jobs, toClient),
         downloading => Fits(toServer', jobs', toClient', dls[current + 1], current + 1, lock, copies')
  PROVE  Downloads'
<1>1. QueueFits(copies', dls)
  <2> SUFFICES ASSUME NEW i \in 1 .. Len(dls) PROVE EntryFits(copies', dls[i], i)
    BY DEF QueueFits
  <2>1. EntryFits(copies, dls[i], i)
    BY DEF Downloads, QueueFits
  <2>2. dls[i].copy \in 1 .. Len(copies)
    BY <2>1 DEF EntryFits
  <2> QED
    BY <2>1, <2>2, CopiesStay
<1>2. ~UnderWay(0, toServer', jobs', toClient')
  BY DEF Downloads
<1>3. downloading => Passed(dls, current + 1, toServer', jobs', toClient')
  BY DEF Downloads, Passed
<1> QED
  BY <1>1, <1>2, <1>3 DEF Downloads

(* The entry that is waited for. *)
LEMMA TheEntry ==
  ASSUME Typed, Downloads, downloading
  PROVE  LET k == current + 1 IN
         /\ k \in 1 .. Len(dls) /\ k \in Nat /\ dls[k] \in Entries
         /\ EntryFits(copies, dls[k], k) /\ dls[k].copy \in 1 .. Len(copies)
<1>1. current + 1 \in 1 .. Len(dls) /\ dls \in Seq(Entries) /\ current + 1 \in Nat
  BY DEF Typed, QueueTyped
<1>2. EntryFits(copies, dls[current + 1], current + 1)
  BY <1>1 DEF Downloads, QueueFits
<1> QED
  BY <1>1, <1>2 DEF EntryFits

(* A message that is no list of files and no answer to the queue. *)
LEMMA MessagePassed ==
  ASSUME Typed, Downloads, UNCHANGED <<dls, current, downloading, lock, copies, jobs>>,
         toClient # << >>, toClient' = Tail(toClient), Head(toClient) # FileList,
         \/ UNCHANGED toServer
         \/ \E m : toServer' = Append(toServer, m) /\ m.kind # "contents"
  PROVE  Downloads'
<1>1. IsSequence(toServer) /\ IsSequence(toClient)
  BY DEF Typed, IsSequence
<1>2. \A x : UnderWay(x, toServer', jobs', toClient') => UnderWay(x, toServer, jobs, toClient)
  <2>1. \A x : Holds(toServer', x) => Holds(toServer, x)
    BY <1>1, HoldsMore
  <2>2. \A x : Holds(toClient', x) => Holds(toClient, x)
    BY <1>1, HoldsFewer
  <2> QED
    BY <2>1, <2>2 DEF UnderWay
<1>3. Grown(copies, copies')
  BY DEF Grown
<1>4. ASSUME downloading
      PROVE  Fits(toServer', jobs', toClient', dls[current + 1], current + 1, lock, copies')
  <2> DEFINE k == current + 1
             e == dls[k]
  <2>1. Fits(toServer, jobs, toClient, e, k, lock, copies) /\ e.copy \in 1 .. Len(copies)
    BY <1>4, TheEntry DEF Downloads
  <2> HIDE DEF e, k
  <2>2. RequestsFit(toServer', e, k, lock)
    BY <1>1, <2>1, RequestsFitMore DEF Fits
  <2>3. AnswersFit(toClient', e, k, copies)
    BY <1>1, <2>1, AnswersFitFewer DEF Fits
  <2>4. Behind(toClient, 0) => Behind(toClient', 0)
    BY <1>1, TakenMeets
  <2>5. JobsFit(jobs, toClient', e, k, lock, copies)
    BY <2>1, <2>4 DEF Fits, JobsFit, JobFits
  <2>6. Fits(toServer', jobs', toClient', e, k, lock, copies')
    BY <2>2, <2>3, <2>5 DEF Fits
  <2> QED
    BY <2>6 DEF e, k
<1> QED
  BY <1>2, <1>3, <1>4, QueueWaits

LEMMA CopyWaits ==
  ASSUME Typed, Downloads, NEW c \in Contents, Copy(c)
  PROVE  Downloads'
<1> DEFINE m == [kind |-> "list", files |-> c # << >>]
<1>1. IsSequence(toServer) /\ IsSequence(toClient) /\ IsSequence(copies)
  BY DEF Typed, ServerTyped, IsSequence
<1>2. /\ UNCHANGED <<dls, current, downloading, lock, jobs, toServer>>
      /\ copies' = Append(copies, c) /\ toClient' = Append(toClient, m) /\ m.kind # "contents"
  BY DEF Copy, clientVars
<1> HIDE DEF m
<1>3. \A x : UnderWay(x, toServer', jobs', toClient') => UnderWay(x, toServer, jobs, toClient)
  BY <1>1, <1>2, HoldsMore DEF UnderWay
<1>4. Grown(copies, copies')
  <2>1. /\ Len(copies) \in Nat /\ Len(copies') = Len(copies) + 1
        /\ \A i \in 1 .. Len(copies) : copies'[i] = copies[i]
    BY <1>1, <1>2, Grows
  <2> QED
    BY <2>1 DEF Grown
<1>5. ASSUME downloading
      PROVE  Fits(toServer', jobs', toClient', dls[current + 1], current + 1, lock, copies')
  <2> DEFINE k == current + 1
             e == dls[k]
  <2>1. Fits(toServer, jobs, toClient, e, k, lock, copies) /\ e.copy \in 1 .. Len(copies)
    BY <1>5, TheEntry DEF Downloads
  <2> HIDE DEF e, k
  <2>2. AnswersFit(toClient', e, k, copies)
    BY <1>1, <1>2, <2>1, AnswersFitMore DEF Fits
  <2>3. Behind(toClient, 0) => Behind(toClient', 0)
    <3>1. 0 \in 0 .. Len(toClient)
      BY <1>1, Grows
    <3> QED
      BY <1>1, <1>2, <3>1, AddedMeets
  <2>4. JobsFit(jobs, toClient', e, k, lock, copies') /\ AnswersFit(toClient', e, k, copies')
    BY <1>4, <2>1, <2>2, <2>3, CopiesStay DEF Fits
  <2>5. Fits(toServer', jobs', toClient', e, k, lock, copies')
    BY <1>2, <2>1, <2>4 DEF Fits
  <2> QED
    BY <2>5 DEF e, k
<1> QED
  BY <1>2, <1>3, <1>4, <1>5, QueueWaits

(* The server takes a request for locks or for data. *)
LEMMA RequestPassed ==
  ASSUME Typed, Downloads, UNCHANGED <<dls, current, downloading, lock, copies, jobs>>,
         toServer # << >>, toServer' = Tail(toServer),
         \/ UNCHANGED toClient
         \/ \E m : toClient' = Append(toClient, m) /\ m.kind # "contents"
  PROVE  Downloads'
<1>1. IsSequence(toServer) /\ IsSequence(toClient)
  BY DEF Typed, IsSequence
<1>2. \A x : UnderWay(x, toServer', jobs', toClient') => UnderWay(x, toServer, jobs, toClient)
  <2>1. \A x : Holds(toServer', x) => Holds(toServer, x)
    BY <1>1, HoldsFewer
  <2>2. \A x : Holds(toClient', x) => Holds(toClient, x)
    BY <1>1, HoldsMore
  <2> QED
    BY <2>1, <2>2 DEF UnderWay
<1>3. Grown(copies, copies')
  BY DEF Grown
<1>4. ASSUME downloading
      PROVE  Fits(toServer', jobs', toClient', dls[current + 1], current + 1, lock, copies')
  <2> DEFINE k == current + 1
             e == dls[k]
  <2>1. Fits(toServer, jobs, toClient, e, k, lock, copies) /\ e.copy \in 1 .. Len(copies)
    BY <1>4, TheEntry DEF Downloads
  <2> HIDE DEF e, k
  <2>2. RequestsFit(toServer', e, k, lock)
    BY <1>1, <2>1, RequestsFitFewer DEF Fits
  <2>3. AnswersFit(toClient', e, k, copies)
    BY <1>1, <2>1, AnswersFitMore DEF Fits
  <2>4. Behind(toClient, 0) => Behind(toClient', 0)
    <3>1. 0 \in 0 .. Len(toClient)
      BY <1>1, Grows
    <3> QED
      BY <1>1, <3>1, AddedMeets
  <2>5. JobsFit(jobs, toClient', e, k, lock, copies)
    BY <2>1, <2>4 DEF Fits, JobsFit, JobFits
  <2>6. Fits(toServer', jobs', toClient', e, k, lock, copies')
    BY <2>2, <2>3, <2>5 DEF Fits
  <2> QED
    BY <2>6 DEF e, k
<1> QED
  BY <1>2, <1>3, <1>4, QueueWaits

(* The server takes a contents request: it reads the clipboard that the    *)
(* queue is about, or a later one that is announced behind this.           *)
LEMMA RequestTaken ==
  ASSUME Typed, Typed', Shown, Connected, Downloads, AcceptContentsRequest
  PROVE  Downloads'
<1> DEFINE cp == IF \E l \in held : l.id = Request.lock
                 THEN (CHOOSE l \in held : l.id = Request.lock).copy ELSE Len(copies)
           new == [request |-> Request, copy |-> cp]
<1>1. /\ IsSequence(toServer) /\ IsSequence(toClient) /\ IsSequence(copies)
  BY DEF Typed, ServerTyped, IsSequence
<1>2. /\ UNCHANGED <<dls, current, downloading, lock, copies, held, toClient, up, desc>>
      /\ toServer # << >> /\ toServer' = Tail(toServer) /\ Request.kind = "contents"
      /\ jobs' = jobs \cup {new}
  BY DEF AcceptContentsRequest, Accept, clientVars, Request
<1>3. new.request = Request /\ new.copy = cp
  OBVIOUS
<1> HIDE DEF new
<1>4. Holds(toServer, Request.stream)
  BY <1>1, <1>2, HoldsFewer DEF Request
<1>5. \A x : UnderWay(x, toServer', jobs', toClient') => UnderWay(x, toServer, jobs, toClient)
  <2> SUFFICES ASSUME NEW x, UnderWay(x, toServer', jobs', toClient')
               PROVE  UnderWay(x, toServer, jobs, toClient)
    OBVIOUS
  <2>1. Holds(toServer', x) => Holds(toServer, x)
    BY <1>1, <1>2, HoldsFewer
  <2>2. \A job \in jobs' : job \in jobs \/ job.request.stream = Request.stream
    BY <1>2, <1>3
  <2> QED
    BY <1>2, <1>4, <2>1, <2>2 DEF UnderWay
<1>6. Grown(copies, copies')
  BY <1>2 DEF Grown
<1>7. ASSUME downloading
      PROVE  Fits(toServer', jobs', toClient', dls[current + 1], current + 1, lock, copies')
  <2> DEFINE k == current + 1
             e == dls[k]
  <2>1. /\ Fits(toServer, jobs, toClient, e, k, lock, copies) /\ e.copy \in 1 .. Len(copies)
        /\ k \in 1 .. Len(dls)
    BY <1>7, TheEntry DEF Downloads
  <2>2. e.copy = desc.copy /\ desc.files # << >> /\ up
    <3>1. DOMAIN dls = 1 .. Len(dls) /\ Len(dls) \in Nat /\ up \in BOOLEAN
      BY DEF Typed, QueueTyped, DescTyped
    <3>2. Len(dls) = Len(desc.files) /\ e.copy = desc.copy /\ up
      BY <1>7, <2>1, <3>1 DEF Shown, Waiting, DownloadOfTheListShown
    <3> QED
      BY <2>1, <3>1, <3>2
  <2>3. AskedFor(Request, e, k, lock) /\ RequestsFit(toServer', e, k, lock)
    BY <1>1, <1>2, <2>1, RequestsFitFewer DEF Fits, Request
  <2>4. new.copy \in 1 .. Len(copies)
    <3>1. new \in jobs'
      BY <1>2
    <3> QED
      BY <1>2, <3>1 DEF Typed, ServerTyped
  <2> HIDE DEF e, k
  <2>5. ASSUME Request.stream = e.stream PROVE desc.copy <= cp
    <3>1. /\ Lists(toClient, copies, desc, ActiveHeld, up)
          /\ \A l \in held : l.id \in 100 .. nextLock - 1
          /\ lock.active => lock.id \in Nat
      BY DEF Connected, ListsAnnounced, LocksNumbered, Typed, LockTyped
    <3>2. CASE \E l \in held : l.id = Request.lock
      <4>1. PICK l \in held : l.id = Request.lock /\ cp = l.copy
        BY <3>2
      <4>2. l \in ActiveHeld
        BY <2>3, <2>5, <3>1, <4>1 DEF AskedFor, ActiveHeld
      <4> QED
        BY <2>2, <3>1, <4>1, <4>2 DEF Lists
    <3>3. CASE ~ \E l \in held : l.id = Request.lock
      <4>1. desc.copy \in 1 .. Len(copies) /\ cp = Len(copies)
        BY <2>2, <3>1, <3>3 DEF Lists
      <4> QED
        BY <1>1, <4>1, Grows
    <3> QED
      BY <3>2, <3>3
  <2> HIDE DEF cp
  <2>6. JobFits(new, e, copies, toClient)
    <3> SUFFICES ASSUME new.request.stream = e.stream, new.copy # e.copy,
                        copies[new.copy] # << >>
                 PROVE  Behind(toClient, 0)
      BY DEF JobFits
    <3>1. desc.copy < new.copy /\ desc.copy \in Nat
      BY <1>3, <2>1, <2>2, <2>4, <2>5
    <3>2. Newer(copies, desc.copy)
      BY <2>4, <3>1 DEF Newer
    <3> QED
      BY <2>2, <3>2 DEF Connected, ListsAnnounced, Lists
  <2>7. JobsFit(jobs', toClient, e, k, lock, copies)
    BY <1>2, <1>3, <2>1, <2>3, <2>4, <2>6 DEF Fits, JobsFit
  <2>8. Fits(toServer', jobs', toClient', e, k, lock, copies')
    BY <1>2, <2>1, <2>3, <2>7 DEF Fits
  <2> QED
    BY <2>8 DEF e, k
<1> QED
  BY <1>2, <1>5, <1>6, <1>7, QueueWaits

(* The server answers a contents request. *)
LEMMA JobAnswered ==
  ASSUME Typed, Reliable, Downloads, NEW job \in jobs, AnswerContents(job)
  PROVE  Downloads'
<1> DEFINE r == job.request
           files == copies[job.copy]
           size == IF r.index \in DOMAIN files /\ files[r.index] # Dir THEN files[r.index] ELSE 0
           readable == IF r.want < size - r.from THEN r.want ELSE size - r.from
           has == r.index \in DOMAIN files /\ (r.want = 0 \/ readable > 0)
           data(result, n) == IF r.want = 0 \/ result # "ok" THEN << >>
                              ELSE Blocks(job.copy, r.index, r.from, n)
<1>1. \E result \in Results(has) : \E n \in 1 .. (IF readable > 1 THEN readable ELSE 1) :
        toClient' = Append(toClient, [kind |-> "contents", stream |-> r.stream,
                                      result |-> result, size |-> size, data |-> data(result, n)])
  BY DEF AnswerContents
<1>2. /\ UNCHANGED <<dls, current, downloading, lock, copies, toServer>>
      /\ jobs' = jobs \ {job}
  BY DEF AnswerContents, clientVars
<1>3. IsSequence(toServer) /\ IsSequence(toClient)
  BY DEF Typed, IsSequence
<1> HIDE DEF data, has, readable, size
<1>4. PICK result \in Results(has), n \in 1 .. (IF readable > 1 THEN readable ELSE 1) :
        toClient' = Append(toClient, [kind |-> "contents", stream |-> r.stream,
                                      result |-> result, size |-> size, data |-> data(result, n)])
  BY <1>1
<1> DEFINE m == [kind |-> "contents", stream |-> r.stream,
                 result |-> result, size |-> size, data |-> data(result, n)]
<1>5. /\ toClient' = Append(toClient, m) /\ m.kind = "contents" /\ m.stream = r.stream
      /\ m.result = result /\ m.size = size /\ m.data = data(result, n)
  BY <1>4
<1> HIDE DEF m
<1>6. \A x : UnderWay(x, toServer', jobs', toClient') => UnderWay(x, toServer, jobs, toClient)
  <2> SUFFICES ASSUME NEW x, UnderWay(x, toServer', jobs', toClient')
               PROVE  UnderWay(x, toServer, jobs, toClient)
    OBVIOUS
  <2>1. Holds(toClient', x) => Holds(toClient, x) \/ r.stream = x
    BY <1>3, <1>5, HoldsMore
  <2> QED
    BY <1>2, <2>1 DEF UnderWay
<1>7. Grown(copies, copies')
  BY <1>2 DEF Grown
<1>8. ASSUME downloading
      PROVE  Fits(toServer', jobs', toClient', dls[current + 1], current + 1, lock, copies')
  <2> DEFINE k == current + 1
             e == dls[k]
  <2>1. /\ Fits(toServer, jobs, toClient, e, k, lock, copies)
        /\ k \in 1 .. Len(dls) /\ e \in Entries /\ Ready(e)
        /\ EntryFits(copies, e, k) /\ e.copy \in 1 .. Len(copies)
    BY <1>8, TheEntry DEF Downloads
  <2> HIDE DEF e, k
  <2>2. AskedFor(r, e, k, lock) /\ JobFits(job, e, copies, toClient)
    BY <2>1 DEF Fits, JobsFit
  <2>3. ASSUME ~Behind(toClient, 0) PROVE AnswerFits(m, e, k, copies)
    <3> SUFFICES ASSUME r.stream = e.stream, result = "ok"
                 PROVE  IF e.sized
                        THEN \E j \in 1 .. e.size - Len(e.data) :
                               m.data = Blocks(e.copy, k, Len(e.data), j)
                        ELSE m.size = copies[e.copy][k]
      BY <1>5 DEF AnswerFits
    <3>1. has
      BY <1>4 DEF Results
    <3>2. r.index \in DOMAIN files /\ (r.want = 0 \/ readable > 0)
      BY <3>1 DEF has
    <3>3. files # << >>
      BY <3>2
    <3>4. job.copy = e.copy
      BY <2>2, <2>3, <3>3 DEF JobFits
    <3>5. r.index = k /\ r.from = Len(e.data) /\ r.want = IF e.sized THEN AskedRange(e) ELSE 0
      BY <2>2 DEF AskedFor
    <3>6. size = copies[e.copy][k]
      BY <2>1, <3>2, <3>4, <3>5 DEF size, Ready, EntryFits
    <3>7. CASE ~e.sized
      BY <1>5, <3>6, <3>7
    <3>8. CASE e.sized
      <4> DEFINE got == Len(e.data)
      <4>1. got \in Nat /\ e.size \in Nat /\ AskedRange(e) \in Int
        BY <2>1, AskedTyped DEF Entries
      <4>2. size = e.size /\ got < e.size
        BY <2>1, <3>6, <3>8 DEF EntryFits, Ready
      <4>3. AskedRange(e) = IF e.size - got > Chunk THEN Chunk ELSE e.size - got
        BY DEF AskedRange, Left
      <4>4. r.want # 0 /\ r.want <= e.size - got /\ r.want \in Int
        BY <3>5, <3>8, <4>1, <4>2, <4>3, ChunkAssumption
      <4> HIDE DEF got
      <4>5. readable = r.want /\ readable > 0
        BY <3>2, <3>5, <4>1, <4>2, <4>4 DEF readable, got
      <4>6. n \in 1 .. e.size - got
        BY <1>4, <4>1, <4>4, <4>5
      <4>7. m.data = Blocks(e.copy, k, got, n)
        BY <1>5, <3>4, <3>5, <4>4 DEF data, got
      <4> QED
        BY <3>8, <4>6, <4>7 DEF got
    <3> QED
      BY <3>7, <3>8
  <2>4. AnswersFit(toClient', e, k, copies)
    BY <1>3, <1>5, <2>1, <2>3, AnswersFitMore DEF Fits
  <2>5. Behind(toClient, 0) => Behind(toClient', 0)
    <3>1. 0 \in 0 .. Len(toClient)
      BY <1>3, Grows
    <3> QED
      BY <1>3, <1>5, <3>1, AddedMeets
  <2>6. JobsFit(jobs', toClient', e, k, lock, copies)
    BY <1>2, <2>1, <2>5 DEF Fits, JobsFit, JobFits
  <2>7. Fits(toServer', jobs', toClient', e, k, lock, copies')
    BY <1>2, <2>1, <2>4, <2>6 DEF Fits
  <2> QED
    BY <2>7 DEF e, k
<1> QED
  BY <1>2, <1>6, <1>7, <1>8, QueueWaits

(* The next entry is asked for, under a stream id that nothing under way   *)
(* and no other entry has.                                                 *)
LEMMA AskKeeps ==
  ASSUME Typed, Typed', StreamsApart', UNCHANGED <<copies, jobs>>,
         NEW d \in Seq(Entries), NEW k \in 1 .. Len(d), Asks(d, k),
         QueueFits(copies, d), Ready(d[k]), Coming(d, k),
         Passed(d, k, toServer, jobs, toClient'), ~UnderWay(0, toServer, jobs, toClient')
  PROVE  Downloads'
<1> DEFINE e == dls'[k]
           w == Wanted(k, d[k])
<1>1. /\ dls' = [d EXCEPT ![k].stream = nextStream] /\ current' = k - 1
      /\ UNCHANGED lock /\ toServer' = Append(toServer, w)
  BY DEF Asks
<1>2. /\ IsSequence(toServer) /\ IsSequence(toClient') /\ nextStream \in 1 .. env.streams
      /\ DOMAIN toServer' = 1 .. Len(toServer') /\ DOMAIN toClient' = 1 .. Len(toClient')
      /\ DOMAIN d = 1 .. Len(d) /\ DOMAIN dls' = 1 .. Len(dls') /\ Len(d) \in Nat
  BY DEF Typed, QueueTyped, IsSequence
<1>3. nextStream # 0 /\ k \in Nat /\ current' + 1 = k
  BY <1>1, <1>2
<1>4. /\ Len(dls') = Len(d) /\ e = [d[k] EXCEPT !.stream = nextStream]
      /\ \A i \in 1 .. Len(d) : i # k => dls'[i] = d[i]
  BY <1>1, <1>2
<1>5. d[k] \in Entries /\ k \in DOMAIN d
  BY <1>2
<1> HIDE DEF e, w
<1>6. /\ e.stream = nextStream /\ e.dir = d[k].dir /\ e.copy = d[k].copy /\ e.size = d[k].size
      /\ e.sized = d[k].sized /\ e.data = d[k].data /\ e.outcome = d[k].outcome
      /\ e.open = d[k].open
  BY <1>4, <1>5 DEF Entries
<1>7. EntryFits(copies, e, k) /\ Ready(e)
  BY <1>6 DEF QueueFits, EntryFits, Ready
<1>8. QueueFits(copies, dls')
  BY <1>4, <1>7 DEF QueueFits, e
<1>9. /\ w.kind = "contents" /\ w.stream = nextStream /\ AskedFor(w, e, k, lock)
  <2>1. ~e.sized => Len(e.data) = 0
    BY <1>7 DEF EntryFits
  <2>2. AskedRange(d[k]) = AskedRange(e)
    BY <1>6 DEF AskedRange, Left
  <2>3. w = ContentsRequest(k, nextStream, Len(e.data), IF e.sized THEN AskedRange(e) ELSE 0)
    BY <1>6, <2>1, <2>2 DEF w, Wanted, RangeRequest, SizeRequest
  <2> QED
    BY <2>3 DEF ContentsRequest, AskedFor
<1>10. /\ Len(toServer) \in Nat /\ Len(toServer') = Len(toServer) + 1
       /\ toServer'[Len(toServer) + 1] = w
       /\ \A i \in 1 .. Len(toServer) : toServer'[i] = toServer[i]
  BY <1>1, <1>2, Grows
<1>11. \A i \in 1 .. Len(toServer) : toServer[i].kind = "contents" => toServer[i].stream # nextStream
  <2> SUFFICES ASSUME NEW i \in 1 .. Len(toServer), toServer[i].kind = "contents"
               PROVE  toServer[i].stream # nextStream
    OBVIOUS
  <2> DEFINE n == Len(toServer) + 1
  <2>1. i \in Asked' /\ n \in Asked' /\ i # n
    BY <1>2, <1>9, <1>10 DEF Asked
  <2>2. toServer'[i].stream # toServer'[n].stream
    BY <2>1 DEF StreamsApart
  <2> QED
    BY <1>9, <1>10, <2>2
<1>12. /\ \A job \in jobs : job.request.stream # nextStream
       /\ \A i \in 1 .. Len(toClient') : toClient'[i].kind = "contents" => toClient'[i].stream # nextStream
  <2> DEFINE n == Len(toServer) + 1
  <2>1. n \in Asked' /\ toServer'[n].stream = nextStream
    BY <1>2, <1>9, <1>10 DEF Asked
  <2>2. \A i \in 1 .. Len(toClient') : toClient'[i].kind = "contents" => i \in Answered'
    BY <1>2 DEF Answered
  <2> QED
    BY <2>1, <2>2 DEF StreamsApart
<1>13. \A i \in 1 .. Len(d) : i # k => d[i].stream # nextStream
  <2>1. \A i \in 1 .. Len(d) : i # k => dls'[k].stream # dls'[i].stream
    <3>1. \A i, j \in DOMAIN dls' : i # j /\ dls'[i].stream # 0 => dls'[i].stream # dls'[j].stream
      BY DEF StreamsApart
    <3>2. dls'[k].stream # 0
      BY <1>3, <1>6 DEF e
    <3> QED
      BY <1>2, <1>4, <3>1, <3>2
  <2> QED
    BY <1>4, <1>6, <2>1 DEF e
<1>14. Fits(toServer', jobs, toClient', e, k, lock, copies)
  <2>1. RequestsFit(toServer, e, k, lock)
    BY <1>6, <1>11 DEF RequestsFit, AskedFor
  <2>2. RequestsFit(toServer', e, k, lock)
    BY <1>1, <1>2, <1>9, <2>1, RequestsFitMore
  <2>3. JobsFit(jobs, toClient', e, k, lock, copies)
    BY <1>6, <1>12 DEF JobsFit, JobFits, AskedFor, Typed, ServerTyped
  <2>4. AnswersFit(toClient', e, k, copies)
    BY <1>6, <1>12 DEF AnswersFit, AnswerFits
  <2> QED
    BY <2>2, <2>3, <2>4 DEF Fits
<1>15. \A x : UnderWay(x, toServer', jobs, toClient')
               => UnderWay(x, toServer, jobs, toClient') \/ x = nextStream
  <2>1. \A x : Holds(toServer', x) => Holds(toServer, x) \/ x = nextStream
    BY <1>1, <1>2, <1>9, HoldsMore
  <2> QED
    BY <2>1 DEF UnderWay
<1>16. Passed(dls', k, toServer', jobs, toClient')
  <2> SUFFICES ASSUME NEW i \in 1 .. k - 1, dls'[i].stream # 0
               PROVE  ~UnderWay(dls'[i].stream, toServer', jobs, toClient')
    BY DEF Passed
  <2>1. i \in 1 .. Len(d) /\ i # k
    BY <1>2
  <2>2. dls'[i].stream = d[i].stream /\ d[i].stream # nextStream
    BY <1>4, <1>13, <2>1
  <2> QED
    BY <1>15, <2>2 DEF Passed
<1>17. Coming(dls', k)
  <2>1. \A i \in 1 .. Len(d) : i > k => dls'[i] = d[i]
    BY <1>4
  <2> QED
    BY <1>4, <2>1 DEF Coming
<1>18. ~UnderWay(0, toServer', jobs, toClient')
  BY <1>3, <1>15
<1> QED
  BY <1>1, <1>3, <1>6, <1>7, <1>8, <1>14, <1>16, <1>17, <1>18 DEF Downloads, e

(* What is reported on the way to the next entry are directories. *)
LEMMA ReportedFits ==
  ASSUME NEW d \in Seq(Entries), NEW c \in 0 .. Len(d), NEW stop \in c .. Len(d),
         \A i \in c + 1 .. stop : d[i].dir \/ d[i].outcome # "none",
         NEW cs, QueueFits(cs, d)
  PROVE  LET r == Reported(d, c, stop) IN
         /\ r \in Seq(Entries) /\ Len(r) = Len(d) /\ QueueFits(cs, r)
         /\ \A i \in 1 .. Len(d) : r[i].stream = d[i].stream /\ (i \notin c + 1 .. stop => r[i] = d[i])
<1> DEFINE r == Reported(d, c, stop)
<1>1. DOMAIN d = 1 .. Len(d) /\ Len(d) \in Nat
  OBVIOUS
<1>2. /\ r = [i \in 1 .. Len(d) |-> r[i]]
      /\ \A i \in 1 .. Len(d) :
           r[i] = IF i \in c + 1 .. stop /\ d[i].outcome = "none"
                  THEN [d[i] EXCEPT !.outcome = "done"] ELSE d[i]
  BY <1>1 DEF Reported
<1> HIDE DEF r
<1>3. ASSUME NEW i \in 1 .. Len(d)
      PROVE  /\ r[i] \in Entries /\ EntryFits(cs, r[i], i) /\ r[i].stream = d[i].stream
             /\ i \notin c + 1 .. stop => r[i] = d[i]
  <2>1. d[i] \in Entries /\ EntryFits(cs, d[i], i)
    BY <1>1 DEF QueueFits
  <2>2. CASE i \in c + 1 .. stop /\ d[i].outcome = "none"
    <3> DEFINE e == [d[i] EXCEPT !.outcome = "done"]
    <3>1. d[i].dir /\ r[i] = e
      BY <1>2, <2>2
    <3>2. /\ e \in Entries /\ e.copy = d[i].copy /\ e.dir = d[i].dir /\ e.data = d[i].data
          /\ e.sized = d[i].sized /\ e.size = d[i].size /\ e.stream = d[i].stream
      BY <2>1 DEF Entries
    <3> HIDE DEF e
    <3>3. EntryFits(cs, e, i)
      BY <2>1, <3>1, <3>2 DEF EntryFits
    <3> QED
      BY <2>2, <3>1, <3>2, <3>3
  <2>3. CASE ~(i \in c + 1 .. stop /\ d[i].outcome = "none")
    BY <1>2, <2>1, <2>3
  <2> QED
    BY <2>2, <2>3
<1>4. r \in [1 .. Len(d) -> Entries]
  BY <1>2, <1>3
<1>5. r \in Seq(Entries) /\ Len(r) = Len(d)
  BY <1>1, <1>4
<1>6. QueueFits(cs, r)
  BY <1>3, <1>5 DEF QueueFits
<1> QED
  BY <1>3, <1>5, <1>6 DEF r

(* The queue goes on from position c. *)
LEMMA QueueGoesOn ==
  ASSUME Typed, Typed', Reliable, StreamsApart', UNCHANGED <<copies, jobs>>,
         NEW d \in Seq(Entries), NEW c \in 0 .. Len(d), StartNext(d, c), QueueFits(copies, d),
         \A i \in 1 .. Len(d) : i > c /\ d[i].outcome = "none" /\ ~d[i].dir =>
           Ready(d[i]) /\ Coming(d, i) /\ Passed(d, i, toServer, jobs, toClient'),
         ~UnderWay(0, toServer, jobs, toClient')
  PROVE  Downloads'
<1>1. ~MayFail /\ env \in Environments /\ nextStream \in 1 .. env.streams /\ IsSequence(toServer)
  BY DEF Reliable, MayFail, Typed, QueueTyped, IsSequence
<1>2. PICK stop : Stops(d, c, stop)
  BY <1>1, StartDoes
<1> DEFINE r == Reported(d, c, stop)
<1>3. /\ stop \in c .. Len(d)
      /\ r \in Seq(Entries) /\ Len(r) = Len(d) /\ QueueFits(copies, r)
      /\ \A i \in 1 .. Len(d) : r[i].stream = d[i].stream /\ (i \notin c + 1 .. stop => r[i] = d[i])
  BY <1>2, ReportedFits DEF Stops
<1>4. Len(d) \in Nat
  OBVIOUS
<1>5. CASE stop = Len(d)
  <2>1. FinishDownloads(r)
    BY <1>2, <1>5 DEF Stops
  <2> HIDE DEF r
  <2>2. dls' = r /\ downloading' = FALSE
    BY <2>1 DEF FinishDownloads
  <2>3. toServer' = toServer \/ toServer' = Append(toServer, UnlockMsg(lock.id))
    BY <1>1, <2>1, OneByOne DEF FinishDownloads, Post
  <2>4. ~UnderWay(0, toServer', jobs, toClient')
    <3>1. UnlockMsg(lock.id).kind # "contents"
      BY DEF UnlockMsg
    <3>2. Holds(toServer', 0) => Holds(toServer, 0)
      BY <1>1, <2>3, <3>1, HoldsMore
    <3> QED
      BY <3>2 DEF UnderWay
  <2> QED
    BY <1>3, <2>2, <2>4 DEF Downloads
<1>6. CASE stop # Len(d)
  <2> DEFINE k == stop + 1
  <2>1. /\ Asks(r, k) /\ k \in 1 .. Len(r) /\ k > c /\ k \notin c + 1 .. stop
        /\ ~d[k].dir /\ d[k].outcome = "none"
    BY <1>2, <1>3, <1>4, <1>6 DEF Stops
  <2> HIDE DEF r, k
  <2>2. r[k] = d[k] /\ Ready(d[k]) /\ Coming(d, k) /\ Passed(d, k, toServer, jobs, toClient')
    BY <1>3, <2>1
  <2>3. Coming(r, k)
    <3>1. \A i \in 1 .. Len(r) : i > k => i \notin c + 1 .. stop
      BY <1>3, <1>4 DEF k
    <3> QED
      BY <1>3, <2>2, <3>1 DEF Coming
  <2>4. Passed(r, k, toServer, jobs, toClient')
    <3>1. \A i \in 1 .. k - 1 : i \in 1 .. Len(d)
      BY <1>3, <1>4, <2>1
    <3> QED
      BY <1>3, <2>2, <3>1 DEF Passed
  <2> QED
    BY <1>3, <2>1, <2>2, <2>3, <2>4, AskKeeps
<1> QED
  BY <1>5, <1>6

(* A new queue is asked for. *)
LEMMA DownloadRequested ==
  ASSUME Typed, Typed', Reliable, StreamsApart', Connected, Downloads, RequestDownload
  PROVE  Downloads'
<1> DEFINE d == [i \in DOMAIN desc.files |-> Entry(desc, i)]
<1>1. /\ d \in Seq(Entries) /\ Len(d) = Len(desc.files) /\ DescTyped
      /\ StartNext(d, 0) /\ UNCHANGED <<copies, jobs, toClient>> /\ desc.files # << >>
  BY QueueMade DEF Typed, RequestDownload, serverVars
<1>2. DOMAIN desc.files = 1 .. Len(d) /\ Len(d) \in Nat
  BY <1>1 DEF DescTyped
<1>3. ASSUME NEW i \in 1 .. Len(d)
      PROVE  /\ d[i].dir = (desc.files[i] = Dir) /\ d[i].copy = desc.copy /\ ~d[i].sized
             /\ d[i].data = << >> /\ d[i].stream = 0 /\ d[i].outcome = "none"
  BY <1>2 DEF Entry
<1> HIDE DEF d
<1>4. desc.copy \in 1 .. Len(copies) /\ desc.files = copies[desc.copy]
  BY <1>1 DEF Connected, ListsAnnounced, Lists
<1>5. QueueFits(copies, d)
  <2> SUFFICES ASSUME NEW i \in 1 .. Len(d) PROVE EntryFits(copies, d[i], i)
    BY DEF QueueFits
  <2>1. Len(d[i].data) = 0 /\ d[i].data = Blocks(d[i].copy, i, 0, 0)
    BY <1>3, NoBlocks
  <2>2. /\ d[i].copy \in 1 .. Len(copies) /\ i \in DOMAIN copies[d[i].copy]
        /\ d[i].dir <=> copies[d[i].copy][i] = Dir
    <3>1. i \in DOMAIN desc.files /\ copies[d[i].copy] = desc.files
      BY <1>2, <1>3, <1>4
    <3> QED
      BY <1>3, <1>4, <3>1
  <2>3. d[i].data = Blocks(d[i].copy, i, 0, Len(d[i].data)) /\ d[i].data = << >>
    BY <1>3, <2>1
  <2>4. ~d[i].sized /\ d[i].outcome # "done"
    BY <1>3
  <2> QED
    BY <2>2, <2>3, <2>4 DEF EntryFits
<1>6. \A i \in 1 .. Len(d) : Fresh(d[i])
  BY <1>3 DEF Fresh
<1>7. ASSUME NEW i \in 1 .. Len(d), ~d[i].dir
      PROVE  Ready(d[i]) /\ Coming(d, i) /\ Passed(d, i, toServer, jobs, toClient')
  <2>1. \A j \in 1 .. i - 1 : j \in 1 .. Len(d)
    BY <1>2
  <2> QED
    BY <1>3, <1>6, <1>7, <2>1 DEF Ready, Coming, Passed
<1>8. ~UnderWay(0, toServer, jobs, toClient')
  BY <1>1 DEF Downloads
<1>9. 0 \in 0 .. Len(d)
  BY <1>2
<1> QED
  BY <1>1, <1>5, <1>7, <1>8, <1>9, QueueGoesOn

(* An answer is taken: it belongs to the entry that is waited for, and its *)
(* stream id is under way no more.                                         *)
Taken(k) ==
  /\ k = current + 1 /\ Message.stream = dls[k].stream /\ Message \in ContentsAnswers
  /\ Message.result # "empty" /\ AnswerFits(Message, dls[k], k, copies)
  /\ \A n \in 1 .. Len(dls) : Passed(dls, n, toServer, jobs, toClient')
  /\ ~UnderWay(0, toServer, jobs, toClient')
  /\ ContentsRefused(k) \/ SizeAnswered(k) \/ RangeAnswered(k)

LEMMA AnswerTaken ==
  ASSUME Typed, Connected, StreamsApart, Downloads, ContentsAnswered
  PROVE  Taken(current + 1)
<1> DEFINE k == current + 1
<1>1. /\ downloading /\ Asking # {} /\ toClient # << >> /\ toClient' = Tail(toClient)
      /\ Head(toClient).kind = "contents" /\ Head(toClient) = Message
  BY DEF ContentsAnswered, Receive, Message
<1>2. /\ IsSequence(toClient) /\ IsSequence(toServer) /\ Message \in ContentsAnswers
      /\ DOMAIN dls = 1 .. Len(dls) /\ Len(dls) \in Nat
      /\ DOMAIN toClient = 1 .. Len(toClient) /\ DOMAIN toServer = 1 .. Len(toServer)
  BY <1>1, MessageTyped DEF Typed, QueueTyped, IsSequence
<1>3. k \in 1 .. Len(dls) /\ k \in Nat
  BY <1>1, TheEntry
<1>4. /\ Len(toClient) \in Nat /\ 1 \in 1 .. Len(toClient) /\ toClient[1] = Message
      /\ \A i \in 1 .. Len(Tail(toClient)) : i + 1 \in 1 .. Len(toClient)
                                             /\ Tail(toClient)[i] = toClient[i + 1]
  BY <1>1, <1>2, TakenMeets
<1>5. UnderWay(Message.stream, toServer, jobs, toClient)
  BY <1>1, <1>2, HoldsFewer DEF UnderWay
<1>6. /\ Passed(dls, k, toServer, jobs, toClient) /\ Coming(dls, k)
      /\ ~UnderWay(0, toServer, jobs, toClient) /\ dls[k].stream # 0
      /\ AnswersFit(toClient, dls[k], k, copies)
  BY <1>1 DEF Downloads, Fits
<1>7. ASSUME NEW i \in Asking PROVE i = k
  <2>1. i \in 1 .. Len(dls) /\ dls[i].stream = Message.stream /\ Message.stream # 0
    BY <1>2, <1>5, <1>6 DEF Asking
  <2>2. ~(i < k)
    <3>1. i < k => i \in 1 .. k - 1
      BY <1>3, <2>1
    <3> QED
      BY <1>5, <1>6, <2>1, <3>1 DEF Passed
  <2>3. ~(i > k)
    BY <1>6, <2>1 DEF Coming, Fresh
  <2> QED
    BY <1>3, <2>1, <2>2, <2>3
<1> HIDE DEF k
<1>8. Asking = {k} /\ Message.stream = dls[k].stream
  <2>1. k \in Asking
    BY <1>1, <1>7
  <2> QED
    BY <1>7, <2>1 DEF Asking
<1>9. (CHOOSE j \in Asking : \A i \in Asking : j <= i) = k
  <2>1. k <= k
    BY <1>3
  <2> QED
    BY <1>8, <2>1
<1>10. ContentsRefused(k) \/ SizeAnswered(k) \/ RangeAnswered(k) \/ NoRange(k)
  BY <1>9 DEF ContentsAnswered
<1>11. Message.result # "empty"
  <2>1. Message.kind # "list"
    BY <1>1
  <2> QED
    BY <1>4, <2>1 DEF Connected, ListsAnnounced, Lists
<1>12. ~UnderWay(Message.stream, toServer, jobs, toClient')
  <2>1. 1 \in Answered
    BY <1>1, <1>2, <1>4 DEF Answered
  <2>2. \A i \in 1 .. Len(toServer) :
          toServer[i].kind = "contents" => toServer[i].stream # Message.stream
    BY <1>2, <1>4, <2>1 DEF StreamsApart, Asked
  <2>3. \A job \in jobs : job.request.stream # Message.stream
    BY <1>4, <2>1 DEF StreamsApart
  <2>4. ASSUME NEW i \in 1 .. Len(Tail(toClient)), Tail(toClient)[i].kind = "contents"
        PROVE  Tail(toClient)[i].stream # Message.stream
    <3>1. i + 1 \in Answered /\ 1 # i + 1 /\ Tail(toClient)[i] = toClient[i + 1]
      BY <1>2, <1>4, <2>4 DEF Answered
    <3>2. toClient[1].stream # toClient[i + 1].stream
      BY <2>1, <3>1 DEF StreamsApart
    <3> QED
      BY <1>4, <3>1, <3>2
  <2> QED
    BY <1>1, <2>2, <2>3, <2>4 DEF UnderWay, Holds
<1>13. \A x : UnderWay(x, toServer, jobs, toClient') => UnderWay(x, toServer, jobs, toClient)
  BY <1>1, <1>2, HoldsFewer DEF UnderWay
<1>14. ASSUME NEW n \in 1 .. Len(dls) PROVE Passed(dls, n, toServer, jobs, toClient')
  <2> SUFFICES ASSUME NEW i \in 1 .. n - 1, dls[i].stream # 0
               PROVE  ~UnderWay(dls[i].stream, toServer, jobs, toClient')
    BY DEF Passed
  <2>1. i \in 1 .. Len(dls)
    BY <1>2
  <2>2. CASE i < k
    <3>1. i \in 1 .. k - 1
      BY <1>3, <2>1, <2>2
    <3> QED
      BY <1>6, <1>13, <3>1 DEF Passed
  <2>3. CASE i = k
    BY <1>8, <1>12, <2>3
  <2>4. CASE i > k
    BY <1>6, <2>1, <2>4 DEF Coming, Fresh
  <2> QED
    BY <1>3, <2>1, <2>2, <2>3, <2>4
<1>15. AnswerFits(Message, dls[k], k, copies)
  <2>1. Head(toClient) # FileList
    BY <1>1 DEF FileList
  <2> QED
    BY <1>1, <1>2, <1>6, <2>1, AnswersFitFewer
<1>17. ~NoRange(k)
  <2> SUFFICES ASSUME NoRange(k), dls[k].sized, Message.result = "ok" PROVE FALSE
    BY <1>2, <1>11 DEF NoRange, ContentsAnswers, Verdicts
  <2>1. dls[k].open /\ dls[k] \in Entries
    BY <1>1, TheEntry DEF Downloads, Ready, Typed, QueueTyped, k
  <2>2. PICK n \in 1 .. dls[k].size - Len(dls[k].data) :
          Message.data = Blocks(dls[k].copy, k, Len(dls[k].data), n)
    BY <1>8, <1>15 DEF AnswerFits
  <2>3. Len(dls[k].data) \in Nat /\ n \in Nat /\ n > 0
    BY <2>1, <2>2 DEF Entries
  <2> DEFINE c == dls[k].copy
             got == Len(dls[k].data)
  <2>4. got \in Nat /\ n \in Nat
    BY <2>3
  <2>5. Message.data = Blocks(c, k, got, n)
    BY <2>2
  <2> HIDE DEF c, got
  <2>6. Len(Blocks(c, k, got, n)) = n
    BY <2>4, BlocksJoin
  <2> QED
    BY <2>1, <2>3, <2>5, <2>6 DEF NoRange
<1>16. Taken(k)
  BY <1>2, <1>6, <1>8, <1>10, <1>11, <1>13, <1>14, <1>15, <1>17 DEF Taken, k
<1> QED
  BY <1>16 DEF k

(* The queue with the entry that is waited for changed. *)
LEMMA EntryChanged ==
  ASSUME Typed, Downloads, downloading, NEW k, Taken(k), NEW f \in Entries,
         f.stream = dls[k].stream, EntryFits(copies, f, k)
  PROVE  LET d == [dls EXCEPT ![k] = f] IN
         /\ d \in Seq(Entries) /\ Len(d) = Len(dls) /\ d[k] = f /\ k \in 1 .. Len(d)
         /\ QueueFits(copies, d)
         /\ \A i \in 1 .. Len(d) : i > k /\ ~d[i].dir => Ready(d[i])
         /\ \A i \in 1 .. Len(d) : i >= k => Coming(d, i)
         /\ \A i \in 1 .. Len(d) : Passed(d, i, toServer, jobs, toClient')
<1> DEFINE d == [dls EXCEPT ![k] = f]
<1>1. /\ k \in 1 .. Len(dls) /\ dls \in Seq(Entries) /\ Len(dls) \in Nat /\ Coming(dls, k)
      /\ \A i \in 1 .. Len(dls) : EntryFits(copies, dls[i], i)
      /\ \A n \in 1 .. Len(dls) : Passed(dls, n, toServer, jobs, toClient')
  BY TheEntry DEF Typed, QueueTyped, Taken, Downloads, QueueFits
<1>2. /\ d \in [1 .. Len(dls) -> Entries] /\ d[k] = f
      /\ \A i \in 1 .. Len(dls) : i # k => d[i] = dls[i]
  BY <1>1
<1>3. d \in Seq(Entries) /\ Len(d) = Len(dls)
  BY <1>1, <1>2
<1> HIDE DEF d
<1>4. QueueFits(copies, d)
  BY <1>1, <1>2, <1>3 DEF QueueFits
<1>5. \A i \in 1 .. Len(d) : i > k => Fresh(d[i]) /\ (~d[i].dir => Ready(d[i]))
  BY <1>1, <1>2, <1>3 DEF Coming, Fresh, Ready
<1>6. ASSUME NEW i \in 1 .. Len(d), i >= k PROVE Coming(d, i)
  BY <1>1, <1>3, <1>5, <1>6 DEF Coming
<1>7. ASSUME NEW i \in 1 .. Len(d) PROVE Passed(d, i, toServer, jobs, toClient')
  <2>1. \A j \in 1 .. i - 1 : j \in 1 .. Len(dls) /\ d[j].stream = dls[j].stream
    BY <1>1, <1>2, <1>3
  <2> QED
    BY <1>1, <1>3, <2>1 DEF Passed
<1> QED
  BY <1>1, <1>2, <1>3, <1>4, <1>5, <1>6, <1>7 DEF d

(* After an answer the queue goes on with the same entry or the next.      *)
LEMMA AnswerGoesOn ==
  ASSUME Typed, Typed', Reliable, StreamsApart', Downloads, downloading, UNCHANGED <<copies, jobs>>,
         NEW k, Taken(k), NEW f \in Entries, f.stream = dls[k].stream, EntryFits(copies, f, k),
         \/ StartNext([dls EXCEPT ![k] = f], current + 1)
         \/ StartNext([dls EXCEPT ![k] = f], current) /\ Ready(f)
  PROVE  Downloads'
<1> DEFINE d == [dls EXCEPT ![k] = f]
<1>1. /\ d \in Seq(Entries) /\ Len(d) = Len(dls) /\ d[k] = f /\ k \in 1 .. Len(d)
      /\ QueueFits(copies, d)
      /\ \A i \in 1 .. Len(d) : i > k /\ ~d[i].dir => Ready(d[i])
      /\ \A i \in 1 .. Len(d) : i >= k => Coming(d, i)
      /\ \A i \in 1 .. Len(d) : Passed(d, i, toServer, jobs, toClient')
  BY EntryChanged
<1>2. \/ StartNext(d, current + 1)
      \/ StartNext(d, current) /\ Ready(f)
  OBVIOUS
<1> HIDE DEF d
<1>6. current + 1 = k /\ current = k - 1
  BY DEF Taken, Typed, QueueTyped
<1>7. \/ StartNext(d, k)
      \/ StartNext(d, k - 1) /\ Ready(d[k])
  BY <1>1, <1>2, <1>6
<1>3. ~UnderWay(0, toServer, jobs, toClient') /\ k \in Nat /\ k \in 0 .. Len(d) /\ k - 1 \in 0 .. Len(d)
  BY <1>1 DEF Taken
<1>4. CASE StartNext(d, k)
  BY <1>1, <1>3, <1>4, QueueGoesOn
<1>5. CASE StartNext(d, k - 1) /\ Ready(d[k])
  <2>1. ASSUME NEW i \in 1 .. Len(d), i > k - 1, ~d[i].dir
        PROVE  Ready(d[i]) /\ Coming(d, i) /\ Passed(d, i, toServer, jobs, toClient')
    <3>1. i = k \/ i > k
      BY <1>3, <2>1
    <3> QED
      BY <1>1, <1>3, <1>5, <2>1, <3>1
  <2> QED
    BY <1>1, <1>3, <1>5, <2>1, QueueGoesOn
<1> QED
  BY <1>4, <1>5, <1>7

(* An answer makes f of the k-th entry; the queue goes on with the next    *)
(* one or has more of f to ask for.                                        *)
Becomes(k, f) ==
  /\ f.stream = dls[k].stream /\ EntryFits(copies, f, k)
  /\ \/ StartNext([dls EXCEPT ![k] = f], current + 1)
     \/ Ready(f) /\ (StartNext([dls EXCEPT ![k] = f], current) \/ Asks([dls EXCEPT ![k] = f], k))

LEMMA AnswerDoes ==
  ASSUME Typed, Reliable, StreamsApart, Connected, Downloads, ContentsAnswered
  PROVE  \E f \in Entries : Becomes(current + 1, f)
<1> DEFINE k == current + 1
           e == dls[k]
<1>1. /\ downloading /\ UNCHANGED <<copies, jobs>>
  BY DEF ContentsAnswered, Receive, serverVars
<1>2. /\ Taken(k) /\ e \in Entries /\ Ready(e) /\ EntryFits(copies, e, k) /\ k \in DOMAIN dls
      /\ e.copy \in 1 .. Len(copies) /\ k \in Nat
      /\ ContentsRefused(k) \/ SizeAnswered(k) \/ RangeAnswered(k)
  BY <1>1, AnswerTaken, TheEntry DEF Downloads, Taken, Typed, QueueTyped
<1>3. /\ Message.stream = e.stream /\ AnswerFits(Message, e, k, copies)
      /\ Message \in ContentsAnswers /\ Message.result # "empty" /\ current = k - 1
  BY <1>2 DEF Taken, Typed, QueueTyped
<1> HIDE DEF e, k
<1>4. ASSUME NEW f \in Entries, f.stream = e.stream, EntryFits(copies, f, k),
             \/ StartNext([dls EXCEPT ![k] = f], current + 1)
             \/ Ready(f) /\ (StartNext([dls EXCEPT ![k] = f], current) \/ Asks([dls EXCEPT ![k] = f], k))
      PROVE  \E g \in Entries : Becomes(current + 1, g)
  BY <1>4 DEF Becomes, e, k
<1>5. CASE ContentsRefused(k)
  <2> DEFINE f == [e EXCEPT !.outcome = "error"]
  <2>1. /\ f \in Entries /\ f.stream = e.stream /\ f.copy = e.copy /\ f.dir = e.dir
        /\ f.data = e.data /\ f.sized = e.sized /\ f.size = e.size /\ f.outcome = "error"
    BY <1>2 DEF Entries
  <2>2. StartNext([dls EXCEPT ![k] = f], current + 1)
    BY <1>2, <1>5 DEF ContentsRefused, e
  <2> HIDE DEF f
  <2>3. EntryFits(copies, f, k)
    BY <1>2, <2>1 DEF EntryFits
  <2> QED
    BY <1>4, <2>1, <2>2, <2>3
<1>6. CASE SizeAnswered(k)
  <2> DEFINE size == Message.size
             z == [e EXCEPT !.sized = TRUE, !.size = size]
             sized == [dls EXCEPT ![k].sized = TRUE, ![k].size = size]
  <2>1. /\ ~e.sized /\ Message.result = "ok"
        /\ \/ size = 0 /\ StartNext([sized EXCEPT ![k].outcome = "done"], current + 1)
           \/ size > 0 /\ StartNext([sized EXCEPT ![k].open = TRUE], current)
           \/ size > 0 /\ StartNext([sized EXCEPT ![k].outcome = "error"], current + 1)
    BY <1>3, <1>6 DEF SizeAnswered, ContentsAnswers, Verdicts, e
  <2>2. /\ [sized EXCEPT ![k].outcome = "done"] = [dls EXCEPT ![k] = [z EXCEPT !.outcome = "done"]]
        /\ [sized EXCEPT ![k].open = TRUE] = [dls EXCEPT ![k] = [z EXCEPT !.open = TRUE]]
        /\ [sized EXCEPT ![k].outcome = "error"] = [dls EXCEPT ![k] = [z EXCEPT !.outcome = "error"]]
    BY <1>2 DEF e
  <2>3. size \in Nat /\ size = copies[e.copy][k] /\ ~e.dir /\ e.outcome = "none" /\ e.data = << >>
    BY <1>2, <1>3, <2>1 DEF AnswerFits, ContentsAnswers, Ready, EntryFits
  <2> HIDE DEF size, sized
  <2>4. /\ z \in Entries /\ z.stream = e.stream /\ z.copy = e.copy /\ z.dir = e.dir
        /\ z.data = e.data /\ z.sized = TRUE /\ z.size = size /\ z.outcome = e.outcome
    BY <1>2, <2>3 DEF Entries
  <2> HIDE DEF z
  <2>5. ASSUME NEW f \in Entries, f.stream = z.stream, f.copy = z.copy, f.dir = z.dir,
               f.data = z.data, f.sized = z.sized, f.size = z.size, f.outcome = "done" => size = 0
        PROVE  f.stream = e.stream /\ EntryFits(copies, f, k)
    <3>1. Len(f.data) = 0 /\ f.data = << >> /\ Len(f.data) <= f.size
      BY <2>3, <2>4, <2>5
    <3>2. f.data = Blocks(f.copy, k, 0, Len(f.data))
      BY <3>1, NoBlocks
    <3>3. f.copy = e.copy /\ f.dir = e.dir /\ f.sized = TRUE /\ f.size = copies[f.copy][k]
      BY <2>3, <2>4, <2>5
    <3> QED
      BY <1>2, <2>3, <2>4, <2>5, <3>1, <3>2, <3>3 DEF EntryFits
  <2>6. CASE size = 0 /\ StartNext([sized EXCEPT ![k].outcome = "done"], current + 1)
    <3> DEFINE f == [z EXCEPT !.outcome = "done"]
    <3>1. /\ f \in Entries /\ f.stream = z.stream /\ f.copy = z.copy /\ f.dir = z.dir
          /\ f.data = z.data /\ f.sized = z.sized /\ f.size = z.size
      BY <2>4 DEF Entries
    <3>2. StartNext([dls EXCEPT ![k] = f], current + 1)
      BY <2>2, <2>6
    <3> HIDE DEF f
    <3> QED
      BY <1>4, <2>5, <2>6, <3>1, <3>2
  <2>7. CASE size > 0 /\ StartNext([sized EXCEPT ![k].open = TRUE], current)
    <3> DEFINE f == [z EXCEPT !.open = TRUE]
    <3>1. /\ f \in Entries /\ f.stream = z.stream /\ f.copy = z.copy /\ f.dir = z.dir
          /\ f.data = z.data /\ f.sized = z.sized /\ f.size = z.size /\ f.outcome = z.outcome
          /\ f.open
      BY <2>4 DEF Entries
    <3>2. StartNext([dls EXCEPT ![k] = f], current)
      BY <2>2, <2>7
    <3> HIDE DEF f
    <3>3. Ready(f)
      <4>1. Len(f.data) = 0
        BY <2>3, <2>4, <3>1
      <4> QED
        BY <2>3, <2>4, <2>7, <3>1, <4>1 DEF Ready
    <3> QED
      BY <1>4, <2>3, <2>4, <2>5, <3>1, <3>2, <3>3
  <2>8. CASE size > 0 /\ StartNext([sized EXCEPT ![k].outcome = "error"], current + 1)
    <3> DEFINE f == [z EXCEPT !.outcome = "error"]
    <3>1. /\ f \in Entries /\ f.stream = z.stream /\ f.copy = z.copy /\ f.dir = z.dir
          /\ f.data = z.data /\ f.sized = z.sized /\ f.size = z.size /\ f.outcome = "error"
      BY <2>4 DEF Entries
    <3>2. StartNext([dls EXCEPT ![k] = f], current + 1)
      BY <2>2, <2>8
    <3> HIDE DEF f
    <3> QED
      BY <1>4, <2>5, <3>1, <3>2
  <2> QED
    BY <2>1, <2>6, <2>7, <2>8 DEF size, sized
<1>7. CASE RangeAnswered(k)
  <2> DEFINE got == Len(e.data)
  <2>1. /\ e.sized /\ e.open /\ ~e.dir /\ got \in Nat /\ e.size \in Nat /\ e.size = copies[e.copy][k]
        /\ e.data = Blocks(e.copy, k, 0, got) /\ e.outcome = "none"
        /\ e.data \in Seq((1 .. env.copies) \X Nat \X Nat)
    BY <1>2, <1>7, AskedTyped DEF RangeAnswered, EntryFits, Ready, Entries, e
  <2>2. PICK n : n \in 1 .. e.size - got /\ Message.data = Blocks(e.copy, k, got, n)
    BY <1>3, <1>7, <2>1 DEF AnswerFits, RangeAnswered
  <2> DEFINE data == e.data \o SubSeq(Message.data, 1, Len(Message.data))
             f == [e EXCEPT !.data = data]
  <2>3. data = Blocks(e.copy, k, 0, got + n) /\ Len(data) = got + n /\ n \in Nat /\ got + n \in Nat
    <3>1. n \in Nat /\ got + n \in Nat /\ 0 \in Nat
      BY <2>1, <2>2
    <3> HIDE DEF got
    <3>2. /\ Len(Message.data) = n /\ SubSeq(Message.data, 1, Len(Message.data)) = Message.data
          /\ e.data \o Message.data = Blocks(e.copy, k, 0, got + n)
      <4> DEFINE c == e.copy
      <4>1. got \in Nat /\ n \in Nat
        BY <2>1, <3>1
      <4> HIDE DEF c
      <4>2. Len(Blocks(c, k, got, n)) = n
        BY <4>1, BlocksJoin
      <4>3. SubSeq(Blocks(c, k, got, n), 1, n) = Blocks(c, k, got, n)
        BY <4>1, BlocksJoin
      <4>4. Joined(Blocks(c, k, 0, got), Blocks(c, k, got, n)) = Blocks(c, k, 0, got + n)
        BY <4>1, BlocksJoin
      <4>5. Message.data = Blocks(c, k, got, n) /\ e.data = Blocks(c, k, 0, got)
        BY <2>1, <2>2 DEF c
      <4>6. e.data \o Message.data = Blocks(c, k, 0, got + n)
        BY <4>4, <4>5 DEF Joined
      <4> QED
        BY <4>2, <4>3, <4>5, <4>6 DEF c
    <3>3. Len(Blocks(e.copy, k, 0, got + n)) = got + n
      BY <3>1, BlocksJoin
    <3> QED
      BY <3>1, <3>2, <3>3
  <2>4. data \in Seq((1 .. env.copies) \X Nat \X Nat)
    <3>1. Message.data \in Seq((1 .. env.copies) \X Nat \X Nat)
      BY <1>3 DEF ContentsAnswers, Block
    <3>2. SubSeq(Message.data, 1, Len(Message.data)) \in Seq((1 .. env.copies) \X Nat \X Nat)
      BY <3>1
    <3> QED
      BY <2>1, <3>2
  <2>5. Written = {Len(Message.data)}
    BY DEF Written, Reliable
  <2>6. IF Left(f) <= 0
        THEN StartNext([dls EXCEPT ![k] = [f EXCEPT !.open = FALSE, !.outcome = "done"]], current + 1)
        ELSE /\ dls' = [dls EXCEPT ![k] = [f EXCEPT !.stream = StreamAfter(0)]]
             /\ Post(<<RangeRequest(k, f, StreamAfter(0))>>)
             /\ nextStream' = StreamAfter(1)
             /\ UNCHANGED <<current, downloading, lock>>
    BY <1>7, <2>5 DEF RangeAnswered, e
  <2> HIDE DEF data
  <2>7. /\ f \in Entries /\ f.stream = e.stream /\ f.copy = e.copy /\ f.dir = e.dir
        /\ f.data = data /\ f.sized /\ f.open /\ f.size = e.size /\ f.outcome = "none"
    BY <1>2, <2>1, <2>4 DEF Entries
  <2>8. Left(f) = e.size - (got + n)
    BY <2>3, <2>7 DEF Left
  <2> HIDE DEF f, got
  <2>9. EntryFits(copies, f, k)
    <3>1. f.copy \in 1 .. Len(copies) /\ k \in DOMAIN copies[f.copy] /\ ~f.dir
      BY <1>2, <2>1, <2>7 DEF EntryFits
    <3>2. Len(f.data) = got + n /\ f.data = Blocks(f.copy, k, 0, got + n)
      BY <2>3, <2>7
    <3>3. f.size = copies[f.copy][k] /\ f.size = e.size /\ got + n <= f.size
      BY <2>1, <2>2, <2>7
    <3> QED
      BY <1>2, <2>7, <3>1, <3>2, <3>3 DEF EntryFits
  <2>10. CASE Left(f) <= 0
    <3> DEFINE z == [f EXCEPT !.open = FALSE, !.outcome = "done"]
    <3>1. StartNext([dls EXCEPT ![k] = z], current + 1)
      BY <2>6, <2>10
    <3>2. /\ z \in Entries /\ z.stream = e.stream /\ z.copy = f.copy /\ z.dir = f.dir
          /\ z.data = f.data /\ z.sized = f.sized /\ z.size = f.size
      BY <2>7 DEF Entries
    <3> HIDE DEF z
    <3>3. Len(z.data) = z.size
      BY <2>1, <2>2, <2>3, <2>7, <2>8, <2>10, <3>2
    <3>4. EntryFits(copies, z, k)
      BY <2>7, <2>9, <3>2, <3>3 DEF EntryFits
    <3> QED
      BY <1>4, <3>1, <3>2, <3>4
  <2>11. CASE ~(Left(f) <= 0)
    <3> DEFINE d == [dls EXCEPT ![k] = f]
    <3>1. d[k] = f
      BY <1>2
    <3>2. Ready(f)
      BY <2>1, <2>2, <2>3, <2>7, <2>8, <2>11 DEF Ready
    <3>3. StreamAfter(0) = nextStream
      BY StreamNow DEF Typed, QueueTyped
    <3>4. toServer' = Append(toServer, RangeRequest(k, f, nextStream))
      <4>1. ~MayFail /\ IsSequence(toServer)
        BY DEF Reliable, MayFail, Typed, IsSequence
      <4> QED
        BY <2>6, <2>11, <3>3, <4>1, OneByOne DEF Post
    <3>5. dls' = [d EXCEPT ![k].stream = nextStream]
      <4>1. dls' = [dls EXCEPT ![k] = [f EXCEPT !.stream = nextStream]]
        BY <2>6, <2>11, <3>3
      <4> QED
        BY <1>2, <4>1
    <3> HIDE DEF d
    <3>6. Asks(d, k)
      BY <1>1, <1>3, <2>6, <2>7, <2>11, <3>1, <3>4, <3>5 DEF Asks, Wanted, Typed, QueueTyped
    <3> QED
      BY <1>4, <2>7, <2>9, <3>2, <3>6 DEF d
  <2> QED
    BY <2>10, <2>11
<1> QED
  BY <1>2, <1>5, <1>6, <1>7

LEMMA AnswerKeeps ==
  ASSUME Typed, Typed', Reliable, StreamsApart, StreamsApart', Connected, Downloads, ContentsAnswered
  PROVE  Downloads'
<1> DEFINE k == current + 1
<1>1. downloading /\ UNCHANGED <<copies, jobs>> /\ Taken(k)
  BY AnswerTaken DEF ContentsAnswered, Receive, serverVars
<1>2. PICK f \in Entries : Becomes(k, f)
  BY AnswerDoes
<1> HIDE DEF k
<1>3. CASE \/ StartNext([dls EXCEPT ![k] = f], current + 1)
           \/ StartNext([dls EXCEPT ![k] = f], current) /\ Ready(f)
  BY <1>1, <1>2, <1>3, AnswerGoesOn DEF Becomes
<1>4. CASE Ready(f) /\ Asks([dls EXCEPT ![k] = f], k)
  <2> DEFINE d == [dls EXCEPT ![k] = f]
  <2>1. /\ d \in Seq(Entries) /\ d[k] = f /\ k \in 1 .. Len(d) /\ QueueFits(copies, d)
        /\ Coming(d, k) /\ Passed(d, k, toServer, jobs, toClient')
    <3>1. k >= k
      BY <1>1 DEF Taken, Typed, QueueTyped
    <3> QED
      BY <1>1, <1>2, <3>1, EntryChanged DEF Becomes
  <2>2. ~UnderWay(0, toServer, jobs, toClient')
    BY <1>1 DEF Taken
  <2>3. Asks(d, k) /\ Ready(d[k])
    BY <1>4, <2>1
  <2> HIDE DEF d
  <2> QED
    BY <1>1, <2>1, <2>2, <2>3, AskKeeps
<1> QED
  BY <1>2, <1>3, <1>4 DEF Becomes

(* Nothing is queued, and no request or answer is without a stream id. *)
LEMMA NothingQueued ==
  ASSUME dls' = << >>, ~downloading', ~UnderWay(0, toServer', jobs', toClient')
  PROVE  Downloads'
  BY DEF Downloads, QueueFits

(* A list of files drops the queue; the answers under way stay. *)
LEMMA FilesDropDownloads ==
  ASSUME Typed, Reliable, Downloads, FilesOffered
  PROVE  Downloads'
<1> DEFINE U == UnlockMsg(lock.id)
           L == LockMsg(nextLock)
           D == DataRequest("files")
           s == IF lock.active THEN Append(toServer, U) ELSE toServer
<1>1. /\ UNCHANGED jobs /\ toClient # << >> /\ toClient' = Tail(toClient)
      /\ dls' = << >> /\ ~downloading'
      /\ IsSequence(toServer) /\ IsSequence(toClient) /\ ~MayFail
  BY DEF FilesOffered, Receive, serverVars, FreeDownloads, Typed, IsSequence, Reliable, MayFail
<1>2. U.kind # "contents" /\ L.kind # "contents" /\ D.kind # "contents"
  BY DEF UnlockMsg, LockMsg, DataRequest
<1>3. toServer' = Append(Append(s, L), D)
  <2>1. toServer' = toServer \o ((IF lock.active THEN <<U>> ELSE << >>) \o <<L, D>>)
    BY <1>1 DEF FilesOffered, Post
  <2> HIDE DEF U, L, D
  <2>2. CASE lock.active
    <3>1. toServer' = toServer \o <<U, L, D>>
      BY <2>1, <2>2
    <3> QED
      BY <1>1, <2>2, <3>1, OneByOne
  <2>3. CASE ~lock.active
    <3>1. toServer' = toServer \o <<L, D>>
      BY <2>1, <2>3
    <3> QED
      BY <1>1, <2>3, <3>1, OneByOne
  <2> QED
    BY <2>2, <2>3
<1> HIDE DEF U, L, D
<1>4. /\ IsSequence(s) /\ IsSequence(Append(s, L))
      /\ Holds(s, 0) => Holds(toServer, 0)
  <2>1. IsSequence(Append(toServer, U)) /\ (Holds(Append(toServer, U), 0) => Holds(toServer, 0))
    BY <1>1, <1>2, Grows, HoldsMore
  <2>2. IsSequence(s) /\ (Holds(s, 0) => Holds(toServer, 0))
    BY <1>1, <2>1
  <2> HIDE DEF s
  <2> QED
    BY <2>2, Grows
<1> HIDE DEF s
<1>5. Holds(toServer', 0) => Holds(toServer, 0)
  <2>1. Holds(Append(s, L), 0) => Holds(s, 0)
    BY <1>2, <1>4, HoldsMore
  <2>2. Holds(Append(Append(s, L), D), 0) => Holds(Append(s, L), 0)
    BY <1>2, <1>4, HoldsMore
  <2> QED
    BY <1>3, <1>4, <2>1, <2>2
<1>6. Holds(toClient', 0) => Holds(toClient, 0)
  BY <1>1, HoldsFewer
<1>7. ~UnderWay(0, toServer', jobs', toClient')
  BY <1>1, <1>5, <1>6 DEF Downloads, UnderWay
<1> QED
  BY <1>1, <1>7, NothingQueued

(* With an empty channel nothing is under way. *)
LEMMA NothingUnderWay == ~UnderWay(0, << >>, {}, << >>)
<1>1. Len(<< >>) = 0
  OBVIOUS
<1> QED
  BY <1>1 DEF UnderWay, Holds

LEMMA DownloadsNext ==
  ASSUME Typed, Reliable, StreamsApart, StreamsApart', Shown, Connected, Downloads, [Next]_vars
  PROVE  Downloads'
<1>1. Typed' /\ ~MayFail
  BY TypedNext DEF Reliable, MayFail
<1>2. CASE TextOffered
  <2>1. /\ UNCHANGED <<dls, current, downloading, lock, copies, jobs>>
        /\ toClient # << >> /\ toClient' = Tail(toClient) /\ ~Head(toClient).files
    BY <1>2 DEF TextOffered, Receive, serverVars, Message
  <2>2. Head(toClient) # FileList
    BY <2>1 DEF FileList
  <2>3. toServer' = Append(toServer, DataRequest("text"))
    <3>1. IsSequence(toServer)
      BY DEF Typed, IsSequence
    <3> QED
      BY <1>1, <1>2, <3>1, OneByOne DEF TextOffered, Post
  <2>4. DataRequest("text").kind # "contents"
    BY DEF DataRequest
  <2> QED
    BY <2>1, <2>2, <2>3, <2>4, MessagePassed
<1>3. CASE DataAnswered \/ LateAnswer
  <2>1. /\ UNCHANGED <<dls, current, downloading, lock, copies, jobs, toServer>>
        /\ toClient # << >> /\ toClient' = Tail(toClient) /\ Head(toClient).kind # "list"
    BY <1>3 DEF DataAnswered, LateAnswer, Receive, serverVars
  <2>2. Head(toClient) # FileList
    BY <2>1 DEF FileList
  <2> QED
    BY <2>1, <2>2, MessagePassed
<1>4. CASE ContentsAnswered
  BY <1>1, <1>4, AnswerKeeps
<1>5. CASE FilesOffered
  BY <1>5, FilesDropDownloads
<1>6. CASE ChannelDisconnected
  <2>1. dls' = << >> /\ ~downloading' /\ toServer' = << >> /\ jobs' = {} /\ toClient' = << >>
    BY <1>6 DEF ChannelDisconnected, FreeDownloads
  <2> QED
    BY <2>1, NothingUnderWay, NothingQueued
<1>7. CASE StartConnection
  <2>1. /\ ~up /\ UNCHANGED <<dls, downloading, toServer, toClient, jobs>>
    BY <1>7 DEF StartConnection, serverVars
  <2>2. dls = << >> /\ ~downloading
    BY <2>1 DEF Connected, Down
  <2>3. ~UnderWay(0, toServer, jobs, toClient)
    BY DEF Downloads
  <2> QED
    BY <2>1, <2>2, <2>3, NothingQueued
<1>8. CASE RequestDownload
  BY <1>1, <1>8, DownloadRequested
<1>9. ASSUME NEW c \in Contents, Copy(c) PROVE Downloads'
  BY <1>9, CopyWaits
<1>10. CASE AcceptLock \/ AcceptUnlock \/ AcceptDataRequest
  <2>1. /\ UNCHANGED <<dls, current, downloading, lock, copies, jobs>>
        /\ toServer # << >> /\ toServer' = Tail(toServer)
    BY <1>10 DEF AcceptLock, AcceptUnlock, AcceptDataRequest, Accept, clientVars
  <2>2. \/ UNCHANGED toClient
        \/ \E m : toClient' = Append(toClient, m) /\ m.kind # "contents"
    <3>1. CASE AcceptLock \/ AcceptUnlock
      BY <3>1 DEF AcceptLock, AcceptUnlock
    <3>2. CASE AcceptDataRequest
      <4>1. PICK result :
              toClient' = Append(toClient, [kind |-> "data", what |-> Request.what, result |-> result,
                                            copy |-> IF Copied = << >> THEN 0 ELSE Len(copies),
                                            files |-> Copied])
        BY <3>2 DEF AcceptDataRequest
      <4> QED
        BY <4>1
    <3> QED
      BY <1>10, <3>1, <3>2
  <2> QED
    BY <2>1, <2>2, RequestPassed
<1>11. CASE AcceptContentsRequest
  BY <1>1, <1>11, RequestTaken
<1>12. ASSUME NEW job \in jobs, AnswerContents(job) PROVE Downloads'
  BY <1>12, JobAnswered
<1>13. CASE UNCHANGED vars
  <2>1. UNCHANGED <<copies, dls, toServer, jobs, toClient, downloading, current, lock>>
    BY <1>13 DEF vars
  <2> QED
    BY <2>1 DEF Downloads
<1>14. ~ListNotAcknowledged
  BY <1>1 DEF ListNotAcknowledged
<1> QED
  BY <1>2, <1>3, <1>4, <1>5, <1>6, <1>7, <1>8, <1>9, <1>10, <1>11, <1>12, <1>13, <1>14
     DEF Next, EventLoop, Server

LEMMA DownloadsInit == Init => Downloads
<1> SUFFICES ASSUME Init PROVE Downloads
  OBVIOUS
<1>1. dls = << >> /\ ~downloading /\ toServer = << >> /\ jobs = {} /\ toClient = << >>
  BY DEF Init
<1> QED
  BY <1>1, NothingUnderWay DEF Downloads, QueueFits

(* A queue that fits has only whole files among those that are done. *)
LEMMA DownloadsAreWhole == Typed /\ Downloads => DoneFilesAreWhole
<1> SUFFICES ASSUME Typed, Downloads, NEW i \in DOMAIN dls,
                    dls[i].outcome = "done", ~dls[i].dir
             PROVE  dls[i].data = Blocks(dls[i].copy, i, 0, copies[dls[i].copy][i])
  BY DEF DoneFilesAreWhole
<1>1. i \in 1 .. Len(dls)
  BY DEF Typed, QueueTyped
<1>2. EntryFits(copies, dls[i], i)
  BY <1>1 DEF Downloads, QueueFits
<1> QED
  BY <1>2 DEF EntryFits

(* What a connection keeps as long as its stream ids are told apart. *)
Fetching == /\ Typed /\ Shown
            /\ Reliable => Connected /\ Downloads

LEMMA FetchingNext ==
  ASSUME Fetching, StreamsApart, StreamsApart', [Next]_vars
  PROVE  Fetching'
<1>1. Typed' /\ Shown'
  BY TypedNext, ShownNext DEF Fetching
<1>2. Reliable' <=> Reliable
  BY EnvNext DEF Reliable
<1>3. ASSUME Reliable PROVE Connected' /\ Downloads'
  <2>1. Typed /\ Shown /\ Connected /\ Downloads
    BY <1>3 DEF Fetching
  <2>2. Connected'
    BY <1>3, <2>1, ConnectedNext
  <2>3. Downloads'
    BY <1>3, <2>1, DownloadsNext
  <2> QED
    BY <2>2, <2>3
<1> QED
  BY <1>1, <1>2, <1>3 DEF Fetching

(* In a connection that loses nothing a file reported as done is, block    *)
(* for block and in order, that file of the clipboard whose list was shown *)
(* when its download was asked for: whatever is copied or cancelled        *)
(* meanwhile, however late answers come and however little each brings.    *)
(* The only condition is that no stream id comes round again while it is   *)
(* still in use (cb_server_file_contents_response looks an answer up by    *)
(* nothing else).                                                          *)
THEOREM DownloadsAlwaysFaithful == Spec => DownloadsAreFaithful
<1>1. Init => Fetching
  <2>1. Init => Shown
    BY DEF Init, Shown, Waiting, DownloadOfTheListShown
  <2> QED
    BY <2>1, TypedInit, ConnectedInit, DownloadsInit DEF Fetching
<1>2. Fetching /\ StreamsApart /\ StreamsApart' /\ [Next]_vars => Fetching'
  BY FetchingNext
<1>3. Fetching => DoneFilesAreWhole
  <2>1. ~Reliable => DoneFilesAreWhole
    BY DEF DoneFilesAreWhole
  <2> QED
    BY <2>1, DownloadsAreWhole DEF Fetching
<1>4. Spec => ([]StreamsApart => []DoneFilesAreWhole)
  BY <1>1, <1>2, <1>3, PTL DEF Spec
<1> QED
  BY <1>4, DownloadsMatchTheList, PTL DEF DownloadsAreFaithful

-----------------------------------------------------------------------------
(* Until the stream ids wrap around each new one is above all that are in  *)
(* use, so that they are told apart.                                       *)

Once(s) ==
  \A i, j \in 1 .. Len(s) :
    i # j /\ s[i].kind = "contents" /\ s[j].kind = "contents" => s[i].stream # s[j].stream
Apart(s, js, t, n) ==
  /\ Once(s) /\ Once(t) /\ \A a, b \in js : a # b => a.request.stream # b.request.stream
  /\ \A x : ~(Holds(s, x) /\ Holds(t, x))
  /\ \A job \in js : ~Holds(s, job.request.stream) /\ ~Holds(t, job.request.stream)
  /\ \A x : UnderWay(x, s, js, t) => x \in 0 .. n - 1
Remembered(d, n) ==
  \A i \in 1 .. Len(d) :
    /\ d[i].stream \in 0 .. n - 1
    /\ \A j \in 1 .. Len(d) : i # j /\ d[i].stream # 0 => d[i].stream # d[j].stream

LEMMA OnceMore ==
  ASSUME NEW s, IsSequence(s), Once(s), NEW m, m.kind = "contents" => ~Holds(s, m.stream)
  PROVE  Once(Append(s, m))
<1> DEFINE z == Append(s, m)
<1>1. /\ Len(s) \in Nat /\ Len(z) = Len(s) + 1 /\ z[Len(s) + 1] = m
      /\ \A i \in 1 .. Len(s) : z[i] = s[i]
  BY Grows
<1> HIDE DEF z
<1>2. ASSUME NEW i \in 1 .. Len(z), NEW j \in 1 .. Len(z), i # j,
             z[i].kind = "contents", z[j].kind = "contents"
      PROVE  z[i].stream # z[j].stream
  <2>1. (i \in 1 .. Len(s) /\ z[i] = s[i]) \/ z[i] = m
    BY <1>1
  <2>2. (j \in 1 .. Len(s) /\ z[j] = s[j]) \/ z[j] = m
    BY <1>1
  <2>3. CASE i \in 1 .. Len(s) /\ j \in 1 .. Len(s)
    BY <1>1, <1>2, <2>3 DEF Once
  <2>4. CASE i \in 1 .. Len(s) /\ j \notin 1 .. Len(s)
    BY <1>1, <1>2, <2>2, <2>4 DEF Holds
  <2>5. CASE i \notin 1 .. Len(s) /\ j \in 1 .. Len(s)
    BY <1>1, <1>2, <2>1, <2>5 DEF Holds
  <2>6. CASE i \notin 1 .. Len(s) /\ j \notin 1 .. Len(s)
    BY <1>1, <1>2, <2>6
  <2> QED
    BY <2>3, <2>4, <2>5, <2>6
<1>3. Once(z)
  BY <1>2 DEF Once
<1> QED
  BY <1>3 DEF z

LEMMA OnceFewer ==
  ASSUME NEW s, IsSequence(s), s # << >>, Once(s)
  PROVE  Once(Tail(s)) /\ (Head(s).kind = "contents" => ~Holds(Tail(s), Head(s).stream))
<1>1. /\ Len(s) \in Nat \ {0} /\ Head(s) = s[1] /\ Len(Tail(s)) = Len(s) - 1
      /\ \A i \in 1 .. Len(s) - 1 : Tail(s)[i] = s[i + 1]
  BY Shrinks
<1>2. \A i \in 1 .. Len(Tail(s)) : i + 1 \in 1 .. Len(s) /\ Tail(s)[i] = s[i + 1] /\ i + 1 # 1
  BY <1>1
<1>3. Once(Tail(s))
  <2> SUFFICES ASSUME NEW i \in 1 .. Len(Tail(s)), NEW j \in 1 .. Len(Tail(s)), i # j,
                      Tail(s)[i].kind = "contents", Tail(s)[j].kind = "contents"
               PROVE  Tail(s)[i].stream # Tail(s)[j].stream
    BY DEF Once
  <2>1. i + 1 # j + 1
    BY <1>1
  <2> QED
    BY <1>2, <2>1 DEF Once
<1>4. ASSUME Head(s).kind = "contents" PROVE ~Holds(Tail(s), Head(s).stream)
  <2>1. 1 \in 1 .. Len(s)
    BY <1>1
  <2> QED
    BY <1>1, <1>2, <1>4, <2>1 DEF Once, Holds
<1> QED
  BY <1>3, <1>4

(* A request is sent: one about contents takes the next id. *)
LEMMA ApartSent ==
  ASSUME NEW s, IsSequence(s), NEW js, NEW t, NEW n \in Nat, Apart(s, js, t, n), NEW m
  PROVE  /\ m.kind # "contents" => Apart(Append(s, m), js, t, n)
         /\ m.kind = "contents" /\ m.stream = n => Apart(Append(s, m), js, t, n + 1)
<1>1. \A x : Holds(Append(s, m), x) <=> Holds(s, x) \/ (m.kind = "contents" /\ m.stream = x)
  BY HoldsMore
<1>2. ~UnderWay(n, s, js, t)
  BY DEF Apart
<1>3. m.kind = "contents" /\ m.stream = n => ~Holds(s, m.stream)
  BY <1>2 DEF UnderWay
<1>4. ASSUME m.kind # "contents" PROVE Apart(Append(s, m), js, t, n)
  <2>1. Once(Append(s, m))
    BY <1>4, OnceMore DEF Apart
  <2>2. \A x : UnderWay(x, Append(s, m), js, t) => UnderWay(x, s, js, t)
    BY <1>1, <1>4 DEF UnderWay
  <2> QED
    BY <1>1, <1>4, <2>1, <2>2 DEF Apart
<1>5. ASSUME m.kind = "contents", m.stream = n PROVE Apart(Append(s, m), js, t, n + 1)
  <2>1. Once(Append(s, m))
    BY <1>3, <1>5, OnceMore DEF Apart
  <2>2. \A x : UnderWay(x, Append(s, m), js, t) => UnderWay(x, s, js, t) \/ x = n
    BY <1>1, <1>5 DEF UnderWay
  <2>3. \A x : UnderWay(x, Append(s, m), js, t) => x \in 0 .. (n + 1) - 1
    <3>1. \A x : UnderWay(x, s, js, t) => x \in 0 .. n - 1
      BY DEF Apart
    <3>2. n \in 0 .. (n + 1) - 1 /\ \A x \in 0 .. n - 1 : x \in 0 .. (n + 1) - 1
      OBVIOUS
    <3> QED
      BY <2>2, <3>1, <3>2
  <2>4. ~Holds(t, n) /\ \A job \in js : job.request.stream # n
    BY <1>2 DEF UnderWay
  <2> QED
    BY <1>1, <1>5, <2>1, <2>3, <2>4 DEF Apart
<1> QED
  BY <1>4, <1>5

(* The server takes a request; a job carries its id on. *)
LEMMA ApartTaken ==
  ASSUME NEW s, IsSequence(s), s # << >>, NEW js, NEW t, NEW n, Apart(s, js, t, n)
  PROVE  /\ Apart(Tail(s), js, t, n)
         /\ \A new : Head(s).kind = "contents" /\ new.request.stream = Head(s).stream
                       => Apart(Tail(s), js \cup {new}, t, n)
<1>1. \A x : Holds(Tail(s), x) => Holds(s, x)
  BY HoldsFewer
<1>2. Once(Tail(s)) /\ (Head(s).kind = "contents" => ~Holds(Tail(s), Head(s).stream))
  BY OnceFewer DEF Apart
<1>3. Apart(Tail(s), js, t, n)
  <2>1. \A x : UnderWay(x, Tail(s), js, t) => UnderWay(x, s, js, t)
    BY <1>1 DEF UnderWay
  <2> QED
    BY <1>1, <1>2, <2>1 DEF Apart
<1>4. ASSUME NEW new, Head(s).kind = "contents", new.request.stream = Head(s).stream
      PROVE  Apart(Tail(s), js \cup {new}, t, n)
  <2>1. Holds(s, Head(s).stream)
    BY <1>4, HoldsFewer
  <2>2. \A x : UnderWay(x, Tail(s), js \cup {new}, t) => UnderWay(x, s, js, t)
    BY <1>1, <1>4, <2>1 DEF UnderWay
  <2>3. \A job \in js : job.request.stream # Head(s).stream
    BY <2>1 DEF Apart
  <2>4. ~Holds(t, Head(s).stream)
    BY <2>1 DEF Apart
  <2>5. \A a, b \in js \cup {new} : a # b => a.request.stream # b.request.stream
    BY <1>4, <2>3 DEF Apart
  <2>6. \A job \in js \cup {new} : /\ ~Holds(Tail(s), job.request.stream)
                                   /\ ~Holds(t, job.request.stream)
    BY <1>1, <1>2, <1>4, <2>4 DEF Apart
  <2>7. \A x : ~(Holds(Tail(s), x) /\ Holds(t, x))
    BY <1>1 DEF Apart
  <2> QED
    BY <1>2, <2>2, <2>5, <2>6, <2>7 DEF Apart
<1> QED
  BY <1>3, <1>4

(* The server says something; an answer about contents ends its job. *)
LEMMA ApartAnswered ==
  ASSUME NEW s, NEW js, NEW t, IsSequence(t), NEW n, Apart(s, js, t, n), NEW m
  PROVE  /\ m.kind # "contents" => Apart(s, js, Append(t, m), n)
         /\ \A job \in js : m.stream = job.request.stream => Apart(s, js \ {job}, Append(t, m), n)
<1>1. \A x : Holds(Append(t, m), x) <=> Holds(t, x) \/ (m.kind = "contents" /\ m.stream = x)
  BY HoldsMore
<1>2. ASSUME m.kind # "contents" PROVE Apart(s, js, Append(t, m), n)
  <2>1. Once(Append(t, m))
    BY <1>2, OnceMore DEF Apart
  <2>2. \A x : UnderWay(x, s, js, Append(t, m)) => UnderWay(x, s, js, t)
    BY <1>1, <1>2 DEF UnderWay
  <2> QED
    BY <1>1, <1>2, <2>1, <2>2 DEF Apart
<1>3. ASSUME NEW job \in js, m.stream = job.request.stream
      PROVE  Apart(s, js \ {job}, Append(t, m), n)
  <2>1. ~Holds(t, m.stream) /\ ~Holds(s, m.stream)
    BY <1>3 DEF Apart
  <2>2. Once(Append(t, m))
    BY <2>1, OnceMore DEF Apart
  <2>3. \A x : UnderWay(x, s, js \ {job}, Append(t, m)) => UnderWay(x, s, js, t)
    BY <1>1, <1>3 DEF UnderWay
  <2>4. \A a \in js \ {job} : a.request.stream # m.stream
    BY <1>3 DEF Apart
  <2>5. \A a \in js \ {job} : ~Holds(s, a.request.stream) /\ ~Holds(Append(t, m), a.request.stream)
    BY <1>1, <2>4 DEF Apart
  <2>6. \A x : ~(Holds(s, x) /\ Holds(Append(t, m), x))
    BY <1>1, <2>1 DEF Apart
  <2> QED
    BY <2>2, <2>3, <2>5, <2>6 DEF Apart
<1> QED
  BY <1>2, <1>3

(* The helper takes a message. *)
LEMMA ApartHeard ==
  ASSUME NEW s, NEW js, NEW t, IsSequence(t), t # << >>, NEW n, Apart(s, js, t, n)
  PROVE  Apart(s, js, Tail(t), n)
<1>1. \A x : Holds(Tail(t), x) => Holds(t, x)
  BY HoldsFewer
<1>2. Once(Tail(t))
  BY OnceFewer DEF Apart
<1>3. \A x : UnderWay(x, s, js, Tail(t)) => UnderWay(x, s, js, t)
  BY <1>1 DEF UnderWay
<1> QED
  BY <1>1, <1>2, <1>3 DEF Apart

LEMMA ApartNothing == ASSUME NEW n PROVE Apart(<< >>, {}, << >>, n)
<1>1. Len(<< >>) = 0
  OBVIOUS
<1> QED
  BY <1>1 DEF Apart, Once, UnderWay, Holds

(* What the queue does: it keeps to the ids it has, or takes the next one  *)
(* for one entry and for the request it sends.                             *)
Remembers(d) ==
  \A i \in 1 .. Len(d) : d[i].stream # 0 => i \in 1 .. Len(dls) /\ d[i].stream = dls[i].stream
Keeps(sends) == /\ Remembers(dls') /\ UNCHANGED nextStream
                /\ UNCHANGED toServer \/ sends
SendsAny(contents) ==
  \E m : /\ toServer' = Append(toServer, m)
         /\ IF contents THEN m.kind = "contents" /\ m.stream = nextStream ELSE m.kind # "contents"
Numbers ==
  /\ \E d \in Seq(Entries) : \E k \in 1 .. Len(d) :
       Remembers(d) /\ dls' = [d EXCEPT ![k].stream = nextStream]
  /\ nextStream' = StreamAfter(1) /\ SendsAny(TRUE)
Moves == Keeps(SendsAny(FALSE)) \/ Numbers

LEMMA AsksNumbers ==
  ASSUME NEW d \in Seq(Entries), NEW k \in 1 .. Len(d), Remembers(d), Asks(d, k)
  PROVE  Moves
<1>1. Wanted(k, d[k]).kind = "contents" /\ Wanted(k, d[k]).stream = nextStream
  BY DEF Wanted, RangeRequest, SizeRequest, ContentsRequest
<1>2. SendsAny(TRUE)
  BY <1>1 DEF Asks, SendsAny
<1> QED
  BY <1>2 DEF Asks, Numbers, Moves

LEMMA StartMoves ==
  ASSUME ~MayFail, env \in Environments, nextStream \in 1 .. env.streams, IsSequence(toServer),
         NEW d \in Seq(Entries), NEW c \in 0 .. Len(d), StartNext(d, c), Remembers(d)
  PROVE  Moves
<1>1. PICK stop : Stops(d, c, stop)
  BY StartDoes
<1> DEFINE r == Reported(d, c, stop)
<1>2. /\ Len(d) \in Nat /\ DOMAIN d = 1 .. Len(d) /\ stop \in c .. Len(d)
      /\ \A i \in 1 .. Len(d) : d[i] \in Entries
  BY <1>1 DEF Stops
<1>3. /\ r = [i \in 1 .. Len(d) |-> r[i]]
      /\ \A i \in 1 .. Len(d) :
           r[i] = IF i \in c + 1 .. stop /\ d[i].outcome = "none"
                  THEN [d[i] EXCEPT !.outcome = "done"] ELSE d[i]
  BY <1>2 DEF Reported
<1> HIDE DEF r
<1>4. \A i \in 1 .. Len(d) : r[i] \in Entries /\ r[i].stream = d[i].stream
  <2> SUFFICES ASSUME NEW i \in 1 .. Len(d) PROVE r[i] \in Entries /\ r[i].stream = d[i].stream
    OBVIOUS
  <2>1. d[i] \in Entries
    BY <1>2
  <2>2. /\ [d[i] EXCEPT !.outcome = "done"] \in Entries
        /\ [d[i] EXCEPT !.outcome = "done"].stream = d[i].stream
    BY <2>1 DEF Entries
  <2> QED
    BY <1>3, <2>1, <2>2
<1>5. r \in Seq(Entries) /\ Len(r) = Len(d)
  <2>1. r \in [1 .. Len(d) -> Entries]
    BY <1>3, <1>4
  <2> QED
    BY <1>2, <2>1
<1>6. Remembers(r)
  BY <1>4, <1>5 DEF Remembers
<1>7. CASE stop = Len(d)
  <2>1. FinishDownloads(r) /\ UNCHANGED nextStream
    BY <1>1, <1>7 DEF Stops, r
  <2>2. UNCHANGED toServer \/ toServer' = Append(toServer, UnlockMsg(lock.id))
    BY <2>1, OneByOne DEF FinishDownloads, Post
  <2>3. UnlockMsg(lock.id).kind # "contents"
    BY DEF UnlockMsg
  <2>4. UNCHANGED toServer \/ SendsAny(FALSE)
    BY <2>2, <2>3 DEF SendsAny
  <2>5. Remembers(dls')
    BY <1>6, <2>1 DEF FinishDownloads
  <2> QED
    BY <2>1, <2>4, <2>5 DEF Keeps, Moves
<1>8. CASE stop # Len(d)
  <2>1. Asks(r, stop + 1)
    BY <1>1, <1>8 DEF Stops, r
  <2>2. stop + 1 \in 1 .. Len(r)
    <3> DEFINE n == Len(d)
    <3>1. n \in Nat /\ c \in 0 .. n /\ stop \in c .. n /\ stop # n
      BY <1>2, <1>8
    <3> HIDE DEF n
    <3>2. stop + 1 \in 1 .. n
      BY <3>1
    <3> QED
      BY <1>5, <3>2 DEF n
  <2> QED
    BY <1>5, <1>6, <2>1, <2>2, AsksNumbers
<1> QED
  BY <1>7, <1>8

LEMMA AnswerMoves ==
  ASSUME Typed, Reliable, StreamsApart, Connected, Downloads, ContentsAnswered
  PROVE  Moves
<1> DEFINE k == current + 1
<1>1. PICK f \in Entries : Becomes(k, f)
  BY AnswerDoes
<1>2. downloading
  BY DEF ContentsAnswered
<1>3. /\ k \in 1 .. Len(dls) /\ dls \in Seq(Entries) /\ Len(dls) \in Nat
      /\ current \in 0 .. Len(dls) /\ current + 1 \in 0 .. Len(dls)
  BY <1>2, TheEntry DEF Typed, QueueTyped
<1>4. ~MayFail /\ env \in Environments /\ nextStream \in 1 .. env.streams /\ IsSequence(toServer)
  BY DEF Reliable, MayFail, Typed, QueueTyped, IsSequence
<1> HIDE DEF k
<1> DEFINE d == [dls EXCEPT ![k] = f]
<1>5. /\ d \in Seq(Entries) /\ Len(d) = Len(dls) /\ d[k] = f
      /\ \A i \in 1 .. Len(dls) : i # k => d[i] = dls[i]
  <2>1. d \in [1 .. Len(dls) -> Entries]
    BY <1>3
  <2> QED
    BY <1>3, <2>1
<1>6. StartNext(d, current + 1) \/ StartNext(d, current) \/ Asks(d, k)
  BY <1>1 DEF Becomes
<1>7. f.stream = dls[k].stream
  BY <1>1 DEF Becomes
<1> HIDE DEF d
<1>8. Remembers(d)
  BY <1>5, <1>7 DEF Remembers
<1> QED
  BY <1>3, <1>4, <1>5, <1>6, <1>8, StartMoves, AsksNumbers

LEMMA RequestMoves ==
  ASSUME Typed, Reliable, RequestDownload
  PROVE  Moves
<1> DEFINE d == [i \in DOMAIN desc.files |-> Entry(desc, i)]
<1>1. d \in Seq(Entries) /\ Len(d) = Len(desc.files) /\ DescTyped /\ StartNext(d, 0)
  BY QueueMade DEF Typed, RequestDownload
<1>2. DOMAIN desc.files = 1 .. Len(d) /\ Len(d) \in Nat
  BY <1>1 DEF DescTyped
<1>3. \A i \in 1 .. Len(d) : d[i].stream = 0
  BY <1>2 DEF Entry
<1> HIDE DEF d
<1>4. Remembers(d) /\ 0 \in 0 .. Len(d)
  BY <1>2, <1>3 DEF Remembers
<1>5. ~MayFail /\ env \in Environments /\ nextStream \in 1 .. env.streams /\ IsSequence(toServer)
  BY DEF Reliable, MayFail, Typed, QueueTyped, IsSequence
<1> QED
  BY <1>1, <1>4, <1>5, StartMoves

(* The ids remembered and under way are apart, and below the next one. *)
Ordered == Apart(toServer, jobs, toClient, nextStream) /\ Remembered(dls, nextStream)

LEMMA OrderedApart == Typed /\ Ordered => StreamsApart
<1> SUFFICES ASSUME Typed, Ordered PROVE StreamsApart
  OBVIOUS
<1>1. /\ DOMAIN dls = 1 .. Len(dls) /\ DOMAIN toServer = 1 .. Len(toServer)
      /\ DOMAIN toClient = 1 .. Len(toClient)
  BY DEF Typed, QueueTyped
<1>2. /\ \A i \in Asked : i \in 1 .. Len(toServer) /\ toServer[i].kind = "contents"
      /\ \A i \in Answered : i \in 1 .. Len(toClient) /\ toClient[i].kind = "contents"
  BY <1>1 DEF Asked, Answered
<1>3. /\ \A i \in Asked : Holds(toServer, toServer[i].stream)
      /\ \A i \in Answered : Holds(toClient, toClient[i].stream)
  BY <1>2 DEF Holds
<1>4. /\ \A i, j \in Asked : i # j => toServer[i].stream # toServer[j].stream
      /\ \A i, j \in Answered : i # j => toClient[i].stream # toClient[j].stream
  BY <1>2 DEF Ordered, Apart, Once
<1>5. /\ \A i \in Asked, job \in jobs : toServer[i].stream # job.request.stream
      /\ \A i \in Asked, j \in Answered : toServer[i].stream # toClient[j].stream
      /\ \A job \in jobs, j \in Answered : job.request.stream # toClient[j].stream
      /\ \A a, b \in jobs : a # b => a.request.stream # b.request.stream
  BY <1>3 DEF Ordered, Apart
<1>6. \A i, j \in DOMAIN dls : i # j /\ dls[i].stream # 0 => dls[i].stream # dls[j].stream
  BY <1>1 DEF Ordered, Remembered
<1> QED
  BY <1>4, <1>5, <1>6 DEF StreamsApart

(* A queue that remembers ids only, with the next id given to an entry or not. *)
LEMMA RememberedMoves ==
  ASSUME Typed, Remembered(dls, nextStream), nextStream \in Nat \ {0}, NEW d, Remembers(d)
  PROVE  /\ Remembered(d, nextStream)
         /\ \A k \in 1 .. Len(d) :
              d \in Seq(Entries) => Remembered([d EXCEPT ![k].stream = nextStream], nextStream + 1)
<1>1. Remembered(d, nextStream)
  <2> SUFFICES ASSUME NEW i \in 1 .. Len(d)
               PROVE  /\ d[i].stream \in 0 .. nextStream - 1
                      /\ \A j \in 1 .. Len(d) : i # j /\ d[i].stream # 0 => d[i].stream # d[j].stream
    BY DEF Remembered
  <2>1. CASE d[i].stream = 0
    BY <2>1
  <2>2. CASE d[i].stream # 0
    <3>1. i \in 1 .. Len(dls) /\ d[i].stream = dls[i].stream
      BY <2>2 DEF Remembers
    <3>2. d[i].stream \in 0 .. nextStream - 1
      BY <3>1 DEF Remembered
    <3>3. ASSUME NEW j \in 1 .. Len(d), i # j PROVE d[i].stream # d[j].stream
      <4>1. CASE d[j].stream = 0
        BY <2>2, <4>1
      <4>2. CASE d[j].stream # 0
        <5>1. j \in 1 .. Len(dls) /\ d[j].stream = dls[j].stream
          BY <4>2 DEF Remembers
        <5> QED
          BY <2>2, <3>1, <3>3, <5>1 DEF Remembered
      <4> QED
        BY <4>1, <4>2
    <3> QED
      BY <3>2, <3>3
  <2> QED
    BY <2>1, <2>2
<1>2. ASSUME NEW k \in 1 .. Len(d), d \in Seq(Entries)
      PROVE  Remembered([d EXCEPT ![k].stream = nextStream], nextStream + 1)
  <2> DEFINE z == [d EXCEPT ![k].stream = nextStream]
  <2>1. /\ Len(z) = Len(d) /\ Len(d) \in Nat /\ z[k].stream = nextStream
        /\ \A i \in 1 .. Len(d) : i # k => z[i] = d[i]
    BY <1>2 DEF Entries
  <2> HIDE DEF z
  <2>2. \A i \in 1 .. Len(d) : d[i].stream \in 0 .. nextStream - 1
    BY <1>1 DEF Remembered
  <2>3. ASSUME NEW i \in 1 .. Len(d) PROVE z[i].stream \in 0 .. (nextStream + 1) - 1
    BY <2>1, <2>2
  <2>4. ASSUME NEW i \in 1 .. Len(d), NEW j \in 1 .. Len(d), i # j, z[i].stream # 0
        PROVE  z[i].stream # z[j].stream
    <3>1. CASE i # k /\ j # k
      BY <1>1, <2>1, <2>4, <3>1 DEF Remembered
    <3>2. CASE i = k \/ j = k
      BY <2>1, <2>2, <2>4, <3>2
    <3> QED
      BY <3>1, <3>2
  <2> QED
    BY <2>1, <2>3, <2>4 DEF Remembered, z
<1> QED
  BY <1>1, <1>2

LEMMA OrderedMoves ==
  ASSUME Typed, Ordered, nextStream < env.streams, Moves,
         Apart(toServer, jobs', toClient', nextStream)
  PROVE  Ordered'
<1>1. /\ env.streams \in Nat \ {0} /\ nextStream \in 1 .. env.streams /\ IsSequence(toServer)
      /\ nextStream \in Nat \ {0} /\ nextStream \in Nat
  BY EnvTyped DEF Typed, QueueTyped, IsSequence
<1>2. CASE Keeps(SendsAny(FALSE))
  <2>1. Remembered(dls', nextStream)
    BY <1>1, <1>2, RememberedMoves DEF Keeps, Ordered
  <2>2. Apart(toServer', jobs', toClient', nextStream)
    BY <1>1, <1>2, ApartSent DEF Keeps, SendsAny
  <2> QED
    BY <1>2, <2>1, <2>2 DEF Keeps, Ordered
<1>3. CASE Numbers
  <2>1. nextStream' = nextStream + 1
    <3>1. nextStream - 1 + 1 = nextStream /\ nextStream % env.streams = nextStream
      BY <1>1
    <3> QED
      BY <1>3, <3>1 DEF Numbers, StreamAfter
  <2>2. Remembered(dls', nextStream + 1)
    <3>1. PICK d \in Seq(Entries) : \E k \in 1 .. Len(d) :
            Remembers(d) /\ dls' = [d EXCEPT ![k].stream = nextStream]
      BY <1>3 DEF Numbers
    <3>2. PICK k \in 1 .. Len(d) : Remembers(d) /\ dls' = [d EXCEPT ![k].stream = nextStream]
      BY <3>1
    <3>3. Remembered([d EXCEPT ![k].stream = nextStream], nextStream + 1)
      BY <1>1, <3>2, RememberedMoves DEF Ordered
    <3> QED
      BY <3>2, <3>3
  <2>3. Apart(toServer', jobs', toClient', nextStream + 1)
    BY <1>1, <1>3, ApartSent DEF Numbers, SendsAny
  <2> QED
    BY <2>1, <2>2, <2>3 DEF Ordered
<1> QED
  BY <1>2, <1>3 DEF Moves

(* A step that leaves the queue's ids as they are, or forgets them. *)
LEMMA OrderedWaits ==
  ASSUME Typed, Ordered, Remembers(dls'), UNCHANGED nextStream,
         Apart(toServer', jobs', toClient', nextStream)
  PROVE  Ordered'
<1>1. nextStream \in Nat \ {0}
  BY EnvTyped DEF Typed, QueueTyped
<1>2. Remembered(dls', nextStream)
  BY <1>1, RememberedMoves DEF Ordered
<1> QED
  BY <1>2 DEF Ordered

LEMMA OrderedNext ==
  ASSUME Typed, Reliable, StreamsApart, Connected, Downloads, Ordered,
         nextStream < env.streams, [Next]_vars
  PROVE  Ordered'
<1>1. /\ IsSequence(toServer) /\ IsSequence(toClient) /\ ~MayFail
      /\ Apart(toServer, jobs, toClient, nextStream) /\ nextStream \in Nat
  BY EnvTyped DEF Typed, QueueTyped, IsSequence, Reliable, MayFail, Ordered
<1>2. Remembers(dls) /\ Remembers(<< >>)
  <2>1. Len(<< >>) = 0
    OBVIOUS
  <2> QED
    BY <2>1 DEF Remembers
<1>3. ASSUME NEW kind, Receive(kind)
      PROVE  /\ UNCHANGED jobs
             /\ \A m : m.kind # "contents" /\ toServer' = Append(toServer, m)
                         => Apart(toServer', jobs', toClient', nextStream)
             /\ Apart(toServer, jobs', toClient', nextStream)
  <2>1. UNCHANGED jobs /\ toClient # << >> /\ toClient' = Tail(toClient)
    BY <1>3 DEF Receive, serverVars
  <2>2. Apart(toServer, jobs', toClient', nextStream)
    BY <1>1, <2>1, ApartHeard
  <2> QED
    BY <1>1, <2>1, <2>2, ApartSent
<1>4. CASE TextOffered
  <2>1. toServer' = Append(toServer, DataRequest("text"))
    BY <1>1, <1>4, OneByOne DEF TextOffered, Post
  <2>2. DataRequest("text").kind # "contents"
    BY DEF DataRequest
  <2>3. UNCHANGED <<dls, nextStream>> /\ Receive("list")
    BY <1>4 DEF TextOffered
  <2> QED
    BY <1>2, <1>3, <2>1, <2>2, <2>3, OrderedWaits
<1>5. CASE DataAnswered \/ LateAnswer
  <2>1. UNCHANGED <<dls, nextStream, toServer>> /\ (Receive("data") \/ Receive("contents"))
    BY <1>5 DEF DataAnswered, LateAnswer
  <2> QED
    BY <1>2, <1>3, <2>1, OrderedWaits
<1>6. CASE ContentsAnswered
  <2>1. Receive("contents") /\ Moves
    BY <1>6, AnswerMoves DEF ContentsAnswered
  <2> QED
    BY <1>3, <2>1, OrderedMoves
<1>7. CASE FilesOffered
  <2> DEFINE U == UnlockMsg(lock.id)
             L == LockMsg(nextLock)
             D == DataRequest("files")
             s == IF lock.active THEN Append(toServer, U) ELSE toServer
  <2>1. dls' = << >> /\ UNCHANGED nextStream /\ Receive("list")
    BY <1>7 DEF FilesOffered, FreeDownloads
  <2>2. U.kind # "contents" /\ L.kind # "contents" /\ D.kind # "contents"
    BY DEF UnlockMsg, LockMsg, DataRequest
  <2>3. toServer' = Append(Append(s, L), D)
    <3>1. toServer' = toServer \o ((IF lock.active THEN <<U>> ELSE << >>) \o <<L, D>>)
      BY <1>1, <1>7 DEF FilesOffered, Post
    <3> HIDE DEF U, L, D
    <3>2. CASE lock.active
      <4>1. toServer' = toServer \o <<U, L, D>>
        BY <3>1, <3>2
      <4> QED
        BY <1>1, <3>2, <4>1, OneByOne
    <3>3. CASE ~lock.active
      <4>1. toServer' = toServer \o <<L, D>>
        BY <3>1, <3>3
      <4> QED
        BY <1>1, <3>3, <4>1, OneByOne
    <3> QED
      BY <3>2, <3>3
  <2> HIDE DEF U, L, D
  <2>4. Apart(s, jobs', toClient', nextStream) /\ IsSequence(s)
    <3>1. Apart(toServer, jobs', toClient', nextStream)
      BY <1>3, <2>1
    <3>2. Apart(Append(toServer, U), jobs', toClient', nextStream) /\ IsSequence(Append(toServer, U))
      BY <1>1, <2>2, <3>1, ApartSent, Grows
    <3> QED
      BY <1>1, <3>1, <3>2
  <2> HIDE DEF s
  <2>5. Apart(Append(s, L), jobs', toClient', nextStream) /\ IsSequence(Append(s, L))
    BY <1>1, <2>2, <2>4, ApartSent, Grows
  <2>6. Apart(toServer', jobs', toClient', nextStream)
    BY <1>1, <2>2, <2>3, <2>5, ApartSent
  <2> QED
    BY <1>2, <2>1, <2>6, OrderedWaits
<1>8. CASE ChannelDisconnected
  <2>1. /\ dls' = << >> /\ UNCHANGED nextStream
        /\ toServer' = << >> /\ jobs' = {} /\ toClient' = << >>
    BY <1>8 DEF ChannelDisconnected, FreeDownloads
  <2> QED
    BY <1>2, <2>1, ApartNothing, OrderedWaits
<1>9. CASE StartConnection
  <2>1. /\ nextStream' = 1 /\ dls' = << >> /\ toServer' = << >> /\ jobs' = {} /\ toClient' = << >>
    BY <1>9 DEF StartConnection, serverVars, Connected, Down
  <2>2. Remembered(<< >>, 1)
    <3>1. Len(<< >>) = 0
      OBVIOUS
    <3> QED
      BY <3>1 DEF Remembered
  <2> QED
    BY <2>1, <2>2, ApartNothing DEF Ordered
<1>10. CASE RequestDownload
  <2>1. UNCHANGED <<jobs, toClient>> /\ Moves
    BY <1>10, RequestMoves DEF RequestDownload, serverVars
  <2> QED
    BY <1>1, <2>1, OrderedMoves
<1>11. ASSUME NEW c \in Contents, Copy(c) PROVE Ordered'
  <2> DEFINE m == [kind |-> "list", files |-> c # << >>]
  <2>1. /\ UNCHANGED <<dls, nextStream, toServer, jobs>>
        /\ toClient' = Append(toClient, m) /\ m.kind # "contents"
    BY <1>11 DEF Copy, clientVars
  <2> HIDE DEF m
  <2>2. Apart(toServer', jobs', toClient', nextStream)
    BY <1>1, <2>1, ApartAnswered
  <2> QED
    BY <1>2, <2>1, <2>2, OrderedWaits
<1>12. ASSUME NEW kind, Accept(kind)
       PROVE  /\ toServer # << >> /\ Head(toServer).kind = kind /\ toServer' = Tail(toServer)
              /\ UNCHANGED <<dls, nextStream>> /\ Apart(toServer', jobs, toClient, nextStream)
  <2>1. /\ toServer # << >> /\ Head(toServer).kind = kind /\ toServer' = Tail(toServer)
        /\ UNCHANGED <<dls, nextStream>>
    BY <1>12 DEF Accept, clientVars
  <2> QED
    BY <1>1, <2>1, ApartTaken
<1>13. CASE AcceptLock \/ AcceptUnlock
  <2>1. (Accept("lock") \/ Accept("unlock")) /\ UNCHANGED <<toClient, jobs>>
    BY <1>13 DEF AcceptLock, AcceptUnlock
  <2> QED
    BY <1>2, <1>12, <2>1, OrderedWaits
<1>14. CASE AcceptDataRequest
  <2>1. Accept("data") /\ UNCHANGED jobs
    BY <1>14 DEF AcceptDataRequest
  <2>2. PICK result :
          toClient' = Append(toClient, [kind |-> "data", what |-> Request.what, result |-> result,
                                        copy |-> IF Copied = << >> THEN 0 ELSE Len(copies),
                                        files |-> Copied])
    BY <1>14 DEF AcceptDataRequest
  <2>3. Apart(toServer', jobs', toClient', nextStream)
    BY <1>1, <1>12, <2>1, <2>2, ApartAnswered
  <2> QED
    BY <1>2, <1>12, <2>1, <2>3, OrderedWaits
<1>15. CASE AcceptContentsRequest
  <2> DEFINE new == [request |-> Request,
                     copy |-> IF \E l \in held : l.id = Request.lock
                              THEN (CHOOSE l \in held : l.id = Request.lock).copy ELSE Len(copies)]
  <2>1. Accept("contents") /\ UNCHANGED toClient /\ jobs' = jobs \cup {new}
    BY <1>15 DEF AcceptContentsRequest
  <2>2. new.request.stream = Head(toServer).stream
    BY DEF Request
  <2> HIDE DEF new
  <2>3. Apart(toServer', jobs', toClient', nextStream)
    <3>1. toServer # << >> /\ Head(toServer).kind = "contents" /\ toServer' = Tail(toServer)
      BY <1>12, <2>1
    <3>2. Apart(Tail(toServer), jobs \cup {new}, toClient, nextStream)
      BY <1>1, <2>2, <3>1, ApartTaken
    <3> QED
      BY <2>1, <3>1, <3>2
  <2> QED
    BY <1>2, <1>12, <2>1, <2>3, OrderedWaits
<1>16. ASSUME NEW job \in jobs, AnswerContents(job) PROVE Ordered'
  <2>1. UNCHANGED <<dls, nextStream, toServer>> /\ jobs' = jobs \ {job}
    BY <1>16 DEF AnswerContents, clientVars
  <2>2. \E result, size, data :
          toClient' = Append(toClient, [kind |-> "contents", stream |-> job.request.stream,
                                        result |-> result, size |-> size, data |-> data])
    <3> DEFINE r == job.request
               files == copies[job.copy]
               size == IF r.index \in DOMAIN files /\ files[r.index] # Dir THEN files[r.index] ELSE 0
               readable == IF r.want < size - r.from THEN r.want ELSE size - r.from
               has == r.index \in DOMAIN files /\ (r.want = 0 \/ readable > 0)
               data(result, n) == IF r.want = 0 \/ result # "ok" THEN << >>
                                  ELSE Blocks(job.copy, r.index, r.from, n)
    <3>1. \E result \in Results(has) : \E n \in 1 .. (IF readable > 1 THEN readable ELSE 1) :
            toClient' = Append(toClient, [kind |-> "contents", stream |-> r.stream,
                                          result |-> result, size |-> size, data |-> data(result, n)])
      BY <1>16 DEF AnswerContents
    <3> HIDE DEF size, readable, has, data
    <3> QED
      BY <3>1
  <2>3. PICK m : toClient' = Append(toClient, m) /\ m.stream = job.request.stream
    BY <2>2
  <2>4. Apart(toServer', jobs', toClient', nextStream)
    BY <1>1, <2>1, <2>3, ApartAnswered
  <2> QED
    BY <1>2, <2>1, <2>4, OrderedWaits
<1>17. CASE UNCHANGED vars
  <2>1. UNCHANGED <<dls, nextStream, toServer, jobs, toClient>>
    BY <1>17 DEF vars
  <2> QED
    BY <2>1 DEF Ordered
<1>18. ~ListNotAcknowledged
  BY <1>1 DEF ListNotAcknowledged
<1> QED
  BY <1>4, <1>5, <1>6, <1>7, <1>8, <1>9, <1>10, <1>11, <1>13, <1>14, <1>15, <1>16, <1>17, <1>18
     DEF Next, EventLoop, Server

(* In a connection that loses nothing the stream ids in use are apart for  *)
(* as long as their counter does not wrap (send_file_contents_request      *)
(* counts to 2^31-1): the condition of the theorem above is met by every   *)
(* connection with fewer requests, and there done files are whole.         *)
THEOREM StreamsApartUntilTheyWrap ==
  Spec => ([](Reliable /\ nextStream < env.streams) => [](StreamsApart /\ DoneFilesAreWhole))
<1> DEFINE Inv == Fetching /\ (Reliable => Ordered)
           Early == Reliable /\ nextStream < env.streams
<1>1. Init => Inv
  <2>1. Init => Shown
    BY DEF Init, Shown, Waiting, DownloadOfTheListShown
  <2>2. ASSUME Init PROVE Ordered
    <3>1. /\ dls = << >> /\ toServer = << >> /\ jobs = {} /\ toClient = << >> /\ Len(<< >>) = 0
      BY <2>2 DEF Init
    <3> QED
      BY <3>1, ApartNothing DEF Ordered, Remembered
  <2> QED
    BY <2>1, <2>2, TypedInit, ConnectedInit, DownloadsInit DEF Fetching
<1>2. (Typed /\ Ordered)' => StreamsApart'
  BY OrderedApart, PTL
<1>3. Inv /\ Early /\ [Next]_vars => Inv'
  <2> SUFFICES ASSUME Inv, Early, [Next]_vars PROVE Inv'
    OBVIOUS
  <2>1. Typed /\ Connected /\ Downloads /\ Ordered /\ Reliable /\ Fetching /\ nextStream < env.streams
    BY DEF Fetching
  <2>2. StreamsApart
    BY <2>1, OrderedApart
  <2>3. Ordered' /\ Typed'
    BY <2>1, <2>2, OrderedNext, TypedNext
  <2>4. StreamsApart'
    BY <1>2, <2>3
  <2>5. Fetching'
    BY <2>1, <2>2, <2>4, FetchingNext
  <2> QED
    BY <2>3, <2>5
<1>4. Inv /\ Early => StreamsApart /\ DoneFilesAreWhole
  <2> SUFFICES ASSUME Inv, Early PROVE StreamsApart /\ DoneFilesAreWhole
    OBVIOUS
  <2>1. Typed /\ Downloads /\ Ordered
    BY DEF Fetching
  <2> QED
    BY <2>1, OrderedApart, DownloadsAreWhole
<1> HIDE DEF Inv, Early
<1>5. Spec => ([]Early => [](StreamsApart /\ DoneFilesAreWhole))
  BY <1>1, <1>3, <1>4, PTL DEF Spec
<1> QED
  BY <1>5 DEF Early
=============================================================================
