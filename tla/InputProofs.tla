---------------------------- MODULE InputProofs ----------------------------
(***************************************************************************)
(* Theorems about input on both sides of the pipe (MCInput), for any       *)
(* callers, operations and commands.                                       *)
(***************************************************************************)
EXTENDS MCInput, SequenceTheorems, WellFoundedInduction, TLAPS

-----------------------------------------------------------------------------
(* What is pressed after a part of a sequence of events: what was and is   *)
(* not mentioned, and what is mentioned last by a press.                   *)

ThingOf(e) == Thing(e.type, Parse(e.type, e.args))
About(e, x) == e.type \in Presses \cup Releases /\ ThingOf(e) = x
Pressed(s, n, before) ==
  {x \in before : \A j \in 1 .. n : ~About(s[j], x)}
  \cup {ThingOf(s[i]) : i \in {k \in 1 .. n : /\ s[k].type \in Presses
                                              /\ \A j \in k + 1 .. n : ~About(s[j], ThingOf(s[k]))}}

(* How one event changes what is pressed. *)
After(before, e) == HeldAfter(before, e.type, Parse(e.type, e.args))

LEMMA AfterIs ==
  ASSUME NEW before, NEW e, NEW x
  PROVE  x \in After(before, e) <=> IF About(e, x) THEN e.type \in Presses ELSE x \in before
<1>1. Presses \cap Releases = {}
  BY DEF Presses, Releases
<1> QED
  BY <1>1 DEF After, HeldAfter, About, ThingOf

LEMMA PressedIs ==
  ASSUME NEW s, NEW n, NEW before, NEW x
  PROVE  x \in Pressed(s, n, before) <=>
           \/ x \in before /\ \A j \in 1 .. n : ~About(s[j], x)
           \/ \E i \in 1 .. n : /\ About(s[i], x) /\ s[i].type \in Presses
                                /\ \A j \in i + 1 .. n : ~About(s[j], x)
  BY DEF Pressed, About

(* No event, nothing changes. *)
LEMMA PressedNone == ASSUME NEW s, NEW before PROVE Pressed(s, 0, before) = before
  BY DEF Pressed

(* The last event of the part comes after the others, *)
LEMMA PressedNext ==
  ASSUME NEW s, NEW n \in Nat, NEW before
  PROVE  Pressed(s, n + 1, before) = After(Pressed(s, n, before), s[n + 1])
<1> SUFFICES ASSUME NEW x
             PROVE  x \in Pressed(s, n + 1, before) <=> x \in After(Pressed(s, n, before), s[n + 1])
  OBVIOUS
<1>1. CASE About(s[n + 1], x)
  <2>1. x \in After(Pressed(s, n, before), s[n + 1]) <=> s[n + 1].type \in Presses
    BY <1>1, AfterIs
  <2>2. n + 1 \in 1 .. n + 1 /\ \A i \in 1 .. n : n + 1 \in i + 1 .. n + 1
    OBVIOUS
  <2>3. \A i \in 1 .. n + 1 : i = n + 1 \/ i \in 1 .. n
    OBVIOUS
  <2>4. \A j \in n + 1 + 1 .. n + 1 : FALSE
    OBVIOUS
  <2>5. x \in Pressed(s, n + 1, before) <=> s[n + 1].type \in Presses
    BY <1>1, <2>2, <2>3, <2>4, PressedIs, Zenon
  <2> QED
    BY <2>1, <2>5
<1>2. CASE ~About(s[n + 1], x)
  <2>1. x \in After(Pressed(s, n, before), s[n + 1]) <=> x \in Pressed(s, n, before)
    BY <1>2, AfterIs
  <2>2. \A i \in 1 .. n + 1 : i = n + 1 \/ i \in 1 .. n
    OBVIOUS
  <2>3. \A i \in 1 .. n : i \in 1 .. n + 1
    OBVIOUS
  <2>4. \A i \in 1 .. n : \A j \in i + 1 .. n + 1 : j = n + 1 \/ j \in i + 1 .. n
    OBVIOUS
  <2>5. \A i \in 1 .. n : \A j \in i + 1 .. n : j \in i + 1 .. n + 1
    OBVIOUS
  <2>6. (\A j \in 1 .. n + 1 : ~About(s[j], x)) <=> \A j \in 1 .. n : ~About(s[j], x)
    BY <1>2, <2>2, <2>3
  <2>7. \A i \in 1 .. n : (\A j \in i + 1 .. n + 1 : ~About(s[j], x))
                            <=> \A j \in i + 1 .. n : ~About(s[j], x)
    BY <1>2, <2>4, <2>5
  <2>8. x \in Pressed(s, n + 1, before) <=> x \in Pressed(s, n, before)
    BY <1>2, <2>2, <2>3, <2>6, <2>7, PressedIs
  <2> QED
    BY <2>1, <2>8
<1> QED
  BY <1>1, <1>2

(* the first one before them. *)
LEMMA PressedTail ==
  ASSUME NEW S, NEW s \in Seq(S), NEW n \in Nat, n + 1 <= Len(s), NEW before
  PROVE  Pressed(s, n + 1, before) = Pressed(Tail(s), n, After(before, Head(s)))
<1> SUFFICES ASSUME NEW x
             PROVE  x \in Pressed(s, n + 1, before)
                      <=> x \in Pressed(Tail(s), n, After(before, Head(s)))
  OBVIOUS
<1>1. s # << >> /\ Head(s) = s[1] /\ \A i \in 1 .. n : Tail(s)[i] = s[i + 1]
  OBVIOUS
<1> DEFINE P(j) == About(s[j], x)
           T(j) == About(Tail(s)[j], x)
<1>2. \A i \in 1 .. n : T(i) <=> P(i + 1)
  BY <1>1
<1>3. (\A j \in 1 .. n + 1 : ~P(j)) <=> ~P(1) /\ \A j \in 1 .. n : ~T(j)
  <2>1. \A j \in 1 .. n + 1 : j = 1 \/ (j - 1 \in 1 .. n /\ (j - 1) + 1 = j)
    OBVIOUS
  <2>2. 1 \in 1 .. n + 1 /\ \A j \in 1 .. n : j + 1 \in 1 .. n + 1
    OBVIOUS
  <2> HIDE DEF P, T
  <2>3. ASSUME NEW j \in 1 .. n + 1, P(j) PROVE P(1) \/ \E k \in 1 .. n : T(k)
    <3>1. CASE j = 1
      BY <2>3, <3>1
    <3>2. CASE j # 1
      <4>1. PICK k : k = j - 1
        OBVIOUS
      <4>2. k \in 1 .. n /\ k + 1 = j
        BY <2>1, <3>2, <4>1
      <4> QED
        BY <1>2, <2>3, <4>2
    <3> QED
      BY <3>1, <3>2
  <2>4. ASSUME NEW k \in 1 .. n, T(k) PROVE \E j \in 1 .. n + 1 : P(j)
    BY <1>2, <2>2, <2>4
  <2> QED
    BY <2>2, <2>3, <2>4, Zenon
<1>4. \A i \in 1 .. n : (\A j \in i + 1 .. n : ~T(j)) <=> \A j \in i + 1 + 1 .. n + 1 : ~P(j)
  <2> SUFFICES ASSUME NEW i \in 1 .. n
               PROVE  (\A j \in i + 1 .. n : ~T(j)) <=> \A j \in i + 1 + 1 .. n + 1 : ~P(j)
    OBVIOUS
  <2>1. \A j \in i + 1 + 1 .. n + 1 : j - 1 \in i + 1 .. n /\ (j - 1) + 1 = j
    OBVIOUS
  <2>2. \A j \in i + 1 .. n : j + 1 \in i + 1 + 1 .. n + 1 /\ j \in 1 .. n
    OBVIOUS
  <2> HIDE DEF P, T
  <2>3. \A j \in i + 1 .. n : T(j) <=> P(j + 1)
    BY <1>2, <2>2
  <2>4. ASSUME NEW j \in i + 1 + 1 .. n + 1, P(j) PROVE \E k \in i + 1 .. n : T(k)
    <3>1. PICK k : k = j - 1
      OBVIOUS
    <3>2. k \in i + 1 .. n /\ k + 1 = j
      BY <2>1, <3>1
    <3>3. T(k)
      BY <2>3, <2>4, <3>2, Zenon
    <3> QED
      BY <3>2, <3>3
  <2>5. ASSUME NEW k \in i + 1 .. n, T(k) PROVE \E j \in i + 1 + 1 .. n + 1 : P(j)
    BY <2>2, <2>3, <2>5
  <2> QED
    BY <2>4, <2>5, Zenon
<1>5. (\A j \in 1 + 1 .. n + 1 : ~P(j)) <=> \A j \in 1 .. n : ~T(j)
  <2>1. \A j \in 1 + 1 .. n + 1 : j - 1 \in 1 .. n /\ (j - 1) + 1 = j
    OBVIOUS
  <2>2. \A j \in 1 .. n : j + 1 \in 1 + 1 .. n + 1
    OBVIOUS
  <2> HIDE DEF P, T
  <2>3. ASSUME NEW j \in 1 + 1 .. n + 1, P(j) PROVE \E k \in 1 .. n : T(k)
    <3>1. PICK k : k = j - 1
      OBVIOUS
    <3>2. k \in 1 .. n /\ k + 1 = j
      BY <2>1, <3>1
    <3>3. T(k)
      BY <1>2, <2>3, <3>2, Zenon
    <3> QED
      BY <3>2, <3>3
  <2>4. ASSUME NEW k \in 1 .. n, T(k) PROVE \E j \in 1 + 1 .. n + 1 : P(j)
    BY <1>2, <2>2, <2>4
  <2> QED
    BY <2>3, <2>4, Zenon
<1>6. x \in After(before, Head(s)) <=> IF P(1) THEN s[1].type \in Presses ELSE x \in before
  BY <1>1, AfterIs
<1>7. x \in Pressed(s, n + 1, before) <=>
        \/ x \in before /\ \A j \in 1 .. n + 1 : ~P(j)
        \/ \E i \in 1 .. n + 1 : /\ P(i) /\ s[i].type \in Presses
                                 /\ \A j \in i + 1 .. n + 1 : ~P(j)
  BY PressedIs
<1>8. x \in Pressed(Tail(s), n, After(before, Head(s))) <=>
        \/ x \in After(before, Head(s)) /\ \A j \in 1 .. n : ~T(j)
        \/ \E i \in 1 .. n : /\ T(i) /\ Tail(s)[i].type \in Presses
                             /\ \A j \in i + 1 .. n : ~T(j)
  BY PressedIs
<1> DEFINE D(i) == s[i].type \in Presses
           Final(i) == \A j \in i + 1 .. n + 1 : ~P(j)
<1>9. (\E i \in 1 .. n : T(i) /\ Tail(s)[i].type \in Presses /\ \A j \in i + 1 .. n : ~T(j))
        <=> \E i \in 1 .. n : P(i + 1) /\ D(i + 1) /\ Final(i + 1)
  BY <1>1, <1>2, <1>4
<1>10. (\E i \in 1 .. n + 1 : P(i) /\ D(i) /\ Final(i))
         <=> \/ P(1) /\ D(1) /\ Final(1)
             \/ \E i \in 1 .. n : P(i + 1) /\ D(i + 1) /\ Final(i + 1)
  <2>1. \A j \in 1 .. n + 1 : j = 1 \/ (j - 1 \in 1 .. n /\ (j - 1) + 1 = j)
    OBVIOUS
  <2>2. 1 \in 1 .. n + 1 /\ \A j \in 1 .. n : j + 1 \in 1 .. n + 1
    OBVIOUS
  <2> HIDE DEF P, D, Final
  <2> QED
    BY <2>1, <2>2
<1>11. Final(1) <=> \A j \in 1 .. n : ~T(j)
  BY <1>5
<1> HIDE DEF P, T, D
<1> QED
  BY <1>3, <1>6, <1>7, <1>8, <1>9, <1>10, <1>11 DEF D

(* The part is all that counts. *)
LEMMA PressedSame ==
  ASSUME NEW s, NEW t, NEW n \in Nat, NEW before, \A i \in 1 .. n : s[i] = t[i]
  PROVE  Pressed(s, n, before) = Pressed(t, n, before)
<1> SUFFICES ASSUME NEW x PROVE x \in Pressed(s, n, before) <=> x \in Pressed(t, n, before)
  OBVIOUS
<1>1. \A i \in 1 .. n : \A j \in i + 1 .. n : j \in 1 .. n
  OBVIOUS
<1> QED
  BY <1>1, PressedIs

-----------------------------------------------------------------------------
(* Induction by the least counterexample. *)

LEMMA LeastOf ==
  ASSUME NEW T \in SUBSET Nat, T # {}
  PROVE  \E x \in T : \A y \in T : x <= y
<1> DEFINE R == OpToRel(<, Nat)
<1>1. \A x, y \in Nat : y < x => <<y, x>> \in R
  BY DEF OpToRel
<1> HIDE DEF R
<1>2. IsWellFoundedOn(R, Nat)
  BY NatLessThanWellFounded DEF R
<1>3. PICK x \in T : \A y \in T : ~ (<<y, x>> \in R)
  BY <1>2, WFMin
<1>4. \A y \in T : ~ (y < x)
  BY <1>1, <1>3
<1>5. \A y \in T : x \in Nat /\ y \in Nat
  OBVIOUS
<1>6. \A y \in T : x <= y
  BY <1>4, <1>5
<1> QED
  BY <1>6

(* What holds of 1, and of k + 1 with k, holds up to n. *)
LEMMA UpTo ==
  ASSUME NEW n \in Nat, NEW G \in SUBSET (1 .. n), n = 0 \/ 1 \in G,
         \A k \in 1 .. n - 1 : k \in G => k + 1 \in G
  PROVE  G = 1 .. n
<1> SUFFICES ASSUME (1 .. n) \ G # {} PROVE FALSE
  OBVIOUS
<1> DEFINE Bad == (1 .. n) \ G
<1>0. Bad \in SUBSET Nat /\ Bad # {}
  OBVIOUS
<1>1. PICK x \in Bad : \A y \in Bad : x <= y
  <2> HIDE DEF Bad
  <2> QED
    BY <1>0, LeastOf
<1>2. x # 1 /\ x \in 1 .. n
  BY <1>1
<1>3. x - 1 \in 1 .. n - 1 /\ ~ (x <= x - 1) /\ x - 1 \in 1 .. n /\ (x - 1) + 1 = x
  BY <1>2
<1>4. x - 1 \in G
  BY <1>1, <1>3
<1> QED
  BY <1>1, <1>3, <1>4

(* When a thing is only ever pressed, and once at least, it is pressed. *)
LEMMA PressedOnly ==
  ASSUME NEW s, NEW n \in Nat, NEW before, NEW x, NEW i \in 1 .. n, About(s[i], x),
         \A j \in 1 .. n : About(s[j], x) => s[j].type \in Presses
  PROVE  x \in Pressed(s, n, before)
<1> DEFINE T == {n - j : j \in {k \in 1 .. n : About(s[k], x)}}
<1>1. T \in SUBSET Nat /\ T # {}
  OBVIOUS
<1>2. PICK d \in T : \A y \in T : d <= y
  BY <1>1, LeastOf
<1>3. PICK k \in 1 .. n : About(s[k], x) /\ d = n - k
  BY <1>2
<1>4. ASSUME NEW j \in k + 1 .. n PROVE ~About(s[j], x)
  <2>1. j \in 1 .. n /\ ~ (n - k <= n - j)
    OBVIOUS
  <2> QED
    BY <1>2, <1>3, <2>1
<1> QED
  BY <1>3, <1>4, PressedIs

(* A set of sequences that has the empty one and is closed under           *)
(* concatenation is closed under FlattenSeq.                               *)
LEMMA FlattenClosed ==
  ASSUME NEW T, << >> \in T, \A a, b \in T : a \o b \in T, NEW ss \in Seq(T)
  PROVE  FlattenSeq(ss) \in T
<1>1. CASE ss = << >>
  BY <1>1 DEF FlattenSeq
<1>2. CASE ss # << >>
  <2> DEFINE n == Len(ss)
             Flat(g, k) == g = [i \in 1 .. k |-> IF i = 1 THEN ss[i] ELSE g[i - 1] \o ss[i]]
             f == CHOOSE g : Flat(g, n)
             Good == {k \in 1 .. n : \E g : Flat(g, k)}
  <2>1. n \in Nat \ {0} /\ \A i \in 1 .. n : ss[i] \in T
    BY <1>2
  <2>2. 1 \in Good
    <3> DEFINE g == [i \in 1 .. 1 |-> ss[1]]
    <3>1. Flat(g, 1)
      OBVIOUS
    <3>2. 1 \in 1 .. n
      BY <2>1
    <3> HIDE DEF g, Flat
    <3> QED
      BY <3>1, <3>2
  <2>3. ASSUME NEW k \in 1 .. n - 1, k \in Good PROVE k + 1 \in Good
    <3>1. PICK g : Flat(g, k)
      BY <2>3
    <3> DEFINE h == [i \in 1 .. k + 1 |-> IF i = k + 1 THEN g[k] \o ss[k + 1] ELSE g[i]]
    <3>2. \A i \in 1 .. k : g[i] = IF i = 1 THEN ss[i] ELSE g[i - 1] \o ss[i]
      BY <3>1
    <3>3. ASSUME NEW i \in 1 .. k + 1
          PROVE  h[i] = IF i = 1 THEN ss[i] ELSE h[i - 1] \o ss[i]
      <4>1. CASE i = k + 1
        <5>1. i # 1 /\ i - 1 = k /\ k # k + 1 /\ k \in 1 .. k + 1
          BY <4>1, <2>1
        <5>2. h[i - 1] = g[k]
          BY <5>1
        <5> QED
          BY <4>1, <5>1, <5>2
      <4>2. CASE i # k + 1
        <5>1. i \in 1 .. k /\ (i # 1 => i - 1 \in 1 .. k + 1 /\ i - 1 # k + 1)
          BY <4>2, <2>1
        <5>2. h[i] = g[i] /\ (i # 1 => h[i - 1] = g[i - 1])
          BY <4>2, <5>1
        <5> HIDE DEF h
        <5> QED
          BY <3>2, <5>1, <5>2
      <4> QED
        BY <4>1, <4>2
    <3>4. Flat(h, k + 1)
      <4>1. h = [i \in 1 .. k + 1 |-> h[i]]
        OBVIOUS
      <4> HIDE DEF h
      <4> QED
        BY <3>3, <4>1
    <3>5. k + 1 \in 1 .. n
      BY <2>1
    <3> QED
      BY <3>4, <3>5
  <2>4. n \in Good
    <3>1. Good = 1 .. n
      <4> HIDE DEF Good
      <4>1. Good \in SUBSET (1 .. n)
        BY DEF Good
      <4> QED
        BY <2>1, <2>2, <2>3, <4>1, UpTo
    <3> HIDE DEF Good
    <3> QED
      BY <2>1, <3>1
  <2>5. Flat(f, n)
    BY <2>4
  <2>6. FlattenSeq(ss) = f[n]
    <3>1. Len(ss) # 0
      BY <1>2
    <3> QED
      BY <3>1, Zenon DEF FlattenSeq
  <2> DEFINE Typed == {k \in 1 .. n : f[k] \in T}
  <2> HIDE DEF f
  <2>7. \A i \in 1 .. n : f[i] = IF i = 1 THEN ss[i] ELSE f[i - 1] \o ss[i]
    BY <2>5
  <2>8. 1 \in Typed
    BY <2>1, <2>7
  <2>9. ASSUME NEW k \in 1 .. n - 1, k \in Typed PROVE k + 1 \in Typed
    <3>1. k + 1 \in 1 .. n /\ k + 1 # 1 /\ (k + 1) - 1 = k
      BY <2>1
    <3>2. f[k + 1] = f[k] \o ss[k + 1]
      BY <2>7, <3>1
    <3> QED
      BY <2>1, <2>9, <3>1, <3>2
  <2>10. Typed = 1 .. n
    <3> HIDE DEF Typed
    <3>1. Typed \in SUBSET (1 .. n)
      BY DEF Typed
    <3> QED
      BY <2>1, <2>8, <2>9, <3>1, UpTo
  <2> QED
    BY <2>1, <2>6, <2>10
<1> QED
  BY <1>1, <1>2

-----------------------------------------------------------------------------
(* What the commands of the operations press and release. *)

LEMMA KeyAbout ==
  ASSUME NEW k, NEW down \in BOOLEAN, NEW x
  PROVE  /\ About(KeyEvent(k, down), x) <=> x = <<"key", k, FALSE>>
         /\ KeyEvent(k, down).type \in Presses <=> down
         /\ KeyEvent(k, down) # Pause
<1>1. CASE down
  <2>1. KeyEvent(k, down) = [type |-> "key_down", args |-> [scancode |-> k, extended |-> FALSE]]
    BY <1>1 DEF KeyEvent, Command
  <2>2. /\ Parse("key_down", [scancode |-> k, extended |-> FALSE]).scancode = k
        /\ Parse("key_down", [scancode |-> k, extended |-> FALSE]).extended = FALSE
    BY DEF Parse, Members, Key
  <2>3. Thing("key_down", Parse("key_down", [scancode |-> k, extended |-> FALSE])) = <<"key", k, FALSE>>
    BY <2>2 DEF Thing
  <2>4. /\ KeyEvent(k, down).type = "key_down"
        /\ KeyEvent(k, down).args = [scancode |-> k, extended |-> FALSE]
    BY <2>1
  <2>5. ThingOf(KeyEvent(k, down)) = <<"key", k, FALSE>>
    BY <2>3, <2>4, Zenon DEF ThingOf
  <2>6. KeyEvent(k, down) # Pause
    BY <2>4 DEF Pause
  <2> QED
    BY <1>1, <2>4, <2>5, <2>6 DEF About, Presses, Releases
<1>2. CASE ~down
  <2>1. KeyEvent(k, down) = [type |-> "key_up", args |-> [scancode |-> k, extended |-> FALSE]]
    BY <1>2 DEF KeyEvent, Command
  <2>2. /\ Parse("key_up", [scancode |-> k, extended |-> FALSE]).scancode = k
        /\ Parse("key_up", [scancode |-> k, extended |-> FALSE]).extended = FALSE
    BY DEF Parse, Members, Key
  <2>3. Thing("key_up", Parse("key_up", [scancode |-> k, extended |-> FALSE])) = <<"key", k, FALSE>>
    BY <2>2 DEF Thing
  <2>4. /\ KeyEvent(k, down).type = "key_up"
        /\ KeyEvent(k, down).args = [scancode |-> k, extended |-> FALSE]
    BY <2>1
  <2>5. ThingOf(KeyEvent(k, down)) = <<"key", k, FALSE>>
    BY <2>3, <2>4, Zenon DEF ThingOf
  <2>6. KeyEvent(k, down) # Pause
    BY <2>4 DEF Pause
  <2> QED
    BY <1>2, <2>4, <2>5, <2>6 DEF About, Presses, Releases
<1> QED
  BY <1>1, <1>2

LEMMA NothingAbout ==
  /\ \A x : ~About(Pause, x)
  /\ \A a, x : ~About(Move(a), x)
  BY DEF About, Pause, Move, Command, Presses, Releases

LEMMA ButtonAbout ==
  ASSUME NEW a, NEW b, NEW x
  PROVE  /\ About(ButtonEvent("mouse_button_down", a, b), x)
              <=> About(ButtonEvent("mouse_button_up", a, b), x)
         /\ \A c : About(ButtonEvent("mouse_button_up", a, b), x)
                     <=> About(ButtonEvent("mouse_button_up", c, b), x)
         /\ About(ButtonEvent("mouse_button_up", a, b), x) => x[1] = "button"
         /\ ButtonEvent("mouse_button_up", a, b).type \notin Presses
         /\ ButtonEvent("mouse_button_down", a, b).type \in Presses
<1>1. ASSUME NEW t \in {"mouse_button_down", "mouse_button_up"}, NEW c
      PROVE  /\ ButtonEvent(t, c, b).type = t
             /\ About(ButtonEvent(t, c, b), x) <=> x = <<"button", ButtonUpFlag(b), FALSE>>
  <2>1. Parse(t, [x |-> c, y |-> 0, button |-> b]).button = b
    BY DEF Parse, Members, Button
  <2>2. ButtonEvent(t, c, b) = [type |-> t, args |-> [x |-> c, y |-> 0, button |-> b]]
    BY DEF ButtonEvent, Command
  <2>3. ButtonUpFlag(b) = ButtonDownFlag(b)
    BY DEF ButtonUpFlag, ButtonDownFlag
  <2>4. Thing(t, Parse(t, [x |-> c, y |-> 0, button |-> b])) = <<"button", ButtonUpFlag(b), FALSE>>
    BY <2>1, <2>3 DEF Thing
  <2>5. /\ ButtonEvent(t, c, b).type = t
        /\ ButtonEvent(t, c, b).args = [x |-> c, y |-> 0, button |-> b]
    BY <2>2
  <2>6. ThingOf(ButtonEvent(t, c, b)) = <<"button", ButtonUpFlag(b), FALSE>>
    BY <2>4, <2>5, Zenon DEF ThingOf
  <2> QED
    BY <2>5, <2>6 DEF About, Presses, Releases
<1>2. <<"button", ButtonUpFlag(b), FALSE>>[1] = "button"
  OBVIOUS
<1>3. /\ "mouse_button_up" \notin Presses /\ "mouse_button_down" \in Presses
  BY DEF Presses
<1> QED
  BY <1>1, <1>2, <1>3

Down(u) == Command("unicode_key_down", [code_unit |-> u])
Up(u) == Command("unicode_key_up", [code_unit |-> u])

LEMMA UnitAbout ==
  ASSUME NEW u, NEW x
  PROVE  /\ About(Down(u), x) <=> x = <<"unit", u, FALSE>>
         /\ About(Up(u), x) <=> x = <<"unit", u, FALSE>>
         /\ Up(u).type \notin Presses
<1>1. ASSUME NEW t \in {"unicode_key_down", "unicode_key_up"}
      PROVE  About(Command(t, [code_unit |-> u]), x) <=> x = <<"unit", u, FALSE>>
  <2>1. Parse(t, [code_unit |-> u]).code_unit = u
    BY DEF Parse, Members, Unit
  <2>2. Thing(t, Parse(t, [code_unit |-> u])) = <<"unit", u, FALSE>>
    BY <2>1 DEF Thing
  <2> QED
    BY <2>2 DEF About, ThingOf, Presses, Releases, Command
<1> QED
  BY <1>1 DEF Up, Down, Command, Presses

-----------------------------------------------------------------------------
(* The steps of the operations. *)

(* c is a followed by b. *)
Joined(S, a, b, c) ==
  /\ c \in Seq(S) /\ Len(c) = Len(a) + Len(b)
  /\ \A i \in 1 .. Len(a) : c[i] = a[i]
  /\ \A i \in 1 .. Len(b) : c[Len(a) + i] = b[i]

LEMMA JoinIs ==
  ASSUME NEW S, NEW a \in Seq(S), NEW b \in Seq(S)
  PROVE  Joined(S, a, b, a \o b)
  BY DEF Joined

(* The parts of a sequence that is put together of four. *)
PutTogether(S, n, a, b, c, d, s) ==
  /\ s \in Seq(S) /\ Len(s) = 4 * n + 4
  /\ \A i \in 1 .. 2 * n : s[i] = a[i]
  /\ s[2 * n + 1] = b[1] /\ s[2 * n + 2] = b[2] /\ s[2 * n + 3] = b[3]
  /\ \A i \in 1 .. 2 * n : s[2 * n + 3 + i] = c[i]
  /\ s[4 * n + 4] = d[1]

LEMMA FourParts ==
  ASSUME NEW S, NEW n \in Nat, NEW a \in Seq(S), NEW b \in Seq(S), NEW c \in Seq(S), NEW d \in Seq(S),
         Len(a) = 2 * n, Len(b) = 3, Len(c) = 2 * n, Len(d) = 1,
         NEW s, s = ((a \o b) \o c) \o d
  PROVE  PutTogether(S, n, a, b, c, d, s)
<1>1. PICK p : p = a \o b
  OBVIOUS
<1>2. PICK q : q = p \o c
  OBVIOUS
<1>3. Joined(S, a, b, p)
  BY <1>1, JoinIs
<1>4. Joined(S, p, c, q)
  <2>1. p \in Seq(S)
    BY <1>3 DEF Joined
  <2> QED
    BY <1>2, <2>1, JoinIs
<1>5. Joined(S, q, d, s)
  <2>1. q \in Seq(S) /\ s = q \o d
    BY <1>1, <1>2, <1>4 DEF Joined
  <2> QED
    BY <2>1, JoinIs
<1>6. /\ Len(p) = 2 * n + 3
      /\ \A i \in 1 .. 2 * n : p[i] = a[i]
      /\ \A i \in 1 .. 3 : p[2 * n + i] = b[i]
  BY <1>3 DEF Joined
<1>7. /\ Len(q) = 4 * n + 3
      /\ \A i \in 1 .. 2 * n + 3 : q[i] = p[i]
      /\ \A i \in 1 .. 2 * n : q[2 * n + 3 + i] = c[i]
  BY <1>4, <1>6 DEF Joined
<1>8. /\ s \in Seq(S) /\ Len(s) = 4 * n + 4
      /\ \A i \in 1 .. 4 * n + 3 : s[i] = q[i]
      /\ \A i \in 1 .. 1 : s[4 * n + 3 + i] = d[i]
  <2>1. /\ s \in Seq(S) /\ Len(s) = Len(q) + Len(d)
        /\ \A i \in 1 .. Len(q) : s[i] = q[i]
        /\ \A i \in 1 .. Len(d) : s[Len(q) + i] = d[i]
    BY <1>5 DEF Joined
  <2>2. Len(q) = 4 * n + 3 /\ Len(q) + Len(d) = 4 * n + 4
    BY <1>7
  <2> QED
    BY <2>1, <2>2, Zenon
<1>9. /\ \A i \in 1 .. 2 * n : i \in 1 .. 2 * n + 3
      /\ \A i \in 1 .. 2 * n + 3 : i \in 1 .. 4 * n + 3
      /\ \A i \in 1 .. 2 * n : 2 * n + 3 + i \in 1 .. 4 * n + 3
      /\ \A i \in 1 .. 3 : 2 * n + i \in 1 .. 2 * n + 3
      /\ 1 \in 1 .. 3 /\ 2 \in 1 .. 3 /\ 3 \in 1 .. 3 /\ 1 \in 1 .. 1
      /\ (4 * n + 3) + 1 = 4 * n + 4
  OBVIOUS
<1>10. \A i \in 1 .. 2 * n + 3 : s[i] = p[i]
  BY <1>7, <1>8, <1>9
<1>11. \A i \in 1 .. 2 * n : s[i] = a[i]
  BY <1>6, <1>9, <1>10
<1>12. \A i \in 1 .. 3 : s[2 * n + i] = b[i]
  BY <1>6, <1>9, <1>10
<1>13. \A i \in 1 .. 2 * n : s[2 * n + 3 + i] = c[i]
  BY <1>7, <1>8, <1>9
<1>14. s[4 * n + 4] = d[1]
  BY <1>8, <1>9
<1> QED
  BY <1>8, <1>9, <1>11, <1>12, <1>13, <1>14 DEF PutTogether

LEMMA FunctionIsSeq ==
  ASSUME NEW S, NEW n \in Nat, NEW f \in [1 .. n -> S]
  PROVE  f \in Seq(S) /\ Len(f) = n
  OBVIOUS

LEMMA TripleIs ==
  ASSUME NEW S, NEW a \in S, NEW b \in S, NEW c \in S
  PROVE  /\ <<a, b, c>> \in Seq(S) /\ Len(<<a, b, c>>) = 3
         /\ <<a, b, c>>[1] = a /\ <<a, b, c>>[2] = b /\ <<a, b, c>>[3] = c
         /\ <<a>> \in Seq(S) /\ Len(<<a>>) = 1 /\ <<a>>[1] = a
  OBVIOUS

PressOps == [kind : {"press"}, modifiers : Seq(Scancodes), key : Scancodes, shift : BOOLEAN]
KeySteps == {Pause} \cup {KeyEvent(k, TRUE) : k \in Scancodes} \cup {KeyEvent(k, FALSE) : k \in Scancodes}
ModifiersOf(op) == ToSet(EffectiveModifiers(op))

LEMMA ModifiersTyped ==
  ASSUME NEW op \in PressOps
  PROVE  /\ EffectiveModifiers(op) \in Seq(Scancodes) /\ ModifiersOf(op) \subseteq Scancodes
         /\ \A i \in 1 .. Len(EffectiveModifiers(op)) : EffectiveModifiers(op)[i] \in ModifiersOf(op)
<1>1. op.modifiers \in Seq(Scancodes) /\ Shift \in Scancodes
  BY DEF PressOps, Shift, Scancodes
<1>2. EffectiveModifiers(op) \in Seq(Scancodes)
  BY <1>1 DEF EffectiveModifiers
<1> QED
  BY <1>2 DEF ModifiersOf, ToSet

(* A chord: the modifiers go down, the key after them, then all come up. *)
ChordShape(op, n, s) ==
  /\ s \in Seq(KeySteps) /\ Len(s) = 4 * n + 4
  /\ \A i \in 1 .. 2 * n : s[i] = Pause \/ \E m \in ModifiersOf(op) : s[i] = KeyEvent(m, TRUE)
  /\ s[2 * n + 1] = KeyEvent(op.key, TRUE)
  /\ \A i \in 2 * n + 2 .. 4 * n + 4 :
       s[i] = Pause \/ \E m \in ModifiersOf(op) \cup {op.key} : s[i] = KeyEvent(m, FALSE)
  /\ \A m \in ModifiersOf(op) : \E i \in 1 .. 2 * n : s[i] = KeyEvent(m, TRUE)
  /\ \A m \in ModifiersOf(op) \cup {op.key} :
       \E i \in 2 * n + 2 .. 4 * n + 4 : s[i] = KeyEvent(m, FALSE)

LEMMA PressShape ==
  ASSUME NEW op \in PressOps, NEW n \in Nat, n = Len(EffectiveModifiers(op)),
         NEW s, s = PressSteps(op)
  PROVE  ChordShape(op, n, s)
<1> DEFINE mods == EffectiveModifiers(op)
           down == [i \in 1 .. 2 * n |->
                      IF i % 2 = 1 THEN KeyEvent(mods[(i + 1) \div 2], TRUE) ELSE Pause]
           mid == <<KeyEvent(op.key, TRUE), Pause, KeyEvent(op.key, FALSE)>>
           rise == [i \in 1 .. 2 * n |->
                    IF i % 2 = 1 THEN Pause ELSE KeyEvent(mods[n + 1 - i \div 2], FALSE)]
           last == <<Pause>>
<1>1. s = ((down \o mid) \o rise) \o last
  BY DEF PressSteps
<1>2. /\ mods \in Seq(Scancodes) /\ op.key \in Scancodes /\ Len(mods) = n
      /\ \A i \in 1 .. n : mods[i] \in Scancodes /\ mods[i] \in ModifiersOf(op)
      /\ \A m \in ModifiersOf(op) : \E i \in 1 .. n : mods[i] = m
  BY ModifiersTyped DEF PressOps, ModifiersOf, ToSet
<1> HIDE DEF mods
<1>3. \A k \in Scancodes : KeyEvent(k, TRUE) \in KeySteps /\ KeyEvent(k, FALSE) \in KeySteps
  BY DEF KeySteps
<1>4. \A i \in 1 .. 2 * n : /\ i % 2 = 1 => (i + 1) \div 2 \in 1 .. n
                            /\ i % 2 # 1 => n + 1 - i \div 2 \in 1 .. n
  OBVIOUS
<1>5. /\ down \in [1 .. 2 * n -> KeySteps] /\ rise \in [1 .. 2 * n -> KeySteps]
      /\ \A i \in 1 .. 2 * n : down[i] = Pause \/ \E m \in ModifiersOf(op) : down[i] = KeyEvent(m, TRUE)
      /\ \A i \in 1 .. 2 * n : rise[i] = Pause \/ \E m \in ModifiersOf(op) : rise[i] = KeyEvent(m, FALSE)
  <2>1. Pause \in KeySteps
    BY DEF KeySteps
  <2> QED
    BY <1>2, <1>3, <1>4, <2>1
<1>6. ASSUME NEW m \in ModifiersOf(op)
      PROVE  /\ \E i \in 1 .. 2 * n : down[i] = KeyEvent(m, TRUE)
             /\ \E i \in 1 .. 2 * n : rise[i] = KeyEvent(m, FALSE)
  <2>1. PICK k \in 1 .. n : mods[k] = m
    BY <1>2
  <2>2. /\ 2 * k - 1 \in 1 .. 2 * n /\ (2 * k - 1) % 2 = 1 /\ ((2 * k - 1) + 1) \div 2 = k
    OBVIOUS
  <2>3. down[2 * k - 1] = KeyEvent(m, TRUE)
    BY <2>1, <2>2
  <2>4. /\ 2 * (n + 1 - k) \in 1 .. 2 * n /\ (2 * (n + 1 - k)) % 2 # 1
        /\ n + 1 - (2 * (n + 1 - k)) \div 2 = k
    OBVIOUS
  <2>5. rise[2 * (n + 1 - k)] = KeyEvent(m, FALSE)
    BY <2>1, <2>4
  <2> QED
    BY <2>2, <2>3, <2>4, <2>5
<1>7. /\ down \in Seq(KeySteps) /\ Len(down) = 2 * n
      /\ rise \in Seq(KeySteps) /\ Len(rise) = 2 * n
  <2> HIDE DEF down, rise
  <2>1. 2 * n \in Nat
    OBVIOUS
  <2> QED
    BY <1>5, <2>1
<1>8. /\ mid \in Seq(KeySteps) /\ Len(mid) = 3
      /\ mid[1] = KeyEvent(op.key, TRUE) /\ mid[2] = Pause /\ mid[3] = KeyEvent(op.key, FALSE)
      /\ last \in Seq(KeySteps) /\ Len(last) = 1 /\ last[1] = Pause
  <2>1. /\ KeyEvent(op.key, TRUE) \in KeySteps /\ KeyEvent(op.key, FALSE) \in KeySteps
        /\ Pause \in KeySteps
    BY <1>2, <1>3 DEF KeySteps
  <2> QED
    BY <2>1, TripleIs
<1> HIDE DEF down, rise, mid, last
<1>11. /\ s \in Seq(KeySteps) /\ Len(s) = 4 * n + 4
       /\ \A i \in 1 .. 2 * n : s[i] = down[i]
       /\ s[2 * n + 1] = mid[1] /\ s[2 * n + 2] = mid[2] /\ s[2 * n + 3] = mid[3]
       /\ \A i \in 1 .. 2 * n : s[2 * n + 3 + i] = rise[i]
       /\ s[4 * n + 4] = last[1]
  <2>1. PutTogether(KeySteps, n, down, mid, rise, last, s)
    BY <1>1, <1>7, <1>8, FourParts
  <2> QED
    BY <2>1 DEF PutTogether
<1>12. /\ s[2 * n + 1] = KeyEvent(op.key, TRUE)
       /\ s[2 * n + 2] = Pause
       /\ s[2 * n + 3] = KeyEvent(op.key, FALSE)
       /\ s[4 * n + 4] = Pause
  BY <1>8, <1>11
<1>13. ASSUME NEW i \in 2 * n + 2 .. 4 * n + 4
       PROVE  s[i] = Pause \/ \E m \in ModifiersOf(op) \cup {op.key} : s[i] = KeyEvent(m, FALSE)
  <2>1. \/ i = 2 * n + 2 \/ i = 2 * n + 3 \/ i = 4 * n + 4
        \/ i - (2 * n + 3) \in 1 .. 2 * n /\ 2 * n + 3 + (i - (2 * n + 3)) = i
    OBVIOUS
  <2>2. CASE i = 2 * n + 2 \/ i = 2 * n + 3 \/ i = 4 * n + 4
    BY <1>11, <1>12, <2>2
  <2>3. ASSUME NEW k \in 1 .. 2 * n, 2 * n + 3 + k = i
        PROVE  s[i] = Pause \/ \E m \in ModifiersOf(op) : s[i] = KeyEvent(m, FALSE)
    <3>1. s[i] = rise[k]
      BY <1>11, <2>3
    <3> QED
      BY <1>5, <3>1
  <2> QED
    BY <2>1, <2>2, <2>3
<1>14. ASSUME NEW m \in ModifiersOf(op) \cup {op.key}
       PROVE  \E i \in 2 * n + 2 .. 4 * n + 4 : s[i] = KeyEvent(m, FALSE)
  <2>1. \A i \in 1 .. 2 * n : 2 * n + 3 + i \in 2 * n + 2 .. 4 * n + 4
    OBVIOUS
  <2>2. 2 * n + 3 \in 2 * n + 2 .. 4 * n + 4
    OBVIOUS
  <2>3. CASE m = op.key
    BY <1>12, <2>2, <2>3
  <2>4. CASE m \in ModifiersOf(op)
    <3>1. PICK i \in 1 .. 2 * n : rise[i] = KeyEvent(m, FALSE)
      BY <1>6, <2>4
    <3> QED
      <4>1. s[2 * n + 3 + i] = KeyEvent(m, FALSE)
        BY <1>11, <3>1
      <4> QED
        BY <2>1, <4>1, Zenon
  <2> QED
    BY <2>3, <2>4
<1>15. \A i \in 1 .. 2 * n : s[i] = Pause \/ \E m \in ModifiersOf(op) : s[i] = KeyEvent(m, TRUE)
  BY <1>5, <1>11
<1>16. ASSUME NEW m \in ModifiersOf(op) PROVE \E i \in 1 .. 2 * n : s[i] = KeyEvent(m, TRUE)
  <2>1. PICK i \in 1 .. 2 * n : down[i] = KeyEvent(m, TRUE)
    BY <1>6
  <2>2. s[i] = KeyEvent(m, TRUE)
    BY <1>11, <2>1
  <2> QED
    BY <2>2, Zenon
<1> HIDE DEF KeySteps, last
<1> QED
  BY <1>11, <1>12, <1>13, <1>14, <1>15, <1>16 DEF ChordShape

(* A thing is not pressed after a release that no press follows, *)
LEMMA NotPressed ==
  ASSUME NEW s, NEW n \in Nat, NEW before, NEW x, NEW i \in 1 .. n, About(s[i], x),
         \A j \in i .. n : About(s[j], x) => s[j].type \notin Presses
  PROVE  x \notin Pressed(s, n, before)
<1>1. \A j \in 1 .. n : j \in i .. n \/ i \in j + 1 .. n
  OBVIOUS
<1> QED
  BY <1>1, PressedIs

(* and as before when no event is about it. *)
LEMMA Untouched ==
  ASSUME NEW s, NEW n \in Nat, NEW before, NEW x, \A j \in 1 .. n : ~About(s[j], x)
  PROVE  x \in Pressed(s, n, before) <=> x \in before
  BY PressedIs

Keys == {<<"key", k, FALSE>> : k \in Scancodes}

LEMMA KeysAreKeys == ASSUME NEW x \in Keys PROVE x[1] = "key"
<1>1. PICK k \in Scancodes : x = <<"key", k, FALSE>>
  BY DEF Keys
<1>2. <<"key", k, FALSE>>[1] = "key"
  OBVIOUS
<1> QED
  BY <1>1, <1>2, Zenon

LEMMA PressLeaves ==
  ASSUME NEW op \in PressOps, NEW before
  PROVE  /\ Len(PressSteps(op)) \in Nat
         /\ Pressed(PressSteps(op), Len(PressSteps(op)), before)
              = before \ {<<"key", m, FALSE>> : m \in ModifiersOf(op) \cup {op.key}}
<1> PICK n \in Nat : n = Len(EffectiveModifiers(op))
  BY ModifiersTyped
<1> PICK s : s = PressSteps(op)
  OBVIOUS
<1> DEFINE all == ModifiersOf(op) \cup {op.key}
           keys == {<<"key", m, FALSE>> : m \in all}
<1>1. /\ Len(s) = 4 * n + 4
      /\ \A i \in 1 .. 2 * n : s[i] = Pause \/ \E m \in ModifiersOf(op) : s[i] = KeyEvent(m, TRUE)
      /\ s[2 * n + 1] = KeyEvent(op.key, TRUE)
      /\ \A i \in 2 * n + 2 .. 4 * n + 4 : s[i] = Pause \/ \E m \in all : s[i] = KeyEvent(m, FALSE)
      /\ \A m \in all : \E i \in 2 * n + 2 .. 4 * n + 4 : s[i] = KeyEvent(m, FALSE)
  <2>1. ChordShape(op, n, s)
    BY PressShape
  <2> QED
    BY <2>1 DEF ChordShape
<1>2. \A i \in 1 .. 4 * n + 4 : i \in 1 .. 2 * n \/ i = 2 * n + 1 \/ i \in 2 * n + 2 .. 4 * n + 4
  OBVIOUS
<1>3. \A i \in 1 .. 4 * n + 4 : \/ s[i] = Pause
                                \/ \E m \in all : s[i] = KeyEvent(m, TRUE)
                                \/ \E m \in all : s[i] = KeyEvent(m, FALSE)
  BY <1>1, <1>2
<1>4. \A i \in 2 * n + 2 .. 4 * n + 4 : s[i].type \notin Presses
  <2>1. Pause.type \notin Presses
    BY DEF Pause, Presses
  <2>2. \A m : KeyEvent(m, FALSE).type \notin Presses
    BY KeyAbout
  <2> QED
    BY <1>1, <2>1, <2>2, Zenon
<1>5. ASSUME NEW x \in keys PROVE x \notin Pressed(s, 4 * n + 4, before)
  <2>1. PICK m \in all : x = <<"key", m, FALSE>>
    OBVIOUS
  <2>2. PICK i \in 2 * n + 2 .. 4 * n + 4 : s[i] = KeyEvent(m, FALSE)
    BY <1>1
  <2>3. i \in 1 .. 4 * n + 4 /\ 4 * n + 4 \in Nat /\ \A j \in i .. 4 * n + 4 : j \in 2 * n + 2 .. 4 * n + 4
    OBVIOUS
  <2>4. About(s[i], x)
    BY <2>1, <2>2, KeyAbout
  <2> QED
    BY <1>4, <2>3, <2>4, NotPressed
<1>6. ASSUME NEW x, x \notin keys PROVE x \in Pressed(s, 4 * n + 4, before) <=> x \in before
  <2>1. \A m \in all : x # <<"key", m, FALSE>>
    BY <1>6
  <2>2. \A i \in 1 .. 4 * n + 4 : ~About(s[i], x)
    <3>1. \A m \in all : ~About(KeyEvent(m, TRUE), x) /\ ~About(KeyEvent(m, FALSE), x)
      BY <2>1, KeyAbout
    <3> QED
      BY <1>3, <3>1, NothingAbout, Zenon
  <2>3. 4 * n + 4 \in Nat
    OBVIOUS
  <2> QED
    BY <2>2, <2>3, Untouched
<1> HIDE DEF keys
<1>7. Pressed(s, 4 * n + 4, before) = before \ keys
  <2>1. \A x : x \in Pressed(s, 4 * n + 4, before) => x \in before \/ x \in keys
    BY <1>6
  <2> QED
    BY <1>5, <1>6
<1>8. Len(s) = 4 * n + 4 /\ Len(s) \in Nat
  BY <1>1
<1> QED
  BY <1>7, <1>8, Zenon DEF keys

(* A click: the button goes down and up, once or twice. *)
LEMMA ClickLeaves ==
  ASSUME NEW op, NEW before \in SUBSET Keys
  PROVE  /\ Len(ClickSteps(op)) \in Nat
         /\ Pressed(ClickSteps(op), Len(ClickSteps(op)), before) = before
<1> DEFINE d == ButtonEvent("mouse_button_down", op.from, op.button)
           u == ButtonEvent("mouse_button_up", op.from, op.button)
<1> SUFFICES ASSUME NEW s, s = ClickSteps(op)
             PROVE  Len(s) \in Nat /\ Pressed(s, Len(s), before) = before
  OBVIOUS
<1>1. s = IF op.double THEN (<<d, u>> \o <<Pause>>) \o <<d, u>> ELSE <<d, u>>
  BY DEF ClickSteps
<1>2. \A x : /\ About(d, x) <=> About(u, x)
             /\ About(u, x) => x[1] = "button" /\ u.type \notin Presses
  BY ButtonAbout
<1>3. \A x \in Keys : x[1] = "key"
  BY KeysAreKeys
<1> HIDE DEF d, u
<1>4. PICK c : /\ c = (<<d, u>> \o <<Pause>>) \o <<d, u>>
               /\ Len(c) = 5 /\ c[5] = u /\ \A i \in 1 .. 5 : c[i] \in {d, u, Pause}
  <2> DEFINE S == {d, u, Pause}
             a == <<d, u>>
             p == <<Pause>>
  <2>1. /\ a \in Seq(S) /\ Len(a) = 2 /\ a[2] = u
        /\ p \in Seq(S) /\ Len(p) = 1
    OBVIOUS
  <2> HIDE DEF S, a, p
  <2>2. PICK b : b = a \o p
    OBVIOUS
  <2>3. PICK c : c = b \o a
    OBVIOUS
  <2>4. Joined(S, a, p, b)
    BY <2>1, <2>2, JoinIs
  <2>5. Joined(S, b, a, c)
    <3>1. b \in Seq(S)
      BY <2>4 DEF Joined
    <3> QED
      BY <2>1, <2>3, <3>1, JoinIs
  <2>6. c \in Seq(S) /\ Len(c) = 5 /\ c[5] = u
    BY <2>1, <2>4, <2>5 DEF Joined
  <2>7. \A i \in 1 .. 5 : c[i] \in S
    <3>1. c \in Seq(S) /\ 1 .. Len(c) = 1 .. 5
      BY <2>6
    <3> QED
      BY <3>1, ElementOfSeq
  <2> QED
    BY <2>2, <2>3, <2>6, <2>7 DEF S, a, p
<1>5. PICK n \in Nat : /\ n \in {2, 5} /\ Len(s) = n
                       /\ s[n] = u /\ \A i \in 1 .. n : s[i] \in {d, u, Pause}
  <2>1. CASE op.double
    <3>1. s = c
      BY <1>1, <1>4, <2>1
    <3> QED
      BY <1>4, <3>1
  <2>2. CASE ~op.double
    BY <1>1, <2>2
  <2> QED
    BY <2>1, <2>2
<1>6. ASSUME NEW x, About(u, x) PROVE x \notin Pressed(s, n, before) /\ x \notin before
  <2>1. n \in 1 .. n /\ \A j \in n .. n : j = n
    BY <1>5
  <2>2. x \notin Pressed(s, n, before)
    BY <1>2, <1>5, <1>6, <2>1, NotPressed
  <2> QED
    BY <1>2, <1>3, <1>6, <2>2
<1>7. ASSUME NEW x, ~About(u, x) PROVE x \in Pressed(s, n, before) <=> x \in before
  BY <1>2, <1>5, <1>7, NothingAbout, Untouched
<1>8. Pressed(s, n, before) = before
  BY <1>6, <1>7
<1> QED
  BY <1>5, <1>8

(* A drag: to its beginning, the button down, the path, the button up. *)
PathShape(op, s) ==
  /\ Len(s) = 23 /\ s[1] = Move(op.from)
  /\ s[2] = ButtonEvent("mouse_button_down", op.from, op.button)
  /\ \A i \in 3 .. 22 : \/ s[i] = Pause
                        \/ \E k \in 1 .. 10 : s[i] = Move(DragPoint(op.from, op.to, k))
  /\ s[23] = ButtonEvent("mouse_button_up", op.to, op.button)

LEMMA DragShape ==
  ASSUME NEW op, NEW s, s = DragSteps(op)
  PROVE  PathShape(op, s)
<1> DEFINE d == ButtonEvent("mouse_button_down", op.from, op.button)
           u == ButtonEvent("mouse_button_up", op.to, op.button)
           m == Move(op.from)
           path == [i \in 1 .. 20 |-> IF i % 2 = 1 THEN Move(DragPoint(op.from, op.to, (i + 1) \div 2))
                                      ELSE Pause]
           S == {d, u, m, Pause} \cup {Move(DragPoint(op.from, op.to, k)) : k \in 1 .. 10}
           start == <<m, d>>
           end == <<u>>
<1>1. s = (start \o path) \o end
  BY DEF DragSteps
<1>2. \A i \in 1 .. 20 : \/ path[i] = Pause
                         \/ \E k \in 1 .. 10 : path[i] = Move(DragPoint(op.from, op.to, k))
  <2>1. \A i \in 1 .. 20 : (i + 1) \div 2 \in 1 .. 10
    OBVIOUS
  <2> QED
    BY <2>1
<1>3. path \in [1 .. 20 -> S]
  <2>1. path = [i \in 1 .. 20 |-> path[i]]
    OBVIOUS
  <2>2. Pause \in S /\ \A k \in 1 .. 10 : Move(DragPoint(op.from, op.to, k)) \in S
    OBVIOUS
  <2> HIDE DEF path, S
  <2>3. \A i \in 1 .. 20 : path[i] \in S
    BY <1>2, <2>2
  <2> QED
    BY <2>1, <2>3
<1>4. path \in Seq(S) /\ Len(path) = 20
  <2> HIDE DEF path, S
  <2> QED
    BY <1>3, FunctionIsSeq
<1>5. /\ start \in Seq(S) /\ Len(start) = 2 /\ start[1] = m /\ start[2] = d
      /\ end \in Seq(S) /\ Len(end) = 1 /\ end[1] = u
  <2>1. d \in S /\ u \in S /\ m \in S
    OBVIOUS
  <2> HIDE DEF d, u, m, S
  <2> QED
    BY <2>1
<1> HIDE DEF d, u, m, S, path, start, end
<1>6. PICK p : p = start \o path
  OBVIOUS
<1>7. Joined(S, start, path, p)
  BY <1>4, <1>5, <1>6, JoinIs
<1>8. Joined(S, p, end, s)
  <2>1. p \in Seq(S)
    BY <1>7 DEF Joined
  <2> QED
    BY <1>1, <1>5, <1>6, <2>1, JoinIs
<1>9. /\ Len(p) = 22 /\ p[1] = m /\ p[2] = d
      /\ \A i \in 1 .. 20 : p[2 + i] = path[i]
  BY <1>4, <1>5, <1>7 DEF Joined
<1>10. /\ Len(s) = 23 /\ \A i \in 1 .. 22 : s[i] = p[i]
       /\ s[23] = u
  BY <1>5, <1>8, <1>9 DEF Joined
<1>11. ASSUME NEW i \in 3 .. 22 PROVE s[i] = path[i - 2]
  <2>1. i \in 1 .. 22 /\ i - 2 \in 1 .. 20 /\ 2 + (i - 2) = i
    OBVIOUS
  <2> QED
    BY <1>9, <1>10, <2>1
<1>12. \A i \in 3 .. 22 : i - 2 \in 1 .. 20
  OBVIOUS
<1>13. s[1] = m /\ s[2] = d
  BY <1>9, <1>10
<1> QED
  BY <1>2, <1>10, <1>11, <1>12, <1>13 DEF d, u, m, PathShape

LEMMA DragLeaves ==
  ASSUME NEW op, NEW before \in SUBSET Keys
  PROVE  /\ Len(DragSteps(op)) \in Nat
         /\ Pressed(DragSteps(op), Len(DragSteps(op)), before) = before
<1> DEFINE d == ButtonEvent("mouse_button_down", op.from, op.button)
           u == ButtonEvent("mouse_button_up", op.to, op.button)
<1> PICK s : s = DragSteps(op)
  OBVIOUS
<1>1. /\ Len(s) = 23 /\ s[23] = u
      /\ \A i \in 1 .. 23 : s[i] \in {d, u, Pause} \/ \E a : s[i] = Move(a)
  <2>1. \A i \in 1 .. 23 : i = 1 \/ i = 2 \/ i \in 3 .. 22 \/ i = 23
    OBVIOUS
  <2> QED
    BY <2>1, DragShape DEF PathShape
<1>2. \A x : /\ About(d, x) <=> About(u, x)
             /\ About(u, x) => x[1] = "button" /\ u.type \notin Presses
  BY ButtonAbout
<1>3. \A x \in Keys : x[1] = "key"
  BY KeysAreKeys
<1> HIDE DEF d, u
<1>4. ASSUME NEW x, About(u, x) PROVE x \notin Pressed(s, 23, before) /\ x \notin before
  <2>1. 23 \in 1 .. 23 /\ \A j \in 23 .. 23 : j = 23
    OBVIOUS
  <2>2. x \notin Pressed(s, 23, before)
    BY <1>1, <1>2, <1>4, <2>1, NotPressed
  <2> QED
    BY <1>2, <1>3, <1>4, <2>2
<1>5. ASSUME NEW x, ~About(u, x) PROVE x \in Pressed(s, 23, before) <=> x \in before
  <2>1. \A i \in 1 .. 23 : ~About(s[i], x)
    BY <1>1, <1>2, <1>5, NothingAbout
  <2> QED
    BY <2>1, Untouched
<1>6. Pressed(s, 23, before) = before
  BY <1>4, <1>5
<1> QED
  BY <1>1, <1>6

(* Where a drag goes, when its length times ten is an i32. *)
LEMMA ModSmall == ASSUME NEW m \in Nat \ {0}, NEW x \in Nat, x < m PROVE x % m = x
  OBVIOUS

LEMMA WrapIs == ASSUME NEW n \in I32 PROVE Wrap(n) = n
  BY WidthAssumption, ModSmall DEF Wrap, I32

LEMMA TenthIs ==
  ASSUME NEW d \in Int, NEW k \in 1 .. 10
  PROVE  /\ d >= 0 => DivideByTen(d * k) \in 0 .. d
         /\ d < 0 => DivideByTen(d * k) \in d .. 0
<1>1. d >= 0 => DivideByTen(d * k) \in 0 .. d
  BY DEF DivideByTen
<1>2. d < 0 => DivideByTen(d * k) \in d .. 0
  BY DEF DivideByTen
<1> QED
  BY <1>1, <1>2

Between(x, a, b) == (a <= x /\ x <= b) \/ (b <= x /\ x <= a)

LEMMA DragPointBetween ==
  ASSUME NEW from \in I32, NEW to \in I32, NEW k \in 1 .. 10, 10 * (to - from) \in I32
  PROVE  Between(DragPoint(from, to, k), from, to)
<1>1. PICK d \in Int : d = to - from
  BY WidthAssumption DEF I32
<1>2. from \in Int /\ to \in Int /\ IntLimit \in Int
  BY WidthAssumption DEF I32
<1>3. d \in I32
  BY <1>1, <1>2 DEF I32
<1>4. d * k \in I32
  BY <1>1, <1>2 DEF I32
<1>5. DragPoint(from, to, k) = Wrap(from + DivideByTen(d * k))
  BY <1>1, <1>3, <1>4, WrapIs DEF DragPoint
<1>6. PICK e : e = DivideByTen(d * k)
  OBVIOUS
<1>7. /\ e \in Int
      /\ d >= 0 => e \in 0 .. d
      /\ d < 0 => e \in d .. 0
  <2>1. /\ d >= 0 => e \in 0 .. d
        /\ d < 0 => e \in d .. 0
    BY <1>6, TenthIs
  <2> QED
    BY <2>1
<1>8. PICK x : x = from + e
  OBVIOUS
<1>9. Between(x, from, to)
  <2>1. CASE d >= 0
    <3>1. from <= x /\ x <= to
      BY <1>1, <1>2, <1>7, <1>8, <2>1
    <3> QED
      BY <3>1, Zenon DEF Between
  <2>2. CASE d < 0
    <3>1. to <= x /\ x <= from
      BY <1>1, <1>2, <1>7, <1>8, <2>2
    <3> QED
      BY <3>1, Zenon DEF Between
  <2> QED
    BY <1>1, <2>1, <2>2
<1>10. x \in I32
  <2>1. x \in Int
    BY <1>2, <1>7, <1>8
  <2> QED
    BY <1>2, <1>9, <2>1 DEF I32, Between
<1>11. Wrap(x) = x
  BY <1>10, WrapIs
<1> QED
  BY <1>5, <1>6, <1>8, <1>9, <1>11

LEMMA DragMoves ==
  ASSUME NEW op, op.from \in I32, op.to \in I32, 10 * (op.to - op.from) \in I32,
         NEW s, s = DragSteps(op), NEW i \in 1 .. Len(s), s[i].type = "mouse_move"
  PROVE  Between(s[i].args.x, op.from, op.to)
<1>0. PathShape(op, s)
  BY DragShape
<1>1. \A a : Move(a).args.x = a
  BY DEF Move, Command
<1>2. Pause.type # "mouse_move" /\ \A a, b : /\ ButtonEvent("mouse_button_down", a, b).type # "mouse_move"
                                           /\ ButtonEvent("mouse_button_up", a, b).type # "mouse_move"
  BY DEF Pause, ButtonEvent, Command
<1>3. i = 1 \/ i = 2 \/ i \in 3 .. 22 \/ i = 23
  <2>1. Len(s) = 23
    BY <1>0 DEF PathShape
  <2> QED
    BY <2>1
<1>4. CASE i = 1
  <2>1. s[i].args.x = op.from
    BY <1>0, <1>1, <1>4 DEF PathShape
  <2>2. op.from \in Int /\ op.to \in Int
    BY WidthAssumption DEF I32
  <2> QED
    BY <2>1, <2>2 DEF Between
<1>5. CASE i \in 3 .. 22
  <2>1. PICK k \in 1 .. 10 : s[i] = Move(DragPoint(op.from, op.to, k))
    BY <1>0, <1>2, <1>5, Zenon DEF PathShape
  <2> QED
    BY <1>1, <2>1, DragPointBetween
<1>6. i # 2 /\ i # 23
  BY <1>0, <1>2 DEF PathShape
<1> QED
  BY <1>3, <1>4, <1>5, <1>6

(* Typed text: every code unit comes up directly after it went down. *)
UnitSteps == {Pause} \cup {Down(u) : u \in Nat} \cup {Up(u) : u \in Nat}
Paired ==
  {t \in Seq(UnitSteps) :
     \A i \in 1 .. Len(t) : t[i].type \in Presses =>
       /\ i + 1 \in 1 .. Len(t) /\ t[i + 1].type \notin Presses
       /\ \A x : About(t[i], x) => About(t[i + 1], x)}

LEMMA PairedJoin == ASSUME NEW a \in Paired, NEW b \in Paired PROVE a \o b \in Paired
<1> PICK c : c = a \o b
  OBVIOUS
<1>1. a \in Seq(UnitSteps) /\ b \in Seq(UnitSteps)
  BY DEF Paired
<1>2. Joined(UnitSteps, a, b, c)
  BY <1>1, JoinIs
<1>3. /\ c \in Seq(UnitSteps) /\ Len(a) \in Nat /\ Len(b) \in Nat /\ Len(c) = Len(a) + Len(b)
      /\ \A i \in 1 .. Len(a) : c[i] = a[i]
      /\ \A i \in 1 .. Len(b) : c[Len(a) + i] = b[i]
  BY <1>1, <1>2 DEF Joined
<1> DEFINE Next1(t, i) == /\ i + 1 \in 1 .. Len(t) /\ t[i + 1].type \notin Presses
                          /\ \A x : About(t[i], x) => About(t[i + 1], x)
<1>4. /\ \A i \in 1 .. Len(a) : a[i].type \in Presses => Next1(a, i)
      /\ \A i \in 1 .. Len(b) : b[i].type \in Presses => Next1(b, i)
  BY DEF Paired
<1>5. ASSUME NEW i \in 1 .. Len(c), c[i].type \in Presses PROVE Next1(c, i)
  <2>1. CASE i \in 1 .. Len(a)
    <3>1. c[i] = a[i] /\ Next1(a, i)
      BY <1>3, <1>4, <1>5, <2>1
    <3>2. i + 1 \in 1 .. Len(a) /\ i + 1 \in 1 .. Len(c)
      BY <1>3, <3>1
    <3>3. c[i + 1] = a[i + 1]
      BY <1>3, <3>2
    <3> QED
      BY <3>1, <3>2, <3>3
  <2>2. CASE i \notin 1 .. Len(a)
    <3>1. PICK k \in 1 .. Len(b) : i = Len(a) + k
      <4>1. i - Len(a) \in 1 .. Len(b) /\ i = Len(a) + (i - Len(a))
        BY <1>3, <2>2
      <4> QED
        BY <4>1
    <3>2. c[i] = b[k] /\ Next1(b, k)
      BY <1>3, <1>4, <1>5, <3>1
    <3>3. k + 1 \in 1 .. Len(b) /\ i + 1 \in 1 .. Len(c) /\ i + 1 = Len(a) + (k + 1)
      BY <1>3, <3>1, <3>2
    <3>4. c[i + 1] = b[k + 1]
      BY <1>3, <3>3
    <3> QED
      BY <3>2, <3>3, <3>4
  <2> QED
    BY <2>1, <2>2
<1> QED
  BY <1>3, <1>5 DEF Paired

LEMMA PairedParts ==
  /\ << >> \in Paired /\ <<Pause>> \in Paired
  /\ \A u \in Nat : UnitEvents(u) \in Paired
<1>1. Pause \in UnitSteps /\ \A u \in Nat : Down(u) \in UnitSteps /\ Up(u) \in UnitSteps
  BY DEF UnitSteps
<1>2. << >> \in Paired
  BY DEF Paired
<1>3. <<Pause>> \in Paired
  <2>1. <<Pause>> \in Seq(UnitSteps) /\ Len(<<Pause>>) = 1 /\ <<Pause>>[1] = Pause
    BY <1>1, TripleIs
  <2>2. Pause.type \notin Presses
    BY DEF Pause, Presses
  <2>3. \A i \in 1 .. 1 : i = 1
    OBVIOUS
  <2> QED
    BY <2>1, <2>2, <2>3, Zenon DEF Paired
<1>4. ASSUME NEW u \in Nat PROVE UnitEvents(u) \in Paired
  <2> PICK t : t = <<Down(u), Up(u)>>
    OBVIOUS
  <2>1. t = UnitEvents(u)
    BY DEF UnitEvents, Down, Up
  <2>2. t \in Seq(UnitSteps) /\ Len(t) = 2 /\ t[1] = Down(u) /\ t[2] = Up(u)
    BY <1>1
  <2>3. Up(u).type \notin Presses /\ \A x : About(Down(u), x) => About(Up(u), x)
    BY UnitAbout
  <2>4. \A i \in 1 .. 2 : i = 2 \/ (i = 1 /\ i + 1 = 2 /\ i + 1 \in 1 .. 2)
    OBVIOUS
  <2>5. \A i \in 1 .. 2 : t[i].type \in Presses => /\ i + 1 \in 1 .. 2 /\ t[i + 1].type \notin Presses
                                                   /\ \A x : About(t[i], x) => About(t[i + 1], x)
    BY <2>2, <2>3, <2>4
  <2> QED
    BY <2>1, <2>2, <2>5 DEF Paired
<1> QED
  BY <1>2, <1>3, <1>4

LEMMA TypeStepsPaired == ASSUME NEW op, op.text \in Seq(Seq(Nat)) PROVE TypeSteps(op) \in Paired
<1> DEFINE text == op.text
           units(i) == [j \in 1 .. Len(text[i]) |-> UnitEvents(text[i][j])]
           parts == [i \in 1 .. Len(text) |-> FlattenSeq(units(i)) \o <<Pause>>]
<1>0. << >> \in Paired /\ \A a, b \in Paired : a \o b \in Paired
  BY PairedJoin, PairedParts
<1>1. ASSUME NEW i \in 1 .. Len(text) PROVE FlattenSeq(units(i)) \o <<Pause>> \in Paired
  <2>1. text[i] \in Seq(Nat)
    BY ElementOfSeq
  <2>2. Len(text[i]) \in Nat /\ \A j \in 1 .. Len(text[i]) : text[i][j] \in Nat
    <3> PICK t : t = text[i]
      OBVIOUS
    <3>1. t \in Seq(Nat)
      BY <2>1
    <3>2. Len(t) \in Nat /\ \A j \in 1 .. Len(t) : t[j] \in Nat
      <4> HIDE DEF text
      <4> QED
        BY <3>1, ElementOfSeq
    <3> QED
      BY <3>2
  <2>3. units(i) \in [1 .. Len(text[i]) -> Paired]
    BY <2>2, PairedParts
  <2> HIDE DEF units
  <2>4. units(i) \in Seq(Paired)
    BY <2>2, <2>3, FunctionIsSeq
  <2>5. FlattenSeq(units(i)) \in Paired
    BY <1>0, <2>4, FlattenClosed
  <2> QED
    BY <1>0, <2>5, PairedParts
<1>2. Len(text) \in Nat
  OBVIOUS
<1>3. parts \in [1 .. Len(text) -> Paired]
  <2> HIDE DEF units
  <2> QED
    BY <1>1
<1>4. TypeSteps(op) = FlattenSeq(parts)
  BY DEF TypeSteps
<1> HIDE DEF parts, text
<1>5. parts \in Seq(Paired)
  BY <1>2, <1>3, FunctionIsSeq
<1> QED
  BY <1>0, <1>4, <1>5, FlattenClosed

LEMMA TypeLeaves ==
  ASSUME NEW op, op.text \in Seq(Seq(Nat)), NEW before \in SUBSET Keys
  PROVE  /\ Len(TypeSteps(op)) \in Nat
         /\ Pressed(TypeSteps(op), Len(TypeSteps(op)), before) = before
<1> PICK t : t = TypeSteps(op)
  OBVIOUS
<1>1. t \in Paired
  BY TypeStepsPaired
<1>2. /\ t \in Seq(UnitSteps) /\ Len(t) \in Nat
      /\ \A i \in 1 .. Len(t) : t[i].type \in Presses =>
           /\ i + 1 \in 1 .. Len(t) /\ t[i + 1].type \notin Presses
           /\ \A x : About(t[i], x) => About(t[i + 1], x)
  <2>1. /\ t \in Seq(UnitSteps)
        /\ \A i \in 1 .. Len(t) : t[i].type \in Presses =>
             /\ i + 1 \in 1 .. Len(t) /\ t[i + 1].type \notin Presses
             /\ \A x : About(t[i], x) => About(t[i + 1], x)
    BY <1>1, Zenon DEF Paired
  <2>2. Len(t) \in Nat
    BY <2>1
  <2> QED
    BY <2>1, <2>2, Zenon
<1>3. ASSUME NEW i \in 1 .. Len(t), NEW x, About(t[i], x) PROVE x \notin before
  <2>1. t[i] \in UnitSteps
    BY <1>2, ElementOfSeq
  <2>2. PICK u : t[i] = Down(u) \/ t[i] = Up(u)
    BY <1>3, <2>1, NothingAbout DEF UnitSteps
  <2>3. x = <<"unit", u, FALSE>>
    BY <1>3, <2>2, UnitAbout
  <2>4. <<"unit", u, FALSE>>[1] = "unit"
    OBVIOUS
  <2>5. x[1] # "key"
    BY <2>3, <2>4
  <2> QED
    BY <2>5, KeysAreKeys
<1>4. \A i \in 1 .. Len(t) : i + 1 \in 1 .. Len(t) => i + 1 \in i + 1 .. Len(t)
  BY <1>2
<1>5. \A x : x \in Pressed(t, Len(t), before) <=> x \in before
  <2> SUFFICES ASSUME NEW x PROVE x \in Pressed(t, Len(t), before) <=> x \in before
    OBVIOUS
  <2>1. ASSUME NEW i \in 1 .. Len(t), About(t[i], x), t[i].type \in Presses
        PROVE  ~ \A j \in i + 1 .. Len(t) : ~About(t[j], x)
    BY <1>2, <1>4, <2>1
  <2> QED
    BY <1>3, <2>1, PressedIs
<1> QED
  BY <1>2, <1>5

-----------------------------------------------------------------------------
(* The steps of any operation. *)

LEMMA OperationTypes ==
  ASSUME NEW op \in Operations
  PROVE  /\ op.kind \in {"press", "down", "up", "click", "drag", "type"}
         /\ op.kind = "press" => op \in PressOps
         /\ op.kind \in {"down", "up"} => op.key \in Scancodes
         /\ op.kind = "drag" => op.from \in I32 /\ op.to \in I32
         /\ op.kind = "type" => op.text \in Seq(Seq(Nat))
<1>1. \/ op \in [kind : {"press"}, modifiers : Seq(Scancodes), key : Scancodes, shift : BOOLEAN]
      \/ op \in [kind : {"down", "up"}, key : Scancodes]
      \/ op \in [kind : {"click"}, from : I32, button : Nat, double : BOOLEAN]
      \/ op \in [kind : {"drag"}, from : I32, to : I32, button : Nat]
      \/ op \in [kind : {"type"}, text : Seq(Seq(Nat))]
  BY OperationsAssumption, Zenon
<1>2. CASE op \in [kind : {"press"}, modifiers : Seq(Scancodes), key : Scancodes, shift : BOOLEAN]
  BY <1>2 DEF PressOps, Scancodes
<1>3. CASE op \in [kind : {"down", "up"}, key : Scancodes]
  BY <1>3 DEF Scancodes
<1>4. CASE op \in [kind : {"click"}, from : I32, button : Nat, double : BOOLEAN]
  BY <1>4
<1>5. CASE op \in [kind : {"drag"}, from : I32, to : I32, button : Nat]
  BY <1>5
<1>6. CASE op \in [kind : {"type"}, text : Seq(Seq(Nat))]
  BY <1>6
<1> QED
  BY <1>1, <1>2, <1>3, <1>4, <1>5, <1>6

(* All of them done, what is pressed is what the operation was to leave. *)
LEMMA StepsLeave ==
  ASSUME NEW op \in Operations, NEW before \in SUBSET Keys
  PROVE  /\ Len(Steps(op)) \in Nat
         /\ Pressed(Steps(op), Len(Steps(op)), before) = Leaves(op, before)
         /\ Leaves(op, before) \in SUBSET Keys
<1>1. CASE op.kind = "press"
  <2>1. Steps(op) = PressSteps(op)
    BY <1>1 DEF Steps
  <2>2. Leaves(op, before) = before \ {<<"key", m, FALSE>> : m \in ModifiersOf(op) \cup {op.key}}
    BY <1>1 DEF Leaves, ModifiersOf
  <2> QED
    BY <1>1, <2>1, <2>2, OperationTypes, PressLeaves
<1>2. CASE op.kind \in {"down", "up"}
  <2> DEFINE down == op.kind = "down"
             x == <<"key", op.key, FALSE>>
  <2>1. Steps(op) = <<KeyEvent(op.key, down)>>
    BY <1>2 DEF Steps
  <2>2. Leaves(op, before) = IF down THEN before \cup {x} ELSE before \ {x}
    BY <1>2 DEF Leaves
  <2>3. Len(Steps(op)) = 1 /\ Steps(op)[1] = KeyEvent(op.key, down) /\ 0 + 1 = 1 /\ 0 \in Nat
    BY <2>1
  <2>4. Pressed(Steps(op), 1, before) = After(before, KeyEvent(op.key, down))
    <3>1. Pressed(Steps(op), 0 + 1, before) = After(Pressed(Steps(op), 0, before), Steps(op)[0 + 1])
      BY <2>3, PressedNext
    <3> QED
      BY <2>3, <3>1, PressedNone
  <2>5. \A y : y \in After(before, KeyEvent(op.key, down)) <=> IF y = x THEN down ELSE y \in before
    <3>1. down \in BOOLEAN
      OBVIOUS
    <3> HIDE DEF down
    <3> QED
      BY <3>1, AfterIs, KeyAbout
  <2>6. x \in Keys
    BY <1>2, OperationTypes DEF Keys
  <2> HIDE DEF x, down
  <2>7. After(before, KeyEvent(op.key, down)) = Leaves(op, before)
    BY <2>2, <2>5
  <2> QED
    BY <2>2, <2>3, <2>4, <2>6, <2>7
<1>3. CASE op.kind = "click"
  <2>1. Steps(op) = ClickSteps(op) /\ Leaves(op, before) = before
    BY <1>3 DEF Steps, Leaves
  <2> QED
    BY <2>1, ClickLeaves
<1>4. CASE op.kind = "drag"
  <2>1. Steps(op) = DragSteps(op) /\ Leaves(op, before) = before
    BY <1>4 DEF Steps, Leaves
  <2> QED
    BY <2>1, DragLeaves
<1>5. CASE op.kind = "type"
  <2>1. Steps(op) = TypeSteps(op) /\ Leaves(op, before) = before
    BY <1>5 DEF Steps, Leaves
  <2> QED
    BY <1>5, <2>1, OperationTypes, TypeLeaves
<1> QED
  BY <1>1, <1>2, <1>3, <1>4, <1>5, OperationTypes

(* When a chord presses its key, it has pressed its modifiers. *)
LEMMA StepsChord ==
  ASSUME NEW op \in PressOps, NEW before, NEW i \in 1 .. Len(PressSteps(op)),
         NEW e, e = PressSteps(op)[i], e.type = "key_down", e.args.scancode = op.key,
         op.key \notin ModifiersOf(op)
  PROVE  {<<"key", m, FALSE>> : m \in ModifiersOf(op)} \subseteq Pressed(PressSteps(op), i, before)
<1> PICK n \in Nat : n = Len(EffectiveModifiers(op))
  BY ModifiersTyped
<1> PICK s : s = PressSteps(op)
  OBVIOUS
<1>1. ChordShape(op, n, s)
  BY PressShape
<1>2. \A k : /\ KeyEvent(k, TRUE).args.scancode = k /\ KeyEvent(k, FALSE).type # "key_down"
             /\ Pause.type # "key_down"
  BY DEF KeyEvent, Command, Pause
<1>3. i \in 1 .. 2 * n \/ i = 2 * n + 1 \/ i \in 2 * n + 2 .. 4 * n + 4
  <2>1. Len(s) = 4 * n + 4
    BY <1>1 DEF ChordShape
  <2> QED
    BY <2>1
<1>4. ASSUME i \in 1 .. 2 * n PROVE FALSE
  <2>1. s[i] = Pause \/ \E m \in ModifiersOf(op) : s[i] = KeyEvent(m, TRUE)
    BY <1>1, <1>4, Zenon DEF ChordShape
  <2> QED
    BY <1>2, <2>1
<1>5. ASSUME i \in 2 * n + 2 .. 4 * n + 4 PROVE FALSE
  <2>1. s[i] = Pause \/ \E m \in ModifiersOf(op) \cup {op.key} : s[i] = KeyEvent(m, FALSE)
    BY <1>1, <1>5, Zenon DEF ChordShape
  <2> QED
    BY <1>2, <2>1
<1>6. i = 2 * n + 1
  BY <1>3, <1>4, <1>5
<1>7. \A j \in 1 .. 2 * n + 1 : s[j] = Pause \/ s[j].type \in Presses
  <2>1. \A j \in 1 .. 2 * n + 1 : j \in 1 .. 2 * n \/ j = 2 * n + 1
    OBVIOUS
  <2>2. \A m : KeyEvent(m, TRUE).type \in Presses
    BY KeyAbout
  <2>3. s[2 * n + 1] = KeyEvent(op.key, TRUE)
    BY <1>1, Zenon DEF ChordShape
  <2>4. \A j \in 1 .. 2 * n : s[j] = Pause \/ \E m \in ModifiersOf(op) : s[j] = KeyEvent(m, TRUE)
    BY <1>1, Zenon DEF ChordShape
  <2> QED
    BY <2>1, <2>2, <2>3, <2>4
<1>8. ASSUME NEW m \in ModifiersOf(op) PROVE <<"key", m, FALSE>> \in Pressed(s, 2 * n + 1, before)
  <2> DEFINE x == <<"key", m, FALSE>>
  <2>1. PICK j \in 1 .. 2 * n : s[j] = KeyEvent(m, TRUE)
    BY <1>1 DEF ChordShape
  <2>2. j \in 1 .. 2 * n + 1 /\ 2 * n + 1 \in Nat
    OBVIOUS
  <2>3. About(s[j], x)
    BY <2>1, KeyAbout
  <2> HIDE DEF x
  <2>4. \A k \in 1 .. 2 * n + 1 : About(s[k], x) => s[k].type \in Presses
    BY <1>7, NothingAbout
  <2>5. x \in Pressed(s, 2 * n + 1, before)
    BY <2>2, <2>3, <2>4, PressedOnly
  <2> QED
    BY <2>5 DEF x
<1> QED
  BY <1>6, <1>8

-----------------------------------------------------------------------------
(* The session's side. *)

(* The commands that operations put into the pipe. *)
CommandOf(op, i) == [type |-> Steps(op)[i].type, args |-> Steps(op)[i].args, of |-> op]
Sent == UNION {{CommandOf(op, i) : i \in 1 .. Len(Steps(op))} : op \in Operations}

(* One operation runs at a time, that of the holder of the lock. *)
Locked ==
  /\ running \in [Callers -> Operations \cup {NoOp}] /\ at \in [Callers -> Nat]
  /\ lock \in Callers \cup {NoCaller}
  /\ \A c \in Callers : running[c] # NoOp <=> lock = c
  /\ \A c \in Callers : lock = c => at[c] \in 1 .. Len(Steps(running[c])) + 1
  /\ pipe \in Seq(Sent) /\ asked \in SUBSET Keys

(* Once the pipe is through, the remote desktop holds what the operations  *)
(* have asked for and the running one has pressed so far,                  *)
Due ==
  IF lock = NoCaller THEN asked ELSE Pressed(Steps(running[lock]), at[lock] - 1, asked)
Balanced == session /\ link => Pressed(pipe, Len(pipe), held) = Due

(* and when it is through up to the key of a chord, the modifiers too. *)
Chords ==
  link => \A i \in 1 .. Len(pipe) :
            PressesItsKey(pipe[i]) => ModifiersDown(pipe[i].of) \subseteq Pressed(pipe, i, held)

(* A move of a drag in the pipe is one of that drag's steps: all commands  *)
(* in the pipe are steps of their operations (Sent, in Locked).            *)
SessionInv == Locked /\ Balanced /\ Chords

(* t is s with e at its end. *)
Appended(S, s, e, before, t) ==
  /\ t \in Seq(S) /\ Len(s) \in Nat /\ Len(t) = Len(s) + 1 /\ t[Len(s) + 1] = e
  /\ \A i \in 1 .. Len(s) : t[i] = s[i]
  /\ Pressed(t, Len(s) + 1, before) = After(Pressed(s, Len(s), before), e)
  /\ \A i \in 1 .. Len(s) : Pressed(t, i, before) = Pressed(s, i, before)

LEMMA AppendPressed ==
  ASSUME NEW S, NEW s \in Seq(S), NEW e \in S, NEW before
  PROVE  Appended(S, s, e, before, Append(s, e))
<1>0. PICK t : t = Append(s, e)
  OBVIOUS
<1>1. /\ t \in Seq(S) /\ Len(s) \in Nat /\ Len(t) = Len(s) + 1 /\ t[Len(s) + 1] = e
      /\ \A i \in 1 .. Len(s) : t[i] = s[i]
  BY <1>0
<1>2. ASSUME NEW i \in 0 .. Len(s) PROVE Pressed(t, i, before) = Pressed(s, i, before)
  <2>1. i \in Nat /\ \A j \in 1 .. i : j \in 1 .. Len(s)
    BY <1>1
  <2>2. \A j \in 1 .. i : t[j] = s[j]
    BY <1>1, <2>1
  <2> QED
    <3> PICK n \in Nat : n = i
      BY <2>1
    <3>1. \A j \in 1 .. n : t[j] = s[j]
      BY <2>2
    <3>2. Pressed(t, n, before) = Pressed(s, n, before)
      BY <3>1, PressedSame
    <3> QED
      BY <3>2
<1>3. Pressed(t, Len(s) + 1, before) = After(Pressed(t, Len(s), before), t[Len(s) + 1])
  BY <1>1, PressedNext
<1>4. Len(s) \in 0 .. Len(s) /\ \A i \in 1 .. Len(s) : i \in 0 .. Len(s)
  BY <1>1
<1>5. Pressed(t, Len(s), before) = Pressed(s, Len(s), before)
  BY <1>2, <1>4, Zenon
<1>6. \A i \in 1 .. Len(s) : Pressed(t, i, before) = Pressed(s, i, before)
  BY <1>2, <1>4, Zenon
<1>7. Pressed(t, Len(s) + 1, before) = After(Pressed(s, Len(s), before), e)
  BY <1>1, <1>3, <1>5, Zenon
<1> QED
  BY <1>0, <1>1, <1>6, <1>7, Zenon DEF Appended

(* The caller that is ready is the one with the lock. *)
LEMMA ReadyHolds ==
  ASSUME Locked, NEW c \in Callers, Ready(c)
  PROVE  /\ lock = c /\ lock # NoCaller
         /\ running[c] \in Operations /\ running[c] # NoOp
         /\ at[c] \in 1 .. Len(Steps(running[c])) /\ at[c] \in Nat
         /\ Len(Steps(running[c])) \in Nat
         /\ at[c] - 1 \in Nat /\ (at[c] - 1) + 1 = at[c] /\ (at[c] + 1) - 1 = at[c]
         /\ at[c] + 1 \in 1 .. Len(Steps(running[c])) + 1 /\ at[c] + 1 \in Nat
         /\ Due = Pressed(Steps(running[c]), at[c] - 1, asked)
<1>1. lock = c /\ lock # NoCaller /\ running[c] \in Operations /\ running[c] # NoOp
  BY NoCallerAssumption DEF Locked, Ready
<1>2. at[c] \in Nat /\ at[c] \in 1 .. Len(Steps(running[c])) + 1 /\ at[c] <= Len(Steps(running[c]))
  BY <1>1 DEF Locked, Ready
<1>3. Len(Steps(running[c])) \in Nat
  <2>1. {} \in SUBSET Keys
    OBVIOUS
  <2> QED
    BY <1>1, <2>1, StepsLeave
<1>4. Due = Pressed(Steps(running[c]), at[c] - 1, asked)
  BY <1>1 DEF Due
<1>5. /\ at[c] \in 1 .. Len(Steps(running[c]))
      /\ at[c] - 1 \in Nat /\ (at[c] - 1) + 1 = at[c] /\ (at[c] + 1) - 1 = at[c]
      /\ at[c] + 1 \in 1 .. Len(Steps(running[c])) + 1 /\ at[c] + 1 \in Nat
  BY <1>2, <1>3
<1> QED
  BY <1>1, <1>2, <1>3, <1>4, <1>5

(* Its next step changes what is due as it changes what is pressed. *)
LEMMA StepTaken ==
  ASSUME Locked, NEW c \in Callers, Ready(c), at' = [at EXCEPT ![c] = @ + 1],
         UNCHANGED <<lock, running, asked>>, pipe' \in Seq(Sent)
  PROVE  Locked' /\ Due' = After(Due, Step(c))
<1>1. at'[c] = at[c] + 1 /\ at' \in [Callers -> Nat] /\ \A b \in Callers : b # c => at'[b] = at[b]
  BY ReadyHolds DEF Locked
<1>2. at'[c] \in 1 .. Len(Steps(running[c])) + 1
  BY <1>1, ReadyHolds
<1>3. Locked'
  BY <1>1, <1>2, ReadyHolds DEF Locked
<1>4. Due' = Pressed(Steps(running[c]), at[c], asked)
  BY <1>1, ReadyHolds DEF Due
<1>5. Pressed(Steps(running[c]), at[c], asked) = After(Due, Step(c))
  <2>1. PICK n \in Nat : n = at[c] - 1
    BY ReadyHolds
  <2>2. n + 1 = at[c] /\ Due = Pressed(Steps(running[c]), n, asked)
    BY <2>1, ReadyHolds
  <2>3. Pressed(Steps(running[c]), n + 1, asked) = After(Pressed(Steps(running[c]), n, asked), Steps(running[c])[n + 1])
    BY PressedNext
  <2> QED
    BY <2>2, <2>3 DEF Step
<1> QED
  BY <1>3, <1>4, <1>5

LEMMA SessionPaused == ASSUME SessionInv, NEW c \in Callers, Paused(c) PROVE SessionInv'
<1>1. Ready(c) /\ Step(c) = Pause
  BY DEF Paused
<1>2. Locked' /\ Due' = After(Due, Pause)
  <2>1. /\ at' = [at EXCEPT ![c] = @ + 1] /\ UNCHANGED <<lock, running, asked>>
        /\ pipe' \in Seq(Sent)
    BY DEF Paused, SessionInv, Locked
  <2> QED
    BY <1>1, <2>1, StepTaken DEF SessionInv
<1>3. Due' = Due
  <2>1. \A x : x \in After(Due, Pause) <=> x \in Due
    BY AfterIs, NothingAbout
  <2>2. PICK a : a = After(Due, Pause)
    OBVIOUS
  <2>3. a = Due
    <3>1. a = {x \in Due : TRUE}
      BY <2>1, <2>2 DEF After, HeldAfter, Pause, Presses, Releases
    <3> QED
      BY <3>1
  <2> QED
    BY <1>2, <2>2, <2>3
<1>4. Balanced' /\ Chords'
  BY <1>3 DEF Paused, SessionInv, Balanced, Chords
<1> QED
  BY <1>2, <1>4 DEF SessionInv

LEMMA SessionSend == ASSUME SessionInv, NEW c \in Callers, Send(c) PROVE SessionInv'
<1>1. /\ Ready(c) /\ session /\ at' = [at EXCEPT ![c] = @ + 1]
      /\ UNCHANGED <<session, link, lock, running, held, asked>>
  BY DEF Send
<1> DEFINE op == running[c]
<1>0. op \in Operations /\ at[c] \in 1 .. Len(Steps(op))
  BY <1>1, ReadyHolds DEF SessionInv
<1>2. PICK e : e = CommandOf(op, at[c])
  OBVIOUS
<1>3. /\ e.type = Step(c).type /\ e.args = Step(c).args /\ e.of = op
      /\ pipe' = Append(pipe, e)
  BY <1>2 DEF CommandOf, Send, Step
<1>4. e \in Sent /\ pipe \in Seq(Sent)
  BY <1>1, <1>2, ReadyHolds DEF Sent, SessionInv, Locked
<1>5. /\ pipe' \in Seq(Sent) /\ Len(pipe) \in Nat /\ Len(pipe') = Len(pipe) + 1
      /\ pipe'[Len(pipe) + 1] = e /\ \A i \in 1 .. Len(pipe) : pipe'[i] = pipe[i]
      /\ Pressed(pipe', Len(pipe) + 1, held) = After(Pressed(pipe, Len(pipe), held), e)
      /\ \A i \in 1 .. Len(pipe) : Pressed(pipe', i, held) = Pressed(pipe, i, held)
  <2>1. PICK t : t = pipe'
    OBVIOUS
  <2>2. t = Append(pipe, e)
    BY <1>3, <2>1
  <2>3. Appended(Sent, pipe, e, held, t)
    BY <1>4, <2>2, AppendPressed
  <2> QED
    BY <2>1, <2>3 DEF Appended
<1>6. Locked' /\ Due' = After(Due, Step(c))
  BY <1>1, <1>5, StepTaken DEF SessionInv
<1>7. After(Due, Step(c)) = After(Due, e)
  BY <1>3, Zenon DEF After
<1>8. link => Pressed(pipe', Len(pipe) + 1, held) = Due'
  BY <1>1, <1>5, <1>6, <1>7 DEF SessionInv, Balanced
<1>9. Balanced'
  BY <1>1, <1>5, <1>8 DEF Balanced
<1>10. ASSUME link, PressesItsKey(e) PROVE ModifiersDown(op) \subseteq Due'
  <2>1. /\ op.kind = "press" /\ e.type = "key_down" /\ e.args.scancode = op.key
        /\ ~Contains(EffectiveModifiers(op), op.key)
    BY <1>3, <1>10 DEF PressesItsKey
  <2>2. op \in PressOps /\ Steps(op) = PressSteps(op)
    <3> HIDE DEF op
    <3> QED
      BY <1>0, <2>1, OperationTypes DEF Steps
  <2>3. op.key \notin ModifiersOf(op)
    BY <2>1 DEF Contains, ModifiersOf, ToSet
  <2>4. PICK i : i = at[c]
    OBVIOUS
  <2>5. i \in 1 .. Len(PressSteps(op))
    <3> HIDE DEF op
    <3> QED
      BY <1>0, <2>2, <2>4
  <2>6. PICK f : f = PressSteps(op)[i]
    OBVIOUS
  <2>7. f.type = "key_down" /\ f.args.scancode = op.key
    BY <1>3, <2>1, <2>2, <2>4, <2>6 DEF Step
  <2>8. {<<"key", m, FALSE>> : m \in ModifiersOf(op)} \subseteq Pressed(PressSteps(op), i, asked)
    <3> HIDE DEF op
    <3> QED
      BY <2>2, <2>3, <2>5, <2>6, <2>7, StepsChord
  <2>9. Due' = Pressed(PressSteps(op), i, asked)
    <3>1. at'[c] - 1 = i /\ lock' = c /\ lock' # NoCaller
      BY <1>1, <2>4, ReadyHolds DEF SessionInv, Locked
    <3> QED
      BY <1>1, <2>2, <3>1 DEF Due
  <2> QED
    BY <2>8, <2>9 DEF ModifiersDown, ModifiersOf
<1>11. Chords'
  <2> SUFFICES ASSUME link, NEW i \in 1 .. Len(pipe) + 1, PressesItsKey(pipe'[i])
               PROVE  ModifiersDown(pipe'[i].of) \subseteq Pressed(pipe', i, held)
    BY <1>1, <1>5 DEF Chords
  <2>1. i \in 1 .. Len(pipe) \/ i = Len(pipe) + 1
    BY <1>5
  <2>2. CASE i \in 1 .. Len(pipe)
    BY <1>5, <2>2 DEF SessionInv, Chords
  <2>3. CASE i = Len(pipe) + 1
    BY <1>3, <1>5, <1>8, <1>10, <2>3
  <2> QED
    BY <2>1, <2>2, <2>3
<1> QED
  BY <1>6, <1>9, <1>11 DEF SessionInv

(* The native library takes the keys of chords. *)
LEMMA ChordKeysAccepted ==
  ASSUME NEW e \in Sent, PressesItsKey(e)
  PROVE  ~Refused(e.type, Parse(e.type, e.args))
<1>1. PICK op \in Operations : \E k \in 1 .. Len(Steps(op)) : e = CommandOf(op, k)
  BY DEF Sent
<1>2. PICK i \in 1 .. Len(Steps(op)) : e = CommandOf(op, i)
  BY <1>1
<1>3. /\ op.kind = "press" /\ e.type = "key_down" /\ e.type = Steps(op)[i].type
      /\ e.args = Steps(op)[i].args
  BY <1>2 DEF CommandOf, PressesItsKey
<1>4. op \in PressOps /\ Steps(op) = PressSteps(op)
  BY <1>3, OperationTypes DEF Steps
<1> PICK s : s = PressSteps(op)
  OBVIOUS
<1> PICK n \in Nat : n = Len(EffectiveModifiers(op))
  BY <1>4, ModifiersTyped
<1>5. ChordShape(op, n, s)
  BY <1>4, PressShape
<1>6. i \in 1 .. 2 * n \/ i = 2 * n + 1 \/ i \in 2 * n + 2 .. 4 * n + 4
  <2>1. Len(s) = 4 * n + 4
    BY <1>5 DEF ChordShape
  <2> QED
    BY <1>4, <2>1
<1>7. \A k : KeyEvent(k, FALSE).type # "key_down" /\ Pause.type # "key_down"
  BY DEF KeyEvent, Command, Pause
<1>8. \/ s[i] = Pause \/ \E m \in ModifiersOf(op) \cup {op.key} : s[i] = KeyEvent(m, TRUE)
      \/ \E m \in ModifiersOf(op) \cup {op.key} : s[i] = KeyEvent(m, FALSE)
  <2>1. CASE i \in 1 .. 2 * n
    BY <1>5, <2>1 DEF ChordShape
  <2>2. CASE i = 2 * n + 1
    BY <1>5, <2>2 DEF ChordShape
  <2>3. CASE i \in 2 * n + 2 .. 4 * n + 4
    BY <1>5, <2>3 DEF ChordShape
  <2> QED
    BY <1>6, <2>1, <2>2, <2>3
<1>9. PICK m \in ModifiersOf(op) \cup {op.key} : s[i] = KeyEvent(m, TRUE)
  BY <1>3, <1>4, <1>7, <1>8
<1>10. m \in Scancodes
  BY <1>4, ModifiersTyped DEF PressOps
<1>11. e.args = [scancode |-> m, extended |-> FALSE]
  BY <1>3, <1>4, <1>9 DEF KeyEvent, Command
<1>12. Parse("key_down", [scancode |-> m, extended |-> FALSE]).scancode = m
  BY DEF Parse, Members, Key
<1>13. Parse(e.type, e.args).scancode = m
  BY <1>3, <1>11, <1>12
<1>14. PICK c : c = Parse(e.type, e.args)
  OBVIOUS
<1>15. c.scancode \in Scancodes /\ e.type = "key_down"
  BY <1>3, <1>10, <1>13, <1>14
<1>16. "key_down" \notin {"unicode_key_down", "unicode_key_up"}
  OBVIOUS
<1>17. ~Refused(e.type, c)
  BY <1>15, <1>16, Zenon DEF Refused
<1> QED
  BY <1>14, <1>17

LEMMA SessionBegin ==
  ASSUME SessionInv, NEW c \in Callers, NEW op \in Operations, Begin(c, op) PROVE SessionInv'
<1>1. op # NoOp
  BY OperationTypes DEF NoOp
<1>2. Len(Steps(op)) \in Nat
  <2>1. {} \in SUBSET Keys
    OBVIOUS
  <2> QED
    BY <2>1, StepsLeave
<1>3. /\ lock = NoCaller /\ lock' = c /\ c # NoCaller
      /\ running' = [running EXCEPT ![c] = op] /\ at' = [at EXCEPT ![c] = 1]
      /\ UNCHANGED <<session, link, pipe, held, asked>>
  BY NoCallerAssumption DEF Begin
<1>4. /\ running'[c] = op /\ at'[c] = 1
      /\ \A b \in Callers : b # c => running'[b] = running[b] /\ lock # b
      /\ running' \in [Callers -> Operations \cup {NoOp}] /\ at' \in [Callers -> Nat]
  BY <1>3, NoCallerAssumption DEF SessionInv, Locked
<1>5. Locked'
  <2>1. 1 \in 1 .. Len(Steps(op)) + 1
    BY <1>2
  <2> QED
    BY <1>1, <1>3, <1>4, <2>1 DEF SessionInv, Locked
<1>6. Due' = Due
  <2>1. Due' = Pressed(Steps(op), 0, asked)
    BY <1>3, <1>4 DEF Due
  <2>2. Due = asked
    BY <1>3 DEF Due
  <2> QED
    BY <2>1, <2>2, PressedNone
<1>7. Balanced' /\ Chords'
  BY <1>3, <1>6 DEF SessionInv, Balanced, Chords
<1> QED
  BY <1>5, <1>7 DEF SessionInv

(* An operation is over: its caller gives the lock back. *)
LEMMA LockedOver ==
  ASSUME Locked, NEW c \in Callers, running[c] # NoOp,
         running' = [running EXCEPT ![c] = NoOp], at' = [at EXCEPT ![c] = 0],
         lock' = IF lock = c THEN NoCaller ELSE lock, asked' \in SUBSET Keys, pipe' \in Seq(Sent)
  PROVE  Locked' /\ lock = c /\ lock' = NoCaller
<1>1. lock = c /\ lock' = NoCaller
  BY DEF Locked
<1>2. /\ running'[c] = NoOp
      /\ \A b \in Callers : b # c => running'[b] = running[b] /\ running[b] = NoOp
      /\ running' \in [Callers -> Operations \cup {NoOp}] /\ at' \in [Callers -> Nat]
  BY <1>1 DEF Locked
<1> QED
  BY <1>1, <1>2, NoCallerAssumption DEF Locked

LEMMA SessionFail == ASSUME SessionInv, NEW c \in Callers, Fail(c) PROVE SessionInv'
<1>1. /\ running[c] # NoOp /\ ~session /\ UNCHANGED <<session, link, pipe, held, asked>>
      /\ running' = [running EXCEPT ![c] = NoOp] /\ at' = [at EXCEPT ![c] = 0]
      /\ lock' = IF lock = c THEN NoCaller ELSE lock
  BY DEF Fail, Ready
<1>2. Locked'
  <2>1. asked' \in SUBSET Keys /\ pipe' \in Seq(Sent)
    BY <1>1 DEF SessionInv, Locked
  <2> QED
    BY <1>1, <2>1, LockedOver DEF SessionInv
<1>3. Balanced' /\ Chords'
  BY <1>1 DEF SessionInv, Balanced, Chords
<1> QED
  BY <1>2, <1>3 DEF SessionInv

LEMMA SessionReturn == ASSUME SessionInv, NEW c \in Callers, Return(c) PROVE SessionInv'
<1> DEFINE op == running[c]
<1>1. /\ running[c] # NoOp /\ at[c] > Len(Steps(op)) /\ UNCHANGED <<session, link, pipe, held>>
      /\ running' = [running EXCEPT ![c] = NoOp] /\ at' = [at EXCEPT ![c] = 0]
      /\ lock' = IF lock = c THEN NoCaller ELSE lock
      /\ asked' = Leaves(op, asked)
  BY DEF Return
<1>2. /\ op \in Operations /\ lock = c /\ lock # NoCaller /\ asked \in SUBSET Keys
      /\ at[c] \in Nat /\ at[c] \in 1 .. Len(Steps(op)) + 1 /\ pipe \in Seq(Sent)
  BY <1>1, NoCallerAssumption DEF SessionInv, Locked
<1>3. /\ Len(Steps(op)) \in Nat
      /\ Pressed(Steps(op), Len(Steps(op)), asked) = Leaves(op, asked)
      /\ Leaves(op, asked) \in SUBSET Keys
  BY <1>2, StepsLeave
<1>4. Locked' /\ lock' = NoCaller
  BY <1>1, <1>2, <1>3, LockedOver DEF SessionInv
<1>5. Due' = Due
  <2>1. Due = Pressed(Steps(op), at[c] - 1, asked)
    BY <1>2 DEF Due
  <2>2. at[c] - 1 = Len(Steps(op))
    BY <1>1, <1>2, <1>3
  <2>3. Due' = asked'
    BY <1>4 DEF Due
  <2> QED
    BY <1>1, <1>3, <2>1, <2>2, <2>3, Zenon
<1>6. Balanced' /\ Chords'
  BY <1>1, <1>5 DEF SessionInv, Balanced, Chords
<1> QED
  BY <1>4, <1>6 DEF SessionInv

(* When neither callers nor the lock move, what is due stays. *)
LEMMA CallersStay ==
  ASSUME Locked, UNCHANGED <<lock, running, at, asked>>, pipe' \in Seq(Sent)
  PROVE  Locked' /\ Due' = Due
  BY DEF Locked, Due

LEMMA SessionExecute == ASSUME SessionInv, Execute PROVE SessionInv'
<1>1. /\ link /\ pipe # << >> /\ pipe' = Tail(pipe) /\ UNCHANGED <<lock, running, at, asked>>
      /\ pipe \in Seq(Sent)
  BY DEF Execute, SessionInv, Locked
<1>2. /\ pipe' \in Seq(Sent) /\ Len(pipe) \in Nat /\ Len(pipe') \in Nat
      /\ Len(pipe') + 1 = Len(pipe) /\ \A i \in 1 .. Len(pipe') : pipe'[i] = pipe[i + 1]
      /\ \A i \in 1 .. Len(pipe') : i \in Nat /\ i + 1 \in 1 .. Len(pipe) /\ i + 1 <= Len(pipe)
  BY <1>1
<1>3. Locked' /\ Due' = Due
  BY <1>1, <1>2, CallersStay DEF SessionInv
<1>4. \/ link' = FALSE
      \/ held' = After(held, Head(pipe)) /\ UNCHANGED <<session, link>>
  BY DEF Execute, After
<1>5. CASE link' = FALSE
  BY <1>3, <1>5 DEF SessionInv, Balanced, Chords
<1>6. CASE held' = After(held, Head(pipe)) /\ UNCHANGED <<session, link>>
  <2>1. ASSUME NEW i \in Nat, i + 1 <= Len(pipe)
        PROVE  Pressed(pipe, i + 1, held) = Pressed(pipe', i, held')
    BY <1>1, <1>6, <2>1, PressedTail
  <2>2. Balanced'
    <3>1. Pressed(pipe, Len(pipe), held) = Pressed(pipe', Len(pipe'), held')
      <4>1. Pressed(pipe, Len(pipe') + 1, held) = Pressed(pipe', Len(pipe'), held')
        BY <1>2, <2>1
      <4> QED
        BY <1>2, <4>1
    <3> QED
      BY <1>3, <1>6, <3>1 DEF SessionInv, Balanced
  <2>3. Chords'
    <3> SUFFICES ASSUME NEW i \in 1 .. Len(pipe'), PressesItsKey(pipe'[i])
                 PROVE  ModifiersDown(pipe'[i].of) \subseteq Pressed(pipe', i, held')
      BY DEF Chords
    <3>1. PressesItsKey(pipe[i + 1]) /\ pipe'[i] = pipe[i + 1]
      BY <1>2
    <3>2. ModifiersDown(pipe[i + 1].of) \subseteq Pressed(pipe, i + 1, held)
      BY <1>1, <1>2, <3>1 DEF SessionInv, Chords
    <3>3. Pressed(pipe, i + 1, held) = Pressed(pipe', i, held')
      BY <1>2, <2>1
    <3> QED
      BY <3>1, <3>2, <3>3
  <2> QED
    BY <1>3, <2>2, <2>3 DEF SessionInv
<1> QED
  BY <1>4, <1>5, <1>6

(* The connection ends, or the session does: nothing is due any more. *)
LEMMA SessionEnds ==
  ASSUME SessionInv, Lose \/ Told \/ Drop \/ InvalidBitmap PROVE SessionInv'
<1>1. << >> \in Seq(Sent)
  OBVIOUS
<1>2. Locked'
  <2>1. UNCHANGED <<lock, running, at, asked>> /\ (pipe' = pipe \/ pipe' = << >>)
    BY DEF Lose, Told, Drop, InvalidBitmap
  <2>2. pipe' \in Seq(Sent)
    BY <1>1, <2>1 DEF SessionInv, Locked
  <2> QED
    BY <2>1, <2>2, CallersStay DEF SessionInv
<1>3. Balanced' /\ Chords'
  <2>1. CASE Lose \/ Told \/ Drop
    <3>1. Balanced'
      BY <2>1 DEF Lose, Told, Drop, Balanced
    <3>2. Chords'
      BY <2>1 DEF Lose, Told, Drop, SessionInv, Chords
    <3> QED
      BY <3>1, <3>2
  <2>2. CASE InvalidBitmap
    BY <2>2 DEF InvalidBitmap, SessionInv, Balanced, Chords
  <2> QED
    BY <2>1, <2>2
<1> QED
  BY <1>2, <1>3 DEF SessionInv

LEMMA SessionStart == Init => SessionInv
<1> SUFFICES ASSUME Init PROVE SessionInv
  OBVIOUS
<1>1. Locked
  <2>1. << >> \in Seq(Sent)
    OBVIOUS
  <2> QED
    BY <2>1, NoCallerAssumption DEF Init, Locked
<1>2. pipe = << >> /\ Len(<< >>) = 0 /\ lock = NoCaller /\ held = {} /\ asked = {}
  BY DEF Init
<1>3. Balanced
  <2>1. Pressed(<< >>, 0, {}) = {}
    BY PressedNone
  <2>2. Pressed(pipe, Len(pipe), held) = {}
    BY <1>2, <2>1
  <2>3. Due = {}
    BY <1>2 DEF Due
  <2> QED
    BY <2>2, <2>3 DEF Balanced
<1>4. Chords
  BY <1>2 DEF Chords
<1> QED
  BY <1>1, <1>3, <1>4 DEF SessionInv

LEMMA SessionNext == SessionInv /\ [Next]_vars => SessionInv'
<1> SUFFICES ASSUME SessionInv, [Next]_vars PROVE SessionInv'
  OBVIOUS
<1>1. ASSUME NEW c \in Callers, Caller(c) PROVE SessionInv'
  BY <1>1, SessionPaused, SessionSend, SessionFail, SessionReturn DEF Caller
<1>2. ASSUME NEW c \in Callers, NEW op \in Operations, Begin(c, op) PROVE SessionInv'
  BY <1>2, SessionBegin
<1>3. CASE Execute
  BY <1>3, SessionExecute
<1>4. CASE Lose \/ Told \/ Drop \/ InvalidBitmap
  BY <1>4, SessionEnds
<1>5. CASE UNCHANGED vars
  BY <1>5 DEF vars, SessionInv, Locked, Balanced, Due, Chords
<1> QED
  BY <1>1, <1>2, <1>3, <1>4, <1>5 DEF Next

-----------------------------------------------------------------------------
(* The native side. *)

(* What is pressed when the caller says that a is: buttons that do not     *)
(* exist are encoded as one that does.                                     *)
Enc(a) == IF a[1] = "button" THEN <<"button", Native!ButtonDownFlag(a[2]), FALSE>> ELSE a
HeldIsAsked == ~broken => nativeHeld \subseteq {Enc(a) : a \in nativeAsked}
NativeInv == HeldIsAsked /\ heap = {} /\ Native!WheelFollowsDelta

LEMMA AskedIsEncoded ==
  ASSUME NEW type \in Presses \cup Releases, NEW c
  PROVE  Enc(Native!Asked(type, c)) = Native!Thing(type, c)
<1>1. ASSUME NEW x, NEW y PROVE <<"key", x, y>>[1] # "button" /\ <<"unit", x, FALSE>>[1] # "button"
  OBVIOUS
<1>2. CASE type \in {"key_down", "key_up"}
  <2>1. Native!Asked(type, c) = Native!Thing(type, c)
    BY <1>2 DEF Native!Asked
  <2>2. Native!Thing(type, c) = <<"key", c.scancode, c.extended>>
    BY <1>2 DEF Native!Thing
  <2> QED
    BY <1>1, <2>1, <2>2 DEF Enc
<1>3. CASE type \in {"unicode_key_down", "unicode_key_up"}
  <2>1. Native!Asked(type, c) = Native!Thing(type, c)
    BY <1>3 DEF Native!Asked
  <2>2. Native!Thing(type, c) = <<"unit", c.code_unit, FALSE>>
    BY <1>3 DEF Native!Thing
  <2> QED
    BY <1>1, <2>1, <2>2 DEF Enc
<1>4. CASE type \in {"mouse_button_down", "mouse_button_up"}
  <2>1. Native!Asked(type, c) = <<"button", c.button, FALSE>>
    BY <1>4 DEF Native!Asked
  <2>2. <<"button", c.button, FALSE>>[1] = "button" /\ <<"button", c.button, FALSE>>[2] = c.button
    OBVIOUS
  <2>3. Native!ButtonDownFlag(c.button) = Native!ButtonUpFlag(c.button)
    BY DEF Native!ButtonDownFlag, Native!ButtonUpFlag
  <2>4. Native!Thing(type, c) = <<"button", Native!ButtonDownFlag(c.button), FALSE>>
    BY <1>4, <2>3 DEF Native!Thing
  <2> QED
    BY <2>1, <2>2, <2>4, Zenon DEF Enc
<1> QED
  BY <1>2, <1>3, <1>4 DEF Presses, Releases

LEMMA HeapStaysEmpty == ASSUME NEW type, heap = {}, Native!Free(type) PROVE heap' = {}
<1>1. Native!Allocated(type) = Native!Freed(type)
  BY DEF Native!Allocated, Native!Freed
<1> QED
  BY <1>1 DEF Native!Free

LEMMA InputKeepsHeld ==
  ASSUME HeldIsAsked, NEW type, NEW json, Native!Input(type, json) PROVE HeldIsAsked'
<1> PICK c : c = Native!Parse(type, json)
  OBVIOUS
<1> PICK sent : sent = (up /\ ~Native!Refused(type, c) /\ ~broken)
  OBVIOUS
<1> PICK ok : ok = (sent \/ ~up \/ type \notin Native!ReportsFailure)
  OBVIOUS
<1>1. /\ nativeHeld' = IF sent THEN Native!HeldAfter(nativeHeld, type, c) ELSE nativeHeld
      /\ nativeAsked' = CASE ok /\ up /\ type \in Native!Presses -> nativeAsked \cup {Native!Asked(type, c)}
                          [] ok /\ up /\ type \in Native!Releases -> nativeAsked \ {Native!Asked(type, c)}
                          [] OTHER -> nativeAsked
      /\ UNCHANGED broken
  BY Zenon DEF Native!Input
<1>2. Native!Presses = Presses /\ Native!Releases = Releases /\ Presses \cap Releases = {}
  BY DEF Native!Presses, Native!Releases, Presses, Releases
<1> SUFFICES ASSUME ~broken PROVE nativeHeld' \subseteq {Enc(a) : a \in nativeAsked'}
  BY <1>1 DEF HeldIsAsked
<1>3. nativeHeld \subseteq {Enc(a) : a \in nativeAsked}
  BY DEF HeldIsAsked
<1>4. CASE sent /\ type \in Presses
  <2>1. nativeHeld' = nativeHeld \cup {Native!Thing(type, c)}
    BY <1>1, <1>2, <1>4 DEF Native!HeldAfter
  <2>2. nativeAsked' = nativeAsked \cup {Native!Asked(type, c)}
    BY <1>1, <1>2, <1>4
  <2> QED
    BY <1>3, <1>4, <2>1, <2>2, AskedIsEncoded
<1>5. CASE sent /\ type \in Releases
  <2>1. nativeHeld' = nativeHeld \ {Native!Thing(type, c)}
    BY <1>1, <1>2, <1>5 DEF Native!HeldAfter
  <2>2. nativeAsked' = nativeAsked \ {Native!Asked(type, c)}
    BY <1>1, <1>2, <1>5
  <2>3. Enc(Native!Asked(type, c)) = Native!Thing(type, c)
    BY <1>5, AskedIsEncoded
  <2> QED
    BY <1>3, <2>1, <2>2, <2>3
<1>6. CASE type \notin Presses \cup Releases
  <2>1. nativeHeld' = nativeHeld /\ nativeAsked' = nativeAsked
    BY <1>1, <1>2, <1>6 DEF Native!HeldAfter
  <2> QED
    BY <1>3, <2>1
<1>7. CASE ~sent /\ type \in Presses \cup Releases
  <2>1. nativeHeld' = nativeHeld
    BY <1>1, <1>7
  <2>2. up => Native!Refused(type, c)
    BY <1>7
  <2>3. up => type \in Native!ReportsFailure
    <3>1. up => type \in {"key_down", "key_up"} \/ type \in {"unicode_key_down", "unicode_key_up"}
      BY <2>2, Zenon DEF Native!Refused
    <3> QED
      BY <3>1 DEF Native!ReportsFailure
  <2>4. ~(ok /\ up)
    BY <1>7, <2>3
  <2>5. nativeAsked' = nativeAsked
    BY <1>1, <2>4
  <2> QED
    BY <1>3, <2>1, <2>5
<1> QED
  BY <1>4, <1>5, <1>6, <1>7

LEMMA WheelTurnsRight ==
  ASSUME NEW delta \in I32, delta # -IntLimit
  PROVE  /\ Native!WheelAmount(delta)
              = LET abs == IF delta < 0 THEN -delta ELSE delta
                IN  IF abs < Native!WheelStep THEN abs ELSE Native!WheelStep
         /\ Native!WheelNegative(delta) <=> delta < 0
<1>1. delta \in Int
  BY WidthAssumption DEF I32
<1>2. Native!Negate(delta) = -delta
  BY DEF Native!Negate
<1> QED
  BY <1>1, <1>2 DEF Native!WheelAmount, Native!WheelStep, Native!WheelNegative

LEMMA InputTurnsWheel ==
  ASSUME Native!WheelFollowsDelta, NEW i \in Inputs, Native!Input(i[1], i[2])
  PROVE  Native!WheelFollowsDelta'
<1> PICK c : c = Native!Parse(i[1], i[2])
  OBVIOUS
<1>1. \/ wheel' = wheel
      \/ /\ i[1] = "mouse_scroll"
         /\ wheel' = [delta |-> c.delta, amount |-> Native!WheelAmount(c.delta),
                      negative |-> Native!WheelNegative(c.delta)]
  BY DEF Native!Input
<1>2. CASE wheel' = wheel
  BY <1>2 DEF Native!WheelFollowsDelta
<1>3. CASE /\ i[1] = "mouse_scroll"
           /\ wheel' = [delta |-> c.delta, amount |-> Native!WheelAmount(c.delta),
                        negative |-> Native!WheelNegative(c.delta)]
  <2>1. c.delta \in I32
    <3>1. c.delta = IF "delta" \in DOMAIN i[2] THEN i[2].delta ELSE 0
      BY <1>3 DEF Native!Parse, Native!Members
    <3>2. 0 \in I32
      BY WidthAssumption DEF I32
    <3> QED
      BY <3>1, <3>2, InputsAssumption
  <2>2. PICK d \in I32 : d = c.delta
    BY <2>1
  <2>3. /\ wheel'.delta = d /\ wheel'.amount = Native!WheelAmount(d)
        /\ wheel'.negative = Native!WheelNegative(d)
    BY <1>3, <2>2
  <2> QED
    BY <2>3, WheelTurnsRight DEF Native!WheelFollowsDelta
<1> QED
  BY <1>1, <1>2, <1>3

LEMMA NativeStart == Native!Init => NativeInv
<1> SUFFICES ASSUME Native!Init PROVE NativeInv
  OBVIOUS
<1>1. Native!WheelFollowsDelta
  BY DEF Native!Init, Native!WheelFollowsDelta, Native!WheelStep
<1> QED
  BY <1>1 DEF Native!Init, NativeInv, HeldIsAsked

LEMMA NativeNext == NativeInv /\ [Native!Next]_nativeVars => NativeInv'
<1> SUFFICES ASSUME NativeInv, [Native!Next]_nativeVars PROVE NativeInv'
  OBVIOUS
<1>1. HeldIsAsked /\ heap = {} /\ Native!WheelFollowsDelta
  BY DEF NativeInv
<1>2. CASE Native!Connected \/ Native!Lost \/ Native!Breaks \/ Native!Unknown \/ UNCHANGED nativeVars
  <2>1. wheel' = wheel /\ heap' = heap
    BY <1>2 DEF Native!Connected, Native!Lost, Native!Breaks, Native!Unknown, nativeVars
  <2>2. HeldIsAsked'
    BY <1>1, <1>2 DEF Native!Connected, Native!Lost, Native!Breaks, Native!Unknown, nativeVars, HeldIsAsked
  <2>3. Native!WheelFollowsDelta'
    BY <1>1, <2>1 DEF Native!WheelFollowsDelta
  <2> QED
    BY <1>1, <2>1, <2>2, <2>3 DEF NativeInv
<1>3. ASSUME NEW type \in Native!Others, Native!Other(type) PROVE NativeInv'
  <2>1. UNCHANGED <<broken, nativeHeld, nativeAsked, wheel>> /\ Native!Free(type)
    BY <1>3 DEF Native!Other
  <2>2. heap' = {}
    BY <1>1, <2>1, HeapStaysEmpty
  <2> QED
    BY <1>1, <2>1, <2>2 DEF NativeInv, HeldIsAsked, Native!WheelFollowsDelta
<1>4. ASSUME NEW i \in Inputs, Native!Input(i[1], i[2]) PROVE NativeInv'
  <2>1. Native!Free(i[1])
    BY <1>4 DEF Native!Input
  <2>2. heap' = {}
    BY <1>1, <2>1, HeapStaysEmpty
  <2> QED
    BY <1>1, <1>4, <2>2, InputKeepsHeld, InputTurnsWheel DEF NativeInv
<1> QED
  BY <1>2, <1>3, <1>4 DEF Native!Next

-----------------------------------------------------------------------------
(* Theorems. *)

InputInv == SessionInv /\ NativeInv

LEMMA InputInductive ==
  /\ MCInit => InputInv
  /\ InputInv /\ [Here(Next) \/ There(Native!Next)]_MCVars => InputInv'
<1>1. MCInit => InputInv
  BY SessionStart, NativeStart DEF MCInit, InputInv
<1>2. ASSUME InputInv, [Here(Next) \/ There(Native!Next)]_MCVars PROVE InputInv'
  <2>1. [Next]_vars /\ [Native!Next]_nativeVars
    BY <1>2 DEF Here, There, MCVars
  <2> QED
    BY <1>2, <2>1, SessionNext, NativeNext DEF InputInv
<1> QED
  BY <1>1, <1>2

LEMMA InputAlways == MCSpec => []InputInv
  BY InputInductive, PTL DEF MCSpec

(* Nothing of an operation or a command stays behind on either side of the *)
(* pipe: what the operations pressed they have released unless it was to   *)
(* stay pressed, for any operations of any callers (session.rs, input.c);  *)
(* presses and releases of the native library match, and parsed commands   *)
(* are freed (protocol.c).                                                 *)
THEOREM NothingEverStaysBehind == MCSpec => []NothingStaysBehind
<1>1. InputInv => NothingStaysBehind
  <2> SUFFICES ASSUME InputInv PROVE NothingStaysBehind
    OBVIOUS
  <2>1. HeldAsAsked
    <3> SUFFICES ASSUME Quiet, session, link PROVE held = asked
      BY DEF HeldAsAsked
    <3>1. lock = NoCaller /\ pipe = << >> /\ Len(pipe) = 0
      BY DEF Quiet, InputInv, SessionInv, Locked
    <3>2. Pressed(pipe, 0, held) = asked
      BY <3>1 DEF InputInv, SessionInv, Balanced, Due
    <3> QED
      BY <3>2, PressedNone
  <2>2. Native!NothingStaysHeld /\ Native!HeapIsEmpty
    BY DEF InputInv, NativeInv, HeldIsAsked, Native!NothingStaysHeld, Native!HeapIsEmpty
  <2> QED
    BY <2>1, <2>2 DEF NothingStaysBehind
<1> QED
  BY <1>1, InputAlways, PTL

(* The numbers of input are kept: the points of a drag that is not too far *)
(* lie between its ends (session.rs), a wheel event goes the way and by    *)
(* the amount that was asked for (input.c), for every i32.                 *)
THEOREM NumbersAreAlwaysKept == MCSpec => []NumbersAreKept
<1>1. InputInv => NumbersAreKept
  <2> SUFFICES ASSUME InputInv PROVE NumbersAreKept
    OBVIOUS
  <2>1. DragStaysBetween
    <3> SUFFICES ASSUME NEW i \in 1 .. Len(pipe), NEW drag, drag = pipe[i].of,
                        drag.kind = "drag", pipe[i].type = "mouse_move",
                        10 * (drag.to - drag.from) \in I32
                 PROVE  Between(pipe[i].args.x, drag.from, drag.to)
      BY DEF DragStaysBetween, Between
    <3>1. pipe[i] \in Sent
      BY ElementOfSeq DEF InputInv, SessionInv, Locked
    <3>2. PICK op \in Operations : \E k \in 1 .. Len(Steps(op)) : pipe[i] = CommandOf(op, k)
      BY <3>1 DEF Sent
    <3> PICK j \in 1 .. Len(Steps(op)) : pipe[i] = CommandOf(op, j)
      BY <3>2
    <3>3. op = drag /\ pipe[i].type = Steps(op)[j].type /\ pipe[i].args = Steps(op)[j].args
      BY DEF CommandOf
    <3>4. Steps(op) = DragSteps(op) /\ op.from \in I32 /\ op.to \in I32
      BY <3>3, OperationTypes DEF Steps
    <3> QED
      BY <3>3, <3>4, DragMoves
  <2> QED
    BY <2>1 DEF InputInv, NativeInv, NumbersAreKept
<1> QED
  BY <1>1, InputAlways, PTL

(* A chord is held together: a key reaches the remote desktop while all    *)
(* modifiers of its chord are pressed (send_key_stroke), whatever the      *)
(* other callers do, wherever the connection is lost.                      *)
THEOREM ChordsAreHeldTogether == MCSpec => ChordIsHeldTogether
<1> DEFINE Together == ModifiersDown(Head(pipe).of) \subseteq held'
<1>1. ASSUME InputInv, Execute, PressesItsKey(Head(pipe)) PROVE Together
  <2>1. /\ link /\ pipe # << >> /\ pipe \in Seq(Sent) /\ Chords
    BY <1>1 DEF Execute, InputInv, SessionInv, Locked
  <2> PICK e : e = Head(pipe)
    OBVIOUS
  <2>2. 1 \in 1 .. Len(pipe) /\ e = pipe[1] /\ e \in Sent
    BY <2>1
  <2>3. ModifiersDown(e.of) \subseteq Pressed(pipe, 1, held)
    BY <1>1, <2>1, <2>2 DEF Chords
  <2>4. Pressed(pipe, 1, held) = After(held, e)
    <3>1. Pressed(pipe, 0 + 1, held) = After(Pressed(pipe, 0, held), pipe[0 + 1])
      BY PressedNext
    <3>2. 0 + 1 = 1
      OBVIOUS
    <3> QED
      BY <2>2, <3>1, <3>2, PressedNone
  <2>5. ~Refused(e.type, Parse(e.type, e.args))
    BY <1>1, <2>2, ChordKeysAccepted
  <2>6. held' = After(held, e)
    BY <1>1, <2>5 DEF Execute, After
  <2> QED
    BY <2>3, <2>4, <2>6
<1> HIDE DEF Together
<1>2. InputInv /\ [Here(Next) \/ There(Native!Next)]_MCVars
        => [Execute /\ PressesItsKey(Head(pipe)) => Together]_vars
  BY <1>1
<1>3. MCSpec => [][Execute /\ PressesItsKey(Head(pipe)) => Together]_vars
  BY <1>2, InputAlways, PTL DEF MCSpec
<1> QED
  BY <1>3 DEF ChordIsHeldTogether, Together
=============================================================================
