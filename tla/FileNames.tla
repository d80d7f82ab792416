------------------------------ MODULE FileNames ------------------------------
(***************************************************************************)
(* The name of a file on the server becomes a name below the download      *)
(* directory (cliprdr_file.c: normalize_path_separators, then              *)
(* sanitize_filename, both in place).  A name is len characters, of which  *)
(* only separators, dots and the underscore are told apart.                *)
(***************************************************************************)
EXTENDS Integers

CONSTANTS
  Letters,     \* all other characters
  Builds,      \* TRUE is the Windows build: backslashes stay as they are
  MaxLength    \* of the names a server offers

Slash == "/"
Backslash == "\\"
Dot == "."
Underscore == "_"
Separators == {Slash, Backslash}
Chars == Letters \cup Separators \cup {Dot, Underscore}

VARIABLES name, len, at, p,
          base   \* the name as it was before its components were looked at

vars == <<name, len, at, p, base>>

Init ==
  /\ len \in 0 .. MaxLength /\ name \in [1 .. len -> Chars]
  /\ at = "normalize" /\ p = 1 /\ base = name

(* normalize_path_separators *)
Normalize ==
  /\ at = "normalize" /\ at' = "strip"
  /\ \E windows \in Builds :
       name' = IF windows THEN name
               ELSE [i \in 1 .. len |-> IF name[i] = Backslash THEN Slash ELSE name[i]]
  /\ base' = name' /\ UNCHANGED <<len, p>>

StripOnlySlashes ==
  /\ at = "strip"
  /\ IF len > 0 /\ name[1] = Slash
     THEN /\ name' = [i \in 1 .. len - 1 |-> name[i + 1]] /\ len' = len - 1
          /\ UNCHANGED at
     ELSE UNCHANGED <<name, len>> /\ at' = "scan"
  /\ base' = name' /\ UNCHANGED p

(* Leading separators are skipped one by one, the rest is moved to the front. *)
Strip ==
  /\ at = "strip"
  /\ IF len > 0 /\ name[1] \in Separators
     THEN /\ name' = [i \in 1 .. len - 1 |-> name[i + 1]] /\ len' = len - 1
          /\ UNCHANGED at
     ELSE UNCHANGED <<name, len>> /\ at' = "scan"
  /\ base' = name' /\ UNCHANGED p

(* The component that begins at i is "..". *)
DotDotAt(n, l, i) ==
  /\ i \in 1 .. l /\ i + 1 <= l /\ n[i] = Dot /\ n[i + 1] = Dot
  /\ i = 1 \/ n[i - 1] \in Separators
  /\ i + 1 = l \/ n[i + 2] \in Separators

DotsAt(n, l, i) ==
  /\ i + 1 <= l /\ n[i] = Dot /\ n[i + 1] = Dot

ScanAnyDots ==
  /\ at = "scan" /\ p <= len
  /\ name' = IF DotsAt(name, len, p)
             THEN [name EXCEPT ![p] = Underscore, ![p + 1] = Underscore] ELSE name
  /\ p' = p + 1 /\ UNCHANGED <<len, at, base>>

ScanPastPair ==
  /\ at = "scan" /\ p <= len
  /\ name' = IF DotDotAt(name, len, p)
             THEN [name EXCEPT ![p] = Underscore, ![p + 1] = Underscore] ELSE name
  /\ p' = (IF DotDotAt(name, len, p) THEN p + 3 ELSE p + 1) /\ UNCHANGED <<len, at, base>>

(* One turn of the loop over the characters. *)
Scan ==
  /\ at = "scan" /\ p <= len
  /\ name' = IF DotDotAt(name, len, p)
             THEN [name EXCEPT ![p] = Underscore, ![p + 1] = Underscore] ELSE name
  /\ p' = p + 1 /\ UNCHANGED <<len, at, base>>

FinishNever ==
  /\ at = "scan" /\ p > len + 1 /\ at' = "done"
  /\ UNCHANGED <<name, len, p, base>>

Finish ==
  /\ at = "scan" /\ p > len /\ at' = "done"
  /\ UNCHANGED <<name, len, p, base>>

Next == Normalize \/ Strip \/ Scan \/ Finish
Spec == Init /\ [][Next]_vars
FairSpec == Spec /\ WF_vars(Next)

-----------------------------------------------------------------------------
(* Properties. *)

(* Strings stay strings of their length, and the loop inside them. *)
TypeOK ==
  /\ len \in Nat /\ name \in [1 .. len -> Chars] /\ base \in [1 .. len -> Chars]
  /\ at \in {"normalize", "strip", "scan", "done"} /\ p \in 1 .. len + 1

(* A sanitized name stays below the download directory: it is not absolute *)
(* and no component of it is "..".                                         *)
StaysBelow ==
  at = "done" =>
    /\ len > 0 => name[1] \notin Separators
    /\ \A i \in 1 .. len : ~DotDotAt(name, len, i)

(* Other names are left alone: "a..b", "..." or ".. " are names of files.  *)
OthersAreKept ==
  (\A i \in 1 .. len : ~DotDotAt(base, len, i)) => name = base

(* Both loops end. *)
Sanitized == <>(at = "done")
=============================================================================
