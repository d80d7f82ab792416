---------------------------- MODULE MCClipLocal ----------------------------
EXTENDS ClipLocal

CONSTANTS fileA, fileB

(* Nothing, one file, a list of malformed items around another file, and   *)
(* a list above the limit.                                                 *)
MCFileLists == {<< >>, <<fileA>>, <<NoText, fileB>>, <<fileA, fileB, fileA>>}
=============================================================================
