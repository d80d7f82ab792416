---------------------------- MODULE MCClipRemote ----------------------------
EXTENDS ClipRemote

CONSTANT dir

(* Text, and a directory with an empty file and one of three blocks, which *)
(* takes two ranges or more.                                               *)
MCContents == {<< >>, <<dir, 0, 3>>}

(* Copies while downloads are cancelled; refusals besides, with the stream *)
(* ids of the code and with ids that wrap around; and everything that can  *)
(* fail.                                                                   *)
MCEnvironments ==
  {[copies |-> 3, downloads |-> 2, streams |-> 2147483647, faults |-> {}],
   [copies |-> 2, downloads |-> 2, streams |-> 2147483647, faults |-> {"refuse", "open"}],
   [copies |-> 3, downloads |-> 1, streams |-> 2147483647, faults |-> {"refuse", "open"}],
   [copies |-> 1, downloads |-> 2, streams |-> 4, faults |-> {"refuse", "open"}],
   [copies |-> 2, downloads |-> 1, streams |-> 3,
    faults |-> {"send", "empty", "refuse", "open", "disk"}]}

(* Nothing fails: what is misrouted then, is so by the order of messages.  *)
RouteEnvironments == {e \in MCEnvironments : e.faults = {}}
=============================================================================
