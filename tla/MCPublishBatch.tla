---------------------------- MODULE MCPublishBatch ----------------------------
(***************************************************************************)
(* Instances of PublishBatch for TLC: files and rules are interchangeable   *)
(* (the limits compare them, no order does), findings are not (they are    *)
(* ranked).                                                                *)
(***************************************************************************)
EXTENDS PublishBatch, TLC

Past(thread, change, later) == [thread |-> thread, change |-> change, later |-> later]

\* New, moved and unchanged: one history for each priority group.
OpenOrNew == {Past("none", "none", FALSE), Past("open", "anchor", FALSE), Past("open", "none", FALSE)}

\* Every history a finding can have, but for an open thread whose anchor moved under
\* the same body and for combinations the phases treat alike.
NothingMoved ==
  {Past("none", "none", FALSE), Past("open", "body", FALSE), Past("open", "none", FALSE),
   Past("reopened", "none", FALSE), Past("resolved", "anchor", FALSE), Past("none", "none", TRUE)}

AnchorMoved == {Past("open", "anchor", FALSE)}

Symmetry == Permutations(Files) \cup Permutations(Rules)
===============================================================================
