----------------------------- MODULE MCReviewRuns -----------------------------
(***************************************************************************)
(* Small instances of ReviewRuns.                                          *)
(***************************************************************************)
EXTENDS ReviewRuns, TLC

\* What a note hook asks for: a head commit, no base.
NoteRequests == [mode : {"manual"}, base : {FALSE}, head : {1, 2}]
\* Two calls of the internal API: without any sha, and with all of them.
ApiRequests == {[mode |-> "manual", base |-> FALSE, head |-> 0],
                [mode |-> "manual", base |-> TRUE, head |-> 1]}
OneRequest == {[mode |-> "manual", base |-> FALSE, head |-> 1]}

ActorSymmetry == Permutations(Handlers) \cup Permutations(Workers)
===============================================================================
