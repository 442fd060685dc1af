----------------------------- MODULE DetectInputs -----------------------------
(***************************************************************************)
(* The heads a note-triggered run works with.  The branch moves with every *)
(* push; GitLab moves the merge request after it.  The webhook carries the *)
(* head GitLab knew when the note was written and asks for the branch      *)
(* head; detect fetches the request, the diff and the files one after the  *)
(* other, and asks again while the diff is not of the expected head.       *)
(* Heads are numbered in the order they were pushed.                       *)
(***************************************************************************)
EXTENDS Integers

CONSTANTS
  Retries,    \* _NOTE_MENTION_EXPECTED_HEAD_RETRIES
  MaxHead     \* bound: pushes

\* Assumed of the constants where the module is instantiated.
HeadConstants == Retries \in Nat /\ MaxHead \in Nat \ {0}

Heads  == 1..MaxHead
NoHead == 0

VARIABLES
  branch, mr,   \* head of the branch and of the merge request
  stage,        \* where the run is
  trigger,      \* "note_mention", or another trigger, whose head is not awaited
  expected,     \* head the run was created with
  meta, diff,   \* heads of the request meta and of the diff in hand
  retried,      \* times they were fetched again
  reviewed,     \* review_run.head_sha once the phase has its inputs
  context       \* head the file contexts are read at

vars == <<branch, mr, stage, trigger, expected, meta, diff, retried, reviewed, context>>

TypeOK ==
  /\ branch \in Heads /\ mr \in Heads /\ mr <= branch
  /\ stage \in {"none", "created", "meta", "diff", "ready", "reading"}
  /\ trigger \in {"note_mention", "manual"}
  /\ {expected, meta, diff, reviewed, context} \subseteq Heads \cup {NoHead}
  /\ retried \in 0..Retries

Init ==
  /\ branch = 1 /\ mr = 1 /\ stage = "none" /\ trigger \in {"note_mention", "manual"}
  /\ expected = NoHead /\ meta = NoHead /\ diff = NoHead /\ retried = 0
  /\ reviewed = NoHead /\ context = NoHead

-------------------------------------------------------------------------------
Push ==
  /\ branch < MaxHead /\ branch' = branch + 1
  /\ UNCHANGED <<mr, stage, trigger, expected, meta, diff, retried, reviewed, context>>

MergeRequestFollows ==
  /\ mr < branch /\ mr' \in mr + 1..branch
  /\ UNCHANGED <<branch, stage, trigger, expected, meta, diff, retried, reviewed, context>>

\* The branch head replaces the head of the payload if it can be fetched.
NoteArrives ==
  /\ stage = "none" /\ stage' = "created"
  /\ \/ \E payload \in 1..mr : expected' = payload
     \/ expected' = branch
     \/ trigger = "manual" /\ expected' = NoHead
  /\ UNCHANGED <<branch, mr, trigger, meta, diff, retried, reviewed, context>>

FetchMeta ==
  /\ stage = "created" /\ stage' = "meta" /\ meta' = mr
  /\ UNCHANGED <<branch, mr, trigger, expected, diff, retried, reviewed, context>>

FetchDiff ==
  /\ stage = "meta" /\ stage' = "diff" /\ diff' = mr
  /\ UNCHANGED <<branch, mr, trigger, expected, meta, retried, reviewed, context>>

Awaited == trigger = "note_mention" /\ expected # NoHead /\ diff # expected

FetchAgain ==
  /\ stage = "diff" /\ Awaited /\ retried < Retries
  /\ retried' = retried + 1 /\ stage' = "created"
  /\ UNCHANGED <<branch, mr, trigger, expected, meta, diff, reviewed, context>>

\* Mutant: the phase does not wait for the last retries.
Settle_Impatient ==
  /\ stage = "diff"
  /\ stage' = "ready" /\ reviewed' = diff
  /\ UNCHANGED <<branch, mr, trigger, expected, meta, diff, retried, context>>

\* The diff is the expected one, or none was expected, or it did not settle.
Settle ==
  /\ stage = "diff" /\ (~Awaited \/ retried = Retries)
  /\ stage' = "ready" /\ reviewed' = diff
  /\ UNCHANGED <<branch, mr, trigger, expected, meta, diff, retried, context>>

FetchContext ==
  /\ stage = "ready" /\ stage' = "reading" /\ context' = reviewed
  /\ UNCHANGED <<branch, mr, trigger, expected, meta, diff, retried, reviewed>>

Next ==
  \/ Push \/ MergeRequestFollows \/ NoteArrives
  \/ FetchMeta \/ FetchDiff \/ FetchAgain \/ Settle \/ FetchContext

Spec == Init /\ [][Next]_vars

-------------------------------------------------------------------------------
\* A note is not answered with a review of an older head than the one it asked
\* for, unless GitLab lagged behind for all the retries; and whatever is pushed
\* between the requests, file contexts are read at the head the diff is of.
NoteHeadIsReviewed ==
  /\ stage \in {"ready", "reading"} /\ trigger = "note_mention" /\ reviewed < expected
       => retried = Retries
  /\ stage = "reading" => context = diff
================================================================================
