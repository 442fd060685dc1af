---------------------------- MODULE FindingThreads ----------------------------
(***************************************************************************)
(* One finding (fingerprint) of one merge request through the detect,      *)
(* publish and sync phases of its review runs: the decision each run makes *)
(* about it, the thread rows review-bot keeps, the discussions in the      *)
(* review system and the people who resolve and reopen them.  Every query  *)
(* of the phases that this module translates selects by fingerprint, so    *)
(* findings meet only in the batch cap, which is a free choice here.       *)
(*                                                                         *)
(* There is one worker: a phase is one step, because nobody else writes    *)
(* these tables and what people do to a discussion during a phase commutes *)
(* with it; a worker that dies in a phase leaves the remote half of it.    *)
(***************************************************************************)
EXTENDS Integers, Sequences, FiniteSets

CONSTANTS
  Anchors, Bodies,   \* anchor signatures and comment bodies of the finding
  MaxRuns,           \* bound: runs of the merge request
  MaxThreads,        \* bound: discussions about the finding
  MaxWaiting,        \* bound: runs between detect and the end of sync
  MaxHuman,          \* bound: resolves and reopens by people
  MaxReplays,        \* bound: operator replays of publish and sync
  Faults,            \* what may go wrong, see FaultKinds
  Resurface          \* settings.resolved_unchanged_resurface_enabled

FaultKinds ==
  { "phase_error",    \* a phase raises outside its loop over findings or threads
    "refused",        \* the review system refuses a publication
    "resolve_error",  \* the review system refuses to resolve a discussion
    "lost_reply",     \* it does what was asked and the answer is lost
    "worker_dies" }   \* the work-horse dies in a publish or sync phase

ASSUME ThreadConstants ==
  /\ Anchors # {} /\ Bodies # {}
  /\ {MaxRuns, MaxThreads, MaxWaiting, MaxHuman, MaxReplays} \subseteq Nat
  /\ Faults \subseteq FaultKinds
  /\ Resurface \in BOOLEAN

Runs    == 1..MaxRuns       \* in the order of their detect phases
Threads == 1..MaxThreads    \* in the order of their creation

Active == {"eligible", "published", "failed_publication"}

\* "none": the run did not see the finding.
Decisions == [state : {"none", "suppressed", "resolved"} \cup Active, anchor : Anchors]

\* "none": review-bot keeps no row for the discussion.
ThreadRows == [status : {"none", "open", "stale", "resolved"},
               anchor : Anchors, body : Bodies,
               reason : {"none", "anchor_changed", "resolve_failed", "remote_reopened",
                         "remote_resolved", "no_longer_eligible"}]

VARIABLES
  detected,   \* number of runs whose detect phase has ended
  decision,   \* finding_decisions: what each run decided about the finding
  row,        \* thread_sync_states
  remote,     \* the discussions in the review system
  event,      \* last entry of finding_lifecycle_events for each thread
  queue,      \* the publish and sync queues
  human, replays   \* counters of the bounds

tables == <<decision, row, event>>
vars   == <<detected, tables, remote, queue, human, replays>>

\* Columns, discussions and queues have the values the code gives them.
TypeOK ==
  /\ detected \in 0..MaxRuns
  /\ decision \in [Runs -> Decisions]
  /\ row \in [Threads -> ThreadRows]
  /\ remote \in [Threads -> {"none", "open", "resolved"}]
  /\ event \in [Threads -> {"none", "resolved", "reopened"}]
  /\ queue \in [{"publish", "sync"} -> Seq(Runs)]
  /\ human \in 0..MaxHuman /\ replays \in 0..MaxReplays
  /\ \A t \in Threads : row[t].status # "none" => remote[t] # "none"

AnyAnchor == CHOOSE a \in Anchors : TRUE

Init ==
  /\ detected = 0
  /\ decision = [r \in Runs |-> [state |-> "none", anchor |-> AnyAnchor]]
  /\ row = [t \in Threads |-> [status |-> "none", anchor |-> AnyAnchor,
                               body |-> CHOOSE b \in Bodies : TRUE, reason |-> "none"]]
  /\ remote = [t \in Threads |-> "none"]
  /\ event = [t \in Threads |-> "none"]
  /\ queue = [s \in {"publish", "sync"} |-> <<>>]
  /\ human = 0 /\ replays = 0

-------------------------------------------------------------------------------
(***************************************************************************)
(* Reconciling the rows with the discussions, in detect and in sync.       *)
(* Queries see the tables as they were when the phase began: the session   *)
(* does not flush before a query.                                          *)
(***************************************************************************)
WithStatus(S) == {t \in Threads : row[t].status \in S}

ClosedRemotely   == {t \in WithStatus({"open", "stale"}) : remote[t] = "resolved"}
ReopenedRemotely == {t \in WithStatus({"resolved"}) : remote[t] = "open"}
Recovered        == {t \in WithStatus({"stale"}) :
                       remote[t] = "open" /\ row[t].reason # "anchor_changed"}

Marked(t, status, reason) == [row[t] EXCEPT !.status = status, !.reason = reason]

\* Mutant: a discussion a person reopened stays resolved in the table.
ReconciledRow_ReopenIgnored(t) ==
  CASE t \in ClosedRemotely -> Marked(t, "resolved", "remote_resolved")
    [] t \in Recovered      -> Marked(t, "open", "none")
    [] OTHER                -> row[t]

ReconciledRow(t) ==
  CASE t \in ClosedRemotely   -> Marked(t, "resolved", "remote_resolved")
    [] t \in ReopenedRemotely -> Marked(t, "open", "remote_reopened")
    [] t \in Recovered        -> Marked(t, "open", "none")
    [] OTHER                  -> row[t]

\* Mutant: only the resolution of an open row is recorded.
Events_OpenRowsOnly(closed) ==
  [t \in Threads |-> IF t \in closed /\ row[t].status = "open" THEN "resolved"
                     ELSE IF t \in ReopenedRemotely THEN "reopened" ELSE event[t]]

\* The events of a phase that resolves the threads in closed.
Events(closed) ==
  [t \in Threads |-> IF t \in closed THEN "resolved"
                     ELSE IF t \in ReopenedRemotely THEN "reopened" ELSE event[t]]

InState(S) == {r \in Runs : decision[r].state \in S}

\* Mutant: a resolved thread resolves one active decision.
DecisionsAfter_OneOnly(closed) ==
  IF InState(Active) # {} THEN
     IF closed = {} THEN {decision}
     ELSE {[decision EXCEPT ![r].state = "resolved"] : r \in InState(Active)}
  ELSE IF ReopenedRemotely # {} /\ InState({"resolved"}) # {} THEN
     {[decision EXCEPT ![r].state = "published"] : r \in InState({"resolved"})}
  ELSE {decision}

\* A resolved thread resolves the active decisions of every run; a reopened
\* one revives a resolved decision if no decision is active.
DecisionsAfter(closed) ==
  IF InState(Active) # {} THEN
     {IF closed = {} THEN decision
      ELSE [r \in Runs |-> IF r \in InState(Active)
                           THEN [decision[r] EXCEPT !.state = "resolved"]
                           ELSE decision[r]]}
  ELSE IF ReopenedRemotely # {} /\ InState({"resolved"}) # {} THEN
     {[decision EXCEPT ![r].state = "published"] : r \in InState({"resolved"})}
  ELSE {decision}

(***************************************************************************)
(* Detect.                                                                 *)
(***************************************************************************)
Waiting == Len(queue["publish"]) + Len(queue["sync"])

\* The run sees the finding or not; policy, feedback and score decide.
Verdicts == [state : {"none", "eligible", "suppressed"}, anchor : Anchors]

Detect ==
  /\ detected < MaxRuns /\ Waiting < MaxWaiting
  /\ detected' = detected + 1
  /\ row' = [t \in Threads |-> ReconciledRow(t)]
  /\ event' = Events(ClosedRemotely)
  /\ \E before \in DecisionsAfter(ClosedRemotely), verdict \in Verdicts :
        decision' = [before EXCEPT ![detected + 1] = verdict]
  /\ queue' = [queue EXCEPT !["publish"] = Append(@, detected + 1)]
  /\ UNCHANGED <<remote, human, replays>>

\* It fails before it reconciles, or later with what the session holds.
DetectFails ==
  /\ "phase_error" \in Faults
  /\ detected < MaxRuns /\ Waiting < MaxWaiting
  /\ detected' = detected + 1
  /\ \/ UNCHANGED tables
     \/ /\ row' = [t \in Threads |-> ReconciledRow(t)]
        /\ event' = Events(ClosedRemotely)
        /\ \E before \in DecisionsAfter(ClosedRemotely), verdict \in Verdicts :
              decision' = [before EXCEPT ![detected + 1] = verdict]
  /\ UNCHANGED <<remote, queue, human, replays>>

(***************************************************************************)
(* Publish.                                                                *)
(***************************************************************************)
\* The row the finding is matched with; stale rows do not count.  Reconcile
\* touches all listed rows in one transaction, so the latest of several rows
\* is not determined.
NoThread == 0

\* Mutant: resolved rows do not count either.
Existing_OpenOnly == IF WithStatus({"open"}) = {} THEN {NoThread} ELSE WithStatus({"open"})

Existing == IF WithStatus({"open", "resolved"}) = {} THEN {NoThread}
            ELSE WithStatus({"open", "resolved"})

SameAnchor(t, r) == row[t].anchor = decision[r].anchor

\* An open thread that says the same and was not reopened by a person.
Unchanged(t, b) ==
  row[t].status = "open" /\ row[t].body = b /\ row[t].reason # "remote_reopened"

ResolvedUnchanged(t, r, b) ==
  row[t].status = "resolved" /\ SameAnchor(t, r) /\ row[t].body = b /\ ~Resurface

\* The candidate asks the review system for a comment.
Upserts(t, r, b) == t # NoThread => ~Unchanged(t, b) /\ ~ResolvedUnchanged(t, r, b)

\* The existing thread is commented on; with another anchor it is replaced.
InPlace(t, r) == t # NoThread /\ SameAnchor(t, r)

Fresh == {t \in Threads : remote[t] = "none" /\ \A u \in Threads : remote[u] = "none" => t <= u}

\* Remote half of an upsert: comment in the thread and reopen it if its row
\* is resolved, or open a new discussion.
RemoteUpsert(t, r) ==
  IF InPlace(t, r)
  THEN remote' = IF row[t].status = "resolved" THEN [remote EXCEPT ![t] = "open"] ELSE remote
  ELSE \E new \in Fresh : remote' = [remote EXCEPT ![new] = "open"]

Opened(a, b) == [status |-> "open", anchor |-> a, body |-> b, reason |-> "none"]

\* Local half: the row is refreshed, or replaced by the row of the new thread.
Replaced(t, r, b, new) ==
  row' = [u \in Threads |-> IF u = new THEN Opened(decision[r].anchor, b)
                            ELSE IF u = t THEN Marked(t, "stale", "anchor_changed")
                            ELSE row[u]]

LocalUpsert(t, r, b) ==
  IF InPlace(t, r) THEN row' = [row EXCEPT ![t] = Opened(decision[r].anchor, b)]
  ELSE \E new \in Fresh : Replaced(t, r, b, new)

Decided(r, state) == decision' = [decision EXCEPT ![r].state = state]

\* A publish job is served before any sync job and is followed by one.
PublishJob(r) == queue["publish"] # <<>> /\ r = Head(queue["publish"])

PublishEnds(r) ==
  /\ queue' = [queue EXCEPT !["publish"] = Tail(@), !["sync"] = Append(@, r)]
  /\ UNCHANGED <<detected, event, human, replays>>

\* Not eligible, kept for a later batch or held back by feedback; and a
\* resolved thread that would say the same again.
PublishNothing(r) ==
  /\ PublishJob(r)
  /\ PublishEnds(r)
  /\ UNCHANGED <<decision, row, remote>>

\* The provider, its verifier or the duplicate filters drop the candidate.
PublishDrops(r) ==
  /\ PublishJob(r) /\ decision[r].state = "eligible"
  /\ Decided(r, "suppressed")
  /\ PublishEnds(r)
  /\ UNCHANGED <<row, remote>>

PublishConfirms(r) ==
  /\ PublishJob(r) /\ decision[r].state = "eligible"
  /\ \E t \in Existing \ {NoThread}, b \in Bodies : Unchanged(t, b)
  /\ Decided(r, "published")
  /\ PublishEnds(r)
  /\ UNCHANGED <<row, remote>>

PublishUpserts(r) ==
  /\ PublishJob(r) /\ decision[r].state = "eligible"
  /\ \E t \in Existing, b \in Bodies :
        Upserts(t, r, b) /\ RemoteUpsert(t, r) /\ LocalUpsert(t, r, b)
  /\ Decided(r, "published")
  /\ PublishEnds(r)

\* The answer to the new discussion is lost and the adapter posts once more:
\* the first discussion stays, and no row knows it.
PublishUpsertsTwice(r) ==
  /\ PublishJob(r) /\ decision[r].state = "eligible" /\ "lost_reply" \in Faults
  /\ \E t \in Existing, b \in Bodies, first \in Fresh, new \in Threads :
        /\ Upserts(t, r, b) /\ ~InPlace(t, r)
        /\ new = first + 1
        /\ remote' = [remote EXCEPT ![first] = "open", ![new] = "open"]
        /\ Replaced(t, r, b, new)
  /\ Decided(r, "published")
  /\ PublishEnds(r)

\* Mutant: the row is written before the review system is asked.
PublishFails_RowFirst(r) ==
  /\ PublishJob(r) /\ decision[r].state = "eligible"
  /\ "refused" \in Faults /\ UNCHANGED remote
  /\ \E t \in Existing, b \in Bodies : Upserts(t, r, b) /\ LocalUpsert(t, r, b)
  /\ Decided(r, "failed_publication")
  /\ PublishEnds(r)

\* The upsert raises: an anchor the review system does not know suppresses
\* the finding, anything else fails it.  A discussion may exist, or be reopened
\* although the note in it was refused, all the same.
PublishFails(r) ==
  /\ PublishJob(r) /\ decision[r].state = "eligible"
  /\ \E t \in Existing, b \in Bodies :
        /\ Upserts(t, r, b)
        /\ \/ "refused" \in Faults /\ UNCHANGED remote
           \/ "refused" \in Faults /\ InPlace(t, r) /\ RemoteUpsert(t, r)
           \/ "lost_reply" \in Faults /\ RemoteUpsert(t, r)
        /\ \/ Decided(r, "failed_publication")
           \/ ~InPlace(t, r) /\ UNCHANGED remote /\ Decided(r, "suppressed")
  /\ PublishEnds(r)
  /\ UNCHANGED row

\* The phase raises before the upserts, or the worker dies after one and
\* before its commit: no sync job follows.
PublishStops(r) ==
  /\ PublishJob(r)
  /\ \/ "phase_error" \in Faults /\ UNCHANGED remote
     \/ /\ "worker_dies" \in Faults /\ decision[r].state = "eligible"
        /\ \E t \in Existing, b \in Bodies : Upserts(t, r, b) /\ RemoteUpsert(t, r)
  /\ queue' = [queue EXCEPT !["publish"] = Tail(@)]
  /\ UNCHANGED <<detected, tables, human, replays>>

(***************************************************************************)
(* Sync.                                                                   *)
(***************************************************************************)
SyncJob(r) ==
  queue["publish"] = <<>> /\ queue["sync"] # <<>> /\ r = Head(queue["sync"])

\* The run does not hold the finding (any more).
NotCurrent(r) == decision[r].state \notin {"eligible", "published"}

\* Threads it resolves on its own: open in the table and not resolved remotely.
Outdated(r) == {t \in WithStatus({"open"}) : remote[t] = "open" /\ NotCurrent(r)}

SyncEnds ==
  /\ queue' = [queue EXCEPT !["sync"] = Tail(@)]
  /\ UNCHANGED <<detected, human, replays>>

Resolve(S) == [t \in Threads |-> IF t \in S THEN "resolved" ELSE remote[t]]

\* The requests for failed raise; those for lost are carried out all the same.
Sync(r) ==
  /\ SyncJob(r)
  /\ \E failed \in SUBSET Outdated(r), lost \in SUBSET Outdated(r) :
        LET resolved == Outdated(r) \ failed
            closed   == ClosedRemotely \cup resolved
        IN
        /\ lost \subseteq failed
        /\ lost # {} => "lost_reply" \in Faults
        /\ failed # lost => "resolve_error" \in Faults
        /\ row' = [t \in Threads |->
                     IF t \in resolved THEN Marked(t, "resolved", "no_longer_eligible")
                     ELSE IF t \in failed THEN Marked(t, "stale", "resolve_failed")
                     ELSE ReconciledRow(t)]
        /\ remote' = Resolve(resolved \cup lost)
        /\ event' = Events(closed)
        /\ decision' \in DecisionsAfter(closed)
  /\ SyncEnds

\* The listing of the discussions raises, or the worker dies before the commit.
SyncStops(r) ==
  /\ SyncJob(r)
  /\ \/ "phase_error" \in Faults /\ UNCHANGED remote
     \/ "worker_dies" \in Faults /\ \E resolved \in SUBSET Outdated(r) : remote' = Resolve(resolved)
  /\ SyncEnds
  /\ UNCHANGED tables

(***************************************************************************)
(* Operators and people.                                                   *)
(***************************************************************************)
Replay(s, r) ==
  /\ replays < MaxReplays /\ r <= detected
  /\ replays' = replays + 1
  /\ queue' = [queue EXCEPT ![s] = Append(@, r)]
  /\ UNCHANGED <<detected, tables, remote, human>>

PersonSets(t, from, to) ==
  /\ human < MaxHuman /\ remote[t] = from
  /\ human' = human + 1
  /\ remote' = [remote EXCEPT ![t] = to]
  /\ UNCHANGED <<detected, tables, queue, replays>>

PersonResolves(t) == PersonSets(t, "open", "resolved")
PersonReopens(t)  == PersonSets(t, "resolved", "open")

-------------------------------------------------------------------------------
PublishStep(r) ==
  \/ PublishNothing(r) \/ PublishDrops(r) \/ PublishConfirms(r)
  \/ PublishUpserts(r) \/ PublishUpsertsTwice(r) \/ PublishFails(r) \/ PublishStops(r)

Next ==
  \/ Detect \/ DetectFails
  \/ \E r \in Runs : PublishStep(r) \/ Sync(r) \/ SyncStops(r)
  \/ \E s \in {"publish", "sync"}, r \in Runs : Replay(s, r)
  \/ \E t \in Threads : PersonResolves(t) \/ PersonReopens(t)

Spec == Init /\ [][Next]_vars

-------------------------------------------------------------------------------
\* A finding that counts as published is on the record: a thread row is open,
\* or its resolution failed and the next reconcile decides.  Whatever dies, is
\* refused, replayed, resolved or reopened in between (the state changes of
\* publish and sync, _mark_fingerprint_resolved and _mark_fingerprint_reopened).
PublishedIsTracked ==
  InState({"published"}) # {} =>
    \E t \in Threads : \/ row[t].status = "open"
                       \/ row[t].status = "stale" /\ row[t].reason = "resolve_failed"

\* After a sync the rows tell the truth about the discussions.
SyncMirrorsRemote ==
  [][\A r \in Runs : Sync(r) =>
        \A t \in Threads : /\ row'[t].status = "open" => remote'[t] = "open"
                           /\ row'[t].status = "resolved" => remote'[t] = "resolved"]_vars

\* A finding that keeps its anchor has one discussion, however often runs
\* overlap, publications are refused, phases fail, people resolve and reopen
\* it and operators replay the phases.
OneDiscussion == Cardinality({t \in Threads : remote[t] # "none"}) <= 1

\* A row that is resolved has its resolution in the lifecycle history.
ResolutionsRecorded ==
  \A t \in Threads : row[t].status = "resolved" => event[t] = "resolved"

\* The runbook: resolve and reopen stay in finding_lifecycle_events, so the
\* history of an open thread does not end with a resolution.
HistoryTellsState ==
  \A t \in Threads : row[t].status = "open" => event[t] # "resolved"

\* A thread is resolved as no longer eligible only if the latest run did not
\* see the finding or suppressed it.
AutoResolvedMeansGone ==
  [][\A t \in Threads :
       row'[t].reason = "no_longer_eligible" /\ row[t].status = "open"
       /\ row'[t].status = "resolved" /\ remote[t] = "open"
       => decision[detected].state \in {"none", "suppressed"}]_vars
===============================================================================
