------------------------- MODULE FindingThreads_proofs -------------------------
(***************************************************************************)
(* Theorems about one finding in the phases of its runs and about the      *)
(* reports that list it, for every number of runs, discussions, people and *)
(* replays and every combination of faults.                                *)
(***************************************************************************)
EXTENDS ThreadReports, TLAPS, FiniteSetTheorems

(***************************************************************************)
(* Types of what the phases write.                                         *)
(***************************************************************************)
LEMMA MarkedType ==
  ASSUME TypeOK, NEW t \in Threads,
         NEW status \in {"open", "stale", "resolved"},
         NEW reason \in {"none", "anchor_changed", "resolve_failed", "remote_reopened",
                         "remote_resolved", "no_longer_eligible"}
  PROVE  /\ Marked(t, status, reason) \in ThreadRows
         /\ Marked(t, status, reason).status = status
         /\ Marked(t, status, reason).reason = reason
  <1>1. row[t] \in ThreadRows
    BY DEF TypeOK
  <1> QED
    BY <1>1 DEF Marked, ThreadRows

LEMMA OpenedType ==
  ASSUME NEW a \in Anchors, NEW b \in Bodies
  PROVE  Opened(a, b) \in ThreadRows /\ Opened(a, b).status = "open"
  BY DEF Opened, ThreadRows

\* What a reconcile makes of a row.
LEMMA Reconciled ==
  ASSUME TypeOK, NEW t \in Threads
  PROVE  /\ ReconciledRow(t) \in ThreadRows
         /\ t \in ClosedRemotely => ReconciledRow(t).status = "resolved"
         /\ t \in ReopenedRemotely => ReconciledRow(t).status = "open"
         /\ t \in Recovered => ReconciledRow(t).status = "open"
         /\ t \notin ClosedRemotely \cup ReopenedRemotely \cup Recovered
              => ReconciledRow(t) = row[t]
  <1>1. row[t] \in ThreadRows
    BY DEF TypeOK
  <1>2. CASE t \in ClosedRemotely
    <2>1. ReconciledRow(t) = Marked(t, "resolved", "remote_resolved")
      BY <1>2 DEF ReconciledRow, ClosedRemotely, ReopenedRemotely, Recovered, WithStatus
    <2> QED
      BY <1>2, <2>1, MarkedType
         DEF ClosedRemotely, ReopenedRemotely, Recovered, WithStatus
  <1>3. CASE t \in ReopenedRemotely
    <2>1. ReconciledRow(t) = Marked(t, "open", "remote_reopened")
      BY <1>3 DEF ReconciledRow, ClosedRemotely, ReopenedRemotely, Recovered, WithStatus
    <2> QED
      BY <1>3, <2>1, MarkedType
         DEF ClosedRemotely, ReopenedRemotely, Recovered, WithStatus
  <1>4. CASE t \in Recovered
    <2>1. ReconciledRow(t) = Marked(t, "open", "none")
      BY <1>4 DEF ReconciledRow, ClosedRemotely, ReopenedRemotely, Recovered, WithStatus
    <2> QED
      BY <1>4, <2>1, MarkedType
         DEF ClosedRemotely, ReopenedRemotely, Recovered, WithStatus
  <1>5. CASE t \notin ClosedRemotely \cup ReopenedRemotely \cup Recovered
    <2>1. ReconciledRow(t) = row[t]
      BY <1>5 DEF ReconciledRow
    <2> QED
      BY <1>1, <1>5, <2>1
  <1> QED
    BY <1>2, <1>3, <1>4, <1>5

LEMMA EventsType ==
  ASSUME TypeOK, NEW closed
  PROVE  Events(closed) \in [Threads -> {"none", "resolved", "reopened"}]
  BY DEF TypeOK, Events

\* The decisions keep their runs: at most states change.
LEMMA DecisionsType ==
  ASSUME TypeOK, NEW closed, NEW after \in DecisionsAfter(closed)
  PROVE  after \in [Runs -> Decisions]
  <1>1. \A r \in Runs : [decision[r] EXCEPT !.state = "resolved"] \in Decisions
                         /\ [decision[r] EXCEPT !.state = "published"] \in Decisions
    BY DEF TypeOK, Decisions, Active
  <1>2. CASE after = decision
    BY <1>2 DEF TypeOK
  <1>3. CASE after = [r \in Runs |-> IF r \in InState(Active)
                                     THEN [decision[r] EXCEPT !.state = "resolved"]
                                     ELSE decision[r]]
    BY <1>1, <1>3 DEF TypeOK
  <1>4. ASSUME NEW r \in Runs, after = [decision EXCEPT ![r].state = "published"]
        PROVE  after \in [Runs -> Decisions]
    BY <1>1, <1>4 DEF TypeOK
  <1>5. \/ after = decision
        \/ after = [r \in Runs |-> IF r \in InState(Active)
                                   THEN [decision[r] EXCEPT !.state = "resolved"]
                                   ELSE decision[r]]
        \/ \E r \in Runs : after = [decision EXCEPT ![r].state = "published"]
    BY DEF DecisionsAfter, InState
  <1> QED
    BY <1>2, <1>3, <1>4, <1>5

(***************************************************************************)
(* What an upsert does to the rows and to the discussions.                 *)
(***************************************************************************)
LEMMA ExistingThreads ==
  ASSUME NEW t \in Existing, t # NoThread
  PROVE  t \in Threads /\ row[t].status \in {"open", "resolved"}
  BY DEF Existing, WithStatus

LEMMA FreshIsOne ==
  ASSUME NEW t \in Fresh, NEW u \in Fresh
  PROVE  t = u
  <1>1. t \in Nat /\ u \in Nat
    BY ThreadConstants DEF Fresh, Threads
  <1> QED
    BY <1>1 DEF Fresh

\* Rows become open or stale, one of them open; what had no row and has one
\* now is the new discussion.
LEMMA ReplacedRows ==
  ASSUME TypeOK, NEW r \in Runs, NEW b \in Bodies, NEW new \in Threads, NEW t,
         t = NoThread \/ t \in Threads, Replaced(t, r, b, new)
  PROVE  /\ row' \in [Threads -> ThreadRows] /\ row'[new].status = "open"
         /\ \A u \in Threads \ {new} : row'[u] = row[u] \/ (u = t /\ row'[u].status = "stale")
  <1>1. Opened(decision[r].anchor, b) \in ThreadRows
        /\ Opened(decision[r].anchor, b).status = "open"
    BY OpenedType DEF TypeOK, Decisions
  <1>2. t \in Threads => /\ Marked(t, "stale", "anchor_changed") \in ThreadRows
                         /\ Marked(t, "stale", "anchor_changed").status = "stale"
    BY MarkedType
  <1> QED
    BY <1>1, <1>2 DEF Replaced, TypeOK

LEMMA UpsertedRows ==
  ASSUME TypeOK, NEW r \in Runs, NEW b \in Bodies, NEW t \in Existing, LocalUpsert(t, r, b)
  PROVE  /\ row' \in [Threads -> ThreadRows]
         /\ \E u \in Threads : row'[u].status = "open"
         /\ \A u \in Threads : row'[u] = row[u] \/ row'[u].status \in {"open", "stale"}
         /\ \A u \in Threads : row'[u].status # "none" =>
              row[u].status # "none" \/ (~InPlace(t, r) /\ u \in Fresh)
         /\ InPlace(t, r) => \A u \in Threads : row'[u].status = "stale" => row'[u] = row[u]
  <1>1. CASE InPlace(t, r)
    <2>1. t \in Threads /\ row[t].status # "none"
      BY <1>1, ExistingThreads DEF InPlace
    <2>2. row' = [row EXCEPT ![t] = Opened(decision[r].anchor, b)]
      BY <1>1 DEF LocalUpsert
    <2>3. Opened(decision[r].anchor, b) \in ThreadRows
          /\ Opened(decision[r].anchor, b).status = "open"
      BY OpenedType DEF TypeOK, Decisions
    <2> QED
      BY <1>1, <2>1, <2>2, <2>3 DEF TypeOK
  <1>2. CASE ~InPlace(t, r)
    <2>1. PICK new \in Fresh : Replaced(t, r, b, new)
      BY <1>2 DEF LocalUpsert
    <2>2. new \in Threads /\ (t = NoThread \/ (t \in Threads /\ row[t].status # "none"))
      BY <2>1, ExistingThreads DEF Fresh
    <2>3. /\ row' \in [Threads -> ThreadRows] /\ row'[new].status = "open"
          /\ \A u \in Threads \ {new} : row'[u] = row[u] \/ (u = t /\ row'[u].status = "stale")
      BY <2>1, <2>2, ReplacedRows
    <2>4. t = NoThread => t \notin Threads
      BY DEF NoThread, Threads
    <2> QED
      BY <1>2, <2>1, <2>2, <2>3, <2>4
  <1> QED
    BY <1>1, <1>2

LEMMA UpsertedDiscussions ==
  ASSUME TypeOK, NEW r \in Runs, NEW t \in Existing, RemoteUpsert(t, r)
  PROVE  /\ remote' \in [Threads -> {"none", "open", "resolved"}]
         /\ \A u \in Threads : remote[u] # "none" => remote'[u] # "none"
         /\ \A u \in Threads : remote'[u] # "none" =>
              remote[u] # "none" \/ (~InPlace(t, r) /\ u \in Fresh)
         /\ ~InPlace(t, r) => \A u \in Fresh : remote'[u] = "open"
  <1>1. CASE InPlace(t, r)
    <2>1. t \in Threads /\ remote[t] # "none"
      BY <1>1, ExistingThreads DEF InPlace, TypeOK
    <2> QED
      BY <1>1, <2>1 DEF RemoteUpsert, TypeOK
  <1>2. CASE ~InPlace(t, r)
    <2>1. PICK new \in Fresh : remote' = [remote EXCEPT ![new] = "open"]
      BY <1>2 DEF RemoteUpsert
    <2>2. \A u \in Fresh : u = new
      BY FreshIsOne
    <2> QED
      BY <1>2, <2>1, <2>2 DEF Fresh, TypeOK
  <1> QED
    BY <1>1, <1>2

(***************************************************************************)
(* The phases, seen from rows and discussions.                             *)
(***************************************************************************)
\* A publish phase leaves the rows as they are, or one of them is open and no
\* other gets resolved; what it writes about is there.
PublishesRows ==
  /\ row' \in [Threads -> ThreadRows]
  /\ remote' \in [Threads -> {"none", "open", "resolved"}]
  /\ \A t \in Threads : row'[t].status # "none" => remote'[t] # "none"
  /\ \/ row' = row
     \/ /\ \E t \in Threads : row'[t].status = "open"
        /\ \A t \in Threads : row'[t] = row[t] \/ row'[t].status \in {"open", "stale"}

LEMMA PublishStepsWrite ==
  ASSUME TypeOK, NEW r \in Runs, PublishStep(r)
  PROVE  PublishesRows
<1>1. /\ row \in [Threads -> ThreadRows]
      /\ remote \in [Threads -> {"none", "open", "resolved"}]
      /\ \A t \in Threads : row[t].status # "none" => remote[t] # "none"
  BY DEF TypeOK
<1>2. ASSUME row' = row, remote' \in [Threads -> {"none", "open", "resolved"}],
             \A t \in Threads : remote[t] # "none" => remote'[t] # "none"
      PROVE  PublishesRows
  BY <1>1, <1>2 DEF PublishesRows
<1>3. CASE row' = row /\ remote' = remote
  BY <1>1, <1>2, <1>3
<1>4. CASE PublishNothing(r) \/ PublishDrops(r) \/ PublishConfirms(r)
  BY <1>3, <1>4 DEF PublishNothing, PublishDrops, PublishConfirms
<1>5. CASE PublishUpserts(r)
  <2>1. PICK t \in Existing, b \in Bodies : RemoteUpsert(t, r) /\ LocalUpsert(t, r, b)
    BY <1>5 DEF PublishUpserts
  <2>2. /\ row' \in [Threads -> ThreadRows]
        /\ \E u \in Threads : row'[u].status = "open"
        /\ \A u \in Threads : row'[u] = row[u] \/ row'[u].status \in {"open", "stale"}
        /\ \A u \in Threads : row'[u].status # "none" =>
             row[u].status # "none" \/ (~InPlace(t, r) /\ u \in Fresh)
    BY <2>1, UpsertedRows
  <2>3. /\ remote' \in [Threads -> {"none", "open", "resolved"}]
        /\ \A u \in Threads : remote[u] # "none" => remote'[u] # "none"
        /\ ~InPlace(t, r) => \A u \in Fresh : remote'[u] = "open"
    BY <2>1, UpsertedDiscussions
  <2>4. \A u \in Threads : row'[u].status # "none" => remote'[u] # "none"
    BY <1>1, <2>2, <2>3
  <2> QED
    BY <2>2, <2>3, <2>4 DEF PublishesRows
<1>6. CASE PublishUpsertsTwice(r)
  <2>1. PICK t \in Existing, b \in Bodies, first \in Fresh, new \in Threads :
          /\ remote' = [remote EXCEPT ![first] = "open", ![new] = "open"]
          /\ Replaced(t, r, b, new)
    BY <1>6 DEF PublishUpsertsTwice
  <2>2. t = NoThread \/ t \in Threads
    BY ExistingThreads
  <2>3. /\ row' \in [Threads -> ThreadRows] /\ row'[new].status = "open"
        /\ \A u \in Threads \ {new} : row'[u] = row[u] \/ (u = t /\ row'[u].status = "stale")
    BY <2>1, <2>2, ReplacedRows
  <2>4. /\ remote' \in [Threads -> {"none", "open", "resolved"}] /\ remote'[new] = "open"
        /\ \A u \in Threads : remote[u] # "none" => remote'[u] # "none"
    BY <1>1, <2>1 DEF Fresh
  <2>5. t \in Threads => row[t].status # "none"
    BY ExistingThreads DEF NoThread, Threads
  <2>6. \A u \in Threads : row'[u].status # "none" => remote'[u] # "none"
    BY <1>1, <2>3, <2>4, <2>5
  <2> QED
    BY <2>3, <2>4, <2>6 DEF PublishesRows
<1>7. ASSUME NEW t \in Existing, RemoteUpsert(t, r), row' = row PROVE PublishesRows
  BY <1>2, <1>7, UpsertedDiscussions
<1>8. CASE PublishFails(r)
  BY <1>3, <1>7, <1>8 DEF PublishFails
<1>9. CASE PublishStops(r)
  BY <1>3, <1>7, <1>9 DEF PublishStops, tables
<1> QED
  BY <1>4, <1>5, <1>6, <1>8, <1>9 DEF PublishStep

\* A decision counts as published if it did or if a row is open.
LEMMA PublishStepsDecide ==
  ASSUME TypeOK, NEW r \in Runs, PublishStep(r)
  PROVE  /\ decision' \in [Runs -> Decisions]
         /\ \/ \A q \in Runs : decision'[q].state = "published" => decision[q].state = "published"
            \/ \E t \in Threads : row'[t].status = "open"
<1>1. ASSUME NEW state \in {"suppressed", "published", "failed_publication"}, Decided(r, state)
      PROVE  /\ decision' \in [Runs -> Decisions]
             /\ state # "published" => \A q \in Runs : decision'[q].state = "published"
                                                        => decision[q].state = "published"
  <2>1. PICK d \in Decisions : d = decision[r]
    BY DEF TypeOK
  <2>2. [d EXCEPT !.state = state] \in Decisions /\ [d EXCEPT !.state = state].state = state
    BY DEF Decisions, Active
  <2> QED
    BY <1>1, <2>1, <2>2 DEF TypeOK, Decided
<1>2. CASE decision' = decision
  BY <1>2 DEF TypeOK
<1>3. CASE PublishNothing(r) \/ PublishStops(r)
  BY <1>2, <1>3 DEF PublishNothing, PublishStops, tables
<1>4. CASE PublishDrops(r)
  BY <1>1, <1>4 DEF PublishDrops
<1>5. CASE PublishFails(r)
  <2>1. Decided(r, "failed_publication") \/ Decided(r, "suppressed")
    BY <1>5 DEF PublishFails
  <2> QED
    BY <1>1, <2>1
<1>6. CASE PublishConfirms(r)
  <2>1. PICK t \in Existing \ {NoThread} : row[t].status = "open" /\ row' = row
    BY <1>6 DEF PublishConfirms, Unchanged
  <2>2. t \in Threads
    BY <2>1, ExistingThreads
  <2> QED
    BY <1>1, <1>6, <2>1, <2>2 DEF PublishConfirms
<1>7. CASE PublishUpserts(r)
  <2>1. PICK t \in Existing, b \in Bodies : LocalUpsert(t, r, b)
    BY <1>7 DEF PublishUpserts
  <2>2. \E u \in Threads : row'[u].status = "open"
    BY <2>1, UpsertedRows
  <2> QED
    BY <1>1, <1>7, <2>2 DEF PublishUpserts
<1>8. CASE PublishUpsertsTwice(r)
  <2>1. PICK t \in Existing, b \in Bodies, new \in Threads : Replaced(t, r, b, new)
    BY <1>8 DEF PublishUpsertsTwice
  <2>2. row'[new].status = "open"
    BY <2>1, ExistingThreads, ReplacedRows
  <2> QED
    BY <1>1, <1>8, <2>2 DEF PublishUpsertsTwice
<1> QED
  BY <1>3, <1>4, <1>5, <1>6, <1>7, <1>8 DEF PublishStep

\* The counters and queues of a publish phase.
LEMMA PublishStepsQueue ==
  ASSUME TypeOK, NEW r \in Runs, PublishStep(r)
  PROVE  /\ queue' \in [{"publish", "sync"} -> Seq(Runs)]
         /\ event' = event /\ detected' = detected /\ human' = human /\ replays' = replays
<1>1. queue["publish"] # <<>> /\ queue["publish"] \in Seq(Runs)
  BY DEF TypeOK, PublishStep, PublishNothing, PublishDrops, PublishConfirms, PublishUpserts,
         PublishUpsertsTwice, PublishFails, PublishStops, PublishJob
<1>2. Tail(queue["publish"]) \in Seq(Runs) /\ Append(queue["sync"], r) \in Seq(Runs)
  BY <1>1 DEF TypeOK
<1>3. CASE PublishEnds(r)
  BY <1>2, <1>3 DEF PublishEnds, TypeOK
<1>4. CASE PublishStops(r)
  BY <1>2, <1>4 DEF PublishStops, tables, TypeOK
<1> QED
  BY <1>3, <1>4 DEF PublishStep, PublishNothing, PublishDrops, PublishConfirms, PublishUpserts,
                    PublishUpsertsTwice, PublishFails

\* A sync, with the threads it resolved, failed to resolve, and of those the
\* ones that are resolved all the same.
Synced(r, failed, lost) ==
  LET resolved == Outdated(r) \ failed IN
  /\ failed \subseteq Outdated(r) /\ lost \subseteq failed
  /\ lost # {} => "lost_reply" \in Faults
  /\ failed # lost => "resolve_error" \in Faults
  /\ row' = [t \in Threads |->
               IF t \in resolved THEN Marked(t, "resolved", "no_longer_eligible")
               ELSE IF t \in failed THEN Marked(t, "stale", "resolve_failed")
               ELSE ReconciledRow(t)]
  /\ remote' = Resolve(resolved \cup lost)
  /\ event' = Events(ClosedRemotely \cup resolved)
  /\ decision' \in DecisionsAfter(ClosedRemotely \cup resolved)

LEMMA SyncIsSynced ==
  ASSUME NEW r \in Runs, Sync(r)
  PROVE  (\E failed, lost \in SUBSET Threads : Synced(r, failed, lost)) /\ SyncEnds
  BY DEF Sync, Synced, Outdated, WithStatus

LEMMA SyncedRows ==
  ASSUME TypeOK, NEW r \in Runs, NEW failed \in SUBSET Threads, NEW lost \in SUBSET Threads,
         Synced(r, failed, lost), NEW t \in Threads
  PROVE  /\ row'[t] \in ThreadRows
         /\ t \in Outdated(r) \ failed => row'[t].status = "resolved" /\ remote'[t] = "resolved"
         /\ t \in failed => /\ row'[t].status = "stale" /\ row'[t].reason = "resolve_failed"
                            /\ row[t].status = "open" /\ remote[t] = "open"
                            /\ remote'[t] \in {"open", "resolved"}
         /\ t \notin Outdated(r) => row'[t] = ReconciledRow(t) /\ remote'[t] = remote[t]
  <1>1. CASE t \in Outdated(r) \ failed
    <2>1. row'[t] = Marked(t, "resolved", "no_longer_eligible") /\ remote'[t] = "resolved"
      BY <1>1 DEF Synced, Resolve
    <2> QED
      BY <1>1, <2>1, MarkedType DEF Synced
  <1>2. CASE t \in failed
    <2>1. row'[t] = Marked(t, "stale", "resolve_failed") /\ remote'[t] \in {remote[t], "resolved"}
      BY <1>2 DEF Synced, Resolve
    <2>2. row[t].status = "open" /\ remote[t] = "open" /\ t \in Outdated(r)
      BY <1>2 DEF Synced, Outdated, WithStatus
    <2> QED
      BY <1>2, <2>1, <2>2, MarkedType
  <1>3. CASE t \notin Outdated(r)
    <2>1. row'[t] = ReconciledRow(t) /\ remote'[t] = remote[t] /\ t \notin failed
      BY <1>3 DEF Synced, Resolve
    <2> QED
      BY <1>3, <2>1, Reconciled
  <1> QED
    BY <1>1, <1>2, <1>3

(***************************************************************************)
(* Type correctness.                                                       *)
(***************************************************************************)
\* What a detect phase that reconciled has done to the tables.
Detects ==
  /\ row' = [t \in Threads |-> ReconciledRow(t)]
  /\ event' = Events(ClosedRemotely)
  /\ \E before \in DecisionsAfter(ClosedRemotely), verdict \in Verdicts :
        decision' = [before EXCEPT ![detected + 1] = verdict]

LEMMA DetectTypes ==
  ASSUME TypeOK, Detects
  PROVE  /\ decision' \in [Runs -> Decisions] /\ row' \in [Threads -> ThreadRows]
         /\ event' \in [Threads -> {"none", "resolved", "reopened"}]
         /\ \A t \in Threads : row'[t].status # "none" => remote[t] # "none"
  <1>1. PICK before \in DecisionsAfter(ClosedRemotely), verdict \in Verdicts :
          decision' = [before EXCEPT ![detected + 1] = verdict]
    BY DEF Detects
  <1>2. before \in [Runs -> Decisions] /\ verdict \in Decisions
    BY DecisionsType DEF Verdicts, Decisions, Active
  <1>3. decision' \in [Runs -> Decisions]
    BY <1>1, <1>2
  <1>4. row' \in [Threads -> ThreadRows]
    BY Reconciled DEF Detects
  <1>5. ASSUME NEW t \in Threads, row'[t].status # "none" PROVE remote[t] # "none"
    <2>1. CASE t \in ClosedRemotely \cup ReopenedRemotely \cup Recovered
      BY <2>1 DEF ClosedRemotely, ReopenedRemotely, Recovered
    <2>2. CASE t \notin ClosedRemotely \cup ReopenedRemotely \cup Recovered
      BY <1>5, <2>2, Reconciled DEF Detects, TypeOK
    <2> QED
      BY <2>1, <2>2
  <1>6. event' \in [Threads -> {"none", "resolved", "reopened"}]
    BY EventsType DEF Detects
  <1> QED
    BY <1>3, <1>4, <1>5, <1>6

LEMMA SyncTypes ==
  ASSUME TypeOK, NEW r \in Runs, NEW failed \in SUBSET Threads, NEW lost \in SUBSET Threads,
         Synced(r, failed, lost)
  PROVE  /\ decision' \in [Runs -> Decisions] /\ row' \in [Threads -> ThreadRows]
         /\ event' \in [Threads -> {"none", "resolved", "reopened"}]
         /\ remote' \in [Threads -> {"none", "open", "resolved"}]
         /\ \A t \in Threads : row'[t].status # "none" => remote'[t] # "none"
  <1>1. decision' \in [Runs -> Decisions]
    BY DecisionsType DEF Synced
  <1>2. event' \in [Threads -> {"none", "resolved", "reopened"}]
    BY EventsType DEF Synced
  <1>3. row' \in [Threads -> ThreadRows]
    BY SyncedRows DEF Synced
  <1>4. remote' \in [Threads -> {"none", "open", "resolved"}]
    BY DEF Synced, Resolve, TypeOK
  <1>5. ASSUME NEW t \in Threads, row'[t].status # "none" PROVE remote'[t] # "none"
    <2>1. CASE t \in Outdated(r)
      BY <2>1, SyncedRows
    <2>2. CASE t \in ClosedRemotely \cup ReopenedRemotely \cup Recovered /\ t \notin Outdated(r)
      BY <2>2, SyncedRows DEF ClosedRemotely, ReopenedRemotely, Recovered
    <2>3. CASE t \notin ClosedRemotely \cup ReopenedRemotely \cup Recovered /\ t \notin Outdated(r)
      <3>1. row'[t] = ReconciledRow(t) /\ remote'[t] = remote[t]
        BY <2>3, SyncedRows
      <3>2. ReconciledRow(t) = row[t]
        BY <2>3, Reconciled
      <3> QED
        BY <1>5, <3>1, <3>2 DEF TypeOK
    <2> QED
      BY <2>1, <2>2, <2>3
  <1> QED
    BY <1>1, <1>2, <1>3, <1>4, <1>5

\* Columns, discussions and queues have the values the code gives them,
\* whatever is refused, lost, replayed or done by people.
THEOREM ThreadTypes == Spec => []TypeOK
<1>1. Init => TypeOK
  <2> SUFFICES ASSUME Init PROVE TypeOK
    OBVIOUS
  <2>1. AnyAnchor \in Anchors /\ (CHOOSE b \in Bodies : TRUE) \in Bodies
    BY ThreadConstants DEF AnyAnchor
  <2>2. [state |-> "none", anchor |-> AnyAnchor] \in Decisions
    BY <2>1 DEF Decisions
  <2>3. \A b \in Bodies : [status |-> "none", anchor |-> AnyAnchor, body |-> b, reason |-> "none"]
                            \in ThreadRows
    BY <2>1 DEF ThreadRows
  <2>4. \A t \in Threads : row[t].status = "none"
    BY DEF Init
  <2>5. queue \in [{"publish", "sync"} -> Seq(Runs)]
    BY DEF Init
  <2>6. 0 \in 0..MaxRuns /\ 0 \in 0..MaxHuman /\ 0 \in 0..MaxReplays
    BY ThreadConstants
  <2>7. /\ decision \in [Runs -> Decisions] /\ row \in [Threads -> ThreadRows]
        /\ remote \in [Threads -> {"none", "open", "resolved"}]
        /\ event \in [Threads -> {"none", "resolved", "reopened"}]
    BY <2>1, <2>2, <2>3 DEF Init
  <2> QED
    BY <2>4, <2>5, <2>6, <2>7 DEF TypeOK, Init
<1>2. TypeOK /\ [Next]_vars => TypeOK'
  <2> SUFFICES ASSUME TypeOK, [Next]_vars PROVE TypeOK'
    OBVIOUS
  <2>0. {MaxRuns, MaxThreads, MaxWaiting, MaxHuman, MaxReplays} \subseteq Nat
    BY ThreadConstants
  <2>1. CASE UNCHANGED vars
    BY <2>1 DEF TypeOK, vars, tables
  <2>2. CASE Detect
    <3>1. Detects
      BY <2>2 DEF Detect, Detects
    <3>2. /\ detected \in 0..MaxRuns /\ detected < MaxRuns /\ detected' = detected + 1
          /\ queue' = [queue EXCEPT !["publish"] = Append(@, detected + 1)]
          /\ UNCHANGED <<remote, human, replays>>
      BY <2>2 DEF Detect, TypeOK
    <3>3. detected' \in 0..MaxRuns /\ detected + 1 \in Runs
      BY <2>0, <3>2 DEF Runs
    <3>4. queue' \in [{"publish", "sync"} -> Seq(Runs)]
      BY <3>2, <3>3 DEF TypeOK
    <3> QED
      BY <3>1, <3>2, <3>3, <3>4, DetectTypes DEF TypeOK
  <2>3. CASE DetectFails
    <3>1. Detects \/ UNCHANGED tables
      BY <2>3 DEF DetectFails, Detects
    <3>2. /\ detected \in 0..MaxRuns /\ detected < MaxRuns /\ detected' = detected + 1
          /\ UNCHANGED <<remote, queue, human, replays>>
      BY <2>3 DEF DetectFails, TypeOK
    <3>3. detected' \in 0..MaxRuns
      BY <2>0, <3>2
    <3>4. CASE Detects
      BY <3>2, <3>3, <3>4, DetectTypes DEF TypeOK
    <3>5. CASE UNCHANGED tables
      BY <3>2, <3>3, <3>5 DEF TypeOK, tables
    <3> QED
      BY <3>1, <3>4, <3>5
  <2>4. ASSUME NEW r \in Runs, PublishStep(r) PROVE TypeOK'
    BY <2>4, PublishStepsWrite, PublishStepsDecide, PublishStepsQueue DEF TypeOK, PublishesRows
  <2>5. ASSUME NEW r \in Runs, SyncJob(r), SyncEnds
        PROVE  /\ queue' \in [{"publish", "sync"} -> Seq(Runs)]
               /\ UNCHANGED <<detected, human, replays>>
    <3>1. queue["sync"] \in Seq(Runs) /\ queue["sync"] # <<>>
      BY <2>5 DEF TypeOK, SyncJob
    <3>2. Tail(queue["sync"]) \in Seq(Runs)
      BY <3>1
    <3> QED
      BY <2>5, <3>2 DEF SyncEnds, TypeOK
  <2>6. ASSUME NEW r \in Runs, Sync(r) PROVE TypeOK'
    <3>1. PICK failed \in SUBSET Threads, lost \in SUBSET Threads : Synced(r, failed, lost)
      BY <2>6, SyncIsSynced
    <3>2. SyncJob(r) /\ SyncEnds
      BY <2>6 DEF Sync
    <3> QED
      BY <2>5, <3>1, <3>2, SyncTypes DEF TypeOK
  <2>7. ASSUME NEW r \in Runs, SyncStops(r) PROVE TypeOK'
    <3>1. remote' = remote \/ \E resolved \in SUBSET Outdated(r) : remote' = Resolve(resolved)
      BY <2>7 DEF SyncStops
    <3>2. /\ remote' \in [Threads -> {"none", "open", "resolved"}]
          /\ \A t \in Threads : remote[t] # "none" => remote'[t] # "none"
      BY <3>1 DEF Resolve, TypeOK
    <3>3. SyncJob(r) /\ SyncEnds /\ UNCHANGED tables
      BY <2>7 DEF SyncStops
    <3> QED
      BY <2>5, <3>2, <3>3 DEF TypeOK, tables
  <2>8. ASSUME NEW s \in {"publish", "sync"}, NEW r \in Runs, Replay(s, r) PROVE TypeOK'
    <3>1. replays' \in 0..MaxReplays
      BY <2>0, <2>8 DEF Replay, TypeOK
    <3>2. queue' \in [{"publish", "sync"} -> Seq(Runs)]
      BY <2>8 DEF Replay, TypeOK
    <3> QED
      BY <2>8, <3>1, <3>2 DEF Replay, TypeOK, tables
  <2>9. ASSUME NEW t \in Threads, PersonResolves(t) \/ PersonReopens(t) PROVE TypeOK'
    <3>1. human' \in 0..MaxHuman
      BY <2>0, <2>9 DEF PersonResolves, PersonReopens, PersonSets, TypeOK
    <3>2. /\ remote' \in [Threads -> {"none", "open", "resolved"}]
          /\ \A u \in Threads : remote[u] # "none" => remote'[u] # "none"
      BY <2>9 DEF PersonResolves, PersonReopens, PersonSets, TypeOK
    <3> QED
      BY <2>9, <3>1, <3>2 DEF PersonResolves, PersonReopens, PersonSets, TypeOK, tables
  <2> QED
    BY <2>1, <2>2, <2>3, <2>4, <2>6, <2>7, <2>8, <2>9 DEF Next
<1> QED
  BY <1>1, <1>2, PTL DEF Spec

(***************************************************************************)
(* What the tables say about each other and about the discussions.         *)
(***************************************************************************)
LEMMA ReconciledTruth ==
  ASSUME TypeOK, NEW t \in Threads
  PROVE  /\ ReconciledRow(t).status = "open" => remote[t] = "open"
         /\ ReconciledRow(t).status = "resolved" => remote[t] = "resolved"
  <1>1. CASE t \in ClosedRemotely \cup ReopenedRemotely \cup Recovered
    BY <1>1, Reconciled DEF ClosedRemotely, ReopenedRemotely, Recovered, WithStatus
  <1>2. CASE t \notin ClosedRemotely \cup ReopenedRemotely \cup Recovered
    <2>1. ReconciledRow(t) = row[t]
      BY <1>2, Reconciled
    <2>2. remote[t] \in {"none", "open", "resolved"} /\ (row[t].status # "none" => remote[t] # "none")
      BY DEF TypeOK
    <2> QED
      BY <1>2, <2>1, <2>2 DEF ClosedRemotely, ReopenedRemotely, WithStatus
  <1> QED
    BY <1>1, <1>2

\* After a sync the rows tell the truth about the discussions, whichever of
\* its requests are refused or lose their answers (sync_review_threads).
THEOREM SyncTellsTheTruth == Spec => SyncMirrorsRemote
<1>1. ASSUME TypeOK, NEW r \in Runs, Sync(r), NEW t \in Threads
      PROVE  /\ row'[t].status = "open" => remote'[t] = "open"
             /\ row'[t].status = "resolved" => remote'[t] = "resolved"
  <2>1. PICK failed \in SUBSET Threads, lost \in SUBSET Threads : Synced(r, failed, lost)
    BY <1>1, SyncIsSynced
  <2>2. CASE t \in Outdated(r)
    BY <1>1, <2>1, <2>2, SyncedRows
  <2>3. CASE t \notin Outdated(r)
    <3>1. row'[t] = ReconciledRow(t) /\ remote'[t] = remote[t]
      BY <1>1, <2>1, <2>3, SyncedRows
    <3> QED
      BY <1>1, <3>1, ReconciledTruth
  <2> QED
    BY <2>2, <2>3
<1>2. TypeOK /\ [Next]_vars =>
        [\A r \in Runs : Sync(r) =>
           \A t \in Threads : /\ row'[t].status = "open" => remote'[t] = "open"
                              /\ row'[t].status = "resolved" => remote'[t] = "resolved"]_vars
  BY <1>1
<1> QED
  BY <1>2, ThreadTypes, PTL DEF Spec, SyncMirrorsRemote

\* A resolved row has its resolution as the last entry of its history: every
\* path that resolves a row, _mark_fingerprint_resolved in detect and in sync,
\* writes the event, and a path that reopens the discussion reopens the row.
THEOREM ResolutionsAreRecorded == Spec => []ResolutionsRecorded
<1>1. Init => ResolutionsRecorded
  BY DEF Init, ResolutionsRecorded
<1>2. ASSUME TypeOK, ResolutionsRecorded, NEW t \in Threads, NEW closed,
             ReconciledRow(t).status = "resolved", ClosedRemotely \subseteq closed
      PROVE  Events(closed)[t] = "resolved"
  <2>1. t \notin ReopenedRemotely
    BY <1>2, Reconciled
  <2>2. CASE t \in ClosedRemotely
    BY <1>2, <2>2 DEF Events
  <2>3. CASE t \notin ClosedRemotely
    <3>1. t \notin Recovered
      BY <1>2, Reconciled
    <3>2. ReconciledRow(t) = row[t]
      BY <1>2, <2>1, <2>3, <3>1, Reconciled
    <3>3. event[t] = "resolved"
      BY <1>2, <3>2 DEF ResolutionsRecorded
    <3> QED
      BY <2>1, <3>3 DEF Events
  <2> QED
    BY <2>2, <2>3
<1>3. TypeOK /\ ResolutionsRecorded /\ [Next]_vars => ResolutionsRecorded'
  <2> SUFFICES ASSUME TypeOK, ResolutionsRecorded, [Next]_vars,
                      NEW t \in Threads, row'[t].status = "resolved"
               PROVE  event'[t] = "resolved"
    BY DEF ResolutionsRecorded
  <2>1. CASE row' = row /\ event' = event
    BY <2>1 DEF ResolutionsRecorded
  <2>2. CASE Detects
    BY <1>2, <2>2 DEF Detects
  <2>3. ASSUME NEW r \in Runs, PublishStep(r) PROVE event'[t] = "resolved"
    <3>1. event' = event /\ (row' = row \/ \A u \in Threads : row'[u] = row[u]
                                             \/ row'[u].status \in {"open", "stale"})
      BY <2>3, PublishStepsQueue, PublishStepsWrite DEF PublishesRows
    <3> QED
      BY <3>1 DEF ResolutionsRecorded
  <2>4. ASSUME NEW r \in Runs, Sync(r) PROVE event'[t] = "resolved"
    <3>1. PICK failed \in SUBSET Threads, lost \in SUBSET Threads : Synced(r, failed, lost)
      BY <2>4, SyncIsSynced
    <3> DEFINE closed == ClosedRemotely \cup (Outdated(r) \ failed)
    <3>2. event' = Events(closed) /\ ClosedRemotely \subseteq closed
      BY <3>1 DEF Synced
    <3>3. CASE t \in Outdated(r) \ failed
      BY <3>2, <3>3 DEF Events
    <3>4. CASE t \in failed
      BY <3>1, <3>4, SyncedRows
    <3>5. CASE t \notin Outdated(r)
      <4>1. row'[t] = ReconciledRow(t)
        BY <3>1, <3>5, SyncedRows
      <4> HIDE DEF closed
      <4> QED
        BY <1>2, <3>2, <4>1
    <3> QED
      BY <3>3, <3>4, <3>5
  <2>5. \/ row' = row /\ event' = event
        \/ Detects
        \/ \E r \in Runs : PublishStep(r) \/ Sync(r)
    <3>1. CASE UNCHANGED vars \/ (\E r \in Runs : SyncStops(r))
               \/ (\E s \in {"publish", "sync"}, r \in Runs : Replay(s, r))
               \/ (\E u \in Threads : PersonResolves(u) \/ PersonReopens(u))
      BY <3>1 DEF vars, tables, SyncStops, Replay, PersonResolves, PersonReopens, PersonSets
    <3>2. CASE Detect \/ DetectFails
      BY <3>2 DEF Detect, DetectFails, Detects, tables
    <3> QED
      BY <3>1, <3>2 DEF Next
  <2> QED
    BY <2>1, <2>2, <2>3, <2>4, <2>5
<1> QED
  BY <1>1, <1>3, ThreadTypes, PTL DEF Spec

\* A row on whose behalf a decision may count as published.
OnRecord(x) == x.status = "open" \/ (x.status = "stale" /\ x.reason = "resolve_failed")

LEMMA StaysOnRecord ==
  ASSUME TypeOK, NEW t \in Threads, OnRecord(row[t]), ClosedRemotely = {}
  PROVE  ReconciledRow(t).status = "open"
  <1>1. remote[t] = "open"
    BY DEF TypeOK, OnRecord, ClosedRemotely, WithStatus
  <1>2. CASE row[t].status = "open"
    <2>1. t \notin ClosedRemotely \cup ReopenedRemotely \cup Recovered
      BY <1>1, <1>2 DEF ClosedRemotely, ReopenedRemotely, Recovered, WithStatus
    <2> QED
      BY <1>2, <2>1, Reconciled
  <1>3. CASE row[t].status = "stale" /\ row[t].reason = "resolve_failed"
    <2>1. t \in Recovered
      BY <1>1, <1>3 DEF Recovered, WithStatus
    <2> QED
      BY <2>1, Reconciled
  <1> QED
    BY <1>2, <1>3 DEF OnRecord

\* A decision is published after a reconcile only if none of the threads got
\* resolved and one was published before, or a person reopened a thread.
LEMMA StillPublished ==
  ASSUME TypeOK, NEW closed, NEW after \in DecisionsAfter(closed),
         NEW q \in Runs, after[q].state = "published"
  PROVE  (closed = {} /\ InState({"published"}) # {}) \/ ReopenedRemotely # {}
  <1>1. CASE InState(Active) # {} /\ closed = {}
    BY <1>1 DEF DecisionsAfter, InState
  <1>2. CASE InState(Active) # {} /\ closed # {}
    <2>1. after = [r \in Runs |-> IF r \in InState(Active)
                                  THEN [decision[r] EXCEPT !.state = "resolved"]
                                  ELSE decision[r]]
      BY <1>2 DEF DecisionsAfter
    <2>2. PICK d \in Decisions : d = decision[q]
      BY DEF TypeOK
    <2>3. [d EXCEPT !.state = "resolved"].state = "resolved"
      BY DEF Decisions
    <2>4. q \notin InState(Active)
      BY <2>1, <2>2, <2>3
    <2> QED
      BY <2>1, <2>4 DEF InState, Active
  <1>3. CASE InState(Active) = {}
    <2>1. \A r \in Runs : decision[r].state # "published"
      BY <1>3 DEF InState, Active
    <2>2. after # decision
      BY <2>1
    <2> QED
      BY <1>3, <2>2 DEF DecisionsAfter
  <1> QED
    BY <1>1, <1>2, <1>3

\* A finding that counts as published has an open row, or one whose resolution
\* failed; no failure of a phase and nothing people or operators do in between
\* makes the tables forget it (_mark_fingerprint_resolved and
\* _mark_fingerprint_reopened change decisions and row together).
THEOREM PublishedStaysTracked == Spec => []PublishedIsTracked
<1>1. Init => PublishedIsTracked
  BY DEF Init, PublishedIsTracked, InState
<1>2. TypeOK /\ PublishedIsTracked /\ [Next]_vars => PublishedIsTracked'
  <2> SUFFICES ASSUME TypeOK, PublishedIsTracked, [Next]_vars,
                      NEW p \in Runs, decision'[p].state = "published"
               PROVE  \E t \in Threads : OnRecord(row'[t])
    BY DEF PublishedIsTracked, InState, OnRecord
  <2>0. InState({"published"}) # {} => \E t \in Threads : OnRecord(row[t])
    BY DEF PublishedIsTracked, OnRecord
  <2>1. ASSUME row' = row,
               \A q \in Runs : decision'[q].state = "published" => decision[q].state = "published"
        PROVE  \E t \in Threads : OnRecord(row'[t])
    BY <2>0, <2>1 DEF InState
  <2>2. CASE Detects
    <3>1. PICK before \in DecisionsAfter(ClosedRemotely), verdict \in Verdicts :
            decision' = [before EXCEPT ![detected + 1] = verdict]
      BY <2>2 DEF Detects
    <3>2. before \in [Runs -> Decisions] /\ verdict.state # "published"
      BY DecisionsType DEF Verdicts
    <3>3. before[p].state = "published"
      BY <3>1, <3>2
    <3>4. \A t \in Threads : row'[t] = ReconciledRow(t)
      BY <2>2 DEF Detects
    <3>5. CASE ClosedRemotely = {} /\ InState({"published"}) # {}
      BY <2>0, <3>4, <3>5, StaysOnRecord DEF OnRecord
    <3>6. CASE ReopenedRemotely # {}
      <4>1. PICK t \in Threads : t \in ReopenedRemotely
        BY <3>6 DEF ReopenedRemotely, WithStatus
      <4> QED
        BY <3>4, <4>1, Reconciled DEF OnRecord
    <3> QED
      BY <3>3, <3>5, <3>6, StillPublished
  <2>3. ASSUME NEW r \in Runs, PublishStep(r) PROVE \E t \in Threads : OnRecord(row'[t])
    <3>1. CASE \E t \in Threads : row'[t].status = "open"
      BY <3>1 DEF OnRecord
    <3>2. CASE ~\E t \in Threads : row'[t].status = "open"
      <4>1. row' = row
        BY <2>3, <3>2, PublishStepsWrite DEF PublishesRows
      <4>2. \A q \in Runs : decision'[q].state = "published" => decision[q].state = "published"
        BY <2>3, <3>2, PublishStepsDecide
      <4> QED
        BY <2>1, <4>1, <4>2
    <3> QED
      BY <3>1, <3>2
  <2>4. ASSUME NEW r \in Runs, Sync(r) PROVE \E t \in Threads : OnRecord(row'[t])
    <3>1. PICK failed \in SUBSET Threads, lost \in SUBSET Threads : Synced(r, failed, lost)
      BY <2>4, SyncIsSynced
    <3>2. decision' \in DecisionsAfter(ClosedRemotely \cup (Outdated(r) \ failed))
      BY <3>1 DEF Synced
    <3>3. CASE ReopenedRemotely # {}
      <4>1. PICK t \in Threads : t \in ReopenedRemotely
        BY <3>3 DEF ReopenedRemotely, WithStatus
      <4>2. t \notin Outdated(r)
        BY <4>1 DEF ReopenedRemotely, Outdated, WithStatus
      <4>3. row'[t] = ReconciledRow(t)
        BY <3>1, <4>2, SyncedRows
      <4>4. ReconciledRow(t).status = "open"
        BY <4>1, Reconciled
      <4> QED
        BY <4>3, <4>4 DEF OnRecord
    <3>4. CASE /\ ClosedRemotely \cup (Outdated(r) \ failed) = {}
               /\ InState({"published"}) # {}
      <4>1. PICK t \in Threads : OnRecord(row[t])
        BY <2>0, <3>4
      <4>2. ClosedRemotely = {} /\ (t \in failed \/ t \notin Outdated(r))
        BY <3>4
      <4>3. CASE t \in failed
        BY <3>1, <4>3, SyncedRows DEF OnRecord
      <4>4. CASE t \notin Outdated(r)
        <5>1. row'[t] = ReconciledRow(t)
          BY <3>1, <4>4, SyncedRows
        <5> QED
          BY <4>1, <4>2, <5>1, StaysOnRecord DEF OnRecord
      <4> QED
        BY <4>2, <4>3, <4>4
    <3> QED
      BY <3>2, <3>3, <3>4, StillPublished
  <2>5. \/ row' = row /\ decision' = decision
        \/ Detects
        \/ \E r \in Runs : PublishStep(r) \/ Sync(r)
    <3>1. CASE UNCHANGED vars \/ (\E r \in Runs : SyncStops(r))
               \/ (\E s \in {"publish", "sync"}, r \in Runs : Replay(s, r))
               \/ (\E u \in Threads : PersonResolves(u) \/ PersonReopens(u))
      BY <3>1 DEF vars, tables, SyncStops, Replay, PersonResolves, PersonReopens, PersonSets
    <3>2. CASE Detect \/ DetectFails
      BY <3>2 DEF Detect, DetectFails, Detects, tables
    <3> QED
      BY <3>1, <3>2 DEF Next
  <2> QED
    BY <2>1, <2>2, <2>3, <2>4, <2>5
<1> QED
  BY <1>1, <1>2, ThreadTypes, PTL DEF Spec

(***************************************************************************)
(* One discussion.                                                         *)
(***************************************************************************)
\* The finding keeps its anchor, and no request to the review system has an
\* effect the tables do not learn of.
AnchorStays ==
  /\ \A a, b \in Anchors : a = b
  /\ "lost_reply" \notin Faults /\ "resolve_error" \notin Faults /\ "worker_dies" \notin Faults

\* Every discussion has a row that publish finds, and there is one of them.
KnownDiscussion ==
  /\ \A t \in Threads : remote[t] # "none" => row[t].status \in {"open", "resolved"}
  /\ \A t, u \in Threads : remote[t] # "none" /\ remote[u] # "none" => t = u

LEMMA KeptKnown ==
  ASSUME KnownDiscussion,
         \A t \in Threads : remote'[t] # "none" => remote[t] # "none",
         \A t \in Threads : remote[t] # "none" => row'[t].status \in {"open", "resolved"}
  PROVE  KnownDiscussion'
  BY DEF KnownDiscussion

LEMMA ReconcileKeepsKnown ==
  ASSUME TypeOK, KnownDiscussion, NEW t \in Threads, remote[t] # "none"
  PROVE  ReconciledRow(t).status \in {"open", "resolved"}
  <1>1. row[t].status \in {"open", "resolved"}
    BY DEF KnownDiscussion
  <1>2. CASE t \in ClosedRemotely \cup ReopenedRemotely \cup Recovered
    BY <1>2, Reconciled
  <1>3. CASE t \notin ClosedRemotely \cup ReopenedRemotely \cup Recovered
    BY <1>1, <1>3, Reconciled
  <1> QED
    BY <1>2, <1>3

\* An upsert finds the discussion there is, or there is none.
LEMMA UpsertsAreInPlace ==
  ASSUME AnchorStays, TypeOK, KnownDiscussion, NEW r \in Runs, NEW t \in Existing
  PROVE  InPlace(t, r) \/ (~InPlace(t, r) /\ \A u \in Threads : remote[u] = "none")
  <1>1. CASE t # NoThread
    <2>1. row[t].anchor \in Anchors /\ decision[r].anchor \in Anchors
      BY <1>1, ExistingThreads DEF TypeOK, ThreadRows, Decisions
    <2> QED
      BY <1>1, <2>1 DEF AnchorStays, InPlace, SameAnchor
  <1>2. CASE t = NoThread
    <2>1. WithStatus({"open", "resolved"}) = {}
      BY <1>2, ThreadConstants DEF Existing, NoThread, WithStatus, Threads
    <2>2. \A u \in Threads : remote[u] = "none"
      BY <2>1 DEF WithStatus, KnownDiscussion
    <2> QED
      BY <1>2, <2>2 DEF InPlace
  <1> QED
    BY <1>1, <1>2

\* Commenting in the discussion there is makes none.
LEMMA InPlaceKeepsDiscussions ==
  ASSUME TypeOK, NEW r \in Runs, NEW t \in Existing, InPlace(t, r), RemoteUpsert(t, r)
  PROVE  \A u \in Threads : remote'[u] # "none" => remote[u] # "none"
  BY UpsertedDiscussions

LEMMA UpsertKeepsKnown ==
  ASSUME AnchorStays, TypeOK, KnownDiscussion, NEW r \in Runs, NEW t \in Existing, NEW b \in Bodies,
         RemoteUpsert(t, r), LocalUpsert(t, r, b)
  PROVE  KnownDiscussion'
  <1>1. CASE InPlace(t, r)
    <2>1. \A u \in Threads : remote'[u] # "none" => remote[u] # "none"
      BY <1>1, InPlaceKeepsDiscussions
    <2>2. row' = [row EXCEPT ![t] = Opened(decision[r].anchor, b)]
      BY <1>1 DEF LocalUpsert
    <2>3. Opened(decision[r].anchor, b).status = "open"
      BY DEF Opened
    <2>4. \A u \in Threads : remote[u] # "none" => row'[u].status \in {"open", "resolved"}
      BY <2>2, <2>3 DEF KnownDiscussion, TypeOK
    <2> QED
      BY <2>1, <2>4, KeptKnown
  <1>2. CASE ~InPlace(t, r)
    <2>1. \A u \in Threads : remote[u] = "none"
      BY <1>2, UpsertsAreInPlace
    <2>2. PICK new \in Fresh : remote' = [remote EXCEPT ![new] = "open"]
      BY <1>2 DEF RemoteUpsert
    <2>3. PICK new2 \in Fresh : Replaced(t, r, b, new2)
      BY <1>2 DEF LocalUpsert
    <2>4. new2 = new /\ new \in Threads
      BY FreshIsOne DEF Fresh
    <2>5. t = NoThread \/ t \in Threads
      BY ExistingThreads
    <2>6. row'[new].status = "open"
      BY <2>3, <2>4, <2>5, ReplacedRows
    <2>7. \A u \in Threads : remote'[u] # "none" => u = new
      BY <2>1, <2>2 DEF TypeOK
    <2> QED
      BY <2>6, <2>7 DEF KnownDiscussion
  <1> QED
    BY <1>1, <1>2

\* A finding that keeps its anchor has one discussion, however runs overlap,
\* publications are refused, people resolve and reopen it and operators replay
\* phases (the thread lookup of publish and the upsert of the adapter).
THEOREM FindingsHaveOneDiscussion == AnchorStays => (Spec => []OneDiscussion)
<1> SUFFICES ASSUME AnchorStays PROVE Spec => []OneDiscussion
  OBVIOUS
<1>1. Init => KnownDiscussion
  BY DEF Init, KnownDiscussion
<1>2. TypeOK /\ KnownDiscussion /\ [Next]_vars => KnownDiscussion'
  <2> SUFFICES ASSUME TypeOK, KnownDiscussion, [Next]_vars PROVE KnownDiscussion'
    OBVIOUS
  <2>1. ASSUME row' = row, \A t \in Threads : remote'[t] # "none" => remote[t] # "none"
        PROVE  KnownDiscussion'
    BY <2>1, KeptKnown DEF KnownDiscussion
  <2>2. CASE Detect \/ DetectFails
    <3>1. remote' = remote /\ (row' = row \/ \A t \in Threads : row'[t] = ReconciledRow(t))
      BY <2>2 DEF Detect, DetectFails, tables
    <3>2. CASE row' = row
      BY <2>1, <3>1, <3>2
    <3>3. CASE \A t \in Threads : row'[t] = ReconciledRow(t)
      BY <3>1, <3>3, KeptKnown, ReconcileKeepsKnown
    <3> QED
      BY <3>1, <3>2, <3>3
  <2>3. ASSUME NEW r \in Runs, PublishStep(r) PROVE KnownDiscussion'
    <3>1. CASE PublishUpserts(r)
      BY <3>1, UpsertKeepsKnown DEF PublishUpserts
    <3>2. CASE PublishFails(r)
      <4>1. PICK t \in Existing : UNCHANGED remote \/ (InPlace(t, r) /\ RemoteUpsert(t, r))
        BY <3>2 DEF PublishFails, AnchorStays
      <4>2. row' = row
        BY <3>2 DEF PublishFails
      <4> QED
        BY <2>1, <4>1, <4>2, InPlaceKeepsDiscussions
    <3>3. CASE PublishNothing(r) \/ PublishDrops(r) \/ PublishConfirms(r) \/ PublishStops(r)
      <4>1. row' = row /\ remote' = remote
        BY <3>3 DEF PublishNothing, PublishDrops, PublishConfirms, PublishStops, tables, AnchorStays
      <4> QED
        BY <2>1, <4>1
    <3>4. ~PublishUpsertsTwice(r)
      BY DEF PublishUpsertsTwice, AnchorStays
    <3> QED
      BY <2>3, <3>1, <3>2, <3>3, <3>4 DEF PublishStep
  <2>4. ASSUME NEW r \in Runs, Sync(r) PROVE KnownDiscussion'
    <3>1. PICK failed \in SUBSET Threads, lost \in SUBSET Threads : Synced(r, failed, lost)
      BY <2>4, SyncIsSynced
    <3>2. failed = {}
      BY <3>1 DEF Synced, AnchorStays
    <3>3. \A t \in Threads : remote'[t] # "none" => remote[t] # "none"
      BY <3>1 DEF Synced, Resolve, Outdated
    <3>4. ASSUME NEW t \in Threads, remote[t] # "none"
          PROVE  row'[t].status \in {"open", "resolved"}
      <4>1. CASE t \in Outdated(r)
        BY <3>1, <3>2, <4>1, SyncedRows
      <4>2. CASE t \notin Outdated(r)
        <5>1. row'[t] = ReconciledRow(t)
          BY <3>1, <4>2, SyncedRows
        <5> QED
          BY <3>4, <5>1, ReconcileKeepsKnown
      <4> QED
        BY <4>1, <4>2
    <3> QED
      BY <3>3, <3>4, KeptKnown
  <2>5. ASSUME NEW r \in Runs, SyncStops(r) PROVE KnownDiscussion'
    <3>1. row' = row /\ remote' = remote
      BY <2>5 DEF SyncStops, tables, AnchorStays
    <3> QED
      BY <2>1, <3>1
  <2>6. ASSUME NEW t \in Threads, PersonResolves(t) \/ PersonReopens(t) PROVE KnownDiscussion'
    <3>1. row' = row /\ \A u \in Threads : remote'[u] # "none" => remote[u] # "none"
      BY <2>6 DEF PersonResolves, PersonReopens, PersonSets, tables, TypeOK
    <3> QED
      BY <2>1, <3>1
  <2>7. CASE UNCHANGED vars \/ \E s \in {"publish", "sync"}, r \in Runs : Replay(s, r)
    <3>1. row' = row /\ remote' = remote
      BY <2>7 DEF vars, Replay, tables
    <3> QED
      BY <2>1, <3>1
  <2> QED
    BY <2>2, <2>3, <2>4, <2>5, <2>6, <2>7 DEF Next
<1>3. KnownDiscussion => OneDiscussion
  <2> SUFFICES ASSUME KnownDiscussion PROVE OneDiscussion
    OBVIOUS
  <2> DEFINE S == {t \in Threads : remote[t] # "none"}
  <2>1. CASE S = {}
    <3>1. Cardinality(S) = 0
      BY <2>1, FS_EmptySet
    <3> QED
      BY <3>1 DEF OneDiscussion
  <2>2. CASE S # {}
    <3>1. PICK t \in S : TRUE
      BY <2>2
    <3>2. S = {t}
      BY <3>1 DEF KnownDiscussion
    <3>3. Cardinality(S) = 1
      BY <3>2, FS_Singleton
    <3> QED
      BY <3>3 DEF OneDiscussion
  <2> QED
    BY <2>1, <2>2
<1> QED
  BY <1>1, <1>2, <1>3, ThreadTypes, PTL DEF Spec

(***************************************************************************)
(* The reports.                                                            *)
(***************************************************************************)
LEMMA LeftToBacklog ==
  ASSUME NEW r, NEW t \in Existing, NEW v, RunSection(r, t, v) = "none"
  PROVE  (v.later \/ (row[t].status # "open" /\ ~Resurface)) /\ (t = NoThread => v.later)
  <1>1. Backlog(r, t, v) \notin {"none", "open"}
    BY DEF RunSection
  <1> QED
    BY <1>1 DEF Backlog

\* What the run found, or has an open thread for, is in some section of the
\* report.  It is a fact of the two classifications, _classify_full_report_section
\* and _current_backlog_entries: what the first leaves to the second is listed
\* there, in whatever state the phases left the tables.
THEOREM ReportsAreComplete == Spec => []NothingGoesUnreported
<1>1. NothingGoesUnreported
  <2> SUFFICES ASSUME NEW r \in 1..detected, NEW t \in Existing, NEW v \in Views(r),
                      \/ decision[r].state # "none" /\ ~(v.later /\ t = NoThread)
                      \/ \E u \in WithStatus({"open"}) : row[u].reason # "remote_reopened"
               PROVE  Listed(r, t, v) # {}
    BY DEF NothingGoesUnreported
  <2>1. ASSUME NEW u \in BacklogRows(v) PROVE Listed(r, t, v) # {}
    BY <2>1 DEF Listed
  <2>2. CASE decision[r].state # "none" /\ RunSection(r, t, v) # "none"
    BY <2>2 DEF Listed
  <2>3. CASE \E u \in WithStatus({"open"}) : row[u].reason # "remote_reopened"
    <3>1. PICK u \in WithStatus({"open"}) : row[u].reason # "remote_reopened"
      BY <2>3
    <3>2. u \in BacklogRows(v)
      BY <3>1 DEF BacklogRows, WithStatus
    <3> QED
      BY <2>1, <3>2
  <2>4. CASE RunSection(r, t, v) = "none" /\ ~(v.later /\ t = NoThread)
    <3>1. t # NoThread /\ (v.later \/ (row[t].status # "open" /\ ~Resurface))
      BY <2>4, LeftToBacklog
    <3>2. t \in Threads /\ row[t].status \in {"open", "resolved"}
      BY <3>1, ExistingThreads
    <3>3. t \in BacklogRows(v)
      BY <3>1, <3>2 DEF BacklogRows, WithStatus
    <3> QED
      BY <2>1, <3>3
  <2> QED
    BY <2>2, <2>3, <2>4
<1> QED
  BY <1>1, PTL
================================================================================
