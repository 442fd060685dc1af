-------------------------- MODULE ReviewRuns_proofs ---------------------------
(***************************************************************************)
(* Theorems about ReviewRuns, for every number of handlers, workers, runs, *)
(* requests and replays and every combination of faults.                   *)
(***************************************************************************)
EXTENDS ReviewRuns, TLAPS

(***************************************************************************)
(* Updates of one column or one local variable keep the type of a record.  *)
(***************************************************************************)
LEMMA RowWrites ==
  ASSUME NEW x \in Rows
  PROVE  /\ \A s \in Statuses : [x EXCEPT !.status = s] \in Rows
         /\ \A s \in Statuses, e \in {"enqueue", "phase", "followup"} :
               [x EXCEPT !.status = s, !.error = e] \in Rows
         /\ \A t \in Targets : [x EXCEPT !.target = t] \in Rows
         /\ [x EXCEPT !.job = TRUE] \in Rows
  BY DEF Rows

LEMMA LetterType ==
  ASSUME NEW r \in Runs, NEW s \in Stages
  PROVE  Letter(r, s) \subseteq DeadLetters
  <1>1. [run |-> r, stage |-> s, aged |-> FALSE] \in DeadLetters
    BY DEF DeadLetters
  <1>2. CASE DeadLetterEnabled
    BY <1>1, <1>2 DEF Letter
  <1>3. CASE ~DeadLetterEnabled
    BY <1>3 DEF Letter
  <1> QED
    BY <1>2, <1>3

LEMMA HandlerWrites ==
  ASSUME NEW h \in Handlers, handler \in [Handlers -> {HandlerIdle} \cup HandlerBusy],
         handler[h].pc # "idle"
  PROVE  /\ handler[h] \in HandlerBusy
         /\ \A pc \in {"refresh", "dispatch", "record"} :
               [handler[h] EXCEPT !.pc = pc] \in HandlerBusy
         /\ \A b \in BOOLEAN :
               [handler[h] EXCEPT !.pc = "dispatch", !.seen = b] \in HandlerBusy
  <1>1. handler[h] \in HandlerBusy
    BY DEF HandlerIdle
  <1> QED
    BY <1>1 DEF HandlerBusy

LEMMA WorkerWrites ==
  ASSUME NEW w \in Workers, worker \in [Workers -> {WorkerIdle} \cup WorkerBusy],
         worker[w].pc # "idle"
  PROVE  /\ worker[w] \in WorkerBusy
         /\ \A pc \in {"follow", "mark", "cleanup"} :
               [worker[w] EXCEPT !.pc = pc] \in WorkerBusy
         /\ \A s \in Statuses :
               [worker[w] EXCEPT !.pc = "work", !.loaded = s] \in WorkerBusy
         /\ \A b \in BOOLEAN :
               [worker[w] EXCEPT !.pc = "counted", !.partial = b] \in WorkerBusy
  <1>1. worker[w] \in WorkerBusy
    BY DEF WorkerIdle
  <1> QED
    BY <1>1 DEF WorkerBusy

\* Whoever is not idle works on a run of the table.
LEMMA BusyOnRuns ==
  ASSUME handler \in [Handlers -> {HandlerIdle} \cup HandlerBusy],
         worker \in [Workers -> {WorkerIdle} \cup WorkerBusy]
  PROVE  /\ \A h \in Handlers : handler[h].pc # "idle" => handler[h].run \in Runs
         /\ \A w \in Workers : worker[w].pc # "idle" => worker[w].run \in Runs
  <1>1. ASSUME NEW h \in Handlers, handler[h].pc # "idle" PROVE handler[h].run \in Runs
    <2>1. handler[h] \in HandlerBusy
      BY <1>1, HandlerWrites
    <2> QED
      BY <2>1 DEF HandlerBusy
  <1>2. ASSUME NEW w \in Workers, worker[w].pc # "idle" PROVE worker[w].run \in Runs
    <2>1. worker[w] \in WorkerBusy
      BY <1>2, WorkerWrites
    <2> QED
      BY <2>1 DEF WorkerBusy
  <1> QED
    BY <1>1, <1>2

\* Every reachable state of the pipeline is well typed; in particular the
\* jobs on the queues and in the workers name runs of the table, and only
\* detect and publish jobs enqueue a follow-up.
THEOREM TypeCorrect == Spec => []TypeOK
<1> USE ConstantsAssumption
<1>1. Init => TypeOK
  <2> SUFFICES ASSUME Init PROVE TypeOK
    OBVIOUS
  <2>1. Targets # {}
    <3>1. PICK m \in Modes : TRUE
      OBVIOUS
    <3>2. [mode |-> m, base |-> TRUE, head |-> 0] \in Targets
      BY DEF Targets
    <3> QED
      BY <3>2
  <2>2. Unborn \in Rows
    BY <2>1 DEF Unborn, Rows, Statuses
  <2>3. row \in [Runs -> Rows]
    BY <2>2 DEF Init
  <2>4. queues \in [Stages -> Seq(Runs)]
    BY DEF Init
  <2>5. worker \in [Workers -> {WorkerIdle} \cup WorkerBusy]
    BY DEF Init
  <2>6. \A w \in Workers : ~(worker[w].pc \in {"follow", "mark"})
    BY DEF Init, WorkerIdle
  <2> QED
    BY <2>3, <2>4, <2>5, <2>6 DEF TypeOK, Init
<1>2. TypeOK /\ [Next]_vars => TypeOK'
  <2> SUFFICES ASSUME TypeOK, [Next]_vars PROVE TypeOK'
    OBVIOUS
  <2> USE DEF TypeOK
  <2>1. CASE UNCHANGED vars
    BY <2>1 DEF vars, tables, counts, history
  <2>2. ASSUME NEW h \in Handlers, HandlerStep(h) \/ HandlerDies(h)
        PROVE  TypeOK'
    <3> DEFINE r == handler[h].run
    <3> USE DEF tables, counts, history, HandlerAt, HandlerGoes, Answered
    <3>1. ASSUME NEW t \in Requests, ReusePendingRun(h, t) PROVE TypeOK'
      <4>1. PICK s \in Runs : handler' = [handler EXCEPT ![h] =
                                [pc |-> "dispatch", run |-> s, seen |-> row[s].job]]
        BY <3>1 DEF ReusePendingRun, Reusable
      <4>2. row[s] \in Rows /\ row[s].job \in BOOLEAN
        BY DEF Rows
      <4> QED
        BY <3>1, <4>1, <4>2 DEF ReusePendingRun, HandlerBusy
    <3>2. ASSUME NEW t \in Requests, BuildRun(h, t) PROVE TypeOK'
      <4>1. created + 1 \in Runs /\ t \in Targets
        BY <3>2 DEF BuildRun, Runs
      <4>2. [row[created + 1] EXCEPT !.target = t] \in Rows
        BY <4>1, RowWrites
      <4> QED
        BY <3>2, <4>1, <4>2 DEF BuildRun, HandlerBusy, Runs
    <3>3. CASE InsertRun(h)
      <4>1. handler[h] \in HandlerBusy /\ r \in Runs
        BY <3>3, HandlerWrites DEF InsertRun, HandlerBusy
      <4>2. [row[r] EXCEPT !.status = "queued"] \in Rows
        BY <4>1, RowWrites DEF Statuses, Pending
      <4>3. [handler[h] EXCEPT !.pc = "refresh"] \in HandlerBusy
        BY <3>3, HandlerWrites DEF InsertRun
      <4> QED
        BY <3>3, <4>1, <4>2, <4>3 DEF InsertRun
    <3>4. CASE RefreshRun(h)
      <4>1. handler[h] \in HandlerBusy /\ r \in Runs
        BY <3>4, HandlerWrites DEF RefreshRun, HandlerBusy
      <4>2. row[r].job \in BOOLEAN
        BY <4>1 DEF Rows
      <4>3. [handler[h] EXCEPT !.pc = "dispatch", !.seen = row[r].job] \in HandlerBusy
        BY <3>4, <4>2, HandlerWrites DEF RefreshRun
      <4> QED
        BY <3>4, <4>3 DEF RefreshRun
    <3>5. CASE SkipDispatch(h)
      <4>1. r \in Runs
        BY <3>5, HandlerWrites DEF SkipDispatch, HandlerBusy
      <4> QED
        BY <3>5, <4>1 DEF SkipDispatch
    <3>6. CASE PlaceDetectJob(h)
      <4>1. r \in Runs
        BY <3>6, HandlerWrites DEF PlaceDetectJob, HandlerBusy
      <4>2. [handler[h] EXCEPT !.pc = "record"] \in HandlerBusy
        BY <3>6, HandlerWrites DEF PlaceDetectJob
      <4> QED
        BY <3>6, <4>1, <4>2 DEF PlaceDetectJob, Enqueue, Stages
    <3>7. CASE RecordJob(h)
      <4>1. r \in Runs
        BY <3>7, HandlerWrites DEF RecordJob, HandlerBusy
      <4>2. [row[r] EXCEPT !.job = TRUE] \in Rows
        BY <4>1, RowWrites
      <4> QED
        BY <3>7, <4>1, <4>2 DEF RecordJob
    <3>8. CASE DetectEnqueueFails(h)
      <4>1. r \in Runs
        BY <3>8, HandlerWrites DEF DetectEnqueueFails, HandlerBusy
      <4>2. [row[r] EXCEPT !.status = "failed", !.error = "enqueue"] \in Rows
        BY <4>1, RowWrites DEF Statuses, Terminal
      <4>3. row' \in [Runs -> Rows]
        BY <3>8, <4>1, <4>2 DEF DetectEnqueueFails
      <4> QED
        BY <3>8, <4>3 DEF DetectEnqueueFails
    <3>9. CASE HandlerDies(h)
      BY <3>9 DEF HandlerDies
    <3> QED
      BY <2>2, <3>1, <3>2, <3>3, <3>4, <3>5, <3>6, <3>7, <3>8, <3>9 DEF HandlerStep
  <2>3. ASSUME NEW r \in Runs, ReplayPublish(r) \/ ReplaySync(r)
        PROVE  TypeOK'
    <3>1. PICK s \in Stages : Replay(s, r)
      BY <2>3 DEF ReplayPublish, ReplaySync, Stages
    <3>2. queues' \in [Stages -> Seq(Runs)]
      BY <3>1 DEF Replay, Enqueue
    <3> QED
      BY <3>1, <3>2 DEF Replay, tables, counts, history
  <2>4. ASSUME NEW w \in Workers, WorkerStep(w) \/ WorkerDies(w)
        PROVE  TypeOK'
    <3> DEFINE r == worker[w].run
    <3> USE DEF tables, counts, history, WorkerAt, WorkerGoes, JobEnds
    <3>1. ASSUME NEW s \in Stages, TakeJob(w, s) PROVE TypeOK'
      <4>1. queues[s] \in Seq(Runs) /\ queues[s] # <<>>
        BY <3>1 DEF TakeJob
      <4>2. Head(queues[s]) \in Runs /\ Tail(queues[s]) \in Seq(Runs)
        BY <4>1
      <4>3. [pc |-> "begin", stage |-> s, run |-> Head(queues[s]),
             loaded |-> "unborn", partial |-> FALSE] \in WorkerBusy
        BY <4>2 DEF WorkerBusy, Statuses
      <4> QED
        BY <3>1, <4>2, <4>3 DEF TakeJob
    <3>2. ASSUME ~WorkerAt(w, "idle") PROVE worker[w] \in WorkerBusy /\ r \in Runs /\ row[r] \in Rows
      <4>1. worker \in [Workers -> {WorkerIdle} \cup WorkerBusy]
            /\ handler \in [Handlers -> {HandlerIdle} \cup HandlerBusy]
            /\ row \in [Runs -> Rows]
        OBVIOUS
      <4>2. worker[w].pc # "idle"
        BY <3>2
      <4> HIDE DEF TypeOK, WorkerAt
      <4>3. worker[w] \in WorkerBusy
        BY <4>1, <4>2, WorkerWrites
      <4>4. worker[w].run \in Runs
        BY <4>1, <4>2, BusyOnRuns
      <4> QED
        BY <4>1, <4>3, <4>4
    <3>3. CASE BeginDetect(w)
      <4>1. [row[r] EXCEPT !.status = "running"] \in Rows
        BY <3>2, <3>3, RowWrites DEF BeginDetect, Statuses, Pending
      <4>2. [worker[w] EXCEPT !.pc = "work", !.loaded = "running"] \in WorkerBusy
        BY <3>3, WorkerWrites DEF BeginDetect, Statuses, Pending
      <4> QED
        BY <3>2, <3>3, <4>1, <4>2 DEF BeginDetect
    <3>4. CASE BeginFollowUp(w)
      <4>1. row[r].status \in Statuses
        BY <3>2, <3>4 DEF BeginFollowUp, Rows
      <4>2. [worker[w] EXCEPT !.pc = "work", !.loaded = row[r].status] \in WorkerBusy
        BY <3>4, <4>1, WorkerWrites DEF BeginFollowUp
      <4> QED
        BY <3>4, <4>2 DEF BeginFollowUp
    <3>5. CASE DetectCommits(w)
      <4>1. PICK head \in Heads :
              row' = [row EXCEPT ![r].target = Observed(@, head)]
        BY <3>5 DEF DetectCommits
      <4>2. row[r].target \in Targets
        BY <3>2, <3>5 DEF DetectCommits, Rows
      <4>3. Observed(row[r].target, head) \in Targets
        BY <4>2 DEF Observed, Targets
      <4>4. [row[r] EXCEPT !.target = Observed(row[r].target, head)] \in Rows
        BY <3>2, <3>5, <4>3, RowWrites DEF DetectCommits
      <4>5. [worker[w] EXCEPT !.pc = "follow"] \in WorkerBusy
        BY <3>5, WorkerWrites DEF DetectCommits
      <4> QED
        BY <3>2, <3>5, <4>1, <4>4, <4>5 DEF DetectCommits, SomeFailuresResolved, WorkerBusy
    <3>6. CASE PublishCommits(w)
      <4>1. [worker[w] EXCEPT !.pc = "follow"] \in WorkerBusy
        BY <3>6, WorkerWrites DEF PublishCommits
      <4> QED
        BY <3>2, <3>6, <4>1 DEF PublishCommits, SomePublicationsFail, WorkerBusy
    <3>7. CASE SyncCounts(w)
      <4>1. PICK b \in BOOLEAN : b = (r \in unpublished)
        <5>1. (r \in unpublished) \in BOOLEAN
          BY SMT
        <5> QED
          BY <5>1, Zenon
      <4>2. [worker[w] EXCEPT !.pc = "counted", !.partial = b] \in WorkerBusy
        BY <3>7, WorkerWrites DEF SyncCounts
      <4>3. worker' = [worker EXCEPT ![w] = [worker[w] EXCEPT !.pc = "counted", !.partial = b]]
        BY <3>7, <4>1 DEF SyncCounts
      <4>4. worker' \in [Workers -> {WorkerIdle} \cup WorkerBusy]
        BY <4>2, <4>3
      <4>5. worker'[w].pc = "counted" /\ \A v \in Workers \ {w} : worker'[v] = worker[v]
        BY <3>2, <3>7, <4>3 DEF SyncCounts, WorkerBusy
      <4> QED
        BY <3>7, <4>4, <4>5 DEF SyncCounts
    <3>8. CASE SyncCommits(w)
      <4>1. ASSUME NEW s \in Statuses PROVE [row[r] EXCEPT !.status = s] \in Rows
        BY <3>2, <3>8, RowWrites DEF SyncCommits
      <4>2. row[r].status \in Statuses
        BY <3>2, <3>8 DEF SyncCommits, Rows
      <4>3. PICK s \in Statuses : row' = [row EXCEPT ![r].status = s]
        BY <3>8, <4>2 DEF SyncCommits, Saved, Statuses, Terminal
      <4>4. [worker[w] EXCEPT !.pc = "cleanup"] \in WorkerBusy
        BY <3>8, WorkerWrites DEF SyncCommits
      <4> QED
        BY <3>2, <3>8, <4>1, <4>3, <4>4 DEF SyncCommits, SomeFailuresResolved, WorkerBusy
    <3>9. CASE CleanupDeadLetters(w)
      BY <3>9 DEF CleanupDeadLetters, WorkerIdle
    <3>10. CASE PhaseFails(w)
      <4>0. r \in Runs
        BY <3>2, <3>10 DEF PhaseFails
      <4>1. row[r].target \in Targets /\ row[r].status \in Statuses /\ worker[w].stage \in Stages
        BY <3>2, <3>10 DEF PhaseFails, Rows, WorkerBusy
      <4>2. \A h \in Heads : Observed(row[r].target, h) \in Targets
        BY <4>1 DEF Observed, Targets
      <4>3. PICK t \in Targets, s \in Statuses :
              row' = [row EXCEPT ![r].status = s, ![r].error = "phase", ![r].target = t]
        <5>1. Saved(r, worker[w].loaded, "failed") \in Statuses
          BY <4>1 DEF Saved, Statuses, Terminal
        <5>2. PICK t \in {row[r].target} \cup {Observed(row[r].target, h) : h \in Heads} :
                row' = [row EXCEPT ![r].status = Saved(r, worker[w].loaded, "failed"),
                                   ![r].error = "phase", ![r].target = t]
          BY <3>10 DEF PhaseFails
        <5>3. t \in Targets
          BY <4>1, <4>2
        <5> QED
          BY <5>1, <5>2, <5>3
      <4>4. [[row[r] EXCEPT !.status = s, !.error = "phase"] EXCEPT !.target = t] \in Rows
        <5>1. [row[r] EXCEPT !.status = s, !.error = "phase"] \in Rows
          BY <3>2, <3>10, RowWrites DEF PhaseFails
        <5> QED
          BY <5>1, RowWrites
      <4>5. row' \in [Runs -> Rows]
        BY <4>3, <4>4
      <4>6. Letter(r, worker[w].stage) \subseteq DeadLetters
        BY <4>0, <4>1, LetterType
      <4>7. unpublished' \subseteq Runs
        BY <3>2, <3>10 DEF PhaseFails, SomeFailuresResolved, SomePublicationsFail
      <4> QED
        BY <3>10, <4>5, <4>6, <4>7 DEF PhaseFails, WorkerIdle
    <3>11. CASE EnqueueFollowUp(w)
      <4>1. FollowUp(worker[w].stage) \in Stages
        BY DEF FollowUp, Stages
      <4> QED
        BY <3>2, <3>11, <4>1 DEF EnqueueFollowUp, Enqueue, WorkerIdle
    <3>12. CASE FollowUpEnqueueFails(w)
      <4>1. FollowUp(worker[w].stage) \in Stages
        BY DEF FollowUp, Stages
      <4>2. [worker[w] EXCEPT !.pc = "mark"] \in WorkerBusy
        BY <3>12, WorkerWrites DEF FollowUpEnqueueFails
      <4>3. queues' \in [Stages -> Seq(Runs)]
        <5>1. CASE UNCHANGED queues
          BY <5>1
        <5>2. CASE Enqueue(FollowUp(worker[w].stage), r)
          BY <3>2, <3>12, <4>1, <5>2 DEF FollowUpEnqueueFails, Enqueue
        <5> QED
          BY <3>12, <5>1, <5>2 DEF FollowUpEnqueueFails
      <4> QED
        BY <3>2, <3>12, <4>2, <4>3 DEF FollowUpEnqueueFails
    <3>13. CASE MarkFollowUpFailure(w)
      <4>1. FollowUp(worker[w].stage) \in Stages
        BY DEF FollowUp, Stages
      <4>2. [row[r] EXCEPT !.status = "failed", !.error = "followup"] \in Rows
        BY <3>2, <3>13, RowWrites DEF MarkFollowUpFailure, Statuses, Terminal
      <4>3. row' \in [Runs -> Rows]
        BY <3>13, <4>2 DEF MarkFollowUpFailure
      <4>4. Letter(r, FollowUp(worker[w].stage)) \subseteq DeadLetters
        BY <3>2, <3>13, <4>1, LetterType DEF MarkFollowUpFailure
      <4> QED
        BY <3>13, <4>3, <4>4 DEF MarkFollowUpFailure, WorkerIdle
    <3>14. CASE WorkerDies(w)
      BY <3>2, <3>14 DEF WorkerDies, Busy, WorkerIdle
    <3> QED
      BY <2>4, <3>1, <3>3, <3>4, <3>5, <3>6, <3>7, <3>8, <3>9, <3>10, <3>11, <3>12,
         <3>13, <3>14 DEF WorkerStep
  <2>5. CASE DaysPass
    <3>1. \A d \in DeadLetters : [d EXCEPT !.aged = TRUE] \in DeadLetters
      BY DEF DeadLetters
    <3> QED
      BY <2>5, <3>1 DEF DaysPass, counts, history
  <2> QED
    BY <2>1, <2>2, <2>3, <2>4, <2>5 DEF Next
<1> QED
  BY <1>1, <1>2, PTL DEF Spec

(***************************************************************************)
(* What an update leaves alone, read column by column.                     *)
(***************************************************************************)
LEMMA StatusWritten ==
  ASSUME row \in [Runs -> Rows], NEW r \in Runs, NEW s, NEW e, NEW t,
         \/ row' = [row EXCEPT ![r].status = s]
         \/ row' = [row EXCEPT ![r].status = s, ![r].error = e]
         \/ row' = [row EXCEPT ![r].status = s, ![r].error = e, ![r].target = t]
  PROVE  /\ row'[r].status = s /\ row'[r].job = row[r].job
         /\ \A q \in Runs \ {r} : row'[q] = row[q]
  <1>1. PICK x \in Rows : x = row[r]
    OBVIOUS
  <1>2. /\ [x EXCEPT !.status = s].status = s
        /\ [x EXCEPT !.status = s].job = x.job
        /\ [x EXCEPT !.status = s, !.error = e].status = s
        /\ [x EXCEPT !.status = s, !.error = e].job = x.job
        /\ [x EXCEPT !.status = s, !.error = e, !.target = t].status = s
        /\ [x EXCEPT !.status = s, !.error = e, !.target = t].job = x.job
    BY DEF Rows
  <1> QED
    BY <1>1, <1>2

LEMMA TargetWritten ==
  ASSUME row \in [Runs -> Rows], NEW r \in Runs, NEW t,
         row' = [row EXCEPT ![r].target = t]
  PROVE  /\ row'[r].status = row[r].status /\ row'[r].job = row[r].job
         /\ \A q \in Runs \ {r} : row'[q] = row[q]
  <1>1. PICK x \in Rows : x = row[r]
    OBVIOUS
  <1>2. /\ [x EXCEPT !.target = t].status = x.status
        /\ [x EXCEPT !.target = t].job = x.job
    BY DEF Rows
  <1> QED
    BY <1>1, <1>2

LEMMA JobWritten ==
  ASSUME row \in [Runs -> Rows], NEW r \in Runs,
         row' = [row EXCEPT ![r].job = TRUE]
  PROVE  /\ row'[r].status = row[r].status /\ row'[r].job
         /\ \A q \in Runs \ {r} : row'[q] = row[q]
  <1>1. PICK x \in Rows : x = row[r]
    OBVIOUS
  <1>2. /\ [x EXCEPT !.job = TRUE].status = x.status
        /\ [x EXCEPT !.job = TRUE].job = TRUE
    BY DEF Rows
  <1> QED
    BY <1>1, <1>2

LEMMA HandlerMoved ==
  ASSUME NEW h \in Handlers, handler \in [Handlers -> {HandlerIdle} \cup HandlerBusy],
         handler[h].pc # "idle", NEW pc, NEW b,
         \/ handler' = [handler EXCEPT ![h].pc = pc]
         \/ handler' = [handler EXCEPT ![h].pc = pc, ![h].seen = b]
  PROVE  /\ handler'[h].pc = pc /\ handler'[h].run = handler[h].run
         /\ \A g \in Handlers \ {h} : handler'[g] = handler[g]
  <1>1. PICK x \in HandlerBusy : x = handler[h]
    BY HandlerWrites
  <1>2. /\ [x EXCEPT !.pc = pc].pc = pc
        /\ [x EXCEPT !.pc = pc].run = x.run
        /\ [x EXCEPT !.pc = pc, !.seen = b].pc = pc
        /\ [x EXCEPT !.pc = pc, !.seen = b].run = x.run
    BY DEF HandlerBusy
  <1> QED
    BY <1>1, <1>2

LEMMA WorkerMoved ==
  ASSUME NEW w \in Workers, worker \in [Workers -> {WorkerIdle} \cup WorkerBusy],
         worker[w].pc # "idle", NEW pc, NEW b,
         \/ worker' = [worker EXCEPT ![w].pc = pc]
         \/ worker' = [worker EXCEPT ![w].pc = pc, ![w].partial = b]
  PROVE  /\ worker'[w].pc = pc /\ worker'[w].run = worker[w].run
         /\ worker'[w].loaded = worker[w].loaded /\ worker'[w].stage = worker[w].stage
         /\ \A v \in Workers \ {w} : worker'[v] = worker[v]
  <1>1. PICK x \in WorkerBusy : x = worker[w]
    BY WorkerWrites
  <1>2. /\ [x EXCEPT !.pc = pc].pc = pc
        /\ [x EXCEPT !.pc = pc].run = x.run
        /\ [x EXCEPT !.pc = pc].loaded = x.loaded
        /\ [x EXCEPT !.pc = pc].stage = x.stage
        /\ [x EXCEPT !.pc = pc, !.partial = b].pc = pc
        /\ [x EXCEPT !.pc = pc, !.partial = b].run = x.run
        /\ [x EXCEPT !.pc = pc, !.partial = b].loaded = x.loaded
        /\ [x EXCEPT !.pc = pc, !.partial = b].stage = x.stage
    BY DEF WorkerBusy
  <1> QED
    BY <1>1, <1>2

LEMMA WorkerLoaded ==
  ASSUME NEW w \in Workers, worker \in [Workers -> {WorkerIdle} \cup WorkerBusy],
         worker[w].pc # "idle", NEW l,
         worker' = [worker EXCEPT ![w].pc = "work", ![w].loaded = l]
  PROVE  /\ worker'[w].pc = "work" /\ worker'[w].run = worker[w].run
         /\ worker'[w].loaded = l /\ worker'[w].stage = worker[w].stage
         /\ \A v \in Workers \ {w} : worker'[v] = worker[v]
  <1>1. PICK x \in WorkerBusy : x = worker[w]
    BY WorkerWrites
  <1>2. /\ [x EXCEPT !.pc = "work", !.loaded = l].pc = "work"
        /\ [x EXCEPT !.pc = "work", !.loaded = l].run = x.run
        /\ [x EXCEPT !.pc = "work", !.loaded = l].loaded = l
        /\ [x EXCEPT !.pc = "work", !.loaded = l].stage = x.stage
    BY DEF WorkerBusy
  <1> QED
    BY <1>1, <1>2

(***************************************************************************)
(* The jobs on a queue.                                                    *)
(***************************************************************************)
LEMMA RangeOfAppend ==
  ASSUME NEW q \in Seq(Runs), NEW r \in Runs
  PROVE  Range(Append(q, r)) = Range(q) \cup {r}
  <1>1. Append(q, r) \in Seq(Runs) /\ Len(Append(q, r)) = Len(q) + 1
    OBVIOUS
  <1>2. ASSUME NEW x \in Range(Append(q, r)) PROVE x \in Range(q) \cup {r}
    <2>1. PICK i \in 1..(Len(q) + 1) : x = Append(q, r)[i]
      BY <1>1 DEF Range
    <2> QED
      BY <2>1 DEF Range
  <1>3. ASSUME NEW x \in Range(q) PROVE x \in Range(Append(q, r))
    <2>1. PICK i \in 1..Len(q) : x = q[i]
      BY DEF Range
    <2>2. Append(q, r)[i] = x /\ i \in DOMAIN Append(q, r)
      BY <2>1
    <2> QED
      BY <2>2 DEF Range
  <1>4. r \in Range(Append(q, r))
    <2>1. Append(q, r)[Len(q) + 1] = r /\ Len(q) + 1 \in DOMAIN Append(q, r)
      OBVIOUS
    <2> QED
      BY <2>1 DEF Range
  <1> QED
    BY <1>2, <1>3, <1>4

LEMMA RangeOfTail ==
  ASSUME NEW q \in Seq(Runs), q # <<>>
  PROVE  Range(q) = Range(Tail(q)) \cup {Head(q)}
  <1>1. Tail(q) \in Seq(Runs) /\ Len(Tail(q)) = Len(q) - 1 /\ Len(q) \in Nat \ {0}
    OBVIOUS
  <1>2. ASSUME NEW x \in Range(q) PROVE x \in Range(Tail(q)) \cup {Head(q)}
    <2>1. PICK i \in 1..Len(q) : x = q[i]
      BY DEF Range
    <2>2. CASE i = 1
      BY <2>1, <2>2
    <2>3. CASE i # 1
      <3>1. i - 1 \in DOMAIN Tail(q) /\ Tail(q)[i - 1] = x
        BY <1>1, <2>1, <2>3
      <3> QED
        BY <3>1 DEF Range
    <2> QED
      BY <2>2, <2>3
  <1>3. ASSUME NEW x \in Range(Tail(q)) PROVE x \in Range(q)
    <2>1. PICK i \in 1..(Len(q) - 1) : x = Tail(q)[i]
      BY <1>1 DEF Range
    <2>2. i + 1 \in DOMAIN q /\ q[i + 1] = x
      BY <1>1, <2>1
    <2> QED
      BY <2>2 DEF Range
  <1>4. Head(q) \in Range(q)
    <2>1. 1 \in DOMAIN q /\ q[1] = Head(q)
      BY <1>1
    <2> QED
      BY <2>1 DEF Range
  <1> QED
    BY <1>2, <1>3, <1>4

LEMMA Enqueued ==
  ASSUME queues \in [Stages -> Seq(Runs)], NEW s \in Stages, NEW r \in Runs, Enqueue(s, r)
  PROVE  \A t \in Stages : JobsIn(t)' = IF t = s THEN JobsIn(t) \cup {r} ELSE JobsIn(t)
  BY RangeOfAppend DEF Enqueue, JobsIn

(***************************************************************************)
(* A step of worker w is about one run r: it leaves the other runs, their  *)
(* jobs and the other workers alone, and if r was carried and is pending   *)
(* afterwards then r is still carried.                                     *)
(***************************************************************************)
AboutRun(w, r) ==
  /\ row[r].status # "unborn" /\ row'[r].status # "unborn"
  /\ \A q \in Runs : row'[q].job = row[q].job
  /\ \A q \in Runs \ {r} : row'[q].status = row[q].status /\ (q \in lost' <=> q \in lost)
  /\ \A s \in Stages : \A q \in Runs \ {r} : q \in JobsIn(s)' <=> q \in JobsIn(s)
  /\ \A v \in Workers \ {w} : worker'[v] = worker[v]
  /\ worker[w].pc # "idle" => worker[w].run = r
  /\ worker'[w].pc # "idle" => worker'[w].run = r
  /\ handler' = handler /\ created' = created

StillCarried(r) ==
  /\ row'[r].status \in Pending /\ r \notin lost'
  /\ row[r].status \in Pending /\ r \notin lost => Carried(r)
  => Carried(r)'

\* Every phase and every hand-over of a worker is such a step.
LEMMA WorkerStepsAboutRun ==
  ASSUME TypeOK, OnlyInsertedRunsAreUsed, NEW w \in Workers, WorkerStep(w) \/ WorkerDies(w)
  PROVE  \E r \in Runs : AboutRun(w, r) /\ StillCarried(r)
<1>0. PICK r : r = worker[w].run
  OBVIOUS
<1> USE DEF TypeOK, tables, counts, history, WorkerAt, WorkerGoes, JobEnds
<1>1. ASSUME NEW s \in Stages, TakeJob(w, s)
      PROVE  \E q \in Runs : AboutRun(w, q) /\ StillCarried(q)
  <2>0. PICK q : q = Head(queues[s])
    OBVIOUS
  <2>1. queues[s] \in Seq(Runs) /\ queues[s] # <<>> /\ worker[w].pc = "idle"
    BY <1>1 DEF TakeJob
  <2>2. q \in Runs /\ JobsIn(s) = JobsIn(s)' \cup {q}
    BY <1>1, <2>0, <2>1, RangeOfTail DEF TakeJob, JobsIn
  <2>3. \A t \in Stages \ {s} : JobsIn(t)' = JobsIn(t)
    BY <1>1 DEF TakeJob, JobsIn
  <2>4. worker'[w].pc = "begin" /\ worker'[w].run = q
        /\ \A v \in Workers \ {w} : worker'[v] = worker[v]
    BY <1>1, <2>0 DEF TakeJob
  <2>5. row[q].status # "unborn"
    BY <2>2 DEF OnlyInsertedRunsAreUsed
  <2>6. AboutRun(w, q)
    BY <1>0, <1>1, <2>1, <2>2, <2>3, <2>4, <2>5 DEF TakeJob, AboutRun
  <2>7. Carries(w, q)'
    BY <1>0, <2>4 DEF Carries, Busy
  <2> QED
    BY <2>2, <2>6, <2>7 DEF StillCarried, Carried
<1>2. ASSUME ~WorkerAt(w, "idle")
      PROVE  /\ worker[w] \in WorkerBusy /\ r \in Runs /\ row[r] \in Rows
             /\ row[r].status # "unborn" /\ row[r].status \in Statuses
  <2>1. worker[w].pc # "idle" /\ row \in [Runs -> Rows]
        /\ worker \in [Workers -> {WorkerIdle} \cup WorkerBusy]
        /\ handler \in [Handlers -> {HandlerIdle} \cup HandlerBusy]
    BY <1>2
  <2> HIDE DEF TypeOK, WorkerAt
  <2>2. worker[w] \in WorkerBusy
    BY <2>1, WorkerWrites
  <2>3. r \in Runs
    BY <1>0, <2>1, BusyOnRuns
  <2>4. row[r] \in Rows
    BY <2>1, <2>3
  <2>5. row[r].status \in Statuses
    BY <2>4 DEF Rows
  <2>6. row[r].status # "unborn"
    BY <1>0, <2>1 DEF OnlyInsertedRunsAreUsed, Busy, WorkerAt
  <2> QED
    BY <2>2, <2>3, <2>4, <2>5, <2>6
<1>3. ASSUME UNCHANGED queues PROVE \A s \in Stages : JobsIn(s)' = JobsIn(s)
  BY <1>3 DEF JobsIn
<1>4. CASE BeginDetect(w)
  <2>1. r \in Runs /\ row[r].status # "unborn" /\ worker[w].pc # "idle"
    BY <1>0, <1>2, <1>4 DEF BeginDetect
  <2>2. /\ row'[r].status = "running" /\ row'[r].job = row[r].job
        /\ \A q \in Runs \ {r} : row'[q] = row[q]
    BY <1>0, <1>4, <2>1, StatusWritten DEF BeginDetect
  <2>3. /\ worker'[w].pc = "work" /\ worker'[w].run = r /\ worker'[w].loaded = "running"
        /\ \A v \in Workers \ {w} : worker'[v] = worker[v]
    BY <1>0, <1>4, <2>1, WorkerLoaded DEF BeginDetect
  <2>4. AboutRun(w, r)
    BY <1>0, <1>3, <1>4, <2>1, <2>2, <2>3 DEF BeginDetect, AboutRun
  <2>5. Carries(w, r)'
    BY <1>0, <2>3 DEF Carries, Busy, Pending
  <2> QED
    BY <2>1, <2>4, <2>5 DEF StillCarried, Carried
<1>5. CASE BeginFollowUp(w)
  <2>1. r \in Runs /\ row[r].status # "unborn" /\ worker[w].pc # "idle"
    BY <1>0, <1>2, <1>5 DEF BeginFollowUp
  <2>2. /\ worker'[w].pc = "work" /\ worker'[w].run = r /\ worker'[w].loaded = row[r].status
        /\ \A v \in Workers \ {w} : worker'[v] = worker[v]
    BY <1>0, <1>5, <2>1, WorkerLoaded DEF BeginFollowUp
  <2>3. AboutRun(w, r)
    BY <1>0, <1>3, <1>5, <2>1, <2>2 DEF BeginFollowUp, AboutRun
  <2>4. row'[r].status \in Pending => Carries(w, r)'
    BY <1>0, <1>5, <2>2 DEF BeginFollowUp, Carries, Busy
  <2> QED
    BY <2>1, <2>3, <2>4 DEF StillCarried, Carried
<1>6. CASE DetectCommits(w)
  <2>1. r \in Runs /\ row[r].status # "unborn" /\ worker[w].pc # "idle"
    BY <1>0, <1>2, <1>6 DEF DetectCommits
  <2>2. PICK h : row' = [row EXCEPT ![r].target = h]
    BY <1>0, <1>6 DEF DetectCommits
  <2>3. /\ row'[r].status = row[r].status /\ row'[r].job = row[r].job
        /\ \A q \in Runs \ {r} : row'[q] = row[q]
    BY <2>1, <2>2, TargetWritten
  <2>4. /\ worker'[w].pc = "follow" /\ worker'[w].run = r
        /\ \A v \in Workers \ {w} : worker'[v] = worker[v]
    BY <1>0, <1>6, <2>1, WorkerMoved DEF DetectCommits
  <2>5. AboutRun(w, r)
    BY <1>0, <1>3, <1>6, <2>1, <2>3, <2>4 DEF DetectCommits, AboutRun
  <2>6. Carries(w, r)'
    BY <1>0, <2>4 DEF Carries, Busy
  <2> QED
    BY <2>1, <2>5, <2>6 DEF StillCarried, Carried
<1>7. CASE PublishCommits(w)
  <2>1. r \in Runs /\ row[r].status # "unborn" /\ worker[w].pc # "idle"
    BY <1>0, <1>2, <1>7 DEF PublishCommits
  <2>2. /\ worker'[w].pc = "follow" /\ worker'[w].run = r
        /\ \A v \in Workers \ {w} : worker'[v] = worker[v]
    BY <1>0, <1>7, <2>1, WorkerMoved DEF PublishCommits
  <2>3. AboutRun(w, r)
    BY <1>0, <1>3, <1>7, <2>1, <2>2 DEF PublishCommits, AboutRun
  <2>4. Carries(w, r)'
    BY <1>0, <2>2 DEF Carries, Busy
  <2> QED
    BY <2>1, <2>3, <2>4 DEF StillCarried, Carried
<1>8. CASE SyncCounts(w)
  <2>1. r \in Runs /\ row[r].status # "unborn" /\ worker[w].pc = "work"
    BY <1>0, <1>2, <1>8 DEF SyncCounts
  <2>2. /\ worker'[w].pc = "counted" /\ worker'[w].run = r
        /\ worker'[w].loaded = worker[w].loaded
        /\ \A v \in Workers \ {w} : worker'[v] = worker[v]
    BY <1>0, <1>8, <2>1, WorkerMoved DEF SyncCounts
  <2>3. AboutRun(w, r)
    BY <1>0, <1>3, <1>8, <2>1, <2>2 DEF SyncCounts, AboutRun
  <2>4. \A v \in Workers : Carries(v, r) => Carries(v, r)'
    BY <1>0, <2>1, <2>2 DEF Carries, Busy
  <2> QED
    BY <1>0, <1>3, <1>8, <2>1, <2>3, <2>4 DEF SyncCounts, StillCarried, Carried
<1>9. ASSUME worker[w].pc \in {"work", "counted"},
             NEW s \in Terminal,
             row'[r].status = Saved(r, worker[w].loaded, s),
             UNCHANGED <<queues, lost>>,
             \A v \in Workers \ {w} : worker'[v] = worker[v]
      PROVE  StillCarried(r)
  \* The write was made and r is terminal, or it was skipped and w was not
  \* the worker that carried r.
  <2>1. CASE worker[w].loaded = s
    <3>1. row'[r].status = row[r].status
      BY <1>9, <2>1 DEF Saved
    <3>2. ~Carries(w, r)
      BY <1>0, <1>9, <2>1 DEF Carries, Pending, Terminal
    <3>3. \A v \in Workers \ {w} : Carries(v, r) => Carries(v, r)'
      BY <1>0, <1>9 DEF Carries, Busy
    <3> QED
      BY <1>3, <1>9, <3>1, <3>2, <3>3 DEF StillCarried, Carried
  <2>2. CASE worker[w].loaded # s
    BY <1>9, <2>2 DEF Saved, StillCarried, Pending, Terminal
  <2> QED
    BY <2>1, <2>2
<1>10. CASE SyncCommits(w)
  <2>1. r \in Runs /\ row[r].status # "unborn" /\ worker[w].pc = "counted"
    BY <1>0, <1>2, <1>10 DEF SyncCommits
  <2>2. PICK s \in Terminal : row' = [row EXCEPT ![r].status = Saved(r, worker[w].loaded, s)]
    BY <1>0, <1>10 DEF SyncCommits, Terminal
  <2>3. /\ row'[r].status = Saved(r, worker[w].loaded, s) /\ row'[r].job = row[r].job
        /\ \A q \in Runs \ {r} : row'[q] = row[q]
    BY <2>1, <2>2, StatusWritten
  <2>4. /\ worker'[w].pc = "cleanup" /\ worker'[w].run = r
        /\ \A v \in Workers \ {w} : worker'[v] = worker[v]
    BY <1>0, <1>10, <2>1, WorkerMoved DEF SyncCommits
  <2>5. Saved(r, worker[w].loaded, s) # "unborn"
    BY <2>1 DEF Saved, Terminal
  <2>6. AboutRun(w, r)
    BY <1>0, <1>3, <1>10, <2>1, <2>3, <2>4, <2>5 DEF SyncCommits, AboutRun
  <2>7. StillCarried(r)
    BY <1>0, <1>9, <1>10, <2>1, <2>3, <2>4 DEF SyncCommits
  <2> QED
    BY <2>1, <2>6, <2>7
<1>11. CASE CleanupDeadLetters(w)
  <2>1. r \in Runs /\ row[r].status # "unborn" /\ worker[w].pc = "cleanup"
    BY <1>0, <1>2, <1>11 DEF CleanupDeadLetters
  <2>2. worker'[w].pc = "idle" /\ \A v \in Workers \ {w} : worker'[v] = worker[v]
    BY <1>0, <1>11 DEF CleanupDeadLetters, WorkerIdle
  <2>3. AboutRun(w, r)
    BY <1>0, <1>3, <1>11, <2>1, <2>2 DEF CleanupDeadLetters, AboutRun
  <2>4. \A v \in Workers : Carries(v, r) => Carries(v, r)'
    BY <1>0, <2>1, <2>2 DEF Carries, Busy, WorkerAt
  <2> QED
    BY <1>0, <1>3, <1>11, <2>1, <2>3, <2>4 DEF CleanupDeadLetters, StillCarried, Carried
<1>12. CASE PhaseFails(w)
  <2>1. r \in Runs /\ row[r].status # "unborn" /\ worker[w].pc = "work"
    BY <1>0, <1>2, <1>12 DEF PhaseFails
  <2>2. PICK t : row' = [row EXCEPT ![r].status = Saved(r, worker[w].loaded, "failed"),
                                    ![r].error = "phase", ![r].target = t]
    BY <1>0, <1>12 DEF PhaseFails
  <2>3. /\ row'[r].status = Saved(r, worker[w].loaded, "failed") /\ row'[r].job = row[r].job
        /\ \A q \in Runs \ {r} : row'[q] = row[q]
    BY <2>1, <2>2, StatusWritten
  <2>4. worker'[w].pc = "idle" /\ \A v \in Workers \ {w} : worker'[v] = worker[v]
    BY <1>0, <1>12 DEF PhaseFails, WorkerIdle
  <2>5. Saved(r, worker[w].loaded, "failed") # "unborn"
    BY <2>1 DEF Saved
  <2>6. AboutRun(w, r)
    BY <1>0, <1>3, <1>12, <2>1, <2>3, <2>4, <2>5 DEF PhaseFails, AboutRun
  <2>7. "failed" \in Terminal /\ UNCHANGED <<queues, lost>>
    BY <1>0, <1>12 DEF PhaseFails, Terminal
  <2>8. StillCarried(r)
    BY <1>9, <2>1, <2>3, <2>4, <2>7
  <2> QED
    BY <2>1, <2>6, <2>8
<1>13. ASSUME NEW s \in Stages, Enqueue(s, r), r \in Runs
       PROVE  /\ r \in JobsIn(s)'
              /\ \A t \in Stages : \A q \in Runs \ {r} : q \in JobsIn(t)' <=> q \in JobsIn(t)
  BY <1>13, Enqueued
<1>14. FollowUp(worker[w].stage) \in Stages
  BY DEF FollowUp, Stages
<1>15. CASE EnqueueFollowUp(w)
  <2>1. r \in Runs /\ row[r].status # "unborn" /\ worker[w].pc = "follow"
    BY <1>0, <1>2, <1>15 DEF EnqueueFollowUp
  <2>2. worker'[w].pc = "idle" /\ \A v \in Workers \ {w} : worker'[v] = worker[v]
    BY <1>0, <1>15 DEF EnqueueFollowUp, WorkerIdle
  <2>3. AboutRun(w, r)
    BY <1>0, <1>13, <1>14, <1>15, <2>1, <2>2 DEF EnqueueFollowUp, AboutRun
  <2>4. Carried(r)'
    BY <1>0, <1>13, <1>14, <1>15, <2>1 DEF EnqueueFollowUp, Carried
  <2> QED
    BY <2>1, <2>3, <2>4 DEF StillCarried
<1>16. CASE FollowUpEnqueueFails(w)
  <2>1. r \in Runs /\ row[r].status # "unborn" /\ worker[w].pc = "follow"
    BY <1>0, <1>2, <1>16 DEF FollowUpEnqueueFails
  <2>2. /\ worker'[w].pc = "mark" /\ worker'[w].run = r
        /\ \A v \in Workers \ {w} : worker'[v] = worker[v]
    BY <1>0, <1>16, <2>1, WorkerMoved DEF FollowUpEnqueueFails
  <2>3. UNCHANGED queues \/ Enqueue(FollowUp(worker[w].stage), r)
    BY <1>0, <1>16 DEF FollowUpEnqueueFails
  <2>4. \A t \in Stages : \A q \in Runs \ {r} : q \in JobsIn(t)' <=> q \in JobsIn(t)
    BY <1>3, <1>13, <1>14, <2>1, <2>3
  <2>5. AboutRun(w, r)
    BY <1>0, <1>16, <2>1, <2>2, <2>4 DEF FollowUpEnqueueFails, AboutRun
  <2>6. Carries(w, r)'
    BY <1>0, <2>2 DEF Carries, Busy
  <2> QED
    BY <2>1, <2>5, <2>6 DEF StillCarried, Carried
<1>17. CASE MarkFollowUpFailure(w)
  <2>1. r \in Runs /\ row[r].status # "unborn" /\ worker[w].pc = "mark"
    BY <1>0, <1>2, <1>17 DEF MarkFollowUpFailure
  <2>2. /\ row'[r].status = "failed" /\ row'[r].job = row[r].job
        /\ \A q \in Runs \ {r} : row'[q] = row[q]
    BY <1>0, <1>17, <2>1, StatusWritten DEF MarkFollowUpFailure
  <2>3. worker'[w].pc = "idle" /\ \A v \in Workers \ {w} : worker'[v] = worker[v]
    BY <1>0, <1>17 DEF MarkFollowUpFailure, WorkerIdle
  <2>4. AboutRun(w, r)
    BY <1>0, <1>3, <1>17, <2>1, <2>2, <2>3 DEF MarkFollowUpFailure, AboutRun
  <2> QED
    BY <2>1, <2>2, <2>4 DEF StillCarried, Pending
<1>18. CASE WorkerDies(w)
  <2>1. r \in Runs /\ row[r].status # "unborn" /\ worker[w].pc # "idle"
    BY <1>0, <1>2, <1>18 DEF WorkerDies, Busy
  <2>2. worker'[w].pc = "idle" /\ \A v \in Workers \ {w} : worker'[v] = worker[v]
    BY <1>0, <1>18 DEF WorkerDies, WorkerIdle
  <2>3. lost' = lost \cup {r}
    BY <1>0, <1>18 DEF WorkerDies
  <2>4. AboutRun(w, r)
    BY <1>0, <1>3, <1>18, <2>1, <2>2, <2>3 DEF WorkerDies, AboutRun
  <2> QED
    BY <2>1, <2>3, <2>4 DEF StillCarried
<1> QED
  BY <1>1, <1>4, <1>5, <1>6, <1>7, <1>8, <1>10, <1>11, <1>12, <1>15, <1>16, <1>17, <1>18
     DEF WorkerStep

LEMMA WorkerStepsKeepInv ==
  ASSUME PipelineInv, TypeOK', NEW w \in Workers, NEW r \in Runs,
         AboutRun(w, r), StillCarried(r)
  PROVE  OnlyInsertedRunsAreUsed' /\ PendingRunsAreCarried'
<1> USE DEF PipelineInv, AboutRun
<1>1. OnlyInsertedRunsAreUsed'
  <2>1. \A q \in Runs : row'[q].status = "unborn" <=> row[q].status = "unborn"
    OBVIOUS
  <2>2. \A s \in Stages : JobsIn(s)' \subseteq JobsIn(s) \cup {r}
    <3>1. ASSUME NEW s \in Stages, NEW q \in JobsIn(s)' PROVE q \in Runs
      BY <3>1 DEF TypeOK, JobsIn, Range
    <3> QED
      BY <3>1
  <2>3. \A s \in Stages : \A q \in JobsIn(s)' : row'[q].status # "unborn"
    <3>1. \A s \in Stages : \A q \in JobsIn(s)' : q \in Runs
      BY DEF TypeOK, JobsIn, Range
    <3> QED
      BY <2>1, <2>2, <3>1 DEF OnlyInsertedRunsAreUsed
  <2>4. \A v \in Workers : Busy(v)' => row'[worker'[v].run].status # "unborn"
    <3>1. \A v \in Workers : worker[v].pc # "idle" => worker[v].run \in Runs
      BY BusyOnRuns DEF TypeOK
    <3> QED
      BY <2>1, <3>1 DEF OnlyInsertedRunsAreUsed, Busy, WorkerAt
  <2>5. \A h \in Handlers : handler[h].pc # "idle" => handler[h].run \in Runs
    BY BusyOnRuns DEF TypeOK
  <2> QED
    BY <2>1, <2>3, <2>4, <2>5 DEF OnlyInsertedRunsAreUsed, HandlerAt
<1>2. PendingRunsAreCarried'
  <2> SUFFICES ASSUME NEW q \in Runs, row'[q].status \in Pending, JobPlaced(q)', q \notin lost'
               PROVE  Carried(q)'
    BY DEF PendingRunsAreCarried
  <2>1. JobPlaced(q)
    BY DEF JobPlaced, HandlerAt
  <2>2. CASE q = r
    BY <2>1, <2>2 DEF StillCarried, PendingRunsAreCarried
  <2>3. CASE q # r
    <3>1. Carried(q)
      BY <2>1, <2>3 DEF PendingRunsAreCarried
    <3>2. CASE \E s \in Stages : q \in JobsIn(s)
      BY <2>3, <3>2 DEF Carried
    <3>3. ASSUME NEW v \in Workers, Carries(v, q) PROVE Carries(v, q)'
      BY <2>3, <3>3 DEF Carries, Busy, WorkerAt
    <3> QED
      BY <3>1, <3>2, <3>3 DEF Carried
  <2> QED
    BY <2>2, <2>3
<1> QED
  BY <1>1, <1>2

(***************************************************************************)
(* A step of handler h about run r leaves the workers alone and takes no   *)
(* job from a queue.                                                       *)
(***************************************************************************)
LEMMA CarriedOn ==
  ASSUME worker' = worker,
         \A s \in Stages : JobsIn(s) \subseteq JobsIn(s)'
  PROVE  \A r \in Runs : Carried(r) => Carried(r)'
  BY DEF Carried, Carries, Busy, WorkerAt

LEMMA HandlerStepsKeepInv ==
  ASSUME PipelineInv, TypeOK', NEW h \in Handlers, HandlerStep(h) \/ HandlerDies(h)
  PROVE  OnlyInsertedRunsAreUsed' /\ PendingRunsAreCarried'
<1> USE DEF PipelineInv, tables, counts, history, HandlerAt, HandlerGoes, Answered
<1>0. PICK r : r = handler[h].run
  OBVIOUS
<1>1. UNCHANGED queues => \A s \in Stages : JobsIn(s)' = JobsIn(s)
  BY DEF JobsIn
<1>2. handler[h].pc # "idle" => r \in Runs
  BY <1>0, BusyOnRuns DEF TypeOK
<1>3. \A g \in Handlers : handler[g].pc # "idle" => handler[g].run \in Runs
  BY BusyOnRuns DEF TypeOK
<1>4. \A v \in Workers : Busy(v) => worker[v].run \in Runs
  BY BusyOnRuns DEF TypeOK, Busy, WorkerAt
<1>5. \A s \in Stages : JobsIn(s) \subseteq Runs
  BY DEF TypeOK, JobsIn, Range
\* The handler moves on or ends, the rows stay.
<1>6. ASSUME row' = row, created' = created, UNCHANGED <<queues, worker, lost>>,
             handler'[h].pc # "insert",
             handler'[h].pc # "idle" => handler'[h].run \in Runs
                                        /\ row[handler'[h].run].status # "unborn",
             handler'[h].pc = "record" => FALSE,
             \A g \in Handlers \ {h} : handler'[g] = handler[g]
      PROVE  OnlyInsertedRunsAreUsed' /\ PendingRunsAreCarried'
  <2>1. \A q \in Runs : Carried(q) => Carried(q)'
    BY <1>1, <1>6, CarriedOn
  <2>2. \A q \in Runs : JobPlaced(q)' => JobPlaced(q)
    BY <1>6 DEF JobPlaced
  <2>3. PendingRunsAreCarried'
    BY <1>6, <2>1, <2>2 DEF PendingRunsAreCarried
  <2>4. OnlyInsertedRunsAreUsed'
    BY <1>1, <1>6 DEF OnlyInsertedRunsAreUsed, Busy, WorkerAt
  <2> QED
    BY <2>3, <2>4
<1>7. ASSUME NEW t \in Requests, ReusePendingRun(h, t)
      PROVE  OnlyInsertedRunsAreUsed' /\ PendingRunsAreCarried'
  <2>1. PICK s \in Runs : row[s].status \in Pending /\ handler' = [handler EXCEPT ![h] =
                            [pc |-> "dispatch", run |-> s, seen |-> row[s].job]]
    BY <1>7 DEF ReusePendingRun, Reusable
  <2>2. /\ handler'[h].pc = "dispatch" /\ handler'[h].run = s
        /\ \A g \in Handlers \ {h} : handler'[g] = handler[g]
    BY <2>1 DEF TypeOK
  <2> QED
    BY <1>6, <1>7, <2>1, <2>2 DEF ReusePendingRun, Pending
<1>8. ASSUME NEW t \in Requests, BuildRun(h, t)
      PROVE  OnlyInsertedRunsAreUsed' /\ PendingRunsAreCarried'
  <2>1. created + 1 \in Runs /\ created \in Nat
    BY <1>8, ConstantsAssumption DEF BuildRun, Runs, TypeOK
  <2>2. /\ row'[created + 1].status = row[created + 1].status
        /\ row'[created + 1].job = row[created + 1].job
        /\ \A q \in Runs \ {created + 1} : row'[q] = row[q]
    BY <1>8, <2>1, TargetWritten DEF BuildRun, TypeOK
  <2>3. row[created + 1].status = "unborn"
    BY <2>1 DEF OnlyInsertedRunsAreUsed
  <2>4. /\ handler'[h].pc = "insert" /\ handler'[h].run = created + 1
        /\ \A g \in Handlers \ {h} : handler'[g] = handler[g]
    BY <1>8 DEF BuildRun, TypeOK
  <2>5. \A q \in Runs : Carried(q) => Carried(q)'
    BY <1>1, <1>8, CarriedOn DEF BuildRun
  <2>6. \A q \in Runs : row'[q].status = row[q].status /\ row'[q].job = row[q].job
    BY <2>2
  <2>7. \A q \in Runs : JobPlaced(q)' => JobPlaced(q)
    BY <2>4, <2>6 DEF JobPlaced
  <2>8. PendingRunsAreCarried'
    BY <1>8, <2>5, <2>6, <2>7 DEF BuildRun, PendingRunsAreCarried
  <2>9. OnlyInsertedRunsAreUsed'
    <3>1. \A q \in Runs : row'[q].status = "unborn" => ~row'[q].job
      BY <2>6 DEF OnlyInsertedRunsAreUsed
    <3>2. created' = created + 1 /\ \A q \in Runs : q > created' => row'[q].status = "unborn"
      BY <1>8, <2>1, <2>6 DEF BuildRun, OnlyInsertedRunsAreUsed, Runs
    <3>3. \A s \in Stages : \A q \in JobsIn(s)' : row'[q].status # "unborn"
      BY <1>1, <1>5, <1>8, <2>6 DEF BuildRun, OnlyInsertedRunsAreUsed
    <3>4. \A v \in Workers : Busy(v)' => row'[worker'[v].run].status # "unborn"
      BY <1>4, <1>8, <2>6 DEF BuildRun, OnlyInsertedRunsAreUsed, Busy, WorkerAt
    <3>5. \A g \in Handlers \ {h} : handler'[g].pc = "insert" =>
             row'[handler'[g].run].status = "unborn" /\ handler'[g].run <= created
      BY <1>3, <2>4, <2>6 DEF OnlyInsertedRunsAreUsed
    <3>6. \A g \in Handlers \ {h} : handler'[g].pc \notin {"insert", "idle"} =>
             row'[handler'[g].run].status # "unborn"
      BY <1>3, <2>4, <2>6 DEF OnlyInsertedRunsAreUsed
    <3>7. row'[handler'[h].run].status = "unborn" /\ handler'[h].run <= created'
      BY <2>1, <2>3, <2>4, <2>6, <3>2
    <3>8. \A g \in Handlers \ {h} : handler'[g].pc = "insert" => handler'[g].run # handler'[h].run
      BY <1>3, <2>1, <2>4, <3>5 DEF Runs
    <3>9. \A g \in Handlers : handler'[g].pc = "insert" => handler'[g].run <= created'
      BY <1>3, <2>1, <2>4, <3>2, <3>5, <3>7 DEF Runs
    <3>10. \A f, g \in Handlers : handler'[f].pc = "insert" /\ handler'[g].pc = "insert"
                                  /\ handler'[f].run = handler'[g].run => f = g
      BY <2>4, <3>8 DEF OnlyInsertedRunsAreUsed
    <3> QED
      BY <2>4, <3>1, <3>2, <3>3, <3>4, <3>5, <3>6, <3>7, <3>9, <3>10 DEF OnlyInsertedRunsAreUsed
  <2> QED
    BY <2>8, <2>9
<1>9. CASE InsertRun(h)
  <2>1. r \in Runs /\ row[r].status = "unborn" /\ r <= created /\ ~row[r].job
    BY <1>0, <1>2, <1>9 DEF InsertRun, OnlyInsertedRunsAreUsed
  <2>2. /\ row'[r].status = "queued" /\ row'[r].job = row[r].job
        /\ \A q \in Runs \ {r} : row'[q] = row[q]
    <3>1. row' = [row EXCEPT ![r].status = "queued"]
      BY <1>0, <1>9 DEF InsertRun
    <3>2. row \in [Runs -> Rows]
      BY DEF TypeOK
    <3> QED
      BY <2>1, <3>1, <3>2, StatusWritten
  <2>3. /\ handler'[h].pc = "refresh" /\ handler'[h].run = r
        /\ \A g \in Handlers \ {h} : handler'[g] = handler[g]
    BY <1>0, <1>9, HandlerMoved DEF InsertRun, TypeOK
  <2>4. \A q \in Runs : Carried(q) => Carried(q)'
    BY <1>1, <1>9, CarriedOn DEF InsertRun
  <2>5. \A q \in Runs \ {r} : JobPlaced(q)' => JobPlaced(q)
    BY <2>2, <2>3 DEF JobPlaced
  <2>6. ~JobPlaced(r)'
    BY <2>1, <2>2, <2>3 DEF JobPlaced, OnlyInsertedRunsAreUsed
  <2>7. PendingRunsAreCarried'
    BY <1>9, <2>2, <2>4, <2>5, <2>6 DEF InsertRun, PendingRunsAreCarried
  <2>8. OnlyInsertedRunsAreUsed'
    <3>1. \A q \in Runs : row'[q].status = "unborn" => ~row'[q].job
      BY <2>2 DEF OnlyInsertedRunsAreUsed
    <3>2. created' = created /\ \A q \in Runs : q > created' => row'[q].status = "unborn"
      BY <1>9, <2>1, <2>2 DEF InsertRun, OnlyInsertedRunsAreUsed, TypeOK, Runs
    <3>3. \A s \in Stages : \A q \in JobsIn(s)' : row'[q].status # "unborn"
      BY <1>1, <1>5, <1>9, <2>2 DEF InsertRun, OnlyInsertedRunsAreUsed
    <3>4. \A v \in Workers : Busy(v)' => row'[worker'[v].run].status # "unborn"
      BY <1>4, <1>9, <2>2 DEF InsertRun, OnlyInsertedRunsAreUsed, Busy, WorkerAt
    <3>5. \A g \in Handlers \ {h} : handler[g].pc = "insert" => handler[g].run # r
      BY <1>0, <1>9 DEF InsertRun, OnlyInsertedRunsAreUsed
    <3> QED
      BY <1>3, <2>1, <2>2, <2>3, <3>1, <3>2, <3>3, <3>4, <3>5 DEF OnlyInsertedRunsAreUsed
  <2> QED
    BY <2>7, <2>8
<1>10. CASE RefreshRun(h)
  <2>1. /\ handler'[h].pc = "dispatch" /\ handler'[h].run = r
        /\ \A g \in Handlers \ {h} : handler'[g] = handler[g]
    BY <1>0, <1>10, HandlerMoved DEF RefreshRun, TypeOK
  <2>2. r \in Runs /\ row[r].status # "unborn"
    BY <1>0, <1>2, <1>10 DEF RefreshRun, OnlyInsertedRunsAreUsed
  <2> QED
    BY <1>6, <1>10, <2>1, <2>2 DEF RefreshRun
<1>11. handler' = [handler EXCEPT ![h] = HandlerIdle]
       => handler'[h].pc = "idle" /\ \A g \in Handlers \ {h} : handler'[g] = handler[g]
  BY DEF HandlerIdle, TypeOK
<1>12. CASE SkipDispatch(h)
  BY <1>6, <1>11, <1>12 DEF SkipDispatch
<1>13. CASE HandlerDies(h)
  BY <1>6, <1>11, <1>13 DEF HandlerDies
<1>14. CASE PlaceDetectJob(h)
  <2>1. r \in Runs /\ row[r].status # "unborn"
    BY <1>0, <1>2, <1>14 DEF PlaceDetectJob, OnlyInsertedRunsAreUsed
  <2>2. /\ handler'[h].pc = "record" /\ handler'[h].run = r
        /\ \A g \in Handlers \ {h} : handler'[g] = handler[g]
    BY <1>0, <1>14, HandlerMoved DEF PlaceDetectJob, TypeOK
  <2>3. \A t \in Stages : JobsIn(t)' = IF t = "detect" THEN JobsIn(t) \cup {r} ELSE JobsIn(t)
    BY <1>0, <1>14, <2>1, Enqueued DEF PlaceDetectJob, TypeOK, Stages
  <2>4. \A q \in Runs : Carried(q) => Carried(q)'
    BY <1>14, <2>3, CarriedOn DEF PlaceDetectJob
  <2>5. Carried(r)'
    BY <2>3 DEF Carried, Stages
  <2>6. \A q \in Runs \ {r} : JobPlaced(q)' => JobPlaced(q)
    BY <1>14, <2>2 DEF PlaceDetectJob, JobPlaced
  <2>7. PendingRunsAreCarried'
    BY <1>14, <2>4, <2>5, <2>6 DEF PlaceDetectJob, PendingRunsAreCarried
  <2>8. OnlyInsertedRunsAreUsed'
    BY <1>14, <2>1, <2>2, <2>3 DEF PlaceDetectJob, OnlyInsertedRunsAreUsed, Busy, WorkerAt
  <2> QED
    BY <2>7, <2>8
<1>15. CASE RecordJob(h)
  <2>1. r \in Runs /\ row[r].status # "unborn"
    BY <1>0, <1>2, <1>15 DEF RecordJob, OnlyInsertedRunsAreUsed
  <2>2. /\ row'[r].status = row[r].status /\ row'[r].job
        /\ \A q \in Runs \ {r} : row'[q] = row[q]
    BY <1>0, <1>15, <2>1, JobWritten DEF RecordJob, TypeOK
  <2>3. handler'[h].pc = "idle" /\ \A g \in Handlers \ {h} : handler'[g] = handler[g]
    BY <1>11, <1>15 DEF RecordJob
  <2>4. \A q \in Runs : Carried(q) => Carried(q)'
    BY <1>1, <1>15, CarriedOn DEF RecordJob
  <2>5. \A q \in Runs \ {r} : JobPlaced(q)' => JobPlaced(q)
    BY <2>2, <2>3 DEF JobPlaced
  <2>6. JobPlaced(r)
    BY <1>0, <1>15 DEF RecordJob, JobPlaced
  <2>7. PendingRunsAreCarried'
    BY <1>15, <2>1, <2>2, <2>4, <2>5, <2>6 DEF RecordJob, PendingRunsAreCarried
  <2>8. OnlyInsertedRunsAreUsed'
    <3>1. \A q \in Runs : row'[q].status = row[q].status
      BY <2>2
    <3>2. \A q \in Runs : row'[q].status = "unborn" => ~row'[q].job
      BY <2>1, <2>2 DEF OnlyInsertedRunsAreUsed
    <3> QED
      BY <1>1, <1>3, <1>4, <1>5, <1>15, <2>3, <3>1, <3>2
         DEF RecordJob, OnlyInsertedRunsAreUsed, Busy, WorkerAt
  <2> QED
    BY <2>7, <2>8
<1>16. CASE DetectEnqueueFails(h)
  <2>1. r \in Runs /\ row[r].status # "unborn"
    BY <1>0, <1>2, <1>16 DEF DetectEnqueueFails, OnlyInsertedRunsAreUsed
  <2>2. /\ row'[r].status = "failed" /\ row'[r].job = row[r].job
        /\ \A q \in Runs \ {r} : row'[q] = row[q]
    <3>1. row' = [row EXCEPT ![r].status = "failed", ![r].error = "enqueue"]
      BY <1>0, <1>16 DEF DetectEnqueueFails
    <3>2. row \in [Runs -> Rows]
      BY DEF TypeOK
    <3> QED
      BY <2>1, <3>1, <3>2, StatusWritten
  <2>3. handler'[h].pc = "idle" /\ \A g \in Handlers \ {h} : handler'[g] = handler[g]
    BY <1>11, <1>16 DEF DetectEnqueueFails
  <2>4. \A t \in Stages : JobsIn(t) \subseteq JobsIn(t)' /\ JobsIn(t)' \subseteq JobsIn(t) \cup {r}
    BY <1>1, <1>16 DEF DetectEnqueueFails
  <2>5. \A q \in Runs : Carried(q) => Carried(q)'
    BY <1>16, <2>4, CarriedOn DEF DetectEnqueueFails
  <2>6. \A q \in Runs \ {r} : JobPlaced(q)' => JobPlaced(q)
    BY <2>2, <2>3 DEF JobPlaced
  <2>7. PendingRunsAreCarried'
    BY <1>16, <2>1, <2>2, <2>5, <2>6 DEF DetectEnqueueFails, PendingRunsAreCarried, Pending
  <2>8. OnlyInsertedRunsAreUsed'
    <3>1. \A q \in Runs : row'[q].status = "unborn" <=> row[q].status = "unborn"
      BY <2>1, <2>2
    <3>2. \A q \in Runs : row'[q].job = row[q].job
      BY <2>2
    <3>3. \A s \in Stages : \A q \in JobsIn(s)' : row'[q].status # "unborn"
      BY <1>5, <2>1, <2>4, <3>1 DEF OnlyInsertedRunsAreUsed
    <3>4. created' = created /\ worker' = worker
      BY <1>16 DEF DetectEnqueueFails
    <3>5. \A v \in Workers : Busy(v)' => row'[worker'[v].run].status # "unborn"
      BY <1>4, <3>1, <3>4 DEF OnlyInsertedRunsAreUsed, Busy, WorkerAt
    <3>6. \A q \in Runs : row'[q].status = "unborn" => ~row'[q].job
      BY <3>1, <3>2 DEF OnlyInsertedRunsAreUsed
    <3>7. \A q \in Runs : q > created' => row'[q].status = "unborn"
      BY <3>1, <3>4 DEF OnlyInsertedRunsAreUsed
    <3> QED
      BY <1>3, <2>3, <3>1, <3>3, <3>4, <3>5, <3>6, <3>7 DEF OnlyInsertedRunsAreUsed
  <2> QED
    BY <2>7, <2>8
<1> QED
  BY <1>7, <1>8, <1>9, <1>10, <1>12, <1>13, <1>14, <1>15, <1>16 DEF HandlerStep

\* The invariant of the pipeline, on which the theorems below rest.
LEMMA PipelineHolds == Spec => []PipelineInv
<1>1. Init => OnlyInsertedRunsAreUsed /\ PendingRunsAreCarried
  <2> SUFFICES ASSUME Init PROVE OnlyInsertedRunsAreUsed /\ PendingRunsAreCarried
    OBVIOUS
  <2>1. \A r \in Runs : row[r].status = "unborn" /\ ~row[r].job
    BY DEF Init, Unborn
  <2>2. \A s \in Stages : JobsIn(s) = {}
    BY DEF Init, JobsIn, Range
  <2>3. \A w \in Workers : ~Busy(w)
    BY DEF Init, Busy, WorkerAt, WorkerIdle
  <2>4. \A h \in Handlers : handler[h].pc = "idle"
    BY DEF Init, HandlerIdle
  <2> QED
    BY <2>1, <2>2, <2>3, <2>4
       DEF OnlyInsertedRunsAreUsed, PendingRunsAreCarried, Pending, HandlerAt
<1>2. PipelineInv /\ TypeOK' /\ [Next]_vars => OnlyInsertedRunsAreUsed' /\ PendingRunsAreCarried'
  <2> SUFFICES ASSUME PipelineInv, TypeOK', [Next]_vars
               PROVE  OnlyInsertedRunsAreUsed' /\ PendingRunsAreCarried'
    OBVIOUS
  <2> USE DEF PipelineInv, tables, counts, history
  <2>1. ASSUME UNCHANGED <<row, handler, worker, created>>,
               \A r \in Runs : r \in lost => r \in lost',
               \A s \in Stages : JobsIn(s) \subseteq JobsIn(s)',
               \A s \in Stages : \A q \in JobsIn(s)' : row[q].status # "unborn"
        PROVE  OnlyInsertedRunsAreUsed' /\ PendingRunsAreCarried'
    <3>1. \A r \in Runs : Carried(r) => Carried(r)'
      BY <2>1, CarriedOn
    <3>2. \A r \in Runs : JobPlaced(r)' => JobPlaced(r)
      BY <2>1 DEF JobPlaced, HandlerAt
    <3>3. PendingRunsAreCarried'
      BY <2>1, <3>1, <3>2 DEF PendingRunsAreCarried
    <3>4. OnlyInsertedRunsAreUsed'
      BY <2>1 DEF OnlyInsertedRunsAreUsed, HandlerAt, Busy, WorkerAt
    <3> QED
      BY <3>3, <3>4
  <2>2. UNCHANGED queues => \A s \in Stages : JobsIn(s)' = JobsIn(s)
    BY DEF JobsIn
  <2>3. CASE UNCHANGED vars
    BY <2>1, <2>2, <2>3 DEF vars, OnlyInsertedRunsAreUsed
  <2>4. CASE DaysPass
    BY <2>1, <2>2, <2>4 DEF DaysPass, OnlyInsertedRunsAreUsed
  <2>5. ASSUME NEW r \in Runs, ReplayPublish(r) \/ ReplaySync(r)
        PROVE  OnlyInsertedRunsAreUsed' /\ PendingRunsAreCarried'
    <3>1. PICK s \in Stages : Replay(s, r)
      BY <2>5 DEF ReplayPublish, ReplaySync, Stages
    <3>2. \A t \in Stages : JobsIn(t)' = IF t = s THEN JobsIn(t) \cup {r} ELSE JobsIn(t)
      BY <3>1, Enqueued DEF Replay, TypeOK
    <3> QED
      BY <2>1, <3>1, <3>2 DEF Replay, OnlyInsertedRunsAreUsed
  <2>6. ASSUME NEW w \in Workers, WorkerStep(w) \/ WorkerDies(w)
        PROVE  OnlyInsertedRunsAreUsed' /\ PendingRunsAreCarried'
    BY <2>6, WorkerStepsAboutRun, WorkerStepsKeepInv
  <2> QED
    BY <2>3, <2>4, <2>5, <2>6, HandlerStepsKeepInv DEF Next
<1> QED
  BY <1>1, <1>2, TypeCorrect, PTL DEF Spec, PipelineInv

\* A request that is merged into a pending run with a recorded job never
\* waits for a run nobody works on: for any number of concurrent API handlers,
\* workers, replays and faults other than the death of the worker.  The
\* invariant that carries it says that whoever finishes such a run loaded a
\* pending status, so the conditional write of the session is not skipped.
THEOREM PendingRunsHaveJobs == Spec => []PendingRunHasJob
<1>1. PipelineInv => PendingRunHasJob
  BY DEF PipelineInv, PendingRunsAreCarried, PendingRunHasJob, JobPlaced, Carried, Carries, HasJob
<1> QED
  BY <1>1, PipelineHolds, PTL

(***************************************************************************)
(* Dead letters.                                                           *)
(***************************************************************************)
LEMMA ErrorKept ==
  ASSUME row \in [Runs -> Rows], NEW r \in Runs, NEW x,
         \/ row' = [row EXCEPT ![r].status = x]
         \/ row' = [row EXCEPT ![r].target = x]
         \/ row' = [row EXCEPT ![r].job = x]
  PROVE  row'[r].error = row[r].error
  <1>1. PICK y \in Rows : y = row[r]
    OBVIOUS
  <1>2. /\ [y EXCEPT !.status = x].error = y.error
        /\ [y EXCEPT !.target = x].error = y.error
        /\ [y EXCEPT !.job = x].error = y.error
    BY DEF Rows
  <1> QED
    BY <1>1, <1>2

LEMMA ErrorWritten ==
  ASSUME row \in [Runs -> Rows], NEW r \in Runs, NEW s, NEW e, NEW t,
         \/ row' = [row EXCEPT ![r].status = s, ![r].error = e]
         \/ row' = [row EXCEPT ![r].status = s, ![r].error = e, ![r].target = t]
  PROVE  row'[r].error = e
  <1>1. PICK y \in Rows : y = row[r]
    OBVIOUS
  <1>2. /\ [y EXCEPT !.status = s, !.error = e].error = e
        /\ [y EXCEPT !.status = s, !.error = e, !.target = t].error = e
    BY DEF Rows
  <1> QED
    BY <1>1, <1>2

\* Run r fails for a worker and has no letter.
FailedSilently(r) ==
  /\ row[r].status = "failed" /\ row[r].error # "enqueue"
  /\ \A d \in deadLetters : d.run # r

NoneFailedSilently == \A r \in Runs : ~FailedSilently(r)

LettersAreFresh == \A d \in deadLetters : ~d.aged

\* A step writes no failure of a worker, or leaves the letter with it, and
\* drops no fresh letter.
LettersFollow(r) ==
  /\ \A q \in Runs \ {r} : row'[q] = row[q]
  /\ deadLetters \subseteq deadLetters' /\ \A d \in deadLetters' \ deadLetters : ~d.aged
  /\ \/ row'[r].status # "failed" \/ row'[r].error = "enqueue"
     \/ row'[r].status = row[r].status /\ row'[r].error = row[r].error
     \/ \E d \in deadLetters' : d.run = r

LEMMA LettersStay ==
  ASSUME NoneFailedSilently, LettersAreFresh, NEW r \in Runs, LettersFollow(r)
  PROVE  NoneFailedSilently' /\ LettersAreFresh'
  <1>1. LettersAreFresh'
    BY DEF LettersAreFresh, LettersFollow
  <1>2. ASSUME NEW q \in Runs, q # r PROVE ~FailedSilently(q)'
    BY <1>2 DEF NoneFailedSilently, FailedSilently, LettersFollow
  <1>3. ~FailedSilently(r)'
    <2>1. CASE row'[r].status # "failed" \/ row'[r].error = "enqueue"
      BY <2>1 DEF FailedSilently
    <2>2. CASE row'[r].status = row[r].status /\ row'[r].error = row[r].error
      BY <2>2 DEF NoneFailedSilently, FailedSilently, LettersFollow
    <2>3. CASE \E d \in deadLetters' : d.run = r
      BY <2>3 DEF FailedSilently
    <2> QED
      BY <2>1, <2>2, <2>3 DEF LettersFollow
  <1> QED
    BY <1>1, <1>2, <1>3 DEF NoneFailedSilently

LEMMA LetterOfRun ==
  ASSUME DeadLetterEnabled, NEW r, NEW s
  PROVE  /\ \A d \in Letter(r, s) : ~d.aged
         /\ \E d \in Letter(r, s) : d.run = r
  <1>1. Letter(r, s) = {[run |-> r, stage |-> s, aged |-> FALSE]}
    BY DEF Letter
  <1> QED
    BY <1>1

\* Every worker step leaves the letters of the failures in place.
LEMMA WorkerStepsKeepLetters ==
  ASSUME TypeOK, DeadLetterEnabled, NoneFailedSilently, LettersAreFresh,
         NEW w \in Workers, WorkerStep(w) \/ WorkerDies(w)
  PROVE  NoneFailedSilently' /\ LettersAreFresh'
<1>0. PICK r : r = worker[w].run
  OBVIOUS
<1>1. row \in [Runs -> Rows] /\ (worker[w].pc # "idle" => r \in Runs)
  BY <1>0, BusyOnRuns DEF TypeOK
<1> USE DEF tables, counts, history, WorkerAt
\* Steps that leave rows and letters alone, or drop aged letters only.
<1>2. ASSUME row' = row, deadLetters' \in {deadLetters, {d \in deadLetters : ~d.aged}}
      PROVE  NoneFailedSilently' /\ LettersAreFresh'
  <2>1. {d \in deadLetters : ~d.aged} = deadLetters
    BY DEF LettersAreFresh
  <2>2. row' = row /\ deadLetters' = deadLetters
    BY <1>2, <2>1
  <2> QED
    BY <2>2 DEF NoneFailedSilently, FailedSilently, LettersAreFresh
<1>3. CASE \/ \E s \in Stages : TakeJob(w, s)
           \/ BeginFollowUp(w) \/ PublishCommits(w) \/ SyncCounts(w) \/ CleanupDeadLetters(w)
           \/ EnqueueFollowUp(w) \/ FollowUpEnqueueFails(w) \/ WorkerDies(w)
  <2>1. row' = row /\ deadLetters' \in {deadLetters, {d \in deadLetters : ~d.aged}}
    BY <1>3 DEF TakeJob, BeginFollowUp, PublishCommits, SyncCounts, CleanupDeadLetters,
                EnqueueFollowUp, FollowUpEnqueueFails, WorkerDies
  <2> QED
    BY <1>2, <2>1
<1>4. CASE BeginDetect(w)
  <2>1. r \in Runs /\ row' = [row EXCEPT ![r].status = "running"] /\ deadLetters' = deadLetters
    BY <1>0, <1>1, <1>4 DEF BeginDetect
  <2>2. row'[r].status = "running" /\ \A q \in Runs \ {r} : row'[q] = row[q]
    BY <1>1, <2>1, StatusWritten
  <2>9. LettersFollow(r)
    BY <2>1, <2>2 DEF LettersFollow
  <2> QED
    BY <2>1, <2>9, LettersStay
<1>5. CASE DetectCommits(w)
  <2>1. r \in Runs /\ deadLetters' = deadLetters
    BY <1>1, <1>5 DEF DetectCommits
  <2>2. PICK t : row' = [row EXCEPT ![r].target = t]
    BY <1>0, <1>5 DEF DetectCommits
  <2>3. row'[r].status = row[r].status /\ \A q \in Runs \ {r} : row'[q] = row[q]
    BY <1>1, <2>1, <2>2, TargetWritten
  <2>4. row'[r].error = row[r].error
    BY <1>1, <2>1, <2>2, ErrorKept
  <2>9. LettersFollow(r)
    BY <2>1, <2>3, <2>4 DEF LettersFollow
  <2> QED
    BY <2>1, <2>9, LettersStay
<1>6. CASE SyncCommits(w)
  <2>1. r \in Runs /\ deadLetters' = deadLetters
    BY <1>1, <1>6 DEF SyncCommits
  <2>2. PICK s \in {row[r].status, "partial", "success"} : row' = [row EXCEPT ![r].status = s]
    BY <1>0, <1>6 DEF SyncCommits, Saved
  <2>3. row'[r].status = s /\ \A q \in Runs \ {r} : row'[q] = row[q]
    BY <1>1, <2>1, <2>2, StatusWritten
  <2>4. row'[r].error = row[r].error
    BY <1>1, <2>1, <2>2, ErrorKept
  <2>9. LettersFollow(r)
    BY <2>1, <2>3, <2>4 DEF LettersFollow
  <2> QED
    BY <2>1, <2>9, LettersStay
<1>7. CASE PhaseFails(w)
  <2>1. r \in Runs /\ deadLetters' = deadLetters \cup Letter(r, worker[w].stage)
    BY <1>0, <1>1, <1>7 DEF PhaseFails
  <2>2. PICK t : row' = [row EXCEPT ![r].status = Saved(r, worker[w].loaded, "failed"),
                                    ![r].error = "phase", ![r].target = t]
    BY <1>0, <1>7 DEF PhaseFails
  <2>3. \A q \in Runs \ {r} : row'[q] = row[q]
    BY <1>1, <2>1, <2>2, StatusWritten
  <2>9. LettersFollow(r)
    BY <2>1, <2>3, LetterOfRun DEF LettersFollow
  <2> QED
    BY <2>1, <2>9, LettersStay
<1>8. CASE MarkFollowUpFailure(w)
  <2>1. r \in Runs /\ deadLetters' = deadLetters \cup Letter(r, FollowUp(worker[w].stage))
    BY <1>0, <1>1, <1>8 DEF MarkFollowUpFailure
  <2>2. row' = [row EXCEPT ![r].status = "failed", ![r].error = "followup"]
    BY <1>0, <1>8 DEF MarkFollowUpFailure
  <2>3. \A q \in Runs \ {r} : row'[q] = row[q]
    BY <1>1, <2>1, <2>2, StatusWritten
  <2>9. LettersFollow(r)
    BY <2>1, <2>3, LetterOfRun DEF LettersFollow
  <2> QED
    BY <2>1, <2>9, LettersStay
<1> QED
  BY <1>3, <1>4, <1>5, <1>6, <1>7, <1>8 DEF WorkerStep

\* So does every handler step: the only failure it writes is a refused detect
\* job, which leaves no letter.
LEMMA HandlerStepsKeepLetters ==
  ASSUME TypeOK, NoneFailedSilently, LettersAreFresh,
         NEW h \in Handlers, HandlerStep(h) \/ HandlerDies(h)
  PROVE  NoneFailedSilently' /\ LettersAreFresh'
<1>0. PICK r : r = handler[h].run
  OBVIOUS
<1>1. row \in [Runs -> Rows] /\ (handler[h].pc # "idle" => r \in Runs)
  BY <1>0, BusyOnRuns DEF TypeOK
<1> USE DEF tables, counts, history, HandlerAt
<1>2. deadLetters' = deadLetters
  BY DEF HandlerStep, ReusePendingRun, BuildRun, InsertRun, RefreshRun, SkipDispatch,
         PlaceDetectJob, RecordJob, DetectEnqueueFails, HandlerDies
<1>3. CASE row' = row
  BY <1>2, <1>3 DEF NoneFailedSilently, FailedSilently, LettersAreFresh
<1>4. ASSUME NEW t \in Requests, BuildRun(h, t)
      PROVE  NoneFailedSilently' /\ LettersAreFresh'
  <2>1. created + 1 \in Runs /\ row' = [row EXCEPT ![created + 1].target = t]
    BY <1>4, ConstantsAssumption DEF BuildRun, Runs, TypeOK
  <2>2. /\ row'[created + 1].status = row[created + 1].status
        /\ \A q \in Runs \ {created + 1} : row'[q] = row[q]
    BY <1>1, <2>1, TargetWritten
  <2>3. row'[created + 1].error = row[created + 1].error
    BY <1>1, <2>1, ErrorKept
  <2>9. LettersFollow(created + 1)
    BY <1>2, <2>1, <2>2, <2>3 DEF LettersFollow
  <2> QED
    BY <2>1, <2>9, LettersStay
<1>5. CASE InsertRun(h)
  <2>1. r \in Runs /\ row' = [row EXCEPT ![r].status = "queued"]
    BY <1>0, <1>1, <1>5 DEF InsertRun
  <2>2. row'[r].status = "queued" /\ \A q \in Runs \ {r} : row'[q] = row[q]
    BY <1>1, <2>1, StatusWritten
  <2>9. LettersFollow(r)
    BY <1>2, <2>1, <2>2 DEF LettersFollow
  <2> QED
    BY <2>1, <2>9, LettersStay
<1>6. CASE RecordJob(h)
  <2>1. r \in Runs /\ row' = [row EXCEPT ![r].job = TRUE]
    BY <1>0, <1>1, <1>6 DEF RecordJob
  <2>2. row'[r].status = row[r].status /\ \A q \in Runs \ {r} : row'[q] = row[q]
    BY <1>1, <2>1, JobWritten
  <2>3. row'[r].error = row[r].error
    BY <1>1, <2>1, ErrorKept
  <2>9. LettersFollow(r)
    BY <1>2, <2>1, <2>2, <2>3 DEF LettersFollow
  <2> QED
    BY <2>1, <2>9, LettersStay
<1>7. CASE DetectEnqueueFails(h)
  <2>1. r \in Runs /\ row' = [row EXCEPT ![r].status = "failed", ![r].error = "enqueue"]
    BY <1>0, <1>1, <1>7 DEF DetectEnqueueFails
  <2>2. \A q \in Runs \ {r} : row'[q] = row[q]
    BY <1>1, <2>1, StatusWritten
  <2>3. row'[r].error = "enqueue"
    BY <1>1, <2>1, ErrorWritten
  <2>9. LettersFollow(r)
    BY <1>2, <2>1, <2>2, <2>3 DEF LettersFollow
  <2> QED
    BY <2>1, <2>9, LettersStay
<1>8. \/ row' = row
      \/ \E t \in Requests : BuildRun(h, t)
      \/ InsertRun(h) \/ RecordJob(h) \/ DetectEnqueueFails(h)
  BY DEF HandlerStep, ReusePendingRun, RefreshRun, SkipDispatch, PlaceDetectJob, HandlerDies
<1> QED
  BY <1>3, <1>4, <1>5, <1>6, <1>7, <1>8

\* With dead letters on and none old enough for the cleanup, every run that
\* failed in a worker has one: whichever phase failed or follow-up was refused,
\* whatever was written to the row before and after, on any number of workers
\* and with replays; the one failure without a letter is the refused detect job.
THEOREM WorkerFailuresLeaveLetters == Spec => []WorkerFailuresLeaveLetter
<1> DEFINE I == DeadLetterEnabled /\ "days_pass" \notin Faults
                => NoneFailedSilently /\ LettersAreFresh
<1>1. Init => I
  <2> SUFFICES ASSUME Init PROVE NoneFailedSilently /\ LettersAreFresh
    OBVIOUS
  <2>1. \A r \in Runs : row[r].status = "unborn"
    BY DEF Init, Unborn
  <2> QED
    BY <2>1 DEF Init, NoneFailedSilently, FailedSilently, LettersAreFresh
<1>2. TypeOK /\ I /\ [Next]_vars => I'
  <2> SUFFICES ASSUME TypeOK, [Next]_vars, DeadLetterEnabled, "days_pass" \notin Faults,
                      NoneFailedSilently, LettersAreFresh
               PROVE  NoneFailedSilently' /\ LettersAreFresh'
    OBVIOUS
  <2>1. CASE row' = row /\ deadLetters' = deadLetters
    BY <2>1 DEF NoneFailedSilently, FailedSilently, LettersAreFresh
  <2>2. CASE UNCHANGED vars
    BY <2>1, <2>2 DEF vars, tables
  <2>3. ASSUME NEW r \in Runs, ReplayPublish(r) \/ ReplaySync(r)
        PROVE  row' = row /\ deadLetters' = deadLetters
    BY <2>3 DEF ReplayPublish, ReplaySync, Replay, tables
  <2>4. ~DaysPass
    BY DEF DaysPass
  <2> QED
    BY <2>1, <2>2, <2>3, <2>4, WorkerStepsKeepLetters, HandlerStepsKeepLetters DEF Next
<1>3. I => WorkerFailuresLeaveLetter
  BY DEF NoneFailedSilently, FailedSilently, WorkerFailuresLeaveLetter
<1> QED
  BY <1>1, <1>2, <1>3, TypeCorrect, PTL DEF Spec

(***************************************************************************)
(* A success, with the single worker of the deployment.                    *)
(***************************************************************************)
OneWorker == \A v, w \in Workers : v = w

\* A success with failed publications has a job that will look at them.
FailuresAreLookedAt ==
  \A r \in Runs : row[r].status = "success" /\ r \in unpublished /\ r \notin lost => HasJob(r)

\* What the worker loaded and counted is true until it commits; only a handler
\* whose enqueue fails writes the status meanwhile.
SessionIsCurrent ==
  \A w \in Workers :
    LET r == worker[w].run IN
    /\ worker[w].pc \in {"work", "counted"} => row[r].status \in {worker[w].loaded, "failed"}
    /\ worker[w].pc = "counted" /\ ~worker[w].partial => r \notin unpublished
    /\ worker[w].pc = "cleanup" /\ row[r].status = "success" => r \notin unpublished

\* Jobs of other runs than the one a worker is busy with.
LEMMA OthersKeepJobs ==
  ASSUME NEW w \in Workers, NEW r \in Runs, AboutRun(w, r), NEW q \in Runs, q # r, HasJob(q)
  PROVE  HasJob(q)'
  <1>1. CASE \E s \in Stages : q \in JobsIn(s)
    BY <1>1 DEF AboutRun, HasJob
  <1>2. ASSUME NEW v \in Workers, Busy(v), worker[v].run = q PROVE HasJob(q)'
    <2>1. v # w
      BY <1>2 DEF AboutRun, Busy, WorkerAt
    <2> QED
      BY <1>2, <2>1 DEF AboutRun, HasJob, Busy, WorkerAt
  <1> QED
    BY <1>1, <1>2 DEF HasJob

\* It is enough to look at the run and the worker of the step.
LEMMA WorkerStepsKeepSuccess ==
  ASSUME OneWorker, FailuresAreLookedAt, SessionIsCurrent,
         NEW w \in Workers, NEW r \in Runs, AboutRun(w, r),
         lost \subseteq lost', unpublished' \subseteq unpublished \cup {r},
         row'[r].status = "success" /\ r \in unpublished' /\ r \notin lost' => HasJob(r)',
         worker'[w].pc \in {"work", "counted"} => row'[r].status \in {worker'[w].loaded, "failed"},
         worker'[w].pc = "counted" /\ ~worker'[w].partial => r \notin unpublished',
         worker'[w].pc = "cleanup" /\ row'[r].status = "success" => r \notin unpublished'
  PROVE  FailuresAreLookedAt' /\ SessionIsCurrent'
  <1>1. ASSUME NEW q \in Runs, q # r, row'[q].status = "success", q \in unpublished', q \notin lost'
        PROVE  HasJob(q)'
    <2>1. row[q].status = "success" /\ q \in unpublished /\ q \notin lost
      BY <1>1 DEF AboutRun
    <2> QED
      BY <1>1, <2>1, OthersKeepJobs DEF FailuresAreLookedAt
  <1>2. FailuresAreLookedAt'
    BY <1>1 DEF FailuresAreLookedAt
  <1>3. \A v \in Workers : v = w
    BY DEF OneWorker
  <1>4. worker'[w].pc # "idle" => worker'[w].run = r
    BY DEF AboutRun
  <1>5. SessionIsCurrent'
    BY <1>3, <1>4 DEF SessionIsCurrent
  <1> QED
    BY <1>2, <1>5

\* A worker that still has the run in its hands is a job of the run.
LEMMA BusyIsJob ==
  ASSUME NEW w \in Workers, NEW r, worker'[w].pc # "idle", worker'[w].run = r
  PROVE  HasJob(r)'
  BY DEF HasJob, Busy, WorkerAt

LEMMA WorkerStepsKeepSession ==
  ASSUME TypeOK, OnlyInsertedRunsAreUsed, OneWorker, FailuresAreLookedAt, SessionIsCurrent,
         NEW w \in Workers, WorkerStep(w) \/ WorkerDies(w)
  PROVE  FailuresAreLookedAt' /\ SessionIsCurrent'
<1>0. PICK r \in Runs : AboutRun(w, r)
  BY WorkerStepsAboutRun
<1>1. /\ row \in [Runs -> Rows] /\ unpublished \subseteq Runs
      /\ worker \in [Workers -> {WorkerIdle} \cup WorkerBusy]
      /\ queues \in [Stages -> Seq(Runs)]
      /\ worker[w].pc \in {"follow", "mark"} => worker[w].stage \in {"detect", "publish"}
  BY DEF TypeOK
<1>2. worker[w].pc # "idle" => worker[w].run = r
  BY <1>0 DEF AboutRun
<1>3. /\ worker[w].pc \in {"work", "counted"} => row[r].status \in {worker[w].loaded, "failed"}
      /\ worker[w].pc = "counted" /\ ~worker[w].partial => r \notin unpublished
      /\ worker[w].pc = "cleanup" /\ row[r].status = "success" => r \notin unpublished
  BY <1>2 DEF SessionIsCurrent
<1> USE DEF tables, counts, history, WorkerAt, WorkerGoes, JobEnds
\* The worker goes on with the run; the run has its job.
<1>4. ASSUME worker'[w].pc # "idle", lost' = lost, unpublished' \subseteq unpublished \cup {r},
             worker'[w].pc \in {"work", "counted"} =>
                row'[r].status \in {worker'[w].loaded, "failed"},
             worker'[w].pc = "counted" /\ ~worker'[w].partial => r \notin unpublished',
             worker'[w].pc = "cleanup" /\ row'[r].status = "success" => r \notin unpublished'
      PROVE  FailuresAreLookedAt' /\ SessionIsCurrent'
  <2>1. worker'[w].run = r
    BY <1>0, <1>4 DEF AboutRun
  <2>2. HasJob(r)'
    BY <1>4, <2>1, BusyIsJob
  <2> QED
    BY <1>0, <1>4, <2>2, WorkerStepsKeepSuccess
\* The job ends.
<1>5. ASSUME worker' = [worker EXCEPT ![w] = WorkerIdle], lost \subseteq lost',
             unpublished' \subseteq unpublished \cup {r},
             row'[r].status = "success" /\ r \in unpublished' /\ r \notin lost' => HasJob(r)'
      PROVE  FailuresAreLookedAt' /\ SessionIsCurrent'
  <2>1. worker'[w].pc = "idle"
    BY <1>1, <1>5 DEF WorkerIdle
  <2> QED
    BY <1>0, <1>5, <2>1, WorkerStepsKeepSuccess
<1>6. ASSUME NEW s \in Stages, TakeJob(w, s)
      PROVE  FailuresAreLookedAt' /\ SessionIsCurrent'
  <2>1. worker'[w].pc = "begin"
    BY <1>1, <1>6 DEF TakeJob
  <2> QED
    BY <1>4, <1>6, <2>1 DEF TakeJob
<1>7. CASE BeginDetect(w)
  <2>1. worker[w].pc = "begin" /\ worker[w].run = r
    BY <1>2, <1>7 DEF BeginDetect
  <2>2. worker'[w].pc = "work" /\ worker'[w].loaded = "running"
    BY <1>1, <1>7, <2>1, WorkerLoaded DEF BeginDetect
  <2>3. row'[r].status = "running"
    BY <1>1, <1>7, <2>1, StatusWritten DEF BeginDetect
  <2> QED
    BY <1>4, <1>7, <2>2, <2>3 DEF BeginDetect
<1>8. CASE BeginFollowUp(w)
  <2>1. worker[w].pc = "begin" /\ worker[w].run = r
    BY <1>2, <1>8 DEF BeginFollowUp
  <2>2. worker'[w].pc = "work" /\ worker'[w].loaded = row[r].status
    BY <1>1, <1>8, <2>1, WorkerLoaded DEF BeginFollowUp
  <2> QED
    BY <1>4, <1>8, <2>2 DEF BeginFollowUp
<1>9. CASE DetectCommits(w)
  <2>1. worker[w].pc = "work"
    BY <1>9 DEF DetectCommits
  <2>2. worker'[w].pc = "follow"
    BY <1>1, <1>9, <2>1, WorkerMoved DEF DetectCommits
  <2> QED
    BY <1>4, <1>9, <2>2 DEF DetectCommits, SomeFailuresResolved
<1>10. CASE PublishCommits(w)
  <2>1. worker[w].pc = "work" /\ worker[w].run = r
    BY <1>2, <1>10 DEF PublishCommits
  <2>2. worker'[w].pc = "follow"
    BY <1>1, <1>10, <2>1, WorkerMoved DEF PublishCommits
  <2> QED
    BY <1>4, <1>10, <2>1, <2>2 DEF PublishCommits, SomePublicationsFail
<1>11. CASE SyncCounts(w)
  <2>1. worker[w].pc = "work" /\ worker[w].run = r
    BY <1>2, <1>11 DEF SyncCounts
  <2>2. worker' = [worker EXCEPT ![w].pc = "counted", ![w].partial = r \in unpublished]
    BY <1>11, <2>1 DEF SyncCounts
  <2>3. PICK x \in WorkerBusy : x = worker[w]
    BY <1>1, <2>1, WorkerWrites
  <2>4. worker'[w] = [x EXCEPT !.pc = "counted", !.partial = r \in unpublished]
    BY <1>1, <2>2, <2>3
  <2>5. worker'[w].pc = "counted" /\ worker'[w].loaded = worker[w].loaded
    BY <2>3, <2>4 DEF WorkerBusy
  <2>6. worker'[w].partial = (r \in unpublished)
    BY <2>4, Zenon DEF WorkerBusy
  <2> QED
    BY <1>3, <1>4, <1>11, <2>1, <2>5, <2>6 DEF SyncCounts
<1>12. CASE SyncCommits(w)
  <2>1. worker[w].pc = "counted" /\ worker[w].run = r
    BY <1>2, <1>12 DEF SyncCommits
  <2>2. PICK outcome \in {"partial", "success"} :
          /\ row' = [row EXCEPT ![r].status = Saved(r, worker[w].loaded, outcome)]
          /\ outcome = "success" => ~worker[w].partial
    BY <1>12, <2>1 DEF SyncCommits
  <2>3. row'[r].status = Saved(r, worker[w].loaded, outcome)
    BY <1>1, <2>2, StatusWritten
  <2>4. worker'[w].pc = "cleanup" /\ lost' = lost /\ unpublished' \subseteq unpublished
    BY <1>1, <1>12, <2>1, WorkerMoved DEF SyncCommits, SomeFailuresResolved
  <2>5. row'[r].status = "success" => r \notin unpublished
    <3>1. CASE outcome = "success"
      BY <1>3, <2>1, <2>2, <3>1
    <3>2. CASE outcome = "partial"
      BY <1>3, <2>1, <2>3, <3>2 DEF Saved
    <3> QED
      BY <3>1, <3>2
  <2> QED
    BY <1>4, <2>4, <2>5
<1>13. CASE CleanupDeadLetters(w)
  <2>1. worker[w].pc = "cleanup"
    BY <1>13 DEF CleanupDeadLetters
  <2> QED
    BY <1>3, <1>5, <1>13, <2>1 DEF CleanupDeadLetters
<1>14. CASE PhaseFails(w)
  <2>1. worker[w].pc = "work" /\ worker[w].run = r
    BY <1>2, <1>14 DEF PhaseFails
  <2>2. PICK t : row' = [row EXCEPT ![r].status = Saved(r, worker[w].loaded, "failed"),
                                    ![r].error = "phase", ![r].target = t]
    BY <1>14, <2>1 DEF PhaseFails
  <2>3. row'[r].status = Saved(r, worker[w].loaded, "failed")
    BY <1>1, <2>2, StatusWritten
  <2>4. row'[r].status = "failed"
    BY <1>3, <2>1, <2>3 DEF Saved
  <2> QED
    BY <1>5, <1>14, <2>1, <2>4 DEF PhaseFails, SomeFailuresResolved, SomePublicationsFail
<1>15. CASE EnqueueFollowUp(w)
  <2>1. worker[w].pc = "follow" /\ worker[w].run = r
    BY <1>2, <1>15 DEF EnqueueFollowUp
  <2>2. FollowUp(worker[w].stage) \in Stages
    BY DEF FollowUp, Stages
  <2>3. HasJob(r)'
    BY <1>1, <1>15, <2>1, <2>2, Enqueued DEF EnqueueFollowUp, HasJob
  <2> QED
    BY <1>5, <1>15, <2>3 DEF EnqueueFollowUp
<1>16. CASE FollowUpEnqueueFails(w)
  <2>1. worker[w].pc = "follow"
    BY <1>16 DEF FollowUpEnqueueFails
  <2>2. worker'[w].pc = "mark"
    BY <1>1, <1>16, <2>1, WorkerMoved DEF FollowUpEnqueueFails
  <2> QED
    BY <1>4, <1>16, <2>2 DEF FollowUpEnqueueFails
<1>17. CASE MarkFollowUpFailure(w)
  <2>1. worker[w].pc = "mark" /\ worker[w].run = r
    BY <1>2, <1>17 DEF MarkFollowUpFailure
  <2>2. row'[r].status = "failed"
    BY <1>1, <1>17, <2>1, StatusWritten DEF MarkFollowUpFailure
  <2> QED
    BY <1>5, <1>17, <2>2 DEF MarkFollowUpFailure
<1>18. CASE WorkerDies(w)
  <2>1. worker[w].run = r
    BY <1>2, <1>18 DEF WorkerDies, Busy
  <2> QED
    BY <1>5, <1>18, <2>1 DEF WorkerDies
<1> QED
  BY <1>6, <1>7, <1>8, <1>9, <1>10, <1>11, <1>12, <1>13, <1>14, <1>15, <1>16, <1>17, <1>18
     DEF WorkerStep

\* The statuses stay, but for runs that fail and runs that are inserted.
StatusesStand ==
  \A q \in Runs : \/ row'[q].status \in {row[q].status, "failed"}
                  \/ row[q].status = "unborn" /\ row'[q].status # "success"

LEMMA StandingStatusesKeepSession ==
  ASSUME OnlyInsertedRunsAreUsed, FailuresAreLookedAt, SessionIsCurrent, StatusesStand,
         \A v \in Workers : worker[v].pc # "idle" => worker[v].run \in Runs,
         \A q \in Runs : HasJob(q) => HasJob(q)',
         unpublished' = unpublished, lost' = lost, worker' = worker
  PROVE  FailuresAreLookedAt' /\ SessionIsCurrent'
  <1>1. FailuresAreLookedAt'
    BY DEF FailuresAreLookedAt, StatusesStand
  <1>2. \A v \in Workers : worker[v].pc # "idle" => row[worker[v].run].status # "unborn"
    BY DEF OnlyInsertedRunsAreUsed, Busy, WorkerAt
  <1>3. \A v \in Workers : worker[v].pc # "idle" =>
           row'[worker[v].run].status \in {row[worker[v].run].status, "failed"}
    BY <1>2 DEF StatusesStand
  <1>4. SessionIsCurrent'
    BY <1>3 DEF SessionIsCurrent
  <1> QED
    BY <1>1, <1>4

\* Handlers take no job away and no run out of a worker's hands; they make no
\* run a success and write only to runs without a job, or fail them.
LEMMA HandlerStepsKeepSession ==
  ASSUME TypeOK, OnlyInsertedRunsAreUsed, FailuresAreLookedAt, SessionIsCurrent,
         NEW h \in Handlers, HandlerStep(h) \/ HandlerDies(h)
  PROVE  FailuresAreLookedAt' /\ SessionIsCurrent'
<1>0. PICK r : r = handler[h].run
  OBVIOUS
<1>1. /\ row \in [Runs -> Rows] /\ queues \in [Stages -> Seq(Runs)]
      /\ handler[h].pc # "idle" => r \in Runs
      /\ \A v \in Workers : worker[v].pc # "idle" => worker[v].run \in Runs
  BY <1>0, BusyOnRuns DEF TypeOK
<1>2. unpublished' = unpublished /\ lost' = lost /\ worker' = worker
  BY DEF HandlerStep, ReusePendingRun, BuildRun, InsertRun, RefreshRun, SkipDispatch,
         PlaceDetectJob, RecordJob, DetectEnqueueFails, HandlerDies, tables, counts, history
<1> USE DEF tables, counts, history, HandlerAt
<1>3. \A s \in Stages : JobsIn(s) \subseteq JobsIn(s)'
  <2>1. CASE UNCHANGED queues
    BY <2>1 DEF JobsIn
  <2>2. CASE handler[h].pc # "idle" /\ Enqueue("detect", r)
    BY <1>1, <2>2, Enqueued DEF Stages
  <2>3. UNCHANGED queues \/ (handler[h].pc # "idle" /\ Enqueue("detect", r))
    <3>1. CASE PlaceDetectJob(h)
      BY <1>0, <3>1 DEF PlaceDetectJob, Enqueue
    <3>2. CASE ~PlaceDetectJob(h)
      BY <3>2 DEF HandlerStep, ReusePendingRun, BuildRun, InsertRun, RefreshRun, SkipDispatch,
                  RecordJob, DetectEnqueueFails, HandlerDies
    <3> QED
      BY <3>1, <3>2
  <2> QED
    BY <2>1, <2>2, <2>3
<1>4. \A q \in Runs : HasJob(q) => HasJob(q)'
  BY <1>2, <1>3 DEF HasJob, Busy, WorkerAt
<1>5. ASSUME StatusesStand PROVE FailuresAreLookedAt' /\ SessionIsCurrent'
  BY <1>1, <1>2, <1>4, <1>5, StandingStatusesKeepSession
<1>6. CASE row' = row
  BY <1>5, <1>6 DEF StatusesStand
<1>7. ASSUME NEW t \in Requests, BuildRun(h, t)
      PROVE  FailuresAreLookedAt' /\ SessionIsCurrent'
  <2>1. created + 1 \in Runs /\ row' = [row EXCEPT ![created + 1].target = t]
    BY <1>7, ConstantsAssumption DEF BuildRun, Runs, TypeOK
  <2>2. \A q \in Runs : row'[q].status = row[q].status
    BY <1>1, <2>1, TargetWritten
  <2> QED
    BY <1>5, <2>2 DEF StatusesStand
<1>8. CASE InsertRun(h)
  <2>1. r \in Runs /\ row' = [row EXCEPT ![r].status = "queued"] /\ row[r].status = "unborn"
    BY <1>0, <1>1, <1>8 DEF InsertRun, OnlyInsertedRunsAreUsed
  <2>2. row'[r].status = "queued" /\ \A q \in Runs \ {r} : row'[q] = row[q]
    BY <1>1, <2>1, StatusWritten
  <2> QED
    BY <1>5, <2>1, <2>2 DEF StatusesStand
<1>9. CASE RecordJob(h)
  <2>1. r \in Runs /\ row' = [row EXCEPT ![r].job = TRUE]
    BY <1>0, <1>1, <1>9 DEF RecordJob
  <2>2. \A q \in Runs : row'[q].status = row[q].status
    BY <1>1, <2>1, JobWritten
  <2> QED
    BY <1>5, <2>2 DEF StatusesStand
<1>10. CASE DetectEnqueueFails(h)
  <2>1. r \in Runs /\ row' = [row EXCEPT ![r].status = "failed", ![r].error = "enqueue"]
    BY <1>0, <1>1, <1>10 DEF DetectEnqueueFails
  <2>2. row'[r].status = "failed" /\ \A q \in Runs \ {r} : row'[q] = row[q]
    BY <1>1, <2>1, StatusWritten
  <2> QED
    BY <1>5, <2>2 DEF StatusesStand
<1>11. \/ row' = row
       \/ \E t \in Requests : BuildRun(h, t)
       \/ InsertRun(h) \/ RecordJob(h) \/ DetectEnqueueFails(h)
  BY DEF HandlerStep, ReusePendingRun, RefreshRun, SkipDispatch, PlaceDetectJob, HandlerDies
<1> QED
  BY <1>6, <1>7, <1>8, <1>9, <1>10, <1>11

\* With the one worker of the deployment a run is not left as a success while
\* findings of it failed to publish: for any number of handlers, duplicate jobs
\* and replays, whatever fails except the worker itself.  The worker's count and
\* the status it loaded are still true when it commits, so neither a stale count
\* nor a write the session skips lets the outcome of an older sync stand.
THEOREM SuccessesArePublished == OneWorker => (Spec => []SuccessMeansPublished)
<1> SUFFICES ASSUME OneWorker PROVE Spec => []SuccessMeansPublished
  OBVIOUS
<1>1. Init => FailuresAreLookedAt /\ SessionIsCurrent
  <2> SUFFICES ASSUME Init PROVE FailuresAreLookedAt /\ SessionIsCurrent
    OBVIOUS
  <2>1. \A w \in Workers : worker[w].pc = "idle"
    BY DEF Init, WorkerIdle
  <2> QED
    BY <2>1 DEF Init, FailuresAreLookedAt, SessionIsCurrent
<1>2. /\ TypeOK /\ OnlyInsertedRunsAreUsed /\ FailuresAreLookedAt /\ SessionIsCurrent
      /\ [Next]_vars
      => FailuresAreLookedAt' /\ SessionIsCurrent'
  <2> SUFFICES ASSUME TypeOK, OnlyInsertedRunsAreUsed, FailuresAreLookedAt, SessionIsCurrent,
                      [Next]_vars
               PROVE  FailuresAreLookedAt' /\ SessionIsCurrent'
    OBVIOUS
  <2>1. ASSUME UNCHANGED <<row, unpublished, worker, lost>>,
               \A s \in Stages : JobsIn(s) \subseteq JobsIn(s)'
        PROVE  FailuresAreLookedAt' /\ SessionIsCurrent'
    <3>1. \A r \in Runs : HasJob(r) => HasJob(r)'
      BY <2>1 DEF HasJob, Busy, WorkerAt
    <3> QED
      BY <2>1, <3>1 DEF FailuresAreLookedAt, SessionIsCurrent
  <2>2. UNCHANGED queues => \A s \in Stages : JobsIn(s) \subseteq JobsIn(s)'
    BY DEF JobsIn
  <2>3. CASE UNCHANGED vars
    BY <2>1, <2>2, <2>3 DEF vars, tables, history
  <2>4. CASE DaysPass
    BY <2>1, <2>2, <2>4 DEF DaysPass, history
  <2>5. ASSUME NEW r \in Runs, ReplayPublish(r) \/ ReplaySync(r)
        PROVE  FailuresAreLookedAt' /\ SessionIsCurrent'
    <3>1. PICK s \in Stages : Replay(s, r)
      BY <2>5 DEF ReplayPublish, ReplaySync, Stages
    <3>2. \A t \in Stages : JobsIn(t) \subseteq JobsIn(t)'
      BY <3>1, Enqueued DEF Replay, TypeOK
    <3> QED
      BY <2>1, <3>1, <3>2 DEF Replay, tables, history
  <2> QED
    BY <2>3, <2>4, <2>5, WorkerStepsKeepSession, HandlerStepsKeepSession DEF Next
<1>3. FailuresAreLookedAt => SuccessMeansPublished
  BY DEF FailuresAreLookedAt, SuccessMeansPublished
<1> QED
  BY <1>1, <1>2, <1>3, PipelineHolds, PTL DEF Spec, PipelineInv
===============================================================================
