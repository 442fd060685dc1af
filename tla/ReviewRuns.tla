------------------------------ MODULE ReviewRuns ------------------------------
(***************************************************************************)
(* The life of a review run in review-bot: an API handler looks for a      *)
(* pending run of the requested target or inserts one, places a detect job *)
(* on its queue and records the job id; workers carry the run through the  *)
(* detect, publish and sync jobs; operators replay publish and sync.       *)
(* What a phase does to findings and threads is in FindingThreads; here a  *)
(* phase is what it does to the run row, the queues and the dead letters.  *)
(***************************************************************************)
EXTENDS Integers, Sequences, FiniteSets, Functions

CONSTANTS
  Handlers,           \* request handlers of the API that can be active at once
  Workers,            \* RQ worker processes
  Modes, Heads,       \* review modes; head commits of the merge request
  Requests,           \* the targets clients may ask for
  MaxRuns,            \* bound: rows of review_runs
  MaxRequests,        \* bound: requests served
  MaxReplays,         \* bound: operator replays
  Faults,             \* what may go wrong, see FaultKinds
  DeadLetterEnabled   \* settings.dead_letter_enabled

FaultKinds ==
  { "api_dies",           \* a handler is killed, or its commit fails
    "worker_dies",        \* a work-horse is killed, or its final commit fails
    "enqueue_error",      \* Redis refuses a job
    "enqueue_ambiguous",  \* Redis stores a job but the client sees an error
    "phase_error",        \* a phase raises
    "days_pass" }         \* dead letters get older than the cleanup's limit

\* base is FALSE when base_sha and start_sha are NULL (a note hook carries
\* neither); head 0 stands for a NULL head_sha.
Targets == [mode : Modes, base : BOOLEAN, head : Heads \cup {0}]

ASSUME ConstantsAssumption ==
  /\ Modes # {}
  /\ MaxRuns \in Nat /\ MaxRequests \in Nat /\ MaxReplays \in Nat
  /\ Requests \subseteq Targets
  /\ Faults \subseteq FaultKinds
  /\ DeadLetterEnabled \in BOOLEAN

Runs     == 1..MaxRuns          \* in the order of created_at
Stages   == {"detect", "publish", "sync"}
Pending  == {"queued", "running"}
Terminal == {"failed", "partial", "success"}
Statuses == {"unborn"} \cup Pending \cup Terminal  \* "unborn": nothing committed

VARIABLES
  row,          \* the columns of review_runs that steer the pipeline
  unpublished,  \* runs that have failed_publication decisions
  deadLetters,  \* the rows of dead_letter_records
  queues,       \* the three RQ queues
  handler,      \* the local state of each API handler
  worker,       \* the local state of each worker
  created, requests, replays,  \* counters of the bounds
  accepted, lost               \* history: runs answered for; runs whose job died

tables  == <<row, unpublished, deadLetters>>
counts  == <<created, requests, replays>>
history == <<accepted, lost>>
vars    == <<tables, queues, handler, worker, counts, history>>

\* job: job_id is set; error: who wrote the error columns last.
Rows == [status : Statuses, job : BOOLEAN, target : Targets,
         error : {"none", "enqueue", "phase", "followup"}]

DeadLetters == [run : Runs, stage : Stages, aged : BOOLEAN]

\* seen: the session found a job_id in the row it read.
HandlerIdle  == [pc |-> "idle"]
HandlerBusy  == [pc : {"insert", "refresh", "dispatch", "record"}, run : Runs,
                 seen : BOOLEAN]

\* loaded: the status the session read; partial: sync counted failures.
WorkerIdle == [pc |-> "idle"]
WorkerBusy == [pc : {"begin", "work", "counted", "follow", "mark", "cleanup"},
               stage : Stages, run : Runs, loaded : Statuses, partial : BOOLEAN]

\* The columns, queues and local states have the values the code gives them.
TypeOK ==
  /\ row \in [Runs -> Rows]
  /\ unpublished \subseteq Runs
  /\ deadLetters \subseteq DeadLetters
  /\ queues \in [Stages -> Seq(Runs)]
  /\ handler \in [Handlers -> {HandlerIdle} \cup HandlerBusy]
  /\ worker \in [Workers -> {WorkerIdle} \cup WorkerBusy]
  /\ \A w \in Workers : worker[w].pc \in {"follow", "mark"}
                        => worker[w].stage \in {"detect", "publish"}
  /\ created \in 0..MaxRuns
  /\ requests \in 0..MaxRequests /\ replays \in 0..MaxReplays
  /\ accepted \subseteq Runs /\ lost \subseteq Runs

Unborn == [status |-> "unborn", job |-> FALSE, error |-> "none",
           target |-> CHOOSE t \in Targets : TRUE]

Init ==
  /\ row = [r \in Runs |-> Unborn]
  /\ unpublished = {} /\ deadLetters = {}
  /\ queues = [s \in Stages |-> <<>>]
  /\ handler = [h \in Handlers |-> HandlerIdle]
  /\ worker = [w \in Workers |-> WorkerIdle]
  /\ created = 0 /\ requests = 0 /\ replays = 0
  /\ accepted = {} /\ lost = {}

-------------------------------------------------------------------------------
(***************************************************************************)
(* Shared pieces of the handlers and the jobs.                             *)
(***************************************************************************)
JobsIn(s) == Range(queues[s])

Enqueue(s, r) == queues' = [queues EXCEPT ![s] = Append(@, r)]

\* Whether a failure leaves a letter is a setting.
Letter(r, s) ==
  IF DeadLetterEnabled THEN {[run |-> r, stage |-> s, aged |-> FALSE]} ELSE {}

\* A session writes the status column only if the value differs from the one
\* it loaded, whatever the column holds by now.
Saved(r, loaded, new) == IF loaded = new THEN row[r].status ELSE new

(***************************************************************************)
(* API handlers.  The event loop serves note hooks, pool threads serve     *)
(* POST /internal/review/runs; both do the same to the run rows.           *)
(***************************************************************************)
HandlerAt(h, pc) == handler[h].pc = pc

HandlerGoes(h, pc) == handler' = [handler EXCEPT ![h].pc = pc]

Answered(h) == handler' = [handler EXCEPT ![h] = HandlerIdle]

\* Mutant: the lookup takes running runs only, not queued ones.
Reusable_RunningOnly(t) ==
  {r \in Runs : row[r].status = "running" /\ row[r].target = t}

\* Pending runs whose mode and shas are the requested ones; a row without
\* commit is not visible.
Reusable(t) == {r \in Runs : row[r].status \in Pending /\ row[r].target = t}

\* Mutant: the job id of the run found is not looked at.
ReusePendingRun_JobIgnored(h, t) ==
  /\ HandlerAt(h, "idle") /\ requests < MaxRequests
  /\ \E r \in Reusable(t) :
        /\ \A s \in Reusable(t) : s <= r
        /\ handler' = [handler EXCEPT ![h] =
                         [pc |-> "dispatch", run |-> r, seen |-> FALSE]]
  /\ requests' = requests + 1
  /\ UNCHANGED <<tables, queues, worker, created, replays, history>>

\* The lookup that reuses the newest pending run of the target ...
ReusePendingRun(h, t) ==
  /\ HandlerAt(h, "idle") /\ requests < MaxRequests
  /\ \E r \in Reusable(t) :
        /\ \A s \in Reusable(t) : s <= r
        /\ handler' = [handler EXCEPT ![h] =
                         [pc |-> "dispatch", run |-> r, seen |-> row[r].job]]
  /\ requests' = requests + 1
  /\ UNCHANGED <<tables, queues, worker, created, replays, history>>

\* ... or finds none and builds a row that is not committed yet.
BuildRun(h, t) ==
  /\ HandlerAt(h, "idle") /\ requests < MaxRequests /\ created < MaxRuns
  /\ Reusable(t) = {}
  /\ created' = created + 1
  /\ row' = [row EXCEPT ![created + 1].target = t]
  /\ handler' = [handler EXCEPT ![h] =
                   [pc |-> "insert", run |-> created + 1, seen |-> FALSE]]
  /\ requests' = requests + 1
  /\ UNCHANGED <<unpublished, deadLetters, queues, worker, replays, history>>

InsertRun(h) ==
  /\ HandlerAt(h, "insert")
  /\ row' = [row EXCEPT ![handler[h].run].status = "queued"]
  /\ HandlerGoes(h, "refresh")
  /\ UNCHANGED <<unpublished, deadLetters, queues, worker, counts, history>>

\* session.refresh reads the row back: another handler may have reused it.
RefreshRun(h) ==
  /\ HandlerAt(h, "refresh")
  /\ handler' = [handler EXCEPT ![h].pc = "dispatch",
                                ![h].seen = row[handler[h].run].job]
  /\ UNCHANGED <<tables, queues, worker, counts, history>>

SkipDispatch(h) ==
  /\ HandlerAt(h, "dispatch") /\ handler[h].seen
  /\ accepted' = accepted \cup {handler[h].run}
  /\ Answered(h)
  /\ UNCHANGED <<tables, queues, worker, counts, lost>>

PlaceDetectJob(h) ==
  /\ HandlerAt(h, "dispatch") /\ ~handler[h].seen
  /\ Enqueue("detect", handler[h].run)
  /\ HandlerGoes(h, "record")
  /\ UNCHANGED <<tables, worker, counts, history>>

RecordJob(h) ==
  /\ HandlerAt(h, "record")
  /\ row' = [row EXCEPT ![handler[h].run].job = TRUE]
  /\ accepted' = accepted \cup {handler[h].run}
  /\ Answered(h)
  /\ UNCHANGED <<unpublished, deadLetters, queues, worker, counts, lost>>

\* The client of Redis raises, before the job is on the queue or after it is
\* there, where a worker may have taken it by now.  The row fails, no dead
\* letter is written and the answer is 503.
DetectEnqueueFails(h) ==
  /\ \/ "enqueue_error" \in Faults /\ HandlerAt(h, "dispatch") /\ ~handler[h].seen
     \/ "enqueue_ambiguous" \in Faults /\ HandlerAt(h, "record")
  /\ row' = [row EXCEPT ![handler[h].run].status = "failed",
                        ![handler[h].run].error = "enqueue"]
  /\ Answered(h)
  /\ UNCHANGED <<unpublished, deadLetters, queues, worker, counts, history>>

\* Everything not committed is lost with the handler.
HandlerDies(h) ==
  /\ "api_dies" \in Faults /\ ~HandlerAt(h, "idle")
  /\ Answered(h)
  /\ UNCHANGED <<tables, queues, worker, counts, history>>

\* POST /internal/review/runs/{id}/publish and /sync look at no column.
Replay(s, r) ==
  /\ replays < MaxReplays /\ row[r].status # "unborn"
  /\ Enqueue(s, r)
  /\ replays' = replays + 1
  /\ UNCHANGED <<tables, handler, worker, created, requests, history>>

ReplayPublish(r) == Replay("publish", r)
ReplaySync(r)    == Replay("sync", r)

(***************************************************************************)
(* Workers.  A work-horse takes one job, runs its phase and, for detect    *)
(* and publish, enqueues the job of the next phase.                        *)
(***************************************************************************)
\* The worker lists its queues in this order and serves the first nonempty.
ServedBefore(s) ==
  [detect |-> {}, publish |-> {"detect"}, sync |-> {"detect", "publish"}][s]

FollowUp(s) == IF s = "detect" THEN "publish" ELSE "sync"

WorkerAt(w, pc) == worker[w].pc = pc

Busy(w) == ~WorkerAt(w, "idle")

WorkerGoes(w, pc) == worker' = [worker EXCEPT ![w].pc = pc]

JobEnds(w) == worker' = [worker EXCEPT ![w] = WorkerIdle]

TakeJob(w, s) ==
  /\ WorkerAt(w, "idle")
  /\ queues[s] # <<>> /\ \A b \in ServedBefore(s) : queues[b] = <<>>
  /\ worker' = [worker EXCEPT ![w] =
                  [pc |-> "begin", stage |-> s, run |-> Head(queues[s]),
                   loaded |-> "unborn", partial |-> FALSE]]
  /\ queues' = [queues EXCEPT ![s] = Tail(@)]
  /\ UNCHANGED <<tables, handler, counts, history>>

\* Detect commits the status running before it works; publish and sync only
\* load the row.
BeginDetect(w) ==
  /\ WorkerAt(w, "begin") /\ worker[w].stage = "detect"
  /\ row' = [row EXCEPT ![worker[w].run].status = "running"]
  /\ worker' = [worker EXCEPT ![w].pc = "work", ![w].loaded = "running"]
  /\ UNCHANGED <<unpublished, deadLetters, queues, handler, counts, history>>

BeginFollowUp(w) ==
  /\ WorkerAt(w, "begin") /\ worker[w].stage # "detect"
  /\ worker' = [worker EXCEPT ![w].pc = "work",
                              ![w].loaded = row[worker[w].run].status]
  /\ UNCHANGED <<tables, queues, handler, counts, history>>

\* The target after detect: the mode stays, the shas are the ones the review
\* system answered with.
Observed(t, head) == [t EXCEPT !.base = TRUE, !.head = head]

\* Detect and sync mark the decisions of remotely resolved threads resolved,
\* failed publications of any run among them.
SomeFailuresResolved == unpublished' \in SUBSET unpublished

\* Publish may leave failed publications of its run.
SomePublicationsFail(w) == unpublished' \in {unpublished, unpublished \cup {worker[w].run}}

DetectCommits(w) ==
  /\ WorkerAt(w, "work") /\ worker[w].stage = "detect"
  /\ \E head \in Heads :
        row' = [row EXCEPT ![worker[w].run].target = Observed(@, head)]
  /\ SomeFailuresResolved
  /\ WorkerGoes(w, "follow")
  /\ UNCHANGED <<deadLetters, queues, handler, counts, history>>

PublishCommits(w) ==
  /\ WorkerAt(w, "work") /\ worker[w].stage = "publish"
  /\ SomePublicationsFail(w)
  /\ WorkerGoes(w, "follow")
  /\ UNCHANGED <<row, deadLetters, queues, handler, counts, history>>

SyncCounts(w) ==
  /\ WorkerAt(w, "work") /\ worker[w].stage = "sync"
  /\ worker' = [worker EXCEPT ![w].pc = "counted",
                              ![w].partial = worker[w].run \in unpublished]
  /\ UNCHANGED <<tables, queues, handler, counts, history>>

\* Mutant: failed publications do not make the run partial.
SyncCommits_NeverPartial(w) ==
  LET r == worker[w].run IN
  /\ WorkerAt(w, "counted")
  /\ row' = [row EXCEPT ![r].status = Saved(r, worker[w].loaded, "success")]
  /\ SomeFailuresResolved
  /\ WorkerGoes(w, "cleanup")
  /\ UNCHANGED <<deadLetters, queues, handler, counts, history>>

\* Mutant: the sync job goes on to enqueue a follow-up like the other two.
SyncCommits_FollowedUp(w) ==
  LET r == worker[w].run
      outcome == IF worker[w].partial THEN "partial" ELSE "success"
  IN
  /\ WorkerAt(w, "counted")
  /\ row' = [row EXCEPT ![r].status = Saved(r, worker[w].loaded, outcome)]
  /\ SomeFailuresResolved
  /\ WorkerGoes(w, "follow")
  /\ UNCHANGED <<deadLetters, queues, handler, counts, history>>

SyncCommits(w) ==
  LET r == worker[w].run
      outcome == IF worker[w].partial THEN "partial" ELSE "success"
  IN
  /\ WorkerAt(w, "counted")
  /\ row' = [row EXCEPT ![r].status = Saved(r, worker[w].loaded, outcome)]
  /\ SomeFailuresResolved
  /\ WorkerGoes(w, "cleanup")
  /\ UNCHANGED <<deadLetters, queues, handler, counts, history>>

CleanupDeadLetters(w) ==
  /\ WorkerAt(w, "cleanup")
  /\ deadLetters' = {d \in deadLetters : ~d.aged}
  /\ JobEnds(w)
  /\ UNCHANGED <<row, unpublished, queues, handler, counts, history>>

\* Mutant: the follow-up is enqueued although the phase failed.
PhaseFails_FollowedUp(w) ==
  LET r == worker[w].run IN
  /\ "phase_error" \in Faults /\ WorkerAt(w, "work")
  /\ row' = [row EXCEPT ![r].status = Saved(r, worker[w].loaded, "failed"),
                        ![r].error = "phase"]
  /\ deadLetters' = deadLetters \cup Letter(r, worker[w].stage)
  /\ IF worker[w].stage = "sync" THEN JobEnds(w) ELSE WorkerGoes(w, "follow")
  /\ UNCHANGED <<unpublished, queues, handler, counts, history>>

\* Mutant: the error columns and the letter are written, the status is not.
PhaseFails_StatusKept(w) ==
  LET r == worker[w].run IN
  /\ "phase_error" \in Faults /\ WorkerAt(w, "work")
  /\ row' = [row EXCEPT ![r].error = "phase"]
  /\ deadLetters' = deadLetters \cup Letter(r, worker[w].stage)
  /\ JobEnds(w)
  /\ UNCHANGED <<unpublished, queues, handler, counts, history>>

\* An exception inside a phase, the job timeout among them: what the session
\* holds is committed with the failure, and no follow-up is enqueued.
PhaseFails(w) ==
  LET r == worker[w].run
      shas == IF worker[w].stage = "detect"
              THEN {row[r].target} \cup {Observed(row[r].target, h) : h \in Heads}
              ELSE {row[r].target}
  IN
  /\ "phase_error" \in Faults /\ WorkerAt(w, "work")
  /\ \E t \in shas :
        row' = [row EXCEPT ![r].status = Saved(r, worker[w].loaded, "failed"),
                           ![r].error = "phase", ![r].target = t]
  /\ deadLetters' = deadLetters \cup Letter(r, worker[w].stage)
  /\ IF worker[w].stage = "publish" THEN SomePublicationsFail(w)
                                    ELSE SomeFailuresResolved
  /\ JobEnds(w)
  /\ UNCHANGED <<queues, handler, counts, history>>

EnqueueFollowUp(w) ==
  /\ WorkerAt(w, "follow")
  /\ Enqueue(FollowUp(worker[w].stage), worker[w].run)
  /\ JobEnds(w)
  /\ UNCHANGED <<tables, handler, counts, history>>

\* Mutant: a refused follow-up is swallowed.
FollowUpEnqueueFails_Swallowed(w) ==
  /\ WorkerAt(w, "follow") /\ "enqueue_error" \in Faults
  /\ JobEnds(w)
  /\ UNCHANGED <<tables, queues, handler, counts, history>>

FollowUpEnqueueFails(w) ==
  /\ WorkerAt(w, "follow")
  /\ \/ "enqueue_error" \in Faults /\ UNCHANGED queues
     \/ /\ "enqueue_ambiguous" \in Faults
        /\ Enqueue(FollowUp(worker[w].stage), worker[w].run)
  /\ WorkerGoes(w, "mark")
  /\ UNCHANGED <<tables, handler, counts, history>>

\* Mutant: the run is marked, the letter forgotten.
MarkFollowUpFailure_NoLetter(w) ==
  LET r == worker[w].run IN
  /\ WorkerAt(w, "mark")
  /\ row' = [row EXCEPT ![r].status = "failed", ![r].error = "followup"]
  /\ JobEnds(w)
  /\ UNCHANGED <<unpublished, deadLetters, queues, handler, counts, history>>

\* A session of its own marks the run and leaves a dead letter.
MarkFollowUpFailure(w) ==
  LET r == worker[w].run IN
  /\ WorkerAt(w, "mark")
  /\ row' = [row EXCEPT ![r].status = "failed", ![r].error = "followup"]
  /\ deadLetters' = deadLetters \cup Letter(r, FollowUp(worker[w].stage))
  /\ JobEnds(w)
  /\ UNCHANGED <<unpublished, queues, handler, counts, history>>

\* RQ does not retry: the job ends with its work-horse.
WorkerDies(w) ==
  /\ "worker_dies" \in Faults /\ Busy(w)
  /\ lost' = lost \cup {worker[w].run}
  /\ JobEnds(w)
  /\ UNCHANGED <<tables, queues, handler, counts, accepted>>

DaysPass ==
  /\ "days_pass" \in Faults
  /\ deadLetters' = {[d EXCEPT !.aged = TRUE] : d \in deadLetters}
  /\ UNCHANGED <<row, unpublished, queues, handler, worker, counts, history>>

-------------------------------------------------------------------------------
HandlerStep(h) ==
  \/ \E t \in Requests : ReusePendingRun(h, t) \/ BuildRun(h, t)
  \/ InsertRun(h) \/ RefreshRun(h)
  \/ SkipDispatch(h) \/ PlaceDetectJob(h) \/ RecordJob(h)
  \/ DetectEnqueueFails(h)

WorkerStep(w) ==
  \/ \E s \in Stages : TakeJob(w, s)
  \/ BeginDetect(w) \/ BeginFollowUp(w)
  \/ DetectCommits(w) \/ PublishCommits(w) \/ SyncCounts(w) \/ SyncCommits(w)
  \/ CleanupDeadLetters(w)
  \/ PhaseFails(w)
  \/ EnqueueFollowUp(w) \/ FollowUpEnqueueFails(w) \/ MarkFollowUpFailure(w)

Next ==
  \/ \E h \in Handlers : HandlerStep(h) \/ HandlerDies(h)
  \/ \E r \in Runs : ReplayPublish(r) \/ ReplaySync(r)
  \/ \E w \in Workers : WorkerStep(w) \/ WorkerDies(w)
  \/ DaysPass

Spec == Init /\ [][Next]_vars

\* Every phase call has a timeout, so a live worker keeps taking and ending
\* jobs; nothing obliges clients, operators or handlers to act.
FairSpec == Spec /\ \A w \in Workers : WF_vars(WorkerStep(w))

-------------------------------------------------------------------------------
\* A job that will touch run r again: on a queue or in the hands of a worker.
HasJob(r) ==
  \/ \E s \in Stages : r \in JobsIn(s)
  \/ \E w \in Workers : Busy(w) /\ worker[w].run = r

\* A pending run that a request would be merged into without a new job (its
\* job id is recorded) still has a job that will finish it, unless the worker
\* died: the lookup in create_review_run_for_key plus the job_id test in
\* _enqueue_detect_job never swallow a request for a run nobody works on.
PendingRunHasJob ==
  \A r \in Runs : row[r].status \in Pending /\ row[r].job /\ r \notin lost => HasJob(r)

\* Once no job is left for a run it is not reported as a success while some of
\* its findings failed to publish: replays, duplicate jobs and syncs that count
\* before a later publish commits included (execute_sync_phase).
SuccessMeansPublished ==
  \A r \in Runs : row[r].status = "success" /\ ~HasJob(r) /\ r \notin lost
                   => r \notin unpublished

\* Every failure a worker reports leaves a dead letter of that run (the
\* except blocks of the phases, _mark_followup_enqueue_failure).
WorkerFailuresLeaveLetter ==
  DeadLetterEnabled /\ "days_pass" \notin Faults =>
    \A r \in Runs : row[r].status = "failed" /\ row[r].error # "enqueue"
                     => \E d \in deadLetters : d.run = r

\* The runbook: an external error or an enqueue failure that retries do not
\* cure stays in dead_letter_records.
EveryFailureLeavesLetter ==
  \A r \in Runs : row[r].status = "failed" => \E d \in deadLetters : d.run = r

\* With one handler at work at a time (the event loop that serves note hooks)
\* a run never has two jobs, queued or in a worker, so no two of its phases
\* overlap on any number of workers (_enqueue_detect_job together with the
\* follow-up enqueues of the jobs).
OneJobPerRun ==
  /\ \A s, t \in Stages : \A i \in DOMAIN queues[s], j \in DOMAIN queues[t] :
        queues[s][i] = queues[t][j] => s = t /\ i = j
  /\ \A w \in Workers : Busy(w) => \A s \in Stages : worker[w].run \notin JobsIn(s)
  /\ \A w, v \in Workers : Busy(w) /\ Busy(v) /\ worker[w].run = worker[v].run => w = v

\* The job that carries the run: on a queue or in the hands of a worker.
PhaseOf(r) ==
  IF HasJob(r)
  THEN CHOOSE s \in Stages : \/ r \in JobsIn(s)
                             \/ \E w \in Workers : Busy(w) /\ worker[w].run = r
                                                    /\ worker[w].stage = s
  ELSE "none"

Lifecycle == INSTANCE RunLifecycle WITH
  status <- [r \in Runs |-> row[r].status],
  phase  <- [r \in Runs |-> PhaseOf(r)]

\* Under the same intake the pipeline implements the lifecycle of RunLifecycle:
\* no phase is skipped, repeated or entered after a failure, whichever worker
\* takes the jobs and wherever phases and enqueues fail, and no late job brings
\* an ended run back to running or turns a failure into a success.
RunsFollowLifecycle == Lifecycle!Spec

\* Under the same intake two runs of one target never wait together: the
\* "best-effort" dedupe is exact for note hooks until a worker starts the run.
NoTwinQueuedRuns ==
  \A r, s \in Runs : row[r].status = "queued" /\ row[s].status = "queued"
                      /\ row[r].target = row[s].target => r = s

\* A run the API answered for ends, whatever fails except the workers.
AcceptedRunsEnd == \A r \in Runs : r \in accepted ~> row[r].status \in Terminal

(***************************************************************************)
(* What makes PendingRunHasJob inductive.                                  *)
(***************************************************************************)
\* Rows, jobs and handlers agree on which runs are in the table.
OnlyInsertedRunsAreUsed ==
  /\ \A r \in Runs : row[r].status = "unborn" => ~row[r].job
  /\ \A r \in Runs : r > created => row[r].status = "unborn"
  /\ \A s \in Stages : \A r \in JobsIn(s) : row[r].status # "unborn"
  /\ \A w \in Workers : Busy(w) => row[worker[w].run].status # "unborn"
  /\ \A h \in Handlers :
        IF HandlerAt(h, "insert")
        THEN row[handler[h].run].status = "unborn" /\ handler[h].run <= created
        ELSE ~HandlerAt(h, "idle") => row[handler[h].run].status # "unborn"
  /\ \A g, h \in Handlers : HandlerAt(g, "insert") /\ HandlerAt(h, "insert")
                             /\ handler[g].run = handler[h].run => g = h

\* Worker w will write a terminal status to run r or pass the run on: the
\* write of a session that loaded a pending status is never skipped.
Carries(w, r) ==
  /\ Busy(w) /\ worker[w].run = r
  /\ \/ worker[w].pc \in {"begin", "follow", "mark"}
     \/ worker[w].pc \in {"work", "counted"} /\ worker[w].loaded \in Pending

Carried(r) == \/ \E s \in Stages : r \in JobsIn(s)
              \/ \E w \in Workers : Carries(w, r)

\* The job of the run was placed, if not recorded yet.
JobPlaced(r) == \/ row[r].job
                \/ \E h \in Handlers : HandlerAt(h, "record") /\ handler[h].run = r

PendingRunsAreCarried ==
  \A r \in Runs : row[r].status \in Pending /\ JobPlaced(r) /\ r \notin lost => Carried(r)

PipelineInv == TypeOK /\ OnlyInsertedRunsAreUsed /\ PendingRunsAreCarried
===============================================================================
