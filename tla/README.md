# review_system in TLA+

review_system reviews GitLab merge requests: a person mentions `@review-bot` in
a note, a worker finds rule violations in the diff with the help of
review-engine, publishes them as inline discussions, and keeps the discussions
in step with later runs. This directory specifies the parts of it that are hard
to test, model-checks them on small instances with TLC and proves the main
invariants for every instance with TLAPS.

## 1. Inventory of the system

| Part | State | Operations | Talks to | Hard because |
|---|---|---|---|---|
| Run lifecycle (`api/main.py`, `worker.py`, `queueing.py`, `review_runner.py`) | `review_runs`, `dead_letter_records`, three RQ queues, jobs at hand | create or reuse a run, enqueue detect, the detect, publish and sync jobs, failure paths, replays, dead-letter cleanup | Redis, Postgres, everything below | sessions in handlers and jobs read a row and write it later; Redis can fail or answer ambiguously; work-horses die; RQ does not retry |
| Findings and threads (`review_runner.py`) | `finding_decisions`, `publication_states`, `thread_sync_states`, `finding_lifecycle_events` | reconcile, decide, publish or update or reopen, auto-resolve | GitLab discussions, people | runs overlap; remote effects precede the commit; queries do not see unflushed changes (`autoflush=False`) |
| Candidate preparation and batch selection | none (a phase's local data) | draft, verify, same-line filter, caps, round robin over files | providers | interacting caps, ordering |
| Feedback (`_ingest_feedback`, `_feedback_signal`) | `feedback_events` | ingest by event key, latest command wins | GitLab notes | late and equal timestamps, unique keys |
| Reports (`build_state`, `build_full_report`, notes) | general notes in GitLab | classify findings into sections, upsert a note | GitLab | the note is found, then written |
| Webhook and commands (`api/main.py`) | buckets of the rate limiter | authenticate, rate-limit, parse a command | run lifecycle, reports | window boundaries |
| GitLab adapter (`review_systems/gitlab.py`) | a cache per merge request | discussions, notes, diffs, statuses with retry and backoff | GitLab REST | retries of non-idempotent calls, paging, stale cache |
| Engine client (`clients/engine_client.py`) | circuit breaker, in the memory of a process | review a diff with retries | review-engine | breaker state against forked work-horses |
| Providers (`providers/`) | whether the primary builds drafts | draft and verify a comment, fall back | OpenAI | one failing step of several |
| Analytics | none | outcomes, rule weights, wrong-language counts | tables above | read only |
| Detect inputs (`execute_detect_phase`, `language_registry.py`) | none (local data of a phase) | fetch meta, diff and files, wait for the head, number lines, tell languages | GitLab, engine | the branch moves between fetches; two registries |
| Verdicts (`_score_candidate`, `_suppression_reason`, rule weights) | decisions, thread rows, feedback of earlier runs | score, penalise, suppress | tables above | the outcome feeds back into the scores |
| review-engine | rule packs, Chroma collections, codebase index | ingest, resolve and select rules, retrieve, rerank | review-bot | requests in threads rebuild the store without a lock; rules are resolved twice |
| review-platform, `ops/` | harness and scripts | | | not part of the deployed service |

One API process serves the hooks. The note-hook handler is `async` and runs its
synchronous body in the event loop, so note hooks follow one another, while
`POST /internal/review/runs` runs in the thread pool and may interleave with
them. One worker container serves the queues `detect`, `publish` and `sync` in
this order of priority and forks a work-horse for every job. Settings at their
defaults: dead letters on, `resolved_unchanged_resurface` off, reminders off.

What makes each part correct, in short: no request is merged into a run nobody
will finish, and every accepted run ends; a finding that counts as published is
on record and visible, once; rows agree with the discussions after a sync;
history tells what happened; a batch respects its caps and wastes no slot; a
breaker stops calls to a dead engine and lets them through again. The full list
of what can go wrong, with its line, is `hazards` in `PROJECT.json`.

## 2. Plan

Done: `ReviewRuns` with its abstract specification `RunLifecycle`,
`FindingThreads` with `ThreadReports`, `PublishBatch`, and the eleven
components around them that `MCParts` checks. What is left, in order:

1. `FindingThreads`: the scope of incremental runs (`compared_from_sha`) and
   the abstract specification of a discussion (open, resolved, replaced, and
   who moved it), with its refinement proved.
2. The outcomes that analytics reads from lifecycle events and feedback.

## 3. What is modelled

| Module | Code | One step is |
|---|---|---|
| `ReviewRuns` | `api/main.py`, `worker.py`, `queueing.py`, phases of the runner | what happens between two points others can see |
| `RunLifecycle` | the abstract life of a run | a change of status or phase |
| `FindingThreads`, `ThreadReports` | reconcile, decide, publish, sync, reports | a phase, or what a person does |
| `PublishBatch` | candidates, selection and publication loops | a preparation, one turn of the loop, one candidate |
| `FeedbackLog` | `_ingest_feedback`, `_feedback_signal` | a reply, an edit, a listing, the lookups, the commit of a phase |
| `EngineCalls` | `engine_client.py` | an attempt of a call, a phase that starts |
| `GitLabCalls` | operations of `gitlab.py` that write | an HTTP request |
| `DetectInputs` | `execute_detect_phase` up to its inputs, the head of a note hook | a fetch |
| `WebhookIntake` | rate limiter, secret, events, commands | a hook |
| `RuleVerdicts` | score, penalties, rule weights, suppression | a run, or what a person does |
| `ReviewUnits` | numbering of hunks, pieces, anchors, keys | a line read, a hunk reviewed |
| `DraftPipeline` | providers, fallback, check of a draft | a draft, a check |
| `RuleStore` | `rebuild_language`, `_ensure_runtime_data`, the query | one call of Chroma |
| `RuleCatalog` | rule resolution, query, rerank | a review, an edit of the files, an ingest |
| `Languages` | the two language registries | a file, a hunk |

`Parts` puts the last eleven side by side and `MCParts` gives them small
instances (see below).

### ReviewRuns

State: `row` (status, whether `job_id` is set, target, error columns of each
`review_runs` row), `unpublished` (runs with `failed_publication` decisions),
`deadLetters`, `queues`, the local state of each API handler and each worker,
counters for the bounds, and two history variables (`accepted`: runs the API
answered for; `lost`: runs whose job died with its worker).

A step is what happens between two points where another process can see or
change shared state: the lookup of a pending run, the commit of a new row,
`session.refresh`, the enqueue, the commit of `job_id` or of the failed status;
for a worker, taking a
job, the commit of `running`, the commit that ends a phase, the enqueue of the
follow-up, the separate session of `_mark_followup_enqueue_failure`, the
cleanup. `Saved` is the unit of work of the ORM: a status equal to the one the
session loaded is not written. The comparison of targets is exact, including
that detect overwrites the shas (`Observed`), which is why a request may miss
the running run of its head.

Faults, each enabled by a constant: `api_dies`, `worker_dies` (also: the commit
of an except branch fails), `enqueue_error`, `enqueue_ambiguous` (the job is
stored although the client raised; the status `failed` is written in a later
step, so a worker may take the job in between), `phase_error` (any exception in a phase,
RQ's job timeout included), `days_pass` (dead letters reach the cleanup's age).

### FindingThreads

State: the decision of every run about one finding, the rows of
`thread_sync_states`, the discussions in GitLab, the last lifecycle event of
each thread, the publish and sync queues. A phase is one step, because the one
worker is the only writer of these tables and what people do to a discussion
during a phase commutes with it; a phase that raises or dies has its own
actions (`DetectFails`, `PublishStops`, `SyncStops`), which keep the remote half
of its work. Operators that read unprimed variables are the queries of a phase:
the session does not flush before a query, so they see the tables as they were
at the start. Choices left free: what detect decides, whether the candidate is
selected, dropped or held back, the body of the comment, and which of several
rows or decisions with equal `updated_at` the database returns first.

### PublishBatch

State: the findings of a diff, numbered by score, with their file, rule, line and
draft title (`kind`) and what review-bot knows about their threads (`history`),
the decisions of the run at hand, and the local data of
`_select_batch_candidates` and of the publish loop. `Prepare` is
`_prepare_publication_candidates` as a whole; `TakeTurn` is one pass of the loop
over `active_files`, with the queues of the files as the set `pending`;
`Publish` handles one candidate of the batch, `Sync` resolves the threads of
findings the run suppressed or failed on. Runs follow one another. The initial
histories are what earlier runs, edits of the branch and people may leave; equal
scores (ordered by creation time in the code) are left out, and so are findings
without a category on a shared line, which the same-line filter ignores.

`CapsHold`, `NoSlotWasted` and `NoFileMonopolises` say declaratively what the
loop promises: limits, maximality with updates before new findings, and turns.

### RunLifecycle, and how ReviewRuns implements it

`RunLifecycle` is what a reader of a `review_runs` row may rely on: a run waits,
goes through detect, publish and sync, each once and in this order, and ends
once. `ReviewRuns` maps its row status to `status` and, by `PhaseOf`, the job on
a queue or in the hands of a worker to `phase`; `RunsFollowLifecycle` is the
specification of the abstract module under this mapping, and a theorem
(`PipelineRefinesLifecycle`). It holds where note
hooks are served one at a time and nothing is replayed; with racing handlers or
a replay a run has two jobs and does enter a phase twice.

### ThreadReports

No state of its own: for every state of `FindingThreads` and every run it
computes the section of the full report (`_classify_full_report_section`,
`_classify_backlog`, `_current_backlog_entries`) that lists the finding. A view
holds what the report reads beside decisions and rows: the body rendered now, the
commands in replies, reminders.

### The eleven parts

- **FeedbackLog**: `notes` is what GitLab shows, `rows` the table of events, a
  phase lists, looks the keys up and commits the events it found new, discussion by
  discussion (`Listings`); a commit that hits the unique constraint rolls the
  phase back. The latest command is the greatest by `(occurred_at, event_key)`
  (`Latest`).
- **EngineCalls**: `breaker` is `_engine_circuit` of the process that runs the
  phase; `deployment` tells a forked work-horse, which starts with the closed
  breaker of its parent, from one long-lived process.
- **GitLabCalls**: an operation is the requests it sends, one step each; a
  request may be refused, or be carried out and yet end in no answer or in an
  error status, and is retried in each case; `result` is what the caller is told.
- **DetectInputs**: `branch` moves with pushes, `mr` follows; the fetches of one
  attempt see what holds at their time, and a note waits for its head.
- **WebhookIntake**: `admitted` keeps every accepted hook, to compare windows
  with the bucket of the code.
- **RuleVerdicts**: one rule over many runs: scores in ten-thousandths, the
  weight from what became of the findings, and the reasons of suppression in
  their order. What a run suppressed or failed to publish has its open thread
  resolved by the sync of the same run, unless the run is incremental and spares
  the file.
- **ReviewUnits**: `counter` is the number the program gives the next line,
  `actual` the number it has. Kinds of lines include what the program misreads.
  Of findings that share a human key the first is kept.
- **DraftPipeline**: what the stub drafts for each topic, what a model may
  answer, the fallback for the rest of a job, the check and the wordings of
  which `_normalize` makes reasons.
- **RuleStore**: the three collections of one language, active, reference and
  excluded, are listed, then deleted one after another, then created and filled
  one after another, each call a step of a thread. An ingest may fail on a
  collection that another one deleted in between, and leaves what it has done so
  far: the active collection may be missing with no ingest under way, which the
  next review finds and makes good by ingesting. Failures in the other languages
  of the same rebuild are left out. `met` and `broken` are history variables that
  tell which empty answers have an excuse.
- **RuleCatalog**: `files` says what each rule is under each policy by now,
  `store` what was ingested; `Before` is the comparison of the reranker, and the
  candidates may come in any order it leaves open (`Rankings`). A request has
  packs, policy, context and dialect, and each of them filters (`Selected`);
  scores are hundredths, and terms in common may weigh as much as a hint.
- **Languages**: both registries as functions of what their tables can tell
  apart of a file; the tokens of one table are one token. The profiles and tokens
  of both are one definition (`Runtime`), since the tables were found equal: the
  order of the languages and the places of YAML are compared, while a token that
  changed in one registry alone would not be noticed. A file named just `.sql` has
  an extension for the engine (`endswith`) and none for the bot
  (`Path.suffix`); the model has no such names.

They share no state, so `Parts` takes them side by side: the first state picks
one, `Off` gives the variables of the others no value, and `Next` is the
disjunction of their next-state relations. This says no more than eleven
separate specifications would, and lets one run check them all.

## 4. What is checked

| Run | Instance | Shows |
|---|---|---|
| `runs_shared` | 2 handlers, 1 worker, 1 target, 2 runs, 2 requests, 1 replay, all faults but ageing | `PendingRunHasJob`, `SuccessMeansPublished`, `WorkerFailuresLeaveLetter`, `TypeOK` |
| `runs_serial` | 1 handler, 2 workers, 2 heads, 2 runs, 3 requests | `OneJobPerRun`, `NoTwinQueuedRuns`, `RunsFollowLifecycle` |
| `runs_liveness` | 2 handlers, 2 workers, 1 run, 2 requests, no symmetry | `AcceptedRunsEnd` under `FairSpec` |
| `runs_letters` | 1 handler, 1 worker | violated: `EveryFailureLeavesLetter` |
| `threads_faults` | 2 anchors, 2 bodies, 3 runs, 2 threads, 2 waiting runs, 2 human acts, 1 replay, all faults | `PublishedIsTracked`, `ResolutionsRecorded`, `SyncMirrorsRemote`, `TypeOK` |
| `threads_one` | 1 anchor, 4 runs, 3 human acts, 1 replay, refused publications, failing phases | `OneDiscussion`, `NothingGoesUnreported` (module `ThreadReports`) |
| `threads_overlap` | 1 anchor, 2 runs, no fault | violated: `AutoResolvedMeansGone` |
| `threads_history` | 1 anchor, 2 runs, 1 human act, no fault | violated: `HistoryTellsState` |
| `batch_choice` | 4 findings, 3 files, 3 rules, new, moved or unchanged; 3 slots, 2 per file, 2 per rule | `CapsHold`, `NoSlotWasted`, `NoFileMonopolises`, `TypeOK` |
| `batch_runs` | 3 findings, 2 files, 2 rules, a shared line, 2 titles; 2 slots, 2 per file, 1 per rule; 4 runs, 1 setback | `OneCommentPerSpot`, `BacklogDrains` |
| `batch_skipped` | 1 finding whose anchor moved | violated: `SkippedTakesNoSlot` |
| `parts` | the eleven parts, instances below | 16 invariants, 2 action properties and `EngineIsHeardAgain` |

What `parts` shows, and on which instance:

| Part | Instance | Properties |
|---|---|---|
| feedback | 2 discussions, 2 replies in 2 moments, 1 edit, 2 phases | `RepliesCountOnce`, `LastWordRules` |
| engine | threshold 5, recovery 2 ticks, 1 retry, 2 calls | `WorkHorsesAreNeverRefused`, `EngineIsHeardAgain` |
| gitlab | 1 retry, 3 operations, 1 deletion | `AnswersFitEffects`, `NewestNoteIsCurrent` |
| inputs | 2 retries, 3 heads | `NoteHeadIsReviewed` |
| webhook | 2 clients, limit 2, window 2, 3 ticks | `RateHolds` |
| verdicts | 2 findings of one rule, weight from 2 on | `StrongFindingsSurvive`, `AllowNeverHurts` |
| units | headers 1 and 5, pieces of 2, buckets of 3, 3 lines, 2 hunks | `CommentsHitTheirLine` |
| drafts | 2 findings, 3 topics, 2 jobs, every pair of providers | `ChecksFailOpen`, `OutageCostsOneDraft` |
| store | 2 requests at a time, 3 collections, rules for active and reference | `NoneIsLeftEmpty`, `EmptyAnswersHaveACause` |
| catalog | 3 rules in 2 packs, one with a dialect and one with a context, two candidates, one result | `ExcludedStaysSilent`, `HintsAreHeard` |
| languages | a file of every kind the tables tell apart | `RegistriesAgree` |

**Bounds.** Two handlers are enough for every race of the dedupe, which is
between one session and "the others"; two runs let a request meet a run of its
target and a run of another head; one replay already doubles a job of a run.
`MaxThreads = 2` lets a finding be replaced once or have a discussion nobody
tracks; two waiting runs are the shortest overlap, and `threads_overlap` shows
that it matters. `MaxHuman = 3` resolves, reopens and resolves again.
In `batch_choice` three files are the fewest in which one can get two slots before
another gets any, four findings exceed every limit by one, and no limit is
implied by another. In `batch_runs` four runs are one for each finding and one
for the setback.
In `parts` the breaker keeps its deployed threshold of 5; two phases and two replies overlap in every way; a
bucket of 3 lines puts findings into one, two and the first bucket; two
of three rules are candidates and compete for the only place, a hinted one
against a higher tier, a full match and a more specific rule; two requests
suffice for a rebuild to fail on a collection the other one deleted.
Deadlock is not checked: when requests, runs and replays are used up the
system rests.

**Conditions that matter.** `SuccessMeansPublished` is stated for the deployed
single worker: with two workers a sync may count before a replayed publish
commits. `OneJobPerRun`, `NoTwinQueuedRuns` and `RunsFollowLifecycle` are for one
handler at a time and neither replays nor ambiguous enqueues; each fails as
soon as one of these is allowed. `OneDiscussion` fails if a resolve is refused
and a publish replayed before the next reconcile, or if an answer is lost.
`BacklogDrains` needs a diff that stands still and excludes open threads whose
anchor moved under the same body: such a thread takes a slot in every run
(`batch_skipped`), and as many of them as there are slots keep every new finding
waiting. `OneCommentPerSpot` is about one run: in the next run the winner's thread
is backlog and no longer stands in the way of the finding it suppressed.

**Fairness.** `WF_vars(WorkerStep(w))` for each worker and nothing else: the
worker loops over its queues and every call in a phase has a timeout, RQ
bounding the whole job. Handlers, clients, operators and people may stop.
`worker_dies` is off in `runs_liveness`: with it a run may stay `running`.
`EngineCalls` has weak fairness of `Serve` (the worker takes the next detect job
and a call ends, each attempt having a timeout; that jobs keep coming is
assumed, since without calls nobody is there to hear) and of `TimePasses`; whether the engine is up is
left free, so that `EngineIsHeardAgain` speaks of an engine that is back for good.

**Violations.** Each of the four contradicts something the repository says
(`findings` in `PROJECT.json`): a detect job that cannot be enqueued leaves no
dead letter; the sync of an older run resolves the discussion a newer run has
just opened and marks its decision resolved (with the default settings an
unchanged finding then stays in the backlog); the bot's own reopening is
missing in the lifecycle history; what is recorded as skipped is not the
unchanged thread, and it takes a slot.

Every property of a passing run has a mutant in its module (`Name_What`): a
definition with a plausible bug that makes the run fail.

**What else the code does.** Met while modelling, so that the properties above
are stated around it. Only the first contradicts a document; the others are
denied by none.

- The full report lists nowhere an open discussion that a person reopened and the
  latest run did not find, although `docs/API_CONTRACTS.md:264` says that what
  remains open is listed without having been observed again: the backlog
  (`review_runner.py:2905`) leaves it to the view of the run, which does not have
  it. It lasts when the reopening is first seen by the sync of that run, which does
  not resolve a row it still reads as resolved; `NothingGoesUnreported` exempts it.
- A reply edited after it was ingested keeps its old command: its key is in the
  table. Of two phases that insert the same event the second fails as a whole.
- The publish phase takes the diff refs of its own time for lines of the head
  that detect saw.
- Every failed request to GitLab is retried, 4xx and POST included; a retried
  POST may leave a second discussion or note. `open_discussion` turns any error
  status into the non-retryable `inline_anchor`.
- The breaker of the engine client never opens in a forked work-horse; where it
  does, HALF_OPEN lets all requests through.
- The rate limiter counts over a closed window, so it is a little stricter than
  its limit, never laxer.
- Added text that begins with `++` does not advance the line counter, and text
  that `str.splitlines` cuts advances it twice. A hunk that adds only blank lines
  may get its comment on one of them.
- The human key is taken before the reasons to suppress a finding are looked at,
  so a finding that is suppressed may hide a later one of its title that could
  be published: one within the same 64 lines, and one without a line, which has
  bucket 0, any in lines 1 to 63.
- After an outage of the model the stub drafts for the rest of the job, drops
  what it calls general remarks, and the sync resolves their open discussions;
  so does the sync of a run whose publication failed.
- A replayed sync of a run whose detect failed resolves every open thread.
- A discussion replaced after an anchor change stays `stale` for good.
- Overlapping ingests can fail half-way and leave the active collection missing
  until the next review or ingest.
- A crash between the creation and the filling of a collection leaves an empty
  one that `has_runtime_data` accepts until someone ingests.
- Rule files edited after an ingest take effect partly: what they exclude is
  silent at once, what they add is not found. The store is resolved under the
  policy of the default profile.
- The registries differ for special names in other spelling, and the bot takes
  any file in workflow, chart and manifest directories for YAML.
- The full report lists nowhere a `bot:later` finding that never had a thread.

## 5. What is proved

Every invariant and action property of the passing runs is a
theorem for all values of the constants, from the assumptions named in the
modules and the hypotheses below; so is that `ReviewRuns` implements
`RunLifecycle`. The eight modules of proofs:

| Module | About |
|---|---|
| `ReviewRuns_proofs` | the pipeline with any handlers, workers and faults |
| `SerialRuns_proofs` | the pipeline where requests are served one after another |
| `RunLifecycle_proofs` | the abstract life of a run |
| `FindingThreads_proofs` | a finding, its discussions and the reports |
| `PublishBatch_proofs` | preparation, selection, publication, backlog |
| `DraftPipeline_proofs`, `RuleStore_proofs` | the invariants of two of the parts |
| `Parts_proofs` | the theorems about the eleven parts |

**Hypotheses.** A theorem that is not about every instance says so in its
statement, `Hypothesis => (Spec => ...)`:

| Hypothesis | What it says | Why the code justifies it |
|---|---|---|
| `OneWorker` | there is at most one worker | one worker container is deployed |
| `SerialIntake` | one handler, no replay, handlers live, an enqueue that fails has stored nothing | note hooks run in the event loop; the property is false without any of the four, see the conditions in section 4 |
| `AnchorStays` | the finding has one anchor; no lost answer, refused resolve or death of a worker | the case in which one discussion is promised; `threads_one` checks the same instance |
| `DiffStands` | no resurfacing; no history with an open thread whose anchor moved under the same body | resurfacing is off by default; the excluded history is the finding of `batch_skipped` |
| `RepliesSilence` | the limit of ignored replies is not zero | the default is 2 (`config.py:87`); at 0 every finding is suppressed |
| `RepliesCostLittle` | a reply costs at most 0.08 | the default is 0.05 (`config.py:86`), and to be allowed earns 0.08; above it an allowing reply can suppress |

**`ReviewRuns_proofs`**, from `ConstantsAssumption`.

| Theorem | Property | Argument |
|---|---|---|
| `TypeCorrect` | `TypeOK` | inductive as it stands |
| `PendingRunsHaveJobs` | `PendingRunHasJob` | see below |
| `WorkerFailuresLeaveLetters` | `WorkerFailuresLeaveLetter` | `NoneFailedSilently`: no run is failed without a letter unless days passed; `LettersFollow`: a worker about to mark a failure writes the letter in the same session |
| `SuccessesArePublished` (`OneWorker`) | `SuccessMeansPublished` | `FailuresAreLookedAt`: a run with failed publications is no success, since its sync counts them; `SessionIsCurrent`: with one worker nobody writes the row behind a session, so that a skipped write (`Saved`) skips nothing |

`PendingRunHasJob` is not inductive: a worker may hold a job and still leave the
run pending, if its session loaded a terminal status and skips the write. The
invariant `PipelineInv` adds which runs are in the table
(`OnlyInsertedRunsAreUsed`) and says that a pending run whose job was placed is
*carried*: on a queue, or held by a worker at a step that still hands the run
on, or inside a phase with a pending status loaded, whose write cannot be
skipped (`PendingRunsAreCarried`). It needs `JobPlaced` instead of `job`, since
the job id is committed after the job is on the queue. Handler steps, worker
steps about the run, and worker steps about other runs are separate lemmas.

**`SerialRuns_proofs`**, for any number of workers, runs and requests, under
`SerialIntake`: `RunsHaveOneJob` (`OneJobPerRun`), `QueuedRunsHaveNoTwin`
(`NoTwinQueuedRuns`) and `PipelineRefinesLifecycle` (`RunsFollowLifecycle`). The
invariant `SerialInv` has five parts: no job is twice on the queues or with the
workers (`Apart`); a run that has a job was given one (`JobsWerePlaced`), so
that a new run has none; the handler's place agrees with the last row inserted
(`RequestsInOrder`); a run that waits for detect and one that is running are
where their status says (`StatusFitsJob`). Without the last a sync that ends
could be the second job of a run that another one has ended. The refinement
goes step by step: `Moves` gives status and phase of the one run a step is
about, before and after, `Allowed` is the list of the pairs that `RunLifecycle`
permits, and each action of a handler, a worker and of the faults is shown to
make an allowed move of its run and none of the others. Fairness is not part
of the abstract specification. `EndedRunsStayEnded` (`RunLifecycle_proofs`) is
what a reader gets from it: an ended run keeps its outcome and enters no phase.

**`FindingThreads_proofs`**, for any number of runs, anchors, bodies,
discussions, replays and human acts.

| Theorem | Property | Argument |
|---|---|---|
| `ThreadTypes` | `TypeOK` | inductive as it stands |
| `PublishedStaysTracked` | `PublishedIsTracked` | a decision and its row are written by one commit and never deleted |
| `SyncTellsTheTruth` | `SyncMirrorsRemote` | an action property, from the types: what `Synced` writes for each result of a resolve |
| `ResolutionsAreRecorded` | `ResolutionsRecorded` | every action that makes a row resolved also writes the event; no other writes an event of a resolved thread |
| `FindingsHaveOneDiscussion` (`AnchorStays`) | `OneDiscussion` | `KnownDiscussion`: a discussion has a row that publish finds, which is open or resolved, and there is one; publish therefore updates or reopens it |
| `ReportsAreComplete` | `NothingGoesUnreported` | by cases over decision and row; with the types alone, since it is about every state they allow |

**`PublishBatch_proofs`**, for any number of findings, files and rules, any
history and all settings of at least one.

| Theorem | Property | Argument |
|---|---|---|
| `BatchTypes` | `TypeOK` | `BatchShape` and the local data of each step (`Columns`, `Choosing`, `Outcome`) |
| `BatchesWithinLimits` | `CapsHold` | `WithinLimits`: the queues hold findings; every limit is checked against the batch itself. `TurnTakesOne`: a turn appends at most one admissible candidate; `OneMore` counts what that adds |
| `SlotsAreUsed` | `NoSlotWasted` | `LeftOut`: what the loop has dropped is no longer admissible for candidates of its own or a better group, and what is admissible is still queued |
| `FilesTakeTurns` | `NoFileMonopolises` | `EvenRounds`: within a round the active files that had their turn are one ahead of those that still wait |
| `OneCommentEach` | `OneCommentPerSpot` | `SpotsKept`: the same-line filter leaves one finding of a line and category among the candidates, and the batch is of candidates |
| `BacklogsDrain` (`DiffStands`) | `BacklogDrains` | `Drains`: the findings done and the setbacks outnumber the runs that ended; a run that ends has put at least one finding into `Done`, or there was none left |

**`Parts_proofs`**, from `PartsAssumption`. Each theorem has an invariant of the
part, three lemmas (it holds at the start, every step keeps it, it implies the
property), and is lifted to the composition.

| Theorem | Property | Invariant, and why it is needed |
|---|---|---|
| `PartsTypesHold` | `PartsTypeOK` | a lemma for each part. Of the inputs and the drafts the type invariant is inductive; the others need the invariant of the part: `attempt` counts down a job only if a call under way is one of those left (`EngineInv`), what is found in a patch has the fields of a finding because its lines were read (`HunkInv`), the times in a bucket are not ahead of the clock because they end the log (`HooksInv`), and the languages are typed by what the bot inferred (`MatchInv`) |
| `RepliesAreCountedOnce` | `RepliesCountOnce` | `FeedbackInv`: the events of a phase and the rows are of replies (`EventsFit`, `RowsFit`) and none is there twice, so that a commit that passes the unique constraint adds other replies |
| `LastWordIsHeard` | `LastWordRules` | `FeedbackInv`; the latest of the rows by `(at, id)` is then the latest of the replies, whatever the order of insertion |
| `ForkedCallsAreAdmitted` | `WorkHorsesAreNeverRefused` | `EngineInv`: the breaker of a work-horse is new, or its phase is over; the property alone would allow a count of one to be carried into a call |
| `AnswersFit` | `AnswersFitEffects` | `GitLabInv`: what is still to be asked (`Plan`) and how many requests took effect and failed all the same, for the first and the second request of an operation |
| `WrittenNotesAreNewest` | `NewestNoteIsCurrent` | `GitLabInv`: an edit is of a note after which all are deleted (`NewerThanRest`) |
| `NotesGetTheirHead` | `NoteHeadIsReviewed` | `HeadInv`: what was fetched last is what is reviewed, and an older head is settled for only when the retries are used up |
| `RateIsKept` | `RateHolds` | `HooksInv`: the bucket is the end of the log of admitted hooks and what left it is older than a window (`BucketFits`); a hook and the one `Limit` after it are more than a window apart (`Spaced`) |
| `StrongFindingsLast` (`RepliesSilence`) | `StrongFindingsSurvive` | `VerdictInv`: a command comes with a reply; then arithmetic over the weights |
| `AllowingNeverHurts` (`RepliesCostLittle`) | `AllowNeverHurts` | `VerdictInv`; every term of the score is compared before and after the reply |
| `CommentsAreOnTheirLine` | `CommentsHitTheirLine` | `HunkInv`: unless something was misread the counter is the number of the next line and every line read has its number; `ReportInv` for what was found in earlier pieces |
| `ChecksOnlyDropOnAnswers` | `ChecksFailOpen` | `CInv`: the tables are over the findings; a draft never writes a reason of a check |
| `OutagesAreCheap` | `OutageCostsOneDraft` | `OneFailure`: without a fallback a running job has seen no failure |
| `NoOverlapLeavesItEmpty` | `NoneIsLeftEmpty` | `QInv`: a collection that is empty and that nobody will fill (`WillFill`) is left from a crash, and whoever is past its deletion is gone: no ingest goes on to write before it has deleted what is left (`LeftoversAreDoomed`) |
| `LoneReviewsFindRules` | `EmptyAnswersHaveACause` | `LInv`: while a review has met nobody, no one else ingests, and the collections it relies on in each step are there (`Undisturbed`); with `QInv` the active one is then not empty |
| `ExcludedRulesStaySilent` | `ExcludedStaysSilent` | `CatalogInv`: rules are selected again by the files of now |
| `HintedRulesAreHeard` | `HintsAreHeard` | `CatalogInv`; whatever ranking the comparison leaves open, what comes before a hinted rule is of a higher tier, or of its tier, a full match and as similar (`HintedFirst`) |
| `RegistriesGiveTheSame` | `RegistriesAgree` | `MatchInv`: what was resolved is what the bot matches; the two searches agree on every kind of file, and a hunk shows a part of what the bot saw |

**Only model-checked.** `AcceptedRunsEnd` and `EngineIsHeardAgain`: liveness under
fairness and `ENABLED` are out of the prover's reach. The four properties that
runs show violated.

What the proofs asked of the models: an order is stated by its comparison and
not by a function that sorts, since what a recursive sort computes can only be
shown by induction over data. So `RuleCatalog` lets a ranking be any listing of
the rules that the comparison leaves open (`Rankings`), the ties of which the
code breaks by weights outside the model, and `FeedbackLog` keeps the events of a
phase as a set with the order in which they are inserted beside it (`Listings`).
`StrongFindingsSurvive` and `AllowNeverHurts` hold for the deployed settings and
not for all: the hypotheses above say for which.

## 6. What is not modelled

- Outcome analytics: read-only aggregation of lifecycle events and feedback;
  the weights that feed back into verdicts are in `RuleVerdicts`.
- The counters of the state endpoint, check statuses, metrics, logging, layout
  and wording of comments, prompts and reports.
- The patches of incremental runs in the GitLab adapter, and in
  `FindingThreads` and `PublishBatch` the scope of such runs; reminders
  (priority group 2, off by default); discussions deleted in GitLab; equal
  scores. `FindingThreads` knows no heads; they are in `DetectInputs`.
- The adapter of the local platform, review-platform and `ops/`: a development
  harness and scripts, pure I/O.
- Detection of code patterns, embeddings and the codebase index of
  review-engine: `RuleCatalog` takes similarity and detected patterns as given.
- Schema migrations and settings. Database errors inside a phase are
  `worker_dies`: the except branch's commit raises as well and the row keeps its
  last committed status.
- General notes posted by two processes at once, and publications between which
  the head moves.
