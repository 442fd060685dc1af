--------------------------------- MODULE Parts ---------------------------------
(***************************************************************************)
(* The components around the pipeline.  Each keeps its state to itself, so *)
(* they are taken side by side: a behaviour is one of one part, chosen in  *)
(* its first state, and the other parts stand still with no value of their *)
(* own.                                                                    *)
(***************************************************************************)
EXTENDS Integers

CONSTANTS
  \* FeedbackLog
  NumDiscussions, Commands, MaxReplies, MaxMoments, MaxEdits, MaxPhases,
  \* EngineCalls
  FailureThreshold, RecoveryTime, EngineRetries, UnitsPerPhase,
  \* GitLabCalls
  GitLabRetries, MaxOperations, MaxDeleted,
  \* DetectInputs
  HeadRetries, MaxHead,
  \* WebhookIntake
  Clients, Limit, Window, MaxTicks, ArrivingNotes,
  \* RuleVerdicts
  Findings, EngineFindings, RulePolicies, Sample, MinimumScore, ResolvedPenalty, ReplyPenalty,
  ReplyLimit,
  \* ReviewUnits
  Starts, MaxPiece, Bucket, Issues, MaxLines, MaxHunks,
  \* DraftPipeline
  Topics, Primaries, Fallbacks, SureConfidence, PublishScore, Band, DraftScores, MaxJobs,
  \* RuleStore
  EngineThreads, Stocked,
  \* RuleCatalog
  Rule, Packs, RuleContexts, RuleDialects, Categories, Patterns, TopN, TopK, Aliases, Signals,
  Hints, ReviewsAsked,
  \* Languages
  LanguageFiles

VARIABLE part      \* the component at work

-------------------------------------------------------------------------------
(***************************************************************************)
(* The parts; of two of them with their proofs.                            *)
(***************************************************************************)
VARIABLES notes, clock, edits, collecting, rows, served

Feedback == INSTANCE FeedbackLog WITH phase <- collecting, MaxTime <- MaxMoments

VARIABLES deployment, engine, breaker, sinceOpen, detectJob, attempt, answered

Engine == INSTANCE EngineCalls WITH
  job <- detectJob, Threshold <- FailureThreshold, Recovery <- RecoveryTime,
  MaxRetries <- EngineRetries, Calls <- UnitsPerPhase

VARIABLES operation, requests, tries, lost, result, comments, resolved, noteBodies,
          operations, deleted

GitLab == INSTANCE GitLabCalls WITH MaxRetries <- GitLabRetries

VARIABLES branch, mr, stage, trigger, expected, meta, diff, retried, reviewed, context

Inputs == INSTANCE DetectInputs WITH Retries <- HeadRetries

VARIABLES now, bucket, admitted, reaction

Webhook == INSTANCE WebhookIntake WITH MaxTime <- MaxTicks, Notes <- ArrivingNotes

VARIABLES candidate, policy, latest, discussion, replies, ruling

Verdicts == INSTANCE RuleVerdicts WITH
  thread <- discussion, command <- ruling, Candidates <- EngineFindings,
  Policies <- RulePolicies

VARIABLES issue, start, counter, actual, changed, size, odd, hunks, kept, dropped

Units == INSTANCE ReviewUnits

VARIABLES primary, fallback, topic, score, publishJob, jobs, available, failures,
          drafting, draft, outcome, verdict

Drafts == INSTANCE DraftPipeline_proofs WITH
  job <- publishJob, Threshold <- SureConfidence, MinimumScore <- PublishScore,
  Scores <- DraftScores

VARIABLES stored, asks, step, doomed, turn, handle, answer, met, broken

Store == INSTANCE RuleStore_proofs WITH Requests <- EngineThreads

VARIABLES files, store, request, results

Catalog ==
  INSTANCE RuleCatalog WITH
    Contexts <- RuleContexts, Dialects <- RuleDialects, Reviews <- ReviewsAsked

VARIABLES file, fetched, match, resolution

Lang == INSTANCE Languages WITH answer <- resolution, Files <- LanguageFiles

\* What each part assumes of its constants.
ASSUME PartsAssumption ==
  /\ Feedback!FeedbackConstants /\ Engine!EngineConstants /\ GitLab!GitLabConstants
  /\ Inputs!HeadConstants /\ Webhook!IntakeConstants /\ Verdicts!VerdictConstants
  /\ Units!UnitConstants /\ Drafts!DraftConstants /\ Store!StoreConstants
  /\ Catalog!CatalogConstants /\ Lang!FilesAssumption

-------------------------------------------------------------------------------
(***************************************************************************)
(* One part at a time.                                                     *)
(***************************************************************************)
Parts == {"feedback", "engine", "gitlab", "inputs", "webhook", "verdicts", "units", "drafts",
          "store", "catalog", "languages"}

\* The variables of each part.
feedbackVars == <<notes, clock, edits, collecting, rows, served>>
engineVars == <<deployment, engine, breaker, sinceOpen, detectJob, attempt, answered>>
gitlabVars ==
  <<operation, requests, tries, lost, result, comments, resolved, noteBodies,
    operations, deleted>>
inputsVars ==
  <<branch, mr, stage, trigger, expected, meta, diff, retried, reviewed, context>>
webhookVars == <<now, bucket, admitted, reaction>>
verdictsVars == <<candidate, policy, latest, discussion, replies, ruling>>
unitsVars ==
  <<issue, start, counter, actual, changed, size, odd, hunks, kept, dropped>>
draftsVars ==
  <<primary, fallback, topic, score, publishJob, jobs, available, failures,
    drafting, draft, outcome, verdict>>
storeVars == <<stored, asks, step, doomed, turn, handle, answer, met, broken>>
catalogVars == <<files, store, request, results>>
langVars == <<file, fetched, match, resolution>>

\* The variable of a part that is not at work.
Off(v) == v = "off"

Init ==
  /\ part \in Parts
  /\ IF part = "feedback" THEN Feedback!Init
     ELSE Off(notes) /\ Off(clock) /\ Off(edits) /\ Off(collecting) /\ Off(rows) /\ Off(served)
  /\ IF part = "engine" THEN Engine!Init
     ELSE /\ Off(deployment) /\ Off(engine) /\ Off(breaker) /\ Off(sinceOpen)
          /\ Off(detectJob) /\ Off(attempt) /\ Off(answered)
  /\ IF part = "gitlab" THEN GitLab!Init
     ELSE /\ Off(operation) /\ Off(requests) /\ Off(tries) /\ Off(lost) /\ Off(result)
          /\ Off(comments) /\ Off(resolved) /\ Off(noteBodies) /\ Off(operations) /\ Off(deleted)
  /\ IF part = "inputs" THEN Inputs!Init
     ELSE /\ Off(branch) /\ Off(mr) /\ Off(stage) /\ Off(trigger) /\ Off(expected)
          /\ Off(meta) /\ Off(diff) /\ Off(retried) /\ Off(reviewed) /\ Off(context)
  /\ IF part = "webhook" THEN Webhook!Init
     ELSE Off(now) /\ Off(bucket) /\ Off(admitted) /\ Off(reaction)
  /\ IF part = "verdicts" THEN Verdicts!Init
     ELSE /\ Off(candidate) /\ Off(policy) /\ Off(latest)
          /\ Off(discussion) /\ Off(replies) /\ Off(ruling)
  /\ IF part = "units" THEN Units!Init
     ELSE /\ Off(issue) /\ Off(start) /\ Off(counter) /\ Off(actual) /\ Off(changed)
          /\ Off(size) /\ Off(odd) /\ Off(hunks) /\ Off(kept) /\ Off(dropped)
  /\ IF part = "drafts" THEN Drafts!Init
     ELSE /\ Off(primary) /\ Off(fallback) /\ Off(topic) /\ Off(score) /\ Off(publishJob)
          /\ Off(jobs) /\ Off(available) /\ Off(failures) /\ Off(drafting) /\ Off(draft)
          /\ Off(outcome) /\ Off(verdict)
  /\ IF part = "store" THEN Store!Init
     ELSE /\ Off(stored) /\ Off(asks) /\ Off(step) /\ Off(doomed) /\ Off(turn)
          /\ Off(handle) /\ Off(answer) /\ Off(met) /\ Off(broken)
  /\ IF part = "catalog" THEN Catalog!Init
     ELSE Off(files) /\ Off(store) /\ Off(request) /\ Off(results)
  /\ IF part = "languages" THEN Lang!Init
     ELSE Off(file) /\ Off(fetched) /\ Off(match) /\ Off(resolution)

\* A step of part p: the others stand still.
At(p) ==
  /\ part = p /\ UNCHANGED part
  /\ IF p = "feedback"  THEN TRUE ELSE UNCHANGED feedbackVars
  /\ IF p = "engine"    THEN TRUE ELSE UNCHANGED engineVars
  /\ IF p = "gitlab"    THEN TRUE ELSE UNCHANGED gitlabVars
  /\ IF p = "inputs"    THEN TRUE ELSE UNCHANGED inputsVars
  /\ IF p = "webhook"   THEN TRUE ELSE UNCHANGED webhookVars
  /\ IF p = "verdicts"  THEN TRUE ELSE UNCHANGED verdictsVars
  /\ IF p = "units"     THEN TRUE ELSE UNCHANGED unitsVars
  /\ IF p = "drafts"    THEN TRUE ELSE UNCHANGED draftsVars
  /\ IF p = "store"     THEN TRUE ELSE UNCHANGED storeVars
  /\ IF p = "catalog"   THEN TRUE ELSE UNCHANGED catalogVars
  /\ IF p = "languages" THEN TRUE ELSE UNCHANGED langVars

Next ==
  \/ At("feedback") /\ Feedback!Next
  \/ At("engine") /\ Engine!Next
  \/ At("gitlab") /\ GitLab!Next
  \/ At("inputs") /\ Inputs!Next
  \/ At("webhook") /\ Webhook!Next
  \/ At("verdicts") /\ Verdicts!Next
  \/ At("units") /\ Units!Next
  \/ At("drafts") /\ Drafts!Next
  \/ At("store") /\ Store!Next
  \/ At("catalog") /\ Catalog!Next
  \/ At("languages") /\ Lang!Next

allVars ==
  <<part, feedbackVars, engineVars, gitlabVars, inputsVars, webhookVars, verdictsVars,
    unitsVars, draftsVars, storeVars, catalogVars, langVars>>

\* The fairness of EngineCalls, the only part with a promise about progress.
Spec ==
  /\ Init /\ [][Next]_allVars
  /\ WF_allVars(At("engine") /\ Engine!Serve)
  /\ WF_allVars(At("engine") /\ Engine!TimePasses)

-------------------------------------------------------------------------------
(***************************************************************************)
(* The properties of the components, which state and explain them.         *)
(***************************************************************************)
\* The variables of the part at work have the values its code gives them.
PartsTypeOK ==
  CASE part = "feedback"  -> Feedback!TypeOK
    [] part = "engine"    -> Engine!TypeOK
    [] part = "gitlab"    -> GitLab!TypeOK
    [] part = "inputs"    -> Inputs!TypeOK
    [] part = "webhook"   -> Webhook!TypeOK
    [] part = "verdicts"  -> Verdicts!TypeOK
    [] part = "units"     -> Units!TypeOK
    [] part = "drafts"    -> Drafts!TypeOK
    [] part = "store"     -> Store!TypeOK
    [] part = "catalog"   -> Catalog!TypeOK
    [] part = "languages" -> Lang!TypeOK

\* Feedback: a reply counts once, however phases overlap and run again.
RepliesCountOnce == part = "feedback" => Feedback!RepliesCountOnce

\* Feedback: the latest reply with a command rules, in whatever order it came.
LastWordRules == part = "feedback" => Feedback!LastWordRules

\* Engine client: a call of a forked work-horse is never refused.
WorkHorsesAreNeverRefused == part = "engine" => Engine!WorkHorsesAreNeverRefused

\* Engine client: an engine that is back for good is heard again.
EngineIsHeardAgain == part = "engine" => Engine!EngineIsHeardAgain

\* GitLab adapter: the answer of an operation fits what it did in GitLab.
AnswersFitEffects == part = "gitlab" => GitLab!AnswersFitEffects

\* GitLab adapter: the newest note of a purpose is the one just written.
NewestNoteIsCurrent == [][part = "gitlab" => GitLab!WrittenIsNewest]_allVars

\* Detect inputs: a note is not answered with a review of an older head.
NoteHeadIsReviewed == part = "inputs" => Inputs!NoteHeadIsReviewed

\* Webhook: no client gets more than the limit through in any window.
RateHolds == part = "webhook" => Webhook!RateHolds

\* Verdicts: what people let pass of a rule does not bury its strong findings.
StrongFindingsSurvive == part = "verdicts" => Verdicts!StrongFindingsSurvive

\* Verdicts: the reply that allows a finding never has it suppressed.
AllowNeverHurts == [][part = "verdicts" => Verdicts!AllowSpares]_allVars

\* Review units: the line of a finding is that of the code it is about.
CommentsHitTheirLine == part = "units" => Units!CommentsHitTheirLine

\* Drafts: a check that fails, in whatever words, keeps the comment.
ChecksFailOpen == part = "drafts" => Drafts!ChecksFailOpen

\* Drafts: an outage of the model costs a job one draft, never the phase.
OutageCostsOneDraft == part = "drafts" => Drafts!OutageCostsOneDraft

\* Rule store: overlapping ingests may leave a collection missing, which the next
\* review makes good, never one that exists and is empty.
NoneIsLeftEmpty == part = "store" => Store!NoneIsLeftEmpty

\* Rule store: a review that knows no rules met an ingest or follows a crash.
EmptyAnswersHaveACause == part = "store" => Store!EmptyAnswersHaveACause

\* Rule catalog: what the files exclude by now is not answered.
ExcludedStaysSilent == part = "catalog" => Catalog!ExcludedStaysSilent

\* Rule catalog: a rule a detector points at is not displaced by one whose match
\* with the patterns is weaker.
HintsAreHeard == part = "catalog" => Catalog!HintsAreHeard

\* Languages: the two registries read a file alike.
RegistriesAgree == part = "languages" => Lang!RegistriesAgree
=============================================================================
