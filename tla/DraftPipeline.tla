---------------------------- MODULE DraftPipeline ----------------------------
(***************************************************************************)
(* The first half of a publish phase: for every eligible finding the       *)
(* comment is drafted by a provider, and a draft that is not convincing is *)
(* checked once more by it.  The language model may fail at any call; a    *)
(* stub that knows the rules by heart stands in for it.  Every job builds  *)
(* its own runner and with it its own provider.                            *)
(***************************************************************************)
EXTENDS Integers

CONSTANTS
  Findings,    \* eligible findings of a run
  Topics,      \* what a finding is about, see StubDraft
  Primaries, Fallbacks,   \* provider names the settings may hold
  Threshold, MinimumScore, Band,   \* settings, in percent
  Scores,      \* final scores that occur, in percent
  MaxJobs      \* bound: publish jobs

VARIABLES
  primary, fallback,   \* provider_name and fallback_provider_name
  topic, score,        \* of each finding
  job,         \* "idle", "running", "failed": the publish job
  jobs,        \* jobs begun
  available,   \* primary_build_available
  failures,    \* builds of the primary that failed in this job
  drafting,    \* the finding at hand, and its draft
  draft,
  outcome,     \* what became of each finding in this job
  verdict      \* the answer of the last check of each finding in this job

vars == <<primary, fallback, topic, score, job, jobs, available, failures,
          drafting, draft, outcome, verdict>>

Nothing == "nothing"
Draft   == [publish : BOOLEAN, confidence : 0..100, by : {"openai", "stub"}]
NoDraft == [publish |-> FALSE, confidence |-> 0, by |-> "stub"]

Reasons == {"not_a_real_bug", "low_confidence", "pattern_mismatch", "execution_error"}

\* What the model writes as the reason that a comment does not apply.
Wordings == {"", "not real bug", "pattern_mismatch", "execution failed", "runtime_error", "other"}

Verdicts == {"unasked", "applies", "raised"} \cup Wordings

-------------------------------------------------------------------------------
\* The stub: issues it recognises in the changed code and categories of other
\* languages are published, general remarks are not.
StubDraft ==
  [malloc_free            |-> [publish |-> TRUE,  confidence |-> 84, by |-> "stub"],
   raw_new_delete         |-> [publish |-> TRUE,  confidence |-> 82, by |-> "stub"],
   continue_usage         |-> [publish |-> TRUE,  confidence |-> 80, by |-> "stub"],
   switch_without_default |-> [publish |-> TRUE,  confidence |-> 81, by |-> "stub"],
   ide_assert             |-> [publish |-> TRUE,  confidence |-> 79, by |-> "stub"],
   ide_rc_flow            |-> [publish |-> FALSE, confidence |-> 74, by |-> "stub"],
   ide_exception_flow     |-> [publish |-> FALSE, confidence |-> 76, by |-> "stub"],
   direct_libc_or_format  |-> [publish |-> TRUE,  confidence |-> 77, by |-> "stub"],
   portability            |-> [publish |-> TRUE,  confidence |-> 72, by |-> "stub"],
   memory_generic         |-> [publish |-> FALSE, confidence |-> 74, by |-> "stub"],
   generic                |-> [publish |-> FALSE, confidence |-> 66, by |-> "stub"]]

\* A category of a language other than C++ comes before the issue.
GuidelineDraft ==
  [yaml_script    |-> [publish |-> TRUE, confidence |-> 88, by |-> "stub"],
   yaml_security  |-> [publish |-> TRUE, confidence |-> 80, by |-> "stub"],
   yaml_image     |-> [publish |-> TRUE, confidence |-> 82, by |-> "stub"],
   python_async   |-> [publish |-> TRUE, confidence |-> 85, by |-> "stub"],
   python_request |-> [publish |-> TRUE, confidence |-> 84, by |-> "stub"],
   sql_quality    |-> [publish |-> TRUE, confidence |-> 76, by |-> "stub"],
   trust_boundary |-> [publish |-> TRUE, confidence |-> 78, by |-> "stub"]]

\* Assumed of the constants where the module is instantiated.
DraftConstants ==
  /\ Primaries \cup Fallbacks \subseteq {"openai", "stub"}
  /\ Topics \subseteq DOMAIN GuidelineDraft \cup DOMAIN StubDraft
  /\ {Threshold, MinimumScore, Band, MaxJobs} \cup Scores \subseteq Nat

DraftOfStub(f) ==
  IF topic[f] \in DOMAIN GuidelineDraft THEN GuidelineDraft[topic[f]] ELSE StubDraft[topic[f]]

\* The language model may see it any way.
DraftsOfModel == [publish : BOOLEAN, confidence : {50, 95}, by : {"openai"}]

\* Mutant: the aliases of an execution error are unknown.
Normalized_NoAlias(wording) ==
  IF wording \in {"pattern_mismatch"} THEN wording
  ELSE IF wording = "not real bug" THEN "not_a_real_bug"
  ELSE "low_confidence"

Normalized(wording) ==
  CASE wording = "not real bug" -> "not_a_real_bug"
    [] wording \in {"execution failed", "runtime_error"} -> "execution_error"
    [] wording = "pattern_mismatch" -> "pattern_mismatch"
    [] OTHER -> "low_confidence"

TypeOK ==
  /\ primary \in Primaries /\ fallback \in Fallbacks
  /\ topic \in [Findings -> Topics] /\ score \in [Findings -> Scores]
  /\ job \in {"idle", "running", "failed"} /\ jobs \in 0..MaxJobs
  /\ available \in BOOLEAN /\ failures \in Nat
  /\ drafting \in Findings \cup {Nothing} /\ draft \in Draft
  /\ outcome \in [Findings -> {"eligible", "candidate", "provider_should_not_publish"} \cup Reasons]
  /\ verdict \in [Findings -> Verdicts]

Init ==
  /\ primary \in Primaries /\ fallback \in Fallbacks
  /\ topic \in [Findings -> Topics] /\ score \in [Findings -> Scores]
  /\ job = "idle" /\ jobs = 0 /\ available = TRUE /\ failures = 0
  /\ drafting = Nothing /\ draft = NoDraft
  /\ outcome = [f \in Findings |-> "eligible"] /\ verdict = [f \in Findings |-> "unasked"]

-------------------------------------------------------------------------------
(***************************************************************************)
(* The providers.                                                          *)
(***************************************************************************)
\* Two different names make a provider that falls back.
FallsBack == primary # fallback

\* A job has a new runner; what a failed job made of the findings is lost.
JobBegins ==
  /\ job # "running" /\ jobs < MaxJobs
  /\ job' = "running" /\ jobs' = jobs + 1
  /\ available' = TRUE /\ failures' = 0
  /\ drafting' = Nothing /\ draft' = NoDraft
  /\ outcome' = [f \in Findings |-> "eligible"] /\ verdict' = [f \in Findings |-> "unasked"]
  /\ UNCHANGED <<primary, fallback, topic, score>>

Drafted(f, d) ==
  /\ IF d.publish THEN drafting' = f /\ draft' = d ELSE drafting' = Nothing /\ draft' = NoDraft
  /\ outcome' = [outcome EXCEPT ![f] = IF d.publish THEN @ ELSE "provider_should_not_publish"]

BuildBy(provider, f) ==
  IF provider = "stub" THEN Drafted(f, DraftOfStub(f))
  ELSE \E d \in DraftsOfModel : Drafted(f, d)

Eligible(f) == job = "running" /\ drafting = Nothing /\ outcome[f] = "eligible"

\* Once a build has failed, the rest of the job is drafted by the fallback.
BuildDraft(f) ==
  /\ Eligible(f)
  /\ BuildBy(IF available THEN primary ELSE fallback, f)
  /\ UNCHANGED <<primary, fallback, topic, score, job, jobs, available, failures, verdict>>

\* Mutant: the next finding tries the primary again.
BuildFails_Retries(f) ==
  /\ Eligible(f) /\ available /\ primary = "openai"
  /\ failures' = failures + 1
  /\ FallsBack /\ BuildBy(fallback, f) /\ UNCHANGED <<job, available>>
  /\ UNCHANGED <<primary, fallback, topic, score, jobs, verdict>>

\* No answer, an error status or an answer that does not parse.  Without
\* another provider the phase fails.
BuildFails(f) ==
  /\ Eligible(f) /\ available /\ primary = "openai"
  /\ failures' = failures + 1
  /\ \/ FallsBack /\ BuildBy(fallback, f) /\ available' = FALSE /\ UNCHANGED job
     \/ ~FallsBack /\ job' = "failed" /\ UNCHANGED <<available, drafting, draft, outcome>>
  /\ UNCHANGED <<primary, fallback, topic, score, jobs, verdict>>

(***************************************************************************)
(* The check of a draft.                                                   *)
(***************************************************************************)
Convincing(f) == draft.confidence >= Threshold /\ score[f] >= MinimumScore + Band

Checked(f, answer) ==
  LET reason == Normalized(answer) IN
  /\ verdict' = [verdict EXCEPT ![f] = answer]
  /\ outcome' = [outcome EXCEPT ![f] =
       IF answer \in {"applies", "raised"} \/ reason = "execution_error" THEN "candidate" ELSE reason]
  /\ drafting' = Nothing /\ draft' = NoDraft

\* The check of a primary that fails is left to the stub, which agrees to
\* everything; without a fallback the exception is caught by the runner.
VerifyFails(f) ==
  /\ drafting = f /\ ~Convincing(f) /\ primary = "openai"
  /\ Checked(f, IF FallsBack THEN "applies" ELSE "raised")
  /\ UNCHANGED <<primary, fallback, topic, score, job, jobs, available, failures>>

VerifyDraft(f) ==
  /\ drafting = f /\ ~Convincing(f)
  /\ \E answer \in IF primary = "stub" THEN {"applies"} ELSE {"applies"} \cup Wordings :
       Checked(f, answer)
  /\ UNCHANGED <<primary, fallback, topic, score, job, jobs, available, failures>>

KeepDraft(f) ==
  /\ drafting = f /\ Convincing(f)
  /\ outcome' = [outcome EXCEPT ![f] = "candidate"]
  /\ drafting' = Nothing /\ draft' = NoDraft
  /\ UNCHANGED <<primary, fallback, topic, score, job, jobs, available, failures, verdict>>

JobEnds ==
  /\ job = "running" /\ \A f \in Findings : outcome[f] # "eligible"
  /\ job' = "idle"
  /\ UNCHANGED <<primary, fallback, topic, score, jobs, available, failures, drafting, draft,
                 outcome, verdict>>

Next ==
  \/ JobBegins \/ JobEnds
  \/ \E f \in Findings : \/ BuildDraft(f) \/ BuildFails(f)
                         \/ VerifyDraft(f) \/ VerifyFails(f) \/ KeepDraft(f)

Spec == Init /\ [][Next]_vars

-------------------------------------------------------------------------------
\* A check drops a comment only if the language model itself answered that it
\* does not apply and did not blame its own execution: a failure of the model,
\* in whatever words, keeps the comment.
ChecksFailOpen ==
  \A f \in Findings :
    outcome[f] \in Reasons => /\ primary = "openai" /\ verdict[f] \in Wordings
                              /\ verdict[f] \notin {"execution failed", "runtime_error"}

\* An outage costs a job one failed draft, never the phase while the stub
\* stands by, and the failure of a check leaves the drafts to the model.
OutageCostsOneDraft ==
  /\ failures <= 1
  /\ FallsBack => (available <=> failures = 0)
  /\ FallsBack /\ fallback = "stub" => job # "failed"
===============================================================================
