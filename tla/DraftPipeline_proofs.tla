-------------------------- MODULE DraftPipeline_proofs --------------------------
(***************************************************************************)
(* Proofs about drafts and their checks, for any findings, topics, scores, *)
(* thresholds and number of jobs.                                          *)
(***************************************************************************)
EXTENDS DraftPipeline, TLAPS

Tables ==
  /\ primary \in {"openai", "stub"}
  /\ DOMAIN outcome = Findings /\ DOMAIN verdict = Findings

\* A finding that a check dropped has the answer that dropped it.
DroppedByAnswer ==
  \A f \in Findings :
    outcome[f] \in Reasons => /\ primary = "openai" /\ verdict[f] \in Wordings
                              /\ verdict[f] \notin {"execution failed", "runtime_error"}

\* A job that has seen the primary fail drafts with the fallback, or has failed.
OneFailure ==
  /\ failures \in {0, 1} /\ available \in BOOLEAN
  /\ FallsBack => (available <=> failures = 0)
  /\ ~FallsBack => (job = "running" => failures = 0)
  /\ FallsBack => job # "failed"

CInv == Tables /\ DroppedByAnswer

-------------------------------------------------------------------------------
\* A draft drops no finding for the reasons of a check.
LEMMA DraftKeepsAnswers ==
  ASSUME CInv, NEW f \in Findings, NEW d, Drafted(f, d), UNCHANGED <<primary, verdict>>
  PROVE  CInv'
<1>1. outcome' = [outcome EXCEPT ![f] = IF d.publish THEN @ ELSE "provider_should_not_publish"]
  BY DEF Drafted
<1>2. DOMAIN outcome' = Findings
  BY <1>1 DEF CInv, Tables
<1>3. \A g \in Findings : outcome'[g] \in {outcome[g], "provider_should_not_publish"}
  BY <1>1 DEF CInv, Tables
<1> QED BY <1>2, <1>3 DEF CInv, Tables, DroppedByAnswer, Reasons

\* A draft of whichever provider is a draft.
LEMMA BuiltIsDrafted ==
  ASSUME NEW f \in Findings, NEW provider, BuildBy(provider, f)
  PROVE  \E d : Drafted(f, d)
BY DEF BuildBy

\* A check drops a finding for a reason that the model gave.
LEMMA CheckKeepsAnswers ==
  ASSUME CInv, NEW f \in Findings, NEW answer, Checked(f, answer), UNCHANGED primary,
         answer \in {"applies", "raised"} \/ (primary = "openai" /\ answer \in Wordings)
  PROVE  CInv'
<1>1. /\ verdict' = [verdict EXCEPT ![f] = answer]
      /\ outcome' = [outcome EXCEPT ![f] =
           IF answer \in {"applies", "raised"} \/ Normalized(answer) = "execution_error"
           THEN "candidate" ELSE Normalized(answer)]
  BY DEF Checked
<1>2. DOMAIN verdict' = Findings /\ DOMAIN outcome' = Findings
  BY <1>1 DEF CInv, Tables
<1>3. ASSUME NEW g \in Findings, outcome'[g] \in Reasons
      PROVE  /\ primary' = "openai" /\ verdict'[g] \in Wordings
             /\ verdict'[g] \notin {"execution failed", "runtime_error"}
  <2>1. CASE g = f
    <3>1. verdict'[f] = answer
      BY <1>1 DEF CInv, Tables
    <3>2. ~(answer \in {"applies", "raised"} \/ Normalized(answer) = "execution_error")
      BY <1>1, <1>3, <2>1 DEF CInv, Tables, Reasons
    <3>3. answer \notin {"execution failed", "runtime_error"}
      BY <3>2 DEF Normalized
    <3> QED BY <2>1, <3>1, <3>2, <3>3
  <2>2. CASE g # f
    BY <1>1, <1>3, <2>2 DEF CInv, Tables, DroppedByAnswer
  <2> QED BY <2>1, <2>2
<1> QED BY <1>2, <1>3 DEF CInv, Tables, DroppedByAnswer

\* Every step keeps what is known of the answers.
LEMMA StepCInv ==
  ASSUME CInv, [Next]_vars
  PROVE  CInv'
<1>1. CASE UNCHANGED vars
  BY <1>1 DEF vars, CInv, Tables, DroppedByAnswer
<1>2. CASE JobBegins
  BY <1>2 DEF JobBegins, CInv, Tables, DroppedByAnswer, Reasons
<1>3. CASE JobEnds
  BY <1>3 DEF JobEnds, CInv, Tables, DroppedByAnswer
<1>4. ASSUME NEW f \in Findings, BuildDraft(f) PROVE CInv'
  BY <1>4, BuiltIsDrafted, DraftKeepsAnswers DEF BuildDraft
<1>5. ASSUME NEW f \in Findings, BuildFails(f) PROVE CInv'
  <2>1. CASE FallsBack /\ BuildBy(fallback, f)
    BY <1>5, <2>1, BuiltIsDrafted, DraftKeepsAnswers DEF BuildFails
  <2>2. CASE UNCHANGED outcome
    BY <1>5, <2>2 DEF BuildFails, CInv, Tables, DroppedByAnswer
  <2> QED BY <1>5, <2>1, <2>2 DEF BuildFails
<1>6. ASSUME NEW f \in Findings, VerifyDraft(f) PROVE CInv'
  <2>1. PICK answer \in IF primary = "stub" THEN {"applies"} ELSE {"applies"} \cup Wordings :
          Checked(f, answer)
    BY <1>6 DEF VerifyDraft
  <2>2. answer \in {"applies", "raised"} \/ (primary = "openai" /\ answer \in Wordings)
    BY <2>1 DEF CInv, Tables
  <2> QED BY <1>6, <2>1, <2>2, CheckKeepsAnswers DEF VerifyDraft
<1>7. ASSUME NEW f \in Findings, VerifyFails(f) PROVE CInv'
  BY <1>7, CheckKeepsAnswers DEF VerifyFails
<1>8. ASSUME NEW f \in Findings, KeepDraft(f) PROVE CInv'
  <2>1. outcome' = [outcome EXCEPT ![f] = "candidate"] /\ UNCHANGED <<primary, verdict>>
    BY <1>8 DEF KeepDraft
  <2> QED BY <2>1 DEF CInv, Tables, DroppedByAnswer, Reasons
<1> QED BY <1>1, <1>2, <1>3, <1>4, <1>5, <1>6, <1>7, <1>8 DEF Next

\* At the start nothing was dropped.
LEMMA InitCInv ==
  ASSUME DraftConstants, Init
  PROVE  CInv
BY DEF DraftConstants, Init, CInv, Tables, DroppedByAnswer, Reasons

\* What is dropped has its answer.
LEMMA CInvSafe == CInv => ChecksFailOpen
BY DEF CInv, DroppedByAnswer, ChecksFailOpen

\* A check drops a comment only for an answer of the language model that does
\* not blame its own execution, whichever providers are set and fail.
THEOREM ChecksOnlyDropOnAnswers ==
  ASSUME DraftConstants
  PROVE  Spec => []ChecksFailOpen
<1>1. Init => CInv
  BY InitCInv
<1>2. CInv /\ [Next]_vars => CInv'
  BY StepCInv
<1> QED BY <1>1, <1>2, CInvSafe, PTL DEF Spec

-------------------------------------------------------------------------------
\* Every step keeps what is known of failures.
LEMMA StepOneFailure ==
  ASSUME OneFailure, [Next]_vars
  PROVE  OneFailure'
<1> USE DEF OneFailure, FallsBack
<1>1. CASE UNCHANGED vars
  BY <1>1 DEF vars
<1>2. CASE JobBegins
  BY <1>2 DEF JobBegins
<1>3. CASE JobEnds
  BY <1>3 DEF JobEnds
<1>4. ASSUME NEW f \in Findings, BuildDraft(f) PROVE OneFailure'
  BY <1>4 DEF BuildDraft
<1>5. ASSUME NEW f \in Findings, BuildFails(f) PROVE OneFailure'
  \* The primary has not failed before.
  <2>1. failures = 0
    <3>1. available /\ job = "running"
      BY <1>5, Zenon DEF BuildFails, Eligible
    <3> QED BY <3>1, Zenon
  <2>2. failures' = 1 /\ UNCHANGED <<primary, fallback>>
    BY <1>5, <2>1 DEF BuildFails
  <2>3. \/ FallsBack /\ available' = FALSE /\ UNCHANGED job
        \/ ~FallsBack /\ job' = "failed" /\ UNCHANGED available
    BY <1>5, Zenon DEF BuildFails
  <2>4. failures' \in {0, 1} /\ failures' # 0
    BY <2>2
  <2>5. CASE FallsBack /\ available' = FALSE /\ UNCHANGED job
    BY <2>2, <2>4, <2>5, Zenon
  <2>6. CASE ~FallsBack /\ job' = "failed" /\ UNCHANGED available
    <3>1. ~FallsBack' /\ job' # "running"
      BY <2>2, <2>6
    <3> QED BY <2>4, <2>6, <3>1, Zenon
  <2> QED BY <2>3, <2>5, <2>6
<1>6. ASSUME NEW f \in Findings, VerifyDraft(f) \/ VerifyFails(f) \/ KeepDraft(f)
      PROVE  OneFailure'
  BY <1>6 DEF VerifyDraft, VerifyFails, KeepDraft
<1> QED BY <1>1, <1>2, <1>3, <1>4, <1>5, <1>6 DEF Next

\* At the start nothing has failed.
LEMMA InitOneFailure == Init => OneFailure
BY DEF Init, OneFailure

\* One failure is all there is.
LEMMA OneFailureSafe == OneFailure => OutageCostsOneDraft
BY DEF OneFailure, OutageCostsOneDraft

\* An outage of the model costs a job at most one failed draft, and never the
\* phase while the stub stands by.
THEOREM OutagesAreCheap == Spec => []OutageCostsOneDraft
<1>1. OneFailure /\ [Next]_vars => OneFailure'
  BY StepOneFailure
<1> QED BY InitOneFailure, OneFailureSafe, <1>1, PTL DEF Spec

-------------------------------------------------------------------------------
\* What the stub knows by heart are drafts.
LEMMA StubDraftIsTyped == \A t \in DOMAIN StubDraft : StubDraft[t] \in Draft
<1>1. DOMAIN StubDraft =
        {"malloc_free", "raw_new_delete", "continue_usage", "switch_without_default",
         "ide_assert", "ide_rc_flow", "ide_exception_flow", "direct_libc_or_format",
         "portability", "memory_generic", "generic"}
  BY DEF StubDraft
<1>2. /\ StubDraft.malloc_free \in Draft
      /\ StubDraft.raw_new_delete \in Draft
      /\ StubDraft.continue_usage \in Draft
      /\ StubDraft.switch_without_default \in Draft
      /\ StubDraft.ide_assert \in Draft
      /\ StubDraft.ide_rc_flow \in Draft
      /\ StubDraft.ide_exception_flow \in Draft
      /\ StubDraft.direct_libc_or_format \in Draft
      /\ StubDraft.portability \in Draft
      /\ StubDraft.memory_generic \in Draft
      /\ StubDraft.generic \in Draft
  BY DEF StubDraft, Draft
<1> QED BY <1>1, <1>2

\* So are its drafts for the other languages.
LEMMA GuidelineDraftIsTyped == \A t \in DOMAIN GuidelineDraft : GuidelineDraft[t] \in Draft
<1>1. DOMAIN GuidelineDraft =
        {"yaml_script", "yaml_security", "yaml_image", "python_async", "python_request",
         "sql_quality", "trust_boundary"}
  BY DEF GuidelineDraft
<1>2. /\ GuidelineDraft.yaml_script \in Draft
      /\ GuidelineDraft.yaml_security \in Draft
      /\ GuidelineDraft.yaml_image \in Draft
      /\ GuidelineDraft.python_async \in Draft
      /\ GuidelineDraft.python_request \in Draft
      /\ GuidelineDraft.sql_quality \in Draft
      /\ GuidelineDraft.trust_boundary \in Draft
  BY DEF GuidelineDraft, Draft
<1> QED BY <1>1, <1>2

\* What becomes of a finding, and what a job holds beside it.
Outcomes == {"eligible", "candidate", "provider_should_not_publish"} \cup Reasons

\* A draft of either provider is typed.
LEMMA DraftedTyped ==
  ASSUME DraftConstants, TypeOK, NEW f \in Findings, NEW provider \in {"openai", "stub"},
         BuildBy(provider, f)
  PROVE  /\ drafting' \in Findings \cup {Nothing} /\ draft' \in Draft
         /\ outcome' \in [Findings -> Outcomes]
<1>1. PICK d \in Draft : Drafted(f, d)
  <2>1. CASE provider = "stub"
    <3>1. topic[f] \in DOMAIN GuidelineDraft \cup DOMAIN StubDraft
      BY DEF DraftConstants, TypeOK
    <3>2. DraftOfStub(f) \in Draft
      BY <3>1, StubDraftIsTyped, GuidelineDraftIsTyped DEF DraftOfStub
    <3> QED BY <2>1, <3>2 DEF BuildBy
  <2>2. CASE provider # "stub"
    <3>1. DraftsOfModel \subseteq Draft
      BY DEF DraftsOfModel, Draft
    <3> QED BY <2>2, <3>1 DEF BuildBy
  <2> QED BY <2>1, <2>2
<1>2. NoDraft \in Draft
  BY DEF NoDraft, Draft
<1>3. drafting' \in Findings \cup {Nothing} /\ draft' \in Draft
  BY <1>1, <1>2 DEF Drafted
<1>4. outcome' \in [Findings -> Outcomes]
  BY <1>1 DEF Drafted, TypeOK, Outcomes
<1> QED BY <1>3, <1>4

\* A check is typed.
LEMMA CheckedTyped ==
  ASSUME TypeOK, NEW f \in Findings, NEW answer \in {"applies", "raised"} \cup Wordings,
         Checked(f, answer)
  PROVE  /\ drafting' \in Findings \cup {Nothing} /\ draft' \in Draft
         /\ outcome' \in [Findings -> Outcomes] /\ verdict' \in [Findings -> Verdicts]
<1>1. Normalized(answer) \in Reasons
  BY DEF Normalized, Reasons
<1>2. NoDraft \in Draft
  BY DEF NoDraft, Draft
<1>3. outcome' \in [Findings -> Outcomes]
  BY <1>1 DEF Checked, TypeOK, Outcomes
<1>4. verdict' \in [Findings -> Verdicts]
  BY DEF Checked, TypeOK, Verdicts
<1> QED BY <1>2, <1>3, <1>4 DEF Checked

\* Every step is typed.
LEMMA StepDraftTypes ==
  ASSUME DraftConstants, TypeOK, [Next]_vars
  PROVE  TypeOK'
<1>1. /\ primary \in {"openai", "stub"} /\ fallback \in {"openai", "stub"}
      /\ jobs \in Nat /\ MaxJobs \in Nat /\ NoDraft \in Draft
  BY DEF DraftConstants, TypeOK, NoDraft, Draft
<1>2. CASE UNCHANGED vars
  BY <1>2 DEF vars, TypeOK
<1>3. CASE JobBegins
  <2>1. outcome' \in [Findings -> Outcomes] /\ verdict' \in [Findings -> Verdicts]
    BY <1>3 DEF JobBegins, Outcomes, Verdicts
  <2>2. jobs' \in 0..MaxJobs
    BY <1>1, <1>3 DEF JobBegins, TypeOK
  <2> QED BY <1>1, <1>3, <2>1, <2>2 DEF JobBegins, TypeOK, Outcomes
<1>4. CASE JobEnds
  BY <1>4 DEF JobEnds, TypeOK
<1>5. ASSUME NEW f \in Findings, BuildDraft(f) PROVE TypeOK'
  <2> DEFINE by == IF available THEN primary ELSE fallback
  <2>1. by \in {"openai", "stub"} /\ BuildBy(by, f)
    BY <1>1, <1>5 DEF BuildDraft
  <2> HIDE DEF by
  <2> QED BY <1>5, <2>1, DraftedTyped DEF BuildDraft, TypeOK, Outcomes
<1>6. ASSUME NEW f \in Findings, BuildFails(f) PROVE TypeOK'
  <2>1. failures' \in Nat /\ UNCHANGED <<primary, fallback, topic, score, jobs, verdict>>
    BY <1>6 DEF BuildFails, TypeOK
  <2>2. CASE BuildBy(fallback, f) /\ available' = FALSE /\ UNCHANGED job
    BY <1>1, <2>1, <2>2, DraftedTyped DEF TypeOK, Outcomes
  <2>3. CASE job' = "failed" /\ UNCHANGED <<available, drafting, draft, outcome>>
    BY <2>1, <2>3 DEF TypeOK
  <2> QED BY <1>6, <2>2, <2>3 DEF BuildFails
<1>7. ASSUME NEW f \in Findings, NEW answer \in {"applies", "raised"} \cup Wordings,
             Checked(f, answer),
             UNCHANGED <<primary, fallback, topic, score, job, jobs, available, failures>>
      PROVE  TypeOK'
  BY <1>7, CheckedTyped DEF TypeOK, Outcomes
<1>8. ASSUME NEW f \in Findings, VerifyDraft(f) PROVE TypeOK'
  BY <1>7, <1>8 DEF VerifyDraft
<1>9. ASSUME NEW f \in Findings, VerifyFails(f) PROVE TypeOK'
  BY <1>7, <1>9 DEF VerifyFails
<1>10. ASSUME NEW f \in Findings, KeepDraft(f) PROVE TypeOK'
  BY <1>1, <1>10 DEF KeepDraft, TypeOK
<1> QED
  BY <1>2, <1>3, <1>4, <1>5, <1>6, <1>8, <1>9, <1>10 DEF Next

\* The first state is typed.
LEMMA InitDraftTypes ==
  ASSUME DraftConstants, Init
  PROVE  TypeOK
BY DEF DraftConstants, Init, TypeOK, NoDraft, Draft, Verdicts
================================================================================
