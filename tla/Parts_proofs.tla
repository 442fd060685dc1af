------------------------------ MODULE Parts_proofs ------------------------------
(***************************************************************************)
(* Proofs about the components side by side, for all values of their       *)
(* constants.  The invariant of a part holds where the part is at work.    *)
(***************************************************************************)
EXTENDS Parts, Sequences, FiniteSets, SequenceTheorems, FiniteSetTheorems, WellFoundedInduction,
        TLAPS

-------------------------------------------------------------------------------
(***************************************************************************)
(* Sets of numbers.                                                        *)
(***************************************************************************)
LEMMA LeastOf ==
  ASSUME NEW S \in SUBSET Nat, S # {}
  PROVE  \E i \in S : \A j \in S : i <= j
<1> DEFINE R == OpToRel(<, Nat)
<1>1. IsWellFoundedOn(R, Nat)
  BY NatLessThanWellFounded
<1>2. \A i, j \in S : j < i => <<j, i>> \in R
  BY DEF OpToRel
<1> HIDE DEF R
<1>3. PICK i \in S : \A j \in S : ~(<<j, i>> \in R)
  BY <1>1, WFMin
<1>4. ASSUME NEW j \in S PROVE i <= j
  <2>1. i \in Nat /\ j \in Nat /\ ~(j < i)
    BY <1>2, <1>3
  <2> QED BY <2>1
<1> QED BY <1>4

LEMMA GreatestOf ==
  ASSUME NEW n \in Nat, NEW S \in SUBSET (1..n), S # {}
  PROVE  \E i \in S : \A j \in S : j <= i
<1> DEFINE T == {n - i : i \in S}
<1>1. T \in SUBSET Nat /\ T # {}
  <2>1. \A i \in S : i \in 1..n /\ n - i \in Nat
    OBVIOUS
  <2> QED BY <2>1
<1> HIDE DEF T
<1>2. PICK t \in T : \A u \in T : t <= u
  BY <1>1, LeastOf
<1>3. PICK i \in S : t = n - i
  BY DEF T
<1>4. ASSUME NEW j \in S PROVE j <= i
  <2>1. n - i <= n - j
    BY <1>2, <1>3 DEF T
  <2> QED BY <2>1
<1> QED BY <1>3, <1>4

-------------------------------------------------------------------------------
(***************************************************************************)
(* The client of review-engine, for any threshold, recovery time, number   *)
(* of retries and number of calls.                                         *)
(***************************************************************************)
\* What is under way: a call is at an attempt only while its phase runs.
Underway ==
  /\ detectJob \in Nat /\ attempt \in Int
  /\ attempt # Engine!NoCall => detectJob > 0

\* The breaker of a forked work-horse is new, or its phase is over.
ForkedIsFresh ==
  deployment = "forked" =>
    /\ breaker = Engine!Fresh \/ (breaker.failures <= 1 /\ detectJob = 0)
    /\ answered # "refused"

EngineInv == Underway /\ ForkedIsFresh

\* A failure that is the first of its breaker counts one.
LEMMA FirstFailure ==
  ASSUME Engine!EngineConstants, breaker = Engine!Fresh, Engine!RecordFailure
  PROVE  breaker'.failures = 1
BY DEF Engine!EngineConstants, Engine!Fresh, Engine!RecordFailure

LEMMA EngineSteps ==
  ASSUME EngineInv, [Engine!Next]_(Engine!vars)
  PROVE  EngineInv'
<1>0. Engine!EngineConstants
  BY PartsAssumption
<1> USE <1>0 DEF Engine!EngineConstants, EngineInv, Underway, ForkedIsFresh, Engine!NoCall
<1>1. CASE UNCHANGED Engine!vars
  BY <1>1 DEF Engine!vars
<1>2. CASE Engine!JobStarts
  BY <1>2 DEF Engine!JobStarts, Engine!RecordSuccess
<1>3. CASE Engine!CallStarts
  <2>1. CASE Engine!Refused /\ answered' = "refused"
    \* A phase that calls has a new breaker, which refuses nothing.
    <3>1. deployment # "forked"
      BY <1>3, <2>1 DEF Engine!CallStarts, Engine!Refused, Engine!Fresh
    <3> QED BY <1>3, <2>1, <3>1 DEF Engine!CallStarts, Engine!Refused
  <2>2. CASE Engine!Allowed /\ attempt' = 0 /\ UNCHANGED <<detectJob, answered>>
    <3>1. deployment = "forked" => breaker' = breaker
      BY <1>3, <2>2 DEF Engine!CallStarts, Engine!Allowed, Engine!Fresh
    <3> QED BY <1>3, <2>2, <3>1 DEF Engine!CallStarts
  <2> QED BY <1>3, <2>1, <2>2 DEF Engine!CallStarts
<1>4. CASE Engine!Answered
  BY <1>4 DEF Engine!Answered, Engine!RecordSuccess
<1>5. CASE Engine!AttemptFails
  BY <1>5 DEF Engine!AttemptFails
<1>6. CASE Engine!CallFails
  <2>1. /\ detectJob > 0 /\ detectJob' = 0 /\ attempt' = Engine!NoCall
        /\ answered' = "failed" /\ deployment' = deployment
    BY <1>6 DEF Engine!CallFails
  <2>2. deployment = "forked" => breaker'.failures = 1
    BY <1>6, <2>1, FirstFailure DEF Engine!CallFails
  <2> QED BY <2>1, <2>2
<1>7. CASE Engine!TimePasses \/ Engine!EngineGoes("up", "down") \/ Engine!EngineGoes("down", "up")
  BY <1>7 DEF Engine!TimePasses, Engine!EngineGoes
<1> QED BY <1>1, <1>2, <1>3, <1>4, <1>5, <1>6, <1>7 DEF Engine!Next, Engine!Serve

\* Every behaviour of the client keeps its invariant.
LEMMA EngineStays == Spec => [](part = "engine" => EngineInv)
<1> DEFINE I == part = "engine" => EngineInv
<1>1. Init => I
  BY DEF Init, Engine!Init, EngineInv, Underway, ForkedIsFresh, Engine!NoCall
<1>2. I /\ [Next]_allVars => I'
  <2> SUFFICES ASSUME I, [Next]_allVars, part' = "engine" PROVE EngineInv'
    OBVIOUS
  <2>1. EngineInv /\ [Engine!Next]_(Engine!vars)
    BY DEF Next, At, allVars, engineVars, Engine!vars
  <2> QED BY <2>1, EngineSteps
<1> QED BY <1>1, <1>2, PTL DEF Spec

\* In forked work-horses no call of review-engine is refused by the breaker,
\* whatever the threshold, the retries and the length of a phase.
THEOREM ForkedCallsAreAdmitted == Spec => []WorkHorsesAreNeverRefused
<1>1. (part = "engine" => EngineInv) => WorkHorsesAreNeverRefused
  BY DEF EngineInv, ForkedIsFresh, Engine!Fresh, WorkHorsesAreNeverRefused,
         Engine!WorkHorsesAreNeverRefused
<1> QED BY <1>1, EngineStays, PTL

-------------------------------------------------------------------------------
(***************************************************************************)
(* The inputs of detect, for any number of pushes and retries.             *)
(***************************************************************************)
HeadTypes ==
  /\ branch \in Nat /\ mr \in Nat
  /\ expected \in Nat /\ meta \in Nat /\ diff \in Nat /\ retried \in 0..HeadRetries

\* Once the phase has its inputs, the run is of the head of its diff, which is
\* the expected one unless the retries are used up.
Settled ==
  stage \in {"ready", "reading"} =>
    reviewed = diff /\ (~Inputs!Awaited \/ retried = HeadRetries)

ContextFits == stage = "reading" => context = diff

HeadInv == HeadTypes /\ Settled /\ ContextFits

LEMMA InputsSteps ==
  ASSUME HeadInv, [Inputs!Next]_(Inputs!vars)
  PROVE  HeadInv'
<1>0. Inputs!HeadConstants
  BY PartsAssumption
<1> USE <1>0 DEF Inputs!HeadConstants, HeadInv, HeadTypes, Settled, ContextFits,
                 Inputs!Awaited, Inputs!NoHead
<1>1. CASE UNCHANGED Inputs!vars
  BY <1>1 DEF Inputs!vars
<1>2. CASE Inputs!Push \/ Inputs!MergeRequestFollows
  BY <1>2 DEF Inputs!Push, Inputs!MergeRequestFollows
<1>3. CASE Inputs!NoteArrives
  BY <1>3 DEF Inputs!NoteArrives
<1>4. CASE Inputs!FetchMeta \/ Inputs!FetchDiff
  BY <1>4 DEF Inputs!FetchMeta, Inputs!FetchDiff
<1>5. CASE Inputs!FetchAgain
  BY <1>5 DEF Inputs!FetchAgain
<1>6. CASE Inputs!Settle
  BY <1>6 DEF Inputs!Settle
<1>7. CASE Inputs!FetchContext
  BY <1>7 DEF Inputs!FetchContext
<1> QED BY <1>1, <1>2, <1>3, <1>4, <1>5, <1>6, <1>7 DEF Inputs!Next

\* Whatever is pushed while detect fetches, a note is answered with a review of
\* the head it asked for or a later one, or GitLab lagged for all the retries,
\* and file contexts are read at the head of the diff.
THEOREM NotesGetTheirHead == Spec => []NoteHeadIsReviewed
<1> DEFINE I == part = "inputs" => HeadInv
<1>1. Init => I
  BY PartsAssumption
     DEF Init, Inputs!Init, Inputs!HeadConstants, HeadInv, HeadTypes, Settled, ContextFits,
         Inputs!NoHead
<1>2. I /\ [Next]_allVars => I'
  <2> SUFFICES ASSUME I, [Next]_allVars, part' = "inputs" PROVE HeadInv'
    OBVIOUS
  <2>1. HeadInv /\ [Inputs!Next]_(Inputs!vars)
    BY DEF Next, At, allVars, inputsVars, Inputs!vars
  <2> QED BY <2>1, InputsSteps
<1>3. I => NoteHeadIsReviewed
  BY DEF HeadInv, HeadTypes, Settled, ContextFits, Inputs!Awaited, Inputs!NoHead,
         NoteHeadIsReviewed, Inputs!NoteHeadIsReviewed
<1> QED BY <1>1, <1>2, <1>3, PTL DEF Spec

-------------------------------------------------------------------------------
(***************************************************************************)
(* Drafts and rule store, from the invariants of their own modules.        *)
(***************************************************************************)
\* A check drops a comment only for an answer of the language model that does
\* not blame its own execution, whichever providers are set and fail.
THEOREM ChecksOnlyDropOnAnswers == Spec => []ChecksFailOpen
<1> DEFINE I == part = "drafts" => Drafts!CInv
<1>1. Init => I
  BY PartsAssumption, Drafts!InitCInv DEF Init
<1>2. I /\ [Next]_allVars => I'
  <2> SUFFICES ASSUME I, [Next]_allVars, part' = "drafts" PROVE Drafts!CInv'
    OBVIOUS
  <2>1. Drafts!CInv /\ [Drafts!Next]_(Drafts!vars)
    BY DEF Next, At, allVars, draftsVars, Drafts!vars
  <2> QED BY <2>1, Drafts!StepCInv
<1>3. I => ChecksFailOpen
  BY Drafts!CInvSafe DEF ChecksFailOpen
<1> QED BY <1>1, <1>2, <1>3, PTL DEF Spec

\* An outage of the model costs a job at most one failed draft, and never the
\* phase while the stub stands by.
THEOREM OutagesAreCheap == Spec => []OutageCostsOneDraft
<1> DEFINE I == part = "drafts" => Drafts!OneFailure
<1>1. Init => I
  BY Drafts!InitOneFailure DEF Init
<1>2. I /\ [Next]_allVars => I'
  <2> SUFFICES ASSUME I, [Next]_allVars, part' = "drafts" PROVE Drafts!OneFailure'
    OBVIOUS
  <2>1. Drafts!OneFailure /\ [Drafts!Next]_(Drafts!vars)
    BY DEF Next, At, allVars, draftsVars, Drafts!vars
  <2> QED BY <2>1, Drafts!StepOneFailure
<1>3. I => OutageCostsOneDraft
  BY Drafts!OneFailureSafe DEF OutageCostsOneDraft
<1> QED BY <1>1, <1>2, <1>3, PTL DEF Spec

\* Every behaviour of the store keeps its invariant.
LEMMA StoreStays == Spec => [](part = "store" => Store!QInv)
<1> DEFINE I == part = "store" => Store!QInv
<1>1. Init => I
  BY PartsAssumption, Store!InitQInv DEF Init
<1>2. I /\ [Next]_allVars => I'
  <2> SUFFICES ASSUME I, [Next]_allVars, part' = "store" PROVE Store!QInv'
    OBVIOUS
  <2>1. Store!QInv /\ [Store!Next]_(Store!vars)
    BY DEF Next, At, allVars, storeVars, Store!vars
  <2> QED BY <2>1, PartsAssumption, Store!StepQInv
<1> QED BY <1>1, <1>2, PTL DEF Spec

\* However ingests of any number of requests overlap and fail, once none is under
\* way no collection of a kind that has rules exists and is empty, unless a crash
\* cut an ingest off: what failing ingests leave missing is seen to be missing.
THEOREM NoOverlapLeavesItEmpty == Spec => []NoneIsLeftEmpty
<1>1. (part = "store" => Store!QInv) => NoneIsLeftEmpty
  BY Store!QInvSafe DEF NoneIsLeftEmpty
<1> QED BY <1>1, StoreStays, PTL

\* A review that comes back without rules met the ingest of another request or
\* follows a crash: one that is alone finds the rules, if need be by an ingest
\* of its own.
THEOREM LoneReviewsFindRules == Spec => []EmptyAnswersHaveACause
<1> DEFINE I == part = "store" => Store!LInv
<1>1. Init => I
  BY PartsAssumption, Store!InitLInv DEF Init
<1>2. I /\ [Next]_allVars => I'
  <2> SUFFICES ASSUME I, [Next]_allVars, part' = "store" PROVE Store!LInv'
    OBVIOUS
  <2>1. Store!LInv /\ [Store!Next]_(Store!vars)
    BY DEF Next, At, allVars, storeVars, Store!vars
  <2> QED BY <2>1, PartsAssumption, Store!StepLInv
<1>3. I => EmptyAnswersHaveACause
  BY DEF EmptyAnswersHaveACause, Store!LInv
<1> QED BY <1>1, <1>2, <1>3, PTL DEF Spec

-------------------------------------------------------------------------------
(***************************************************************************)
(* The adapter of GitLab, for any number of retries, of operations and of  *)
(* notes people delete.                                                    *)
(***************************************************************************)
\* The first request left, by its name, and the others.
Asks(first, others) ==
  /\ Head(requests).name = first
  /\ Tail(requests) = others

\* All notes that are newer than i are gone.
NewerThanRest(i) ==
  i \in DOMAIN noteBodies /\ \A j \in DOMAIN noteBodies : j > i => noteBodies[j] = GitLab!Gone

\* What an operation still has to ask of GitLab.
Plan ==
  \/ operation = "open_discussion" /\ Asks("post_discussion", <<>>)
  \/ operation \in {"reply", "reopen_and_reply"} /\ Asks("post_reply", <<>>)
  \/ operation = "reopen_and_reply" /\ Asks("put_open", <<GitLab!Request("post_reply")>>)
  \/ operation = "resolve" /\ Asks("put_resolved", <<>>)
  \/ operation = "upsert_note" /\ Asks("list_notes", <<>>)
  \/ operation = "upsert_note" /\ Asks("post_note", <<>>)
  \/ operation = "upsert_note" /\ Asks("edit_note", <<>>) /\ NewerThanRest(Head(requests).note)

Running == requests # <<>>

\* The request is the second one of its operation.
Second ==
  \/ operation = "reopen_and_reply" /\ Head(requests).name = "post_reply"
  \/ Head(requests).name \in {"post_note", "edit_note"}

GitLabTypes ==
  /\ tries \in 0..GitLabRetries /\ lost \in Nat /\ comments \in Nat
  /\ operations \in 0..MaxOperations /\ noteBodies \in Seq(0..MaxOperations)
  /\ resolved \in BOOLEAN
  /\ operation \in GitLab!Kinds \cup {"none"}
  /\ result \in {"none", "ok", "inline_anchor", "error"}

RunningFits ==
  Running =>
    /\ Plan /\ result = "none"
    /\ comments <= lost /\ comments <= tries
    /\ Head(requests).name \in {"put_open", "list_notes"} => comments = 0
    /\ lost <= (IF Second THEN GitLabRetries ELSE 0) + tries

EndedFits ==
  ~Running =>
    /\ lost <= 2 * GitLabRetries + 1 /\ comments <= GitLabRetries + 1
    /\ (result = "none") = (operation = "none")
    /\ GitLab!AnswersFitEffects

GitLabInv == GitLabTypes /\ RunningFits /\ EndedFits

\* What a request may do in GitLab.
LEMMA EffectKeeps ==
  ASSUME GitLabTypes, GitLab!Effect(Head(requests)), Plan
  PROVE  /\ resolved' \in BOOLEAN /\ noteBodies' \in Seq(0..MaxOperations)
         /\ IF Head(requests).name \in {"post_discussion", "post_reply"}
            THEN comments' = comments + 1 ELSE comments' = comments
         /\ Head(requests).name = "edit_note" =>
              /\ Head(requests).note \in DOMAIN noteBodies'
              /\ \A j \in DOMAIN noteBodies' :
                   j > Head(requests).note => noteBodies'[j] = GitLab!Gone
<1> DEFINE h == Head(requests)
<1>1. CASE h.name \in {"post_discussion", "post_reply"}
  BY <1>1 DEF GitLabTypes, GitLab!Effect
<1>2. CASE h.name \in {"put_open", "put_resolved", "list_notes"}
  BY <1>2 DEF GitLabTypes, GitLab!Effect, GitLab!inGitLab
<1>3. CASE h.name = "post_note"
  <2>1. noteBodies' = Append(noteBodies, operations) /\ UNCHANGED <<comments, resolved>>
    BY <1>3 DEF GitLab!Effect
  <2>2. noteBodies' \in Seq(0..MaxOperations)
    BY <2>1 DEF GitLabTypes
  <2> QED BY <1>3, <2>1, <2>2 DEF GitLabTypes
<1>4. CASE h.name = "edit_note"
  <2>1. NewerThanRest(h.note)
    BY <1>4 DEF Plan, Asks
  <2>2. /\ noteBodies' = [noteBodies EXCEPT ![h.note] = operations]
        /\ UNCHANGED <<comments, resolved>>
    BY <1>4 DEF GitLab!Effect, GitLab!Listed
  <2> QED BY <1>4, <2>1, <2>2 DEF GitLabTypes, NewerThanRest
<1> QED BY <1>1, <1>2, <1>3, <1>4 DEF Plan, Asks

\* The plan of an operation is the same after an attempt that is retried.
LEMMA PlanGoesOn ==
  ASSUME Plan, UNCHANGED <<operation, requests>>,
         Head(requests).name = "edit_note" => NewerThanRest(Head(requests).note)'
  PROVE  Plan'
BY DEF Plan, Asks

\* The note an edit is planned for is the newest of those listed.
LEMMA NewestIsNewer ==
  ASSUME GitLabTypes, GitLab!Listed # {}
  PROVE  NewerThanRest(GitLab!Newest)
<1>1. GitLab!Listed \in SUBSET (1..Len(noteBodies)) /\ Len(noteBodies) \in Nat
  BY DEF GitLabTypes, GitLab!Listed
<1>2. \E i \in GitLab!Listed : \A j \in GitLab!Listed : j <= i
  BY <1>1, GreatestOf
<1>3. /\ GitLab!Newest \in GitLab!Listed
      /\ \A j \in GitLab!Listed : j <= GitLab!Newest
  BY <1>2 DEF GitLab!Newest
<1> QED BY <1>1, <1>3 DEF NewerThanRest, GitLab!Listed, GitLabTypes

\* What the last attempt of a request leaves.
LEMMA RaisingEnds ==
  ASSUME GitLabTypes, Running, RunningFits, GitLab!GitLabConstants, NEW heard,
         GitLab!Raise(heard), tries = GitLabRetries, operation' = operation,
         comments' \in Nat, lost' \in Nat,
         \/ comments' = comments /\ lost' = lost
         \/ comments' \in {comments, comments + 1} /\ lost' = lost + 1
  PROVE  requests' = <<>> /\ tries' = 0 /\ result' \in {"inline_anchor", "error"} /\ EndedFits'
<1>1. requests' = <<>> /\ tries' = 0 /\ result' \in {"inline_anchor", "error"}
  BY DEF GitLab!Raise
<1>2. /\ lost <= 2 * GitLabRetries /\ comments <= GitLabRetries /\ comments <= lost
      /\ GitLabRetries \in Nat /\ lost \in Nat /\ comments \in Nat
  BY DEF GitLabTypes, RunningFits, GitLab!GitLabConstants
<1>3. operation # "none"
  BY DEF RunningFits, Plan
<1>4. GitLab!AnswersFitEffects'
  <2>1. comments' <= lost'
    BY <1>2
  <2>2. result' = "inline_anchor" => operation = "open_discussion"
    BY DEF GitLab!Raise
  <2>3. result' # "ok"
    BY <1>1
  <2>4. comments' <= lost' + (IF result' = "ok" THEN 1 ELSE 0)
    <3>1. \A n \in Nat : n + 0 = n
      OBVIOUS
    <3> QED BY <2>1, <2>3, <3>1
  <2> QED BY <2>2, <2>3, <2>4 DEF GitLab!AnswersFitEffects
<1> QED BY <1>1, <1>2, <1>3, <1>4 DEF EndedFits, Running

\* The second request of an operation has an attempt count of its own.
LEMMA SecondFits ==
  ASSUME GitLab!GitLabConstants, GitLabTypes', Plan', Second', Running', result' = "none",
         tries' = 0, comments' = 0, lost' <= GitLabRetries
  PROVE  GitLabInv'
<1>1. GitLabRetries \in Nat /\ lost' \in Nat
  BY DEF GitLab!GitLabConstants, GitLabTypes
<1>2. lost' <= (IF Second' THEN GitLabRetries ELSE 0) + tries'
  BY <1>1
<1>3. Head(requests').name \in {"put_open", "list_notes"} => comments' = 0
  OBVIOUS
<1> QED BY <1>1, <1>2, <1>3 DEF GitLabInv, RunningFits, EndedFits

\* A request that was carried out: the next one follows, or the end.
LEMMA CarriedFits ==
  ASSUME GitLabInv, GitLab!GitLabConstants, GitLab!Carried
  PROVE  GitLabInv'
<1> DEFINE h == Head(requests)
<1>1. Plan /\ Running /\ RunningFits /\ GitLabTypes
  BY DEF GitLabInv, GitLab!Carried, Running, RunningFits
<1>2. /\ GitLab!Effect(h) /\ requests' = GitLab!Left /\ tries' = 0
      /\ result' = (IF GitLab!Left = <<>> THEN "ok" ELSE "none")
      /\ operation' = operation /\ lost' = lost /\ operations' = operations
  BY DEF GitLab!Carried
<1>3. /\ resolved' \in BOOLEAN /\ noteBodies' \in Seq(0..MaxOperations)
      /\ comments' = IF h.name \in {"post_discussion", "post_reply"} THEN comments + 1
                     ELSE comments
  BY <1>1, <1>2, EffectKeeps
<1>4. /\ comments \in Nat /\ lost \in Nat /\ tries \in 0..GitLabRetries /\ GitLabRetries \in Nat
      /\ comments <= lost /\ comments <= tries
      /\ lost <= (IF Second THEN GitLabRetries ELSE 0) + tries
  BY <1>1 DEF RunningFits, GitLabTypes, GitLab!GitLabConstants
<1>5. GitLabTypes'
  BY <1>1, <1>2, <1>3, <1>4 DEF GitLabTypes
<1>6. CASE h.name \in {"list_notes", "put_open"}
  <2>1. comments' = 0 /\ lost' <= GitLabRetries
    <3>1. ~Second
      BY <1>6 DEF Second
    <3>2. comments = 0
      BY <1>1, <1>6 DEF RunningFits
    <3> QED BY <1>2, <1>3, <1>4, <1>6, <3>1, <3>2
  <2>2. CASE h.name = "list_notes"
    <3>1. requests' = <<GitLab!AfterList>> /\ noteBodies' = noteBodies
      BY <1>2, <2>2 DEF GitLab!Left, GitLab!Effect, GitLab!inGitLab
    <3>2. operation = "upsert_note"
      BY <1>1, <2>2 DEF Plan, Asks
    <3>3. CASE GitLab!Listed = {}
      <4>1. Head(requests') = GitLab!Request("post_note") /\ Tail(requests') = <<>>
        BY <3>1, <3>3 DEF GitLab!AfterList
      <4>2. Plan' /\ Second'
        BY <1>2, <3>2, <4>1 DEF Plan, Asks, Second, GitLab!Request
      <4>3. result' = "none" /\ Running'
        BY <1>2, <3>1 DEF Running
      <4> QED BY <1>2, <1>5, <2>1, <4>2, <4>3, SecondFits
    <3>4. CASE GitLab!Listed # {}
      <4>1. Head(requests').name = "edit_note" /\ Head(requests').note = GitLab!Newest
        BY <3>1, <3>4 DEF GitLab!AfterList
      <4>2. Tail(requests') = <<>>
        BY <3>1
      <4>3. NewerThanRest(GitLab!Newest)
        BY <1>1, <3>4, NewestIsNewer
      <4>4. NewerThanRest(Head(requests).note)'
        BY <3>1, <4>1, <4>3 DEF NewerThanRest
      <4>5. Plan' /\ Second'
        BY <1>2, <3>2, <4>1, <4>2, <4>4 DEF Plan, Asks, Second
      <4>6. result' = "none" /\ Running'
        BY <1>2, <3>1 DEF Running
      <4> QED BY <1>2, <1>5, <2>1, <4>5, <4>6, SecondFits
    <3> QED BY <3>3, <3>4
  <2>3. CASE h.name = "put_open"
    <3>1. /\ requests' = <<GitLab!Request("post_reply")>>
          /\ operation = "reopen_and_reply"
      BY <1>1, <1>2, <2>3 DEF Plan, Asks, GitLab!Left
    <3>2. Plan' /\ Second'
      BY <1>2, <3>1 DEF Plan, Asks, Second, GitLab!Request
    <3>3. result' = "none" /\ Running'
      BY <1>2, <3>1 DEF Running
    <3> QED BY <1>2, <1>5, <2>1, <3>2, <3>3, SecondFits
  <2> QED BY <1>6, <2>2, <2>3
<1>7. CASE h.name \notin {"list_notes", "put_open"}
  <2>1. requests' = <<>> /\ result' = "ok"
    BY <1>1, <1>2, <1>7 DEF Plan, Asks, GitLab!Left
  <2>2. lost <= 2 * GitLabRetries /\ comments' <= GitLabRetries + 1 /\ comments' <= lost + 1
    BY <1>3, <1>4
  <2>3. operation \in {"open_discussion", "reply", "reopen_and_reply"} => comments' >= 1
    BY <1>1, <1>3, <1>4, <1>7 DEF Plan, Asks
  <2>4. operation # "none"
    BY <1>1 DEF Plan
  <2>5. GitLab!AnswersFitEffects'
    <3>1. comments' <= lost' + (IF result' = "ok" THEN 1 ELSE 0)
      BY <1>2, <2>1, <2>2
    <3>2. result' # "inline_anchor"
      BY <2>1
    <3>3. operation' \in {"open_discussion", "reply", "reopen_and_reply"} => comments' >= 1
      BY <1>2, <2>3
    <3> QED BY <3>1, <3>2, <3>3 DEF GitLab!AnswersFitEffects
  <2> QED BY <1>2, <1>4, <1>5, <2>1, <2>2, <2>4, <2>5
          DEF GitLabInv, RunningFits, EndedFits, Running
<1> QED BY <1>6, <1>7

\* An attempt that was lost or refused: it is made again, or the operation ends.
LEMMA AttemptFits ==
  ASSUME GitLabInv, GitLab!GitLabConstants, GitLab!AttemptLost \/ GitLab!AttemptRefused
  PROVE  GitLabInv'
<1> DEFINE h == Head(requests)
<1>1. Plan /\ Running /\ RunningFits /\ GitLabTypes /\ result = "none"
  BY DEF GitLabInv, GitLab!AttemptLost, GitLab!AttemptRefused, Running, RunningFits
<1>2. /\ comments \in Nat /\ lost \in Nat /\ tries \in 0..GitLabRetries /\ GitLabRetries \in Nat
      /\ comments <= lost /\ comments <= tries
      /\ lost <= (IF Second THEN GitLabRetries ELSE 0) + tries
  BY <1>1 DEF RunningFits, GitLabTypes, GitLab!GitLabConstants
<1>3. operation' = operation /\ operations' = operations
  BY DEF GitLab!AttemptLost, GitLab!AttemptRefused
<1>4. PICK heard \in {"status", "none"} :
        /\ GitLab!RetryOrRaise(heard)
        /\ \/ comments' = comments /\ lost' = lost
           \/ comments' \in {comments, comments + 1} /\ lost' = lost + 1
        /\ h.name \in {"put_open", "list_notes"} => comments' = comments
        /\ resolved' \in BOOLEAN /\ noteBodies' \in Seq(0..MaxOperations)
        /\ h.name = "edit_note" => NewerThanRest(h.note) /\ (h' = h => NewerThanRest(h.note)')
  <2>1. CASE GitLab!AttemptLost
    <3>1. PICK heard \in {"status", "none"} :
            GitLab!Effect(h) /\ lost' = lost + 1 /\ GitLab!RetryOrRaise(heard)
      BY <2>1 DEF GitLab!AttemptLost
    <3>2. h.name = "edit_note" => NewerThanRest(h.note)
      BY <1>1 DEF Plan, Asks
    <3>3. h.name = "edit_note" => (h' = h => NewerThanRest(h.note)')
      BY <1>1, <3>1, EffectKeeps DEF NewerThanRest
    <3>4. /\ comments' \in {comments, comments + 1}
          /\ h.name \in {"put_open", "list_notes"} => comments' = comments
      BY <1>1, <3>1, EffectKeeps
    <3>5. resolved' \in BOOLEAN /\ noteBodies' \in Seq(0..MaxOperations)
      BY <1>1, <3>1, EffectKeeps
    <3> QED BY <3>1, <3>2, <3>3, <3>4, <3>5
  <2>2. CASE GitLab!AttemptRefused
    <3>1. PICK heard \in {"status", "none"} : GitLab!RetryOrRaise(heard)
      BY <2>2 DEF GitLab!AttemptRefused
    <3>2. UNCHANGED <<lost, comments, resolved, noteBodies>>
      BY <2>2 DEF GitLab!AttemptRefused, GitLab!inGitLab
    <3>3. h.name = "edit_note" => NewerThanRest(h.note)
      BY <1>1 DEF Plan, Asks
    <3>4. h.name = "edit_note" => (h' = h => NewerThanRest(h.note)')
      BY <3>2, <3>3 DEF NewerThanRest
    <3> QED BY <1>1, <3>1, <3>2, <3>3, <3>4 DEF GitLabTypes
  <2> QED BY <2>1, <2>2
<1>5. comments' \in Nat /\ lost' \in Nat
  BY <1>2, <1>4
<1>6. CASE tries < GitLabRetries
  <2>1. tries' = tries + 1 /\ UNCHANGED <<requests, result>>
    BY <1>4, <1>6 DEF GitLab!RetryOrRaise
  <2>2. Plan'
    BY <1>1, <1>3, <1>4, <2>1, PlanGoesOn
  <2>3. Second' = Second /\ Running'
    BY <1>1, <1>3, <2>1 DEF Second, Running
  <2>4. GitLabTypes'
    BY <1>1, <1>2, <1>3, <1>4, <1>5, <1>6, <2>1 DEF GitLabTypes
  <2>5. /\ comments' <= lost' /\ comments' <= tries'
        /\ lost' <= (IF Second THEN GitLabRetries ELSE 0) + tries'
    BY <1>2, <1>4, <2>1
  <2>6. Head(requests').name \in {"put_open", "list_notes"} => comments' = 0
    BY <1>1, <1>4, <2>1 DEF RunningFits
  <2> QED BY <1>1, <2>1, <2>2, <2>3, <2>4, <2>5, <2>6 DEF GitLabInv, RunningFits, EndedFits
<1>7. CASE tries = GitLabRetries
  <2>1. GitLab!Raise(heard)
    BY <1>2, <1>4, <1>7 DEF GitLab!RetryOrRaise
  <2>2. /\ requests' = <<>> /\ tries' = 0 /\ result' \in {"inline_anchor", "error"}
        /\ EndedFits'
    BY <1>1, <1>3, <1>4, <1>5, <1>7, <2>1, RaisingEnds
  <2>3. GitLabTypes'
    BY <1>1, <1>2, <1>3, <1>4, <1>5, <2>2 DEF GitLabTypes
  <2> QED BY <2>2, <2>3 DEF GitLabInv, RunningFits, Running
<1> QED BY <1>2, <1>6, <1>7

LEMMA GitLabSteps ==
  ASSUME GitLabInv, [GitLab!Next]_(GitLab!vars)
  PROVE  GitLabInv'
<1>0. GitLab!GitLabConstants /\ GitLabRetries \in Nat
  BY PartsAssumption DEF GitLab!GitLabConstants
<1>1. CASE UNCHANGED GitLab!vars
  BY <1>1 DEF GitLab!vars, GitLab!inGitLab, GitLabInv, GitLabTypes, RunningFits, EndedFits,
              Running, Plan, Asks, Second, NewerThanRest, GitLab!AnswersFitEffects
<1>2. ASSUME NEW what \in GitLab!Kinds, GitLab!Begin(what) PROVE GitLabInv'
  <2>1. /\ requests' = GitLab!Requests(what) /\ operation' = what /\ result' = "none"
        /\ tries' = 0 /\ lost' = 0 /\ comments' = 0 /\ UNCHANGED <<resolved, noteBodies>>
        /\ operations < MaxOperations /\ operations' = operations + 1
    BY <1>2 DEF GitLab!Begin
  <2>2. Plan' /\ Running'
    BY <2>1 DEF GitLab!Requests, GitLab!Kinds, GitLab!Request, Plan, Asks, Running
  <2>3. GitLabTypes'
    BY <1>0, <2>1 DEF GitLabInv, GitLabTypes, GitLab!GitLabConstants
  <2>4. lost' <= (IF Second' THEN GitLabRetries ELSE 0) + tries'
    BY <1>0, <2>1
  <2> QED BY <2>1, <2>2, <2>3, <2>4 DEF GitLabInv, RunningFits, EndedFits
<1>3. CASE GitLab!Carried
  BY <1>0, <1>3, CarriedFits
<1>4. CASE GitLab!AttemptLost \/ GitLab!AttemptRefused
  BY <1>0, <1>4, AttemptFits
<1>5. CASE GitLab!PersonDeletesNote
  <2>1. PICK i \in GitLab!Listed : noteBodies' = [noteBodies EXCEPT ![i] = GitLab!Gone]
    BY <1>5 DEF GitLab!PersonDeletesNote
  <2>2. UNCHANGED <<operation, requests, tries, lost, result, comments, resolved, operations>>
    BY <1>5 DEF GitLab!PersonDeletesNote
  <2>3. noteBodies' \in Seq(0..MaxOperations)
    BY <1>0, <2>1 DEF GitLabInv, GitLabTypes, GitLab!Gone, GitLab!Listed, GitLab!GitLabConstants
  <2>4. \A j : NewerThanRest(j) => NewerThanRest(j)'
    BY <2>1 DEF NewerThanRest, GitLab!Listed, GitLabInv, GitLabTypes
  <2>5. Running => Plan'
    <3>1. ASSUME Running, Head(requests).name = "edit_note"
          PROVE  NewerThanRest(Head(requests).note)'
      <4>1. NewerThanRest(Head(requests).note)
        BY <3>1 DEF GitLabInv, RunningFits, Plan, Asks
      <4> QED BY <2>2, <2>4, <4>1 DEF NewerThanRest
    <3>2. Running => Plan
      BY DEF GitLabInv, RunningFits
    <3> QED BY <2>2, <3>1, <3>2, PlanGoesOn
  <2>6. RunningFits'
    BY <2>2, <2>5 DEF GitLabInv, RunningFits, Running, Second
  <2>7. EndedFits'
    BY <2>2 DEF GitLabInv, EndedFits, Running, GitLab!AnswersFitEffects
  <2> QED BY <2>2, <2>3, <2>6, <2>7 DEF GitLabInv, GitLabTypes
<1>6. CASE GitLab!PersonSetsResolved
  <2>1. /\ requests = <<>> /\ resolved' = ~resolved
        /\ UNCHANGED <<operation, requests, tries, lost, result, comments, noteBodies, operations>>
    BY <1>6 DEF GitLab!PersonSetsResolved
  <2>2. resolved' \in BOOLEAN
    BY <2>1
  <2>3. GitLabTypes'
    BY <2>1, <2>2 DEF GitLabInv, GitLabTypes
  <2> QED BY <2>1, <2>3 DEF GitLabInv, RunningFits, EndedFits, Running,
                            GitLab!AnswersFitEffects
<1> QED BY <1>1, <1>2, <1>3, <1>4, <1>5, <1>6 DEF GitLab!Next

LEMMA GitLabStarts ==
  ASSUME GitLab!Init
  PROVE  GitLabInv
<1>1. GitLabRetries \in Nat /\ MaxOperations \in Nat
  BY PartsAssumption DEF GitLab!GitLabConstants
<1> QED BY <1>1 DEF GitLab!Init, GitLabInv, GitLabTypes, RunningFits, EndedFits, Running,
                    GitLab!AnswersFitEffects

LEMMA GitLabStays ==
  Spec => [](part = "gitlab" => GitLabInv)
<1> DEFINE I == part = "gitlab" => GitLabInv
<1>1. Init => I
  BY GitLabStarts DEF Init
<1>2. I /\ [Next]_allVars => I'
  <2> SUFFICES ASSUME I, [Next]_allVars, part' = "gitlab" PROVE GitLabInv'
    OBVIOUS
  <2>1. GitLabInv /\ [GitLab!Next]_(GitLab!vars)
    BY DEF Next, At, allVars, gitlabVars, GitLab!vars, GitLab!inGitLab
  <2> QED BY <2>1, GitLabSteps
<1> QED BY <1>1, <1>2, PTL DEF Spec

\* However many attempts fail and however many answers are lost, an operation
\* of the adapter answers what it did: a reported comment is there, a comment
\* too many is one of a lost answer, and a bad anchor is one of a new discussion.
THEOREM AnswersFit == Spec => []AnswersFitEffects
<1>1. (part = "gitlab" => GitLabInv) => AnswersFitEffects
  BY DEF AnswersFitEffects, GitLabInv, EndedFits, Running, GitLab!AnswersFitEffects
<1> QED BY <1>1, GitLabStays, PTL

LEMMA EditedIsNewest ==
  ASSUME GitLabInv, [GitLab!Next]_(GitLab!vars)
  PROVE  GitLab!WrittenIsNewest
<1> SUFFICES ASSUME Running, result' = "ok", operation = "upsert_note"
             PROVE  \E i \in DOMAIN noteBodies' :
                      /\ noteBodies'[i] = operations
                      /\ \A j \in DOMAIN noteBodies' : j > i => noteBodies'[j] = GitLab!Gone
  BY DEF GitLab!WrittenIsNewest, Running
<1> DEFINE h == Head(requests)
<1>1. Plan /\ result = "none" /\ GitLabTypes
  BY DEF GitLabInv, RunningFits
<1>2. GitLab!Carried
  <2>1. ~GitLab!AttemptLost /\ ~GitLab!AttemptRefused
    BY <1>1 DEF GitLab!AttemptLost, GitLab!AttemptRefused, GitLab!RetryOrRaise, GitLab!Raise
  <2> QED BY <1>1, <2>1 DEF GitLab!Next, GitLab!Begin, GitLab!PersonDeletesNote,
                            GitLab!PersonSetsResolved, GitLab!vars, Running
<1>3. GitLab!Effect(h) /\ GitLab!Left = <<>>
  BY <1>2 DEF GitLab!Carried
<1>4. h.name \in {"post_note", "edit_note"}
  BY <1>1, <1>3 DEF Plan, Asks, GitLab!Left
<1>5. CASE h.name = "post_note"
  BY <1>1, <1>3, <1>5 DEF GitLab!Effect, GitLabTypes
<1>6. CASE h.name = "edit_note"
  <2>1. NewerThanRest(h.note)
    BY <1>1, <1>6 DEF Plan, Asks
  <2> QED BY <1>1, <1>3, <1>6, <2>1 DEF GitLab!Effect, GitLab!Listed, GitLabTypes, NewerThanRest
<1> QED BY <1>4, <1>5, <1>6

\* The note an operation has written is the newest of its purpose, whatever
\* answers were lost before and whatever notes people deleted meanwhile.
THEOREM WrittenNotesAreNewest == Spec => NewestNoteIsCurrent
<1>1. (part = "gitlab" => GitLabInv) /\ [Next]_allVars
        => [part = "gitlab" => GitLab!WrittenIsNewest]_allVars
  <2> SUFFICES ASSUME part = "gitlab", GitLabInv, [Next]_allVars PROVE GitLab!WrittenIsNewest
    OBVIOUS
  <2>1. [GitLab!Next]_(GitLab!vars)
    BY DEF Next, At, allVars, gitlabVars, GitLab!vars, GitLab!inGitLab
  <2> QED BY <2>1, EditedIsNewest
<1> QED BY <1>1, GitLabStays, PTL DEF Spec, NewestNoteIsCurrent

-------------------------------------------------------------------------------
(***************************************************************************)
(* The registries of languages, for every file the tables tell apart.      *)
(***************************************************************************)
\* The result of the first of six tests that holds, or the default.
LEMMA SixTests ==
  ASSUME NEW tests, DOMAIN tests = 1..6, NEW default,
         \A i \in 1..6 : tests[i][1] \in BOOLEAN
  PROVE  Lang!FirstOf(tests, default) =
           IF tests[1][1] THEN tests[1][2] ELSE IF tests[2][1] THEN tests[2][2]
           ELSE IF tests[3][1] THEN tests[3][2] ELSE IF tests[4][1] THEN tests[4][2]
           ELSE IF tests[5][1] THEN tests[5][2] ELSE IF tests[6][1] THEN tests[6][2]
           ELSE default
<1> DEFINE least(i) == tests[i][1] /\ \A j \in 1..6 : tests[j][1] => i <= j
<1>1. ASSUME NEW k \in 1..6, least(k) PROVE Lang!FirstOf(tests, default) = tests[k][2]
  <2>1. \A i \in 1..6 : least(i) => i = k
    BY <1>1
  <2>2. (CHOOSE i \in 1..6 : least(i)) = k
    BY <1>1, <2>1
  <2> QED BY <1>1, <2>2 DEF Lang!FirstOf
<1>2. (\A i \in 1..6 : ~tests[i][1]) => Lang!FirstOf(tests, default) = default
  BY DEF Lang!FirstOf
<1>3. tests[1][1] => least(1)
  OBVIOUS
<1>4. ~tests[1][1] /\ tests[2][1] => least(2)
  OBVIOUS
<1>5. ~tests[1][1] /\ ~tests[2][1] /\ tests[3][1] => least(3)
  OBVIOUS
<1>6. ~tests[1][1] /\ ~tests[2][1] /\ ~tests[3][1] /\ tests[4][1] => least(4)
  OBVIOUS
<1>7. ~tests[1][1] /\ ~tests[2][1] /\ ~tests[3][1] /\ ~tests[4][1] /\ tests[5][1] => least(5)
  OBVIOUS
<1>8. ~tests[1][1] /\ ~tests[2][1] /\ ~tests[3][1] /\ ~tests[4][1] /\ ~tests[5][1]
        /\ tests[6][1] => least(6)
  OBVIOUS
<1>9. ~tests[1][1] /\ ~tests[2][1] /\ ~tests[3][1] /\ ~tests[4][1] /\ ~tests[5][1]
        /\ ~tests[6][1] => \A i \in 1..6 : ~tests[i][1]
  OBVIOUS
<1> HIDE DEF least
<1> QED BY <1>1, <1>2, <1>3, <1>4, <1>5, <1>6, <1>7, <1>8, <1>9

LEMMA LanguagesAgree ==
  ASSUME NEW f \in Lang!FileRecords, NEW shows, Lang!Settled(f),
         f.name = "gitlab_ci" => f.ext = "yaml", f.name = "rc" => f.ext = "none"
  PROVE  Lang!EngineLanguage(f, shows) = Lang!BotLanguage(f, shows)
<1>1. Lang!BotLanguage(f, shows) =
        IF Lang!InSpecialPlace(f) \/ f.name = "gitlab_ci" THEN "yaml"
        ELSE IF f.name = "dockerfile" THEN "dockerfile"
        ELSE IF f.ext # "none" THEN f.ext
        ELSE IF f.name = "rc" \/ "shebang" \in shows THEN "bash" ELSE "unknown"
  <2> DEFINE a == Lang!InSpecialPlace(f) \/ f.name = "gitlab_ci"
             b == f.name = "dockerfile"
             c == f.ext # "none"
             e == f.name = "rc" \/ "shebang" \in shows
  <2>1. a \in BOOLEAN /\ b \in BOOLEAN /\ c \in BOOLEAN /\ e \in BOOLEAN
    OBVIOUS
  <2>2. Lang!BotLanguage(f, shows) =
          Lang!FirstOf(<< <<a, "yaml">>, <<b, "dockerfile">>, <<c, f.ext>>, <<e, "bash">> >>, "unknown")
    BY DEF Lang!BotLanguage
  <2> HIDE DEF a, b, c, e
  <2>3. Lang!BotLanguage(f, shows) = IF a THEN "yaml" ELSE IF b THEN "dockerfile" ELSE IF c THEN f.ext ELSE IF e THEN "bash" ELSE "unknown"
    BY <2>1, <2>2 DEF Lang!FirstOf
  <2> QED BY <2>3 DEF a, b, c, e
<1>2. Lang!EngineLanguage(f, shows) =
        IF f.exact /\ Lang!InSpecialPlace(f) /\ f.ext = "yaml" THEN "yaml"
        ELSE IF f.exact /\ f.name = "dockerfile" THEN "dockerfile"
        ELSE IF f.exact /\ f.name = "gitlab_ci" THEN "yaml"
        ELSE IF f.exact /\ f.name = "rc" THEN "bash"
        ELSE IF f.ext # "none" THEN f.ext
        ELSE IF "shebang" \in shows THEN "bash" ELSE "unknown"
  <2> DEFINE a == f.exact /\ Lang!InSpecialPlace(f) /\ f.ext = "yaml"
             b == f.exact /\ f.name = "dockerfile"
             c == f.exact /\ f.name = "gitlab_ci"
             e == f.exact /\ f.name = "rc"
             g == f.ext # "none"
             h == "shebang" \in shows
             tests == << <<a, "yaml">>, <<b, "dockerfile">>, <<c, "yaml">>, <<e, "bash">>,
                         <<g, f.ext>>, <<h, "bash">> >>
  <2>1. /\ a \in BOOLEAN /\ b \in BOOLEAN /\ c \in BOOLEAN
        /\ e \in BOOLEAN /\ g \in BOOLEAN /\ h \in BOOLEAN
    OBVIOUS
  <2>2. Lang!EngineLanguage(f, shows) = Lang!FirstOf(tests, "unknown")
    BY DEF Lang!EngineLanguage
  <2> HIDE DEF a, b, c, e, g, h
  <2>3. /\ DOMAIN tests = 1..6
        /\ tests[1][1] = a /\ tests[2][1] = b /\ tests[3][1] = c
        /\ tests[4][1] = e /\ tests[5][1] = g /\ tests[6][1] = h
    OBVIOUS
  <2>4. /\ tests[1][2] = "yaml" /\ tests[2][2] = "dockerfile" /\ tests[3][2] = "yaml"
        /\ tests[4][2] = "bash" /\ tests[5][2] = f.ext /\ tests[6][2] = "bash"
    OBVIOUS
  <2> HIDE DEF tests
  <2>5. Lang!EngineLanguage(f, shows) =
          IF a THEN "yaml" ELSE IF b THEN "dockerfile" ELSE IF c THEN "yaml"
          ELSE IF e THEN "bash" ELSE IF g THEN f.ext ELSE IF h THEN "bash" ELSE "unknown"
    <3>1. \A i \in 1..6 : tests[i][1] \in BOOLEAN
      BY <2>1, <2>3
    <3> QED BY <2>2, <2>3, <2>4, <3>1, SixTests
  <2> QED BY <2>5 DEF a, b, c, e, g, h
<1> QED BY <1>1, <1>2 DEF Lang!Settled, Lang!FileRecords

LEMMA BotAsked ==
  ASSUME NEW f \in Lang!FileRecords, NEW shows, Lang!Settled(f),
         f.name = "gitlab_ci" => f.ext = "yaml", f.name = "rc" => f.ext = "none"
  PROVE  Lang!EngineMatch(f, shows, Lang!NoMatch) = Lang!BotMatch(f, shows)
<1>1. \A language : Lang!EngineRuntime(language, f, shows) = Lang!Runtime(language, f, shows)
  BY DEF Lang!EngineRuntime, Lang!Runtime, Lang!EngineYaml
<1>2. \A x : Lang!Given("none", x) = x
  BY DEF Lang!Given
<1> DEFINE language == Lang!BotLanguage(f, shows)
           inferred == Lang!AsMatch(language, Lang!Runtime(language, f, shows))
<1>3. Lang!EngineMatch(f, shows, Lang!NoMatch) =
        [inferred EXCEPT !.profile = Lang!Given("none", @), !.context = Lang!Given("none", @),
                         !.dialect = Lang!Given("none", @)]
  BY <1>1, <1>2, LanguagesAgree DEF Lang!EngineMatch, Lang!NoMatch
<1>4. Lang!BotMatch(f, shows) = inferred
  BY DEF Lang!BotMatch
<1>5. [inferred EXCEPT !.profile = Lang!Given("none", @), !.context = Lang!Given("none", @),
                       !.dialect = Lang!Given("none", @)] = inferred
  BY <1>2 DEF Lang!AsMatch
<1> QED BY <1>3, <1>4, <1>5

\* What a list of tests gives is one of its results or the default.
LEMMA TestsGive ==
  ASSUME NEW n \in Nat, NEW tests, DOMAIN tests = 1..n, NEW default
  PROVE  \/ \E i \in 1..n : Lang!FirstOf(tests, default) = tests[i][2]
         \/ Lang!FirstOf(tests, default) = default
<1> DEFINE S == {i \in 1..n : tests[i][1]}
           least(i) == tests[i][1] /\ \A j \in DOMAIN tests : tests[j][1] => i <= j
<1>1. CASE S = {}
  BY <1>1 DEF Lang!FirstOf
<1>2. CASE S # {}
  <2>1. S \in SUBSET Nat
    OBVIOUS
  <2>2. \E i \in S : \A j \in S : i <= j
    BY <1>2, <2>1, LeastOf
  <2>3. \E i \in DOMAIN tests : least(i)
    BY <2>2
  <2>4. (CHOOSE i \in DOMAIN tests : least(i)) \in DOMAIN tests
    BY <2>3
  <2>5. Lang!FirstOf(tests, default) = tests[CHOOSE i \in DOMAIN tests : least(i)][2]
    BY <2>3 DEF Lang!FirstOf
  <2> QED BY <2>4, <2>5
<1> QED BY <1>1, <1>2

LEMMA TokenIsListed ==
  ASSUME NEW order, NEW n \in Nat, DOMAIN order = 1..n, NEW shows
  PROVE  \/ \E i \in 1..n : Lang!FirstToken(order, shows) = order[i]
         \/ Lang!FirstToken(order, shows) = "default"
<1> DEFINE tests == [i \in DOMAIN order |-> <<order[i] \in shows, order[i]>>]
<1>1. DOMAIN tests = 1..n /\ \A i \in 1..n : tests[i][2] = order[i]
  OBVIOUS
<1>2. Lang!FirstToken(order, shows) = Lang!FirstOf(tests, "default")
  BY DEF Lang!FirstToken
<1> HIDE DEF tests
<1> QED BY <1>1, <1>2, TestsGive

LEMMA CudaIsNamed ==
  ASSUME NEW shows
  PROVE  Lang!CudaProfile(shows) \in Lang!Profiles
<1> DEFINE order == <<"cuda_multigpu", "cuda_tma", "cuda_wgmma", "cuda_tensor_core",
               "cuda_pipeline_async", "cuda_thread_block_cluster", "cuda_cooperative_groups",
               "cuda_async_runtime">>
<1>1. DOMAIN order = 1..8 /\ \A i \in 1..8 : order[i] \in Lang!Profiles
  BY DEF Lang!Profiles
<1>2. Lang!CudaProfile(shows) = Lang!FirstToken(order, shows)
  BY DEF Lang!CudaProfile
<1> HIDE DEF order
<1> QED BY <1>1, <1>2, TokenIsListed DEF Lang!Profiles

LEMMA DialectIsNamed ==
  ASSUME NEW shows
  PROVE  Lang!SqlDialect(shows) \in Lang!Dialects
<1> DEFINE order == <<"postgresql", "mysql", "sqlite", "oracle">>
<1>1. DOMAIN order = 1..4 /\ \A i \in 1..4 : order[i] \in Lang!Dialects
  BY DEF Lang!Dialects
<1>2. Lang!SqlDialect(shows) = IF Lang!FirstToken(order, shows) = "default" THEN "generic" ELSE Lang!FirstToken(order, shows)
  BY DEF Lang!SqlDialect
<1> HIDE DEF order
<1> QED BY <1>1, <1>2, TokenIsListed DEF Lang!Dialects

\* A profile and a context, both named.
Named(pair) == \E p \in Lang!Profiles, c \in Lang!Contexts : pair = <<p, c>>

LEMMA TestsGiveNamed ==
  ASSUME NEW n \in Nat, NEW tests, DOMAIN tests = 1..n, NEW default,
         \A i \in 1..n : Named(tests[i][2]), Named(default)
  PROVE  Named(Lang!FirstOf(tests, default))
BY TestsGive

LEMMA SqlIsNamed ==
  ASSUME NEW f, NEW shows
  PROVE  Named(Lang!SqlProfile(f, shows))
<1> DEFINE tests == << <<"dbt" \in f.path \/ "dbt" \in shows, <<"dbt_warehouse", "analytics">> >>,
             <<"analytics" \in f.path, <<"analytics_warehouse", "analytics">> >>,
             <<"migrations" \in f.path, <<"migration_sql", "generic">> >> >>
           default == <<"default", "generic">>
<1>1. DOMAIN tests = 1..3 /\ \A i \in 1..3 : Named(tests[i][2])
  BY DEF Named, Lang!Profiles, Lang!Contexts
<1>2. Lang!SqlProfile(f, shows) = Lang!FirstOf(tests, default)
  BY DEF Lang!SqlProfile
<1>3. Named(default)
  BY DEF Named, Lang!Profiles, Lang!Contexts
<1> HIDE DEF tests, default
<1> QED BY <1>1, <1>2, <1>3, TestsGiveNamed

LEMMA YamlIsNamed ==
  ASSUME NEW f, NEW shows
  PROVE  Named(Lang!SpecialYaml(f, Lang!YamlProfile(f, shows)))
<1>1. Named(Lang!YamlProfile(f, shows))
  <2> DEFINE tests == << <<"schema" \in f.path \/ "openapi" \in shows, <<"schema_config", "schema_config">> >>,
             <<"config" \in f.path, <<"product_config", "product_config">> >> >>
             default == <<"default", "generic">>
  <2>1. DOMAIN tests = 1..2 /\ \A i \in 1..2 : Named(tests[i][2])
    BY DEF Named, Lang!Profiles, Lang!Contexts
  <2>2. Lang!YamlProfile(f, shows) = Lang!FirstOf(tests, default)
    BY DEF Lang!YamlProfile
  <2>3. Named(default)
    BY DEF Named, Lang!Profiles, Lang!Contexts
  <2> HIDE DEF tests, default
  <2> QED BY <2>1, <2>2, <2>3, TestsGiveNamed
<1> DEFINE tests == << <<"workflows" \in f.path, <<"github_actions", "github_actions">> >>,
             <<f.name = "gitlab_ci", <<"gitlab_ci", "gitlab_ci">> >>,
             <<"charts_values" \in f.path, <<"helm_values", "helm_values">> >>,
             <<"k8s" \in f.path, <<"kubernetes_manifests", "kubernetes">> >> >>
           default == Lang!YamlProfile(f, shows)
<1>2. DOMAIN tests = 1..4 /\ \A i \in 1..4 : Named(tests[i][2])
  BY DEF Named, Lang!Profiles, Lang!Contexts
<1>3. Lang!SpecialYaml(f, default) = Lang!FirstOf(tests, default)
  BY DEF Lang!SpecialYaml
<1> HIDE DEF tests, default
<1>4. Named(default)
  BY <1>1 DEF default
<1>5. Named(Lang!SpecialYaml(f, default))
  BY <1>2, <1>3, <1>4, TestsGiveNamed
<1> QED BY <1>5 DEF default

LEMMA PythonIsNamed ==
  ASSUME NEW f, NEW shows
  PROVE  Lang!PythonProfile(f, shows) \in Lang!Profiles
<1> DEFINE a == "fastapi" \in shows
           b == "django" \in shows \/ f.name = "django"
<1>1. a \in BOOLEAN /\ b \in BOOLEAN
  OBVIOUS
<1>2. Lang!PythonProfile(f, shows) = Lang!FirstOf(<< <<a, "fastapi_service">>, <<b, "django_service">> >>, "default")
  BY DEF Lang!PythonProfile
<1> HIDE DEF a, b
<1> QED BY <1>1, <1>2 DEF Lang!FirstOf, Lang!Profiles

NextTests(f, shows) ==
  LET isNext == f.name = "next_config" \/ "next" \in shows
  IN /\ f.name # "app_router" /\ ~(isNext /\ "app" \in f.path)
     /\ f.name # "pages_router" /\ ~(isNext /\ "pages" \in f.path)

LEMMA NoContextOnlyIf ==
  ASSUME NEW f, NEW shows
  PROVE  /\ Lang!NextContext(f, shows) \in Lang!Contexts \cup {"none"}
         /\ (Lang!NextContext(f, shows) = "none") <=> NextTests(f, shows)
<1> DEFINE isNext == f.name = "next_config" \/ "next" \in shows
           a == f.name = "app_router" \/ (isNext /\ "app" \in f.path)
           b == f.name = "pages_router" \/ (isNext /\ "pages" \in f.path)
<1>1. a \in BOOLEAN /\ b \in BOOLEAN
  OBVIOUS
<1>2. Lang!NextContext(f, shows) = Lang!FirstOf(<< <<a, "app_router">>, <<b, "pages_router">> >>, "none")
  BY DEF Lang!NextContext
<1>3. NextTests(f, shows) <=> ~a /\ ~b
  BY DEF NextTests, a, b
<1> HIDE DEF a, b
<1>4. /\ Lang!NextContext(f, shows) \in Lang!Contexts \cup {"none"}
      /\ (Lang!NextContext(f, shows) = "none") <=> ~a /\ ~b
  BY <1>1, <1>2 DEF Lang!FirstOf, Lang!Contexts
<1> QED BY <1>3, <1>4

LEMMA Joined ==
  ASSUME NEW p, NEW c, NEW d
  PROVE  LET all == <<p, c>> \o <<d>> IN all[1] = p /\ all[2] = c /\ all[3] = d
<1> DEFINE S == {p, c, d}
           pair == <<p, c>>
           last == <<d>>
           all == pair \o last
<1>1. pair \in Seq(S) /\ last \in Seq(S) /\ Len(pair) = 2 /\ Len(last) = 1
  OBVIOUS
<1>2. pair[1] = p /\ pair[2] = c /\ last[1] = d
  OBVIOUS
<1> HIDE DEF S, pair, last
<1>3. \A i \in 1..Len(pair) + Len(last) : all[i] = IF i <= Len(pair) THEN pair[i] ELSE last[i - Len(pair)]
  BY <1>1, ConcatProperties, Zenon
<1> HIDE DEF all
<1>4. \A i \in 1..3 : all[i] = IF i <= 2 THEN pair[i] ELSE last[i - 2]
  BY <1>1, <1>3
<1>5. all[1] = pair[1] /\ all[2] = pair[2] /\ all[3] = last[1]
  BY <1>4
<1> QED BY <1>5, <1>2 DEF pair, last, all

LEMMA NoneIsNothing ==
  "none" \notin Lang!Profiles /\ "none" \notin Lang!Contexts /\ "none" \notin Lang!Dialects
BY DEF Lang!Profiles, Lang!Contexts, Lang!Dialects

\* Profile, context and dialect: what is named for the file is named, and what
\* the file leaves open a piece of it leaves open.
LEMMA RuntimeIsKept ==
  ASSUME NEW language, NEW f, NEW shows, NEW piece \in SUBSET shows
  PROVE  /\ Lang!Runtime(language, f, shows)[1] \in Lang!Profiles
         /\ Lang!Runtime(language, f, shows)[2] \in Lang!Contexts \cup {"none"}
         /\ Lang!Runtime(language, f, shows)[3] \in Lang!Dialects \cup {"none"}
         /\ Lang!Runtime(language, f, shows)[2] = "none" => Lang!Runtime(language, f, piece)[2] = "none"
         /\ Lang!Runtime(language, f, shows)[3] = "none" => Lang!Runtime(language, f, piece)[3] = "none"
<1>1. CASE language = "yaml"
  <2>1. \A s : /\ Lang!Runtime(language, f, s)[1] \in Lang!Profiles
               /\ Lang!Runtime(language, f, s)[2] \in Lang!Contexts /\ Lang!Runtime(language, f, s)[3] = "none"
    <3> TAKE s
    <3>1. PICK p \in Lang!Profiles, c \in Lang!Contexts : Lang!SpecialYaml(f, Lang!YamlProfile(f, s)) = <<p, c>>
      BY YamlIsNamed DEF Named
    <3>2. Lang!Runtime(language, f, s) = Lang!SpecialYaml(f, Lang!YamlProfile(f, s)) \o <<"none">>
      BY <1>1 DEF Lang!Runtime
    <3>3. /\ Lang!Runtime(language, f, s)[1] = p /\ Lang!Runtime(language, f, s)[2] = c
          /\ Lang!Runtime(language, f, s)[3] = "none"
      BY <3>1, <3>2, Joined
    <3> QED BY <3>1, <3>3
  <2> QED BY <2>1, NoneIsNothing
<1>2. CASE language = "sql"
  <2>1. \A s : /\ Lang!Runtime(language, f, s)[1] \in Lang!Profiles
               /\ Lang!Runtime(language, f, s)[2] \in Lang!Contexts /\ Lang!Runtime(language, f, s)[3] \in Lang!Dialects
    <3> TAKE s
    <3>1. PICK p \in Lang!Profiles, c \in Lang!Contexts : Lang!SqlProfile(f, s) = <<p, c>>
      BY SqlIsNamed DEF Named
    <3>2. Lang!Runtime(language, f, s) = Lang!SqlProfile(f, s) \o <<Lang!SqlDialect(s)>>
      BY <1>2 DEF Lang!Runtime
    <3>3. /\ Lang!Runtime(language, f, s)[1] = p /\ Lang!Runtime(language, f, s)[2] = c
          /\ Lang!Runtime(language, f, s)[3] = Lang!SqlDialect(s)
      BY <3>1, <3>2, Joined
    <3> QED BY <3>1, <3>3, DialectIsNamed
  <2> QED BY <2>1, NoneIsNothing
<1>3. CASE language = "python"
  BY <1>3, PythonIsNamed DEF Lang!Runtime, Lang!Profiles
<1>4. CASE language = "cuda"
  BY <1>4, CudaIsNamed DEF Lang!Runtime, Lang!Profiles
<1>5. CASE language = "rust"
  BY <1>5 DEF Lang!Runtime, Lang!Profiles
<1>6. CASE language = "java"
  BY <1>6 DEF Lang!Runtime, Lang!Profiles
<1>7. CASE language \in {"typescript", "javascript"}
  <2>1. \A s : /\ Lang!Runtime(language, f, s)[1] \in Lang!Profiles
               /\ Lang!Runtime(language, f, s)[2] = Lang!NextContext(f, s)
               /\ Lang!Runtime(language, f, s)[3] = "none"
    <3> TAKE s
    <3> DEFINE a == Lang!NextContext(f, s) # "none"
               b == language = "typescript" /\ Lang!LooksLikeReact(f, s)
    <3>1. a \in BOOLEAN /\ b \in BOOLEAN
      OBVIOUS
    <3>2. Lang!Runtime(language, f, s) =
            <<Lang!FirstOf(<< <<a, "nextjs_frontend">>, <<b, "frontend_strict">> >>, "default"),
              Lang!NextContext(f, s), "none">>
      BY <1>7 DEF Lang!Runtime
    <3> HIDE DEF a, b
    <3>3. Lang!FirstOf(<< <<a, "nextjs_frontend">>, <<b, "frontend_strict">> >>, "default") \in Lang!Profiles
      BY <3>1 DEF Lang!FirstOf, Lang!Profiles
    <3> QED BY <3>2, <3>3
  <2>2. NextTests(f, shows) => NextTests(f, piece)
    BY DEF NextTests
  <2> QED BY <2>1, <2>2, NoContextOnlyIf
<1>8. CASE language \notin {"yaml", "sql", "python", "cuda", "rust", "java", "typescript",
                           "javascript"}
  BY <1>8 DEF Lang!Runtime, Lang!Profiles
<1> QED BY <1>1, <1>2, <1>3, <1>4, <1>5, <1>6, <1>7, <1>8

LEMMA HunkAgrees ==
  ASSUME NEW f, NEW shows, NEW piece \in SUBSET shows,
         Lang!Reviewable(Lang!BotMatch(f, shows).language)
  PROVE  Lang!EngineMatch(f, piece, Lang!BotMatch(f, shows)) = Lang!BotMatch(f, shows)
<1> DEFINE language == Lang!BotLanguage(f, shows)
           r == Lang!Runtime(language, f, shows)
           q == Lang!Runtime(language, f, piece)
           m == Lang!BotMatch(f, shows)
<1>1. m = [language |-> language, profile |-> r[1], context |-> r[2], dialect |-> r[3]]
  BY DEF Lang!BotMatch, Lang!AsMatch
<1>2. language # "none"
  BY <1>1 DEF Lang!Reviewable
<1>3. Lang!EngineRuntime(language, f, piece) = q
  BY DEF Lang!EngineRuntime, Lang!Runtime, Lang!EngineYaml
<1>4. Lang!EngineMatch(f, piece, m) =
        [Lang!AsMatch(language, q) EXCEPT !.profile = Lang!Given(m.profile, @),
                                     !.context = Lang!Given(m.context, @),
                                     !.dialect = Lang!Given(m.dialect, @)]
  BY <1>1, <1>2, <1>3 DEF Lang!EngineMatch, Lang!Given
<1>5. /\ Lang!Given(r[1], q[1]) = r[1] /\ Lang!Given(r[2], q[2]) = r[2] /\ Lang!Given(r[3], q[3]) = r[3]
  BY RuntimeIsKept DEF Lang!Given, Lang!Profiles
<1>6. m.profile = r[1] /\ m.context = r[2] /\ m.dialect = r[3]
  BY <1>1
<1> HIDE DEF r, q, language, m
<1>7. Lang!AsMatch(language, q) =
        [language |-> language, profile |-> q[1], context |-> q[2], dialect |-> q[3]]
  BY DEF Lang!AsMatch
<1> DEFINE S == {language, q[1], q[2], q[3], r[1], r[2], r[3]}
           R == [language : S, profile : S, context : S, dialect : S]
           filled == [Lang!AsMatch(language, q) EXCEPT !.profile = Lang!Given(m.profile, @),
                                                  !.context = Lang!Given(m.context, @),
                                                  !.dialect = Lang!Given(m.dialect, @)]
<1>8. m \in R
  <2>1. /\ language \in S /\ r[1] \in S /\ r[2] \in S /\ r[3] \in S
    OBVIOUS
  <2> HIDE DEF S
  <2> QED BY <1>1, <2>1
<1>9. filled \in R
  <2> DEFINE old == Lang!AsMatch(language, q)
  <2>1. /\ language \in S /\ q[1] \in S /\ q[2] \in S /\ q[3] \in S
        /\ r[1] \in S /\ r[2] \in S /\ r[3] \in S
    OBVIOUS
  <2>2. /\ Lang!Given(m.profile, old.profile) = r[1] /\ Lang!Given(m.context, old.context) = r[2]
        /\ Lang!Given(m.dialect, old.dialect) = r[3]
    BY <1>5, <1>6, <1>7
  <2> HIDE DEF S
  <2>3. old \in R
    BY <1>7, <2>1
  <2> HIDE DEF old
  <2> QED BY <2>1, <2>2, <2>3 DEF old
<1>10. /\ filled.language = m.language /\ filled.profile = m.profile
       /\ filled.context = m.context /\ filled.dialect = m.dialect
  BY <1>1, <1>5, <1>6, <1>7
<1>11. Lang!EngineMatch(f, piece, m) = filled
  BY <1>4
<1> HIDE DEF filled, S
<1>12. Lang!EngineMatch(f, piece, m) = m
  BY <1>8, <1>9, <1>10, <1>11
<1> QED BY <1>12 DEF m

MatchInv ==
  /\ file \in LanguageFiles /\ fetched \in BOOLEAN
  /\ match \in {Lang!NoMatch, Lang!BotMatch(file, Lang!BotSees)}
  /\ resolution # Lang!NoMatch => resolution = match

LEMMA LanguageSteps ==
  ASSUME MatchInv, [Lang!Next]_(Lang!vars)
  PROVE  MatchInv'
<1>1. CASE UNCHANGED Lang!vars
  BY <1>1 DEF Lang!vars, MatchInv, Lang!BotSees
<1>2. CASE Lang!Resolve
  BY <1>2 DEF Lang!Resolve, MatchInv, Lang!BotSees
<1>3. CASE Lang!ReviewHunk
  <2>1. /\ Lang!Reviewable(match.language)
        /\ resolution' = Lang!EngineMatch(file, Lang!EngineSees, match)
        /\ UNCHANGED <<file, fetched, match>>
    BY <1>3 DEF Lang!ReviewHunk
  <2>2. match = Lang!BotMatch(file, Lang!BotSees)
    BY <2>1 DEF MatchInv, Lang!NoMatch, Lang!Reviewable
  <2>3. Lang!EngineSees \in SUBSET Lang!BotSees
    BY PartsAssumption DEF Lang!FilesAssumption, MatchInv, Lang!EngineSees, Lang!BotSees
  <2>4. resolution' = match
    BY <2>1, <2>2, <2>3, HunkAgrees
  <2> QED BY <2>1, <2>4 DEF MatchInv, Lang!BotSees
<1> QED BY <1>1, <1>2, <1>3 DEF Lang!Next

\* What was answered is what the bot inferred.
LEMMA LanguagesStay == Spec => [](part = "languages" => MatchInv)
<1> DEFINE I == part = "languages" => MatchInv
<1>1. Init => I
  BY DEF Init, Lang!Init, MatchInv
<1>2. I /\ [Next]_allVars => I'
  <2> SUFFICES ASSUME I, [Next]_allVars, part' = "languages" PROVE MatchInv'
    OBVIOUS
  <2>1. MatchInv /\ [Lang!Next]_(Lang!vars)
    BY DEF Next, At, allVars, langVars, Lang!vars
  <2> QED BY <2>1, LanguageSteps
<1> QED BY <1>1, <1>2, PTL DEF Spec

\* A client that leaves the language of a file to review-engine gets what
\* review-bot would have asked for, for every file whose name and place the two
\* registries read alike; and a hunk is reviewed under what review-bot inferred
\* from the whole file or diff, whatever part of it the hunk shows.
THEOREM RegistriesGiveTheSame == Spec => []RegistriesAgree
<1>1. (part = "languages" => MatchInv) => RegistriesAgree
  <2> SUFFICES ASSUME MatchInv PROVE Lang!RegistriesAgree
    BY DEF RegistriesAgree
  <2>1. /\ file \in Lang!FileRecords
        /\ file.name = "gitlab_ci" => file.ext = "yaml"
        /\ file.name = "rc" => file.ext = "none"
    BY PartsAssumption DEF Lang!FilesAssumption, MatchInv
  <2>2. Lang!Settled(file) =>
          Lang!EngineMatch(file, Lang!BotSees, Lang!NoMatch) = Lang!BotMatch(file, Lang!BotSees)
    BY <2>1, BotAsked
  <2> QED BY <2>2 DEF Lang!RegistriesAgree, MatchInv
<1> QED BY <1>1, LanguagesStay, PTL

-------------------------------------------------------------------------------
(***************************************************************************)
(* The rate limiter of the webhook, for any clients, limit and window.     *)
(***************************************************************************)
\* The bucket b holds the last of the admitted hooks a of a client; those that
\* left it are older than a window at time t.
BucketFits(a, b, t) ==
  \E n \in Nat : /\ Len(a) = n + Len(b)
                 /\ \A i \in 1..Len(b) : b[i] = a[n + i]
                 /\ \A i \in 1..n : a[i] < t - Window

\* Hooks were admitted in order, none after time t.
InOrder(a, t) ==
  /\ \A i, j \in 1..Len(a) : i <= j => a[i] <= a[j]
  /\ \A i \in 1..Len(a) : a[i] <= t

\* A hook and the one the limit allows for after it are a window apart.
Spaced(a) == \A i \in 1..Len(a) : i + Limit <= Len(a) => a[i + Limit] > a[i] + Window

HooksInv ==
  /\ now \in Nat
  /\ bucket \in [Clients -> Seq(Nat)] /\ admitted \in [Clients -> Seq(Nat)]
  /\ \A c \in Clients : /\ BucketFits(admitted[c], bucket[c], now)
                        /\ InOrder(admitted[c], now)
                        /\ Spaced(admitted[c])

LEMMA RateNumbers == Limit \in Nat \ {0} /\ Window \in Nat \ {0}
BY PartsAssumption DEF Webhook!IntakeConstants

\* What is dropped from the left of a bucket is older than a window.
LEMMA CurrentFitsLog ==
  ASSUME HooksInv, NEW c \in Clients
  PROVE  /\ Webhook!Current(c) \in Seq(Nat)
         /\ BucketFits(admitted[c], Webhook!Current(c), now)
<1> DEFINE a == admitted[c]
           b == bucket[c]
           inside == {i \in DOMAIN b : b[i] >= now - Window}
<1>1. a \in Seq(Nat) /\ b \in Seq(Nat) /\ now \in Nat /\ DOMAIN b = 1..Len(b)
      /\ Len(a) \in Nat /\ Len(b) \in Nat
  BY DEF HooksInv
<1>2. PICK n \in Nat : /\ Len(a) = n + Len(b)
                       /\ \A i \in 1..Len(b) : b[i] = a[n + i]
                       /\ \A i \in 1..n : a[i] < now - Window
  BY DEF HooksInv, BucketFits
<1>3. Webhook!Current(c) =
        IF inside = {} THEN <<>>
        ELSE SubSeq(b, CHOOSE i \in inside : \A j \in inside : i <= j, Len(b))
  BY DEF Webhook!Current
<1>4. inside \in SUBSET Nat /\ \A i \in inside : i \in 1..Len(b)
  BY <1>1
<1>5. \A i \in 1..Len(b) : ~(i \in inside) => b[i] < now - Window
  <2> SUFFICES ASSUME NEW i \in 1..Len(b), ~(i \in inside) PROVE b[i] < now - Window
    OBVIOUS
  <2>1. b[i] \in Nat /\ ~(b[i] >= now - Window)
    BY <1>1
  <2> QED BY <1>1, <2>1, RateNumbers
<1> HIDE DEF a, b, inside
<1>6. CASE inside = {}
  <2>1. Webhook!Current(c) = <<>>
    BY <1>3, <1>6
  <2>2. \A i \in 1..Len(a) : a[i] < now - Window
    <3> SUFFICES ASSUME NEW i \in 1..Len(a) PROVE a[i] < now - Window
      OBVIOUS
    <3>1. CASE i <= n
      BY <1>2, <3>1
    <3>2. CASE i > n
      <4>1. i - n \in 1..Len(b) /\ n + (i - n) = i
        BY <1>1, <1>2, <3>2
      <4> QED BY <1>2, <1>5, <1>6, <4>1
    <3> QED BY <1>2, <3>1, <3>2
  <2>3. BucketFits(a, <<>>, now)
    BY <1>1, <2>2 DEF BucketFits
  <2> QED BY <2>1, <2>3 DEF a
<1>7. CASE inside # {}
  <2> DEFINE k == CHOOSE i \in inside : \A j \in inside : i <= j
             d == SubSeq(b, k, Len(b))
  <2>1. k \in inside /\ \A j \in inside : k <= j
    <3>1. \E i \in inside : \A j \in inside : i <= j
      BY <1>4, <1>7, LeastOf
    <3> QED BY <3>1
  <2>2. Webhook!Current(c) = d
    BY <1>3, <1>7
  <2>3. k \in 1..Len(b)
    BY <1>4, <2>1
  <2> HIDE DEF k
  <2>4. /\ d \in Seq(Nat) /\ Len(d) = Len(b) - k + 1
        /\ \A i \in 1..Len(d) : d[i] = b[k + i - 1]
    BY <1>1, <2>3, SubSeqProperties
  <2> HIDE DEF d
  <2> DEFINE m == n + k - 1
  <2>5. m \in Nat /\ Len(a) = m + Len(d)
    BY <1>1, <1>2, <2>3, <2>4
  <2>6. \A i \in 1..Len(d) : d[i] = a[m + i]
    <3> SUFFICES ASSUME NEW i \in 1..Len(d) PROVE d[i] = a[m + i]
      OBVIOUS
    <3>1. k + i - 1 \in 1..Len(b) /\ n + (k + i - 1) = m + i
      <4>1. i \in Nat /\ 1 <= i /\ i <= Len(b) - k + 1
        BY <1>1, <2>3, <2>4
      <4> QED BY <1>1, <2>3, <4>1
    <3> QED BY <1>2, <2>4, <3>1
  <2>7. \A i \in 1..m : a[i] < now - Window
    <3> SUFFICES ASSUME NEW i \in 1..m PROVE a[i] < now - Window
      OBVIOUS
    <3>1. CASE i <= n
      BY <1>2, <2>5, <3>1
    <3>2. CASE i > n
      <4>1. i - n \in 1..Len(b) /\ n + (i - n) = i /\ ~(k <= i - n)
        BY <1>1, <2>3, <3>2
      <4> QED BY <1>2, <1>5, <2>1, <4>1
    <3> QED BY <3>1, <3>2, <2>5
  <2>8. BucketFits(a, d, now)
    BY <2>5, <2>6, <2>7 DEF BucketFits
  <2> QED BY <2>2, <2>4, <2>8 DEF a
<1> QED BY <1>6, <1>7

\* A hook is admitted only where the one that many hooks before it is gone.
LEMMA AdmittedFits ==
  ASSUME NEW a \in Seq(Nat), NEW b \in Seq(Nat), NEW t \in Nat,
         BucketFits(a, b, t), InOrder(a, t), Spaced(a), Len(b) < Limit
  PROVE  /\ BucketFits(Append(a, t), Append(b, t), t)
         /\ InOrder(Append(a, t), t) /\ Spaced(Append(a, t))
<1> DEFINE x == Append(a, t)
           y == Append(b, t)
<1>1. PICK n \in Nat : /\ Len(a) = n + Len(b)
                       /\ \A i \in 1..Len(b) : b[i] = a[n + i]
                       /\ \A i \in 1..n : a[i] < t - Window
  BY DEF BucketFits
<1>2. /\ Len(x) = Len(a) + 1 /\ x[Len(a) + 1] = t /\ \A i \in 1..Len(a) : x[i] = a[i]
      /\ Len(y) = Len(b) + 1 /\ y[Len(b) + 1] = t /\ \A i \in 1..Len(b) : y[i] = b[i]
      /\ Len(a) \in Nat /\ Len(b) \in Nat
  BY AppendProperties
<1>3. \A i \in 1..Len(a) : a[i] \in Nat
  OBVIOUS
<1> HIDE DEF x, y
<1>4. BucketFits(x, y, t)
  <2>1. Len(x) = n + Len(y)
    BY <1>1, <1>2
  <2>2. \A i \in 1..Len(y) : y[i] = x[n + i]
    <3> SUFFICES ASSUME NEW i \in 1..Len(y) PROVE y[i] = x[n + i]
      OBVIOUS
    <3>1. CASE i = Len(b) + 1
      BY <1>1, <1>2, <3>1
    <3>2. CASE i # Len(b) + 1
      <4>1. i \in 1..Len(b) /\ n + i \in 1..Len(a)
        BY <1>1, <1>2, <3>2
      <4> QED BY <1>1, <1>2, <4>1
    <3> QED BY <3>1, <3>2
  <2>3. \A i \in 1..n : x[i] < t - Window
    <3> SUFFICES ASSUME NEW i \in 1..n PROVE x[i] < t - Window
      OBVIOUS
    <3>1. i \in 1..Len(a)
      BY <1>1, <1>2
    <3> QED BY <1>1, <1>2, <3>1
  <2> QED BY <2>1, <2>2, <2>3 DEF BucketFits
<1>5. InOrder(x, t)
  <2>1. \A i \in 1..Len(x) : x[i] \in Nat /\ x[i] <= t
    <3> SUFFICES ASSUME NEW i \in 1..Len(x) PROVE x[i] \in Nat /\ x[i] <= t
      OBVIOUS
    <3>1. CASE i = Len(a) + 1
      BY <1>2, <3>1
    <3>2. CASE i # Len(a) + 1
      <4>1. i \in 1..Len(a)
        BY <1>2, <3>2
      <4> QED BY <1>2, <1>3, <4>1 DEF InOrder
    <3> QED BY <3>1, <3>2
  <2>2. ASSUME NEW i \in 1..Len(x), NEW j \in 1..Len(x), i <= j PROVE x[i] <= x[j]
    <3>1. CASE j = Len(a) + 1
      BY <1>2, <2>1, <3>1
    <3>2. CASE j # Len(a) + 1
      <4>1. i \in 1..Len(a) /\ j \in 1..Len(a)
        BY <1>2, <2>2, <3>2
      <4> QED BY <1>2, <2>2, <4>1 DEF InOrder
    <3> QED BY <3>1, <3>2
  <2> QED BY <2>1, <2>2 DEF InOrder
<1>6. Spaced(x)
  <2> SUFFICES ASSUME NEW i \in 1..Len(x), i + Limit <= Len(x)
               PROVE  x[i + Limit] > x[i] + Window
    BY DEF Spaced
  <2>1. i \in 1..Len(a)
    BY <1>2, RateNumbers
  <2>2. CASE i + Limit = Len(a) + 1
    <3>1. i \in 1..n
      BY <1>1, <1>2, <2>1, <2>2, RateNumbers
    <3>2. x[i + Limit] = t /\ x[i] = a[i] /\ a[i] \in Nat /\ a[i] < t - Window
      BY <1>1, <1>2, <1>3, <2>1, <2>2, <3>1
    <3> QED BY <3>2, RateNumbers
  <2>3. CASE i + Limit # Len(a) + 1
    <3>1. i + Limit \in 1..Len(a)
      <4>1. i + Limit <= Len(a) + 1 /\ i + Limit \in Nat /\ 1 <= i + Limit
        BY <1>2, <2>1, RateNumbers
      <4> QED BY <1>2, <2>3, <4>1
    <3>2. x[i + Limit] = a[i + Limit] /\ x[i] = a[i]
      BY <1>2, <2>1, <3>1
    <3>3. a[i + Limit] > a[i] + Window
      BY <2>1, <3>1, RateNumbers DEF Spaced
    <3> QED BY <3>2, <3>3
  <2> QED BY <2>2, <2>3
<1> QED BY <1>4, <1>5, <1>6 DEF x, y

LEMMA LaterFits ==
  ASSUME NEW a \in Seq(Nat), NEW b \in Seq(Nat), NEW t \in Nat, BucketFits(a, b, t), InOrder(a, t)
  PROVE  BucketFits(a, b, t + 1) /\ InOrder(a, t + 1)
<1>1. \A i \in 1..Len(a) : a[i] \in Nat
  OBVIOUS
<1>2. PICK n \in Nat : /\ Len(a) = n + Len(b)
                       /\ \A i \in 1..Len(b) : b[i] = a[n + i]
                       /\ \A i \in 1..n : a[i] < t - Window
  BY DEF BucketFits
<1>3. \A i \in 1..n : a[i] < (t + 1) - Window
  <2> SUFFICES ASSUME NEW i \in 1..n PROVE a[i] < (t + 1) - Window
    OBVIOUS
  <2>1. i \in 1..Len(a) /\ a[i] < t - Window
    BY <1>2
  <2> QED BY <1>1, <2>1, RateNumbers
<1>4. BucketFits(a, b, t + 1)
  BY <1>2, <1>3 DEF BucketFits
<1>5. InOrder(a, t + 1)
  BY <1>1 DEF InOrder
<1> QED BY <1>4, <1>5

LEMMA HookSteps ==
  ASSUME HooksInv, [Webhook!Next]_(Webhook!vars)
  PROVE  HooksInv'
<1>0. /\ now \in Nat /\ bucket \in [Clients -> Seq(Nat)] /\ admitted \in [Clients -> Seq(Nat)]
      /\ \A c \in Clients : /\ BucketFits(admitted[c], bucket[c], now)
                            /\ InOrder(admitted[c], now) /\ Spaced(admitted[c])
  BY DEF HooksInv
<1>1. CASE UNCHANGED Webhook!vars
  BY <1>0, <1>1 DEF Webhook!vars, HooksInv, BucketFits, InOrder, Spaced
<1>2. CASE Webhook!Tick
  <2>1. now' = now + 1 /\ bucket' = bucket /\ admitted' = admitted
    BY <1>2 DEF Webhook!Tick
  <2>2. \A c \in Clients : /\ BucketFits(admitted[c], bucket[c], now + 1)
                           /\ InOrder(admitted[c], now + 1) /\ Spaced(admitted[c])
    BY <1>0, LaterFits
  <2>3. \A c \in Clients : /\ BucketFits(admitted[c], bucket[c], now)'
                           /\ InOrder(admitted[c], now)' /\ Spaced(admitted[c])'
    BY <2>1, <2>2 DEF BucketFits, InOrder, Spaced
  <2> QED BY <1>0, <2>1, <2>3 DEF HooksInv
<1>3. ASSUME NEW c \in Clients, Webhook!Refuse(c) PROVE HooksInv'
  <2>1. now' = now /\ admitted' = admitted /\ bucket' = [bucket EXCEPT ![c] = Webhook!Current(c)]
    BY <1>3 DEF Webhook!Refuse
  <2>2. PICK cur \in Seq(Nat) : cur = Webhook!Current(c) /\ BucketFits(admitted[c], cur, now)
    BY CurrentFitsLog
  <2>3. bucket' = [bucket EXCEPT ![c] = cur]
    BY <2>1, <2>2
  <2>4. bucket' \in [Clients -> Seq(Nat)]
    BY <1>0, <2>3
  <2>5. ASSUME NEW d \in Clients
        PROVE  BucketFits(admitted'[d], bucket'[d], now') /\ InOrder(admitted'[d], now') /\ Spaced(admitted'[d])
    <3>1. CASE d = c
      BY <1>0, <2>1, <2>2, <2>3, <3>1
    <3>2. CASE d # c
      BY <1>0, <2>1, <2>3, <3>2
    <3> QED BY <3>1, <3>2
  <2>6. (\A d \in Clients : BucketFits(admitted[d], bucket[d], now) /\ InOrder(admitted[d], now) /\ Spaced(admitted[d]))'
    BY <2>5 DEF BucketFits, InOrder, Spaced
  <2> QED BY <1>0, <2>1, <2>4, <2>6 DEF HooksInv
<1>4. ASSUME NEW c \in Clients, Webhook!Admit(c) PROVE HooksInv'
  <2>1. /\ now' = now /\ Len(Webhook!Current(c)) < Limit
        /\ admitted' = [admitted EXCEPT ![c] = Append(@, now)]
        /\ bucket' = [bucket EXCEPT ![c] = Append(Webhook!Current(c), now)]
    BY <1>4 DEF Webhook!Admit
  <2>2. PICK cur \in Seq(Nat) : cur = Webhook!Current(c) /\ BucketFits(admitted[c], cur, now)
    BY CurrentFitsLog
  <2>3. PICK x \in Seq(Nat) : x = Append(admitted[c], now)
    <3>1. admitted[c] \in Seq(Nat)
      BY <1>0
    <3> QED BY <1>0, <3>1, AppendProperties
  <2>4. PICK y \in Seq(Nat) : y = Append(cur, now)
    BY <1>0, AppendProperties
  <2>5. bucket' = [bucket EXCEPT ![c] = y] /\ admitted' = [admitted EXCEPT ![c] = x]
    BY <2>1, <2>2, <2>3, <2>4
  <2>6. BucketFits(x, y, now) /\ InOrder(x, now) /\ Spaced(x)
    <3>1. admitted[c] \in Seq(Nat) /\ Len(cur) < Limit
      BY <1>0, <2>1, <2>2
    <3> QED BY <1>0, <2>2, <2>3, <2>4, <3>1, AdmittedFits
  <2>7. bucket' \in [Clients -> Seq(Nat)] /\ admitted' \in [Clients -> Seq(Nat)]
    BY <1>0, <2>5
  <2>8. ASSUME NEW d \in Clients
        PROVE  BucketFits(admitted'[d], bucket'[d], now') /\ InOrder(admitted'[d], now') /\ Spaced(admitted'[d])
    <3>1. CASE d = c
      BY <1>0, <2>1, <2>5, <2>6, <3>1
    <3>2. CASE d # c
      BY <1>0, <2>1, <2>5, <3>2
    <3> QED BY <3>1, <3>2
  <2>9. (\A d \in Clients : BucketFits(admitted[d], bucket[d], now) /\ InOrder(admitted[d], now) /\ Spaced(admitted[d]))'
    BY <2>8 DEF BucketFits, InOrder, Spaced
  <2> QED BY <1>0, <2>1, <2>7, <2>9 DEF HooksInv
<1> QED BY <1>1, <1>2, <1>3, <1>4 DEF Webhook!Next

LEMMA WindowHolds ==
  ASSUME NEW a \in Seq(Nat), NEW from \in Nat, NEW t \in Nat, InOrder(a, t), Spaced(a)
  PROVE  Cardinality({i \in DOMAIN a : a[i] \in from..(from + Window)}) <= Limit
<1> DEFINE S == {i \in DOMAIN a : a[i] \in from..(from + Window)}
<1>1. S \in SUBSET Nat /\ \A i \in S : i \in 1..Len(a) /\ a[i] \in Nat /\ from <= a[i] /\ a[i] <= from + Window
  BY RateNumbers
<1> HIDE DEF S
<1>2. CASE S = {}
  <2>1. Cardinality(S) = 0
    BY <1>2, FS_EmptySet
  <2> QED BY <2>1, RateNumbers DEF S
<1>3. CASE S # {}
  <2>1. PICK m \in S : \A i \in S : m <= i
    BY <1>1, <1>3, LeastOf
  <2>2. \A i \in S : i <= m + Limit - 1
    <3> SUFFICES ASSUME NEW i \in S, i >= m + Limit PROVE FALSE
      BY <1>1, <2>1, RateNumbers
    <3>1. /\ m \in 1..Len(a) /\ m + Limit \in 1..Len(a) /\ i \in 1..Len(a)
          /\ a[m] \in Nat /\ a[m + Limit] \in Nat /\ a[i] \in Nat
      BY <1>1, <2>1, RateNumbers
    <3>2. a[m + Limit] > a[m] + Window
      BY <3>1 DEF Spaced
    <3>3. a[m + Limit] <= a[i]
      BY <3>1 DEF InOrder
    <3>4. from <= a[m] /\ a[i] <= from + Window
      BY <1>1, <2>1
    <3>5. a[m + Limit] <= a[m] + Window
      <4> DEFINE x == a[m]
                 y == a[m + Limit]
                 z == a[i]
      <4>1. /\ x \in Nat /\ y \in Nat /\ z \in Nat /\ Window \in Nat
            /\ from <= x /\ y <= z /\ z <= from + Window
        BY <3>1, <3>3, <3>4, RateNumbers
      <4> HIDE DEF x, y, z
      <4>2. y <= x + Window
        BY <4>1
      <4> QED BY <4>2 DEF x, y
    <3> QED BY <3>1, <3>2, <3>5, RateNumbers
  <2> DEFINE T == m..(m + Limit - 1)
  <2>3. S \in SUBSET T
    BY <1>1, <2>1, <2>2, RateNumbers
  <2>4. IsFiniteSet(T) /\ Cardinality(T) = Limit
    <3>1. m \in Int /\ m + Limit - 1 \in Int /\ ~(m > m + Limit - 1) /\ (m + Limit - 1) - m + 1 = Limit
      BY <1>1, <2>1, RateNumbers
    <3> QED BY <3>1, FS_Interval
  <2> HIDE DEF T
  <2>5. Cardinality(S) <= Cardinality(T)
    BY <2>3, <2>4, FS_Subset
  <2> QED BY <2>4, <2>5 DEF S
<1> QED BY <1>2, <1>3

\* The number of elements, as WebhookIntake takes it from FiniteSets.
LEMMA SameNumber ==
  ASSUME NEW S
  PROVE  Webhook!Cardinality(S) = Cardinality(S)
BY DEF Webhook!Cardinality, Cardinality

\* Every behaviour of the limiter keeps its buckets fit.
LEMMA HooksStay == Spec => [](part = "webhook" => HooksInv)
<1> DEFINE I == part = "webhook" => HooksInv
<1>1. Init => I
  <2> SUFFICES ASSUME Init, part = "webhook" PROVE HooksInv
    OBVIOUS
  <2>1. now = 0 /\ bucket = [c \in Clients |-> <<>>] /\ admitted = [c \in Clients |-> <<>>]
    BY DEF Init, Webhook!Init
  <2> QED BY <2>1 DEF HooksInv, BucketFits, InOrder, Spaced
<1>2. I /\ [Next]_allVars => I'
  <2> SUFFICES ASSUME I, [Next]_allVars, part' = "webhook" PROVE HooksInv'
    OBVIOUS
  <2>1. HooksInv /\ [Webhook!Next]_(Webhook!vars)
    BY DEF Next, At, allVars, webhookVars, Webhook!vars
  <2> QED BY <2>1, HookSteps
<1> QED BY <1>1, <1>2, PTL DEF Spec

\* No client gets more hooks through than the limit in any window, both of its
\* ends included and wherever it begins, although the limiter only keeps what
\* is not older than a window when a hook arrives.
THEOREM RateIsKept == Spec => []RateHolds
<1>1. (part = "webhook" => HooksInv) => RateHolds
  <2> SUFFICES ASSUME HooksInv PROVE Webhook!RateHolds
    BY DEF RateHolds
  <2> SUFFICES ASSUME NEW c \in Clients, NEW t \in 0..now
               PROVE  Webhook!Cardinality(Webhook!AdmittedIn(c, t, t + Window)) <= Limit
    BY Zenon DEF Webhook!RateHolds
  <2>1. /\ admitted[c] \in Seq(Nat) /\ t \in Nat /\ now \in Nat
        /\ InOrder(admitted[c], now) /\ Spaced(admitted[c])
    BY DEF HooksInv
  <2>2. Cardinality({i \in DOMAIN admitted[c] : admitted[c][i] \in t..(t + Window)}) <= Limit
    BY <2>1, WindowHolds
  <2>3. Cardinality(Webhook!AdmittedIn(c, t, t + Window)) <= Limit
    BY <2>2 DEF Webhook!AdmittedIn
  <2> QED BY <2>3, SameNumber
<1> QED BY <1>1, HooksStay, PTL

-------------------------------------------------------------------------------
(***************************************************************************)
(* The verdicts about the findings of a rule, for any findings, policies,  *)
(* scores and settings.                                                    *)
(***************************************************************************)
\* A finding without a reply is not silenced for its replies.
RepliesSilence == ReplyLimit > 0

\* A reply costs no more than being allowed earns.
RepliesCostLittle == ReplyPenalty <= 800

\* A command comes with a reply.
VerdictInv ==
  /\ candidate \in [Findings -> EngineFindings] /\ policy \in RulePolicies
  /\ replies \in [Findings -> Nat]
  /\ ruling \in [Findings -> Commands \cup {Verdicts!NoCommand}]
  /\ \A f \in Findings : replies[f] = 0 => ruling[f] = Verdicts!NoCommand

LEMMA VerdictAssumption ==
  /\ EngineFindings \subseteq [score : 0..Verdicts!Whole, risk : {"low", "medium", "high"},
                              reviewable : BOOLEAN, anchored : BOOLEAN, precise : BOOLEAN]
  /\ RulePolicies \subseteq [suppressed : BOOLEAN, allowed : BOOLEAN, promoted : BOOLEAN,
                            adjustment : Int, minimum : 0..Verdicts!Whole]
  /\ Verdicts!IsFiniteSet(Findings) /\ Sample \in Nat \ {0}
  /\ {MinimumScore, ResolvedPenalty, ReplyPenalty, ReplyLimit, MaxReplies} \subseteq Nat
<1>1. Verdicts!VerdictConstants
  BY Zenon, PartsAssumption
<1> QED BY Zenon, <1>1 DEF Verdicts!VerdictConstants

LEMMA VerdictNumbers ==
  /\ Sample \in Nat \ {0} /\ MinimumScore \in Nat /\ ResolvedPenalty \in Nat
  /\ ReplyPenalty \in Nat /\ ReplyLimit \in Nat
<1>1. {MinimumScore, ResolvedPenalty, ReplyPenalty, ReplyLimit, MaxReplies} \subseteq Nat
  BY Zenon, VerdictAssumption
<1>2. Sample \in Nat \ {0}
  BY Zenon, VerdictAssumption
<1> QED BY <1>1, <1>2

LEMMA VerdictRecords ==
  ASSUME VerdictInv, NEW f \in Findings
  PROVE  /\ candidate[f].score \in Nat /\ candidate[f].risk \in {"low", "medium", "high"}
         /\ policy.minimum \in Nat /\ policy.adjustment \in Int
<1> DEFINE S == 0..Verdicts!Whole
<1>1. /\ EngineFindings \subseteq [score : S, risk : {"low", "medium", "high"},
                                  reviewable : BOOLEAN, anchored : BOOLEAN, precise : BOOLEAN]
      /\ RulePolicies \subseteq [suppressed : BOOLEAN, allowed : BOOLEAN, promoted : BOOLEAN,
                                adjustment : Int, minimum : S]
  BY Zenon, VerdictAssumption
<1>2. S \subseteq Nat
  BY DEF Verdicts!Whole
<1> HIDE DEF S
<1>3. candidate[f] \in EngineFindings /\ policy \in RulePolicies
  BY DEF VerdictInv
<1> QED BY <1>1, <1>2, <1>3

LEMMA VerdictSteps ==
  ASSUME VerdictInv, [Verdicts!Next]_(Verdicts!vars)
  PROVE  VerdictInv'
<1>1. CASE UNCHANGED Verdicts!vars
  BY <1>1 DEF VerdictInv, Verdicts!vars
<1>2. ASSUME NEW seen \in SUBSET Findings, NEW fate \in [seen -> Verdicts!Fates],
             NEW spared \in SUBSET (Findings \ seen), Verdicts!Run(seen, fate, spared)
      PROVE  VerdictInv'
  <2>1. UNCHANGED <<candidate, policy, replies, ruling>>
    BY <1>2 DEF Verdicts!Run
  <2> QED BY <2>1 DEF VerdictInv
<1>3. ASSUME NEW f \in Findings,
             \/ \E how \in {"by_person", "fixed"} : Verdicts!PersonResolves(f, how)
             \/ Verdicts!PersonReopens(f)
      PROVE  VerdictInv'
  <2>1. UNCHANGED <<candidate, policy, replies, ruling>>
    BY <1>3 DEF Verdicts!PersonResolves, Verdicts!PersonReopens
  <2> QED BY <2>1 DEF VerdictInv
<1>4. ASSUME NEW f \in Findings, NEW c \in Commands \cup {Verdicts!NoCommand},
             Verdicts!PersonReplies(f, c)
      PROVE  VerdictInv'
  <2>1. /\ replies' = [replies EXCEPT ![f] = replies[f] + 1]
        /\ ruling' = [ruling EXCEPT ![f] = IF c = Verdicts!NoCommand THEN ruling[f] ELSE c]
        /\ UNCHANGED <<candidate, policy>>
    BY <1>4 DEF Verdicts!PersonReplies
  <2>2. /\ replies \in [Findings -> Nat]
        /\ ruling \in [Findings -> Commands \cup {Verdicts!NoCommand}]
    BY DEF VerdictInv
  <2>3. /\ replies' \in [Findings -> Nat] /\ replies'[f] = replies[f] + 1
        /\ ruling' \in [Findings -> Commands \cup {Verdicts!NoCommand}]
        /\ \A g \in Findings : g # f => replies'[g] = replies[g] /\ ruling'[g] = ruling[g]
    BY <2>1, <2>2
  <2>4. \A g \in Findings : replies'[g] = 0 => ruling'[g] = Verdicts!NoCommand
    BY <2>2, <2>3 DEF VerdictInv
  <2> QED BY <2>1, <2>3, <2>4 DEF VerdictInv
<1> QED BY <1>1, <1>2, <1>3, <1>4 DEF Verdicts!Next

\* The sets whose numbers make the weight, as RuleVerdicts counts them.
LEMMA NumbersOfFindings ==
  /\ Verdicts!Cardinality(Verdicts!Surfaced) \in Nat
  /\ Verdicts!Cardinality(Verdicts!Human) \in Nat
<1>1. IsFiniteSet(Findings)
  <2>1. Verdicts!IsFiniteSet(Findings)
    BY Zenon, VerdictAssumption
  <2> QED BY Zenon, <2>1 DEF Verdicts!IsFiniteSet, IsFiniteSet
<1>2. /\ Verdicts!Surfaced \in SUBSET Findings /\ Verdicts!Human \in SUBSET Findings
  BY DEF Verdicts!Surfaced, Verdicts!Human
<1>3. /\ Cardinality(Verdicts!Surfaced) \in Nat /\ Cardinality(Verdicts!Human) \in Nat
  BY <1>1, <1>2, FS_Subset, FS_CardinalityType
<1>4. \A S : Verdicts!Cardinality(S) = Cardinality(S)
  BY DEF Verdicts!Cardinality, Cardinality
<1> QED BY <1>3, <1>4

LEMMA WeightIsKept == Verdicts!Weight \in Nat /\ Verdicts!Weight >= 8000
<1> DEFINE total == Verdicts!Cardinality(Verdicts!Surfaced)
           human == Verdicts!Cardinality(Verdicts!Human)
           rate  == (10000 * human) \div total
<1>1. total \in Nat /\ human \in Nat
  BY NumbersOfFindings
<1>2. Verdicts!Weight =
        IF total < Sample THEN 10000
        ELSE IF 2 * human >= total THEN Verdicts!Least(12000, 9000 + (rate * 6) \div 10)
        ELSE Verdicts!Greatest(8000, 8000 + (rate * 4) \div 10)
  BY DEF Verdicts!Weight
<1>3. total >= Sample => rate \in Nat
  BY <1>1, VerdictNumbers
<1> HIDE DEF total, human, rate
<1>4. CASE total < Sample
  BY <1>2, <1>4
<1>5. CASE ~(total < Sample)
  <2>1. rate \in Nat
    BY <1>1, <1>3, <1>5, VerdictNumbers
  <2>2. (rate * 6) \div 10 \in Nat /\ (rate * 4) \div 10 \in Nat
    BY <2>1
  <2> QED BY <1>2, <1>5, <2>2 DEF Verdicts!Least, Verdicts!Greatest
<1> QED BY <1>4, <1>5

\* The lowest weight leaves a score eight tenths.
LEMMA LowestScore ==
  ASSUME NEW s \in Nat, NEW w \in Nat, w >= 8000
  PROVE  (s * w + 5000) \div 10000 \in Nat /\ (s * w + 5000) \div 10000 >= (s * 8) \div 10
<1>1. s * w \in Nat /\ s * w >= s * 8000
  OBVIOUS
<1> DEFINE p == s * w
           k == s * 8
<1>2. p \in Nat /\ k \in Nat /\ p >= 1000 * k
  BY <1>1
<1> HIDE DEF p, k
<1>3. (p + 5000) \div 10000 \in Nat /\ (p + 5000) \div 10000 >= k \div 10
  BY <1>2
<1> QED BY <1>3 DEF p, k

\* Every behaviour of the verdicts keeps their invariant.
LEMMA VerdictsStay == Spec => [](part = "verdicts" => VerdictInv)
<1> DEFINE I == part = "verdicts" => VerdictInv
<1>1. Init => I
  <2> SUFFICES ASSUME Verdicts!Init PROVE VerdictInv
    BY DEF Init
  <2> QED BY DEF Verdicts!Init, VerdictInv
<1>2. I /\ [Next]_allVars => I'
  <2> SUFFICES ASSUME I, [Next]_allVars, part' = "verdicts" PROVE VerdictInv'
    OBVIOUS
  <2>1. VerdictInv /\ [Verdicts!Next]_(Verdicts!vars)
    BY DEF Next, At, allVars, verdictsVars, Verdicts!vars
  <2> QED BY <2>1, VerdictSteps
<1> QED BY <1>1, <1>2, PTL DEF Spec

\* What people let pass does not bury a rule: a finding the engine is sure of,
\* strong enough for the lowest weight a rule can get, is not suppressed as long
\* as it is unanswered, whatever became of the other findings of its rule.
THEOREM StrongFindingsLast == RepliesSilence => (Spec => []StrongFindingsSurvive)
<1> SUFFICES ASSUME RepliesSilence PROVE Spec => []StrongFindingsSurvive
  OBVIOUS
<1>1. (part = "verdicts" => VerdictInv) => StrongFindingsSurvive
  <2> SUFFICES ASSUME VerdictInv PROVE Verdicts!StrongFindingsSurvive
    BY DEF StrongFindingsSurvive
  <2> SUFFICES ASSUME NEW f \in Findings,
                      (candidate[f].score * 8) \div 10 - Verdicts!RiskPenalty[candidate[f].risk]
                        >= Verdicts!Greatest(MinimumScore, policy.minimum),
                      candidate[f].reviewable, candidate[f].anchored,
                      ~policy.suppressed, policy.adjustment >= 0,
                      replies[f] = 0, discussion[f] \in {"none", "open"}
               PROVE  Verdicts!Reason(f) = "none"
    BY DEF Verdicts!StrongFindingsSurvive
  <2>1. /\ candidate[f].score \in Nat /\ policy.minimum \in Nat /\ policy.adjustment \in Int
        /\ candidate[f].risk \in {"low", "medium", "high"}
    BY VerdictRecords
  <2> DEFINE given == (candidate[f].score * Verdicts!Weight + 5000) \div 10000
             risk  == Verdicts!RiskPenalty[candidate[f].risk]
             eased == (candidate[f].score * 8) \div 10
  <2>2. given \in Nat /\ given >= eased /\ eased \in Nat
    BY <2>1, WeightIsKept, LowestScore
  <2>3. risk \in Nat
    BY <2>1 DEF Verdicts!RiskPenalty
  <2>4. Verdicts!Penalties(f) = risk
    <3>1. ReplyPenalty * replies[f] = 0
      BY VerdictNumbers
    <3>2. Verdicts!Least(ReplyPenalty * replies[f], 1800) = 0
      BY <3>1 DEF Verdicts!Least
    <3> QED BY <2>3, <3>2 DEF Verdicts!Penalties
  <2>5. Verdicts!Adjustment(f) \in Nat
    BY <2>1 DEF Verdicts!Adjustment
  <2>6. Verdicts!Score(f) = Verdicts!Greatest(0, given - risk + Verdicts!Adjustment(f))
    BY <2>4 DEF Verdicts!Score
  <2>7. eased - risk >= Verdicts!Greatest(MinimumScore, policy.minimum)
    OBVIOUS
  <2> HIDE DEF given, risk, eased
  <2>8. ~(Verdicts!Score(f) < Verdicts!Greatest(MinimumScore, policy.minimum))
    BY <2>1, <2>2, <2>3, <2>5, <2>6, <2>7, VerdictNumbers DEF Verdicts!Greatest
  <2>9. ~Verdicts!Silenced(f)
    BY VerdictNumbers DEF Verdicts!Silenced, RepliesSilence
  <2>10. ruling[f] \notin {"ignore", "wrong-language", "false-positive"}
    BY DEF VerdictInv, Verdicts!NoCommand
  <2> QED BY <2>8, <2>9, <2>10 DEF Verdicts!Reason
<1> QED BY <1>1, VerdictsStay, PTL

\* A reply that allows a finding never has it suppressed, although it costs
\* score as every reply does, as long as it costs no more than it earns.
THEOREM AllowingNeverHurts == RepliesCostLittle => (Spec => AllowNeverHurts)
<1> SUFFICES ASSUME RepliesCostLittle PROVE Spec => AllowNeverHurts
  OBVIOUS
<1> DEFINE I == part = "verdicts" => VerdictInv
           A == part = "verdicts" => Verdicts!AllowSpares
<1>1. I /\ [Next]_allVars => [A]_allVars
  <2> SUFFICES ASSUME VerdictInv, part = "verdicts", [Next]_allVars PROVE Verdicts!AllowSpares
    OBVIOUS
  <2>1. [Verdicts!Next]_(Verdicts!vars)
    BY DEF Next, At, allVars, verdictsVars, Verdicts!vars
  <2> SUFFICES ASSUME NEW f \in Findings, replies'[f] # replies[f], ruling'[f] = "allow",
                      ruling[f] # "allow", ~policy.allowed, Verdicts!Reason(f) = "none"
               PROVE  Verdicts!Reason(f)' = "none"
    BY DEF Verdicts!AllowSpares
  <2>2. PICK g \in Findings, c \in Commands \cup {Verdicts!NoCommand} : Verdicts!PersonReplies(g, c)
    BY <2>1 DEF Verdicts!Next, Verdicts!vars, Verdicts!Run, Verdicts!PersonResolves,
                Verdicts!PersonReopens
  <2>3. /\ replies' = [replies EXCEPT ![g] = replies[g] + 1]
        /\ candidate' = candidate /\ policy' = policy /\ latest' = latest
        /\ discussion' = discussion
    BY <2>2 DEF Verdicts!PersonReplies
  <2>4. replies'[f] = replies[f] + 1 /\ replies[f] \in Nat
    BY <2>3 DEF VerdictInv
  <2>5. /\ candidate[f].score \in Nat /\ policy.minimum \in Nat /\ policy.adjustment \in Int
        /\ candidate[f].risk \in {"low", "medium", "high"}
    BY VerdictRecords
  <2>6. Verdicts!Weight' = Verdicts!Weight
    BY <2>3 DEF Verdicts!Weight, Verdicts!Surfaced, Verdicts!Human
  <2> DEFINE given  == (candidate[f].score * Verdicts!Weight + 5000) \div 10000
             risk   == Verdicts!RiskPenalty[candidate[f].risk]
             weak   == IF candidate[f].anchored THEN 0 ELSE 1000
             closed == IF discussion[f] \in {"by_person", "fixed", "by_bot"} THEN ResolvedPenalty ELSE 0
             raised == (IF policy.promoted THEN 800 ELSE 0) + policy.adjustment
             cost   == Verdicts!Least(ReplyPenalty * replies[f], 1800)
             more   == Verdicts!Least(ReplyPenalty * (replies[f] + 1), 1800)
  <2>7. /\ given \in Nat /\ risk \in Nat /\ weak \in Nat /\ closed \in Nat /\ raised \in Int
    <3>1. given \in Nat
      BY <2>5, WeightIsKept, LowestScore
    <3>2. risk \in Nat
      BY <2>5 DEF Verdicts!RiskPenalty
    <3> QED BY <2>5, <3>1, <3>2, VerdictNumbers
  <2>8. cost \in Nat /\ more \in Nat /\ more <= cost + 800
    <3>1. /\ ReplyPenalty * (replies[f] + 1) = ReplyPenalty * replies[f] + ReplyPenalty
          /\ ReplyPenalty * replies[f] \in Nat
      BY <2>4, VerdictNumbers
    <3> QED BY <3>1, VerdictNumbers DEF Verdicts!Least, RepliesCostLittle
  <2>9. Verdicts!Score(f) = Verdicts!Greatest(0, given - (risk + weak + closed + cost) + (0 + raised))
    BY <2>5, <2>7, <2>8 DEF Verdicts!Score, Verdicts!Penalties, Verdicts!Adjustment
  <2>10. Verdicts!Score(f)' =
           Verdicts!Greatest(0, given - (risk + weak + closed + more) + (800 + raised))
    <3>1. Verdicts!Penalties(f)' = risk + weak + closed + more
      BY <2>3, <2>4 DEF Verdicts!Penalties, Verdicts!RiskPenalty
    <3>2. Verdicts!Adjustment(f)' = 800 + raised
      BY <2>3, <2>5, <2>7 DEF Verdicts!Adjustment
    <3>3. ((candidate[f].score * Verdicts!Weight + 5000) \div 10000)' = given
      BY <2>3, <2>6
    <3> HIDE DEF given, risk, weak, closed, more, raised
    <3> QED BY <3>1, <3>2, <3>3 DEF Verdicts!Score
  <2> HIDE DEF given, risk, weak, closed, cost, more, raised
  <2>11. Verdicts!Score(f)' >= Verdicts!Score(f) /\ Verdicts!Score(f) \in Int /\ Verdicts!Score(f)' \in Int
    BY <2>7, <2>8, <2>9, <2>10 DEF Verdicts!Greatest
  <2>12. /\ ~policy.suppressed /\ candidate[f].reviewable
         /\ ~(candidate[f].precise /\ ~candidate[f].anchored)
         /\ ~(Verdicts!Score(f) < Verdicts!Greatest(MinimumScore, policy.minimum))
    BY DEF Verdicts!Reason
  <2>13. ~Verdicts!Silenced(f)'
    BY DEF Verdicts!Silenced
  <2>14. ~(Verdicts!Score(f)' < Verdicts!Greatest(MinimumScore, policy.minimum))
    BY <2>5, <2>11, <2>12, VerdictNumbers DEF Verdicts!Greatest
  <2>15. (Verdicts!Score(f) < Verdicts!Greatest(MinimumScore, policy.minimum))' = FALSE
    BY <2>3, <2>14
  <2> QED BY <2>3, <2>12, <2>13, <2>15 DEF Verdicts!Reason
<1> QED BY <1>1, VerdictsStay, PTL DEF Spec, AllowNeverHurts

-------------------------------------------------------------------------------
(***************************************************************************)
(* Review units, for any hunks, sizes of a piece and kinds of issue.       *)
(***************************************************************************)
\* The added lines of a hunk have growing numbers, their own ones unless the
\* program misreads the hunk.
LinesGrow(lines) ==
  \A i, j \in DOMAIN lines :
    /\ lines[i].marker = "+" /\ lines[j].marker = "+" /\ i < j
    => lines[i].line < lines[j].line

LinesAreRead(lines, misread) ==
  \A i \in DOMAIN lines :
    /\ lines[i].line \in Int
    /\ lines[i].marker = "+" /\ ~misread => lines[i].line = lines[i].actual

\* The finding is where its code is, or has no line and is about what a keyword
\* shows.
HitsItsLine(f) == f.sure => \/ f.shows /\ f.line = f.actual
                            \/ f.line = Units!NoLine /\ f.precise

HunkInv ==
  /\ {start, counter, actual, size} \subseteq Nat /\ odd \in BOOLEAN
  /\ changed \in Seq(Units!Line)
  /\ size > 0 /\ ~odd => counter = actual
  /\ LinesGrow(changed) /\ LinesAreRead(changed, odd)
  /\ \A i \in DOMAIN changed : changed[i].marker = "+" => changed[i].line < counter

ReportInv ==
  \A f \in kept \cup dropped : f.line \in Int /\ HitsItsLine(f)

LEMMA UnitNumbers ==
  /\ Starts \subseteq Nat \ {0}
  /\ MaxPiece \in Nat \ {0} /\ Bucket \in Nat \ {0}
BY PartsAssumption DEF Units!UnitConstants

LEMMA Quotients ==
  ASSUME NEW x \in Nat, NEW d \in Nat \ {0}
  PROVE  x \div d \in Nat /\ (x \div d) * d <= x /\ x < (x \div d) * d + d
OBVIOUS

\* Reading a line.
LEMMA LineReadFits ==
  ASSUME HunkInv, NEW k \in Units!Kinds, Units!LineRead(k)
  PROVE  HunkInv'
<1> DEFINE new == [marker |-> "+", blank |-> k.kind = "blank", signal |-> k.signal,
                   line |-> counter, actual |-> actual]
           old == [marker |-> "-", blank |-> FALSE, signal |-> k.signal,
                   line |-> Units!NoLine, actual |-> Units!NoLine]
<1>1. /\ start \in Nat /\ counter \in Nat /\ actual \in Nat /\ size \in Nat /\ odd \in BOOLEAN
      /\ changed \in Seq(Units!Line)
      /\ size > 0 /\ ~odd => counter = actual
  BY DEF HunkInv
<1>2. /\ k.kind \in {"added", "removed", "blank", "context", "no_newline", "plus_plus",
                     "minus_minus", "cut"}
      /\ k.signal \in 0..2
  BY DEF Units!Kinds
<1>3. /\ size' = size + 1 /\ size > 0 /\ start' = start
      /\ actual' = actual + Units!ActualSteps(k.kind)
      /\ counter' = counter + Units!Steps(k.kind)
      /\ odd' = (odd \/ k.kind \in {"plus_plus", "cut"})
  BY <1>1 DEF Units!LineRead
<1>4. /\ Units!ActualSteps(k.kind) \in Nat /\ Units!Steps(k.kind) \in Nat
      /\ k.kind \in {"added", "blank", "cut"} => Units!Steps(k.kind) > 0
      /\ k.kind \notin {"plus_plus", "cut"} => Units!ActualSteps(k.kind) = Units!Steps(k.kind)
  BY <1>2 DEF Units!ActualSteps, Units!Steps
<1>5. /\ {start', counter', actual', size'} \subseteq Nat /\ odd' \in BOOLEAN
      /\ counter' >= counter
      /\ size' > 0 /\ ~odd' => counter' = actual'
  <2>1. start' \in Nat /\ counter' \in Nat /\ actual' \in Nat /\ size' \in Nat /\ counter' >= counter
    BY <1>1, <1>3, <1>4
  <2>2. odd' \in BOOLEAN
    BY <1>1, <1>3
  <2>3. ~odd' => counter' = actual'
    BY <1>1, <1>3, <1>4
  <2> QED BY <2>1, <2>2, <2>3
<1>6. /\ changed' = CASE k.kind \in {"added", "blank", "cut"} -> Append(changed, new)
                     [] k.kind = "removed" -> Append(changed, old)
                     [] OTHER -> changed
  BY DEF Units!LineRead
<1>7. new \in Units!Line /\ old \in Units!Line
  BY <1>1, <1>2 DEF Units!Line, Units!NoLine
<1>8. /\ new.marker = "+" /\ new.line = counter /\ new.actual = actual
      /\ old.marker = "-" /\ old.line \in Int
  BY DEF Units!NoLine
<1> HIDE DEF new, old
<1>9. /\ LinesGrow(changed) /\ LinesAreRead(changed, odd)
      /\ \A i \in DOMAIN changed : changed[i].marker = "+" => changed[i].line < counter
      /\ \A i \in DOMAIN changed : changed[i] \in Units!Line /\ changed[i].line \in Int
  BY <1>1 DEF HunkInv, LinesAreRead
<1>10. odd => odd'
  BY <1>3
<1> DEFINE Fits(lines) ==
      /\ lines \in Seq(Units!Line) /\ LinesGrow(lines) /\ LinesAreRead(lines, odd')
      /\ \A i \in DOMAIN lines : lines[i].marker = "+" => lines[i].line < counter'
<1>11. Fits(changed)
  <2>1. LinesAreRead(changed, odd')
    BY <1>9, <1>10 DEF LinesAreRead
  <2>2. \A i \in DOMAIN changed : changed[i].marker = "+" => changed[i].line < counter'
    BY <1>1, <1>5, <1>9
  <2> QED BY <1>1, <1>9, <2>1, <2>2
<1>12. ASSUME NEW e \in Units!Line, e.line \in Int,
              e.marker = "+" => e.line = counter /\ counter < counter' /\ (~odd' => e.line = e.actual)
       PROVE  Fits(Append(changed, e))
  <2> DEFINE lines == Append(changed, e)
             n == Len(changed) + 1
  <2>1. /\ lines \in Seq(Units!Line) /\ DOMAIN lines = 1..n /\ n \in Nat
        /\ lines[n] = e /\ DOMAIN changed = 1..(n - 1)
        /\ \A i \in 1..(n - 1) : lines[i] = changed[i]
    BY <1>1, AppendProperties
  <2> HIDE DEF lines, n
  <2>2. \A i \in 1..n : i # n => i \in 1..(n - 1)
    BY <2>1
  <2>3. LinesAreRead(lines, odd')
    BY <1>11, <1>12, <2>1, <2>2 DEF LinesAreRead
  <2>4. \A i \in DOMAIN lines : lines[i].marker = "+" => lines[i].line < counter'
    BY <1>11, <1>12, <2>1, <2>2
  <2>5. LinesGrow(lines)
    <3> SUFFICES ASSUME NEW i \in 1..n, NEW j \in 1..n, lines[i].marker = "+",
                        lines[j].marker = "+", i < j
                 PROVE  lines[i].line < lines[j].line
      BY <2>1 DEF LinesGrow
    <3>1. i \in 1..(n - 1) /\ lines[i] = changed[i]
      BY <2>1
    <3>2. CASE j = n
      BY <1>9, <1>12, <2>1, <3>1, <3>2
    <3>3. CASE j # n
      <4>1. j \in 1..(n - 1) /\ lines[j] = changed[j]
        BY <2>1, <2>2, <3>3
      <4> QED BY <1>9, <2>1, <3>1, <4>1 DEF LinesGrow
    <3> QED BY <3>2, <3>3
  <2> QED BY <2>1, <2>3, <2>4, <2>5 DEF lines
<1> HIDE DEF Fits
<1>13. CASE k.kind \in {"added", "blank", "cut"}
  <2>1. counter < counter' /\ (~odd' => counter = actual)
    BY <1>1, <1>3, <1>4, <1>13
  <2>2. Fits(Append(changed, new))
    BY <1>1, <1>7, <1>8, <1>12, <2>1
  <2>3. Fits(changed')
    BY <1>6, <1>13, <2>2
  <2> QED BY <1>5, <2>3 DEF HunkInv, Fits, LinesGrow, LinesAreRead
<1>14. CASE k.kind = "removed"
  <2>1. Fits(Append(changed, old))
    BY <1>7, <1>8, <1>12
  <2>2. Fits(changed')
    BY <1>6, <1>14, <2>1
  <2> QED BY <1>5, <2>2 DEF HunkInv, Fits, LinesGrow, LinesAreRead
<1>15. CASE k.kind \notin {"added", "blank", "cut", "removed"}
  <2>1. Fits(changed')
    BY <1>6, <1>11, <1>15
  <2> QED BY <1>5, <2>1 DEF HunkInv, Fits, LinesGrow, LinesAreRead
<1> QED BY <1>13, <1>14, <1>15

\* A piece holds lines of the hunk, in their order.
LEMMA PiecesAreRead ==
  ASSUME HunkInv, NEW p \in DOMAIN Units!Pieces(changed)
  PROVE  /\ Units!Pieces(changed)[p] \in Seq(Units!Line)
         /\ LinesGrow(Units!Pieces(changed)[p]) /\ LinesAreRead(Units!Pieces(changed)[p], odd)
<1> DEFINE last == IF p * MaxPiece < Len(changed) THEN p * MaxPiece ELSE Len(changed)
           first == (p - 1) * MaxPiece + 1
           pieces == (Len(changed) + MaxPiece - 1) \div MaxPiece
<1>1. /\ changed \in Seq(Units!Line) /\ LinesGrow(changed) /\ LinesAreRead(changed, odd)
      /\ Len(changed) \in Nat /\ DOMAIN changed = 1..Len(changed)
  BY DEF HunkInv
<1>2. CASE Units!Pieces(changed) = <<changed>>
  BY <1>1, <1>2
<1>3. CASE Units!Pieces(changed) = [q \in 1..pieces |->
             SubSeq(changed, (q - 1) * MaxPiece + 1,
                    IF q * MaxPiece < Len(changed) THEN q * MaxPiece ELSE Len(changed))]
  <2>1. pieces \in Nat /\ pieces * MaxPiece <= Len(changed) + MaxPiece - 1
    <3>1. Len(changed) + MaxPiece - 1 \in Nat
      BY <1>1, UnitNumbers
    <3> QED BY <3>1, Quotients, UnitNumbers
  <2>2. p \in 1..pieces /\ Units!Pieces(changed)[p] = SubSeq(changed, first, last)
    BY <1>3
  <2> HIDE DEF pieces
  <2>3. first \in 1..(Len(changed) + 1) /\ last \in (first - 1)..Len(changed)
    <3>1. p \in Nat /\ 1 <= p /\ p <= pieces
      BY <2>1, <2>2
    <3>2. p * MaxPiece \in Nat /\ p * MaxPiece <= pieces * MaxPiece
      BY <2>1, <3>1, UnitNumbers
    <3>3. (p - 1) * MaxPiece \in Nat /\ (p - 1) * MaxPiece = p * MaxPiece - MaxPiece
      BY <3>1, UnitNumbers
    <3> QED BY <1>1, <2>1, <3>2, <3>3, UnitNumbers
  <2> DEFINE piece == SubSeq(changed, first, last)
  <2>4. /\ piece \in Seq(Units!Line) /\ Len(piece) = last - first + 1
        /\ \A i \in 1..Len(piece) : piece[i] = changed[first + i - 1]
    BY <1>1, <2>3, SubSeqProperties
  <2>5. /\ DOMAIN piece = 1..Len(piece) /\ Len(piece) \in Nat
        /\ first \in Nat /\ last \in Nat /\ first >= 1 /\ last <= Len(changed)
    BY <1>1, <2>3, <2>4
  <2> HIDE DEF piece, first, last
  <2>6. \A i \in DOMAIN piece : /\ first + i - 1 \in DOMAIN changed /\ i \in Nat
                                /\ piece[i] = changed[first + i - 1]
    BY <1>1, <2>4, <2>5
  <2>7. LinesAreRead(piece, odd)
    BY <1>1, <2>6 DEF LinesAreRead
  <2>8. LinesGrow(piece)
    <3> SUFFICES ASSUME NEW i \in DOMAIN piece, NEW j \in DOMAIN piece, piece[i].marker = "+",
                        piece[j].marker = "+", i < j
                 PROVE  piece[i].line < piece[j].line
      BY DEF LinesGrow
    <3>1. first + i - 1 < first + j - 1
      BY <2>5, <2>6
    <3> QED BY <1>1, <2>6, <3>1 DEF LinesGrow
  <2> QED BY <2>2, <2>4, <2>7, <2>8 DEF piece
<1> QED BY <1>2, <1>3 DEF Units!Pieces

\* The first of some places of a piece.
LEMMA FirstIsOne ==
  ASSUME NEW piece, NEW at \in SUBSET Nat, at # {}
  PROVE  \E i \in at : Units!FirstAt(piece, at) = piece[i]
<1>1. \E i \in at : \A j \in at : i <= j
  BY LeastOf
<1> DEFINE i == CHOOSE i \in at : \A j \in at : i <= j
<1>2. i \in at /\ Units!FirstAt(piece, at) = piece[i]
  BY <1>1 DEF Units!FirstAt
<1> QED BY <1>2

\* The line of a finding is that of an added line with text, which shows what
\* the finding is about, or none.
LEMMA TargetIsAdded ==
  ASSUME NEW piece \in Seq(Units!Line), start \in Nat, LinesAreRead(piece, odd)
  PROVE  /\ Units!Target(piece) \in Int
         /\ (\E i \in Units!Candidates(piece) : ~piece[i].blank) =>
              \/ Units!Target(piece) = Units!NoLine /\ Units!Direct(piece)
              \/ \E i \in Units!Candidates(piece) :
                   /\ Units!Target(piece) = piece[i].line
                   /\ Units!Direct(piece) => piece[i].signal # 0
<1> DEFINE added == Units!Candidates(piece)
           text  == {i \in added : ~piece[i].blank}
           any   == {i \in text : piece[i].signal # 0}
           first == {i \in text : piece[i].signal = 1}
           t     == Units!Target(piece)
<1>1. /\ added \in SUBSET Nat /\ text \in SUBSET Nat /\ any \in SUBSET Nat /\ first \in SUBSET Nat
      /\ \A i \in added : piece[i].line \in Int
  BY DEF Units!Candidates, LinesAreRead
<1>2. t = IF added = {} THEN (IF Units!Direct(piece) THEN Units!NoLine ELSE start)
          ELSE IF text = {} THEN Units!FirstAt(piece, added).line
          ELSE IF ~Units!Direct(piece) THEN Units!FirstAt(piece, text).line
          ELSE IF any = {} THEN Units!NoLine
          ELSE IF issue = "flow" /\ first # {} THEN Units!FirstAt(piece, first).line
          ELSE Units!FirstAt(piece, any).line
  BY DEF Units!Target
<1>3. /\ \A i \in text : i \in added
      /\ \A i \in any : i \in added /\ piece[i].signal # 0
      /\ \A i \in first : i \in added /\ piece[i].signal # 0
      /\ (\E i \in added : ~piece[i].blank) => text # {}
  OBVIOUS
<1>4. Units!NoLine \in Int
  BY DEF Units!NoLine
<1> HIDE DEF added, text, any, first, t
<1>5. CASE added = {}
  <2>1. t \in Int
    BY <1>2, <1>4, <1>5
  <2> QED BY <1>5, <2>1 DEF t, added
<1>6. CASE added # {} /\ text = {}
  <2>1. PICK i \in added : Units!FirstAt(piece, added) = piece[i]
    BY <1>1, <1>6, FirstIsOne
  <2>2. t \in Int
    BY <1>1, <1>2, <1>6, <2>1
  <2> QED BY <1>3, <1>6, <2>2 DEF t, added
<1>7. CASE added # {} /\ text # {} /\ ~Units!Direct(piece)
  <2>1. PICK i \in text : Units!FirstAt(piece, text) = piece[i]
    BY <1>1, <1>7, FirstIsOne
  <2>2. t = piece[i].line /\ i \in added /\ t \in Int
    BY <1>1, <1>2, <1>3, <1>7, <2>1
  <2> QED BY <1>7, <2>2 DEF t, added
<1>8. CASE added # {} /\ text # {} /\ Units!Direct(piece) /\ any = {}
  <2>1. t = Units!NoLine
    BY <1>2, <1>8
  <2> QED BY <1>4, <1>8, <2>1 DEF t, added
<1>9. CASE added # {} /\ text # {} /\ Units!Direct(piece) /\ any # {}
  <2>1. PICK i \in any : Units!FirstAt(piece, any) = piece[i]
    BY <1>1, <1>9, FirstIsOne
  <2>2. first # {} => \E j \in first : Units!FirstAt(piece, first) = piece[j]
    BY <1>1, FirstIsOne
  <2>3. \E j \in added : t = piece[j].line /\ piece[j].signal # 0
    <3>1. CASE issue = "flow" /\ first # {}
      <4>1. PICK j \in first : Units!FirstAt(piece, first) = piece[j]
        BY <2>2, <3>1
      <4>2. t = Units!FirstAt(piece, first).line
        BY <1>2, <1>9, <3>1
      <4> QED BY <1>3, <4>1, <4>2
    <3>2. CASE ~(issue = "flow" /\ first # {})
      <4>1. t = Units!FirstAt(piece, any).line
        BY <1>2, <1>9, <3>2
      <4> QED BY <1>3, <2>1, <4>1
    <3> QED BY <3>1, <3>2
  <2>4. t \in Int
    BY <1>1, <2>3
  <2> QED BY <1>9, <2>3, <2>4 DEF t, added
<1> QED BY <1>5, <1>6, <1>7, <1>8, <1>9

LEMMA FindingsHit ==
  ASSUME NEW piece \in Seq(Units!Line), start \in Nat, odd \in BOOLEAN,
         LinesGrow(piece), LinesAreRead(piece, odd)
  PROVE  Units!Finding(piece).line \in Int /\ HitsItsLine(Units!Finding(piece))
<1> DEFINE t  == Units!Target(piece)
           at == {k \in Units!Candidates(piece) : piece[k].line = t}
           f  == Units!Finding(piece)
<1>1. /\ f.line = t
      /\ f.actual = IF at = {} THEN 0 ELSE Units!FirstAt(piece, at).actual
      /\ f.shows = (at # {} /\ (Units!Direct(piece) => Units!FirstAt(piece, at).signal # 0))
      /\ f.sure = (~odd /\ \E i \in Units!Candidates(piece) : ~piece[i].blank)
      /\ f.precise = Units!Direct(piece)
  BY DEF Units!Finding
<1>2. t \in Int
  BY TargetIsAdded
<1>3. /\ Units!Candidates(piece) \in SUBSET Nat /\ at \in SUBSET Nat
      /\ \A i \in Units!Candidates(piece) : i \in DOMAIN piece /\ piece[i].marker = "+"
  BY DEF Units!Candidates
<1> HIDE DEF f
<1>4. ASSUME f.sure PROVE (f.shows /\ f.line = f.actual) \/ (f.line = Units!NoLine /\ f.precise)
  <2>1. ~odd /\ \E i \in Units!Candidates(piece) : ~piece[i].blank
    BY <1>1, <1>4
  <2>2. \/ t = Units!NoLine /\ Units!Direct(piece)
        \/ \E i \in Units!Candidates(piece) :
             t = piece[i].line /\ (Units!Direct(piece) => piece[i].signal # 0)
    BY <2>1, TargetIsAdded
  <2>3. CASE t = Units!NoLine /\ Units!Direct(piece)
    BY <1>1, <2>3
  <2>4. ASSUME NEW i \in Units!Candidates(piece), t = piece[i].line,
               Units!Direct(piece) => piece[i].signal # 0
        PROVE  f.shows /\ f.line = f.actual
    <3>1. i \in at
      BY <2>4
    <3>2. PICK k \in at : Units!FirstAt(piece, at) = piece[k]
      BY <1>3, <3>1, FirstIsOne
    <3>3. k \in Units!Candidates(piece) /\ piece[k].line = t
      BY <3>2
    <3>4. k = i
      <4>1. k \in Nat /\ i \in Nat /\ ~(k < i) /\ ~(i < k)
        BY <1>2, <1>3, <2>4, <3>3 DEF LinesGrow
      <4> QED BY <4>1
    <3>5. piece[i].line = piece[i].actual
      BY <1>3, <2>1, <2>4 DEF LinesAreRead
    <3> QED BY <1>1, <2>4, <3>1, <3>2, <3>4, <3>5
  <2> QED BY <2>2, <2>3, <2>4
<1>5. HitsItsLine(f)
  BY <1>4 DEF HitsItsLine
<1> QED BY <1>1, <1>2, <1>5 DEF f

LEMMA HunkReviewedFits ==
  ASSUME HunkInv, ReportInv, NEW hits \in SUBSET DOMAIN Units!Pieces(changed),
         Units!HunkReviewed(hits)
  PROVE  HunkInv' /\ ReportInv'
<1> DEFINE pieces == Units!Pieces(changed)
           reports == [p \in hits |-> Units!Finding(pieces[p])]
<1>1. /\ size' = 0 /\ changed' = <<>>
      /\ UNCHANGED <<issue, start, counter, actual, odd, hunks>>
      /\ \A f \in kept' \cup dropped' : f \in kept \cup dropped \/ \E p \in hits : f = reports[p]
  BY DEF Units!HunkReviewed
<1>2. HunkInv'
  BY <1>1 DEF HunkInv, LinesGrow, LinesAreRead
<1>3. \A p \in hits : reports[p].line \in Int /\ HitsItsLine(reports[p])
  <2> SUFFICES ASSUME NEW p \in hits PROVE reports[p].line \in Int /\ HitsItsLine(reports[p])
    OBVIOUS
  <2>1. /\ pieces[p] \in Seq(Units!Line) /\ LinesGrow(pieces[p]) /\ LinesAreRead(pieces[p], odd)
    BY PiecesAreRead
  <2>2. start \in Nat /\ odd \in BOOLEAN
    BY DEF HunkInv
  <2>3. Units!Finding(pieces[p]).line \in Int /\ HitsItsLine(Units!Finding(pieces[p]))
    BY <2>1, <2>2, FindingsHit
  <2> QED BY <2>3
<1> HIDE DEF pieces, reports
<1>4. ReportInv'
  BY <1>1, <1>3 DEF ReportInv, HitsItsLine
<1> QED BY <1>2, <1>4

LEMMA UnitSteps ==
  ASSUME HunkInv, ReportInv, [Units!Next]_(Units!vars)
  PROVE  HunkInv' /\ ReportInv'
<1>1. CASE UNCHANGED Units!vars
  BY <1>1 DEF Units!vars, HunkInv, ReportInv, LinesGrow, LinesAreRead, HitsItsLine
<1>2. ASSUME NEW n \in Starts, Units!HunkBegins(n) PROVE HunkInv' /\ ReportInv'
  <2>1. /\ start' = n /\ actual' = n /\ counter' = n /\ size' = 1 /\ odd' = FALSE
        /\ changed' = <<>> /\ kept' = kept /\ dropped' = dropped
    BY <1>2 DEF Units!HunkBegins
  <2>2. HunkInv'
    <3>1. n \in Nat /\ changed' \in Seq(Units!Line) /\ DOMAIN changed' = {}
      BY <2>1, UnitNumbers
    <3>2. start' \in Nat /\ counter' \in Nat /\ actual' \in Nat /\ size' \in Nat
      BY <2>1, <3>1
    <3>3. LinesGrow(changed)' /\ LinesAreRead(changed, odd)'
      BY <3>1 DEF LinesGrow, LinesAreRead
    <3> QED BY <2>1, <3>1, <3>2, <3>3 DEF HunkInv
  <2>3. ReportInv'
    BY <2>1 DEF ReportInv, HitsItsLine
  <2> QED BY <2>2, <2>3
<1>3. ASSUME NEW k \in Units!Kinds, Units!LineRead(k) PROVE HunkInv' /\ ReportInv'
  <2>1. kept' = kept /\ dropped' = dropped
    BY <1>3 DEF Units!LineRead
  <2>2. ReportInv'
    BY <2>1 DEF ReportInv, HitsItsLine
  <2> QED BY <1>3, <2>2, LineReadFits
<1>4. ASSUME NEW hits \in SUBSET DOMAIN Units!Pieces(changed), Units!HunkReviewed(hits)
      PROVE  HunkInv' /\ ReportInv'
  BY <1>4, HunkReviewedFits
<1> QED BY <1>1, <1>2, <1>3, <1>4 DEF Units!Next

\* What holds of the hunk and of the findings holds from the first state on.
LEMMA UnitsStay == Spec => [](part = "units" => HunkInv /\ ReportInv)
<1> DEFINE I == part = "units" => HunkInv /\ ReportInv
<1>1. Init => I
  <2> SUFFICES ASSUME Units!Init PROVE HunkInv /\ ReportInv
    BY DEF Init
  <2>1. /\ start = 1 /\ counter = 1 /\ actual = 1 /\ changed = <<>> /\ size = 0 /\ odd = FALSE
        /\ kept = {} /\ dropped = {}
    BY DEF Units!Init
  <2>2. changed \in Seq(Units!Line) /\ DOMAIN changed = {}
    BY <2>1
  <2>3. LinesGrow(changed) /\ LinesAreRead(changed, odd)
    BY <2>2 DEF LinesGrow, LinesAreRead
  <2>4. HunkInv
    <3>1. {start, counter, actual, size} \subseteq Nat
      BY <2>1
    <3>2. \A i \in DOMAIN changed : changed[i].marker = "+" => changed[i].line < counter
      BY <2>2
    <3>3. odd \in BOOLEAN
      BY <2>1
    <3>4. ~(size > 0)
      BY <2>1
    <3> QED BY <2>2, <2>3, <3>1, <3>2, <3>3, <3>4 DEF HunkInv
  <2>5. ReportInv
    BY <2>1 DEF ReportInv
  <2> QED BY <2>4, <2>5
<1>2. I /\ [Next]_allVars => I'
  <2> SUFFICES ASSUME I, [Next]_allVars, part' = "units" PROVE HunkInv' /\ ReportInv'
    OBVIOUS
  <2>1. HunkInv /\ ReportInv /\ [Units!Next]_(Units!vars)
    BY DEF Next, At, allVars, unitsVars, Units!vars
  <2> QED BY <2>1, UnitSteps
<1> QED BY <1>1, <1>2, PTL DEF Spec

\* A comment is put where the code is, for every hunk the program reads right
\* and however it is cut into pieces; what has no such line is suppressed.
THEOREM CommentsAreOnTheirLine == Spec => []CommentsHitTheirLine
<1>1. (part = "units" => HunkInv /\ ReportInv) => CommentsHitTheirLine
  BY DEF CommentsHitTheirLine, Units!CommentsHitTheirLine, ReportInv, HitsItsLine
<1> QED BY <1>1, UnitsStay, PTL

-------------------------------------------------------------------------------
(***************************************************************************)
(* The rules a review is answered with, for any rules, packs, detectors    *)
(* and limits.                                                             *)
(***************************************************************************)
LEMMA CatalogAssumption ==
  /\ IsFiniteSet(DOMAIN Rule) /\ TopK \in Nat \ {0}
  /\ \A r \in DOMAIN Rule : Rule[r].tier \in Int /\ Rule[r].similarity \in Int
                         /\ Rule[r].exact \in 0..98 /\ Rule[r].overlap \in 0..100
<1>1. Catalog!CatalogConstants
  BY Zenon, PartsAssumption
<1>2. /\ Catalog!IsFiniteSet(DOMAIN Rule) /\ TopK \in Nat \ {0}
      /\ \A r \in DOMAIN Rule : Rule[r] \in Catalog!RuleRecord
  BY Zenon, <1>1 DEF Catalog!CatalogConstants, Catalog!Rules
<1>3. IsFiniteSet(DOMAIN Rule)
  BY Zenon, <1>2 DEF Catalog!IsFiniteSet, IsFiniteSet
<1>4. \A r \in DOMAIN Rule : Rule[r].tier \in Int /\ Rule[r].similarity \in Int
                         /\ Rule[r].exact \in 0..98 /\ Rule[r].overlap \in 0..100
  BY <1>2 DEF Catalog!RuleRecord
<1> QED BY <1>2, <1>3, <1>4

\* A ranking is a sequence of the rules, and what is taken of it its beginning.
LEMMA FirstAreRanked ==
  ASSUME NEW rules \in SUBSET DOMAIN Rule, NEW patterns,
         NEW ranked \in Catalog!Rankings(rules, patterns)
  PROVE  /\ \A i \in DOMAIN Catalog!FirstOf(ranked, TopK) :
              i \in 1..TopK /\ i \in DOMAIN ranked /\ Catalog!FirstOf(ranked, TopK)[i] = ranked[i]
         /\ \A k \in DOMAIN ranked : k \in Nat
         /\ \A k \in DOMAIN ranked : k <= TopK => k \in DOMAIN Catalog!FirstOf(ranked, TopK)
         /\ \A k \in DOMAIN ranked : k > TopK => Len(Catalog!FirstOf(ranked, TopK)) = TopK
         /\ Len(Catalog!FirstOf(ranked, TopK)) <= TopK
<1> DEFINE n == Catalog!Cardinality(rules)
           m == IF Len(ranked) < TopK THEN Len(ranked) ELSE TopK
           seq == SubSeq(ranked, 1, m)
<1>1. n \in Nat
  <2>1. IsFiniteSet(rules)
    BY CatalogAssumption, FS_Subset
  <2>2. Cardinality(rules) \in Nat
    BY <2>1, FS_CardinalityType
  <2> QED BY <2>2 DEF Catalog!Cardinality, Cardinality
<1>2. ranked \in [1..n -> rules]
  BY Zenon DEF Catalog!Rankings
<1> HIDE DEF n
<1>3. ranked \in Seq(rules) /\ Len(ranked) = n /\ DOMAIN ranked = 1..n
  BY <1>1, <1>2
<1>4. m \in 0..n /\ TopK \in Nat \ {0} /\ (n < TopK => m = n) /\ (~(n < TopK) => m = TopK)
  BY <1>1, <1>3, CatalogAssumption
<1> HIDE DEF m
<1>5. seq \in Seq(rules) /\ Len(seq) = m /\ \A i \in 1..m : seq[i] = ranked[i]
  <2>1. 1 \in 1..(Len(ranked) + 1) /\ m \in (1 - 1)..Len(ranked)
    BY <1>1, <1>3, <1>4
  <2>2. /\ seq \in Seq(rules) /\ Len(seq) = m - 1 + 1
        /\ \A i \in 1..(m - 1 + 1) : seq[i] = ranked[1 + i - 1]
    BY <1>3, <2>1, SubSeqProperties
  <2> HIDE DEF seq
  <2>3. m - 1 + 1 = m /\ \A i \in 1..m : 1 + i - 1 = i
    BY <1>4
  <2> QED BY <2>2, <2>3
<1>6. Catalog!FirstOf(ranked, TopK) = seq
  BY DEF Catalog!FirstOf, m
<1> HIDE DEF seq
<1>7. DOMAIN seq = 1..m
  BY <1>5
<1> QED BY <1>1, <1>3, <1>4, <1>5, <1>6, <1>7

\* Only a rule of a higher tier, or one that matches in full and is as similar,
\* comes before one that is hinted at.
LEMMA HintedFirst ==
  ASSUME NEW r \in DOMAIN Rule, NEW q \in DOMAIN Rule, NEW patterns,
         r \in Catalog!Hinted(patterns), ~Catalog!Before(r, q, patterns)
  PROVE  \/ Rule[q].tier > Rule[r].tier
         \/ /\ Rule[q].tier = Rule[r].tier /\ Catalog!FullMatch(q, patterns)
            /\ Catalog!Similarity(q, patterns) >= Catalog!Similarity(r, patterns)
<1>1. patterns # {}
  BY DEF Catalog!Hinted
<1>2. Catalog!PatternBoost(r, patterns) = 100
  BY <1>1 DEF Catalog!PatternBoost
<1>3. /\ Catalog!PatternBoost(q, patterns) \in 0..100
      /\ Catalog!PatternBoost(q, patterns) = 100 => Catalog!FullMatch(q, patterns)
  BY <1>1, CatalogAssumption DEF Catalog!PatternBoost, Catalog!FullMatch
<1>4. /\ Rule[q].tier \in Int /\ Rule[r].tier \in Int
      /\ Catalog!Similarity(q, patterns) \in Int /\ Catalog!Similarity(r, patterns) \in Int
  BY CatalogAssumption DEF Catalog!Similarity
<1>5. /\ ~(Rule[r].tier > Rule[q].tier)
      /\ \/ Rule[q].tier > Rule[r].tier
         \/ /\ ~(Catalog!PatternBoost(r, patterns) > Catalog!PatternBoost(q, patterns))
            /\ \/ Catalog!PatternBoost(q, patterns) > Catalog!PatternBoost(r, patterns)
               \/ ~(Catalog!Similarity(r, patterns) > Catalog!Similarity(q, patterns))
  BY DEF Catalog!Before
<1> QED BY <1>2, <1>3, <1>4, <1>5

CatalogInv ==
  /\ store \in SUBSET DOMAIN Rule
  /\ Catalog!ExcludedStaysSilent /\ Catalog!HintsAreHeard

LEMMA ReviewFits ==
  ASSUME CatalogInv, NEW q, Catalog!Review(q)
  PROVE  CatalogInv'
<1> DEFINE found   == Catalog!Selected(Catalog!Queried, q)
                        \cup (Catalog!Hinted(q.patterns) \cap store)
           applies == {r \in Catalog!Selected(found, q) :
                         Catalog!Applicable(r, q.patterns)}
<1>1. request' = q /\ files' = files /\ store' = store
  BY DEF Catalog!Review
<1>2. PICK ranked \in Catalog!Rankings(applies, q.patterns) :
        results' = Catalog!FirstOf(ranked, TopK)
  BY Zenon DEF Catalog!Review
<1>3. applies \in SUBSET DOMAIN Rule
  BY DEF Catalog!Selected, Catalog!Queried, CatalogInv
<1>4. \A r \in applies : /\ Rule[r].pack \in q.packs /\ files[r][q.policy] # "excluded"
                         /\ Catalog!Suits(r, q)
  BY DEF Catalog!Selected
<1>5. \A r \in Catalog!Selected(Catalog!Hinted(q.patterns) \cap store, q) :
        Catalog!Applicable(r, q.patterns) => r \in applies
  BY DEF Catalog!Selected
<1> HIDE DEF applies
<1>6. /\ \A i \in DOMAIN ranked : ranked[i] \in applies
      /\ \A r \in applies : \E i \in DOMAIN ranked : ranked[i] = r
      /\ \A i, j \in DOMAIN ranked : i < j => ~Catalog!Before(ranked[j], ranked[i], q.patterns)
  BY DEF Catalog!Rankings
<1>7. /\ \A i \in DOMAIN results' :
           i \in 1..TopK /\ i \in DOMAIN ranked /\ results'[i] = ranked[i]
      /\ \A k \in DOMAIN ranked : k \in Nat
      /\ \A k \in DOMAIN ranked : k <= TopK => k \in DOMAIN results'
      /\ \A k \in DOMAIN ranked : k > TopK => Len(results') = TopK
  BY <1>2, <1>3, FirstAreRanked
<1>8. Catalog!ExcludedStaysSilent'
  <2>1. \A i \in DOMAIN results' : results'[i] \in applies
    BY <1>6, <1>7
  <2> QED BY <1>1, <1>4, <2>1 DEF Catalog!ExcludedStaysSilent, Catalog!Answered
<1>9. Catalog!HintsAreHeard'
  <2> DEFINE ahead(p, r) ==
               \/ Rule[p].tier > Rule[r].tier
               \/ /\ Rule[p].tier = Rule[r].tier /\ Catalog!FullMatch(p, q.patterns)
                  /\ Catalog!Similarity(p, q.patterns) >= Catalog!Similarity(r, q.patterns)
  <2> SUFFICES ASSUME NEW r \in Catalog!Selected(Catalog!Hinted(q.patterns) \cap store, q),
                      Catalog!Applicable(r, q.patterns),
                      \A i \in DOMAIN results' : results'[i] # r
               PROVE  /\ Len(results') = TopK
                      /\ \A i \in DOMAIN results' : ahead(results'[i], r)
    <3>1. Catalog!Selected(Catalog!Hinted(request.patterns) \cap store, request)'
            = Catalog!Selected(Catalog!Hinted(q.patterns) \cap store, q)
      BY <1>1 DEF Catalog!Selected
    <3> QED BY <1>1, <3>1 DEF Catalog!HintsAreHeard, Catalog!Answered
  <2>1. PICK k \in DOMAIN ranked : ranked[k] = r
    BY <1>5, <1>6
  <2>2. k \in Nat /\ TopK \in Nat /\ k > TopK
    <3>1. ~(k <= TopK)
      BY <1>7, <2>1
    <3>2. k \in Nat /\ TopK \in Nat
      BY <1>7, CatalogAssumption
    <3> QED BY <3>1, <3>2
  <2>3. Len(results') = TopK
    BY <1>7, <2>2
  <2>4. ASSUME NEW i \in DOMAIN results' PROVE ahead(results'[i], r)
    <3>1. i \in DOMAIN ranked /\ results'[i] = ranked[i] /\ i \in 1..TopK
      BY <1>7
    <3>2. i < k
      BY <2>2, <3>1
    <3>3. ~Catalog!Before(r, results'[i], q.patterns)
      BY <1>6, <2>1, <3>1, <3>2
    <3>4. r \in DOMAIN Rule /\ results'[i] \in DOMAIN Rule
      BY <1>3, <1>6, <2>1, <3>1
    <3>5. r \in Catalog!Hinted(q.patterns)
      BY DEF Catalog!Selected
    <3> QED BY <3>3, <3>4, <3>5, HintedFirst
  <2> QED BY <2>3, <2>4
<1> QED BY <1>1, <1>8, <1>9 DEF CatalogInv

\* A change of the files or of the store leaves no answer.
LEMMA NoAnswerFits ==
  ASSUME store' \in SUBSET DOMAIN Rule, request' = Catalog!NoRequest, results' = <<>>
  PROVE  CatalogInv'
<1>1. DOMAIN results' = {} /\ request'.patterns = {}
  BY DEF Catalog!NoRequest
<1>2. Catalog!ExcludedStaysSilent'
  BY <1>1 DEF Catalog!ExcludedStaysSilent, Catalog!Answered
<1>3. Catalog!HintsAreHeard'
  BY <1>1 DEF Catalog!HintsAreHeard, Catalog!Hinted, Catalog!Selected
<1> QED BY <1>2, <1>3 DEF CatalogInv

LEMMA CatalogSteps ==
  ASSUME CatalogInv, [Catalog!Next]_(Catalog!vars)
  PROVE  CatalogInv'
<1>1. CASE UNCHANGED Catalog!vars
  BY <1>1 DEF Catalog!vars, CatalogInv, Catalog!ExcludedStaysSilent, Catalog!HintsAreHeard,
              Catalog!Answered, Catalog!Selected
<1>2. ASSUME NEW q \in ReviewsAsked, Catalog!Review(q) PROVE CatalogInv'
  BY <1>2, ReviewFits
<1>3. ASSUME NEW r \in Catalog!Rules, NEW made, Catalog!Edit(r, made) PROVE CatalogInv'
  <2>1. store' = store /\ request' = Catalog!NoRequest /\ results' = <<>>
    BY <1>3 DEF Catalog!Edit
  <2>2. store' \in SUBSET DOMAIN Rule
    BY <2>1 DEF CatalogInv
  <2> QED BY <2>1, <2>2, NoAnswerFits
<1>4. CASE Catalog!Ingest
  <2>1. store' \in SUBSET DOMAIN Rule /\ request' = Catalog!NoRequest /\ results' = <<>>
    BY <1>4 DEF Catalog!Ingest, Catalog!Rules
  <2> QED BY <2>1, NoAnswerFits
<1> QED BY <1>1, <1>2, <1>3, <1>4 DEF Catalog!Next

LEMMA CatalogStays == Spec => [](part = "catalog" => CatalogInv)
<1> DEFINE I == part = "catalog" => CatalogInv
<1>1. Init => I
  <2> SUFFICES ASSUME Catalog!Init PROVE CatalogInv
    BY DEF Init
  <2>1. /\ store \in SUBSET DOMAIN Rule /\ request = Catalog!NoRequest /\ results = <<>>
    BY DEF Catalog!Init, Catalog!Rules
  <2>2. DOMAIN results = {} /\ request.patterns = {}
    BY <2>1 DEF Catalog!NoRequest
  <2> QED BY <2>1, <2>2 DEF CatalogInv, Catalog!ExcludedStaysSilent, Catalog!HintsAreHeard,
                            Catalog!Answered, Catalog!Hinted, Catalog!Selected
<1>2. I /\ [Next]_allVars => I'
  <2> SUFFICES ASSUME I, [Next]_allVars, part' = "catalog" PROVE CatalogInv'
    OBVIOUS
  <2>1. CatalogInv /\ [Catalog!Next]_(Catalog!vars)
    BY DEF Next, At, allVars, catalogVars, Catalog!vars
  <2> QED BY <2>1, CatalogSteps
<1> QED BY <1>1, <1>2, PTL DEF Spec

\* However stale the store is, a review never answers with a rule that the files
\* by now exclude for its profile, of a pack its profile does not enable, or for
\* another context or dialect.
THEOREM ExcludedRulesStaySilent == Spec => []ExcludedStaysSilent
<1>1. (part = "catalog" => CatalogInv) => ExcludedStaysSilent
  BY DEF ExcludedStaysSilent, CatalogInv
<1> QED BY <1>1, CatalogStays, PTL

\* A rule a detector directly points at, if it is selected and applies, is displaced
\* only by rules of a higher tier, or that match the patterns in full as well and
\* are as similar, for any rules, detectors, contexts and dialects.
THEOREM HintedRulesAreHeard == Spec => []HintsAreHeard
<1>1. (part = "catalog" => CatalogInv) => HintsAreHeard
  BY DEF HintsAreHeard, CatalogInv
<1> QED BY <1>1, CatalogStays, PTL

-------------------------------------------------------------------------------
(***************************************************************************)
(* Replies of people, for any discussions, replies, edits and phases.      *)
(***************************************************************************)
\* The signal after some rows, reading one more.
Read(mark, row) ==
  IF row.command # Feedback!NoCommand /\ Feedback!NotLater(mark, row)
  THEN [command |-> row.command, at |-> row.at, id |-> row.id]
  ELSE mark

\* f gives the signal after each of the first n rows.
ReadsRows(f, n) == f = [k \in 0..n |-> IF k = 0 THEN Feedback!Unsaid ELSE Read(f[k - 1], rows[k])]

\* Such a function exists, however many rows there are.
LEMMA RowsAreRead ==
  ASSUME Len(rows) \in Nat
  PROVE  \E f : ReadsRows(f, Len(rows))
<1> DEFINE unread == {n \in 0..Len(rows) : ~\E f : ReadsRows(f, n)}
<1>1. ASSUME unread # {} PROVE FALSE
  <2>1. PICK n \in unread : \A m \in unread : n <= m
    <3>1. unread \in SUBSET Nat
      OBVIOUS
    <3> HIDE DEF unread
    <3> QED BY <1>1, <3>1, LeastOf
  <2>2. n \in 0..Len(rows) /\ ~\E f : ReadsRows(f, n)
    BY <2>1
  <2>3. CASE n = 0
    <3>1. ReadsRows([k \in 0..0 |-> Feedback!Unsaid], 0)
      BY DEF ReadsRows
    <3> QED BY <2>2, <2>3, <3>1
  <2>4. CASE n # 0
    <3>1. n - 1 \in 0..Len(rows) /\ ~(n <= n - 1) /\ n \in Nat
      BY <2>2, <2>4
    <3>2. n - 1 \notin unread
      BY <2>1, <3>1
    <3>3. PICK f : ReadsRows(f, n - 1)
      BY <3>1, <3>2
    <3> DEFINE g == [k \in 0..n |-> IF k < n THEN f[k] ELSE Read(f[n - 1], rows[n])]
               h == [k \in 0..n |-> IF k = 0 THEN Feedback!Unsaid ELSE Read(g[k - 1], rows[k])]
    <3>4. ASSUME NEW k \in 0..n PROVE g[k] = h[k]
      <4>1. CASE k = n
        <5>1. g[n] = Read(f[n - 1], rows[n]) /\ g[n - 1] = f[n - 1]
          BY <2>4, <3>1
        <5>2. h[n] = Read(g[n - 1], rows[n])
          BY <2>4, <3>1
        <5> QED BY <4>1, <5>1, <5>2
      <4>2. CASE k # n
        <5>1. k \in 0..(n - 1) /\ k < n
          BY <3>1, <4>2
        <5>2. f[k] = IF k = 0 THEN Feedback!Unsaid ELSE Read(f[k - 1], rows[k])
          BY <3>3, <5>1 DEF ReadsRows
        <5>3. g[k] = f[k]
          BY <5>1
        <5>4. k # 0 => g[k - 1] = f[k - 1]
          BY <3>1, <5>1
        <5>5. h[k] = IF k = 0 THEN Feedback!Unsaid ELSE Read(g[k - 1], rows[k])
          OBVIOUS
        <5> HIDE DEF g, h
        <5> QED BY <5>2, <5>3, <5>4, <5>5
      <4> QED BY <4>1, <4>2
    <3>5. g = h
      BY <3>4
    <3>6. ReadsRows(g, n)
      BY <3>5 DEF ReadsRows
    <3> QED BY <2>2, <3>6
  <2> QED BY <2>3, <2>4
<1> QED BY <1>1

LEMMA LatestReads ==
  ASSUME Len(rows) \in Nat
  PROVE  ReadsRows(Feedback!Latest, Len(rows))
<1>1. \E f : ReadsRows(f, Len(rows))
  BY RowsAreRead
<1>2. Feedback!Latest = CHOOSE f : ReadsRows(f, Len(rows))
  BY DEF Feedback!Latest, ReadsRows, Read
<1> QED BY <1>1, <1>2

\* The signal after the first n rows is that of the latest command among them.
SignalAt(n) ==
  \/ /\ Feedback!Latest[n] = Feedback!Unsaid
     /\ \A j \in 1..n : rows[j].command = Feedback!NoCommand
  \/ \E k \in 1..n :
       /\ rows[k].command # Feedback!NoCommand
       /\ Feedback!Latest[n] = [command |-> rows[k].command, at |-> rows[k].at, id |-> rows[k].id]
       /\ \A j \in 1..n : rows[j].command # Feedback!NoCommand => Feedback!NotLater(rows[j], rows[k])

LEMMA SignalIsLatest ==
  ASSUME Len(rows) \in Nat,
         \A k \in 1..Len(rows) : rows[k].at \in Nat /\ rows[k].at > 0 /\ rows[k].id \in Nat
  PROVE  SignalAt(Len(rows))
<1> DEFINE wrong == {n \in 0..Len(rows) : ~SignalAt(n)}
<1>1. /\ Feedback!Latest[0] = Feedback!Unsaid
      /\ \A n \in 1..Len(rows) : Feedback!Latest[n] = Read(Feedback!Latest[n - 1], rows[n])
  <2> DEFINE f == Feedback!Latest
  <2>1. f = [k \in 0..Len(rows) |-> IF k = 0 THEN Feedback!Unsaid ELSE Read(f[k - 1], rows[k])]
    BY LatestReads DEF ReadsRows
  <2> HIDE DEF f
  <2>2. \A k \in 0..Len(rows) : f[k] = IF k = 0 THEN Feedback!Unsaid ELSE Read(f[k - 1], rows[k])
    BY <2>1
  <2>3. f[0] = Feedback!Unsaid
    BY <2>2
  <2>4. \A n \in 1..Len(rows) : f[n] = Read(f[n - 1], rows[n])
    BY <2>2
  <2> QED BY <2>3, <2>4 DEF f
<1>2. ASSUME wrong # {} PROVE FALSE
  <2>1. PICK n \in wrong : \A m \in wrong : n <= m
    <3>1. wrong \in SUBSET Nat
      OBVIOUS
    <3> HIDE DEF wrong
    <3> QED BY <1>2, <3>1, LeastOf
  <2>2. n \in 0..Len(rows) /\ ~SignalAt(n)
    BY <2>1
  <2>3. n # 0
    BY <1>1, <2>2 DEF SignalAt
  <2>4. n \in 1..Len(rows) /\ n - 1 \in 0..Len(rows) /\ ~(n <= n - 1) /\ n \in Nat
    BY <2>2, <2>3
  <2>5. SignalAt(n - 1)
    <3>1. n - 1 \notin wrong
      BY <2>1, <2>4
    <3> QED BY <2>4, <3>1
  <2> DEFINE old == Feedback!Latest[n - 1]
             new == Feedback!Latest[n]
             mark == [command |-> rows[n].command, at |-> rows[n].at, id |-> rows[n].id]
  <2>6. new = IF rows[n].command # Feedback!NoCommand /\ Feedback!NotLater(old, rows[n]) THEN mark ELSE old
    BY <1>1, <2>4 DEF Read
  <2>7. /\ \A j \in 1..n : j = n \/ j \in 1..(n - 1)
        /\ \A j \in 1..(n - 1) : j \in 1..n /\ j \in 1..Len(rows)
        /\ \A j \in 1..n : rows[j].at \in Nat /\ rows[j].at > 0 /\ rows[j].id \in Nat
    BY <2>4
  <2>8. CASE rows[n].command = Feedback!NoCommand
    <3>1. new = old
      BY <2>6, <2>8
    <3> HIDE DEF old, new
    <3> QED BY <2>2, <2>5, <2>7, <2>8, <3>1 DEF SignalAt, old, new
  <2>9. CASE rows[n].command # Feedback!NoCommand /\ \A j \in 1..(n - 1) : rows[j].command = Feedback!NoCommand
    <3>1. old = Feedback!Unsaid
      BY <2>5, <2>9 DEF SignalAt
    <3>2. Feedback!NotLater(old, rows[n])
      BY <2>4, <2>7, <3>1 DEF Feedback!NotLater, Feedback!Unsaid
    <3>3. new = mark
      BY <2>6, <2>9, <3>2
    <3>4. Feedback!NotLater(rows[n], rows[n])
      BY <2>4, <2>7 DEF Feedback!NotLater
    <3>5. \A j \in 1..n : rows[j].command # Feedback!NoCommand => Feedback!NotLater(rows[j], rows[n])
      BY <2>7, <2>9, <3>4
    <3>6. n \in 1..n
      BY <2>4
    <3>7. SignalAt(n)
      BY <2>9, <3>3, <3>5, <3>6 DEF SignalAt
    <3> QED BY <2>2, <3>7
  <2>10. CASE /\ rows[n].command # Feedback!NoCommand
              /\ \E j \in 1..(n - 1) : rows[j].command # Feedback!NoCommand
    <3>1. PICK k \in 1..(n - 1) :
            /\ rows[k].command # Feedback!NoCommand
            /\ old = [command |-> rows[k].command, at |-> rows[k].at, id |-> rows[k].id]
            /\ \A j \in 1..(n - 1) :
                 rows[j].command # Feedback!NoCommand => Feedback!NotLater(rows[j], rows[k])
      BY <2>5, <2>10 DEF SignalAt
    <3>2. old.at = rows[k].at /\ old.id = rows[k].id
      BY <3>1
    <3> HIDE DEF old, new
    <3>3. Feedback!NotLater(old, rows[n]) = Feedback!NotLater(rows[k], rows[n])
      BY <3>2 DEF Feedback!NotLater
    <3>4. k \in 1..n /\ n \in 1..n
      BY <2>4, <2>7
    <3>5. CASE Feedback!NotLater(rows[k], rows[n])
      <4>1. new = mark
        BY <2>6, <2>10, <3>3, <3>5
      <4>2. ASSUME NEW j \in 1..n, rows[j].command # Feedback!NoCommand
            PROVE  Feedback!NotLater(rows[j], rows[n])
        <5>1. CASE j = n
          BY <2>7, <5>1 DEF Feedback!NotLater
        <5>2. CASE j # n
          <6>1. Feedback!NotLater(rows[j], rows[k])
            BY <2>7, <3>1, <4>2, <5>2
          <6> QED BY <2>7, <3>4, <3>5, <6>1 DEF Feedback!NotLater
        <5> QED BY <5>1, <5>2
      <4>3. SignalAt(n)
        BY <2>10, <3>4, <4>1, <4>2 DEF SignalAt, new
      <4> QED BY <2>2, <4>3
    <3>6. CASE ~Feedback!NotLater(rows[k], rows[n])
      <4>1. new = old
        BY <2>6, <3>3, <3>6
      <4>2. Feedback!NotLater(rows[n], rows[k])
        BY <2>7, <3>4, <3>6 DEF Feedback!NotLater
      <4>3. \A j \in 1..n : rows[j].command # Feedback!NoCommand => Feedback!NotLater(rows[j], rows[k])
        BY <2>7, <3>1, <4>2
      <4>4. SignalAt(n)
        BY <3>1, <3>4, <4>1, <4>3 DEF SignalAt, new
      <4> QED BY <2>2, <4>4
    <3> QED BY <3>5, <3>6
  <2> QED BY <2>8, <2>9, <2>10
<1>3. Len(rows) \in 0..Len(rows)
  OBVIOUS
<1> QED BY <1>2, <1>3

LEMMA NumbersUpTo ==
  ASSUME NEW n \in Nat
  PROVE  IsFiniteSet(1..n) /\ Cardinality(1..n) = n
<1>1. IsFiniteSet(1..n) /\ Cardinality(1..n) = IF 1 > n THEN 0 ELSE n - 1 + 1
  BY FS_Interval
<1>2. (IF 1 > n THEN 0 ELSE n - 1 + 1) = n
  OBVIOUS
<1> QED BY <1>1, <1>2

\* The events of a phase are of replies, each there once.
EventsFit(events) ==
  /\ IsFiniteSet(events)
  /\ \A m \in events : m.id \in 1..Len(notes) /\ \A n \in events : m.id = n.id => m = n

\* So are the rows.
RowsFit ==
  \A i \in 1..Len(rows) :
    rows[i].id \in 1..Len(notes) /\ \A j \in 1..Len(rows) : rows[i].id = rows[j].id => i = j

FeedbackInv ==
  /\ Feedback!TypeOK /\ RowsFit
  /\ \A p \in Feedback!Phases : EventsFit(collecting[p].events)

LEMMA FeedbackNumbers ==
  /\ NumDiscussions \in Nat /\ MaxReplies \in Nat /\ MaxMoments \in Nat \ {0}
  /\ MaxEdits \in Nat /\ MaxPhases \in Nat
<1>1. Feedback!FeedbackConstants
  BY Zenon, PartsAssumption
<1>2. /\ {NumDiscussions, MaxReplies, MaxEdits, MaxPhases} \subseteq Nat
      /\ MaxMoments \in Nat \ {0}
  BY <1>1 DEF Feedback!FeedbackConstants
<1> QED BY <1>2

LEMMA FeedbackTypes ==
  ASSUME FeedbackInv
  PROVE  /\ notes \in Seq(Feedback!Notes) /\ rows \in Seq(Feedback!Notes)
         /\ Len(notes) \in Nat /\ Len(rows) \in Nat
         /\ DOMAIN notes = 1..Len(notes) /\ DOMAIN rows = 1..Len(rows)
         /\ \A i \in 1..Len(notes) : notes[i] \in Feedback!Notes /\ notes[i].id = i
         /\ \A i \in 1..Len(rows) : rows[i] \in Feedback!Notes
         /\ clock \in 1..MaxMoments /\ edits \in 0..MaxEdits /\ served \in 0..MaxPhases
         /\ collecting \in [Feedback!Phases -> Feedback!PhaseStates]
<1>1. /\ notes \in Seq(Feedback!Notes) /\ rows \in Seq(Feedback!Notes)
      /\ \A i \in DOMAIN notes : notes[i].id = i
      /\ clock \in 1..MaxMoments /\ edits \in 0..MaxEdits /\ served \in 0..MaxPhases
      /\ collecting \in [Feedback!Phases -> Feedback!PhaseStates]
  BY DEF FeedbackInv, Feedback!TypeOK
<1> QED BY <1>1

\* More replies leave events and rows as they are.
LEMMA MoreReplies ==
  ASSUME FeedbackInv, notes' \in Seq(Feedback!Notes), \A i \in DOMAIN notes' : notes'[i].id = i,
         Len(notes') \in Nat, Len(notes) <= Len(notes'), edits' \in 0..MaxEdits,
         UNCHANGED <<clock, collecting, rows, served>>
  PROVE  FeedbackInv'
<1>1. \A x : x \in 1..Len(notes) => x \in 1..Len(notes')
  BY FeedbackTypes
<1>2. RowsFit'
  BY <1>1 DEF FeedbackInv, RowsFit
<1>3. ASSUME NEW p \in Feedback!Phases PROVE EventsFit(collecting[p].events)'
  BY <1>1 DEF FeedbackInv, EventsFit
<1>4. Feedback!TypeOK'
  BY FeedbackTypes DEF Feedback!TypeOK
<1> QED BY <1>2, <1>3, <1>4 DEF FeedbackInv

\* A phase goes on with some of the replies there are.
LEMMA PhaseGoesOn ==
  ASSUME FeedbackInv, NEW p \in Feedback!Phases, NEW done \in {"idle", "collected", "looked_up"},
         NEW events \in SUBSET Feedback!Notes, EventsFit(events),
         collecting' = [collecting EXCEPT ![p] = [step |-> done, events |-> events]],
         served' \in 0..MaxPhases, rows' \in Seq(Feedback!Notes), RowsFit',
         UNCHANGED <<notes, clock, edits>>
  PROVE  FeedbackInv'
<1> DEFINE state == [step |-> done, events |-> events]
<1>1. state \in Feedback!PhaseStates /\ state.events = events
  BY DEF Feedback!PhaseStates
<1> HIDE DEF state
<1>2. /\ collecting' \in [Feedback!Phases -> Feedback!PhaseStates]
      /\ collecting'[p] = state
      /\ \A q \in Feedback!Phases : q # p => collecting'[q] = collecting[q]
  <2>1. collecting' = [collecting EXCEPT ![p] = state]
    BY DEF state
  <2> QED BY <1>1, <2>1, FeedbackTypes
<1>3. \A q \in Feedback!Phases : EventsFit(collecting'[q].events)
  BY <1>1, <1>2 DEF FeedbackInv
<1>4. \A q \in Feedback!Phases : EventsFit(collecting[q].events)'
  BY <1>3 DEF EventsFit
<1>5. Feedback!TypeOK'
  BY <1>2, FeedbackTypes DEF Feedback!TypeOK
<1> QED BY <1>4, <1>5 DEF FeedbackInv

LEMMA InsertionFits ==
  ASSUME FeedbackInv, NEW p \in Feedback!Phases, Feedback!Insert(p)
  PROVE  rows' \in Seq(Feedback!Notes) /\ RowsFit'
<1> DEFINE events == collecting[p].events
<1>1. PICK listed \in Feedback!Listings(events) : rows' = rows \o listed
  BY DEF Feedback!Insert
<1>2. notes' = notes /\ \A n \in events : n.id \notin Feedback!Keys(rows)
  BY DEF Feedback!Insert
<1>3. EventsFit(events) /\ events \in SUBSET Feedback!Notes
  BY FeedbackTypes DEF FeedbackInv, Feedback!PhaseStates
<1> DEFINE n == Feedback!Cardinality(events)
           m == Len(rows)
<1>4. n \in Nat
  <2>1. Cardinality(events) \in Nat
    BY <1>3, FS_CardinalityType DEF EventsFit
  <2> QED BY <2>1 DEF Feedback!Cardinality, Cardinality
<1>5. /\ listed \in [1..n -> events]
      /\ \A i, j \in DOMAIN listed : i < j => Feedback!ListedBefore(listed[i], listed[j])
  BY DEF Feedback!Listings
<1> HIDE DEF events, n
<1>6. /\ listed \in Seq(Feedback!Notes) /\ Len(listed) = n
      /\ \A i \in 1..n : listed[i] \in events
  BY <1>3, <1>4, <1>5
<1>7. /\ rows \in Seq(Feedback!Notes) /\ m \in Nat
      /\ \A i \in 1..m : rows[i].id \in 1..Len(notes)
      /\ \A i \in 1..m : \A j \in 1..m : rows[i].id = rows[j].id => i = j
  BY FeedbackTypes DEF FeedbackInv, RowsFit
<1>8. /\ rows' \in Seq(Feedback!Notes) /\ Len(rows') = m + n
      /\ \A i \in 1..(m + n) : rows'[i] = IF i <= m THEN rows[i] ELSE listed[i - m]
  <2>1. /\ rows \o listed \in Seq(Feedback!Notes)
        /\ Len(rows \o listed) = Len(rows) + Len(listed)
        /\ \A i \in 1..(Len(rows) + Len(listed)) :
             (rows \o listed)[i] = IF i <= Len(rows) THEN rows[i] ELSE listed[i - Len(rows)]
    BY <1>6, <1>7, ConcatProperties, Zenon
  <2> QED BY <1>1, <1>6, <2>1, Zenon
<1> HIDE DEF m
<1>9. \A i \in 1..(m + n) :
        \/ i \in 1..m /\ rows'[i] = rows[i]
        \/ i - m \in 1..n /\ rows'[i] = listed[i - m] /\ i > m
  BY <1>4, <1>7, <1>8
<1>10. \A i, j \in 1..n : listed[i].id = listed[j].id => i = j
  <2> SUFFICES ASSUME NEW i \in 1..n, NEW j \in 1..n, listed[i].id = listed[j].id, i # j
               PROVE  FALSE
    OBVIOUS
  <2>1. listed[i] = listed[j]
    BY <1>3, <1>6 DEF EventsFit
  <2>2. i < j \/ j < i
    BY <1>4
  <2>3. Feedback!ListedBefore(listed[i], listed[i])
    BY <1>4, <1>5, <2>1, <2>2
  <2>4. listed[i].thread \in Int /\ listed[i].id \in Int
    BY <1>3, <1>6, FeedbackNumbers DEF Feedback!Notes, Feedback!Discussions, Feedback!Replies
  <2> QED BY <2>3, <2>4 DEF Feedback!ListedBefore
<1>11. \A i \in 1..m : \A j \in 1..n : rows[i].id # listed[j].id
  <2>1. \A i \in 1..m : rows[i].id \in Feedback!Keys(rows)
    BY FeedbackTypes DEF Feedback!Keys, m
  <2> QED BY <1>2, <1>6, <2>1
<1>12. \A i \in 1..(m + n) : rows'[i].id \in 1..Len(notes)
  BY <1>3, <1>6, <1>7, <1>9 DEF EventsFit
<1>13. ASSUME NEW i \in 1..(m + n), NEW j \in 1..(m + n), rows'[i].id = rows'[j].id PROVE i = j
  <2>1. CASE i \in 1..m /\ j \in 1..m
    BY <1>4, <1>7, <1>8, <1>13, <2>1
  <2>2. CASE i \in 1..m /\ j \notin 1..m
    <3>1. rows'[i] = rows[i] /\ j - m \in 1..n /\ rows'[j] = listed[j - m]
      BY <1>4, <1>7, <1>8, <1>9, <2>2
    <3> QED BY <1>11, <1>13, <2>2, <3>1
  <2>3. CASE i \notin 1..m /\ j \in 1..m
    <3>1. rows'[j] = rows[j] /\ i - m \in 1..n /\ rows'[i] = listed[i - m]
      BY <1>4, <1>7, <1>8, <1>9, <2>3
    <3> QED BY <1>11, <1>13, <2>3, <3>1
  <2>4. CASE i \notin 1..m /\ j \notin 1..m
    <3>1. i - m = j - m
      BY <1>9, <1>10, <1>13, <2>4
    <3> QED BY <1>4, <1>7, <3>1
  <2> QED BY <2>1, <2>2, <2>3, <2>4
<1>14. RowsFit'
  BY <1>2, <1>8, <1>12, <1>13 DEF RowsFit
<1> QED BY <1>8, <1>14

LEMMA FeedbackSteps ==
  ASSUME FeedbackInv, [Feedback!Next]_(Feedback!vars)
  PROVE  FeedbackInv'
<1>1. CASE UNCHANGED Feedback!vars
  BY <1>1, FeedbackTypes, MoreReplies DEF Feedback!vars
<1>2. CASE Feedback!TimePasses
  <2>1. clock' \in 1..MaxMoments /\ UNCHANGED <<notes, edits, collecting, rows, served>>
    BY <1>2, FeedbackTypes, FeedbackNumbers DEF Feedback!TimePasses
  <2>2. RowsFit' /\ \A p \in Feedback!Phases : EventsFit(collecting[p].events)'
    BY <2>1 DEF FeedbackInv, RowsFit, EventsFit
  <2>3. Feedback!TypeOK'
    BY <2>1, FeedbackTypes DEF Feedback!TypeOK
  <2> QED BY <2>2, <2>3 DEF FeedbackInv
<1>3. ASSUME NEW d \in Feedback!Discussions, NEW c \in Commands \cup {Feedback!NoCommand},
             Feedback!Reply(d, c)
      PROVE  FeedbackInv'
  <2> DEFINE note == [id |-> Len(notes) + 1, thread |-> d, command |-> c, at |-> clock]
  <2>1. /\ Len(notes) < MaxReplies /\ notes' = Append(notes, note)
        /\ UNCHANGED <<clock, edits, collecting, rows, served>>
    BY <1>3 DEF Feedback!Reply
  <2>2. note \in Feedback!Notes /\ note.id = Len(notes) + 1
    BY <2>1, FeedbackTypes, FeedbackNumbers DEF Feedback!Notes, Feedback!Replies
  <2> HIDE DEF note
  <2>3. /\ notes' \in Seq(Feedback!Notes) /\ Len(notes') = Len(notes) + 1
        /\ \A i \in 1..Len(notes) : notes'[i] = notes[i]
        /\ notes'[Len(notes) + 1] = note
    BY <2>1, <2>2, FeedbackTypes, AppendProperties
  <2>4. \A i \in DOMAIN notes' : notes'[i].id = i
    <3> SUFFICES ASSUME NEW i \in 1..(Len(notes) + 1) PROVE notes'[i].id = i
      BY <2>3
    <3>1. CASE i = Len(notes) + 1
      BY <2>2, <2>3, <3>1
    <3>2. CASE i # Len(notes) + 1
      <4>1. i \in 1..Len(notes)
        BY <3>2, FeedbackTypes
      <4> QED BY <2>3, <4>1, FeedbackTypes
    <3> QED BY <3>1, <3>2
  <2>5. Len(notes') \in Nat /\ Len(notes) <= Len(notes') /\ edits' \in 0..MaxEdits
    BY <2>1, <2>3, FeedbackTypes
  <2> QED BY <2>1, <2>3, <2>4, <2>5, MoreReplies
<1>4. ASSUME NEW k \in Feedback!Replies, NEW c \in Commands \cup {Feedback!NoCommand},
             Feedback!Edit(k, c)
      PROVE  FeedbackInv'
  <2>1. /\ k \in DOMAIN notes /\ edits < MaxEdits /\ edits' = edits + 1
        /\ notes' = [notes EXCEPT ![k].command = c]
        /\ UNCHANGED <<clock, collecting, rows, served>>
    BY <1>4 DEF Feedback!Edit
  <2>2. PICK note : note = [notes[k] EXCEPT !.command = c]
    OBVIOUS
  <2>3. note \in Feedback!Notes /\ note.id = k
    <3>1. notes[k] \in Feedback!Notes /\ notes[k].id = k
      BY <2>1, FeedbackTypes
    <3> QED BY <2>2, <3>1 DEF Feedback!Notes
  <2>4. notes' = [notes EXCEPT ![k] = note]
    BY <2>1, <2>2
  <2>5. /\ notes' \in Seq(Feedback!Notes) /\ Len(notes') = Len(notes)
        /\ \A i \in 1..Len(notes) : notes'[i] = IF i = k THEN note ELSE notes[i]
    <3>1. notes \in Seq(Feedback!Notes) /\ k \in 1..Len(notes)
      BY <2>1, FeedbackTypes
    <3> QED BY <2>3, <2>4, <3>1, ExceptSeq
  <2>6. \A i \in DOMAIN notes' : notes'[i].id = i
    BY <2>3, <2>5, FeedbackTypes
  <2>7. Len(notes') \in Nat /\ Len(notes) <= Len(notes') /\ edits' \in 0..MaxEdits
    BY <2>1, <2>5, FeedbackTypes, FeedbackNumbers
  <2> QED BY <2>1, <2>5, <2>6, <2>7, MoreReplies
<1>5. ASSUME NEW p \in Feedback!Phases, Feedback!Collect(p) PROVE FeedbackInv'
  <2> DEFINE events == {notes[i] : i \in DOMAIN notes}
  <2>1. /\ served < MaxPhases /\ served' = served + 1
        /\ collecting' = [collecting EXCEPT ![p] = [step |-> "collected", events |-> events]]
        /\ UNCHANGED <<notes, clock, edits, rows>>
    BY <1>5 DEF Feedback!Collect
  <2>2. IsFiniteSet(events)
    <3>1. IsFiniteSet(1..Len(notes)) /\ notes \in [1..Len(notes) -> Feedback!Notes]
      BY FeedbackTypes, NumbersUpTo
    <3>2. events = {notes[i] : i \in 1..Len(notes)}
      BY FeedbackTypes
    <3> HIDE DEF events
    <3>3. notes \in Surjection(1..Len(notes), events)
      BY <3>1, <3>2 DEF Surjection
    <3> QED BY <3>1, <3>3, FS_Surjection
  <2>3. EventsFit(events) /\ events \in SUBSET Feedback!Notes
    BY <2>2, FeedbackTypes DEF EventsFit
  <2>4. served' \in 0..MaxPhases /\ rows' \in Seq(Feedback!Notes) /\ RowsFit'
    <3>1. RowsFit'
      BY <2>1 DEF FeedbackInv, RowsFit
    <3> QED BY <2>1, <3>1, FeedbackTypes, FeedbackNumbers
  <2> HIDE DEF events
  <2> QED BY <2>1, <2>3, <2>4, PhaseGoesOn
<1>6. ASSUME NEW p \in Feedback!Phases, Feedback!LookUp(p) PROVE FeedbackInv'
  <2> DEFINE old == collecting[p].events
             events == {n \in old : n.id \notin Feedback!Keys(rows)}
  <2>1. /\ collecting' = [collecting EXCEPT ![p] = [step |-> "looked_up", events |-> events]]
        /\ UNCHANGED <<notes, clock, edits, rows, served>>
    BY <1>6 DEF Feedback!LookUp
  <2>2. EventsFit(old) /\ old \in SUBSET Feedback!Notes
    BY FeedbackTypes DEF FeedbackInv, Feedback!PhaseStates
  <2>3. events \in SUBSET old
    OBVIOUS
  <2> HIDE DEF old, events
  <2>4. EventsFit(events) /\ events \in SUBSET Feedback!Notes
    <3>1. IsFiniteSet(events)
      BY <2>2, <2>3, FS_Subset DEF EventsFit
    <3> QED BY <2>2, <2>3, <3>1 DEF EventsFit
  <2>5. served' \in 0..MaxPhases /\ rows' \in Seq(Feedback!Notes) /\ RowsFit'
    <3>1. RowsFit'
      BY <2>1 DEF FeedbackInv, RowsFit
    <3> QED BY <2>1, <3>1, FeedbackTypes
  <2> QED BY <2>1, <2>4, <2>5, PhaseGoesOn
<1>7. EventsFit({})
  BY FS_EmptySet DEF EventsFit
<1>8. ASSUME NEW p \in Feedback!Phases, Feedback!Insert(p) PROVE FeedbackInv'
  <2>1. /\ collecting' = [collecting EXCEPT ![p] = [step |-> "idle", events |-> {}]]
        /\ UNCHANGED <<notes, clock, edits, served>>
    BY <1>8 DEF Feedback!Insert, Feedback!Idle
  <2>2. rows' \in Seq(Feedback!Notes) /\ RowsFit' /\ served' \in 0..MaxPhases
    BY <1>8, <2>1, InsertionFits, FeedbackTypes
  <2> QED BY <1>7, <2>1, <2>2, PhaseGoesOn
<1>9. ASSUME NEW p \in Feedback!Phases, Feedback!PhaseFails(p) PROVE FeedbackInv'
  <2>1. /\ collecting' = [collecting EXCEPT ![p] = [step |-> "idle", events |-> {}]]
        /\ UNCHANGED <<notes, clock, edits, rows, served>>
    BY <1>9 DEF Feedback!PhaseFails, Feedback!Idle
  <2>2. rows' \in Seq(Feedback!Notes) /\ RowsFit' /\ served' \in 0..MaxPhases
    <3>1. RowsFit'
      BY <2>1 DEF FeedbackInv, RowsFit
    <3> QED BY <2>1, <3>1, FeedbackTypes
  <2> QED BY <1>7, <2>1, <2>2, PhaseGoesOn
<1> QED BY <1>1, <1>2, <1>3, <1>4, <1>5, <1>6, <1>8, <1>9 DEF Feedback!Next

LEMMA FeedbackStarts == Feedback!Init => FeedbackInv
<1> SUFFICES ASSUME Feedback!Init PROVE FeedbackInv
  OBVIOUS
<1>1. /\ notes = <<>> /\ clock = 1 /\ edits = 0 /\ rows = <<>> /\ served = 0
      /\ collecting = [p \in Feedback!Phases |-> Feedback!Idle]
  BY DEF Feedback!Init
<1>2. Feedback!Idle \in Feedback!PhaseStates /\ Feedback!Idle.events = {}
  BY DEF Feedback!Idle, Feedback!PhaseStates
<1>3. Feedback!TypeOK
  BY <1>1, <1>2, FeedbackNumbers DEF Feedback!TypeOK
<1>4. \A p \in Feedback!Phases : EventsFit(collecting[p].events)
  BY <1>1, <1>2, FS_EmptySet DEF EventsFit
<1>5. RowsFit
  BY <1>1 DEF RowsFit
<1> QED BY <1>3, <1>4, <1>5 DEF FeedbackInv

LEMMA FeedbackStays == Spec => [](part = "feedback" => FeedbackInv)
<1> DEFINE I == part = "feedback" => FeedbackInv
<1>1. Init => I
  BY FeedbackStarts DEF Init
<1>2. I /\ [Next]_allVars => I'
  <2> SUFFICES ASSUME I, [Next]_allVars, part' = "feedback" PROVE FeedbackInv'
    OBVIOUS
  <2>1. FeedbackInv /\ [Feedback!Next]_(Feedback!vars)
    BY DEF Next, At, allVars, feedbackVars, Feedback!vars
  <2> QED BY <2>1, FeedbackSteps
<1> QED BY <1>1, <1>2, PTL DEF Spec

\* A reply counts once, however the phases that see it overlap, fail and run
\* again, for any number of discussions, replies, edits and phases.
THEOREM RepliesAreCountedOnce == Spec => []RepliesCountOnce
<1>1. (part = "feedback" => FeedbackInv) => RepliesCountOnce
  <2> SUFFICES ASSUME FeedbackInv PROVE Feedback!RepliesCountOnce
    BY DEF RepliesCountOnce
  <2> DEFINE keys == Feedback!Keys(rows)
             ids  == [i \in 1..Len(rows) |-> rows[i].id]
  <2>1. Len(rows) \in Nat /\ Len(notes) \in Nat /\ DOMAIN rows = 1..Len(rows)
    BY FeedbackTypes
  <2>2. keys \in SUBSET (1..Len(notes))
    BY <2>1 DEF FeedbackInv, RowsFit, Feedback!Keys
  <2>3. ids \in Bijection(1..Len(rows), keys)
    BY <2>1 DEF FeedbackInv, RowsFit, Feedback!Keys, Bijection, Injection, Surjection, IsInjective
  <2>4. IsFiniteSet(1..Len(rows)) /\ Cardinality(1..Len(rows)) = Len(rows)
    BY <2>1, NumbersUpTo
  <2>5. IsFiniteSet(1..Len(notes)) /\ Cardinality(1..Len(notes)) = Len(notes)
    BY <2>1, NumbersUpTo
  <2> HIDE DEF keys, ids
  <2>6. Cardinality(keys) = Len(rows)
    <3>1. ExistsBijection(1..Len(rows), keys)
      BY <2>3 DEF ExistsBijection
    <3> QED BY <2>4, <3>1, FS_Bijection
  <2>7. Cardinality(keys) <= Len(notes)
    BY <2>2, <2>5, FS_Subset
  <2>8. Feedback!Cardinality(keys) = Cardinality(keys)
    BY DEF Feedback!Cardinality, Cardinality
  <2> QED BY <2>6, <2>7, <2>8 DEF Feedback!RepliesCountOnce, Feedback!HumanReplies, keys
<1> QED BY <1>1, FeedbackStays, PTL

\* Whoever had the last word is heard: once the replies of a finding are in the
\* table the command that rules is that of the latest reply with a command, in
\* whichever order the rows arrived.
THEOREM LastWordIsHeard == Spec => []LastWordRules
<1>1. (part = "feedback" => FeedbackInv) => LastWordRules
  <2> SUFFICES ASSUME FeedbackInv, Feedback!Keys(rows) = Feedback!Keys(notes),
                      \A k \in DOMAIN rows : rows[k] = notes[rows[k].id]
               PROVE  LET commanding == {i \in DOMAIN notes : notes[i].command # Feedback!NoCommand}
                      IN IF commanding = {} THEN Feedback!LatestCommand = Feedback!NoCommand
                         ELSE \E i \in commanding :
                                /\ notes[i].command = Feedback!LatestCommand
                                /\ \A j \in commanding : notes[j].at <= notes[i].at
    BY DEF LastWordRules, Feedback!LastWordRules
  <2> DEFINE n == Len(rows)
             commanding == {i \in DOMAIN notes : notes[i].command # Feedback!NoCommand}
  <2>1. /\ n \in Nat /\ DOMAIN rows = 1..n /\ DOMAIN notes = 1..Len(notes)
        /\ \A i \in DOMAIN notes : notes[i].id = i
        /\ \A k \in 1..n : rows[k].at \in Nat /\ rows[k].at > 0 /\ rows[k].id \in Nat
    <3>1. \A k \in 1..n : rows[k].at \in 1..MaxMoments /\ rows[k].id \in 1..MaxReplies
      BY FeedbackTypes DEF Feedback!Notes, Feedback!Replies
    <3> QED BY <3>1, FeedbackTypes, FeedbackNumbers
  <2>2. SignalAt(n)
    BY <2>1, SignalIsLatest
  <2>3. \A k \in 1..n : rows[k].id \in DOMAIN notes /\ rows[k] = notes[rows[k].id]
    BY <2>1 DEF FeedbackInv, RowsFit
  <2>4. \A i \in DOMAIN notes : \E k \in 1..n : rows[k] = notes[i]
    <3> SUFFICES ASSUME NEW i \in DOMAIN notes PROVE \E k \in 1..n : rows[k] = notes[i]
      OBVIOUS
    <3>1. i \in Feedback!Keys(rows)
      BY <2>1 DEF Feedback!Keys
    <3> QED BY <2>1, <2>3, <3>1 DEF Feedback!Keys
  <2>5. CASE commanding = {}
    <3>1. \A k \in 1..n : rows[k].command = Feedback!NoCommand
      BY <2>3, <2>5
    <3>2. Feedback!Latest[n] = Feedback!Unsaid
      BY <2>2, <3>1 DEF SignalAt
    <3> QED BY <2>5, <3>2 DEF Feedback!LatestCommand, Feedback!Unsaid
  <2>6. CASE commanding # {}
    <3>1. PICK j \in 1..n : rows[j].command # Feedback!NoCommand
      BY <2>4, <2>6
    <3>2. PICK k \in 1..n :
            /\ rows[k].command # Feedback!NoCommand
            /\ Feedback!Latest[n] = [command |-> rows[k].command, at |-> rows[k].at, id |-> rows[k].id]
            /\ \A i \in 1..n :
                 rows[i].command # Feedback!NoCommand => Feedback!NotLater(rows[i], rows[k])
      BY <2>2, <3>1 DEF SignalAt
    <3>3. PICK m \in commanding : rows[k] = notes[m]
      BY <2>3, <3>2
    <3>4. notes[m].command = Feedback!LatestCommand
      BY <3>2, <3>3 DEF Feedback!LatestCommand
    <3>5. ASSUME NEW i \in commanding PROVE notes[i].at <= notes[m].at
      <4>1. PICK h \in 1..n : rows[h] = notes[i]
        BY <2>4
      <4>2. Feedback!NotLater(rows[h], rows[k])
        BY <3>2, <4>1
      <4>3. rows[h].at <= rows[k].at
        BY <2>1, <4>2 DEF Feedback!NotLater
      <4> QED BY <3>3, <4>1, <4>3
    <3> HIDE DEF commanding
    <3>6. \E i \in commanding : /\ notes[i].command = Feedback!LatestCommand
                                /\ \A h \in commanding : notes[h].at <= notes[i].at
      BY <3>4, <3>5
    <3> QED BY <2>6, <3>6 DEF commanding
  <2> QED BY <2>5, <2>6
<1> QED BY <1>1, FeedbackStays, PTL

-------------------------------------------------------------------------------
(***************************************************************************)
(* The types of the parts.                                                 *)
(***************************************************************************)
LEMMA EngineNumbers ==
  /\ FailureThreshold \in Nat \ {0} /\ RecoveryTime \in Nat \ {0}
  /\ UnitsPerPhase \in Nat \ {0} /\ EngineRetries \in Nat
BY PartsAssumption DEF Engine!EngineConstants

LEMMA EngineTyped ==
  ASSUME EngineInv, Engine!TypeOK, [Engine!Next]_(Engine!vars)
  PROVE  Engine!TypeOK'
<1> DEFINE Breakers == [state : {"closed", "open", "half_open"}, failures : 0..FailureThreshold]
<1>0. /\ deployment \in {"forked", "one_process"} /\ engine \in {"up", "down"}
      /\ breaker \in Breakers /\ sinceOpen \in 0..RecoveryTime
      /\ detectJob \in 0..UnitsPerPhase /\ attempt \in (0 - 1)..EngineRetries
      /\ answered \in {"none", "reviewed", "garbled", "failed", "refused"}
      /\ attempt # 0 - 1 => detectJob > 0
  BY DEF Engine!TypeOK, EngineInv, Underway, Engine!NoCall
<1>1. SUFFICES
        /\ deployment' \in {"forked", "one_process"} /\ engine' \in {"up", "down"}
        /\ breaker' \in Breakers /\ sinceOpen' \in 0..RecoveryTime
        /\ detectJob' \in 0..UnitsPerPhase /\ attempt' \in (0 - 1)..EngineRetries
        /\ answered' \in {"none", "reviewed", "garbled", "failed", "refused"}
  BY DEF Engine!TypeOK, Engine!NoCall
<1> USE EngineNumbers, <1>0 DEF Engine!NoCall
<1>2. CASE UNCHANGED Engine!vars
  BY <1>2 DEF Engine!vars
<1>3. ASSUME Engine!RecordSuccess PROVE breaker' \in Breakers /\ sinceOpen' \in 0..RecoveryTime
  BY <1>3 DEF Engine!RecordSuccess, Engine!Fresh
<1>4. ASSUME Engine!RecordFailure PROVE breaker' \in Breakers /\ sinceOpen' \in 0..RecoveryTime
  <2> DEFINE n == IF breaker.failures < FailureThreshold THEN breaker.failures + 1
                  ELSE FailureThreshold
  <2>1. n \in 0..FailureThreshold
    OBVIOUS
  <2>2. \/ breaker' = [state |-> "open", failures |-> n] /\ sinceOpen' = 0
        \/ breaker' = [breaker EXCEPT !.failures = n] /\ sinceOpen' = sinceOpen
    BY <1>4 DEF Engine!RecordFailure
  <2> HIDE DEF n
  <2> QED BY <2>1, <2>2
<1>5. CASE Engine!JobStarts
  BY <1>3, <1>5 DEF Engine!JobStarts
<1>6. CASE Engine!CallStarts
  <2>1. CASE Engine!Allowed /\ attempt' = 0 /\ UNCHANGED <<detectJob, answered>>
    <3>1. breaker' = breaker \/ breaker' = [breaker EXCEPT !.state = "half_open"]
      BY <2>1 DEF Engine!Allowed
    <3> QED BY <1>6, <2>1, <3>1 DEF Engine!CallStarts, Engine!Allowed
  <2>2. CASE Engine!Refused /\ answered' = "refused" /\ detectJob' = 0 /\ UNCHANGED attempt
    BY <1>6, <2>2 DEF Engine!CallStarts, Engine!Refused
  <2> QED BY <1>6, <2>1, <2>2 DEF Engine!CallStarts
<1>7. CASE Engine!Answered
  BY <1>3, <1>7 DEF Engine!Answered
<1>8. CASE Engine!AttemptFails
  BY <1>8 DEF Engine!AttemptFails
<1>9. CASE Engine!CallFails
  BY <1>4, <1>9 DEF Engine!CallFails
<1>10. CASE Engine!TimePasses
  BY <1>10 DEF Engine!TimePasses
<1>11. CASE Engine!EngineGoes("up", "down") \/ Engine!EngineGoes("down", "up")
  BY <1>11 DEF Engine!EngineGoes
<1> QED
  BY <1>2, <1>5, <1>6, <1>7, <1>8, <1>9, <1>10, <1>11 DEF Engine!Next, Engine!Serve

LEMMA GitLabTyped ==
  ASSUME GitLabInv
  PROVE  GitLab!TypeOK
<1>0. GitLabRetries \in Nat
  BY PartsAssumption DEF GitLab!GitLabConstants
<1>1. /\ GitLabTypes /\ RunningFits /\ EndedFits
  BY DEF GitLabInv
<1>2. \A i \in DOMAIN noteBodies : noteBodies[i] \in 0..MaxOperations
  <2>1. noteBodies \in Seq(0..MaxOperations) /\ DOMAIN noteBodies = 1..Len(noteBodies)
    BY <1>1 DEF GitLabTypes
  <2> QED BY <2>1, ElementOfSeq
<1>3. CASE Running
  <2>1. Plan /\ result = "none" /\ comments <= tries /\ lost <= GitLabRetries + tries
    BY <1>0, <1>1, <1>3 DEF RunningFits, GitLabTypes
  <2>2. operation # "none"
    BY <2>1 DEF Plan
  <2> QED BY <1>0, <1>1, <1>2, <1>3, <2>1, <2>2 DEF GitLab!TypeOK, GitLabTypes, Running
<1>4. CASE ~Running
  BY <1>0, <1>1, <1>2, <1>4 DEF GitLab!TypeOK, GitLabTypes, EndedFits, Running
<1> QED BY <1>3, <1>4

LEMMA InputsTyped ==
  ASSUME Inputs!TypeOK, [Inputs!Next]_(Inputs!vars)
  PROVE  Inputs!TypeOK'
<1>0. HeadRetries \in Nat /\ MaxHead \in Nat \ {0}
  BY PartsAssumption DEF Inputs!HeadConstants
<1> USE <1>0 DEF Inputs!TypeOK, Inputs!Heads, Inputs!NoHead
<1>1. CASE UNCHANGED Inputs!vars
  BY <1>1 DEF Inputs!vars
<1>2. CASE Inputs!Push
  BY <1>2 DEF Inputs!Push
<1>3. CASE Inputs!MergeRequestFollows
  BY <1>3 DEF Inputs!MergeRequestFollows
<1>4. CASE Inputs!NoteArrives
  BY <1>4 DEF Inputs!NoteArrives
<1>5. CASE Inputs!FetchMeta \/ Inputs!FetchDiff
  BY <1>5 DEF Inputs!FetchMeta, Inputs!FetchDiff
<1>6. CASE Inputs!FetchAgain
  BY <1>6 DEF Inputs!FetchAgain
<1>7. CASE Inputs!Settle \/ Inputs!FetchContext
  BY <1>7 DEF Inputs!Settle, Inputs!FetchContext
<1> QED BY <1>1, <1>2, <1>3, <1>4, <1>5, <1>6, <1>7 DEF Inputs!Next

\* The clock stays within its bound, and every hook has one of the reactions.
HooksTyped == now \in 0..MaxTicks /\ reaction \in Webhook!Reactions

LEMMA HooksStayTyped ==
  ASSUME HooksTyped, [Webhook!Next]_(Webhook!vars)
  PROVE  HooksTyped'
<1>0. MaxTicks \in Nat
  BY PartsAssumption DEF Webhook!IntakeConstants
<1>1. CASE UNCHANGED Webhook!vars
  BY <1>1 DEF Webhook!vars, HooksTyped
<1>2. CASE Webhook!Tick
  BY <1>0, <1>2 DEF Webhook!Tick, HooksTyped
<1>3. ASSUME NEW c \in Clients, Webhook!Refuse(c) PROVE HooksTyped'
  BY <1>3 DEF Webhook!Refuse, HooksTyped, Webhook!Reactions
<1>4. ASSUME NEW c \in Clients, Webhook!Admit(c) PROVE HooksTyped'
  <2>1. PICK secret \in BOOLEAN, isNote \in BOOLEAN, complete \in BOOLEAN,
             note \in ArrivingNotes, author \in {"person", "bot"} :
          reaction' = Webhook!Reads(secret, isNote, note, author, complete)
    BY <1>4 DEF Webhook!Admit
  <2>2. Webhook!Reads(secret, isNote, note, author, complete) \in Webhook!Reactions
    BY DEF Webhook!Reads, Webhook!Handled, Webhook!Reactions
  <2>3. now' = now
    BY <1>4 DEF Webhook!Admit
  <2> QED BY <2>1, <2>2, <2>3 DEF HooksTyped
<1> QED BY <1>1, <1>2, <1>3, <1>4 DEF Webhook!Next

LEMMA WebhookTyped ==
  ASSUME HooksInv, HooksTyped
  PROVE  Webhook!TypeOK
<1>1. ASSUME NEW c \in Clients
      PROVE  /\ \A i \in DOMAIN bucket[c] : bucket[c][i] \in 0..now
             /\ \A i \in DOMAIN admitted[c] : admitted[c][i] \in 0..now
  <2> DEFINE a == admitted[c]
             b == bucket[c]
  <2>1. /\ a \in Seq(Nat) /\ b \in Seq(Nat) /\ now \in Nat
        /\ DOMAIN a = 1..Len(a) /\ DOMAIN b = 1..Len(b) /\ Len(a) \in Nat /\ Len(b) \in Nat
        /\ \A i \in 1..Len(a) : a[i] <= now
    BY DEF HooksInv, InOrder
  <2>2. PICK n \in Nat : Len(a) = n + Len(b) /\ \A i \in 1..Len(b) : b[i] = a[n + i]
    BY DEF HooksInv, BucketFits
  <2> HIDE DEF a, b
  <2>3. ASSUME NEW i \in 1..Len(a) PROVE a[i] \in 0..now
    BY <2>1
  <2>4. ASSUME NEW i \in 1..Len(b) PROVE b[i] \in 0..now
    <3>1. n + i \in 1..Len(a)
      BY <2>1, <2>2
    <3> QED BY <2>2, <2>3, <3>1
  <2>5. (\A i \in DOMAIN b : b[i] \in 0..now) /\ (\A i \in DOMAIN a : a[i] \in 0..now)
    BY <2>1, <2>3, <2>4
  <2> QED BY <2>5 DEF a, b
<1> QED BY <1>1 DEF Webhook!TypeOK, HooksTyped

LEMMA VerdictsTyped ==
  ASSUME VerdictInv, Verdicts!TypeOK, [Verdicts!Next]_(Verdicts!vars)
  PROVE  Verdicts!TypeOK'
<1> DEFINE Latest == {"none", "published", "failed", "suppressed", "resolved"}
           Threads == {"none", "open", "by_person", "fixed", "by_bot"}
           Said == Commands \cup {Verdicts!NoCommand}
<1>0. /\ candidate \in [Findings -> EngineFindings] /\ policy \in RulePolicies
      /\ latest \in [Findings -> Latest] /\ discussion \in [Findings -> Threads]
      /\ replies \in [Findings -> 0..MaxReplies] /\ ruling \in [Findings -> Said]
      /\ \A f \in Findings : discussion[f] # "none" => latest[f] # "none"
  BY DEF Verdicts!TypeOK
<1>2. MaxReplies \in Nat
  BY VerdictAssumption
<1>3. CASE UNCHANGED Verdicts!vars
  BY <1>0, <1>3 DEF Verdicts!vars, Verdicts!TypeOK
<1>4. ASSUME NEW seen \in SUBSET Findings, NEW fate \in [seen -> Verdicts!Fates],
             NEW spared \in SUBSET (Findings \ seen), Verdicts!Run(seen, fate, spared)
      PROVE  Verdicts!TypeOK'
  <2> DEFINE decided == [f \in seen |-> Verdicts!Decided(f, fate[f])]
             gone(f)  == /\ discussion[f] = "open" /\ f \notin spared
                         /\ f \notin seen \/ decided[f] \in {"suppressed", "failed"}
             stands(f) == IF f \in seen /\ decided[f] # "eligible" THEN decided[f] ELSE latest[f]
  <2>1. /\ latest' = [f \in Findings |->
              IF gone(f) /\ stands(f) \in {"published", "failed"} THEN "resolved" ELSE stands(f)]
        /\ discussion' = [f \in Findings |->
              IF f \in seen /\ decided[f] = "published" THEN "open"
              ELSE IF gone(f) THEN "by_bot" ELSE discussion[f]]
        /\ UNCHANGED <<candidate, policy, replies, ruling>>
    BY <1>4 DEF Verdicts!Run
  <2>2. ASSUME NEW f \in seen
        PROVE  decided[f] \in {"published", "failed", "suppressed", "eligible"}
    <3>1. fate[f] \in {"published", "failed", "suppressed", "waits"}
      BY DEF Verdicts!Fates
    <3>2. decided[f] = Verdicts!Decided(f, fate[f])
      OBVIOUS
    <3> QED BY <3>1, <3>2 DEF Verdicts!Decided
  <2>3. ASSUME NEW f \in Findings
        PROVE  /\ stands(f) \in Latest
               /\ discussion[f] # "none" => stands(f) # "none"
               /\ f \in seen /\ decided[f] = "published" => stands(f) # "none"
               /\ gone(f) => discussion[f] # "none"
    <3>1. stands(f) \in Latest /\ (discussion[f] # "none" => stands(f) # "none")
      <4>1. f \in seen => decided[f] \in Latest \cup {"eligible"} /\ decided[f] # "none"
        BY <2>2
      <4>2. latest[f] \in Latest /\ (discussion[f] # "none" => latest[f] # "none")
        BY <1>0
      <4> HIDE DEF decided
      <4> QED BY <4>1, <4>2
    <3>2. f \in seen /\ decided[f] = "published" => stands(f) # "none"
      OBVIOUS
    <3>3. gone(f) => discussion[f] # "none"
      OBVIOUS
    <3> QED BY <3>1, <3>2, <3>3
  <2> HIDE DEF decided, stands, gone
  <2>4. ASSUME NEW f \in Findings
        PROVE  /\ latest'[f] \in Latest /\ discussion'[f] \in Threads
               /\ discussion'[f] # "none" => latest'[f] # "none"
    <3>1. latest'[f] = IF gone(f) /\ stands(f) \in {"published", "failed"} THEN "resolved"
                       ELSE stands(f)
      BY <2>1
    <3>2. discussion'[f] = IF f \in seen /\ decided[f] = "published" THEN "open"
                           ELSE IF gone(f) THEN "by_bot" ELSE discussion[f]
      BY <2>1
    <3>3. discussion[f] \in Threads
      BY <1>0
    <3> QED BY <2>3, <3>1, <3>2, <3>3
  <2>5. latest' \in [Findings -> Latest] /\ discussion' \in [Findings -> Threads]
    BY <2>1, <2>4
  <2> QED BY <1>0, <2>1, <2>4, <2>5 DEF Verdicts!TypeOK
<1>5. ASSUME NEW f \in Findings, NEW how \in {"by_person", "fixed"}, Verdicts!PersonResolves(f, how)
      PROVE  Verdicts!TypeOK'
  BY <1>0, <1>5 DEF Verdicts!PersonResolves, Verdicts!TypeOK
<1>6. ASSUME NEW f \in Findings, Verdicts!PersonReopens(f) PROVE Verdicts!TypeOK'
  BY <1>0, <1>6 DEF Verdicts!PersonReopens, Verdicts!TypeOK
<1>7. ASSUME NEW f \in Findings, NEW c \in Said, Verdicts!PersonReplies(f, c) PROVE Verdicts!TypeOK'
  BY <1>0, <1>2, <1>7 DEF Verdicts!PersonReplies, Verdicts!TypeOK
<1> QED BY <1>3, <1>4, <1>5, <1>6, <1>7 DEF Verdicts!Next

FoundRecords == [line : Int, actual : Int, shows : BOOLEAN, sure : BOOLEAN, precise : BOOLEAN]

\* The counters of lines and hunks stay within their bounds, and what was found
\* has the fields of a finding.
HunkTyped ==
  /\ issue \in Issues /\ size \in 0..(MaxLines + 1) /\ hunks \in 0..MaxHunks
  /\ Len(changed) < size + 1
  /\ \A f \in kept \cup dropped : f \in FoundRecords

LEMMA FoundTyped ==
  ASSUME NEW piece \in Seq(Units!Line), start \in Nat, odd \in BOOLEAN, LinesAreRead(piece, odd)
  PROVE  Units!Finding(piece) \in FoundRecords
<1> DEFINE t  == Units!Target(piece)
           at == {k \in Units!Candidates(piece) : piece[k].line = t}
           a  == IF at = {} THEN 0 ELSE Units!FirstAt(piece, at).actual
           shows == at # {} /\ (Units!Direct(piece) => Units!FirstAt(piece, at).signal # 0)
           sure == ~odd /\ \E i \in Units!Candidates(piece) : ~piece[i].blank
           precise == Units!Direct(piece)
<1>1. t \in Int
  BY TargetIsAdded
<1>2. a \in Int
  <2>1. CASE at = {}
    BY <2>1
  <2>2. CASE at # {}
    <3>1. at \in SUBSET Nat /\ \A k \in at : k \in DOMAIN piece
      BY DEF Units!Candidates
    <3>2. PICK k \in at : Units!FirstAt(piece, at) = piece[k]
      BY <2>2, <3>1, FirstIsOne
    <3>3. piece[k] \in Units!Line
      BY <3>1, <3>2
    <3> QED BY <2>2, <3>2, <3>3 DEF Units!Line
  <2> QED BY <2>1, <2>2
<1>3. shows \in BOOLEAN /\ sure \in BOOLEAN /\ precise \in BOOLEAN
  BY DEF Units!Direct
<1>4. Units!Finding(piece) = [line |-> t, actual |-> a, shows |-> shows, sure |-> sure,
                              precise |-> precise]
  BY DEF Units!Finding
<1> HIDE DEF t, a, shows, sure, precise
<1> QED BY <1>1, <1>2, <1>3, <1>4 DEF FoundRecords

LEMMA HunkStaysTyped ==
  ASSUME HunkInv, HunkTyped, [Units!Next]_(Units!vars)
  PROVE  HunkTyped'
<1>0. /\ MaxLines \in Nat /\ MaxHunks \in Nat /\ size \in Nat
      /\ changed \in Seq(Units!Line) /\ Len(changed) \in Nat
  BY PartsAssumption DEF Units!UnitConstants, HunkInv
<1>1. CASE UNCHANGED Units!vars
  BY <1>1 DEF Units!vars, HunkTyped
<1>2. ASSUME NEW n \in Starts, Units!HunkBegins(n) PROVE HunkTyped'
  <2>1. /\ size' = 1 /\ hunks' = hunks + 1 /\ hunks < MaxHunks /\ changed' = <<>>
        /\ issue' = issue /\ kept' = kept /\ dropped' = dropped
    BY <1>2 DEF Units!HunkBegins
  <2>2. Len(changed') = 0
    BY <2>1
  <2> QED BY <1>0, <2>1, <2>2 DEF HunkTyped
<1>3. ASSUME NEW k \in Units!Kinds, Units!LineRead(k) PROVE HunkTyped'
  <2>1. /\ size \in 1..MaxLines /\ size' = size + 1
        /\ issue' = issue /\ hunks' = hunks /\ kept' = kept /\ dropped' = dropped
    BY <1>3 DEF Units!LineRead
  <2>2. changed' = changed \/ \E e : changed' = Append(changed, e)
    BY <1>3 DEF Units!LineRead
  <2>3. Len(changed') \in Nat /\ Len(changed') <= Len(changed) + 1
    <3>1. ASSUME NEW e, changed' = Append(changed, e) PROVE Len(changed') = Len(changed) + 1
      <4>1. changed \in Seq(Units!Line \cup {e})
        BY <1>0
      <4> QED BY <3>1, <4>1, AppendProperties
    <3> QED BY <1>0, <2>2, <3>1
  <2> QED BY <1>0, <2>1, <2>3 DEF HunkTyped
<1>4. ASSUME NEW hits \in SUBSET DOMAIN Units!Pieces(changed), Units!HunkReviewed(hits)
      PROVE  HunkTyped'
  <2>1. /\ size' = 0 /\ changed' = <<>> /\ issue' = issue /\ hunks' = hunks
        /\ \A f \in kept' \cup dropped' :
             f \in kept \cup dropped \/ \E p \in hits : f = Units!Finding(Units!Pieces(changed)[p])
    BY <1>4 DEF Units!HunkReviewed
  <2>2. Len(changed') = 0
    BY <2>1
  <2>3. ASSUME NEW p \in hits PROVE Units!Finding(Units!Pieces(changed)[p]) \in FoundRecords
    <3>1. start \in Nat /\ odd \in BOOLEAN
      BY DEF HunkInv
    <3> QED BY <3>1, PiecesAreRead, FoundTyped
  <2>4. \A f \in kept' \cup dropped' : f \in FoundRecords
    BY <2>1, <2>3 DEF HunkTyped
  <2> QED BY <1>0, <2>1, <2>2, <2>4 DEF HunkTyped
<1> QED BY <1>1, <1>2, <1>3, <1>4 DEF Units!Next

LEMMA UnitsTyped ==
  ASSUME HunkInv, HunkTyped
  PROVE  Units!TypeOK
BY DEF HunkInv, HunkTyped, FoundRecords, Units!TypeOK

LEMMA CatalogTyped ==
  ASSUME CatalogInv, Catalog!TypeOK, [Catalog!Next]_(Catalog!vars)
  PROVE  Catalog!TypeOK'
<1>0. /\ files \in Catalog!Files /\ store \in SUBSET DOMAIN Rule
      /\ request \in ReviewsAsked \cup {Catalog!NoRequest}
      /\ \A i \in DOMAIN results : results[i] \in DOMAIN Rule /\ Len(results) <= TopK
  BY DEF Catalog!TypeOK, CatalogInv, Catalog!Rules
<1>1. CASE UNCHANGED Catalog!vars
  BY <1>1 DEF Catalog!vars, Catalog!TypeOK
<1>2. ASSUME NEW q \in ReviewsAsked, Catalog!Review(q) PROVE Catalog!TypeOK'
  <2> DEFINE found   == Catalog!Selected(Catalog!Queried, q)
                          \cup (Catalog!Hinted(q.patterns) \cap store)
             applies == {r \in Catalog!Selected(found, q) :
                           Catalog!Applicable(r, q.patterns)}
  <2>1. request' = q /\ files' = files /\ store' = store
    BY <1>2 DEF Catalog!Review
  <2>2. PICK ranked \in Catalog!Rankings(applies, q.patterns) :
          results' = Catalog!FirstOf(ranked, TopK)
    BY <1>2, Zenon DEF Catalog!Review
  <2>3. applies \in SUBSET DOMAIN Rule
    BY <1>0 DEF Catalog!Selected, Catalog!Queried
  <2> HIDE DEF applies
  <2>4. /\ \A i \in DOMAIN results' : i \in DOMAIN ranked /\ results'[i] = ranked[i]
        /\ \A i \in DOMAIN results' : i \in 1..TopK
    BY <2>2, <2>3, FirstAreRanked
  <2>5. \A i \in DOMAIN results' : results'[i] \in DOMAIN Rule
    BY <2>3, <2>4 DEF Catalog!Rankings
  <2>6. Len(results') <= TopK
    BY <2>2, <2>3, FirstAreRanked
  <2> QED BY <1>0, <2>1, <2>5, <2>6 DEF Catalog!TypeOK, Catalog!Rules
<1>3. ASSUME store' \in SUBSET DOMAIN Rule, files' \in Catalog!Files,
             request' = Catalog!NoRequest, results' = <<>>
      PROVE  Catalog!TypeOK'
  <2>1. DOMAIN results' = {}
    BY <1>3
  <2> QED BY <1>3, <2>1 DEF Catalog!TypeOK, Catalog!Rules
<1>4. ASSUME NEW r \in Catalog!Rules, NEW made, Catalog!Edit(r, made) PROVE Catalog!TypeOK'
  BY <1>0, <1>3, <1>4 DEF Catalog!Edit
<1>5. CASE Catalog!Ingest
  <2>1. store' \in SUBSET DOMAIN Rule /\ request' = Catalog!NoRequest /\ results' = <<>>
        /\ files' = files
    BY <1>5 DEF Catalog!Ingest, Catalog!Rules
  <2> QED BY <1>0, <1>3, <2>1
<1> QED BY <1>1, <1>2, <1>4, <1>5 DEF Catalog!Next

\* What a list of tests gives is in the set that its results and the default
\* are in.
LEMMA TestsGiveOf ==
  ASSUME NEW S, NEW n \in Nat, NEW tests, DOMAIN tests = 1..n, NEW default \in S,
         \A i \in 1..n : tests[i][2] \in S
  PROVE  Lang!FirstOf(tests, default) \in S
BY TestsGive

\* The language the bot finds is one of those listed, or none.
LEMMA LanguageTyped ==
  ASSUME NEW f \in Lang!FileRecords, NEW shows
  PROVE  Lang!BotLanguage(f, shows) \in Lang!Languages \cup {"none", "unknown"}
<1> DEFINE tests == << <<Lang!InSpecialPlace(f) \/ f.name = "gitlab_ci", "yaml">>,
             <<f.name = "dockerfile", "dockerfile">>,
             <<f.ext # "none", f.ext>>,
             <<f.name = "rc" \/ "shebang" \in shows, "bash">> >>
           default == "unknown"
           T == Lang!Languages \cup {"none", "unknown"}
<1>1. f.ext \in T
  BY DEF Lang!FileRecords
<1>2. "yaml" \in T /\ "dockerfile" \in T /\ "bash" \in T /\ default \in T
  BY DEF Lang!Languages
<1> HIDE DEF T
<1>3. DOMAIN tests = 1..4 /\ \A i \in 1..4 : tests[i][2] \in T
  BY <1>1, <1>2
<1>4. Lang!BotLanguage(f, shows) = Lang!FirstOf(tests, default)
  BY DEF Lang!BotLanguage
<1> HIDE DEF tests, default
<1>5. Lang!BotLanguage(f, shows) \in T
  <2>1. default \in T /\ 4 \in Nat
    BY <1>2
  <2>2. DOMAIN tests = 1..4
    BY <1>3
  <2>3. \A i \in 1..4 : tests[i][2] \in T
    BY <1>3
  <2>4. Lang!FirstOf(tests, default) \in T
    BY <2>1, <2>2, <2>3, TestsGiveOf
  <2> QED BY <2>4, <1>4
<1> QED BY <1>5 DEF T

\* What the registries answered is a match.
LEMMA LanguagesTyped ==
  ASSUME MatchInv
  PROVE  Lang!TypeOK
<1> DEFINE language == Lang!BotLanguage(file, Lang!BotSees)
           r == Lang!Runtime(language, file, Lang!BotSees)
<1>1. file \in LanguageFiles /\ fetched \in BOOLEAN /\ file \in Lang!FileRecords
  BY PartsAssumption DEF MatchInv, Lang!FilesAssumption
<1>2. language \in Lang!Languages \cup {"none", "unknown"}
  BY <1>1, LanguageTyped
<1>3. /\ r[1] \in Lang!Profiles /\ r[2] \in Lang!Contexts \cup {"none"}
      /\ r[3] \in Lang!Dialects \cup {"none"}
  BY RuntimeIsKept
<1>4. Lang!BotMatch(file, Lang!BotSees) =
        [language |-> language, profile |-> r[1], context |-> r[2], dialect |-> r[3]]
  BY DEF Lang!BotMatch, Lang!AsMatch
<1> HIDE DEF language, r
<1>5. Lang!BotMatch(file, Lang!BotSees) \in Lang!Matches
  BY <1>2, <1>3, <1>4 DEF Lang!Matches
<1>6. Lang!NoMatch \in Lang!Matches
  BY DEF Lang!NoMatch, Lang!Matches
<1>7. match \in Lang!Matches /\ resolution \in Lang!Matches
  BY <1>5, <1>6 DEF MatchInv
<1> QED BY <1>1, <1>7 DEF Lang!TypeOK

\* The client and its breaker keep their types.
LEMMA EngineTypes == Spec => [](part = "engine" => Engine!TypeOK)
<1> DEFINE I == part = "engine" => Engine!TypeOK
           J == part = "engine" => EngineInv
<1>1. Init => I
  BY EngineNumbers
     DEF Init, Engine!Init, Engine!TypeOK, Engine!Fresh, Engine!NoCall
<1>2. I /\ J /\ [Next]_allVars => I'
  <2> SUFFICES ASSUME I, J, [Next]_allVars, part' = "engine" PROVE (Engine!TypeOK)'
    OBVIOUS
  <2>1. Engine!TypeOK /\ EngineInv /\ [Engine!Next]_(Engine!vars)
    BY DEF Next, At, allVars, engineVars, Engine!vars
  <2> QED BY <2>1, EngineTyped
<1> QED BY <1>1, <1>2, EngineStays, PTL DEF Spec

\* Heads, metadata and diff of a detect keep their types.
LEMMA InputsTypes == Spec => [](part = "inputs" => Inputs!TypeOK)
<1> DEFINE I == part = "inputs" => Inputs!TypeOK
<1>1. Init => I
  BY PartsAssumption
     DEF Init, Inputs!Init, Inputs!TypeOK, Inputs!HeadConstants, Inputs!Heads, Inputs!NoHead
<1>2. I /\ [Next]_allVars => I'
  <2> SUFFICES ASSUME I, [Next]_allVars, part' = "inputs" PROVE (Inputs!TypeOK)'
    OBVIOUS
  <2>1. Inputs!TypeOK /\ [Inputs!Next]_(Inputs!vars)
    BY DEF Next, At, allVars, inputsVars, Inputs!vars
  <2> QED BY <2>1, InputsTyped
<1> QED BY <1>1, <1>2, PTL DEF Spec

\* The clock of the limiter and its reactions keep their types.
LEMMA HooksTypes == Spec => [](part = "webhook" => HooksTyped)
<1> DEFINE I == part = "webhook" => HooksTyped
<1>1. Init => I
  BY PartsAssumption
     DEF Init, Webhook!Init, HooksTyped, Webhook!IntakeConstants, Webhook!Reactions
<1>2. I /\ [Next]_allVars => I'
  <2> SUFFICES ASSUME I, [Next]_allVars, part' = "webhook" PROVE (HooksTyped)'
    OBVIOUS
  <2>1. HooksTyped /\ [Webhook!Next]_(Webhook!vars)
    BY DEF Next, At, allVars, webhookVars, Webhook!vars
  <2> QED BY <2>1, HooksStayTyped
<1> QED BY <1>1, <1>2, PTL DEF Spec

\* Candidates, policies and what became of findings keep their types.
LEMMA VerdictTypes == Spec => [](part = "verdicts" => Verdicts!TypeOK)
<1> DEFINE I == part = "verdicts" => Verdicts!TypeOK
           J == part = "verdicts" => VerdictInv
<1>1. Init => I
  <2> SUFFICES ASSUME Verdicts!Init PROVE Verdicts!TypeOK
    BY DEF Init
  <2> QED BY VerdictAssumption, PartsAssumption DEF Verdicts!Init, Verdicts!TypeOK, Verdicts!VerdictConstants
<1>2. I /\ J /\ [Next]_allVars => I'
  <2> SUFFICES ASSUME I, J, [Next]_allVars, part' = "verdicts" PROVE (Verdicts!TypeOK)'
    OBVIOUS
  <2>1. Verdicts!TypeOK /\ VerdictInv /\ [Verdicts!Next]_(Verdicts!vars)
    BY DEF Next, At, allVars, verdictsVars, Verdicts!vars
  <2> QED BY <2>1, VerdictsTyped
<1> QED BY <1>1, <1>2, VerdictsStay, PTL DEF Spec

\* The counters of a patch and its findings keep their types.
LEMMA HunkTypes == Spec => [](part = "units" => HunkTyped)
<1> DEFINE I == part = "units" => HunkTyped
           J == part = "units" => HunkInv
<1>1. Init => I
  <2> SUFFICES ASSUME Units!Init PROVE HunkTyped
    BY DEF Init
  <2>1. MaxLines \in Nat /\ MaxHunks \in Nat
    BY PartsAssumption DEF Units!UnitConstants
  <2> QED BY <2>1 DEF Units!Init, HunkTyped
<1>2. I /\ J /\ [Next]_allVars => I'
  <2> SUFFICES ASSUME I, J, [Next]_allVars, part' = "units" PROVE (HunkTyped)'
    OBVIOUS
  <2>1. HunkTyped /\ HunkInv /\ [Units!Next]_(Units!vars)
    BY DEF Next, At, allVars, unitsVars, Units!vars
  <2> QED BY <2>1, HunkStaysTyped
<1> QED BY <1>1, <1>2, UnitsStay, PTL DEF Spec

\* Providers, drafts and outcomes keep their types.
LEMMA DraftTypes == Spec => [](part = "drafts" => Drafts!TypeOK)
<1> DEFINE I == part = "drafts" => Drafts!TypeOK
<1>1. Init => I
  BY PartsAssumption, Drafts!InitDraftTypes DEF Init
<1>2. I /\ [Next]_allVars => I'
  <2> SUFFICES ASSUME I, [Next]_allVars, part' = "drafts" PROVE (Drafts!TypeOK)'
    OBVIOUS
  <2>1. Drafts!TypeOK /\ [Drafts!Next]_(Drafts!vars)
    BY DEF Next, At, allVars, draftsVars, Drafts!vars
  <2> QED BY <2>1, PartsAssumption, Drafts!StepDraftTypes
<1> QED BY <1>1, <1>2, PTL DEF Spec

\* The columns of the requests keep their types.
LEMMA ColumnTypes == Spec => [](part = "store" => Store!Columns)
<1> DEFINE I == part = "store" => Store!Columns
<1>1. Init => I
  BY Store!InitColumns DEF Init
<1>2. I /\ [Next]_allVars => I'
  <2> SUFFICES ASSUME I, [Next]_allVars, part' = "store" PROVE (Store!Columns)'
    OBVIOUS
  <2>1. Store!Columns /\ [Store!Next]_(Store!vars)
    BY DEF Next, At, allVars, storeVars, Store!vars
  <2> QED BY <2>1, Store!StepColumns
<1> QED BY <1>1, <1>2, PTL DEF Spec

\* Files, store, request and results keep their types.
LEMMA CatalogTypes == Spec => [](part = "catalog" => Catalog!TypeOK)
<1> DEFINE I == part = "catalog" => Catalog!TypeOK
           J == part = "catalog" => CatalogInv
<1>1. Init => I
  <2> SUFFICES ASSUME Catalog!Init PROVE Catalog!TypeOK
    BY DEF Init
  <2>1. DOMAIN results = {}
    BY DEF Catalog!Init
  <2> QED BY <2>1 DEF Catalog!Init, Catalog!TypeOK
<1>2. I /\ J /\ [Next]_allVars => I'
  <2> SUFFICES ASSUME I, J, [Next]_allVars, part' = "catalog" PROVE (Catalog!TypeOK)'
    OBVIOUS
  <2>1. Catalog!TypeOK /\ CatalogInv /\ [Catalog!Next]_(Catalog!vars)
    BY DEF Next, At, allVars, catalogVars, Catalog!vars
  <2> QED BY <2>1, CatalogTyped
<1> QED BY <1>1, <1>2, CatalogStays, PTL DEF Spec

\* The columns of the component at work, whichever it is, have the types its
\* code gives them, for any values of the constants of all components.
THEOREM PartsTypesHold == Spec => []PartsTypeOK
<1> DEFINE Bot == /\ part = "feedback" => FeedbackInv
                  /\ part = "engine" => Engine!TypeOK
                  /\ part = "gitlab" => GitLabInv
                  /\ part = "inputs" => Inputs!TypeOK
                  /\ part = "webhook" => HooksInv
                  /\ part = "webhook" => HooksTyped
           Reports == /\ part = "verdicts" => Verdicts!TypeOK
                      /\ part = "units" => HunkInv /\ ReportInv
                      /\ part = "units" => HunkTyped
                      /\ part = "drafts" => Drafts!TypeOK
           Rules == /\ part = "store" => Store!QInv
                    /\ part = "store" => Store!Columns
                    /\ part = "catalog" => Catalog!TypeOK
                    /\ part = "languages" => MatchInv
<1>1. Spec => [](part \in Parts)
  <2>1. Init => part \in Parts
    BY DEF Init
  <2>2. part \in Parts /\ [Next]_allVars => (part \in Parts)'
    BY DEF Next, At, allVars
  <2> QED BY <2>1, <2>2, PTL DEF Spec
<1>2. part \in Parts /\ Bot /\ Reports /\ Rules => PartsTypeOK
  <2> SUFFICES ASSUME part \in Parts,
                      part = "feedback" => Feedback!TypeOK, part = "engine" => Engine!TypeOK,
                      part = "gitlab" => GitLab!TypeOK, part = "inputs" => Inputs!TypeOK,
                      part = "webhook" => Webhook!TypeOK, part = "verdicts" => Verdicts!TypeOK,
                      part = "units" => Units!TypeOK, part = "drafts" => Drafts!TypeOK,
                      part = "store" => Store!TypeOK, part = "catalog" => Catalog!TypeOK,
                      part = "languages" => Lang!TypeOK
               PROVE  PartsTypeOK
    BY PartsAssumption, GitLabTyped, WebhookTyped, UnitsTyped, Store!ColumnsTyped, LanguagesTyped
       DEF FeedbackInv
  <2> QED BY DEF PartsTypeOK, Parts
<1>3. Spec => []Bot
  BY FeedbackStays, EngineTypes, GitLabStays, InputsTypes, HooksStay, HooksTypes, PTL
<1>4. Spec => []Reports
  BY VerdictTypes, UnitsStay, HunkTypes, DraftTypes, PTL
<1>5. Spec => []Rules
  BY StoreStays, ColumnTypes, CatalogTypes, LanguagesStay, PTL
<1> HIDE DEF Bot, Reports, Rules
<1> QED BY <1>1, <1>2, <1>3, <1>4, <1>5, PTL
================================================================================
