------------------------- MODULE PublishBatch_proofs -------------------------
(***************************************************************************)
(* What a batch may hold, what it may leave out, what the loop that        *)
(* publishes it sends and what runs one after another make of the backlog, *)
(* for every number of findings, files, rules and runs, every history and  *)
(* every value of the three settings.                                      *)
(***************************************************************************)
EXTENDS PublishBatch, FiniteSetTheorems, WellFoundedInduction, TLAPS

Elements(s) == {s[i] : i \in 1..Len(s)}

LEMMA Limits ==
  /\ NumFindings \in Nat
  /\ BatchSize \in Nat /\ BatchSize > 0
  /\ FileCap \in Nat /\ FileCap > 0
  /\ RuleCap \in Nat /\ RuleCap > 0
  BY BatchConstants

(***************************************************************************)
(* Sets of findings.                                                       *)
(***************************************************************************)
LEMMA LeastOf ==
  ASSUME NEW S \in SUBSET Nat, S # {}
  PROVE  \E x \in S : \A y \in S : x <= y
  <1> DEFINE R == OpToRel(<, Nat)
  <1>1. IsWellFoundedOn(R, Nat)
    BY NatLessThanWellFounded
  <1>2. \A x, y \in S : y < x => <<y, x>> \in R
    BY DEF OpToRel
  <1> HIDE DEF R
  <1>3. PICK x \in S : \A y \in S : ~(<<y, x>> \in R)
    BY <1>1, WFMin
  <1>4. ASSUME NEW y \in S PROVE x <= y
    <2>1. x \in Nat /\ y \in Nat
      OBVIOUS
    <2>2. ~(y < x)
      BY <1>2, <1>3
    <2> QED
      BY <2>1, <2>2
  <1> QED
    BY <1>4

LEMMA SubsetsFinite ==
  ASSUME NEW S \in SUBSET Findings
  PROVE  IsFiniteSet(S) /\ Cardinality(S) \in Nat
  <1>1. NumFindings \in Nat
    BY BatchConstants
  <1>2. IsFiniteSet(Findings)
    BY <1>1, FS_Interval, 1 \in Int, NumFindings \in Int DEF Findings
  <1> QED
    BY <1>2, FS_Subset, FS_CardinalityType

\* One more finding raises the comments of its own file and rule by one and leaves
\* those of the others alone.
LEMMA OneMore ==
  ASSUME NEW S \in SUBSET Findings, NEW f \in Findings, f \notin S
  PROVE  Cardinality(S \cup {f}) = Cardinality(S) + 1
  BY SubsetsFinite, FS_AddElement

LEMMA OneMoreOfFile ==
  ASSUME NEW S \in SUBSET Findings, NEW f \in Findings, f \notin S, NEW file
  PROVE  /\ FileOf(f) = file =>
              Cardinality(OfFile(S \cup {f}, file)) = Cardinality(OfFile(S, file)) + 1
         /\ FileOf(f) # file =>
              Cardinality(OfFile(S \cup {f}, file)) = Cardinality(OfFile(S, file))
  <1>1. OfFile(S, file) \in SUBSET Findings /\ f \notin OfFile(S, file)
    BY DEF OfFile
  <1>2. CASE FileOf(f) = file
    <2>1. OfFile(S \cup {f}, file) = OfFile(S, file) \cup {f}
      BY <1>2 DEF OfFile
    <2> QED
      BY <1>1, <1>2, <2>1, OneMore
  <1>3. CASE FileOf(f) # file
    <2>1. OfFile(S \cup {f}, file) = OfFile(S, file)
      BY <1>3 DEF OfFile
    <2> QED
      BY <1>3, <2>1
  <1> QED
    BY <1>2, <1>3

LEMMA OneMoreOfRule ==
  ASSUME NEW S \in SUBSET Findings, NEW f \in Findings, f \notin S, NEW rule
  PROVE  /\ RuleOf(f) = rule =>
              Cardinality(OfRule(S \cup {f}, rule)) = Cardinality(OfRule(S, rule)) + 1
         /\ RuleOf(f) # rule =>
              Cardinality(OfRule(S \cup {f}, rule)) = Cardinality(OfRule(S, rule))
  <1>1. OfRule(S, rule) \in SUBSET Findings /\ f \notin OfRule(S, rule)
    BY DEF OfRule
  <1>2. CASE RuleOf(f) = rule
    <2>1. OfRule(S \cup {f}, rule) = OfRule(S, rule) \cup {f}
      BY <1>2 DEF OfRule
    <2> QED
      BY <1>1, <1>2, <2>1, OneMore
  <1>3. CASE RuleOf(f) # rule
    <2>1. OfRule(S \cup {f}, rule) = OfRule(S, rule)
      BY <1>3 DEF OfRule
    <2> QED
      BY <1>3, <2>1
  <1> QED
    BY <1>2, <1>3

\* No findings at all are within every limit.
LEMMA NoneChosen ==
  ASSUME selected = <<>>
  PROVE  Chosen = {} /\ CapsHold
  <1>1. Len(selected) = 0 /\ Chosen = {}
    BY DEF Chosen
  <1>2. /\ \A file : OfFile(Chosen, file) = {}
        /\ \A rule : OfRule(Chosen, rule) = {}
    BY <1>1 DEF OfFile, OfRule
  <1>3. /\ Cardinality(Chosen) = 0
        /\ \A file : Cardinality(OfFile(Chosen, file)) = 0
        /\ \A rule : Cardinality(OfRule(Chosen, rule)) = 0
    BY <1>1, <1>2, FS_EmptySet, Zenon
  <1> QED
    BY <1>1, <1>3, Limits DEF CapsHold

-------------------------------------------------------------------------------
(***************************************************************************)
(* A turn takes at most one candidate, and only one the limits admit.      *)
(***************************************************************************)
LEMMA PicksBest ==
  ASSUME selected \in Seq(Findings), pending \subseteq Findings, NEW file
  PROVE  \/ /\ Picks(file) = {} /\ Ordered(Picks(file)) = <<>>
            /\ \A g \in Queue(file) : ~Fits(g, Chosen)
         \/ \E f \in Queue(file) : /\ Picks(file) = {f} /\ Ordered(Picks(file)) = <<f>>
                                   /\ f \in Findings /\ Fits(f, Chosen)
                                   /\ \A g \in Queue(file) : g < f => ~Fits(g, Chosen)
  <1>1. /\ Queue(file) \subseteq Findings /\ Queue(file) \subseteq Nat
        /\ \A f \in Queue(file) : f \in Findings /\ f \in Nat /\ FileOf(f) = file
    <2>1. Queue(file) \subseteq Findings /\ \A f \in Queue(file) : FileOf(f) = file
      BY DEF Queue, OfFile
    <2>2. Findings \subseteq Nat
      BY Limits DEF Findings
    <2> QED
      BY <2>1, <2>2
  <1> DEFINE fits == {f \in Queue(file) : Admissible(f, Chosen)}
  <1>2. CASE Picks(file) = {}
    <2>1. Ordered({}) = <<>>
      BY FS_EmptySet DEF Ordered
    <2>2. ASSUME NEW g \in Queue(file), Fits(g, Chosen) PROVE FALSE
      <3>1. g \in fits /\ Cardinality(OfFile(Chosen, file)) < FileCap
        BY <1>1, <2>2 DEF Fits
      <3>2. fits \in SUBSET Nat /\ fits # {}
        BY <1>1, <3>1
      <3>3. \E f \in fits : \A h \in fits : f <= h
        BY <3>2, LeastOf
      <3> QED
        BY <1>2, <3>1, <3>3 DEF Picks
    <2> QED
      BY <1>2, <2>1, <2>2
  <1>3. CASE Picks(file) # {}
    <2>1. PICK f : f \in Picks(file)
      BY <1>3
    <2>2. /\ f \in Queue(file) /\ Admissible(f, Chosen)
          /\ Cardinality(OfFile(Chosen, file)) < FileCap
          /\ \A g \in fits : f <= g
      BY <2>1 DEF Picks
    <2>3. Picks(file) = {f}
      <3>1. ASSUME NEW g \in Picks(file)
            PROVE  g = f
        <4>1. f <= g /\ g <= f /\ f \in Nat /\ g \in Nat
          BY <1>1, <2>1 DEF Picks
        <4> QED
          BY <4>1
      <3> QED
        BY <2>1, <3>1
    <2>4. Ordered({f}) = <<f>>
      <3>1. Cardinality({f}) = 1
        BY FS_Singleton
      <3>2. {g \in {f} : g < f} = {}
        <4>1. f \in Nat
          BY <1>1, <2>2
        <4> QED
          BY ONLY <4>1
      <3>3. ASSUME NEW i \in 1..1
            PROVE  (CHOOSE h \in {f} : Cardinality({g \in {f} : g < h}) = i - 1) = f
        <4>1. i - 1 = 0
          OBVIOUS
        <4>2. Cardinality({g \in {f} : g < f}) = 0
          BY <3>2, FS_EmptySet, Zenon
        <4>3. \A h \in {f} : Cardinality({g \in {f} : g < h}) = i - 1 <=> h = f
          BY <4>1, <4>2, Zenon
        <4> QED
          BY <4>3, Zenon
      <3>4. Ordered({f}) = [i \in 1..1 |-> f]
        BY ONLY <3>1, <3>3 DEF Ordered
      <3> QED
        BY <3>4
    <2>5. Fits(f, Chosen) /\ f \in Findings
      BY <1>1, <2>2 DEF Fits
    <2>6. ASSUME NEW g \in Queue(file), g < f, Fits(g, Chosen) PROVE FALSE
      <3>1. g \in fits
        BY <2>6 DEF Fits
      <3>2. f <= g /\ g \in Nat /\ f \in Nat
        BY <1>1, <2>2, <3>1
      <3> QED
        BY <2>6, <3>2
    <2> QED
      BY <2>2, <2>3, <2>4, <2>5, <2>6
  <1> QED
    BY <1>2, <1>3

LEMMA AppendOne ==
  ASSUME selected \in Seq(Findings), NEW f \in Findings
  PROVE  selected \o <<f>> = Append(selected, f)
  OBVIOUS

LEMMA TurnTakesOne ==
  ASSUME TakeTurn, selected \in Seq(Findings), pending \subseteq Findings
  PROVE  /\ pending' \subseteq pending
         /\ \/ selected' = selected
            \/ \E f \in Findings : /\ selected' = Append(selected, f)
                                   /\ Admissible(f, Chosen)
                                   /\ Cardinality(OfFile(Chosen, FileOf(f))) < FileCap
  <1>1. PICK file : /\ selected' = selected \o Ordered(Picks(file))
                    /\ pending' = (pending \ Queue(file)) \cup Left(file, Picks(file))
    BY DEF TakeTurn
  <1>2. pending' \subseteq pending
    BY <1>1 DEF Left, Queue, OfFile
  <1>3. CASE Ordered(Picks(file)) = <<>>
    BY <1>1, <1>2, <1>3
  <1>4. CASE \E f \in Findings : Ordered(Picks(file)) = <<f>> /\ Fits(f, Chosen)
    BY <1>1, <1>2, <1>4, AppendOne DEF Fits
  <1> QED
    BY <1>3, <1>4, PicksBest

-------------------------------------------------------------------------------
(***************************************************************************)
(* The invariant.  It needs no more about the rounds than that queues hold *)
(* findings: every limit is checked against the batch itself.              *)
(***************************************************************************)
WithinLimits ==
  /\ selected \in Seq(Findings)
  /\ candidates \subseteq Findings /\ pending \subseteq Findings
  /\ CapsHold

LEMMA AppendKeepsCaps ==
  ASSUME WithinLimits, ~BatchFull, UNCHANGED kind,
         NEW f \in Findings, selected' = Append(selected, f), Admissible(f, Chosen),
         Cardinality(OfFile(Chosen, FileOf(f))) < FileCap
  PROVE  selected' \in Seq(Findings) /\ CapsHold'
  <1>1. selected \in Seq(Findings) /\ Chosen \in SUBSET Findings
    BY DEF WithinLimits, Chosen
  <1>2. /\ selected' \in Seq(Findings) /\ Len(selected') = Len(selected) + 1
        /\ Chosen' = Chosen \cup {f}
    BY <1>1 DEF Chosen
  <1>3. /\ f \notin Chosen
        /\ \A g \in Chosen : FileOf(g) = FileOf(f) => RuleOf(g) # RuleOf(f)
    BY DEF Admissible, OfFile, OfRule
  <1>4. /\ \A g : FileOf(g)' = FileOf(g) /\ RuleOf(g)' = RuleOf(g)
        /\ \A S, x : OfFile(S, x)' = OfFile(S, x) /\ OfRule(S, x)' = OfRule(S, x)
    BY DEF FileOf, RuleOf, OfFile, OfRule
  <1>5. Len(selected) \in Nat /\ Cardinality(Chosen') = Cardinality(Chosen) + 1
    <2>1. Cardinality(Chosen \cup {f}) = Cardinality(Chosen) + 1
      BY <1>1, <1>3, OneMore
    <2>2. Cardinality(Chosen') = Cardinality(Chosen) + 1
      BY <1>2, <2>1, Zenon
    <2> QED
      BY <1>1, <2>2
  <1>6. Len(selected') <= BatchSize /\ Cardinality(Chosen') = Len(selected')
    BY <1>2, <1>5, Limits DEF WithinLimits, CapsHold, BatchFull
  <1>7. ASSUME NEW file \in Files
        PROVE  Cardinality(OfFile(Chosen, file)') <= FileCap
    <2>1. OfFile(Chosen, file) \in SUBSET Findings
      BY <1>1 DEF OfFile
    <2>2. Cardinality(OfFile(Chosen, file)) \in Nat /\ Cardinality(OfFile(Chosen, file)) <= FileCap
      BY <2>1, SubsetsFinite DEF WithinLimits, CapsHold
    <2>3. Cardinality(OfFile(Chosen, file)') = Cardinality(OfFile(Chosen \cup {f}, file))
      <3>1. OfFile(Chosen, file)' = OfFile(Chosen \cup {f}, file)
        BY <1>2, <1>4 DEF OfFile
      <3> QED
        BY <3>1, Zenon
    <2>4. /\ FileOf(f) = file =>
              Cardinality(OfFile(Chosen \cup {f}, file)) = Cardinality(OfFile(Chosen, file)) + 1
          /\ FileOf(f) # file =>
               Cardinality(OfFile(Chosen \cup {f}, file)) = Cardinality(OfFile(Chosen, file))
      BY <1>1, <1>3, OneMoreOfFile
    <2>5. CASE FileOf(f) = file
      <3>1. Cardinality(OfFile(Chosen, file)) < FileCap
        BY <2>5, Zenon
      <3> QED
        BY <2>2, <2>3, <2>4, <2>5, <3>1, Limits
    <2> QED
      BY <2>2, <2>3, <2>4, <2>5
  <1>8. ASSUME NEW rule \in Rules
        PROVE  Cardinality(OfRule(Chosen, rule)') <= RuleCap
    <2>1. OfRule(Chosen, rule) \in SUBSET Findings
      BY <1>1 DEF OfRule
    <2>2. Cardinality(OfRule(Chosen, rule)) \in Nat /\ Cardinality(OfRule(Chosen, rule)) <= RuleCap
      BY <2>1, SubsetsFinite DEF WithinLimits, CapsHold
    <2>3. Cardinality(OfRule(Chosen, rule)') = Cardinality(OfRule(Chosen \cup {f}, rule))
      <3>1. OfRule(Chosen, rule)' = OfRule(Chosen \cup {f}, rule)
        BY <1>2, <1>4 DEF OfRule
      <3> QED
        BY <3>1, Zenon
    <2>4. Cardinality(OfRule(Chosen, RuleOf(f))) < RuleCap
      BY DEF Admissible
    <2>5. /\ RuleOf(f) = rule =>
              Cardinality(OfRule(Chosen \cup {f}, rule)) = Cardinality(OfRule(Chosen, rule)) + 1
          /\ RuleOf(f) # rule =>
               Cardinality(OfRule(Chosen \cup {f}, rule)) = Cardinality(OfRule(Chosen, rule))
      BY <1>1, <1>3, OneMoreOfRule
    <2>6. CASE RuleOf(f) = rule
      <3>1. Cardinality(OfRule(Chosen, rule)) < RuleCap
        BY <2>4, <2>6, Zenon
      <3> QED
        BY <2>2, <2>3, <2>5, <2>6, <3>1, Limits
    <2> QED
      BY <2>2, <2>3, <2>5, <2>6
  <1>9. ASSUME NEW g \in Chosen', NEW h \in Chosen',
               FileOf(g)' = FileOf(h)', RuleOf(g)' = RuleOf(h)'
        PROVE  g = h
    BY <1>2, <1>3, <1>4, <1>9 DEF WithinLimits, CapsHold
  <1> QED
    BY <1>2, <1>6, <1>7, <1>8, <1>9 DEF CapsHold

-------------------------------------------------------------------------------
LEMMA InitWithinLimits == Init => WithinLimits
  <1> SUFFICES ASSUME Init PROVE WithinLimits
    OBVIOUS
  <1>1. selected = <<>> /\ candidates = {} /\ pending = {}
    BY DEF Init
  <1> QED
    BY <1>1, NoneChosen DEF WithinLimits

LEMMA StepWithinLimits == WithinLimits /\ [Next]_vars => WithinLimits'
  <1> SUFFICES ASSUME WithinLimits, [Next]_vars PROVE WithinLimits'
    OBVIOUS
  <1>1. ASSUME UNCHANGED <<kind, selected>>
        PROVE  CapsHold' /\ selected' \in Seq(Findings)
    <2>1. kind' = kind /\ selected' = selected
      BY <1>1
    <2>2. /\ Chosen' = Chosen
          /\ \A x : OfFile(Chosen, x)' = OfFile(Chosen, x) /\ OfRule(Chosen, x)' = OfRule(Chosen, x)
          /\ \A f : FileOf(f)' = FileOf(f) /\ RuleOf(f)' = RuleOf(f)
      BY <2>1, Zenon DEF Chosen, OfFile, OfRule, FileOf, RuleOf
    <2>3. /\ Cardinality(Chosen)' = Cardinality(Chosen)
          /\ \A x : Cardinality(OfFile(Chosen, x))' = Cardinality(OfFile(Chosen, x))
          /\ \A x : Cardinality(OfRule(Chosen, x))' = Cardinality(OfRule(Chosen, x))
      BY <2>2, Zenon
    <2> QED
      BY <2>1, <2>2, <2>3 DEF WithinLimits, CapsHold
  <1>2. CASE Prepare
    <2>1. selected' = <<>> /\ pending' = {} /\ candidates' \subseteq Findings
      BY <1>2 DEF Prepare
    <2>2. CapsHold'
      <3>1. Len(selected') = 0 /\ Chosen' = {}
        BY <2>1 DEF Chosen
      <3>2. /\ \A file : OfFile(Chosen, file)' = {}
            /\ \A rule : OfRule(Chosen, rule)' = {}
        BY <3>1 DEF OfFile, OfRule
      <3>3. /\ Cardinality(Chosen)' = 0
            /\ \A file : Cardinality(OfFile(Chosen, file))' = 0
            /\ \A rule : Cardinality(OfRule(Chosen, rule))' = 0
        BY <3>1, <3>2, FS_EmptySet, Zenon
      <3> QED
        BY <3>1, <3>3, Limits DEF CapsHold
    <2> QED
      BY <2>1, <2>2 DEF WithinLimits
  <1>3. CASE TakeTurn
    <2>1. /\ UNCHANGED <<kind, candidates>> /\ ~BatchFull
          /\ selected \in Seq(Findings) /\ pending \subseteq Findings
      BY <1>3 DEF TakeTurn, WithinLimits
    <2>2. pending' \subseteq pending
      BY <1>3, <2>1, TurnTakesOne
    <2>3. CASE selected' = selected
      BY <1>1, <2>1, <2>2, <2>3 DEF WithinLimits
    <2>4. CASE \E f \in Findings : /\ selected' = Append(selected, f)
                                   /\ Admissible(f, Chosen)
                                   /\ Cardinality(OfFile(Chosen, FileOf(f))) < FileCap
      <3>1. selected' \in Seq(Findings) /\ CapsHold'
        BY <2>1, <2>4, AppendKeepsCaps
      <3> QED
        BY <2>1, <2>2, <3>1 DEF WithinLimits
    <2> QED
      BY <1>3, <2>1, <2>3, <2>4, TurnTakesOne
  <1>4. CASE NextRound \/ StopFull \/ EndPublish \/ Sync \/ Publish \/ UNCHANGED vars
    <2>1. UNCHANGED <<kind, selected, candidates, pending>>
      BY <1>4 DEF NextRound, StopFull, EndPublish, Sync, Publish, choice, vars
    <2> QED
      BY <1>1, <2>1 DEF WithinLimits
  <1>5. CASE NextGroup
    <2>1. UNCHANGED <<kind, selected, candidates>>
      BY <1>5 DEF NextGroup
    <2>2. pending' = pending \/ pending' \subseteq candidates
      BY <1>5 DEF NextGroup, OfGroup
    <2> QED
      BY <1>1, <2>1, <2>2 DEF WithinLimits
  <1> QED
    BY <1>2, <1>3, <1>4, <1>5 DEF Next

\* No batch breaks a limit: neither the slots, nor the comments per file and per rule,
\* nor two comments about one rule in a file, whatever the groups, rounds and runs that
\* led to it (_select_batch_candidates).
THEOREM BatchesWithinLimits == Spec => []CapsHold
  <1>1. Spec => []WithinLimits
    BY InitWithinLimits, StepWithinLimits, PTL DEF Spec
  <1>2. WithinLimits => CapsHold
    BY DEF WithinLimits
  <1> QED
    BY <1>1, <1>2, PTL

-------------------------------------------------------------------------------
(***************************************************************************)
(* Types, and what the batch is made of: different candidates, of which    *)
(* those handled so far may have been sent or skipped.                     *)
(***************************************************************************)
HandledOnes == {selected[i] : i \in 1..handled}

BatchShape ==
  /\ \A i, j \in 1..Len(selected) : selected[i] = selected[j] => i = j
  /\ sent \cup skipped \subseteq HandledOnes
  /\ pc # "idle" => runs < MaxRuns
  /\ pc = "select" => /\ \A f \in candidates : ~Standing(f)
                      /\ turn \cup again \subseteq {FileOf(f) : f \in OfGroup(candidates, group)}

\* The columns of the comments of a batch and its counters.
Columns ==
  /\ kind \in [Findings -> [file : Files, rule : Rules, line : Lines \cup Findings, title : Titles]]
  /\ history \in [Findings -> AllHistories]
  /\ state \in [Findings -> {"eligible", "published", "suppressed", "failed_publication"}]
  /\ runs \in 0..MaxRuns /\ setbacks \in 0..MaxSetbacks

Choosing ==
  /\ pc \in {"idle", "select", "publish", "sync"}
  /\ group \in -1..2 /\ turn \cup again \subseteq Files
  /\ pending \subseteq candidates /\ candidates \subseteq Findings
  /\ selected \in Seq(candidates) /\ handled \in 0..Len(selected)

Outcome ==
  /\ sent \cup skipped \subseteq candidates /\ sent \cap skipped = {}
  /\ \A f \in sent \cup skipped : state[f] = "published"

LEMMA TypeParts == TypeOK <=> Columns /\ Choosing /\ Outcome
  <1>1. TypeOK => Columns /\ Choosing /\ Outcome
    BY DEF TypeOK, Columns, Choosing, Outcome
  <1>2. Columns /\ Choosing /\ Outcome => TypeOK
    BY DEF TypeOK, Columns, Choosing, Outcome
  <1> QED
    BY <1>1, <1>2

LEMMA Groups ==
  ASSUME NEW f
  PROVE  Group(f) \in {0, 1, 3} /\ (Group(f) = 3 => Standing(f))
  BY DEF Group, Standing

\* The next group is that of a candidate.
LEMMA NextGroupIsOf ==
  ASSUME NEW S, S # {}, \A f \in S : Group(f) \in {0, 1}
  PROVE  /\ Min({Group(f) : f \in S}) \in {0, 1}
         /\ \E g \in S : Min({Group(f) : f \in S}) = Group(g)
         /\ \A g \in S : Min({Group(f) : f \in S}) <= Group(g)
  <1> DEFINE G == {Group(f) : f \in S}
  <1>1. G \in SUBSET Nat /\ G # {} /\ G \subseteq {0, 1}
    OBVIOUS
  <1> HIDE DEF G
  <1>2. \E x \in G : \A y \in G : x <= y
    BY <1>1, LeastOf
  <1>3. Min(G) \in G /\ \A y \in G : Min(G) <= y
    BY <1>2 DEF Min
  <1> USE DEF G
  <1> QED
    BY <1>1, <1>3

\* The file whose turn it is has one.
LEMMA FirstHasTurn ==
  ASSUME candidates \subseteq Findings, turn # {},
         turn \subseteq {FileOf(f) : f \in OfGroup(candidates, group)}
  PROVE  FirstOf(turn) \in turn
  <1> DEFINE Mine(file) == OfFile(OfGroup(candidates, group), file)
             Best(file) == Min(Mine(file))
             Bests == {Best(file) : file \in turn}
  <1>1. ASSUME NEW file \in turn
        PROVE  Best(file) \in Nat
    <2>1. Mine(file) \in SUBSET Nat /\ Mine(file) # {}
      <3>1. Mine(file) \subseteq Findings
        BY DEF OfFile, OfGroup
      <3>2. Findings \subseteq Nat
        BY Limits DEF Findings
      <3>3. PICK f \in OfGroup(candidates, group) : FileOf(f) = file
        BY <1>1
      <3>4. f \in Mine(file)
        BY <3>3 DEF OfFile
      <3> QED
        BY <3>1, <3>2, <3>4
    <2> HIDE DEF Mine
    <2>2. \E x \in Mine(file) : \A y \in Mine(file) : x <= y
      BY <2>1, LeastOf
    <2>3. Best(file) \in Mine(file)
      BY <2>2 DEF Min
    <2> QED
      BY <2>1, <2>3
  <1> HIDE DEF Best
  <1>2. Bests \in SUBSET Nat /\ Bests # {}
    BY <1>1
  <1> HIDE DEF Bests
  <1>3. \E x \in Bests : \A y \in Bests : x <= y
    BY <1>2, LeastOf
  <1> USE DEF Bests
  <1>4. \E file \in turn : \A other \in turn : Best(file) <= Best(other)
    BY <1>3
  <1>5. \E file \in turn : \A other \in turn :
          Min(OfFile(OfGroup(candidates, group), file))
            <= Min(OfFile(OfGroup(candidates, group), other))
    BY <1>4 DEF Best
  <1> QED
    BY <1>5 DEF FirstOf

\* The turn of a file, and what it takes.
TurnOf(file, picks) ==
  /\ file \in turn /\ picks \subseteq Queue(file)
  /\ pending' = (pending \ Queue(file)) \cup Left(file, picks)
  /\ turn' = turn \ {file}
  /\ again' = IF Left(file, picks) # {} /\ Cardinality(OfFile(Chosen \cup picks, file)) < FileCap
              THEN again \cup {file} ELSE again
  /\ \/ /\ picks = {} /\ selected' = selected
        /\ \A g \in Queue(file) : ~Fits(g, Chosen)
     \/ \E f \in Queue(file) : /\ picks = {f} /\ selected' = Append(selected, f)
                               /\ f \in Findings /\ Fits(f, Chosen)
                               /\ \A g \in Queue(file) : g < f => ~Fits(g, Chosen)

LEMMA SelectedFindings ==
  ASSUME Choosing
  PROVE  selected \in Seq(Findings) /\ pending \subseteq Findings /\ Chosen \subseteq candidates
         /\ Chosen \subseteq Findings
  BY DEF Choosing, Chosen

LEMMA TurnIsOfOne ==
  ASSUME Choosing, BatchShape, TakeTurn
  PROVE  \E file, picks : TurnOf(file, picks)
  <1> DEFINE file == FirstOf(turn)
             picks == Picks(file)
  <1>1. /\ selected' = selected \o Ordered(picks)
        /\ pending' = (pending \ Queue(file)) \cup Left(file, picks)
        /\ turn' = turn \ {file}
        /\ again' = IF Left(file, picks) # {} /\ Cardinality(OfFile(Chosen \cup picks, file)) < FileCap
                    THEN again \cup {file} ELSE again
    BY DEF TakeTurn
  <1>2. file \in turn
    BY FirstHasTurn DEF Choosing, BatchShape, TakeTurn
  <1>3. picks \subseteq Queue(file)
    BY DEF Picks
  <1>4. selected \in Seq(Findings) /\ pending \subseteq Findings
    BY SelectedFindings
  <1>5. \/ /\ picks = {} /\ Ordered(picks) = <<>>
           /\ \A g \in Queue(file) : ~Fits(g, Chosen)
        \/ \E f \in Queue(file) : /\ picks = {f} /\ Ordered(picks) = <<f>>
                                  /\ f \in Findings /\ Fits(f, Chosen)
                                  /\ \A g \in Queue(file) : g < f => ~Fits(g, Chosen)
    BY <1>4, PicksBest
  <1> HIDE DEF picks, file
  <1>6. CASE /\ picks = {} /\ Ordered(picks) = <<>>
             /\ \A g \in Queue(file) : ~Fits(g, Chosen)
    <2>1. selected' = selected
      BY <1>1, <1>4, <1>6
    <2>2. TurnOf(file, picks)
      BY <1>1, <1>2, <1>3, <1>6, <2>1 DEF TurnOf
    <2> QED
      BY <2>2
  <1>7. ASSUME NEW f \in Queue(file), picks = {f}, Ordered(picks) = <<f>>, f \in Findings,
               Fits(f, Chosen), \A g \in Queue(file) : g < f => ~Fits(g, Chosen)
        PROVE  \E file2, picks2 : TurnOf(file2, picks2)
    <2>1. selected' = Append(selected, f)
      BY <1>1, <1>4, <1>7, AppendOne
    <2>2. TurnOf(file, picks)
      BY <1>1, <1>2, <1>3, <1>7, <2>1 DEF TurnOf
    <2> QED
      BY <2>2
  <1> QED
    BY <1>5, <1>6, <1>7

\* Its effect on queues and batch.
LEMMA TurnKeepsShape ==
  ASSUME Choosing, BatchShape, NEW file, NEW picks, TurnOf(file, picks), pc = "select",
         UNCHANGED <<kind, history, pc, candidates, group, handled, sent, skipped, runs>>
  PROVE  Choosing' /\ BatchShape'
  <1>1. turn' \cup again' \subseteq turn \cup again
    BY DEF TurnOf
  <1>2. pending' \subseteq pending
    BY DEF TurnOf, Left, Queue, OfFile
  <1>3. /\ selected' \in Seq(candidates) /\ Len(selected') \in Nat /\ Len(selected') >= Len(selected)
        /\ \A i \in 1..Len(selected) : selected'[i] = selected[i]
        /\ \A i, j \in 1..Len(selected') : selected'[i] = selected'[j] => i = j
    <2>1. selected \in Seq(candidates)
          /\ \A i, j \in 1..Len(selected) : selected[i] = selected[j] => i = j
      BY DEF Choosing, BatchShape
    <2>2. CASE selected' = selected
      BY <2>1, <2>2
    <2>3. ASSUME NEW f \in Queue(file), selected' = Append(selected, f), Fits(f, Chosen)
          PROVE  /\ selected' \in Seq(candidates) /\ Len(selected') \in Nat
                 /\ Len(selected') >= Len(selected)
                 /\ \A i \in 1..Len(selected) : selected'[i] = selected[i]
                 /\ \A i, j \in 1..Len(selected') : selected'[i] = selected'[j] => i = j
      <3>1. f \in candidates
        BY DEF Queue, OfFile, Choosing
      <3>2. f \notin Chosen
        BY <2>3 DEF Fits, Admissible, OfFile, OfRule
      <3>3. \A i \in 1..Len(selected) : selected[i] # f
        BY <3>2 DEF Chosen
      <3>4. Len(selected) \in Nat /\ Len(selected') = Len(selected) + 1
            /\ selected' \in Seq(candidates) /\ selected'[Len(selected) + 1] = f
            /\ \A i \in 1..Len(selected) : selected'[i] = selected[i]
        BY <2>1, <2>3, <3>1
      <3>5. ASSUME NEW i \in 1..Len(selected'), NEW j \in 1..Len(selected'),
                   selected'[i] = selected'[j]
            PROVE  i = j
        <4>1. i \in 1..Len(selected) \/ i = Len(selected) + 1
          BY <3>4
        <4>2. j \in 1..Len(selected) \/ j = Len(selected) + 1
          BY <3>4
        <4> QED
          BY <2>1, <3>3, <3>4, <3>5, <4>1, <4>2
      <3> QED
        BY <3>4, <3>5
    <2> QED
      BY <2>2, <2>3 DEF TurnOf
  <1>4. Choosing'
    <2>1. handled \in 0..Len(selected')
      BY <1>3 DEF Choosing
    <2> QED
      BY <1>1, <1>2, <1>3, <2>1 DEF Choosing
  <1>5. HandledOnes' = HandledOnes
    BY <1>3 DEF HandledOnes, Choosing
  <1>6. \A f \in candidates' : Standing(f)' <=> Standing(f)
    BY DEF Standing, Unchanged
  <1>7. {FileOf(f) : f \in OfGroup(candidates, group)}' = {FileOf(f) : f \in OfGroup(candidates, group)}
    BY DEF FileOf, OfGroup, Group, Standing, Unchanged
  <1>8. BatchShape'
    BY <1>1, <1>3, <1>5, <1>6, <1>7 DEF BatchShape
  <1> QED
    BY <1>4, <1>8

LEMMA PrepareKeepsShape ==
  ASSUME TypeOK, Prepare
  PROVE  TypeOK' /\ BatchShape'
  <1>1. PICK dropped \in SUBSET Findings :
          /\ setbacks + Cardinality(dropped) <= MaxSetbacks
          /\ setbacks' = setbacks + Cardinality(dropped)
          /\ candidates' \subseteq {f \in Findings \ dropped : ~HeldBack(f)}
          /\ state' \in [Findings -> {"suppressed", "published", "eligible"}]
    BY DEF Prepare
  <1>2. /\ runs < MaxRuns /\ pc' = "select" /\ selected' = <<>> /\ handled' = 0 /\ group' = -1
        /\ pending' = {} /\ turn' = {} /\ again' = {} /\ sent' = {} /\ skipped' = {}
        /\ kind' = kind /\ history' = history /\ runs' = runs
    BY DEF Prepare
  <1>3. setbacks' \in 0..MaxSetbacks
    <2>1. Cardinality(dropped) \in Nat
      BY SubsetsFinite
    <2>2. setbacks \in 0..MaxSetbacks /\ MaxSetbacks \in Nat
      BY BatchConstants DEF TypeOK
    <2> QED
      BY <1>1, <2>1, <2>2
  <1>4. Columns'
    BY <1>1, <1>2, <1>3 DEF TypeOK, Columns
  <1>5. Choosing'
    <2>1. candidates' \subseteq Findings
      BY <1>1
    <2>2. selected' \in Seq(candidates') /\ handled' \in 0..Len(selected')
      BY <1>2
    <2> QED
      BY <1>2, <2>1, <2>2 DEF Choosing
  <1>6. Outcome'
    BY <1>2 DEF Outcome
  <1>7. \A f \in candidates' : ~Standing(f)'
    BY <1>1, <1>2 DEF HeldBack, Standing, Unchanged
  <1>8. Len(selected') = 0
    BY <1>2
  <1>9. BatchShape'
    BY <1>2, <1>7, <1>8 DEF BatchShape
  <1> QED
    BY <1>4, <1>5, <1>6, <1>9, TypeParts, PTL

LEMMA NextGroupKeepsShape ==
  ASSUME TypeOK, BatchShape, NextGroup
  PROVE  TypeOK' /\ BatchShape'
  <1> DEFINE ahead == {f \in candidates : Group(f) > group}
  <1>1. /\ pc = "select" /\ turn = {} /\ again = {}
        /\ UNCHANGED <<kind, history, state, candidates, again, selected, handled, sent, skipped,
                       runs, setbacks>>
    BY DEF NextGroup
  <1>2. \A f \in candidates : Group(f) \in {0, 1}
    BY <1>1, Groups DEF BatchShape
  <1>3. \/ pc' = "publish" /\ UNCHANGED <<group, pending, turn>>
        \/ /\ ahead # {} /\ group' = Min({Group(f) : f \in ahead}) /\ pc' = pc
           /\ pending' = OfGroup(candidates, group') /\ turn' = {FileOf(f) : f \in pending'}
    BY DEF NextGroup
  <1>4. /\ \A f : Standing(f)' <=> Standing(f)
        /\ \A f : FileOf(f)' = FileOf(f)
        /\ HandledOnes' = HandledOnes
    BY <1>1 DEF Standing, Unchanged, FileOf, HandledOnes
  <1>5. CASE pc' = "publish" /\ UNCHANGED <<group, pending, turn>>
    <2>1. TypeOK'
      BY <1>1, <1>5 DEF TypeOK
    <2>2. BatchShape'
      BY <1>1, <1>4, <1>5 DEF BatchShape
    <2> QED
      BY <2>1, <2>2
  <1>6. CASE /\ ahead # {} /\ group' = Min({Group(f) : f \in ahead}) /\ pc' = pc
             /\ pending' = OfGroup(candidates, group') /\ turn' = {FileOf(f) : f \in pending'}
    <2>1. group' \in {0, 1}
      BY <1>2, <1>6, NextGroupIsOf
    <2>2. pending' \subseteq candidates
      BY <1>6 DEF OfGroup
    <2>3. turn' \subseteq Files
      <3>1. \A f \in candidates : FileOf(f) \in Files
        BY DEF TypeOK, FileOf
      <3> QED
        BY <1>6, <2>2, <3>1
    <2>4. TypeOK'
      <3>1. group' \in -1..2
        BY <2>1
      <3> QED
        BY <1>1, <1>6, <2>2, <2>3, <3>1 DEF TypeOK
    <2>5. OfGroup(candidates, group)' = OfGroup(candidates, group')
      BY <1>1 DEF OfGroup, Group, Standing, Unchanged
    <2>6. {FileOf(f) : f \in OfGroup(candidates, group)}' = {FileOf(f) : f \in pending'}
      BY <1>4, <1>6, <2>5
    <2>7. BatchShape'
      BY <1>1, <1>4, <1>6, <2>6 DEF BatchShape
    <2> QED
      BY <2>4, <2>7
  <1> QED
    BY <1>3, <1>5, <1>6

\* The finding whose turn it is to be published was neither sent nor skipped.
LEMMA PublishKeepsShape ==
  ASSUME TypeOK, BatchShape, Publish
  PROVE  TypeOK' /\ BatchShape'
  <1> DEFINE f == selected[handled + 1]
  <1>1. /\ pc = "publish" /\ handled < Len(selected) /\ handled' = handled + 1
        /\ UNCHANGED <<kind, pc, choice, runs>>
        /\ DropDuplicate(f) \/ Skip(f) \/ Send(f) \/ Refuse(f)
    BY DEF Publish
  <1>2. /\ Len(selected) \in Nat /\ handled \in 0..Len(selected) /\ handled' \in 1..Len(selected)
        /\ f \in candidates /\ f \in Findings
        /\ f \notin HandledOnes /\ HandledOnes' = HandledOnes \cup {f}
    <2>1. /\ Len(selected) \in Nat /\ handled \in 0..Len(selected)
          /\ selected \in Seq(candidates) /\ candidates \subseteq Findings
      BY DEF TypeOK
    <2>2. handled' \in 1..Len(selected) /\ handled' = handled + 1
      BY <1>1, <2>1
    <2>3. f \in candidates
      BY <2>1, <2>2
    <2>4. f \notin HandledOnes
      BY <2>1, <2>2 DEF HandledOnes, BatchShape
    <2>5. HandledOnes' = {selected[i] : i \in 1..handled + 1}
      BY <1>1 DEF HandledOnes, choice
    <2>6. 1..handled + 1 = 1..handled \cup {handled + 1}
      BY <2>1
    <2>7. HandledOnes' = HandledOnes \cup {f}
      BY <2>5, <2>6 DEF HandledOnes
    <2> QED
      BY <2>1, <2>2, <2>3, <2>4, <2>7
  <1>3. f \notin sent \cup skipped
    BY <1>2 DEF BatchShape
  <1> HIDE DEF f
  <1>4. history' \in [Findings -> AllHistories]
    <2>1. Tracked(f) \in AllHistories
      <3>1. history[f] \in AllHistories
        BY <1>2 DEF TypeOK
      <3> QED
        BY <3>1 DEF Tracked, AllHistories
    <2>2. history' = history \/ history' = [history EXCEPT ![f] = Tracked(f)]
      BY <1>1 DEF DropDuplicate, Skip, Send, Refuse
    <2> QED
      BY <2>1, <2>2 DEF TypeOK
  <1>5. PICK s \in {"published", "suppressed", "failed_publication"} :
          /\ state' = [state EXCEPT ![f] = s]
          /\ \/ sent' = sent /\ skipped' = skipped
             \/ s = "published" /\ sent' = sent \cup {f} /\ skipped' = skipped
             \/ s = "published" /\ sent' = sent /\ skipped' = skipped \cup {f}
    BY <1>1 DEF DropDuplicate, Skip, Send, Refuse
  <1>6. setbacks' \in 0..MaxSetbacks
    <2>1. MaxSetbacks \in Nat /\ setbacks \in 0..MaxSetbacks
      BY BatchConstants DEF TypeOK
    <2> QED
      BY <1>1, <2>1 DEF DropDuplicate, Skip, Send, Refuse
  <1>7. Columns'
    BY <1>1, <1>2, <1>4, <1>5, <1>6 DEF TypeOK, Columns
  <1>8. Choosing'
    BY <1>1, <1>2 DEF TypeOK, Choosing, choice
  <1>9. Outcome'
    <2>1. sent' \cup skipped' \subseteq candidates /\ sent' \cap skipped' = {}
      BY <1>2, <1>3, <1>5 DEF TypeOK
    <2>2. ASSUME NEW g \in sent' \cup skipped'
          PROVE  state'[g] = "published"
      <3>1. CASE g = f
        <4>1. s = "published"
          BY <1>3, <1>5, <2>2, <3>1
        <4> QED
          BY <1>2, <1>5, <3>1, <4>1 DEF TypeOK
      <3>2. CASE g # f
        <4>1. g \in sent \cup skipped
          BY <1>5, <2>2, <3>2
        <4> QED
          BY <1>5, <3>2, <4>1 DEF TypeOK
      <3> QED
        BY <3>1, <3>2
    <2> QED
      BY <1>1, <2>1, <2>2 DEF Outcome, choice
  <1>10. BatchShape'
    BY <1>1, <1>2, <1>5 DEF BatchShape, choice
  <1> QED
    BY <1>7, <1>8, <1>9, <1>10, TypeParts, PTL

\* Columns and local data of the phases have the values the code gives them, and
\* what was sent or skipped counts as published and keeps doing so.
LEMMA BatchShaped == Spec => [](TypeOK /\ BatchShape)
<1>1. Init => TypeOK /\ BatchShape
  <2> SUFFICES ASSUME Init PROVE TypeOK /\ BatchShape
    OBVIOUS
  <2>1. 0 \in 0..MaxRuns /\ 0 \in 0..MaxSetbacks /\ -1 \in -1..2
    BY BatchConstants
  <2>2. history \in [Findings -> AllHistories]
    BY BatchConstants DEF Init
  <2>3. selected \in Seq(candidates) /\ Len(selected) = 0
    BY DEF Init
  <2>4. TypeOK
    BY <2>1, <2>2, <2>3 DEF Init, TypeOK
  <2>5. BatchShape
    BY <2>3 DEF Init, BatchShape
  <2> QED
    BY <2>4, <2>5
<1>2. TypeOK /\ BatchShape /\ [Next]_vars => TypeOK' /\ BatchShape'
  <2> SUFFICES ASSUME TypeOK, BatchShape, [Next]_vars PROVE TypeOK' /\ BatchShape'
    OBVIOUS
  <2>1. CASE Prepare
    BY <2>1, PrepareKeepsShape
  <2>2. CASE TakeTurn
    <3>1. /\ pc = "select" /\ Choosing
          /\ UNCHANGED <<kind, history, state, pc, candidates, group, handled, sent, skipped, runs,
                         setbacks>>
      BY <2>2, TypeParts DEF TakeTurn
    <3>2. Choosing' /\ BatchShape'
      BY <2>2, <3>1, TurnIsOfOne, TurnKeepsShape
    <3>3. Columns' /\ Outcome'
      BY <3>1 DEF TypeOK, Columns, Outcome
    <3> QED
      BY <3>2, <3>3, TypeParts, PTL
  <2>3. CASE NextGroup
    BY <2>3, NextGroupKeepsShape
  <2>4. CASE Publish
    BY <2>4, PublishKeepsShape
  <2>5. CASE NextRound \/ StopFull \/ EndPublish \/ UNCHANGED vars
    <3>1. /\ turn' \cup again' = turn \cup again /\ pc' \in {pc, "publish", "sync"}
          /\ pc' = "select" => pc = "select"
          /\ pc = "idle" => pc' = "idle"
          /\ UNCHANGED <<kind, history, state, candidates, group, pending, selected, handled, sent,
                         skipped, runs, setbacks>>
      BY <2>5 DEF NextRound, StopFull, EndPublish, vars, choice
    <3>2. TypeOK'
      BY <3>1 DEF TypeOK
    <3>3. /\ \A f : Standing(f)' <=> Standing(f)
          /\ OfGroup(candidates, group)' = OfGroup(candidates, group)
          /\ \A f : FileOf(f)' = FileOf(f)
          /\ HandledOnes' = HandledOnes
      BY <3>1 DEF Standing, Unchanged, OfGroup, Group, FileOf, HandledOnes
    <3>4. {FileOf(f) : f \in OfGroup(candidates, group)}'
            = {FileOf(f) : f \in OfGroup(candidates, group)}
      BY <3>3
    <3>5. pc' # "idle" => pc # "idle"
      BY <3>1
    <3>6. BatchShape'
      BY <3>1, <3>3, <3>4, <3>5 DEF BatchShape
    <3> QED
      BY <3>2, <3>6
  <2>6. CASE Sync
    <3>1. /\ pc = "sync" /\ pc' = "idle" /\ runs' = runs + 1
          /\ UNCHANGED <<kind, state, candidates, group, pending, turn, again, selected, handled,
                         sent, skipped, setbacks>>
      BY <2>6 DEF Sync, choice
    <3>2. runs' \in 0..MaxRuns
      <4>1. runs \in 0..MaxRuns /\ MaxRuns \in Nat /\ runs < MaxRuns
        BY <3>1, BatchConstants DEF TypeOK, BatchShape
      <4> QED
        BY <3>1, <4>1
    <3>3. history' \in [Findings -> AllHistories]
      <4>1. \A f \in Findings : /\ history[f] \in AllHistories
                                /\ [history[f] EXCEPT !.thread = "resolved"] \in AllHistories
        BY DEF TypeOK, AllHistories
      <4> QED
        BY <2>6, <4>1 DEF Sync
    <3>4. TypeOK'
      BY <3>1, <3>2, <3>3 DEF TypeOK
    <3>5. BatchShape'
      BY <3>1 DEF BatchShape, HandledOnes
    <3> QED
      BY <3>4, <3>5
  <2> QED
    BY <2>1, <2>2, <2>3, <2>4, <2>5, <2>6 DEF Next
<1> QED
  BY <1>1, <1>2, PTL DEF Spec

\* Columns, queues and local data keep their types, and what was sent or skipped counts
\* as published, through preparation, selection, publication and sync.
THEOREM BatchTypes == Spec => []TypeOK
BY BatchShaped, PTL

-------------------------------------------------------------------------------
(***************************************************************************)
(* One comment on a line and category.                                     *)
(***************************************************************************)
\* Candidates of one spot have one key, and of one key one was sent.
SpotsKept ==
  /\ \A f, g \in candidates : Spot(f) = Spot(g) => PublicationKey(f) = PublicationKey(g)
  /\ \A f, g \in sent : PublicationKey(f) = PublicationKey(g) => f = g

LEMMA TwoKeys ==
  ASSUME NEW S, IsFiniteSet(S), NEW a \in S, NEW b \in S, a # b
  PROVE  Cardinality(S) > 1
  <1>1. IsFiniteSet({a}) /\ Cardinality({a}) = 1
    BY FS_Singleton
  <1>2. IsFiniteSet({a} \cup {b}) /\ Cardinality({a} \cup {b}) = 2
    <2>1. b \notin {a}
      OBVIOUS
    <2>2. Cardinality({a} \cup {b}) = Cardinality({a}) + 1 /\ IsFiniteSet({a} \cup {b})
      BY <1>1, <2>1, FS_AddElement, Zenon
    <2> QED
      BY <1>1, <2>2
  <1>3. ({a} \cup {b}) \in SUBSET S
    OBVIOUS
  <1>4. Cardinality({a} \cup {b}) <= Cardinality(S) /\ Cardinality(S) \in Nat
    BY <1>3, FS_Subset, FS_CardinalityType
  <1> QED
    BY <1>2, <1>4

\* Of two candidates with one spot and two keys one is outdone.
LEMMA OneIsOutdone ==
  ASSUME NEW live \in SUBSET Findings, NEW f \in live, NEW g \in live,
         Spot(f) = Spot(g), PublicationKey(f) # PublicationKey(g)
  PROVE  Outdone(f, live) \/ Outdone(g, live)
  <1> DEFINE rivals == {h \in live : Spot(h) = Spot(f)}
             keys == {PublicationKey(h) : h \in rivals}
  <1>1. IsFiniteSet(keys)
    <2>1. rivals \in SUBSET Findings
      OBVIOUS
    <2>2. IsFiniteSet(rivals)
      BY <2>1, SubsetsFinite
    <2>3. [h \in rivals |-> PublicationKey(h)] \in Surjection(rivals, keys)
      BY DEF Surjection
    <2> QED
      BY <2>2, <2>3, FS_Surjection
  <1>2. f \in rivals /\ g \in rivals /\ PublicationKey(f) \in keys /\ PublicationKey(g) \in keys
    OBVIOUS
  <1>3. Cardinality(keys) > 1
    BY <1>1, <1>2, TwoKeys
  <1>4. Better(f, g) \/ Better(g, f)
    <2>1. Group(f) \in Int /\ Group(g) \in Int /\ f \in Int /\ g \in Int /\ f # g
      BY Groups, Limits DEF Findings
    <2> QED
      BY <2>1 DEF Better
  <1>5. {h \in live : Spot(h) = Spot(g)} = rivals
    OBVIOUS
  <1> QED
    BY <1>2, <1>3, <1>4, <1>5 DEF Outdone

LEMMA SentAreSeen ==
  ASSUME BatchShape, Choosing, NEW g \in sent
  PROVE  PublicationKey(g) \in SeenKeys
  BY DEF BatchShape, HandledOnes, SeenKeys

\* One run comments on a line and category once: what differs in title is dropped
\* before the selection, what does not in the publish loop, whatever past the findings
\* have and whatever is refused (_select_publish_candidates, the loop of publish).
THEOREM OneCommentEach == Spec => []OneCommentPerSpot
<1>1. Init => SpotsKept
  BY DEF Init, SpotsKept
<1>2. /\ TypeOK /\ BatchShape /\ SpotsKept /\ [Next]_vars
      => SpotsKept'
  <2> SUFFICES ASSUME TypeOK, BatchShape, SpotsKept, [Next]_vars PROVE SpotsKept'
    OBVIOUS
  <2>1. kind' = kind /\ \A f : Spot(f)' = Spot(f) /\ PublicationKey(f)' = PublicationKey(f)
    <3>1. kind' = kind
      BY DEF Next, Prepare, TakeTurn, NextRound, NextGroup, StopFull, Publish, EndPublish, Sync, vars
    <3> QED
      BY <3>1 DEF Spot, PublicationKey
  <2>2. CASE UNCHANGED <<candidates, sent>>
    BY <2>1, <2>2 DEF SpotsKept
  <2>3. CASE Prepare
    <3>1. PICK dropped \in SUBSET Findings :
            candidates' = {f \in {h \in Findings \ dropped : ~HeldBack(h)} :
                             ~Outdone(f, {g \in Findings \ dropped : ~HeldBack(g)})}
      BY <2>3 DEF Prepare
    <3>2. sent' = {}
      BY <2>3 DEF Prepare
    <3> DEFINE live == {g \in Findings \ dropped : ~HeldBack(g)}
    <3>3. live \in SUBSET Findings /\ \A f \in candidates' : f \in live /\ ~Outdone(f, live)
      BY <3>1
    <3> HIDE DEF live
    <3>4. \A f, g \in candidates' : Spot(f) = Spot(g) => PublicationKey(f) = PublicationKey(g)
      BY <3>3, OneIsOutdone
    <3> QED
      BY <2>1, <3>2, <3>4 DEF SpotsKept
  <2>4. CASE Publish
    <3> DEFINE f == selected[handled + 1]
    <3>1. candidates' = candidates /\ (sent' = sent \/ (sent' = sent \cup {f} /\ PublicationKey(f) \notin SeenKeys))
      BY <2>4 DEF Publish, choice, DropDuplicate, Skip, Send, Refuse
    <3> HIDE DEF f
    <3>2. \A g \in sent : PublicationKey(g) \in SeenKeys
      BY SentAreSeen, TypeParts
    <3> QED
      BY <2>1, <3>1, <3>2 DEF SpotsKept
  <2>5. Prepare \/ Publish \/ UNCHANGED <<candidates, sent>>
    BY DEF Next, TakeTurn, NextRound, NextGroup, StopFull, EndPublish, Sync, vars, choice
  <2> QED
    BY <2>2, <2>3, <2>4, <2>5
<1>3. TypeOK /\ SpotsKept => OneCommentPerSpot
  BY DEF TypeOK, SpotsKept, OneCommentPerSpot
<1> QED
  BY <1>1, <1>2, <1>3, BatchShaped, PTL DEF Spec

-------------------------------------------------------------------------------
(***************************************************************************)
(* The selection loop, from the side of those it leaves out.               *)
(***************************************************************************)
Taken(file) == Cardinality(OfFile(OfGroup(Chosen, group), file))

Full(file) == Cardinality(OfFile(Chosen, file)) >= FileCap

\* Everybody in the batch comes from a group tried so far, and who is not in the
\* batch although his group was tried did not fit when his file dropped him, is
\* still in a queue, or is in the queue of a file that has all it may have.
LeftOut ==
  /\ \A f \in Chosen : Group(f) <= group
  /\ \A f \in pending : f \notin Chosen /\ Group(f) = group
  /\ \A f \in candidates \ Chosen :
       Group(f) <= group /\ f \notin pending => ~Fits(f, Rated(Group(f)))
  /\ \A f \in pending : FileOf(f) \in turn \cup again \/ Full(FileOf(f))

\* In round k + 1 the files to come have k comments of the group, those that came
\* and come again k + 1, and no file has more.
EvenRounds ==
  \E k \in Nat : /\ \A file \in turn : Taken(file) = k
                 /\ \A file \in again : Taken(file) = k + 1
                 /\ \A file \in Files : Taken(file) <= k + 1

Loop ==
  /\ pc = "select" \/ BatchChosen => LeftOut /\ EvenRounds
  /\ BatchChosen => \/ BatchFull
                    \/ turn = {} /\ again = {} /\ \A f \in candidates : Group(f) <= group

\* What does not fit a batch does not fit a larger one.
LEMMA FitsShrinks ==
  ASSUME NEW T \in SUBSET Findings, NEW S \in SUBSET T, NEW f, ~Fits(f, S)
  PROVE  ~Fits(f, T)
  <1>1. /\ OfFile(S, FileOf(f)) \subseteq OfFile(T, FileOf(f))
        /\ OfRule(S, RuleOf(f)) \subseteq OfRule(T, RuleOf(f))
        /\ OfRule(OfFile(S, FileOf(f)), RuleOf(f)) \subseteq OfRule(OfFile(T, FileOf(f)), RuleOf(f))
    BY DEF OfFile, OfRule
  <1>2. ASSUME NEW B \in SUBSET Findings, NEW A \in SUBSET B
        PROVE  Cardinality(A) <= Cardinality(B) /\ Cardinality(A) \in Nat /\ Cardinality(B) \in Nat
    BY SubsetsFinite, FS_Subset
  <1>3. OfFile(T, FileOf(f)) \in SUBSET Findings /\ OfRule(T, RuleOf(f)) \in SUBSET Findings
    BY DEF OfFile, OfRule
  <1>4. /\ Cardinality(OfFile(S, FileOf(f))) <= Cardinality(OfFile(T, FileOf(f)))
        /\ Cardinality(OfFile(S, FileOf(f))) \in Nat /\ Cardinality(OfFile(T, FileOf(f))) \in Nat
    BY <1>1, <1>2, <1>3
  <1>5. /\ Cardinality(OfRule(S, RuleOf(f))) <= Cardinality(OfRule(T, RuleOf(f)))
        /\ Cardinality(OfRule(S, RuleOf(f))) \in Nat /\ Cardinality(OfRule(T, RuleOf(f))) \in Nat
    BY <1>1, <1>2, <1>3
  <1> DEFINE cs == Cardinality(OfFile(S, FileOf(f)))
             ct == Cardinality(OfFile(T, FileOf(f)))
             rs == Cardinality(OfRule(S, RuleOf(f)))
             rt == Cardinality(OfRule(T, RuleOf(f)))
  <1>6. CASE OfRule(OfFile(S, FileOf(f)), RuleOf(f)) # {}
    BY <1>1, <1>6 DEF Fits, Admissible
  <1>7. CASE ~(rs < RuleCap)
    <2>1. ~(rt < RuleCap)
      <3> HIDE DEF rs, rt
      <3>1. rs <= rt /\ rs \in Nat /\ rt \in Nat
        BY <1>5 DEF rs, rt
      <3> QED
        BY <1>7, <3>1, Limits
    <2> QED
      BY <2>1 DEF Fits, Admissible
  <1>8. CASE ~(cs < FileCap)
    <2>1. ~(ct < FileCap)
      <3> HIDE DEF cs, ct
      <3>1. cs <= ct /\ cs \in Nat /\ ct \in Nat
        BY <1>4 DEF cs, ct
      <3> QED
        BY <1>8, <3>1, Limits
    <2> QED
      BY <2>1 DEF Fits
  <1> QED
    BY <1>6, <1>7, <1>8 DEF Fits, Admissible

\* Who is left out when the group ends, or the batch is full, has a reason.
LEMMA LeftOutForAReason ==
  ASSUME Choosing, LeftOut, turn = {}, again = {}, NEW f \in candidates \ Chosen,
         Group(f) <= group
  PROVE  ~Fits(f, Rated(Group(f)))
  <1>1. CASE f \notin pending
    BY <1>1 DEF LeftOut
  <1>2. CASE f \in pending
    <2>1. Full(FileOf(f)) /\ Group(f) = group
      BY <1>2 DEF LeftOut
    <2>2. Rated(Group(f)) = Chosen
      BY <2>1 DEF Rated, LeftOut
    <2>3. Cardinality(OfFile(Chosen, FileOf(f))) \in Nat
      <3>1. OfFile(Chosen, FileOf(f)) \in SUBSET Findings
        BY SelectedFindings DEF OfFile
      <3> QED
        BY <3>1, SubsetsFinite
    <2>4. ~(Cardinality(OfFile(Chosen, FileOf(f))) < FileCap)
      BY <2>1, <2>3, Limits DEF Full
    <2> QED
      BY <2>2, <2>4 DEF Fits
  <1> QED
    BY <1>1, <1>2

LEMMA TurnLeavesOut ==
  ASSUME Choosing, LeftOut, NEW file, NEW picks, TurnOf(file, picks),
         UNCHANGED <<kind, history, candidates, group>>
  PROVE  LeftOut'
  <1>1. /\ Chosen' = Chosen \cup picks /\ picks \subseteq Queue(file) /\ Queue(file) \subseteq pending
        /\ Chosen \cup picks \subseteq Findings
    <2>1. selected \in Seq(Findings) /\ pending \subseteq Findings /\ Chosen \subseteq Findings
      BY SelectedFindings
    <2>2. Queue(file) \subseteq pending
      BY DEF Queue, OfFile
    <2>3. CASE picks = {} /\ selected' = selected
      BY <2>1, <2>2, <2>3 DEF Chosen
    <2>4. ASSUME NEW f \in Queue(file), picks = {f}, selected' = Append(selected, f)
          PROVE  /\ Chosen' = Chosen \cup picks /\ picks \subseteq Queue(file)
                 /\ Queue(file) \subseteq pending /\ Chosen \cup picks \subseteq Findings
      BY <2>1, <2>2, <2>4 DEF Chosen
    <2> QED
      BY <2>3, <2>4 DEF TurnOf
  <1>2. /\ \A g : Group(g)' = Group(g) /\ FileOf(g)' = FileOf(g)
        /\ \A g, S : Fits(g, S)' <=> Fits(g, S)
    <2>1. kind' = kind /\ history' = history
      OBVIOUS
    <2>2. \A g : Group(g)' = Group(g) /\ FileOf(g)' = FileOf(g) /\ RuleOf(g)' = RuleOf(g)
      BY <2>1, Zenon DEF Group, Standing, Unchanged, FileOf, RuleOf
    <2>3. \A S, x : OfFile(S, x)' = OfFile(S, x) /\ OfRule(S, x)' = OfRule(S, x)
      BY <2>2 DEF OfFile, OfRule
    <2>4. \A g, S : Fits(g, S)' <=> Fits(g, S)
      BY <2>2, <2>3, Zenon DEF Fits, Admissible
    <2> QED
      BY <2>2, <2>4
  <1>3. \A g \in Queue(file) : FileOf(g) = file
    BY DEF Queue, OfFile
  <1>4. ASSUME NEW g \in Chosen' PROVE Group(g)' <= group'
    <2>1. group \in Int
      BY DEF Choosing
    <2> QED
      BY <1>1, <1>2, <2>1 DEF LeftOut
  <1>5. ASSUME NEW g \in pending'
        PROVE  g \in pending /\ g \notin picks /\ (g \in Queue(file) => g \in Left(file, picks))
    <2>1. g \in (pending \ Queue(file)) \/ g \in Left(file, picks)
      BY <1>5 DEF TurnOf
    <2>2. CASE g \in pending \ Queue(file)
      BY <1>1, <2>2
    <2>3. CASE g \in Left(file, picks)
      <3>1. g \in Queue(file) /\ \E f \in picks : g > f
        BY <2>3 DEF Left
      <3>2. PICK f \in picks : g > f
        BY <3>1
      <3>3. picks = {f}
        BY <3>2 DEF TurnOf
      <3>4. g \in Nat /\ f \in Nat
        BY <1>1, <3>1, SelectedFindings, Limits DEF Findings
      <3> QED
        BY <1>1, <2>3, <3>1, <3>2, <3>3, <3>4
    <2> QED
      BY <2>1, <2>2, <2>3
  <1>6. ASSUME NEW g \in pending' PROVE g \notin Chosen' /\ Group(g)' = group'
    BY <1>1, <1>2, <1>5, <1>6 DEF LeftOut
  <1>7. ASSUME NEW g \in candidates' \ Chosen', Group(g)' <= group', g \notin pending'
        PROVE  ~Fits(g, Rated(Group(g)))'
    <2>1. g \in candidates \ Chosen /\ Group(g) <= group /\ g \notin picks
      BY <1>1, <1>2, <1>7
    <2>2. Rated(Group(g))' = {f \in Chosen \cup picks : Group(f) <= Group(g)}
      BY <1>1, <1>2 DEF Rated
    <2>3. Rated(Group(g))' \in SUBSET Findings
      BY <1>1, <2>2
    <2>4. \E S \in SUBSET Rated(Group(g))' : ~Fits(g, S)
      <3>1. CASE g \notin pending
        <4>1. ~Fits(g, Rated(Group(g)))
          BY <2>1, <3>1 DEF LeftOut
        <4>2. Rated(Group(g)) \subseteq Rated(Group(g))'
          BY <2>2 DEF Rated
        <4> QED
          BY <4>1, <4>2
      <3>2. CASE g \in pending
        <4>1. g \in Queue(file) /\ g \notin Left(file, picks)
          BY <1>7, <3>2 DEF TurnOf
        <4>2. ~Fits(g, Chosen)
          <5>1. CASE picks = {}
            BY <4>1, <5>1 DEF TurnOf
          <5>2. CASE picks # {}
            <6>1. PICK f \in Queue(file) : picks = {f} /\ \A h \in Queue(file) : h < f => ~Fits(h, Chosen)
              BY <5>2 DEF TurnOf
            <6>2. ~(g > f) /\ g # f
              BY <2>1, <4>1, <6>1 DEF Left
            <6>3. g \in Nat /\ f \in Nat
              BY <1>1, <4>1, SelectedFindings, Limits DEF Findings
            <6>4. g < f
              BY <6>2, <6>3
            <6> QED
              BY <4>1, <6>1, <6>4
          <5> QED
            BY <5>1, <5>2
        <4>3. Chosen \subseteq Rated(Group(g))'
          <5>1. Group(g) = group
            BY <3>2 DEF LeftOut
          <5> QED
            BY <2>2, <5>1 DEF LeftOut
        <4> QED
          BY <4>2, <4>3
      <3> QED
        BY <3>1, <3>2
    <2>5. ~Fits(g, Rated(Group(g))')
      BY <2>3, <2>4, FitsShrinks
    <2>6. Fits(g, Rated(Group(g)))' <=> Fits(g, Rated(Group(g))')
      BY <1>2
    <2> QED
      BY <2>5, <2>6, Zenon
  <1>8. ASSUME NEW g \in pending', ~(FileOf(g)' \in turn' \cup again')
        PROVE  Full(FileOf(g))'
    <2>1. g \in pending /\ (g \in Queue(file) => g \in Left(file, picks))
      BY <1>5, <1>8
    <2>2. Full(FileOf(g))' <=> Cardinality(OfFile(Chosen \cup picks, FileOf(g))) >= FileCap
      <3>1. OfFile(Chosen, FileOf(g))' = OfFile(Chosen \cup picks, FileOf(g))
        BY <1>1, <1>2 DEF OfFile
      <3>2. Cardinality(OfFile(Chosen, FileOf(g)))' = Cardinality(OfFile(Chosen \cup picks, FileOf(g)))
        BY <3>1, Zenon
      <3> QED
        BY <3>2 DEF Full
    <2>3. /\ Cardinality(OfFile(Chosen \cup picks, FileOf(g))) \in Nat
          /\ Cardinality(OfFile(Chosen, FileOf(g))) \in Nat
          /\ Cardinality(OfFile(Chosen, FileOf(g))) <= Cardinality(OfFile(Chosen \cup picks, FileOf(g)))
      <3>1. OfFile(Chosen \cup picks, FileOf(g)) \in SUBSET Findings
            /\ OfFile(Chosen, FileOf(g)) \in SUBSET OfFile(Chosen \cup picks, FileOf(g))
        BY <1>1 DEF OfFile
      <3> QED
        BY <3>1, SubsetsFinite, FS_Subset
    <2>4. CASE FileOf(g) = file
      <3>1. Left(file, picks) # {}
        BY <2>1, <2>4 DEF Queue, OfFile
      <3>2. file \notin again'
        BY <1>2, <1>8, <2>4
      <3>3. ~(Cardinality(OfFile(Chosen \cup picks, file)) < FileCap)
        BY <3>1, <3>2 DEF TurnOf
      <3> QED
        BY <2>2, <2>3, <2>4, <3>3, Limits
    <2>5. CASE FileOf(g) # file
      <3>1. FileOf(g) \notin turn \cup again
        BY <1>2, <1>8, <2>5 DEF TurnOf
      <3>2. Full(FileOf(g))
        BY <2>1, <3>1 DEF LeftOut
      <3> QED
        BY <2>2, <2>3, <3>2, Limits DEF Full
    <2> QED
      BY <2>4, <2>5
  <1> QED
    BY <1>4, <1>6, <1>7, <1>8 DEF LeftOut

LEMMA TurnKeepsRounds ==
  ASSUME Choosing, LeftOut, EvenRounds, NEW file, NEW picks, TurnOf(file, picks),
         UNCHANGED <<kind, history, group>>
  PROVE  EvenRounds'
  <1>1. PICK k \in Nat : /\ \A x \in turn : Taken(x) = k
                         /\ \A x \in again : Taken(x) = k + 1
                         /\ \A x \in Files : Taken(x) <= k + 1
    BY DEF EvenRounds
  <1>2. \A g : Group(g)' = Group(g) /\ FileOf(g)' = FileOf(g)
    BY DEF Group, Standing, Unchanged, FileOf
  <1>3. selected \in Seq(Findings) /\ pending \subseteq Findings /\ Chosen \subseteq Findings
    BY SelectedFindings
  <1>4. file \in turn /\ turn' = turn \ {file} /\ again' \subseteq again \cup {file}
    BY DEF TurnOf
  <1>5. CASE picks = {}
    <2>1. selected' = selected
      BY <1>5 DEF TurnOf
    <2>2. again' = again
      BY <1>5 DEF TurnOf, Left
    <2>3. \A x : OfFile(OfGroup(Chosen, group), x)' = OfFile(OfGroup(Chosen, group), x)
      BY <1>2, <2>1 DEF OfFile, OfGroup, Chosen
    <2>4. \A x : Taken(x)' = Taken(x)
      BY <2>3, Zenon DEF Taken
    <2> QED
      BY <1>1, <1>4, <2>2, <2>4 DEF EvenRounds
  <1>6. CASE picks # {}
    <2>1. PICK f \in Queue(file) : picks = {f} /\ selected' = Append(selected, f) /\ f \in Findings
      BY <1>6 DEF TurnOf
    <2>2. f \in pending /\ FileOf(f) = file /\ f \notin Chosen /\ Group(f) = group
      BY DEF Queue, OfFile, LeftOut
    <2>3. Chosen' = Chosen \cup {f}
      BY <1>3, <2>1 DEF Chosen
    <2>4. OfGroup(Chosen, group)' = OfGroup(Chosen, group) \cup {f}
      BY <1>2, <2>2, <2>3 DEF OfGroup
    <2>5. \A x : OfFile(OfGroup(Chosen, group), x)' = OfFile(OfGroup(Chosen, group) \cup {f}, x)
      BY <1>2, <2>4 DEF OfFile
    <2>6. \A x : Taken(x)' = Cardinality(OfFile(OfGroup(Chosen, group) \cup {f}, x))
      BY <2>5, Zenon DEF Taken
    <2>7. OfGroup(Chosen, group) \in SUBSET Findings /\ f \notin OfGroup(Chosen, group)
      BY <1>3, <2>2 DEF OfGroup
    <2>8. ASSUME NEW x
          PROVE  /\ x = file => Taken(x)' = Taken(x) + 1
                 /\ x # file => Taken(x)' = Taken(x)
      BY <2>1, <2>2, <2>6, <2>7, OneMoreOfFile DEF Taken
    <2>9. Taken(file)' = k + 1 /\ file \notin again
      BY <1>1, <1>4, <2>8
    <2>10. \A x \in turn' : Taken(x)' = k
      BY <1>1, <1>4, <2>8
    <2>11. \A x \in again' : Taken(x)' = k + 1
      BY <1>1, <1>4, <2>8, <2>9
    <2>12. \A x \in Files : Taken(x)' <= k + 1
      BY <1>1, <2>8, <2>9
    <2> QED
      BY <2>10, <2>11, <2>12 DEF EvenRounds
  <1> QED
    BY <1>5, <1>6

LEMMA GroupStartsLeavingOut ==
  ASSUME TypeOK, BatchShape, LeftOut, turn = {}, again = {}, pc = "select",
         UNCHANGED <<kind, history, candidates, again, selected>>,
         NEW ahead, ahead = {f \in candidates : Group(f) > group}, ahead # {},
         group' = Min({Group(f) : f \in ahead}),
         pending' = OfGroup(candidates, group'), turn' = {FileOf(f) : f \in pending'}
  PROVE  LeftOut' /\ EvenRounds'
  <1>1. /\ \A g : Group(g)' = Group(g) /\ FileOf(g)' = FileOf(g)
        /\ \A g, S : Fits(g, S)' <=> Fits(g, S)
        /\ Chosen' = Chosen
    <2>1. kind' = kind /\ history' = history /\ selected' = selected
      OBVIOUS
    <2>2. \A g : Group(g)' = Group(g) /\ FileOf(g)' = FileOf(g) /\ RuleOf(g)' = RuleOf(g)
      BY <2>1, Zenon DEF Group, Standing, Unchanged, FileOf, RuleOf
    <2>3. \A S, x : OfFile(S, x)' = OfFile(S, x) /\ OfRule(S, x)' = OfRule(S, x)
      BY <2>2 DEF OfFile, OfRule
    <2>4. \A g, S : Fits(g, S)' <=> Fits(g, S)
      BY <2>2, <2>3, Zenon DEF Fits, Admissible
    <2> QED
      BY <2>1, <2>2, <2>4 DEF Chosen
  <1>2. group \in Int /\ \A g : Group(g) \in Int
    BY Groups DEF TypeOK
  <1>3. \A g \in ahead : Group(g) \in {0, 1}
    BY Groups DEF BatchShape
  <1>4. /\ group' \in Int /\ group' > group
        /\ \A g \in ahead : group' <= Group(g)
    <2>1. /\ group' \in {0, 1} /\ \E g \in ahead : group' = Group(g)
          /\ \A g \in ahead : group' <= Group(g)
      BY <1>3, NextGroupIsOf, Zenon
    <2>2. \A g \in ahead : Group(g) > group
      OBVIOUS
    <2> QED
      BY <2>1, <2>2
  <1>5. \A g \in Chosen : Group(g) < group'
    BY <1>2, <1>4 DEF LeftOut
  <1>6. \A g \in pending' : Group(g) = group' /\ g \notin Chosen
    BY <1>4, <1>5 DEF OfGroup
  <1>7. ASSUME NEW g \in candidates \ Chosen, Group(g) <= group', g \notin pending'
        PROVE  ~Fits(g, Rated(Group(g)))'
    <2>1. Group(g) # group'
      BY <1>7 DEF OfGroup
    <2>2. g \notin ahead
      BY <1>2, <1>4, <1>7, <2>1
    <2>3. Group(g) <= group
      BY <1>2, <2>2
    <2>4. ~Fits(g, Rated(Group(g)))
      BY <2>3, LeftOutForAReason, TypeParts
    <2>5. Rated(Group(g))' = Rated(Group(g))
      BY <1>1 DEF Rated
    <2>6. Fits(g, Rated(Group(g)))' <=> Fits(g, Rated(Group(g)))
      BY <1>1, <2>5
    <2> QED
      BY <2>4, <2>6, Zenon
  <1>8. LeftOut'
    <2>1. \A g \in Chosen' : Group(g)' <= group'
      BY <1>1, <1>2, <1>4, <1>5
    <2>2. \A g \in pending' : g \notin Chosen' /\ Group(g)' = group'
      BY <1>1, <1>6
    <2>3. \A g \in pending' : FileOf(g)' \in turn'
      BY <1>1
    <2>4. \A g \in candidates' \ Chosen' :
            Group(g)' <= group' /\ g \notin pending' => ~Fits(g, Rated(Group(g)))'
      BY <1>1, <1>7
    <2> QED
      BY <2>1, <2>2, <2>3, <2>4 DEF LeftOut
  <1>9. EvenRounds'
    <2>1. OfGroup(Chosen, group)' = {}
      BY <1>1, <1>2, <1>4, <1>5 DEF OfGroup
    <2>2. \A x : OfFile(OfGroup(Chosen, group), x)' = {}
      BY <2>1 DEF OfFile
    <2>3. \A x : Taken(x)' = 0
      BY <2>2, FS_EmptySet, Zenon DEF Taken
    <2> QED
      BY <2>3 DEF EvenRounds
  <1> QED
    BY <1>8, <1>9

NothingChosen ==
  /\ candidates \subseteq Findings /\ selected = <<>> /\ pending = {}
  /\ turn = {} /\ again = {} /\ group = -1

LEMMA NothingLeftOutYet == NothingChosen => LeftOut /\ EvenRounds
  <1> SUFFICES ASSUME NothingChosen PROVE LeftOut /\ EvenRounds
    OBVIOUS
  <1> USE DEF NothingChosen
  <1>1. Chosen = {}
    BY DEF Chosen
  <1>2. ASSUME NEW f PROVE ~(Group(f) <= group)
    <2>1. Group(f) \in {0, 1, 3}
      BY Groups
    <2> QED
      BY <2>1
  <1>3. LeftOut
    BY <1>1, <1>2 DEF LeftOut
  <1>4. \A x : OfFile(OfGroup(Chosen, group), x) = {}
    BY <1>1 DEF OfFile, OfGroup
  <1>5. \A x : Taken(x) = 0
    BY <1>4, FS_EmptySet, Zenon DEF Taken
  <1> QED
    BY <1>3, <1>5 DEF EvenRounds

LEMMA LoopStep == TypeOK /\ BatchShape /\ Loop /\ [Next]_vars => Loop'
<1> SUFFICES ASSUME TypeOK, BatchShape, Loop, [Next]_vars PROVE Loop'
  OBVIOUS
<1>1. CASE Prepare
  <2>1. /\ pc' = "select" /\ group' = -1 /\ pending' = {} /\ turn' = {} /\ again' = {}
        /\ selected' = <<>> /\ candidates' \subseteq Findings
    BY <1>1 DEF Prepare
  <2>2. NothingChosen'
    BY <2>1 DEF NothingChosen
  <2>3. LeftOut' /\ EvenRounds'
    BY <2>2, NothingLeftOutYet, PTL
  <2> QED
    BY <2>1, <2>3 DEF Loop, BatchChosen
<1>2. CASE TakeTurn
  <2>1. /\ pc = "select" /\ pc' = pc /\ Choosing /\ LeftOut /\ EvenRounds
        /\ UNCHANGED <<kind, history, candidates, group>>
    BY <1>2, TypeParts DEF TakeTurn, Loop
  <2>2. LeftOut' /\ EvenRounds'
    BY <1>2, <2>1, TurnIsOfOne, TurnLeavesOut, TurnKeepsRounds
  <2> QED
    BY <2>1, <2>2 DEF Loop, BatchChosen
<1>3. ASSUME UNCHANGED <<kind, history, candidates, group, pending, selected>>
      PROVE  /\ \A x : Taken(x)' = Taken(x)
             /\ Chosen' = Chosen /\ (BatchFull' <=> BatchFull)
             /\ (turn' \cup again' = turn \cup again) => (LeftOut' <=> LeftOut)
             /\ (\A f \in candidates : Group(f) <= group)' <=> \A f \in candidates : Group(f) <= group
  <2>1. /\ \A g : Group(g)' = Group(g) /\ FileOf(g)' = FileOf(g) /\ RuleOf(g)' = RuleOf(g)
        /\ Chosen' = Chosen
    BY <1>3, Zenon DEF Group, Standing, Unchanged, FileOf, RuleOf, Chosen
  <2>2. \A S, x : /\ OfFile(S, x)' = OfFile(S, x) /\ OfRule(S, x)' = OfRule(S, x)
                  /\ OfGroup(S, x)' = OfGroup(S, x)
    BY <2>1 DEF OfFile, OfRule, OfGroup
  <2>3. /\ \A g, S : Fits(g, S)' <=> Fits(g, S)
        /\ \A x : Full(x)' <=> Full(x)
        /\ \A x : Taken(x)' = Taken(x)
    BY <1>3, <2>1, <2>2, Zenon DEF Fits, Admissible, Full, Taken
  <2>4. \A g : Rated(Group(g))' = Rated(Group(g))
    BY <2>1 DEF Rated
  <2>5. \A g : Fits(g, Rated(Group(g)))' <=> Fits(g, Rated(Group(g)))
    BY <2>3, <2>4, Zenon
  <2>6. (turn' \cup again' = turn \cup again) => (LeftOut' <=> LeftOut)
    BY <1>3, <2>1, <2>3, <2>5, Zenon DEF LeftOut
  <2>7. BatchFull' <=> BatchFull
    BY <1>3 DEF BatchFull
  <2> QED
    BY <1>3, <2>1, <2>3, <2>6, <2>7
<1>4. CASE NextRound
  <2>1. /\ pc = "select" /\ pc' = pc /\ turn' = again /\ again' = {} /\ turn = {}
        /\ UNCHANGED <<kind, history, candidates, group, pending, selected>>
        /\ LeftOut /\ EvenRounds
    BY <1>4 DEF NextRound, Loop
  <2>2. LeftOut'
    BY <1>3, <2>1
  <2>3. PICK k \in Nat : /\ \A file \in again : Taken(file) = k + 1
                         /\ \A file \in Files : Taken(file) <= k + 1
    BY <2>1 DEF EvenRounds
  <2>4. \A file \in Files : Taken(file) \in Nat
    <3>1. \A file : OfFile(OfGroup(Chosen, group), file) \in SUBSET Findings
      BY SelectedFindings, TypeParts DEF OfFile, OfGroup
    <3> QED
      BY <3>1, SubsetsFinite DEF Taken
  <2>5. EvenRounds'
    <3>1. /\ \A file \in turn' : Taken(file)' = k + 1
          /\ \A file \in Files : Taken(file)' <= (k + 1) + 1
      BY <1>3, <2>1, <2>3, <2>4
    <3>2. k + 1 \in Nat
      OBVIOUS
    <3> QED
      BY <2>1, <3>1, <3>2 DEF EvenRounds
  <2> QED
    BY <2>1, <2>2, <2>5 DEF Loop, BatchChosen
<1>5. ASSUME UNCHANGED <<kind, history, candidates, group, pending, selected, turn, again>>,
             pc = "select" \/ BatchChosen,
             BatchChosen' => BatchFull \/ (turn = {} /\ again = {} /\ \A f \in candidates : Group(f) <= group)
      PROVE  Loop'
  <2>1. LeftOut /\ EvenRounds
    BY <1>5 DEF Loop
  <2>2. LeftOut' /\ EvenRounds'
    BY <1>3, <1>5, <2>1 DEF EvenRounds
  <2>3. BatchChosen' => (BatchFull \/ (turn = {} /\ again = {} /\ \A f \in candidates : Group(f) <= group))'
    BY <1>3, <1>5
  <2> QED
    BY <2>2, <2>3 DEF Loop
<1>6. CASE NextGroup
  <2> DEFINE ahead == {f \in candidates : Group(f) > group}
  <2>1. /\ pc = "select" /\ turn = {} /\ again = {} /\ LeftOut
        /\ UNCHANGED <<kind, history, candidates, again, selected>>
    BY <1>6 DEF NextGroup, Loop
  <2>2. CASE ahead = {}
    <3>1. UNCHANGED <<kind, history, candidates, group, pending, selected, turn, again>>
      BY <1>6, <2>2 DEF NextGroup
    <3>2. \A f \in candidates : Group(f) <= group
      <4>1. group \in Int /\ \A g : Group(g) \in Int
        BY Groups DEF TypeOK
      <4> QED
        BY <2>2, <4>1
    <3> QED
      BY <1>5, <2>1, <3>1, <3>2
  <2>3. CASE ahead # {}
    <3>1. /\ group' = Min({Group(f) : f \in ahead}) /\ pc' = pc
          /\ pending' = OfGroup(candidates, group') /\ turn' = {FileOf(f) : f \in pending'}
      BY <1>6, <2>3 DEF NextGroup
    <3>2. LeftOut' /\ EvenRounds'
      BY <2>1, <2>3, <3>1, GroupStartsLeavingOut
    <3> QED
      BY <2>1, <3>1, <3>2 DEF Loop, BatchChosen
  <2> QED
    BY <2>2, <2>3
<1>7. CASE StopFull
  BY <1>5, <1>7 DEF StopFull, choice
<1>8. CASE UNCHANGED vars
  <2>1. /\ UNCHANGED <<kind, history, candidates, group, pending, selected, turn, again>>
        /\ pc' = pc /\ (BatchChosen' <=> BatchChosen)
    BY <1>8 DEF vars, choice, BatchChosen
  <2>2. CASE pc = "select" \/ BatchChosen
    BY <1>5, <2>1, <2>2 DEF Loop
  <2>3. CASE ~(pc = "select" \/ BatchChosen)
    BY <2>1, <2>3 DEF Loop
  <2> QED
    BY <2>2, <2>3
<1>9. CASE Publish \/ EndPublish \/ Sync
  <2>1. pc' # "select" /\ ~BatchChosen'
    BY <1>9 DEF Publish, EndPublish, Sync, BatchChosen, TypeOK
  <2> QED
    BY <2>1 DEF Loop
<1> QED
  BY <1>1, <1>2, <1>4, <1>6, <1>7, <1>8, <1>9 DEF Next

LEMMA LoopHolds == Spec => []Loop
<1>1. Init => Loop
  BY DEF Init, Loop, BatchChosen
<1> QED
  BY <1>1, LoopStep, BatchShaped, PTL DEF Spec

\* A candidate is left out of a batch only for what candidates of its own or a better
\* priority group took: the slots, or its room under a limit of its file or rule
\* (_select_batch_candidates, over all its groups and rounds).
THEOREM SlotsAreUsed == Spec => []NoSlotWasted
<1>1. TypeOK /\ Loop /\ CapsHold => NoSlotWasted
  <2> SUFFICES ASSUME TypeOK, Loop, CapsHold, BatchChosen, NEW f \in Waiting,
                      Fits(f, Rated(Group(f)))
               PROVE  Cardinality(Rated(Group(f))) >= BatchSize
    BY DEF NoSlotWasted
  <2>1. /\ LeftOut /\ Choosing /\ f \in candidates \ Chosen
        /\ BatchFull \/ (turn = {} /\ again = {} /\ \A g \in candidates : Group(g) <= group)
    BY TypeParts DEF Loop, Waiting
  <2>2. BatchFull
    BY <2>1, LeftOutForAReason
  <2>3. ~(Group(f) < group)
    <3>1. group \in Int /\ Group(f) \in Int
      BY Groups DEF TypeOK
    <3> QED
      BY <2>1, <3>1 DEF LeftOut
  <2>4. Rated(Group(f)) = Chosen
    <3>1. group \in Int /\ \A g : Group(g) \in Int
      BY Groups DEF TypeOK
    <3> QED
      BY <2>1, <2>3, <3>1 DEF Rated, LeftOut
  <2>5. Cardinality(Chosen) = Len(selected)
    BY DEF CapsHold
  <2> QED
    BY <2>2, <2>4, <2>5 DEF BatchFull
<1> QED
  BY <1>1, BatchShaped, LoopHolds, BatchesWithinLimits, PTL

\* Within a group no file gets two comments more than a file that still has a candidate
\* the limits would admit (the rounds of _select_batch_candidates).
THEOREM FilesTakeTurns == Spec => []NoFileMonopolises
<1>1. TypeOK /\ Loop => NoFileMonopolises
  <2> SUFFICES ASSUME TypeOK, Loop, BatchChosen, NEW f \in Waiting, Fits(f, Chosen),
                      NEW file \in Files
               PROVE  Cardinality(OfFile(OfGroup(Chosen, Group(f)), file))
                        <= Cardinality(OfFile(OfGroup(Chosen, Group(f)), FileOf(f))) + 1
    BY DEF NoFileMonopolises
  <2>1. LeftOut /\ EvenRounds /\ Choosing /\ f \in candidates \ Chosen
    BY TypeParts DEF Loop, Waiting
  <2>2. group \in Int /\ \A g : Group(g) \in Int
    BY Groups DEF TypeOK
  <2>3. CASE Group(f) > group
    <3>1. OfGroup(Chosen, Group(f)) = {}
      BY <2>1, <2>2, <2>3 DEF OfGroup, LeftOut
    <3>2. \A x : OfFile(OfGroup(Chosen, Group(f)), x) = {}
      BY <3>1 DEF OfFile
    <3>3. \A x : Cardinality(OfFile(OfGroup(Chosen, Group(f)), x)) = 0
      BY <3>2, FS_EmptySet, Zenon
    <3> QED
      BY <3>3
  <2>4. CASE ~(Group(f) > group)
    <3>1. f \in pending
      <4>1. Chosen \in SUBSET Findings /\ Rated(Group(f)) \in SUBSET Chosen
        BY <2>1, SelectedFindings DEF Rated
      <4>2. Fits(f, Rated(Group(f)))
        BY <4>1, FitsShrinks
      <4> QED
        BY <2>1, <2>2, <2>4, <4>2 DEF LeftOut
    <3>2. Group(f) = group /\ FileOf(f) \in turn \cup again
      <4>1. Cardinality(OfFile(Chosen, FileOf(f))) \in Nat
        <5>1. OfFile(Chosen, FileOf(f)) \in SUBSET Findings
          BY <2>1, SelectedFindings DEF OfFile
        <5> QED
          BY <5>1, SubsetsFinite
      <4>2. ~Full(FileOf(f))
        BY <4>1, Limits DEF Full, Fits
      <4> QED
        BY <2>1, <3>1, <4>2 DEF LeftOut
    <3>3. PICK k \in Nat : /\ \A x \in turn : Taken(x) = k
                           /\ \A x \in again : Taken(x) = k + 1
                           /\ \A x \in Files : Taken(x) <= k + 1
      BY <2>1 DEF EvenRounds
    <3>4. Taken(FileOf(f)) \in {k, k + 1} /\ Taken(file) <= k + 1
      BY <3>2, <3>3
    <3>5. Taken(file) \in Nat
      <4>1. OfFile(OfGroup(Chosen, group), file) \in SUBSET Findings
        BY <2>1, SelectedFindings DEF OfFile, OfGroup
      <4> QED
        BY <4>1, SubsetsFinite DEF Taken
    <3>6. Taken(file) <= Taken(FileOf(f)) + 1
      BY <3>4, <3>5
    <3> QED
      BY <3>2, <3>6 DEF Taken
  <2> QED
    BY <2>3, <2>4
<1> QED
  BY <1>1, BatchShaped, LoopHolds, PTL
-------------------------------------------------------------------------------
(***************************************************************************)
(* The backlog over the runs.                                              *)
(***************************************************************************)
\* The diff stands still: no open thread has an anchor that moved under the same
\* body, and the settings are the code's defaults (an unchanged finding that a
\* person resolved is not brought up again).
DiffStands == ~Resurface /\ \A h \in Histories : ~(h.thread = "open" /\ h.change = "anchor")

Done == {f \in Findings : HeldBack(f)}

AllDone == Done = Findings

\* As many findings are done, or setbacks used up, as runs have passed, and "more".
Ahead(more) == AllDone \/ Cardinality(Done) + setbacks >= runs + more

\* The candidates of a batch nothing was published of are not done.  A run gets one
\* ahead when it drops a draft, and otherwise has candidates and gets one ahead with
\* the first it publishes.
Drains ==
  /\ \A f \in Findings : ~(history[f].thread = "open" /\ history[f].change = "anchor")
  /\ pc = "select" => handled = 0
  /\ pc = "select" \/ BatchChosen =>
       /\ \A f \in candidates : ~HeldBack(f)
       /\ Ahead(0) /\ (Ahead(1) \/ candidates # {})
  /\ pc = "publish" /\ handled > 0 => Ahead(1)
  /\ pc = "sync" => Ahead(1)
  /\ pc = "idle" => Ahead(0)

LEMMA DoneCounts ==
  ASSUME NEW S \in SUBSET Findings, NEW T \in SUBSET Findings, S \subseteq T
  PROVE  /\ Cardinality(S) \in Nat /\ Cardinality(T) \in Nat
         /\ Cardinality(S) <= Cardinality(T)
         /\ Cardinality(S) >= NumFindings => S = Findings
         /\ \A f \in T \ S : Cardinality(T) >= Cardinality(S) + 1
<1>1. /\ IsFiniteSet(S) /\ IsFiniteSet(T) /\ IsFiniteSet(Findings)
      /\ Cardinality(S) \in Nat /\ Cardinality(T) \in Nat
  BY SubsetsFinite
<1>2. Cardinality(S) <= Cardinality(T)
  BY <1>1, FS_Subset
<1>3. Cardinality(S) >= NumFindings => S = Findings
  <2>1. Cardinality(Findings) = NumFindings
    BY Limits, FS_Interval, 1 \in Int, NumFindings \in Int DEF Findings
  <2>2. /\ Cardinality(S) <= Cardinality(Findings)
        /\ Cardinality(Findings) = Cardinality(S) => S = Findings
    BY <1>1, FS_Subset
  <2> QED
    BY <1>1, <2>1, <2>2, Limits
<1>4. ASSUME NEW f \in T \ S PROVE Cardinality(T) >= Cardinality(S) + 1
  <2>1. S \cup {f} \subseteq T /\ f \in Findings /\ f \notin S
    BY <1>4
  <2>2. Cardinality(S \cup {f}) = Cardinality(S) + 1
    BY <2>1, OneMore
  <2>3. Cardinality(S \cup {f}) <= Cardinality(T)
    BY <1>1, <2>1, FS_Subset
  <2> QED
    BY <2>2, <2>3
<1> QED
  BY <1>1, <1>2, <1>3, <1>4

\* The best of some findings.
LEMMA BestOf ==
  ASSUME NEW S \in SUBSET Findings, S # {}
  PROVE  \E f \in S : \A g \in S : ~Better(g, f)
<1> DEFINE G == {Group(f) : f \in S}
<1>1. G \in SUBSET Nat /\ G # {}
  BY Groups
<1>2. PICK m \in G : \A x \in G : m <= x
  BY <1>1, LeastOf
<1>3. OfGroup(S, m) \in SUBSET Nat /\ OfGroup(S, m) # {}
  BY <1>2, Limits DEF OfGroup, Findings
<1>4. PICK f \in OfGroup(S, m) : \A g \in OfGroup(S, m) : f <= g
  BY <1>3, LeastOf
<1>5. f \in S /\ Group(f) = m
  BY <1>4 DEF OfGroup
<1>6. ASSUME NEW g \in S, Better(g, f) PROVE FALSE
  <2>1. Group(g) \in Int /\ m \in Int /\ m <= Group(g) /\ g \in Int /\ f \in Int
    BY <1>1, <1>2, <1>3, <1>4, Limits DEF Findings
  <2>2. Group(g) = m /\ g < f
    BY <1>5, <1>6, <2>1 DEF Better
  <2>3. f <= g
    BY <1>4, <2>2 DEF OfGroup
  <2> QED
    BY <2>1, <2>2, <2>3
<1> QED
  BY <1>5, <1>6

\* What is done stays done, and who was ahead stays so.
LEMMA StaysAhead ==
  ASSUME TypeOK, TypeOK', Done \subseteq Done', NEW more \in {0, 1},
         runs' = runs, setbacks' >= setbacks, Ahead(more)
  PROVE  Ahead(more)'
<1>1. /\ Cardinality(Done) \in Nat /\ Cardinality(Done)' \in Nat
      /\ Cardinality(Done) <= Cardinality(Done)'
  BY DoneCounts DEF Done
<1>2. runs \in Int /\ setbacks \in Int /\ setbacks' \in Int
  BY DEF TypeOK
<1>3. AllDone => AllDone'
  BY DEF AllDone, Done
<1> QED
  BY <1>1, <1>2, <1>3 DEF Ahead

LEMMA PrepareDrains ==
  ASSUME TypeOK, TypeOK', DiffStands, Drains, Prepare
  PROVE  Drains'
<1>1. /\ pc = "idle" /\ pc' = "select" /\ handled' = 0
      /\ kind' = kind /\ history' = history /\ runs' = runs
  BY DEF Prepare
<1>2. \A f : (HeldBack(f) <=> HeldBack(f)') /\ Spot(f)' = Spot(f)
  BY <1>1 DEF HeldBack, Standing, Unchanged, Spot
<1>3. Done' = Done /\ Ahead(0)
  BY <1>1, <1>2 DEF Done, Drains
<1>4. PICK out \in SUBSET Findings :
        /\ setbacks' = setbacks + Cardinality(out)
        /\ candidates' = {f \in Findings \ out : ~HeldBack(f)}
             \ {f \in {g \in Findings \ out : ~HeldBack(g)} :
                  Outdone(f, {g \in Findings \ out : ~HeldBack(g)})}
  BY DEF Prepare
<1>5. /\ Cardinality(out) \in Nat /\ setbacks \in Nat /\ runs \in Nat
      /\ Cardinality(Done) \in Nat
  BY SubsetsFinite DEF TypeOK, Done
<1>6. \A f \in candidates' : ~HeldBack(f)'
  BY <1>2, <1>4
<1>7. Ahead(0)'
  BY <1>1, <1>3, <1>4, <1>5 DEF Ahead, AllDone
<1>8. Ahead(1)' \/ candidates' # {}
  <2>1. CASE out # {}
    <3>1. Cardinality(out) # 0
      BY <2>1, SubsetsFinite, FS_EmptySet
    <3>2. setbacks' >= setbacks + 1
      BY <1>4, <1>5, <3>1
    <3> QED
      BY <1>1, <1>3, <1>4, <1>5, <3>2 DEF Ahead, AllDone
  <2>2. CASE out = {} /\ Findings \ Done # {}
    <3> DEFINE live == {f \in Findings \ out : ~HeldBack(f)}
    <3>1. live = Findings \ Done
      BY <2>2 DEF Done
    <3>2. PICK f \in live : \A g \in live : ~Better(g, f)
      BY <2>2, <3>1, BestOf
    <3>3. ~Outdone(f, live)
      BY <3>2 DEF Outdone
    <3> QED
      BY <1>4, <3>2, <3>3
  <2>3. CASE Findings \ Done = {}
    <3>1. AllDone'
      BY <1>3, <2>3 DEF AllDone, Done
    <3> QED
      BY <3>1 DEF Ahead
  <2> QED
    BY <2>1, <2>2, <2>3
<1>9. \A f \in Findings : ~(history'[f].thread = "open" /\ history'[f].change = "anchor")
  BY <1>1 DEF Drains
<1> QED
  BY <1>1, <1>6, <1>7, <1>8, <1>9 DEF Drains, BatchChosen

\* The first of a batch is published or a setback; the others lose nothing.
LEMMA PublishDrains ==
  ASSUME TypeOK, TypeOK', Drains, Publish
  PROVE  Drains'
<1> PICK f : f = selected[handled + 1]
  OBVIOUS
<1>1. /\ pc = "publish" /\ pc' = "publish" /\ handled < Len(selected) /\ handled' = handled + 1
      /\ runs' = runs /\ kind' = kind
      /\ DropDuplicate(f) \/ Skip(f) \/ Send(f) \/ Refuse(f)
  BY DEF Publish, choice
<1>2. handled \in Nat /\ f \in candidates /\ f \in Findings /\ setbacks \in Nat /\ runs \in Nat
  BY <1>1 DEF TypeOK
<1>3. /\ setbacks' >= setbacks
      /\ \A g \in Findings : \/ history'[g] = history[g]
                             \/ g = f /\ history'[g] = Tracked(g)
      /\ \A g \in Findings : g # f => history'[g] = history[g]
  <2>1. CASE Send(f)
    BY <1>2, <2>1 DEF Send, TypeOK
  <2>2. CASE DropDuplicate(f) \/ Skip(f) \/ Refuse(f)
    BY <1>2, <2>2 DEF DropDuplicate, Skip, Refuse
  <2> QED
    BY <1>1, <2>1, <2>2
<1>4. \A g \in Findings : Tracked(g).thread = "open" /\ Tracked(g).change = "none"
  BY DEF Tracked, TypeOK, AllHistories
<1>5. \A g \in Findings : HeldBack(g) => HeldBack(g)'
  BY <1>3, <1>4 DEF HeldBack, Standing, Unchanged
<1>6. Done \subseteq Done'
  BY <1>5 DEF Done
<1>7. \A g \in Findings : ~(history'[g].thread = "open" /\ history'[g].change = "anchor")
  BY <1>3, <1>4 DEF Drains
<1>8. Ahead(1)'
  <2>1. CASE handled > 0
    <3>1. Ahead(1)
      BY <1>1, <2>1 DEF Drains
    <3> QED
      BY <1>1, <1>3, <1>6, <3>1, StaysAhead
  <2>2. CASE handled = 0
    <3>1. Ahead(0) /\ ~HeldBack(f)
      BY <1>1, <1>2, <2>2 DEF Drains, BatchChosen
    <3>2. SeenKeys = {} /\ ~SaysTheSame(f)
      <4>1. 1..handled = {}
        BY <2>2
      <4>2. history[f].change \in {"none", "anchor", "body"}
        BY <1>2 DEF TypeOK, AllHistories
      <4> QED
        BY <1>2, <3>1, <4>1, <4>2 DEF SeenKeys, SaysTheSame, HeldBack, Standing, Unchanged, Drains
    <3>3. CASE Send(f)
      <4>1. history'[f] = Tracked(f) /\ setbacks' = setbacks
        BY <1>2, <3>3 DEF Send, TypeOK
      <4>2. HeldBack(f)'
        BY <1>2, <1>4, <4>1 DEF HeldBack, Standing, Unchanged
      <4>3. f \in Done' \ Done
        BY <1>2, <3>1, <4>2 DEF Done
      <4>4. /\ Cardinality(Done) \in Nat /\ Cardinality(Done)' \in Nat
            /\ Cardinality(Done)' >= Cardinality(Done) + 1
        BY <1>6, <4>3, DoneCounts DEF Done
      <4>5. ~AllDone
        BY <4>3, <1>2 DEF AllDone
      <4> QED
        BY <1>1, <1>2, <3>1, <4>1, <4>4, <4>5 DEF Ahead
    <3>4. CASE Refuse(f)
      <4>1. history' = history /\ setbacks' = setbacks + 1
        BY <3>4 DEF Refuse
      <4>2. Done' = Done
        BY <4>1 DEF Done, HeldBack, Standing, Unchanged
      <4>3. Cardinality(Done) \in Nat
        BY SubsetsFinite DEF Done
      <4> QED
        BY <1>1, <1>2, <3>1, <4>1, <4>2, <4>3 DEF Ahead, AllDone
    <3> QED
      BY <1>1, <3>2, <3>3, <3>4 DEF DropDuplicate, Skip
  <2> QED
    BY <1>2, <2>1, <2>2
<1> QED
  BY <1>1, <1>2, <1>7, <1>8 DEF Drains, BatchChosen

\* A batch of candidates has at least one of them.
LEMMA BatchIsNotEmpty ==
  ASSUME TypeOK, BatchChosen, NoSlotWasted, candidates # {}
  PROVE  Len(selected) > 0
<1> SUFFICES ASSUME ~(Len(selected) > 0) PROVE FALSE
  OBVIOUS
<1>1. 1..Len(selected) = {}
  BY DEF TypeOK
<1>2. Chosen = {} /\ \A p : Rated(p) = {}
  BY <1>1 DEF Chosen, Rated
<1>3. PICK f \in Waiting : TRUE
  BY <1>2 DEF Waiting
<1>4. /\ Cardinality({}) = 0
      /\ OfRule(OfFile({}, FileOf(f)), RuleOf(f)) = {}
      /\ OfRule({}, RuleOf(f)) = {} /\ OfFile({}, FileOf(f)) = {}
  BY FS_EmptySet DEF OfRule, OfFile
<1>5. Fits(f, {})
  BY <1>4, Limits DEF Fits, Admissible
<1>6. Cardinality(Rated(Group(f))) >= BatchSize \/ ~Fits(f, Rated(Group(f)))
  BY <1>3 DEF NoSlotWasted
<1>7. Rated(Group(f)) = {}
  BY <1>2
<1> QED
  BY <1>4, <1>5, <1>6, <1>7, Limits

LEMMA StepDrains ==
  ASSUME TypeOK, TypeOK', NoSlotWasted, DiffStands, Drains, [Next]_vars
  PROVE  Drains'
<1>1. CASE Prepare
  BY <1>1, PrepareDrains
<1>2. ASSUME pc = "select", pc' \in {"select", "publish"}, handled' = handled, runs' = runs,
             kind' = kind, history' = history, candidates' = candidates, setbacks' = setbacks
      PROVE  Drains'
  <2>1. handled' = 0 /\ (\A f \in candidates : ~HeldBack(f)) /\ Ahead(0)
    BY <1>2 DEF Drains
  <2>2. \A f : HeldBack(f)' <=> HeldBack(f)
    BY <1>2 DEF HeldBack, Standing, Unchanged
  <2>3. Done' = Done
    BY <2>2 DEF Done
  <2>4. Ahead(0)' /\ (Ahead(1)' \/ candidates' # {})
    BY <1>2, <2>3 DEF Ahead, AllDone, Drains
  <2> QED
    BY <1>2, <2>1, <2>2, <2>4 DEF Drains
<1>3. CASE TakeTurn \/ NextRound \/ NextGroup \/ StopFull
  <2>1. /\ pc = "select" /\ pc' \in {"select", "publish"} /\ handled' = handled /\ runs' = runs
        /\ kind' = kind /\ history' = history /\ candidates' = candidates
        /\ setbacks' = setbacks
    <3>1. CASE TakeTurn
      BY <3>1 DEF TakeTurn
    <3>2. CASE NextRound
      BY <3>2 DEF NextRound
    <3>3. CASE NextGroup
      <4>1. pc' = "publish" \/ pc' = pc
        BY <3>3 DEF NextGroup
      <4> QED
        BY <3>3, <4>1 DEF NextGroup
    <3>4. CASE StopFull
      BY <3>4 DEF StopFull, choice
    <3> QED
      BY <1>3, <3>1, <3>2, <3>3, <3>4
  <2> QED
    BY <1>2, <2>1
<1>4. CASE Publish
  BY <1>4, PublishDrains
<1>5. CASE EndPublish
  <2>1. /\ pc = "publish" /\ handled = Len(selected) /\ pc' = "sync"
        /\ history' = history /\ setbacks' = setbacks /\ runs' = runs
    BY <1>5 DEF EndPublish
  <2>2. Ahead(1)
    <3>1. CASE handled = 0
      <4>1. BatchChosen
        BY <2>1, <3>1 DEF BatchChosen
      <4>2. candidates = {}
        BY <2>1, <3>1, <4>1, BatchIsNotEmpty
      <4> QED
        BY <4>1, <4>2 DEF Drains
    <3>2. CASE handled # 0
      BY <2>1, <3>2 DEF Drains, TypeOK
    <3> QED
      BY <3>1, <3>2
  <2>3. Ahead(1)'
    BY <2>1, <2>2 DEF Ahead, AllDone, Done, HeldBack, Standing, Unchanged
  <2> QED
    BY <2>1, <2>3 DEF Drains, BatchChosen
<1>6. CASE Sync
  <2>1. /\ pc = "sync" /\ pc' = "idle" /\ runs' = runs + 1 /\ setbacks' = setbacks
        /\ \A f \in Findings :
             \/ history'[f] = history[f]
             \/ IsOpen(f) /\ history'[f] = [history[f] EXCEPT !.thread = "resolved"]
    BY <1>6 DEF Sync
  <2>2. \A f \in Findings : history[f] \in AllHistories
    BY DEF TypeOK
  <2>3. ASSUME NEW f \in Findings, HeldBack(f) PROVE HeldBack(f)'
    <3>1. CASE history'[f] = history[f]
      BY <2>3, <3>1 DEF HeldBack, Standing, Unchanged
    <3>2. CASE history'[f] = [history[f] EXCEPT !.thread = "resolved"] /\ IsOpen(f)
      <4>1. /\ history'[f].thread = "resolved" /\ history'[f].change = history[f].change
            /\ history'[f].later = history[f].later
        BY <2>2, <3>2 DEF AllHistories
      <4>2. history[f].later \/ history[f].change = "none"
        BY <2>3, <3>2 DEF HeldBack, Standing, Unchanged, IsOpen
      <4> QED
        BY <4>1, <4>2 DEF HeldBack, Unchanged, DiffStands
    <3> QED
      BY <2>1, <3>1, <3>2
  <2>4. Done \subseteq Done'
    BY <2>3 DEF Done
  <2>5. /\ Cardinality(Done) \in Nat /\ Cardinality(Done)' \in Nat
        /\ Cardinality(Done) <= Cardinality(Done)'
    BY <2>4, DoneCounts DEF Done
  <2>6. Ahead(1) /\ runs \in Nat /\ setbacks \in Nat
    BY <2>1 DEF Drains, TypeOK
  <2>7. AllDone => AllDone'
    BY <2>4 DEF AllDone, Done
  <2>8. Ahead(0)'
    BY <2>1, <2>5, <2>6, <2>7 DEF Ahead
  <2>9. \A f \in Findings : ~(history'[f].thread = "open" /\ history'[f].change = "anchor")
    BY <2>1, <2>2 DEF Drains, AllHistories
  <2> QED
    BY <2>1, <2>8, <2>9 DEF Drains, BatchChosen
<1>7. CASE UNCHANGED vars
  <2>1. /\ history' = history /\ pc' = pc /\ handled' = handled /\ candidates' = candidates
        /\ setbacks' = setbacks /\ runs' = runs
    BY <1>7 DEF vars, choice
  <2>2. (\A f : HeldBack(f)' <=> HeldBack(f)) /\ (BatchChosen' <=> BatchChosen)
    BY <2>1 DEF HeldBack, Standing, Unchanged, BatchChosen
  <2>3. Done' = Done
    BY <2>2 DEF Done
  <2>4. (Ahead(0)' <=> Ahead(0)) /\ (Ahead(1)' <=> Ahead(1))
    BY <2>1, <2>3 DEF Ahead, AllDone
  <2> QED
    BY <2>1, <2>2, <2>4 DEF Drains
<1> QED
  BY <1>1, <1>3, <1>4, <1>5, <1>6, <1>7 DEF Next

\* While the diff stands still the backlog drains: every run gets one finding further or
\* meets a setback, so that after as many runs as there are findings and setbacks no
\* finding waits for a slot (what the publish phases of the runs do together).
THEOREM BacklogsDrain == DiffStands => (Spec => []BacklogDrains)
<1> SUFFICES ASSUME DiffStands PROVE Spec => []BacklogDrains
  OBVIOUS
<1>1. Init => Drains
  <2> SUFFICES ASSUME Init PROVE Drains
    OBVIOUS
  <2>1. pc = "idle" /\ runs = 0 /\ setbacks = 0 /\ history \in [Findings -> Histories]
    BY DEF Init
  <2>2. Cardinality(Done) \in Nat
    BY SubsetsFinite DEF Done
  <2>3. Ahead(0)
    BY <2>1, <2>2 DEF Ahead
  <2> QED
    BY <2>1, <2>3 DEF Drains, BatchChosen, DiffStands
<1>2. TypeOK /\ Drains => BacklogDrains
  <2> SUFFICES ASSUME TypeOK, Drains, pc = "idle", runs >= NumFindings + setbacks
               PROVE  \A f \in Findings : HeldBack(f)
    BY DEF BacklogDrains
  <2>1. Done \in SUBSET Findings /\ Ahead(0)
    BY DEF Drains, Done
  <2>2. Cardinality(Done) \in Nat /\ (Cardinality(Done) >= NumFindings => Done = Findings)
    BY <2>1, DoneCounts
  <2>3. Done = Findings
    BY <2>1, <2>2, Limits DEF Ahead, AllDone, TypeOK
  <2> QED
    BY <2>3 DEF Done
<1>3. TypeOK /\ TypeOK' /\ NoSlotWasted /\ Drains /\ [Next]_vars => Drains'
  BY StepDrains
<1> QED
  BY <1>1, <1>2, <1>3, BatchTypes, SlotsAreUsed, PTL DEF Spec
===============================================================================
