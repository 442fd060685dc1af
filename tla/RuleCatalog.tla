------------------------------ MODULE RuleCatalog ------------------------------
(***************************************************************************)
(* Which rules review-engine answers a review with.  The rule files are    *)
(* resolved twice: when they are ingested, with every pack and the policy  *)
(* of the default profile, into the store; and again at every request,     *)
(* with the packs and the policy of its profile.  The files may have       *)
(* changed in between.  Similarity, overlap of terms and the detectors are *)
(* given; a request is what they make of a change.  Scores are hundredths. *)
(***************************************************************************)
EXTENDS Integers, FiniteSets, Sequences

CONSTANTS
  Rule,        \* what each rule is: a function on the rules, see RuleRecord;
               \* tier 5 stands for an explicit override
  Packs, Contexts, Dialects, Categories,   \* of rules; profiles have the first three
  Patterns,    \* code patterns the detectors know
  Aliases,     \* PATTERN_ALIASES: patterns a pattern also stands for
  Signals,     \* DIRECT_CATEGORY_SIGNALS, of the categories that have an entry
  Reviews,     \* reviews that are asked for: packs and policy of the profile,
               \* context, dialect and patterns detected
  Hints,       \* rules a directly seen pattern hints at
  TopN, TopK   \* candidates of a query, results of a review

Rules == DOMAIN Rule

\* A rule or a review that has no context, or no dialect.
Any == "any"

\* "exact": what the weights of the patterns make of a trigger seen as such;
\* "overlap": of terms in common with the patterns, all of them at the most.
RuleRecord ==
  [pack : Packs, context : Contexts \cup {Any}, dialect : Dialects \cup {Any},
   tier : 1..5, specificity : 0..100, similarity : 0..100, exact : 88..98, overlap : 0..100,
   triggers : SUBSET Patterns, category : Categories, risk : {"low", "medium", "high"}]

\* Assumed of the constants where the module is instantiated.
CatalogConstants ==
  /\ IsFiniteSet(Rules) /\ \A r \in Rules : Rule[r] \in RuleRecord
  /\ Reviews \subseteq [packs : SUBSET Packs, policy : {"default", "profile"},
                         context : Contexts \cup {Any}, dialect : Dialects \cup {Any},
                         patterns : SUBSET Patterns]
  /\ Aliases \in [Patterns -> SUBSET Patterns]
  /\ Hints \in [Patterns -> SUBSET Rules]
  /\ TopN \in Nat \ {0} /\ TopK \in Nat \ {0}

VARIABLES
  files,    \* what the files on disk make of each rule under each policy
  store,    \* the active collection: the rules as they were ingested
  request,  \* the last review, until something changes
  results   \* the rules it was answered with, until something changes

vars == <<files, store, request, results>>

\* "absent" from its pack or disabled, resolved "active", only a "reference"
\* or not reviewed automatically, or "excluded" or overridden by the policy.
Resolutions == {"absent", "active", "reference", "excluded"}
Policies    == {"default", "profile"}

\* A rule that is absent is absent for every policy.
Files == {f \in [Rules -> [Policies -> Resolutions]] :
            \A r \in Rules : (f[r]["default"] = "absent") = (f[r]["profile"] = "absent")}

NoRequest ==
  [packs |-> {}, policy |-> "default", context |-> Any, dialect |-> Any, patterns |-> {}]

TypeOK ==
  /\ files \in Files /\ store \subseteq Rules
  /\ request \in Reviews \cup {NoRequest}
  /\ \A i \in DOMAIN results : results[i] \in Rules /\ Len(results) <= TopK

Init ==
  /\ files \in Files /\ store = {r \in Rules : files[r]["default"] = "active"}
  /\ request = NoRequest /\ results = <<>>

-------------------------------------------------------------------------------
(***************************************************************************)
(* Ranking.                                                                *)
(***************************************************************************)
Hinted(patterns)   == UNION {Hints[p] : p \in patterns}
Expanded(patterns) == patterns \cup UNION {Aliases[p] : p \in patterns}

PatternBoost(r, patterns) ==
  IF patterns = {} THEN 0
  ELSE IF r \in Hinted(patterns) THEN 100
  ELSE IF Rule[r].triggers \cap patterns # {} THEN Rule[r].exact
  ELSE Rule[r].overlap

Similarity(r, patterns) ==
  IF r \in Hinted(patterns) /\ Rule[r].similarity < 80 THEN 80 ELSE Rule[r].similarity

\* Mutant: the tie breakers stay in the order of the policy files.
Before_AsConfigured(r, q, patterns) ==
  \/ Rule[r].tier > Rule[q].tier
  \/ Rule[r].tier = Rule[q].tier /\ Rule[r].specificity > Rule[q].specificity

\* The tie breakers come before the final score; pattern boost and similarity
\* are moved up behind the tier.  The policy files leave no tie to the score:
\* the last of them compares the ids.
Before(r, q, patterns) ==
  LET tier(a, b)  == Rule[a].tier > Rule[b].tier
      boost(a, b) == PatternBoost(a, patterns) > PatternBoost(b, patterns)
      like(a, b)  == Similarity(a, patterns) > Similarity(b, patterns)
      fine(a, b)  == Rule[a].specificity > Rule[b].specificity
  IN \/ tier(r, q)
     \/ ~tier(q, r) /\ boost(r, q)
     \/ ~tier(q, r) /\ ~boost(q, r) /\ like(r, q)
     \/ ~tier(q, r) /\ ~boost(q, r) /\ ~like(q, r) /\ fine(r, q)

\* The orders of some rules the ranking may give: what it leaves open is settled
\* by weights of packs and scores that are not modelled, last by the ids.
Rankings(rules, patterns) ==
  {s \in [1..Cardinality(rules) -> rules] :
     /\ \A r \in rules : \E i \in DOMAIN s : s[i] = r
     /\ \A i, j \in DOMAIN s : i < j => ~Before(s[j], s[i], patterns)}

\* is_candidate_applicable: a rule with triggers needs one of them, and for a
\* category with direct signals one that is such a signal.
Applicable(r, patterns) ==
  LET matched == Rule[r].triggers \cap Expanded(patterns)
  IN IF Rule[r].triggers = {} THEN Rule[r].risk # "high"
     ELSE /\ matched # {}
          /\ Rule[r].category \in DOMAIN Signals => matched \cap Signals[Rule[r].category] # {}

(***************************************************************************)
(* Requests.                                                               *)
(***************************************************************************)
\* The most similar rules of the store, of whatever pack.
Queried == {r \in store : Cardinality({q \in store : Rule[q].similarity > Rule[r].similarity}) < TopN}

\* A rule of no context is for all of them, and so are all rules for a review
\* that has none; the same for dialects.
Suits(r, q) ==
  /\ q.context = Any \/ Rule[r].context \in {Any, q.context}
  /\ q.dialect = Any \/ Rule[r].dialect \in {Any, q.dialect}

\* Mutant: what the policy excludes by now is not looked at.
Selected_Blind(rules, q) == {r \in rules : Rule[r].pack \in q.packs /\ Suits(r, q)}

\* _select_runtime_candidates
Selected(rules, q) ==
  {r \in rules : Rule[r].pack \in q.packs /\ Suits(r, q) /\ files[r][q.policy] # "excluded"}

FirstOf(seq, n) == SubSeq(seq, 1, IF Len(seq) < n THEN Len(seq) ELSE n)

\* Hinted rules the query missed are fetched by number.  The ranking compares two
\* rules and never cuts; so without the rules that do not apply, which are dropped
\* before the first results are taken, it is a ranking of those that do.
Review(q) ==
  LET found   == Selected(Queried, q) \cup (Hinted(q.patterns) \cap store)
      applies == {r \in Selected(found, q) : Applicable(r, q.patterns)}
  IN /\ request' = q
     /\ \E ranked \in Rankings(applies, q.patterns) : results' = FirstOf(ranked, TopK)
     /\ UNCHANGED <<files, store>>

\* Someone edits the rule files of a rule.
Edit(r, resolved) ==
  /\ files' = [files EXCEPT ![r] = resolved]
  /\ files' \in Files
  /\ request' = NoRequest /\ results' = <<>> /\ UNCHANGED store

\* The store takes every pack, under the policy of the default profile.
Ingest ==
  /\ store' = {r \in Rules : files[r]["default"] = "active"}
  /\ request' = NoRequest /\ results' = <<>> /\ UNCHANGED files

Next ==
  \/ \E q \in Reviews : Review(q)
  \/ \E r \in Rules, resolved \in [Policies -> Resolutions] : Edit(r, resolved)
  \/ Ingest

Spec == Init /\ [][Next]_vars

-------------------------------------------------------------------------------
Answered == {results[i] : i \in DOMAIN results}

\* However stale the store is, a review never answers with a rule that the
\* files by now exclude or override for its profile, of a pack that its profile
\* does not enable, or for another context or dialect.
ExcludedStaysSilent ==
  \A r \in Answered : /\ files[r][request.policy] # "excluded" /\ Rule[r].pack \in request.packs
                      /\ Suits(r, request)

\* A rule the patterns match in full: pointed at by a detector, or, without a
\* trigger among them, with all their terms.
FullMatch(r, patterns) ==
  \/ r \in Hinted(patterns)
  \/ Rule[r].triggers \cap patterns = {} /\ Rule[r].overlap = 100

\* A rule a detector directly points at, which is in the store, selected for the
\* request and applicable, is in the answer unless the answer is full of rules of
\* a higher tier, or of the same tier that match in full and are as similar: no
\* rule with a weaker match displaces it, however similar or specific it is.
HintsAreHeard ==
  \A r \in Selected(Hinted(request.patterns) \cap store, request) :
    Applicable(r, request.patterns) /\ r \notin Answered
    => /\ Len(results) = TopK
       /\ \A q \in Answered :
            \/ Rule[q].tier > Rule[r].tier
            \/ /\ Rule[q].tier = Rule[r].tier /\ FullMatch(q, request.patterns)
               /\ Similarity(q, request.patterns) >= Similarity(r, request.patterns)
================================================================================
