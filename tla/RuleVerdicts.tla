----------------------------- MODULE RuleVerdicts -----------------------------
(***************************************************************************)
(* How review-bot judges the findings of one rule, run after run: the      *)
(* score of a finding, what a policy and people's replies make of it, and  *)
(* the weight the rule has earned from what became of its findings, which  *)
(* feeds back into the scores.  A run with its three phases is one step,   *)
(* because one worker serves them; findings of the rule are told apart by  *)
(* their fingerprints.  Scores are in ten-thousandths.                     *)
(***************************************************************************)
EXTENDS Integers, FiniteSets

CONSTANTS
  Findings,       \* fingerprints of findings of the rule
  Candidates,     \* what review-engine says of a finding
  Policies,       \* what the policy file says of the rule and the path
  Commands,       \* feedback commands that occur
  Sample,         \* findings a weight needs
  MinimumScore, ResolvedPenalty, ReplyPenalty, ReplyLimit,   \* settings
  MaxReplies      \* bound: replies to a finding

\* The score 1.
Whole == 10000

\* Assumed of the constants where the module is instantiated.
VerdictConstants ==
  /\ Commands \subseteq {"ignore", "false-positive", "later", "allow", "wrong-language"}
  /\ Candidates \subseteq [score : 0..Whole, risk : {"low", "medium", "high"},
                           reviewable : BOOLEAN, anchored : BOOLEAN, precise : BOOLEAN]
  /\ Policies \subseteq [suppressed : BOOLEAN, allowed : BOOLEAN, promoted : BOOLEAN,
                         adjustment : Int, minimum : 0..Whole]
  /\ IsFiniteSet(Findings) /\ Sample \in Nat \ {0}
  /\ {MinimumScore, ResolvedPenalty, ReplyPenalty, ReplyLimit, MaxReplies} \subseteq Nat

VARIABLES
  candidate,   \* what the engine says of each finding
  policy,      \* the policy of the rule
  latest,      \* state of the latest meaningful decision about each finding
  thread,      \* the discussion of each finding, and how it was resolved
  replies,     \* human replies to each finding
  command      \* the command that rules, see FeedbackLog

vars == <<candidate, policy, latest, thread, replies, command>>

NoCommand == "none"

\* A meaningful state of a finding that has a discussion was shown once.
TypeOK ==
  /\ candidate \in [Findings -> Candidates] /\ policy \in Policies
  /\ latest \in [Findings -> {"none", "published", "failed", "suppressed", "resolved"}]
  /\ thread \in [Findings -> {"none", "open", "by_person", "fixed", "by_bot"}]
  /\ replies \in [Findings -> 0..MaxReplies] /\ command \in [Findings -> Commands \cup {NoCommand}]
  /\ \A f \in Findings : thread[f] # "none" => latest[f] # "none"

Init ==
  /\ candidate \in [Findings -> Candidates] /\ policy \in Policies
  /\ latest = [f \in Findings |-> "none"] /\ thread = [f \in Findings |-> "none"]
  /\ replies = [f \in Findings |-> 0] /\ command = [f \in Findings |-> NoCommand]

-------------------------------------------------------------------------------
(***************************************************************************)
(* The verdict.                                                            *)
(***************************************************************************)
Least(m, n)    == IF m < n THEN m ELSE n
Greatest(m, n) == IF m < n THEN n ELSE m

Surfaced == {f \in Findings : latest[f] \in {"published", "resolved", "suppressed"}}
Human    == {f \in Surfaced : thread[f] = "by_person"}

\* Mutant: a rule nobody resolves loses half of its score.
Weight_Halved ==
  LET total == Cardinality(Surfaced)
      rate  == (10000 * Cardinality(Human)) \div total
  IN IF total < Sample THEN 10000
     ELSE IF 2 * Cardinality(Human) >= total THEN Least(12000, 9000 + (rate * 6) \div 10)
     ELSE 5000 + (rate * 4) \div 10

\* What the rule has earned: 1.2 if people resolved half of its findings by
\* hand, between 0.8 and 1 if they did not, 1 as long as there are too few.
Weight ==
  LET total == Cardinality(Surfaced)
      rate  == (10000 * Cardinality(Human)) \div total
  IN IF total < Sample THEN 10000
     ELSE IF 2 * Cardinality(Human) >= total THEN Least(12000, 9000 + (rate * 6) \div 10)
     ELSE Greatest(8000, 8000 + (rate * 4) \div 10)

RiskPenalty == [low |-> 0, medium |-> 300, high |-> 800]

Penalties(f) ==
  RiskPenalty[candidate[f].risk]
  + (IF candidate[f].anchored THEN 0 ELSE 1000)
  + (IF thread[f] \in {"by_person", "fixed", "by_bot"} THEN ResolvedPenalty ELSE 0)
  + Least(ReplyPenalty * replies[f], 1800)

\* Mutant: a reply that allows the finding earns it nothing.
Adjustment_PolicyOnly(f) ==
  (IF policy.allowed THEN 800 ELSE 0) + (IF policy.promoted THEN 800 ELSE 0) + policy.adjustment

\* Being allowed by the policy and by a reply counts once.
Adjustment(f) ==
  (IF policy.allowed \/ command[f] = "allow" THEN 800 ELSE 0)
  + (IF policy.promoted THEN 800 ELSE 0) + policy.adjustment

Score(f) ==
  Greatest(0, (candidate[f].score * Weight + 5000) \div 10000 - Penalties(f) + Adjustment(f))

Silenced(f) ==
  /\ replies[f] >= ReplyLimit /\ command[f] # "allow"
  /\ Score(f) < Greatest(MinimumScore + 1000, 8000)

\* Why a finding is suppressed: the first reason that applies.
Reason(f) ==
  IF policy.suppressed THEN "policy"
  ELSE IF command[f] \in {"ignore", "wrong-language", "false-positive"} THEN "feedback"
  ELSE IF ~candidate[f].reviewable THEN "reviewability"
  ELSE IF candidate[f].precise /\ ~candidate[f].anchored THEN "weak_anchor"
  ELSE IF Silenced(f) THEN "human_reply_history"
  ELSE IF Score(f) < Greatest(MinimumScore, policy.minimum) THEN "below_threshold"
  ELSE "none"

(***************************************************************************)
(* Runs and people.                                                        *)
(***************************************************************************)
\* What a run makes of an eligible finding: the draft may be dropped by the
\* provider or its check, the comment may fail, or wait for a later batch.
Fates == {"published", "failed", "suppressed", "waits"}

Decided(f, fate) ==
  IF Reason(f) # "none" THEN "suppressed"
  ELSE IF fate = "waits" THEN "eligible" ELSE fate

\* The sync phase resolves the open discussions of findings the run did not
\* find, has suppressed or failed to publish, and with them their decisions; an
\* incremental run spares those of files it did not look at.
Run(seen, fate, spared) ==
  LET decided   == [f \in seen |-> Decided(f, fate[f])]
      gone(f)   == /\ thread[f] = "open" /\ f \notin spared
                   /\ f \notin seen \/ decided[f] \in {"suppressed", "failed"}
      stands(f) == IF f \in seen /\ decided[f] # "eligible" THEN decided[f] ELSE latest[f]
  IN /\ latest' = [f \in Findings |->
           IF gone(f) /\ stands(f) \in {"published", "failed"} THEN "resolved" ELSE stands(f)]
     /\ thread' = [f \in Findings |->
           IF f \in seen /\ decided[f] = "published" THEN "open"
           ELSE IF gone(f) THEN "by_bot" ELSE thread[f]]
     /\ UNCHANGED <<candidate, policy, replies, command>>

\* A person resolves the discussion, with a commit that changes the code or
\* without one; the next phase records it.
PersonResolves(f, how) ==
  /\ thread[f] = "open"
  /\ thread' = [thread EXCEPT ![f] = how]
  /\ latest' = [latest EXCEPT ![f] = IF @ \in {"published", "failed"} THEN "resolved" ELSE @]
  /\ UNCHANGED <<candidate, policy, replies, command>>

PersonReopens(f) ==
  /\ thread[f] \in {"by_person", "fixed", "by_bot"}
  /\ thread' = [thread EXCEPT ![f] = "open"]
  /\ latest' = [latest EXCEPT ![f] = IF @ = "resolved" THEN "published" ELSE @]
  /\ UNCHANGED <<candidate, policy, replies, command>>

PersonReplies(f, c) ==
  /\ thread[f] # "none" /\ replies[f] < MaxReplies
  /\ replies' = [replies EXCEPT ![f] = @ + 1]
  /\ command' = [command EXCEPT ![f] = IF c = NoCommand THEN @ ELSE c]
  /\ UNCHANGED <<candidate, policy, latest, thread>>

Next ==
  \/ \E seen \in SUBSET Findings : \E fate \in [seen -> Fates] :
        \E spared \in SUBSET (Findings \ seen) : Run(seen, fate, spared)
  \/ \E f \in Findings :
        \/ \E how \in {"by_person", "fixed"} : PersonResolves(f, how)
        \/ PersonReopens(f)
        \/ \E c \in Commands \cup {NoCommand} : PersonReplies(f, c)

Spec == Init /\ [][Next]_vars

-------------------------------------------------------------------------------
\* What people let pass does not bury a rule: a finding the engine is sure of,
\* strong enough for the lowest weight, with no answer to it and no discussion
\* that is resolved, is not suppressed, whatever became of the other findings of
\* its rule and of its own earlier publications.
StrongFindingsSurvive ==
  \A f \in Findings :
    /\ (candidate[f].score * 8) \div 10 - RiskPenalty[candidate[f].risk]
         >= Greatest(MinimumScore, policy.minimum)
    /\ candidate[f].reviewable /\ candidate[f].anchored
    /\ ~policy.suppressed /\ policy.adjustment >= 0
    /\ replies[f] = 0 /\ thread[f] \in {"none", "open"}
    => Reason(f) = "none"

AllowSpares ==
  \A f \in Findings :
    /\ replies'[f] # replies[f] /\ command'[f] = "allow" /\ command[f] # "allow"
    /\ ~policy.allowed /\ Reason(f) = "none"
    => Reason(f)' = "none"

\* A reply that allows a finding never has it suppressed, although every reply
\* costs score; this is so for the first such reply and a rule the policy does
\* not allow anyway.
AllowNeverHurts == [][AllowSpares]_vars
===============================================================================
