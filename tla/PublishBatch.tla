------------------------------ MODULE PublishBatch ------------------------------
(***************************************************************************)
(* The batch of comments of a publish phase: which findings of a full run  *)
(* become candidates, which candidates get one of the BatchSize slots, and *)
(* what a sequence of runs over a diff that stands still makes of them.    *)
(* Findings are numbered by final score, the best first.  The phases of    *)
(* one run after another are modelled; FindingThreads has the overlapping  *)
(* runs, with the batch as a free choice.                                  *)
(***************************************************************************)
EXTENDS Integers, Sequences, FiniteSets, FiniteSetsExt

CONSTANTS
  NumFindings,                  \* findings of the diff, all with different scores
  Files, Rules, Lines, Titles,  \* what a finding is about; Lines: those it may share
  Histories,                    \* what earlier runs and people may have left
  BatchSize, FileCap, RuleCap,  \* settings
  Resurface,                    \* settings.resolved_unchanged_resurface_enabled
  MaxRuns,                      \* bound: runs over the diff
  MaxSetbacks                   \* bound: drafts dropped and publications refused

Findings == 1..NumFindings

\* The latest thread of a finding (open after a person reopened it: "reopened"),
\* whether anchor and body are still those of the thread, and whether the author
\* answered "later".
AllHistories == [thread : {"none", "open", "reopened", "resolved"},
                 change : {"none", "anchor", "body"},
                 later  : BOOLEAN]

ASSUME BatchConstants ==
  /\ {NumFindings, MaxRuns, MaxSetbacks} \subseteq Nat
  /\ {BatchSize, FileCap, RuleCap} \subseteq Nat \ {0}
  /\ Histories \subseteq {h \in AllHistories : h.thread = "none" => h.change = "none"}
  /\ Resurface \in BOOLEAN

VARIABLES
  kind,        \* file, rule, line and draft title of each finding: one of Lines, which
               \* findings of one category share, or a line of its own, written f
  history,     \* what review-bot knows about each finding's thread
  state,       \* state of the run's decision about each finding
  pc,          \* "idle", "select", "publish" or "sync"
  candidates,  \* findings that compete for the batch
  group,       \* priority group whose files take turns
  pending,     \* candidates of the group still in the queue of their file
  turn, again, \* files to come in this round, and in the next
  selected,    \* the batch
  handled,     \* how many of the batch have been published, skipped or refused
  sent, skipped,  \* findings sent to the review system, recorded as skipped
  runs, setbacks  \* counters of the bounds

choice == <<candidates, group, pending, turn, again, selected>>
vars   == <<kind, history, state, pc, choice, handled, sent, skipped, runs, setbacks>>

FileOf(f) == kind[f].file
RuleOf(f) == kind[f].rule

\* publication_key and same_line_category_key
PublicationKey(f) == <<kind[f].file, kind[f].line, kind[f].title>>
Spot(f)           == <<kind[f].file, kind[f].line>>

\* Columns and local data of the phases have the values the code gives them, and
\* what was sent or skipped counts as published.
TypeOK ==
  /\ kind \in [Findings -> [file : Files, rule : Rules, line : Lines \cup Findings, title : Titles]]
  /\ history \in [Findings -> AllHistories]
  /\ state \in [Findings -> {"eligible", "published", "suppressed", "failed_publication"}]
  /\ pc \in {"idle", "select", "publish", "sync"}
  /\ group \in -1..2 /\ turn \cup again \subseteq Files
  /\ pending \subseteq candidates /\ candidates \subseteq Findings
  /\ selected \in Seq(candidates) /\ handled \in 0..Len(selected)
  /\ sent \cup skipped \subseteq candidates /\ sent \cap skipped = {}
  /\ \A f \in sent \cup skipped : state[f] = "published"
  /\ runs \in 0..MaxRuns /\ setbacks \in 0..MaxSetbacks

\* Any findings, with any past.  A title matters only on a shared line.
Init ==
  /\ kind \in {k \in [Findings -> [file : Files, rule : Rules, line : Lines \cup Findings,
                                   title : Titles]] :
                 \A f \in Findings :
                   \/ k[f].line \in Lines
                   \/ k[f].line = f /\ k[f].title = CHOOSE t \in Titles : TRUE}
  /\ history \in [Findings -> Histories]
  /\ state = [f \in Findings |-> "eligible"]
  /\ pc = "idle"
  /\ candidates = {} /\ pending = {} /\ turn = {} /\ again = {}
  /\ group = -1 /\ selected = <<>> /\ handled = 0
  /\ sent = {} /\ skipped = {}
  /\ runs = 0 /\ setbacks = 0

-------------------------------------------------------------------------------
(***************************************************************************)
(* Candidates.                                                             *)
(***************************************************************************)
IsOpen(f)    == history[f].thread \in {"open", "reopened"}
Unchanged(f) == history[f].change = "none"

\* The open thread says all there is to say.
Standing(f) == history[f].thread = "open" /\ Unchanged(f)

\* backlog_only
HeldBack(f) ==
  \/ history[f].later
  \/ Standing(f)
  \/ history[f].thread = "resolved" /\ Unchanged(f) /\ ~Resurface

\* Priority group; 3, an unchanged open thread, is always held back and 2,
\* reminders, is switched off.
Group(f) ==
  CASE history[f].thread = "none" -> 1
    [] Standing(f)                -> 3
    [] OTHER                      -> 0

Better(f, g) ==
  \/ Group(f) < Group(g)
  \/ Group(f) = Group(g) /\ f < g

\* Mutant: findings are compared within their priority group.
Outdone_SameGroup(f, live) ==
  \E g \in live : Spot(g) = Spot(f) /\ Group(g) = Group(f) /\ g < f

\* The candidate loses its line to a better one of the same category; findings
\* with one key are left to the publish loop.
Outdone(f, live) ==
  LET rivals == {g \in live : Spot(g) = Spot(f)}
  IN  /\ Cardinality({PublicationKey(g) : g \in rivals}) > 1
      /\ \E g \in rivals : Better(g, f)

\* Drafts are built and verified, equivalents dropped, and the findings whose open
\* thread stands as it is count as published.
Prepare ==
  /\ pc = "idle" /\ runs < MaxRuns
  /\ \E dropped \in SUBSET Findings :
       /\ setbacks + Cardinality(dropped) <= MaxSetbacks
       /\ setbacks' = setbacks + Cardinality(dropped)
       /\ LET live    == {f \in Findings \ dropped : ~HeldBack(f)}
              outdone == {f \in live : Outdone(f, live)}
          IN  /\ state' = [f \in Findings |->
                             IF f \in dropped \cup outdone THEN "suppressed"
                             ELSE IF Standing(f) /\ ~history[f].later THEN "published"
                             ELSE "eligible"]
              /\ candidates' = live \ outdone
  /\ pc' = "select"
  /\ group' = -1 /\ pending' = {} /\ turn' = {} /\ again' = {} /\ selected' = <<>>
  /\ handled' = 0 /\ sent' = {} /\ skipped' = {}
  /\ UNCHANGED <<kind, history, runs>>

-------------------------------------------------------------------------------
(***************************************************************************)
(* The batch: groups in order of priority, within a group the files take   *)
(* turns and each turn takes one candidate.                                *)
(***************************************************************************)
Chosen == {selected[i] : i \in 1..Len(selected)}

OfFile(S, file) == {f \in S : FileOf(f) = file}
OfRule(S, rule) == {f \in S : RuleOf(f) = rule}
OfGroup(S, p)   == {f \in S : Group(f) = p}

BatchFull == Len(selected) >= BatchSize

\* Mutant: the limit of comments per rule is checked within the file.
Admissible_RulePerFile(f, S) ==
  /\ OfRule(OfFile(S, FileOf(f)), RuleOf(f)) = {}
  /\ Cardinality(OfRule(OfFile(S, FileOf(f)), RuleOf(f))) < RuleCap

\* seen_file_titles and title_counts let the candidate through.
Admissible(f, S) ==
  /\ OfRule(OfFile(S, FileOf(f)), RuleOf(f)) = {}
  /\ Cardinality(OfRule(S, RuleOf(f))) < RuleCap

\* Files in the order of their best candidate in the group.
FirstOf(files) ==
  CHOOSE file \in files : \A other \in files :
    Min(OfFile(OfGroup(candidates, group), file)) <= Min(OfFile(OfGroup(candidates, group), other))

Queue(file) == OfFile(pending, file)

\* Mutant: a turn takes all the file may have.
Picks_WholeFile(file) ==
  LET fits == {f \in Queue(file) : Admissible(f, Chosen)}
      room == Min({FileCap - Cardinality(OfFile(Chosen, file)), BatchSize - Len(selected)})
  IN  {f \in fits : Cardinality({g \in fits : g < f}) < room}

\* What a file's turn takes: its best admissible candidate, if its cap allows one.
Picks(file) ==
  LET fits == {f \in Queue(file) : Admissible(f, Chosen)}
  IN  {f \in fits : /\ Cardinality(OfFile(Chosen, file)) < FileCap
                    /\ \A g \in fits : f <= g}

Ordered(S) == [i \in 1..Cardinality(S) |-> CHOOSE f \in S : Cardinality({g \in S : g < f}) = i - 1]

\* Mutant: a file gives up its other candidates after one turn.
Left_OneTurn(file, picks) == {}

\* Candidates popped before a pick do not come back.
Left(file, picks) == {f \in Queue(file) : \E g \in picks : f > g}

\* A file with candidates left and room under its cap has a turn in the next round.
TakeTurn ==
  /\ pc = "select" /\ ~BatchFull /\ turn # {}
  /\ LET file  == FirstOf(turn)
         picks == Picks(file)
         left  == Left(file, picks)
     IN  /\ selected' = selected \o Ordered(picks)
         /\ pending' = (pending \ Queue(file)) \cup left
         /\ turn' = turn \ {file}
         /\ again' = IF left # {} /\ Cardinality(OfFile(Chosen \cup picks, file)) < FileCap
                     THEN again \cup {file} ELSE again
  /\ UNCHANGED <<kind, history, state, pc, candidates, group, handled, sent, skipped, runs, setbacks>>

\* "progressed" is implied: a file that took nothing has an empty queue.
NextRound ==
  /\ pc = "select" /\ ~BatchFull /\ turn = {} /\ again # {}
  /\ turn' = again /\ again' = {}
  /\ UNCHANGED <<kind, history, state, pc, candidates, group, pending, selected, handled,
                 sent, skipped, runs, setbacks>>

\* The next group with candidates, or the end of the selection.
NextGroup ==
  /\ pc = "select" /\ ~BatchFull /\ turn = {} /\ again = {}
  /\ LET ahead == {f \in candidates : Group(f) > group}
     IN  IF ahead = {}
         THEN pc' = "publish" /\ UNCHANGED <<group, pending, turn>>
         ELSE /\ group' = Min({Group(f) : f \in ahead})
              /\ pending' = OfGroup(candidates, group')
              /\ turn' = {FileOf(f) : f \in pending'}
              /\ UNCHANGED pc
  /\ UNCHANGED <<kind, history, state, candidates, again, selected, handled, sent, skipped,
                 runs, setbacks>>

StopFull ==
  /\ pc = "select" /\ BatchFull
  /\ pc' = "publish"
  /\ UNCHANGED <<kind, history, state, choice, handled, sent, skipped, runs, setbacks>>

-------------------------------------------------------------------------------
(***************************************************************************)
(* Publishing the batch, one candidate after the other, and the sync.      *)
(***************************************************************************)
SeenKeys == {PublicationKey(selected[i]) : i \in 1..handled}

\* Mutant: an updated thread keeps the body of its first comment.
Tracked_KeepsChange(f) == [history[f] EXCEPT !.thread = "open"]

\* The thread row after the comment was created, updated or reopened.
Tracked(f) == [history[f] EXCEPT !.thread = "open", !.change = "none"]

\* existing_thread is open, its body is the candidate's and nobody reopened it.
SaysTheSame(f) == history[f].thread = "open" /\ history[f].change # "body"

\* A second candidate with the key of one before is dropped.
DropDuplicate(f) ==
  /\ PublicationKey(f) \in SeenKeys
  /\ state' = [state EXCEPT ![f] = "suppressed"]
  /\ UNCHANGED <<history, sent, skipped, setbacks>>

Skip(f) ==
  /\ PublicationKey(f) \notin SeenKeys /\ SaysTheSame(f)
  /\ state' = [state EXCEPT ![f] = "published"]
  /\ skipped' = skipped \cup {f}
  /\ UNCHANGED <<history, sent, setbacks>>

\* Mutant: the finding is not counted as published.
Send_NotCounted(f) ==
  /\ PublicationKey(f) \notin SeenKeys /\ ~SaysTheSame(f)
  /\ history' = [history EXCEPT ![f] = Tracked(f)]
  /\ sent' = sent \cup {f}
  /\ UNCHANGED <<state, skipped, setbacks>>

Send(f) ==
  /\ PublicationKey(f) \notin SeenKeys /\ ~SaysTheSame(f)
  /\ state' = [state EXCEPT ![f] = "published"]
  /\ history' = [history EXCEPT ![f] = Tracked(f)]
  /\ sent' = sent \cup {f}
  /\ UNCHANGED <<skipped, setbacks>>

\* An anchor the review system cannot place suppresses the finding, any other
\* refusal is a failed publication.
Refuse(f) ==
  /\ PublicationKey(f) \notin SeenKeys /\ ~SaysTheSame(f) /\ setbacks < MaxSetbacks
  /\ \E s \in {"suppressed", "failed_publication"} : state' = [state EXCEPT ![f] = s]
  /\ setbacks' = setbacks + 1
  /\ UNCHANGED <<history, sent, skipped>>

Publish ==
  /\ pc = "publish" /\ handled < Len(selected)
  /\ LET f == selected[handled + 1]
     IN  DropDuplicate(f) \/ Skip(f) \/ Send(f) \/ Refuse(f)
  /\ handled' = handled + 1
  /\ UNCHANGED <<kind, pc, choice, runs>>

EndPublish ==
  /\ pc = "publish" /\ handled = Len(selected)
  /\ pc' = "sync"
  /\ UNCHANGED <<kind, history, state, choice, handled, sent, skipped, runs, setbacks>>

\* The open threads whose findings the run neither published nor left for a later
\* batch are resolved.
Sync ==
  /\ pc = "sync"
  /\ history' = [f \in Findings |->
                   IF IsOpen(f) /\ state[f] \notin {"eligible", "published"}
                   THEN [history[f] EXCEPT !.thread = "resolved"] ELSE history[f]]
  /\ pc' = "idle" /\ runs' = runs + 1
  /\ UNCHANGED <<kind, state, choice, handled, sent, skipped, setbacks>>

Next ==
  \/ Prepare
  \/ TakeTurn \/ NextRound \/ NextGroup \/ StopFull
  \/ Publish \/ EndPublish \/ Sync

Spec == Init /\ [][Next]_vars

-------------------------------------------------------------------------------
(***************************************************************************)
(* Properties                                                              *)
(***************************************************************************)
BatchChosen == pc = "publish" /\ handled = 0

Waiting == candidates \ Chosen

Rated(p) == {f \in Chosen : Group(f) <= p}

\* Nothing the batch holds would have let the candidate in.
Fits(f, S) == Admissible(f, S) /\ Cardinality(OfFile(S, FileOf(f))) < FileCap

\* Neither the batch nor a file nor a rule gets more comments than its limit, and no
\* file gets two about the same rule, over all the groups and rounds of the loop.
CapsHold ==
  /\ Len(selected) <= BatchSize /\ Cardinality(Chosen) = Len(selected)
  /\ \A file \in Files : Cardinality(OfFile(Chosen, file)) <= FileCap
  /\ \A rule \in Rules : Cardinality(OfRule(Chosen, rule)) <= RuleCap
  /\ \A f, g \in Chosen : FileOf(f) = FileOf(g) /\ RuleOf(f) = RuleOf(g) => f = g

\* A candidate is left out for what candidates of its own or a better group took:
\* all the slots, or its room under a limit.  No slot is wasted, and a new finding
\* never displaces the update of a thread.
NoSlotWasted ==
  BatchChosen => \A f \in Waiting :
    Cardinality(Rated(Group(f))) >= BatchSize \/ ~Fits(f, Rated(Group(f)))

\* Within a group no file is two comments ahead of a file that still has a
\* candidate the limits would admit: the files really take turns.
NoFileMonopolises ==
  BatchChosen => \A f \in Waiting : Fits(f, Chosen) =>
    \A file \in Files :
      Cardinality(OfFile(OfGroup(Chosen, Group(f)), file))
        <= Cardinality(OfFile(OfGroup(Chosen, Group(f)), FileOf(f))) + 1

\* One run comments on the same line and category once, whether the equivalents
\* differ in title (dropped before the selection) or not (dropped in the loop).
OneCommentPerSpot == \A f, g \in sent : Spot(f) = Spot(g) => f = g

\* While the diff stands still every finding gets its comment: after as many runs as
\* there are findings, and one for each setback, nothing waits for a slot.
BacklogDrains ==
  pc = "idle" /\ runs >= NumFindings + setbacks => \A f \in Findings : HeldBack(f)

\* Recorded as skipped is the finding whose open thread is unchanged in body and
\* anchor, and it took no slot of the batch.
SkippedTakesNoSlot == \A f \in skipped : Standing(f) /\ f \notin Chosen
===============================================================================
