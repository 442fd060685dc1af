------------------------------ MODULE FeedbackLog ------------------------------
(***************************************************************************)
(* What people answer to the comments of one finding, and what review-bot  *)
(* makes of it.  The finding has several discussions (an old one whose     *)
(* anchor moved and the one that replaced it); people reply in them, with  *)
(* or without a command, and may edit a reply.  The detect and sync phases *)
(* list the discussions, look up which events are new and insert them      *)
(* when the phase commits; with more than one worker two phases of a merge *)
(* request overlap.  A decision reads the signal of the rows it finds.     *)
(***************************************************************************)
EXTENDS Integers, Sequences, FiniteSets

CONSTANTS
  NumDiscussions,   \* discussions of the finding
  Commands,         \* feedback commands that occur
  MaxReplies,       \* bound: replies of people
  MaxTime,          \* bound: distinct values of created_at
  MaxEdits,         \* bound: edited replies
  MaxPhases         \* bound: phases run

\* Assumed of the constants where the module is instantiated.
FeedbackConstants ==
  /\ Commands \subseteq {"ignore", "false-positive", "later", "allow", "wrong-language"}
  /\ {NumDiscussions, MaxReplies, MaxEdits, MaxPhases} \subseteq Nat /\ MaxTime \in Nat \ {0}

Phases  == {"detect", "sync"}
Discussions == 1..NumDiscussions   \* in the order the review system lists them
Replies == 1..MaxReplies        \* note ids, in the order of their creation
NoCommand == "none"

VARIABLES
  notes,    \* the human replies in the review system
  clock,    \* time of the next reply
  edits,    \* edited replies, a counter of the bound
  phase,    \* what each phase has collected and is about to insert
  rows,     \* feedback_events, in the order of their insertion
  served    \* phases run, a counter of the bound

vars == <<notes, clock, edits, phase, rows, served>>

Notes  == [id : Replies, thread : Discussions, command : Commands \cup {NoCommand}, at : 1..MaxTime]
Idle   == [step |-> "idle", events |-> {}]
PhaseStates ==
  [step : {"idle", "collected", "looked_up"}, events : SUBSET Notes]

\* Notes are numbered in the order they are written; phases hold notes.
TypeOK ==
  /\ notes \in Seq(Notes) /\ \A i \in DOMAIN notes : notes[i].id = i
  /\ clock \in 1..MaxTime /\ edits \in 0..MaxEdits /\ served \in 0..MaxPhases
  /\ phase \in [Phases -> PhaseStates]
  /\ rows \in Seq(Notes)

Init ==
  /\ notes = <<>> /\ clock = 1 /\ edits = 0
  /\ phase = [p \in Phases |-> Idle]
  /\ rows = <<>> /\ served = 0

-------------------------------------------------------------------------------
(***************************************************************************)
(* People.                                                                 *)
(***************************************************************************)
\* A reply may hold several commands, the last one counts; it may hold none.
Reply(d, c) ==
  /\ Len(notes) < MaxReplies
  /\ notes' = Append(notes, [id |-> Len(notes) + 1, thread |-> d, command |-> c, at |-> clock])
  /\ UNCHANGED <<clock, edits, phase, rows, served>>

TimePasses ==
  /\ clock < MaxTime /\ clock' = clock + 1
  /\ UNCHANGED <<notes, edits, phase, rows, served>>

\* An edit keeps the id and the creation time of the note.
Edit(i, c) ==
  /\ edits < MaxEdits /\ i \in DOMAIN notes /\ notes[i].command # c
  /\ notes' = [notes EXCEPT ![i].command = c]
  /\ edits' = edits + 1
  /\ UNCHANGED <<clock, phase, rows, served>>

(***************************************************************************)
(* The phases.                                                             *)
(***************************************************************************)
Keys(s) == {s[i].id : i \in DOMAIN s}

\* Discussions are listed one after the other, the replies of each in their order.
ListedBefore(m, n) == m.thread < n.thread \/ (m.thread = n.thread /\ m.id < n.id)

Listings(events) ==
  {s \in [1..Cardinality(events) -> events] :
     \A i, j \in DOMAIN s : i < j => ListedBefore(s[i], s[j])}

Collect(p) ==
  /\ phase[p].step = "idle" /\ served < MaxPhases
  /\ phase' = [phase EXCEPT ![p] =
       [step |-> "collected", events |-> {notes[i] : i \in DOMAIN notes}]]
  /\ served' = served + 1
  /\ UNCHANGED <<notes, clock, edits, rows>>

\* Events whose key is in the table are dropped, edited or not.
LookUp(p) ==
  /\ phase[p].step = "collected"
  /\ phase' = [phase EXCEPT ![p] =
       [step |-> "looked_up", events |-> {n \in phase[p].events : n.id \notin Keys(rows)}]]
  /\ UNCHANGED <<notes, clock, edits, rows, served>>

\* Mutant: no unique constraint on event_key.
Insert_NoConstraint(p) ==
  /\ phase[p].step = "looked_up"
  /\ \E listed \in Listings(phase[p].events) : rows' = rows \o listed
  /\ phase' = [phase EXCEPT ![p] = Idle]
  /\ UNCHANGED <<notes, clock, edits, served>>

\* The unique constraint lets the insertion of a phase through as a whole.
Insert(p) ==
  /\ phase[p].step = "looked_up" /\ \A n \in phase[p].events : n.id \notin Keys(rows)
  /\ \E listed \in Listings(phase[p].events) : rows' = rows \o listed
  /\ phase' = [phase EXCEPT ![p] = Idle]
  /\ UNCHANGED <<notes, clock, edits, served>>

\* Another phase was faster, or the phase fails for a reason of its own.
PhaseFails(p) ==
  /\ phase[p].step # "idle"
  /\ phase' = [phase EXCEPT ![p] = Idle]
  /\ UNCHANGED <<notes, clock, edits, rows, served>>

Next ==
  \/ TimePasses
  \/ \E d \in Discussions, c \in Commands \cup {NoCommand} : Reply(d, c)
  \/ \E i \in Replies, c \in Commands \cup {NoCommand} : Edit(i, c)
  \/ \E p \in Phases : Collect(p) \/ LookUp(p) \/ Insert(p) \/ PhaseFails(p)

Spec == Init /\ [][Next]_vars

-------------------------------------------------------------------------------
(***************************************************************************)
(* The signal of the finding.                                              *)
(***************************************************************************)
HumanReplies == Len(rows)

\* Markers are pairs (occurred_at, event_key).
NotLater(m, n) == m.at < n.at \/ (m.at = n.at /\ m.id <= n.id)

\* The signal before the first row is read.
Unsaid == [command |-> NoCommand, at |-> 0, id |-> 0]

\* The rows come in no order the code asks for; a command replaces the one it
\* has if its marker is not smaller.
Latest[k \in 0..Len(rows)] ==
  IF k = 0 THEN Unsaid
  ELSE IF rows[k].command # NoCommand /\ NotLater(Latest[k - 1], rows[k])
       THEN [command |-> rows[k].command, at |-> rows[k].at, id |-> rows[k].id]
       ELSE Latest[k - 1]

\* Mutant: the command of the row read last.
LatestCommand_Arrival ==
  LET commanding == {k \in DOMAIN rows : rows[k].command # NoCommand}
  IN IF commanding = {} THEN NoCommand
     ELSE rows[CHOOSE k \in commanding : \A j \in commanding : j <= k].command

LatestCommand == Latest[Len(rows)].command

-------------------------------------------------------------------------------
\* A reply counts once, however the phases that see it overlap, fail and run
\* again: two replies of people silence a finding, one must not.
RepliesCountOnce == Cardinality(Keys(rows)) = HumanReplies /\ HumanReplies <= Len(notes)

\* Whoever had the last word is heard: once the replies of a finding are in the
\* table, the command that rules is that of the latest reply with a command,
\* whichever discussion it is in and in whichever order the rows arrived.  (A
\* reply edited after it was read keeps the command it was read with.)
LastWordRules ==
  (Keys(rows) = Keys(notes) /\ \A k \in DOMAIN rows : rows[k] = notes[rows[k].id]) =>
    LET commanding == {i \in DOMAIN notes : notes[i].command # NoCommand}
    IN IF commanding = {} THEN LatestCommand = NoCommand
       ELSE \E i \in commanding : /\ notes[i].command = LatestCommand
                                  /\ \A j \in commanding : notes[j].at <= notes[i].at
================================================================================
