------------------------------ MODULE ReviewUnits ------------------------------
(***************************************************************************)
(* How the detect phase reads the patch of a file: it numbers the lines of *)
(* each hunk, cuts a large addition into pieces, and gives what            *)
(* review-engine finds in a piece a line and a key.  The patch appears     *)
(* line by line; the model counts the lines of the new file beside the     *)
(* numbers the program counts.  One rule is followed.                      *)
(***************************************************************************)
EXTENDS Integers, Sequences, FiniteSets

CONSTANTS
  Starts,      \* first lines of hunks that occur
  MaxPiece,    \* MAX_LINES_PER_REVIEW_UNIT
  Bucket,      \* lines that share a human key (64)
  Issues,      \* kinds of issue: "direct", "flow"
  MaxLines, MaxHunks   \* bounds: lines of a hunk, hunks of a patch

\* Assumed of the constants where the module is instantiated.
UnitConstants ==
  /\ Starts \subseteq Nat \ {0} /\ Issues \subseteq {"direct", "flow"}
  /\ {MaxPiece, Bucket, MaxLines, MaxHunks} \subseteq Nat \ {0}

VARIABLES
  issue,      \* the kind of issue the rule is about
  start,      \* new start line of the hunk's header
  counter,    \* new_line_no, the number the program gives the next line
  actual,     \* the number of the next line in the new file
  changed,    \* changed_lines of the hunk, with their actual numbers
  size,       \* lines of the hunk read so far
  odd,        \* has the hunk a line the program misreads?
  hunks,      \* hunks begun
  kept,       \* findings of the rule
  dropped     \* findings that share the key of an earlier one

vars == <<issue, start, counter, actual, changed, size, odd, hunks, kept, dropped>>

\* None; the numbers of removed lines are left out.
NoLine == 0 - 1

Line == [marker : {"+", "-"}, blank : BOOLEAN, signal : 0..2, line : Int, actual : Int]

TypeOK ==
  /\ issue \in Issues /\ {start, counter, actual} \subseteq Nat
  /\ changed \in Seq(Line) /\ Len(changed) < size + 1 /\ size \in 0..(MaxLines + 1)
  /\ odd \in BOOLEAN /\ hunks \in 0..MaxHunks
  /\ kept \cup dropped \subseteq
       [line : Int, actual : Int, shows : BOOLEAN, sure : BOOLEAN, precise : BOOLEAN]

Init ==
  /\ issue \in Issues
  /\ start = 1 /\ counter = 1 /\ actual = 1
  /\ changed = <<>> /\ size = 0 /\ odd = FALSE /\ hunks = 0
  /\ kept = {} /\ dropped = {}

-------------------------------------------------------------------------------
(***************************************************************************)
(* Reading a hunk.                                                         *)
(***************************************************************************)
\* Signals: 0 none; 1 and 2 the stronger and the weaker keywords of the issue.
Kinds ==
  {[kind |-> k, signal |-> s] : k \in {"added", "removed"}, s \in 0..2}
  \cup {[kind |-> k, signal |-> 0] :
          k \in {"blank", "context", "no_newline", "plus_plus", "minus_minus", "cut"}}

HunkBegins(n) ==
  /\ size = 0 /\ hunks < MaxHunks /\ n >= actual
  /\ hunks' = hunks + 1 /\ start' = n /\ actual' = n /\ counter' = n
  /\ size' = 1 /\ odd' = FALSE /\ changed' = <<>>
  /\ UNCHANGED <<issue, kept, dropped>>

\* Lines of the new file a line of the hunk counts for.  The text of an added
\* line that begins with "++" looks like a file header; an added line that
\* str.splitlines cuts (at a form feed) goes on as a context line.
Steps(kind) ==
  CASE kind \in {"added", "blank", "context"} -> 1
    [] kind = "cut" -> 2
    [] OTHER -> 0

ActualSteps(kind) == IF kind \in {"added", "blank", "context", "plus_plus", "cut"} THEN 1 ELSE 0

LineRead(k) ==
  /\ size \in 1..MaxLines
  /\ size' = size + 1
  /\ actual' = actual + ActualSteps(k.kind)
  /\ counter' = counter + Steps(k.kind)
  /\ odd' = (odd \/ k.kind \in {"plus_plus", "cut"})
  /\ changed' =
       CASE k.kind \in {"added", "blank", "cut"} ->
              Append(changed, [marker |-> "+", blank |-> k.kind = "blank", signal |-> k.signal,
                               line |-> counter, actual |-> actual])
         [] k.kind = "removed" ->
              Append(changed, [marker |-> "-", blank |-> FALSE, signal |-> k.signal,
                               line |-> NoLine, actual |-> NoLine])
         [] OTHER -> changed
  /\ UNCHANGED <<issue, start, hunks, kept, dropped>>

(***************************************************************************)
(* Pieces.                                                                 *)
(***************************************************************************)
\* The added lines, by their places; the line at the first of some places.
Candidates(lines)  == {i \in DOMAIN lines : lines[i].marker = "+"}
FirstAt(lines, at) == lines[CHOOSE i \in at : \A j \in at : i <= j]

\* Only additions without a removed line are cut.
Pieces(lines) ==
  IF Cardinality(Candidates(lines)) > MaxPiece /\ Candidates(lines) = DOMAIN lines
  THEN [p \in 1..((Len(lines) + MaxPiece - 1) \div MaxPiece) |->
          SubSeq(lines, (p - 1) * MaxPiece + 1,
                 IF p * MaxPiece < Len(lines) THEN p * MaxPiece ELSE Len(lines))]
  ELSE <<lines>>

(***************************************************************************)
(* The finding of a piece.                                                 *)
(***************************************************************************)
\* An issue is direct if an added or a removed line of the piece shows it.
Direct(piece) == \E i \in DOMAIN piece : piece[i].signal # 0

\* Mutant: a direct issue nobody added is put at the first added line.
Target_AnyLine(piece) ==
  LET added == Candidates(piece)
      text  == {i \in added : ~piece[i].blank}
      with(s) == {i \in text : piece[i].signal = s}
  IN IF added = {} THEN start
     ELSE IF with(1) # {} THEN FirstAt(piece, with(1)).line
     ELSE FirstAt(piece, added).line

\* The line of the finding: the first added line with the strongest keyword,
\* no line if only a removed line shows the issue, and the first added line
\* with text for an issue without keywords.  Blank additions count only if
\* nothing else was added; without an addition it is the start of the hunk.
Target(piece) ==
  LET added == Candidates(piece)
      text  == {i \in added : ~piece[i].blank}
      any   == {i \in text : piece[i].signal # 0}
      first == {i \in text : piece[i].signal = 1}
  IN IF added = {} THEN (IF Direct(piece) THEN NoLine ELSE start)
     ELSE IF text = {} THEN FirstAt(piece, added).line
     ELSE IF ~Direct(piece) THEN FirstAt(piece, text).line
     ELSE IF any = {} THEN NoLine
     ELSE IF issue = "flow" /\ first # {} THEN FirstAt(piece, first).line
     ELSE FirstAt(piece, any).line

\* Findings of one title and summary share a key within Bucket lines; a
\* finding without a line has the key of the first lines of the file.
HumanKey(finding) == IF finding.line = NoLine THEN 0 ELSE finding.line \div Bucket

\* "shows": is it the added line that the rule is about?  "sure": the program
\* reads the hunk right, and the piece adds text.  "precise": an issue that is
\* suppressed if it has no line.
Finding(piece) ==
  LET line == Target(piece)
      at   == {i \in Candidates(piece) : piece[i].line = line}
  IN [line    |-> line,
      actual  |-> IF at = {} THEN 0 ELSE FirstAt(piece, at).actual,
      shows   |-> at # {} /\ (Direct(piece) => FirstAt(piece, at).signal # 0),
      sure    |-> ~odd /\ \E i \in Candidates(piece) : ~piece[i].blank,
      precise |-> Direct(piece)]

\* The engine reports the rule for the pieces in "hits", which have a line.
HunkReviewed(hits) ==
  LET pieces  == Pieces(changed)
      reports == [p \in hits |-> Finding(pieces[p])]
      taken(p) == \/ \E k \in kept : HumanKey(k) = HumanKey(reports[p])
                  \/ \E q \in hits : q < p /\ HumanKey(reports[q]) = HumanKey(reports[p])
  IN /\ size > 1 /\ size' = 0
     /\ kept'    = kept \cup {reports[p] : p \in {q \in hits : ~taken(q)}}
     /\ dropped' = dropped \cup {reports[p] : p \in {q \in hits : taken(q)}}
     /\ changed' = <<>>
     /\ UNCHANGED <<issue, start, counter, actual, odd, hunks>>

Next ==
  \/ \E n \in Starts : HunkBegins(n)
  \/ \E k \in Kinds : LineRead(k)
  \/ \E hits \in SUBSET DOMAIN Pieces(changed) : HunkReviewed(hits)

Spec == Init /\ [][Next]_vars

-------------------------------------------------------------------------------
\* A comment is put where the code is: unless the hunk has a line the program
\* misreads or adds only blank lines, the line of a finding about added code is
\* the number that very line has in the new file, and shows what the rule is
\* about; without such a line the finding is suppressed for its weak anchor.
CommentsHitTheirLine ==
  \A f \in kept \cup dropped :
    f.sure => \/ f.shows /\ f.line = f.actual
              \/ f.line = NoLine /\ f.precise
================================================================================
