---------------------------- MODULE ThreadReports ----------------------------
(***************************************************************************)
(* Where the full report and the backlog note list the finding of          *)
(* FindingThreads.  The report is about the decisions of one run and about *)
(* the rows as they are now; it changes nothing, so it is what a request   *)
(* for it would be answered in the state at hand.                          *)
(***************************************************************************)
EXTENDS FindingThreads

\* What the report looks at beside decisions and rows.  body: the comment as
\* it would be rendered now; later, feedback: what replies ask for, and what the
\* run suppressed the finding for; reminder: an open thread is due for one;
\* posted: the run created or updated the comment.
Views(r) ==
  {v \in [body : Bodies, later : BOOLEAN, feedback : BOOLEAN, reminder : BOOLEAN,
          posted : BOOLEAN] :
     /\ v.feedback => decision[r].state = "suppressed"
     /\ v.posted => decision[r].state \in {"published", "resolved"}}

\* _classify_backlog: why the run holds the finding back.
Backlog(r, t, v) ==
  IF v.later THEN "later"
  ELSE IF t = NoThread THEN "none"
  ELSE IF ~SameAnchor(t, r) \/ row[t].body # v.body THEN "none"
  ELSE IF row[t].status = "open" THEN
    IF row[t].reason = "remote_reopened" \/ v.reminder THEN "none" ELSE "open"
  ELSE IF Resurface THEN "none" ELSE "resolved"

\* _classify_full_report_section; "none" leaves the finding to the backlog.
RunSection(r, t, v) ==
  CASE v.feedback -> "suppressed_feedback"
    [] ~v.feedback /\ decision[r].state = "failed_publication" -> "failed_publication"
    [] v.posted -> "published_inline"
    [] OTHER ->
         LET backlog == Backlog(r, t, v) IN
         IF backlog # "none" THEN IF backlog = "open" THEN "already_open" ELSE "none"
         ELSE IF decision[r].state = "published" THEN "already_open"
         ELSE IF decision[r].state = "eligible" THEN "pending_batch"
         ELSE "suppressed_other"

\* Mutant: resolved threads are not looked at.
BacklogRows_OpenOnly(v) ==
  {t \in WithStatus({"open"}) : v.later \/ row[t].reason # "remote_reopened"}

\* _current_backlog_entries: the rows of which the latest is listed.
BacklogRows(v) ==
  {t \in WithStatus({"open", "resolved"}) :
     \/ v.later
     \/ row[t].status = "open" /\ row[t].reason # "remote_reopened"
     \/ row[t].status = "resolved" /\ ~Resurface}

BacklogSection(t, v) ==
  IF v.later THEN "backlog_feedback_later"
  ELSE IF row[t].status = "open" THEN "backlog_existing_open" ELSE "backlog_resolved_unchanged"

\* The sections, of whichever row comes first, that list the finding.
Listed(r, t, v) ==
  IF decision[r].state # "none" /\ RunSection(r, t, v) # "none" THEN {RunSection(r, t, v)}
  ELSE {BacklogSection(u, v) : u \in BacklogRows(v)}

-------------------------------------------------------------------------------
\* What the run found, or has an open thread nobody reopened, is listed; only a
\* finding put off by bot:later before it ever got a thread is not.
NothingGoesUnreported ==
  \A r \in 1..detected, t \in Existing : \A v \in Views(r) :
    \/ decision[r].state # "none" /\ ~(v.later /\ t = NoThread)
    \/ \E u \in WithStatus({"open"}) : row[u].reason # "remote_reopened"
    => Listed(r, t, v) # {}
================================================================================
