------------------------------ MODULE GitLabCalls ------------------------------
(***************************************************************************)
(* The operations of the GitLab adapter that write, as the requests they   *)
(* consist of and the attempts of each request.  An attempt is carried     *)
(* out or refused, and its answer may be lost; every failure is retried,   *)
(* whatever it is.  What is in GitLab: the comments the operation made,    *)
(* whether the discussion is resolved, and the general notes that carry    *)
(* the marker of one purpose (full report, backlog or help), which people  *)
(* may delete.  The operations of a process run one after the other.       *)
(***************************************************************************)
EXTENDS Integers, Sequences

CONSTANTS
  MaxRetries,     \* settings.gitlab_api_max_retries
  MaxOperations,  \* bound: operations
  MaxDeleted      \* bound: general notes people delete

\* Assumed of the constants where the module is instantiated.
GitLabConstants == {MaxRetries, MaxOperations, MaxDeleted} \subseteq Nat

VARIABLES
  operation,   \* the operation that runs or ran last
  requests,    \* the requests it has left
  tries,       \* failed attempts of the first of them
  lost,        \* requests of this operation that took effect and failed all the same
  result,      \* how the operation ended
  comments,    \* comments this operation has made
  resolved,    \* is the discussion resolved?
  noteBodies,  \* bodies of the general notes with the marker, by note id
  operations, deleted   \* counters of the bounds

inGitLab == <<comments, resolved, noteBodies>>
vars == <<operation, requests, tries, lost, result, inGitLab, operations, deleted>>

Kinds == {"open_discussion", "reply", "reopen_and_reply", "resolve", "upsert_note"}

NoNote == 0
Gone   == 0   \* body of a note that was deleted

Request(name) == [name |-> name, note |-> NoNote]

\* The requests an operation starts with; upsert_note lists the notes first.
Requests(kind) ==
  CASE kind = "open_discussion"  -> <<Request("post_discussion")>>
    [] kind = "reply"            -> <<Request("post_reply")>>
    [] kind = "reopen_and_reply" -> <<Request("put_open"), Request("post_reply")>>
    [] kind = "resolve"          -> <<Request("put_resolved")>>
    [] kind = "upsert_note"      -> <<Request("list_notes")>>

Init ==
  /\ operation = "none" /\ requests = <<>> /\ tries = 0 /\ lost = 0 /\ result = "none"
  /\ comments = 0 /\ resolved \in BOOLEAN /\ noteBodies = <<>>
  /\ operations = 0 /\ deleted = 0

\* Requests are left exactly while the operation runs.
TypeOK ==
  /\ operation \in Kinds \cup {"none"} /\ result \in {"none", "ok", "inline_anchor", "error"}
  /\ tries \in 0..MaxRetries /\ lost \in 0..2 * (MaxRetries + 1)
  /\ comments \in 0..MaxRetries + 1 /\ resolved \in BOOLEAN
  /\ \A i \in DOMAIN noteBodies : noteBodies[i] \in 0..MaxOperations
  /\ (requests # <<>>) <=> (result = "none" /\ operation # "none")

-------------------------------------------------------------------------------
Begin(kind) ==
  /\ requests = <<>> /\ operations < MaxOperations
  /\ operation' = kind /\ requests' = Requests(kind)
  /\ operations' = operations + 1
  /\ tries' = 0 /\ lost' = 0 /\ result' = "none" /\ comments' = 0
  /\ UNCHANGED <<resolved, noteBodies, deleted>>

Listed == {i \in DOMAIN noteBodies : noteBodies[i] # Gone}

\* Mutant: the first note found is edited.
Newest_First == CHOOSE i \in Listed : \A j \in Listed : i <= j

Newest == CHOOSE i \in Listed : \A j \in Listed : j <= i

\* What a request does in GitLab.  A note that has been deleted since it was
\* listed cannot be edited.
Effect(request) ==
  \/ /\ request.name \in {"post_discussion", "post_reply"}
     /\ comments' = comments + 1 /\ UNCHANGED <<resolved, noteBodies>>
  \/ /\ request.name \in {"put_open", "put_resolved"}
     /\ resolved' = (request.name = "put_resolved") /\ UNCHANGED <<comments, noteBodies>>
  \/ request.name = "list_notes" /\ UNCHANGED inGitLab
  \/ /\ request.name = "post_note"
     /\ noteBodies' = Append(noteBodies, operations) /\ UNCHANGED <<comments, resolved>>
  \/ /\ request.name = "edit_note" /\ request.note \in Listed
     /\ noteBodies' = [noteBodies EXCEPT ![request.note] = operations]
     /\ UNCHANGED <<comments, resolved>>

AfterList == IF Listed = {} THEN Request("post_note") ELSE [name |-> "edit_note", note |-> Newest]

Left == IF Head(requests).name = "list_notes" THEN <<AfterList>> ELSE Tail(requests)

Carried ==
  /\ requests # <<>>
  /\ Effect(Head(requests))
  /\ requests' = Left /\ tries' = 0
  /\ result' = IF Left = <<>> THEN "ok" ELSE "none"
  /\ UNCHANGED <<operation, lost, operations, deleted>>

\* Mutant: every comment that meets an error status has a bad anchor.
Raise_AnyComment(answer) ==
  /\ requests' = <<>> /\ tries' = 0
  /\ result' = IF answer = "status" THEN "inline_anchor" ELSE "error"

\* The answer of the last attempt decides: opening a discussion turns every
\* error status into a bad anchor, timeouts and transport errors not.
Raise(answer) ==
  /\ requests' = <<>> /\ tries' = 0
  /\ result' = IF operation = "open_discussion" /\ answer = "status"
               THEN "inline_anchor" ELSE "error"

\* Mutant: one attempt too many.
RetryOrRaise_OneMore(answer) ==
  IF tries <= MaxRetries THEN tries' = tries + 1 /\ UNCHANGED <<requests, result>>
  ELSE Raise(answer)

RetryOrRaise(answer) ==
  IF tries < MaxRetries THEN tries' = tries + 1 /\ UNCHANGED <<requests, result>>
  ELSE Raise(answer)

\* The request took effect, but no answer came, or an error status.
AttemptLost ==
  /\ requests # <<>>
  /\ Effect(Head(requests))
  /\ lost' = lost + 1
  /\ \E answer \in {"status", "none"} : RetryOrRaise(answer)
  /\ UNCHANGED <<operation, operations, deleted>>

AttemptRefused ==
  /\ requests # <<>>
  /\ \E answer \in {"status", "none"} : RetryOrRaise(answer)
  /\ UNCHANGED <<operation, lost, inGitLab, operations, deleted>>

PersonDeletesNote ==
  /\ deleted < MaxDeleted /\ deleted' = deleted + 1
  /\ \E i \in Listed : noteBodies' = [noteBodies EXCEPT ![i] = Gone]
  /\ UNCHANGED <<operation, requests, tries, lost, result, comments, resolved, operations>>

PersonSetsResolved ==
  /\ requests = <<>> /\ resolved' = ~resolved
  /\ UNCHANGED <<operation, requests, tries, lost, result, comments, noteBodies, operations, deleted>>

Next ==
  \/ \E kind \in Kinds : Begin(kind)
  \/ Carried \/ AttemptLost \/ AttemptRefused
  \/ PersonDeletesNote \/ PersonSetsResolved

Spec == Init /\ [][Next]_vars

-------------------------------------------------------------------------------
\* What an operation answers fits what it did: a comment that was reported is
\* there, and at most one more for each request that took effect and failed all
\* the same; an operation that raised made none but those.  Only a comment that
\* would open a discussion is said to have a bad anchor, never a reply.
AnswersFitEffects ==
  requests = <<>> /\ operation \in {"open_discussion", "reply", "reopen_and_reply"} =>
    /\ comments <= lost + (IF result = "ok" THEN 1 ELSE 0)
    /\ result = "ok" => comments >= 1
    /\ result = "inline_anchor" => operation = "open_discussion"

WrittenIsNewest ==
  requests # <<>> /\ result' = "ok" /\ operation = "upsert_note" =>
    \E i \in DOMAIN noteBodies' :
       /\ noteBodies'[i] = operations
       /\ \A j \in DOMAIN noteBodies' : j > i => noteBodies'[j] = Gone

\* Whoever asks for a report finds it in the newest note of its purpose, with
\* duplicates that lost answers left behind, and after people deleted notes.
NewestNoteIsCurrent == [][WrittenIsNewest]_vars
================================================================================
