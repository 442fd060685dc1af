------------------------------- MODULE RuleStore -------------------------------
(***************************************************************************)
(* The rule collections of review-engine while requests ingest and review  *)
(* at the same time: the endpoints are plain functions, so FastAPI serves  *)
(* each request in a thread of its own, and several may rebuild a language *)
(* at once.  A rebuild lists, deletes, creates and fills three collections *)
(* one after another, and nothing locks.  One language is followed.        *)
(***************************************************************************)
EXTENDS Integers

CONSTANTS
  Requests,   \* requests that are served at a time
  Stocked     \* the kinds of rules this language has any of

\* The collections of a language; a rebuild takes them in this order.
Kinds == {"active", "reference", "excluded"}

\* Assumed of the constants where the module is instantiated.
StoreConstants == Stocked \subseteq Kinds /\ "active" \in Stocked

VARIABLES
  stored,   \* what there is of each collection
  asks,     \* what each request came for: "none", "ingest", "review"
  step,     \* where it is in it
  doomed,   \* the collections it has listed and not deleted yet
  turn,     \* the kind it writes
  handle,   \* of that collection: "none", "valid", or "stale" once it is deleted
  answer,   \* how the last review of the thread ended
  met,      \* did that review meet an ingest, or follow a crash?
  broken    \* did a crash leave an ingest undone?

vars == <<stored, asks, step, doomed, turn, handle, answer, met, broken>>

Steps == {"idle", "ensure", "list", "delete", "create", "get", "add", "open", "query"}
Ingesting(r) == step[r] \in {"list", "delete", "create", "get", "add"}

TypeOK ==
  /\ stored \in [Kinds -> {"missing", "empty", "full"}]
  /\ asks \in [Requests -> {"none", "ingest", "review"}] /\ step \in [Requests -> Steps]
  /\ doomed \in [Requests -> SUBSET Kinds] /\ turn \in [Requests -> Kinds]
  /\ handle \in [Requests -> {"none", "valid", "stale"}]
  /\ answer \in [Requests -> {"none", "rules", "empty", "error"}]
  /\ met \in [Requests -> BOOLEAN] /\ broken \in BOOLEAN

Init ==
  /\ stored = [k \in Kinds |-> "missing"]
  /\ asks = [r \in Requests |-> "none"] /\ step = [r \in Requests |-> "idle"]
  /\ doomed = [r \in Requests |-> {}] /\ turn = [r \in Requests |-> "active"]
  /\ handle = [r \in Requests |-> "none"] /\ answer = [r \in Requests |-> "none"]
  /\ met = [r \in Requests |-> FALSE] /\ broken = FALSE

-------------------------------------------------------------------------------
(***************************************************************************)
(* Requests.                                                               *)
(***************************************************************************)
\* Every review that is under way when an ingest begins has met it.
Meets(r) ==
  met' = [q \in Requests |-> met[q] \/ (q # r /\ asks[q] = "review")]

Arrives(r, what) ==
  /\ step[r] = "idle"
  /\ asks' = [asks EXCEPT ![r] = what]
  /\ answer' = [answer EXCEPT ![r] = "none"]
  /\ IF what = "review"
     THEN /\ step' = [step EXCEPT ![r] = "ensure"]
          /\ met' = [met EXCEPT ![r] = broken \/ \E q \in Requests : Ingesting(q)]
     ELSE step' = [step EXCEPT ![r] = "list"] /\ Meets(r)
  /\ UNCHANGED <<stored, doomed, turn, handle, broken>>

Ends(r, how) ==
  /\ asks' = [asks EXCEPT ![r] = "none"] /\ step' = [step EXCEPT ![r] = "idle"]
  /\ doomed' = [doomed EXCEPT ![r] = {}] /\ turn' = [turn EXCEPT ![r] = "active"]
  /\ handle' = [handle EXCEPT ![r] = "none"]
  /\ answer' = [answer EXCEPT ![r] = IF asks[r] = "review" THEN how ELSE "none"]

\* Mutant: a missing collection is not ingested.
Ensure_Trusting(r) ==
  /\ step[r] = "ensure"
  /\ step' = [step EXCEPT ![r] = "open"] /\ UNCHANGED met
  /\ UNCHANGED <<stored, asks, doomed, turn, handle, answer, broken>>

\* _ensure_runtime_data: a collection is taken for data, empty or not.
Ensure(r) ==
  /\ step[r] = "ensure"
  /\ \/ /\ stored["active"] # "missing"
        /\ step' = [step EXCEPT ![r] = "open"] /\ UNCHANGED met
     \/ /\ stored["active"] = "missing"
        /\ step' = [step EXCEPT ![r] = "list"] /\ Meets(r)
  /\ UNCHANGED <<stored, asks, doomed, turn, handle, answer, broken>>

Open(r) ==
  /\ step[r] = "open"
  /\ \/ /\ stored["active"] # "missing"
        /\ handle' = [handle EXCEPT ![r] = "valid"] /\ step' = [step EXCEPT ![r] = "query"]
        /\ UNCHANGED <<asks, doomed, turn, answer>>
     \/ stored["active"] = "missing" /\ Ends(r, "empty")
  /\ UNCHANGED <<stored, met, broken>>

Query(r) ==
  /\ step[r] = "query"
  /\ Ends(r, IF handle[r] = "stale" THEN "error"
             ELSE IF stored["active"] = "full" THEN "rules" ELSE "empty")
  /\ UNCHANGED <<stored, met, broken>>

(***************************************************************************)
(* Ingest: rebuild_language and _write_collection.                         *)
(***************************************************************************)
List(r) ==
  /\ step[r] = "list"
  /\ LET existing == {k \in Kinds : stored[k] # "missing"} IN
       /\ doomed' = [doomed EXCEPT ![r] = existing]
       /\ step' = [step EXCEPT ![r] = IF existing = {} THEN "create" ELSE "delete"]
  /\ UNCHANGED <<stored, asks, turn, handle, answer, met, broken>>

FirstOf(kinds) ==
  IF "active" \in kinds THEN "active" ELSE IF "reference" \in kinds THEN "reference" ELSE "excluded"

\* What an ingest that raises has deleted and written so far stays so.
Fails(r) == Ends(r, "error") /\ UNCHANGED <<stored, met, broken>>

Deleted(r, k) ==
  /\ doomed' = [doomed EXCEPT ![r] = @ \ {k}]
  /\ step' = [step EXCEPT ![r] = IF doomed[r] = {k} THEN "create" ELSE "delete"]
  /\ UNCHANGED <<asks, turn, answer, met, broken>>

\* Mutant: a collection is emptied instead, so that reviews always find one.
Delete_Empties(r) ==
  /\ step[r] = "delete"
  /\ LET k == FirstOf(doomed[r]) IN
       \/ /\ stored[k] # "missing" /\ Deleted(r, k)
          /\ stored' = [stored EXCEPT ![k] = IF k = "active" THEN "empty" ELSE "missing"]
          /\ UNCHANGED handle
       \/ stored[k] = "missing" /\ Fails(r)

\* The listed collections go one after another; one that another request has
\* deleted since the listing raises.
Delete(r) ==
  /\ step[r] = "delete"
  /\ LET k == FirstOf(doomed[r]) IN
       \/ /\ stored[k] # "missing" /\ Deleted(r, k)
          /\ stored' = [stored EXCEPT ![k] = "missing"]
          /\ handle' = [q \in Requests |->
               IF turn[q] = k /\ handle[q] = "valid" THEN "stale" ELSE handle[q]]
       \/ stored[k] = "missing" /\ Fails(r)

\* The next kind; a review that had to ingest goes on with its query.
Written(r) ==
  IF turn[r] # "excluded"
  THEN /\ turn' = [turn EXCEPT ![r] = IF @ = "active" THEN "reference" ELSE "excluded"]
       /\ step' = [step EXCEPT ![r] = "create"] /\ handle' = [handle EXCEPT ![r] = "none"]
       /\ UNCHANGED <<asks, doomed, answer>>
  ELSE IF asks[r] = "review"
  THEN /\ turn' = [turn EXCEPT ![r] = "active"]
       /\ step' = [step EXCEPT ![r] = "open"] /\ handle' = [handle EXCEPT ![r] = "none"]
       /\ UNCHANGED <<asks, doomed, answer>>
  ELSE Ends(r, "none")

\* get_or_create: what another request created meanwhile is shared.
Create(r) ==
  /\ step[r] = "create"
  /\ stored' = [stored EXCEPT ![turn[r]] = IF @ = "missing" THEN "empty" ELSE @]
  /\ IF turn[r] \in Stocked
     THEN /\ step' = [step EXCEPT ![r] = "get"]
          /\ UNCHANGED <<asks, doomed, turn, handle, answer>>
     ELSE Written(r)
  /\ UNCHANGED <<met, broken>>

Get(r) ==
  /\ step[r] = "get"
  /\ \/ /\ stored[turn[r]] # "missing"
        /\ handle' = [handle EXCEPT ![r] = "valid"] /\ step' = [step EXCEPT ![r] = "add"]
        /\ UNCHANGED <<stored, asks, doomed, turn, answer, met, broken>>
     \/ stored[turn[r]] = "missing" /\ Fails(r)

Added(r) ==
  /\ handle[r] = "valid" /\ stored' = [stored EXCEPT ![turn[r]] = "full"]
  /\ broken' = (broken /\ turn[r] # "active")
  /\ Written(r) /\ UNCHANGED met

Add(r) ==
  /\ step[r] = "add"
  /\ Added(r) \/ (handle[r] = "stale" /\ Fails(r))

\* The process ends; the collections are kept by Chroma.
Crash ==
  /\ \E r \in Requests : step[r] # "idle"
  /\ broken' = (broken \/ \E r \in Requests : Ingesting(r))
  /\ asks' = [r \in Requests |-> "none"] /\ step' = [r \in Requests |-> "idle"]
  /\ doomed' = [r \in Requests |-> {}] /\ turn' = [r \in Requests |-> "active"]
  /\ handle' = [r \in Requests |-> "none"] /\ answer' = [r \in Requests |-> "none"]
  /\ met' = [r \in Requests |-> FALSE]
  /\ UNCHANGED stored

Next ==
  \/ \E r \in Requests :
       \/ \E what \in {"ingest", "review"} : Arrives(r, what)
       \/ Ensure(r) \/ Open(r) \/ Query(r)
       \/ List(r) \/ Delete(r) \/ Create(r) \/ Get(r) \/ Add(r)
  \/ Crash

Spec == Init /\ [][Next]_vars

-------------------------------------------------------------------------------
\* Overlapping ingests can fail between two collections and leave one missing,
\* which the next review makes good, but never one that exists and is empty,
\* which every later review would take for data: once no ingest runs, what
\* exists of the kinds that have rules is full, if no crash cut an ingest off.
NoneIsLeftEmpty ==
  ~broken /\ (\A r \in Requests : ~Ingesting(r)) => \A k \in Stocked : stored[k] # "empty"

\* A review that knows no rules met the ingest of another request or follows a
\* crash; a review of a fresh engine ingests first.
EmptyAnswersHaveACause ==
  \A r \in Requests : answer[r] \in {"empty", "error"} => met[r]
================================================================================
