--------------------------- MODULE RuleStore_proofs ---------------------------
(***************************************************************************)
(* Proofs about the rule store, for any set of requests and any kinds that *)
(* have rules.                                                             *)
(***************************************************************************)
EXTENDS RuleStore, TLAPS

\* What the steps rely on of the types.
Types ==
  /\ stored \in [Kinds -> {"missing", "empty", "full"}]
  /\ asks \in [Requests -> {"none", "ingest", "review"}] /\ step \in [Requests -> Steps]
  /\ doomed \in [Requests -> SUBSET Kinds] /\ turn \in [Requests -> Kinds]
  /\ handle \in [Requests -> {"none", "valid", "stale"}]
  /\ answer \in [Requests -> {"none", "rules", "empty", "error"}]

\* A request that will fill the collection of kind k, unless it is overtaken.
WillFill(r, k) ==
  turn[r] = k /\ (step[r] = "get" \/ (step[r] = "add" /\ handle[r] = "valid"))

Leftover(k) == stored[k] = "empty" /\ \A r \in Requests : ~WillFill(r, k)

\* A collection that is empty with nobody to fill it is left from a crash, and
\* no ingest writes before it has deleted it.
Spares(r, k) ==
  step[r] \notin {"create", "get", "add"} /\ (step[r] = "delete" => k \in doomed[r])

LeftoversAreDoomed ==
  \A k \in Stocked : Leftover(k) => broken /\ \A r \in Requests : Spares(r, k)

QInv == Types /\ LeftoversAreDoomed

-------------------------------------------------------------------------------
\* At the start nothing is stored.
LEMMA InitQInv ==
  ASSUME StoreConstants, Init
  PROVE  QInv
BY SMT DEF StoreConstants, Init, QInv, Types, LeftoversAreDoomed, Leftover, Steps, Kinds

\* Who will fill the collection is at work on an ingest.
LEMMA FillingIsIngesting ==
  ASSUME NEW r, NEW k, WillFill(r, k)
  PROVE  Ingesting(r)
BY DEF WillFill, Ingesting

\* How a request ends, and how it goes on with the next kind.
LEMMA EndsTyped ==
  ASSUME Types, NEW r \in Requests, NEW how \in {"none", "rules", "empty", "error"},
         Ends(r, how), stored' \in [Kinds -> {"missing", "empty", "full"}]
  PROVE  Types'
BY SMT DEF Types, Ends, Steps, Kinds

LEMMA WrittenTyped ==
  ASSUME Types, NEW r \in Requests, Written(r),
         stored' \in [Kinds -> {"missing", "empty", "full"}]
  PROVE  Types'
<1>1. CASE Ends(r, "none")
  BY <1>1, EndsTyped
<1>2. CASE ~Ends(r, "none")
  BY <1>2, SMT DEF Types, Written, Steps, Kinds
<1> QED BY <1>1, <1>2

\* Every step keeps the types.
LEMMA StepTypes ==
  ASSUME Types, [Next]_vars
  PROVE  Types'
<1>1. CASE UNCHANGED vars
  BY <1>1 DEF vars, Types
<1>2. ASSUME NEW r \in Requests, NEW what \in {"ingest", "review"}, Arrives(r, what)
      PROVE  Types'
  BY <1>2, SMT DEF Arrives, Types, Steps
<1>3. ASSUME NEW r \in Requests, Ensure(r) PROVE Types'
  BY <1>3, SMT DEF Ensure, Types, Steps
<1>4. ASSUME NEW r \in Requests, Open(r) PROVE Types'
  <2>1. CASE Ends(r, "empty")
    BY <1>4, <2>1, EndsTyped DEF Open, Types
  <2>2. CASE ~Ends(r, "empty")
    BY <1>4, <2>2, SMT DEF Open, Types, Steps
  <2> QED BY <2>1, <2>2
<1>5. ASSUME NEW r \in Requests, Query(r) PROVE Types'
  <2> DEFINE how == IF handle[r] = "stale" THEN "error"
                    ELSE IF stored["active"] = "full" THEN "rules" ELSE "empty"
  <2>1. how \in {"none", "rules", "empty", "error"}
    OBVIOUS
  <2>2. Ends(r, how) /\ stored' = stored
    BY <1>5 DEF Query
  <2> HIDE DEF how
  <2> QED BY <2>1, <2>2, EndsTyped DEF Types
<1>6. ASSUME NEW r \in Requests, Fails(r) PROVE Types'
  BY <1>6, EndsTyped DEF Fails, Types
<1>7. ASSUME NEW r \in Requests, List(r) PROVE Types'
  BY <1>7, SMT DEF List, Types, Steps, Kinds
<1>8. ASSUME NEW r \in Requests, Delete(r) PROVE Types'
  <2>1. CASE Fails(r)
    BY <1>6, <2>1
  <2>2. CASE ~Fails(r)
    <3>1. PICK k \in Kinds :
            /\ Deleted(r, k) /\ stored' = [stored EXCEPT ![k] = "missing"]
            /\ handle' = [q \in Requests |->
                 IF turn[q] = k /\ handle[q] = "valid" THEN "stale" ELSE handle[q]]
      BY <1>8, <2>2 DEF Delete, FirstOf, Kinds
    <3> QED BY <3>1, SMT DEF Deleted, Types, Steps
  <2> QED BY <2>1, <2>2
<1>9. ASSUME NEW r \in Requests, Create(r) PROVE Types'
  <2>1. stored' \in [Kinds -> {"missing", "empty", "full"}]
    BY <1>9, SMT DEF Create, Types
  <2>2. CASE Written(r)
    BY <2>1, <2>2, WrittenTyped
  <2>3. CASE ~Written(r)
    BY <1>9, <2>1, <2>3, SMT DEF Create, Types, Steps
  <2> QED BY <2>2, <2>3
<1>10. ASSUME NEW r \in Requests, Get(r) PROVE Types'
  <2>1. CASE Fails(r)
    BY <1>6, <2>1
  <2>2. CASE ~Fails(r)
    BY <1>10, <2>2, SMT DEF Get, Types, Steps
  <2> QED BY <2>1, <2>2
<1>11. ASSUME NEW r \in Requests, Add(r) PROVE Types'
  <2>1. CASE Fails(r)
    BY <1>6, <2>1
  <2>2. CASE Added(r)
    <3>1. stored' \in [Kinds -> {"missing", "empty", "full"}] /\ Written(r)
      BY <2>2, SMT DEF Added, Types
    <3> QED BY <3>1, WrittenTyped
  <2> QED BY <1>11, <2>1, <2>2 DEF Add
<1>12. CASE Crash
  BY <1>12, SMT DEF Crash, Types, Steps, Kinds
<1> QED
  BY <1>1, <1>2, <1>3, <1>4, <1>5, <1>7, <1>8, <1>9, <1>10, <1>11, <1>12 DEF Next

\* A request that neither writes before the step nor after it, and lets the
\* handles of writers and the collections be.
LEMMA OthersKeepLeftovers ==
  ASSUME QInv, NEW r \in Requests, UNCHANGED stored, broken => broken',
         step[r] \notin {"get"}, ~(step[r] = "add" /\ handle[r] = "valid"),
         step'[r] \notin {"create", "get", "add"},
         \A k \in Stocked : Leftover(k) => Spares(r, k)',
         \A q \in Requests \ {r} : /\ turn'[q] = turn[q] /\ step'[q] = step[q]
                                   /\ handle'[q] = handle[q] /\ doomed'[q] = doomed[q]
  PROVE  LeftoversAreDoomed'
<1> SUFFICES ASSUME NEW k \in Stocked, Leftover(k)'
             PROVE  broken' /\ \A q \in Requests : Spares(q, k)'
  BY DEF LeftoversAreDoomed
<1>1. \A q \in Requests : ~WillFill(q, k)
  BY DEF Leftover, WillFill
<1>2. Leftover(k)
  BY <1>1 DEF Leftover
<1>3. broken /\ \A q \in Requests : Spares(q, k)
  BY <1>2 DEF QInv, LeftoversAreDoomed
<1> QED BY <1>2, <1>3 DEF Spares

\* A request that is about to write leaves no leftovers behind.
LEMMA WritersFindNoLeftovers ==
  ASSUME QInv, NEW r \in Requests, step[r] \in {"create", "get", "add"}, NEW k \in Stocked
  PROVE  ~Leftover(k)
BY DEF QInv, LeftoversAreDoomed, Spares

\* While a request writes kind k, the others are still being filled.
LEMMA WritesLeaveNothing ==
  ASSUME QInv, NEW r \in Requests, step[r] \in {"create", "get", "add"},
         \A k \in Stocked : stored'[k] = "empty" =>
            \/ WillFill(r, k)'
            \/ stored[k] = "empty" /\ ~WillFill(r, k),
         \A q \in Requests \ {r} : /\ turn'[q] = turn[q] /\ step'[q] = step[q]
                                   /\ handle'[q] = handle[q]
  PROVE  LeftoversAreDoomed'
<1> SUFFICES ASSUME NEW k \in Stocked, Leftover(k)'
             PROVE  FALSE
  BY DEF LeftoversAreDoomed
<1>1. stored[k] = "empty" /\ ~WillFill(r, k)
  BY DEF Leftover
<1>2. \A q \in Requests : ~WillFill(q, k)
  BY <1>1 DEF Leftover, WillFill
<1> QED BY <1>1, <1>2, WritersFindNoLeftovers DEF Leftover

\* A request moves in its own columns only.
LEMMA EndsAlone ==
  ASSUME Types, NEW r \in Requests, NEW how, Ends(r, how)
  PROVE  /\ step'[r] = "idle"
         /\ \A q \in Requests \ {r} : /\ turn'[q] = turn[q] /\ step'[q] = step[q]
                                      /\ handle'[q] = handle[q] /\ doomed'[q] = doomed[q]
BY DEF Types, Ends

LEMMA WrittenAlone ==
  ASSUME Types, NEW r \in Requests, Written(r)
  PROVE  \A q \in Requests \ {r} : /\ turn'[q] = turn[q] /\ step'[q] = step[q]
                                   /\ handle'[q] = handle[q]
BY EndsAlone DEF Types, Written

\* Whoever stops being about to fill a collection has filled it, or finds that
\* it is gone.
LEMMA StepLeftovers ==
  ASSUME StoreConstants, QInv, [Next]_vars
  PROVE  LeftoversAreDoomed'
<1>0. Types /\ \A k \in Stocked : k \in Kinds
  BY DEF QInv, StoreConstants
<1>1. CASE UNCHANGED vars
  BY <1>1 DEF vars, QInv, LeftoversAreDoomed, Leftover, WillFill, Spares
<1>2. ASSUME NEW r \in Requests, NEW what \in {"ingest", "review"}, Arrives(r, what)
      PROVE  LeftoversAreDoomed'
  <2>1. /\ step[r] = "idle" /\ step'[r] \in {"ensure", "list"}
        /\ \A q \in Requests \ {r} : step'[q] = step[q]
        /\ UNCHANGED <<stored, doomed, turn, handle, broken>>
    BY <1>0, <1>2 DEF Arrives, Types
  <2>2. \A k \in Stocked : Spares(r, k)'
    BY <2>1 DEF Spares
  <2> QED BY <2>1, <2>2, OthersKeepLeftovers
<1>3. ASSUME NEW r \in Requests, Ensure(r) PROVE LeftoversAreDoomed'
  <2>1. /\ step[r] = "ensure" /\ step'[r] \in {"open", "list"}
        /\ \A q \in Requests \ {r} : step'[q] = step[q]
        /\ UNCHANGED <<stored, doomed, turn, handle, broken>>
    BY <1>0, <1>3 DEF Ensure, Types
  <2>2. \A k \in Stocked : Spares(r, k)'
    BY <2>1 DEF Spares
  <2> QED BY <2>1, <2>2, OthersKeepLeftovers
<1>4. ASSUME NEW r \in Requests, NEW how, Ends(r, how), UNCHANGED <<stored, broken>>,
             step[r] # "get", ~(step[r] = "add" /\ handle[r] = "valid")
      PROVE  LeftoversAreDoomed'
  <2>1. step'[r] = "idle"
    BY <1>0, <1>4, EndsAlone
  <2>2. \A k \in Stocked : Spares(r, k)'
    BY <2>1 DEF Spares
  <2>3. \A q \in Requests \ {r} : /\ turn'[q] = turn[q] /\ step'[q] = step[q]
                                  /\ handle'[q] = handle[q] /\ doomed'[q] = doomed[q]
    BY <1>0, <1>4, EndsAlone
  <2> QED BY <1>4, <2>1, <2>2, <2>3, OthersKeepLeftovers
<1>5. ASSUME NEW r \in Requests, Open(r) PROVE LeftoversAreDoomed'
  <2>1. CASE Ends(r, "empty")
    BY <1>4, <1>5, <2>1 DEF Open
  <2>2. CASE ~Ends(r, "empty")
    <3>1. /\ step[r] = "open" /\ step'[r] = "query"
          /\ \A q \in Requests \ {r} : step'[q] = step[q] /\ handle'[q] = handle[q]
          /\ UNCHANGED <<stored, doomed, turn, broken>>
      BY <1>0, <1>5, <2>2 DEF Open, Types
    <3>2. \A k \in Stocked : Spares(r, k)'
      BY <3>1 DEF Spares
    <3> QED BY <3>1, <3>2, OthersKeepLeftovers
  <2> QED BY <2>1, <2>2
<1>6. ASSUME NEW r \in Requests, Query(r) PROVE LeftoversAreDoomed'
  BY <1>4, <1>6 DEF Query
<1>7. ASSUME NEW r \in Requests, List(r) PROVE LeftoversAreDoomed'
  <2> DEFINE existing == {k \in Kinds : stored[k] # "missing"}
  <2>1. /\ step[r] = "list" /\ doomed'[r] = existing
        /\ step'[r] = IF existing = {} THEN "create" ELSE "delete"
        /\ \A q \in Requests \ {r} : step'[q] = step[q] /\ doomed'[q] = doomed[q]
        /\ UNCHANGED <<stored, turn, handle, broken>>
    BY <1>0, <1>7 DEF List, Types
  <2> SUFFICES ASSUME NEW k \in Stocked, Leftover(k)'
               PROVE  broken' /\ \A q \in Requests : Spares(q, k)'
    BY DEF LeftoversAreDoomed
  <2>2. \A q \in Requests : ~WillFill(q, k)
    BY <2>1 DEF Leftover, WillFill
  <2>3. stored[k] = "empty"
    BY <2>1 DEF Leftover
  <2>4. broken /\ \A q \in Requests : Spares(q, k)
    BY <2>2, <2>3 DEF Leftover, QInv, LeftoversAreDoomed
  <2>5. k \in existing
    BY <1>0, <2>3
  <2>6. step'[r] = "delete" /\ k \in doomed'[r]
    BY <2>1, <2>5
  <2> QED BY <2>1, <2>4, <2>6 DEF Spares
<1>8. ASSUME NEW r \in Requests, Delete(r) PROVE LeftoversAreDoomed'
  <2>1. CASE Fails(r)
    BY <1>4, <1>8, <2>1 DEF Fails, Delete
  <2>2. CASE ~Fails(r)
    <3>1. PICK j \in Kinds :
            /\ Deleted(r, j) /\ stored' = [stored EXCEPT ![j] = "missing"]
            /\ handle' = [q \in Requests |->
                 IF turn[q] = j /\ handle[q] = "valid" THEN "stale" ELSE handle[q]]
      BY <1>8, <2>2 DEF Delete, FirstOf, Kinds
    <3>2. /\ step[r] = "delete" /\ doomed'[r] = doomed[r] \ {j}
          /\ step'[r] = IF doomed[r] = {j} THEN "create" ELSE "delete"
          /\ \A q \in Requests \ {r} : step'[q] = step[q] /\ doomed'[q] = doomed[q]
          /\ UNCHANGED <<turn, broken>>
      BY <1>0, <1>8, <3>1 DEF Delete, Deleted, Types
    <3> SUFFICES ASSUME NEW k \in Stocked, Leftover(k)'
                 PROVE  broken' /\ \A q \in Requests : Spares(q, k)'
      BY DEF LeftoversAreDoomed
    <3>3. k # j /\ stored[k] = "empty"
      BY <1>0, <3>1 DEF Leftover, Types
    <3>4. \A q \in Requests : turn[q] = k => handle'[q] = handle[q]
      BY <3>1, <3>3
    <3>5. \A q \in Requests : ~WillFill(q, k)
      BY <3>2, <3>4 DEF Leftover, WillFill
    <3>6. broken /\ \A q \in Requests : Spares(q, k)
      BY <3>3, <3>5 DEF Leftover, QInv, LeftoversAreDoomed
    <3>7. k \in doomed'[r] /\ step'[r] = "delete"
      BY <3>2, <3>3, <3>6 DEF Spares
    <3> QED BY <3>2, <3>6, <3>7 DEF Spares
  <2> QED BY <2>1, <2>2
<1>9. ASSUME NEW r \in Requests, Create(r) PROVE LeftoversAreDoomed'
  <2>1. step[r] = "create" /\ turn[r] \in Kinds
        /\ stored' = [stored EXCEPT ![turn[r]] = IF @ = "missing" THEN "empty" ELSE @]
    BY <1>0, <1>9 DEF Create, Types
  <2>2. \A k \in Stocked : ~WillFill(r, k)
    BY <2>1 DEF WillFill
  <2>3. CASE turn[r] \in Stocked
    <3>1. step'[r] = "get" /\ turn' = turn /\ handle' = handle
          /\ \A q \in Requests \ {r} : step'[q] = step[q]
      BY <1>0, <1>9, <2>3 DEF Create, Types
    <3>2. WillFill(r, turn[r])'
      BY <3>1 DEF WillFill
    <3>3. \A k \in Stocked : stored'[k] = "empty" =>
             WillFill(r, k)' \/ (stored[k] = "empty" /\ ~WillFill(r, k))
      BY <1>0, <2>1, <2>2, <3>1, <3>2 DEF Types
    <3> QED BY <2>1, <3>1, <3>3, WritesLeaveNothing
  <2>4. CASE turn[r] \notin Stocked
    <3>1. Written(r)
      BY <1>9, <2>4 DEF Create
    <3>2. \A k \in Stocked : stored'[k] = "empty" => stored[k] = "empty" /\ ~WillFill(r, k)
      BY <1>0, <2>1, <2>2, <2>4 DEF Types
    <3>3. \A q \in Requests \ {r} : /\ turn'[q] = turn[q] /\ step'[q] = step[q]
                                    /\ handle'[q] = handle[q]
      BY <1>0, <3>1, WrittenAlone
    <3> QED BY <2>1, <3>2, <3>3, WritesLeaveNothing
  <2> QED BY <2>3, <2>4
<1>10. ASSUME NEW r \in Requests, Get(r) PROVE LeftoversAreDoomed'
  <2>1. step[r] = "get" /\ stored' = stored
    BY <1>10 DEF Get, Fails
  <2>2. CASE stored[turn[r]] = "missing"
    <3>1. Ends(r, "error")
      BY <1>10, <2>2 DEF Get, Fails
    <3>2. \A k \in Stocked : stored'[k] = "empty" => stored[k] = "empty" /\ ~WillFill(r, k)
      BY <2>1, <2>2 DEF WillFill
    <3>3. \A q \in Requests \ {r} : /\ turn'[q] = turn[q] /\ step'[q] = step[q]
                                    /\ handle'[q] = handle[q]
      BY <1>0, <3>1, EndsAlone
    <3> QED BY <2>1, <3>2, <3>3, WritesLeaveNothing
  <2>3. CASE stored[turn[r]] # "missing"
    <3>1. /\ step'[r] = "add" /\ handle'[r] = "valid" /\ turn' = turn
          /\ \A q \in Requests \ {r} : step'[q] = step[q] /\ handle'[q] = handle[q]
      BY <1>0, <1>10, <2>3 DEF Get, Types
    <3>2. \A k \in Stocked : stored'[k] = "empty" =>
             WillFill(r, k)' \/ (stored[k] = "empty" /\ ~WillFill(r, k))
      BY <2>1, <3>1 DEF WillFill
    <3> QED BY <2>1, <3>1, <3>2, WritesLeaveNothing
  <2> QED BY <2>2, <2>3
<1>11. ASSUME NEW r \in Requests, Add(r) PROVE LeftoversAreDoomed'
  <2>1. CASE Added(r)
    <3>1. /\ step[r] = "add" /\ turn[r] \in Kinds /\ Written(r)
          /\ stored' = [stored EXCEPT ![turn[r]] = "full"]
      BY <1>0, <1>11, <2>1 DEF Add, Added, Types
    <3>2. \A k \in Stocked : stored'[k] = "empty" => stored[k] = "empty" /\ ~WillFill(r, k)
      BY <1>0, <3>1 DEF WillFill, Types
    <3>3. \A q \in Requests \ {r} : /\ turn'[q] = turn[q] /\ step'[q] = step[q]
                                    /\ handle'[q] = handle[q]
      BY <1>0, <3>1, WrittenAlone
    <3> QED BY <3>1, <3>2, <3>3, WritesLeaveNothing
  <2>2. CASE handle[r] = "stale" /\ Fails(r)
    BY <1>4, <1>11, <2>2 DEF Fails, Add
  <2> QED BY <1>11, <2>1, <2>2 DEF Add
<1>12. CASE Crash
  <2>1. /\ broken' = (broken \/ \E r \in Requests : Ingesting(r)) /\ stored' = stored
        /\ \A r \in Requests : step'[r] = "idle"
    BY <1>12 DEF Crash
  <2> SUFFICES ASSUME NEW k \in Stocked, Leftover(k)'
               PROVE  broken' /\ \A q \in Requests : Spares(q, k)'
    BY DEF LeftoversAreDoomed
  <2>2. stored[k] = "empty"
    BY <2>1 DEF Leftover
  <2>3. CASE Leftover(k)
    BY <2>1, <2>3 DEF QInv, LeftoversAreDoomed, Spares
  <2>4. CASE ~Leftover(k)
    <3>1. PICK r \in Requests : WillFill(r, k)
      BY <2>2, <2>4 DEF Leftover
    <3>2. Ingesting(r)
      BY <3>1, FillingIsIngesting
    <3> QED BY <2>1, <3>2 DEF Spares
  <2> QED BY <2>3, <2>4
<1> QED
  BY <1>1, <1>2, <1>3, <1>5, <1>6, <1>7, <1>8, <1>9, <1>10, <1>11, <1>12 DEF Next

\* Every step keeps all of it.
LEMMA StepQInv ==
  ASSUME StoreConstants, QInv, [Next]_vars
  PROVE  QInv'
BY StepTypes, StepLeftovers DEF QInv

\* With nobody at work nobody will fill it, and a leftover tells of a crash.
LEMMA QInvSafe == QInv => NoneIsLeftEmpty
BY FillingIsIngesting DEF QInv, LeftoversAreDoomed, Leftover, NoneIsLeftEmpty

-------------------------------------------------------------------------------
\* A review under way that met no ingest of another request and no crash.
Lone(r) == asks[r] = "review" /\ step[r] # "idle" /\ ~met[r]

\* What its step relies on is still so.
Sound(r) ==
  /\ step[r] \in {"open", "query"} => stored["active"] # "missing"
  /\ step[r] = "delete" => doomed[r] # {} /\ \A k \in doomed[r] : stored[k] # "missing"
  /\ step[r] \in {"get", "add"} => stored[turn[r]] # "missing"
  /\ step[r] \in {"create", "get", "add"} /\ turn[r] # "active" => stored["active"] # "missing"
  /\ step[r] \in {"add", "query"} => handle[r] = "valid"

\* Nobody works on the collections but it, and those it relies on stay.
Undisturbed(r) ==
  ~broken /\ (\A q \in Requests \ {r} : ~Ingesting(q)) /\ Sound(r)

LoneAreUndisturbed == \A r \in Requests : Lone(r) => Undisturbed(r)

Reviews == DOMAIN met = Requests

\* A request that does not write starts with the active collection.
TurnsAreReset ==
  \A r \in Requests : step[r] \notin {"create", "get", "add"} => turn[r] = "active"

LInv ==
  QInv /\ TurnsAreReset /\ Reviews /\ LoneAreUndisturbed /\ EmptyAnswersHaveACause

\* Every step keeps the turns.
LEMMA StepTurns ==
  ASSUME Types, TurnsAreReset, [Next]_vars
  PROVE  TurnsAreReset'
<1> USE DEF Types, TurnsAreReset
<1>1. CASE UNCHANGED vars
  BY <1>1 DEF vars
<1>2. ASSUME NEW r \in Requests, NEW how, Ends(r, how) PROVE TurnsAreReset'
  BY <1>2 DEF Ends
<1>3. ASSUME NEW r \in Requests, NEW what \in {"ingest", "review"}, Arrives(r, what)
      PROVE  TurnsAreReset'
  BY <1>3 DEF Arrives
<1>4. ASSUME NEW r \in Requests, Ensure(r) \/ List(r) PROVE TurnsAreReset'
  BY <1>4 DEF Ensure, List
<1>5. ASSUME NEW r \in Requests, Open(r) \/ Query(r) PROVE TurnsAreReset'
  BY <1>2, <1>5 DEF Open, Query
<1>6. ASSUME NEW r \in Requests, Delete(r) \/ Get(r) PROVE TurnsAreReset'
  <2>1. CASE Ends(r, "error")
    BY <1>2, <2>1
  <2>2. CASE ~Ends(r, "error")
    BY <1>6, <2>2 DEF Delete, Deleted, Get, Fails
  <2> QED BY <2>1, <2>2
<1>7. ASSUME NEW r \in Requests, step[r] \in {"create", "add"}, Written(r) PROVE TurnsAreReset'
  <2>1. CASE Ends(r, "none")
    BY <1>2, <2>1
  <2>2. CASE ~Ends(r, "none")
    BY <1>7, <2>2 DEF Written
  <2> QED BY <2>1, <2>2
<1>8. ASSUME NEW r \in Requests, Create(r) PROVE TurnsAreReset'
  <2>1. CASE turn[r] \in Stocked
    BY <1>8, <2>1 DEF Create
  <2>2. CASE turn[r] \notin Stocked
    BY <1>7, <1>8, <2>2 DEF Create
  <2> QED BY <2>1, <2>2
<1>9. ASSUME NEW r \in Requests, Add(r) PROVE TurnsAreReset'
  BY <1>2, <1>7, <1>9 DEF Add, Added, Fails
<1>10. CASE Crash
  BY <1>10 DEF Crash
<1> QED
  BY <1>1, <1>3, <1>4, <1>5, <1>6, <1>8, <1>9, <1>10 DEF Next

\* What a lone review is about to query is full.
LEMMA LoneQueriesAreFull ==
  ASSUME StoreConstants, LInv, NEW r \in Requests, Lone(r), step[r] \in {"open", "query"}
  PROVE  stored["active"] = "full"
<1>1. ~broken /\ (\A q \in Requests : ~Ingesting(q)) /\ stored["active"] # "missing"
  BY DEF LInv, LoneAreUndisturbed, Undisturbed, Sound, Ingesting
<1>2. NoneIsLeftEmpty
  BY QInvSafe DEF LInv
<1> QED BY <1>1, <1>2 DEF NoneIsLeftEmpty, StoreConstants, LInv, QInv, Types, Kinds

\* A request that ends with an answer it may give keeps the rest as it is.
LEMMA EndsWell ==
  ASSUME LInv, NEW r \in Requests, NEW how, Ends(r, how), UNCHANGED met, broken' => broken,
         Ingesting(r) \/ UNCHANGED stored,
         how \in {"empty", "error"} => ~Lone(r), step[r] # "idle"
  PROVE  (Reviews /\ LoneAreUndisturbed /\ EmptyAnswersHaveACause)'
<1> USE DEF LInv, QInv, Types
<1>1. Reviews'
  BY DEF Reviews
<1>2. ASSUME NEW q \in Requests, Lone(q)'
      PROVE  Undisturbed(q)'
  <2>1. q # r
    BY <1>2 DEF Ends, Lone
  <2>2. /\ asks'[q] = asks[q] /\ step'[q] = step[q] /\ handle'[q] = handle[q]
        /\ doomed'[q] = doomed[q] /\ turn'[q] = turn[q]
    BY <2>1 DEF Ends
  <2>3. Lone(q)
    BY <1>2, <2>2 DEF Lone
  <2>4. \A p \in Requests : Ingesting(p)' => Ingesting(p)
    BY DEF Ends, Ingesting
  <2>5. Undisturbed(q)
    BY <2>3 DEF LoneAreUndisturbed
  <2>6. UNCHANGED stored
    BY <2>1, <2>5 DEF Undisturbed
  <2>7. Sound(q)'
    BY <2>2, <2>5, <2>6 DEF Undisturbed, Sound
  <2> QED BY <2>4, <2>5, <2>7 DEF Undisturbed
<1>3. ASSUME NEW q \in Requests, answer'[q] \in {"empty", "error"}
      PROVE  met'[q]
  <2>1. CASE q = r
    <3>1. asks[r] = "review" /\ how \in {"empty", "error"}
      BY <1>3, <2>1 DEF Ends
    <3> QED BY <2>1, <3>1 DEF Lone
  <2>2. CASE q # r
    <3>1. answer'[q] = answer[q]
      BY <2>2 DEF Ends
    <3> QED BY <1>3, <3>1 DEF EmptyAnswersHaveACause
  <2> QED BY <2>1, <2>2
<1> QED BY <1>1, <1>2, <1>3 DEF LoneAreUndisturbed, EmptyAnswersHaveACause

\* While an ingest is under way no other review is alone.
LEMMA IngestsAreMet ==
  ASSUME LInv, NEW r \in Requests, Ingesting(r), NEW q \in Requests, Lone(q)
  PROVE  q = r
BY DEF LInv, LoneAreUndisturbed, Undisturbed

\* An ingest that goes on need only look after itself.
LEMMA IngestGoesOn ==
  ASSUME LInv, NEW r \in Requests, Ingesting(r),
         step'[r] # "idle", \A q \in Requests \ {r} : step'[q] = step[q],
         UNCHANGED <<asks, answer, met>>, broken' => broken,
         Lone(r) => Sound(r)'
  PROVE  (Reviews /\ LoneAreUndisturbed /\ EmptyAnswersHaveACause)'
<1>1. ASSUME NEW q \in Requests, Lone(q)'
      PROVE  Undisturbed(q)'
  <2>1. Lone(q)
    BY <1>1 DEF Lone, Ingesting
  <2>2. q = r
    BY <2>1, IngestsAreMet
  <2>3. Undisturbed(r)
    BY <2>1, <2>2 DEF LInv, LoneAreUndisturbed
  <2>4. \A p \in Requests \ {r} : ~Ingesting(p)'
    BY <2>3 DEF Undisturbed, Ingesting
  <2>5. Sound(r)'
    BY <2>1, <2>2
  <2> QED BY <2>2, <2>3, <2>4, <2>5 DEF Undisturbed
<1> QED BY <1>1 DEF LInv, Reviews, LoneAreUndisturbed, EmptyAnswersHaveACause

\* A kind that is written leaves the active collection there.
LEMMA WrittenWell ==
  ASSUME LInv, NEW r \in Requests, Written(r), UNCHANGED met, broken' => broken,
         step[r] \in {"create", "add"}, Lone(r) => stored'["active"] # "missing"
  PROVE  (Reviews /\ LoneAreUndisturbed /\ EmptyAnswersHaveACause)'
<1>1. Ingesting(r) /\ step[r] # "idle"
  BY DEF Ingesting
<1>2. CASE Ends(r, "none")
  BY <1>1, <1>2, EndsWell
<1>3. CASE ~Ends(r, "none")
  <2>1. /\ step'[r] \in {"create", "open"} /\ \A q \in Requests \ {r} : step'[q] = step[q]
        /\ UNCHANGED <<asks, answer>>
    BY <1>3 DEF Written, LInv, QInv, Types
  <2>2. Lone(r) => Sound(r)'
    BY <2>1 DEF Sound
  <2> QED BY <1>1, <2>1, <2>2, IngestGoesOn
<1> QED BY <1>2, <1>3

\* Who meets an ingest, and who does not.
LEMMA MeetsWhom ==
  ASSUME Reviews, NEW r \in Requests, Meets(r), NEW q \in Requests
  PROVE  /\ met[q] => met'[q]
         /\ ~met'[q] => ~met[q] /\ (q = r \/ asks[q] # "review")
BY Zenon DEF Meets

\* Every step keeps reviews undisturbed that met nothing.
LEMMA StepLInv ==
  ASSUME StoreConstants, LInv, [Next]_vars
  PROVE  LInv'
<1> DEFINE Rest == Reviews /\ LoneAreUndisturbed /\ EmptyAnswersHaveACause
<1>0. Types
  BY DEF LInv, QInv
<1>1. QInv' /\ TurnsAreReset'
  BY <1>0, StepQInv, StepTurns DEF LInv
<1>2. CASE UNCHANGED vars
  BY <1>1, <1>2 DEF vars, LInv, Reviews, LoneAreUndisturbed, Lone, Undisturbed, Sound, Ingesting,
    EmptyAnswersHaveACause
<1>3. ASSUME NEW r \in Requests, Open(r) PROVE Rest'
  <2>1. CASE stored["active"] = "missing"
    <3>1. ~Lone(r)
      BY <1>3, <2>1 DEF LInv, LoneAreUndisturbed, Undisturbed, Sound, Open
    <3> QED BY <1>3, <2>1, <3>1, EndsWell DEF Open
  <2>2. CASE stored["active"] # "missing"
    <3>1. /\ step[r] = "open" /\ step'[r] = "query" /\ handle'[r] = "valid"
          /\ \A q \in Requests \ {r} : step'[q] = step[q] /\ handle'[q] = handle[q]
          /\ UNCHANGED <<stored, asks, doomed, turn, answer, met, broken>>
      BY <1>0, <1>3, <2>2 DEF Open, Types
    <3>2. ASSUME NEW q \in Requests, Lone(q)' PROVE Undisturbed(q)'
      <4>1. Lone(q)
        BY <3>1, <3>2 DEF Lone
      <4>2. Undisturbed(q)
        BY <4>1 DEF LInv, LoneAreUndisturbed
      <4>3. \A p \in Requests : Ingesting(p)' => Ingesting(p)
        BY <3>1 DEF Ingesting
      <4>4. Sound(q)'
        BY <2>2, <3>1, <4>2 DEF Undisturbed, Sound
      <4> QED BY <3>1, <4>2, <4>3, <4>4 DEF Undisturbed
    <3> QED BY <3>1, <3>2 DEF LInv, Reviews, LoneAreUndisturbed, EmptyAnswersHaveACause
  <2> QED BY <2>1, <2>2
<1>4. ASSUME NEW r \in Requests, Query(r) PROVE Rest'
  <2>1. Lone(r) => handle[r] = "valid" /\ stored["active"] = "full"
    BY <1>4, LoneQueriesAreFull DEF LInv, LoneAreUndisturbed, Undisturbed, Sound, Query
  <2> QED BY <1>4, <2>1, EndsWell DEF Query
<1>5. ASSUME NEW r \in Requests, Fails(r), Ingesting(r), ~Lone(r) PROVE Rest'
  BY <1>5, EndsWell DEF Fails, Ingesting
<1>7. ASSUME NEW r \in Requests, List(r) PROVE Rest'
  <2> DEFINE existing == {k \in Kinds : stored[k] # "missing"}
  <2>1. /\ step[r] = "list" /\ doomed'[r] = existing
        /\ step'[r] = IF existing = {} THEN "create" ELSE "delete"
        /\ \A q \in Requests \ {r} : step'[q] = step[q]
        /\ UNCHANGED <<stored, asks, turn, answer, met, broken>>
    BY <1>0, <1>7 DEF List, Types
  <2>2. turn[r] = "active"
    BY <2>1 DEF LInv, TurnsAreReset
  <2>3. Sound(r)'
    BY <2>1, <2>2 DEF Sound
  <2> QED BY <2>1, <2>3, IngestGoesOn DEF Ingesting
<1>8. ASSUME NEW r \in Requests, Delete(r) PROVE Rest'
  <2>1. step[r] = "delete" /\ Ingesting(r)
    BY <1>8 DEF Delete, Ingesting
  <2>2. CASE Fails(r) /\ stored[FirstOf(doomed[r])] = "missing"
    <3>1. Lone(r) => FALSE
      BY <1>0, <2>1, <2>2
         DEF LInv, LoneAreUndisturbed, Undisturbed, Sound, FirstOf, Types, Kinds
    <3> QED BY <1>5, <2>1, <2>2, <3>1
  <2>3. CASE ~(Fails(r) /\ stored[FirstOf(doomed[r])] = "missing")
    <3>1. PICK k \in Kinds : Deleted(r, k) /\ stored' = [stored EXCEPT ![k] = "missing"]
      BY <1>8, <2>3 DEF Delete, FirstOf, Kinds
    <3>2. /\ doomed'[r] = doomed[r] \ {k}
          /\ step'[r] = IF doomed[r] = {k} THEN "create" ELSE "delete"
          /\ \A q \in Requests \ {r} : step'[q] = step[q]
          /\ UNCHANGED <<asks, turn, answer, met, broken>>
      BY <1>0, <2>1, <3>1 DEF Deleted, Types
    <3>3. turn[r] = "active"
      BY <2>1 DEF LInv, TurnsAreReset
    <3>4. ASSUME Lone(r) PROVE Sound(r)'
      <4>1. doomed[r] # {} /\ \A j \in doomed[r] : stored[j] # "missing" /\ j \in Kinds
        BY <1>0, <2>1, <3>4 DEF LInv, LoneAreUndisturbed, Undisturbed, Sound, Types
      <4>2. \A j \in doomed'[r] : stored'[j] # "missing"
        BY <1>0, <3>1, <3>2, <4>1 DEF Types
      <4> QED BY <3>2, <3>3, <4>1, <4>2 DEF Sound
    <3> QED BY <2>1, <3>2, <3>4, IngestGoesOn
  <2> QED BY <2>2, <2>3
<1>9. ASSUME NEW r \in Requests, Create(r) PROVE Rest'
  <2>1. /\ step[r] = "create" /\ turn[r] \in Kinds /\ UNCHANGED <<met, broken>>
        /\ stored' = [stored EXCEPT ![turn[r]] = IF @ = "missing" THEN "empty" ELSE @]
    BY <1>0, <1>9 DEF Create, Types
  <2>2. stored'[turn[r]] # "missing" /\ (stored["active"] # "missing" => stored'["active"] # "missing")
    BY <1>0, <2>1 DEF Types, Kinds
  <2>3. Lone(r) => turn[r] = "active" \/ stored["active"] # "missing"
    BY <2>1 DEF LInv, LoneAreUndisturbed, Undisturbed, Sound
  <2>4. Lone(r) => stored'["active"] # "missing"
    BY <2>2, <2>3
  <2>5. CASE turn[r] \in Stocked
    <3>1. /\ step'[r] = "get" /\ \A q \in Requests \ {r} : step'[q] = step[q]
          /\ UNCHANGED <<asks, turn, answer>>
      BY <1>0, <1>9, <2>5 DEF Create, Types
    <3>2. Lone(r) => Sound(r)'
      BY <2>2, <2>4, <3>1 DEF Sound
    <3> QED BY <2>1, <3>1, <3>2, IngestGoesOn DEF Ingesting
  <2>6. CASE turn[r] \notin Stocked
    BY <1>9, <2>1, <2>4, <2>6, WrittenWell DEF Create
  <2> QED BY <2>5, <2>6
<1>10. ASSUME NEW r \in Requests, Get(r) PROVE Rest'
  <2>1. step[r] = "get" /\ Ingesting(r)
    BY <1>10 DEF Get, Ingesting
  <2>2. CASE stored[turn[r]] = "missing"
    BY <1>5, <1>10, <2>1, <2>2 DEF Get, LInv, LoneAreUndisturbed, Undisturbed, Sound
  <2>3. CASE stored[turn[r]] # "missing"
    <3>1. /\ step'[r] = "add" /\ handle'[r] = "valid"
          /\ \A q \in Requests \ {r} : step'[q] = step[q]
          /\ UNCHANGED <<stored, asks, turn, answer, met, broken>>
      BY <1>0, <1>10, <2>3 DEF Get, Types
    <3>2. Lone(r) => Sound(r)'
      BY <2>1, <2>3, <3>1 DEF LInv, LoneAreUndisturbed, Undisturbed, Sound
    <3> QED BY <2>1, <3>1, <3>2, IngestGoesOn
  <2> QED BY <2>2, <2>3
<1>11. ASSUME NEW r \in Requests, Add(r) PROVE Rest'
  <2>1. step[r] = "add" /\ Ingesting(r)
    BY <1>11 DEF Add, Ingesting
  <2>2. CASE handle[r] = "stale" /\ Fails(r)
    BY <1>5, <2>1, <2>2 DEF LInv, LoneAreUndisturbed, Undisturbed, Sound
  <2>3. CASE Added(r)
    <3>1. /\ stored' = [stored EXCEPT ![turn[r]] = "full"] /\ turn[r] \in Kinds
          /\ Written(r) /\ UNCHANGED met /\ (broken' => broken)
      BY <1>0, <2>3 DEF Added, Types
    <3>2. Lone(r) => turn[r] = "active" \/ stored["active"] # "missing"
      BY <2>1 DEF LInv, LoneAreUndisturbed, Undisturbed, Sound
    <3>3. Lone(r) => stored'["active"] # "missing"
      BY <1>0, <3>1, <3>2 DEF Types, Kinds
    <3> QED BY <2>1, <3>1, <3>3, WrittenWell
  <2> QED BY <1>11, <2>2, <2>3 DEF Add
<1>12. ASSUME NEW r \in Requests, Ensure(r) PROVE Rest'
  <2>1. ASSUME NEW q \in Requests, Lone(q)'
        PROVE  Undisturbed(q)'
    <3>1. CASE stored["active"] # "missing"
      <4>1. /\ step[r] = "ensure" /\ step'[r] = "open"
            /\ \A p \in Requests \ {r} : step'[p] = step[p]
            /\ UNCHANGED <<stored, asks, met, doomed, turn, handle, broken>>
        BY <1>0, <1>12, <3>1 DEF Ensure, Types
      <4>2. Lone(q)
        BY <2>1, <4>1 DEF Lone
      <4>3. Undisturbed(q)
        BY <4>2 DEF LInv, LoneAreUndisturbed
      <4>4. \A p \in Requests : Ingesting(p)' => Ingesting(p)
        BY <4>1 DEF Ingesting
      <4>5. Sound(q)'
        BY <3>1, <4>1, <4>3 DEF Undisturbed, Sound
      <4> QED BY <4>1, <4>3, <4>4, <4>5 DEF Undisturbed
    <3>2. CASE stored["active"] = "missing"
      <4>1. /\ step[r] = "ensure" /\ step'[r] = "list"
            /\ \A p \in Requests \ {r} : step'[p] = step[p]
            /\ UNCHANGED <<stored, asks, doomed, turn, handle, broken>> /\ Meets(r)
        BY <1>0, <1>12, <3>2 DEF Ensure, Types
      <4>2. q = r /\ Lone(q)
        BY <2>1, <4>1, MeetsWhom DEF Lone, LInv
      <4>3. Undisturbed(q)
        BY <4>2 DEF LInv, LoneAreUndisturbed
      <4> QED BY <4>1, <4>2, <4>3 DEF Undisturbed, Ingesting, Sound
    <3> QED BY <3>1, <3>2
  <2>2. ASSUME NEW q \in Requests, answer'[q] \in {"empty", "error"}
        PROVE  met'[q]
    <3>1. answer' = answer /\ (Meets(r) \/ UNCHANGED met)
      BY <1>12 DEF Ensure
    <3> QED BY <2>2, <3>1, MeetsWhom DEF LInv, EmptyAnswersHaveACause
  <2>3. Reviews'
    BY <1>12 DEF Ensure, Meets, LInv, Reviews
  <2> QED BY <2>1, <2>2, <2>3 DEF LoneAreUndisturbed, EmptyAnswersHaveACause
<1>13. ASSUME NEW r \in Requests, Arrives(r, "ingest") PROVE Rest'
  <2> USE DEF LInv, QInv, Types
  <2>1. /\ Meets(r) /\ asks' = [asks EXCEPT ![r] = "ingest"]
        /\ step' = [step EXCEPT ![r] = "list"] /\ answer' = [answer EXCEPT ![r] = "none"]
    BY <1>13 DEF Arrives
  <2>2. ASSUME NEW q \in Requests, Lone(q)'
        PROVE  FALSE
    BY <2>1, <2>2, MeetsWhom DEF Lone
  <2>3. ASSUME NEW q \in Requests, answer'[q] \in {"empty", "error"}
        PROVE  met'[q]
    <3>1. answer[q] \in {"empty", "error"}
      BY <2>1, <2>3
    <3> QED BY <2>1, <3>1, MeetsWhom DEF EmptyAnswersHaveACause
  <2>4. Reviews'
    BY <2>1 DEF Meets, Reviews
  <2> QED BY <2>2, <2>3, <2>4 DEF LoneAreUndisturbed, EmptyAnswersHaveACause
<1>14. ASSUME NEW r \in Requests, Arrives(r, "review") PROVE Rest'
  <2>1. /\ asks' = [asks EXCEPT ![r] = "review"] /\ step' = [step EXCEPT ![r] = "ensure"]
        /\ answer' = [answer EXCEPT ![r] = "none"]
        /\ UNCHANGED <<stored, doomed, turn, handle, broken>>
        /\ met' = [met EXCEPT ![r] = broken \/ \E q \in Requests : Ingesting(q)]
    BY <1>14 DEF Arrives
  <2>2. ~met'[r] => ~broken /\ \A q \in Requests : ~Ingesting(q)
    BY <2>1, Zenon DEF LInv, Reviews
  <2>3. \A q \in Requests \ {r} : met'[q] = met[q]
    BY <2>1
  <2>4. /\ step'[r] = "ensure" /\ answer'[r] = "none"
        /\ \A q \in Requests \ {r} : /\ step'[q] = step[q] /\ asks'[q] = asks[q]
                                     /\ answer'[q] = answer[q]
    BY <1>0, <2>1 DEF Types
  <2>5. ASSUME NEW q \in Requests, Lone(q)'
        PROVE  Undisturbed(q)'
    <3>1. \A p \in Requests : Ingesting(p)' => Ingesting(p)
      BY <2>4 DEF Ingesting
    <3>2. CASE q = r
      <4>1. ~broken /\ \A p \in Requests : ~Ingesting(p)
        BY <2>2, <2>5, <3>2 DEF Lone
      <4> QED BY <2>1, <2>4, <3>1, <3>2, <4>1 DEF Undisturbed, Sound
    <3>3. CASE q # r
      <4>1. Lone(q)
        BY <2>3, <2>4, <2>5, <3>3 DEF Lone
      <4>2. Undisturbed(q)
        BY <4>1 DEF LInv, LoneAreUndisturbed
      <4>3. Sound(q)'
        BY <2>1, <2>4, <3>3, <4>2 DEF Undisturbed, Sound
      <4> QED BY <2>1, <3>1, <4>2, <4>3 DEF Undisturbed
    <3> QED BY <3>2, <3>3
  <2>6. ASSUME NEW q \in Requests, answer'[q] \in {"empty", "error"}
        PROVE  met'[q]
    <3>1. q # r /\ answer[q] \in {"empty", "error"}
      BY <2>4, <2>6
    <3> QED BY <2>3, <3>1 DEF LInv, EmptyAnswersHaveACause
  <2>7. Reviews'
    BY <2>1 DEF LInv, Reviews
  <2> QED BY <2>5, <2>6, <2>7 DEF LoneAreUndisturbed, EmptyAnswersHaveACause
<1>15. CASE Crash
  <2>1. \A r \in Requests : step'[r] = "idle" /\ answer'[r] = "none"
    BY <1>15 DEF Crash
  <2>2. Reviews'
    BY <1>15 DEF Crash, Reviews
  <2>3. LoneAreUndisturbed'
    BY <2>1 DEF LoneAreUndisturbed, Lone
  <2>4. EmptyAnswersHaveACause'
    BY <2>1 DEF EmptyAnswersHaveACause
  <2> QED BY <1>1, <2>2, <2>3, <2>4 DEF LInv
<1>16. CASE \E r \in Requests : \E what \in {"ingest", "review"} : Arrives(r, what)
  BY <1>1, <1>13, <1>14, <1>16 DEF LInv
<1>17. CASE \E r \in Requests : Ensure(r) \/ Open(r) \/ Query(r)
  BY <1>1, <1>3, <1>4, <1>12, <1>17 DEF LInv
<1>18. CASE \E r \in Requests : List(r) \/ Delete(r) \/ Create(r) \/ Get(r) \/ Add(r)
  BY <1>1, <1>7, <1>8, <1>9, <1>10, <1>11, <1>18 DEF LInv
<1> QED BY <1>2, <1>15, <1>16, <1>17, <1>18 DEF Next

\* At the start there are no reviews.
LEMMA InitLInv ==
  ASSUME StoreConstants, Init
  PROVE  LInv
BY InitQInv DEF Init, LInv, TurnsAreReset, Reviews, LoneAreUndisturbed, Lone, EmptyAnswersHaveACause

-------------------------------------------------------------------------------
\* The columns that hold truth values, beside what Types says.
Columns == met \in [Requests -> BOOLEAN] /\ broken \in BOOLEAN

\* Every step keeps the columns.
LEMMA StepColumns ==
  ASSUME Columns, [Next]_vars
  PROVE  Columns'
<1>1. ASSUME NEW r \in Requests, Meets(r) PROVE met' \in [Requests -> BOOLEAN]
  BY <1>1, Zenon DEF Meets
<1>2. CASE UNCHANGED <<met, broken>>
  BY <1>2 DEF Columns
<1>3. ASSUME NEW r \in Requests, NEW what \in {"ingest", "review"}, Arrives(r, what)
      PROVE  Columns'
  <2>1. CASE met' = [met EXCEPT ![r] = broken \/ \E q \in Requests : Ingesting(q)]
    <3>1. met' \in [Requests -> BOOLEAN]
      BY <2>1, Zenon DEF Columns
    <3> QED BY <1>3, <3>1 DEF Arrives, Columns
  <2>2. CASE Meets(r)
    BY <1>1, <1>3, <2>2 DEF Arrives, Columns
  <2> QED BY <1>3, <2>1, <2>2 DEF Arrives
<1>4. ASSUME NEW r \in Requests, Ensure(r) PROVE Columns'
  BY <1>1, <1>2, <1>4 DEF Ensure, Columns
<1>5. ASSUME NEW r \in Requests, Added(r) PROVE Columns'
  <2>1. broken' \in BOOLEAN
    BY <1>5, Zenon DEF Added
  <2> QED BY <1>5, <2>1 DEF Added, Columns
<1>6. CASE Crash
  <2>1. broken' \in BOOLEAN
    BY <1>6, Zenon DEF Crash
  <2>2. met' \in [Requests -> BOOLEAN]
    BY <1>6, Zenon DEF Crash
  <2> QED BY <2>1, <2>2 DEF Columns
<1>7. ASSUME NEW r \in Requests,
             Open(r) \/ Query(r) \/ List(r) \/ Delete(r) \/ Create(r) \/ Get(r) \/ Fails(r)
      PROVE  UNCHANGED <<met, broken>>
  BY <1>7 DEF Open, Query, List, Delete, Deleted, Create, Get, Fails
<1> QED
  BY <1>2, <1>3, <1>4, <1>5, <1>6, <1>7 DEF Next, vars, Add

\* At the start every column is as the code leaves it.
LEMMA InitColumns == Init => Columns
<1> SUFFICES ASSUME Init PROVE Columns
  OBVIOUS
<1>1. met = [r \in Requests |-> FALSE] /\ broken = FALSE
  BY DEF Init
<1>2. met \in [Requests -> BOOLEAN]
  BY <1>1, Zenon
<1> QED BY <1>1, <1>2, Zenon DEF Columns

\* Columns and types are what the variables may hold.
LEMMA ColumnsTyped == QInv /\ Columns => TypeOK
BY Zenon DEF QInv, Types, Columns, TypeOK
================================================================================
