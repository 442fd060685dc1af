----------------------------- MODULE RunLifecycle -----------------------------
(***************************************************************************)
(* What a review run promises to those who read its row: it waits, it      *)
(* goes through detect, publish and sync, each once and in this order, and *)
(* it ends once.  A run may be dropped where it is, with its status, when  *)
(* the process that carries it dies.  ReviewRuns implements this where     *)
(* requests are served one after another.                                  *)
(***************************************************************************)
CONSTANTS Runs

VARIABLES
  status,   \* what the row says
  phase     \* the phase the run is in or waits for

lifecycle == <<status, phase>>

Phases   == {"none", "detect", "publish", "sync"}
Statuses == {"unborn", "queued", "running", "failed", "partial", "success"}
Ended    == {"failed", "partial", "success"}

LifecycleTypeOK == status \in [Runs -> Statuses] /\ phase \in [Runs -> Phases]

Init == status = [r \in Runs |-> "unborn"] /\ phase = [r \in Runs |-> "none"]

Accept(r) ==
  /\ status[r] = "unborn"
  /\ status' = [status EXCEPT ![r] = "queued"] /\ UNCHANGED phase

Schedule(r) ==
  /\ status[r] = "queued" /\ phase[r] = "none"
  /\ phase' = [phase EXCEPT ![r] = "detect"] /\ UNCHANGED status

Start(r) ==
  /\ status[r] = "queued" /\ phase[r] = "detect"
  /\ status' = [status EXCEPT ![r] = "running"] /\ UNCHANGED phase

\* The next phase, of a run that has not failed.
Pass(r) ==
  /\ status[r] = "running"
  /\ \E p \in {<<"detect", "publish">>, <<"publish", "sync">>} :
        phase[r] = p[1] /\ phase' = [phase EXCEPT ![r] = p[2]]
  /\ UNCHANGED status

\* Only a sync ends a run well; a failure may leave the phase at once.
End(r) ==
  /\ status[r] \in {"queued", "running"}
  /\ \/ status' = [status EXCEPT ![r] = "failed"]
     \/ /\ status[r] = "running" /\ phase[r] = "sync"
        /\ \E end \in Ended : status' = [status EXCEPT ![r] = end]
  /\ phase' \in {phase, [phase EXCEPT ![r] = "none"]}

\* The phase is over, or its worker died.
Leave(r) == phase' = [phase EXCEPT ![r] = "none"] /\ UNCHANGED status

Next == \E r \in Runs :
  Accept(r) \/ Schedule(r) \/ Start(r) \/ Pass(r) \/ End(r) \/ Leave(r)

Spec == Init /\ [][Next]_lifecycle

\* A run that has ended is never touched again: no late job brings it back to
\* running or turns a failure into a success, and it enters no further phase.
EndedStaysEnded ==
  [][\A r \in Runs : status[r] \in Ended
       => status'[r] = status[r] /\ phase'[r] \in {phase[r], "none"}]_lifecycle
================================================================================
