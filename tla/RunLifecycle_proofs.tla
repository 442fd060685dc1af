-------------------------- MODULE RunLifecycle_proofs --------------------------
(***************************************************************************)
(* What follows from the abstract life of a run, for any set of runs.      *)
(***************************************************************************)
EXTENDS RunLifecycle, TLAPS

\* The row and the phase of a run keep their types.
LEMMA LifecycleTypes == Spec => []LifecycleTypeOK
<1>1. Init => LifecycleTypeOK
  BY DEF Init, LifecycleTypeOK, Statuses, Phases
<1>2. LifecycleTypeOK /\ [Next]_lifecycle => LifecycleTypeOK'
  <2> SUFFICES ASSUME LifecycleTypeOK, [Next]_lifecycle PROVE LifecycleTypeOK'
    OBVIOUS
  <2> USE DEF LifecycleTypeOK, Statuses, Phases
  <2>1. ASSUME NEW r \in Runs, Accept(r) \/ Schedule(r) \/ Start(r) \/ Leave(r)
        PROVE  LifecycleTypeOK'
    BY <2>1 DEF Accept, Schedule, Start, Leave
  <2>2. ASSUME NEW r \in Runs, Pass(r) PROVE LifecycleTypeOK'
    BY <2>2 DEF Pass
  <2>3. ASSUME NEW r \in Runs, End(r) PROVE LifecycleTypeOK'
    BY <2>3 DEF End, Ended
  <2>4. CASE UNCHANGED lifecycle
    BY <2>4 DEF lifecycle
  <2> QED
    BY <2>1, <2>2, <2>3, <2>4 DEF Next
<1> QED
  BY <1>1, <1>2, PTL DEF Spec

\* A run that has ended keeps its outcome and enters no further phase, whatever
\* the lives of the other runs; ReviewRuns implements this life where requests
\* are served one after another.
THEOREM EndedRunsStayEnded == Spec => EndedStaysEnded
<1>1. LifecycleTypeOK /\ [Next]_lifecycle =>
        [\A r \in Runs : status[r] \in Ended
           => status'[r] = status[r] /\ phase'[r] \in {phase[r], "none"}]_lifecycle
  <2> SUFFICES ASSUME LifecycleTypeOK, [Next]_lifecycle,
                      NEW q \in Runs, status[q] \in Ended
               PROVE  status'[q] = status[q] /\ phase'[q] \in {phase[q], "none"}
    OBVIOUS
  <2> USE DEF LifecycleTypeOK, Ended
  <2>1. ASSUME NEW r \in Runs, Accept(r) \/ Schedule(r) \/ Start(r) \/ Pass(r)
        PROVE  status'[q] = status[q] /\ phase'[q] \in {phase[q], "none"}
    BY <2>1 DEF Accept, Schedule, Start, Pass
  <2>2. ASSUME NEW r \in Runs, End(r) \/ Leave(r)
        PROVE  status'[q] = status[q] /\ phase'[q] \in {phase[q], "none"}
    BY <2>2 DEF End, Leave
  <2>3. CASE UNCHANGED lifecycle
    BY <2>3 DEF lifecycle
  <2> QED
    BY <2>1, <2>2, <2>3 DEF Next
<1> QED
  BY <1>1, LifecycleTypes, PTL DEF Spec, EndedStaysEnded
================================================================================
