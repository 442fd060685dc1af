------------------------------ MODULE EngineCalls ------------------------------
(***************************************************************************)
(* The client of review-engine in a process that serves detect phases one  *)
(* after the other: the attempts of a call, the circuit breaker in the     *)
(* memory of the process, and the detect phase that ends at the first call *)
(* that raises.  The deployed worker forks a work-horse for every job, so  *)
(* the breaker of a job starts as the parent has it: closed.  The runner   *)
(* driven in one process (execute_review_run, the tests) keeps the breaker. *)
(***************************************************************************)
EXTENDS Integers

CONSTANTS
  Threshold,    \* _CIRCUIT_FAILURE_THRESHOLD
  Recovery,     \* _CIRCUIT_RECOVERY_TIMEOUT, in ticks
  MaxRetries,   \* settings.engine_max_retries
  Calls         \* review units of a detect phase

\* Assumed of the constants where the module is instantiated.
EngineConstants ==
  {Threshold, Recovery, Calls} \subseteq Nat \ {0} /\ MaxRetries \in Nat

VARIABLES
  deployment,   \* "forked" work-horses or "one_process"
  engine,       \* does review-engine answer?
  breaker,      \* _engine_circuit of the process that runs the phase
  sinceOpen,    \* ticks since the breaker opened, up to Recovery
  job,          \* calls the detect phase has left
  attempt,      \* attempt the call is at
  answered      \* how the last call ended

vars == <<deployment, engine, breaker, sinceOpen, job, attempt, answered>>

Fresh   == [state |-> "closed", failures |-> 0]
NoCall  == 0 - 1

\* The breaker counts failures no further than the threshold matters.
TypeOK ==
  /\ deployment \in {"forked", "one_process"} /\ engine \in {"up", "down"}
  /\ breaker \in [state : {"closed", "open", "half_open"}, failures : 0..Threshold]
  /\ sinceOpen \in 0..Recovery /\ job \in 0..Calls /\ attempt \in NoCall..MaxRetries
  /\ answered \in {"none", "reviewed", "garbled", "failed", "refused"}

Init ==
  /\ deployment \in {"forked", "one_process"} /\ engine = "up"
  /\ breaker = Fresh /\ sinceOpen = 0
  /\ job = 0 /\ attempt = NoCall /\ answered = "none"

-------------------------------------------------------------------------------
\* Mutant: a refused request starts the recovery time anew.
Refused_RestartsRecovery ==
  /\ breaker.state = "open" /\ sinceOpen < Recovery
  /\ sinceOpen' = 0 /\ UNCHANGED breaker

Refused ==
  /\ breaker.state = "open" /\ sinceOpen < Recovery
  /\ UNCHANGED <<breaker, sinceOpen>>

\* allow_request: a breaker that has recovered lets requests probe.
Allowed ==
  /\ \/ breaker.state # "open" /\ UNCHANGED breaker
     \/ breaker.state = "open" /\ sinceOpen = Recovery
        /\ breaker' = [breaker EXCEPT !.state = "half_open"]
  /\ UNCHANGED sinceOpen

RecordSuccess == breaker' = Fresh /\ sinceOpen' = 0

RecordFailure ==
  LET failures == IF breaker.failures < Threshold THEN breaker.failures + 1 ELSE Threshold
  IN IF breaker.state = "half_open" \/ failures = Threshold
     THEN breaker' = [state |-> "open", failures |-> failures] /\ sinceOpen' = 0
     ELSE breaker' = [breaker EXCEPT !.failures = failures] /\ UNCHANGED sinceOpen

(***************************************************************************)
(* Detect phases.                                                          *)
(***************************************************************************)
JobStarts ==
  /\ job = 0 /\ job' = Calls
  /\ IF deployment = "forked" THEN RecordSuccess ELSE UNCHANGED <<breaker, sinceOpen>>
  /\ UNCHANGED <<deployment, engine, attempt, answered>>

CallStarts ==
  /\ job > 0 /\ attempt = NoCall
  /\ \/ Allowed /\ attempt' = 0 /\ UNCHANGED <<job, answered>>
     \/ Refused /\ answered' = "refused" /\ job' = 0 /\ UNCHANGED attempt
  /\ UNCHANGED <<deployment, engine>>

\* The success is recorded before the body of the answer is parsed.
Answered ==
  /\ attempt # NoCall /\ engine = "up"
  /\ RecordSuccess /\ attempt' = NoCall
  /\ \/ answered' = "reviewed" /\ job' = job - 1
     \/ answered' = "garbled" /\ job' = 0
  /\ UNCHANGED <<deployment, engine>>

\* Timeouts, transport errors and error statuses are retried alike.
AttemptFails ==
  /\ attempt # NoCall /\ engine = "down" /\ attempt < MaxRetries
  /\ attempt' = attempt + 1
  /\ UNCHANGED <<deployment, engine, breaker, sinceOpen, job, answered>>

\* Mutant: the phase goes on with the next unit.
CallFails_PhaseGoesOn ==
  /\ attempt = MaxRetries /\ engine = "down"
  /\ RecordFailure
  /\ attempt' = NoCall /\ answered' = "failed" /\ job' = job - 1
  /\ UNCHANGED <<deployment, engine>>

CallFails ==
  /\ attempt = MaxRetries /\ engine = "down"
  /\ RecordFailure
  /\ attempt' = NoCall /\ answered' = "failed" /\ job' = 0
  /\ UNCHANGED <<deployment, engine>>

TimePasses ==
  /\ breaker.state = "open" /\ sinceOpen < Recovery /\ sinceOpen' = sinceOpen + 1
  /\ UNCHANGED <<deployment, engine, breaker, job, attempt, answered>>

EngineGoes(from, to) ==
  /\ engine = from /\ engine' = to
  /\ UNCHANGED <<deployment, breaker, sinceOpen, job, attempt, answered>>

Serve == JobStarts \/ CallStarts \/ Answered \/ AttemptFails \/ CallFails

Next == Serve \/ TimePasses \/ EngineGoes("up", "down") \/ EngineGoes("down", "up")

Spec == Init /\ [][Next]_vars /\ WF_vars(Serve) /\ WF_vars(TimePasses)

-------------------------------------------------------------------------------
\* In the deployed worker no call is ever refused: a phase ends at its first
\* failed call and the next one runs in a new work-horse, so the count of
\* consecutive failures never gets beyond one (worker.py:118, _CircuitBreaker).
WorkHorsesAreNeverRefused ==
  deployment = "forked" => answered # "refused" /\ breaker.failures <= 1

\* An engine that is back is heard again, however long it was away and however
\* often the breaker opened and its probes failed.
EngineIsHeardAgain == <>[](engine = "up") => []<>(answered \in {"reviewed", "garbled"})
================================================================================
