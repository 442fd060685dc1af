--------------------------- MODULE SerialRuns_proofs ---------------------------
(***************************************************************************)
(* Theorems about ReviewRuns where requests are served one after another,  *)
(* as note hooks are: no run has two jobs, no two queued runs share a      *)
(* target, and the pipeline implements RunLifecycle, for every number of   *)
(* workers, runs and requests, wherever phases and enqueues fail and       *)
(* workers die.                                                            *)
(***************************************************************************)
EXTENDS ReviewRuns_proofs

\* One handler at work, nobody replays, handlers live and Redis answers the
\* truth about an enqueue.
SerialIntake ==
  /\ \A g, h \in Handlers : g = h
  /\ MaxReplays = 0
  /\ "api_dies" \notin Faults /\ "enqueue_ambiguous" \notin Faults

(***************************************************************************)
(* Where the jobs are: on queues q or with workers wk.                     *)
(***************************************************************************)
NoTwice(seq) == \A i, j \in DOMAIN seq : seq[i] = seq[j] => i = j

At(wk, w, r) == wk[w].pc # "idle" /\ wk[w].run = r

\* The job of run r is one of stage s.
InStage(q, wk, r, s) ==
  \/ r \in Range(q[s])
  \/ \E w \in Workers : At(wk, w, r) /\ wk[w].stage = s

\* No run is in two places.
Apart(q, wk) ==
  /\ \A s \in Stages : NoTwice(q[s])
  /\ \A s, t \in Stages : s # t => Range(q[s]) \cap Range(q[t]) = {}
  /\ \A w \in Workers, r \in Runs : At(wk, w, r) => \A s \in Stages : r \notin Range(q[s])
  /\ \A w, v \in Workers, r \in Runs : At(wk, w, r) /\ At(wk, v, r) => w = v

JobsTyped(q, wk) ==
  /\ q \in [Stages -> Seq(Runs)]
  /\ \A w \in Workers : wk[w].pc # "idle" => wk[w].run \in Runs /\ wk[w].stage \in Stages

LEMMA NoTwiceInTail ==
  ASSUME NEW q \in Seq(Runs), q # <<>>, NoTwice(q)
  PROVE  NoTwice(Tail(q)) /\ Head(q) \notin Range(Tail(q))
  <1>1. /\ Tail(q) \in Seq(Runs) /\ Len(Tail(q)) = Len(q) - 1 /\ Len(q) \in Nat \ {0}
        /\ \A i \in 1..(Len(q) - 1) : Tail(q)[i] = q[i + 1]
    OBVIOUS
  <1>2. DOMAIN Tail(q) = 1..(Len(q) - 1) /\ DOMAIN q = 1..Len(q)
    BY <1>1
  <1>3. ASSUME NEW i \in DOMAIN Tail(q), NEW j \in DOMAIN Tail(q), Tail(q)[i] = Tail(q)[j]
        PROVE  i = j
    <2>1. i + 1 \in DOMAIN q /\ j + 1 \in DOMAIN q /\ q[i + 1] = q[j + 1]
      BY <1>1, <1>2, <1>3
    <2>2. i + 1 = j + 1
      BY <2>1 DEF NoTwice
    <2> QED
      BY <1>1, <1>2, <2>2
  <1>4. ASSUME NEW i \in DOMAIN Tail(q), Tail(q)[i] = Head(q) PROVE FALSE
    <2>1. i + 1 \in DOMAIN q /\ 1 \in DOMAIN q /\ q[i + 1] = q[1] /\ i + 1 # 1
      BY <1>1, <1>2, <1>4
    <2> QED
      BY <2>1 DEF NoTwice
  <1> QED
    BY <1>3, <1>4 DEF NoTwice, Range

LEMMA NoTwiceInAppend ==
  ASSUME NEW q \in Seq(Runs), NoTwice(q), NEW r \in Runs, r \notin Range(q)
  PROVE  NoTwice(Append(q, r))
  <1>1. /\ Len(q) \in Nat /\ DOMAIN q = 1..Len(q)
        /\ DOMAIN Append(q, r) = 1..(Len(q) + 1)
        /\ \A i \in 1..Len(q) : Append(q, r)[i] = q[i]
        /\ Append(q, r)[Len(q) + 1] = r
    OBVIOUS
  <1>2. \A i \in 1..Len(q) : q[i] # r
    BY <1>1 DEF Range
  <1>3. ASSUME NEW i \in 1..(Len(q) + 1), NEW j \in 1..(Len(q) + 1),
               Append(q, r)[i] = Append(q, r)[j]
        PROVE  i = j
    <2>1. CASE i = Len(q) + 1
      BY <1>1, <1>2, <1>3, <2>1
    <2>2. CASE i # Len(q) + 1 /\ j = Len(q) + 1
      BY <1>1, <1>2, <1>3, <2>2
    <2>3. CASE i # Len(q) + 1 /\ j # Len(q) + 1
      <3>1. i \in 1..Len(q) /\ j \in 1..Len(q) /\ q[i] = q[j]
        BY <1>1, <1>3, <2>3
      <3> QED
        BY <1>1, <3>1 DEF NoTwice
    <2> QED
      BY <2>1, <2>2, <2>3
  <1> QED
    BY <1>1, <1>3 DEF NoTwice

\* A worker takes the first job of a queue: nothing changes its stage.
Takes(q, wk, q2, wk2, s, w) ==
  /\ q[s] # <<>> /\ q2[s] = Tail(q[s]) /\ \A t \in Stages \ {s} : q2[t] = q[t]
  /\ wk[w].pc = "idle" /\ At(wk2, w, Head(q[s])) /\ wk2[w].stage = s
  /\ \A v \in Workers \ {w} : wk2[v] = wk[v]

LEMMA JobTaken ==
  ASSUME NEW q, NEW wk, NEW q2, NEW wk2, JobsTyped(q, wk), Apart(q, wk),
         NEW s \in Stages, NEW w \in Workers, Takes(q, wk, q2, wk2, s, w)
  PROVE  /\ Apart(q2, wk2)
         /\ \A r \in Runs, t \in Stages : InStage(q2, wk2, r, t) <=> InStage(q, wk, r, t)
  <1> USE DEF Takes
  <1>0. PICK h : h = Head(q[s])
    OBVIOUS
  <1>1. q \in [Stages -> Seq(Runs)] /\ q[s] \in Seq(Runs) /\ h \in Runs
    BY <1>0 DEF JobsTyped
  <1>2. /\ q2[s] = Tail(q[s]) /\ \A t \in Stages \ {s} : q2[t] = q[t]
        /\ wk2[w].stage = s /\ \A v \in Workers \ {w} : wk2[v] = wk[v]
    BY <1>1
  <1>3. Range(q[s]) = Range(q2[s]) \cup {h} /\ h \notin Range(q2[s]) /\ NoTwice(q2[s])
    BY <1>0, <1>1, <1>2, RangeOfTail, NoTwiceInTail DEF Apart
  <1>4. \A r \in Runs : At(wk2, w, r) <=> r = h
    BY <1>0 DEF At
  <1>5. \A v \in Workers \ {w}, r \in Runs : At(wk2, v, r) <=> At(wk, v, r)
    BY DEF At
  <1>6. \A r \in Runs : ~At(wk, w, r)
    BY DEF At
  <1>7. \A v \in Workers : ~At(wk, v, h)
    BY <1>1, <1>3 DEF Apart
  <1> HIDE DEF Takes
  <1>8. Apart(q2, wk2)
    <2>1. \A t \in Stages : NoTwice(q2[t])
      BY <1>2, <1>3 DEF Apart
    <2>2. \A t \in Stages : t # s => h \notin Range(q2[t])
      BY <1>1, <1>2, <1>3 DEF Apart
    <2>3. \A t \in Stages : Range(q2[t]) \subseteq Range(q[t])
      BY <1>2, <1>3
    <2>4. \A t, u \in Stages : t # u => Range(q2[t]) \cap Range(q2[u]) = {}
      BY <2>3 DEF Apart
    <2>5. \A v \in Workers, r \in Runs : At(wk2, v, r) => \A t \in Stages : r \notin Range(q2[t])
      BY <1>3, <1>4, <1>5, <2>2, <2>3 DEF Apart
    <2>6. \A u, v \in Workers, r \in Runs : At(wk2, u, r) /\ At(wk2, v, r) => u = v
      BY <1>4, <1>5, <1>7 DEF Apart
    <2> QED
      BY <2>1, <2>4, <2>5, <2>6 DEF Apart
  <1>9. ASSUME NEW r \in Runs, NEW t \in Stages
        PROVE  InStage(q2, wk2, r, t) <=> InStage(q, wk, r, t)
    <2>1. CASE r = h
      <3>1. InStage(q2, wk2, h, t) <=> t = s
        <4>1. h \notin Range(q2[t])
          BY <1>1, <1>2, <1>3 DEF Apart
        <4>2. \A v \in Workers : At(wk2, v, h) => v = w
          BY <1>1, <1>5, <1>7
        <4> QED
          BY <1>1, <1>2, <1>4, <4>1, <4>2 DEF InStage
      <3>2. InStage(q, wk, h, t) <=> t = s
        BY <1>1, <1>3, <1>7 DEF Apart, InStage
      <3> QED
        BY <2>1, <3>1, <3>2
    <2>2. CASE r # h
      <3>1. r \in Range(q2[t]) <=> r \in Range(q[t])
        BY <1>2, <1>3, <2>2
      <3>2. \A v \in Workers : At(wk2, v, r) /\ wk2[v].stage = t <=> At(wk, v, r) /\ wk[v].stage = t
        BY <1>2, <1>4, <1>5, <1>6, <2>2
      <3> QED
        BY <3>1, <3>2 DEF InStage
    <2> QED
      BY <2>1, <2>2
  <1> QED
    BY <1>8, <1>9

\* The job of worker w ends.
LEMMA JobEnded ==
  ASSUME NEW q, NEW wk, NEW wk2, Apart(q, wk),
         NEW w \in Workers, NEW r \in Runs, At(wk, w, r), wk2[w].pc = "idle",
         \A v \in Workers \ {w} : wk2[v] = wk[v]
  PROVE  /\ Apart(q, wk2)
         /\ \A t \in Stages : ~InStage(q, wk2, r, t)
         /\ \A p \in Runs \ {r}, t \in Stages : InStage(q, wk2, p, t) <=> InStage(q, wk, p, t)
  <1>1. \A p : ~At(wk2, w, p)
    BY DEF At
  <1>2. \A v \in Workers \ {w}, p \in Runs : At(wk2, v, p) <=> At(wk, v, p)
    BY DEF At
  <1>3. \A v \in Workers \ {w} : ~At(wk, v, r)
    BY DEF Apart
  <1>4. Apart(q, wk2)
    BY <1>1, <1>2 DEF Apart
  <1>5. \A t \in Stages : ~InStage(q, wk2, r, t)
    BY <1>1, <1>2, <1>3 DEF Apart, InStage
  <1>6. \A p \in Runs \ {r} : ~At(wk, w, p)
    BY DEF At
  <1>7. ASSUME NEW p \in Runs \ {r}, NEW t \in Stages
        PROVE  InStage(q, wk2, p, t) <=> InStage(q, wk, p, t)
    <2>1. \A v \in Workers : At(wk2, v, p) <=> At(wk, v, p)
      BY <1>1, <1>2, <1>6
    <2>2. \A v \in Workers : At(wk, v, p) => wk2[v].stage = wk[v].stage
      BY <1>6
    <2> QED
      BY <2>1, <2>2 DEF InStage
  <1> QED
    BY <1>4, <1>5, <1>7

\* A job is placed for a run that has none.
Places(q, wk, q2, r, s) ==
  /\ q \in [Stages -> Seq(Runs)]
  /\ \A t \in Stages : ~InStage(q, wk, r, t)
  /\ \A v \in Workers : wk[v].pc # "idle" => wk[v].stage \in Stages
  /\ q2[s] = Append(q[s], r) /\ \A t \in Stages \ {s} : q2[t] = q[t]

LEMMA JobAppended ==
  ASSUME NEW q, NEW wk, NEW q2, NEW r \in Runs, NEW s \in Stages,
         Apart(q, wk), Places(q, wk, q2, r, s)
  PROVE  /\ Apart(q2, wk)
         /\ \A t \in Stages : InStage(q2, wk, r, t) <=> t = s
         /\ \A p \in Runs \ {r}, t \in Stages : InStage(q2, wk, p, t) <=> InStage(q, wk, p, t)
  <1>1. q2[s] = Append(q[s], r) /\ q[s] \in Seq(Runs) /\ \A t \in Stages \ {s} : q2[t] = q[t]
    BY DEF Places
  <1>2. \A t \in Stages : r \notin Range(q[t])
    BY DEF Places, InStage
  <1>3. \A v \in Workers : ~At(wk, v, r)
    BY DEF Places, InStage, At
  <1>4. Range(q2[s]) = Range(q[s]) \cup {r} /\ NoTwice(q2[s])
    BY <1>1, <1>2, RangeOfAppend, NoTwiceInAppend DEF Apart
  <1>5. \A t \in Stages : Range(q2[t]) = IF t = s THEN Range(q[t]) \cup {r} ELSE Range(q[t])
    BY <1>1, <1>4
  <1>6. Apart(q2, wk)
    <2>1. \A t \in Stages : NoTwice(q2[t])
      BY <1>1, <1>4 DEF Apart
    <2>2. ASSUME NEW t \in Stages, NEW u \in Stages, t # u,
                 NEW p \in Range(q2[t]) \cap Range(q2[u])
          PROVE  FALSE
      <3>1. CASE p = r
        BY <1>2, <1>5, <2>2, <3>1
      <3>2. CASE p # r
        <4>1. p \in Range(q[t])
          BY <1>5, <2>2, <3>2
        <4>2. p \in Range(q[u])
          BY <1>5, <2>2, <3>2
        <4> QED
          BY <2>2, <4>1, <4>2 DEF Apart
      <3> QED
        BY <3>1, <3>2
    <2>3. \A v \in Workers, p \in Runs : At(wk, v, p) => \A t \in Stages : p \notin Range(q2[t])
      BY <1>3, <1>5 DEF Apart
    <2>4. \A t, u \in Stages : t # u => Range(q2[t]) \cap Range(q2[u]) = {}
      BY <2>2
    <2> QED
      BY <2>1, <2>3, <2>4 DEF Apart
  <1>7. \A t \in Stages : InStage(q2, wk, r, t) <=> t = s
    BY <1>2, <1>3, <1>5 DEF InStage
  <1>8. \A p \in Runs \ {r}, t \in Stages : InStage(q2, wk, p, t) <=> InStage(q, wk, p, t)
    BY <1>5 DEF InStage
  <1> QED
    BY <1>6, <1>7, <1>8

\* Workers go on with the jobs they have.
LEMMA JobsKept ==
  ASSUME NEW q, NEW wk, NEW wk2, Apart(q, wk),
         \A v \in Workers : /\ wk2[v].pc = "idle" <=> wk[v].pc = "idle"
                            /\ wk2[v].run = wk[v].run /\ wk2[v].stage = wk[v].stage
  PROVE  /\ Apart(q, wk2)
         /\ \A p \in Runs, t \in Stages : InStage(q, wk2, p, t) <=> InStage(q, wk, p, t)
  <1>1. \A v \in Workers, p \in Runs : At(wk2, v, p) <=> At(wk, v, p)
    BY DEF At
  <1> QED
    BY <1>1 DEF Apart, InStage

(***************************************************************************)
(* The invariant of serial requests.                                       *)
(***************************************************************************)
\* Nothing runs that no request placed.
JobsWerePlaced == \A r \in Runs : HasJob(r) => JobPlaced(r)

\* A handler inserts a target nobody waits for and places a job for a queued
\* run without one.
InOrder(h) ==
  /\ handler[h].pc = "insert" =>
       \A q \in Runs : row[q].status = "queued"
                        => row[q].target # row[handler[h].run].target
  /\ handler[h].pc = "refresh" =>
       row[handler[h].run].status = "queued" /\ ~row[handler[h].run].job
  /\ handler[h].pc = "dispatch" =>
       /\ handler[h].seen = row[handler[h].run].job
       /\ ~handler[h].seen => row[handler[h].run].status = "queued"

\* A run without a job is the one a handler is about to place a job for.
RequestsInOrder ==
  /\ \A h \in Handlers : InOrder(h)
  /\ \A r \in Runs : row[r].status \in Pending /\ ~JobPlaced(r) =>
       \E h \in Handlers : handler[h].pc \in {"refresh", "dispatch"} /\ handler[h].run = r

\* The status a job finds when it is taken.
Due(s) == IF s = "detect" THEN "queued" ELSE "running"

\* What the worker with local state x has made of the status of its run.
Fits(x, status) ==
  /\ x.pc = "begin" => status = Due(x.stage)
  /\ x.pc \in {"work", "counted", "follow", "mark"} => status = "running"
  /\ x.pc \in {"work", "counted"} => x.loaded = "running"
  /\ x.pc \in {"counted", "cleanup"} => x.stage = "sync"
  /\ x.pc = "cleanup" => status \in Terminal

StatusFitsJob ==
  /\ \A s \in Stages : \A r \in JobsIn(s) : row[r].status = Due(s)
  /\ \A w \in Workers : Busy(w) => Fits(worker[w], row[worker[w].run].status)

SerialInv ==
  JobsWerePlaced /\ RequestsInOrder /\ StatusFitsJob /\ Apart(queues, worker) /\ NoTwinQueuedRuns

LEMMA TypedJobs == TypeOK => JobsTyped(queues, worker)
  <1> SUFFICES ASSUME TypeOK PROVE JobsTyped(queues, worker)
    OBVIOUS
  <1>1. ASSUME NEW w \in Workers, worker[w].pc # "idle"
        PROVE  worker[w].run \in Runs /\ worker[w].stage \in Stages
    <2>1. worker[w] \in WorkerBusy
      BY <1>1, WorkerWrites DEF TypeOK
    <2> QED
      BY <2>1 DEF WorkerBusy
  <1> QED
    BY <1>1 DEF JobsTyped, TypeOK

LEMMA JobsInStages ==
  JobsTyped(queues, worker) =>
    \A r \in Runs : HasJob(r) <=> \E s \in Stages : InStage(queues, worker, r, s)
  BY DEF JobsTyped, HasJob, InStage, At, JobsIn, Busy, WorkerAt

\* PhaseOf is the stage of the one job of the run.
LEMMA PhaseIsStage ==
  JobsTyped(queues, worker) /\ Apart(queues, worker) =>
    \A r \in Runs :
      /\ \A s \in Stages : InStage(queues, worker, r, s) => PhaseOf(r) = s
      /\ (\A s \in Stages : ~InStage(queues, worker, r, s)) => PhaseOf(r) = "none"
  <1> SUFFICES ASSUME JobsTyped(queues, worker), Apart(queues, worker), NEW r \in Runs
               PROVE  /\ \A s \in Stages : InStage(queues, worker, r, s) => PhaseOf(r) = s
                      /\ (\A s \in Stages : ~InStage(queues, worker, r, s))
                           => PhaseOf(r) = "none"
    OBVIOUS
  <1>1. ASSUME NEW s \in Stages, NEW t \in Stages,
               InStage(queues, worker, r, s), InStage(queues, worker, r, t)
        PROVE  s = t
    BY <1>1 DEF Apart, InStage
  <1>2. \A s \in Stages :
          InStage(queues, worker, r, s) <=>
            \/ r \in JobsIn(s)
            \/ \E w \in Workers : Busy(w) /\ worker[w].run = r /\ worker[w].stage = s
    BY DEF InStage, At, JobsIn, Busy, WorkerAt
  <1>3. ASSUME NEW s \in Stages, InStage(queues, worker, r, s) PROVE PhaseOf(r) = s
    <2>1. HasJob(r)
      BY <1>3, JobsInStages
    <2>2. InStage(queues, worker, r, PhaseOf(r)) /\ PhaseOf(r) \in Stages
      BY <1>2, <1>3, <2>1 DEF PhaseOf
    <2> QED
      BY <1>1, <1>3, <2>2
  <1>4. (\A s \in Stages : ~InStage(queues, worker, r, s)) => PhaseOf(r) = "none"
    BY JobsInStages DEF PhaseOf
  <1> QED
    BY <1>3, <1>4

\* Jobs, stages and phases say the same, before a step and after it.
JobsAgree ==
  /\ JobsTyped(queues, worker)
  /\ \A r \in Runs :
       /\ HasJob(r) <=> \E s \in Stages : InStage(queues, worker, r, s)
       /\ \A s \in Stages : InStage(queues, worker, r, s) => PhaseOf(r) = s
       /\ (\A s \in Stages : ~InStage(queues, worker, r, s)) => PhaseOf(r) = "none"

LEMMA JobsAgreeing == TypeOK /\ Apart(queues, worker) => JobsAgree
  BY TypedJobs, JobsInStages, PhaseIsStage DEF JobsAgree

LEMMA JobsAgreeAfter == TypeOK' /\ Apart(queues, worker)' => JobsAgree'
  BY JobsAgreeing, PTL

\* The jobs of run r are where they were.
SameStages(r) ==
  \A s \in Stages : InStage(queues', worker', r, s) <=> InStage(queues, worker, r, s)

LEMMA PhaseStays ==
  ASSUME JobsAgree, JobsAgree', NEW r \in Runs, SameStages(r)
  PROVE  PhaseOf(r)' = PhaseOf(r) /\ (HasJob(r)' <=> HasJob(r))
  <1>1. CASE \E s \in Stages : InStage(queues, worker, r, s)
    BY <1>1 DEF JobsAgree, SameStages
  <1>2. CASE \A s \in Stages : ~InStage(queues, worker, r, s)
    BY <1>2 DEF JobsAgree, SameStages
  <1> QED
    BY <1>1, <1>2

(***************************************************************************)
(* A step about one run, seen from the lifecycle.                          *)
(***************************************************************************)
Moves(r, from, before, to, after) ==
  /\ row[r].status = from /\ PhaseOf(r) = before
  /\ row'[r].status = to /\ PhaseOf(r)' = after
  /\ \A p \in Runs \ {r} : row'[p].status = row[p].status /\ PhaseOf(p)' = PhaseOf(p)

\* The moves RunLifecycle allows.
Allowed(from, before, to, after) ==
  \/ from = to /\ before = after
  \/ from = "unborn" /\ to = "queued" /\ before = after
  \/ from = "queued" /\ to = "queued" /\ before = "none" /\ after = "detect"
  \/ from = "queued" /\ to = "running" /\ before = "detect" /\ after = "detect"
  \/ from = "running" /\ to = "running" /\ before = "detect" /\ after = "publish"
  \/ from = "running" /\ to = "running" /\ before = "publish" /\ after = "sync"
  \/ from \in Pending /\ to = "failed" /\ after \in {before, "none"}
  \/ from = "running" /\ to \in Terminal /\ before = "sync" /\ after = "sync"
  \/ from = to /\ after = "none"

LEMMA LifecycleStep ==
  ASSUME NEW r \in Runs, NEW from, NEW before, NEW to, NEW after,
         Moves(r, from, before, to, after), Allowed(from, before, to, after)
  PROVE  [Lifecycle!Next]_(Lifecycle!lifecycle)
  <1> DEFINE status  == [p \in Runs |-> row[p].status]
             phase   == [p \in Runs |-> PhaseOf(p)]
             status2 == [p \in Runs |-> row'[p].status]
             phase2  == [p \in Runs |-> PhaseOf(p)']
  <1>1. status2 = [status EXCEPT ![r] = to] /\ phase2 = [phase EXCEPT ![r] = after]
    BY DEF Moves
  <1>2. status[r] = from /\ phase[r] = before
    BY DEF Moves
  <1>3. from = to => status2 = status
    BY <1>1, <1>2
  <1>4. before = after => phase2 = phase
    BY <1>1, <1>2
  <1>5. status' = status2 /\ phase' = phase2
    OBVIOUS
  <1> HIDE DEF status, phase, status2, phase2
  <1>6. \/ status2 = status /\ phase2 = phase
        \/ Lifecycle!Accept(r) \/ Lifecycle!Schedule(r) \/ Lifecycle!Start(r)
        \/ Lifecycle!Pass(r) \/ Lifecycle!End(r) \/ Lifecycle!Leave(r)
    BY <1>1, <1>2, <1>3, <1>4, <1>5
       DEF Allowed, Lifecycle!Accept, Lifecycle!Schedule, Lifecycle!Start, Lifecycle!Pass,
           Lifecycle!End, Lifecycle!Leave, Lifecycle!Ended, Pending, Terminal, status, phase
  <1> QED
    BY <1>5, <1>6 DEF Lifecycle!Next, Lifecycle!lifecycle, status, phase

(***************************************************************************)
(* What a worker does to the run it has, in six kinds of steps.            *)
(***************************************************************************)
OwnRun(w, r) ==
  /\ r \in Runs /\ At(worker, w, r) /\ handler' = handler
  /\ row'[r].job = row[r].job /\ \A p \in Runs \ {r} : row'[p] = row[p]
  /\ \A v \in Workers \ {w} : worker'[v] = worker[v]

GoesOn(w, r) ==
  /\ queues' = queues /\ At(worker', w, r)
  /\ worker'[w].stage = worker[w].stage /\ Fits(worker'[w], row'[r].status)

Starts(w, r) ==
  /\ GoesOn(w, r) /\ worker[w].stage = "detect"
  /\ row[r].status = "queued" /\ row'[r].status = "running"

Proceeds(w, r) ==
  GoesOn(w, r) /\ row[r].status = "running" /\ row'[r].status = "running"

Finishes(w, r) ==
  /\ GoesOn(w, r) /\ worker[w].stage = "sync"
  /\ row[r].status = "running" /\ row'[r].status \in Terminal

Stops(w, r) == queues' = queues /\ worker'[w].pc = "idle" /\ row' = row

Fails(w, r) ==
  /\ queues' = queues /\ worker'[w].pc = "idle"
  /\ row[r].status = "running" /\ row'[r].status = "failed"

HandsOver(w, r) ==
  /\ worker[w].stage \in {"detect", "publish"} /\ row[r].status = "running"
  /\ queues' = [queues EXCEPT ![FollowUp(worker[w].stage)] = Append(@, r)]
  /\ worker'[w].pc = "idle" /\ row' = row

WorkerEffect(w, r) ==
  /\ OwnRun(w, r)
  /\ \/ Starts(w, r) \/ Proceeds(w, r) \/ Finishes(w, r)
     \/ Stops(w, r) \/ Fails(w, r) \/ HandsOver(w, r)

LEMMA WorkerEffects ==
  ASSUME TypeOK, StatusFitsJob, "enqueue_ambiguous" \notin Faults,
         NEW w \in Workers, WorkerStep(w) \/ WorkerDies(w), \A s \in Stages : ~TakeJob(w, s)
  PROVE  \E r \in Runs : WorkerEffect(w, r)
<1>0. PICK r : r = worker[w].run
  OBVIOUS
<1>1. /\ row \in [Runs -> Rows]
      /\ worker \in [Workers -> {WorkerIdle} \cup WorkerBusy]
      /\ worker[w].pc # "idle" => r \in Runs
  BY <1>0, BusyOnRuns DEF TypeOK
<1> USE DEF tables, counts, history, WorkerAt, WorkerGoes, JobEnds
<1>2. worker[w].pc # "idle"
  BY DEF WorkerStep, BeginDetect, BeginFollowUp, DetectCommits, PublishCommits,
         SyncCounts, SyncCommits, CleanupDeadLetters, PhaseFails, EnqueueFollowUp,
         FollowUpEnqueueFails, MarkFollowUpFailure, WorkerDies, Busy
<1>3. r \in Runs /\ worker[w].run = r /\ Fits(worker[w], row[r].status)
  BY <1>0, <1>1, <1>2 DEF StatusFitsJob, Busy
<1>4. SUFFICES WorkerEffect(w, r)
  BY <1>3
<1>5. At(worker, w, r)
  BY <1>2, <1>3 DEF At
<1>6. ASSUME worker' = [worker EXCEPT ![w] = WorkerIdle]
      PROVE  worker'[w].pc = "idle" /\ \A v \in Workers \ {w} : worker'[v] = worker[v]
  BY <1>1, <1>6 DEF WorkerIdle
<1>7. ASSUME NEW to, row'[r].status = to, row'[r].job = row[r].job,
             \A p \in Runs \ {r} : row'[p] = row[p], handler' = handler, queues' = queues,
             worker'[w].run = r, worker'[w].pc # "idle",
             worker'[w].stage = worker[w].stage,
             \A v \in Workers \ {w} : worker'[v] = worker[v],
             Fits(worker'[w], to)
      PROVE  OwnRun(w, r) /\ GoesOn(w, r)
  BY <1>3, <1>5, <1>7 DEF OwnRun, GoesOn, At
<1>8. CASE BeginDetect(w)
  <2>1. /\ row'[r].status = "running" /\ row'[r].job = row[r].job
        /\ \A p \in Runs \ {r} : row'[p] = row[p]
    BY <1>1, <1>3, <1>8, StatusWritten DEF BeginDetect
  <2>2. /\ worker'[w].pc = "work" /\ worker'[w].run = r /\ worker'[w].loaded = "running"
        /\ worker'[w].stage = worker[w].stage
        /\ \A v \in Workers \ {w} : worker'[v] = worker[v]
    BY <1>1, <1>2, <1>3, <1>8, WorkerLoaded DEF BeginDetect
  <2>3. worker[w].stage = "detect" /\ row[r].status = "queued"
    BY <1>3, <1>8 DEF BeginDetect, Fits, Due
  <2>4. Fits(worker'[w], "running")
    BY <2>2 DEF Fits
  <2> QED
    BY <1>7, <1>8, <2>1, <2>2, <2>3, <2>4 DEF BeginDetect, WorkerEffect, Starts
<1>9. CASE BeginFollowUp(w)
  <2>1. row[r].status = "running"
    BY <1>3, <1>9 DEF BeginFollowUp, Fits, Due
  <2>2. /\ worker'[w].pc = "work" /\ worker'[w].run = r /\ worker'[w].loaded = "running"
        /\ worker'[w].stage = worker[w].stage
        /\ \A v \in Workers \ {w} : worker'[v] = worker[v]
    BY <1>1, <1>2, <1>3, <1>9, <2>1, WorkerLoaded DEF BeginFollowUp
  <2>3. Fits(worker'[w], "running")
    BY <2>2 DEF Fits
  <2> QED
    BY <1>7, <1>9, <2>1, <2>2, <2>3 DEF BeginFollowUp, WorkerEffect, Proceeds
<1>10. CASE DetectCommits(w)
  <2>1. row[r].status = "running" /\ worker[w].stage = "detect"
    BY <1>3, <1>10 DEF DetectCommits, Fits
  <2>2. PICK head \in Heads :
          row' = [row EXCEPT ![r].target = Observed(row[r].target, head)]
    BY <1>3, <1>10 DEF DetectCommits
  <2>3. /\ row'[r].status = "running" /\ row'[r].job = row[r].job
        /\ \A p \in Runs \ {r} : row'[p] = row[p]
    BY <1>1, <1>3, <2>1, <2>2, TargetWritten
  <2>4. /\ worker'[w].pc = "follow" /\ worker'[w].run = r
        /\ worker'[w].stage = worker[w].stage
        /\ \A v \in Workers \ {w} : worker'[v] = worker[v]
    BY <1>1, <1>2, <1>3, <1>10, WorkerMoved DEF DetectCommits
  <2>5. Fits(worker'[w], "running")
    BY <2>4 DEF Fits
  <2> QED
    BY <1>7, <1>10, <2>1, <2>3, <2>4, <2>5 DEF DetectCommits, WorkerEffect, Proceeds
<1>11. CASE PublishCommits(w)
  <2>1. row[r].status = "running"
    BY <1>3, <1>11 DEF PublishCommits, Fits
  <2>2. /\ worker'[w].pc = "follow" /\ worker'[w].run = r
        /\ worker'[w].stage = worker[w].stage
        /\ \A v \in Workers \ {w} : worker'[v] = worker[v]
    BY <1>1, <1>2, <1>3, <1>11, WorkerMoved DEF PublishCommits
  <2>3. Fits(worker'[w], "running")
    BY <2>2 DEF Fits
  <2> QED
    BY <1>7, <1>11, <2>1, <2>2, <2>3 DEF PublishCommits, WorkerEffect, Proceeds
<1>12. CASE SyncCounts(w)
  <2>1. row[r].status = "running" /\ worker[w].loaded = "running" /\ worker[w].stage = "sync"
    BY <1>3, <1>12 DEF SyncCounts, Fits
  <2>2. /\ worker'[w].pc = "counted" /\ worker'[w].run = r
        /\ worker'[w].loaded = worker[w].loaded /\ worker'[w].stage = worker[w].stage
        /\ \A v \in Workers \ {w} : worker'[v] = worker[v]
    BY <1>1, <1>2, <1>3, <1>12, WorkerMoved DEF SyncCounts
  <2>3. Fits(worker'[w], "running")
    BY <2>1, <2>2 DEF Fits
  <2> QED
    BY <1>7, <1>12, <2>1, <2>2, <2>3 DEF SyncCounts, WorkerEffect, Proceeds
<1>13. CASE SyncCommits(w)
  <2>1. row[r].status = "running" /\ worker[w].loaded = "running" /\ worker[w].stage = "sync"
    BY <1>3, <1>13 DEF SyncCommits, Fits
  <2>2. PICK end \in {"partial", "success"} : row' = [row EXCEPT ![r].status = end]
    BY <1>3, <1>13, <2>1 DEF SyncCommits, Saved
  <2>3. /\ row'[r].status = end /\ row'[r].job = row[r].job
        /\ \A p \in Runs \ {r} : row'[p] = row[p]
    BY <1>1, <1>3, <2>2, StatusWritten
  <2>4. /\ worker'[w].pc = "cleanup" /\ worker'[w].run = r
        /\ worker'[w].stage = worker[w].stage
        /\ \A v \in Workers \ {w} : worker'[v] = worker[v]
    BY <1>1, <1>2, <1>3, <1>13, WorkerMoved DEF SyncCommits
  <2>5. Fits(worker'[w], end) /\ end \in Terminal
    BY <2>1, <2>4 DEF Fits, Terminal
  <2> QED
    BY <1>7, <1>13, <2>1, <2>3, <2>4, <2>5 DEF SyncCommits, WorkerEffect, Finishes
<1>14. CASE CleanupDeadLetters(w) \/ WorkerDies(w)
  <2>1. /\ row' = row /\ queues' = queues /\ handler' = handler
        /\ worker' = [worker EXCEPT ![w] = WorkerIdle]
    BY <1>14 DEF CleanupDeadLetters, WorkerDies
  <2> QED
    BY <1>3, <1>5, <1>6, <2>1 DEF WorkerEffect, OwnRun, Stops
<1>15. CASE PhaseFails(w)
  <2>1. row[r].status = "running" /\ worker[w].loaded = "running"
    BY <1>3, <1>15 DEF PhaseFails, Fits
  <2>2. PICK t : row' = [row EXCEPT ![r].status = Saved(r, worker[w].loaded, "failed"),
                                    ![r].error = "phase", ![r].target = t]
    BY <1>3, <1>15 DEF PhaseFails
  <2>3. /\ row'[r].status = "failed" /\ row'[r].job = row[r].job
        /\ \A p \in Runs \ {r} : row'[p] = row[p]
    <3>1. Saved(r, worker[w].loaded, "failed") = "failed"
      BY <2>1 DEF Saved
    <3>2. row' = [row EXCEPT ![r].status = "failed", ![r].error = "phase", ![r].target = t]
      BY <2>2, <3>1
    <3> QED
      BY <1>1, <1>2, <3>2, StatusWritten
  <2>4. /\ queues' = queues /\ handler' = handler
        /\ worker' = [worker EXCEPT ![w] = WorkerIdle]
    BY <1>15 DEF PhaseFails
  <2> QED
    BY <1>3, <1>5, <1>6, <2>1, <2>3, <2>4 DEF WorkerEffect, OwnRun, Fails
<1>16. CASE EnqueueFollowUp(w)
  <2>1. row[r].status = "running" /\ worker[w].stage \in {"detect", "publish"}
    BY <1>3, <1>16 DEF EnqueueFollowUp, Fits, TypeOK
  <2>2. /\ queues' = [queues EXCEPT ![FollowUp(worker[w].stage)] = Append(@, r)]
        /\ row' = row /\ handler' = handler /\ worker' = [worker EXCEPT ![w] = WorkerIdle]
    BY <1>3, <1>16 DEF EnqueueFollowUp, Enqueue
  <2> QED
    BY <1>3, <1>5, <1>6, <2>1, <2>2 DEF WorkerEffect, OwnRun, HandsOver
<1>17. CASE FollowUpEnqueueFails(w)
  <2>1. row[r].status = "running"
    BY <1>3, <1>17 DEF FollowUpEnqueueFails, Fits
  <2>2. /\ worker'[w].pc = "mark" /\ worker'[w].run = r
        /\ worker'[w].stage = worker[w].stage
        /\ \A v \in Workers \ {w} : worker'[v] = worker[v]
    BY <1>1, <1>2, <1>3, <1>17, WorkerMoved DEF FollowUpEnqueueFails
  <2>3. Fits(worker'[w], "running")
    BY <2>2 DEF Fits
  <2> QED
    BY <1>7, <1>17, <2>1, <2>2, <2>3 DEF FollowUpEnqueueFails, WorkerEffect, Proceeds
<1>18. CASE MarkFollowUpFailure(w)
  <2>1. row[r].status = "running"
    BY <1>3, <1>18 DEF MarkFollowUpFailure, Fits
  <2>2. /\ row'[r].status = "failed" /\ row'[r].job = row[r].job
        /\ \A p \in Runs \ {r} : row'[p] = row[p]
    BY <1>1, <1>3, <1>18, StatusWritten DEF MarkFollowUpFailure
  <2>3. /\ queues' = queues /\ handler' = handler
        /\ worker' = [worker EXCEPT ![w] = WorkerIdle]
    BY <1>18 DEF MarkFollowUpFailure
  <2> QED
    BY <1>3, <1>5, <1>6, <2>1, <2>2, <2>3 DEF WorkerEffect, OwnRun, Fails
<1> QED
  BY <1>8, <1>9, <1>10, <1>11, <1>12, <1>13, <1>14, <1>15, <1>16, <1>17, <1>18
     DEF WorkerStep

(***************************************************************************)
(* A step about run r of worker w keeps what holds of the others.          *)
(***************************************************************************)
\* No worker makes a run wait or pending, or touches a run without a job.
OnlyJobsWrite ==
  /\ handler' = handler
  /\ \A p \in Runs :
       /\ row'[p].job = row[p].job
       /\ row'[p] = row[p] \/ HasJob(p)
       /\ row'[p].status = "queued" => row'[p] = row[p]
       /\ row'[p].status \in Pending => row[p].status \in Pending
       /\ HasJob(p)' => HasJob(p)

LEMMA WorkersKeepRequests ==
  ASSUME TypeOK, OnlyInsertedRunsAreUsed, SerialIntake,
         JobsWerePlaced, RequestsInOrder, NoTwinQueuedRuns, OnlyJobsWrite
  PROVE  JobsWerePlaced' /\ RequestsInOrder' /\ NoTwinQueuedRuns'
<1>1. \A p \in Runs : JobPlaced(p)' <=> JobPlaced(p)
  BY DEF OnlyJobsWrite, JobPlaced, HandlerAt
<1>2. JobsWerePlaced'
  BY <1>1 DEF OnlyJobsWrite, JobsWerePlaced
<1>3. NoTwinQueuedRuns'
  BY DEF OnlyJobsWrite, NoTwinQueuedRuns
<1>4. ASSUME NEW h \in Handlers, handler[h].pc \in {"insert", "refresh", "dispatch"},
             ~row[handler[h].run].job
      PROVE  row'[handler[h].run] = row[handler[h].run]
  <2>1. PICK r : r = handler[h].run
    OBVIOUS
  <2>2. r \in Runs /\ ~row[r].job
    BY <1>4, <2>1, BusyOnRuns DEF TypeOK
  <2>3. \A g \in Handlers : handler[g].pc # "record"
    BY <1>4 DEF SerialIntake
  <2>4. ~HasJob(r)
    BY <2>2, <2>3 DEF JobsWerePlaced, JobPlaced, HandlerAt
  <2> QED
    BY <2>1, <2>2, <2>4 DEF OnlyJobsWrite
<1>5. ASSUME NEW h \in Handlers, handler[h].pc = "insert"
      PROVE  \A q \in Runs : row'[q].status = "queued"
                              => row'[q].target # row'[handler[h].run].target
  <2>1. handler[h].run \in Runs /\ ~row[handler[h].run].job
    BY <1>5, BusyOnRuns DEF OnlyInsertedRunsAreUsed, TypeOK, HandlerAt
  <2>2. row'[handler[h].run] = row[handler[h].run]
    BY <1>4, <1>5, <2>1
  <2>3. \A q \in Runs : row'[q].status = "queued" => row'[q] = row[q]
    BY DEF OnlyJobsWrite
  <2> QED
    BY <1>5, <2>2, <2>3 DEF RequestsInOrder, InOrder
<1>6. ASSUME NEW h \in Handlers, handler[h].pc = "refresh"
      PROVE  row'[handler[h].run].status = "queued" /\ ~row'[handler[h].run].job
  <2>1. row[handler[h].run].status = "queued" /\ ~row[handler[h].run].job
    BY <1>6 DEF RequestsInOrder, InOrder
  <2> QED
    BY <1>4, <1>6, <2>1
<1>7. ASSUME NEW h \in Handlers, handler[h].pc = "dispatch"
      PROVE  /\ handler[h].seen = row'[handler[h].run].job
             /\ ~handler[h].seen => row'[handler[h].run].status = "queued"
  <2>1. /\ handler[h].seen = row[handler[h].run].job
        /\ ~handler[h].seen => row[handler[h].run].status = "queued"
    BY <1>7 DEF RequestsInOrder, InOrder
  <2>2. handler[h].run \in Runs
    BY <1>7, BusyOnRuns DEF TypeOK
  <2>3. row'[handler[h].run].job = row[handler[h].run].job
    BY <2>2 DEF OnlyJobsWrite
  <2>4. ~handler[h].seen => ~row[handler[h].run].job
    BY <2>1
  <2>5. ~handler[h].seen => row'[handler[h].run] = row[handler[h].run]
    BY <1>4, <1>7, <2>4
  <2> QED
    BY <2>1, <2>3, <2>5
<1>8. \A r \in Runs : row'[r].status \in Pending /\ ~JobPlaced(r)' =>
        \E h \in Handlers : handler[h].pc \in {"refresh", "dispatch"} /\ handler[h].run = r
  BY <1>1 DEF OnlyJobsWrite, RequestsInOrder
<1>9. RequestsInOrder'
  <2>1. handler' = handler
    BY DEF OnlyJobsWrite
  <2> QED
    BY <1>5, <1>6, <1>7, <1>8, <2>1 DEF RequestsInOrder, InOrder
<1> QED
  BY <1>2, <1>3, <1>9

\* What holds of the jobs of the other runs holds afterwards.
LEMMA OthersFit ==
  ASSUME JobsAgree', StatusFitsJob, Apart(queues, worker),
         NEW w \in Workers, NEW r \in Runs,
         \A p \in Runs \ {r} : row'[p] = row[p],
         \A s \in Stages : \A p \in Runs \ {r} : p \in JobsIn(s)' => p \in JobsIn(s),
         \A s \in Stages : r \in JobsIn(s)' => row'[r].status = Due(s),
         \A v \in Workers \ {w} : worker'[v] = worker[v] /\ ~At(worker, v, r),
         worker'[w].pc # "idle" => worker'[w].run = r /\ Fits(worker'[w], row'[r].status)
  PROVE  StatusFitsJob'
<1>1. JobsTyped(queues', worker')
  BY DEF JobsAgree
<1>2. ASSUME NEW s \in Stages, NEW p \in JobsIn(s)' PROVE row'[p].status = Due(s)
  <2>1. p \in Runs
    BY <1>1, <1>2 DEF JobsTyped, JobsIn, Range
  <2>2. CASE p = r
    BY <1>2, <2>2
  <2>3. CASE p # r
    BY <1>2, <2>1, <2>3 DEF StatusFitsJob
  <2> QED
    BY <2>2, <2>3
<1>3. ASSUME NEW v \in Workers, worker'[v].pc # "idle"
      PROVE  Fits(worker'[v], row'[worker'[v].run].status)
  <2>1. CASE v = w
    BY <1>3, <2>1
  <2>2. CASE v # w
    <3>1. worker'[v] = worker[v] /\ worker[v].pc # "idle" /\ worker[v].run \in Runs \ {r}
      BY <1>1, <1>3, <2>2 DEF JobsTyped, At
    <3> QED
      BY <3>1 DEF StatusFitsJob, Busy, WorkerAt
  <2> QED
    BY <2>1, <2>2
<1> QED
  BY <1>2, <1>3 DEF StatusFitsJob, Busy, WorkerAt

\* Where the jobs are after a step about run r of worker w.
LEMMA EffectOnJobs ==
  ASSUME TypeOK, Apart(queues, worker), NEW w \in Workers, NEW r \in Runs, WorkerEffect(w, r)
  PROVE  /\ Apart(queues', worker')
         /\ \A p \in Runs \ {r} : SameStages(p)
         /\ worker[w].stage \in Stages /\ InStage(queues, worker, r, worker[w].stage)
         /\ \/ GoesOn(w, r) /\ InStage(queues', worker', r, worker[w].stage)
            \/ HandsOver(w, r) /\ InStage(queues', worker', r, FollowUp(worker[w].stage))
            \/ /\ Stops(w, r) \/ Fails(w, r)
               /\ \A s \in Stages : ~InStage(queues', worker', r, s)
<1>1. JobsTyped(queues, worker)
  BY TypedJobs
<1>2. At(worker, w, r) /\ \A v \in Workers \ {w} : worker'[v] = worker[v]
  BY DEF WorkerEffect, OwnRun
<1>3. worker[w].stage \in Stages /\ InStage(queues, worker, r, worker[w].stage)
  BY <1>1, <1>2 DEF JobsTyped, InStage, At
<1>4. CASE GoesOn(w, r)
  <2>1. \A v \in Workers : /\ worker'[v].pc = "idle" <=> worker[v].pc = "idle"
                           /\ worker'[v].run = worker[v].run /\ worker'[v].stage = worker[v].stage
    BY <1>2, <1>4 DEF GoesOn, At
  <2>2. /\ Apart(queues, worker')
        /\ \A p \in Runs, t \in Stages :
              InStage(queues, worker', p, t) <=> InStage(queues, worker, p, t)
    BY <2>1, JobsKept
  <2>3. queues' = queues
    BY <1>4 DEF GoesOn
  <2> QED
    BY <1>3, <1>4, <2>2, <2>3 DEF SameStages
<1>5. CASE Stops(w, r) \/ Fails(w, r) \/ HandsOver(w, r)
  <2>1. worker'[w].pc = "idle"
    BY <1>5 DEF Stops, Fails, HandsOver
  <2>2. /\ Apart(queues, worker')
        /\ \A t \in Stages : ~InStage(queues, worker', r, t)
        /\ \A p \in Runs \ {r}, t \in Stages :
              InStage(queues, worker', p, t) <=> InStage(queues, worker, p, t)
    BY <1>2, <2>1, JobEnded
  <2>3. CASE Stops(w, r) \/ Fails(w, r)
    <3>1. queues' = queues
      BY <2>3 DEF Stops, Fails
    <3> QED
      BY <1>3, <2>2, <2>3, <3>1 DEF SameStages
  <2>4. CASE HandsOver(w, r)
    <3>0. PICK f : f = FollowUp(worker[w].stage)
      OBVIOUS
    <3>1. f \in Stages
      BY <3>0 DEF FollowUp, Stages
    <3>2. /\ queues \in [Stages -> Seq(Runs)] /\ queues'[f] = Append(queues[f], r)
          /\ \A t \in Stages \ {f} : queues'[t] = queues[t]
      BY <1>1, <2>4, <3>0, <3>1 DEF HandsOver, JobsTyped
    <3>3. \A v \in Workers : worker'[v].pc # "idle" => worker'[v].stage \in Stages
      <4>1. \A v \in Workers : worker[v].pc # "idle" => worker[v].stage \in Stages
        BY <1>1 DEF JobsTyped
      <4> QED
        BY <1>2, <2>1, <4>1
    <3>4. /\ Apart(queues', worker')
          /\ \A t \in Stages : InStage(queues', worker', r, t) <=> t = f
          /\ \A p \in Runs \ {r}, t \in Stages :
                InStage(queues', worker', p, t) <=> InStage(queues, worker', p, t)
      <4>1. Places(queues, worker', queues', r, f)
        BY <2>2, <3>2, <3>3 DEF Places
      <4> QED
        BY <2>2, <3>1, <4>1, JobAppended
    <3>5. ASSUME NEW p \in Runs \ {r} PROVE SameStages(p)
      BY <2>2, <3>4 DEF SameStages
    <3> QED
      BY <1>3, <2>4, <3>0, <3>1, <3>4, <3>5
  <2> QED
    BY <1>5, <2>3, <2>4
<1> QED
  BY <1>4, <1>5 DEF WorkerEffect, Starts, Proceeds, Finishes

LEMMA EffectsKeepSerial ==
  ASSUME TypeOK, TypeOK', OnlyInsertedRunsAreUsed, SerialIntake, SerialInv,
         NEW w \in Workers, NEW r \in Runs, WorkerEffect(w, r)
  PROVE  SerialInv' /\ [Lifecycle!Next]_(Lifecycle!lifecycle)
<1>1. Apart(queues, worker)
  BY DEF SerialInv
<1>2. /\ Apart(queues', worker') /\ \A p \in Runs \ {r} : SameStages(p)
      /\ worker[w].stage \in Stages /\ InStage(queues, worker, r, worker[w].stage)
      /\ \/ GoesOn(w, r) /\ InStage(queues', worker', r, worker[w].stage)
         \/ HandsOver(w, r) /\ InStage(queues', worker', r, FollowUp(worker[w].stage))
         \/ /\ Stops(w, r) \/ Fails(w, r)
            /\ \A s \in Stages : ~InStage(queues', worker', r, s)
  BY <1>1, EffectOnJobs
<1>3. JobsAgree /\ JobsAgree'
  BY <1>1, <1>2, JobsAgreeing, JobsAgreeAfter
<1>4. FollowUp(worker[w].stage) \in Stages
  BY DEF FollowUp, Stages
<1>5. /\ HasJob(r) /\ PhaseOf(r) = worker[w].stage
      /\ \/ GoesOn(w, r) /\ PhaseOf(r)' = worker[w].stage
         \/ HandsOver(w, r) /\ PhaseOf(r)' = FollowUp(worker[w].stage)
         \/ (Stops(w, r) \/ Fails(w, r)) /\ PhaseOf(r)' = "none"
  BY <1>2, <1>3, <1>4 DEF JobsAgree
<1>6. \A p \in Runs \ {r} : PhaseOf(p)' = PhaseOf(p) /\ (HasJob(p)' <=> HasJob(p))
  BY <1>2, <1>3, PhaseStays
<1>7. /\ At(worker, w, r) /\ handler' = handler
      /\ row'[r].job = row[r].job /\ \A p \in Runs \ {r} : row'[p] = row[p]
      /\ \A v \in Workers \ {w} : worker'[v] = worker[v]
  BY DEF WorkerEffect, OwnRun
<1>8. Starts(w, r) \/ Proceeds(w, r) \/ Finishes(w, r) \/ Stops(w, r) \/ Fails(w, r)
      \/ HandsOver(w, r)
  BY DEF WorkerEffect
<1>9. OnlyJobsWrite
  <2>1. row'[r] = row[r] \/ row'[r].status \in {"running", "failed"} \cup Terminal
    BY <1>8 DEF Starts, Proceeds, Finishes, Stops, Fails, HandsOver
  <2>2. row'[r] = row[r] \/ row[r].status \in Pending
    BY <1>8 DEF Starts, Proceeds, Finishes, Stops, Fails, HandsOver, Pending
  <2>3. row'[r].status = "queued" => row'[r] = row[r]
    BY <2>1 DEF Terminal
  <2>4. row'[r].status \in Pending => row[r].status \in Pending
    BY <2>2
  <2> QED
    BY <1>5, <1>6, <1>7, <2>3, <2>4 DEF OnlyJobsWrite
<1>10. StatusFitsJob'
  <2>1. \A v \in Workers \ {w} : ~At(worker, v, r)
    BY <1>1, <1>7 DEF Apart
  <2>2. \A s \in Stages : \A p \in Runs \ {r} : p \in JobsIn(s)' => p \in JobsIn(s)
    <3>1. CASE queues' = queues
      BY <3>1 DEF JobsIn
    <3>2. CASE HandsOver(w, r)
      <4>1. Enqueue(FollowUp(worker[w].stage), r)
        BY <3>2 DEF HandsOver, Enqueue
      <4> QED
        BY <1>4, <4>1, Enqueued DEF TypeOK
    <3> QED
      BY <1>5, <3>1, <3>2 DEF GoesOn, Stops, Fails
  <2>3. ASSUME NEW s \in Stages, r \in JobsIn(s)' PROVE row'[r].status = Due(s)
    <3>1. \A t \in Stages : r \notin JobsIn(t)
      BY <1>1, <1>7 DEF Apart, JobsIn
    <3>2. HandsOver(w, r)
      BY <1>5, <2>3, <3>1 DEF GoesOn, Stops, Fails, JobsIn
    <3>3. s = FollowUp(worker[w].stage)
      <4>1. Enqueue(FollowUp(worker[w].stage), r)
        BY <3>2 DEF HandsOver, Enqueue
      <4> QED
        BY <1>4, <2>3, <3>1, <4>1, Enqueued DEF TypeOK
    <3> QED
      BY <3>2, <3>3 DEF HandsOver, Due, FollowUp
  <2>4. worker'[w].pc # "idle" => worker'[w].run = r /\ Fits(worker'[w], row'[r].status)
    BY <1>5 DEF GoesOn, HandsOver, Stops, Fails, At
  <2>5. StatusFitsJob
    BY DEF SerialInv
  <2> QED
    BY <1>1, <1>3, <1>7, <2>1, <2>2, <2>3, <2>4, <2>5, OthersFit
<1>11. SerialInv'
  <2>1. JobsWerePlaced' /\ RequestsInOrder' /\ NoTwinQueuedRuns'
    BY <1>9, WorkersKeepRequests DEF SerialInv
  <2> QED
    BY <1>2, <1>10, <2>1 DEF SerialInv
<1>12. [Lifecycle!Next]_(Lifecycle!lifecycle)
  <2>1. Moves(r, row[r].status, PhaseOf(r), row'[r].status, PhaseOf(r)')
    BY <1>6, <1>7 DEF Moves
  <2>2. Allowed(row[r].status, PhaseOf(r), row'[r].status, PhaseOf(r)')
    <3>1. CASE GoesOn(w, r) /\ PhaseOf(r)' = worker[w].stage
      <4>1. ~Stops(w, r) /\ ~Fails(w, r) /\ ~HandsOver(w, r)
        BY <3>1 DEF GoesOn, At, Stops, Fails, HandsOver
      <4>2. \/ row[r].status = row'[r].status
            \/ /\ worker[w].stage = "detect"
               /\ row[r].status = "queued" /\ row'[r].status = "running"
            \/ /\ worker[w].stage = "sync"
               /\ row[r].status = "running" /\ row'[r].status \in Terminal
        BY <1>8, <4>1 DEF Starts, Proceeds, Finishes
      <4> QED
        BY <1>5, <3>1, <4>2 DEF Allowed
    <3>2. CASE HandsOver(w, r) /\ PhaseOf(r)' = FollowUp(worker[w].stage)
      <4>1. row[r].status = "running" /\ row'[r].status = "running"
        BY <3>2 DEF HandsOver
      <4>2. CASE worker[w].stage = "detect"
        BY <1>5, <3>2, <4>1, <4>2 DEF FollowUp, Allowed
      <4>3. CASE worker[w].stage = "publish"
        BY <1>5, <3>2, <4>1, <4>3 DEF FollowUp, Allowed
      <4> QED
        BY <3>2, <4>2, <4>3 DEF HandsOver
    <3>3. CASE (Stops(w, r) \/ Fails(w, r)) /\ PhaseOf(r)' = "none"
      BY <3>3 DEF Stops, Fails, Allowed, Pending
    <3> QED
      BY <1>5, <3>1, <3>2, <3>3
  <2> QED
    BY <2>1, <2>2, LifecycleStep
<1> QED
  BY <1>11, <1>12

\* Taking a job moves no run.
LEMMA TakesKeepSerial ==
  ASSUME TypeOK, TypeOK', OnlyInsertedRunsAreUsed, SerialIntake, SerialInv,
         NEW w \in Workers, NEW s \in Stages, TakeJob(w, s)
  PROVE  SerialInv' /\ [Lifecycle!Next]_(Lifecycle!lifecycle)
<1>0. PICK r : r = Head(queues[s])
  OBVIOUS
<1>1. Apart(queues, worker) /\ JobsTyped(queues, worker) /\ StatusFitsJob
  BY TypedJobs DEF SerialInv
<1>2. /\ row' = row /\ handler' = handler /\ queues[s] # <<>> /\ worker[w].pc = "idle"
      /\ queues' = [queues EXCEPT ![s] = Tail(@)]
      /\ worker'[w].pc = "begin" /\ worker'[w].stage = s /\ worker'[w].run = r
      /\ \A v \in Workers \ {w} : worker'[v] = worker[v]
  BY <1>0 DEF TakeJob, tables, WorkerAt, TypeOK
<1>3. Takes(queues, worker, queues', worker', s, w)
  BY <1>0, <1>1, <1>2 DEF Takes, JobsTyped, At
<1>4. /\ Apart(queues', worker')
      /\ \A p \in Runs, t \in Stages :
            InStage(queues', worker', p, t) <=> InStage(queues, worker, p, t)
  BY <1>1, <1>3, JobTaken
<1>5. JobsAgree /\ JobsAgree' /\ \A p \in Runs : SameStages(p)
  BY <1>1, <1>4, JobsAgreeing, JobsAgreeAfter DEF SameStages
<1>6. \A p \in Runs : PhaseOf(p)' = PhaseOf(p) /\ (HasJob(p)' <=> HasJob(p))
  BY <1>5, PhaseStays
<1>7. r \in Runs /\ r \in JobsIn(s) /\ JobsIn(s)' \subseteq JobsIn(s)
  BY <1>0, <1>1, <1>2, RangeOfTail DEF JobsTyped, JobsIn
<1>8. OnlyJobsWrite
  BY <1>2, <1>6 DEF OnlyJobsWrite
<1>9. StatusFitsJob'
  <2>1. \A v \in Workers \ {w} : ~At(worker, v, r)
    BY <1>1, <1>7 DEF Apart, JobsIn
  <2>2. \A t \in Stages : JobsIn(t)' \subseteq JobsIn(t)
    BY <1>2, <1>7 DEF JobsIn
  <2>3. row[r].status = Due(s)
    BY <1>1, <1>7 DEF StatusFitsJob
  <2>4. Fits(worker'[w], row'[r].status)
    BY <1>2, <2>3 DEF Fits
  <2>5. \A t \in Stages : r \in JobsIn(t)' => row'[r].status = Due(t)
    BY <1>1, <1>2, <2>2 DEF StatusFitsJob
  <2> QED
    BY <1>1, <1>2, <1>5, <1>7, <2>1, <2>2, <2>4, <2>5, OthersFit
<1>10. SerialInv'
  <2>1. JobsWerePlaced' /\ RequestsInOrder' /\ NoTwinQueuedRuns'
    BY <1>8, WorkersKeepRequests DEF SerialInv
  <2> QED
    BY <1>4, <1>9, <2>1 DEF SerialInv
<1>11. Moves(r, row[r].status, PhaseOf(r), row[r].status, PhaseOf(r))
  BY <1>2, <1>6, <1>7 DEF Moves
<1>12. Allowed(row[r].status, PhaseOf(r), row[r].status, PhaseOf(r))
  BY DEF Allowed
<1> QED
  BY <1>7, <1>10, <1>11, <1>12, LifecycleStep

LEMMA LifecycleStutter ==
  ASSUME \A p \in Runs : row'[p].status = row[p].status /\ PhaseOf(p)' = PhaseOf(p)
  PROVE  [Lifecycle!Next]_(Lifecycle!lifecycle)
  BY DEF Lifecycle!lifecycle

\* A step that moves no job and changes the status only of runs without one.
LEMMA JobsAtRest ==
  ASSUME TypeOK, TypeOK', SerialInv, queues' = queues, worker' = worker,
         \A p \in Runs : HasJob(p) => row'[p].status = row[p].status
  PROVE  /\ Apart(queues', worker') /\ StatusFitsJob'
         /\ \A p \in Runs : PhaseOf(p)' = PhaseOf(p) /\ (HasJob(p)' <=> HasJob(p))
<1>1. Apart(queues, worker) /\ StatusFitsJob /\ JobsTyped(queues, worker)
  BY TypedJobs DEF SerialInv
<1>2. Apart(queues', worker')
  BY <1>1
<1>3. JobsAgree /\ JobsAgree' /\ \A p \in Runs : SameStages(p)
  BY <1>1, <1>2, JobsAgreeing, JobsAgreeAfter DEF SameStages
<1>4. \A p \in Runs : PhaseOf(p)' = PhaseOf(p) /\ (HasJob(p)' <=> HasJob(p))
  BY <1>3, PhaseStays
<1>5. ASSUME NEW s \in Stages, NEW p \in JobsIn(s)' PROVE row'[p].status = Due(s)
  <2>1. p \in Runs /\ p \in JobsIn(s)
    BY <1>1, <1>5 DEF JobsTyped, JobsIn, Range
  <2>2. HasJob(p)
    BY <2>1 DEF HasJob
  <2> QED
    BY <1>1, <2>1, <2>2 DEF StatusFitsJob
<1>6. ASSUME NEW v \in Workers, worker[v].pc # "idle"
      PROVE  Fits(worker[v], row'[worker[v].run].status)
  <2>1. worker[v].run \in Runs /\ HasJob(worker[v].run)
    BY <1>1, <1>6 DEF JobsTyped, HasJob, Busy, WorkerAt
  <2>2. row'[worker[v].run].status = row[worker[v].run].status
    BY <2>1
  <2> QED
    BY <1>1, <1>6, <2>2 DEF StatusFitsJob, Busy, WorkerAt
<1>7. StatusFitsJob'
  BY <1>5, <1>6 DEF StatusFitsJob, Busy, WorkerAt
<1> QED
  BY <1>2, <1>4, <1>7

(***************************************************************************)
(* The steps of the one handler.                                           *)
(***************************************************************************)
\* A run has its job, or handler h has just placed it.
PlacedBy(h, r) == row[r].job \/ (handler[h].pc = "record" /\ handler[h].run = r)

LEMMA OneHandlerPlaces ==
  SerialIntake => \A h \in Handlers, r \in Runs : JobPlaced(r) <=> PlacedBy(h, r)
  BY DEF SerialIntake, JobPlaced, PlacedBy, HandlerAt

LEMMA OneHandlerPlacesAfter ==
  SerialIntake => \A h \in Handlers, r \in Runs : JobPlaced(r)' <=> PlacedBy(h, r)'
  BY DEF SerialIntake, JobPlaced, PlacedBy, HandlerAt

\* What is left to show of a step of the handler that moves no job.
HandlerMade(h) ==
  /\ \A p \in Runs : PlacedBy(h, p) => PlacedBy(h, p)'
  /\ InOrder(h)'
  /\ \A p \in Runs : row'[p].status \in Pending /\ ~PlacedBy(h, p)'
                      => handler'[h].pc \in {"refresh", "dispatch"} /\ handler'[h].run = p
  /\ NoTwinQueuedRuns'

LEMMA HandlerMadeIt ==
  ASSUME SerialIntake, JobsWerePlaced, NEW h \in Handlers, HandlerMade(h),
         \A p \in Runs : HasJob(p)' => HasJob(p) \/ PlacedBy(h, p)'
  PROVE  JobsWerePlaced' /\ RequestsInOrder' /\ NoTwinQueuedRuns'
<1>1. \A p \in Runs : (JobPlaced(p) <=> PlacedBy(h, p)) /\ (JobPlaced(p)' <=> PlacedBy(h, p)')
  BY OneHandlerPlaces, OneHandlerPlacesAfter
<1>2. JobsWerePlaced'
  BY <1>1 DEF JobsWerePlaced, HandlerMade
<1>3. \A g \in Handlers : InOrder(g)'
  <2>1. \A g \in Handlers : g = h
    BY DEF SerialIntake
  <2> QED
    BY <2>1 DEF HandlerMade
<1>4. RequestsInOrder'
  BY <1>1, <1>3 DEF RequestsInOrder, HandlerMade
<1> QED
  BY <1>2, <1>4 DEF HandlerMade

\* A pending run without a job is in the hands of the handler.
LEMMA WaitsForHandler ==
  ASSUME SerialIntake, RequestsInOrder, NEW h \in Handlers, NEW p \in Runs,
         row[p].status \in Pending, ~PlacedBy(h, p)
  PROVE  handler[h].pc \in {"refresh", "dispatch"} /\ handler[h].run = p
<1>1. ~JobPlaced(p)
  BY OneHandlerPlaces
<1>2. PICK g \in Handlers : handler[g].pc \in {"refresh", "dispatch"} /\ handler[g].run = p
  BY <1>1 DEF RequestsInOrder
<1>3. g = h
  BY DEF SerialIntake
<1> QED
  BY <1>2, <1>3

\* Steps of the handler that write to no row.
LEMMA LookupsMade ==
  ASSUME TypeOK, SerialIntake, SerialInv, NEW h \in Handlers,
         \/ \E t \in Requests : ReusePendingRun(h, t)
         \/ RefreshRun(h) \/ SkipDispatch(h)
  PROVE  HandlerMade(h)
<1>1. row' = row /\ RequestsInOrder /\ NoTwinQueuedRuns
  BY DEF ReusePendingRun, RefreshRun, SkipDispatch, tables, SerialInv
<1>2. NoTwinQueuedRuns'
  BY <1>1 DEF NoTwinQueuedRuns
<1>3. handler \in [Handlers -> {HandlerIdle} \cup HandlerBusy]
  BY DEF TypeOK
<1>4. InOrder(h)
  BY <1>1 DEF RequestsInOrder
<1>5. ASSUME NEW t \in Requests, ReusePendingRun(h, t) PROVE HandlerMade(h)
  <2>1. PICK r \in Runs : /\ row[r].status \in Pending
                          /\ handler' = [handler EXCEPT ![h] =
                               [pc |-> "dispatch", run |-> r, seen |-> row[r].job]]
    BY <1>5 DEF ReusePendingRun, Reusable
  <2>2. handler[h].pc = "idle"
    BY <1>5 DEF ReusePendingRun, HandlerAt
  <2>3. \A p \in Runs : row[p].status \in Pending => row[p].job
    BY <1>1, <2>2, WaitsForHandler DEF PlacedBy
  <2>4. handler'[h].pc = "dispatch" /\ handler'[h].run = r /\ handler'[h].seen = row[r].job
    BY <1>3, <2>1
  <2>5. InOrder(h)'
    BY <1>1, <2>1, <2>3, <2>4 DEF InOrder
  <2> QED
    BY <1>1, <1>2, <2>2, <2>3, <2>5 DEF HandlerMade, PlacedBy
<1>6. CASE RefreshRun(h)
  <2>1. handler[h].pc = "refresh"
    BY <1>6 DEF RefreshRun, HandlerAt
  <2>2. handler[h] \in HandlerBusy
    BY <1>3, <2>1, HandlerWrites
  <2>3. PICK x \in HandlerBusy : x = handler[h]
    BY <2>2
  <2>4. handler'[h] = [x EXCEPT !.pc = "dispatch", !.seen = row[x.run].job]
    BY <1>3, <1>6, <2>3 DEF RefreshRun
  <2>5. /\ handler'[h].pc = "dispatch" /\ handler'[h].run = handler[h].run
        /\ handler'[h].seen = row[handler[h].run].job
    BY <2>3, <2>4 DEF HandlerBusy
  <2>6. InOrder(h)'
    BY <1>1, <1>4, <2>1, <2>5 DEF InOrder
  <2>7. \A p \in Runs : row[p].status \in Pending /\ ~row[p].job => handler[h].run = p
    BY <1>1, <2>1, WaitsForHandler DEF PlacedBy
  <2> QED
    BY <1>1, <1>2, <2>1, <2>5, <2>6, <2>7 DEF HandlerMade, PlacedBy
<1>7. CASE SkipDispatch(h)
  <2>1. handler[h].pc = "dispatch" /\ handler[h].seen
    BY <1>7 DEF SkipDispatch, HandlerAt
  <2>2. row[handler[h].run].job
    BY <1>4, <2>1 DEF InOrder
  <2>3. \A p \in Runs : row[p].status \in Pending => row[p].job
    BY <1>1, <2>1, <2>2, WaitsForHandler DEF PlacedBy
  <2>4. handler'[h].pc = "idle"
    BY <1>3, <1>7 DEF SkipDispatch, Answered, HandlerIdle
  <2>5. InOrder(h)'
    BY <2>4 DEF InOrder
  <2> QED
    BY <1>1, <1>2, <2>1, <2>3, <2>5 DEF HandlerMade, PlacedBy
<1> QED
  BY <1>5, <1>6, <1>7

\* A run that is built or inserted has no twin waiting.
LEMMA RunsMade ==
  ASSUME TypeOK, OnlyInsertedRunsAreUsed, SerialIntake, SerialInv, NEW h \in Handlers,
         (\E t \in Requests : BuildRun(h, t)) \/ InsertRun(h)
  PROVE  HandlerMade(h)
<1>1. RequestsInOrder /\ NoTwinQueuedRuns /\ row \in [Runs -> Rows]
      /\ handler \in [Handlers -> {HandlerIdle} \cup HandlerBusy]
  BY DEF SerialInv, TypeOK
<1>2. handler[h].pc \in {"idle", "insert"}
  BY DEF BuildRun, InsertRun, HandlerAt
<1>3. \A p \in Runs : row[p].status \in Pending => row[p].job
  BY <1>1, <1>2, WaitsForHandler DEF PlacedBy
<1>4. ASSUME NEW t \in Requests, BuildRun(h, t) PROVE HandlerMade(h)
  <2>0. PICK r : r = created + 1
    OBVIOUS
  <2>1. r \in Runs /\ row' = [row EXCEPT ![r].target = t] /\ r > created
    BY <1>4, <2>0, ConstantsAssumption DEF BuildRun, Runs, TypeOK
  <2>2. /\ row'[r].status = row[r].status /\ row'[r].job = row[r].job
        /\ \A p \in Runs \ {r} : row'[p] = row[p]
    BY <1>1, <2>1, TargetWritten
  <2>3. row'[r].target = t
    <3>1. PICK x \in Rows : x = row[r]
      BY <1>1, <2>1
    <3> QED
      BY <1>1, <2>1, <3>1 DEF Rows
  <2>4. row[r].status = "unborn"
    BY <2>1 DEF OnlyInsertedRunsAreUsed
  <2>5. handler'[h].pc = "insert" /\ handler'[h].run = r
    BY <1>1, <1>4, <2>0 DEF BuildRun
  <2>6. \A q \in Runs : row[q].status = "queued" => row[q].target # t
    BY <1>4 DEF BuildRun, Reusable, Pending
  <2>7. \A q \in Runs : row'[q].status = "queued" => row'[q] = row[q]
    BY <2>2, <2>4
  <2>8. InOrder(h)'
    BY <2>3, <2>5, <2>6, <2>7 DEF InOrder
  <2>9. \A p \in Runs : row'[p].status = row[p].status /\ row'[p].job = row[p].job
    BY <2>2
  <2>10. \A p \in Runs : row'[p].status \in Pending => row'[p].job
    BY <1>3, <2>9
  <2>11. NoTwinQueuedRuns'
    BY <1>1, <2>7 DEF NoTwinQueuedRuns
  <2> QED
    BY <1>2, <2>8, <2>9, <2>10, <2>11 DEF HandlerMade, PlacedBy
<1>5. CASE InsertRun(h)
  <2>0. PICK r : r = handler[h].run
    OBVIOUS
  <2>1. handler[h].pc = "insert" /\ r \in Runs /\ row' = [row EXCEPT ![r].status = "queued"]
    BY <1>1, <1>5, <2>0, BusyOnRuns DEF InsertRun, HandlerAt, TypeOK
  <2>2. /\ row'[r].status = "queued" /\ row'[r].job = row[r].job
        /\ \A p \in Runs \ {r} : row'[p] = row[p]
    BY <1>1, <2>1, StatusWritten
  <2>3. row'[r].target = row[r].target
    <3>1. PICK x \in Rows : x = row[r]
      BY <1>1, <2>1
    <3> QED
      BY <1>1, <2>1, <3>1 DEF Rows
  <2>4. ~row[r].job
    BY <2>0, <2>1 DEF OnlyInsertedRunsAreUsed, HandlerAt
  <2>5. handler'[h].pc = "refresh" /\ handler'[h].run = r
    BY <1>1, <1>5, <2>0, <2>1, HandlerMoved DEF InsertRun, HandlerGoes
  <2>6. InOrder(h)'
    BY <2>2, <2>4, <2>5 DEF InOrder
  <2>7. \A q \in Runs : row[q].status = "queued" => row[q].target # row[r].target
    BY <1>1, <2>0, <2>1 DEF RequestsInOrder, InOrder
  <2>8. NoTwinQueuedRuns'
    BY <1>1, <2>2, <2>3, <2>7 DEF NoTwinQueuedRuns
  <2>9. \A p \in Runs : row'[p].status \in Pending /\ ~row'[p].job => p = r
    BY <1>3, <2>2
  <2> QED
    BY <2>1, <2>2, <2>5, <2>6, <2>8, <2>9 DEF HandlerMade, PlacedBy
<1> QED
  BY <1>4, <1>5

\* The handler hands the queued run over to the workers or fails it.
LEMMA JobsMade ==
  ASSUME TypeOK, SerialIntake, SerialInv, NEW h \in Handlers,
         PlaceDetectJob(h) \/ RecordJob(h) \/ DetectEnqueueFails(h)
  PROVE  /\ HandlerMade(h) /\ handler[h].run \in Runs
         /\ ~RecordJob(h) => /\ row[handler[h].run].status = "queued"
                             /\ ~HasJob(handler[h].run)
<1>0. PICK r : r = handler[h].run
  OBVIOUS
<1>1. RequestsInOrder /\ NoTwinQueuedRuns /\ row \in [Runs -> Rows]
      /\ handler \in [Handlers -> {HandlerIdle} \cup HandlerBusy] /\ InOrder(h)
  BY DEF SerialInv, RequestsInOrder, TypeOK
<1>2. handler[h].pc \in {"dispatch", "record"} /\ r \in Runs
  <2>1. handler[h].pc \in {"dispatch", "record"}
    BY DEF PlaceDetectJob, RecordJob, DetectEnqueueFails, HandlerAt
  <2> QED
    BY <1>0, <2>1, BusyOnRuns DEF TypeOK
<1>3. \A p \in Runs : row[p].status \in Pending /\ ~row[p].job => p = r
  <2>1. ASSUME NEW p \in Runs, row[p].status \in Pending, ~row[p].job, p # r PROVE FALSE
    <3>1. ~PlacedBy(h, p)
      BY <1>0, <2>1 DEF PlacedBy
    <3> QED
      BY <1>0, <1>1, <2>1, <3>1, WaitsForHandler
  <2> QED
    BY <2>1
<1>4. ASSUME handler[h].pc = "dispatch", ~handler[h].seen
      PROVE  row[r].status = "queued" /\ ~HasJob(r)
  <2>1. row[r].status = "queued" /\ ~row[r].job
    BY <1>0, <1>1, <1>4 DEF InOrder
  <2>2. ~PlacedBy(h, r)
    BY <1>4, <2>1 DEF PlacedBy
  <2> QED
    BY <1>2, <2>1, <2>2, OneHandlerPlaces DEF SerialInv, JobsWerePlaced
<1>5. CASE PlaceDetectJob(h)
  <2>1. handler[h].pc = "dispatch" /\ ~handler[h].seen /\ row' = row
    BY <1>5 DEF PlaceDetectJob, HandlerAt, tables
  <2>2. handler'[h].pc = "record" /\ handler'[h].run = r
    BY <1>0, <1>1, <1>5, <2>1, HandlerMoved DEF PlaceDetectJob, HandlerGoes
  <2>3. InOrder(h)'
    BY <2>2 DEF InOrder
  <2>4. NoTwinQueuedRuns'
    BY <1>1, <2>1 DEF NoTwinQueuedRuns
  <2>5. HandlerMade(h)
    BY <1>3, <2>1, <2>2, <2>3, <2>4 DEF HandlerMade, PlacedBy
  <2> QED
    BY <1>0, <1>2, <1>4, <2>1, <2>5
<1>6. CASE RecordJob(h)
  <2>1. handler[h].pc = "record" /\ row' = [row EXCEPT ![r].job = TRUE]
    BY <1>0, <1>6 DEF RecordJob, HandlerAt
  <2>2. /\ row'[r].status = row[r].status /\ row'[r].job
        /\ \A p \in Runs \ {r} : row'[p] = row[p]
    BY <1>1, <1>2, <2>1, JobWritten
  <2>3. row'[r].target = row[r].target
    <3>1. PICK x \in Rows : x = row[r]
      BY <1>1, <1>2
    <3> QED
      BY <1>1, <1>2, <2>1, <3>1 DEF Rows
  <2>4. handler'[h].pc = "idle"
    BY <1>1, <1>6 DEF RecordJob, Answered, HandlerIdle
  <2>5. InOrder(h)'
    BY <2>4 DEF InOrder
  <2>6. NoTwinQueuedRuns'
    BY <1>1, <2>2, <2>3 DEF NoTwinQueuedRuns
  <2>7. \A p \in Runs : row'[p].status \in Pending => row'[p].job
    BY <1>3, <2>2
  <2>8. \A p \in Runs : PlacedBy(h, p) => PlacedBy(h, p)'
    BY <1>0, <2>2 DEF PlacedBy
  <2> QED
    BY <1>0, <1>2, <1>6, <2>5, <2>6, <2>7, <2>8 DEF HandlerMade, PlacedBy
<1>7. CASE DetectEnqueueFails(h)
  <2>1. /\ handler[h].pc = "dispatch" /\ ~handler[h].seen
        /\ row' = [row EXCEPT ![r].status = "failed", ![r].error = "enqueue"]
    BY <1>0, <1>7 DEF DetectEnqueueFails, HandlerAt, SerialIntake
  <2>2. /\ row'[r].status = "failed" /\ row'[r].job = row[r].job
        /\ \A p \in Runs \ {r} : row'[p] = row[p]
    BY <1>1, <1>2, <2>1, StatusWritten
  <2>3. handler'[h].pc = "idle"
    BY <1>1, <1>7 DEF DetectEnqueueFails, Answered, HandlerIdle
  <2>4. InOrder(h)'
    BY <2>3 DEF InOrder
  <2>5. NoTwinQueuedRuns'
    BY <1>1, <2>2 DEF NoTwinQueuedRuns
  <2>6. \A p \in Runs : row'[p].status \in Pending => row'[p].job
    BY <1>3, <2>2 DEF Pending
  <2>7. \A p \in Runs : PlacedBy(h, p) => PlacedBy(h, p)'
    BY <2>1, <2>2 DEF PlacedBy
  <2>8. HandlerMade(h)
    BY <2>4, <2>5, <2>6, <2>7 DEF HandlerMade, PlacedBy
  <2> QED
    BY <1>0, <1>2, <1>4, <2>1, <2>8
<1> QED
  BY <1>5, <1>6, <1>7

LEMMA HandlerStepsKeepSerial ==
  ASSUME TypeOK, TypeOK', OnlyInsertedRunsAreUsed, SerialIntake, SerialInv,
         NEW h \in Handlers, HandlerStep(h)
  PROVE  SerialInv' /\ [Lifecycle!Next]_(Lifecycle!lifecycle)
<1>0. PICK r : r = handler[h].run
  OBVIOUS
<1>1. /\ row \in [Runs -> Rows] /\ Apart(queues, worker) /\ StatusFitsJob /\ JobsWerePlaced
      /\ JobsTyped(queues, worker)
  BY TypedJobs DEF TypeOK, SerialInv
<1>2. worker' = worker
  BY DEF HandlerStep, ReusePendingRun, BuildRun, InsertRun, RefreshRun, SkipDispatch,
         PlaceDetectJob, RecordJob, DetectEnqueueFails
<1>3. HandlerMade(h)
  BY LookupsMade, RunsMade, JobsMade DEF HandlerStep
<1>4. ASSUME queues' = queues,
             \A p \in Runs : HasJob(p) => row'[p].status = row[p].status
      PROVE  SerialInv' /\ \A p \in Runs : PhaseOf(p)' = PhaseOf(p)
  <2>1. /\ Apart(queues', worker') /\ StatusFitsJob'
        /\ \A p \in Runs : PhaseOf(p)' = PhaseOf(p) /\ (HasJob(p)' <=> HasJob(p))
    BY <1>2, <1>4, JobsAtRest
  <2>2. \A p \in Runs : HasJob(p)' => HasJob(p) \/ PlacedBy(h, p)'
    BY <2>1
  <2>3. JobsWerePlaced' /\ RequestsInOrder' /\ NoTwinQueuedRuns'
    BY <1>1, <1>3, <2>2, HandlerMadeIt
  <2> QED
    BY <2>1, <2>3 DEF SerialInv
<1>5. ASSUME queues' = queues, \A p \in Runs : row'[p].status = row[p].status
      PROVE  SerialInv' /\ [Lifecycle!Next]_(Lifecycle!lifecycle)
  BY <1>4, <1>5, LifecycleStutter
<1>6. CASE (\E t \in Requests : ReusePendingRun(h, t)) \/ RefreshRun(h) \/ SkipDispatch(h)
  BY <1>5, <1>6 DEF ReusePendingRun, RefreshRun, SkipDispatch, tables
<1>7. ASSUME NEW t \in Requests, BuildRun(h, t)
      PROVE  SerialInv' /\ [Lifecycle!Next]_(Lifecycle!lifecycle)
  <2>1. created + 1 \in Runs /\ row' = [row EXCEPT ![created + 1].target = t]
    BY <1>7, ConstantsAssumption DEF BuildRun, Runs, TypeOK
  <2>2. \A p \in Runs : row'[p].status = row[p].status
    BY <1>1, <2>1, TargetWritten
  <2> QED
    BY <1>5, <1>7, <2>2 DEF BuildRun
<1>8. CASE InsertRun(h)
  <2>1. r \in Runs /\ row' = [row EXCEPT ![r].status = "queued"] /\ row[r].status = "unborn"
    BY <1>0, <1>8, BusyOnRuns DEF InsertRun, OnlyInsertedRunsAreUsed, HandlerAt, TypeOK
  <2>2. row'[r].status = "queued" /\ \A p \in Runs \ {r} : row'[p] = row[p]
    BY <1>1, <2>1, StatusWritten
  <2>3. ~HasJob(r)
    BY <2>1 DEF OnlyInsertedRunsAreUsed, HasJob
  <2>4. SerialInv' /\ \A p \in Runs : PhaseOf(p)' = PhaseOf(p)
    BY <1>4, <1>8, <2>2, <2>3 DEF InsertRun
  <2>5. Moves(r, "unborn", PhaseOf(r), "queued", PhaseOf(r))
    BY <2>1, <2>2, <2>4 DEF Moves
  <2>6. Allowed("unborn", PhaseOf(r), "queued", PhaseOf(r))
    BY DEF Allowed
  <2> QED
    BY <2>1, <2>4, <2>5, <2>6, LifecycleStep
<1>9. CASE RecordJob(h)
  <2>1. r \in Runs /\ row' = [row EXCEPT ![r].job = TRUE]
    BY <1>0, <1>9, JobsMade DEF RecordJob
  <2>2. \A p \in Runs : row'[p].status = row[p].status
    BY <1>1, <2>1, JobWritten
  <2> QED
    BY <1>5, <1>9, <2>2 DEF RecordJob
<1>10. CASE DetectEnqueueFails(h)
  <2>1. /\ r \in Runs /\ row[r].status = "queued" /\ ~HasJob(r) /\ queues' = queues
        /\ row' = [row EXCEPT ![r].status = "failed", ![r].error = "enqueue"]
    BY <1>0, <1>10, JobsMade DEF DetectEnqueueFails, RecordJob, HandlerAt, SerialIntake
  <2>2. row'[r].status = "failed" /\ \A p \in Runs \ {r} : row'[p] = row[p]
    BY <1>1, <2>1, StatusWritten
  <2>3. SerialInv' /\ \A p \in Runs : PhaseOf(p)' = PhaseOf(p)
    BY <1>4, <2>1, <2>2
  <2>4. Moves(r, "queued", PhaseOf(r), "failed", PhaseOf(r))
    BY <2>1, <2>2, <2>3 DEF Moves
  <2>5. Allowed("queued", PhaseOf(r), "failed", PhaseOf(r))
    BY DEF Allowed, Pending
  <2> QED
    BY <2>1, <2>3, <2>4, <2>5, LifecycleStep
<1>11. CASE PlaceDetectJob(h)
  <2>1. /\ r \in Runs /\ row[r].status = "queued" /\ ~HasJob(r) /\ row' = row
        /\ handler[h].pc = "dispatch"
    BY <1>0, <1>11, JobsMade DEF PlaceDetectJob, RecordJob, HandlerAt, tables
  <2>2. JobsAgree
    BY <1>1, JobsAgreeing
  <2>3. \A s \in Stages : ~InStage(queues, worker, r, s)
    BY <2>1, <2>2 DEF JobsAgree
  <2>4. Places(queues, worker, queues', r, "detect")
    BY <1>0, <1>1, <1>11, <2>3 DEF PlaceDetectJob, Enqueue, Places, JobsTyped, Stages
  <2>5. /\ Apart(queues', worker)
        /\ \A t \in Stages : InStage(queues', worker, r, t) <=> t = "detect"
        /\ \A p \in Runs \ {r}, t \in Stages :
              InStage(queues', worker, p, t) <=> InStage(queues, worker, p, t)
    BY <1>1, <2>1, <2>4, JobAppended DEF Stages
  <2>6. JobsAgree' /\ \A p \in Runs \ {r} : SameStages(p)
    BY <1>2, <2>5, JobsAgreeAfter DEF SameStages
  <2>7. PhaseOf(r) = "none" /\ PhaseOf(r)' = "detect"
    BY <1>2, <2>1, <2>2, <2>3, <2>5, <2>6 DEF JobsAgree, Stages
  <2>8. \A p \in Runs \ {r} : PhaseOf(p)' = PhaseOf(p) /\ (HasJob(p)' <=> HasJob(p))
    BY <2>2, <2>6, PhaseStays
  <2>9. PlacedBy(h, r)'
    <3>1. handler'[h].pc = "record" /\ handler'[h].run = r
      BY <1>0, <1>11, <2>1, HandlerMoved DEF PlaceDetectJob, HandlerGoes, TypeOK
    <3> QED
      BY <3>1 DEF PlacedBy
  <2>10. \A p \in Runs : HasJob(p)' => HasJob(p) \/ PlacedBy(h, p)'
    BY <2>8, <2>9
  <2>11. StatusFitsJob'
    <3>1. \A t \in Stages : JobsIn(t)' = IF t = "detect" THEN JobsIn(t) \cup {r} ELSE JobsIn(t)
      BY <1>0, <1>1, <1>11, <2>1, Enqueued DEF PlaceDetectJob, JobsTyped, Stages
    <3>2. ASSUME NEW s \in Stages, NEW p \in JobsIn(s)' PROVE row'[p].status = Due(s)
      <4>1. p \in JobsIn(s) \/ (p = r /\ s = "detect")
        BY <3>1, <3>2
      <4> QED
        BY <1>1, <2>1, <4>1 DEF StatusFitsJob, Due
    <3> QED
      BY <1>1, <1>2, <2>1, <3>2 DEF StatusFitsJob, Busy, WorkerAt
  <2>12. SerialInv'
    <3>1. JobsWerePlaced' /\ RequestsInOrder' /\ NoTwinQueuedRuns'
      BY <1>1, <1>3, <2>10, HandlerMadeIt
    <3> QED
      BY <1>2, <2>5, <2>11, <3>1 DEF SerialInv
  <2>13. Moves(r, "queued", "none", "queued", "detect")
    BY <2>1, <2>7, <2>8 DEF Moves
  <2>14. Allowed("queued", "none", "queued", "detect")
    BY DEF Allowed
  <2> QED
    BY <2>1, <2>12, <2>13, <2>14, LifecycleStep
<1> QED
  BY <1>6, <1>7, <1>8, <1>9, <1>10, <1>11 DEF HandlerStep

(***************************************************************************)
(* The theorems.                                                           *)
(***************************************************************************)
LEMMA SerialInit == Init => SerialInv /\ Lifecycle!Init
<1> SUFFICES ASSUME Init PROVE SerialInv /\ Lifecycle!Init
  OBVIOUS
<1>1. /\ \A r \in Runs : row[r].status = "unborn"
      /\ \A s \in Stages : queues[s] = <<>>
      /\ \A w \in Workers : worker[w].pc = "idle"
      /\ \A h \in Handlers : handler[h].pc = "idle"
  BY DEF Init, Unborn, WorkerIdle, HandlerIdle
<1>2. \A s \in Stages : JobsIn(s) = {} /\ Range(queues[s]) = {}
  BY <1>1 DEF JobsIn, Range
<1>3. \A r \in Runs : ~HasJob(r)
  BY <1>1, <1>2 DEF HasJob, Busy, WorkerAt
<1>4. JobsWerePlaced /\ StatusFitsJob
  BY <1>1, <1>2, <1>3 DEF JobsWerePlaced, StatusFitsJob, Busy, WorkerAt
<1>5. RequestsInOrder /\ NoTwinQueuedRuns
  BY <1>1 DEF RequestsInOrder, InOrder, NoTwinQueuedRuns, Pending
<1>6. Apart(queues, worker)
  <2>1. \A s \in Stages : NoTwice(queues[s])
    BY <1>1 DEF NoTwice
  <2>2. \A w \in Workers, r \in Runs : ~At(worker, w, r)
    BY <1>1 DEF At
  <2> QED
    BY <1>2, <2>1, <2>2 DEF Apart
<1>7. \A r \in Runs : PhaseOf(r) = "none"
  BY <1>3 DEF PhaseOf
<1>8. Lifecycle!Init
  BY <1>1, <1>7 DEF Lifecycle!Init
<1> QED
  BY <1>4, <1>5, <1>6, <1>8 DEF SerialInv

LEMMA SerialStep ==
  SerialIntake /\ PipelineInv /\ PipelineInv' /\ SerialInv /\ [Next]_vars
    => SerialInv' /\ [Lifecycle!Next]_(Lifecycle!lifecycle)
<1> SUFFICES ASSUME SerialIntake, TypeOK, TypeOK', OnlyInsertedRunsAreUsed, SerialInv, [Next]_vars
             PROVE  SerialInv' /\ [Lifecycle!Next]_(Lifecycle!lifecycle)
  BY DEF PipelineInv
<1>1. CASE UNCHANGED <<row, queues, handler, worker>>
  <2>1. \A r \in Runs : JobPlaced(r)' <=> JobPlaced(r)
    BY <1>1 DEF JobPlaced, HandlerAt
  <2>2. /\ Apart(queues', worker') /\ StatusFitsJob'
        /\ \A p \in Runs : PhaseOf(p)' = PhaseOf(p) /\ (HasJob(p)' <=> HasJob(p))
    BY <1>1, JobsAtRest
  <2>3. JobsWerePlaced'
    BY <2>1, <2>2 DEF SerialInv, JobsWerePlaced
  <2>4. \A h \in Handlers : InOrder(h)'
    BY <1>1 DEF SerialInv, RequestsInOrder, InOrder
  <2>5. RequestsInOrder'
    BY <1>1, <2>1, <2>4 DEF SerialInv, RequestsInOrder
  <2>6. NoTwinQueuedRuns'
    BY <1>1 DEF SerialInv, NoTwinQueuedRuns
  <2>7. SerialInv'
    BY <2>2, <2>3, <2>5, <2>6 DEF SerialInv
  <2> QED
    BY <1>1, <2>2, <2>7, LifecycleStutter
<1>2. CASE DaysPass \/ UNCHANGED vars
  BY <1>1, <1>2 DEF DaysPass, vars, tables
<1>3. \A h \in Handlers : ~HandlerDies(h)
  BY DEF SerialIntake, HandlerDies
<1>4. \A r \in Runs : ~ReplayPublish(r) /\ ~ReplaySync(r)
  BY DEF SerialIntake, ReplayPublish, ReplaySync, Replay, TypeOK
<1>5. ASSUME NEW w \in Workers, WorkerStep(w) \/ WorkerDies(w)
      PROVE  SerialInv' /\ [Lifecycle!Next]_(Lifecycle!lifecycle)
  <2>1. CASE \E s \in Stages : TakeJob(w, s)
    BY <2>1, TakesKeepSerial
  <2>2. CASE \A s \in Stages : ~TakeJob(w, s)
    <3>1. PICK r \in Runs : WorkerEffect(w, r)
      BY <1>5, <2>2, WorkerEffects DEF SerialInv, SerialIntake
    <3> QED
      BY <3>1, EffectsKeepSerial
  <2> QED
    BY <2>1, <2>2
<1> QED
  BY <1>2, <1>3, <1>4, <1>5, HandlerStepsKeepSerial DEF Next

LEMMA SerialHolds == SerialIntake => (Spec => []SerialInv)
<1> SUFFICES ASSUME SerialIntake PROVE Spec => []SerialInv
  OBVIOUS
<1>1. PipelineInv /\ PipelineInv' /\ SerialInv /\ [Next]_vars => SerialInv'
  BY SerialStep
<1> QED
  BY <1>1, SerialInit, PipelineHolds, PTL DEF Spec

\* Where requests are served one after another a run never has two jobs, for
\* every number of workers and requests, wherever phases and enqueues fail and
\* workers die: no two of its phases overlap.  What carries it is that a job is
\* only placed for a run whose job id is not on record, and that the only such
\* run is the one the handler has in hand.
THEOREM RunsHaveOneJob == SerialIntake => (Spec => []OneJobPerRun)
<1>1. TypeOK /\ SerialInv => OneJobPerRun
  <2> SUFFICES ASSUME TypeOK, SerialInv PROVE OneJobPerRun
    OBVIOUS
  <2>1. JobsTyped(queues, worker) /\ Apart(queues, worker)
    BY TypedJobs DEF SerialInv
  <2>2. ASSUME NEW s \in Stages, NEW t \in Stages,
               NEW i \in DOMAIN queues[s], NEW j \in DOMAIN queues[t],
               queues[s][i] = queues[t][j]
        PROVE  s = t /\ i = j
    <3>1. queues[s][i] \in Range(queues[s]) /\ queues[t][j] \in Range(queues[t])
      BY DEF Range
    <3>2. s = t
      BY <2>1, <2>2, <3>1 DEF Apart
    <3> QED
      BY <2>1, <2>2, <3>2 DEF Apart, NoTwice
  <2>3. ASSUME NEW w \in Workers, Busy(w)
        PROVE  worker[w].run \in Runs /\ At(worker, w, worker[w].run)
    BY <2>1, <2>3 DEF JobsTyped, Busy, WorkerAt, At
  <2>4. \A w \in Workers : Busy(w) => \A s \in Stages : worker[w].run \notin JobsIn(s)
    BY <2>1, <2>3 DEF Apart, JobsIn
  <2>5. \A w, v \in Workers : Busy(w) /\ Busy(v) /\ worker[w].run = worker[v].run => w = v
    BY <2>1, <2>3 DEF Apart
  <2> QED
    BY <2>2, <2>4, <2>5 DEF OneJobPerRun
<1>2. PipelineInv => TypeOK
  BY DEF PipelineInv
<1> QED
  BY <1>1, <1>2, SerialHolds, PipelineHolds, PTL

\* There the best-effort dedupe is exact until a worker starts the run: two
\* queued runs never have the same target, although a run's target changes when
\* detect has observed the head.
THEOREM QueuedRunsHaveNoTwin == SerialIntake => (Spec => []NoTwinQueuedRuns)
<1>1. SerialInv => NoTwinQueuedRuns
  BY DEF SerialInv
<1> QED
  BY <1>1, SerialHolds, PTL

\* There the pipeline of queues, workers and conditional writes implements the
\* life of a run that RunLifecycle states: every step of a handler or a worker
\* is a step of one run's life, or none.
THEOREM PipelineRefinesLifecycle == SerialIntake => (Spec => RunsFollowLifecycle)
<1> SUFFICES ASSUME SerialIntake PROVE Spec => RunsFollowLifecycle
  OBVIOUS
<1>1. Init => Lifecycle!Init
  BY SerialInit
<1>2. PipelineInv /\ PipelineInv' /\ SerialInv /\ [Next]_vars
        => [Lifecycle!Next]_(Lifecycle!lifecycle)
  BY SerialStep
<1> QED
  BY <1>1, <1>2, SerialHolds, PipelineHolds, PTL DEF Spec, RunsFollowLifecycle, Lifecycle!Spec
================================================================================
