--------------------------- MODULE JobQueueProofs ---------------------------
(***************************************************************************)
(* Theorems about JobQueue for every number of workers, deliveries and     *)
(* leases, and every value of the timing constants.                        *)
(***************************************************************************)
EXTENDS MCJobQueue, TLAPS

-----------------------------------------------------------------------------
(* What the statements of PostgresStore make of a row. *)

\* Both a fresh and an expired heartbeat are ages.
LEMMA NeverIsNat == /\ Never \in Nat
                    /\ 0 \in 0..Never
                    /\ Never \in 0..Never
  BY ClockAssumption DEF Never

\* A released row has no lease and keeps its attempt number.
LEMMA ReleasedRow ==
  ASSUME NEW r \in JobRow, NEW s \in Status, NEW e \in Error, NEW w \in Nat
  PROVE  /\ Released(r, s, e, w) \in JobRow
         /\ Released(r, s, e, w).status = s
         /\ Released(r, s, e, w).lease = NoLease
         /\ Released(r, s, e, w).error = e
         /\ Released(r, s, e, w).attempt = r.attempt
<1>1. Released(r, s, e, w) \in JobRow
  BY NeverIsNat DEF Released, JobRow
<1>2. /\ Released(r, s, e, w).status = s
      /\ Released(r, s, e, w).lease = NoLease
  BY DEF Released, JobRow
<1>3. /\ Released(r, s, e, w).error = e
      /\ Released(r, s, e, w).attempt = r.attempt
  BY DEF Released, JobRow
<1>4. QED
  BY <1>1, <1>2, <1>3

\* An attempt number is positive once claimed, capped or not.
LEMMA BumpType ==
  ASSUME NEW n \in 0..AttemptCap
  PROVE  Bump(n) \in 1..AttemptCap /\ Bump(n) \in 0..AttemptCap
  BY AttemptAssumption DEF Bump

\* A claimed row runs, under the lease of the claim, with the next attempt number.
LEMMA TakenRow ==
  ASSUME NEW r \in JobRow, NEW l \in Lease \cup {NoLease}
  PROVE  /\ Taken(r, l) \in JobRow
         /\ Taken(r, l).status = "running"
         /\ Taken(r, l).lease = l
         /\ Taken(r, l).attempt = Bump(r.attempt)
         /\ Bump(r.attempt) \in 1..AttemptCap
<1>1. Bump(r.attempt) \in 1..AttemptCap /\ Bump(r.attempt) \in 0..AttemptCap
  BY BumpType DEF JobRow
<1>2. Taken(r, l) \in JobRow
  <2>1. "running" \in Status /\ "none" \in Error
    BY DEF Status, Error
  <2>2. QED
    BY <1>1, <2>1, NeverIsNat DEF Taken, JobRow
<1>3. /\ Taken(r, l).status = "running"
      /\ Taken(r, l).lease = l
      /\ Taken(r, l).attempt = Bump(r.attempt)
  BY DEF Taken, JobRow
<1>4. QED
  BY <1>1, <1>2, <1>3

\* fail_job requeues or fails, and fails only from the last allowed attempt on.
LEMMA RetryRow ==
  ASSUME NEW r \in JobRow, NEW n \in 0..AttemptCap
  PROVE  /\ AfterFailure(r, n, TRUE) \in JobRow
         /\ AfterFailure(r, n, TRUE).status \in {"queued", "failed"}
         /\ AfterFailure(r, n, TRUE).lease = NoLease
         /\ AfterFailure(r, n, TRUE).attempt = r.attempt
         /\ AfterFailure(r, n, TRUE).status = "failed" =>
              AfterFailure(r, n, TRUE).error = "phase_failed" /\ n >= MaxAttempts
<1>1. CASE n < MaxAttempts
  <2>1. n * BackoffTicks \in Nat
    BY ClockAssumption, AttemptAssumption
  <2>2. AfterFailure(r, n, TRUE) = Released(r, "queued", "phase_failed", n * BackoffTicks)
    BY <1>1 DEF AfterFailure
  <2>3. "queued" \in Status /\ "phase_failed" \in Error
    BY DEF Status, Error
  <2> DEFINE a == Released(r, "queued", "phase_failed", n * BackoffTicks)
  <2>4. a \in JobRow /\ a.status = "queued" /\ a.lease = NoLease /\ a.attempt = r.attempt
    BY <2>1, <2>3, ReleasedRow
  <2> HIDE DEF a
  <2>5. AfterFailure(r, n, TRUE) = a
    BY <2>2 DEF a
  <2>6. QED
    BY <2>4, <2>5
<1>2. CASE ~(n < MaxAttempts)
  <2>1. r.wait \in Nat
    BY DEF JobRow
  <2>2. AfterFailure(r, n, TRUE) = Released(r, "failed", "phase_failed", r.wait)
    BY <1>2 DEF AfterFailure
  <2>3. "failed" \in Status /\ "phase_failed" \in Error
    BY DEF Status, Error
  <2>4. n >= MaxAttempts
    BY <1>2, AttemptAssumption
  <2> DEFINE a == Released(r, "failed", "phase_failed", r.wait)
  <2>5. /\ a \in JobRow /\ a.status = "failed" /\ a.lease = NoLease
        /\ a.attempt = r.attempt /\ a.error = "phase_failed"
    BY <2>1, <2>3, ReleasedRow
  <2> HIDE DEF a
  <2>6. AfterFailure(r, n, TRUE) = a
    BY <2>2 DEF a
  <2>7. QED
    BY <2>4, <2>5, <2>6
<1>3. QED
  BY <1>1, <1>2

\* fail_job(retry=False) fails the job because of its head.
LEMMA GiveUpRow ==
  ASSUME NEW r \in JobRow, NEW n \in 0..AttemptCap
  PROVE  /\ AfterFailure(r, n, FALSE) \in JobRow
         /\ AfterFailure(r, n, FALSE).status = "failed"
         /\ AfterFailure(r, n, FALSE).lease = NoLease
         /\ AfterFailure(r, n, FALSE).attempt = r.attempt
         /\ AfterFailure(r, n, FALSE).error = "stale_head"
<1>1. r.wait \in Nat
  BY DEF JobRow
<1>2. AfterFailure(r, n, FALSE) = Released(r, "failed", "stale_head", r.wait)
  BY DEF AfterFailure
<1>3. "failed" \in Status /\ "stale_head" \in Error
  BY DEF Status, Error
<1> DEFINE a == Released(r, "failed", "stale_head", r.wait)
<1>4. /\ a \in JobRow /\ a.status = "failed" /\ a.lease = NoLease
      /\ a.attempt = r.attempt /\ a.error = "stale_head"
  BY <1>1, <1>3, ReleasedRow
<1> HIDE DEF a
<1>5. AfterFailure(r, n, FALSE) = a
  BY <1>2 DEF a
<1>6. QED
  BY <1>4, <1>5

-----------------------------------------------------------------------------
(* Type correctness. *)

\* Recovery leaves well-formed rows.
LEMMA RecoveredType ==
  ASSUME TypeOK
  PROVE  Recovered \in [Delivery -> JobRow]
<1>1. ASSUME NEW d \in Delivery
      PROVE  Released(jobs[d], "queued", "worker_stopped", 0) \in JobRow
  <2>1. "queued" \in Status /\ "worker_stopped" \in Error /\ 0 \in Nat
    BY DEF Status, Error
  <2>2. jobs[d] \in JobRow
    BY DEF TypeOK
  <2>3. QED
    BY <2>1, <2>2, ReleasedRow
<1>2. QED
  BY <1>1 DEF Recovered, TypeOK

\* Zero is an attempt number.
LEMMA CapIsNat == 0 \in 0..AttemptCap
  BY AttemptAssumption

\* The three ways in which a worker moves on.
LEMMA GotoWorker ==
  ASSUME TypeOK, NEW p \in Proc, NEW ph \in Phase, Goto(p, ph)
  PROVE  /\ proc' \in [Proc -> Worker]
         /\ \A q \in Proc : /\ proc'[q].lease = proc[q].lease
                            /\ proc'[q].job = proc[q].job
                            /\ proc'[q].attempt = proc[q].attempt
                            /\ proc'[q].phase = IF q = p THEN ph ELSE proc[q].phase
<1>1. proc \in [Proc -> Worker] /\ proc' = [proc EXCEPT ![p].phase = ph]
  BY DEF TypeOK, Goto
<1>2. proc' \in [Proc -> Worker]
  BY <1>1 DEF Worker
<1>3. QED
  BY <1>1, <1>2 DEF Worker

\* A worker that leaves has neither lease nor job.
LEMMA LeaveWorker ==
  ASSUME TypeOK, NEW p \in Proc, NEW ph \in Phase, Leave(p, ph)
  PROVE  /\ proc' \in [Proc -> Worker]
         /\ \A q \in Proc \ {p} : proc'[q] = proc[q]
         /\ proc'[p].lease = NoLease
         /\ proc'[p].job = NoJob
         /\ proc'[p].phase = ph
<1>1. Gone(ph) \in Worker
  BY CapIsNat DEF Gone, Worker
<1>2. proc \in [Proc -> Worker] /\ proc' = [proc EXCEPT ![p] = Gone(ph)]
  BY DEF TypeOK, Leave
<1>3. proc' \in [Proc -> Worker]
  BY <1>1, <1>2
<1>4. proc'[p] = Gone(ph) /\ \A q \in Proc \ {p} : proc'[q] = proc[q]
  BY <1>2
<1>5. QED
  BY <1>3, <1>4 DEF Gone

\* A worker that is done with a job keeps its lease.
LEMMA NextJobWorker ==
  ASSUME TypeOK, NEW p \in Proc, NextJob(p)
  PROVE  /\ proc' \in [Proc -> Worker]
         /\ \A q \in Proc \ {p} : proc'[q] = proc[q]
         /\ proc'[p].lease = proc[p].lease
         /\ proc'[p].job = NoJob
         /\ proc'[p].phase = "idle"
<1>1. proc \in [Proc -> Worker]
  BY DEF TypeOK
<1>2. proc' = [proc EXCEPT ![p].phase = "idle", ![p].job = NoJob, ![p].attempt = 0]
  BY DEF NextJob
<1>3. proc[p] \in Worker
  BY <1>1
<1>4. proc'[p] = [proc[p] EXCEPT !.phase = "idle", !.job = NoJob, !.attempt = 0]
  BY <1>1, <1>2
<1>5. proc'[p] = [phase |-> "idle", lease |-> proc[p].lease, job |-> NoJob, attempt |-> 0]
  BY <1>3, <1>4 DEF Worker
<1>6. \A q \in Proc \ {p} : proc'[q] = proc[q]
  BY <1>1, <1>2
<1>7. proc'[p] \in Worker
  BY <1>3, <1>5, CapIsNat DEF Worker, Phase
<1>8. proc' \in [Proc -> Worker]
  BY <1>1, <1>2, <1>6, <1>7
<1>9. QED
  BY <1>5, <1>6, <1>8

\* The transactions that end an attempt write one well-formed row.
LEMMA EndedType ==
  ASSUME TypeOK, NEW j, NEW e \in Error, NEW n \in 0..AttemptCap
  PROVE  /\ [jobs EXCEPT ![j] = Released(jobs[j], "queued", e, 0)] \in [Delivery -> JobRow]
         /\ [jobs EXCEPT ![j] = AfterFailure(jobs[j], n, TRUE)] \in [Delivery -> JobRow]
         /\ [jobs EXCEPT ![j] = AfterFailure(jobs[j], n, FALSE)] \in [Delivery -> JobRow]
         /\ [jobs EXCEPT ![j] = Released(jobs[j], "complete", jobs[j].error, jobs[j].wait)]
              \in [Delivery -> JobRow]
<1>1. jobs \in [Delivery -> JobRow]
  BY DEF TypeOK
<1>2. CASE j \in Delivery
  <2>1. jobs[j] \in JobRow /\ jobs[j].error \in Error /\ jobs[j].wait \in Nat
    BY <1>1, <1>2 DEF JobRow
  <2>2. /\ Released(jobs[j], "queued", e, 0) \in JobRow
        /\ Released(jobs[j], "complete", jobs[j].error, jobs[j].wait) \in JobRow
    BY <2>1, ReleasedRow DEF Status
  <2>3. /\ AfterFailure(jobs[j], n, TRUE) \in JobRow
        /\ AfterFailure(jobs[j], n, FALSE) \in JobRow
    BY <2>1, RetryRow, GiveUpRow
  <2>4. QED
    BY <1>1, <2>2, <2>3
<1>3. CASE j \notin Delivery
  BY <1>1, <1>3
<1>4. QED
  BY <1>2, <1>3

\* Every variable keeps its type.
LEMMA TypeStep == ASSUME TypeOK, [Next]_vars PROVE TypeOK'
<1> USE DEF TypeOK
<1>1. ASSUME NEW d \in Delivery, RecordDelivery(d) PROVE TypeOK'
  <2>1. jobs' \in [Delivery -> JobRow]
    <3>1. [jobs[d] EXCEPT !.status = "queued"] \in JobRow
      BY DEF JobRow, Status
    <3>2. QED
      BY <1>1, <3>1 DEF RecordDelivery
  <2>2. arrived' \in Seq(Delivery)
    BY <1>1 DEF RecordDelivery
  <2>3. QED
    BY <1>1, <2>1, <2>2 DEF RecordDelivery
<1>2. ASSUME NEW d \in Delivery, RecordClosed(d) PROVE TypeOK'
  BY <1>2 DEF RecordClosed
<1>3. ASSUME NEW p \in Proc, Start(p) PROVE TypeOK'
  <2>1. PICK l \in Lease : proc' = [proc EXCEPT ![p].phase = "idle", ![p].lease = l]
    BY <1>3 DEF Start
  <2>2. [proc[p] EXCEPT !.phase = "idle", !.lease = l] \in Worker
    BY DEF Worker, Phase
  <2>3. proc' \in [Proc -> Worker]
    BY <2>1, <2>2
  <2>4. QED
    BY <1>3, <2>3 DEF Start
<1>4. ASSUME NEW p \in Proc, Stop(p) PROVE TypeOK'
  BY <1>4, LeaveWorker DEF Stop, Phase
<1>5. ASSUME NEW p \in Proc, NEW o \in Outcome, Interrupt(p, o) PROVE TypeOK'
  <2>1. jobs' \in [Delivery -> JobRow]
    BY <1>5, EndedType, CapIsNat DEF Interrupt, Error
  <2>2. proc' \in [Proc -> Worker]
    BY <1>5, LeaveWorker DEF Interrupt, Phase
  <2>3. QED
    BY <1>5, <2>1, <2>2 DEF Interrupt
<1>6. ASSUME NEW p \in Proc, NEW o \in Outcome, Claim(p, o) PROVE TypeOK'
  <2>1. CASE Committed(o)
    <3>1. PICK d \in Available(Recovered) :
            /\ jobs' = [Recovered EXCEPT ![d] = Taken(Recovered[d], proc[p].lease)]
            /\ proc' = [proc EXCEPT ![p] =
                 IF o = "ok" THEN [phase |-> "snapshot", lease |-> proc[p].lease,
                                   job |-> d, attempt |-> Bump(jobs[d].attempt)]
                             ELSE Gone("crashed")]
      BY <1>6, <2>1 DEF Claim
    <3>2. d \in Delivery
      BY DEF Available
    <3>3. proc[p].lease \in Lease \cup {NoLease} /\ proc[p] \in Worker
      BY DEF Worker
    <3>4. Recovered \in [Delivery -> JobRow]
      BY RecoveredType
    <3>5. Taken(Recovered[d], proc[p].lease) \in JobRow
      BY <3>2, <3>3, <3>4, TakenRow
    <3>6. jobs' \in [Delivery -> JobRow]
      BY <3>1, <3>4, <3>5
    <3>7. Bump(jobs[d].attempt) \in 0..AttemptCap
      BY <3>2, BumpType DEF JobRow
    <3>8. proc' \in [Proc -> Worker]
      <4>1. [phase |-> "snapshot", lease |-> proc[p].lease, job |-> d,
             attempt |-> Bump(jobs[d].attempt)] \in Worker
        BY <3>2, <3>3, <3>7 DEF Worker, Phase
      <4>2. Gone("crashed") \in Worker
        BY CapIsNat DEF Worker, Gone, Phase
      <4>3. QED
        BY <3>1, <4>1, <4>2
    <3>9. QED
      BY <1>6, <3>6, <3>8 DEF Claim
  <2>2. CASE ~Committed(o)
    BY <1>6, <2>2, LeaveWorker DEF Claim, Phase
  <2>3. QED
    BY <2>1, <2>2
<1>7. ASSUME NEW p \in Proc, TakeSnapshot(p) PROVE TypeOK'
  BY <1>7, GotoWorker DEF TakeSnapshot, Phase
<1>8. ASSUME NEW p \in Proc, Review(p) PROVE TypeOK'
  BY <1>8, GotoWorker DEF Review, Phase
<1>9. ASSUME NEW p \in Proc, NEW o \in Outcome, StoreRun(p, o) PROVE TypeOK'
  <2>1. proc[p].attempt \in 0..AttemptCap
    BY DEF Worker
  <2>2. jobs' \in [Delivery -> JobRow]
    <3> DEFINE j == proc[p].job
    <3>1. \/ jobs' = [jobs EXCEPT ![j] =
                        Released(jobs[j], "complete", jobs[j].error, jobs[j].wait)]
          \/ jobs' = jobs
      BY <1>9 DEF StoreRun
    <3>2. [jobs EXCEPT ![j] = Released(jobs[j], "complete", jobs[j].error, jobs[j].wait)]
            \in [Delivery -> JobRow]
      BY <2>1, EndedType DEF Error
    <3>3. QED
      BY <3>1, <3>2
  <2>3. runs' \in [Delivery -> 0..AttemptCap]
    BY <1>9, <2>1 DEF StoreRun
  <2>4. proc' \in [Proc -> Worker]
    BY <1>9, GotoWorker DEF StoreRun, Phase
  <2>5. QED
    BY <1>9, <2>2, <2>3, <2>4 DEF StoreRun
<1>10. ASSUME NEW p \in Proc, NEW o \in Outcome, FailStale(p, o) PROVE TypeOK'
  <2>1. proc[p].attempt \in 0..AttemptCap
    BY DEF Worker
  <2>2. jobs' \in [Delivery -> JobRow]
    BY <1>10, <2>1, EndedType DEF FailStale, Error
  <2>3. proc' \in [Proc -> Worker]
    BY <1>10, GotoWorker, NextJobWorker DEF FailStale, Phase
  <2>4. QED
    BY <1>10, <2>2, <2>3 DEF FailStale
<1>11. ASSUME NEW p \in Proc, NEW o \in Outcome, FailJob(p, o) PROVE TypeOK'
  <2>1. proc[p].attempt \in 0..AttemptCap
    BY DEF Worker
  <2>2. jobs' \in [Delivery -> JobRow]
    BY <1>11, <2>1, EndedType DEF FailJob, Error
  <2>3. proc' \in [Proc -> Worker]
    BY <1>11, LeaveWorker, NextJobWorker DEF FailJob, Phase
  <2>4. QED
    BY <1>11, <2>2, <2>3 DEF FailJob
<1>12. ASSUME NEW p \in Proc, Publish(p) PROVE TypeOK'
  BY <1>12, NextJobWorker DEF Publish
<1>13. ASSUME NEW p \in Proc, Heartbeat(p) PROVE TypeOK'
  <2>1. jobs' \in [Delivery -> JobRow]
    BY <1>13, NeverIsNat DEF Heartbeat, JobRow
  <2>2. QED
    BY <1>13, <2>1 DEF Heartbeat
<1>14. ASSUME Tick PROVE TypeOK'
  <2> DEFINE row(d) == [jobs[d] EXCEPT
         !.beat = IF jobs[d].status = "running" /\ @ < Never THEN @ + 1 ELSE @,
         !.wait = IF @ > 0 THEN @ - 1 ELSE 0]
  <2>1. ASSUME NEW d \in Delivery PROVE row(d) \in JobRow
    <3>1. jobs[d] \in JobRow
      OBVIOUS
    <3>2. /\ (IF jobs[d].status = "running" /\ jobs[d].beat < Never
               THEN jobs[d].beat + 1 ELSE jobs[d].beat) \in 0..Never
          /\ (IF jobs[d].wait > 0 THEN jobs[d].wait - 1 ELSE 0) \in Nat
      BY <3>1, NeverIsNat DEF JobRow
    <3>3. QED
      BY <3>1, <3>2 DEF JobRow
  <2>2. jobs' = [d \in Delivery |-> row(d)]
    BY <1>14 DEF Tick
  <2> HIDE DEF row
  <2>3. jobs' \in [Delivery -> JobRow]
    BY <2>1, <2>2
  <2>4. QED
    BY <1>14, <2>3 DEF Tick
<1>15. CASE UNCHANGED vars
  BY <1>15 DEF vars
<1>16. QED
  BY <1>1, <1>2, <1>3, <1>4, <1>5, <1>6, <1>7, <1>8, <1>9, <1>10, <1>11, <1>12, <1>13,
     <1>14, <1>15 DEF Next, WorkerStep, Work

LEMMA InitType == Init => TypeOK
<1>1. NoRow \in JobRow
  BY NeverIsNat, AttemptAssumption DEF NoRow, JobRow, Status, Error
<1>2. Gone("down") \in Worker
  BY CapIsNat DEF Gone, Worker, Phase
<1>3. QED
  BY <1>1, <1>2, CapIsNat DEF Init, TypeOK

\* Tables, rows and workers keep their types.
THEOREM TypeCorrect == Spec => []TypeOK
  BY InitType, TypeStep, PTL DEF Spec

-----------------------------------------------------------------------------
(* The lease protects the row: the inductive invariant. *)

\* A worker p moves and no row changes: it is gone, or done with a settled
\* job, or one phase further with the same lease and job.
MovesOnly(p) ==
  /\ UNCHANGED <<deliveries, jobs, runs>>
  /\ \A q \in Proc \ {p} : proc'[q] = proc[q]
  /\ \/ /\ proc'[p].phase \in {"down", "crashed"}
        /\ proc'[p].lease = NoLease
        /\ proc'[p].job = NoJob
     \/ /\ proc'[p].phase = "idle"
        /\ proc[p].phase = "publish"
        /\ proc'[p].lease = proc[p].lease
        /\ proc'[p].job = NoJob
     \/ /\ proc'[p].phase \in {"review", "stale", "complete", "failing"}
        /\ proc[p].phase \in {"snapshot", "review", "stale", "complete"}
        /\ proc'[p].lease = proc[p].lease
        /\ proc'[p].job = proc[p].job
        /\ proc'[p].attempt = proc[p].attempt

\* The worker p owns the row of its job and ends the attempt with row a.
EndsWith(p, a) ==
  /\ proc[p].job # NoJob
  /\ Owns(p)
  /\ UNCHANGED deliveries
  /\ jobs' = [jobs EXCEPT ![proc[p].job] = a]
  /\ a.status \in {"queued", "failed", "complete"}
  /\ a.lease = NoLease
  /\ a.attempt = jobs[proc[p].job].attempt
  /\ a.status = "failed" => \/ a.error = "stale_head"
                            \/ a.error = "phase_failed" /\ a.attempt >= MaxAttempts
  /\ runs' = [runs EXCEPT ![proc[p].job] = IF a.status = "complete" THEN a.attempt ELSE @]
  /\ \A q \in Proc \ {p} : proc'[q] = proc[q]
  /\ proc'[p].phase # proc[p].phase
  /\ \/ /\ proc'[p].phase \in {"down", "crashed"}
        /\ proc'[p].lease = NoLease
        /\ proc'[p].job = NoJob
     \/ /\ proc'[p].phase = "idle"
        /\ proc'[p].lease = proc[p].lease
        /\ proc'[p].job = NoJob
     \/ /\ proc'[p].phase \in {"publish", "failing"}
        /\ proc'[p].lease = proc[p].lease
        /\ proc'[p].job = proc[p].job

\* Every transaction that ends an attempt either does so or changes no row.
Ending(p) == MovesOnly(p) \/ \E a \in JobRow : EndsWith(p, a)

\* A step that only moves a worker inside its attempt disturbs nothing.
LEMMA WorkerMoves ==
  ASSUME TypeOK, TypeOK', QueueInv, NEW p \in Proc, MovesOnly(p)
  PROVE  QueueInv'
<1> USE DEF QueueInv, MovesOnly
<1>1. LeaseTable'
  BY DEF LeaseTable, Live
<1>2. WorkerTable'
  BY DEF WorkerTable
<1>3. LeaseFence'
  BY DEF LeaseFence, LeaseTable, Live
<1>4. RowTable' /\ RunIffComplete' /\ FailureIsEarned'
  BY DEF RowTable, RunIffComplete, FailureIsEarned
<1>5. QED
  BY <1>1, <1>2, <1>3, <1>4

\* Ending an attempt from the row's owner keeps the invariant.
LEMMA AttemptEnds ==
  ASSUME TypeOK, TypeOK', QueueInv, NEW p \in Proc, NEW a \in JobRow, EndsWith(p, a)
  PROVE  QueueInv'
<1> DEFINE j == proc[p].job
<1> USE DEF QueueInv, EndsWith
<1>1. j \in Delivery /\ Live(p) /\ jobs[j].status = "running" /\ proc[p].lease # NoLease
  BY DEF TypeOK, Worker, WorkerTable, Live, LeaseTable, Owns
<1>2. /\ jobs'[j] = a
      /\ \A d \in Delivery \ {j} : jobs'[d] = jobs[d] /\ runs'[d] = runs[d]
      /\ runs'[j] = IF a.status = "complete" THEN a.attempt ELSE runs[j]
  BY <1>1 DEF TypeOK
<1>3. runs[j] = 0 /\ jobs[j].attempt > 0
  BY <1>1 DEF RunIffComplete, RowTable
<1> HIDE DEF j
<1>4. LeaseTable'
  <2>1. \A d \in Delivery : jobs'[d].status = "running" <=> jobs'[d].lease # NoLease
    BY <1>1, <1>2 DEF LeaseTable
  <2>2. \A q \in Proc : Live(q)' <=> proc'[q].lease # NoLease
    BY <1>1 DEF LeaseTable, Live
  <2>3. \A q, r \in Proc : proc'[q].lease = proc'[r].lease => q = r \/ ~Live(q)'
    BY <1>1 DEF LeaseTable, Live
  <2>4. QED
    BY <2>1, <2>2, <2>3 DEF LeaseTable
<1>5. WorkerTable'
  <2>1. proc'[p].job = NoJob <=> proc'[p].phase \in {"down", "crashed", "idle"}
    OBVIOUS
  <2>2. QED
    BY <2>1 DEF WorkerTable
<1>6. RowTable'
  BY <1>1, <1>2, <1>3 DEF RowTable
<1>7. LeaseFence'
  <2> SUFFICES ASSUME NEW q \in Proc, NEW d \in Delivery,
                      Live(q)', jobs'[d].lease = proc'[q].lease
               PROVE  /\ jobs'[d].status = "running"
                      /\ proc'[q].job = d
                      /\ proc'[q].attempt = jobs'[d].attempt
                      /\ proc'[q].phase \in {"snapshot", "review", "complete", "stale", "failing"}
    BY DEF LeaseFence
  <2>1. d # j
    BY <1>2, <1>4 DEF LeaseTable
  <2>2. proc'[q].lease = proc[q].lease /\ Live(q)
    BY <1>1, <1>4 DEF LeaseTable, Live
  <2>3. proc[q].job = d
    BY <1>2, <2>1, <2>2 DEF LeaseFence
  <2>4. q # p
    BY <2>1, <2>3 DEF j
  <2>5. QED
    BY <1>2, <2>1, <2>2, <2>4 DEF LeaseFence
<1>8. RunIffComplete'
  BY <1>1, <1>2, <1>3 DEF RunIffComplete
<1>9. FailureIsEarned'
  BY <1>1, <1>2 DEF FailureIsEarned
<1>10. QED
  BY <1>4, <1>5, <1>6, <1>7, <1>8, <1>9

\* A claim: expired jobs are recovered and one free job is taken.
LEMMA RecoveredRows ==
  ASSUME TypeOK, NEW d \in Delivery
  PROVE  /\ Recovered[d] \in JobRow
         /\ Recovered[d].attempt = jobs[d].attempt
         /\ \/ Recovered[d] = jobs[d]
            \/ /\ jobs[d].status = "running"
               /\ Recovered[d].status = "queued"
               /\ Recovered[d].lease = NoLease
<1>1. jobs[d] \in JobRow
  BY DEF TypeOK
<1>2. Recovered[d] = IF Expired(jobs[d])
                     THEN Released(jobs[d], "queued", "worker_stopped", 0) ELSE jobs[d]
  BY DEF Recovered
<1>3. CASE Expired(jobs[d])
  <2>1. "queued" \in Status /\ "worker_stopped" \in Error /\ 0 \in Nat
    BY DEF Status, Error
  <2>2. Recovered[d] = Released(jobs[d], "queued", "worker_stopped", 0)
    BY <1>2, <1>3
  <2>3. jobs[d].status = "running"
    BY <1>3 DEF Expired
  <2>4. QED
    BY <1>1, <2>1, <2>2, <2>3, ReleasedRow
<1>4. CASE ~Expired(jobs[d])
  BY <1>1, <1>2, <1>4
<1>5. QED
  BY <1>3, <1>4

\* claim_job: recovered rows lose their lease, the taken one names its taker.
LEMMA ClaimInv ==
  ASSUME TypeOK, TypeOK', QueueInv, NEW p \in Proc, NEW o \in Outcome, Claim(p, o)
  PROVE  QueueInv'
<1> USE DEF QueueInv
<1>1. CASE ~Committed(o)
  <2>1. /\ UNCHANGED <<deliveries, jobs, runs>>
        /\ Leave(p, "crashed")
    BY <1>1 DEF Claim
  <2>2. QED
    BY <2>1, LeaveWorker, WorkerMoves DEF Phase, MovesOnly
<1>2. CASE Committed(o)
  <2>1. PICK d \in Available(Recovered) :
          /\ jobs' = [Recovered EXCEPT ![d] = Taken(Recovered[d], proc[p].lease)]
          /\ proc' = [proc EXCEPT ![p] =
               IF o = "ok" THEN [phase |-> "snapshot", lease |-> proc[p].lease,
                                 job |-> d, attempt |-> Bump(jobs[d].attempt)]
                           ELSE Gone("crashed")]
    BY <1>2 DEF Claim
  <2>2. /\ d \in Delivery /\ Recovered[d].status = "queued"
        /\ proc[p].phase = "idle"
        /\ UNCHANGED <<deliveries, runs>>
    BY DEF Available, Claim
  <2>3. proc[p].lease \in Lease /\ proc[p].lease # NoLease /\ Live(p) /\ proc[p].job = NoJob
    BY <2>2 DEF TypeOK, Worker, LeaseTable, Live, WorkerTable
  <2>4. /\ jobs'[d].status = "running"
        /\ jobs'[d].lease = proc[p].lease
        /\ jobs'[d].attempt = Bump(jobs[d].attempt)
        /\ jobs'[d].attempt > 0
    <3>1. jobs'[d] = Taken(Recovered[d], proc[p].lease)
      BY <2>1, <2>2 DEF Recovered
    <3>2. QED
      BY <2>2, <2>3, <3>1, RecoveredRows, TakenRow
  <2>5. \A c \in Delivery \ {d} : jobs'[c] = Recovered[c]
    BY <2>1 DEF Recovered
  <2>6. \A q \in Proc \ {p} : proc'[q] = proc[q]
    BY <2>1 DEF TypeOK
  <2>7. proc'[p] = IF o = "ok" THEN [phase |-> "snapshot", lease |-> proc[p].lease,
                                     job |-> d, attempt |-> Bump(jobs[d].attempt)]
                               ELSE Gone("crashed")
    BY <2>1 DEF TypeOK
  <2>8. \/ /\ proc'[p].phase = "snapshot" /\ proc'[p].lease = proc[p].lease
           /\ proc'[p].job = d /\ proc'[p].attempt = jobs'[d].attempt
        \/ /\ proc'[p].phase = "crashed" /\ proc'[p].lease = NoLease /\ proc'[p].job = NoJob
    BY <2>4, <2>7 DEF Gone
  \* An idle worker's lease stands in no row.
  <2>9. \A c \in Delivery : jobs[c].lease # proc[p].lease
    BY <2>2, <2>3 DEF LeaseFence
  <2>10. LeaseTable'
    <3>1. \A c \in Delivery : jobs'[c].status = "running" <=> jobs'[c].lease # NoLease
      BY <2>3, <2>4, <2>5, RecoveredRows DEF LeaseTable
    <3>2. \A q \in Proc : Live(q)' <=> proc'[q].lease # NoLease
      BY <2>3, <2>6, <2>8 DEF LeaseTable, Live
    <3>3. \A q, r \in Proc : proc'[q].lease = proc'[r].lease => q = r \/ ~Live(q)'
      BY <2>3, <2>6, <2>8 DEF LeaseTable, Live
    <3>4. QED
      BY <3>1, <3>2, <3>3 DEF LeaseTable
  <2>11. WorkerTable'
    <3>1. d # NoJob
      BY <2>2, NoValueAssumption
    <3>2. QED
      BY <2>6, <2>8, <3>1 DEF WorkerTable
  <2>12. LeaseFence'
    <3> SUFFICES ASSUME NEW q \in Proc, NEW c \in Delivery,
                        Live(q)', jobs'[c].lease = proc'[q].lease
                 PROVE  /\ jobs'[c].status = "running"
                        /\ proc'[q].job = c
                        /\ proc'[q].attempt = jobs'[c].attempt
                        /\ proc'[q].phase \in {"snapshot", "review", "complete", "stale", "failing"}
      BY DEF LeaseFence
    <3>1. proc'[q].lease # NoLease
      BY <2>10 DEF LeaseTable
    <3>2. CASE q = p
      <4>1. /\ proc'[p].phase = "snapshot" /\ proc'[p].lease = proc[p].lease
            /\ proc'[p].job = d /\ proc'[p].attempt = jobs'[d].attempt
        BY <2>8, <3>1, <3>2
      <4>2. c = d
        BY <2>3, <2>5, <2>9, <3>2, <4>1, RecoveredRows
      <4>3. QED
        BY <2>4, <3>2, <4>1, <4>2
    <3>3. CASE q # p
      <4>1. proc'[q] = proc[q] /\ Live(q)
        BY <2>6, <3>3 DEF Live
      <4>2. proc[q].lease # proc[p].lease
        BY <3>3, <4>1 DEF LeaseTable
      <4>3. c # d
        BY <2>4, <4>1, <4>2
      <4>4. jobs'[c] = jobs[c]
        BY <2>5, <3>1, <4>1, <4>3, RecoveredRows
      <4>5. QED
        BY <4>1, <4>4 DEF LeaseFence
    <3>4. QED
      BY <3>2, <3>3
  <2>13. RowTable'
    <3> SUFFICES ASSUME NEW c \in Delivery
                 PROVE  /\ c \notin deliveries => jobs'[c].status = "absent"
                        /\ jobs'[c].status \in {"running", "complete"} => jobs'[c].attempt > 0
      BY <2>2 DEF RowTable
    <3>1. CASE c = d
      <4>1. jobs[d].status # "absent"
        BY <2>2, RecoveredRows
      <4>2. QED
        BY <2>2, <2>4, <3>1, <4>1 DEF RowTable
    <3>2. CASE c # d
      BY <2>5, <3>2, RecoveredRows DEF RowTable
    <3>3. QED
      BY <3>1, <3>2
  <2>14. RunIffComplete'
    <3> SUFFICES ASSUME NEW c \in Delivery
                 PROVE  runs'[c] = IF jobs'[c].status = "complete" THEN jobs'[c].attempt ELSE 0
      BY DEF RunIffComplete
    <3>1. CASE c = d
      <4>1. jobs[d].status # "complete"
        BY <2>2, RecoveredRows
      <4>2. QED
        BY <2>2, <2>4, <3>1, <4>1 DEF RunIffComplete
    <3>2. CASE c # d
      BY <2>2, <2>5, <3>2, RecoveredRows DEF RunIffComplete
    <3>3. QED
      BY <3>1, <3>2
  <2>15. FailureIsEarned'
    BY <2>4, <2>5, RecoveredRows DEF FailureIsEarned
  <2>16. QED
    BY <2>10, <2>11, <2>12, <2>13, <2>14, <2>15
<1>3. QED
  BY <1>1, <1>2

\* A step that moves no worker and changes of each row at most its clocks.
LEMMA ClocksMove ==
  ASSUME TypeOK, TypeOK', QueueInv, UNCHANGED <<deliveries, runs, proc>>,
         \A d \in Delivery : /\ jobs'[d].status = jobs[d].status
                             /\ jobs'[d].lease = jobs[d].lease
                             /\ jobs'[d].attempt = jobs[d].attempt
                             /\ jobs'[d].error = jobs[d].error
  PROVE  QueueInv'
<1> USE DEF QueueInv
<1>1. LeaseTable' /\ WorkerTable'
  BY DEF LeaseTable, WorkerTable, Live
<1>2. LeaseFence' /\ RowTable'
  BY DEF LeaseFence, RowTable, Live
<1>3. RunIffComplete' /\ FailureIsEarned'
  BY DEF RunIffComplete, FailureIsEarned
<1>4. QED
  BY <1>1, <1>2, <1>3

\* The clock and the heartbeats touch no field but the age of a beat and the delay.
LEMMA ClockFields ==
  ASSUME TypeOK, \/ Tick
                 \/ \E p \in Proc : Heartbeat(p)
  PROVE  \A d \in Delivery : /\ jobs'[d].status = jobs[d].status
                              /\ jobs'[d].lease = jobs[d].lease
                              /\ jobs'[d].attempt = jobs[d].attempt
                              /\ jobs'[d].error = jobs[d].error
<1>1. jobs \in [Delivery -> JobRow]
  BY DEF TypeOK
<1>2. CASE Tick
  BY <1>1, <1>2 DEF Tick, JobRow
<1>3. ASSUME NEW p \in Proc, Heartbeat(p)
      PROVE  \A d \in Delivery : /\ jobs'[d].status = jobs[d].status
                                  /\ jobs'[d].lease = jobs[d].lease
                                  /\ jobs'[d].attempt = jobs[d].attempt
                                  /\ jobs'[d].error = jobs[d].error
  BY <1>1, <1>3 DEF Heartbeat, JobRow
<1>4. QED
  BY <1>2, <1>3

\* A fresh lease collides with no other worker and no row.
LEMMA StartInv ==
  ASSUME TypeOK, TypeOK', QueueInv, NEW p \in Proc, Start(p)
  PROVE  QueueInv'
<1> USE DEF QueueInv
<1>1. PICK l \in Lease : Unused(l) /\ proc' = [proc EXCEPT ![p].phase = "idle", ![p].lease = l]
  BY DEF Start
<1>2. /\ ~Live(p)
      /\ UNCHANGED <<deliveries, jobs, runs>>
      /\ l # NoLease
  BY NoValueAssumption DEF Start
<1>3. /\ \A q \in Proc \ {p} : proc'[q] = proc[q]
      /\ proc'[p].phase = "idle" /\ proc'[p].lease = l /\ proc'[p].job = proc[p].job
  BY <1>1 DEF TypeOK, Worker
<1>4. /\ \A q \in Proc : proc[q].lease # l
      /\ \A d \in Delivery : jobs[d].lease # l
  BY <1>1 DEF Unused
<1>5. LeaseTable'
  BY <1>2, <1>3, <1>4 DEF LeaseTable, Live
<1>6. WorkerTable'
  BY <1>2, <1>3 DEF WorkerTable, Live
<1>7. LeaseFence'
  BY <1>2, <1>3, <1>4 DEF LeaseFence, Live
<1>8. RowTable' /\ RunIffComplete' /\ FailureIsEarned'
  BY <1>2 DEF RowTable, RunIffComplete, FailureIsEarned
<1>9. QED
  BY <1>5, <1>6, <1>7, <1>8

\* A new row is neither leased nor reviewed.
LEMMA RecordInv ==
  ASSUME TypeOK, TypeOK', QueueInv, NEW d \in Delivery, RecordDelivery(d)
  PROVE  QueueInv'
<1> USE DEF QueueInv
<1>1. /\ jobs[d].status = "absent"
      /\ deliveries' = deliveries \cup {d}
      /\ UNCHANGED <<runs, proc>>
  BY DEF RecordDelivery, RowTable
<1>2. /\ jobs'[d].status = "queued" /\ jobs'[d].lease = jobs[d].lease
      /\ \A c \in Delivery \ {d} : jobs'[c] = jobs[c]
  BY DEF RecordDelivery, TypeOK, JobRow
<1>3. jobs[d].lease = NoLease
  BY <1>1 DEF LeaseTable
<1>4. LeaseTable'
  BY <1>1, <1>2, <1>3 DEF LeaseTable, Live
<1>5. WorkerTable'
  BY <1>1 DEF WorkerTable
<1>6. LeaseFence'
  BY <1>1, <1>2, <1>3 DEF LeaseFence, LeaseTable, Live
<1>7. RowTable' /\ RunIffComplete' /\ FailureIsEarned'
  BY <1>1, <1>2 DEF RowTable, RunIffComplete, FailureIsEarned
<1>8. QED
  BY <1>4, <1>5, <1>6, <1>7

\* What is known of a worker about to end its attempt.
LEMMA OwnedRow ==
  ASSUME TypeOK, QueueInv, NEW p \in Proc, proc[p].job # NoJob, Owns(p)
  PROVE  /\ proc[p].job \in Delivery
         /\ jobs[proc[p].job] \in JobRow
         /\ jobs[proc[p].job].status = "running"
         /\ proc[p].attempt \in 0..AttemptCap
         /\ proc[p].attempt = jobs[proc[p].job].attempt
         /\ jobs[proc[p].job].wait \in Nat
         /\ jobs[proc[p].job].error \in Error
         /\ runs[proc[p].job] = 0
<1>1. proc[p].job \in Delivery /\ proc[p].attempt \in 0..AttemptCap
  BY DEF TypeOK, Worker
<1>2. jobs[proc[p].job] \in JobRow
  BY <1>1 DEF TypeOK
<1>3. Live(p)
  BY DEF QueueInv, WorkerTable, Live
<1>4. jobs[proc[p].job].status = "running" /\ jobs[proc[p].job].lease = proc[p].lease
  BY DEF Owns
<1>5. proc[p].attempt = jobs[proc[p].job].attempt
  BY <1>1, <1>3, <1>4 DEF QueueInv, LeaseFence
<1>6. runs[proc[p].job] = 0
  BY <1>1, <1>4 DEF QueueInv, RunIffComplete
<1>7. QED
  BY <1>1, <1>2, <1>4, <1>5, <1>6 DEF JobRow

\* interrupt_job ends the attempt of its caller or changes no row.
LEMMA InterruptEnds ==
  ASSUME TypeOK, QueueInv, NEW p \in Proc, NEW o \in Outcome, Interrupt(p, o)
  PROVE  Ending(p)
<1> DEFINE j == proc[p].job
           a == Released(jobs[j], "queued", "interrupted", 0)
<1>1. /\ \A q \in Proc \ {p} : proc'[q] = proc[q]
      /\ proc'[p].phase \in {"down", "crashed"}
      /\ proc'[p].lease = NoLease
      /\ proc'[p].job = NoJob
  BY LeaveWorker DEF Interrupt, Phase
<1>2. UNCHANGED <<deliveries, runs>>
  BY DEF Interrupt
<1>3. CASE Owns(p) /\ Committed(o)
  <2>1. j # NoJob
    BY DEF Interrupt, Trying, QueueInv, WorkerTable
  <2>2. jobs' = [jobs EXCEPT ![j] = a]
    BY <1>3 DEF Interrupt
  <2>3. /\ a \in JobRow /\ a.status = "queued" /\ a.lease = NoLease
        /\ a.attempt = jobs[j].attempt
    <3>1. jobs[j] \in JobRow
      BY <1>3, <2>1, OwnedRow
    <3>2. "queued" \in Status /\ "interrupted" \in Error /\ 0 \in Nat
      BY DEF Status, Error
    <3>3. QED
      BY <3>1, <3>2, ReleasedRow
  <2>4. runs' = [runs EXCEPT ![j] = IF a.status = "complete" THEN a.attempt ELSE @]
    BY <1>2, <2>3 DEF TypeOK
  <2> HIDE DEF a
  <2>5. proc'[p].phase # proc[p].phase
    BY <1>1 DEF Interrupt, Trying
  <2>6. EndsWith(p, a)
    BY <1>1, <1>2, <1>3, <2>1, <2>2, <2>3, <2>4, <2>5 DEF EndsWith
  <2>7. QED
    BY <2>3, <2>6 DEF Ending
<1>4. CASE ~(Owns(p) /\ Committed(o))
  <2>1. jobs' = jobs
    BY <1>4 DEF Interrupt
  <2>2. QED
    BY <1>1, <1>2, <2>1 DEF Ending, MovesOnly
<1>5. QED
  BY <1>3, <1>4

\* complete_job ends the attempt of its caller or changes no row.
LEMMA StoreRunEnds ==
  ASSUME TypeOK, QueueInv, NEW p \in Proc, NEW o \in Outcome, StoreRun(p, o)
  PROVE  Ending(p)
<1> DEFINE j == proc[p].job
           accepted == Owns(p) /\ runs[j] = 0 /\ Committed(o)
           a == Released(jobs[j], "complete", jobs[j].error, jobs[j].wait)
<1>1. /\ j # NoJob
      /\ proc[p].phase = "complete"
      /\ UNCHANGED deliveries
  BY DEF StoreRun, QueueInv, WorkerTable
<1>2. PICK ph \in {"publish", "failing"} : Goto(p, ph) /\ (~accepted => ph = "failing")
  BY DEF StoreRun
<1>3. /\ \A q \in Proc : /\ proc'[q].lease = proc[q].lease
                         /\ proc'[q].job = proc[q].job
                         /\ proc'[q].attempt = proc[q].attempt
                         /\ proc'[q].phase = IF q = p THEN ph ELSE proc[q].phase
      /\ \A q \in Proc \ {p} : proc'[q] = proc[q]
  BY <1>2, GotoWorker DEF Goto, TypeOK, Phase
<1>4. CASE accepted
  <2>1. /\ jobs' = [jobs EXCEPT ![j] = a]
        /\ runs' = [runs EXCEPT ![j] = proc[p].attempt]
    BY <1>4 DEF StoreRun
  <2>2. /\ a \in JobRow /\ a.status = "complete" /\ a.lease = NoLease
        /\ a.attempt = jobs[j].attempt
        /\ a.attempt = proc[p].attempt
    <3>1. /\ jobs[j] \in JobRow /\ jobs[j].error \in Error /\ jobs[j].wait \in Nat
          /\ proc[p].attempt = jobs[j].attempt
      BY <1>1, <1>4, OwnedRow
    <3>2. "complete" \in Status
      BY DEF Status
    <3>3. QED
      BY <3>1, <3>2, ReleasedRow
  <2>3. runs' = [runs EXCEPT ![j] = IF a.status = "complete" THEN a.attempt ELSE @]
    BY <2>1, <2>2
  <2> HIDE DEF a
  <2>4. QED
    BY <1>1, <1>3, <1>4, <2>1, <2>2, <2>3 DEF Ending, EndsWith
<1>5. CASE ~accepted
  <2>1. UNCHANGED <<jobs, runs>>
    BY <1>5 DEF StoreRun
  <2>2. QED
    BY <1>1, <1>2, <1>3, <1>5, <2>1 DEF Ending, MovesOnly
<1>6. QED
  BY <1>4, <1>5

\* fail_job(retry=False) ends the attempt of its caller or changes no row.
LEMMA FailStaleEnds ==
  ASSUME TypeOK, QueueInv, NEW p \in Proc, NEW o \in Outcome, FailStale(p, o)
  PROVE  Ending(p)
<1> DEFINE j == proc[p].job
           a == AfterFailure(jobs[j], proc[p].attempt, FALSE)
<1>1. /\ j # NoJob
      /\ proc[p].phase = "stale"
      /\ UNCHANGED <<deliveries, runs>>
  BY DEF FailStale, QueueInv, WorkerTable
<1>2. CASE Owns(p) /\ Committed(o)
  <2>1. jobs' = [jobs EXCEPT ![j] = a]
    BY <1>2 DEF FailStale
  <2>2. /\ a \in JobRow /\ a.status \in {"queued", "failed"} /\ a.lease = NoLease
        /\ a.attempt = jobs[j].attempt
        /\ a.status = "failed" => \/ a.error = "stale_head"
                                  \/ a.error = "phase_failed" /\ a.attempt >= MaxAttempts
    <3>1. /\ jobs[j] \in JobRow /\ proc[p].attempt \in 0..AttemptCap
          /\ proc[p].attempt = jobs[j].attempt
      BY <1>1, <1>2, OwnedRow
    <3>2. QED
      BY <3>1, GiveUpRow
  <2>3. runs' = [runs EXCEPT ![j] = IF a.status = "complete" THEN a.attempt ELSE @]
    BY <1>1, <2>2 DEF TypeOK
  <2>4. CASE o = "ok"
    <3>1. NextJob(p)
      BY <1>2, <2>4 DEF FailStale
    <3> HIDE DEF a
    <3>2. QED
      BY <1>1, <1>2, <2>1, <2>2, <2>3, <3>1, NextJobWorker DEF Ending, EndsWith
  <2>5. CASE o # "ok"
    <3>1. Goto(p, "failing")
      BY <1>2, <2>5 DEF FailStale
    <3>2. /\ \A q \in Proc \ {p} : proc'[q] = proc[q]
          /\ proc'[p].phase = "failing" /\ proc'[p].lease = proc[p].lease
          /\ proc'[p].job = proc[p].job
      BY <3>1, GotoWorker DEF Goto, TypeOK, Phase
    <3> HIDE DEF a
    <3>3. QED
      BY <1>1, <1>2, <2>1, <2>2, <2>3, <3>2 DEF Ending, EndsWith
  <2>6. QED
    BY <2>4, <2>5
<1>3. CASE ~(Owns(p) /\ Committed(o))
  <2>1. jobs' = jobs /\ Goto(p, "failing")
    BY <1>3 DEF FailStale, Committed
  <2>2. /\ \A q \in Proc \ {p} : proc'[q] = proc[q]
        /\ proc'[p].phase = "failing" /\ proc'[p].lease = proc[p].lease
        /\ proc'[p].job = proc[p].job /\ proc'[p].attempt = proc[p].attempt
    BY <2>1, GotoWorker DEF Goto, TypeOK, Phase
  <2>3. QED
    BY <1>1, <2>1, <2>2 DEF Ending, MovesOnly
<1>4. QED
  BY <1>2, <1>3

\* fail_job ends the attempt of its caller or changes no row.
LEMMA FailJobEnds ==
  ASSUME TypeOK, QueueInv, NEW p \in Proc, NEW o \in Outcome, FailJob(p, o)
  PROVE  Ending(p)
<1> DEFINE j == proc[p].job
           a == AfterFailure(jobs[j], proc[p].attempt, TRUE)
<1>1. /\ j # NoJob
      /\ proc[p].phase = "failing"
      /\ UNCHANGED <<deliveries, runs>>
  BY DEF FailJob, QueueInv, WorkerTable
<1>2. CASE Owns(p) /\ Committed(o)
  <2>1. jobs' = [jobs EXCEPT ![j] = a]
    BY <1>2 DEF FailJob
  <2>2. /\ a \in JobRow /\ a.status \in {"queued", "failed"} /\ a.lease = NoLease
        /\ a.attempt = jobs[j].attempt
        /\ a.status = "failed" => \/ a.error = "stale_head"
                                  \/ a.error = "phase_failed" /\ a.attempt >= MaxAttempts
    <3>1. /\ jobs[j] \in JobRow /\ proc[p].attempt \in 0..AttemptCap
          /\ proc[p].attempt = jobs[j].attempt
      BY <1>1, <1>2, OwnedRow
    <3>2. QED
      BY <3>1, RetryRow
  <2>3. runs' = [runs EXCEPT ![j] = IF a.status = "complete" THEN a.attempt ELSE @]
    BY <1>1, <2>2 DEF TypeOK
  <2>4. NextJob(p) \/ Leave(p, "crashed")
    BY DEF FailJob
  <2> HIDE DEF a
  <2>5. QED
    BY <1>1, <1>2, <2>1, <2>2, <2>3, <2>4, NextJobWorker, LeaveWorker DEF Phase, Ending, EndsWith
<1>3. CASE ~(Owns(p) /\ Committed(o))
  <2>1. jobs' = jobs /\ Leave(p, "crashed")
    BY <1>3 DEF FailJob, Committed
  <2>2. QED
    BY <1>1, <2>1, LeaveWorker DEF Phase, Ending, MovesOnly
<1>4. QED
  BY <1>2, <1>3

\* Whatever ends an attempt preserves the invariant.
LEMMA EndingInv ==
  ASSUME TypeOK, TypeOK', QueueInv, NEW p \in Proc, Ending(p)
  PROVE  QueueInv'
  BY WorkerMoves, AttemptEnds DEF Ending

\* QueueInv is inductive.
LEMMA InvStep == ASSUME TypeOK, QueueInv, [Next]_vars PROVE QueueInv'
<1>1. TypeOK'
  BY TypeStep
<1>2. ASSUME NEW d \in Delivery, RecordDelivery(d) PROVE QueueInv'
  BY <1>1, <1>2, RecordInv
<1>3. ASSUME NEW d \in Delivery, RecordClosed(d) PROVE QueueInv'
  <2>1. deliveries \subseteq deliveries' /\ UNCHANGED <<jobs, runs, proc>>
    BY <1>3 DEF RecordClosed
  <2>2. LeaseTable' /\ WorkerTable' /\ LeaseFence'
    BY <2>1 DEF QueueInv, LeaseTable, WorkerTable, LeaseFence, Live
  <2>3. RowTable' /\ RunIffComplete' /\ FailureIsEarned'
    BY <2>1 DEF QueueInv, RowTable, RunIffComplete, FailureIsEarned
  <2>4. QED
    BY <2>2, <2>3 DEF QueueInv
<1>4. ASSUME NEW p \in Proc, Start(p) PROVE QueueInv'
  BY <1>1, <1>4, StartInv
<1>5. ASSUME NEW p \in Proc, Stop(p) PROVE QueueInv'
  BY <1>1, <1>5, LeaveWorker, WorkerMoves DEF Stop, Phase, MovesOnly
<1>6. ASSUME NEW p \in Proc, NEW o \in Outcome, Interrupt(p, o) PROVE QueueInv'
  BY <1>1, <1>6, InterruptEnds, EndingInv
<1>7. ASSUME NEW p \in Proc, NEW o \in Outcome, Claim(p, o) PROVE QueueInv'
  BY <1>1, <1>7, ClaimInv
<1>8. ASSUME NEW p \in Proc, TakeSnapshot(p) \/ Review(p) PROVE QueueInv'
  <2>1. PICK ph \in {"review", "stale", "failing", "complete"} : Goto(p, ph)
    BY <1>8 DEF TakeSnapshot, Review
  <2>2. /\ proc[p].phase \in {"snapshot", "review"}
        /\ UNCHANGED <<deliveries, jobs, runs>>
    BY <1>8 DEF TakeSnapshot, Review
  <2>3. /\ \A q \in Proc \ {p} : proc'[q] = proc[q]
        /\ proc'[p].phase = ph /\ proc'[p].lease = proc[p].lease
        /\ proc'[p].job = proc[p].job /\ proc'[p].attempt = proc[p].attempt
    BY <2>1, GotoWorker DEF Goto, TypeOK, Phase
  <2>4. QED
    BY <1>1, <2>2, <2>3, WorkerMoves DEF MovesOnly
<1>9. ASSUME NEW p \in Proc, NEW o \in Outcome, StoreRun(p, o) PROVE QueueInv'
  BY <1>1, <1>9, StoreRunEnds, EndingInv
<1>10. ASSUME NEW p \in Proc, NEW o \in Outcome, FailStale(p, o) PROVE QueueInv'
  BY <1>1, <1>10, FailStaleEnds, EndingInv
<1>11. ASSUME NEW p \in Proc, NEW o \in Outcome, FailJob(p, o) PROVE QueueInv'
  BY <1>1, <1>11, FailJobEnds, EndingInv
<1>12. ASSUME NEW p \in Proc, Publish(p) PROVE QueueInv'
  BY <1>1, <1>12, NextJobWorker, WorkerMoves DEF Publish, MovesOnly
<1>13. ASSUME Tick \/ (\E p \in Proc : Heartbeat(p)) PROVE QueueInv'
  <2>1. UNCHANGED <<deliveries, runs, proc>>
    BY <1>13 DEF Tick, Heartbeat
  <2>2. QED
    BY <1>1, <1>13, <2>1, ClockFields, ClocksMove
<1>14. CASE UNCHANGED vars
  <2>1. UNCHANGED <<deliveries, runs, proc, jobs>>
    BY <1>14 DEF vars
  <2>2. QED
    BY <1>1, <2>1, ClocksMove
<1>15. QED
  BY <1>2, <1>3, <1>4, <1>5, <1>6, <1>7, <1>8, <1>9, <1>10, <1>11, <1>12, <1>13, <1>14
     DEF Next, WorkerStep, Work

LEMMA InitInv == Init => QueueInv
  BY DEF Init, QueueInv, LeaseTable, WorkerTable, RowTable, LeaseFence, RunIffComplete,
         FailureIsEarned, Live, Gone, NoRow

\* The leases fence, a review is stored exactly for a complete job, failures
\* are earned, and the bookkeeping these rest on.
THEOREM QueueInvariant == Spec => []QueueInv
  BY InitInv, InvStep, TypeCorrect, PTL DEF Spec

\* A lease in a row names the attempt its live owner is making.
THEOREM LeasesFence == Spec => []LeaseFence
<1>1. QueueInv => LeaseFence
  BY DEF QueueInv
<1>2. QED
  BY <1>1, QueueInvariant, PTL

\* Each job has at most one stored review, exactly when it is complete, and it
\* is the output of its last attempt.
THEOREM OneReviewPerJob == Spec => []RunIffComplete
<1>1. QueueInv => RunIffComplete
  BY DEF QueueInv
<1>2. QED
  BY <1>1, QueueInvariant, PTL

\* Crashes, signals and lost leases never settle a job as failed.
THEOREM FailuresAreEarned == Spec => []FailureIsEarned
<1>1. QueueInv => FailureIsEarned
  BY DEF QueueInv
<1>2. QED
  BY <1>1, QueueInvariant, PTL

-----------------------------------------------------------------------------
(* What a step may do to a row, and the action properties. *)

\* The row says the same of the job, up to lease, heartbeat and delay.
Kept(d) == /\ jobs'[d].status = jobs[d].status
           /\ jobs'[d].attempt = jobs[d].attempt
           /\ jobs'[d].error = jobs[d].error
           /\ runs'[d] = runs[d]

\* The job is open before and after; only an expired lease is taken away.
StaysOpen(d) == /\ jobs[d].status \in {"queued", "running"}
                /\ jobs'[d].status \in {"queued", "running"}
                /\ runs'[d] = runs[d]
                /\ jobs[d].status = "running" /\ jobs[d].beat # Never
                     => jobs'[d].status = "running"

\* A claim leaves every row as it is or open.
LEMMA ClaimRows ==
  ASSUME TypeOK, QueueInv, NEW p \in Proc, NEW o \in Outcome, Claim(p, o)
  PROVE  \A d \in Delivery : Kept(d) \/ StaysOpen(d)
<1>1. UNCHANGED runs
  BY DEF Claim
<1>2. CASE ~Committed(o)
  BY <1>1, <1>2 DEF Claim, Kept
<1>3. CASE Committed(o)
  <2>1. PICK d \in Available(Recovered) :
          jobs' = [Recovered EXCEPT ![d] = Taken(Recovered[d], proc[p].lease)]
    BY <1>3 DEF Claim
  <2>2. d \in Delivery /\ Recovered[d].status = "queued"
    BY DEF Available
  <2>3. \A c \in Delivery \ {d} : jobs'[c] = Recovered[c]
    BY <2>1 DEF Recovered
  <2>4. jobs'[d] = Taken(Recovered[d], proc[p].lease)
    BY <2>1, <2>2 DEF Recovered
  <2>5. jobs'[d].status = "running"
    <3>1. proc[p].lease \in Lease
      BY DEF Claim, TypeOK, Worker, QueueInv, LeaseTable, Live
    <3>2. QED
      BY <2>2, <2>4, <3>1, RecoveredRows, TakenRow
  <2>6. StaysOpen(d)
    BY <1>1, <2>2, <2>5, RecoveredRows DEF StaysOpen
  <2>7. \A c \in Delivery : Recovered[c] = jobs[c] \/ Expired(jobs[c])
    BY DEF Recovered
  <2>8. ASSUME NEW c \in Delivery \ {d} PROVE Kept(c) \/ StaysOpen(c)
    BY <1>1, <2>3, <2>7, RecoveredRows DEF Kept, StaysOpen, Expired
  <2>9. QED
    BY <2>6, <2>8
<1>4. QED
  BY <1>2, <1>3

\* Every step records a delivery, ends one attempt from its owner, or leaves
\* every row as it is or open.
LEMMA StepKinds ==
  ASSUME TypeOK, QueueInv, [Next]_vars
  PROVE  \/ \E d \in Delivery : RecordDelivery(d)
         \/ \E p \in Proc, a \in JobRow : EndsWith(p, a)
         \/ \A d \in Delivery : Kept(d) \/ StaysOpen(d)
<1>1. ASSUME NEW p \in Proc, Ending(p)
      PROVE  \/ \E a \in JobRow : EndsWith(p, a)
             \/ \A d \in Delivery : Kept(d)
  BY <1>1 DEF Ending, MovesOnly, Kept
<1>2. ASSUME NEW p \in Proc, NEW o \in Outcome,
             Interrupt(p, o) \/ StoreRun(p, o) \/ FailStale(p, o) \/ FailJob(p, o)
      PROVE  Ending(p)
  BY <1>2, InterruptEnds, StoreRunEnds, FailStaleEnds, FailJobEnds
<1>3. ASSUME NEW p \in Proc, NEW o \in Outcome, Claim(p, o)
      PROVE  \A d \in Delivery : Kept(d) \/ StaysOpen(d)
  BY <1>3, ClaimRows
<1>4. ASSUME Tick \/ \E p \in Proc : Heartbeat(p)
      PROVE  \A d \in Delivery : Kept(d)
  BY <1>4, ClockFields DEF Tick, Heartbeat, Kept
<1>5. ASSUME UNCHANGED <<jobs, runs>>
      PROVE  \A d \in Delivery : Kept(d)
  BY <1>5 DEF Kept
<1>6. ASSUME NEW p \in Proc,
             Start(p) \/ Stop(p) \/ TakeSnapshot(p) \/ Review(p) \/ Publish(p)
      PROVE  UNCHANGED <<jobs, runs>>
  BY <1>6 DEF Start, Stop, TakeSnapshot, Review, Publish
<1>7. ASSUME NEW d \in Delivery, RecordClosed(d)
      PROVE  UNCHANGED <<jobs, runs>>
  BY <1>7 DEF RecordClosed
<1>8. CASE UNCHANGED vars
  BY <1>5, <1>8 DEF vars
<1>9. QED
  BY <1>1, <1>2, <1>3, <1>4, <1>5, <1>6, <1>7, <1>8 DEF Next, WorkerStep, Work

\* What EndsWith does to the other rows.
LEMMA EndsRows ==
  ASSUME TypeOK, QueueInv, NEW p \in Proc, NEW a \in JobRow, EndsWith(p, a)
  PROVE  /\ proc[p].job \in Delivery
         /\ jobs[proc[p].job].status = "running"
         /\ jobs[proc[p].job].lease = proc[p].lease
         /\ jobs[proc[p].job].attempt > 0
         /\ runs[proc[p].job] = 0
         /\ jobs'[proc[p].job] = a
         /\ runs'[proc[p].job] = IF a.status = "complete" THEN a.attempt ELSE 0
         /\ \A d \in Delivery \ {proc[p].job} : jobs'[d] = jobs[d] /\ runs'[d] = runs[d]
<1>1. proc[p].job \in Delivery /\ runs[proc[p].job] = 0
  BY OwnedRow DEF EndsWith
<1>2. /\ jobs[proc[p].job].status = "running"
      /\ jobs[proc[p].job].lease = proc[p].lease
  BY DEF EndsWith, Owns
<1>3. jobs[proc[p].job].attempt > 0
  BY <1>1, <1>2 DEF QueueInv, RowTable
<1>4. QED
  BY <1>1, <1>2, <1>3 DEF EndsWith, TypeOK

\* A settled job is never touched again, by any process in any order.
THEOREM SettledStaysSettled == Spec => SettledForever
<1> DEFINE Settled(d) == jobs[d].status \in {"complete", "failed"}
<1>1. ASSUME TypeOK, QueueInv, [Next]_vars, NEW d \in Delivery, Settled(d)
      PROVE  Kept(d)
  <2>1. ASSUME NEW c \in Delivery, RecordDelivery(c) PROVE Kept(d)
    <3>1. c # d
      BY <1>1, <2>1 DEF RecordDelivery, QueueInv, RowTable
    <3>2. QED
      BY <1>1, <2>1, <3>1 DEF RecordDelivery, TypeOK, Kept
  <2>2. ASSUME NEW p \in Proc, NEW a \in JobRow, EndsWith(p, a) PROVE Kept(d)
    BY <1>1, <2>2, EndsRows DEF Kept
  <2>3. ASSUME Kept(d) \/ StaysOpen(d) PROVE Kept(d)
    BY <1>1, <2>3 DEF StaysOpen
  <2>4. QED
    BY <1>1, <2>1, <2>2, <2>3, StepKinds
<1>2. TypeOK /\ QueueInv /\ [Next]_vars =>
        [\A d \in Delivery : jobs[d].status \in {"complete", "failed"} =>
           jobs'[d].status = jobs[d].status /\ jobs'[d].attempt = jobs[d].attempt
           /\ jobs'[d].error = jobs[d].error /\ runs'[d] = runs[d]]_vars
  BY <1>1 DEF Kept
<1>3. QED
  BY <1>2, TypeCorrect, QueueInvariant, PTL DEF Spec, SettledForever

\* Until its lease expires, a running job is ended only by the worker it names.
THEOREM OwnersEnd == Spec => OnlyOwnerEnds
<1>1. ASSUME TypeOK, QueueInv, [Next]_vars, NEW d \in Delivery,
             jobs[d].status = "running", jobs[d].beat # Never, jobs'[d].status # "running"
      PROVE  \E p \in Proc : /\ proc[p].lease = jobs[d].lease
                             /\ proc[p].job = d
                             /\ proc'[p].phase # proc[p].phase
  <2>1. ASSUME NEW c \in Delivery, RecordDelivery(c) PROVE FALSE
    <3>1. c # d
      BY <1>1, <2>1 DEF RecordDelivery, QueueInv, RowTable
    <3>2. QED
      BY <1>1, <2>1, <3>1 DEF RecordDelivery, TypeOK
  <2>2. ~(Kept(d) \/ StaysOpen(d))
    BY <1>1 DEF Kept, StaysOpen
  <2>3. PICK p \in Proc, a \in JobRow : EndsWith(p, a)
    BY <1>1, <2>1, <2>2, StepKinds
  <2>4. proc[p].job = d /\ proc[p].lease = jobs[d].lease
    BY <1>1, <2>3, EndsRows
  <2>5. QED
    BY <2>3, <2>4 DEF EndsWith
<1>2. TypeOK /\ QueueInv /\ [Next]_vars =>
        [\A d \in Delivery :
           (jobs[d].status = "running" /\ jobs[d].beat # Never /\ jobs'[d].status # "running") =>
             \E p \in Proc : /\ proc[p].lease = jobs[d].lease
                            /\ proc[p].job = d
                            /\ proc'[p].phase # proc[p].phase]_vars
  BY <1>1
<1>3. QED
  BY <1>2, TypeCorrect, QueueInvariant, PTL DEF Spec, OnlyOwnerEnds

-----------------------------------------------------------------------------
(* The queue implements ReviewLedger. *)

\* The refinement mapping, by name.
OutcomeOf == [d \in Delivery |-> IF jobs[d].status \in {"queued", "running"}
                                 THEN "open" ELSE jobs[d].status]
StoredSet == {d \in Delivery : runs[d] # 0}

\* A recorded delivery is an accepted one.
LEMMA AcceptStep ==
  ASSUME TypeOK, QueueInv, NEW d \in Delivery, RecordDelivery(d)
  PROVE  Ledger!Accept(d)
<1>1. jobs[d].status = "absent"
  BY DEF RecordDelivery, QueueInv, RowTable
<1>2. /\ jobs'[d].status = "queued"
      /\ \A c \in Delivery \ {d} : jobs'[c] = jobs[c]
  BY DEF RecordDelivery, TypeOK, JobRow
<1>3. OutcomeOf' = [OutcomeOf EXCEPT ![d] = "open"]
  BY <1>2 DEF OutcomeOf
<1>4. OutcomeOf[d] = "absent" /\ StoredSet' = StoredSet
  BY <1>1 DEF OutcomeOf, StoredSet, RecordDelivery
<1>5. QED
  BY <1>3, <1>4 DEF Ledger!Accept, OutcomeOf, StoredSet

\* The end of an attempt delivers, gives up, or is not seen in the ledger.
LEMMA EndStep ==
  ASSUME TypeOK, QueueInv, NEW p \in Proc, NEW a \in JobRow, EndsWith(p, a)
  PROVE  [Ledger!Next]_(Ledger!ledgerVars)
<1>1. PICK j \in Delivery : j = proc[p].job
  BY EndsRows
<1>2. /\ jobs[j].status = "running" /\ runs[j] = 0
      /\ jobs'[j] = a
      /\ runs'[j] = IF a.status = "complete" THEN a.attempt ELSE 0
      /\ \A d \in Delivery \ {j} : jobs'[d] = jobs[d] /\ runs'[d] = runs[d]
      /\ a.attempt > 0
      /\ a.status \in {"queued", "failed", "complete"}
  <2>1. /\ jobs[j].status = "running" /\ runs[j] = 0 /\ jobs[j].attempt > 0
        /\ jobs'[j] = a
        /\ runs'[j] = IF a.status = "complete" THEN a.attempt ELSE 0
        /\ \A d \in Delivery \ {j} : jobs'[d] = jobs[d] /\ runs'[d] = runs[d]
    BY <1>1, EndsRows
  <2>2. a.attempt = jobs[j].attempt /\ a.status \in {"queued", "failed", "complete"}
    BY <1>1 DEF EndsWith
  <2>3. QED
    BY <2>1, <2>2
<1>3. OutcomeOf[j] = "open"
  BY <1>2 DEF OutcomeOf
<1>4. OutcomeOf' = [OutcomeOf EXCEPT ![j] = IF a.status = "queued" THEN "open" ELSE a.status]
  BY <1>2 DEF OutcomeOf
<1>5. CASE a.status = "complete"
  <2>1. StoredSet' = StoredSet \cup {j}
    BY <1>2, <1>5 DEF StoredSet
  <2>2. OutcomeOf' = [OutcomeOf EXCEPT ![j] = "complete"]
    BY <1>4, <1>5
  <2>3. Ledger!Deliver(j)
    BY <1>3, <2>1, <2>2 DEF Ledger!Deliver, OutcomeOf, StoredSet
  <2>4. QED
    BY <2>3 DEF Ledger!Next
<1>6. CASE a.status = "failed"
  <2>1. StoredSet' = StoredSet
    BY <1>2, <1>6 DEF StoredSet
  <2>2. OutcomeOf' = [OutcomeOf EXCEPT ![j] = "failed"]
    BY <1>4, <1>6
  <2>3. Ledger!GiveUp(j)
    BY <1>3, <2>1, <2>2 DEF Ledger!GiveUp, OutcomeOf, StoredSet
  <2>4. QED
    BY <2>3 DEF Ledger!Next
<1>7. CASE a.status = "queued"
  <2>1. StoredSet' = StoredSet
    BY <1>2, <1>7 DEF StoredSet
  <2>2. OutcomeOf' = OutcomeOf
    BY <1>2, <1>7 DEF OutcomeOf
  <2>3. QED
    BY <2>1, <2>2 DEF Ledger!ledgerVars, OutcomeOf, StoredSet
<1>8. QED
  BY <1>2, <1>5, <1>6, <1>7

\* What leaves open rows open is not seen in the ledger.
LEMMA OpenStep ==
  ASSUME \A d \in Delivery : Kept(d) \/ StaysOpen(d)
  PROVE  UNCHANGED Ledger!ledgerVars
<1>1. OutcomeOf' = OutcomeOf
  BY DEF OutcomeOf, Kept, StaysOpen
<1>2. StoredSet' = StoredSet
  BY DEF StoredSet, Kept, StaysOpen
<1>3. QED
  BY <1>1, <1>2 DEF Ledger!ledgerVars, OutcomeOf, StoredSet

\* Behind leases, retries, crashes and clocks, each delivery is accepted once
\* and settled at most once, together with its one review or with none.
THEOREM QueueImplementsLedger == Spec => LedgerSpec
<1>1. Init => Ledger!Init
  BY DEF Init, Ledger!Init, NoRow
<1>2. TypeOK /\ QueueInv /\ [Next]_vars => [Ledger!Next]_(Ledger!ledgerVars)
  <2> SUFFICES ASSUME TypeOK, QueueInv, [Next]_vars
               PROVE  [Ledger!Next]_(Ledger!ledgerVars)
    OBVIOUS
  <2>1. ASSUME NEW d \in Delivery, RecordDelivery(d) PROVE Ledger!Next
    BY <2>1, AcceptStep DEF Ledger!Next
  <2>2. ASSUME NEW p \in Proc, NEW a \in JobRow, EndsWith(p, a)
        PROVE  [Ledger!Next]_(Ledger!ledgerVars)
    BY <2>2, EndStep
  <2>3. QED
    BY <2>1, <2>2, OpenStep, StepKinds
<1>3. QED
  BY <1>1, <1>2, TypeCorrect, QueueInvariant, PTL DEF Spec, LedgerSpec, Ledger!Spec

-----------------------------------------------------------------------------
(* Heartbeats that are on time. *)

InReview(p) == proc[p].phase \in {"snapshot", "review", "complete"}

\* A worker in its review owns its job, and its heartbeat is young enough.
KeepsJob(p) == /\ proc[p].job \in Delivery
            /\ Owns(p)
            /\ jobs[proc[p].job].beat <= HeartbeatTicks

KeptInv == \A p \in Proc : InReview(p) => KeepsJob(p)

\* A row with a heartbeat that young is not recovered.
LEMMA YoungStays ==
  ASSUME TypeOK, NEW d \in Delivery, jobs[d].beat <= HeartbeatTicks
  PROVE  Recovered[d] = jobs[d]
<1>1. jobs[d].beat # Never
  BY ClockAssumption DEF Never
<1> QED BY <1>1 DEF Recovered, Expired

\* A worker whose record and row stay as they are keeps its job.
LEMMA RowStays ==
  ASSUME NEW p \in Proc, KeepsJob(p),
         proc'[p].job = proc[p].job, proc'[p].lease = proc[p].lease,
         jobs'[proc[p].job].status = jobs[proc[p].job].status,
         jobs'[proc[p].job].lease = jobs[proc[p].job].lease,
         jobs'[proc[p].job].beat <= HeartbeatTicks
  PROVE  KeepsJob(p)'
  BY DEF KeepsJob, Owns

\* What ends another worker's attempt, or moves another worker, does not touch it.
LEMMA OthersEnding ==
  ASSUME TypeOK, QueueInv, KeptInv, NEW p \in Proc, Ending(p), ~InReview(p)'
  PROVE  KeptInv'
<1> SUFFICES ASSUME NEW q \in Proc, InReview(q)' PROVE KeepsJob(q)'
  BY DEF KeptInv
<1>1. q # p /\ proc'[q] = proc[q]
  BY DEF Ending, MovesOnly, EndsWith
<1>2. InReview(q) /\ KeepsJob(q)
  BY <1>1 DEF InReview, KeptInv
<1>3. CASE MovesOnly(p)
  BY <1>1, <1>2, <1>3, RowStays DEF MovesOnly, KeepsJob
<1>4. ASSUME NEW a \in JobRow, EndsWith(p, a) PROVE KeepsJob(q)'
  <2>1. proc[p].job # proc[q].job
    BY <1>1, <1>2, <1>4 DEF EndsWith, KeepsJob, Owns, QueueInv, LeaseTable, Live, InReview
  <2>2. jobs'[proc[q].job] = jobs[proc[q].job]
    BY <1>4, <2>1 DEF EndsWith, TypeOK
  <2> QED BY <1>1, <1>2, <2>2, RowStays DEF KeepsJob
<1> QED BY <1>3, <1>4 DEF Ending

LEMMA ClaimKeeps ==
  ASSUME TypeOK, QueueInv, KeptInv, NEW p \in Proc, NEW o \in Outcome, Claim(p, o)
  PROVE  KeptInv'
<1> SUFFICES ASSUME NEW q \in Proc, InReview(q)' PROVE KeepsJob(q)'
  BY DEF KeptInv
<1>1. CASE ~Committed(o)
  <2>1. Leave(p, "crashed") /\ jobs' = jobs
    BY <1>1 DEF Claim
  <2>2. q # p /\ proc'[q] = proc[q]
    BY <2>1, LeaveWorker DEF Phase, InReview
  <2> QED BY <2>1, <2>2, RowStays DEF KeptInv, KeepsJob, InReview
<1>2. CASE Committed(o)
  <2>1. PICK d \in Available(Recovered) :
          /\ jobs' = [Recovered EXCEPT ![d] = Taken(Recovered[d], proc[p].lease)]
          /\ proc' = [proc EXCEPT ![p] =
               IF o = "ok" THEN [phase |-> "snapshot", lease |-> proc[p].lease,
                                 job |-> d, attempt |-> Bump(jobs[d].attempt)]
                           ELSE Gone("crashed")]
    BY <1>2 DEF Claim
  <2>2. d \in Delivery /\ Recovered[d].status = "queued" /\ Recovered[d] \in JobRow
    BY RecoveredRows DEF Available
  <2>3. proc[p].lease \in Lease \cup {NoLease}
    BY DEF TypeOK, Worker
  <2>4. jobs'[d] = Taken(Recovered[d], proc[p].lease)
    BY <2>1, <2>2 DEF Recovered
  <2>5. \A c \in Delivery \ {d} : jobs'[c] = Recovered[c]
    BY <2>1 DEF Recovered
  <2>6. CASE q = p
    <3>1. proc'[p] = [phase |-> "snapshot", lease |-> proc[p].lease,
                      job |-> d, attempt |-> Bump(jobs[d].attempt)]
      BY <2>1, <2>6 DEF TypeOK, InReview, Gone
    <3>2. jobs'[d].status = "running" /\ jobs'[d].lease = proc[p].lease
      BY <2>2, <2>3, <2>4, TakenRow
    <3>3. jobs'[d].beat = 0
      BY <2>2, <2>4 DEF Taken, JobRow
    <3>4. proc'[p].job = d /\ proc'[p].lease = proc[p].lease
      BY <3>1
    <3> QED BY <2>2, <2>6, <3>2, <3>3, <3>4, ClockAssumption DEF KeepsJob, Owns
  <2>7. CASE q # p
    <3>1. proc'[q] = proc[q]
      BY <2>1, <2>7 DEF TypeOK
    <3>2. KeepsJob(q) /\ jobs[proc[q].job].status = "running"
      BY <3>1 DEF KeptInv, InReview, KeepsJob, Owns
    <3>3. Recovered[proc[q].job] = jobs[proc[q].job]
      BY <3>2, YoungStays DEF KeepsJob
    <3>4. jobs'[proc[q].job] = jobs[proc[q].job]
      BY <2>2, <2>5, <3>2, <3>3 DEF KeepsJob
    <3> QED BY <3>1, <3>2, <3>4, RowStays DEF KeepsJob
  <2> QED BY <2>6, <2>7
<1> QED BY <1>1, <1>2

\* Until a heartbeat is late, every worker in its review keeps its job.
LEMMA TimelyKeeps ==
  ASSUME TypeOK, QueueInv, KeptInv, TimelyNext
  PROVE  KeptInv'
<1>1. ASSUME NEW d \in Delivery, RecordDelivery(d) \/ RecordClosed(d) PROVE KeptInv'
  <2> SUFFICES ASSUME NEW q \in Proc, InReview(q)' PROVE KeepsJob(q)'
    BY DEF KeptInv
  <2>1. proc' = proc /\ InReview(q) /\ KeepsJob(q)
    BY <1>1 DEF RecordDelivery, RecordClosed, KeptInv, InReview
  <2>2. jobs'[proc[q].job] = jobs[proc[q].job]
    <3>1. CASE RecordClosed(d)
      BY <3>1 DEF RecordClosed
    <3>2. CASE RecordDelivery(d)
      <4>1. proc[q].job # d
        BY <2>1, <3>2 DEF RecordDelivery, QueueInv, RowTable, KeepsJob, Owns
      <4> QED BY <3>2, <4>1 DEF RecordDelivery, TypeOK
    <3> QED BY <1>1, <3>1, <3>2
  <2> QED BY <2>1, <2>2, RowStays DEF KeepsJob
<1>2. ASSUME NEW p \in Proc, Start(p) \/ Stop(p) \/ Publish(p) PROVE KeptInv'
  <2> SUFFICES ASSUME NEW q \in Proc, InReview(q)' PROVE KeepsJob(q)'
    BY DEF KeptInv
  <2>1. jobs' = jobs
    BY <1>2 DEF Start, Stop, Publish
  <2>2. proc'[p].phase \in {"idle", "down"} /\ \A r \in Proc \ {p} : proc'[r] = proc[r]
    <3>1. CASE Start(p)
      BY <3>1 DEF Start, TypeOK, Worker
    <3>2. CASE Stop(p)
      BY <3>2, LeaveWorker DEF Stop, Phase
    <3>3. CASE Publish(p)
      BY <3>3, NextJobWorker DEF Publish
    <3> QED BY <1>2, <3>1, <3>2, <3>3
  <2>3. q # p /\ proc'[q] = proc[q]
    BY <2>2 DEF InReview
  <2> QED BY <2>1, <2>3, RowStays DEF KeptInv, KeepsJob, InReview
<1>3. ASSUME NEW p \in Proc, NEW o \in Outcome, Claim(p, o) PROVE KeptInv'
  BY <1>3, ClaimKeeps
<1>4. ASSUME NEW p \in Proc, TakeSnapshot(p) \/ Review(p) PROVE KeptInv'
  <2> SUFFICES ASSUME NEW q \in Proc, InReview(q)' PROVE KeepsJob(q)'
    BY DEF KeptInv
  <2>1. PICK ph \in {"review", "stale", "failing", "complete"} : Goto(p, ph)
    BY <1>4 DEF TakeSnapshot, Review
  <2>2. jobs' = jobs /\ InReview(p)
    BY <1>4 DEF TakeSnapshot, Review, InReview
  <2>3. \A r \in Proc : /\ proc'[r].lease = proc[r].lease
                        /\ proc'[r].job = proc[r].job
                        /\ proc'[r].phase = IF r = p THEN ph ELSE proc[r].phase
    BY <2>1, GotoWorker DEF Phase
  <2>4. InReview(q)
    BY <2>2, <2>3 DEF InReview
  <2> QED BY <2>2, <2>3, <2>4, RowStays DEF KeptInv, KeepsJob
<1>5. ASSUME NEW p \in Proc, NEW o \in Outcome,
             Interrupt(p, o) \/ StoreRun(p, o) \/ FailStale(p, o) \/ FailJob(p, o)
      PROVE  KeptInv'
  <2>1. Ending(p)
    BY <1>5, InterruptEnds, StoreRunEnds, FailStaleEnds, FailJobEnds
  <2>2. proc'[p].phase \in {"down", "crashed", "publish", "failing", "idle"}
    <3>1. CASE Interrupt(p, o)
      BY <3>1, LeaveWorker DEF Interrupt, Phase
    <3>2. CASE StoreRun(p, o)
      <4>1. PICK ph \in {"publish", "failing"} : Goto(p, ph)
        BY <3>2 DEF StoreRun
      <4> QED BY <4>1, GotoWorker DEF Phase
    <3>3. CASE FailStale(p, o)
      <4>1. NextJob(p) \/ Goto(p, "failing")
        BY <3>3 DEF FailStale
      <4> QED BY <4>1, GotoWorker, NextJobWorker DEF Phase
    <3>4. CASE FailJob(p, o)
      <4>1. NextJob(p) \/ Leave(p, "crashed")
        BY <3>4 DEF FailJob
      <4> QED BY <4>1, LeaveWorker, NextJobWorker DEF Phase
    <3> QED BY <1>5, <3>1, <3>2, <3>3, <3>4
  <2>3. ~InReview(p)'
    BY <2>2 DEF InReview
  <2> QED BY <2>1, <2>3, OthersEnding
<1>6. ASSUME NEW p \in Proc, Heartbeat(p) PROVE KeptInv'
  <2> SUFFICES ASSUME NEW q \in Proc, InReview(q)' PROVE KeepsJob(q)'
    BY DEF KeptInv
  <2>1. proc' = proc /\ InReview(q) /\ KeepsJob(q)
    BY <1>6 DEF Heartbeat, KeptInv, InReview
  <2>2. /\ jobs'[proc[q].job].status = jobs[proc[q].job].status
        /\ jobs'[proc[q].job].lease = jobs[proc[q].job].lease
    BY <1>6, <2>1, ClockFields DEF KeepsJob
  <2>3. jobs'[proc[q].job].beat \in {0, jobs[proc[q].job].beat}
    BY <1>6, <2>1 DEF Heartbeat, KeepsJob, TypeOK, JobRow
  <2>4. jobs'[proc[q].job].beat <= HeartbeatTicks
    BY <2>1, <2>3, ClockAssumption DEF KeepsJob
  <2> QED BY <2>1, <2>2, <2>4, RowStays
<1>7. ASSUME Tick, BeatsOnTime PROVE KeptInv'
  <2> SUFFICES ASSUME NEW q \in Proc, InReview(q)' PROVE KeepsJob(q)'
    BY DEF KeptInv
  <2>1. proc' = proc /\ InReview(q) /\ KeepsJob(q)
    BY <1>7 DEF Tick, KeptInv, InReview
  <2>2. /\ jobs'[proc[q].job].status = jobs[proc[q].job].status
        /\ jobs'[proc[q].job].lease = jobs[proc[q].job].lease
    BY <1>7, <2>1, ClockFields DEF KeepsJob
  <2>3. proc[q].job # NoJob /\ jobs[proc[q].job].beat < HeartbeatTicks
    BY <1>7, <2>1, NoValueAssumption DEF BeatsOnTime, KeepsJob
  <2>4. jobs[proc[q].job] \in JobRow /\ jobs[proc[q].job].beat \in Nat
    BY <2>1, NeverIsNat DEF KeepsJob, TypeOK, JobRow
  <2>5. jobs'[proc[q].job].beat \in {jobs[proc[q].job].beat, jobs[proc[q].job].beat + 1}
    BY <1>7, <2>1, <2>4 DEF Tick, KeepsJob, JobRow
  <2>6. jobs'[proc[q].job].beat <= HeartbeatTicks
    BY <2>3, <2>4, <2>5, ClockAssumption
  <2> QED BY <2>1, <2>2, <2>6, RowStays
<1> QED BY <1>1, <1>2, <1>3, <1>4, <1>5, <1>6, <1>7
       DEF TimelyNext, Next, WorkerStep, Work

\* As long as no heartbeat has come late, no worker is robbed of the job it works on:
\* heartbeat_job and the expiry of _recover_stale_jobs fit together for every lease
\* that is not shorter than the heartbeat.
THEOREM TimelyWorkersKeep == MCSpec => []KeptUnlessLate
<1>1. MCInit => TypeOK /\ QueueInv /\ (~late => KeptInv)
  <2>1. Init => TypeOK /\ QueueInv
    BY InitType, InitInv
  <2>2. Init => KeptInv
    BY DEF Init, Gone, KeptInv, InReview
  <2> QED BY <2>1, <2>2 DEF MCInit
<1>2. TypeOK /\ QueueInv /\ (~late => KeptInv) /\ [MCNext]_<<vars, late>>
        => TypeOK' /\ QueueInv' /\ (~late' => KeptInv')
  <2> SUFFICES ASSUME TypeOK, QueueInv, ~late => KeptInv, [MCNext]_<<vars, late>>
               PROVE  TypeOK' /\ QueueInv' /\ (~late' => KeptInv')
    OBVIOUS
  <2>1. [Next]_vars
    BY DEF MCNext, TimelyNext
  <2>2. TypeOK' /\ QueueInv'
    BY <2>1, TypeStep, InvStep
  <2>3. ASSUME ~late' PROVE KeptInv'
    <3>1. CASE TimelyNext /\ late' = late
      BY <2>3, <3>1, TimelyKeeps
    <3>2. CASE UNCHANGED <<vars, late>>
      BY <2>3, <3>2 DEF vars, KeptInv, InReview, KeepsJob, Owns
    <3> QED BY <2>3, <3>1, <3>2 DEF MCNext
  <2> QED BY <2>2, <2>3
<1>3. (~late => KeptInv) => KeptUnlessLate
  BY DEF KeptInv, KeptUnlessLate, WorkerKeepsLease, InReview, KeepsJob
<1> QED BY <1>1, <1>2, <1>3, PTL DEF MCSpec
=============================================================================
