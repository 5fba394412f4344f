------------------------------ MODULE JobQueue ------------------------------
(***************************************************************************)
(* The review queue of the hosted service: the tables deliveries, jobs and *)
(* runs of app/server/schema.sql, the transactions of PostgresStore on     *)
(* them (app/server/repositories.py), and the worker processes that run    *)
(* process_one_job (app/server/services.py) in the loop of app/worker.py.  *)
(*                                                                         *)
(* A transaction is one step, as PostgreSQL makes it.  Between two steps   *)
(* of a worker any other worker, the web process, the clock or a crash may *)
(* step in.  A transaction can end in three ways for the worker that       *)
(* issued it: committed and acknowledged ("ok"), rolled back with an       *)
(* exception ("aborted"), or committed with the connection lost before the *)
(* answer, so that the worker sees an exception too ("unacked").           *)
(***************************************************************************)
EXTENDS Naturals, Sequences, FiniteSets

CONSTANTS
  Delivery,      \* delivery ids; a job is named by the delivery that made it
  Proc,          \* worker slots: containers that run app.worker
  Lease,         \* pool of uuid4 values, one per life of a worker process
  NoLease,       \* NULL in jobs.lease_id, and the lease of a slot that is down
  NoJob,         \* the job of a worker that is between two jobs
  MaxAttempts,   \* the 3 of fail_job
  AttemptCap,    \* attempt numbers above this one are not told apart
  LeaseTicks,    \* JOB_LEASE_SECONDS, in clock ticks
  HeartbeatTicks,\* HEARTBEAT_SECONDS, in clock ticks
  BackoffTicks   \* one minute of retry delay, in clock ticks

ASSUME NoValueAssumption == NoLease \notin Lease /\ NoJob \notin Delivery
ASSUME AttemptAssumption == /\ MaxAttempts \in Nat \ {0}
                            /\ AttemptCap \in Nat
                            /\ MaxAttempts <= AttemptCap
ASSUME ClockAssumption == /\ LeaseTicks \in Nat
                          /\ HeartbeatTicks \in Nat
                          /\ HeartbeatTicks <= LeaseTicks
                          /\ BackoffTicks \in Nat

VARIABLES
  deliveries,    \* rows of deliveries
  arrived,       \* jobs in the order of jobs.created_at
  jobs,          \* rows of jobs
  runs,          \* rows of runs: the attempt whose output is stored, 0 if none
  proc           \* the worker slots

vars == <<deliveries, arrived, jobs, runs, proc>>

-----------------------------------------------------------------------------
(* Rows and worker records. *)

\* NOW() - heartbeat_at, saturated; NULL and "older than the lease" are one
\* value because _recover_stale_jobs treats them alike.
Never == LeaseTicks + 1

Status == {"absent", "queued", "running", "complete", "failed"}

\* jobs.error, reduced to which statement wrote it.
Error == {"none", "stale_head", "phase_failed", "worker_stopped", "interrupted"}

JobRow == [status  : Status,
           attempt : 0..AttemptCap,
           beat    : 0..Never,
           wait    : Nat,              \* ticks until available_at
           lease   : Lease \cup {NoLease},
           error   : Error]

\* "down": killed or stopped.  "crashed": an exception left main().  The
\* others are a live process: idle, or inside process_one_job.
Phase == {"down", "crashed", "idle", "snapshot", "review", "complete",
          "stale", "failing", "publish"}

Worker == [phase : Phase, lease : Lease \cup {NoLease},
           job : Delivery \cup {NoJob}, attempt : 0..AttemptCap]

NoRow == [status |-> "absent", attempt |-> 0, beat |-> Never, wait |-> 0,
          lease |-> NoLease, error |-> "none"]

Gone(ph) == [phase |-> ph, lease |-> NoLease, job |-> NoJob, attempt |-> 0]

\* Every variable has its type.
TypeOK == /\ deliveries \subseteq Delivery
          /\ arrived \in Seq(Delivery)
          /\ jobs \in [Delivery -> JobRow]
          /\ runs \in [Delivery -> 0..AttemptCap]
          /\ proc \in [Proc -> Worker]

Init == /\ deliveries = {}
        /\ arrived = <<>>
        /\ jobs = [d \in Delivery |-> NoRow]
        /\ runs = [d \in Delivery |-> 0]
        /\ proc = [p \in Proc |-> Gone("down")]

-----------------------------------------------------------------------------
(* The web process: ingest_webhook.  A delivery id seen before changes     *)
(* nothing (ON CONFLICT DO NOTHING), so redelivery is a stuttering step.   *)

RecordDelivery(d) ==
  /\ d \notin deliveries
  /\ deliveries' = deliveries \cup {d}
  /\ jobs' = [jobs EXCEPT ![d].status = "queued"]
  /\ arrived' = Append(arrived, d)
  /\ UNCHANGED <<runs, proc>>

\* The action "closed": the delivery is recorded and nothing is queued.
RecordClosed(d) ==
  /\ d \notin deliveries
  /\ deliveries' = deliveries \cup {d}
  /\ UNCHANGED <<arrived, jobs, runs, proc>>

-----------------------------------------------------------------------------
(* The statements of PostgresStore on a row of jobs. *)

Live(p) == proc[p].phase \notin {"down", "crashed"}

\* Phases inside the try block of process_one_job.
Trying(p) == proc[p].phase \in {"snapshot", "review", "complete", "stale", "publish"}

\* Faulty: the row is only required to be running.
OwnsAnyRunning(p) == jobs[proc[p].job].status = "running"

\* Faulty: no check.
OwnsAlways(p) == TRUE

\* _require_job_lease.
Owns(p) == LET r == jobs[proc[p].job]
           IN  r.status = "running" /\ r.lease = proc[p].lease

\* Faulty: status and error are passed in the wrong order.
ReleasedSwapped(r, s, e, w) ==
  [r EXCEPT !.status = e, !.error = s, !.wait = w, !.beat = Never, !.lease = NoLease]

\* locked_at, heartbeat_at and lease_id become NULL whenever a row leaves running.
Released(r, s, e, w) ==
  [r EXCEPT !.status = s, !.error = e, !.wait = w, !.beat = Never, !.lease = NoLease]

\* Faulty: a job that has missed a single beat counts as abandoned.
ExpiredEarly(r) == r.status = "running" /\ r.beat > 0

\* Faulty: the status is not looked at.
ExpiredAnyStatus(r) == r.beat = Never

Expired(r) == r.status = "running" /\ r.beat = Never

\* Faulty: jobs of dead workers are left as they are.
RecoveredNone == jobs

Recovered == [d \in Delivery |->
                IF Expired(jobs[d])
                THEN Released(jobs[d], "queued", "worker_stopped", 0)
                ELSE jobs[d]]

Bump(n) == IF n < AttemptCap THEN n + 1 ELSE n

\* Faulty: the claim leaves heartbeat_at NULL for the thread to fill in.
TakenUnbeaten(r, l) ==
  [r EXCEPT !.status = "running", !.attempt = Bump(@), !.lease = l, !.error = "none"]

Taken(r, l) ==
  [r EXCEPT !.status = "running", !.attempt = Bump(@), !.beat = 0,
            !.lease = l, !.error = "none"]

\* Faulty: the last allowed attempt is not made.
AfterFailureEarly(r, n, retry) ==
  IF retry /\ n + 1 < MaxAttempts
  THEN Released(r, "queued", "phase_failed", n * BackoffTicks)
  ELSE Released(r, "failed", IF retry THEN "phase_failed" ELSE "stale_head", r.wait)

\* fail_job, with the attempt number the worker was given at the claim.
AfterFailure(r, n, retry) ==
  IF retry /\ n < MaxAttempts
  THEN Released(r, "queued", "phase_failed", n * BackoffTicks)
  ELSE Released(r, "failed", IF retry THEN "phase_failed" ELSE "stale_head", r.wait)

-----------------------------------------------------------------------------
(* A worker process: app/worker.py and process_one_job. *)

Outcome == {"ok", "aborted", "unacked"}
Committed(o) == o # "aborted"

Goto(p, ph) == proc' = [proc EXCEPT ![p].phase = ph]

Leave(p, ph) == proc' = [proc EXCEPT ![p] = Gone(ph)]

NextJob(p) ==
  proc' = [proc EXCEPT ![p].phase = "idle", ![p].job = NoJob, ![p].attempt = 0]

\* Faulty: a name that a restarted container has again.
UnusedByLive(l) == \A q \in Proc : proc[q].lease # l

\* uuid4: a value that no running worker and no row carries.
Unused(l) == /\ \A q \in Proc : proc[q].lease # l
             /\ \A d \in Delivery : jobs[d].lease # l

\* main() draws its lease id; a restarted container is a new process.
Start(p) ==
  /\ ~Live(p)
  /\ \E l \in Lease : /\ Unused(l)
                      /\ proc' = [proc EXCEPT ![p].phase = "idle", ![p].lease = l]
  /\ UNCHANGED <<deliveries, arrived, jobs, runs>>

\* SIGKILL, power loss, or a stop signal outside the try block, where main()
\* catches it: the process ends and the database is not told.
Stop(p) ==
  /\ Live(p)
  /\ Leave(p, "down")
  /\ UNCHANGED <<deliveries, arrived, jobs, runs>>

\* A stop signal inside the try block: interrupt_job, then the signal goes on.
\* An exception of interrupt_job leaves main() instead.
Interrupt(p, o) ==
  /\ Trying(p)
  /\ jobs' = IF Owns(p) /\ Committed(o)
             THEN [jobs EXCEPT ![proc[p].job] = Released(@, "queued", "interrupted", 0)]
             ELSE jobs
  /\ Leave(p, IF o = "ok" THEN "down" ELSE "crashed")
  /\ UNCHANGED <<deliveries, arrived, runs>>

Available(rows) == {d \in Delivery : rows[d].status = "queued" /\ rows[d].wait = 0}

Ahead(d) == {c \in Available(Recovered) :
               \E m, n \in 1..Len(arrived) : m < n /\ arrived[m] = c /\ arrived[n] = d}

\* ORDER BY created_at ... SKIP LOCKED: an older job is passed over only while
\* another idle worker's claim holds its row, and one claim holds one row.
InTurn(p, d) ==
  Cardinality(Ahead(d)) <= Cardinality({q \in Proc \ {p} : proc[q].phase = "idle"})

\* claim_job recovers expired jobs and takes one in the same transaction.  A
\* claim that finds nothing has recovered nothing either and changes nothing.
\* claim_job is outside the try block: its exceptions leave main().
Claim(p, o) ==
  /\ proc[p].phase = "idle"
  /\ IF Committed(o)
     THEN \E d \in Available(Recovered) :
            /\ InTurn(p, d)
            /\ jobs' = [Recovered EXCEPT ![d] = Taken(@, proc[p].lease)]
            /\ proc' = [proc EXCEPT ![p] =
                 IF o = "ok" THEN [phase |-> "snapshot", lease |-> proc[p].lease,
                                   job |-> d, attempt |-> Bump(jobs[d].attempt)]
                             ELSE Gone("crashed")]
     ELSE Leave(p, "crashed") /\ UNCHANGED jobs
  /\ UNCHANGED <<deliveries, arrived, runs>>

\* github.snapshot: the head is still the queued one, has moved, or GitHub fails.
TakeSnapshot(p) ==
  /\ proc[p].phase = "snapshot"
  /\ \E ph \in {"review", "stale", "failing"} : Goto(p, ph)
  /\ UNCHANGED <<deliveries, arrived, jobs, runs>>

\* Session directory, workspace download and engine.review: none of them
\* touches the tables, and an exception of any of them has the same handler.
Review(p) ==
  /\ proc[p].phase = "review"
  /\ \E ph \in {"complete", "failing"} : Goto(p, ph)
  /\ UNCHANGED <<deliveries, arrived, jobs, runs>>

\* complete_job.  A worker without the lease gets an exception, and so does a
\* second row for the same job (UNIQUE job_id).
StoreRun(p, o) ==
  LET j == proc[p].job
      accepted == Owns(p) /\ runs[j] = 0 /\ Committed(o)
  IN  /\ proc[p].phase = "complete"
      /\ IF accepted
         THEN /\ jobs' = [jobs EXCEPT ![j] = Released(@, "complete", @.error, @.wait)]
              /\ runs' = [runs EXCEPT ![j] = proc[p].attempt]
         ELSE UNCHANGED <<jobs, runs>>
      /\ Goto(p, IF accepted /\ o = "ok" THEN "publish" ELSE "failing")
      /\ UNCHANGED <<deliveries, arrived>>

\* The queued head is not the current one: fail_job(retry=False).
FailStale(p, o) ==
  LET j == proc[p].job IN
  /\ proc[p].phase = "stale"
  /\ jobs' = IF Owns(p) /\ Committed(o)
             THEN [jobs EXCEPT ![j] = AfterFailure(@, proc[p].attempt, FALSE)]
             ELSE jobs
  /\ IF Owns(p) /\ o = "ok" THEN NextJob(p) ELSE Goto(p, "failing")
  /\ UNCHANGED <<deliveries, arrived, runs>>

\* The handler of every other exception: fail_job.  An exception of fail_job
\* itself (the lease is lost, the database is away) leaves main().
FailJob(p, o) ==
  LET j == proc[p].job IN
  /\ proc[p].phase = "failing"
  /\ jobs' = IF Owns(p) /\ Committed(o)
             THEN [jobs EXCEPT ![j] = AfterFailure(@, proc[p].attempt, TRUE)]
             ELSE jobs
  /\ IF Owns(p) /\ o = "ok" THEN NextJob(p) ELSE Leave(p, "crashed")
  /\ UNCHANGED <<deliveries, arrived, runs>>

\* Publication, or its being disabled: every exception is caught and the job
\* stays as it is.
Publish(p) ==
  /\ proc[p].phase = "publish"
  /\ NextJob(p)
  /\ UNCHANGED <<deliveries, arrived, jobs, runs>>

\* heartbeat_job of the worker's thread.  A beat left over from an earlier
\* attempt of the same process carries the same lease and is this same step.
Heartbeat(p) ==
  /\ proc[p].job # NoJob
  /\ Owns(p)
  /\ jobs' = [jobs EXCEPT ![proc[p].job].beat = 0]
  /\ UNCHANGED <<deliveries, arrived, runs, proc>>

-----------------------------------------------------------------------------
(* The clock. *)

\* Every live owner has sent its last beat less than HEARTBEAT_SECONDS ago.
BeatsOnTime ==
  \A p \in Proc : proc[p].job # NoJob /\ Owns(p)
                 => jobs[proc[p].job].beat < HeartbeatTicks

Tick ==
  /\ jobs' = [d \in Delivery |->
       [jobs[d] EXCEPT
         !.beat = IF jobs[d].status = "running" /\ @ < Never THEN @ + 1 ELSE @,
         !.wait = IF @ > 0 THEN @ - 1 ELSE 0]]
  /\ UNCHANGED <<deliveries, arrived, runs, proc>>

-----------------------------------------------------------------------------
(* Next-state relation and fairness. *)

Work(p) == \/ TakeSnapshot(p) \/ Review(p) \/ Publish(p)
           \/ \E o \in Outcome : \/ Claim(p, o) \/ StoreRun(p, o)
                                 \/ FailStale(p, o) \/ FailJob(p, o)

WorkerStep(p) == \/ Start(p) \/ Stop(p) \/ Work(p) \/ Heartbeat(p)
                 \/ \E o \in Outcome : Interrupt(p, o)

Next == \/ \E d \in Delivery : RecordDelivery(d) \/ RecordClosed(d)
        \/ \E p \in Proc : WorkerStep(p)
        \/ Tick

Spec == Init /\ [][Next]_vars

\* Steps no worker takes by itself: a kill, a stop signal, a failing database,
\* a clock that outruns a heartbeat.
Fault == \/ \E p \in Proc : Stop(p) \/ (\E o \in Outcome : Interrupt(p, o))
         \/ \E p \in Proc : Claim(p, "aborted") \/ Claim(p, "unacked")
         \/ \E p \in Proc, o \in {"aborted", "unacked"} :
              /\ proc[p].job # NoJob
              /\ Owns(p)
              /\ StoreRun(p, o) \/ FailStale(p, o) \/ FailJob(p, o)
         \/ Tick /\ ~BeatsOnTime

\* Fairness is due to what a worker does by itself: an idle worker with nothing
\* to claim may stay idle for ever, and need not fail.
Progress(p) == Work(p) /\ ~Fault

\* Requests return (HTTP and engine timeouts), the loop of main() polls, the
\* heartbeat thread runs, compose restarts a worker (restart: unless-stopped).
Fairness ==
  /\ WF_vars(Tick)
  /\ \A p \in Proc : WF_vars(Start(p)) /\ WF_vars(Progress(p)) /\ WF_vars(Heartbeat(p))

FairSpec == Spec /\ Fairness

\* A step before which every heartbeat was on time.
TimelyNext == Next /\ (BeatsOnTime \/ ~Tick)

-----------------------------------------------------------------------------
(* Properties. *)

\* A lease names one attempt: whenever a live worker's lease stands in a row,
\* that worker is inside process_one_job for this very job and attempt, and
\* has not yet committed its end.  This is what makes lease_id a fence for
\* complete_job, fail_job, interrupt_job and heartbeat_job.
LeaseFence ==
  \A p \in Proc, d \in Delivery :
    (Live(p) /\ jobs[d].lease = proc[p].lease) =>
      /\ jobs[d].status = "running"
      /\ proc[p].job = d
      /\ proc[p].attempt = jobs[d].attempt
      /\ proc[p].phase \in {"snapshot", "review", "complete", "stale", "failing"}

\* A stored review and a complete job are the same fact, and the stored output
\* is that of the last attempt, never that of a worker that was given up.
RunIffComplete ==
  \A d \in Delivery : runs[d] = IF jobs[d].status = "complete" THEN jobs[d].attempt ELSE 0

\* A review is given up only for a reason: the head moved, or at least
\* MaxAttempts attempts were begun.  A crash, a signal or a lost lease is none.
FailureIsEarned ==
  \A d \in Delivery : jobs[d].status = "failed" =>
    \/ jobs[d].error = "stale_head"
    \/ jobs[d].error = "phase_failed" /\ jobs[d].attempt >= MaxAttempts

\* Leases of distinct live workers are distinct, and a row carries a lease
\* exactly while it runs.
LeaseTable ==
  /\ \A p \in Proc : Live(p) <=> proc[p].lease # NoLease
  /\ \A p, q \in Proc : proc[p].lease = proc[q].lease => p = q \/ ~Live(p)
  /\ \A d \in Delivery : jobs[d].status = "running" <=> jobs[d].lease # NoLease

\* A worker has a job exactly inside process_one_job.
WorkerTable ==
  \A p \in Proc : proc[p].job = NoJob <=> proc[p].phase \in {"down", "crashed", "idle"}

\* A row exists only for a recorded delivery, and no attempt number is zero.
RowTable ==
  \A d \in Delivery : /\ d \notin deliveries => jobs[d].status = "absent"
                      /\ jobs[d].status \in {"running", "complete"} => jobs[d].attempt > 0

\* The inductive invariant: LeaseFence, RunIffComplete and FailureIsEarned with
\* the bookkeeping they rest on.
QueueInv == /\ LeaseTable
            /\ WorkerTable
            /\ RowTable
            /\ LeaseFence
            /\ RunIffComplete
            /\ FailureIsEarned

\* A running job is taken from its worker only once its lease has expired;
\* before that, only a step of the worker that holds the lease ends it.
OnlyOwnerEnds ==
  [][\A d \in Delivery :
       (jobs[d].status = "running" /\ jobs[d].beat # Never /\ jobs'[d].status # "running") =>
         \E p \in Proc : /\ proc[p].lease = jobs[d].lease
                        /\ proc[p].job = d
                        /\ proc'[p].phase # proc[p].phase]_vars

\* A settled job is never touched again: no late worker, heartbeat, recovery
\* or redelivery changes its row or its review.
SettledForever ==
  [][\A d \in Delivery : jobs[d].status \in {"complete", "failed"} =>
       jobs'[d].status = jobs[d].status /\ jobs'[d].attempt = jobs[d].attempt
       /\ jobs'[d].error = jobs[d].error /\ runs'[d] = runs[d]]_vars

\* An open delivery is one whose job waits or runs.
Ledger == INSTANCE ReviewLedger WITH
  outcome <- [d \in Delivery |-> IF jobs[d].status \in {"queued", "running"}
                                 THEN "open" ELSE jobs[d].status],
  stored  <- {d \in Delivery : runs[d] # 0}

\* The queue implements the promise of ReviewLedger: behind leases, retries,
\* crashes and the clock, a delivery is accepted once and settled at most once,
\* in one transaction with its review.
LedgerSpec == Ledger!Spec

\* While heartbeats are on time, no worker is robbed of a job it works on,
\* however slow the review is and however many workers poll.
WorkerKeepsLease ==
  \A p \in Proc : proc[p].phase \in {"snapshot", "review", "complete"} => Owns(p)

\* Once faults stop, every accepted review is settled, whatever state they
\* left behind: jobs of dead workers, half-reported commits, lost leases.
JobsSettle ==
  <>[][~Fault]_vars =>
    \A d \in Delivery : (jobs[d].status = "queued") ~> (jobs[d].status \in {"complete", "failed"})
=============================================================================
