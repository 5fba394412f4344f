---------------------------- MODULE HostedReview ----------------------------
(***************************************************************************)
(* One pull request as the hosted service sees it: its head and state on   *)
(* GitHub, the webhooks that tell of them, the row of pull_requests, the   *)
(* jobs, and the workers that take a snapshot in several requests, run the *)
(* engine in a session directory named for the head, and store the review. *)
(*                                                                         *)
(* Webhooks are lost, repeated and overtaken.  Of the queue only the       *)
(* promise of ReviewLedger is kept: who holds a job, and that it can be    *)
(* taken away (JobQueue says when).  A head that was replaced may come     *)
(* back: the branch is pushed by force to an earlier commit.               *)
(***************************************************************************)
EXTENDS Naturals, Sequences, FiniteSets

CONSTANTS
  Worker,
  NoWorker, NoJob, NoRow, NoRun, NoReview,   \* null values
  MaxHead,       \* bound: commits that become the head
  MaxEvent       \* bound: webhooks GitHub sends

ASSUME NullAssumption == NoWorker \notin Worker /\ NoJob \notin Nat
ASSUME BoundAssumption == MaxHead \in Nat \ {0} /\ MaxEvent \in Nat \ {0}

Commit == 1..MaxHead

State == {"open", "closed", "merged"}

\* X-GitHub-Delivery: the position of a webhook among those sent.
Delivery == 1..MaxEvent

\* A webhook: whether its action asks for a review, and its payload.
Event == [asks : BOOLEAN, head : Commit, state : State]

\* pulls/N, the files and commits being those of the commit `diff`.
Snapshot == [head : Commit, state : {"open", "closed"}, diff : Commit]

\* engine-request.json and engine-result.json, by the snapshot they are about.
Review == [head : Commit, diff : Commit]

\* A row of runs; `fresh` tells if the result was written after the attempt had begun.
Run == [head : Commit, diff : Commit, fresh : BOOLEAN]

Phase == {"idle", "meta", "files", "check", "engine", "running", "ended"}

ASSUME ValueAssumption ==
  /\ NoRow \notin [head : Commit, state : State]
  /\ NoRun \notin Run
  /\ NoReview \notin Review

VARIABLES
  pr,            \* head and state on GitHub
  events,        \* the webhooks GitHub has sent
  lost,          \* those that will never arrive
  deliveries,    \* the rows of the table of this name
  known,         \* whether the repository has a row
  row,           \* the pull request's row
  job,           \* status of the job of a delivery, who holds it, how it failed
  runs,          \* the rows of runs, by the job
  session,       \* per head: request and result file
  wk             \* workers: phase, job, snapshot, what the engine was given, and
                 \* (history) if a result was written since it was started

vars == <<pr, events, lost, deliveries, known, row, job, runs, session, wk>>

github == <<pr, events, lost>>

store == <<deliveries, known, row, job, runs>>

Nothing == [head |-> 1, state |-> "open", diff |-> 1]

\* Between two jobs, or between two lives of the process.
Idle == [phase |-> "idle", job |-> NoJob, snap |-> Nothing,
         given |-> NoReview, fresh |-> FALSE]

\* Every variable has its type.
TypeOK ==
  /\ pr \in [head : Commit, state : State]
  /\ events \in Seq(Event) /\ Len(events) <= MaxEvent
  /\ lost \subseteq Delivery
  /\ deliveries \subseteq Delivery
  /\ known \in BOOLEAN
  /\ row \in [head : Commit, state : State] \cup {NoRow}
  /\ job \in [Delivery -> [status : {"absent", "queued", "running", "complete", "failed"},
                           holder : Worker \cup {NoWorker},
                           why : {"none", "stale", "tried"}]]
  /\ runs \in [Delivery -> Run \cup {NoRun}]
  /\ session \in [Commit -> [request : Review \cup {NoReview},
                             result : Review \cup {NoReview}]]
  /\ wk \in [Worker -> [phase : Phase, job : Delivery \cup {NoJob}, snap : Snapshot,
                        given : Review \cup {NoReview}, fresh : BOOLEAN]]

\* The first webhook since the app was installed: the pull request is there, if not new.
Init == /\ pr \in [head : {1}, state : State]
        /\ events = <<[asks |-> pr.state = "open", head |-> 1, state |-> pr.state]>>
        /\ lost = {}
        /\ deliveries = {}
        /\ known \in BOOLEAN
        /\ row = NoRow
        /\ job = [d \in Delivery |-> [status |-> "absent", holder |-> NoWorker, why |-> "none"]]
        /\ runs = [d \in Delivery |-> NoRun]
        /\ session = [h \in Commit |-> [request |-> NoReview, result |-> NoReview]]
        /\ wk = [w \in Worker |-> Idle]

Sent == 1..Len(events)

-----------------------------------------------------------------------------
(* GitHub. *)

\* Each change of the pull request is told by one webhook.
Happens(asks, head, state) ==
  /\ Len(events) < MaxEvent
  /\ pr' = [head |-> head, state |-> state]
  /\ events' = Append(events, [asks |-> asks, head |-> head, state |-> state])
  /\ UNCHANGED <<lost, store, session, wk>>

\* action "synchronize", after a push or a forced push to any other commit
Push == /\ pr.state = "open"
        /\ \E h \in Commit \ {pr.head} : Happens(TRUE, h, "open")

\* action "ready_for_review"
Ready == pr.state = "open" /\ Happens(TRUE, pr.head, "open")

\* action "closed"
Close == /\ pr.state = "open"
         /\ \E s \in {"closed", "merged"} : Happens(FALSE, pr.head, s)

\* action "reopened"
Reopen == pr.state = "closed" /\ Happens(TRUE, pr.head, "open")

\* GitHub does not retry a webhook that has failed.
Lose(d) == /\ d \in Sent \ (deliveries \cup lost)
           /\ lost' = lost \cup {d}
           /\ UNCHANGED <<pr, events, store, session, wk>>

-----------------------------------------------------------------------------
(* The web process: ingest_webhook, in one transaction. *)

\* Faulty: the row is written with the whole payload.
ToldAll(e) == IF known THEN e ELSE row

\* _upsert_webhook_pull_request: INSERT ... SELECT id FROM repositories.
Told(e) == IF known THEN [head |-> e.head, state |-> e.state] ELSE row

Queued == [status |-> "queued", holder |-> NoWorker, why |-> "none"]

\* Faulty: a repeated delivery is a new one.
NewAlways(d) == TRUE

\* ON CONFLICT DO NOTHING ... if not inserted
New(d) == d \notin deliveries

\* Faulty: only "opened" asks for a review.
AsksAtFirst(d) == d = 1

\* _ACTIONS, as against _STATE_ONLY_ACTIONS
Asks(d) == events[d].asks

\* A delivery that is known already, repeated by hand or by a proxy, does nothing.
Ingest(d) ==
  /\ d \in Sent \ lost
  /\ New(d)
  /\ deliveries' = deliveries \cup {d}
  /\ row' = Told(events[d])
  /\ job' = IF Asks(d) THEN [job EXCEPT ![d] = Queued] ELSE job
  /\ UNCHANGED <<github, known, runs, session, wk>>

-----------------------------------------------------------------------------
(* The queue, as the workers and the pull request see it. *)

Owns(w) == /\ wk[w].job # NoJob
           /\ job[wk[w].job].status = "running"
           /\ job[wk[w].job].holder = w

Leaves(w) == wk' = [wk EXCEPT ![w] = Idle]

\* main() of a worker: sync_installation lists the repository.
Sync(w) == /\ wk[w].phase = "idle"
           /\ known' = TRUE
           /\ UNCHANGED <<github, deliveries, row, job, runs, session, wk>>

Claim(w, d) == /\ wk[w].phase = "idle"
               /\ job[d].status = "queued"
               /\ job' = [job EXCEPT ![d] = [@ EXCEPT !.status = "running", !.holder = w]]
               /\ wk' = [wk EXCEPT ![w] = [@ EXCEPT !.phase = "meta", !.job = d]]
               /\ UNCHANGED <<github, deliveries, known, row, runs, session>>

\* Faulty: no claim looks for expired leases.
NoRecovery(d) == FALSE

\* A lease has expired, or interrupt_job has given the job back.
Recover(d) == /\ job[d].status = "running"
              /\ job' = [job EXCEPT ![d] = Queued]
              /\ UNCHANGED <<github, deliveries, known, row, runs, session, wk>>

\* fail_job, or the exception it raises when the job is no longer this worker's:
\* that ends the process, which is restarted.
Fail(w, st, why) ==
  /\ job' = IF Owns(w)
            THEN [job EXCEPT ![wk[w].job] =
                    [status |-> st, holder |-> NoWorker, why |-> why]]
            ELSE job
  /\ Leaves(w)
  /\ UNCHANGED <<github, deliveries, known, row, runs, session>>

-----------------------------------------------------------------------------
(* process_one_job. *)

\* meta.get("state"): of a merged pull request, GitHub says that it is closed.
Reported(state) == IF state = "merged" THEN "closed" ELSE state

\* GET pulls/N
ReadMeta(w) ==
  /\ wk[w].phase = "meta"
  /\ wk' = [wk EXCEPT ![w] = [@ EXCEPT !.phase = "files",
       !.snap = [wk[w].snap EXCEPT !.head = pr.head, !.state = Reported(pr.state)]]]
  /\ UNCHANGED <<github, store, session>>

\* GET pulls/N/files, commits and threads, later
ReadFiles(w) ==
  /\ wk[w].phase = "files"
  /\ wk' = [wk EXCEPT ![w] = [@ EXCEPT !.phase = "check",
                                      !.snap = [wk[w].snap EXCEPT !.diff = pr.head]]]
  /\ UNCHANGED <<github, store, session>>

\* snapshot["head_sha"] != job.head_sha
Stale(w) == wk[w].snap.head # events[wk[w].job].head

FailStale(w) == /\ wk[w].phase = "check" /\ Stale(w)
                /\ Fail(w, "failed", "stale")

\* Faulty: one session directory for the pull request.
OneSession(w) == 1

\* session_root/owner/repo/pr-N/head_sha
SessionOf(w) == events[wk[w].job].head

\* Workspace, session directory and engine-request.json, then the child is
\* started.  A result that is there from an earlier attempt stays.
Begin(w) ==
  /\ wk[w].phase = "check" /\ ~Stale(w)
  /\ wk' = [wk EXCEPT ![w].phase = "engine"]
  /\ session' = [session EXCEPT
       ![SessionOf(w)].request = [head |-> wk[w].snap.head, diff |-> wk[w].snap.diff]]
  /\ UNCHANGED <<github, store>>

\* The child reads engine-request.json, which another attempt may have replaced.
ReadRequest(w) ==
  /\ wk[w].phase = "engine"
  /\ wk' = [wk EXCEPT ![w] = [@ EXCEPT !.phase = "running",
                                      !.given = session[SessionOf(w)].request]]
  /\ UNCHANGED <<github, store, session>>

InEngine(w) == wk[w].phase \in {"engine", "running", "ended"}

\* The child's last statement writes engine-result.json; then it exits with 0.
WriteResult(w) ==
  /\ wk[w].phase = "running"
  /\ session' = [session EXCEPT ![SessionOf(w)].result = wk[w].given]
  /\ wk' = [v \in Worker |->
       IF v = w THEN [wk[v] EXCEPT !.phase = "ended", !.fresh = TRUE]
       ELSE IF InEngine(v) /\ SessionOf(v) = SessionOf(w) THEN [wk[v] EXCEPT !.fresh = TRUE]
       ELSE wk[v]]
  /\ UNCHANGED <<github, store>>

\* Faulty: like a webhook, a snapshot writes no row of an unknown repository.
InsertIfKnown(w) == Told(wk[w].snap)

\* _upsert_snapshot creates the repository's row if need be.
Upsert(w) == [head |-> wk[w].snap.head, state |-> wk[w].snap.state]

\* Faulty: whatever the exit code, a result file that is there will do.
SomeResult(w) == InEngine(w) /\ session[SessionOf(w)].result # NoReview

\* return_code == 0 and result_path.exists()
HasResult(w) == wk[w].phase = "ended"

\* The result is read; complete_job stores row, run and job in one transaction.
\* publish_run, which changes nothing here, is module Publication.
StoreRun(w) ==
  /\ HasResult(w) /\ Owns(w)
  /\ row' = Upsert(w)
  /\ known' = TRUE
  /\ runs' = [runs EXCEPT ![wk[w].job] =
       [head |-> session[SessionOf(w)].result.head,
        diff |-> session[SessionOf(w)].result.diff,
        fresh |-> wk[w].fresh]]
  /\ job' = [job EXCEPT ![wk[w].job] =
       [@ EXCEPT !.status = "complete", !.holder = NoWorker]]
  /\ Leaves(w)
  /\ UNCHANGED <<github, deliveries, session>>

\* _require_job_lease raises, and so does fail_job in the handler.
LoseJob(w) == /\ wk[w].phase = "ended" /\ ~Owns(w)
              /\ Leaves(w)
              /\ UNCHANGED <<github, store, session>>

\* A request to GitHub or the engine fails: back to the queue, or given up after
\* enough attempts.
FailJob(w) == /\ wk[w].phase # "idle"
              /\ Fail(w, "queued", "none") \/ Fail(w, "failed", "tried")

\* The process ends, and its child with it.
Stop(w) == /\ wk[w].phase # "idle"
           /\ Leaves(w)
           /\ UNCHANGED <<github, store, session>>

-----------------------------------------------------------------------------
(* Next-state relation and fairness. *)

\* What a worker does if nothing goes wrong.
Work(w) == \/ \E d \in Delivery : Claim(w, d)
           \/ ReadMeta(w) \/ ReadFiles(w) \/ FailStale(w)
           \/ Begin(w) \/ ReadRequest(w) \/ WriteResult(w)
           \/ StoreRun(w) \/ LoseJob(w)

Change == Push \/ Ready \/ Close \/ Reopen

Trouble(w) == FailJob(w) \/ Stop(w)

\* Nobody works on a job that is said to run.
Abandoned(d) == /\ job[d].status = "running"
                /\ wk[job[d].holder].job # d

Next == \/ Change
        \/ \E d \in Delivery : Lose(d) \/ Ingest(d) \/ Recover(d)
        \/ \E w \in Worker : Sync(w) \/ Work(w) \/ Trouble(w)

Spec == Init /\ [][Next]_vars

\* What need not happen: changes on GitHub, losses, failures, and a lease that
\* expires although its worker lives.
Fault == \/ Change
         \/ \E d \in Delivery : Lose(d) \/ (Recover(d) /\ ~Abandoned(d))
         \/ \E w \in Worker : Trouble(w)

\* Webhooks that are not lost arrive, workers run and are restarted, and an
\* abandoned job's lease expires.
FairSpec == /\ Spec
            /\ WF_vars(\E d \in Delivery : Ingest(d))
            /\ WF_vars(\E d \in Delivery : Recover(d) /\ Abandoned(d))
            /\ \A w \in Worker : WF_vars(Work(w))

-----------------------------------------------------------------------------
(* Properties. *)

\* A review is reached from its pull request's page (repositories.py,
\* list_runs and the dashboard): there is a row whenever there is a run, though
\* the webhooks may have come before the repository was known.
RunHasRow == (\E d \in Delivery : runs[d] # NoRun) => row # NoRow

\* What is stored for a job was made for the job's head, by an engine run that
\* ended after this attempt had begun: session directories are shared by all
\* attempts and all jobs of a head, and keep their engine-result.json.
ReviewIsOfItsJob ==
  \A d \in Delivery : runs[d] # NoRun => runs[d].fresh /\ runs[d].head = events[d].head

\* The pull request has had this head, and another one later.
Replaced(h) == \E d, e \in Sent : d < e /\ events[d].head = h /\ events[e].head # h

\* The snapshot is taken in several requests and a push may come between them.  A
\* review of a head that has stood since it was pushed has seen the files of this head
\* and no other, whatever reviews of other heads are under way.  (Of a head that was
\* replaced and came back this is not true: nothing compares the files with the head.)
StandingRunCoheres ==
  \A d \in Delivery : runs[d] # NoRun /\ ~Replaced(events[d].head) =>
                        runs[d].diff = events[d].head

\* services.py: "queued head SHA is stale; a newer synchronize delivery should
\* run".  A job dropped for that reason has a later delivery for another head, on its
\* way, lost, or with a job of its own, even if its own head stands again.
StaleIsSuperseded ==
  \A d \in Delivery : job[d].why = "stale" =>
    \E e \in Sent : /\ e > d /\ events[e].head # events[d].head
                    /\ e \in deliveries => job[e].status # "absent"

\* An open delivery is one whose job waits or runs.
Ledger == INSTANCE ReviewLedger WITH
  outcome <- [d \in Delivery |-> IF job[d].status \in {"queued", "running"}
                                 THEN "open" ELSE job[d].status],
  stored  <- {d \in Delivery : runs[d] # NoRun}

\* With lost, repeated and overtaken webhooks and shared session directories, each
\* delivery that asks for a review is still accepted and settled at most once.
LedgerSpec == Ledger!Spec

\* A delivery that arrives and asks for a review of the head that has stood since.
Standing(d) == /\ d \in Sent \ lost
               /\ events[d].asks
               /\ \A e \in Sent : e >= d => events[e].head = pr.head

\* Once faults stop, what such a delivery asks for is reviewed, unless it was given up
\* after enough attempts: it is never dropped.
StandingHeadReviewed ==
  <>[][~Fault]_vars =>
    <>[](\A d \in Delivery : Standing(d) => job[d].status = "complete" \/ job[d].why = "tried")

\* README.md: "A `closed` event updates the history state to `closed` or `merged`".
\* Stated here as: once such an event has written that the pull request is merged,
\* which is for good, only webhooks write another state, and no review does that was on
\* its way.
ClosedStands ==
  [][(row # NoRow /\ row.state = "merged" /\ row'.state # "merged")
       => deliveries' # deliveries]_vars
=============================================================================
