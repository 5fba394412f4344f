# Verification of the DUT AI PR Preview System

TLA+ specifications of the review service in `app/` and of the review engine in
`src/`, their TLC configurations, and theorems about them checked by TLAPS.

    tlc -workers 2 -config JobQueueSafety.cfg MCJobQueue   # model checking
    tlapm JobQueueProofs.tla                               # proofs

## 1. The system

    GitHub --webhook--> web process --transaction--> PostgreSQL <--transactions-- workers
                            |                                                       |  |
                            |  publish on request             snapshot, zip, publish|  | engine
                            +----------------------------> GitHub <-----------------+  v
                                                                           claims, agents, report
    poller / command line --> review process (per PR) --> claims, agents, report --> comment
                                       \___ agent slots shared by all processes ___/

| component | state | operations | who else acts on the state |
| --- | --- | --- | --- |
| review queue (`repositories.py`, `schema.sql`) | rows of deliveries, jobs, runs | record, claim with recovery, heartbeat, complete, fail, interrupt | web process, all workers, the clock |
| worker (`worker.py`, `services.py`) | lease id, current job, phase | the phases of `process_one_job`, signals, restart | the queue, GitHub, the engine |
| publication (`services.py`, `github.py`) | comments of the pull request, `publish_audit` | head check, list, write, read back, record | other publishers, pushes, deletions on GitHub |
| webhook ingest (`services.py`) | none of its own | verify, then one transaction | GitHub redelivers and reorders |
| pull request rows (`repositories.py`) | installations, repositories, pull_requests, commits | overwritten by webhooks, snapshots, the installation sync | all of these, in any order |
| agent pool (`src/agent_pool.py`) | slot files | acquire, reclaim, release | threads of all review processes, deaths |
| local review (`src/run.py`, `snapshot.py`, `human_gate.py`) | `review.lock`, session directory | lock, five phases, reuse of artifacts, comment | poller, a second review |
| poller (`src/autoreview.py`) | `autoreview.lock`, session directories | decide, clean, dispatch | a second poller, manual reviews |
| verify pipeline (`src/verify.py`, `docs_rank.py`) | part files, findings | plan, fan out, read parts, merge, validate | agents in parallel |
| model backends (`llm.py`, `claude_cli.py`, `claims.py`) | attempt counter, budget, part file | attempt, retry, salvage | the model, timeouts |
| engine gateway (`src/engine`) | request and result files, child process | start, wait 1800 s, stop, read result | an earlier attempt's files |
| poller configuration (`autoreview_config.py`) | `autoreview.yml` | load, edit, replace | a second editor |
| report (`synthesize.py`) | none | verdict, report, comment | - |
| dashboard, login, configuration, scripts | none shared | views, cookies, parsing | - |

What is hard here: a worker may be slow, die, lose the database's answer, or be
asked to stop between any two statements, while others recover its job; a
publication is a chain of HTTP requests that others interleave with; locks are
files that are created, filled, judged stale and removed in separate system
calls. What makes each component correct:

* queue: one review per accepted delivery, stored with the attempt that won;
  nothing late counts; nothing is lost; failure only for a reason;
* worker: keeps its job while it beats, survives its own exceptions;
* publication: one comment per pull request, only for the current head, and a
  record of every attempt;
* agent pool: never more agents than the cap, no slot lost, no wedging;
* local review and poller: one review at a time per pull request, what is
  posted belongs to one head, every new head gets its review;
* verify: results of an earlier round are never read, the budget covers the retries, the
  headline is the one the claims deserve;
* pull request rows: a review belongs to its job's head, and a job is dropped only if a
  later one for another head exists, whatever webhooks are lost or overtaken;
* poller configuration: no edit alone damages the file, and nobody is reviewed uninvited.

`PROJECT.json` lists every component with its status, and the hazards line by
line with the property that covers each.

## 2. Modules

| module | models | state | actions |
| --- | --- | --- | --- |
| `ReviewLedger` | what the service promises for a delivery | outcome, stored | accept, deliver, give up |
| `JobQueue` | queue and workers | `deliveries`, `arrived` (order of `created_at`), `jobs`, `runs`, `proc` | one per transaction and per phase of `process_one_job` |
| `Publication` | one pull request on GitHub and the calls of `publish_run` | `head`, `comments`, `stored`, `audit`, `pub`, history `cut` | one per HTTP request and insert |
| `AgentPool` | slot files, threads and their agents | `alive`, `file`, `pc`, `slot`, `orphan` (agents that outlived their process) | one per system call |
| `Verify` | phase 4 of a review in one workspace, round after round | phase, part files, what was read, findings; attempts and cost per agent; histories `paid`, `unpriced` | begin, start an attempt, write, answer, fail, read, merge, kill, a late write |
| `Verdict` | claims into shards, answers into findings, findings into verdict and label | none (operators) | none |
| `HostedReview` | one pull request: GitHub, its webhooks, its row and jobs, workers, session directories | `pr`, `events`, `lost`, `deliveries`, `known`, `row`, `job`, `runs`, `session`, `wk` | one per change on GitHub, webhook, transaction, request and step of the engine's child |
| `AutoreviewConfig` | `autoreview.yml` and the edits under way | `file`, `tmp`, `ed`, histories `invited`, `collided` | one per system call of an edit, and its death |
| `LocalReview` | one session directory, the reviews in it and the poller | `lock`, the heads the files are about, what each process has loaded, `torn` (a `findings.json` that is empty or cut off), `poll`, histories `overlapped`, `replaced` | one per system call on the lock, one per phase, one per step of the pass |
| `MC...` | instances and symmetry for TLC; `MCJobQueue` adds the history `late`, `MCAgentPool` `robbed`, `MCVerify` the inputs of `Verdict` | | |
| `...Proofs` | theorems | | |

`JobQueue` keeps of a job row what decides: status, attempt, lease, the age of
the heartbeat (`beat`: a saturating age; NULL and "expired" are one value,
since `_recover_stale_jobs` treats them alike), the ticks until `available_at`,
and which statement wrote `error`. A transaction is one step and has three
outcomes for its issuer: acknowledged, rolled back, or committed with the answer
lost. What GitHub and the engine return is a choice: the head is still the
queued one, has moved, or the request fails; the review succeeds or fails.
`claim_job` takes the oldest row that is not locked; an older row can be locked
only by another idle worker's claim, and each claim locks one row, which
`InTurn` says. Attempt numbers saturate at `AttemptCap`. `Lease` is a pool of
uuid4 values; a value may be drawn again once nothing carries it, so that the
pool never limits restarts. The `Trying` phases are those inside the `try` of
`process_one_job`, where a stop signal leads to `interrupt_job`; everywhere else
it ends `main` like a kill.

`Publication` assumes `PUBLISH_ENABLED`. Each `Run` has its own preview, so a
comment is represented by the run whose preview it shows. Listing the comments is
one step (one page up to 100 comments). `WriteComment` distinguishes a write that
never reached GitHub from one whose answer was lost. `cut` records the runs a
publication of which ended without a row, because the process was killed or
stopped, or the database was away at its first or its last statement: the code
has no other trace of these.

`AgentPool` has the pid and the age of a slot file as two booleans, `filled` and
`old`. A pid is not reused, and writing the pid does not fail. `timeout` is
`None` in every caller of `acquire_slot`. An agent is a child process: whoever kills a
review signals its pid or its group and waits for the review alone
(`process_control.py:70-106`), so that `Die` ends a process with all its threads, and leaves
any of its agents running, in `orphan`, until `OrphanEnds`. `Running`, which the cap is
about, has these too. `MCAgentPool` adds a history: `robbed` is true once a thread has
reclaimed the slot file of a running agent, be it that of a live thread or of an orphan.

`Verify` has the agents of `plan_tasks` as tasks, split in `ClaimTask` and `OtherTask`
because only the claims decide whether a review is refused, and `Checked`, the axes
`_validate_findings` looks at. A part file is its origin (round, attempt) and a grade: what
`read_part` refuses, what only `_validate_findings` refuses, or acceptable. A list that
leaves claims out, or is empty, is as acceptable to the code as a full one, hence to the
model; what becomes of it is in `Verdict`. The wait for a slot
(`AgentPool`) is part of "queued". With the Claude backend an agent is a loop of attempts
(`claude_cli.run`), with the other one a single attempt. `stop_process_tree` signals the
whole group but waits for the review process alone, and a review that is killed by its pid
leaves its agents running: `Kill` lets any of them survive, and `LateWrite` lets these write
whenever they like. An attempt may cost up to `Overrun` more than the CLI was told, which
looks at its bill only now and then; and it may not tell what it has cost, because its answer
has no `total_cost_usd` (`claude_cli.py:183-184`, counted as 0) or is never parsed. The
histories `paid` and `unpriced` are the real bill of an agent and the number of such attempts.

`LocalReview` represents each file by the head it is about, `findings.json` by the
snapshot, the claims and the code that went into it. `write_text` opens it, which empties it
(`RunVerify`), and fills it (`Save`); a death or an error in between leaves it `torn`, which
`decide_pr` does not see (`Done` looks at the head and two modification times) and a review
without `--force` fails on (`BadFindings`). `newer` is the comparison of two
modification times in `decide_pr`. `review.lock` has a creator and whether the pid is
in it; `Dead` stands for the pid of a process that was killed. `mine` is what a review has in
memory: phases work on that, while the report reads snapshot and claims from the
directory again. Reviews by hand come with and without `--force`; the poller's has
`--force`. The poller reads files and the lock, and removes files, without holding the lock,
in steps of its own. Fetching and checking out are one step. `Push` goes to any other
commit, a forced push back to an earlier one included; `replaced` are the heads that were
pushed over.

`HostedReview` composes what `JobQueue` leaves out with what it promises: of the queue it
keeps who holds a job, and that a job can be taken away at any time. A push goes to any
other commit, so that a head that was replaced may come back. `known` says whether the repository has a
row: a webhook writes no pull request of an unknown repository, a review creates it. A
snapshot is read in two steps, the head with the state, and the files; `Reported` is what GitHub
gives as the state of a merged pull request. The request and the result file of a session are
kept per head, since all attempts and all jobs of a head share the directory; `fresh`
is a history: whether a result was written since the attempt had started its child. The child
of a worker that stops ends with it (`interrupt_job` and the gateway stop it; after a kill
the container ends).

`Verdict` has a claim as its place and source, and an answer as a status; an agent that
died, and an answer that was left out, are "none". Its inputs are states of `MCVerify` beside
those of `Verify`.

`AutoreviewConfig` has in the file the text an edit has made, `Empty` after it was
truncated, or a mixture of two texts that were written over each other (`Over`). An open file
keeps its inode when its name changes (`Renamed`), so that an edit may write into the file
that another one has moved into place. Of two texts, the start of the new one and the end of
the old one may remain; what comes of it may parse: then the settings are the new ones, and
entries of the old text may follow those of the new (`Mixed`). What does not parse, or fails
`validate_config`, is torn, and is refused. An empty file is a configuration of defaults.
`invited` collects what was `auto` at first or was asked to be;
`collided` says that two edits have overlapped.

The refinements: `JobQueue!Ledger` and `HostedReview!Ledger` map queued and running to
"open", and the rows of `runs` to `stored`.

## 3. Runs

| run | instance | shows |
| --- | --- | --- |
| `JobQueueSafety` | 2 workers, 2 deliveries, 4 leases, 3 attempts, lease and heartbeat of 2 ticks, back-off 1 | `LeaseFence`, `RunIffComplete`, `FailureIsEarned`, `KeptUnlessLate`, `OnlyOwnerEnds`, `SettledForever`, and that the queue implements `ReviewLedger` |
| `JobQueueLiveness` | 2 workers, 1 delivery, 3 leases, heartbeat 1 | `JobsSettle`: once faults stop, every queued job is settled |
| `Publication` | 1 web process, 1 worker, 2 reviews of 2 commits, 3 comments | `FewComments`, `NothingSilent`, `AuditFollows` |
| `PublicationStale` | 1 worker, 2 commits | violated: a stale review is published after a push between check and write |
| `AgentPool` | 2 processes, 3 threads, 2 slots | `NoSlotLeaks`, `CapUnlessRobbed`, `NeverWedged` |
| `AgentPoolCap` | 3 processes, 1 thread each, 1 slot, no kills (`MCCalmSpec`) | violated: the cap is exceeded with nobody slow or dead |
| `Verify` | 1 shard of claims, docs; 2 rounds, 2 attempts, budget of 2 and an overrun of 1; beside it, up to 5 claims in shards of 2 | `FreshParts`, `BudgetCovers`, `RoundEnds`; `HeadlineDeserved` |
| `LocalReview` | 1 review by hand at a time, poller and its review, 2 heads, pushes until both were pushed over | `NoLockLeaks`, `DoneMeansReviewed`, `CodeOfTheHead`, `CommentCoheres`, `HeadReviewed` |
| `ReviewExclusion` | as above, 1 head | violated: two reviews are inside the lock at once, nobody dead |
| `HostedReview` | 2 workers, 2 commits, 3 webhooks (the third with one worker) | `RunHasRow`, `ReviewIsOfItsJob`, `StandingRunCoheres`, `StaleIsSuperseded`, `StandingHeadReviewed`, and that it implements `ReviewLedger` |
| `HostedState` | 2 workers, 2 commits, 2 webhooks | violated: a review on its way writes the state of a merged pull request over |
| `AutoreviewConfig` | 2 edits at a time, 1 name, the organisation and another owner | `NeverUninvited`, `EditsAreAtomic`, `EditSticks` |

Bounds, and why they are enough. *Queue:* a lease can be confused between an owner, a former
owner and a new one; two workers that can restart give all three, since a restarted worker
draws a new lease, and two jobs let a worker hold one while its old lease or heartbeat
concerns another. Four leases cover two live workers and two rows left by dead ones. Three
attempts are those of the code; `AttemptCap` is one more, since recovery is not limited. The
lease is two ticks so that a job can be fresh, late and expired; in `JobQueueSafety` a
heartbeat takes as long as the lease, the weakest case `ClockAssumption` admits (the code
has 10 s against 60 s). `late` turns true at the first step that `TimelyNext` does not
allow, so that one run has the timely behaviours, about which `KeptUnlessLate` speaks, and
all others. *Publication:* the two kinds of callers overlap, the commit can move forth and
back, and three comments let each publisher create one and recreate it after a deletion.
*Pool:* two threads that share a process die together, the third does not; robbing needs
three threads at one slot; an agent that outlives its process and the two threads that can
take its slot are three as well. *Verify:* an earlier round and an earlier attempt exist, and
the first attempt costs nothing, leaves something, uses the budget up or overruns it, told or
not. Only the agents of the claims cost anything (`ClaimsCost`): no agent sees another's
bill. Agents meet only in the merge; five claims in shards of two have a full shard, two,
and a short last one, each with every status or none. *Local review:* reviews by hand start
again and again, so that the files can come from many of them; two processes at the lock are
enough to overlap, and two heads to tell old from new. `Bounded` ends the pushes once both
heads have been pushed over, and after an overlap lets the reviews run to their end without
pushes or new ones: what overlapping reviews leave is excepted by the properties but
`NoLockLeaks`, which is proved of every behaviour. *Hosted review:* the first webhook says that
the pull request is open, closed or merged, as it was when the app was installed or soon
after, and the second is a push, a repeated request, a closing or a reopening, so that
webhooks overtake each other, repeat a head, or replace it, with two workers on two jobs of
one head or of two. A third webhook lets the head go and come back; with both workers at it
there are more than 10 million states, so that the second one rests once it is sent
(`Rested`). Two workers at all webhooks are in the theorems. *Configuration:* two
edits overlap in all ways, and any number follow each other; one name under the
organisation, under another owner and bare gives each kind of key a rival.

Symmetry is used for safety runs only (`Delivery`, `Proc`, `Lease`; `Editor`), never with
liveness. Deadlock is checked everywhere but in the pool, where all processes may be dead in
the end, in `Verify`, where the last round may be over, in `LocalReview`, where `Bounded` may
leave nothing to do, and in `AutoreviewConfig`, where after an overlap the file may be torn
and every edit is refused. In `HostedReview` it says
little, since an idle worker may always restart; that nothing gets stuck there is
`StandingHeadReviewed`. There are 230 thousand distinct states in `JobQueueSafety`, 22
thousand in `JobQueueLiveness`, 820 thousand in `Publication`, 60 thousand in `AgentPool`,
1.4 million in `Verify`, 1.7 million in `LocalReview`, 1 million in `HostedReview` and
3.2 million in `AutoreviewConfig`.

Fairness:

* `JobQueue!FairSpec`: time passes; a worker that is down is restarted
  (`restart: unless-stopped` in `docker-compose.yml`); a worker in a phase leaves
  it, since requests to GitHub have a timeout of 60 s and the engine one of 1800 s;
  the heartbeat thread runs. Fairness is stated of `Progress`, a worker's steps
  that are no faults: were it stated of `Work`, an idle worker with nothing to claim
  would be obliged to fail, and `JobsSettle` would hold for want of a behaviour
  whose faults end. `Fault` collects what no worker does by itself: kills and stop
  signals, a database that rolls back or loses answers, and a clock that outruns a live
  worker's heartbeat. `JobsSettle` assumes that these end at some time; without that
  a job that kills its worker each time is retried for ever.
* `Publication!FairSpec`: requests and inserts return.
* `AgentPool!Fairness`: live threads run, agents return or their process is killed,
  slot files grow old. A backend without a timeout in a review started by hand
  would hold its slot as long as it hangs. No order among waiting threads is
  claimed: the code has none, and `NeverWedged` promises that some thread gets a slot.
* `AgentPool!Prompt`, in `AgentPoolCap`, restricts behaviours instead: nobody takes
  the ten seconds of grace from creating a file to filling it.
* `Verify!FairSpec`: agents end and their parts are read and merged. The Claude backend stops
  an agent after `DEFAULT_TIMEOUT_SECONDS`; the poller stops a review that hangs.
* `LocalReview!FairSpec`: processes run, phases return for the same reasons, and the poller
  polls. `HeadReviewed` assumes that pushes, failures, kills and reviews by hand end
  (`Fault`); before that, anything may be left in the session directory. It excepts
  behaviours in which the lock has let two reviews in, and those that end with a torn
  `findings.json`, which the poller takes for a review (section 4).
* `HostedReview!FairSpec`: a webhook that is not lost arrives, workers run and are restarted,
  and the lease of a job nobody works on expires (`JobQueue` shows how). `StandingHeadReviewed`
  assumes that changes on GitHub, losses, failures and the expiry of a live worker's lease end
  (`Fault`). It speaks of deliveries that arrive, and for a head that has stood since
  (`Standing`): the system has no other source, and if the only webhook of a head is lost,
  nothing reviews that head; nor does a forced push back make up for a job that was dropped
  while another head stood, but by its own webhook.

## 4. Where code and documents disagree

1. *A merged pull request* (`README.md:135-136`, "A `closed` event updates the history state
   to `closed` or `merged`"). `complete_job` writes the state of its snapshot over the row
   (`repositories.py:229`), and GitHub calls a merged pull request closed (`github.py:174`). A
   pull request that is merged while its job waits is "merged" by the webhook and "closed"
   after the review; one that is merged during the review goes back to "open". No later
   webhook corrects it.
2. *"stale runs cannot publish"* (`.agents/tasks/WI-MVP-001.md:70`). The head is
   compared once, before the comments are listed and written.
3. *The global cap* (`src/agent_pool.py:1`, and the grace window at 27-30).
   `_reclaimable` reads the age of one file and the pid of whatever is there
   afterwards. If the holder releases in between, the missing file counts as
   dead, and the `unlink` that follows removes the file the next thread has just
   created. From then on two threads hold one slot; since `release_slot` also
   removes whatever file it finds, the excess can be handed on. Capacity is never lost:
   `NoSlotLeaks` holds all the same. The run `AgentPoolCap` has no kills. With them there is a
   second way: an agent that outlives its review runs on while the slot of the dead pid is
   reclaimed. That there is no third one is `CapUnlessRobbed`, checked and proved.
4. *The review lock* (`src/run.py:178-180`, "manual CLI reviews, web-triggered reviews,
   and the poller mutually exclude each other"). The lock is created empty and filled
   afterwards. A second review that reads it in between takes it for the lock of a dead
   process, removes it and creates its own. `AgentPool` has a grace time against this,
   `review.lock` has none. `DoneMeansReviewed`, `CodeOfTheHead`, `CommentCoheres` and
   `HeadReviewed` are therefore stated with `~overlapped`; `NoLockLeaks` holds regardless. That
   nothing but the removal of a live lock lets two reviews in is `CarefulReviewsExclude`.

Each of these has a run that ends in a counterexample. Smaller ones, without a run:

* The handler of `process_one_job` (`services.py:243`, "persist failure, then continue") does not
  continue if the lease has passed to another worker: `fail_job` raises as
  `complete_job` did, the process ends, and compose restarts it. The queue is unharmed
  (`LeaseFence`, `JobsSettle`).
* `findings.json` is opened, which empties it, and filled afterwards (`run.py:378`). If the
  review dies in between, or the write fails, the file is newer than `snapshot.json` and
  `decide_pr` (`autoreview.py:47-53`), which compares only the times, skips that head for ever,
  although there is no review of it: "review chưa hoàn thành → chạy lại" (the review is not
  complete: run again) is not done. A review by hand without `--force` fails on the file.
  `DoneMeansReviewed` and `HeadReviewed` except exactly this (`torn`).
* A result without `total_cost_usd` counts as free (`claude_cli.py:183-184`): a retry after it
  gets as much as if it had not been. `BudgetCovers` allows one more budget for each such
  attempt, and nothing else.
* A part of a claims agent with an empty list is accepted (`verify.py:264-277`, `463-474`): the
  review ships with neither a verdict on these claims nor a gap among its questions. The
  headline does count them (`HeadlineDeserved`).
* An agent that outlives a killed review loses its slot to the next one (see 3), and may write
  its part file into the workspace of the next round (`FreshParts` excepts it).
* If the branch is pushed over between the snapshot's request for the head and the one for the
  files, and by force back to the first head before the review is published, a review of the
  first head made from the files of the second is published. `StandingRunCoheres` is about
  heads that were never replaced; for these it cannot happen.
* An edit that gives the bare name where `owner/name` is an entry already creates a second entry
  (`resolve_key` looks one way only). Then `repo_mode` and `auto_repos` may disagree, against
  `tests/test_autoreview_config.py:205`. `EditSticks` excepts such files.
* `remove_repo` without an exact key removes the entries of every owner's repository of this name.
* A truncated `autoreview.yml` is a valid configuration without repositories; the poller
  loads its configuration once, at its start.
* The verdict compares numbers of claims and findings: a second answer about one claim hides
  that another claim has none. `VerdictDeserved` assumes that agents answer their own claims, once.

## 5. Proofs

All theorems hold for every value of the constants that meets the named assumptions: leases
and jobs have a null value outside them (`NoValueAssumption`), attempts and ticks are
natural numbers (`AttemptAssumption`, `ClockAssumption`), and for publications that there
are finitely many publishers.

*Queue* (`JobQueueProofs`). `TypeCorrect` comes first, action by action. `LeaseFence`,
`RunIffComplete` and `FailureIsEarned` are not inductive by themselves: that a late worker
cannot complete a job needs that no other live worker has its lease, that a row has a lease
exactly while it runs, and that a worker has a job exactly inside `process_one_job`.
`QueueInv` adds these (`LeaseTable`, `WorkerTable`, `RowTable`). The proof reduces the
actions to a few forms: a worker that only moves (`WorkerMoves`), a worker whose attempt
ends in one released row (`Ending`, `EndsWith`: complete, fail, interrupt), a claim, a
start, a new row, and the clock. `SettledForever`, `OnlyOwnerEnds` and `LedgerSpec` are then
proved per step from `QueueInv` (which runs no longer check, because its parts are proved): a row either keeps all that matters (`Kept`), stays open,
or is ended by its owner. `TimelyWorkersKeep` is about `MCSpec`, whose steps are those of
`Next` with the history `late`: while no heartbeat has been late, a worker in a review owns
its job, whose heartbeat is no older than `HeartbeatTicks` (`KeptInv`), so that no claim
recovers it; a step that ends a job is its owner's by `OnlyOwnerEnds`' argument.

*Publication* (`PublicationProofs`). Every step is a push, a deletion, or a
publisher that begins, writes or proceeds (`StepCases`). `FewComments` counts the
comments shown together with the calls that have listed none and may still
create one; that sum grows only when a call finds no comment at all, and is then
at most the number of publishers. It is inductive with the types. `StaleNeedsAPush` is
about `QuietSpec`, the behaviours in which no push comes while a call stands between its
head check and its write: there such a call is of the head that stands (`Current`), hence so
is each review that is written. This is `StaleNeverPublishes` but for finding 2, whatever
else overlaps, fails or is cut off.

*Pool* (`AgentPoolProofs`). `NoSlotLeaks` is inductive with the types. A thread
that creates a file is at that slot and has no other file (`NoFile`), and
removing a file, rightly or not, cannot break it. `CapUntilRobbed` is about `MCSpec`, whose
steps are those of `Next` with the history `robbed`: until the file of a running agent is
reclaimed, a live thread that holds a slot or is filling its file, and a dead one whose agent
runs on, has the file of that slot (`HolderHasFile`), so that running agents are as many as
the slot files they have, and these no more than `Limit` (`CapFromFiles`, by the cardinality
of an injection's range). The file of a killed thread without an agent may be taken away by
anybody: it holds nothing.

*Verify* (`VerifyProofs`). The types need that a running or waiting agent has begun an
attempt, and that a retry leaves one (`AttemptTable`). The real bill is what was told and, for
each attempt that did not tell, one more budget and overrun (`CostTable`); what was told
exceeds the budget by one overrun at most, since no attempt starts on a budget that is used
up. `BudgetCovers` follows.
`FreshParts` follows from where a part file can come from (`PartOrigin`): this round
and an attempt begun, hence, while an agent runs, its last attempt, because the Claude
backend removes the file at each start and no other backend retries; or a survivor of an
earlier review.

*Local review* (`LocalReviewProofs`). `ReviewInv` adds to the properties what reviews
have loaded (`Loaded`: nothing absent once its phase is over, no snapshot of a head yet to
come, and the workspace of a review that verifies in it is of its snapshot's head unless that
was pushed over; `CodeKept`: so are the findings, stored or posted) and
what holds as long as nobody has overlapped (`Apart`: one review inside at most, and the
files are the ones it has loaded). Steps outside the phases are handled by a frame lemma
each, steps inside by `ApartInside`, since the others have nothing loaded. `CarefulReviewsExclude` is about `CarefulSpec`, the
behaviours in which `_acquire_review_lock` unlinks only locks of the dead, or none
(`Careful`): there, whoever is inside has the lock (`HolderHasLock`), hence two reviews
never overlap: `CommentCoheres` holds without its exception, and `DoneMeansReviewed` with
the torn `findings.json` as the only one. The code does not guarantee `Careful`, which
finding 4 is about; the theorem says that for exclusion nothing else need be repaired: no
kill, failure, stale lock or push lets two reviews in.

*Hosted review* (`HostedReviewProofs`). `HostInv` adds to the properties where things come
from: the last webhook tells of the head on GitHub, and a webhook of any other head has been
superseded by a later one that asks for a review (`EventTable`); a job exists exactly for a
delivery that arrived and asked (`DeliveryTable`); what a worker has read is of the job's
head, or that was superseded, and the head and the files it has read are of one commit, or
that was replaced (`AttemptTable`); the files of a session are about the session's own head
(`SessionTable`). What was superseded or replaced stays so (`HistoryStays`), which makes
these inductive although heads come back: numbers of commits would not be ordered. A job
that is dropped has been superseded (`StaleTable`). `HostedImplementsLedger` maps each step to one
of `ReviewLedger`'s or to a stutter.

*Verdict* (`VerdictProofs`, `VerifyProofs`). `AccurateMeansPassed` and `LabelCountsPlanned` are
for any number of claims and any findings that answer a claim at most once (`Proper`):
"ACCURATE" means that each claim has a finding that passed (by a count: as many findings as
claims leave no claim out), and the total that is shown is the number of claims.
`VerdictsDeserved` goes from the claims to the headline, through the deal of claims into shards
(`Dealing`), the agents that answer or die (`AnswersList`), and the merge of what they have
said (`MergeStepwise`, `ListsCount`): for any number of claims and any size of the shards the
findings list each answer once (`FindingsList`), so that verdict and counts are those of the
answers. Its definitions are folds and a recursive function; the facts about them are by
induction on the number of shards or answers that are done. The induction is `Induction`,
which takes a set of numbers and not an operator: the least number outside such a set, which
exists because < on the naturals is well-founded, would not be outside. `Recursion` gives a
function that is defined by recursion its equation, and the folds unfold to such functions.
`HeadlinesDeserved` is then an invariant of `MCVerify`: the inputs are the `Input` of the
theorem from the first state on (`InputInv`).

*Configuration* (`AutoreviewConfigProofs`). `Alone` says that, as long as edits have not
overlapped, at most one is under way, its text is the edited file, and the temporary file
holds that text once it is written; `EditsAreAtomic` follows: the one step that changes the
file is a `Replace` by that text (`FileStep`). `Invited` says of the file, the
temporary file and every text in memory that what it promises the poller is in `invited`,
also when the entries of one text follow those of another (`MixedEffect`); a bare name
counts as the organisation's (`Promised`), since a mixture may name the organisation again.
It needs no condition on overlaps.
`EditSticks` follows from `Alone` by lemmas on `SetMode` and `Remove`.

All use only that the sets of processes, tasks and null values are apart and the bounds are
natural numbers (`NameAssumption`, `HeadAssumption`, `TaskAssumption`, `RetryAssumption`,
`MissingAssumption`, `NullAssumption`, `BoundAssumption`, `ValueAssumption`, `ShardAssumption`,
`KeyAssumption`, `FileAssumption`, `OrderAssumption`), and that an overrun is a natural number
(`OverrunAssumption`).

Model-checked only: the liveness properties `JobsSettle`, `AuditFollows`, `NeverWedged`,
`RoundEnds`, `HeadReviewed` and `StandingHeadReviewed`, since liveness under
fairness is out of this prover's reach; and the violations `PublicationStale`, `AgentPoolCap`, `ReviewExclusion`
and `HostedState`, which are counterexamples.

## 6. Not modelled, and the plan

Left out for good: job logs (written, never read by the program), login and
dashboard, parsing, layout, the contents of reviews and snapshots.

The order was: queue and ledger, publication, agent pool, verify, local review, hosted
review, verdict, edits of `autoreview.yml` and the proofs about each (all done). Next:

1. `Publication` with a listing of several pages, and requests that take effect after their
   timeout.
2. Proofs: the safety part of the liveness properties (that a waiting thread, job or review
   is never without a step that can be taken); `HostedState` with its window excluded, as
   `StaleNeedsAPush` and `CarefulReviewsExclude` do for theirs.
3. `LocalReview` with `autoreview.lock`, two pollers and the death of the poller; `post_comment`
   as a second publisher beside `publish_run`.
4. `parse_json_stream` and `extract_json_object`, which find the answer in what an agent prints,
   against a reference definition.

Known limits of the present modules: a listing of comments over several pages is one step;
a request to GitHub that has timed out does not take effect later; `post_comment` of the
local mode publishes under the same marker and without a head check, and is not among the
publishers of `Publication`; a pid is never reused; of the files of a session only
`findings.json` is opened and filled in two steps, so that a torn `snapshot.json` (which
`decide_pr` reviews again) or `claims.json` does not occur; `Verify` has one review process
at a time in a workspace (two that overlap by finding 4 would share it);
`answers.json` and the round counter are data; `--fixtures` writes session files without the
lock, and is not a process of `LocalReview`; there is one poller, and it does not die.
