---------------------------- MODULE LocalReview ----------------------------
(***************************************************************************)
(* Reviews without the service: one pull request, its session directory,   *)
(* the processes that review it (src/run.py) and the poller that starts    *)
(* some of them (src/autoreview.py).  They meet in review.lock and in the  *)
(* files each phase leaves for later phases and later reviews.             *)
(*                                                                         *)
(* The lock is modelled system call by system call, a phase as one step,   *)
(* but for the writing of findings.json, which is emptied first and filled *)
(* then.  A process may be killed anywhere, and any phase may fail.        *)
(***************************************************************************)
EXTENDS Naturals

CONSTANTS
  Manual,        \* invocations from the command line
  Child,         \* the invocation started by the poller
  Nobody,        \* the creator of a lock that does not exist
  Dead,          \* the pid of a process that was killed
  MaxHead        \* bound: commits the branch is pushed to, again and again

ASSUME NameAssumption == Child \notin Manual
                         /\ {Nobody, Dead} \cap (Manual \cup {Child}) = {} /\ Nobody # Dead
ASSUME HeadAssumption == MaxHead \in Nat \ {0}

Proc == Manual \cup {Child}

VARIABLES
  head,          \* the head of the pull request on GitHub
  replaced,      \* history: the heads it had and was pushed away from
  lock,          \* review.lock
  snap,          \* the head in snapshot.json; 0: no such file
  claims,        \* the head claims.json was extracted for; 0: no such file
  findings,      \* findings.json, once it is complete
  torn,          \* findings.json is there, but empty or cut off
  newer,         \* snapshot.json has been written after findings.json
  workspace,     \* the commit that is checked out; 0: not cloned
  comment,       \* the comment on the pull request
  pc,            \* of each review process
  force,         \* whether it runs with --force
  mine,          \* what it has loaded or made
  poll,          \* the poller
  overlapped     \* history: two reviews have been inside the lock at once

artifacts == <<snap, claims, findings, torn, newer, workspace, comment>>

world == <<head, replaced>>

vars == <<world, lock, artifacts, pc, force, mine, poll, overlapped>>

Head == 1..MaxHead

\* Findings: the snapshot and the claims they are about, and the code that was read.
Findings == [snap : Head, claims : Head, code : Head]

NoFindings == [snap |-> 0, claims |-> 0, code |-> 0]

\* What is posted; "forced" is the kind of review that did it.
NoComment == [snap |-> 0, claims |-> 0, findings |-> NoFindings, forced |-> FALSE]

Nothing == [snap |-> 0, claims |-> 0, findings |-> NoFindings]

Gone == [by |-> Nobody, filled |-> FALSE]

\* In _acquire_review_lock: the first open, reading the pid, unlink, the second
\* open, writing the pid.  Then the phases, and the finally clause.
Acquiring == {"take", "judge", "unlink", "retake", "fill"}

Reviewing == {"snapshot", "claims", "workspace", "verify", "save", "report", "post", "release"}

Polling == {"idle", "new", "rerun", "clean", "queued", "waiting"}

\* Every variable has its type.
TypeOK == /\ head \in Head
          /\ replaced \subseteq Head
          /\ lock \in [by : Proc \cup {Dead}, filled : BOOLEAN] \cup {Gone}
          /\ {snap, claims, workspace} \subseteq 0..MaxHead
          /\ findings \in Findings \cup {NoFindings}
          /\ {torn, newer} \subseteq BOOLEAN
          /\ comment \in [snap : Head, claims : Head, findings : Findings, forced : BOOLEAN]
                            \cup {NoComment}
          /\ pc \in [Proc -> Acquiring \cup Reviewing \cup {"idle"}]
          /\ force \in [Proc -> BOOLEAN]
          /\ mine \in [Proc -> [snap : 0..MaxHead, claims : 0..MaxHead,
                                findings : Findings \cup {NoFindings}]]
          /\ poll \in Polling
          /\ overlapped \in BOOLEAN

Init == /\ head = 1
        /\ replaced = {}
        /\ lock = Gone
        /\ snap = 0 /\ claims = 0 /\ workspace = 0
        /\ findings = NoFindings
        /\ torn = FALSE
        /\ newer = FALSE
        /\ comment = NoComment
        /\ pc = [p \in Proc |-> "idle"]
        /\ force = [p \in Proc |-> FALSE]
        /\ mine = [p \in Proc |-> Nothing]
        /\ poll = "idle"
        /\ overlapped = FALSE

Goto(p, ph) == pc' = [pc EXCEPT ![p] = ph]

Inside(p) == pc[p] \in Reviewing

-----------------------------------------------------------------------------
(* The world, and starting a review. *)

\* A new commit, or a forced push back to an earlier one.
Push == /\ \E h \in Head \ {head} : head' = h
        /\ replaced' = replaced \cup {head}
        /\ UNCHANGED <<lock, artifacts, pc, force, mine, poll, overlapped>>

Launch(p, f) == /\ pc[p] = "idle"
                /\ Goto(p, "take")
                /\ force' = [force EXCEPT ![p] = f]
                /\ UNCHANGED <<world, lock, artifacts, mine, overlapped>>

ByHand(p) == \E f \in BOOLEAN : Launch(p, f) /\ UNCHANGED poll

\* The process ends, at a return of main() or by a signal.
End(p) == /\ Goto(p, "idle")
          /\ force' = [force EXCEPT ![p] = FALSE]
          /\ mine' = [mine EXCEPT ![p] = Nothing]

-----------------------------------------------------------------------------
(* _acquire_review_lock and _release_review_lock. *)

\* os.open with O_CREAT | O_EXCL.
Create(p) == /\ lock = Gone
             /\ lock' = [by |-> p, filled |-> FALSE]
             /\ Goto(p, "fill")
             /\ UNCHANGED <<force, mine>>

Take(p) == /\ pc[p] = "take"
           /\ \/ Create(p)
              \/ lock # Gone /\ Goto(p, "judge") /\ UNCHANGED <<lock, force, mine>>
           /\ UNCHANGED <<world, artifacts, poll, overlapped>>

\* Faulty: a lock without a pid counts as held.
AliveOrEmpty == lock # Gone /\ (lock.filled => lock.by # Dead)

\* review_lock_alive: a missing, empty or dead lock names nobody alive.
Alive == lock # Gone /\ lock.filled /\ lock.by # Dead

\* A live lock ends the attempt, and main returns 1.
Judge(p) == /\ pc[p] = "judge"
            /\ IF Alive THEN End(p) ELSE Goto(p, "unlink") /\ UNCHANGED <<force, mine>>
            /\ UNCHANGED <<world, lock, artifacts, poll, overlapped>>

\* Whatever file is there by now.
Unlink(p) == /\ pc[p] = "unlink"
             /\ lock' = Gone
             /\ Goto(p, "retake")
             /\ UNCHANGED <<world, artifacts, force, mine, poll, overlapped>>

Retake(p) == /\ pc[p] = "retake"
             /\ \/ Create(p)
                \/ lock # Gone /\ End(p) /\ UNCHANGED lock
             /\ UNCHANGED <<world, artifacts, poll, overlapped>>

\* The pid goes to the file this process opened, even if that is unlinked.
Fill(p) == /\ pc[p] = "fill"
           /\ lock' = IF lock.by = p THEN [lock EXCEPT !.filled = TRUE] ELSE lock
           /\ Goto(p, "snapshot")
           /\ overlapped' = (overlapped \/ \E q \in Proc \ {p} : Inside(q))
           /\ UNCHANGED <<world, artifacts, force, mine, poll>>

\* Faulty: a review that has failed leaves its lock.
ReleaseOnSuccess(p) == /\ pc[p] = "release"
                       /\ lock' = Gone \/ UNCHANGED lock
                       /\ End(p)
                       /\ UNCHANGED <<world, artifacts, poll, overlapped>>

\* The finally clause, after success and after failure.
Release(p) == /\ pc[p] = "release"
              /\ lock' = Gone
              /\ End(p)
              /\ UNCHANGED <<world, artifacts, poll, overlapped>>

-----------------------------------------------------------------------------
(* The phases of main(). *)

\* Faulty: a file need not be there.
ReusesAnything(p, exists) == ~force[p]

\* _load_or_skip, of a file that is there.
Reuses(p, exists) == exists /\ ~force[p]

InPhase(p, from, to) == /\ pc[p] = from
                        /\ Goto(p, to)
                        /\ UNCHANGED <<world, lock, force, poll, overlapped>>

\* Phase 1: the snapshot is of the head that stands now.
Snapshot(p) ==
  /\ InPhase(p, "snapshot", "claims")
  /\ IF Reuses(p, snap # 0)
     THEN UNCHANGED <<snap, newer>>
     ELSE snap' = head /\ newer' = TRUE
  /\ mine' = [mine EXCEPT ![p].snap = snap']
  /\ UNCHANGED <<claims, findings, torn, workspace, comment>>

\* Faulty: claims are extracted once for all reviews.
ClaimsOnce(p) ==
  /\ InPhase(p, "claims", "workspace")
  /\ claims' = IF claims # 0 THEN claims ELSE mine[p].snap
  /\ mine' = [mine EXCEPT ![p].claims = claims']
  /\ UNCHANGED <<snap, findings, torn, newer, workspace, comment>>

\* Phase 2: one call of the model.
Claims(p) ==
  /\ InPhase(p, "claims", "workspace")
  /\ claims' = IF Reuses(p, claims # 0) THEN claims ELSE mine[p].snap
  /\ mine' = [mine EXCEPT ![p].claims = claims']
  /\ UNCHANGED <<snap, findings, torn, newer, workspace, comment>>

OldFindings(p) ==
  /\ Reuses(p, findings # NoFindings)
  /\ InPhase(p, "workspace", "report")
  /\ mine' = [mine EXCEPT ![p].findings = findings]
  /\ UNCHANGED artifacts

\* json.loads raises on what a torn file holds.
BadFindings(p) == /\ Reuses(p, torn)
                  /\ InPhase(p, "workspace", "release")
                  /\ UNCHANGED <<artifacts, mine>>

\* There is a findings.json.
FindingsFile == torn \/ findings # NoFindings

\* Faulty: a workspace that exists is taken as it is.
FetchedOnce == IF workspace = 0 THEN head ELSE workspace

\* The head is fetched and checked out again in each review.
Fetched == head

\* Phase 3.
SetupWorkspace(p) ==
  /\ ~Reuses(p, FindingsFile)
  /\ InPhase(p, "workspace", "verify")
  /\ workspace' = Fetched
  /\ UNCHANGED <<snap, claims, findings, torn, newer, comment, mine>>

\* Phase 4: the agents (module Verify) have read whatever is checked out, and
\* write_text opens findings.json, which empties it.
RunVerify(p) ==
  /\ InPhase(p, "verify", "save")
  /\ mine' = [mine EXCEPT ![p].findings =
                [snap |-> mine[p].snap, claims |-> mine[p].claims, code |-> workspace]]
  /\ findings' = NoFindings /\ torn' = TRUE
  /\ newer' = FALSE
  /\ UNCHANGED <<snap, claims, workspace, comment>>

\* The text is written to the file that was opened.  It may have been removed since;
\* and if reviews overlap, it may be somebody else's by now, or be written by both.
Save(p) ==
  /\ InPhase(p, "save", "report")
  /\ \/ /\ torn \/ (overlapped /\ FindingsFile)
        /\ findings' = mine[p].findings /\ torn' = FALSE /\ newer' = FALSE
     \/ /\ overlapped /\ FindingsFile
        /\ findings' = NoFindings /\ torn' = TRUE /\ newer' = FALSE
     \/ /\ overlapped \/ ~torn
        /\ UNCHANGED <<findings, torn, newer>>
  /\ UNCHANGED <<snap, claims, workspace, comment, mine>>

\* Phase 5: the gate and the report, for which snapshot.json and claims.json are read
\* again.
Report(p) == /\ InPhase(p, "report", "post")
             /\ mine' = [mine EXCEPT ![p].snap = snap, ![p].claims = claims]
             /\ UNCHANGED artifacts

\* The comment on the pull request is created or replaced.
Post(p) ==
  /\ InPhase(p, "post", "release")
  /\ comment' = [snap |-> mine[p].snap, claims |-> mine[p].claims,
                 findings |-> mine[p].findings, forced |-> force[p]]
  /\ UNCHANGED <<snap, claims, findings, torn, newer, workspace, mine>>

\* --no-post, --dry-run.
NoPost(p) == InPhase(p, "post", "release") /\ UNCHANGED <<artifacts, mine>>

\* A phase raises: report.md says FAILED, main returns 1.  What it was writing stays as
\* it is.
Fail(p) == /\ pc[p] \in Reviewing \ {"release"}
           /\ Goto(p, "release")
           /\ UNCHANGED <<world, lock, artifacts, force, mine, poll, overlapped>>

\* No finally clause runs.
Kill(p) == /\ pc[p] # "idle"
           /\ lock' = IF lock.by = p THEN [lock EXCEPT !.by = Dead] ELSE lock
           /\ End(p)
           /\ UNCHANGED <<world, artifacts, poll, overlapped>>

-----------------------------------------------------------------------------
(* The poller: run_pass over this pull request. *)

PollGoto(from, to) == poll = from /\ poll' = to

\* Faulty: the times of the files are not looked at.
DoneForHead == snap = head /\ FindingsFile

\* decide_pr says SKIP.  What is in findings.json is not looked at.
Done == snap = head /\ FindingsFile /\ ~newer

Plan == /\ ~Done
        /\ PollGoto("idle", IF snap = 0 THEN "new" ELSE "rerun")
        /\ UNCHANGED <<world, lock, artifacts, pc, force, mine, overlapped>>

\* While a review is running, the pull request is left for the next pass.
CheckLock == /\ poll \in {"new", "rerun"}
             /\ poll' = IF Alive THEN "idle" ELSE IF poll = "rerun" THEN "clean" ELSE "queued"
             /\ UNCHANGED <<world, lock, artifacts, pc, force, mine, overlapped>>

\* _clean_rerun_session.  The lock is not held.
CleanSession == /\ PollGoto("clean", "queued")
                /\ findings' = NoFindings /\ torn' = FALSE
                /\ UNCHANGED <<world, lock, snap, claims, newer, workspace, comment>>
                /\ UNCHANGED <<pc, force, mine, overlapped>>

\* Reviews of other pull requests may have come first.
Dispatch == PollGoto("queued", "waiting") /\ Launch(Child, TRUE)

SpawnFails == /\ PollGoto("queued", "idle")
              /\ UNCHANGED <<world, lock, artifacts, pc, force, mine, overlapped>>

\* run_review returns the exit code, or stops the process tree after its timeout.
Collect == /\ PollGoto("waiting", "idle")
           /\ pc[Child] = "idle"
           /\ UNCHANGED <<world, lock, artifacts, pc, force, mine, overlapped>>

-----------------------------------------------------------------------------

Acquire(p) == Take(p) \/ Judge(p) \/ Unlink(p) \/ Retake(p) \/ Fill(p)

Phases(p) == \/ Snapshot(p) \/ Claims(p) \/ OldFindings(p) \/ BadFindings(p)
             \/ SetupWorkspace(p) \/ RunVerify(p) \/ Save(p) \/ Report(p) \/ Post(p) \/ NoPost(p) \/ Release(p)

Poll == Plan \/ CheckLock \/ CleanSession \/ Dispatch \/ Collect

\* What nobody in the system does by itself.
Fault == \/ Push \/ SpawnFails
         \/ \E p \in Manual : ByHand(p)
         \/ \E p \in Proc : Fail(p) \/ Kill(p)

Next == Fault \/ Poll \/ \E p \in Proc : Acquire(p) \/ Phases(p)

Spec == Init /\ [][Next]_vars

\* Processes run, and the phases return: agents and requests have timeouts.  The
\* daemon polls for ever.
Fairness == /\ WF_vars(Poll)
            /\ \A p \in Proc : WF_vars(Acquire(p) \/ Phases(p))

FairSpec == Spec /\ Fairness

-----------------------------------------------------------------------------
(* Properties. *)

\* A crash never wedges the pull request: a lock that stands is held by a process on
\* its way to release it, or is dead and may be taken away.
NoLockLeaks == lock # Gone => \/ lock.by = Dead
                              \/ pc[lock.by] \in Reviewing \cup {"fill"}

\* autoreview.py calls a pull request done by its head and two modification times:
\* then the findings are about that head, whatever reviews have failed or were killed
\* half-way, as long as the lock has kept reviews apart.  Dying between the opening and
\* the filling of findings.json is the exception: the file looks newer than the
\* snapshot, and is no review.
DoneMeansReviewed == Done /\ ~overlapped => torn \/ findings.snap = snap

\* A forced review that was posted for a head nobody has pushed over is about the code
\* of this head: the snapshot comes from GitHub, the code from git, at different times.
CodeOfTheHead ==
  comment.forced /\ ~overlapped /\ comment.snap \notin replaced =>
    comment.findings.code = comment.snap

\* What a forced review posts is about one head throughout: the snapshot and the claims
\* shown are those of the findings, while the lock keeps reviews apart.
CommentCoheres ==
  comment.forced /\ ~overlapped =>
    /\ comment.claims = comment.snap
    /\ comment.findings.snap = comment.snap /\ comment.findings.claims = comment.snap

\* "review not complete -> run again" (autoreview.py): once pushes, failures and
\* reviews by hand stop, the poller gets the standing head reviewed, and rests, unless
\* a review has left a torn findings.json.
HeadReviewed ==
  <>[][~Fault]_vars => <>[](overlapped \/ torn \/ (Done /\ findings.snap = head))

\* "manual CLI reviews, web-triggered reviews, and the poller mutually exclude each
\* other on the same PR" (run.py).
ReviewsExclude == \A p, q \in Proc : Inside(p) /\ Inside(q) => p = q
=============================================================================
