-------------------------- MODULE LocalReviewProofs --------------------------
(* Theorems about LocalReview for any number of reviews and commits. *)
EXTENDS LocalReview, TLAPS

\* The phases that have a snapshot, claims, findings.
HasSnapshot == {"claims", "workspace", "verify", "save", "report", "post"}
HasClaims == {"workspace", "verify", "save", "report", "post"}
HasFindings == {"save", "report", "post"}

\* A head the pull request has, or has had.
Known(h) == h = head \/ h \in replaced

\* Code read after the snapshot was taken is its code, unless its head was pushed over.
Kept(f) == f.code = f.snap \/ f.snap \in replaced

\* What a review has in memory: never absent once its phase is over, and no snapshot
\* is of a head yet to come.
Loaded ==
  /\ snap # 0 => Known(snap)
  /\ \A p \in Proc :
       /\ pc[p] \in HasSnapshot => snap # 0 /\ mine[p].snap # 0 /\ Known(mine[p].snap)
       /\ pc[p] \in HasClaims => claims # 0 /\ mine[p].claims # 0
       /\ pc[p] = "verify" =>
            workspace # 0 /\ (workspace = mine[p].snap \/ mine[p].snap \in replaced)
       /\ pc[p] \in HasFindings => mine[p].findings \in Findings /\ Kept(mine[p].findings)

CodeKept == Kept(findings) /\ Kept(comment.findings)

\* While the lock has kept reviews apart, there is one review inside at most, and the
\* files are the ones it has loaded.
Apart ==
  ~overlapped =>
    /\ ReviewsExclude
    /\ findings # NoFindings /\ ~newer => findings.snap = snap
    /\ \A p \in Proc :
         /\ pc[p] \in HasSnapshot => mine[p].snap = snap
         /\ force[p] /\ pc[p] \in HasClaims => mine[p].claims = snap /\ claims = snap
         /\ pc[p] = "save" => mine[p].findings.snap = snap
         /\ force[p] /\ pc[p] \in HasFindings =>
              mine[p].findings.snap = snap /\ mine[p].findings.claims = snap

ReviewInv == TypeOK /\ NoLockLeaks /\ Loaded /\ CodeKept /\ Apart /\ CommentCoheres

-----------------------------------------------------------------------------
(* Types. *)

Stage == Acquiring \cup Reviewing \cup {"idle"}

\* What a review has in memory.
Memory == [snap : 0..MaxHead, claims : 0..MaxHead, findings : Findings \cup {NoFindings}]

\* Moving one process.
LEMMA GotoType == ASSUME TypeOK, NEW p \in Proc, NEW ph \in Stage, Goto(p, ph)
                  PROVE  /\ pc' \in [Proc -> Stage]
                         /\ pc'[p] = ph
                         /\ \A q \in Proc \ {p} : pc'[q] = pc[q]
  BY DEF TypeOK, Goto, Stage

\* A process that ends leaves the others as they are.
LEMMA EndType == ASSUME TypeOK, NEW p \in Proc, End(p)
                 PROVE  /\ pc' \in [Proc -> Stage]
                        /\ force' \in [Proc -> BOOLEAN]
                        /\ mine' \in [Proc -> Memory]
                        /\ pc'[p] = "idle"
                        /\ \A q \in Proc \ {p} : /\ pc'[q] = pc[q]
                                                 /\ force'[q] = force[q]
                                                 /\ mine'[q] = mine[q]
<1>1. Nothing \in Memory
  BY HeadAssumption DEF Nothing, Memory
<1>2. QED
  BY <1>1, GotoType DEF TypeOK, End, Stage, Memory

\* A lock names a process or a dead one.
LEMMA LockType == ASSUME NEW p \in Proc \cup {Dead}, NEW b \in BOOLEAN
                  PROVE  /\ [by |-> p, filled |-> b] \in [by : Proc \cup {Dead}, filled : BOOLEAN]
                         /\ [by |-> p, filled |-> b] # Gone
  BY NameAssumption DEF Gone, Proc

\* A typed memory after one of its parts has changed.
LEMMA MemoryType == ASSUME TypeOK, NEW p \in Proc
                    PROVE  /\ \A h \in 0..MaxHead :
                                /\ [mine EXCEPT ![p].snap = h] \in [Proc -> Memory]
                                /\ [mine EXCEPT ![p].claims = h] \in [Proc -> Memory]
                                /\ \A c \in 0..MaxHead :
                                     [mine EXCEPT ![p].snap = h, ![p].claims = c]
                                       \in [Proc -> Memory]
                           /\ \A f \in Findings \cup {NoFindings} :
                                [mine EXCEPT ![p].findings = f] \in [Proc -> Memory]
  BY DEF TypeOK, Memory

\* The types hold at the start.
LEMMA TypeInit == ASSUME Init PROVE TypeOK
<1>1. Nothing \in Memory /\ 1 \in Head /\ 0 \in 0..MaxHead
  BY HeadAssumption DEF Nothing, Memory, Head
<1>2. mine \in [Proc -> Memory]
  BY <1>1 DEF Init
<1>3. {snap, claims, workspace} \subseteq 0..MaxHead
  BY <1>1 DEF Init
<1>4. QED
  BY <1>1, <1>2, <1>3 DEF Init, TypeOK, Memory, Polling

\* Taking the lock and giving it back keep the types.
LEMMA LockTypes == ASSUME TypeOK, NEW p \in Proc,
                          Acquire(p) \/ Release(p) \/ Kill(p)
                   PROVE  TypeOK'
<1>1. /\ UNCHANGED <<world, artifacts, poll>>
      /\ overlapped' \in BOOLEAN
  BY DEF Acquire, Take, Judge, Unlink, Retake, Fill, Release, Kill, TypeOK
<1>2. \/ UNCHANGED <<force, mine>> /\ \E ph \in Stage : Goto(p, ph)
      \/ End(p)
  BY DEF Acquire, Take, Create, Judge, Unlink, Retake, Fill, Release, Kill,
         Stage, Acquiring, Reviewing
<1>3. pc' \in [Proc -> Stage] /\ force' \in [Proc -> BOOLEAN] /\ mine' \in [Proc -> Memory]
  BY <1>2, GotoType, EndType DEF TypeOK, Memory
<1>4. lock' \in [by : Proc \cup {Dead}, filled : BOOLEAN] \cup {Gone}
  <2>1. CASE lock' \in {lock, Gone}
    BY <2>1 DEF TypeOK
  <2>2. CASE lock' = [by |-> p, filled |-> FALSE]
    BY <2>2, LockType
  <2>3. CASE lock.by = p /\ lock' \in {[lock EXCEPT !.filled = TRUE], [lock EXCEPT !.by = Dead]}
    <3>1. lock \in [by : Proc \cup {Dead}, filled : BOOLEAN]
      BY <2>3, NameAssumption DEF TypeOK, Gone, Proc
    <3>2. QED
      BY <2>3, <3>1
  <2>4. QED
    BY <2>1, <2>2, <2>3
    DEF Acquire, Take, Create, Judge, Unlink, Retake, Fill, Release, Kill
<1>5. QED
  BY <1>1, <1>3, <1>4 DEF TypeOK, world, artifacts, Stage, Memory

\* The phases keep the types.
LEMMA PhaseTypes == ASSUME TypeOK, Loaded, NEW p \in Proc, Phases(p) \/ Fail(p)
                    PROVE  TypeOK'
<1> USE DEF Head
<1>1. CASE Release(p)
  BY <1>1, LockTypes
<1>2. CASE Fail(p)
  BY <1>2, GotoType DEF Fail, TypeOK, world, artifacts, Stage, Reviewing
<1>3. ASSUME ~Release(p), ~Fail(p)
      PROVE  /\ UNCHANGED <<world, lock, force, poll, overlapped>>
             /\ pc' \in [Proc -> Stage]
  <2>1. \E from, to \in Reviewing : InPhase(p, from, to)
    BY <1>3 DEF Phases, Snapshot, Claims, OldFindings, BadFindings, SetupWorkspace,
                RunVerify, Save, Report, Post, NoPost, Reviewing
  <2>2. QED
    BY <2>1, GotoType DEF InPhase, Stage
<1>4. CASE Snapshot(p)
  <2>1. snap' \in 0..MaxHead /\ newer' \in BOOLEAN
    <3>1. {snap, head} \subseteq 0..MaxHead /\ newer \in BOOLEAN
      BY HeadAssumption DEF TypeOK
    <3>2. (snap' = snap /\ newer' = newer) \/ (snap' = head /\ newer' = TRUE)
      BY <1>4 DEF Snapshot
    <3>3. QED
      BY <3>1, <3>2
  <2>2. mine' \in [Proc -> Memory]
    BY <1>4, <2>1, MemoryType DEF Snapshot
  <2>3. UNCHANGED <<world, lock, force, poll, overlapped>> /\ pc' \in [Proc -> Stage]
    BY <1>4, GotoType DEF Snapshot, InPhase, Stage, Reviewing
  <2>4. QED
    BY <1>4, <2>1, <2>2, <2>3 DEF Snapshot, TypeOK, world, Stage, Memory
<1>5. CASE Claims(p)
  <2>1. claims' \in 0..MaxHead
    BY <1>5 DEF Claims, TypeOK
  <2>2. mine' \in [Proc -> Memory]
    BY <1>5, <2>1, MemoryType DEF Claims
  <2>3. UNCHANGED <<world, lock, force, poll, overlapped>> /\ pc' \in [Proc -> Stage]
    BY <1>5, GotoType DEF Claims, InPhase, Stage, Reviewing
  <2>4. QED
    BY <1>5, <2>1, <2>2, <2>3 DEF Claims, TypeOK, world, Stage, Memory
<1>6. CASE OldFindings(p)
  <2>1. mine' \in [Proc -> Memory]
    BY <1>6, MemoryType, HeadAssumption DEF OldFindings, TypeOK
  <2>2. UNCHANGED <<world, lock, force, poll, overlapped>> /\ pc' \in [Proc -> Stage]
    BY <1>6, GotoType DEF OldFindings, InPhase, Stage, Reviewing
  <2>3. QED
    BY <1>6, <2>1, <2>2 DEF OldFindings, TypeOK, world, artifacts, Stage, Memory
<1>7. CASE SetupWorkspace(p)
  <2>1. UNCHANGED <<world, lock, force, poll, overlapped>> /\ pc' \in [Proc -> Stage]
    BY <1>7, GotoType DEF SetupWorkspace, InPhase, Stage, Reviewing
  <2>2. QED
    BY <1>7, <2>1 DEF SetupWorkspace, Fetched, TypeOK, world, Stage
<1>8. CASE RunVerify(p)
  <2>1. [snap |-> mine[p].snap, claims |-> mine[p].claims, code |-> workspace] \in Findings
    BY <1>8, HeadAssumption
    DEF RunVerify, InPhase, TypeOK, Loaded, HasSnapshot, HasClaims, Findings
  <2>2. mine' \in [Proc -> Memory]
    BY <1>8, <2>1, MemoryType, HeadAssumption DEF RunVerify
  <2>3. UNCHANGED <<world, lock, force, poll, overlapped>> /\ pc' \in [Proc -> Stage]
    BY <1>8, GotoType DEF RunVerify, InPhase, Stage, Reviewing
  <2>4. QED
    BY <1>8, <2>2, <2>3 DEF RunVerify, TypeOK, world, Stage, Memory
<1>9. CASE Save(p)
  <2>1. mine[p].findings \in Findings
    BY <1>9 DEF Save, InPhase, Loaded, HasFindings
  <2>2. findings' \in Findings \cup {NoFindings} /\ {torn', newer'} \subseteq BOOLEAN
    BY <1>9, <2>1 DEF Save, TypeOK
  <2>3. UNCHANGED <<world, lock, force, poll, overlapped>> /\ pc' \in [Proc -> Stage]
    BY <1>9, GotoType DEF Save, InPhase, Stage, Reviewing
  <2>4. QED
    BY <1>9, <2>2, <2>3 DEF Save, TypeOK, world, Stage, Memory
<1>10. CASE BadFindings(p)
  BY <1>10, GotoType DEF BadFindings, InPhase, TypeOK, world, artifacts, Stage, Reviewing
<1>11. CASE Report(p)
  <2>1. mine' \in [Proc -> Memory]
    BY <1>11, MemoryType DEF Report, TypeOK
  <2>2. UNCHANGED <<world, lock, force, poll, overlapped>> /\ pc' \in [Proc -> Stage]
    BY <1>11, GotoType DEF Report, InPhase, Stage, Reviewing
  <2>3. QED
    BY <1>11, <2>1, <2>2 DEF Report, TypeOK, world, artifacts, Stage, Memory
<1>12. CASE Post(p)
  <2>1. comment' \in [snap : Head, claims : Head, findings : Findings, forced : BOOLEAN]
    BY <1>12 DEF Post, InPhase, TypeOK, Loaded, HasSnapshot, HasClaims, HasFindings
  <2>2. UNCHANGED <<world, lock, force, poll, overlapped>> /\ pc' \in [Proc -> Stage]
    BY <1>12, GotoType DEF Post, InPhase, Stage, Reviewing
  <2>3. QED
    BY <1>12, <2>1, <2>2 DEF Post, TypeOK, world, Stage
<1>13. CASE NoPost(p)
  BY <1>13, GotoType DEF NoPost, InPhase, TypeOK, world, artifacts, Stage, Reviewing
<1>14. QED
  BY <1>1, <1>2, <1>4, <1>5, <1>6, <1>7, <1>8, <1>9, <1>10, <1>11, <1>12, <1>13 DEF Phases

\* Pushes, launches and the poller keep the types.
LEMMA OtherTypes == ASSUME TypeOK,
                           \/ Push \/ SpawnFails \/ Poll
                           \/ \E p \in Manual : ByHand(p)
                    PROVE  TypeOK'
<1>1. CASE Push
  BY <1>1 DEF Push, TypeOK, artifacts
<1>2. ASSUME NEW p \in Proc, NEW f \in BOOLEAN, Launch(p, f), poll' \in Polling
      PROVE  TypeOK'
  BY <1>2, GotoType DEF Launch, TypeOK, world, artifacts, Stage, Acquiring
<1>3. CASE \E p \in Manual : ByHand(p)
  BY <1>2, <1>3 DEF ByHand, Proc, TypeOK
<1>4. CASE Dispatch
  BY <1>2, <1>4 DEF Dispatch, PollGoto, Proc, Polling
<1>5. CASE SpawnFails \/ Plan \/ CheckLock \/ Collect
  <2>1. poll' \in Polling
    BY <1>5 DEF SpawnFails, Plan, CheckLock, Collect, PollGoto, Polling
  <2>2. QED
    BY <1>5, <2>1 DEF SpawnFails, Plan, CheckLock, Collect, TypeOK, world, artifacts
<1>6. CASE CleanSession
  BY <1>6 DEF CleanSession, PollGoto, Polling, TypeOK, world
<1>7. QED
  BY <1>1, <1>3, <1>4, <1>5, <1>6 DEF Poll

\* Every step keeps the types.
LEMMA TypeStep == ASSUME TypeOK, Loaded, [Next]_vars PROVE TypeOK'
<1>1. CASE UNCHANGED vars
  BY <1>1 DEF vars, world, artifacts, TypeOK
<1>2. QED
  BY <1>1, LockTypes, PhaseTypes, OtherTypes DEF Next, Fault, Phases

-----------------------------------------------------------------------------
(* The lock. *)

\* No step leaves a lock behind with a live process that will not release it.
LEMMA LockStep == ASSUME TypeOK, NoLockLeaks, [Next]_vars PROVE NoLockLeaks'
<1> DEFINE Holds(q) == pc[q] \in Reviewing \cup {"fill"}
<1>1. ASSUME UNCHANGED lock, \A q \in Proc : Holds(q) => Holds(q)' PROVE NoLockLeaks'
  BY <1>1, NameAssumption DEF NoLockLeaks, TypeOK, Gone
<1>2. ASSUME lock' = Gone PROVE NoLockLeaks'
  BY <1>2 DEF NoLockLeaks
<1>3. ASSUME NEW p \in Proc, Create(p) PROVE NoLockLeaks'
  BY <1>3 DEF Create, Goto, NoLockLeaks, TypeOK
<1>4. ASSUME NEW p \in Proc, Take(p) \/ Judge(p) \/ Unlink(p) \/ Retake(p) PROVE NoLockLeaks'
  <2>1. CASE UNCHANGED lock
    <3>1. ~Holds(p) /\ \A q \in Proc \ {p} : pc'[q] = pc[q]
      BY <1>4 DEF Take, Create, Judge, Unlink, Retake, End, Goto, TypeOK, Reviewing
    <3>2. QED
      BY <1>1, <2>1, <3>1
  <2>2. QED
    BY <1>2, <1>3, <1>4, <2>1 DEF Take, Judge, Unlink, Retake
<1>5. ASSUME NEW p \in Proc, Fill(p) PROVE NoLockLeaks'
  <2>1. pc'[p] = "snapshot" /\ \A q \in Proc \ {p} : pc'[q] = pc[q]
    BY <1>5 DEF Fill, Goto, TypeOK
  <2>2. lock' # Gone => lock # Gone /\ lock'.by = lock.by
    <3>1. CASE lock.by = p
      <4>1. lock # Gone /\ lock \in [by : Proc \cup {Dead}, filled : BOOLEAN]
        BY <3>1, NameAssumption DEF Gone, TypeOK, Proc
      <4>2. QED
        BY <1>5, <3>1, <4>1 DEF Fill
    <3>2. CASE lock.by # p
      BY <1>5, <3>2 DEF Fill
    <3>3. QED
      BY <3>1, <3>2
  <2>3. QED
    BY <2>1, <2>2, NameAssumption DEF NoLockLeaks, TypeOK, Gone, Proc, Reviewing
<1>6. ASSUME NEW p \in Proc, Kill(p) PROVE NoLockLeaks'
  <2>1. \A q \in Proc \ {p} : pc'[q] = pc[q]
    BY <1>6 DEF Kill, End, Goto, TypeOK
  <2>2. CASE lock.by = p
    <3>1. lock \in [by : Proc \cup {Dead}, filled : BOOLEAN]
      BY <2>2, NameAssumption DEF Gone, TypeOK, Proc
    <3>2. lock'.by = Dead
      BY <1>6, <2>2, <3>1 DEF Kill
    <3>3. QED
      BY <3>2 DEF NoLockLeaks
  <2>3. CASE lock.by # p
    BY <1>6, <2>1, <2>3, NameAssumption DEF Kill, NoLockLeaks, TypeOK, Gone, Proc
  <2>4. QED
    BY <2>2, <2>3
<1>7. ASSUME NEW p \in Proc, Phases(p) \/ Fail(p), ~Release(p) PROVE NoLockLeaks'
  <2>1. /\ UNCHANGED lock
        /\ \E to \in Reviewing : pc' = [pc EXCEPT ![p] = to]
    BY <1>7
    DEF Phases, Fail, Snapshot, Claims, OldFindings, BadFindings, SetupWorkspace, RunVerify,
        Save, Report, Post, NoPost, InPhase, Goto, Reviewing
  <2>2. QED
    BY <1>1, <2>1 DEF TypeOK
<1>8. ASSUME NEW p \in Proc, NEW f \in BOOLEAN, Launch(p, f) PROVE NoLockLeaks'
  <2>1. UNCHANGED lock /\ ~Holds(p) /\ \A q \in Proc \ {p} : pc'[q] = pc[q]
    BY <1>8 DEF Launch, Goto, TypeOK, Reviewing
  <2>2. QED
    BY <1>1, <2>1
<1>9. CASE UNCHANGED <<lock, pc>>
  BY <1>1, <1>9
<1>10. CASE Push \/ SpawnFails \/ Plan \/ CheckLock \/ CleanSession \/ Collect
  BY <1>9, <1>10 DEF Push, SpawnFails, Plan, CheckLock, CleanSession, Collect
<1>11. QED
  BY <1>2, <1>4, <1>5, <1>6, <1>7, <1>8, <1>9, <1>10
  DEF Next, Fault, Poll, Acquire, Phases, Release, ByHand, Dispatch, Proc, vars

-----------------------------------------------------------------------------
(* What reviews have in memory. *)

\* Nothing is loaded at the start.
LEMMA LoadedInit == ASSUME Init PROVE NoLockLeaks /\ Loaded /\ CodeKept
  BY DEF Init, NoLockLeaks, Loaded, HasSnapshot, HasClaims, HasFindings, CodeKept, Kept,
         NoComment, NoFindings

\* What was known stays known.
LEMMA KnownStays == ASSUME UNCHANGED world \/ Push
                    PROVE  /\ \A h : Known(h) => Known(h)'
                           /\ replaced \subseteq replaced'
  BY DEF world, Push, Known

\* Memory and files stay what they are while a process is outside its phases.
LEMMA LoadedFrame ==
  ASSUME TypeOK, Loaded, CodeKept,
         UNCHANGED <<snap, claims, workspace, comment>>,
         findings' \in {findings, NoFindings},
         UNCHANGED world \/ Push,
         \A q \in Proc : \/ pc'[q] \notin HasSnapshot
                         \/ pc'[q] = pc[q] /\ mine'[q] = mine[q]
  PROVE  Loaded' /\ CodeKept'
<1>1. (\A h : Known(h) => Known(h)') /\ replaced \subseteq replaced'
  BY KnownStays
<1>2. ASSUME NEW q \in Proc, pc'[q] \in HasSnapshot
      PROVE  /\ snap' # 0 /\ mine'[q].snap # 0 /\ Known(mine[q].snap)' /\ mine'[q] = mine[q]
             /\ pc'[q] \in HasClaims => claims' # 0 /\ mine'[q].claims # 0
             /\ pc'[q] = "verify" =>
                  workspace' # 0 /\ (workspace' = mine'[q].snap \/ mine'[q].snap \in replaced')
             /\ pc'[q] \in HasFindings =>
                  mine'[q].findings \in Findings /\ Kept(mine[q].findings)'
  <2>1. pc'[q] = pc[q] /\ mine'[q] = mine[q]
    BY <1>2
  <2>2. snap # 0 /\ mine[q].snap # 0 /\ Known(mine[q].snap)
    BY <1>2, <2>1 DEF Loaded
  <2>3. Known(mine[q].snap)'
    BY <1>1, <2>1, <2>2 DEF Known
  <2>4. pc'[q] \in HasClaims => claims' # 0 /\ mine'[q].claims # 0
    BY <2>1 DEF Loaded
  <2>5. pc'[q] = "verify" =>
          workspace' # 0 /\ (workspace' = mine'[q].snap \/ mine'[q].snap \in replaced')
    BY <1>1, <2>1 DEF Loaded
  <2>6. ASSUME pc'[q] \in HasFindings
        PROVE  mine'[q].findings \in Findings /\ Kept(mine[q].findings)'
    BY <1>1, <2>1, <2>6 DEF Loaded, Kept
  <2>7. QED
    BY <2>1, <2>2, <2>3, <2>4, <2>5, <2>6
<1>3. CodeKept'
  BY <1>1 DEF CodeKept, Kept, NoFindings
<1>4. HasClaims \subseteq HasSnapshot /\ HasFindings \subseteq HasSnapshot
      /\ "verify" \in HasSnapshot
  BY DEF HasClaims, HasFindings, HasSnapshot
<1>5. snap' # 0 => Known(snap)'
  BY <1>1 DEF Loaded, Known
<1>6. QED
  BY <1>2, <1>3, <1>4, <1>5 DEF Loaded

\* What a phase leaves to the others.
LEMMA PhaseFrame ==
  ASSUME TypeOK, NEW p \in Proc, NEW from, NEW to, InPhase(p, from, to)
  PROVE  /\ pc[p] = from /\ pc'[p] = to
         /\ \A q \in Proc \ {p} : pc'[q] = pc[q]
         /\ UNCHANGED <<world, lock, force, poll, overlapped>>
  BY DEF InPhase, Goto, TypeOK

\* Every step keeps memory and files in order.
LEMMA LoadedStep == ASSUME TypeOK, Loaded, CodeKept, [Next]_vars
                    PROVE  Loaded' /\ CodeKept'
<1> USE DEF HasSnapshot, HasClaims, HasFindings
<1>1. head \in Head /\ head # 0
  BY HeadAssumption DEF TypeOK, Head
<1>2. CASE UNCHANGED vars
  BY <1>2, LoadedFrame DEF vars, artifacts
<1>3. CASE Push
  BY <1>3, LoadedFrame DEF Push, artifacts
<1>4. ASSUME NEW p \in Proc,
             \/ Acquire(p) \/ Release(p) \/ Fail(p) \/ Kill(p) \/ NoPost(p) \/ BadFindings(p)
             \/ \E f \in BOOLEAN : Launch(p, f)
      PROVE  Loaded' /\ CodeKept'
  <2>1. UNCHANGED <<world, artifacts>>
    BY <1>4 DEF Acquire, Take, Judge, Unlink, Retake, Fill, Release, Fail, Kill, NoPost,
                BadFindings, InPhase, Launch
  <2>2. pc'[p] \notin HasSnapshot
        /\ \A q \in Proc \ {p} : pc'[q] = pc[q] /\ mine'[q] = mine[q]
    BY <1>4 DEF Acquire, Take, Create, Judge, Unlink, Retake, Fill, Release, Fail, Kill, NoPost,
                BadFindings, InPhase, Launch, End, Goto, TypeOK
  <2>3. QED
    BY <2>1, <2>2, LoadedFrame DEF artifacts
<1>5. CASE SpawnFails \/ Plan \/ CheckLock \/ Collect \/ CleanSession
  BY <1>5, LoadedFrame
  DEF SpawnFails, Plan, CheckLock, Collect, CleanSession, artifacts
<1>6. ASSUME NEW p \in Proc, Snapshot(p) PROVE Loaded' /\ CodeKept'
  <2>1. /\ pc[p] = "snapshot" /\ pc'[p] = "claims"
        /\ \A q \in Proc \ {p} : pc'[q] = pc[q] /\ mine'[q] = mine[q]
        /\ UNCHANGED <<world, claims, findings, workspace, comment>>
    BY <1>6, PhaseFrame DEF Snapshot, TypeOK
  <2>2. snap' # 0 /\ Known(snap)' /\ mine'[p].snap = snap'
    BY <1>1, <1>6, <2>1 DEF Snapshot, Reuses, Loaded, TypeOK, Known, world
  <2>3. CodeKept'
    BY <2>1 DEF CodeKept, Kept, world
  <2>4. QED
    BY <2>1, <2>2, <2>3 DEF Loaded, Known, Kept, world
<1>7. ASSUME NEW p \in Proc, Claims(p) PROVE Loaded' /\ CodeKept'
  <2>1. /\ pc[p] = "claims" /\ pc'[p] = "workspace"
        /\ \A q \in Proc \ {p} : pc'[q] = pc[q] /\ mine'[q] = mine[q]
        /\ UNCHANGED <<world, snap, findings, workspace, comment>>
    BY <1>7, PhaseFrame DEF Claims, TypeOK
  <2>2. mine'[p].snap = mine[p].snap /\ mine'[p].claims = claims' /\ claims' # 0
    BY <1>7, <2>1 DEF Claims, Reuses, Loaded, TypeOK
  <2>3. CodeKept'
    BY <2>1 DEF CodeKept, Kept, world
  <2>4. QED
    BY <2>1, <2>2, <2>3 DEF Loaded, Known, Kept, world
<1>8. ASSUME NEW p \in Proc, OldFindings(p) PROVE Loaded' /\ CodeKept'
  <2>1. /\ pc[p] = "workspace" /\ pc'[p] = "report"
        /\ \A q \in Proc \ {p} : pc'[q] = pc[q] /\ mine'[q] = mine[q]
        /\ UNCHANGED <<world, artifacts>>
    BY <1>8, PhaseFrame DEF OldFindings, TypeOK
  <2>2. /\ mine'[p].snap = mine[p].snap /\ mine'[p].claims = mine[p].claims
        /\ mine'[p].findings = findings /\ findings \in Findings
    BY <1>8 DEF OldFindings, Reuses, TypeOK
  <2>3. CodeKept'
    BY <2>1 DEF CodeKept, Kept, world, artifacts
  <2>4. QED
    BY <2>1, <2>2, <2>3 DEF Loaded, CodeKept, Known, Kept, world, artifacts
<1>9. ASSUME NEW p \in Proc, SetupWorkspace(p) PROVE Loaded' /\ CodeKept'
  <2>1. /\ pc[p] = "workspace" /\ pc'[p] = "verify"
        /\ \A q \in Proc \ {p} : pc'[q] = pc[q]
        /\ UNCHANGED <<world, snap, claims, findings, comment, mine>>
        /\ workspace' = head
    BY <1>9, PhaseFrame DEF SetupWorkspace, Fetched
  <2>2. \A q \in Proc : Known(mine[q].snap) => workspace' = mine[q].snap
                                                  \/ mine[q].snap \in replaced
    BY <2>1 DEF Known
  <2>3. CodeKept'
    BY <2>1 DEF CodeKept, Kept, world
  <2>4. QED
    BY <1>1, <2>1, <2>2, <2>3 DEF Loaded, Known, Kept, world
<1>10. ASSUME NEW p \in Proc, RunVerify(p) PROVE Loaded' /\ CodeKept'
  <2>1. /\ pc[p] = "verify" /\ pc'[p] = "save"
        /\ \A q \in Proc \ {p} : pc'[q] = pc[q] /\ mine'[q] = mine[q]
        /\ UNCHANGED <<world, snap, claims, workspace, comment>>
        /\ findings' = NoFindings
    BY <1>10, PhaseFrame DEF RunVerify, TypeOK
  <2>2. /\ mine'[p].snap = mine[p].snap /\ mine'[p].claims = mine[p].claims
        /\ mine'[p].findings =
             [snap |-> mine[p].snap, claims |-> mine[p].claims, code |-> workspace]
    BY <1>10 DEF RunVerify, TypeOK
  <2>3. /\ mine[p].snap \in Head /\ mine[p].claims \in Head /\ workspace \in Head
        /\ workspace = mine[p].snap \/ mine[p].snap \in replaced
    BY <2>1, HeadAssumption DEF TypeOK, Loaded, Head
  <2>4. mine'[p].findings \in Findings /\ Kept(mine[p].findings)'
    BY <2>1, <2>2, <2>3 DEF Findings, Kept, world
  <2>5. CodeKept'
    BY <2>1 DEF CodeKept, Kept, world, NoFindings
  <2>6. QED
    BY <2>1, <2>2, <2>4, <2>5 DEF Loaded, Known, Kept, world
<1>11. ASSUME NEW p \in Proc, Save(p) PROVE Loaded' /\ CodeKept'
  <2>1. /\ pc[p] = "save" /\ pc'[p] = "report"
        /\ \A q \in Proc \ {p} : pc'[q] = pc[q]
        /\ UNCHANGED <<world, snap, claims, workspace, comment, mine>>
        /\ findings' \in {findings, NoFindings, mine[p].findings}
    BY <1>11, PhaseFrame DEF Save
  <2>2. Kept(mine[p].findings)
    BY <2>1 DEF Loaded
  <2>3. CodeKept'
    BY <2>1, <2>2 DEF CodeKept, Kept, world, NoFindings
  <2>4. QED
    BY <2>1, <2>2, <2>3 DEF Loaded, Known, Kept, world
<1>12. ASSUME NEW p \in Proc, Report(p) PROVE Loaded' /\ CodeKept'
  <2>1. /\ pc[p] = "report" /\ pc'[p] = "post"
        /\ \A q \in Proc \ {p} : pc'[q] = pc[q] /\ mine'[q] = mine[q]
        /\ UNCHANGED <<world, artifacts>>
    BY <1>12, PhaseFrame DEF Report, TypeOK
  <2>2. /\ mine'[p].snap = snap /\ mine'[p].claims = claims
        /\ mine'[p].findings = mine[p].findings
    BY <1>12 DEF Report, TypeOK
  <2>3. CodeKept'
    BY <2>1 DEF CodeKept, Kept, world, artifacts
  <2>4. QED
    BY <2>1, <2>2, <2>3 DEF Loaded, Known, Kept, world, artifacts
<1>13. ASSUME NEW p \in Proc, Post(p) PROVE Loaded' /\ CodeKept'
  <2>1. /\ pc[p] = "post" /\ pc'[p] = "release"
        /\ \A q \in Proc \ {p} : pc'[q] = pc[q]
        /\ UNCHANGED <<world, snap, claims, findings, workspace, mine>>
    BY <1>13, PhaseFrame DEF Post
  <2>2. comment'.findings = mine[p].findings
    BY <1>13 DEF Post
  <2>3. CodeKept'
    BY <2>1, <2>2 DEF CodeKept, Kept, Loaded, world
  <2>4. QED
    BY <2>1, <2>3 DEF Loaded, Known, Kept, world
<1>14. QED
  BY <1>2, <1>3, <1>4, <1>5, <1>6, <1>7, <1>8, <1>9, <1>10, <1>12, <1>13, <1>11
  DEF Next, Fault, Poll, Phases, ByHand, Dispatch, Proc

-----------------------------------------------------------------------------
(* One review inside at a time. *)

\* What Apart says of one review.
InOrder(p) ==
  /\ pc[p] \in HasSnapshot => mine[p].snap = snap
  /\ force[p] /\ pc[p] \in HasClaims => mine[p].claims = snap /\ claims = snap
  /\ pc[p] = "save" => mine[p].findings.snap = snap
  /\ force[p] /\ pc[p] \in HasFindings =>
       mine[p].findings.snap = snap /\ mine[p].findings.claims = snap

\* No review is inside at the start.
LEMMA ApartInit == ASSUME Init PROVE Apart /\ CommentCoheres
  BY DEF Init, Apart, ReviewsExclude, Inside, Reviewing, HasSnapshot, HasClaims, HasFindings,
         CommentCoheres, NoComment

\* A step outside the phases that lets nobody in keeps the reviews apart.
LEMMA ApartFrame ==
  ASSUME TypeOK, Apart, CommentCoheres,
         UNCHANGED <<snap, claims, newer, comment, overlapped>>,
         findings' \in {findings, NoFindings},
         \A q \in Proc : /\ Inside(q)' => Inside(q)
                         /\ \/ pc'[q] \notin HasSnapshot
                            \/ pc'[q] = pc[q] /\ mine'[q] = mine[q] /\ force'[q] = force[q]
  PROVE  Apart' /\ CommentCoheres'
<1>1. CommentCoheres'
  BY DEF CommentCoheres
<1>2. ASSUME ~overlapped PROVE ReviewsExclude'
  BY <1>2 DEF Apart, ReviewsExclude
<1>3. ASSUME ~overlapped, NEW q \in Proc PROVE InOrder(q)'
  BY <1>3 DEF Apart, InOrder, HasSnapshot, HasClaims, HasFindings
<1>4. QED
  BY <1>1, <1>2, <1>3 DEF Apart, InOrder

\* The step of one review inside, where only its own memory changes.
LEMMA ApartInside ==
  ASSUME TypeOK, Apart, CommentCoheres, NEW p \in Proc,
         Inside(p), pc'[p] \in Reviewing,
         UNCHANGED <<force, overlapped>>,
         \A q \in Proc \ {p} : pc'[q] = pc[q] /\ mine'[q] = mine[q],
         ~overlapped => /\ InOrder(p)'
                        /\ findings' # NoFindings /\ ~newer' => findings'.snap = snap',
         CommentCoheres'
  PROVE  Apart' /\ CommentCoheres'
<1>1. ASSUME ~overlapped PROVE ReviewsExclude'
  BY <1>1 DEF Apart, ReviewsExclude, Inside
<1>2. ASSUME ~overlapped, NEW q \in Proc \ {p} PROVE InOrder(q)'
  <2>1. ~Inside(q)
    BY <1>2 DEF Apart, ReviewsExclude
  <2>2. pc'[q] \notin Reviewing
    BY <2>1 DEF Inside
  <2>3. QED
    BY <2>2 DEF InOrder, HasSnapshot, HasClaims, HasFindings, Reviewing
<1>3. QED
  BY <1>1, <1>2 DEF Apart, InOrder

\* Every step keeps the reviews apart, or sets "overlapped".
LEMMA ApartStep == ASSUME TypeOK, Loaded, Apart, CommentCoheres, [Next]_vars
                   PROVE  Apart' /\ CommentCoheres'
<1> DEFINE Goal == Apart' /\ CommentCoheres'
<1>1. CASE UNCHANGED vars
  BY <1>1, ApartFrame DEF vars, artifacts, Inside
<1>2. CASE Push \/ SpawnFails \/ Plan \/ CheckLock \/ Collect \/ CleanSession
  <2>1. /\ UNCHANGED <<snap, claims, newer, comment, overlapped, pc, mine, force>>
        /\ findings' \in {findings, NoFindings}
    BY <1>2 DEF Push, SpawnFails, Plan, CheckLock, Collect, CleanSession, artifacts
  <2>2. QED
    BY <2>1, ApartFrame DEF Inside
<1>3. ASSUME NEW p \in Proc,
             \/ Take(p) \/ Judge(p) \/ Unlink(p) \/ Retake(p) \/ Release(p) \/ Fail(p) \/ Kill(p)
             \/ NoPost(p) \/ BadFindings(p)
             \/ \E f \in BOOLEAN : Launch(p, f)
      PROVE  Goal
  <2>1. UNCHANGED <<artifacts, overlapped>>
    BY <1>3 DEF Take, Judge, Unlink, Retake, Release, Fail, Kill, NoPost, BadFindings, InPhase,
                Launch
  <2>2. \A q \in Proc \ {p} : pc'[q] = pc[q] /\ mine'[q] = mine[q] /\ force'[q] = force[q]
    BY <1>3 DEF Take, Create, Judge, Unlink, Retake, Release, Fail, Kill, NoPost,
                BadFindings, InPhase, Launch, End, Goto, TypeOK
  <2>3. pc'[p] \notin HasSnapshot /\ (pc'[p] \in Reviewing => pc[p] \in Reviewing)
    BY <1>3 DEF Take, Create, Judge, Unlink, Retake, Release, Fail, Kill, NoPost,
                BadFindings, InPhase, Launch, End, Goto, TypeOK, HasSnapshot, Reviewing
  <2>4. QED
    BY <2>1, <2>2, <2>3, ApartFrame DEF artifacts, Inside
<1>4. ASSUME NEW p \in Proc, Fill(p) PROVE Goal
  <2>1. /\ UNCHANGED <<artifacts, force, mine>>
        /\ pc'[p] = "snapshot"
        /\ \A q \in Proc \ {p} : pc'[q] = pc[q]
        /\ overlapped' = (overlapped \/ \E q \in Proc \ {p} : Inside(q))
    BY <1>4 DEF Fill, Goto, TypeOK
  <2>2. CommentCoheres'
    BY <2>1 DEF CommentCoheres, artifacts
  <2>3. ASSUME ~overlapped' PROVE ReviewsExclude'
    BY <2>1, <2>3 DEF ReviewsExclude, Inside
  <2>4. ASSUME ~overlapped', NEW q \in Proc PROVE InOrder(q)'
    <3>1. CASE q = p
      BY <2>1, <3>1 DEF InOrder, HasSnapshot, HasClaims, HasFindings
    <3>2. CASE q # p
      BY <2>1, <2>4, <3>2 DEF Apart, InOrder, artifacts
    <3>3. QED
      BY <3>1, <3>2
  <2>5. ASSUME ~overlapped', findings' # NoFindings, ~newer' PROVE findings'.snap = snap'
    BY <2>1, <2>5 DEF Apart, artifacts
  <2>6. QED
    BY <2>2, <2>3, <2>4, <2>5 DEF Apart, InOrder
<1> USE DEF HasSnapshot, HasClaims, HasFindings
<1>5. ASSUME NEW p \in Proc, Snapshot(p) PROVE Goal
  <2>1. /\ pc[p] = "snapshot" /\ pc'[p] = "claims"
        /\ \A q \in Proc \ {p} : pc'[q] = pc[q] /\ mine'[q] = mine[q]
        /\ mine'[p].snap = snap'
        /\ UNCHANGED <<force, overlapped, findings, comment>>
        /\ newer' \/ (snap' = snap /\ newer' = newer)
    BY <1>5, PhaseFrame DEF Snapshot, TypeOK
  <2>2. CommentCoheres' /\ InOrder(p)'
    BY <2>1 DEF CommentCoheres, InOrder
  <2>3. ~overlapped => (findings' # NoFindings /\ ~newer' => findings'.snap = snap')
    BY <2>1 DEF Apart
  <2>4. QED
    BY <2>1, <2>2, <2>3, ApartInside DEF Inside, Reviewing
<1>6. ASSUME NEW p \in Proc, Claims(p) PROVE Goal
  <2>1. /\ pc[p] = "claims" /\ pc'[p] = "workspace"
        /\ \A q \in Proc \ {p} : pc'[q] = pc[q] /\ mine'[q] = mine[q]
        /\ UNCHANGED <<force, overlapped, snap, newer, findings, comment>>
        /\ mine'[p].snap = mine[p].snap
        /\ mine'[p].claims = claims' /\ (force[p] => claims' = mine[p].snap)
    BY <1>6, PhaseFrame DEF Claims, Reuses, TypeOK
  <2>2. CommentCoheres' /\ (~overlapped => InOrder(p)')
    BY <2>1 DEF CommentCoheres, InOrder, Apart
  <2>3. QED
    BY <2>1, <2>2, ApartInside DEF Inside, Reviewing, Apart
<1>7. ASSUME NEW p \in Proc, OldFindings(p) PROVE Goal
  <2>1. /\ pc[p] = "workspace" /\ pc'[p] = "report" /\ ~force[p]
        /\ \A q \in Proc \ {p} : pc'[q] = pc[q] /\ mine'[q] = mine[q]
        /\ UNCHANGED <<force, overlapped, artifacts>>
        /\ mine'[p].snap = mine[p].snap
    BY <1>7, PhaseFrame DEF OldFindings, Reuses, TypeOK
  <2>2. CommentCoheres' /\ (~overlapped => InOrder(p)')
    BY <2>1 DEF CommentCoheres, InOrder, Apart, artifacts
  <2>3. QED
    BY <2>1, <2>2, ApartInside DEF Inside, Reviewing, Apart, artifacts
<1>8. ASSUME NEW p \in Proc, SetupWorkspace(p) PROVE Goal
  <2>1. /\ pc[p] = "workspace" /\ pc'[p] = "verify"
        /\ \A q \in Proc \ {p} : pc'[q] = pc[q]
        /\ UNCHANGED <<force, overlapped, snap, claims, newer, findings, comment, mine>>
    BY <1>8, PhaseFrame DEF SetupWorkspace
  <2>2. CommentCoheres' /\ (~overlapped => InOrder(p)')
    BY <2>1 DEF CommentCoheres, InOrder, Apart
  <2>3. QED
    BY <2>1, <2>2, ApartInside DEF Inside, Reviewing, Apart
<1>9. ASSUME NEW p \in Proc, RunVerify(p) PROVE Goal
  <2>1. /\ pc[p] = "verify" /\ pc'[p] = "save"
        /\ \A q \in Proc \ {p} : pc'[q] = pc[q] /\ mine'[q] = mine[q]
        /\ UNCHANGED <<force, overlapped, snap, claims, comment>>
        /\ mine'[p].snap = mine[p].snap /\ mine'[p].claims = mine[p].claims
        /\ mine'[p].findings.snap = mine[p].snap /\ mine'[p].findings.claims = mine[p].claims
        /\ findings' = NoFindings
    BY <1>9, PhaseFrame DEF RunVerify, TypeOK
  <2>2. CommentCoheres' /\ (~overlapped => InOrder(p)')
    BY <2>1 DEF CommentCoheres, InOrder, Apart
  <2>3. QED
    BY <2>1, <2>2, ApartInside DEF Inside, Reviewing
<1>10. ASSUME NEW p \in Proc, Save(p) PROVE Goal
  <2>1. /\ pc[p] = "save" /\ pc'[p] = "report"
        /\ \A q \in Proc \ {p} : pc'[q] = pc[q] /\ mine'[q] = mine[q]
        /\ UNCHANGED <<force, overlapped, snap, claims, comment, mine>>
        /\ \/ findings' \in {NoFindings, mine[p].findings}
           \/ UNCHANGED <<findings, newer>>
    BY <1>10, PhaseFrame DEF Save
  <2>2. CommentCoheres' /\ (~overlapped => InOrder(p)')
    BY <2>1 DEF CommentCoheres, InOrder, Apart
  <2>3. ~overlapped => (findings' # NoFindings /\ ~newer' => findings'.snap = snap')
    BY <2>1 DEF Apart
  <2>4. QED
    BY <2>1, <2>2, <2>3, ApartInside DEF Inside, Reviewing
<1>11. ASSUME NEW p \in Proc, Report(p) PROVE Goal
  <2>1. /\ pc[p] = "report" /\ pc'[p] = "post"
        /\ \A q \in Proc \ {p} : pc'[q] = pc[q] /\ mine'[q] = mine[q]
        /\ UNCHANGED <<force, overlapped, artifacts>>
        /\ mine'[p].snap = snap /\ mine'[p].claims = claims
        /\ mine'[p].findings = mine[p].findings
    BY <1>11, PhaseFrame DEF Report, TypeOK
  <2>2. CommentCoheres' /\ (~overlapped => InOrder(p)')
    BY <2>1 DEF CommentCoheres, InOrder, Apart, artifacts
  <2>3. QED
    BY <2>1, <2>2, ApartInside DEF Inside, Reviewing, Apart, artifacts
<1>12. ASSUME NEW p \in Proc, Post(p) PROVE Goal
  <2>1. /\ pc[p] = "post" /\ pc'[p] = "release"
        /\ \A q \in Proc \ {p} : pc'[q] = pc[q]
        /\ UNCHANGED <<force, overlapped, snap, claims, newer, findings, mine>>
        /\ comment' = [snap |-> mine[p].snap, claims |-> mine[p].claims,
                       findings |-> mine[p].findings, forced |-> force[p]]
    BY <1>12, PhaseFrame DEF Post
  <2>2. CommentCoheres' /\ InOrder(p)'
    BY <2>1 DEF CommentCoheres, InOrder, Apart
  <2>3. QED
    BY <2>1, <2>2, ApartInside DEF Inside, Reviewing, Apart
<1>13. QED
  BY <1>1, <1>2, <1>3, <1>4, <1>5, <1>6, <1>7, <1>8, <1>9, <1>10, <1>11, <1>12
  DEF Next, Fault, Poll, Acquire, Phases, ByHand, Dispatch, Proc

-----------------------------------------------------------------------------
(* Theorems. *)

\* The invariant of reviews around one session directory.
THEOREM ReviewInvariant == Spec => []ReviewInv
<1>1. Init => ReviewInv
  BY TypeInit, LoadedInit, ApartInit DEF ReviewInv
<1>2. ReviewInv /\ [Next]_vars => ReviewInv'
  BY TypeStep, LockStep, LoadedStep, ApartStep DEF ReviewInv
<1>3. QED
  BY <1>1, <1>2, PTL DEF Spec

\* Every variable keeps its type.
THEOREM TypeCorrect == Spec => []TypeOK
<1>1. ReviewInv => TypeOK
  BY DEF ReviewInv
<1>2. QED
  BY <1>1, ReviewInvariant, PTL

\* A review.lock that stands is dead, or belongs to a review that will release it.
THEOREM LocksNeverLeak == Spec => []NoLockLeaks
<1>1. ReviewInv => NoLockLeaks
  BY DEF ReviewInv
<1>2. QED
  BY <1>1, ReviewInvariant, PTL

\* What decide_pr takes for reviewed has findings about its head, unless two reviews
\* have been inside the lock at once, or a review has died between the opening and the
\* filling of findings.json and left it torn.
THEOREM SkippedIsReviewed == Spec => []DoneMeansReviewed
<1>1. ReviewInv => DoneMeansReviewed
  BY DEF ReviewInv, Apart, DoneMeansReviewed, Done, FindingsFile
<1>2. QED
  BY <1>1, ReviewInvariant, PTL

\* A forced review that was posted for a head nobody has pushed over, neither before
\* nor after the code was fetched, is about the code of this head, unless two reviews
\* have been inside the lock at once.
THEOREM ShownCodeIsTheHeads == Spec => []CodeOfTheHead
<1>1. ReviewInv => CodeOfTheHead
  BY DEF ReviewInv, CodeKept, Kept, CommentCoheres, CodeOfTheHead
<1>2. QED
  BY <1>1, ReviewInvariant, PTL

\* A forced review posts snapshot, claims and findings of one head, unless two reviews
\* have been inside the lock at once.
THEOREM ForcedReviewsCohere == Spec => []CommentCoheres
<1>1. ReviewInv => CommentCoheres
  BY DEF ReviewInv
<1>2. QED
  BY <1>1, ReviewInvariant, PTL

-----------------------------------------------------------------------------
(* What excludes reviews, and what does not. *)

\* No review takes away the lock of a live one: what is unlinked is a dead process's
\* lock, or is gone by itself.
Careful == \A p \in Proc : Unlink(p) => lock = Gone \/ lock.by = Dead

CarefulSpec == Init /\ [][Next /\ Careful]_vars

\* Whoever is inside, or is about to be, has the lock.
HolderHasLock == \A p \in Proc : Inside(p) \/ pc[p] = "fill" => lock.by = p

\* While no live lock is taken away, holders have their lock, so that there is one.
LEMMA HolderStep ==
  ASSUME TypeOK, HolderHasLock, ~overlapped, [Next /\ Careful]_vars
  PROVE  HolderHasLock' /\ ~overlapped'
<1> DEFINE Holds(q) == Inside(q) \/ pc[q] = "fill"
           Goal == HolderHasLock' /\ ~overlapped'
<1>1. ASSUME \A q \in Proc : Holds(q)' => Holds(q) /\ lock'.by = lock.by, UNCHANGED overlapped
      PROVE  Goal
  BY <1>1 DEF HolderHasLock
<1>2. CASE UNCHANGED vars
  BY <1>1, <1>2 DEF vars, Inside
<1>3. ASSUME NEW p \in Proc,
             Take(p) \/ Judge(p) \/ Retake(p) \/ \E f \in BOOLEAN : Launch(p, f), ~Create(p)
      PROVE  Goal
  <2>1. UNCHANGED <<lock, overlapped>> /\ ~Holds(p)'
        /\ \A q \in Proc \ {p} : pc'[q] = pc[q]
    BY <1>3 DEF Take, Judge, Retake, Launch, End, Goto, Inside, Reviewing, TypeOK
  <2>2. QED
    BY <1>1, <2>1 DEF Inside
<1>4. ASSUME NEW p \in Proc, Take(p) \/ Retake(p), Create(p) PROVE Goal
  <2>1. lock = Gone /\ lock'.by = p /\ UNCHANGED overlapped
        /\ \A q \in Proc \ {p} : pc'[q] = pc[q]
    BY <1>4 DEF Take, Retake, Create, Goto, TypeOK
  <2>2. \A q \in Proc : ~Holds(q)
    BY <2>1, NameAssumption DEF HolderHasLock, Gone, Proc
  <2>3. QED
    BY <2>1, <2>2 DEF HolderHasLock, Inside
<1>5. ASSUME NEW p \in Proc, Unlink(p), Careful PROVE Goal
  <2>1. \A q \in Proc : ~Holds(q)
    BY <1>5, NameAssumption DEF Careful, HolderHasLock, Gone, Proc
  <2>2. UNCHANGED overlapped /\ pc'[p] = "retake" /\ \A q \in Proc \ {p} : pc'[q] = pc[q]
    BY <1>5 DEF Unlink, Goto, TypeOK
  <2>3. QED
    BY <1>1, <2>1, <2>2 DEF Inside, Reviewing
<1>6. ASSUME NEW p \in Proc, Fill(p) PROVE Goal
  <2>1. lock.by = p /\ pc'[p] = "snapshot" /\ \A q \in Proc \ {p} : pc'[q] = pc[q]
    BY <1>6 DEF Fill, Goto, HolderHasLock, TypeOK
  <2>2. lock'.by = p
    <3>1. lock \in [by : Proc \cup {Dead}, filled : BOOLEAN]
      BY <2>1, NameAssumption DEF TypeOK, Gone, Proc
    <3>2. QED
      BY <1>6, <2>1, <3>1 DEF Fill
  <2>3. \A q \in Proc \ {p} : ~Holds(q)
    BY <2>1 DEF HolderHasLock
  <2>4. ~overlapped'
    BY <1>6, <2>3 DEF Fill
  <2>5. HolderHasLock'
    BY <2>1, <2>2, <2>3 DEF HolderHasLock, Inside
  <2>6. QED
    BY <2>4, <2>5
<1>7. ASSUME NEW p \in Proc, Release(p) PROVE Goal
  <2>1. \A q \in Proc \ {p} : ~Holds(q)
    BY <1>7 DEF Release, HolderHasLock, Inside, Reviewing
  <2>2. UNCHANGED overlapped /\ pc'[p] = "idle" /\ \A q \in Proc \ {p} : pc'[q] = pc[q]
    BY <1>7 DEF Release, End, Goto, TypeOK
  <2>3. QED
    BY <1>1, <2>1, <2>2 DEF Inside, Reviewing
<1>8. ASSUME NEW p \in Proc, Kill(p) PROVE Goal
  <2>1. UNCHANGED overlapped /\ pc'[p] = "idle" /\ \A q \in Proc \ {p} : pc'[q] = pc[q]
    BY <1>8 DEF Kill, End, Goto, TypeOK
  <2>2. CASE lock.by = p
    <3>1. \A q \in Proc \ {p} : ~Holds(q)
      BY <2>2 DEF HolderHasLock
    <3>2. QED
      BY <1>1, <2>1, <3>1 DEF Inside, Reviewing
  <2>3. CASE lock.by # p
    BY <1>1, <1>8, <2>1, <2>3 DEF Kill, Inside, Reviewing
  <2>4. QED
    BY <2>2, <2>3
<1>9. ASSUME NEW p \in Proc, Phases(p) \/ Fail(p), ~Release(p) PROVE Goal
  <2>1. /\ UNCHANGED <<lock, overlapped>>
        /\ Inside(p)
        /\ \A q \in Proc \ {p} : pc'[q] = pc[q]
    BY <1>9
    DEF Phases, Fail, Snapshot, Claims, OldFindings, BadFindings, SetupWorkspace, RunVerify,
        Save, Report, Post, NoPost, InPhase, Goto, Inside, Reviewing, TypeOK
  <2>2. QED
    BY <1>1, <2>1 DEF Inside
<1>10. CASE Push \/ SpawnFails \/ Plan \/ CheckLock \/ CleanSession \/ Collect
  <2>1. UNCHANGED <<lock, pc, overlapped>>
    BY <1>10 DEF Push, SpawnFails, Plan, CheckLock, CleanSession, Collect
  <2>2. QED
    BY <1>1, <2>1 DEF Inside
<1>11. ASSUME NEW p \in Proc, NEW f \in BOOLEAN, Launch(p, f) PROVE ~Create(p)
  BY <1>11 DEF Launch, Create, Goto, TypeOK
<1>12. ASSUME NEW p \in Proc, Judge(p) PROVE ~Create(p)
  BY <1>12 DEF Judge, End, Create, Goto, TypeOK
<1>13. QED
  BY <1>2, <1>3, <1>4, <1>5, <1>6, <1>7, <1>8, <1>9, <1>10, <1>11, <1>12
  DEF Next, Fault, Poll, Acquire, Phases, ByHand, Dispatch, Proc

\* run.py promises that reviews "mutually exclude each other on the same PR".  They do,
\* through failures, kills at any system call and locks left behind, as long as no
\* review takes away the lock of a live one; and then the poller skips nothing but what
\* has been reviewed or has a torn findings.json, and a forced review posts one head.
THEOREM CarefulReviewsExclude ==
  CarefulSpec => []( /\ ReviewsExclude
                     /\ Done => torn \/ findings.snap = snap
                     /\ comment.forced => /\ comment.claims = comment.snap
                                          /\ comment.findings.snap = comment.snap
                                          /\ comment.findings.claims = comment.snap )
<1> DEFINE Ind == ReviewInv /\ HolderHasLock /\ ~overlapped
           Promise == /\ ReviewsExclude
                      /\ Done => torn \/ findings.snap = snap
                      /\ comment.forced => /\ comment.claims = comment.snap
                                           /\ comment.findings.snap = comment.snap
                                           /\ comment.findings.claims = comment.snap
<1>1. Init => Ind
  <2> SUFFICES ASSUME Init PROVE Ind
    OBVIOUS
  <2>1. ReviewInv
    BY TypeInit, LoadedInit, ApartInit DEF ReviewInv
  <2>2. HolderHasLock /\ ~overlapped
    BY DEF Init, HolderHasLock, Inside, Reviewing
  <2>3. QED
    BY <2>1, <2>2
<1>2. Ind /\ [Next /\ Careful]_vars => Ind'
  <2> SUFFICES ASSUME Ind, [Next /\ Careful]_vars PROVE Ind'
    OBVIOUS
  <2>1. ReviewInv'
    <3>1. [Next]_vars
      OBVIOUS
    <3>2. QED
      BY <3>1, TypeStep, LockStep, LoadedStep, ApartStep DEF ReviewInv
  <2>2. HolderHasLock' /\ ~overlapped'
    BY HolderStep DEF ReviewInv
  <2>3. QED
    BY <2>1, <2>2
<1>3. Ind => Promise
  BY DEF ReviewInv, Apart, Done, FindingsFile, CommentCoheres
<1>4. QED
  BY <1>1, <1>2, <1>3, PTL DEF CarefulSpec
=============================================================================
