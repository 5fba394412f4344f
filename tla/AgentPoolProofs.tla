-------------------------- MODULE AgentPoolProofs --------------------------
(* Theorems about AgentPool for any number of processes, threads and slots. *)
EXTENDS MCAgentPool, FiniteSetTheorems, TLAPS

\* Every system call, death and tick keeps the types.
LEMMA TypeStep == ASSUME TypeOK, [Next]_vars PROVE TypeOK'
<1> USE DEF TypeOK
<1>1. Slot # {} /\ \A i \in Slot : (IF i < Limit THEN i + 1 ELSE 1) \in Slot
  BY LimitAssumption DEF Slot
<1>2. ASSUME NEW t \in Thread PROVE [by |-> t, filled |-> FALSE, old |-> FALSE] \in File
  BY DEF File
<1>3. ASSUME NEW t \in Thread, NextSlot(t)
      PROVE  pc' \in [Thread -> Phase] /\ slot' \in [Thread -> Slot]
  BY <1>1, <1>3 DEF NextSlot, Goto, Phase
<1>4. ASSUME NEW t \in Thread, NEW ph \in Phase, Goto(t, ph)
      PROVE  pc' \in [Thread -> Phase]
  BY <1>4 DEF Goto
<1>5. ASSUME NEW t \in Thread, Create(t)
      PROVE  /\ file' \in [Slot -> File \cup {Gone}]
             /\ pc' \in [Thread -> Phase]
             /\ slot' \in [Thread -> Slot]
  BY <1>2, <1>5 DEF Create, Goto, Phase
<1>6. ASSUME NEW t \in Thread, Ask(t) PROVE TypeOK'
  BY <1>6, LimitAssumption DEF Ask, Goto, Phase, Slot
<1>7. ASSUME NEW t \in Thread, TryTake(t) \/ Retake(t) PROVE TypeOK'
  <2>1. "stat" \in Phase /\ UNCHANGED <<alive, orphan>>
    BY <1>7 DEF Phase, TryTake, Retake
  <2>2. QED
    BY <1>3, <1>4, <1>5, <1>7, <2>1 DEF TryTake, Retake
<1>8. ASSUME NEW t \in Thread, Stat(t) \/ ReadPid(t) PROVE TypeOK'
  <2>1. {"read", "unlink"} \subseteq Phase /\ UNCHANGED <<alive, file, orphan>>
    BY <1>8 DEF Phase, Stat, ReadPid
  <2>2. QED
    BY <1>3, <1>4, <1>8, <2>1 DEF Stat, ReadPid
<1>9. ASSUME NEW t \in Thread, Reclaim(t) \/ Release(t) PROVE TypeOK'
  BY <1>9 DEF Reclaim, Release, Unlink, Goto, Phase
<1>10. ASSUME NEW t \in Thread, Fill(t) PROVE TypeOK'
  <2>1. pc' \in [Thread -> Phase] /\ UNCHANGED <<alive, slot, orphan>>
    BY <1>4, <1>10 DEF Fill, Phase
  <2>2. CASE file[slot[t]].by = t
    <3>1. file[slot[t]] \in File
      BY <2>2, ThreadAssumption DEF Gone
    <3>2. [file[slot[t]] EXCEPT !.filled = TRUE, !.old = FALSE] \in File
      BY <3>1 DEF File
    <3>3. file' \in [Slot -> File \cup {Gone}]
      BY <1>10, <2>2, <3>2 DEF Fill
    <3>4. QED
      BY <2>1, <3>3
  <2>3. CASE file[slot[t]].by # t
    BY <1>10, <2>1, <2>3 DEF Fill
  <2>4. QED
    BY <2>2, <2>3
<1>11. ASSUME NEW p \in Process, Die(p) PROVE TypeOK'
  BY <1>11 DEF Die
<1>12. ASSUME NEW i \in Slot, Age(i) PROVE TypeOK'
  <2>1. [file[i] EXCEPT !.old = TRUE] \in File
    BY <1>12 DEF Age, File
  <2>2. file' = [file EXCEPT ![i] = [file[i] EXCEPT !.old = TRUE]]
    BY <1>12 DEF Age
  <2>3. QED
    BY <1>12, <2>1, <2>2 DEF Age
<1>13. CASE UNCHANGED vars
  BY <1>13 DEF vars
<1>14. ASSUME NEW t \in Thread, OrphanEnds(t) PROVE TypeOK'
  BY <1>14 DEF OrphanEnds
<1>15. QED
  BY <1>6, <1>7, <1>8, <1>9, <1>10, <1>11, <1>12, <1>13, <1>14 DEF Next, Step

\* The slot files and the threads keep their types.
THEOREM TypeCorrect == Spec => []TypeOK
<1>1. Init => TypeOK
  BY LimitAssumption DEF Init, TypeOK, Phase, Slot
<1>2. QED
  BY <1>1, TypeStep, PTL DEF Spec

-----------------------------------------------------------------------------

\* A thread that neither holds a slot nor is about to has no file.
LEMMA NoFile ==
  ASSUME TypeOK, NoSlotLeaks, NEW t \in Thread, Live(t), pc[t] \notin {"fill", "hold"},
         NEW i \in Slot
  PROVE  file[i].by # t
  BY ThreadAssumption DEF NoSlotLeaks, TypeOK, Gone

\* The file a thread has just created is at the slot the thread is at.
LEMMA CreateKeeps ==
  ASSUME TypeOK, NoSlotLeaks, NEW t \in Thread, Live(t), pc[t] \notin {"fill", "hold"},
         Create(t), UNCHANGED alive
  PROVE  NoSlotLeaks'
<1> SUFFICES ASSUME NEW i \in Slot, file'[i] # Gone, NEW u, u = file'[i].by, Live(u)'
             PROVE  slot'[u] = i /\ pc'[u] \in {"fill", "hold"}
  BY DEF NoSlotLeaks
<1>1. CASE i = slot[t]
  BY <1>1 DEF Create, Goto, TypeOK
<1>2. CASE i # slot[t]
  <2>1. file'[i] = file[i] /\ UNCHANGED slot
    BY <1>2 DEF Create, TypeOK
  <2>2. u # t
    BY <2>1, NoFile
  <2>3. Live(u)
    BY DEF Live
  <2>4. pc'[u] = pc[u] \/ u \notin Thread
    BY <2>2 DEF Create, Goto, TypeOK
  <2>5. u \in Thread
    BY <2>1 DEF TypeOK, File
  <2>6. QED
    BY <2>1, <2>3, <2>4, <2>5 DEF NoSlotLeaks
<1>3. QED
  BY <1>1, <1>2

\* A thread without a file moves on, and at most a file disappears.
LEMMA MoveKeeps ==
  ASSUME TypeOK, NoSlotLeaks, NEW t \in Thread, UNCHANGED alive,
         \A i \in Slot : file'[i] = file[i] \/ file'[i] = Gone,
         \A u \in Thread \ {t} : pc'[u] = pc[u] /\ slot'[u] = slot[u],
         \A i \in Slot : file'[i].by # t
  PROVE  NoSlotLeaks'
<1> SUFFICES ASSUME NEW i \in Slot, file'[i] # Gone, NEW u, u = file'[i].by, Live(u)'
             PROVE  slot'[u] = i /\ pc'[u] \in {"fill", "hold"}
  BY DEF NoSlotLeaks
<1>1. file'[i] = file[i] /\ u # t /\ Live(u)
  BY DEF Live
<1>2. u \in Thread
  BY <1>1 DEF TypeOK, File
<1>3. QED
  BY <1>1, <1>2 DEF NoSlotLeaks

\* Going on to the next slot moves no other thread.
LEMMA NextSlotMoves ==
  ASSUME TypeOK, NEW t \in Thread, NextSlot(t)
  PROVE  \A u \in Thread \ {t} : pc'[u] = pc[u] /\ slot'[u] = slot[u]
  BY DEF TypeOK, NextSlot, Goto

\* Every step that is not the creation, the filling or the ageing of a file.
LEMMA WalkKeeps ==
  ASSUME TypeOK, NoSlotLeaks, NEW t \in Thread,
         Ask(t) \/ Stat(t) \/ ReadPid(t) \/ Reclaim(t) \/ Release(t)
  PROVE  NoSlotLeaks'
<1>1. UNCHANGED alive /\ Live(t)
  BY DEF Ask, Stat, ReadPid, Reclaim, Release, At
<1>2. \A u \in Thread \ {t} : pc'[u] = pc[u] /\ slot'[u] = slot[u]
  BY NextSlotMoves DEF Ask, Stat, ReadPid, Reclaim, Release, Goto, TypeOK
<1>3. CASE Ask(t) \/ Stat(t) \/ ReadPid(t)
  <2>1. pc[t] \notin {"fill", "hold"} /\ UNCHANGED file
    BY <1>3 DEF Ask, Stat, ReadPid, At
  <2>2. \A i \in Slot : file'[i].by # t
    BY <1>1, <2>1, NoFile
  <2>3. QED
    BY <1>1, <1>2, <2>1, <2>2, MoveKeeps
<1>4. CASE Reclaim(t) \/ Release(t)
  <2>1. file' = [file EXCEPT ![slot[t]] = Gone] /\ slot[t] \in Slot
    BY <1>4 DEF Reclaim, Release, Unlink, TypeOK
  <2>2. \A i \in Slot : file'[i] = file[i] \/ file'[i] = Gone
    BY <2>1 DEF TypeOK
  <2>3. \A i \in Slot : file'[i].by # t
    <3> SUFFICES ASSUME NEW i \in Slot PROVE file'[i].by # t
      OBVIOUS
    <3>1. CASE i = slot[t]
      BY <2>1, <3>1, ThreadAssumption DEF TypeOK, Gone
    <3>2. CASE i # slot[t]
      <4>1. file'[i] = file[i]
        BY <2>1, <3>2 DEF TypeOK
      <4>2. file[i].by # t
        BY <1>1, <3>2, ThreadAssumption DEF NoSlotLeaks, Gone
      <4>3. QED
        BY <4>1, <4>2
    <3>3. QED
      BY <3>1, <3>2
  <2>4. QED
    BY <1>1, <1>2, <2>2, <2>3, MoveKeeps
<1>5. QED
  BY <1>3, <1>4

\* Filling or ageing changes no creator.
LEMMA MarkKeeps ==
  ASSUME TypeOK, NoSlotLeaks, UNCHANGED <<alive, slot>>,
         \A i \in Slot : file'[i] = file[i] \/ (file[i] # Gone /\ file'[i].by = file[i].by),
         \A u \in Thread : pc[u] \in {"fill", "hold"} => pc'[u] \in {"fill", "hold"}
  PROVE  NoSlotLeaks'
<1> SUFFICES ASSUME NEW i \in Slot, file'[i] # Gone, NEW u, u = file'[i].by, Live(u)'
             PROVE  slot'[u] = i /\ pc'[u] \in {"fill", "hold"}
  BY DEF NoSlotLeaks
<1>1. file[i] # Gone /\ u = file[i].by /\ Live(u)
  BY DEF Live
<1>2. u \in Thread
  BY <1>1 DEF TypeOK, File
<1>3. QED
  BY <1>1, <1>2 DEF NoSlotLeaks

\* Capacity never leaks: every slot file stands for a live thread at that
\* slot, or for a process that is dead.
THEOREM SlotsNeverLeak == Spec => []NoSlotLeaks
<1>1. Init => NoSlotLeaks
  BY DEF Init, NoSlotLeaks
<1>2. TypeOK /\ NoSlotLeaks /\ [Next]_vars => NoSlotLeaks'
  <2> SUFFICES ASSUME TypeOK, NoSlotLeaks, [Next]_vars PROVE NoSlotLeaks'
    OBVIOUS
  <2>1. ASSUME NEW t \in Thread, Ask(t) \/ Stat(t) \/ ReadPid(t) \/ Reclaim(t) \/ Release(t)
        PROVE  NoSlotLeaks'
    BY <2>1, WalkKeeps
  <2>2. ASSUME NEW t \in Thread, TryTake(t) \/ Retake(t) PROVE NoSlotLeaks'
    <3>1. Live(t) /\ pc[t] \notin {"fill", "hold"} /\ UNCHANGED alive
      BY <2>2 DEF TryTake, Retake, At
    <3>2. CASE Create(t)
      BY <3>1, <3>2, CreateKeeps
    <3>3. CASE ~Create(t)
      <4>1. UNCHANGED file
        BY <2>2, <3>3 DEF TryTake, Retake
      <4>2. \A u \in Thread \ {t} : pc'[u] = pc[u] /\ slot'[u] = slot[u]
        BY <2>2, <3>3, NextSlotMoves DEF TryTake, Retake, Goto, TypeOK
      <4>3. \A i \in Slot : file'[i].by # t
        BY <3>1, <4>1, NoFile
      <4>4. QED
        BY <3>1, <4>1, <4>2, <4>3, MoveKeeps
    <3>4. QED
      BY <3>2, <3>3
  <2>3. ASSUME NEW t \in Thread, Fill(t) PROVE NoSlotLeaks'
    <3>1. \A i \in Slot : file'[i] = file[i] \/ (file[i] # Gone /\ file'[i].by = file[i].by)
      <4>1. CASE file[slot[t]].by = t
        <5>1. file[slot[t]] \in File /\ file[slot[t]] # Gone /\ slot[t] \in Slot
          BY <4>1, ThreadAssumption DEF TypeOK, Gone
        <5>2. [file[slot[t]] EXCEPT !.filled = TRUE, !.old = FALSE].by = file[slot[t]].by
          BY <5>1 DEF File
        <5>3. file' = [file EXCEPT ![slot[t]] =
                         [file[slot[t]] EXCEPT !.filled = TRUE, !.old = FALSE]]
          BY <2>3, <4>1 DEF Fill
        <5>4. QED
          BY <5>1, <5>2, <5>3 DEF TypeOK
      <4>2. CASE file[slot[t]].by # t
        BY <2>3, <4>2 DEF Fill
      <4>3. QED
        BY <4>1, <4>2
    <3>2. \A u \in Thread : pc[u] \in {"fill", "hold"} => pc'[u] \in {"fill", "hold"}
      BY <2>3 DEF Fill, Goto, TypeOK
    <3>3. QED
      BY <2>3, <3>1, <3>2, MarkKeeps DEF Fill
  <2>4. ASSUME NEW p \in Process, Die(p) PROVE NoSlotLeaks'
    BY <2>4 DEF Die, NoSlotLeaks, Live
  <2>5. ASSUME NEW i \in Slot, Age(i) PROVE NoSlotLeaks'
    <3>1. [file[i] EXCEPT !.old = TRUE].by = file[i].by
      BY <2>5 DEF Age, TypeOK, File
    <3>2. file' = [file EXCEPT ![i] = [file[i] EXCEPT !.old = TRUE]] /\ file[i] # Gone
      BY <2>5 DEF Age
    <3>3. \A k \in Slot : file'[k] = file[k] \/ (file[k] # Gone /\ file'[k].by = file[k].by)
      BY <3>1, <3>2 DEF TypeOK
    <3>4. QED
      BY <2>5, <3>3, MarkKeeps DEF Age
  <2>6. CASE UNCHANGED vars
    BY <2>6 DEF vars, NoSlotLeaks, Live
  <2>7. ASSUME NEW t \in Thread, OrphanEnds(t) PROVE NoSlotLeaks'
    BY <2>7 DEF OrphanEnds, NoSlotLeaks, Live
  <2>8. QED
    BY <2>1, <2>2, <2>3, <2>4, <2>5, <2>6, <2>7 DEF Next, Step
<1>3. QED
  BY <1>1, <1>2, TypeCorrect, PTL DEF Spec

-----------------------------------------------------------------------------
(* The cap. *)

\* The agent of a thread runs, or is about to.
Holds(t) == (Live(t) /\ pc[t] \in {"fill", "hold"}) \/ t \in orphan

\* Until the file of a running agent has been reclaimed, whoever holds a slot has the
\* file of the slot.
HolderHasFile == ~robbed => \A t \in Thread : Holds(t) => file[slot[t]].by = t

\* An agent that outlived its process stands where its thread stood, because no
\* thread of a dead process moves.
OrphansAreDead == \A t \in orphan : ~Live(t)

\* No thread makes its own agent outlive it.
LEMMA ThreadKeepsOrphans ==
  ASSUME NEW t \in Thread, Ask(t) \/ Step(t)
  PROVE  UNCHANGED <<alive, orphan>> /\ Live(t)
  BY DEF Ask, Step, TryTake, Stat, ReadPid, Reclaim, Retake, Fill, Release, At

\* Only a death leaves an agent behind, and nobody comes back.
LEMMA OrphanStep ==
  ASSUME TypeOK, OrphansAreDead, [Next]_vars
  PROVE  OrphansAreDead'
<1>1. ASSUME NEW p \in Process, Die(p) PROVE OrphansAreDead'
  BY <1>1 DEF Die, OrphansAreDead, Live
<1>2. ASSUME NEW t \in Thread, OrphanEnds(t) PROVE OrphansAreDead'
  BY <1>2 DEF OrphanEnds, OrphansAreDead, Live
<1>3. ASSUME UNCHANGED <<alive, orphan>> PROVE OrphansAreDead'
  BY <1>3 DEF OrphansAreDead, Live
<1>4. ASSUME NEW i \in Slot, Age(i) PROVE UNCHANGED <<alive, orphan>>
  BY <1>4 DEF Age
<1>5. QED
  BY <1>1, <1>2, <1>3, <1>4, ThreadKeepsOrphans DEF Next, vars

\* A step in which no holder is new and none but a releasing one loses its file.
LEMMA HolderStays ==
  ASSUME HolderHasFile, ~robbed,
         \A u \in Thread : Holds(u)' => Holds(u) /\ slot'[u] = slot[u]
                                          /\ file'[slot[u]].by = file[slot[u]].by
  PROVE  HolderHasFile'
  BY DEF HolderHasFile

\* Every thread but the one that moves holds what it held.
LEMMA OthersHold ==
  ASSUME OrphansAreDead, NEW t \in Thread, Ask(t) \/ Step(t),
         \A u \in Thread \ {t} : pc'[u] = pc[u]
  PROVE  /\ \A u \in Thread \ {t} : Holds(u)' <=> Holds(u)
         /\ Holds(t)' <=> pc'[t] \in {"fill", "hold"}
         /\ Holds(t) <=> pc[t] \in {"fill", "hold"}
  BY ThreadKeepsOrphans DEF Holds, Live, OrphansAreDead

\* Every step of the pool keeps it.
LEMMA HolderStep ==
  ASSUME TypeOK, OrphansAreDead, HolderHasFile, [MCNext]_<<vars, robbed>>
  PROVE  HolderHasFile'
<1> SUFFICES ASSUME ~robbed' PROVE HolderHasFile'
  BY DEF HolderHasFile
<1>1. CASE UNCHANGED <<vars, robbed>>
  BY <1>1 DEF vars, HolderHasFile, Holds, Live
<1>2. CASE MCNext
  <2>1. ~robbed /\ ~(\E t \in Thread : Rob(t))
    BY <1>2 DEF MCNext
  <2>2. ASSUME NEW t \in Thread,
               Ask(t) \/ Stat(t) \/ ReadPid(t) \/ TryTake(t) \/ Retake(t), UNCHANGED file
        PROVE  HolderHasFile'
    <3>1. /\ UNCHANGED alive
          /\ ~Create(t)
          /\ \A u \in Thread \ {t} : pc'[u] = pc[u] /\ slot'[u] = slot[u]
      <4>1. ASSUME Create(t) PROVE FALSE
        <5>1. file'[slot[t]].by = t /\ file[slot[t]].by = Nobody
          BY <4>1 DEF Create, Gone, TypeOK
        <5>2. QED
          BY <2>2, <5>1, ThreadAssumption
      <4>2. UNCHANGED alive
        BY <2>2 DEF Ask, Stat, ReadPid, TryTake, Retake
      <4>3. \A u \in Thread \ {t} : pc'[u] = pc[u] /\ slot'[u] = slot[u]
        BY <2>2, <4>1, NextSlotMoves DEF Ask, Stat, ReadPid, TryTake, Retake, Goto, TypeOK
      <4>4. QED
        BY <4>1, <4>2, <4>3
    <3>2. pc'[t] \notin {"fill", "hold"}
      BY <2>2, <3>1 DEF Ask, Stat, ReadPid, TryTake, Retake, NextSlot, Goto, TypeOK
    <3>3. QED
      BY <2>1, <2>2, <3>1, <3>2, OthersHold, HolderStays DEF Step
  <2>3. ASSUME NEW t \in Thread, TryTake(t) \/ Retake(t), Create(t) PROVE HolderHasFile'
    <3>1. /\ UNCHANGED <<alive, slot>>
          /\ file'[slot[t]].by = t
          /\ \A i \in Slot \ {slot[t]} : file'[i] = file[i]
          /\ \A u \in Thread \ {t} : pc'[u] = pc[u]
      BY <2>3 DEF TryTake, Retake, Create, Goto, TypeOK
    <3>2. ASSUME NEW u \in Thread \ {t}, Holds(u) PROVE slot[u] # slot[t]
      <4>1. file[slot[u]].by = u
        BY <2>1, <3>2 DEF HolderHasFile
      <4>2. QED
        BY <2>3, <4>1, ThreadAssumption DEF Create, Gone
    <3>3. QED
      BY <2>1, <2>3, <3>1, <3>2, OthersHold DEF HolderHasFile, Step, TypeOK
  <2>4. ASSUME NEW t \in Thread, Reclaim(t) PROVE HolderHasFile'
    <3>1. /\ UNCHANGED <<alive, slot>>
          /\ \A i \in Slot \ {slot[t]} : file'[i] = file[i]
          /\ \A u \in Thread \ {t} : pc'[u] = pc[u]
          /\ pc'[t] = "retake"
      BY <2>4 DEF Reclaim, Unlink, Goto, TypeOK
    <3>2. ASSUME NEW u \in Thread, Holds(u) PROVE slot[u] # slot[t]
      <4>1. file[slot[u]].by = u
        BY <2>1, <3>2 DEF HolderHasFile
      <4>2. QED
        BY <2>1, <2>4, <3>2, <4>1, ThreadAssumption DEF Rob, Gone, Holds
    <3>3. QED
      BY <2>1, <2>4, <3>1, <3>2, OthersHold, HolderStays DEF Step, TypeOK
  <2>5. ASSUME NEW t \in Thread, Release(t) PROVE HolderHasFile'
    <3>1. /\ UNCHANGED <<alive, slot>>
          /\ \A i \in Slot \ {slot[t]} : file'[i] = file[i]
          /\ \A u \in Thread \ {t} : pc'[u] = pc[u]
          /\ pc'[t] = "idle"
      BY <2>5 DEF Release, Unlink, Goto, TypeOK
    <3>2. ASSUME NEW u \in Thread \ {t}, Holds(u) PROVE slot[u] # slot[t]
      <4>1. file[slot[u]].by = u /\ file[slot[t]].by = t
        BY <2>1, <2>5, <3>2 DEF HolderHasFile, Release, At, Holds
      <4>2. QED
        BY <4>1
    <3>3. QED
      BY <2>1, <2>5, <3>1, <3>2, OthersHold, HolderStays DEF Step, TypeOK
  <2>6. ASSUME NEW t \in Thread, Fill(t) PROVE HolderHasFile'
    <3>1. /\ UNCHANGED <<alive, slot>>
          /\ \A u \in Thread \ {t} : pc'[u] = pc[u]
          /\ pc[t] = "fill"
      BY <2>6 DEF Fill, At, Goto, TypeOK
    <3>2. \A i \in Slot : file'[i].by = file[i].by
      <4>1. CASE file[slot[t]].by = t
        <5>1. file[slot[t]] \in File /\ slot[t] \in Slot
          BY <4>1, ThreadAssumption DEF TypeOK, Gone
        <5>2. [file[slot[t]] EXCEPT !.filled = TRUE, !.old = FALSE].by = file[slot[t]].by
          BY <5>1 DEF File
        <5>3. file' = [file EXCEPT ![slot[t]] =
                         [file[slot[t]] EXCEPT !.filled = TRUE, !.old = FALSE]]
          BY <2>6, <4>1 DEF Fill
        <5>4. QED
          BY <5>1, <5>2, <5>3 DEF TypeOK
      <4>2. CASE file[slot[t]].by # t
        BY <2>6, <4>2 DEF Fill
      <4>3. QED
        BY <4>1, <4>2
    <3>3. QED
      BY <2>1, <2>6, <3>1, <3>2, OthersHold, HolderStays DEF Step, TypeOK
  <2>7. ASSUME NEW p \in Process, Die(p) PROVE HolderHasFile'
    BY <2>1, <2>7, HolderStays DEF Die, Holds, Live
  <2>8. ASSUME NEW i \in Slot, Age(i) PROVE HolderHasFile'
    <3>1. [file[i] EXCEPT !.old = TRUE].by = file[i].by
      BY <2>8 DEF Age, TypeOK, File
    <3>2. \A k \in Slot : file'[k].by = file[k].by
      BY <2>8, <3>1 DEF Age, TypeOK
    <3>3. QED
      BY <2>1, <2>8, <3>2, HolderStays DEF Age, Holds, Live, TypeOK
  <2>9. ASSUME NEW t \in Thread, TryTake(t) \/ Retake(t), ~Create(t) PROVE UNCHANGED file
    BY <2>9 DEF TryTake, Retake
  <2>10. ASSUME NEW t \in Thread, Ask(t) \/ Stat(t) \/ ReadPid(t) PROVE UNCHANGED file
    BY <2>10 DEF Ask, Stat, ReadPid
  <2>11. ASSUME NEW t \in Thread, OrphanEnds(t) PROVE HolderHasFile'
    BY <2>1, <2>11, HolderStays DEF OrphanEnds, Holds, Live
  <2>12. QED
    BY <1>2, <2>2, <2>3, <2>4, <2>5, <2>6, <2>7, <2>8, <2>9, <2>10, <2>11 DEF MCNext, Next, Step
<1>3. QED
  BY <1>1, <1>2

\* Holders that have the files of their slots are not more than there are slots.
LEMMA CapFromFiles ==
  ASSUME TypeOK, HolderHasFile, ~robbed
  PROVE  CapHolds
<1> DEFINE f == [t \in Running |-> slot[t]]
<1>1. \A t \in Running : t \in Thread /\ file[slot[t]].by = t
  BY DEF Running, At, Holds, HolderHasFile, TypeOK
<1>2. f \in Injection(Running, Slot)
  BY <1>1 DEF TypeOK, Injection, IsInjective
<1>3. IsFiniteSet(Slot) /\ Cardinality(Slot) = Limit
  <2>1. 1 \in Int /\ Limit \in Int /\ ~(1 > Limit) /\ Limit - 1 + 1 = Limit
    BY LimitAssumption
  <2>2. QED
    BY <2>1, FS_Interval DEF Slot
<1> HIDE DEF f
<1>4. Cardinality(Running) <= Limit
  BY <1>2, <1>3, FS_Injection
<1>5. QED
  BY <1>4 DEF CapHolds

\* "Global cap on concurrent model agents, shared across review processes": until the
\* slot file of a running agent has been reclaimed, no more than Limit agents run at
\* once, those that outlived their review included, for any number of processes,
\* threads and slots, and whatever is killed.
THEOREM CapUntilRobbed == MCSpec => []CapUnlessRobbed
<1> DEFINE Ind == TypeOK /\ OrphansAreDead /\ HolderHasFile
<1>1. MCInit => Ind
  <2> SUFFICES ASSUME MCInit PROVE Ind
    OBVIOUS
  <2>1. TypeOK
    BY LimitAssumption DEF MCInit, Init, TypeOK, Phase, Slot
  <2>2. OrphansAreDead /\ HolderHasFile
    BY DEF MCInit, Init, OrphansAreDead, HolderHasFile, Holds
  <2>3. QED
    BY <2>1, <2>2
<1>2. Ind /\ [MCNext]_<<vars, robbed>> => Ind'
  <2> SUFFICES ASSUME Ind, [MCNext]_<<vars, robbed>> PROVE Ind'
    OBVIOUS
  <2>1. [Next]_vars
    BY DEF MCNext
  <2>2. QED
    BY <2>1, TypeStep, OrphanStep, HolderStep
<1>3. Ind => CapUnlessRobbed
  BY CapFromFiles DEF CapUnlessRobbed
<1>4. QED
  BY <1>1, <1>2, <1>3, PTL DEF MCSpec
=============================================================================
