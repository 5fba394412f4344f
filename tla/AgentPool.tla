----------------------------- MODULE AgentPool -----------------------------
(***************************************************************************)
(* The cap on model agents that run at once (src/agent_pool.py): one lock  *)
(* file per slot, shared by every thread of every review process through   *)
(* the file system.  A file is created with O_EXCL, then filled with the   *)
(* pid of its creator; a file whose pid is dead, or that holds none, may   *)
(* be taken away by anybody once it is older than the grace period.        *)
(*                                                                         *)
(* Each system call is a step: other threads, the clock, or the death of a *)
(* process may come between any two of them.  An agent is a child process  *)
(* of its review and may outlive it.                                       *)
(***************************************************************************)
EXTENDS Naturals, FiniteSets

CONSTANTS
  Thread,        \* threads that run agents
  Process,       \* review processes; a pid is not reused
  ProcessOf,     \* the process of a thread
  Nobody,        \* the creator of a file that does not exist
  Limit          \* HARNESS_MAX_AGENTS

ASSUME ThreadAssumption == /\ ProcessOf \in [Thread -> Process]
                           /\ Nobody \notin Thread
ASSUME LimitAssumption == Limit \in Nat \ {0}

VARIABLES
  alive,         \* the processes that exist
  file,          \* the slot files
  pc,            \* where each thread is
  slot,          \* the slot it is at, or holds
  orphan         \* the threads whose agent has outlived their process

vars == <<alive, file, pc, slot, orphan>>

Slot == 1..Limit

\* Inside acquire_slot: the first open, stat, reading the pid, unlink, the
\* second open, writing the pid.  "hold" is the body of agent_slot.
Phase == {"idle", "take", "stat", "read", "unlink", "retake", "fill", "hold"}

\* A slot file: who created it, whether the pid is written yet, and whether it
\* is older than STALE_GRACE_SECONDS.
File == [by : Thread, filled : BOOLEAN, old : BOOLEAN]

Gone == [by |-> Nobody, filled |-> FALSE, old |-> FALSE]

\* Every variable has its type.
TypeOK == /\ alive \subseteq Process
          /\ file \in [Slot -> File \cup {Gone}]
          /\ pc \in [Thread -> Phase]
          /\ slot \in [Thread -> Slot]
          /\ orphan \subseteq Thread

Init == /\ alive = Process
        /\ file = [i \in Slot |-> Gone]
        /\ pc = [t \in Thread |-> "idle"]
        /\ slot = [t \in Thread |-> 1]
        /\ orphan = {}

Live(t) == ProcessOf[t] \in alive

At(t, ph) == Live(t) /\ pc[t] = ph

Goto(t, ph) == pc' = [pc EXCEPT ![t] = ph]

-----------------------------------------------------------------------------
(* acquire_slot.  The timeout is None in every caller. *)

\* Slots are tried from the first one on.
Ask(t) == /\ At(t, "idle")
          /\ Goto(t, "take")
          /\ slot' = [slot EXCEPT ![t] = 1]
          /\ UNCHANGED <<alive, file, orphan>>

\* Faulty: one slot file more than the limit is tried.
NextSlotPast(t) == /\ Goto(t, "take")
                   /\ slot' = [slot EXCEPT ![t] = IF @ <= Limit THEN @ + 1 ELSE 1]

\* The next slot, or, after a sleep, the first one again.
NextSlot(t) == /\ Goto(t, "take")
               /\ slot' = [slot EXCEPT ![t] = IF @ < Limit THEN @ + 1 ELSE 1]

\* Faulty: O_CREAT without O_EXCL.
CreateOver(t) ==
  /\ file' = [file EXCEPT ![slot[t]] = [by |-> t, filled |-> FALSE, old |-> FALSE]]
  /\ Goto(t, "fill")
  /\ UNCHANGED slot

\* os.open with O_CREAT | O_EXCL.
Create(t) == /\ file[slot[t]] = Gone
             /\ file' = [file EXCEPT ![slot[t]] = [by |-> t, filled |-> FALSE, old |-> FALSE]]
             /\ Goto(t, "fill")
             /\ UNCHANGED slot

TryTake(t) == /\ At(t, "take")
              /\ \/ Create(t)
                 \/ file[slot[t]] # Gone /\ Goto(t, "stat") /\ UNCHANGED <<file, slot>>
              /\ UNCHANGED <<alive, orphan>>

\* _reclaimable, first half: a missing or a young file is left alone.
Stat(t) == /\ At(t, "stat")
           /\ IF file[slot[t]].old THEN Goto(t, "read") /\ UNCHANGED slot ELSE NextSlot(t)
           /\ UNCHANGED <<alive, file, orphan>>

\* Faulty: a file without a pid counts as held.
NamesLiveOrEmpty(f) == f # Gone /\ (f.filled => Live(f.by))

\* review_lock_alive: a missing or unfilled file names nobody alive.
NamesLive(f) == f # Gone /\ f.filled /\ Live(f.by)

\* _reclaimable, second half.
ReadPid(t) == /\ At(t, "read")
              /\ IF NamesLive(file[slot[t]]) THEN NextSlot(t)
                                             ELSE Goto(t, "unlink") /\ UNCHANGED slot
              /\ UNCHANGED <<alive, file, orphan>>

\* Whatever file is there by now.
Unlink(t) == file' = [file EXCEPT ![slot[t]] = Gone]

Reclaim(t) == /\ At(t, "unlink")
              /\ Unlink(t)
              /\ Goto(t, "retake")
              /\ UNCHANGED <<alive, slot, orphan>>

Retake(t) == /\ At(t, "retake")
             /\ \/ Create(t)
                \/ file[slot[t]] # Gone /\ NextSlot(t) /\ UNCHANGED file
             /\ UNCHANGED <<alive, orphan>>

\* json.dump goes to the file this thread opened, even if that is unlinked.
Fill(t) == /\ At(t, "fill")
           /\ file' = IF file[slot[t]].by = t
                      THEN [file EXCEPT ![slot[t]] = [@ EXCEPT !.filled = TRUE, !.old = FALSE]]
                      ELSE file
           /\ Goto(t, "hold")
           /\ UNCHANGED <<alive, slot, orphan>>

-----------------------------------------------------------------------------

\* Faulty: the slot is given back only when the agent has succeeded.
ReleaseOnSuccess(t) == /\ At(t, "hold")
                       /\ Unlink(t) \/ UNCHANGED file
                       /\ Goto(t, "idle")
                       /\ UNCHANGED <<alive, slot, orphan>>

\* The finally clause of agent_slot: the agent has returned or raised.
Release(t) == /\ At(t, "hold")
              /\ Unlink(t)
              /\ Goto(t, "idle")
              /\ UNCHANGED <<alive, slot, orphan>>

\* A process is killed, with all its threads; its files stay.  Whoever kills it
\* signals its pid, or its group, and waits for nothing else: an agent it runs may
\* have ended with it, or run on.
Die(p) == /\ p \in alive
          /\ alive' = alive \ {p}
          /\ \E S \in SUBSET {t \in Thread : ProcessOf[t] = p /\ pc[t] = "hold"} :
               orphan' = orphan \cup S
          /\ UNCHANGED <<file, pc, slot>>

\* It ends at last, and nobody takes note.
OrphanEnds(t) == /\ t \in orphan
                 /\ orphan' = orphan \ {t}
                 /\ UNCHANGED <<alive, file, pc, slot>>

Age(i) == /\ file[i] # Gone /\ ~file[i].old
          /\ file' = [file EXCEPT ![i].old = TRUE]
          /\ UNCHANGED <<alive, pc, slot, orphan>>

-----------------------------------------------------------------------------

Step(t) == \/ TryTake(t) \/ Stat(t) \/ ReadPid(t) \/ Reclaim(t) \/ Retake(t)
           \/ Fill(t) \/ Release(t)

Next == \/ \E t \in Thread : Ask(t) \/ Step(t)
        \/ \E p \in Process : Die(p)
        \/ \E t \in Thread : OrphanEnds(t)
        \/ \E i \in Slot : Age(i)

Spec == Init /\ [][Next]_vars

\* Live threads run, an agent returns unless its process is killed (a review
\* that hangs is killed by its timeout), and time passes.
Fairness == /\ \A t \in Thread : WF_vars(Step(t))
            /\ \A i \in Slot : WF_vars(Age(i))

\* No thread takes STALE_GRACE_SECONDS from creating its file to writing the pid.
Prompt == \A i \in Slot : Age(i) => (file[i].filled \/ ~Live(file[i].by))

-----------------------------------------------------------------------------
(* Properties. *)

\* No capacity is lost: a slot file stands for a thread that holds this slot
\* or is about to, or for a process that is dead, so that it may be taken away.
\* This holds even among threads that have robbed each other of a slot.
NoSlotLeaks ==
  \A i \in Slot : file[i] # Gone =>
    LET t == file[i].by
    IN  Live(t) => slot[t] = i /\ pc[t] \in {"fill", "hold"}

Waiting(t) == Live(t) /\ pc[t] \in {"take", "stat", "read", "unlink", "retake"}

\* "A killed review never wedges the pool": while a thread asks for a slot,
\* some live thread gets one, at whatever points processes are killed.
NeverWedged ==
  \A t \in Thread : Waiting(t) ~> (~Live(t) \/ \E u \in Thread : At(u, "hold"))

\* agent_pool.py: "Global cap on concurrent model agents, shared across review
\* processes", and of the grace window: without it "two processes can both
\* decide the same slot is stale, and the second unlink lands on the lock the
\* first has already re-created".  An agent counts while it runs, whether its
\* review lives or not.
Running == {t \in Thread : At(t, "hold")} \cup orphan

CapHolds == Cardinality(Running) <= Limit
=============================================================================
