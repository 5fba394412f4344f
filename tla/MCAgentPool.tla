---------------------------- MODULE MCAgentPool ----------------------------
(* Review processes with one or two agent threads each, and a history of the *)
(* locks that were taken away from their owners.                             *)
EXTENDS AgentPool, TLC

CONSTANTS a, b, c, a1, a2, b1, c1

ThreadOwner == [t \in Thread |-> CASE t \in {a1, a2} -> a [] t = b1 -> b [] t = c1 -> c]

VARIABLE robbed    \* history: the slot file of a running agent has been reclaimed

\* The file that is unlinked belongs to a live thread, and is not the one that was
\* found to be stale; or its creator is dead, but the agent is not.
Rob(t) == /\ Reclaim(t)
          /\ LET u == file[slot[t]].by
             IN  u \in Thread /\ (Live(u) \/ u \in orphan)

MCInit == Init /\ robbed = FALSE

MCNext == Next /\ robbed' = (robbed \/ \E t \in Thread : Rob(t))

MCSpec == /\ MCInit /\ [][MCNext]_<<vars, robbed>>
          /\ Fairness

\* The pool at its best: no process is killed, and none is slow.
MCCalmSpec == MCInit /\ [][MCNext /\ Prompt /\ alive' = alive]_<<vars, robbed>>

\* Until the slot file of a running agent has been reclaimed for the first time, the
\* cap holds.  A file is reclaimed like this in two ways: by a thread that acts on
\* what it read of an earlier file, and after the death of a process whose agent runs
\* on.  Nothing else can break the cap: not the order in which slots are tried and
\* given back, nor a kill at any system call, nor files that are removed while their
\* creator has not written its pid yet, unless that creator lives.
CapUnlessRobbed == ~robbed => CapHolds
=============================================================================
