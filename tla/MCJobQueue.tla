----------------------------- MODULE MCJobQueue -----------------------------
(* Small instances of JobQueue for TLC, with a history of the heartbeats, so *)
(* that timely behaviours and all others are checked in one run.             *)
EXTENDS JobQueue, TLC

VARIABLE late    \* history: a heartbeat has not been in time

MCInit == Init /\ late = FALSE

MCNext == \/ TimelyNext /\ late' = late
          \/ Next /\ ~TimelyNext /\ late' = TRUE

MCSpec == MCInit /\ [][MCNext]_<<vars, late>>

\* Until a heartbeat comes late for the first time, no worker is robbed of a job it
\* works on, however slow the review is and however many workers poll.
KeptUnlessLate == ~late => WorkerKeepsLease

\* Slots, deliveries and uuids are interchangeable in every safety property.
Symmetry == Permutations(Delivery) \cup Permutations(Proc) \cup Permutations(Lease)
=============================================================================
