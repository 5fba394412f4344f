--------------------------- MODULE MCHostedReview ---------------------------
(* Small instances of HostedReview for TLC. *)
EXTENDS HostedReview

CONSTANT second   \* one of the workers

\* Bound: the second worker rests once the last webhook is sent, so that two workers
\* meet over one webhook less.
Rested == Len(events') = MaxEvent => wk'[second].phase = "idle"

MCSpec ==
  /\ Init /\ [][Next /\ Rested]_vars
  /\ WF_vars(\E d \in Delivery : Ingest(d))
  /\ WF_vars(\E d \in Delivery : Recover(d) /\ Abandoned(d))
  /\ \A w \in Worker : WF_vars(Work(w) /\ Rested)
=============================================================================
