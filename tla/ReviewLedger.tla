---------------------------- MODULE ReviewLedger ----------------------------
(***************************************************************************)
(* What the hosted service promises for the pull_request deliveries that   *)
(* ask for a review: a delivery is accepted once, it stays open while any  *)
(* number of attempts are made behind the scenes, and it is settled once,  *)
(* either with exactly one stored review or with none.  Workers, leases,   *)
(* retries, crashes and clocks do not appear here; module JobQueue, which  *)
(* has all of them, implements this one.                                   *)
(***************************************************************************)
CONSTANT Delivery      \* ids of the webhook deliveries (X-GitHub-Delivery)

VARIABLES outcome,     \* what the service knows of each delivery
          stored       \* the deliveries that have a review in the table runs

ledgerVars == <<outcome, stored>>

Outcome == {"absent", "open", "complete", "failed"}

Init == /\ outcome = [d \in Delivery |-> "absent"]
        /\ stored = {}

Accept(d) == /\ outcome[d] = "absent"
             /\ outcome' = [outcome EXCEPT ![d] = "open"]
             /\ UNCHANGED stored

\* The review and the fact that the delivery is settled appear together.
Deliver(d) == /\ outcome[d] = "open"
              /\ outcome' = [outcome EXCEPT ![d] = "complete"]
              /\ stored' = stored \cup {d}

GiveUp(d) == /\ outcome[d] = "open"
             /\ outcome' = [outcome EXCEPT ![d] = "failed"]
             /\ UNCHANGED stored

Next == \E d \in Delivery : Accept(d) \/ Deliver(d) \/ GiveUp(d)

Spec == Init /\ [][Next]_ledgerVars
=============================================================================
