------------------------------ MODULE MCVerify ------------------------------
(* One shard of claims and the docs.  The inputs of Verdict are states of their *)
(* own beside those of Verify: one for each way agents may answer.            *)
EXTENDS Verify, Verdict, TLC

CONSTANT NoInput

VARIABLE input    \* a review to be summed up, instead of one to be run

MCInit == Init /\ input = NoInput

PickInput == round = 0 /\ input' \in Input /\ UNCHANGED vars

\* Bound: only the agents of the claims cost anything.  No agent sees another's bill.
ClaimsCost == \A t \in OtherTask : paid'[t] = 0 /\ unpriced'[t] = 0

MCNext == /\ input = NoInput
          /\ PickInput \/ (Next /\ UNCHANGED input)
          /\ ClaimsCost

MCSpec == /\ MCInit /\ [][MCNext]_<<vars, input>>
          /\ Fairness

\* The headline of a review is the one its claims deserve, whichever agents have died.
HeadlineDeserved == input # NoInput => VerdictDeserved(input)
=============================================================================
