--------------------------- MODULE MCPublication ---------------------------
(* A pull request that moves from one commit to the next, reviewed on each. *)
EXTENDS Publication, TLC

CONSTANTS h1, h2, r1, r2

HeadOfRun == (r1 :> h1) @@ (r2 :> h2)
=============================================================================
