--------------------------- MODULE MCLocalReview ---------------------------
(* The poller and reviews by hand. *)
EXTENDS LocalReview, TLC

CONSTANTS byhand, polled

\* Bounds: no push once every commit has been pushed over.  Reviews that overlap are
\* followed to their end, but nothing is pushed and no other review is started then.
Bounded == /\ replaced = Head => UNCHANGED head
           /\ overlapped => UNCHANGED head /\ ~(\E p \in Proc, f \in BOOLEAN : Launch(p, f))

MCSpec == Init /\ [][Next /\ Bounded]_vars /\ Fairness
=============================================================================
