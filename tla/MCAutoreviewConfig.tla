------------------------- MODULE MCAutoreviewConfig -------------------------
(* Small instances of AutoreviewConfig for TLC. *)
EXTENDS AutoreviewConfig, TLC

\* Every order about the organisation's repository, under both of its names, and
\* one about another owner's.
Orders(k) == {[key |-> k, mode |-> m] : m \in Mode \cup {"remove"}}
MCOrder == UNION {Orders(n) \cup Orders(<<Org, n>>) : n \in Name}
           \cup {[key |-> <<o, n>>, mode |-> "auto"] : o \in Owner \ {Org}, n \in Name}

Symmetry == Permutations(Editor)
=============================================================================
