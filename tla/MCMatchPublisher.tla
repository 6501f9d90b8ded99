-------------------------- MODULE MCMatchPublisher --------------------------
(* Model-checking instances of MatchPublisher: two rounds that may share a   *)
(* batch, or of which the second is too large for any.                      *)
EXTENDS MatchPublisher

Uniform == [r \in Request |-> 1]
Oversized == [r \in Request |-> IF r = 2 THEN 3 ELSE 1]
Symmetry == Permutations(Worker)
=============================================================================
