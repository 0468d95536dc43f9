--------------------------- MODULE MCCorrelation ----------------------------
(* Instances of Correlation for TLC.                                       *)
EXTENDS Correlation, TLC

CONSTANTS r1, r2, x, y, e0, e1, ok

OneService == [e \in Events |-> x]
TwoServices == [e \in Events |-> IF e = e1 THEN y ELSE x]
\* e1 keeps the condition firing for a second cycle, ok calms it down.
MCTimeOf == [e \in Events |-> IF e = e0 THEN 0 ELSE 1]

ReplicaSymmetry == Permutations({r1, r2})
=============================================================================
