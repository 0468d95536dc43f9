-------------------------- MODULE MCEventPipeline --------------------------
(* Instances of EventPipeline for TLC.                                     *)
EXTENDS EventPipeline, TLC

CONSTANTS a, b, no, bad, m1, m2

\* a is timely from the start, b is dated one tick ahead, bad breaks the
\* contract.
MCEvents == {a, b, bad}
MCContract == {a, b}
MCIdOf == (a :> 1) @@ (b :> 2) @@ (bad :> 3)
MCTimeOf == (a :> 0) @@ (b :> 2) @@ (bad :> 0)
AllAtZero == [e \in Events |-> 0]
OnePartition == [e \in Events |-> CHOOSE p \in Partitions : TRUE]
\* With two partitions b is alone in its own.
TwoPartitions == [e \in Events |-> IF e = b THEN CHOOSE p \in Partitions : TRUE
                                  ELSE CHOOSE p \in Partitions :
                                         p # CHOOSE q \in Partitions : TRUE]
NoLag == [m \in Engines |-> 0]
JustB == {b}

\* With no, which PostgreSQL refuses.
EventsAndNo == {a, b, no, bad}
ContractAndNo == {a, b, no}
IdOfAll == MCIdOf @@ (no :> 4)
JustNo == {no}

MemberSymmetry == Permutations({m1, m2})
=============================================================================
