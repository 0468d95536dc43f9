--------------------------- MODULE GatedSequence ---------------------------
(***************************************************************************)
(* What automated remediation promises, without starters, tasks, signals,  *)
(* retries or an audit trail: one plan is adopted and never exchanged; its *)
(* steps are released in order, each after all before it succeeded, a      *)
(* gated one on the consent of a person who released no other; a step is   *)
(* carried out only while it is released; how it ended is final.           *)
(***************************************************************************)
EXTENDS Integers, Sequences

CONSTANTS Steps, Plans, NoPlan, People, Nobody

VARIABLES
    plan,     \* the plan adopted, or NoPlan
    outcome,  \* step -> "waiting", "released", "succeeded" or "stopped"
    carried,  \* step -> how often it was carried out
    by,       \* step -> who released it, or Nobody
    consent   \* the people who have said yes

vars == <<plan, outcome, carried, by, consent>>

Init ==
    /\ plan = NoPlan
    /\ outcome = [i \in Steps |-> "waiting"]
    /\ carried = [i \in Steps |-> 0]
    /\ by = [i \in Steps |-> Nobody]
    /\ consent = {}

Adopt(p) ==
    /\ plan = NoPlan /\ plan' = p
    /\ UNCHANGED <<outcome, carried, by, consent>>

Agree(d) ==
    /\ consent' = consent \union {d}
    /\ UNCHANGED <<plan, outcome, carried, by>>

\* Step i is the one to be dealt with.
Due(i) ==
    /\ plan # NoPlan /\ i <= Len(plan)
    /\ \A j \in Steps : j < i => outcome[j] = "succeeded"

Release(i) ==
    /\ Due(i) /\ outcome[i] = "waiting"
    /\ IF plan[i] = "approval"
       THEN \E d \in consent : (\A j \in Steps : by[j] # d) /\ by' = [by EXCEPT ![i] = d]
       ELSE UNCHANGED by
    /\ outcome' = [outcome EXCEPT ![i] = "released"]
    /\ UNCHANGED <<plan, carried, consent>>

\* More than once when an attempt's reply is lost.
CarryOut(i) ==
    /\ outcome[i] = "released"
    /\ carried' = [carried EXCEPT ![i] = @ + 1]
    /\ UNCHANGED <<plan, outcome, by, consent>>

Succeed(i) ==
    /\ outcome[i] = "released" /\ carried[i] > 0
    /\ outcome' = [outcome EXCEPT ![i] = "succeeded"]
    /\ UNCHANGED <<plan, carried, by, consent>>

Stop(i) ==
    /\ Due(i) /\ outcome[i] \in {"waiting", "released"}
    /\ outcome' = [outcome EXCEPT ![i] = "stopped"]
    /\ UNCHANGED <<plan, carried, by, consent>>

Next ==
    \/ \E p \in Plans : Adopt(p)
    \/ \E d \in People : Agree(d)
    \/ \E i \in Steps : Release(i) \/ CarryOut(i) \/ Succeed(i) \/ Stop(i)

Spec == Init /\ [][Next]_vars
=============================================================================
