-------------------------------- MODULE OnCall --------------------------------
(***************************************************************************)
(* The escalation policy and the rotations of package oncall: who is on    *)
(* call at an instant. Targets and acknowledgement timeouts say nothing    *)
(* about that and are left out.                                            *)
(***************************************************************************)
EXTENDS Integers, Sequences

CONSTANTS
    ZeroTime,     \* the year 1, which a time.Time that is not set stands for
    MaxDuration,  \* the longest time.Duration, 292 years
    Unset         \* the start of a rotation the policy file gives none for

\* The policy file: per level its contacts, the start of the rotation and its
\* shift, 0 when none is given.
ParsePolicy(wire) ==
    [i \in 1..Len(wire) |->
        [contacts |-> wire[i].contacts, shift |-> wire[i].shift,
         start    |-> IF wire[i].start = Unset THEN ZeroTime ELSE wire[i].start]]

\* Validate.
Valid(policy) ==
    /\ policy # <<>>
    /\ \A i \in 1..Len(policy) : policy[i].contacts # <<>> /\ policy[i].shift >= 0

\* t.Sub(u) stops at the ends of Duration.
Sub(t, u) == IF t - u > MaxDuration THEN MaxDuration
             ELSE IF t - u < -MaxDuration THEN -MaxDuration ELSE t - u

\* The contact of a rotation, with the shift counted from the next one's start.
OnCallAtEarly(r, t) ==
    LET n == Len(r.contacts)
        elapsed == Sub(t, r.start)
    IN  IF n = 1 \/ r.shift = 0 \/ elapsed < 0 THEN r.contacts[1]
        ELSE r.contacts[(((elapsed + r.shift - 1) \div r.shift) % n) + 1]

\* The contact on call at t.
OnCallAt(r, t) ==
    LET n == Len(r.contacts)
        elapsed == Sub(t, r.start)
    IN  IF n = 1 \/ r.shift = 0 \/ elapsed < 0 THEN r.contacts[1]
        ELSE r.contacts[((elapsed \div r.shift) % n) + 1]
=============================================================================
