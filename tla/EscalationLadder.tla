-------------------------- MODULE EscalationLadder --------------------------
(***************************************************************************)
(* What alerting promises, without starters, tasks, signals or attempts:   *)
(* the rungs of an escalation, the last of them the notice that no level   *)
(* is left, are climbed one at a time, each after everybody below it was   *)
(* told. A level is cleared for its page on one sight of the incident      *)
(* without an owner, and on none at all once an owner is known. A rung     *)
(* calls one of its contacts and reports once.                             *)
(***************************************************************************)
EXTENDS Integers

CONSTANTS
    Levels,  \* the number of levels; the last rung is Levels + 1
    Rota     \* rung -> the contacts it may call

VARIABLES
    owned,    \* somebody has taken the incident
    known,    \* the escalation knows of it
    sighted,  \* the incident was seen without an owner, for the next level
    cleared,  \* the highest rung that may call
    called,   \* rung -> the contacts called
    told      \* rung -> "none", or how its call was reported: "sent" or "failed"

Rungs == 1..(Levels + 1)
vars == <<owned, known, sighted, cleared, called, told>>

Init ==
    /\ owned = FALSE /\ known = FALSE /\ sighted = FALSE
    /\ cleared = 0
    /\ called = [n \in Rungs |-> {}]
    /\ told = [n \in Rungs |-> "none"]

Own == owned' = TRUE /\ UNCHANGED <<known, sighted, cleared, called, told>>

\* News of an owner may come with any step of the escalation.
Hear == known' = known \/ (owned /\ known')

Learn == Hear /\ UNCHANGED <<owned, sighted, cleared, called, told>>

Due(n) == \A k \in Rungs : k < n => told[k] # "none"

Sight ==
    /\ ~owned /\ Due(cleared + 1) /\ cleared < Levels
    /\ sighted' = TRUE
    /\ UNCHANGED <<owned, known, cleared, called, told>>

\* The sight is lost, or comes to nothing because an owner is known.
Forget == Hear /\ sighted' = FALSE /\ UNCHANGED <<owned, cleared, called, told>>

\* A level needs a sight and uses it up, the last notice does without.
Clear ==
    /\ ~known /\ Due(cleared + 1) /\ cleared <= Levels
    /\ cleared < Levels => sighted
    /\ cleared' = cleared + 1 /\ sighted' = FALSE
    /\ Hear
    /\ UNCHANGED <<owned, called, told>>

\* The escalation breaks off before the rung has called.
Withdraw ==
    /\ cleared > 0 /\ called[cleared] = {}
    /\ cleared' = cleared - 1
    /\ Hear
    /\ UNCHANGED <<owned, sighted, called, told>>

\* Calling again, after a report was lost, calls nobody else.
Call ==
    /\ cleared > 0
    /\ \E c \in Rota[cleared] :
          called[cleared] \subseteq {c} /\ called' = [called EXCEPT ![cleared] = {c}]
    /\ \/ UNCHANGED told
       \/ /\ told[cleared] = "none"
          /\ \E report \in {"sent", "failed"} : told' = [told EXCEPT ![cleared] = report]
    /\ UNCHANGED <<owned, known, sighted, cleared>>

Next == Own \/ Learn \/ Sight \/ Forget \/ Clear \/ Withdraw \/ Call

Spec == Init /\ [][Next]_vars
=============================================================================
