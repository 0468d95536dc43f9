---------------------------- MODULE AdvisoryLocks ----------------------------
(***************************************************************************)
(* PostgreSQL's session-scoped advisory locks, as internal/migrate and     *)
(* store.CycleLock rely on them: a key belongs to a session, whoever asks  *)
(* with pg_advisory_lock waits for it, whoever asks with                   *)
(* pg_try_advisory_lock does not, and a session's end gives up its keys    *)
(* and its place in the queue. The server may see that end long after the  *)
(* client has gone.                                                        *)
(***************************************************************************)
EXTENDS Integers, FiniteSets

CONSTANTS
    Sessions,      \* what names a session; free again when the session is over
    Nobody,
    MaxFaults      \* bound on the failures of a behaviour, of whatever kind

ASSUME NobodyAssumption == Nobody \notin Sessions
ASSUME FaultAssumption == MaxFaults \in Nat

VARIABLES
    open,      \* the sessions the server has
    grants,    \* key -> the session that holds it
    waits,     \* key -> the sessions blocked in pg_advisory_lock
    faults     \* failures so far

serverVars == <<open, grants, waits>>

\* advisoryLockKey of package migrate, and the key that must not collide with it.
advisoryLockKey == 1
SharedLockKey == 1
CorrelationLockKey == 2
Keys == {1, 2}

ServerTypeOK ==
    /\ open \subseteq Sessions
    /\ grants \in [Keys -> Sessions \union {Nobody}]
    /\ waits \in [Keys -> SUBSET Sessions]
    /\ faults \in 0..MaxFaults

ServerInit ==
    /\ open = {}
    /\ grants = [k \in Keys |-> Nobody]
    /\ waits = [k \in Keys |-> {}]
    /\ faults = 0

\* pg_advisory_lock: the key, or a place in its queue.
Lock(s, k) ==
    IF grants[k] = Nobody
    THEN grants' = [grants EXCEPT ![k] = s] /\ UNCHANGED waits
    ELSE waits' = [waits EXCEPT ![k] = @ \union {s}] /\ UNCHANGED grants

\* pg_advisory_unlock; of a key the session does not hold it is a warning.
Unlock(s, k) == grants' = IF grants[k] = s THEN [grants EXCEPT ![k] = Nobody] ELSE grants

\* The session is over.
EndSessions(S) ==
    /\ open' = open \ S
    /\ grants' = [k \in Keys |-> IF grants[k] \in S THEN Nobody ELSE grants[k]]
    /\ waits' = [k \in Keys |-> waits[k] \ S]

\* A waiting session gets the key.
Grant(k) ==
    /\ grants[k] = Nobody
    /\ \E s \in waits[k] : /\ grants' = [grants EXCEPT ![k] = s]
                           /\ waits' = [waits EXCEPT ![k] = @ \ {s}]
    /\ UNCHANGED <<open, faults>>

Fault == faults < MaxFaults /\ faults' = faults + 1
=============================================================================
