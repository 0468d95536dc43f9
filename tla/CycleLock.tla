----------------------------- MODULE CycleLock ------------------------------
(***************************************************************************)
(* store.CycleLock: the lease by which one replica is to be elected for a  *)
(* periodic loop. A replica calls Acquire at every tick and Release when   *)
(* it stops; the lease lives on a session that is held for it, and its     *)
(* other connections are a pool.                                           *)
(***************************************************************************)
EXTENDS AdvisoryLocks

CONSTANTS
    Replicas,
    LeaseSessions  \* sessions of the replicas

ASSUME LeaseAssumption == LeaseSessions \subseteq Sessions

VARIABLES
    state,     \* replica -> "running", "stopping" (its context is done), "stopped"
    conn,      \* replica -> the session it believes to hold the lease on
    idle       \* replica -> the sessions in its pool

leaseVars == <<state, conn, idle>>

LeaseTypeOK ==
    /\ state \in [Replicas -> {"running", "stopping", "stopped"}]
    /\ conn \in [Replicas -> LeaseSessions \union {Nobody}]
    /\ idle \in [Replicas -> SUBSET LeaseSessions]

LeaseInit ==
    /\ state = [r \in Replicas |-> "running"]
    /\ conn = [r \in Replicas |-> Nobody]
    /\ idle = [r \in Replicas |-> {}]

Owned(r) == idle[r] \union ({conn[r]} \ {Nobody})
Unused == LeaseSessions \ (open \union UNION {Owned(r) : r \in Replicas})

-----------------------------------------------------------------------------

\* SELECT 1 sent through the pool finds a session that answers, whatever became
\* of the lease's own.
AnswersFromPool(r) == TRUE
\* Acquire sends it on the lease's session; when that answers, nothing changes.
Answers(r) == conn[r] \in open

\* Acquire finds the session gone at the server and forgets it; what it does next
\* is TryLease.
LoseLease(r) ==
    /\ state[r] # "stopped" /\ conn[r] # Nobody /\ ~Answers(r)
    /\ conn' = [conn EXCEPT ![r] = Nobody]
    /\ UNCHANGED <<serverVars, faults, state, idle>>

\* What may end in an error: the end of the replica's own context is no failure.
Fails(r) == IF state[r] = "stopping" THEN UNCHANGED faults ELSE Fault

\* Acquire's SELECT 1 fails with its connection, which breaks on the client's side
\* or is closed because the context ends before the answer: the lease is given up
\* although the server's session lives on with the key until PostgreSQL notices.
CheckBreaks(r) ==
    /\ state[r] # "stopped" /\ conn[r] # Nobody
    /\ Fails(r)
    /\ conn' = [conn EXCEPT ![r] = Nobody]
    /\ UNCHANGED <<serverVars, state, idle>>

\* It fails and the connection stays whole, since the server answers with an error
\* or the context was over before anything was sent: the lease is given up and the
\* session goes back to the pool with the key on it.
LeakLease(r) ==
    /\ state[r] # "stopped" /\ conn[r] \in open
    /\ Fails(r)
    /\ conn' = [conn EXCEPT ![r] = Nobody]
    /\ idle' = [idle EXCEPT ![r] = @ \union {conn[r]}]
    /\ UNCHANGED <<serverVars, state>>

\* The pool closes a session past its lifetime, or too long idle.
Recycle(r, s) ==
    /\ s \in idle[r]
    /\ EndSessions({s})
    /\ idle' = [idle EXCEPT ![r] = @ \ {s}]
    /\ UNCHANGED <<faults, state, conn>>

\* What pg_try_advisory_lock answers, not looked at and looked at.
HeldUnchecked(s) == TRUE
Held(s) == grants[CorrelationLockKey] \in {Nobody, s}

\* Acquire without a lease: a connection from the pool, old or new, is the lease's
\* if the key is free, and goes back if it is not.
TryLease(r) ==
    /\ state[r] = "running" /\ conn[r] = Nobody
    /\ \E s \in (idle[r] \intersect open) \union Unused :
          /\ open' = open \union {s}
          /\ IF Held(s)
             THEN /\ grants' = [grants EXCEPT ![CorrelationLockKey] =
                                    IF @ = Nobody THEN s ELSE @]
                  /\ conn' = [conn EXCEPT ![r] = s]
                  /\ idle' = [idle EXCEPT ![r] = @ \ {s}]
             ELSE /\ idle' = [idle EXCEPT ![r] = @ \union {s}]
                  /\ UNCHANGED <<grants, conn>>
    /\ UNCHANGED <<waits, faults, state>>

\* The try ends in an error for the caller. When it is cut off on its way the session
\* is closed, whether or not the key was taken; when the server refuses it the
\* session goes back.
TryFails(r) ==
    /\ state[r] = "running" /\ conn[r] = Nobody
    /\ Fault
    /\ \E s \in (idle[r] \intersect open) \union Unused :
          /\ open' = open \union {s}
          /\ \/ /\ grants' \in {grants, [grants EXCEPT ![CorrelationLockKey] =
                                          IF @ = Nobody THEN s ELSE @]}
                /\ idle' = [idle EXCEPT ![r] = @ \ {s}]
             \/ /\ idle' = [idle EXCEPT ![r] = @ \union {s}]
                /\ UNCHANGED grants
    /\ UNCHANGED <<waits, state, conn>>

\* The replica is told to stop.
Stop(r) ==
    /\ state[r] = "running"
    /\ Fault
    /\ state' = [state EXCEPT ![r] = "stopping"]
    /\ UNCHANGED <<serverVars, conn, idle>>

\* Release: the unlock goes out on a context that is not done.
Release(r) ==
    /\ state[r] = "stopping" /\ conn[r] # Nobody
    /\ IF conn[r] \in open THEN Unlock(conn[r], CorrelationLockKey) ELSE UNCHANGED grants
    /\ conn' = [conn EXCEPT ![r] = Nobody]
    /\ idle' = [idle EXCEPT ![r] = @ \union ({conn[r]} \intersect open)]
    /\ UNCHANGED <<open, waits, faults, state>>

\* The unlock fails, with its connection or without; Release logs that and forgets
\* the lease.
ReleaseFails(r) ==
    /\ state[r] = "stopping" /\ conn[r] # Nobody
    /\ Fault
    /\ conn' = [conn EXCEPT ![r] = Nobody]
    /\ idle' \in {idle, [idle EXCEPT ![r] = @ \union ({conn[r]} \intersect open)]}
    /\ UNCHANGED <<serverVars, state>>

\* The pool is closed, and its sessions with it.
Close(r) ==
    /\ state[r] = "stopping" /\ conn[r] = Nobody
    /\ EndSessions(idle[r])
    /\ idle' = [idle EXCEPT ![r] = {}]
    /\ state' = [state EXCEPT ![r] = "stopped"]
    /\ UNCHANGED <<faults, conn>>

\* The replica is killed; the server has still to notice.
Kill(r) ==
    /\ state[r] # "stopped"
    /\ Fault
    /\ conn' = [conn EXCEPT ![r] = Nobody]
    /\ idle' = [idle EXCEPT ![r] = {}]
    /\ state' = [state EXCEPT ![r] = "stopped"]
    /\ UNCHANGED serverVars

Start(r) ==
    /\ state[r] = "stopped"
    /\ state' = [state EXCEPT ![r] = "running"]
    /\ UNCHANGED <<serverVars, faults, conn, idle>>

LeaseStep(r) ==
    \/ LoseLease(r) \/ CheckBreaks(r) \/ LeakLease(r) \/ TryLease(r) \/ TryFails(r)
    \/ Stop(r) \/ Release(r) \/ ReleaseFails(r) \/ Close(r) \/ Kill(r) \/ Start(r)
    \/ \E s \in LeaseSessions : Recycle(r, s)

\* A tick, and the end of a replica that stops.
LeaseWorks(r) == LoseLease(r) \/ TryLease(r) \/ Release(r) \/ Close(r) \/ Start(r)

\* A session no replica has a connection to.
Abandoned(s) == s \in open /\ s \in LeaseSessions /\ \A r \in Replicas : s \notin Owned(r)

-----------------------------------------------------------------------------
(* Properties.                                                             *)

\* A replica that believes to be the evaluator is the one for PostgreSQL too, as
\* long as its session is alive; so there are never two (CycleLock.conn).
LeaderHoldsTheKey ==
    \A r \in Replicas : conn[r] \in open => grants[CorrelationLockKey] = conn[r]

\* However leases are lost, leaked or cut off and replicas stop, another replica is
\* let in at last: there is a leader again and again (Acquire).
SomeoneLeads == []<>(\E r \in Replicas : conn[r] \in open)
=============================================================================
