------------------------------- MODULE Locks --------------------------------
(***************************************************************************)
(* Migrations and the correlation lease against one PostgreSQL: two keys   *)
(* of one table of advisory locks.                                         *)
(***************************************************************************)
EXTENDS Migrations, CycleLock

\* A session is a run's or a replica's.
ASSUME SessionsAssumption == Runs \intersect LeaseSessions = {}

vars == <<serverVars, faults, runVars, leaseVars>>

TypeOK == ServerTypeOK /\ RunTypeOK /\ LeaseTypeOK

Init == ServerInit /\ RunInit /\ LeaseInit

\* PostgreSQL hands a free key to a session that waits for it.
Granted == \E k \in Keys : Grant(k) /\ UNCHANGED <<runVars, leaseVars>>

\* PostgreSQL notices that the client of a session has gone.
Noticed(s) ==
    /\ Orphan(s) \/ Abandoned(s)
    /\ EndSessions({s})
    /\ UNCHANGED <<faults, runVars, leaseVars>>

\* A session is lost under its client: a failover, a broken connection.
Lost(s) ==
    /\ s \in open
    /\ Fault
    /\ EndSessions({s})
    /\ idle' = [r \in Replicas |-> idle[r] \ {s}]
    /\ UNCHANGED <<runVars, state, conn>>

Next ==
    \/ \E r \in Runs : RunStep(r) /\ UNCHANGED leaseVars
    \/ \E r \in Replicas : LeaseStep(r) /\ UNCHANGED runVars
    \/ Granted
    \/ \E s \in Sessions : Noticed(s) \/ Lost(s)

\* A run goes on unless it fails; a replica calls Acquire again and again, and
\* stops when it is told to; its pool closes old sessions; PostgreSQL grants and
\* notices at last.
Spec ==
    /\ Init /\ [][Next]_vars
    /\ \A r \in Runs : WF_vars(RunWorks(r) /\ UNCHANGED leaseVars)
    /\ \A r \in Replicas : WF_vars(LeaseWorks(r) /\ UNCHANGED runVars)
    /\ \A r \in Replicas, s \in LeaseSessions : WF_vars(Recycle(r, s) /\ UNCHANGED runVars)
    /\ WF_vars(Granted)
    /\ \A s \in Sessions : WF_vars(Noticed(s))
=============================================================================
