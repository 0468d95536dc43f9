----------------------------- MODULE Migrations -----------------------------
(***************************************************************************)
(* Command migrate: runs of "migrate up" and "migrate down n", started by  *)
(* whoever deploys, several at once and of different builds. A run works   *)
(* on one connection, which takes the migration lock, reads the versions   *)
(* that are applied, and executes each pending migration in a transaction  *)
(* with the row that records it. The run's session is named by the run.    *)
(* CREATE TABLE IF NOT EXISTS schema_migrations is part of the read: under *)
(* the lock it cannot fail for being repeated.                             *)
(***************************************************************************)
EXTENDS AdvisoryLocks

CONSTANTS
    Runs,          \* runs of the command, each done once
    Known,         \* run -> how many migrations its build embeds
    Steps,         \* run -> how many it rolls back; 0 for migrate up
    Latest         \* the number of migrations of the newest build

ASSUME RunAssumption == Runs \subseteq Sessions
ASSUME KnownAssumption == Latest \in Nat /\ Known \in [Runs -> 1..Latest] /\ Steps \in [Runs -> Nat]
\* Only the newest build rolls back; Down of an older one takes its own newest
\* migration for the most recently applied.
ASSUME DownAssumption == \A r \in Runs : Steps[r] > 0 => Known[r] = Latest

VARIABLES
    schema,    \* the migrations whose DDL is in effect
    rows,      \* the versions in schema_migrations
    pc,        \* run -> where it is
    plan,      \* run -> the migrations it still has to apply or to roll back
    result     \* run -> "none", "ok" or "error"

runVars == <<schema, rows, pc, plan, result>>

Versions == 1..Latest
PCs == {"new", "locking", "reading", "next", "executed", "recorded", "unlocking", "ended"}

RunTypeOK ==
    /\ schema \subseteq Versions /\ rows \subseteq Versions
    /\ pc \in [Runs -> PCs]
    /\ plan \in [Runs -> SUBSET Versions]
    /\ result \in [Runs -> {"none", "ok", "error"}]

RunInit ==
    /\ schema \in {1..n : n \in 0..Latest} /\ rows = schema   \* of earlier deployments
    /\ pc = [r \in Runs |-> "new"]
    /\ plan = [r \in Runs |-> {}]
    /\ result = [r \in Runs |-> "none"]

GoTo(r, where) == pc' = [pc EXCEPT ![r] = where]
\* What the run does to a set of migrations with the one it is at.
Applied(r, S, v) == IF Steps[r] = 0 THEN S \union {v} ELSE S \ {v}
\* Up goes through the migrations in order, Down in the reverse order.
IsNext(r, v) ==
    /\ v \in plan[r]
    /\ \A w \in plan[r] : IF Steps[r] = 0 THEN v <= w ELSE w <= v

-----------------------------------------------------------------------------

\* pool.Acquire.
Connect(r) ==
    /\ pc[r] = "new"
    /\ open' = open \union {r}
    /\ GoTo(r, "locking")
    /\ UNCHANGED <<grants, waits, faults, schema, rows, plan, result>>

\* A run that goes on without the lock.
TakeNoLock(r) == GoTo(r, "reading") /\ UNCHANGED <<grants, waits>>
\* pg_advisory_lock.
TakeLock(r) == Lock(r, advisoryLockKey) /\ GoTo(r, "locking")

AskLock(r) ==
    /\ pc[r] = "locking" /\ r \in open
    /\ grants[advisoryLockKey] # r /\ r \notin waits[advisoryLockKey]
    /\ TakeLock(r)
    /\ UNCHANGED <<open, faults, schema, rows, plan, result>>

\* pg_advisory_lock returns.
Locked(r) ==
    /\ pc[r] = "locking" /\ r \in open /\ grants[advisoryLockKey] = r
    /\ GoTo(r, "reading")
    /\ UNCHANGED <<serverVars, faults, schema, rows, plan, result>>

\* appliedVersions, and what Up and Down make of it.
ReadApplied(r) ==
    /\ pc[r] = "reading" /\ r \in open
    /\ plan' = [plan EXCEPT ![r] =
          IF Steps[r] = 0
          THEN {v \in 1..Known[r] : v \notin rows}
          ELSE {v \in 1..Known[r] \intersect rows :
                  Cardinality({w \in 1..Known[r] \intersect rows : v < w}) < Steps[r]}]
    /\ GoTo(r, "next")
    /\ UNCHANGED <<serverVars, faults, schema, rows, result>>

\* The migration executed on a connection of the pool, beside the transaction.
ExecuteOutside(r, v) == schema' = Applied(r, schema, v)
\* tx.Exec of a migration: seen by nobody before the commit.
ExecuteInTx(r, v) == UNCHANGED schema

Execute(r) ==
    /\ pc[r] = "next" /\ r \in open
    /\ \E v \in plan[r] : IsNext(r, v) /\ ExecuteInTx(r, v)
    /\ GoTo(r, "executed")
    /\ UNCHANGED <<serverVars, faults, rows, plan, result>>

\* The INSERT or DELETE of the version's row, in the same transaction.
Record(r) ==
    /\ pc[r] = "executed" /\ r \in open
    /\ GoTo(r, "recorded")
    /\ UNCHANGED <<serverVars, faults, schema, rows, plan, result>>

\* The server commits: the schema and its record change together.
Committed(r, v) ==
    /\ schema' = Applied(r, schema, v)
    /\ rows' = Applied(r, rows, v)

Commit(r) ==
    /\ pc[r] = "recorded" /\ r \in open
    /\ \E v \in plan[r] : /\ IsNext(r, v)
                          /\ Committed(r, v)
                          /\ plan' = [plan EXCEPT ![r] = @ \ {v}]
    /\ GoTo(r, "next")
    /\ UNCHANGED <<serverVars, faults, result>>

\* The commit happens, its answer is lost with the connection: an error for the
\* run, which does not go on.
CommitUnheard(r) ==
    /\ pc[r] = "recorded" /\ r \in open
    /\ Fault
    /\ \E v \in plan[r] : IsNext(r, v) /\ Committed(r, v)
    /\ EndSessions({r})
    /\ GoTo(r, "unlocking")
    /\ result' = [result EXCEPT ![r] = "error"]
    /\ UNCHANGED plan

\* No migration is left.
Complete(r) ==
    /\ pc[r] = "next" /\ r \in open /\ plan[r] = {}
    /\ GoTo(r, "unlocking")
    /\ result' = [result EXCEPT ![r] = "ok"]
    /\ UNCHANGED <<serverVars, faults, schema, rows, plan>>

\* A statement fails: runInTx rolls back what the transaction did.
StatementFails(r) ==
    /\ pc[r] \in {"reading", "next", "executed", "recorded"} /\ r \in open
    /\ Fault
    /\ GoTo(r, "unlocking")
    /\ result' = [result EXCEPT ![r] = "error"]
    /\ UNCHANGED <<serverVars, schema, rows, plan>>

\* A statement finds the connection gone.
ConnectionGone(r) ==
    /\ pc[r] \in {"locking", "reading", "next", "executed", "recorded"} /\ r \notin open
    /\ GoTo(r, "unlocking")
    /\ result' = [result EXCEPT ![r] = "error"]
    /\ UNCHANGED <<serverVars, faults, schema, rows, plan>>

\* The deferred unlock, on a context that outlives the run's, where the
\* connection is still there; then the pool is closed and the process exits.
Exit(r) ==
    /\ pc[r] = "unlocking"
    /\ EndSessions({r})
    /\ GoTo(r, "ended")
    /\ UNCHANGED <<faults, schema, rows, plan, result>>

\* The run is killed, or its timeout closes the connection in the middle of a
\* statement: the server is left with a session, and perhaps with its lock.
Abandon(r) ==
    /\ pc[r] \notin {"new", "ended"}
    /\ Fault
    /\ GoTo(r, "ended")
    /\ result' = [result EXCEPT ![r] = "error"]
    /\ UNCHANGED <<serverVars, schema, rows, plan>>

RunStep(r) ==
    \/ Connect(r) \/ AskLock(r) \/ Locked(r) \/ ReadApplied(r)
    \/ Execute(r) \/ Record(r) \/ Commit(r) \/ CommitUnheard(r) \/ Complete(r)
    \/ StatementFails(r) \/ ConnectionGone(r) \/ Exit(r) \/ Abandon(r)

\* What a run does when nothing fails.
RunWorks(r) ==
    AskLock(r) \/ Locked(r) \/ ReadApplied(r) \/ Execute(r) \/ Record(r) \/ Commit(r)
    \/ Complete(r) \/ ConnectionGone(r) \/ Exit(r)

\* A session without a run behind it, which the server has still to notice.
Orphan(s) == s \in open /\ s \in Runs /\ pc[s] = "ended"

-----------------------------------------------------------------------------
(* Properties.                                                             *)

\* The schema and its record agree whenever anyone looks: a crash, a failure or a
\* lost answer in the middle of a migration leaves neither applied, or both
\* (Up, runInTx).
SchemaIsRecorded == schema = rows

\* The migrations in effect are the first so many, however many runs go up and
\* down at once: none is applied before one it builds on, because the versions
\* are read and the migrations executed by one session at a time (Up, Down).
SchemaIsPrefix == \A v \in schema : 1..v \subseteq schema

\* No run waits for the migration lock for ever: not for another run, not for a
\* crashed one, and not for the correlation lease.
RunsEnd == \A r \in Runs : pc[r] = "locking" ~> pc[r] = "ended"
=============================================================================
