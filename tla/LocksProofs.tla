---------------------------- MODULE LocksProofs -----------------------------
(***************************************************************************)
(* Theorems about Locks, for any runs, builds, replicas and sessions.      *)
(*                                                                         *)
(* A run that is between the lock and the unlock on a live session holds   *)
(* the migration key, so what it read in schema_migrations is still there  *)
(* when it commits. A session belongs to one replica, so nobody gives up   *)
(* the lease of another.                                                   *)
(***************************************************************************)
EXTENDS Locks, FiniteSetTheorems, TLAPS

Working == {"reading", "next", "executed", "recorded"}
Planned == {"next", "executed", "recorded"}

WorkersHoldTheKey ==
    \A r \in Runs : pc[r] \in Working /\ r \in open => grants[advisoryLockKey] = r

\* What an upgrade has still to do is all that is not there; what a rollback has
\* still to do is there, and has nothing above it that would stay.
PlanIsFresh ==
    \A r \in Runs : pc[r] \in Planned /\ r \in open =>
        /\ Steps[r] = 0 => plan[r] = {v \in 1..Known[r] : v \notin rows}
        /\ Steps[r] > 0 => /\ plan[r] \subseteq rows
                           /\ \A v \in plan[r], w \in rows : v < w => w \in plan[r]

SessionsAreOwnedOnce ==
    /\ \A r \in Replicas : conn[r] \notin idle[r]
    /\ \A q, r \in Replicas : q # r => Owned(q) \intersect Owned(r) = {}

RunInv == WorkersHoldTheKey /\ PlanIsFresh /\ SchemaIsRecorded /\ SchemaIsPrefix
LeaseInv == SessionsAreOwnedOnce /\ LeaderHoldsTheKey
IInv == TypeOK /\ RunInv /\ LeaseInv

-----------------------------------------------------------------------------
(* Type correctness.                                                       *)

\* The end of sessions keeps the server's types.
LEMMA EndType ==
    ASSUME ServerTypeOK, NEW S, EndSessions(S)
    PROVE  /\ open' \subseteq Sessions
           /\ grants' \in [Keys -> Sessions \union {Nobody}]
           /\ waits' \in [Keys -> SUBSET Sessions]
BY DEF ServerTypeOK, EndSessions

LEMMA TypeRunStep ==
    ASSUME TypeOK, NEW r \in Runs, RunStep(r), UNCHANGED leaseVars
    PROVE  TypeOK'
<1>1. LeaseTypeOK'
  BY DEF TypeOK, LeaseTypeOK, leaseVars
<1>2. r \in Sessions /\ r # Nobody /\ advisoryLockKey \in Keys
  BY RunAssumption, NobodyAssumption DEF advisoryLockKey, Keys
<1>3. CASE Connect(r)
  BY <1>1, <1>2, <1>3 DEF Connect, GoTo, TypeOK, ServerTypeOK, RunTypeOK, PCs
<1>4. CASE AskLock(r)
  BY <1>1, <1>2, <1>4 DEF AskLock, TakeLock, Lock, GoTo, TypeOK, ServerTypeOK, RunTypeOK, PCs
<1>5. CASE Locked(r)
  BY <1>1, <1>5 DEF Locked, GoTo, serverVars, TypeOK, ServerTypeOK, RunTypeOK, PCs
<1>6. CASE ReadApplied(r)
  <2>1. 1..Known[r] \subseteq Versions
    BY KnownAssumption DEF Versions
  <2>2. plan' \in [Runs -> SUBSET Versions]
    BY <1>6, <2>1 DEF ReadApplied, TypeOK, RunTypeOK
  <2>3. QED
    BY <1>1, <1>6, <2>2 DEF ReadApplied, GoTo, serverVars, TypeOK, ServerTypeOK, RunTypeOK, PCs
<1>7. CASE Execute(r)
  BY <1>1, <1>7 DEF Execute, ExecuteInTx, GoTo, serverVars, TypeOK, ServerTypeOK, RunTypeOK, PCs
<1>8. CASE Record(r)
  BY <1>1, <1>8 DEF Record, GoTo, serverVars, TypeOK, ServerTypeOK, RunTypeOK, PCs
<1>9. CASE Commit(r)
  BY <1>1, <1>9 DEF Commit, IsNext, Committed, Applied, GoTo, serverVars, TypeOK,
                    ServerTypeOK, RunTypeOK, PCs
<1>10. CASE CommitUnheard(r)
  <2>1. EndSessions({r}) /\ ServerTypeOK
    BY <1>10 DEF CommitUnheard, TypeOK
  <2>2. RunTypeOK' /\ faults' \in 0..MaxFaults
    BY <1>10, FaultAssumption DEF CommitUnheard, IsNext, Committed, Applied, Fault, GoTo,
       TypeOK, ServerTypeOK, RunTypeOK, PCs
  <2>3. QED
    BY <1>1, <2>1, <2>2, EndType DEF TypeOK, ServerTypeOK
<1>11. CASE Complete(r)
  BY <1>1, <1>11 DEF Complete, GoTo, serverVars, TypeOK, ServerTypeOK, RunTypeOK, PCs
<1>12. CASE StatementFails(r)
  BY <1>1, <1>12, FaultAssumption
     DEF StatementFails, Fault, GoTo, serverVars, TypeOK, ServerTypeOK, RunTypeOK, PCs
<1>13. CASE ConnectionGone(r)
  BY <1>1, <1>13 DEF ConnectionGone, GoTo, serverVars, TypeOK, ServerTypeOK, RunTypeOK, PCs
<1>14. CASE Exit(r)
  <2>1. EndSessions({r}) /\ ServerTypeOK
    BY <1>14 DEF Exit, TypeOK
  <2>2. RunTypeOK' /\ faults' \in 0..MaxFaults
    BY <1>14 DEF Exit, GoTo, TypeOK, ServerTypeOK, RunTypeOK, PCs
  <2>3. QED
    BY <1>1, <2>1, <2>2, EndType DEF TypeOK, ServerTypeOK
<1>15. CASE Abandon(r)
  BY <1>1, <1>15, FaultAssumption
     DEF Abandon, Fault, GoTo, serverVars, TypeOK, ServerTypeOK, RunTypeOK, PCs
<1>16. QED
  BY <1>3, <1>4, <1>5, <1>6, <1>7, <1>8, <1>9, <1>10, <1>11, <1>12, <1>13, <1>14, <1>15
     DEF RunStep

LEMMA TypeLeaseStep ==
    ASSUME TypeOK, NEW r \in Replicas, LeaseStep(r), UNCHANGED runVars
    PROVE  TypeOK'
<1>1. RunTypeOK'
  BY DEF TypeOK, RunTypeOK, runVars
<1>2. /\ conn[r] \in LeaseSessions \union {Nobody}
      /\ LeaseSessions \subseteq Sessions
      /\ CorrelationLockKey \in Keys
  BY LeaseAssumption DEF TypeOK, LeaseTypeOK, CorrelationLockKey, Keys
<1>3. CASE LoseLease(r)
  BY <1>1, <1>2, <1>3 DEF LoseLease, serverVars, TypeOK, ServerTypeOK, LeaseTypeOK
<1>4. CASE CheckBreaks(r) \/ LeakLease(r) \/ ReleaseFails(r)
  <2>1. faults' \in 0..MaxFaults
    BY <1>4, FaultAssumption
       DEF CheckBreaks, LeakLease, ReleaseFails, Fails, Fault, TypeOK, ServerTypeOK
  <2>2. conn' \in [Replicas -> LeaseSessions \union {Nobody}] /\ UNCHANGED <<serverVars, state>>
    BY <1>4 DEF CheckBreaks, LeakLease, ReleaseFails, TypeOK, LeaseTypeOK
  <2>3. idle' \in [Replicas -> SUBSET LeaseSessions]
    BY <1>2, <1>4, NobodyAssumption
       DEF CheckBreaks, LeakLease, ReleaseFails, TypeOK, ServerTypeOK, LeaseTypeOK
  <2>4. QED
    BY <1>1, <2>1, <2>2, <2>3 DEF serverVars, TypeOK, ServerTypeOK, LeaseTypeOK
<1>5. (idle[r] \intersect open) \union Unused \subseteq LeaseSessions
  BY DEF Unused, TypeOK, LeaseTypeOK
<1>6. CASE TryLease(r)
  <2>1. PICK s \in LeaseSessions :
          /\ open' = open \union {s}
          /\ \/ grants' = [grants EXCEPT ![CorrelationLockKey] = IF @ = Nobody THEN s ELSE @]
             \/ grants' = grants
          /\ \/ conn' = [conn EXCEPT ![r] = s] /\ idle' = [idle EXCEPT ![r] = @ \ {s}]
             \/ conn' = conn /\ idle' = [idle EXCEPT ![r] = @ \union {s}]
          /\ UNCHANGED <<waits, faults, state>>
    BY <1>5, <1>6 DEF TryLease
  <2>2. s \in Sessions
    BY <1>2
  <2>3. ServerTypeOK'
    BY <1>2, <2>1, <2>2 DEF TypeOK, ServerTypeOK
  <2>4. LeaseTypeOK'
    BY <2>1 DEF TypeOK, LeaseTypeOK
  <2>5. QED
    BY <1>1, <2>3, <2>4 DEF TypeOK
<1>7. CASE TryFails(r)
  <2>1. PICK s \in LeaseSessions :
          /\ open' = open \union {s}
          /\ grants' \in {grants, [grants EXCEPT ![CorrelationLockKey] = IF @ = Nobody THEN s ELSE @]}
          /\ idle' \in {[idle EXCEPT ![r] = @ \ {s}], [idle EXCEPT ![r] = @ \union {s}]}
          /\ faults < MaxFaults /\ faults' = faults + 1
          /\ UNCHANGED <<waits, state, conn>>
    BY <1>5, <1>7 DEF TryFails, Fault
  <2>2. s \in Sessions
    BY <1>2
  <2>3. ServerTypeOK'
    BY <1>2, <2>1, <2>2, FaultAssumption DEF TypeOK, ServerTypeOK
  <2>4. LeaseTypeOK'
    BY <2>1 DEF TypeOK, LeaseTypeOK
  <2>5. QED
    BY <1>1, <2>3, <2>4 DEF TypeOK
<1>8. CASE Stop(r)
  BY <1>1, <1>8, FaultAssumption DEF Stop, Fault, serverVars, TypeOK, ServerTypeOK, LeaseTypeOK
<1>9. CASE Release(r)
  BY <1>1, <1>2, <1>9 DEF Release, Unlock, TypeOK, ServerTypeOK, LeaseTypeOK
<1>10. CASE Close(r)
  <2>1. EndSessions(idle[r]) /\ ServerTypeOK /\ LeaseTypeOK' /\ faults' = faults
    BY <1>10 DEF Close, TypeOK, LeaseTypeOK
  <2>2. QED
    BY <1>1, <2>1, EndType DEF TypeOK, ServerTypeOK
<1>11. CASE Kill(r)
  BY <1>1, <1>11, FaultAssumption DEF Kill, Fault, serverVars, TypeOK, ServerTypeOK, LeaseTypeOK
<1>12. CASE Start(r)
  BY <1>1, <1>12 DEF Start, serverVars, TypeOK, ServerTypeOK, LeaseTypeOK
<1>13. ASSUME NEW s \in LeaseSessions, Recycle(r, s)
       PROVE  TypeOK'
  <2>1. EndSessions({s}) /\ ServerTypeOK /\ LeaseTypeOK' /\ faults' = faults
    BY <1>13 DEF Recycle, TypeOK, LeaseTypeOK
  <2>2. QED
    BY <1>1, <2>1, EndType DEF TypeOK, ServerTypeOK
<1>14. QED
  BY <1>3, <1>4, <1>6, <1>7, <1>8, <1>9, <1>10, <1>11, <1>12, <1>13 DEF LeaseStep

\* Every step keeps the types.
LEMMA TypeStep ==
    ASSUME TypeOK, [Next]_vars
    PROVE  TypeOK'
<1>1. CASE Granted
  BY <1>1 DEF Granted, Grant, TypeOK, ServerTypeOK, RunTypeOK, LeaseTypeOK, runVars, leaseVars
<1>2. ASSUME NEW s \in Sessions, Noticed(s)
      PROVE  TypeOK'
  <2>1. EndSessions({s}) /\ ServerTypeOK /\ faults' = faults /\ RunTypeOK' /\ LeaseTypeOK'
    BY <1>2 DEF Noticed, TypeOK, RunTypeOK, LeaseTypeOK, runVars, leaseVars
  <2>2. QED
    BY <2>1, EndType DEF TypeOK, ServerTypeOK
<1>3. ASSUME NEW s \in Sessions, Lost(s)
      PROVE  TypeOK'
  <2>1. EndSessions({s}) /\ ServerTypeOK /\ RunTypeOK' /\ LeaseTypeOK'
    BY <1>3 DEF Lost, TypeOK, RunTypeOK, LeaseTypeOK, runVars
  <2>2. faults' \in 0..MaxFaults
    BY <1>3, FaultAssumption DEF Lost, Fault, TypeOK, ServerTypeOK
  <2>3. QED
    BY <2>1, <2>2, EndType DEF TypeOK, ServerTypeOK
<1>4. CASE UNCHANGED vars
  BY <1>4 DEF vars, serverVars, runVars, leaseVars, TypeOK, ServerTypeOK, RunTypeOK, LeaseTypeOK
<1>5. QED
  BY <1>1, <1>2, <1>3, <1>4, TypeRunStep, TypeLeaseStep DEF Next

LEMMA TypeInit == Init => TypeOK
<1>1. SUFFICES ASSUME Init PROVE TypeOK
  OBVIOUS
<1>2. ServerTypeOK /\ LeaseTypeOK
  BY <1>1, FaultAssumption DEF Init, ServerInit, LeaseInit, ServerTypeOK, LeaseTypeOK
<1>3. schema \subseteq Versions
  BY <1>1, KnownAssumption DEF Init, RunInit, Versions
<1>4. QED
  BY <1>1, <1>2, <1>3 DEF Init, RunInit, RunTypeOK, PCs, TypeOK

\* The types of the locks, the schema and the lease.
THEOREM TypeCorrect == Spec => []TypeOK
<1>1. QED
  BY TypeInit, TypeStep, PTL DEF Spec

-----------------------------------------------------------------------------
(* The schema.                                                             *)

\* A step that is no run's own ends sessions of runs, or leaves them their key.
Undisturbed ==
    /\ UNCHANGED runVars
    /\ \A r \in Runs : r \in open' => r \in open
    /\ \A r \in Runs : r \in open' /\ grants[advisoryLockKey] = r => grants'[advisoryLockKey] = r

LEMMA UndisturbedKeeps ==
    ASSUME RunInv, Undisturbed
    PROVE  RunInv'
<1>1. schema' = schema /\ rows' = rows /\ pc' = pc /\ plan' = plan
  BY DEF Undisturbed, runVars
<1>2. WorkersHoldTheKey'
  BY <1>1 DEF RunInv, WorkersHoldTheKey, Undisturbed
<1>3. PlanIsFresh'
  BY <1>1 DEF RunInv, PlanIsFresh, Undisturbed
<1>4. SchemaIsRecorded' /\ SchemaIsPrefix'
  BY <1>1 DEF RunInv, SchemaIsRecorded, SchemaIsPrefix
<1>5. QED
  BY <1>2, <1>3, <1>4 DEF RunInv

\* The steps of replicas and of the server.
LEMMA OthersDoNotDisturb ==
    ASSUME TypeOK, [Next]_vars, ~\E r \in Runs : RunStep(r) /\ UNCHANGED leaseVars
    PROVE  Undisturbed
<1>1. /\ advisoryLockKey \in Keys /\ advisoryLockKey # CorrelationLockKey
      /\ \A r \in Runs : r \notin LeaseSessions /\ r # Nobody
      /\ grants \in [Keys -> Sessions \union {Nobody}]
      /\ \A r \in Replicas : idle[r] \subseteq LeaseSessions
  BY SessionsAssumption, RunAssumption, NobodyAssumption
     DEF advisoryLockKey, CorrelationLockKey, Keys, TypeOK, ServerTypeOK, LeaseTypeOK
<1>2. ASSUME NEW q \in Replicas, LeaseStep(q), UNCHANGED runVars
      PROVE  Undisturbed
  <2>1. (idle[q] \intersect open) \union Unused \subseteq LeaseSessions
    BY <1>1 DEF Unused
  <2>2. CASE \/ LoseLease(q) \/ CheckBreaks(q) \/ LeakLease(q) \/ ReleaseFails(q)
             \/ Stop(q) \/ Kill(q) \/ Start(q)
    BY <1>2, <2>2 DEF LoseLease, CheckBreaks, LeakLease, ReleaseFails, Stop, Kill, Start,
                      serverVars, Undisturbed
  <2>3. CASE TryLease(q)
    BY <1>1, <1>2, <2>1, <2>3 DEF TryLease, Undisturbed
  <2>4. CASE TryFails(q)
    BY <1>1, <1>2, <2>1, <2>4 DEF TryFails, Undisturbed
  <2>5. CASE Release(q)
    BY <1>1, <1>2, <2>5 DEF Release, Unlock, Undisturbed
  <2>6. CASE Close(q)
    BY <1>1, <1>2, <2>6 DEF Close, EndSessions, Undisturbed
  <2>7. CASE \E s \in LeaseSessions : Recycle(q, s)
    BY <1>1, <1>2, <2>7 DEF Recycle, EndSessions, Undisturbed
  <2>8. QED
    BY <1>2, <2>2, <2>3, <2>4, <2>5, <2>6, <2>7 DEF LeaseStep
<1>3. CASE Granted
  BY <1>1, <1>3 DEF Granted, Grant, Undisturbed
<1>4. ASSUME NEW s \in Sessions, EndSessions({s}), UNCHANGED runVars
      PROVE  Undisturbed
  BY <1>1, <1>4 DEF EndSessions, Undisturbed
<1>5. CASE UNCHANGED vars
  BY <1>5 DEF vars, serverVars, Undisturbed
<1>6. QED
  BY <1>2, <1>3, <1>4, <1>5 DEF Next, Noticed, Lost

\* Who works on a live session is alone in that.
LEMMA OneWorker ==
    ASSUME WorkersHoldTheKey, NEW q \in Runs, NEW r \in Runs,
           pc[q] \in Working, q \in open, pc[r] \in Working, r \in open
    PROVE  q = r
BY DEF WorkersHoldTheKey

\* The key stays with whoever works, whatever run makes a step.
LEMMA KeyStays ==
    ASSUME TypeOK, RunInv, NEW r \in Runs, RunStep(r)
    PROVE  WorkersHoldTheKey'
<1>1. /\ WorkersHoldTheKey /\ pc \in [Runs -> PCs]
      /\ grants \in [Keys -> Sessions \union {Nobody}] /\ advisoryLockKey \in Keys
      /\ \A q \in Runs : q # Nobody
  BY RunAssumption, NobodyAssumption
     DEF TypeOK, ServerTypeOK, RunTypeOK, RunInv, advisoryLockKey, Keys
<1>2. CASE Connect(r)
  BY <1>1, <1>2 DEF Connect, GoTo, WorkersHoldTheKey, Working
<1>3. CASE AskLock(r)
  BY <1>1, <1>3 DEF AskLock, TakeLock, Lock, GoTo, WorkersHoldTheKey, Working
<1>4. CASE Locked(r)
  BY <1>1, <1>4 DEF Locked, GoTo, serverVars, WorkersHoldTheKey, Working
<1>5. CASE ReadApplied(r)
  BY <1>1, <1>5 DEF ReadApplied, GoTo, serverVars, WorkersHoldTheKey, Working
<1>6. CASE Execute(r) \/ Record(r) \/ Commit(r)
  BY <1>1, <1>6 DEF Execute, Record, Commit, GoTo, serverVars, WorkersHoldTheKey, Working
<1>7. CASE CommitUnheard(r) \/ Exit(r)
  BY <1>1, <1>7 DEF CommitUnheard, Exit, EndSessions, GoTo, WorkersHoldTheKey, Working
<1>8. CASE Complete(r) \/ StatementFails(r) \/ ConnectionGone(r) \/ Abandon(r)
  BY <1>1, <1>8 DEF Complete, StatementFails, ConnectionGone, Abandon, GoTo, serverVars,
                    WorkersHoldTheKey, Working
<1>9. QED
  BY <1>2, <1>3, <1>4, <1>5, <1>6, <1>7, <1>8 DEF RunStep

\* What a run reads under the lock is its plan for what is there now.
LEMMA ReadIsFresh ==
    ASSUME TypeOK, NEW r \in Runs, ReadApplied(r)
    PROVE  /\ Steps[r] = 0 => plan'[r] = {v \in 1..Known[r] : v \notin rows}
           /\ Steps[r] > 0 => /\ plan'[r] \subseteq rows
                              /\ \A v \in plan'[r], w \in rows : v < w => w \in plan'[r]
<1>1. plan \in [Runs -> SUBSET Versions] /\ rows \subseteq Versions
  BY DEF TypeOK, RunTypeOK
<1>2. CASE Steps[r] = 0
  BY <1>1, <1>2 DEF ReadApplied
<1>3. CASE Steps[r] > 0
  <2> DEFINE there == 1..Known[r] \intersect rows
             above(v) == {w \in there : v < w}
  <2>1. Known[r] = Latest /\ Latest \in Nat /\ Steps[r] \in Nat
    BY <1>3, DownAssumption, KnownAssumption
  <2>2. there = rows
    BY <1>1, <2>1 DEF Versions
  <2>3. Steps[r] # 0
    BY <1>3, <2>1
  <2>4. plan'[r] = {v \in there : Cardinality(above(v)) < Steps[r]}
    BY <1>1, <2>3 DEF ReadApplied
  <2>5. IsFiniteSet(there)
    <3>1. IsFiniteSet(1..Latest)
      BY <2>1, FS_Interval
    <3>2. QED
      BY <2>1, <3>1, FS_Subset
  <2>6. ASSUME NEW v \in plan'[r], NEW w \in rows, v < w
        PROVE  w \in plan'[r]
    <3>1. v \in Int /\ w \in Int /\ \A x \in there : x \in Int
      BY <1>1, <2>2, <2>4 DEF Versions
    <3>2. above(w) \in SUBSET above(v)
      BY <2>6, <3>1
    <3>3. above(v) \in SUBSET there
      OBVIOUS
    <3>4. IsFiniteSet(above(v)) /\ IsFiniteSet(above(w))
      BY <2>5, <3>2, <3>3, FS_Subset
    <3>5. /\ Cardinality(above(w)) <= Cardinality(above(v))
          /\ Cardinality(above(w)) \in Nat /\ Cardinality(above(v)) \in Nat
      BY <3>2, <3>4, FS_Subset, FS_CardinalityType
    <3>6. Cardinality(above(v)) < Steps[r]
      BY <2>4, <2>6
    <3>7. Cardinality(above(w)) < Steps[r]
      BY <2>1, <3>5, <3>6
    <3>8. QED
      BY <2>2, <2>4, <3>7
  <2>7. plan'[r] \subseteq rows
    BY <2>2, <2>4
  <2>8. QED
    BY <2>3, <2>6, <2>7
<1>4. QED
  BY <1>2, <1>3

\* The next migration keeps what is in effect without gaps, and the rest of the
\* plan as fresh as it was.
LEMMA CommitIsSound ==
    ASSUME TypeOK, RunInv, NEW r \in Runs, pc[r] \in Planned, r \in open,
           NEW v \in plan[r], IsNext(r, v)
    PROVE  LET S == Applied(r, rows, v)
           IN  /\ \A w \in S : 1..w \subseteq S
               /\ Steps[r] = 0 => plan[r] \ {v} = {w \in 1..Known[r] : w \notin S}
               /\ Steps[r] > 0 => /\ plan[r] \ {v} \subseteq S
                                  /\ \A u \in plan[r] \ {v}, w \in S : u < w => w \in plan[r] \ {v}
<1>1. /\ rows \subseteq Versions /\ plan[r] \subseteq Versions /\ Latest \in Nat
      /\ \A w \in rows : 1..w \subseteq rows
      /\ Known[r] \in 1..Latest /\ Steps[r] \in Nat
  BY KnownAssumption DEF TypeOK, RunTypeOK, RunInv, SchemaIsRecorded, SchemaIsPrefix
<1>2. /\ Steps[r] = 0 => plan[r] = {w \in 1..Known[r] : w \notin rows}
      /\ Steps[r] > 0 => /\ plan[r] \subseteq rows
                         /\ \A u \in plan[r], w \in rows : u < w => w \in plan[r]
  BY DEF RunInv, PlanIsFresh
<1>3. \A w \in Versions : w \in Int /\ w >= 1
  BY <1>1 DEF Versions
<1>4. CASE Steps[r] = 0
  <2>1. Applied(r, rows, v) = rows \union {v}
    BY <1>4 DEF Applied
  <2>2. plan[r] \ {v} = {w \in 1..Known[r] : w \notin rows \union {v}}
    BY <1>2, <1>4
  <2>3. ASSUME NEW w \in rows \union {v}, NEW x \in 1..w
        PROVE  x \in rows \union {v}
    <3>1. CASE w \in rows
      BY <1>1, <2>3, <3>1
    <3>2. CASE w = v /\ x # v
      <4>1. v \in 1..Known[r] /\ x \in 1..Known[r] /\ ~(v <= x)
        BY <1>1, <1>2, <1>4, <2>3, <3>2
      <4>2. x \notin plan[r]
        BY <1>4, <4>1 DEF IsNext
      <4>3. QED
        BY <1>2, <1>4, <4>1, <4>2
    <3>3. QED
      BY <3>1, <3>2
  <2>4. QED
    BY <1>4, <2>1, <2>2, <2>3
<1>5. CASE Steps[r] > 0
  <2>1. Applied(r, rows, v) = rows \ {v} /\ Steps[r] # 0
    BY <1>1, <1>5 DEF Applied
  <2>2. \A w \in rows : w <= v
    <3>1. SUFFICES ASSUME NEW w \in rows, v < w PROVE FALSE
      BY <1>1, <1>3
    <3>2. w \in plan[r]
      BY <1>2, <1>5, <3>1
    <3>3. w <= v
      BY <2>1, <3>2 DEF IsNext
    <3>4. QED
      BY <1>1, <1>3, <3>1, <3>3
  <2>3. ASSUME NEW w \in rows \ {v}, NEW x \in 1..w
        PROVE  x \in rows \ {v}
    <3>1. w \in Int /\ v \in Int /\ w <= v /\ w # v
      BY <1>1, <1>3, <2>2
    <3>2. x # v
      BY <3>1
    <3>3. QED
      BY <1>1, <3>2
  <2>4. /\ plan[r] \ {v} \subseteq rows \ {v}
        /\ \A u \in plan[r] \ {v}, w \in rows \ {v} : u < w => w \in plan[r] \ {v}
    BY <1>2, <1>5
  <2>5. QED
    BY <2>1, <2>3, <2>4
<1>6. QED
  BY <1>1, <1>4, <1>5

LEMMA RunKeeps ==
    ASSUME TypeOK, RunInv, NEW r \in Runs, RunStep(r)
    PROVE  RunInv'
<1>1. WorkersHoldTheKey'
  BY KeyStays
<1>2. /\ WorkersHoldTheKey /\ PlanIsFresh /\ schema = rows
      /\ \A v \in rows : 1..v \subseteq rows
      /\ pc \in [Runs -> PCs] /\ plan \in [Runs -> SUBSET Versions]
  BY DEF RunInv, TypeOK, RunTypeOK, SchemaIsRecorded, SchemaIsPrefix
<1>3. Planned \subseteq Working
  BY DEF Planned, Working
<1>4. ASSUME UNCHANGED <<schema, rows, plan>>, \A q \in Runs : q # r => pc'[q] = pc[q],
             \A q \in Runs : q # r /\ q \in open' => q \in open,
             pc'[r] \in Planned => pc[r] \in Planned /\ r \in open
      PROVE  RunInv'
  <2>1. PlanIsFresh'
    BY <1>2, <1>4 DEF PlanIsFresh
  <2>2. SchemaIsRecorded' /\ SchemaIsPrefix'
    BY <1>2, <1>4 DEF SchemaIsRecorded, SchemaIsPrefix
  <2>3. QED
    BY <1>1, <2>1, <2>2 DEF RunInv
<1>5. CASE Connect(r) \/ AskLock(r) \/ Locked(r)
  BY <1>2, <1>4, <1>5 DEF Connect, AskLock, TakeLock, Locked, GoTo, serverVars, Planned
<1>6. CASE Execute(r) \/ Record(r) \/ Complete(r)
  BY <1>2, <1>4, <1>6 DEF Execute, ExecuteInTx, Record, Complete, GoTo, serverVars, Planned
<1>7. CASE StatementFails(r) \/ ConnectionGone(r) \/ Exit(r) \/ Abandon(r)
  BY <1>2, <1>4, <1>7 DEF StatementFails, ConnectionGone, Exit, Abandon, EndSessions, GoTo,
                          serverVars, Planned
<1>8. CASE ReadApplied(r)
  <2>1. \A q \in Runs : q # r => pc'[q] = pc[q] /\ plan'[q] = plan[q]
    BY <1>2, <1>8 DEF ReadApplied, GoTo
  <2>2. UNCHANGED <<schema, rows, open>>
    BY <1>8 DEF ReadApplied, serverVars
  <2>3. PlanIsFresh'
    <3>1. SUFFICES ASSUME NEW q \in Runs, pc'[q] \in Planned, q \in open
                   PROVE  /\ Steps[q] = 0 => plan'[q] = {v \in 1..Known[q] : v \notin rows}
                          /\ Steps[q] > 0 =>
                               /\ plan'[q] \subseteq rows
                               /\ \A v \in plan'[q], w \in rows : v < w => w \in plan'[q]
      BY <2>2 DEF PlanIsFresh
    <3>2. CASE q = r
      BY <1>8, <3>2, ReadIsFresh
    <3>3. CASE q # r
      BY <1>2, <2>1, <3>1, <3>3 DEF PlanIsFresh
    <3>4. QED
      BY <3>2, <3>3
  <2>4. SchemaIsRecorded' /\ SchemaIsPrefix'
    BY <1>2, <2>2 DEF SchemaIsRecorded, SchemaIsPrefix
  <2>5. QED
    BY <1>1, <2>3, <2>4 DEF RunInv
<1>9. CASE Commit(r) \/ CommitUnheard(r)
  <2>1. pc[r] = "recorded" /\ r \in open /\ pc[r] \in Planned
    BY <1>9 DEF Commit, CommitUnheard, Planned
  <2>2. PICK v \in plan[r] : IsNext(r, v) /\ Committed(r, v)
                             /\ (plan' = plan \/ plan' = [plan EXCEPT ![r] = @ \ {v}])
                             /\ (Commit(r) => plan' = [plan EXCEPT ![r] = @ \ {v}])
    <3>1. CASE Commit(r)
      BY <3>1 DEF Commit
    <3>2. CASE CommitUnheard(r)
      <4>1. ~Commit(r)
        BY <3>2 DEF CommitUnheard, Commit, GoTo, RunTypeOK, TypeOK
      <4>2. QED
        BY <3>2, <4>1 DEF CommitUnheard
    <3>3. QED
      BY <1>9, <3>1, <3>2
  <2>3. schema' = Applied(r, rows, v) /\ rows' = Applied(r, rows, v)
    BY <1>2, <2>2 DEF Committed
  <2>4. /\ \A w \in rows' : 1..w \subseteq rows'
        /\ Steps[r] = 0 => plan[r] \ {v} = {w \in 1..Known[r] : w \notin rows'}
        /\ Steps[r] > 0 => /\ plan[r] \ {v} \subseteq rows'
                           /\ \A u \in plan[r] \ {v}, w \in rows' : u < w => w \in plan[r] \ {v}
    BY <2>1, <2>2, <2>3, CommitIsSound
  <2>5. SchemaIsRecorded' /\ SchemaIsPrefix'
    BY <2>3, <2>4 DEF SchemaIsRecorded, SchemaIsPrefix
  <2>6. ASSUME NEW q \in Runs, pc'[q] \in Planned, q \in open'
        PROVE  q = r /\ Commit(r)
    <3>1. CASE Commit(r)
      <4>1. open' = open /\ (q # r => pc'[q] = pc[q])
        BY <1>2, <3>1 DEF Commit, GoTo, serverVars
      <4>2. QED
        BY <1>2, <1>3, <2>1, <2>6, <3>1, <4>1, OneWorker
    <3>2. CASE CommitUnheard(r)
      <4>1. open' = open \ {r} /\ (q # r => pc'[q] = pc[q])
        BY <1>2, <3>2 DEF CommitUnheard, EndSessions, GoTo
      <4>2. QED
        BY <1>2, <1>3, <2>1, <2>6, <4>1, OneWorker
    <3>3. QED
      BY <1>9, <3>1, <3>2
  <2>7. PlanIsFresh'
    <3>1. SUFFICES ASSUME NEW q \in Runs, pc'[q] \in Planned, q \in open'
                   PROVE  /\ Steps[q] = 0 => plan'[q] = {w \in 1..Known[q] : w \notin rows'}
                          /\ Steps[q] > 0 =>
                               /\ plan'[q] \subseteq rows'
                               /\ \A u \in plan'[q], w \in rows' : u < w => w \in plan'[q]
      BY DEF PlanIsFresh
    <3>2. q = r /\ plan'[r] = plan[r] \ {v}
      BY <1>2, <2>2, <2>6, <3>1
    <3>3. QED
      BY <2>4, <3>2
  <2>8. QED
    BY <1>1, <2>5, <2>7 DEF RunInv
<1>10. QED
  BY <1>5, <1>6, <1>7, <1>8, <1>9 DEF RunStep

-----------------------------------------------------------------------------
(* The lease.                                                              *)

\* A step that is no replica's own leaves the leader its key, or ends its session.
LeaseUndisturbed ==
    /\ UNCHANGED <<state, conn>>
    /\ \A r \in Replicas : idle'[r] \subseteq idle[r]
    /\ \A s \in LeaseSessions : s \in open' => s \in open
    /\ \A s \in LeaseSessions : s \in open' /\ grants[CorrelationLockKey] = s
                                  => grants'[CorrelationLockKey] = s

LEMMA LeaseUndisturbedKeeps ==
    ASSUME TypeOK, LeaseInv, LeaseUndisturbed, TypeOK'
    PROVE  LeaseInv'
<1>1. \A r \in Replicas : conn'[r] = conn[r] /\ Owned(r)' \subseteq Owned(r)
  BY DEF LeaseUndisturbed, Owned
<1>2. SessionsAreOwnedOnce'
  BY <1>1 DEF LeaseInv, SessionsAreOwnedOnce, LeaseUndisturbed
<1>3. \A r \in Replicas : conn[r] \in open' => conn[r] \in LeaseSessions
  BY NobodyAssumption DEF TypeOK, LeaseTypeOK, ServerTypeOK
<1>4. LeaderHoldsTheKey'
  BY <1>1, <1>3 DEF LeaseInv, LeaderHoldsTheKey, LeaseUndisturbed
<1>5. QED
  BY <1>2, <1>4 DEF LeaseInv

\* The steps of runs and of the server.
LEMMA OthersLeaveTheLease ==
    ASSUME TypeOK, [Next]_vars, ~\E r \in Replicas : LeaseStep(r) /\ UNCHANGED runVars
    PROVE  LeaseUndisturbed
<1>1. /\ CorrelationLockKey \in Keys /\ advisoryLockKey # CorrelationLockKey
      /\ \A r \in Runs : r \notin LeaseSessions
      /\ \A s \in LeaseSessions : s # Nobody
      /\ grants \in [Keys -> Sessions \union {Nobody}]
  BY SessionsAssumption, LeaseAssumption, NobodyAssumption
     DEF advisoryLockKey, CorrelationLockKey, Keys, TypeOK, ServerTypeOK
<1>2. ASSUME NEW r \in Runs, RunStep(r), UNCHANGED leaseVars
      PROVE  LeaseUndisturbed
  <2>1. UNCHANGED <<state, conn, idle>>
    BY <1>2 DEF leaseVars
  <2>2. CASE Connect(r)
    BY <1>1, <2>1, <2>2 DEF Connect, LeaseUndisturbed
  <2>3. CASE AskLock(r)
    BY <1>1, <2>1, <2>3 DEF AskLock, TakeLock, Lock, LeaseUndisturbed
  <2>4. CASE CommitUnheard(r) \/ Exit(r)
    BY <1>1, <2>1, <2>4 DEF CommitUnheard, Exit, EndSessions, LeaseUndisturbed
  <2>5. CASE UNCHANGED serverVars
    BY <2>1, <2>5 DEF serverVars, LeaseUndisturbed
  <2>6. QED
    BY <1>2, <2>2, <2>3, <2>4, <2>5 DEF RunStep, Locked, ReadApplied, Execute, Record, Commit,
       Complete, StatementFails, ConnectionGone, Abandon
<1>3. CASE Granted
  BY <1>1, <1>3 DEF Granted, Grant, leaseVars, LeaseUndisturbed
<1>4. ASSUME NEW s \in Sessions, EndSessions({s}), UNCHANGED <<state, conn>>,
             \A r \in Replicas : idle'[r] \subseteq idle[r]
      PROVE  LeaseUndisturbed
  BY <1>1, <1>4 DEF EndSessions, LeaseUndisturbed
<1>5. ASSUME NEW s \in Sessions, Noticed(s)
      PROVE  LeaseUndisturbed
  BY <1>4, <1>5 DEF Noticed, leaseVars
<1>6. ASSUME NEW s \in Sessions, Lost(s)
      PROVE  LeaseUndisturbed
  BY <1>4, <1>6 DEF Lost
<1>7. CASE UNCHANGED vars
  BY <1>7 DEF vars, serverVars, leaseVars, LeaseUndisturbed
<1>8. QED
  BY <1>2, <1>3, <1>5, <1>6, <1>7 DEF Next

LEMMA LeaseKeeps ==
    ASSUME TypeOK, LeaseInv, NEW r \in Replicas, LeaseStep(r)
    PROVE  LeaseInv'
<1>1. /\ SessionsAreOwnedOnce /\ LeaderHoldsTheKey
      /\ conn \in [Replicas -> LeaseSessions \union {Nobody}]
      /\ idle \in [Replicas -> SUBSET LeaseSessions]
      /\ grants \in [Keys -> Sessions \union {Nobody}] /\ CorrelationLockKey \in Keys
      /\ Nobody \notin open /\ Nobody \notin LeaseSessions
  BY NobodyAssumption, LeaseAssumption
     DEF LeaseInv, TypeOK, ServerTypeOK, LeaseTypeOK, CorrelationLockKey, Keys
<1>2. ASSUME Owned(r)' \subseteq Owned(r),
             conn'[r] \notin idle'[r],
             \A q \in Replicas : q # r => conn'[q] = conn[q] /\ idle'[q] = idle[q]
      PROVE  SessionsAreOwnedOnce'
  <2>1. \A q \in Replicas : q # r => Owned(q)' = Owned(q)
    BY <1>2 DEF Owned
  <2>2. QED
    BY <1>1, <1>2, <2>1 DEF SessionsAreOwnedOnce
<1>3. CASE LoseLease(r)
  <2>1. SessionsAreOwnedOnce'
    BY <1>1, <1>2, <1>3 DEF LoseLease, Owned
  <2>2. LeaderHoldsTheKey'
    BY <1>1, <1>3 DEF LoseLease, serverVars, LeaderHoldsTheKey
  <2>3. QED
    BY <2>1, <2>2 DEF LeaseInv
<1>4. CASE CheckBreaks(r) \/ LeakLease(r) \/ ReleaseFails(r)
  <2>1. /\ conn' = [conn EXCEPT ![r] = Nobody] /\ UNCHANGED serverVars
        /\ idle' \in {idle, [idle EXCEPT ![r] = @ \union ({conn[r]} \intersect open)]}
    BY <1>4 DEF CheckBreaks, LeakLease, ReleaseFails
  <2>2. SessionsAreOwnedOnce'
    BY <1>1, <1>2, <2>1 DEF Owned
  <2>3. LeaderHoldsTheKey'
    BY <1>1, <2>1 DEF serverVars, LeaderHoldsTheKey
  <2>4. QED
    BY <2>2, <2>3 DEF LeaseInv
<1>5. ASSUME NEW s \in (idle[r] \intersect open) \union Unused,
             \A q \in Replicas : q # r => conn'[q] = conn[q] /\ idle'[q] = idle[q],
             conn'[r] \notin idle'[r], Owned(r)' \subseteq Owned(r) \union {s}
      PROVE  /\ SessionsAreOwnedOnce'
             /\ \A q \in Replicas : q # r => conn[q] # s
  <2>1. s \in LeaseSessions
    BY <1>1, <1>5 DEF Unused
  <2>2. \A q \in Replicas : q # r => s \notin Owned(q)
    BY <1>1, <1>5 DEF Unused, SessionsAreOwnedOnce, Owned
  <2>3. \A q \in Replicas : q # r => Owned(q)' = Owned(q)
    BY <1>5 DEF Owned
  <2>4. SessionsAreOwnedOnce'
    BY <1>1, <1>5, <2>2, <2>3 DEF SessionsAreOwnedOnce
  <2>5. QED
    BY <1>1, <2>1, <2>2, <2>4 DEF Owned
<1>6. CASE TryLease(r)
  <2>1. PICK s \in (idle[r] \intersect open) \union Unused :
          /\ open' = open \union {s}
          /\ IF Held(s)
             THEN /\ grants' = [grants EXCEPT ![CorrelationLockKey] = IF @ = Nobody THEN s ELSE @]
                  /\ conn' = [conn EXCEPT ![r] = s]
                  /\ idle' = [idle EXCEPT ![r] = @ \ {s}]
             ELSE /\ idle' = [idle EXCEPT ![r] = @ \union {s}]
                  /\ UNCHANGED <<grants, conn>>
    BY <1>6 DEF TryLease
  <2>2. conn[r] = Nobody /\ s \in LeaseSessions
    BY <1>1, <1>6, <2>1 DEF TryLease, Unused
  <2>3. /\ \A q \in Replicas : q # r => conn'[q] = conn[q] /\ idle'[q] = idle[q]
        /\ conn'[r] \notin idle'[r] /\ Owned(r)' \subseteq Owned(r) \union {s}
    BY <1>1, <2>1, <2>2 DEF Owned
  <2>4. SessionsAreOwnedOnce' /\ \A q \in Replicas : q # r => conn[q] # s
    BY <1>5, <2>1, <2>3
  <2>5. ASSUME NEW q \in Replicas, conn'[q] \in open'
        PROVE  grants'[CorrelationLockKey] = conn'[q]
    <3>1. CASE q = r
      BY <1>1, <2>1, <2>2, <2>5, <3>1 DEF Held
    <3>2. CASE q # r
      <4>1. grants[CorrelationLockKey] = conn[q] /\ conn[q] # Nobody
        BY <1>1, <2>1, <2>3, <2>4, <2>5, <3>2 DEF LeaderHoldsTheKey
      <4>2. QED
        BY <1>1, <2>1, <2>3, <3>2, <4>1
    <3>3. QED
      BY <3>1, <3>2
  <2>6. QED
    BY <2>4, <2>5 DEF LeaseInv, LeaderHoldsTheKey
<1>7. CASE TryFails(r)
  <2>1. PICK s \in (idle[r] \intersect open) \union Unused :
          /\ open' = open \union {s}
          /\ grants' \in {grants, [grants EXCEPT ![CorrelationLockKey] = IF @ = Nobody THEN s ELSE @]}
          /\ idle' \in {[idle EXCEPT ![r] = @ \ {s}], [idle EXCEPT ![r] = @ \union {s}]}
    BY <1>7 DEF TryFails
  <2>2. conn[r] = Nobody /\ conn' = conn
    BY <1>7 DEF TryFails
  <2>3. s \in LeaseSessions
    BY <1>1, <2>1 DEF Unused
  <2>4. \A q \in Replicas : q # r => conn'[q] = conn[q] /\ idle'[q] = idle[q]
    BY <1>1, <2>1, <2>2
  <2>5. conn'[r] \notin idle'[r] /\ Owned(r)' \subseteq Owned(r) \union {s}
    BY <1>1, <2>1, <2>2, <2>3 DEF Owned
  <2>6. SessionsAreOwnedOnce' /\ \A q \in Replicas : q # r => conn[q] # s
    BY <1>5, <2>1, <2>4, <2>5
  <2>7. ASSUME NEW q \in Replicas, conn'[q] \in open'
        PROVE  grants'[CorrelationLockKey] = conn'[q]
    <3>1. conn[q] \in open
      BY <1>1, <2>1, <2>2, <2>3, <2>6, <2>7
    <3>2. grants[CorrelationLockKey] = conn[q] /\ conn[q] # Nobody
      BY <1>1, <3>1 DEF LeaderHoldsTheKey
    <3>3. QED
      BY <1>1, <2>1, <2>2, <3>2
  <2>8. QED
    BY <2>6, <2>7 DEF LeaseInv, LeaderHoldsTheKey
<1>8. CASE Stop(r) \/ Start(r)
  <2>1. UNCHANGED <<conn, idle, serverVars>>
    BY <1>8 DEF Stop, Start
  <2>2. \A q \in Replicas : Owned(q)' = Owned(q)
    BY <2>1 DEF Owned
  <2>3. QED
    BY <1>1, <2>1, <2>2 DEF serverVars, LeaseInv, SessionsAreOwnedOnce, LeaderHoldsTheKey
<1>9. CASE Release(r)
  <2>1. SessionsAreOwnedOnce'
    BY <1>1, <1>2, <1>9 DEF Release, Owned
  <2>2. ASSUME NEW q \in Replicas, conn'[q] \in open'
        PROVE  grants'[CorrelationLockKey] = conn'[q]
    <3>1. q # r /\ conn'[q] = conn[q] /\ conn[q] \in open
      BY <1>1, <1>9, <2>2 DEF Release
    <3>2. conn[q] # conn[r] /\ grants[CorrelationLockKey] = conn[q]
      BY <1>1, <1>9, <3>1 DEF Release, SessionsAreOwnedOnce, Owned, LeaderHoldsTheKey
    <3>3. QED
      BY <1>9, <3>1, <3>2 DEF Release, Unlock
  <2>3. QED
    BY <2>1, <2>2 DEF LeaseInv, LeaderHoldsTheKey
<1>10. ASSUME NEW S, EndSessions(S), conn' = conn, idle' = [idle EXCEPT ![r] = @ \ S]
       PROVE  LeaseInv'
  <2>1. SessionsAreOwnedOnce'
    BY <1>1, <1>2, <1>10 DEF Owned, SessionsAreOwnedOnce
  <2>2. ASSUME NEW q \in Replicas, conn'[q] \in open'
        PROVE  grants'[CorrelationLockKey] = conn'[q]
    <3>1. conn'[q] = conn[q] /\ conn[q] \in open /\ conn[q] \notin S
      BY <1>10, <2>2 DEF EndSessions
    <3>2. grants[CorrelationLockKey] = conn[q]
      BY <1>1, <3>1 DEF LeaderHoldsTheKey
    <3>3. QED
      BY <1>1, <1>10, <3>1, <3>2 DEF EndSessions
  <2>3. QED
    BY <2>1, <2>2 DEF LeaseInv, LeaderHoldsTheKey
<1>11. CASE Close(r)
  <2>1. EndSessions(idle[r]) /\ conn' = conn /\ idle' = [idle EXCEPT ![r] = {}]
    BY <1>11 DEF Close
  <2>2. idle' = [idle EXCEPT ![r] = @ \ idle[r]]
    BY <1>1, <2>1
  <2>3. QED
    BY <1>10, <2>1, <2>2
<1>12. CASE \E s \in LeaseSessions : Recycle(r, s)
  BY <1>10, <1>12 DEF Recycle
<1>13. CASE Kill(r)
  <2>1. SessionsAreOwnedOnce'
    BY <1>1, <1>2, <1>13 DEF Kill, Owned
  <2>2. LeaderHoldsTheKey'
    BY <1>1, <1>13 DEF Kill, serverVars, LeaderHoldsTheKey
  <2>3. QED
    BY <2>1, <2>2 DEF LeaseInv
<1>14. QED
  BY <1>3, <1>4, <1>6, <1>7, <1>8, <1>9, <1>11, <1>12, <1>13 DEF LeaseStep

-----------------------------------------------------------------------------
(* The theorems.                                                           *)

LEMMA InitInvariant == Init => IInv
<1>1. SUFFICES ASSUME Init PROVE IInv
  OBVIOUS
<1>2. TypeOK
  BY <1>1, TypeInit
<1>3. WorkersHoldTheKey /\ PlanIsFresh /\ SchemaIsRecorded
  BY <1>1 DEF Init, RunInit, ServerInit, WorkersHoldTheKey, PlanIsFresh, SchemaIsRecorded,
              Working, Planned
<1>4. SchemaIsPrefix
  <2>1. PICK n \in 0..Latest : schema = 1..n
    BY <1>1 DEF Init, RunInit
  <2>2. QED
    BY <2>1, KnownAssumption DEF SchemaIsPrefix
<1>5. LeaseInv
  <2>1. \A r \in Replicas : conn[r] = Nobody /\ idle[r] = {} /\ open = {}
    BY <1>1 DEF Init, LeaseInit, ServerInit
  <2>2. QED
    BY <2>1 DEF LeaseInv, SessionsAreOwnedOnce, Owned, LeaderHoldsTheKey
<1>6. QED
  BY <1>2, <1>3, <1>4, <1>5 DEF IInv, RunInv

LEMMA Inductive ==
    ASSUME IInv, [Next]_vars
    PROVE  IInv'
<1>1. TypeOK /\ RunInv /\ LeaseInv /\ TypeOK'
  BY TypeStep DEF IInv
<1>2. RunInv'
  <2>1. CASE \E r \in Runs : RunStep(r) /\ UNCHANGED leaseVars
    BY <1>1, <2>1, RunKeeps
  <2>2. CASE ~\E r \in Runs : RunStep(r) /\ UNCHANGED leaseVars
    BY <1>1, <2>2, OthersDoNotDisturb, UndisturbedKeeps
  <2>3. QED
    BY <2>1, <2>2
<1>3. LeaseInv'
  <2>1. CASE \E r \in Replicas : LeaseStep(r) /\ UNCHANGED runVars
    BY <1>1, <2>1, LeaseKeeps
  <2>2. CASE ~\E r \in Replicas : LeaseStep(r) /\ UNCHANGED runVars
    BY <1>1, <2>2, OthersLeaveTheLease, LeaseUndisturbedKeeps
  <2>3. QED
    BY <2>1, <2>2
<1>4. QED
  BY <1>1, <1>2, <1>3 DEF IInv

THEOREM Invariance == Spec => []IInv
<1>1. QED
  BY InitInvariant, Inductive, PTL DEF Spec

\* Whatever fails, the schema and schema_migrations agree.
THEOREM MigrationsAreAtomic == Spec => []SchemaIsRecorded
<1>1. IInv => SchemaIsRecorded
  BY DEF IInv, RunInv
<1>2. QED
  BY <1>1, Invariance, PTL

\* However many runs go up and down at once, no migration is in effect without
\* those before it.
THEOREM MigrationsAreOrdered == Spec => []SchemaIsPrefix
<1>1. IInv => SchemaIsPrefix
  BY DEF IInv, RunInv
<1>2. QED
  BY <1>1, Invariance, PTL

\* Any number of replicas: who believes to lead on a live session holds the key.
THEOREM LeadersHoldTheKey == Spec => []LeaderHoldsTheKey
<1>1. IInv => LeaderHoldsTheKey
  BY DEF IInv, LeaseInv
<1>2. QED
  BY <1>1, Invariance, PTL

\* Any number of replicas: two never lead at once, although a replica learns only at its
\* next tick that it has lost its session (CycleLock.Acquire).
THEOREM NeverTwoLeaders ==
    Spec => [](\A q, r \in Replicas : conn[q] \in open /\ conn[r] \in open => q = r)
<1>1. ASSUME IInv, NEW q \in Replicas, NEW r \in Replicas,
             conn[q] \in open, conn[r] \in open, q # r
      PROVE  FALSE
  <2>1. conn[q] = conn[r]
    BY <1>1 DEF IInv, LeaseInv, LeaderHoldsTheKey
  <2>2. conn[q] # Nobody
    BY <1>1, NobodyAssumption DEF IInv, TypeOK, ServerTypeOK
  <2>3. conn[q] \in Owned(q) /\ conn[q] \in Owned(r)
    BY <2>1, <2>2 DEF Owned
  <2>4. QED
    BY <1>1, <2>3 DEF IInv, LeaseInv, SessionsAreOwnedOnce
<1>2. IInv => \A q, r \in Replicas : conn[q] \in open /\ conn[r] \in open => q = r
  BY <1>1
<1>3. QED
  BY <1>2, Invariance, PTL
=============================================================================
