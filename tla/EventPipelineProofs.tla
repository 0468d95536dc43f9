------------------------ MODULE EventPipelineProofs ------------------------
(***************************************************************************)
(* Proofs about EventPipeline for every set of events, engines, handlers   *)
(* and partitions and every bound.                                         *)
(***************************************************************************)
EXTENDS EventPipeline, TLAPS

-----------------------------------------------------------------------------
(* The inductive invariant.                                                *)

\* No offset is beyond the end of its partition.
OffsetsInLog ==
    /\ \A p \in Partitions : committed[p] <= Len(log[p])
    /\ \A m \in Engines, p \in Partitions :
          done[m][p] <= pos[m][p] /\ pos[m][p] <= Len(log[p])
    /\ \A d \in discarded : d.offset \in 1..Len(log[d.partition])

\* An insert is under way only for a record of the batch that was found valid.
InsertsAreValid ==
    \A m \in Engines, p \in Partitions : attempt[m][p] > 0 =>
        /\ phase[m] = "processing"
        /\ done[m][p] < pos[m][p]
        /\ Current(m, p) \in Contract

\* Records polled and not gone past belong to the batch being processed.
UnfinishedIsHeld ==
    \A m \in Engines, p \in Partitions : done[m][p] < pos[m][p] =>
        phase[m] = "processing" /\ p \in held[m]

\* Whatever a member has gone past is settled, evicted or not.
ProgressIsSettled ==
    \A m \in Engines : \A p \in held[m] : \A i \in 1..done[m][p] : Settled(p, i)

CommittedSettled == \A p \in Partitions : \A i \in 1..committed[p] : Settled(p, i)

\* The group gives a partition to one member, whose progress is not behind
\* the group's offset.
OwnersAhead ==
    /\ \A m, n \in joined : m # n => held[m] \intersect held[n] = {}
    /\ \A m \in joined : \A p \in held[m] : committed[p] <= done[m][p]

IInv ==
    /\ TypeOK
    /\ OffsetsInLog
    /\ InsertsAreValid
    /\ UnfinishedIsHeld
    /\ ProgressIsSettled
    /\ CommittedSettled
    /\ OwnersAhead
    /\ OneRowPerEvent
    /\ RowsComeFromTopic

\* What an accepted event has: a record the engines will not drop.
Kept(e) ==
    /\ e \in Contract
    /\ InFutureBound(TimeOf[e], clock)
    /\ \E p \in Partitions : \E i \in 1..Len(log[p]) :
          /\ log[p][i] = e
          /\ [partition |-> p, offset |-> i] \notin discarded

AcceptedIsKept ==
    /\ \A e \in acked : Kept(e)
    /\ \A h \in Handlers :
          /\ pending[h] \subseteq sent[h]
          /\ \A e \in sent[h] : e \in Contract /\ InFutureBound(TimeOf[e], clock)
          /\ ~failed[h] =>
                \A e \in sent[h] \ pending[h] : Kept(e)

-----------------------------------------------------------------------------
(* Types.                                                                  *)

LEMMA InitTypeOK == Init => TypeOK
BY BoundAssumption DEF Init, TypeOK, Zero

LEMMA IngestTypeOK ==
    ASSUME TypeOK, NEW h \in Handlers, IngestStep(h)
    PROVE  TypeOK'
<1>1. CASE \E e \in Events : PostEvent(h, e)
  BY <1>1 DEF TypeOK, PostEvent, Publishing, groupVars, memberVars
<1>2. CASE \E S \in SUBSET Events : PostEventBatch(h, S)
  BY <1>2 DEF TypeOK, PostEventBatch, Publishing, groupVars, memberVars
<1>3. ASSUME NEW e \in Events, Produce(h, e) PROVE TypeOK'
  <2>1. PartitionOf[e] \in Partitions
    BY DataAssumption
  <2>2. log' \in [Partitions -> Seq(Events)]
    BY <1>3, <2>1 DEF TypeOK, Produce
  <2>3. QED
    BY <1>3, <2>2 DEF TypeOK, Produce, groupVars, memberVars
<1>4. ASSUME NEW e \in Events, ProduceFails(h, e) PROVE TypeOK'
  <2>1. PartitionOf[e] \in Partitions
    BY DataAssumption
  <2>2. [log EXCEPT ![PartitionOf[e]] = Append(@, e)] \in [Partitions -> Seq(Events)]
    BY <2>1 DEF TypeOK
  <2>3. log' \in [Partitions -> Seq(Events)]
    BY <1>4, <2>2 DEF TypeOK, ProduceFails
  <2>4. QED
    BY <1>4, <2>3 DEF TypeOK, ProduceFails, Fault, groupVars, memberVars
<1>5. CASE Respond(h)
  BY <1>5 DEF TypeOK, Respond, RequestEnds, groupVars, memberVars
<1>6. CASE CrashIngest(h)
  BY <1>6 DEF TypeOK, CrashIngest, Fault, RequestEnds, groupVars, memberVars
<1>7. QED
  BY <1>1, <1>2, <1>3, <1>4, <1>5, <1>6 DEF IngestStep

LEMMA StoppedTypeOK ==
    ASSUME TypeOK, NEW m \in Engines, Stopped(m)
    PROVE  /\ phase' \in [Engines -> {"down", "idle", "processing"}]
           /\ held' \in [Engines -> SUBSET Partitions]
           /\ pos' \in [Engines -> [Partitions -> Nat]]
           /\ done' \in [Engines -> [Partitions -> Nat]]
           /\ attempt' \in [Engines -> [Partitions -> 0..MaxAttempts]]
<1>1. Zero \in [Partitions -> Nat] /\ Zero \in [Partitions -> 0..MaxAttempts]
  BY BoundAssumption DEF Zero
<1>2. QED
  BY <1>1 DEF TypeOK, Stopped

\* A process that ends resets its own consumer; what else it may touch is listed.
LEMMA ProcessEndTypeOK ==
    ASSUME TypeOK, NEW m \in Engines, Stopped(m),
           joined' \subseteq Engines, stable' \in BOOLEAN, faults' \in Nat,
           committed' \in [Partitions -> Nat],
           rows' \subseteq [event : Events, from : Records],
           UNCHANGED <<clock, sent, pending, failed, log, discarded, acked>>
    PROVE  TypeOK'
BY StoppedTypeOK DEF TypeOK

LEMMA LeavesType ==
    ASSUME TypeOK, NEW m \in Engines, Leaves(m)
    PROVE  Stopped(m) /\ joined' \subseteq Engines /\ stable' \in BOOLEAN
BY DEF TypeOK, Leaves

LEMMA FaultType ==
    ASSUME TypeOK, Fault
    PROVE  faults' \in Nat
BY DEF TypeOK, Fault

LEMMA CurrentType ==
    ASSUME TypeOK, OffsetsInLog, NEW m \in Engines, NEW p \in Partitions,
           done[m][p] < pos[m][p]
    PROVE  /\ done[m][p] + 1 \in 1..Len(log[p])
           /\ Current(m, p) \in Events
           /\ NextRecord(m, p) \in Records
<1>1. /\ done[m][p] \in Nat /\ pos[m][p] \in Nat /\ pos[m][p] <= Len(log[p])
      /\ log[p] \in Seq(Events) /\ Len(log[p]) \in Nat
  BY DEF TypeOK, OffsetsInLog
<1>2. done[m][p] + 1 \in 1..Len(log[p])
  BY <1>1
<1>3. QED
  BY <1>1, <1>2 DEF Current, NextRecord, Records

LEMMA ApplyInsertType ==
    ASSUME TypeOK, OffsetsInLog, InsertsAreValid, NEW m \in Engines,
           NEW p \in Partitions, Inserting(m, p), MaybeApplied(m, p)
    PROVE  rows' \subseteq [event : Events, from : Records]
<1>1. Current(m, p) \in Events /\ NextRecord(m, p) \in Records
  BY CurrentType DEF Inserting, InsertsAreValid
<1>2. QED
  BY <1>1 DEF MaybeApplied, ApplyInsert, TypeOK

LEMMA OffsetsType ==
    ASSUME TypeOK, NEW m \in Engines
    PROVE  Offsets(m) \in [Partitions -> Nat]
BY DEF TypeOK, Offsets

LEMMA EngineTypeOK ==
    ASSUME TypeOK, OffsetsInLog, InsertsAreValid, NEW m \in Engines, EngineStep(m)
    PROVE  TypeOK'
<1> USE DEF groupVars, memberVars, requestVars
<1>1. CASE Restart(m)
  BY <1>1 DEF TypeOK, Restart
<1>2. CASE Join(m)
  BY <1>2 DEF TypeOK, Join
<1>3. CASE Evict(m)
  <2>1. faults' \in Nat
    BY <1>3 DEF TypeOK, Evict, Fault
  <2>2. QED
    BY <1>3, <2>1 DEF TypeOK, Evict
<1>4. ASSUME NEW upto, Poll(m, upto) PROVE TypeOK'
  <2>1. /\ upto \in [Partitions -> Nat]
        /\ phase' = [phase EXCEPT ![m] = "processing"]
        /\ pos' = [pos EXCEPT ![m] = upto]
        /\ UNCHANGED <<clock, requestVars, log, committed, groupVars, done, attempt,
                       rows, discarded, acked, faults>>
    BY <1>4 DEF Poll
  <2>2. pos' \in [Engines -> [Partitions -> Nat]]
    BY <2>1 DEF TypeOK
  <2>3. QED
    BY <2>1, <2>2 DEF TypeOK
<1>5. ASSUME NEW p \in Partitions, RecordStep(m, p) PROVE TypeOK'
  <2>1. CASE Process(m, p)
    <3>1. NextRecord(m, p) \in Records
      BY <2>1, CurrentType DEF Process
    <3>2. 1 \in 0..MaxAttempts
      BY BoundAssumption
    <3>3. [attempt EXCEPT ![m][p] = 1] \in [Engines -> [Partitions -> 0..MaxAttempts]]
      BY <3>2 DEF TypeOK
    <3>4. [done EXCEPT ![m][p] = @ + 1] \in [Engines -> [Partitions -> Nat]]
      BY DEF TypeOK
    <3>5. CASE ValidAtEngine(m, Current(m, p))
      BY <2>1, <3>3, <3>5 DEF TypeOK, Process
    <3>6. CASE ~ValidAtEngine(m, Current(m, p))
      BY <2>1, <3>1, <3>4, <3>6 DEF TypeOK, Process
    <3>7. QED
      BY <3>5, <3>6
  <2>2. CASE InsertOK(m, p)
    <3>1. rows' \subseteq [event : Events, from : Records]
      BY <2>2, ApplyInsertType DEF InsertOK, MaybeApplied
    <3>2. attempt' \in [Engines -> [Partitions -> 0..MaxAttempts]]
      BY <2>2, BoundAssumption DEF TypeOK, InsertOK
    <3>3. done' \in [Engines -> [Partitions -> Nat]]
      BY <2>2 DEF TypeOK, InsertOK
    <3>4. QED
      BY <2>2, <3>1, <3>2, <3>3 DEF TypeOK, InsertOK
  <2>3. CASE InsertRetry(m, p)
    <3>1. rows' \subseteq [event : Events, from : Records]
      BY <2>3, ApplyInsertType DEF InsertRetry
    <3>2. attempt' \in [Engines -> [Partitions -> 0..MaxAttempts]]
      BY <2>3, BoundAssumption DEF TypeOK, InsertRetry
    <3>3. /\ faults' \in Nat
          /\ UNCHANGED <<clock, requestVars, log, committed, groupVars, phase, pos, done,
                         discarded, acked>>
      BY <2>3, FaultType DEF InsertRetry
    <3>4. QED
      BY <3>1, <3>2, <3>3 DEF TypeOK
  <2>4. CASE InsertExhausted(m, p)
    <3>1. rows' \subseteq [event : Events, from : Records]
      BY <2>4, ApplyInsertType DEF InsertExhausted
    <3>2. /\ Leaves(m) /\ faults' \in Nat
          /\ UNCHANGED <<clock, requestVars, log, committed, discarded, acked>>
      BY <2>4, FaultType DEF InsertExhausted
    <3>3. committed' \in [Partitions -> Nat]
      BY <3>2 DEF TypeOK
    <3>4. QED
      BY <3>1, <3>2, <3>3, LeavesType, ProcessEndTypeOK
  <2>5. CASE InsertPermanent(m, p)
    <3>1. /\ Leaves(m)
          /\ UNCHANGED <<clock, requestVars, log, committed, rows, discarded, acked, faults>>
      BY <2>5 DEF InsertPermanent
    <3>2. /\ committed' \in [Partitions -> Nat] /\ faults' \in Nat
          /\ rows' \subseteq [event : Events, from : Records]
      BY <3>1 DEF TypeOK
    <3>3. QED
      BY <3>1, <3>2, LeavesType, ProcessEndTypeOK
  <2>6. QED
    BY <1>5, <2>1, <2>2, <2>3, <2>4, <2>5 DEF RecordStep
<1>6. CASE Commit(m)
  <2>1. /\ committed' = Offsets(m)
        /\ phase' = [phase EXCEPT ![m] = "idle"]
        /\ UNCHANGED <<clock, requestVars, log, groupVars, pos, done, attempt, rows,
                       discarded, acked, faults>>
    BY <1>6 DEF Commit
  <2>2. phase' \in [Engines -> {"down", "idle", "processing"}]
    BY <2>1 DEF TypeOK
  <2>3. QED
    BY <2>1, <2>2, OffsetsType DEF TypeOK
<1>7. CASE CommitFails(m)
  <2>1. committed' \in [Partitions -> Nat] /\ faults' \in Nat
    <3>1. \/ UNCHANGED <<committed, faults>>
          \/ Fault /\ (committed' = Offsets(m) \/ UNCHANGED committed)
      BY <1>7 DEF CommitFails
    <3>2. Offsets(m) \in [Partitions -> Nat] /\ committed \in [Partitions -> Nat]
      BY OffsetsType DEF TypeOK
    <3>3. CASE UNCHANGED <<committed, faults>>
      BY <3>2, <3>3 DEF TypeOK
    <3>4. CASE Fault /\ (committed' = Offsets(m) \/ UNCHANGED committed)
      BY <3>2, <3>4, FaultType
    <3>5. QED
      BY <3>1, <3>3, <3>4
  <2>2. /\ Leaves(m)
        /\ UNCHANGED <<clock, requestVars, log, rows, discarded, acked>>
    BY <1>7 DEF CommitFails
  <2>3. rows' \subseteq [event : Events, from : Records]
    BY <2>2 DEF TypeOK
  <2>4. QED
    BY <2>1, <2>2, <2>3, LeavesType, ProcessEndTypeOK
<1>8. CASE Shutdown(m)
  <2>1. rows' \subseteq [event : Events, from : Records]
    BY <1>8, ApplyInsertType DEF Shutdown, TypeOK
  <2>2. /\ Leaves(m) /\ faults' \in Nat
        /\ UNCHANGED <<clock, requestVars, log, committed, discarded, acked>>
    BY <1>8, FaultType DEF Shutdown
  <2>3. committed' \in [Partitions -> Nat]
    BY <2>2 DEF TypeOK
  <2>4. QED
    BY <2>1, <2>2, <2>3, LeavesType, ProcessEndTypeOK
<1>9. CASE Crash(m)
  <2>1. rows' \subseteq [event : Events, from : Records]
    BY <1>9, ApplyInsertType DEF Crash, TypeOK
  <2>2. /\ Stopped(m) /\ faults' \in Nat
        /\ UNCHANGED <<clock, requestVars, log, committed, joined, stable, discarded, acked>>
    BY <1>9, FaultType DEF Crash
  <2>3. /\ committed' \in [Partitions -> Nat]
        /\ joined' \subseteq Engines /\ stable' \in BOOLEAN
    BY <2>2 DEF TypeOK
  <2>4. QED
    BY <2>1, <2>2, <2>3, ProcessEndTypeOK
<1>10. QED
  BY <1>1, <1>2, <1>3, <1>4, <1>5, <1>6, <1>7, <1>8, <1>9 DEF EngineStep

LEMMA NextTypeOK ==
    ASSUME TypeOK, OffsetsInLog, InsertsAreValid, [Next]_vars
    PROVE  TypeOK'
<1>1. ASSUME NEW h \in Handlers, IngestStep(h) PROVE TypeOK'
  BY <1>1, IngestTypeOK
<1>2. ASSUME NEW p \in Partitions, NEW e \in Events, ForeignProduce(p, e) PROVE TypeOK'
  <2>1. log' \in [Partitions -> Seq(Events)]
    BY <1>2 DEF TypeOK, ForeignProduce
  <2>2. QED
    BY <1>2, <2>1 DEF TypeOK, ForeignProduce, groupVars, memberVars, requestVars
<1>3. CASE Tick
  BY <1>3 DEF TypeOK, Tick, groupVars, memberVars, requestVars
<1>4. ASSUME NEW a, Rebalance(a) PROVE TypeOK'
  BY <1>4 DEF TypeOK, Rebalance, Assign, groupVars, memberVars, requestVars
<1>5. ASSUME NEW m \in Engines, EngineStep(m) PROVE TypeOK'
  BY <1>5, EngineTypeOK
<1>6. CASE UNCHANGED vars
  BY <1>6 DEF TypeOK, vars
<1>7. QED
  BY <1>1, <1>2, <1>3, <1>4, <1>5, <1>6 DEF Next, Quiescent

-----------------------------------------------------------------------------
(* What a step may do to the topic, the table, the offsets and the dropped *)
(* records: nothing, or one of the operations that own them.               *)

LogStep(p, e)  == log' = [log EXCEPT ![p] = Append(@, e)]
RowStep(m, p)  == Inserting(m, p) /\ Current(m, p) \notin Unstorable /\ ApplyInsert(m, p)
DropStep(m, p) == /\ Process(m, p) /\ ~ValidAtEngine(m, Current(m, p))
                  /\ discarded' = discarded \union {NextRecord(m, p)}
CommitStep(m)  == BatchProcessed(m) /\ m \in joined /\ committed' = Offsets(m)

LEMMA IngestChanges ==
    ASSUME NEW h \in Handlers, IngestStep(h)
    PROVE  /\ \/ UNCHANGED log
              \/ \E e \in Events : e \in pending[h] /\ LogStep(PartitionOf[e], e)
           /\ UNCHANGED <<rows, discarded, committed, clock, joined, held, phase, pos,
                          done, attempt>>
<1> USE DEF groupVars, memberVars
<1>1. ASSUME NEW e \in Events, Produce(h, e) \/ ProduceFails(h, e)
      PROVE  /\ UNCHANGED log \/ (e \in pending[h] /\ LogStep(PartitionOf[e], e))
             /\ UNCHANGED <<rows, discarded, committed, clock, joined, held, phase,
                            pos, done, attempt>>
  BY <1>1 DEF Produce, ProduceFails, LogStep
<1>2. QED
  BY <1>1 DEF IngestStep, PostEvent, PostEventBatch, Respond, CrashIngest

LEMMA EngineChanges ==
    ASSUME NEW m \in Engines, EngineStep(m)
    PROVE  /\ UNCHANGED <<log, clock, sent, pending, failed, acked>>
           /\ UNCHANGED rows \/ \E p \in Partitions : RowStep(m, p)
           /\ UNCHANGED discarded \/ \E p \in Partitions : DropStep(m, p)
           /\ UNCHANGED committed \/ CommitStep(m)
<1> USE DEF groupVars, memberVars, requestVars
<1>1. CASE Restart(m) \/ Join(m) \/ Evict(m)
  BY <1>1 DEF Restart, Join, Evict
<1>2. ASSUME NEW upto, Poll(m, upto)
      PROVE  UNCHANGED <<log, clock, requestVars, acked, rows, discarded, committed>>
  BY <1>2 DEF Poll
<1>3. ASSUME NEW p \in Partitions, RecordStep(m, p)
      PROVE  /\ UNCHANGED <<log, clock, requestVars, acked, committed>>
             /\ UNCHANGED rows \/ RowStep(m, p)
             /\ UNCHANGED discarded \/ DropStep(m, p)
  <2>1. CASE Process(m, p)
    BY <2>1 DEF Process, DropStep
  <2>2. CASE InsertOK(m, p)
    BY <2>2 DEF InsertOK, RowStep
  <2>3. CASE InsertRetry(m, p) \/ InsertExhausted(m, p)
    BY <2>3 DEF InsertRetry, InsertExhausted, MaybeApplied, RowStep
  <2>4. CASE InsertPermanent(m, p)
    BY <2>4 DEF InsertPermanent
  <2>5. QED
    BY <1>3, <2>1, <2>2, <2>3, <2>4 DEF RecordStep
<1>4. CASE Commit(m) \/ CommitFails(m)
  BY <1>4 DEF Commit, CommitFails, CommitStep
<1>5. CASE Shutdown(m) \/ Crash(m)
  BY <1>5 DEF Shutdown, Crash, MaybeApplied, RowStep
<1>6. QED
  BY <1>1, <1>2, <1>3, <1>4, <1>5 DEF EngineStep

LEMMA NextChanges ==
    ASSUME [Next]_vars
    PROVE  /\ \/ UNCHANGED log
              \/ \E h \in Handlers, e \in Events :
                    e \in pending[h] /\ LogStep(PartitionOf[e], e)
              \/ \E p \in Partitions, e \in Events : LogStep(p, e)
           /\ UNCHANGED rows \/ \E m \in Engines, p \in Partitions : RowStep(m, p)
           /\ UNCHANGED discarded \/ \E m \in Engines, p \in Partitions : DropStep(m, p)
           /\ UNCHANGED committed \/ \E m \in Engines : CommitStep(m)
<1>1. CASE \E h \in Handlers : IngestStep(h)
  BY <1>1, IngestChanges
<1>2. CASE \E p \in Partitions, e \in Events : ForeignProduce(p, e)
  BY <1>2 DEF ForeignProduce, LogStep
<1>3. CASE Tick \/ Quiescent \/ UNCHANGED vars
  BY <1>3 DEF Tick, Quiescent, vars
<1>4. CASE \E a \in [Partitions -> joined] : Rebalance(a)
  BY <1>4 DEF Rebalance, Assign
<1>5. CASE \E m \in Engines : EngineStep(m)
  BY <1>5, EngineChanges
<1>6. QED
  BY <1>1, <1>2, <1>3, <1>4, <1>5 DEF Next

LEMMA LogGrows ==
    ASSUME TypeOK, [Next]_vars, NEW p \in Partitions
    PROVE  /\ Len(log[p]) <= Len(log'[p])
           /\ \A i \in 1..Len(log[p]) : log'[p][i] = log[p][i]
<1>1. ASSUME NEW q \in Partitions, NEW e \in Events, LogStep(q, e)
      PROVE  /\ Len(log[p]) <= Len(log'[p])
             /\ \A i \in 1..Len(log[p]) : log'[p][i] = log[p][i]
  <2>1. log[p] \in Seq(Events) /\ log'[p] = IF p = q THEN Append(log[p], e) ELSE log[p]
    BY <1>1 DEF TypeOK, LogStep
  <2>2. QED
    BY <2>1
<1>2. CASE UNCHANGED log
  BY <1>2 DEF TypeOK
<1>3. QED
  BY <1>1, <1>2, NextChanges, DataAssumption

LEMMA SettledStays ==
    ASSUME TypeOK, OffsetsInLog, [Next]_vars
    PROVE  /\ rows \subseteq rows' /\ discarded \subseteq discarded'
           /\ \A e \in Events : Stored(e) => Stored(e)'
           /\ \A p \in Partitions : \A i \in 1..Len(log[p]) : Settled(p, i) => Settled(p, i)'
<1>1. rows \subseteq rows'
  BY NextChanges DEF RowStep, ApplyInsert
<1>2. discarded \subseteq discarded'
  BY NextChanges DEF DropStep
<1>3. \A e \in Events : Stored(e) => Stored(e)'
  BY <1>1 DEF Stored
<1>4. ASSUME NEW p \in Partitions, NEW i \in 1..Len(log[p]), Settled(p, i)
      PROVE  Settled(p, i)'
  <2>1. log'[p][i] = log[p][i] /\ log[p][i] \in Events
    BY LogGrows DEF TypeOK
  <2>2. QED
    BY <1>2, <1>3, <1>4, <2>1 DEF Settled
<1>5. QED
  BY <1>1, <1>2, <1>3, <1>4

-----------------------------------------------------------------------------
(* Offsets stay inside the log.                                            *)

LEMMA StoppedOffsets ==
    ASSUME TypeOK, OffsetsInLog, NEW m \in Engines, Stopped(m),
           NEW n \in Engines, NEW p \in Partitions
    PROVE  done'[n][p] <= pos'[n][p] /\ pos'[n][p] <= Len(log[p])
<1>1. log[p] \in Seq(Events)
  BY DEF TypeOK
<1>2. done' = [done EXCEPT ![m] = Zero] /\ pos' = [pos EXCEPT ![m] = Zero]
  BY DEF Stopped
<1>3. QED
  BY <1>1, <1>2 DEF TypeOK, OffsetsInLog, Zero

LEMMA MemberOffsets ==
    ASSUME TypeOK, OffsetsInLog, InsertsAreValid, NEW m \in Engines, EngineStep(m),
           NEW n \in Engines, NEW p \in Partitions
    PROVE  done'[n][p] <= pos'[n][p] /\ pos'[n][p] <= Len(log[p])
<1>0. /\ done[n][p] \in Nat /\ pos[n][p] \in Nat /\ Len(log[p]) \in Nat
      /\ done[n][p] <= pos[n][p] /\ pos[n][p] <= Len(log[p])
  BY DEF TypeOK, OffsetsInLog
<1>1. CASE Restart(m) \/ Join(m) \/ Evict(m) \/ Commit(m)
  BY <1>0, <1>1 DEF Restart, Join, Evict, Commit, memberVars
<1>2. ASSUME NEW upto, Poll(m, upto)
      PROVE  done'[n][p] <= pos'[n][p] /\ pos'[n][p] <= Len(log[p])
  <2>1. /\ upto \in [Partitions -> Nat]
        /\ IF p \in held[m] THEN upto[p] \in pos[m][p]..Len(log[p]) ELSE upto[p] = pos[m][p]
        /\ pos' = [pos EXCEPT ![m] = upto] /\ done' = done
    BY <1>2 DEF Poll
  <2>2. CASE n = m
    BY <1>0, <2>1, <2>2 DEF TypeOK
  <2>3. CASE n # m
    BY <1>0, <2>1, <2>3 DEF TypeOK
  <2>4. QED
    BY <2>2, <2>3
<1>3. ASSUME NEW q \in Partitions, RecordStep(m, q)
      PROVE  done'[n][p] <= pos'[n][p] /\ pos'[n][p] <= Len(log[p])
  <2>1. CASE Process(m, q) \/ InsertOK(m, q)
    <3>1. pos' = pos /\ (done' = done \/ done' = [done EXCEPT ![m][q] = @ + 1])
      BY <2>1 DEF Process, InsertOK, memberVars
    <3>2. done[m][q] < pos[m][q]
      BY <2>1 DEF Process, InsertOK, Inserting, InsertsAreValid
    <3>3. QED
      <4>1. CASE done' = done
        BY <1>0, <3>1, <4>1
      <4>2. CASE done' = [done EXCEPT ![m][q] = @ + 1]
        <5>1. done'[n][p] = IF n = m /\ p = q THEN done[n][p] + 1 ELSE done[n][p]
          BY <4>2 DEF TypeOK
        <5>2. pos'[n][p] = pos[n][p]
          BY <3>1
        <5>3. QED
          BY <1>0, <3>2, <5>1, <5>2
      <4>3. QED
        BY <3>1, <4>1, <4>2
  <2>2. CASE InsertRetry(m, q)
    BY <1>0, <2>2 DEF InsertRetry
  <2>3. CASE InsertExhausted(m, q) \/ InsertPermanent(m, q)
    BY <2>3, StoppedOffsets DEF InsertExhausted, InsertPermanent, Leaves
  <2>4. QED
    BY <1>3, <2>1, <2>2, <2>3 DEF RecordStep
<1>4. CASE CommitFails(m) \/ Shutdown(m) \/ Crash(m)
  BY <1>4, StoppedOffsets DEF CommitFails, Shutdown, Crash, Leaves
<1>5. QED
  BY <1>1, <1>2, <1>3, <1>4 DEF EngineStep

LEMMA NextOffsetsInLog ==
    ASSUME TypeOK, OffsetsInLog, InsertsAreValid, [Next]_vars
    PROVE  OffsetsInLog'
<1> USE DEF groupVars, memberVars, requestVars
<1>1. ASSUME NEW p \in Partitions PROVE committed'[p] <= Len(log'[p])
  <2>1. /\ committed[p] \in Nat /\ committed[p] <= Len(log[p])
        /\ Len(log[p]) \in Nat /\ Len(log'[p]) \in Nat
        /\ Len(log[p]) <= Len(log'[p])
    BY LogGrows, NextTypeOK DEF TypeOK, OffsetsInLog
  <2>2. ASSUME NEW m \in Engines, CommitStep(m) PROVE committed'[p] <= Len(log[p])
    BY <2>1, <2>2 DEF CommitStep, Offsets, TypeOK, OffsetsInLog
  <2>3. committed'[p] = committed[p] \/ committed'[p] <= Len(log[p])
    BY <2>2, NextChanges
  <2>4. committed'[p] \in Nat
    BY NextTypeOK DEF TypeOK
  <2>5. QED
    BY <2>1, <2>3, <2>4
<1>2. ASSUME NEW n \in Engines, NEW p \in Partitions
      PROVE  done'[n][p] <= pos'[n][p] /\ pos'[n][p] <= Len(log'[p])
  <2>1. /\ done[n][p] <= pos[n][p] /\ pos[n][p] <= Len(log[p])
        /\ committed[p] \in Nat /\ committed[p] <= Len(log[p])
    BY DEF TypeOK, OffsetsInLog
  <2>2. done'[n][p] <= pos'[n][p] /\ pos'[n][p] <= Len(log[p])
    <3>1. CASE \E m \in Engines : EngineStep(m)
      BY <3>1, MemberOffsets
    <3>2. CASE \E h \in Handlers : IngestStep(h)
      BY <2>1, <3>2, IngestChanges
    <3>3. ASSUME NEW a, Rebalance(a)
          PROVE  done'[n][p] <= pos'[n][p] /\ pos'[n][p] <= Len(log[p])
      <4>1. /\ pos' = [m \in Engines |-> IF m \in joined THEN committed ELSE pos[m]]
            /\ done' = [m \in Engines |-> IF m \in joined THEN committed ELSE done[m]]
        BY <3>3 DEF Rebalance, Assign
      <4>2. QED
        BY <2>1, <4>1
    <3>4. CASE \E q \in Partitions, e \in Events : ForeignProduce(q, e)
      BY <2>1, <3>4 DEF ForeignProduce
    <3>5. CASE Tick \/ Quiescent \/ UNCHANGED vars
      BY <2>1, <3>5 DEF Tick, Quiescent, vars
    <3>6. QED
      BY <3>1, <3>2, <3>3, <3>4, <3>5 DEF Next
  <2>3. Len(log[p]) \in Nat /\ Len(log'[p]) \in Nat /\ pos'[n][p] \in Nat
    <3>1. TypeOK'
      BY NextTypeOK
    <3>2. log[p] \in Seq(Events) /\ log'[p] \in Seq(Events) /\ pos'[n][p] \in Nat
      BY <3>1 DEF TypeOK
    <3>3. QED
      BY <3>2
  <2>4. Len(log[p]) <= Len(log'[p])
    BY LogGrows
  <2>5. QED
    BY <2>2, <2>3, <2>4
<1>3. ASSUME NEW d \in discarded' PROVE d.offset \in 1..Len(log'[d.partition])
  <2>1. d \in Records /\ d.partition \in Partitions
    BY NextTypeOK DEF TypeOK, Records
  <2>2. d.offset \in 1..Len(log[d.partition])
    <3>1. CASE d \in discarded
      BY <3>1 DEF OffsetsInLog
    <3>2. ASSUME NEW m \in Engines, NEW p \in Partitions, DropStep(m, p),
                 d = NextRecord(m, p)
          PROVE  d.offset \in 1..Len(log[d.partition])
      BY <3>2, CurrentType DEF DropStep, Process, NextRecord
    <3>3. QED
      BY <3>1, <3>2, NextChanges DEF DropStep
  <2>3. /\ Len(log[d.partition]) \in Nat /\ Len(log'[d.partition]) \in Nat
        /\ Len(log[d.partition]) <= Len(log'[d.partition])
    BY <2>1, LogGrows, NextTypeOK DEF TypeOK
  <2>4. QED
    BY <2>2, <2>3
<1>4. QED
  BY <1>1, <1>2, <1>3 DEF OffsetsInLog

-----------------------------------------------------------------------------
(* Batches and inserts of one member.                                      *)

\* A step of one engine leaves what the others have polled and done alone.
LEMMA OtherMembers ==
    ASSUME TypeOK, NEW m \in Engines, EngineStep(m), NEW n \in Engines, n # m
    PROVE  /\ phase'[n] = phase[n] /\ held'[n] = held[n] /\ pos'[n] = pos[n]
           /\ done'[n] = done[n] /\ attempt'[n] = attempt[n]
           /\ n \in joined' <=> n \in joined
<1> USE DEF groupVars, memberVars
<1>0. ASSUME Stopped(m)
      PROVE  /\ phase'[n] = phase[n] /\ held'[n] = held[n] /\ pos'[n] = pos[n]
             /\ done'[n] = done[n] /\ attempt'[n] = attempt[n]
  BY <1>0 DEF Stopped, TypeOK
<1>1. CASE Restart(m) \/ Join(m) \/ Evict(m) \/ Commit(m)
  BY <1>1 DEF Restart, Join, Evict, Commit, TypeOK
<1>2. ASSUME NEW upto, Poll(m, upto)
      PROVE  /\ phase'[n] = phase[n] /\ held'[n] = held[n] /\ pos'[n] = pos[n]
             /\ done'[n] = done[n] /\ attempt'[n] = attempt[n] /\ joined' = joined
  BY <1>2 DEF Poll, TypeOK
<1>3. CASE \E p \in Partitions : RecordStep(m, p)
  BY <1>0, <1>3 DEF RecordStep, Process, InsertOK, InsertRetry, InsertExhausted,
                    InsertPermanent, Leaves, TypeOK
<1>4. CASE CommitFails(m) \/ Shutdown(m) \/ Crash(m)
  BY <1>0, <1>4 DEF CommitFails, Shutdown, Crash, Leaves
<1>5. QED
  BY <1>1, <1>2, <1>3, <1>4 DEF EngineStep

LEMMA StoppedSelf ==
    ASSUME TypeOK, NEW m \in Engines, Stopped(m)
    PROVE  /\ held'[m] = {} /\ pos'[m] = Zero /\ done'[m] = Zero /\ attempt'[m] = Zero
           /\ phase'[m] = "down"
BY DEF TypeOK, Stopped

LEMMA SelfUnfinishedIsHeld ==
    ASSUME TypeOK, OffsetsInLog, InsertsAreValid, UnfinishedIsHeld,
           NEW m \in Engines, EngineStep(m),
           NEW p \in Partitions, done'[m][p] < pos'[m][p]
    PROVE  phase'[m] = "processing" /\ p \in held'[m]
<1> USE DEF groupVars, memberVars
<1>0. done[m][p] \in Nat /\ pos[m][p] \in Nat /\ done[m][p] <= pos[m][p]
  BY DEF TypeOK, OffsetsInLog
<1>1. CASE Restart(m) \/ Join(m) \/ Evict(m)
  BY <1>1 DEF Restart, Join, Evict, UnfinishedIsHeld, TypeOK
<1>2. ASSUME NEW upto, Poll(m, upto) PROVE phase'[m] = "processing" /\ p \in held'[m]
  <2>1. /\ upto \in [Partitions -> Nat]
        /\ p \notin held[m] => upto[p] = pos[m][p]
        /\ pos' = [pos EXCEPT ![m] = upto] /\ done' = done /\ held' = held
        /\ phase' = [phase EXCEPT ![m] = "processing"] /\ phase[m] = "idle"
    BY <1>2 DEF Poll
  <2>2. pos'[m][p] = upto[p] /\ ~(done[m][p] < pos[m][p])
    BY <2>1 DEF TypeOK, UnfinishedIsHeld
  <2>3. p \in held[m]
    BY <2>1, <2>2
  <2>4. QED
    BY <2>1, <2>3 DEF TypeOK
<1>3. ASSUME NEW q \in Partitions, RecordStep(m, q)
      PROVE  phase'[m] = "processing" /\ p \in held'[m]
  <2>1. CASE Process(m, q) \/ InsertOK(m, q)
    <3>1. /\ pos' = pos /\ phase' = phase /\ held' = held
          /\ done' = done \/ done' = [done EXCEPT ![m][q] = @ + 1]
      BY <2>1 DEF Process, InsertOK
    <3>2. CASE done' = done
      BY <3>1, <3>2 DEF UnfinishedIsHeld
    <3>3. CASE done' = [done EXCEPT ![m][q] = @ + 1]
      <4>1. done'[m][p] = IF p = q THEN done[m][p] + 1 ELSE done[m][p]
        BY <3>3 DEF TypeOK
      <4>2. pos'[m][p] = pos[m][p]
        BY <3>1
      <4>3. done[m][p] < pos[m][p]
        BY <1>0, <4>1, <4>2
      <4>4. QED
        BY <3>1, <4>3 DEF UnfinishedIsHeld
    <3>4. QED
      BY <3>1, <3>2, <3>3
  <2>2. CASE InsertRetry(m, q)
    BY <2>2 DEF InsertRetry, UnfinishedIsHeld
  <2>3. CASE InsertExhausted(m, q) \/ InsertPermanent(m, q)
    BY <2>3, StoppedSelf DEF InsertExhausted, InsertPermanent, Leaves, Zero
  <2>4. QED
    BY <1>3, <2>1, <2>2, <2>3 DEF RecordStep
<1>4. CASE Commit(m)
  <2>1. done[m][p] < pos[m][p] /\ p \in held[m] => FALSE
    BY <1>0, <1>4 DEF Commit, BatchProcessed
  <2>2. QED
    BY <1>4, <2>1 DEF Commit, UnfinishedIsHeld
<1>5. CASE CommitFails(m) \/ Shutdown(m) \/ Crash(m)
  BY <1>5, StoppedSelf DEF CommitFails, Shutdown, Crash, Leaves, Zero
<1>6. QED
  BY <1>1, <1>2, <1>3, <1>4, <1>5 DEF EngineStep

\* What a rebalance does to a member: everything for those in the group, each
\* idle, nothing for the others.
LEMMA RebalanceEffect ==
    ASSUME TypeOK, NEW a, Rebalance(a), NEW n \in Engines
    PROVE  /\ UNCHANGED <<log, rows, discarded, committed, joined, phase, attempt>>
           /\ n \in joined => /\ phase[n] = "idle"
                              /\ pos'[n] = committed /\ done'[n] = committed
                              /\ held'[n] = {p \in Partitions : a[p] = n}
           /\ n \notin joined => /\ pos'[n] = pos[n] /\ done'[n] = done[n]
                                 /\ held'[n] = held[n]
BY DEF Rebalance, Assign

\* The steps of everything but engines and the coordinator.
LEMMA OutsideEffect ==
    ASSUME \/ \E h \in Handlers : IngestStep(h)
           \/ \E p \in Partitions, e \in Events : ForeignProduce(p, e)
           \/ Tick \/ Quiescent \/ UNCHANGED vars
    PROVE  UNCHANGED <<rows, discarded, committed, joined, held, phase, pos, done, attempt>>
<1> USE DEF groupVars, memberVars
<1>1. CASE \E h \in Handlers : IngestStep(h)
  BY <1>1, IngestChanges
<1>2. CASE \E p \in Partitions, e \in Events : ForeignProduce(p, e)
  BY <1>2 DEF ForeignProduce
<1>3. CASE Tick \/ Quiescent \/ UNCHANGED vars
  BY <1>3 DEF Tick, Quiescent, vars
<1>4. QED
  BY <1>1, <1>2, <1>3

LEMMA NextUnfinishedIsHeld ==
    ASSUME TypeOK, OffsetsInLog, InsertsAreValid, UnfinishedIsHeld, [Next]_vars
    PROVE  UnfinishedIsHeld'
<1> SUFFICES ASSUME NEW n \in Engines, NEW p \in Partitions, done'[n][p] < pos'[n][p]
             PROVE  phase'[n] = "processing" /\ p \in held'[n]
  BY DEF UnfinishedIsHeld
<1>1. ASSUME NEW m \in Engines, EngineStep(m)
      PROVE  phase'[n] = "processing" /\ p \in held'[n]
  <2>1. CASE n = m
    BY <1>1, <2>1, SelfUnfinishedIsHeld
  <2>2. CASE n # m
    BY <1>1, <2>2, OtherMembers DEF UnfinishedIsHeld
  <2>3. QED
    BY <2>1, <2>2
<1>2. ASSUME NEW a, Rebalance(a) PROVE phase'[n] = "processing" /\ p \in held'[n]
  <2>1. committed[p] \in Nat
    BY DEF TypeOK
  <2>2. CASE n \in joined
    BY <1>2, <2>1, <2>2, RebalanceEffect
  <2>3. CASE n \notin joined
    BY <1>2, <2>3, RebalanceEffect DEF UnfinishedIsHeld
  <2>4. QED
    BY <2>2, <2>3
<1>3. CASE UNCHANGED <<phase, held, pos, done>>
  BY <1>3 DEF UnfinishedIsHeld
<1>4. QED
  BY <1>1, <1>2, <1>3, OutsideEffect DEF Next

LEMMA CurrentStays ==
    ASSUME TypeOK, OffsetsInLog, [Next]_vars, NEW n \in Engines, NEW p \in Partitions,
           done[n][p] < pos[n][p], done'[n][p] = done[n][p]
    PROVE  Current(n, p)' = Current(n, p)
<1>1. done[n][p] + 1 \in 1..Len(log[p])
  BY CurrentType
<1>2. log'[p][done[n][p] + 1] = log[p][done[n][p] + 1]
  BY <1>1, LogGrows
<1>3. QED
  BY <1>2 DEF Current

LEMMA SelfInsertsAreValid ==
    ASSUME TypeOK, OffsetsInLog, InsertsAreValid, UnfinishedIsHeld,
           NEW m \in Engines, EngineStep(m),
           NEW p \in Partitions, attempt'[m][p] > 0
    PROVE  /\ phase'[m] = "processing"
           /\ done'[m][p] < pos'[m][p]
           /\ log'[p][done'[m][p] + 1] \in Contract
<1> USE DEF groupVars, memberVars, Current
<1> DEFINE Goal == /\ phase'[m] = "processing"
                   /\ done'[m][p] < pos'[m][p]
                   /\ log'[p][done'[m][p] + 1] \in Contract
<1>0. log' = log
  BY EngineChanges
<1>1. CASE Restart(m) \/ Join(m) \/ Evict(m)
  BY <1>0, <1>1 DEF Restart, Join, Evict, InsertsAreValid
<1>2. ASSUME NEW upto, Poll(m, upto) PROVE Goal
  <2>1. phase[m] = "idle" /\ attempt' = attempt
    BY <1>2 DEF Poll
  <2>2. QED
    BY <2>1 DEF InsertsAreValid
<1>3. ASSUME NEW q \in Partitions, RecordStep(m, q) PROVE Goal
  <2>1. CASE Process(m, q)
    <3>1. /\ phase' = phase /\ phase[m] = "processing" /\ pos' = pos
          /\ attempt[m][p] = 0 /\ done[m][q] < pos[m][q]
      BY <2>1 DEF Process
    <3>2. CASE ValidAtEngine(m, Current(m, q))
      <4>1. attempt' = [attempt EXCEPT ![m][q] = 1] /\ done' = done
        BY <2>1, <3>2 DEF Process
      <4>2. p = q
        BY <3>1, <4>1 DEF TypeOK
      <4>3. QED
        BY <1>0, <3>1, <3>2, <4>1, <4>2 DEF ValidAtEngine
    <3>3. CASE ~ValidAtEngine(m, Current(m, q))
      BY <2>1, <3>1, <3>3 DEF Process
    <3>4. QED
      BY <3>2, <3>3
  <2>2. CASE InsertOK(m, q)
    <3>1. /\ phase' = phase /\ pos' = pos
          /\ done' = [done EXCEPT ![m][q] = @ + 1]
          /\ attempt' = [attempt EXCEPT ![m][q] = 0]
      BY <2>2 DEF InsertOK
    <3>2. p # q
      BY <3>1 DEF TypeOK
    <3>3. done'[m][p] = done[m][p] /\ attempt'[m][p] = attempt[m][p]
      BY <3>1, <3>2 DEF TypeOK
    <3>4. QED
      BY <1>0, <3>1, <3>3 DEF InsertsAreValid
  <2>3. CASE InsertRetry(m, q)
    <3>1. /\ phase' = phase /\ pos' = pos /\ done' = done
          /\ attempt[m][q] > 0
          /\ attempt' = [attempt EXCEPT ![m][q] = @ + 1]
      BY <2>3 DEF InsertRetry, Inserting
    <3>2. attempt[m][p] > 0
      BY <3>1 DEF TypeOK
    <3>3. QED
      BY <1>0, <3>1, <3>2 DEF InsertsAreValid
  <2>4. CASE InsertExhausted(m, q) \/ InsertPermanent(m, q)
    BY <2>4, StoppedSelf DEF InsertExhausted, InsertPermanent, Leaves, Zero
  <2>5. QED
    BY <1>3, <2>1, <2>2, <2>3, <2>4 DEF RecordStep
<1>4. CASE Commit(m)
  <2>1. BatchProcessed(m) /\ attempt' = attempt
    BY <1>4 DEF Commit
  <2>2. done[m][p] < pos[m][p] /\ p \in held[m]
    BY <2>1 DEF InsertsAreValid, UnfinishedIsHeld
  <2>3. done[m][p] \in Nat /\ pos[m][p] \in Nat
    BY DEF TypeOK
  <2>4. QED
    BY <2>1, <2>2, <2>3 DEF BatchProcessed
<1>5. CASE CommitFails(m) \/ Shutdown(m) \/ Crash(m)
  BY <1>5, StoppedSelf DEF CommitFails, Shutdown, Crash, Leaves, Zero
<1>6. QED
  BY <1>1, <1>2, <1>3, <1>4, <1>5 DEF EngineStep

LEMMA NextInsertsAreValid ==
    ASSUME TypeOK, OffsetsInLog, InsertsAreValid, UnfinishedIsHeld, [Next]_vars
    PROVE  InsertsAreValid'
<1> SUFFICES ASSUME NEW n \in Engines, NEW p \in Partitions, attempt'[n][p] > 0
             PROVE  /\ phase'[n] = "processing"
                    /\ done'[n][p] < pos'[n][p]
                    /\ Current(n, p)' \in Contract
  BY DEF InsertsAreValid
<1> DEFINE Goal == /\ phase'[n] = "processing"
                   /\ done'[n][p] < pos'[n][p]
                   /\ Current(n, p)' \in Contract
<1>1. ASSUME attempt'[n] = attempt[n], phase'[n] = phase[n],
             pos'[n] = pos[n], done'[n] = done[n]
      PROVE  Goal
  BY <1>1, CurrentStays DEF InsertsAreValid
<1>2. ASSUME NEW m \in Engines, EngineStep(m) PROVE Goal
  <2>1. CASE n = m
    BY <1>2, <2>1, SelfInsertsAreValid DEF Current
  <2>2. CASE n # m
    BY <1>1, <1>2, <2>2, OtherMembers
  <2>3. QED
    BY <2>1, <2>2
<1>3. ASSUME NEW a, Rebalance(a) PROVE Goal
  <2>1. n \notin joined
    BY <1>3, RebalanceEffect DEF InsertsAreValid
  <2>2. QED
    BY <1>1, <1>3, <2>1, RebalanceEffect
<1>4. CASE UNCHANGED <<phase, pos, done, attempt>>
  BY <1>1, <1>4
<1>5. QED
  BY <1>2, <1>3, <1>4, OutsideEffect DEF Next

-----------------------------------------------------------------------------
(* What members and the group have gone past is settled.                   *)

LEMMA InsertStores ==
    ASSUME TypeOK, OffsetsInLog, InsertsAreValid, NEW m \in Engines,
           NEW p \in Partitions, RowStep(m, p)
    PROVE  \E r \in rows' : /\ IdOf[r.event] = IdOf[Current(m, p)]
                            /\ TimeOf[r.event] = TimeOf[Current(m, p)]
<1>1. CASE Stored(Current(m, p))
  BY <1>1 DEF RowStep, ApplyInsert, Stored
<1>2. CASE ~Stored(Current(m, p))
  <2> DEFINE r == [event |-> Current(m, p), from |-> NextRecord(m, p)]
  <2>1. r \in rows' /\ r.event = Current(m, p)
    BY <1>2 DEF RowStep, ApplyInsert
  <2>2. QED
    BY <2>1
<1>3. QED
  BY <1>1, <1>2

LEMMA SelfProgressIsSettled ==
    ASSUME TypeOK, OffsetsInLog, InsertsAreValid, ProgressIsSettled, [Next]_vars,
           NEW m \in Engines, EngineStep(m),
           NEW p \in held'[m], NEW i \in 1..done'[m][p]
    PROVE  Settled(p, i)'
<1> USE DEF groupVars, memberVars
<1>1. ASSUME p \in held[m], i \in 1..done[m][p] PROVE Settled(p, i)'
  <2>1. p \in Partitions /\ i \in 1..Len(log[p])
    BY <1>1 DEF TypeOK, OffsetsInLog
  <2>2. QED
    BY <1>1, <2>1, SettledStays DEF ProgressIsSettled
<1>2. CASE held' = held /\ done' = done
  BY <1>1, <1>2
<1>3. CASE Join(m) \/ Evict(m)
  <2>1. (held' = held /\ done' = done) \/ held'[m] = {}
    BY <1>3 DEF Join, Evict, TypeOK
  <2>2. QED
    BY <1>1, <2>1
<1>4. CASE Stopped(m)
  BY <1>4, StoppedSelf
<1>5. ASSUME NEW q \in Partitions, Process(m, q) \/ InsertOK(m, q) PROVE Settled(p, i)'
  <2>1. held' = held /\ (done' = done \/ done' = [done EXCEPT ![m][q] = @ + 1])
    BY <1>5 DEF Process, InsertOK
  <2>2. CASE i \in 1..done[m][p]
    BY <1>1, <2>1, <2>2
  <2>3. CASE i \notin 1..done[m][p]
    <3>1. p \in Partitions
      BY <2>1 DEF TypeOK
    <3>2. done' = [done EXCEPT ![m][q] = @ + 1]
      BY <2>1, <2>3
    <3>3. p = q
      BY <2>3, <3>1, <3>2 DEF TypeOK
    <3>4. done'[m][p] = done[m][p] + 1 /\ done[m][p] \in Nat
      BY <3>1, <3>2, <3>3 DEF TypeOK
    <3>5. i = done[m][p] + 1
      BY <2>3, <3>4
    <3>6. done[m][p] < pos[m][p]
      BY <1>5, <3>3 DEF Process, InsertOK, Inserting, InsertsAreValid
    <3>7. i \in 1..Len(log[p]) /\ Current(m, p) = log[p][i]
      BY <3>1, <3>5, <3>6, CurrentType DEF Current
    <3>8. log'[p][i] = log[p][i]
      BY <3>1, <3>7, LogGrows
    <3>9. CASE Process(m, q)
      <4>1. discarded' = discarded \union {NextRecord(m, p)}
        BY <3>2, <3>3, <3>9, <2>3, <3>4, <3>5 DEF Process
      <4>2. NextRecord(m, p) = [partition |-> p, offset |-> i]
        BY <3>5 DEF NextRecord
      <4>3. QED
        BY <4>1, <4>2 DEF Settled
    <3>10. CASE InsertOK(m, q)
      <4>1. RowStep(m, p)
        BY <3>3, <3>10 DEF InsertOK, RowStep
      <4>2. QED
        BY <3>1, <3>7, <3>8, <4>1, InsertStores DEF Settled, Stored
    <3>11. QED
      BY <1>5, <3>9, <3>10
  <2>4. QED
    BY <2>2, <2>3
<1>6. ASSUME NEW q \in Partitions, RecordStep(m, q) PROVE Settled(p, i)'
  <2>1. CASE Process(m, q) \/ InsertOK(m, q)
    BY <1>5, <2>1
  <2>2. CASE InsertRetry(m, q)
    BY <1>2, <2>2 DEF InsertRetry
  <2>3. CASE InsertExhausted(m, q) \/ InsertPermanent(m, q)
    BY <1>4, <2>3 DEF InsertExhausted, InsertPermanent, Leaves
  <2>4. QED
    BY <1>6, <2>1, <2>2, <2>3 DEF RecordStep
<1>7. ASSUME NEW upto, Poll(m, upto) PROVE Settled(p, i)'
  BY <1>2, <1>7 DEF Poll
<1>8. CASE Restart(m) \/ Commit(m)
  BY <1>2, <1>8 DEF Restart, Commit
<1>9. CASE CommitFails(m) \/ Shutdown(m) \/ Crash(m)
  BY <1>4, <1>9 DEF CommitFails, Shutdown, Crash, Leaves
<1>10. QED
  BY <1>3, <1>6, <1>7, <1>8, <1>9 DEF EngineStep

LEMMA NextProgressIsSettled ==
    ASSUME TypeOK, OffsetsInLog, InsertsAreValid, ProgressIsSettled, CommittedSettled,
           [Next]_vars
    PROVE  ProgressIsSettled'
<1> SUFFICES ASSUME NEW n \in Engines, NEW p \in held'[n], NEW i \in 1..done'[n][p]
             PROVE  Settled(p, i)'
  BY DEF ProgressIsSettled
<1>1. ASSUME held'[n] = held[n], done'[n] = done[n] PROVE Settled(p, i)'
  <2>1. p \in Partitions /\ i \in 1..Len(log[p])
    BY <1>1 DEF TypeOK, OffsetsInLog
  <2>2. QED
    BY <1>1, <2>1, SettledStays DEF ProgressIsSettled
<1>2. ASSUME NEW m \in Engines, EngineStep(m) PROVE Settled(p, i)'
  <2>1. CASE n = m
    BY <1>2, <2>1, SelfProgressIsSettled
  <2>2. CASE n # m
    BY <1>1, <1>2, <2>2, OtherMembers
  <2>3. QED
    BY <2>1, <2>2
<1>3. ASSUME NEW a, Rebalance(a) PROVE Settled(p, i)'
  <2>1. CASE n \in joined
    <3>1. p \in Partitions /\ i \in 1..committed[p]
      BY <1>3, <2>1, RebalanceEffect
    <3>2. i \in 1..Len(log[p])
      BY <3>1 DEF TypeOK, OffsetsInLog
    <3>3. QED
      BY <3>1, <3>2, SettledStays DEF CommittedSettled
  <2>2. CASE n \notin joined
    BY <1>1, <1>3, <2>2, RebalanceEffect
  <2>3. QED
    BY <2>1, <2>2
<1>4. CASE UNCHANGED <<held, done>>
  BY <1>1, <1>4
<1>5. QED
  BY <1>2, <1>3, <1>4, OutsideEffect DEF Next

LEMMA NextCommittedSettled ==
    ASSUME TypeOK, OffsetsInLog, ProgressIsSettled, CommittedSettled, [Next]_vars
    PROVE  CommittedSettled'
<1> SUFFICES ASSUME NEW p \in Partitions, NEW i \in 1..committed'[p]
             PROVE  Settled(p, i)'
  BY DEF CommittedSettled
<1>1. ASSUME i \in 1..committed[p] PROVE Settled(p, i)'
  <2>1. i \in 1..Len(log[p])
    BY <1>1 DEF TypeOK, OffsetsInLog
  <2>2. QED
    BY <1>1, <2>1, SettledStays DEF CommittedSettled
<1>2. ASSUME NEW m \in Engines, CommitStep(m) PROVE Settled(p, i)'
  <2>1. CASE p \in held[m]
    <3>1. committed'[p] = done[m][p]
      BY <1>2, <2>1 DEF CommitStep, Offsets, BatchProcessed
    <3>2. i \in 1..Len(log[p])
      BY <3>1 DEF TypeOK, OffsetsInLog
    <3>3. QED
      BY <2>1, <3>1, <3>2, SettledStays DEF ProgressIsSettled
  <2>2. CASE p \notin held[m]
    BY <1>1, <1>2, <2>2 DEF CommitStep, Offsets
  <2>3. QED
    BY <2>1, <2>2
<1>3. QED
  BY <1>1, <1>2, NextChanges

-----------------------------------------------------------------------------
(* One owner per partition, and never behind the group.                    *)

LEMMA SelfDoneGrows ==
    ASSUME TypeOK, NEW m \in Engines, EngineStep(m), NEW p \in held'[m]
    PROVE  p \in held[m] /\ done'[m][p] \in Nat /\ done[m][p] <= done'[m][p]
<1> USE DEF groupVars, memberVars
<1>1. CASE held' = held /\ done' = done
  BY <1>1 DEF TypeOK
<1>2. CASE Stopped(m)
  BY <1>2, StoppedSelf
<1>3. CASE Join(m) \/ Evict(m) \/ Restart(m) \/ Commit(m)
  <2>1. (held' = held /\ done' = done) \/ held'[m] = {}
    BY <1>3 DEF Join, Evict, Restart, Commit, TypeOK
  <2>2. QED
    BY <1>1, <2>1
<1>4. ASSUME NEW q \in Partitions, Process(m, q) \/ InsertOK(m, q)
      PROVE  p \in held[m] /\ done'[m][p] \in Nat /\ done[m][p] <= done'[m][p]
  <2>1. held' = held /\ (done' = done \/ done' = [done EXCEPT ![m][q] = @ + 1])
    BY <1>4 DEF Process, InsertOK
  <2>2. CASE done' = [done EXCEPT ![m][q] = @ + 1]
    <3>1. p \in Partitions /\ done[m][p] \in Nat
      BY <2>1 DEF TypeOK
    <3>2. done'[m][p] = IF p = q THEN done[m][p] + 1 ELSE done[m][p]
      BY <2>2, <3>1 DEF TypeOK
    <3>3. QED
      BY <2>1, <3>1, <3>2
  <2>3. QED
    BY <1>1, <2>1, <2>2
<1>5. ASSUME NEW q \in Partitions, RecordStep(m, q)
      PROVE  p \in held[m] /\ done'[m][p] \in Nat /\ done[m][p] <= done'[m][p]
  <2>1. CASE Process(m, q) \/ InsertOK(m, q)
    BY <1>4, <2>1
  <2>2. CASE InsertRetry(m, q)
    BY <1>1, <2>2 DEF InsertRetry
  <2>3. CASE InsertExhausted(m, q) \/ InsertPermanent(m, q)
    BY <1>2, <2>3 DEF InsertExhausted, InsertPermanent, Leaves
  <2>4. QED
    BY <1>5, <2>1, <2>2, <2>3 DEF RecordStep
<1>6. ASSUME NEW upto, Poll(m, upto)
      PROVE  p \in held[m] /\ done'[m][p] \in Nat /\ done[m][p] <= done'[m][p]
  BY <1>1, <1>6 DEF Poll
<1>7. CASE CommitFails(m) \/ Shutdown(m) \/ Crash(m)
  BY <1>2, <1>7 DEF CommitFails, Shutdown, Crash, Leaves
<1>8. QED
  BY <1>3, <1>5, <1>6, <1>7 DEF EngineStep

\* A member that joins holds nothing yet; no other engine step adds a member.
LEMMA JoinedGrows ==
    ASSUME TypeOK, NEW m \in Engines, EngineStep(m), m \in joined', m \notin joined
    PROVE  held'[m] = {}
<1> USE DEF groupVars, memberVars
<1>1. CASE Join(m)
  BY <1>1 DEF Join, TypeOK
<1>2. CASE Restart(m) \/ Evict(m) \/ Commit(m) \/ CommitFails(m) \/ Shutdown(m) \/ Crash(m)
  BY <1>2 DEF Restart, Evict, Commit, CommitFails, Shutdown, Crash, Leaves
<1>3. CASE \E upto \in [Partitions -> 0..MaxLog] : Poll(m, upto)
  BY <1>3 DEF Poll
<1>4. CASE \E p \in Partitions : RecordStep(m, p)
  BY <1>4 DEF RecordStep, Process, InsertOK, InsertRetry, InsertExhausted,
              InsertPermanent, Leaves
<1>5. QED
  BY <1>1, <1>2, <1>3, <1>4 DEF EngineStep

LEMMA EngineOwnersAhead ==
    ASSUME TypeOK, OffsetsInLog, InsertsAreValid, OwnersAhead, [Next]_vars,
           NEW m \in Engines, EngineStep(m)
    PROVE  OwnersAhead'
<1>1. ASSUME NEW n \in joined', held'[n] # {} PROVE n \in joined /\ n \in Engines
  BY <1>1, JoinedGrows, OtherMembers, NextTypeOK DEF TypeOK
<1>2. ASSUME NEW n \in Engines PROVE held'[n] \subseteq held[n]
  BY SelfDoneGrows, OtherMembers
<1>3. ASSUME NEW n1 \in joined', NEW n2 \in joined', n1 # n2
      PROVE  held'[n1] \intersect held'[n2] = {}
  <2>1. CASE held'[n1] = {} \/ held'[n2] = {}
    BY <2>1
  <2>2. CASE held'[n1] # {} /\ held'[n2] # {}
    BY <1>1, <1>2, <1>3, <2>2 DEF OwnersAhead
  <2>3. QED
    BY <2>1, <2>2
<1>4. ASSUME NEW n \in joined', NEW p \in held'[n] PROVE committed'[p] <= done'[n][p]
  <2>1. n \in joined /\ n \in Engines /\ p \in held[n] /\ p \in Partitions
    BY <1>1, <1>2, <1>4 DEF TypeOK
  <2>2. /\ committed[p] \in Nat /\ done[n][p] \in Nat /\ done'[n][p] \in Nat
        /\ committed[p] <= done[n][p] /\ done[n][p] <= done'[n][p]
    <3>1. committed[p] \in Nat /\ done[n][p] \in Nat /\ committed[p] <= done[n][p]
      BY <2>1 DEF TypeOK, OwnersAhead
    <3>2. CASE n = m
      BY <1>4, <3>1, <3>2, SelfDoneGrows
    <3>3. CASE n # m
      <4>1. done'[n] = done[n]
        BY <2>1, <3>3, OtherMembers
      <4>2. QED
        BY <3>1, <4>1
    <3>4. QED
      BY <3>2, <3>3
  <2>3. CASE CommitStep(m) /\ p \in held[m]
    <3>1. n = m
      BY <2>1, <2>3 DEF CommitStep, OwnersAhead
    <3>2. committed'[p] = done[m][p]
      BY <2>1, <2>3 DEF CommitStep, Offsets, BatchProcessed
    <3>3. QED
      BY <2>2, <3>1, <3>2
  <2>4. CASE UNCHANGED committed \/ (CommitStep(m) /\ p \notin held[m])
    <3>1. committed'[p] = committed[p]
      BY <2>1, <2>4 DEF CommitStep, Offsets
    <3>2. QED
      BY <2>2, <3>1
  <2>5. QED
    BY <2>3, <2>4, EngineChanges
<1>5. QED
  BY <1>3, <1>4 DEF OwnersAhead

LEMMA NextOwnersAhead ==
    ASSUME TypeOK, OffsetsInLog, InsertsAreValid, OwnersAhead, [Next]_vars
    PROVE  OwnersAhead'
<1>1. ASSUME NEW a \in [Partitions -> joined], Rebalance(a) PROVE OwnersAhead'
  <2>1. ASSUME NEW n \in joined
        PROVE  /\ n \in Engines /\ joined' = joined /\ committed' = committed
               /\ done'[n] = committed
               /\ held'[n] = {p \in Partitions : a[p] = n}
    BY <1>1, RebalanceEffect DEF TypeOK
  <2>2. joined' = joined
    BY <1>1 DEF Rebalance, Assign
  <2>3. \A n1, n2 \in joined : n1 # n2 => held'[n1] \intersect held'[n2] = {}
    BY <2>1
  <2>4. ASSUME NEW n \in joined, NEW p \in held'[n] PROVE committed'[p] <= done'[n][p]
    <3>1. p \in Partitions /\ committed[p] \in Nat
      BY <2>1, <2>4 DEF TypeOK
    <3>2. QED
      BY <2>1, <3>1
  <2>5. QED
    BY <2>2, <2>3, <2>4 DEF OwnersAhead
<1>2. CASE UNCHANGED <<committed, joined, held, done>>
  BY <1>2 DEF OwnersAhead
<1>3. QED
  BY <1>1, <1>2, EngineOwnersAhead, OutsideEffect DEF Next

-----------------------------------------------------------------------------
(* The table.                                                              *)

LEMMA NextOneRowPerEvent ==
    ASSUME OneRowPerEvent, [Next]_vars
    PROVE  OneRowPerEvent'
<1>1. CASE UNCHANGED rows
  BY <1>1 DEF OneRowPerEvent
<1>2. ASSUME NEW m \in Engines, NEW p \in Partitions, ApplyInsert(m, p)
      PROVE  OneRowPerEvent'
  <2>1. CASE Stored(Current(m, p))
    BY <1>1, <1>2, <2>1 DEF ApplyInsert
  <2>2. CASE ~Stored(Current(m, p))
    <3> DEFINE new == [event |-> Current(m, p), from |-> NextRecord(m, p)]
    <3>1. rows' = rows \union {new}
      BY <1>2, <2>2 DEF ApplyInsert
    <3>2. \A r \in rows : ~(/\ IdOf[r.event] = IdOf[new.event]
                            /\ TimeOf[r.event] = TimeOf[new.event])
      BY <2>2 DEF Stored
    <3> HIDE DEF new
    <3>3. QED
      BY <3>1, <3>2 DEF OneRowPerEvent
  <2>3. QED
    BY <2>1, <2>2
<1>3. QED
  BY <1>1, <1>2, NextChanges DEF RowStep

LEMMA NextRowsComeFromTopic ==
    ASSUME TypeOK, OffsetsInLog, InsertsAreValid, RowsComeFromTopic, [Next]_vars
    PROVE  RowsComeFromTopic'
<1> DEFINE FromTopic(r) == /\ r.event \in Contract
                           /\ r.from.offset \in 1..Len(log[r.from.partition])
                           /\ log[r.from.partition][r.from.offset] = r.event
<1>1. ASSUME NEW r \in rows PROVE FromTopic(r)'
  <2>1. r.from.partition \in Partitions /\ FromTopic(r)
    BY DEF TypeOK, Records, RowsComeFromTopic
  <2>2. /\ Len(log[r.from.partition]) <= Len(log'[r.from.partition])
        /\ \A i \in 1..Len(log[r.from.partition]) :
              log'[r.from.partition][i] = log[r.from.partition][i]
    BY <2>1, LogGrows
  <2>3. log[r.from.partition] \in Seq(Events) /\ log'[r.from.partition] \in Seq(Events)
    BY <2>1, NextTypeOK DEF TypeOK
  <2>4. QED
    BY <2>1, <2>2, <2>3
<1>2. ASSUME NEW m \in Engines, NEW p \in Partitions, Inserting(m, p),
             NEW r \in {[event |-> Current(m, p), from |-> NextRecord(m, p)]}
      PROVE  FromTopic(r)'
  <2>1. /\ done[m][p] < pos[m][p] /\ Current(m, p) \in Contract
    BY <1>2 DEF InsertsAreValid, Inserting
  <2>2. done[m][p] + 1 \in 1..Len(log[p])
    BY <2>1, CurrentType
  <2>3. log'[p][done[m][p] + 1] = Current(m, p) /\ done[m][p] + 1 \in 1..Len(log'[p])
    <3>1. log[p] \in Seq(Events) /\ log'[p] \in Seq(Events)
      BY NextTypeOK DEF TypeOK
    <3>2. QED
      BY <2>2, <3>1, LogGrows DEF Current
  <2>4. /\ r.event = Current(m, p) /\ r.from.partition = p
        /\ r.from.offset = done[m][p] + 1
    BY <1>2 DEF NextRecord
  <2>5. QED
    BY <2>1, <2>3, <2>4
<1>3. ASSUME NEW r \in rows' PROVE FromTopic(r)'
  <2>1. \/ r \in rows
        \/ \E m \in Engines, p \in Partitions :
              /\ Inserting(m, p)
              /\ r \in {[event |-> Current(m, p), from |-> NextRecord(m, p)]}
    BY <1>3, NextChanges DEF RowStep, ApplyInsert
  <2>2. QED
    BY <1>1, <1>2, <2>1
<1>4. QED
  BY <1>3 DEF RowsComeFromTopic

-----------------------------------------------------------------------------
(* The invariants of the specification.                                    *)

LEMMA InitIInv == Init => IInv
<1> SUFFICES ASSUME Init PROVE IInv
  OBVIOUS
<1>1. TypeOK
  BY InitTypeOK
<1>2. OffsetsInLog
  BY DEF Init, OffsetsInLog, Zero
<1>3. InsertsAreValid /\ UnfinishedIsHeld
  BY DEF Init, InsertsAreValid, UnfinishedIsHeld, Zero
<1>4. ProgressIsSettled /\ CommittedSettled
  BY DEF Init, ProgressIsSettled, CommittedSettled, Zero
<1>5. OwnersAhead /\ OneRowPerEvent /\ RowsComeFromTopic
  BY DEF Init, OwnersAhead, OneRowPerEvent, RowsComeFromTopic
<1>6. QED
  BY <1>1, <1>2, <1>3, <1>4, <1>5 DEF IInv

LEMMA NextIInv == IInv /\ [Next]_vars => IInv'
BY NextTypeOK, NextOffsetsInLog, NextInsertsAreValid, NextUnfinishedIsHeld,
   NextProgressIsSettled, NextCommittedSettled, NextOwnersAhead,
   NextOneRowPerEvent, NextRowsComeFromTopic DEF IInv

LEMMA Invariance == Spec => []IInv
BY InitIInv, NextIInv, PTL DEF Spec

\* Every variable keeps its type; insert attempts never exceed
\* DB_RETRY_ATTEMPTS (insertWithRetry's counting).
THEOREM TypeCorrect == Spec => []TypeOK
<1>1. IInv => TypeOK
  BY DEF IInv
<1>2. QED
  BY <1>1, Invariance, PTL

\* No committed offset passes a record that is neither stored nor dropped as
\* invalid: the at-least-once contract of Runner.Run, for any number of
\* engines, partitions, crashes, evictions and rebalances.
THEOREM CommittedIsDurableAlways == Spec => []CommittedIsDurable
<1>1. IInv => CommittedIsDurable
  <2> SUFFICES ASSUME IInv, NEW p \in Partitions, NEW i \in 1..committed[p]
               PROVE  i <= Len(log[p]) /\ Settled(p, i)
    BY DEF CommittedIsDurable
  <2>1. committed[p] \in Nat /\ committed[p] <= Len(log[p]) /\ Len(log[p]) \in Nat
    BY DEF IInv, TypeOK, OffsetsInLog
  <2>2. QED
    BY <2>1 DEF IInv, CommittedSettled
<1>2. QED
  BY <1>1, Invariance, PTL

\* Redeliveries and retries never add a second row for an event
\* (insertEventSQL's conflict target).
THEOREM OneRowPerEventAlways == Spec => []OneRowPerEvent
<1>1. IInv => OneRowPerEvent
  BY DEF IInv
<1>2. QED
  BY <1>1, Invariance, PTL

\* Every row was stored from a valid record that is on the topic
\* (Processor.Process revalidates before it inserts).
THEOREM RowsComeFromTopicAlways == Spec => []RowsComeFromTopic
<1>1. IInv => RowsComeFromTopic
  BY DEF IInv
<1>2. QED
  BY <1>1, Invariance, PTL

\* A commit never moves the group's offset back: the owner of a partition is
\* never behind it, and the coordinator refuses whoever is not the owner
\* (BlockRebalanceOnPoll and Consumer.Commit).
THEOREM OffsetsNeverMoveBackAlways == Spec => OffsetsNeverMoveBack
<1>1. ASSUME IInv, [Next]_vars, NEW p \in Partitions PROVE committed'[p] >= committed[p]
  <2>1. committed[p] \in Nat
    BY <1>1 DEF IInv, TypeOK
  <2>2. ASSUME NEW m \in Engines, CommitStep(m) PROVE committed'[p] >= committed[p]
    <3>1. CASE p \in held[m]
      <4>1. committed'[p] = done[m][p] /\ committed[p] <= done[m][p] /\ done[m][p] \in Nat
        BY <1>1, <2>2, <3>1 DEF CommitStep, Offsets, BatchProcessed, IInv, OwnersAhead, TypeOK
      <4>2. QED
        BY <2>1, <4>1
    <3>2. CASE p \notin held[m]
      BY <2>1, <2>2, <3>2 DEF CommitStep, Offsets
    <3>3. QED
      BY <3>1, <3>2
  <2>3. QED
    BY <1>1, <2>1, <2>2, NextChanges
<1>2. IInv /\ [Next]_vars => [\A p \in Partitions : committed'[p] >= committed[p]]_vars
  BY <1>1
<1>3. QED
  BY <1>2, Invariance, PTL DEF Spec, OffsetsNeverMoveBack

-----------------------------------------------------------------------------
(* Accepted events, when no engine's clock is behind the API's.            *)

ClocksAgree == \A m \in Engines : EngineLag[m] <= 0

LEMMA ClockGrows ==
    ASSUME TypeOK, [Next]_vars
    PROVE  clock \in Nat /\ clock' \in Nat /\ clock <= clock'
<1>1. UNCHANGED clock \/ clock' = clock + 1
  <2>1. CASE \E h \in Handlers : IngestStep(h)
    BY <2>1, IngestChanges
  <2>2. CASE \E m \in Engines : EngineStep(m)
    BY <2>2, EngineChanges
  <2>3. CASE \E p \in Partitions, e \in Events : ForeignProduce(p, e)
    BY <2>3 DEF ForeignProduce
  <2>4. CASE \E a \in [Partitions -> joined] : Rebalance(a)
    BY <2>4 DEF Rebalance, Assign
  <2>5. CASE Tick \/ Quiescent \/ UNCHANGED vars
    BY <2>5 DEF Tick, Quiescent, vars
  <2>6. QED
    BY <2>1, <2>2, <2>3, <2>4, <2>5 DEF Next
<1>2. QED
  BY <1>1 DEF TypeOK

LEMMA BoundStays ==
    ASSUME TypeOK, [Next]_vars, NEW e \in Events, InFutureBound(TimeOf[e], clock)
    PROVE  InFutureBound(TimeOf[e], clock)'
<1>1. TimeOf[e] \in Nat /\ MaxFuture \in Nat
  BY DataAssumption, BoundAssumption
<1>2. QED
  BY <1>1, ClockGrows DEF InFutureBound

\* An event the API found valid is valid for an engine whose clock agrees.
LEMMA EngineAgrees ==
    ASSUME ClocksAgree, TypeOK, NEW m \in Engines, NEW e \in Events, e \in Contract,
           InFutureBound(TimeOf[e], clock)
    PROVE  ValidAtEngine(m, e)
<1>1. /\ TimeOf[e] \in Nat /\ MaxFuture \in Nat /\ EngineLag[m] \in Int /\ clock \in Nat
      /\ EngineLag[m] <= 0
  BY DataAssumption, BoundAssumption DEF TypeOK, ClocksAgree
<1>2. QED
  BY <1>1 DEF ValidAtEngine, InFutureBound

LEMMA KeptStays ==
    ASSUME ClocksAgree, TypeOK, OffsetsInLog, [Next]_vars, NEW e \in Events, Kept(e)
    PROVE  Kept(e)'
<1>0. PICK p \in Partitions : \E i \in 1..Len(log[p]) :
         log[p][i] = e /\ [partition |-> p, offset |-> i] \notin discarded
  BY DEF Kept
<1>1. PICK i \in 1..Len(log[p]) :
         log[p][i] = e /\ [partition |-> p, offset |-> i] \notin discarded
  BY <1>0
<1>2. i \in 1..Len(log'[p]) /\ log'[p][i] = e
  <2>1. /\ Len(log[p]) \in Nat /\ Len(log'[p]) \in Nat
        /\ Len(log[p]) <= Len(log'[p]) /\ log'[p][i] = log[p][i]
    <3>1. log[p] \in Seq(Events)
      BY DEF TypeOK
    <3>2. log'[p] \in Seq(Events)
      <4>1. ASSUME NEW q \in Partitions, NEW f \in Events, LogStep(q, f)
            PROVE  log'[p] \in Seq(Events)
        BY <4>1, <3>1 DEF LogStep, TypeOK
      <4>2. QED
        BY <3>1, <4>1, NextChanges, DataAssumption
    <3>3. QED
      BY <3>1, <3>2, LogGrows
  <2>2. QED
    BY <1>1, <2>1
<1>3. [partition |-> p, offset |-> i] \notin discarded'
  <2>1. ASSUME NEW m \in Engines, NEW q \in Partitions, DropStep(m, q),
               [partition |-> p, offset |-> i] = NextRecord(m, q)
        PROVE  FALSE
    <3>1. q = p /\ done[m][q] + 1 = i
      BY <2>1 DEF NextRecord
    <3>2. Current(m, q) = e
      BY <1>1, <3>1 DEF Current
    <3>3. ValidAtEngine(m, e)
      BY EngineAgrees DEF Kept
    <3>4. QED
      BY <2>1, <3>2, <3>3 DEF DropStep
  <2>2. QED
    BY <1>1, <2>1, NextChanges DEF DropStep
<1>4. e \in Contract /\ InFutureBound(TimeOf[e], clock)'
  BY BoundStays DEF Kept
<1>5. QED
  BY <1>2, <1>3, <1>4 DEF Kept

\* A record that has just been appended has not been dropped.
LEMMA AppendedIsKept ==
    ASSUME TypeOK, OffsetsInLog, NEW e \in Events, e \in Contract,
           InFutureBound(TimeOf[e], clock)', NEW p \in Partitions, LogStep(p, e),
           discarded' = discarded
    PROVE  Kept(e)'
<1> DEFINE i == Len(log[p]) + 1
<1>1. log[p] \in Seq(Events) /\ log'[p] = Append(log[p], e)
  BY DEF TypeOK, LogStep
<1>2. i \in 1..Len(log'[p]) /\ log'[p][i] = e
  BY <1>1
<1>3. [partition |-> p, offset |-> i] \notin discarded'
  <2>1. ASSUME [partition |-> p, offset |-> i] \in discarded PROVE FALSE
    <3>1. i \in 1..Len(log[p])
      BY <2>1 DEF OffsetsInLog
    <3>2. QED
      BY <1>1, <3>1
  <2>2. QED
    BY <2>1
<1> HIDE DEF i
<1>4. QED
  BY <1>2, <1>3 DEF Kept

\* The part of AcceptedIsKept about one request.
RequestKept(h) ==
    /\ pending[h] \subseteq sent[h]
    /\ \A e \in sent[h] : e \in Contract /\ InFutureBound(TimeOf[e], clock)
    /\ ~failed[h] => \A e \in sent[h] \ pending[h] : Kept(e)

LEMMA RequestStays ==
    ASSUME ClocksAgree, TypeOK, OffsetsInLog, [Next]_vars, NEW h \in Handlers,
           RequestKept(h),
           sent'[h] = sent[h], pending'[h] = pending[h], failed'[h] = failed[h]
    PROVE  RequestKept(h)'
<1>1. sent[h] \subseteq Events
  BY DEF TypeOK
<1>2. \A e \in sent[h] : InFutureBound(TimeOf[e], clock)'
  BY <1>1, BoundStays DEF RequestKept
<1>3. ~failed[h] => \A e \in sent[h] \ pending[h] : Kept(e)'
  BY <1>1, KeptStays DEF RequestKept
<1>4. QED
  BY <1>2, <1>3 DEF RequestKept

LEMMA RequestMoves ==
    ASSUME ClocksAgree, TypeOK, OffsetsInLog, [Next]_vars, NEW h \in Handlers,
           RequestKept(h), IngestStep(h)
    PROVE  RequestKept(h)'
<1>0. /\ sent[h] \subseteq Events /\ pending[h] \subseteq Events
      /\ failed[h] \in BOOLEAN /\ clock' = clock /\ discarded' = discarded
  BY IngestChanges DEF TypeOK
<1>1. ASSUME NEW S \in SUBSET Events, \A e \in S : ValidAtIngest(e), Publishing(h, S)
      PROVE  RequestKept(h)'
  <2>1. sent'[h] = S /\ pending'[h] = S
    BY <1>1 DEF Publishing, TypeOK
  <2>2. \A e \in S : e \in Contract /\ InFutureBound(TimeOf[e], clock)'
    BY <1>0, <1>1 DEF ValidAtIngest, InFutureBound
  <2>3. QED
    BY <2>1, <2>2 DEF RequestKept
<1>2. CASE \E e \in Events : PostEvent(h, e)
  BY <1>1, <1>2 DEF PostEvent
<1>3. CASE \E S \in SUBSET Events : PostEventBatch(h, S)
  BY <1>1, <1>3 DEF PostEventBatch
<1>4. ASSUME NEW e \in Events, Produce(h, e) PROVE RequestKept(h)'
  <2>1. /\ e \in pending[h] /\ sent'[h] = sent[h] /\ pending'[h] = pending[h] \ {e}
        /\ failed'[h] = failed[h] /\ LogStep(PartitionOf[e], e)
    BY <1>4 DEF Produce, LogStep, TypeOK
  <2>2. \A f \in sent[h] : f \in Contract /\ InFutureBound(TimeOf[f], clock)'
    BY <1>0, BoundStays DEF RequestKept
  <2>3. Kept(e)'
    <3>1. e \in sent[h] /\ PartitionOf[e] \in Partitions
      BY <2>1, DataAssumption DEF RequestKept
    <3>2. QED
      BY <1>0, <2>1, <2>2, <3>1, AppendedIsKept
  <2>4. ~failed[h] => \A f \in sent[h] \ pending[h] : Kept(f)'
    BY <1>0, KeptStays DEF RequestKept
  <2>5. QED
    BY <2>1, <2>2, <2>3, <2>4 DEF RequestKept
<1>5. ASSUME NEW e \in Events, ProduceFails(h, e) PROVE RequestKept(h)'
  <2>1. /\ sent'[h] = sent[h] /\ pending'[h] = pending[h] \ {e} /\ failed'[h]
    BY <1>5 DEF ProduceFails, TypeOK
  <2>2. \A f \in sent[h] : f \in Contract /\ InFutureBound(TimeOf[f], clock)'
    BY <1>0, BoundStays DEF RequestKept
  <2>3. QED
    BY <2>1, <2>2 DEF RequestKept
<1>6. CASE Respond(h) \/ CrashIngest(h)
  <2>1. sent'[h] = {} /\ pending'[h] = {}
    BY <1>6 DEF Respond, CrashIngest, RequestEnds, TypeOK
  <2>2. QED
    BY <2>1 DEF RequestKept
<1>7. QED
  BY <1>2, <1>3, <1>4, <1>5, <1>6 DEF IngestStep

LEMMA OtherRequests ==
    ASSUME TypeOK, NEW h \in Handlers, IngestStep(h), NEW g \in Handlers, g # h
    PROVE  sent'[g] = sent[g] /\ pending'[g] = pending[g] /\ failed'[g] = failed[g]
<1>1. CASE (\E e \in Events : PostEvent(h, e)) \/ (\E S \in SUBSET Events : PostEventBatch(h, S))
  BY <1>1 DEF PostEvent, PostEventBatch, Publishing, TypeOK
<1>2. CASE \E e \in Events : Produce(h, e) \/ ProduceFails(h, e)
  BY <1>2 DEF Produce, ProduceFails, TypeOK
<1>3. CASE Respond(h) \/ CrashIngest(h)
  BY <1>3 DEF Respond, CrashIngest, RequestEnds, TypeOK
<1>4. QED
  BY <1>1, <1>2, <1>3 DEF IngestStep

\* Only an answer changes what is acknowledged, and it changes nothing else
\* that the stream shows.
LEMMA AckedChanges ==
    ASSUME [Next]_vars
    PROVE  \/ UNCHANGED acked
           \/ \E h \in Handlers : Respond(h) /\ UNCHANGED <<log, committed, rows, discarded>>
<1> USE DEF groupVars, memberVars
<1>1. CASE \E h \in Handlers : IngestStep(h)
  BY <1>1 DEF IngestStep, PostEvent, PostEventBatch, Produce, ProduceFails, Respond,
              CrashIngest
<1>2. CASE \E m \in Engines : EngineStep(m)
  BY <1>2, EngineChanges
<1>3. CASE \E p \in Partitions, e \in Events : ForeignProduce(p, e)
  BY <1>3 DEF ForeignProduce
<1>4. CASE \E a \in [Partitions -> joined] : Rebalance(a)
  BY <1>4 DEF Rebalance, Assign
<1>5. CASE Tick \/ Quiescent \/ UNCHANGED vars
  BY <1>5 DEF Tick, Quiescent, vars
<1>6. QED
  BY <1>1, <1>2, <1>3, <1>4, <1>5 DEF Next

LEMMA RequestsUnchanged ==
    ASSUME [Next]_vars, ~\E h \in Handlers : IngestStep(h)
    PROVE  UNCHANGED <<sent, pending, failed>>
<1> USE DEF requestVars
<1>1. CASE \E m \in Engines : EngineStep(m)
  BY <1>1, EngineChanges
<1>2. CASE \E p \in Partitions, e \in Events : ForeignProduce(p, e)
  BY <1>2 DEF ForeignProduce
<1>3. CASE \E a \in [Partitions -> joined] : Rebalance(a)
  BY <1>3 DEF Rebalance, Assign
<1>4. CASE Tick \/ Quiescent \/ UNCHANGED vars
  BY <1>4 DEF Tick, Quiescent, vars
<1>5. QED
  BY <1>1, <1>2, <1>3, <1>4 DEF Next

LEMMA NextAcceptedIsKept ==
    ASSUME ClocksAgree, TypeOK, OffsetsInLog, AcceptedIsKept, [Next]_vars
    PROVE  AcceptedIsKept'
<1>1. \A h \in Handlers : RequestKept(h)
  BY DEF AcceptedIsKept, RequestKept
<1>2. ASSUME NEW g \in Handlers PROVE RequestKept(g)'
  <2>1. CASE \E h \in Handlers : IngestStep(h)
    BY <1>1, <2>1, RequestMoves, RequestStays, OtherRequests
  <2>2. CASE ~\E h \in Handlers : IngestStep(h)
    BY <1>1, <2>2, RequestStays, RequestsUnchanged
  <2>3. QED
    BY <2>1, <2>2
<1>3. ASSUME NEW e \in acked' PROVE Kept(e)'
  <2>1. CASE e \in acked
    BY <2>1, KeptStays DEF AcceptedIsKept, TypeOK
  <2>2. ASSUME NEW h \in Handlers, Respond(h), e \notin acked PROVE Kept(e)'
    <3>1. e \in sent[h] /\ pending[h] = {} /\ ~failed[h] /\ e \in Events
      BY <1>3, <2>2 DEF Respond, TypeOK
    <3>2. QED
      BY <1>1, <3>1, KeptStays DEF RequestKept
  <2>3. QED
    BY <1>3, <2>1, <2>2, AckedChanges
<1>4. QED
  BY <1>2, <1>3 DEF AcceptedIsKept, RequestKept

LEMMA AcceptedInvariance ==
    ASSUME ClocksAgree
    PROVE  Spec => [](IInv /\ AcceptedIsKept)
<1>1. Init => AcceptedIsKept
  BY DEF Init, AcceptedIsKept
<1>2. IInv /\ AcceptedIsKept /\ [Next]_vars => AcceptedIsKept'
  BY NextAcceptedIsKept DEF IInv
<1>3. QED
  BY <1>1, <1>2, InitIInv, NextIInv, PTL DEF Spec

LEMMA KeptIsDeliverable ==
    ASSUME IInv, NEW e \in Events, Kept(e)
    PROVE  Deliverable(e)
<1>0. PICK p \in Partitions : \E i \in 1..Len(log[p]) :
         log[p][i] = e /\ [partition |-> p, offset |-> i] \notin discarded
  BY DEF Kept
<1>1. PICK i \in 1..Len(log[p]) :
         log[p][i] = e /\ [partition |-> p, offset |-> i] \notin discarded
  BY <1>0
<1>2. CASE i \in 1..committed[p]
  BY <1>1, <1>2 DEF IInv, CommittedSettled, Settled, Deliverable
<1>3. CASE i \notin 1..committed[p]
  <2>1. committed[p] \in Nat
    BY DEF IInv, TypeOK
  <2>2. committed[p] < i
    BY <1>3, <2>1
  <2>3. QED
    BY <1>1, <2>2 DEF Deliverable
<1>4. QED
  BY <1>2, <1>3

\* An event answered 202 is stored or still ahead of the committed offset,
\* for any number of requests, engines, faults and rebalances, provided that
\* no engine's clock is behind the API's (PostEvent's all-or-nothing promise).
THEOREM AcceptedIsDeliverableAlways ==
    ASSUME ClocksAgree
    PROVE  Spec => []AcceptedIsDeliverable
<1>1. IInv /\ AcceptedIsKept => AcceptedIsDeliverable
  BY KeptIsDeliverable DEF IInv, TypeOK, AcceptedIsKept, AcceptedIsDeliverable
<1>2. QED
  BY <1>1, AcceptedInvariance, PTL

-----------------------------------------------------------------------------
(* The pipeline implements DurableStream.                                  *)

LEMMA InitStream == Init => Stream!Init
BY DEF Init, Stream!Init, Zero

LEMMA StepStream ==
    ASSUME IInv, AcceptedIsKept, [Next]_vars, IInv', AcceptedIsDeliverable'
    PROVE  [Stream!Next]_Stream!vars
<1>1. ASSUME NEW p \in Partitions, NEW e \in Events, LogStep(p, e),
             UNCHANGED <<committed, rows, acked>>
      PROVE  Stream!Next
  BY <1>1 DEF LogStep, Stream!Next, Stream!Publish
<1>2. ASSUME NEW h \in Handlers, Respond(h), UNCHANGED <<log, committed, rows>>
      PROVE  [Stream!Next]_Stream!vars
  <2>1. CASE failed[h]
    BY <1>2, <2>1 DEF Respond, Stream!vars
  <2>2. CASE ~failed[h]
    <3>1. sent[h] \in SUBSET Events /\ pending[h] = {} /\ acked' = acked \union sent[h]
      BY <1>2, <2>2 DEF Respond, IInv, TypeOK
    <3>2. \A e \in sent[h] : Deliverable(e)
      BY <2>2, <3>1, KeptIsDeliverable DEF AcceptedIsKept
    <3>3. Stream!Accept(sent[h])
      BY <1>2, <3>1, <3>2 DEF Stream!Accept, Stream!Stored, Deliverable, Stored
    <3>4. QED
      BY <3>1, <3>3 DEF Stream!Next
  <2>3. QED
    BY <2>1, <2>2
<1>3. ASSUME NEW m \in Engines, NEW p \in Partitions, RowStep(m, p),
             UNCHANGED <<log, committed, acked>>
      PROVE  [Stream!Next]_Stream!vars
  <2>1. CASE Stored(Current(m, p))
    BY <1>3, <2>1 DEF RowStep, ApplyInsert, Stream!vars
  <2>2. CASE ~Stored(Current(m, p))
    <3>1. done[m][p] + 1 \in 1..Len(log[p])
      BY <1>3, CurrentType DEF RowStep, Inserting, IInv, InsertsAreValid
    <3>2. Stream!Store(p, done[m][p] + 1)
      BY <1>3, <2>2, <3>1 DEF RowStep, ApplyInsert, Stream!Store, Stream!Stored, Stored,
                              Current, NextRecord
    <3>3. QED
      BY <3>1, <3>2 DEF Stream!Next
  <2>3. QED
    BY <2>1, <2>2
<1>4. ASSUME NEW m \in Engines, CommitStep(m), UNCHANGED <<log, rows, acked>>
      PROVE  Stream!Next
  <2>1. \A p \in Partitions : committed'[p] \in committed[p]..Len(log[p])
    <3>1. ASSUME NEW p \in Partitions PROVE committed'[p] \in committed[p]..Len(log[p])
      <4>1. /\ committed[p] \in Nat /\ committed'[p] \in Nat /\ committed'[p] <= Len(log[p])
            /\ Len(log[p]) \in Nat
        BY <1>4 DEF IInv, TypeOK, OffsetsInLog
      <4>2. CASE p \in held[m]
        <5>1. committed'[p] = done[m][p] /\ committed[p] <= done[m][p]
          BY <1>4, <4>2 DEF CommitStep, Offsets, BatchProcessed, IInv, OwnersAhead
        <5>2. QED
          BY <4>1, <5>1
      <4>3. CASE p \notin held[m]
        BY <1>4, <4>1, <4>3 DEF CommitStep, Offsets
      <4>4. QED
        BY <4>2, <4>3
    <3>2. QED
      BY <3>1
  <2>2. ASSUME NEW e \in acked
        PROVE  \/ Stored(e)
               \/ \E p \in Partitions : \E i \in 1..Len(log[p]) :
                     committed'[p] < i /\ log[p][i] = e
    <3>1. Deliverable(e)'
      BY <1>4 DEF AcceptedIsDeliverable
    <3>2. Stored(e)' <=> Stored(e)
      BY <1>4 DEF Stored
    <3>3. QED
      BY <1>4, <3>1, <3>2 DEF Deliverable
  <2>3. Stream!Advance(committed')
    BY <1>4, <2>1, <2>2 DEF Stream!Advance, Stream!Stored, Stored
  <2>4. committed' \in [Partitions -> UNION {0..Len(log[p]) : p \in Partitions}]
    <3>1. committed' \in [Partitions -> Nat]
      BY DEF IInv, TypeOK
    <3>2. \A p \in Partitions : committed'[p] \in 0..Len(log[p])
      BY <2>1 DEF IInv, TypeOK
    <3>3. QED
      BY <3>1, <3>2
  <2>5. QED
    BY <2>3, <2>4 DEF Stream!Next
<1>5. CASE \E h \in Handlers : IngestStep(h)
  <2>1. UNCHANGED <<rows, committed>>
    BY <1>5, IngestChanges
  <2>2. CASE UNCHANGED acked
    <3>1. UNCHANGED log \/ \E p \in Partitions, e \in Events : LogStep(p, e)
      BY <1>5, IngestChanges, DataAssumption
    <3>2. QED
      BY <1>1, <2>1, <2>2, <3>1 DEF Stream!vars
  <2>3. QED
    BY <1>2, <2>2, AckedChanges
<1>6. CASE \E m \in Engines : EngineStep(m)
  <2>1. UNCHANGED <<log, acked>>
    BY <1>6, EngineChanges
  <2>2. ASSUME NEW m \in Engines, NEW p \in Partitions, RowStep(m, p), CommitStep(m)
        PROVE  FALSE
    BY <2>2 DEF RowStep, Inserting, CommitStep, BatchProcessed, IInv, InsertsAreValid,
                UnfinishedIsHeld, TypeOK
  <2>3. PICK m \in Engines : EngineStep(m)
    BY <1>6
  <2>4. /\ UNCHANGED rows \/ \E p \in Partitions : RowStep(m, p)
        /\ UNCHANGED committed \/ CommitStep(m)
    BY <2>3, EngineChanges
  <2>5. CASE UNCHANGED rows /\ UNCHANGED committed
    BY <2>1, <2>5 DEF Stream!vars
  <2>6. CASE UNCHANGED committed /\ \E p \in Partitions : RowStep(m, p)
    BY <1>3, <2>1, <2>6
  <2>7. CASE UNCHANGED rows /\ CommitStep(m)
    BY <1>4, <2>1, <2>7
  <2>8. QED
    BY <2>2, <2>4, <2>5, <2>6, <2>7
<1>7. CASE \E p \in Partitions, e \in Events : ForeignProduce(p, e)
  BY <1>1, <1>7 DEF ForeignProduce, LogStep
<1>8. CASE \E a \in [Partitions -> joined] : Rebalance(a)
  BY <1>8 DEF Rebalance, Assign, Stream!vars
<1>9. CASE Tick \/ Quiescent \/ UNCHANGED vars
  BY <1>9 DEF Tick, Quiescent, vars, Stream!vars
<1>10. QED
  BY <1>5, <1>6, <1>7, <1>8, <1>9 DEF Next

\* The topic, the committed offsets, the table and the answers to producers
\* implement the abstract stream: whatever the engines, the group and the
\* retries do shows up as appends, accepts, stores and advances of it.
THEOREM ImplementsStreamAlways ==
    ASSUME ClocksAgree
    PROVE  Spec => ImplementsStream
<1>1. IInv /\ AcceptedIsKept /\ [Next]_vars /\ IInv' /\ AcceptedIsDeliverable'
        => [Stream!Next]_Stream!vars
  BY StepStream
<1>2. QED
  BY <1>1, InitStream, AcceptedInvariance, AcceptedIsDeliverableAlways, PTL
     DEF Spec, ImplementsStream, Stream!Spec
=============================================================================
