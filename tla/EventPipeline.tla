--------------------------- MODULE EventPipeline ---------------------------
(***************************************************************************)
(* The telemetry pipeline of SentinelFlow: the ingestion API publishes     *)
(* events to a partitioned Kafka topic, replicas of the incident engine    *)
(* consume it as one group and store every event in telemetry_events.      *)
(*                                                                         *)
(* Steps that call another system (a produce, an insert, an offset commit) *)
(* are actions of their own, so that crashes, evictions from the consumer  *)
(* group and other replicas interleave with them.                          *)
(***************************************************************************)
EXTENDS Integers, Sequences, FiniteSets

CONSTANTS
    Events,        \* the event values producers send, byte-identical when equal
    IdOf,          \* event -> event_id
    TimeOf,        \* event -> the producer's event timestamp
    PartitionOf,   \* event -> the partition its tenant:service key hashes to
    Contract,      \* the events that satisfy the structural event contract
    Unstorable,    \* contract-satisfying events PostgreSQL refuses every time
    Handlers,      \* concurrent requests at the ingestion API
    Engines,       \* replicas of the incident engine
    Partitions,    \* partitions of the topic
    MaxFuture,     \* MAX_EVENT_FUTURE_SKEW, read by both services; 0 disables
    MaxAge,        \* the API's back-dating bound; 0 disables
    EngineLag,     \* engine -> how far its clock is behind the API's
    MaxBatchEvents,
    MaxPollRecords,
    MaxAttempts,   \* DB_RETRY_ATTEMPTS
    MaxLog,        \* bound: records on the topic
    MaxClock,      \* bound: the clock
    MaxFaults      \* bound: crashes, evictions, lost replies, transient errors

ASSUME DataAssumption ==
    /\ IdOf \in [Events -> Nat] /\ TimeOf \in [Events -> Nat]
    /\ PartitionOf \in [Events -> Partitions]
    /\ Contract \subseteq Events /\ Unstorable \subseteq Contract
ASSUME BoundAssumption ==
    /\ MaxFuture \in Nat /\ MaxAge \in Nat /\ EngineLag \in [Engines -> Int]
    /\ MaxBatchEvents \in Nat \ {0} /\ MaxPollRecords \in Nat \ {0}
    /\ MaxAttempts \in Nat \ {0}
    /\ MaxLog \in Nat /\ MaxClock \in Nat /\ MaxFaults \in Nat

VARIABLES
    clock,      \* the API's clock
    sent,       \* handler -> the events the request it serves publishes, or {}
    pending,    \* handler -> those of them without an outcome yet
    failed,     \* handler -> whether one of them failed
    log,        \* partition -> the records of the topic, oldest first
    committed,  \* partition -> the group's committed offset (records consumed)
    joined,     \* the engines the group coordinator counts as members
    stable,     \* FALSE between a change of membership and the rebalance
    phase,      \* engine -> "down", "idle" (between polls) or "processing"
    held,       \* engine -> the partitions it believes are assigned to it
    pos,        \* engine -> partition -> offset up to which it has polled
    done,       \* engine -> partition -> offset up to which it has processed
    attempt,    \* engine -> partition -> insert attempt for record done+1, or 0
    rows,       \* telemetry_events: the event stored and the record it came from
    discarded,  \* history: the records some engine dropped as invalid
    acked,      \* history: the events a client has been answered 202 for
    faults      \* faults so far

groupVars  == <<joined, stable, held>>
memberVars == <<phase, pos, done, attempt>>
requestVars == <<sent, pending, failed>>
vars == <<clock, sent, pending, failed, log, committed, joined, stable, phase, held,
          pos, done, attempt, rows, discarded, acked, faults>>

Records == [partition : Partitions, offset : Nat]
Zero == [p \in Partitions |-> 0]

TypeOK ==
    /\ clock \in Nat
    /\ sent \in [Handlers -> SUBSET Events]
    /\ pending \in [Handlers -> SUBSET Events]
    /\ failed \in [Handlers -> BOOLEAN]
    /\ log \in [Partitions -> Seq(Events)]
    /\ committed \in [Partitions -> Nat]
    /\ joined \subseteq Engines
    /\ stable \in BOOLEAN
    /\ phase \in [Engines -> {"down", "idle", "processing"}]
    /\ held \in [Engines -> SUBSET Partitions]
    /\ pos \in [Engines -> [Partitions -> Nat]]
    /\ done \in [Engines -> [Partitions -> Nat]]
    /\ attempt \in [Engines -> [Partitions -> 0..MaxAttempts]]
    /\ rows \subseteq [event : Events, from : Records]
    /\ discarded \subseteq Records
    /\ acked \subseteq Events
    /\ faults \in Nat

Init ==
    /\ clock = 0
    /\ sent = [h \in Handlers |-> {}]
    /\ pending = [h \in Handlers |-> {}]
    /\ failed = [h \in Handlers |-> FALSE]
    /\ log = [p \in Partitions |-> <<>>]
    /\ committed = Zero
    /\ joined = {}
    /\ stable = TRUE
    /\ phase = [m \in Engines |-> "down"]
    /\ held = [m \in Engines |-> {}]
    /\ pos = [m \in Engines |-> Zero]
    /\ done = [m \in Engines |-> Zero]
    /\ attempt = [m \in Engines |-> Zero]
    /\ rows = {}
    /\ discarded = {}
    /\ acked = {}
    /\ faults = 0

Fault == faults < MaxFaults /\ faults' = faults + 1

-----------------------------------------------------------------------------
(* Validation.                                                             *)

\* TimeBounds.check: each bound applies only when it is set.
InFutureBound(ts, now) == MaxFuture > 0 => ts - now <= MaxFuture
InAgeBound(ts, now)    == MaxAge > 0 => now - ts <= MaxAge

\* The ingestion API enforces both bounds, the engine only the future one.
ValidAtIngest(e) ==
    e \in Contract /\ InFutureBound(TimeOf[e], clock) /\ InAgeBound(TimeOf[e], clock)
\* The engine with the API's bounds: a backlog ages out.
ValidAtEngineWithAge(m, e) ==
    /\ e \in Contract
    /\ InFutureBound(TimeOf[e], clock - EngineLag[m])
    /\ InAgeBound(TimeOf[e], clock - EngineLag[m])
ValidAtEngine(m, e) == e \in Contract /\ InFutureBound(TimeOf[e], clock - EngineLag[m])

-----------------------------------------------------------------------------
(* The ingestion API.                                                      *)

\* Records a publish call still owes the topic count against the bound on it.
Room(S) ==
    LET onTopic == {r \in Partitions \X (1..MaxLog) : r[2] <= Len(log[r[1]])}
        owed    == {r \in Handlers \X Events : r[2] \in pending[r[1]]}
    IN  Cardinality(onTopic) + Cardinality(owed) + Cardinality(S) <= MaxLog

Publishing(h, S) ==
    /\ sent' = [sent EXCEPT ![h] = S]
    /\ pending' = [pending EXCEPT ![h] = S]
    /\ UNCHANGED failed

\* The handler has answered, or died.
RequestEnds(h) ==
    /\ sent' = [sent EXCEPT ![h] = {}]
    /\ pending' = [pending EXCEPT ![h] = {}]
    /\ failed' = [failed EXCEPT ![h] = FALSE]

\* PostEvent: an event that fails validation is answered 400 and changes
\* nothing; a valid one is handed to Publish.
PostEvent(h, e) ==
    /\ sent[h] = {}
    /\ Room({e})
    /\ ValidAtIngest(e)
    /\ Publishing(h, {e})
    /\ UNCHANGED <<clock, log, committed, groupVars, memberVars, rows, discarded,
                   acked, faults>>

\* PostEventBatch: the valid events of the batch are published together, the
\* others are reported rejected; nothing valid is a 400.
PostEventBatch(h, S) ==
    /\ sent[h] = {}
    /\ Cardinality(S) \in 1..MaxBatchEvents
    /\ Room(S)
    /\ \E e \in S : ValidAtIngest(e)
    /\ Publishing(h, {e \in S : ValidAtIngest(e)})
    /\ UNCHANGED <<clock, log, committed, groupVars, memberVars, rows, discarded,
                   acked, faults>>

\* ProduceSync: the broker appends one record of the call and acknowledges it.
Produce(h, e) ==
    /\ e \in pending[h]
    /\ log' = [log EXCEPT ![PartitionOf[e]] = Append(@, e)]
    /\ pending' = [pending EXCEPT ![h] = @ \ {e}]
    /\ UNCHANGED <<clock, sent, failed, committed, groupVars, memberVars, rows, discarded, acked,
                   faults>>

\* A record of the call fails or times out; the broker may have appended it.
ProduceFails(h, e) ==
    /\ e \in pending[h]
    /\ Fault
    /\ \/ log' = [log EXCEPT ![PartitionOf[e]] = Append(@, e)]
       \/ UNCHANGED log
    /\ pending' = [pending EXCEPT ![h] = @ \ {e}]
    /\ failed' = [failed EXCEPT ![h] = TRUE]
    /\ UNCHANGED <<clock, sent, committed, groupVars, memberVars, rows, discarded, acked>>

\* Respond, as if a batch were answered 202 when any record was written.
RespondFirstErrIgnored(h) ==
    /\ sent[h] # {} /\ pending[h] = {}
    /\ acked' = acked \union sent[h]
    /\ RequestEnds(h)
    /\ UNCHANGED <<clock, log, committed, groupVars, memberVars, rows, discarded,
                   faults>>

\* The handler answers once every record has an outcome: 503 if any failed
\* (FirstErr), otherwise 202 for the whole set.
Respond(h) ==
    /\ sent[h] # {} /\ pending[h] = {}
    /\ acked' = IF failed[h] THEN acked ELSE acked \union sent[h]
    /\ RequestEnds(h)
    /\ UNCHANGED <<clock, log, committed, groupVars, memberVars, rows, discarded,
                   faults>>

\* The API process dies with a request in flight: nobody is answered.
CrashIngest(h) ==
    /\ sent[h] # {}
    /\ Fault
    /\ RequestEnds(h)
    /\ UNCHANGED <<clock, log, committed, groupVars, memberVars, rows, discarded, acked>>

\* The topic is not private to the API: any producer may write any event.
ForeignProduce(p, e) ==
    /\ Room({e})
    /\ log' = [log EXCEPT ![p] = Append(@, e)]
    /\ UNCHANGED <<clock, requestVars, committed, groupVars, memberVars, rows, discarded,
                   acked, faults>>

Tick ==
    /\ clock < MaxClock
    /\ clock' = clock + 1
    /\ UNCHANGED <<requestVars, log, committed, groupVars, memberVars, rows, discarded,
                   acked, faults>>

-----------------------------------------------------------------------------
(* The consumer group, as the coordinator and the client library run it.   *)

\* A process that ends, or is evicted, without a batch to return to.
Stopped(m) ==
    /\ phase' = [phase EXCEPT ![m] = "down"]
    /\ pos' = [pos EXCEPT ![m] = Zero]
    /\ done' = [done EXCEPT ![m] = Zero]
    /\ attempt' = [attempt EXCEPT ![m] = Zero]
    /\ held' = [held EXCEPT ![m] = {}]

\* The process ends and Close leaves the group: the others rebalance at once.
Leaves(m) ==
    /\ Stopped(m)
    /\ joined' = joined \ {m}
    /\ stable' = (stable /\ m \notin joined)

\* The container is restarted. While the session of a crashed process has not
\* expired, no rebalance completes and its successor is assigned nothing: the
\* restart is modelled from the expiry on.
Restart(m) ==
    /\ phase[m] = "down" /\ m \notin joined
    /\ phase' = [phase EXCEPT ![m] = "idle"]
    /\ UNCHANGED <<clock, requestVars, log, committed, groupVars, pos, done, attempt, rows,
                   discarded, acked, faults>>

\* A running member outside the group (new, or evicted and told so between
\* polls) joins it; what it believed it held is lost.
Join(m) ==
    /\ phase[m] = "idle" /\ m \notin joined
    /\ joined' = joined \union {m}
    /\ stable' = FALSE
    /\ held' = [held EXCEPT ![m] = {}]
    /\ UNCHANGED <<clock, requestVars, log, committed, memberVars, rows, discarded, acked,
                   faults>>

\* An assignment: the members M learn it and start at the committed offsets.
Assign(a, M) ==
    /\ a \in [Partitions -> joined]
    /\ held' = [m \in Engines |->
                  IF m \in M THEN {p \in Partitions : a[p] = m} ELSE held[m]]
    /\ pos' = [m \in Engines |-> IF m \in M THEN committed ELSE pos[m]]
    /\ done' = [m \in Engines |-> IF m \in M THEN committed ELSE done[m]]
    /\ stable' = TRUE
    /\ UNCHANGED <<clock, requestVars, log, committed, joined, phase, attempt, rows,
                   discarded, acked, faults>>

\* Rebalance without BlockRebalanceOnPoll: the group moves partitions while a
\* member is between its poll and its commit.
RebalanceMidBatch(a) == ~stable /\ Assign(a, {m \in joined : phase[m] = "idle"})

\* Every member takes part, each between two batches (BlockRebalanceOnPoll),
\* and every partition gets one owner.
Rebalance(a) ==
    /\ ~stable
    /\ \A m \in joined : phase[m] = "idle"
    /\ Assign(a, joined)

\* The coordinator drops a member: its session expired because the process is
\* dead, or (a fault) it is alive but was not heard from in time.
Evict(m) ==
    /\ m \in joined
    /\ joined' = joined \ {m}
    /\ stable' = FALSE
    /\ IF phase[m] = "down" THEN UNCHANGED faults ELSE Fault
    /\ UNCHANGED <<clock, requestVars, log, committed, held, memberVars, rows, discarded, acked>>

-----------------------------------------------------------------------------
(* The incident engine's consume loop.                                     *)

\* Runner.Run polls up to MaxPollRecords of the partitions it believes it
\* holds; an empty poll changes nothing.
Poll(m, upto) ==
    /\ phase[m] = "idle"
    /\ upto \in [Partitions -> Nat]
    /\ \A p \in Partitions : IF p \in held[m] THEN upto[p] \in pos[m][p]..Len(log[p])
                                              ELSE upto[p] = pos[m][p]
    /\ Cardinality({r \in Partitions \X (1..MaxLog) :
                      pos[m][r[1]] < r[2] /\ r[2] <= upto[r[1]]}) \in 1..MaxPollRecords
    /\ phase' = [phase EXCEPT ![m] = "processing"]
    /\ pos' = [pos EXCEPT ![m] = upto]
    /\ UNCHANGED <<clock, requestVars, log, committed, groupVars, done, attempt, rows,
                   discarded, acked, faults>>

Current(m, p) == log[p][done[m][p] + 1]
NextRecord(m, p) == [partition |-> p, offset |-> done[m][p] + 1]
Stored(e) == \E r \in rows : IdOf[r.event] = IdOf[e] /\ TimeOf[r.event] = TimeOf[e]

\* Process as if a record that fails validation were an error: it is never
\* committed past.
ProcessInvalidFails(m, p) ==
    /\ phase[m] = "processing"
    /\ \A q \in Partitions : attempt[m][q] = 0
    /\ done[m][p] < pos[m][p]
    /\ IF ValidAtEngine(m, Current(m, p))
       THEN /\ attempt' = [attempt EXCEPT ![m][p] = 1]
            /\ UNCHANGED <<done, phase, pos, held, joined, stable>>
       ELSE Leaves(m)
    /\ UNCHANGED <<clock, requestVars, log, committed, rows, discarded, acked, faults>>

\* Process, first half: decode and revalidate the next record of the batch. An
\* invalid one is dropped and its offset will be committed; a valid one goes on
\* to its first insert. The order among the partitions of a batch is left open.
Process(m, p) ==
    /\ phase[m] = "processing"
    /\ \A q \in Partitions : attempt[m][q] = 0
    /\ done[m][p] < pos[m][p]
    /\ IF ValidAtEngine(m, Current(m, p))
       THEN /\ attempt' = [attempt EXCEPT ![m][p] = 1]
            /\ UNCHANGED <<done, discarded>>
       ELSE /\ done' = [done EXCEPT ![m][p] = @ + 1]
            /\ discarded' = discarded \union {NextRecord(m, p)}
            /\ UNCHANGED attempt
    /\ UNCHANGED <<clock, requestVars, log, committed, groupVars, phase, pos, rows, acked,
                   faults>>

\* insertEventSQL: ON CONFLICT (event_timestamp, event_id) DO NOTHING.
ApplyInsert(m, p) ==
    rows' = IF Stored(Current(m, p)) THEN rows
            ELSE rows \union {[event |-> Current(m, p), from |-> NextRecord(m, p)]}

Inserting(m, p) == phase[m] = "processing" /\ attempt[m][p] > 0

\* Insert succeeds, as new row or as duplicate; processBatch goes on.
InsertOK(m, p) ==
    /\ Inserting(m, p)
    /\ Current(m, p) \notin Unstorable
    /\ ApplyInsert(m, p)
    /\ done' = [done EXCEPT ![m][p] = @ + 1]
    /\ attempt' = [attempt EXCEPT ![m][p] = 0]
    /\ UNCHANGED <<clock, requestVars, log, committed, groupVars, phase, pos, discarded,
                   acked, faults>>

\* The statement may have been applied before the error was seen.
MaybeApplied(m, p) ==
    \/ Current(m, p) \notin Unstorable /\ ApplyInsert(m, p)
    \/ UNCHANGED rows

\* A retryable error with attempts left: the same record is tried again.
InsertRetry(m, p) ==
    /\ Inserting(m, p)
    /\ attempt[m][p] < MaxAttempts
    /\ Fault
    /\ MaybeApplied(m, p)
    /\ attempt' = [attempt EXCEPT ![m][p] = @ + 1]
    /\ UNCHANGED <<clock, requestVars, log, committed, groupVars, phase, pos, done,
                   discarded, acked>>

\* The last attempt failed too: the error ends the loop, and the process.
InsertExhausted(m, p) ==
    /\ Inserting(m, p)
    /\ attempt[m][p] = MaxAttempts
    /\ Fault
    /\ MaybeApplied(m, p)
    /\ Leaves(m)
    /\ UNCHANGED <<clock, requestVars, log, committed, discarded, acked>>

\* ErrPermanent: the insert can never succeed. It too ends the loop without a
\* commit, so the same record is polled again after the restart.
InsertPermanent(m, p) ==
    /\ Inserting(m, p)
    /\ Current(m, p) \in Unstorable
    /\ Leaves(m)
    /\ UNCHANGED <<clock, requestVars, log, committed, rows, discarded, acked, faults>>

BatchProcessed(m) ==
    /\ phase[m] = "processing"
    /\ \A p \in held[m] : done[m][p] = pos[m][p]

\* CommitRecords: the offset after the last record of each polled partition (a
\* held partition without records in the batch is already at its offset).
Offsets(m) == [p \in Partitions |-> IF p \in held[m] THEN pos[m][p] ELSE committed[p]]

\* Commit as if it did not wait for the batch: an offset passes unstored rows.
CommitEarly(m) ==
    /\ phase[m] = "processing" /\ \A p \in Partitions : attempt[m][p] = 0
    /\ m \in joined
    /\ committed' = Offsets(m)
    /\ phase' = [phase EXCEPT ![m] = "idle"]
    /\ done' = [done EXCEPT ![m] = pos[m]]
    /\ UNCHANGED <<clock, requestVars, log, groupVars, pos, attempt, rows, discarded, acked,
                   faults>>

\* The whole batch is durable: commit, then allow rebalances again.
Commit(m) ==
    /\ BatchProcessed(m)
    /\ m \in joined
    /\ committed' = Offsets(m)
    /\ phase' = [phase EXCEPT ![m] = "idle"]
    /\ UNCHANGED <<clock, requestVars, log, groupVars, pos, done, attempt, rows, discarded,
                   acked, faults>>

\* The coordinator refuses the commit of a member it has evicted, or the reply
\* to a commit (applied or not) is lost: either error ends the process.
CommitFails(m) ==
    /\ BatchProcessed(m)
    /\ IF m \notin joined
       THEN UNCHANGED <<committed, faults>>
       ELSE Fault /\ (committed' = Offsets(m) \/ UNCHANGED committed)
    /\ Leaves(m)
    /\ UNCHANGED <<clock, requestVars, log, rows, discarded, acked>>

\* SIGTERM between polls or inside a batch, whose current insert may still be
\* applied. A batch that is complete is still committed (WithoutCancel). An error
\* of the poll, or one of the insert that IsRetryable does not retry although the
\* event could be stored later, ends the process in the same way.
Shutdown(m) ==
    /\ phase[m] # "down" /\ ~BatchProcessed(m)
    /\ Fault
    /\ \/ UNCHANGED rows
       \/ \E p \in Partitions : Inserting(m, p) /\ MaybeApplied(m, p)
    /\ Leaves(m)
    /\ UNCHANGED <<clock, requestVars, log, committed, discarded, acked>>

\* The process dies. The coordinator does not know yet.
Crash(m) ==
    /\ phase[m] # "down"
    /\ Fault
    /\ \/ UNCHANGED rows
       \/ \E p \in Partitions : Inserting(m, p) /\ MaybeApplied(m, p)
    /\ Stopped(m)
    /\ UNCHANGED <<clock, requestVars, log, committed, joined, stable, discarded, acked>>

-----------------------------------------------------------------------------

IngestStep(h) ==
    \/ \E e \in Events : PostEvent(h, e)
    \/ \E S \in SUBSET Events : PostEventBatch(h, S)
    \/ \E e \in Events : Produce(h, e) \/ ProduceFails(h, e)
    \/ Respond(h)
    \/ CrashIngest(h)

RecordStep(m, p) ==
    \/ Process(m, p)
    \/ InsertOK(m, p)
    \/ InsertRetry(m, p)
    \/ InsertExhausted(m, p)
    \/ InsertPermanent(m, p)

EngineStep(m) ==
    \/ Restart(m)
    \/ Join(m)
    \/ Evict(m)
    \/ \E upto \in [Partitions -> 0..MaxLog] : Poll(m, upto)
    \/ \E p \in Partitions : RecordStep(m, p)
    \/ Commit(m)
    \/ CommitFails(m)
    \/ Shutdown(m)
    \/ Crash(m)

\* Every bound is spent and nothing is left to do: the only legitimate end.
Quiescent ==
    /\ \A h \in Handlers : sent[h] = {}
    /\ joined = Engines /\ stable
    /\ \A m \in Engines : phase[m] = "idle"
    /\ \A p \in Partitions : committed[p] = Len(log[p])
    /\ UNCHANGED vars

Next ==
    \/ \E h \in Handlers : IngestStep(h)
    \/ \E p \in Partitions, e \in Events : ForeignProduce(p, e)
    \/ Tick
    \/ \E a \in [Partitions -> joined] : Rebalance(a)
    \/ \E m \in Engines : EngineStep(m)
    \/ Quiescent

Spec == Init /\ [][Next]_vars

\* Produce calls end, the client library heartbeats, the coordinator expires
\* dead sessions, the orchestrator restarts containers and the database answers:
\* each of these steps is taken once it stays possible. Faults, clients and the
\* clock owe nothing.
Fairness ==
    /\ \A h \in Handlers : /\ WF_vars(\E e \in Events : Produce(h, e))
                           /\ WF_vars(Respond(h))
    /\ WF_vars(\E a \in [Partitions -> joined] : Rebalance(a))
    /\ \A m \in Engines :
          /\ WF_vars(Restart(m))
          /\ WF_vars(Join(m))
          /\ WF_vars(phase[m] = "down" /\ Evict(m))
          /\ WF_vars(\E upto \in [Partitions -> 0..MaxLog] : Poll(m, upto))
          /\ WF_vars(\E p \in Partitions : Process(m, p))
          /\ WF_vars(\E p \in Partitions : InsertOK(m, p))
          /\ WF_vars(\E p \in Partitions : InsertPermanent(m, p))
          /\ WF_vars(Commit(m))
          /\ WF_vars(m \notin joined /\ CommitFails(m))

FairSpec == Spec /\ Fairness

-----------------------------------------------------------------------------
(* Properties.                                                             *)

\* The record at an offset needs no further processing.
Settled(p, i) == \/ Stored(log[p][i])
                 \/ [partition |-> p, offset |-> i] \in discarded

\* Offsets advance only past records whose rows are durable, or which were
\* dropped as invalid, whatever crashes, evictions and retries came before
\* (the contract stated at Runner.Run).
CommittedIsDurable ==
    \A p \in Partitions : \A i \in 1..committed[p] : i <= Len(log[p]) /\ Settled(p, i)

\* An event answered 202 is never lost: it is stored, or a record of it is
\* still ahead of the committed offset and has not been dropped. It is the
\* promise of PostEvent, through the engine's own revalidation.
Deliverable(e) ==
    \/ Stored(e)
    \/ \E p \in Partitions : \E i \in 1..Len(log[p]) :
          /\ log[p][i] = e
          /\ committed[p] < i
          /\ [partition |-> p, offset |-> i] \notin discarded
AcceptedIsDeliverable == \A e \in acked : Deliverable(e)

\* Redeliveries, retries after an ambiguous error, repeated requests and
\* evicted members that go on inserting leave one row per event (the
\* idempotency the pipeline is built on, insertEventSQL).
OneRowPerEvent ==
    \A r, s \in rows :
        IdOf[r.event] = IdOf[s.event] /\ TimeOf[r.event] = TimeOf[s.event] => r = s

\* Nothing but contract-satisfying events that are on the topic becomes a row,
\* even though the topic takes anything from anyone (Processor.Process).
RowsComeFromTopic ==
    \A r \in rows :
        /\ r.event \in Contract
        /\ r.from.offset \in 1..Len(log[r.from.partition])
        /\ log[r.from.partition][r.from.offset] = r.event

\* The group's offset never moves back, so no settled record is redelivered
\* after its commit: an evicted member cannot overwrite the offset of the
\* member that took its partition over.
OffsetsNeverMoveBack == [][\A p \in Partitions : committed'[p] >= committed[p]]_vars

\* The pipeline implements the abstract stream of DurableStream, the committed
\* offsets being its frontier.
Stream == INSTANCE DurableStream WITH frontier <- committed
ImplementsStream == Stream!Spec

\* An event that PostgreSQL refuses for ever is on the topic. Process returns that
\* error, the loop stops on it and the batch is redelivered: the record blocks its
\* partition, and those polled in one batch with it. IsRetryable says that such an
\* error "must not block the partition"; the two properties below say what holds up
\* to the moment such an event is on the topic.
RefusedOnTopic == \E p \in Partitions : \E i \in 1..Len(log[p]) : log[p][i] \in Unstorable

\* Every event answered 202 is eventually a row.
AcceptedIsStored ==
    \A e \in Contract \ Unstorable : (e \in acked) ~> (Stored(e) \/ RefusedOnTopic)

\* An invalid record, a crash or a failed insert does not hold up those behind it:
\* again and again each partition is consumed to its end (Processor.Process).
PartitionsDrain ==
    \A p \in Partitions : []<>(committed[p] = Len(log[p]) \/ RefusedOnTopic)
=============================================================================
