# SentinelFlow verification project

TLA+ models of SentinelFlow, the TLC runs that check them on small instances, and
theorems about them that TLAPS proves for every value of the constants. Everything
is translated from the Go code under `src/`; Kafka, PostgreSQL and Temporal are
modelled from how that code uses them.

1. [The system](#1-the-system): inventory of the parts, their state and interactions
2. [The modules](#2-the-modules): which module models which part, state and actions
3. [The runs](#3-the-runs): what each one asks, its bounds, the fairness assumed
4. [The proofs](#4-the-proofs): theorems, assumptions, inductive invariants
5. [Disagreements found](#5-disagreements-found) between code and documentation
6. [Limits](#6-limits): what is only model-checked, what is not modelled
7. [Plan](#7-plan): what comes next

Commands, in this directory:

    tlasany M.tla                                       parse
    tlc -workers 2 -config pipeline_safety.cfg MCEventPipeline
    tlapm EventPipelineProofs.tla                       check the proofs

## 1. The system

Producers post telemetry events to the **ingestion API**, which validates them and
publishes them to a Kafka topic keyed by `tenant:service`. Replicas of the
**incident engine** consume the topic as one group and insert each event into
`telemetry_events`. In the same processes a **correlation loop** reads a window of
these rows every few seconds and opens, groups or resolves **incidents**. The
**alert service** and the **remediation service** poll for open incidents and start
one Temporal workflow each per incident; people act through the **incidents API**,
which changes the row and signals the workflow. The **janitor** creates and drops
the daily partitions of `telemetry_events`.

| Component | State it keeps | Operations | Interacts by | Hard behaviours | What makes it correct |
|---|---|---|---|---|---|
| Ingestion API (`ingest/`, `event/`) | none between requests | post one, post a batch | produce calls to Kafka | partly published batches, a crash before the answer, client retries | an event answered 202 is not lost |
| Kafka client (`kafkax/`) | positions, rebalance block | publish, poll, commit, leave | the broker and the group coordinator | rebalances and evictions in the middle of a batch | an offset never goes back nor ahead of the rows |
| Engine loop (`engine/`) | batch, attempt | validate, insert with retries, commit | topic and table | ambiguous inserts, permanent errors, crash before commit | at-least-once delivery, one row per event |
| Event store (`store/events.go`) | `telemetry_events` | idempotent insert, window counts, lists | SQL | duplicates, late and early events | the conflict target |
| Correlation (`correlate/`) | `lastCycleAt` per process | one cycle: window, rule, upserts, auto-resolve | SQL | several replicas, failed cycles, people acting meanwhile | one active incident per fingerprint, incidents only move forward and close in the end |
| Incident store (`store/incidents.go`, `incident/`) | `incidents` | upsert, acknowledge, resolve, marks, lists | SQL | races between transitions | guarded updates |
| Incidents API (`incidentapi/`) | none | lists, acknowledge, resolve, decide | row first, signal afterwards | lost signals, stale reads | the row is the authority |
| Alerting (`alerting/`) | workflow state, `notifications`, `alerted_at` | list, start, mark; check, page, wait, escalate | Temporal, webhook | duplicate starts, retries, lost signals, timer against signal | the trail has no gap, escalation stops for an owner |
| Remediation (`remediate/`, `runbook/`) | workflow state, `remediation_actions`, `remediated_at` | list, start, mark; check, gate, execute, record; decide | Temporal, webhook | decisions at any moment, retried effects, catalogs that differ | a step runs only on a recorded success and its own approval |
| Janitor (`janitor/`, `store/partitions.go`) | partitions | pre-create, drain the default partition, drop | SQL | two replicas, stale lists, outages, failed transactions | rows are where queries look and live for the retention |
| Migrations (`migrate/`, `cmd/migrate`) | `schema_migrations`, the lock | up, down | SQL, an advisory lock | runs that start together, a run that dies in a transaction or with the lock | the schema is what is recorded, in order |
| Pagination (`store/cursor.go`, `query.go`) | none: the cursor is the client's | keyset pages | SQL | rows that arrive, move and go between two pages | no row shown twice, none that stayed is missed |
| On-call policy (`oncall/`) | none | who is on call at a moment | called by alerting | handover boundaries, a page retried in the next shift | contacts take turns, a page has one addressee |
| Correlation lock (`store/lock.go`) | a session | acquire, release | SQL, an advisory lock | a lost session, a broken connection, a done context | one leader, and again and again one (no loop uses it: section 5) |
| Processes (`cmd/*`, `httpx/server.go`) | what is open, the loops, requests in flight | start, serve, unwind, exit | signals, errors of the loops | a signal while starting, one loop that fails, a drain cut short | nothing closed in use, the exit code is true |
| Configuration, middleware, telemetry, console, demo, load generator | none of the platform's | parsing, rendering, traffic | | | not modelled |

The hazards of each part, at their lines, are the `hazards` of `PROJECT.json`, with
the properties aimed at them.

## 2. The modules

| Module | Models | Used by |
|---|---|---|
| `EventPipeline` | ingestion API, Kafka, consumer group, engine replicas, event table | `MCEventPipeline`, `EventPipelineProofs` |
| `DurableStream` | what the pipeline promises, without any machinery | refined by `EventPipeline` (`ImplementsStream`) |
| `Correlation` | the evaluator loop of every replica, events, incidents, people | `MCCorrelation`, `CorrelationProofs` |
| `EscalationLadder` | what an escalation promises: rungs climbed in order until somebody owns the incident | refined by `Alerting` (`ImplementsLadder`) |
| `GatedSequence` | what a runbook's run promises: steps in order, each released by a consent of its own | refined by `Remediation` (`ImplementsSequence`) |
| `OnCall` | rotations, the policy file, who is on call | `Alerting` |
| `Alerting` | one incident, its starters, its escalation workflow and audit rows | `MCAlerting`, `AlertingProofs` |
| `Runbook` | the catalog: matchers, validation, the first match | `Remediation` |
| `Remediation` | one incident, its starters, its runbook workflow, decisions and audit rows | `MCRemediation`, `RemediationProofs` |
| `Janitor` | partitions, rows, inserts and the maintenance cycle of every replica | `MCJanitor`, `JanitorProofs` |
| `Paging` | a client that reads one of the two lists page by page, and the table under it | `MCPaging`, `PagingProofs` |
| `AdvisoryLocks` | PostgreSQL's sessions and advisory locks, as the code relies on them | `Migrations`, `CycleLock` |
| `Migrations` | runs of `migrate up` and `migrate down` | `Locks` |
| `CycleLock` | the lease of the replicas | `Locks` |
| `Locks` | migrations and leases against one server | `MCLocks`, `LocksProofs` |
| `ServiceProcess` | the life of one process of any of the six services | `MCServiceProcess`, `ServiceProcessProofs` |

A module has the component's state as variables, marked *history* where a variable
serves a property only. A call to another system (a produce, an SQL statement, an
offset commit, an activity) is a step of its own, because crashes and other actors
come between; what happens inside a process between two such calls is part of the
step. Failures are counted against `MaxFaults`. An operator that stands just
before another and carries its name with a suffix (`CommitEarly`, `GroupLast`)
is a variant of it with a plausible bug; `PROJECT.json` lists them as mutants, each
of which breaks the property it is listed for.

### EventPipeline

| Variable | Code |
|---|---|
| `sent`, `pending`, `failed` | one request: what `PostEvent`/`PostEventBatch` publishes, the records without an outcome, whether one failed |
| `log`, `committed`, `joined`, `stable`, `held` | the topic, the group's offsets, its members and assignment |
| `phase`, `pos`, `done`, `attempt` | an engine: `Runner.Run`, what was polled, what `Processor.Process` has gone past, the insert under way |
| `rows` | `telemetry_events`, each row with the record it came from |
| `discarded`, `acked` | history |

`PostEvent`, `PostEventBatch`, `Produce`, `ProduceFails`, `Respond` and `CrashIngest`
are the API. The answer covers the whole set of a batch, a failed one included:
records of a batch that was answered with an error may be on the topic. `ForeignProduce`
is any other writer of the topic. `Poll`, `Process`, `InsertOK`, `InsertRetry`,
`InsertExhausted`, `InsertPermanent`, `Commit`, `CommitFails`, `Shutdown`, `Crash` and
`Restart` are the engine; the insert is the idempotent statement of `events.go`, and an
insert that fails may have been applied. `Join`, `Evict` and `Rebalance` are the
coordinator: a rebalance waits for members that are between poll and commit
(`BlockRebalanceOnPoll`), an evicted member does not know it. Time moves with `Tick`;
`EngineLag` gives each engine its own clock against the future bound.

`DurableStream` has four actions: append a record, accept events that are on the
topic or in the table, store a record, advance the frontier without passing a record
that an accepted event still depends on. The committed offsets are its frontier.

### Correlation

`StartCycle`, `ReadWindow`, `BuildIncident`, `UpsertOpen` and `AutoResolve` are
`EvaluateOnce`, cut at its statements: the clock is read for the window when a cycle
starts, for `last_seen_at` when an incident is built, and for the cutoff before the
auto-resolution, each possibly some time before the statement executes. `Detected` is
`WindowStats` with `evaluateErrorRate`, whose threshold is the fraction `Num / Den`;
`ApplyUpsert` is the upsert on the partial unique index, `ResolveStale` the
auto-resolution. `CycleFails` and `Crash` end a cycle anywhere, with the statement
under way applied or not; a crash loses `lastCycle`. The replicas hold no lock, as in
`Runner.Run`. One rule is configured, so a service stands for a fingerprint.

### Alerting and Remediation

Both model one incident. `ListOpen`, `Start`, `StartFails`, `Mark` and `MarkFails` are
the polling starters; a start whose id is in use counts as done. The workflow advances
in *workflow tasks*: a task takes every event that arrived since the last one, resumes
the main routine (`Resume`), lets the signal routines take the signals (`Drain`) and
wakes a waiting selector (`Wake`). That order is what decides races between a timer, an
activity's result and a signal, so it is modelled as the SDK has it for this code.
`ActivityOK` and `ActivityFails` are an attempt that succeeds and one that fails, with
its effect done or not; the last one of `MaxAttempts` ends the run as broken.

In `Alerting`, `notified` is the `notifications` table, `called` the contacts a page
was posted to, `Acknowledge`/`Resolve` change the row and `SignalWorkflow`/`SignalFails`
follow. The status check is two steps: `ReadStatus` reads the row, `ActivityOK` returns
what was read, and somebody may take the incident in between. The contact of a level is
resolved with `OnCallAt` when the page is scheduled, on the workflow's clock (`now`,
moved by `Tick`), so a retry in the next shift still goes to the first addressee.
`late` records the pages first called after the incident had an owner.

In `Remediation`, `row` is `remediation_actions`, `executed` counts executions, `ReadPending`
is the read of the pending step by the API, and `Deliver`/`DeliverFails` the signal.
Each starter has a catalog of its own, as during a rollout, and starts the runbook that
`Find` returns for the incident, or only marks it when there is none.

`EscalationLadder` numbers the pages as rungs, the last notice being one more than the
levels. A rung is *cleared* when the workflow schedules its page, which takes a *sight*
of the incident without an owner (the result of the status check) and every rung below
it told; news of an owner may come with any step, and bars the next clearing. A
cleared rung calls contacts of its rota and is reported once. Starters, tasks, timers,
signals, retries and faults are steps it does not see, or news of an owner. A run that
breaks before its page has called anybody withdraws the rung.

`GatedSequence` adopts one plan, the gates of the runbook that was started, and knows of
each step whether it waits, is released, has succeeded or was stopped. `Outcome` reads
that from the audit row and, while the row has no outcome, from the workflow: a step that
is being executed, or whose outcome is about to be recorded, is released. `Releaser` is the
approver on the step's row. An approval is a consent once the API has sent its signal, also
when the API could not tell that it had.

### Janitor

`StartCycle` is the list query with the day of the cycle, `Create` the creation of one
day, refused by PostgreSQL when the default partition holds rows of it, `Drain` the
transaction that moves them and attaches the day, `Drop` one expired day, `CycleFails` a
statement that fails, applied or not. `Insert` routes a row to its day or to the default
partition.

### Paging

`seen` and `status` are the rows of one of the two tables: the column they are ordered
by and the one a filter looks at. `InsertEvent` and `DropEvents` change the event table,
`OpenIncident`, `GroupIncident` and `MoveIncident` the incident table. `StartWalk` is a
client that begins, `ReadPage` one request with its query and its cursor, `Refuse` a 400.
The page is what the SQL returns: the rows behind the token (`After`) that match the
filter, in order, cut at `limit + 1` (`IsFirst`), of which one is kept back (`NextPage`).
`shown` and `steady` are history: what was shown, and which rows behind the first token
have kept their place, status and existence since the walk began.

### Locks

`AdvisoryLocks` has the sessions the server knows, the owner of each key, and who waits.
A session may be lost under its client (`Lost`), and outlive it until the server notices
(`Noticed`). `Migrations` is `Up` and `Down` statement by statement: `schema` is the DDL in
effect, `rows` is `schema_migrations`; what a transaction did is seen at `Commit`, also
when its answer is lost (`CommitUnheard`), and `Abandon` is a run that is killed or times
out, perhaps with the lock. `CycleLock` is `Acquire` and `Release`: `conn` is the session a
replica believes in, `idle` its pool. `Acquire` is `TryLease`, `TryFails` and the three ways
in which `SELECT 1` fails: the session has gone at the server (`LoseLease`); the connection
breaks on the client's side or is closed as the context ends, and the session lives on with
the key until the server notices (`CheckBreaks`); or the connection stays whole, since the
server answers with an error or the context was over before anything was sent, and goes
back to the pool with the key on its session (`LeakLease`). There it stays until the pool
closes that session for its age (`Recycle`, `NewPool`) or is closed itself (`Close`).
`ReleaseFails` is an unlock that fails in either way.

### ServiceProcess

A service is the list of what `run` opens, in order, and the set of its loops; the six
`main.go` give six of them (eight shapes, with the optional parts). `StartStep`, `StartFails` and
`Launch` are the start, `Begin`, `Fail` and `StopLoop` a loop, `WorkerDies`, `TakeActivity`
and `EndActivity` Temporal's worker, `Accept`, `Return`, `BeginDrain`, `Drained` and
`GraceEnds` are `httpx.Serve`, and `Wait`, `CloseLast` and `Exit` the way back through the
deferred calls. `Done` is the context of the group: the signal, or the first error.

## 3. The runs

Passing runs finish their whole state space. Every property has a mutant of the code
that breaks it under the same configuration.

| Run | Asks | Instance |
|---|---|---|
| `pipeline_safety` | the safety properties of the pipeline, and that it implements `DurableStream` | 2 engines, 1 partition, 3 records, 2 good events of which one is refused by the database and dated ahead, 1 broken event, 2 faults, symmetry of engines; 1.5 million states |
| `pipeline_progress` | is an accepted event stored, and every partition drained, as long as no event on the topic is refused for ever | 2 engines, 2 partitions, 2 records in all, of 2 good events, one the database refuses and a broken one, 1 fault, fairness |
| `correlation` | one active incident, forward only, firing stays open | 2 replicas, 3 events, clock to 3, 1 fault, 1 resolution by a person; 1.4 million states |
| `correlation_quiet` | is an incident resolved once its condition stopped | 2 services, 1 replica, clock to 6, an event dated ahead and one stored late, 1 fault, fairness |
| `correlation_count` | *violation*: an event is counted twice | 1 replica, 1 event, no fault |
| `alerting` | trail, escalation, addressees, owners, that the escalation implements `EscalationLadder`, and that an open incident is paged | 1 starter, 2 people, 2 levels, one of them a rotation that hands over at 1, 2 attempts, 3 faults, fairness; 0.4 million states |
| `remediation` | steps, approvals, that a run implements `GatedSequence`, runs end and incidents are handled | 2 starters with different catalogs, 2 deciders, 2 steps, 2 attempts, 2 faults, fairness |
| `remediation_rejection` | *violation*: a step runs after a rejection was answered 202 | 2 gated steps, 2 deciders, no fault |
| `janitor` | rows are routed and kept, days prepared and expired | 2 replicas, 3 rows, 6 days, 1 failure, fairness |
| `paging` | what a client sees that reads a changing list to its end | 3 rows, 2 timestamps, both lists, 9 requests: pages of one row, of the default and the maximal size, offsets, filters, a kept cursor, broken parameters |
| `locks` | schema and record, order, one leader and always another, no wait for ever | a run up and a run down over 2 migrations from any earlier state, 2 replicas, 2 sessions for leases, 2 faults, fairness |
| `lifecycle` | what is closed when, the exit code, that a process ends | each service, 2 requests, an activity, a signal at any moment, fairness |

The properties themselves, with the code each is about, are stated at the end of each
module.

**Why the bounds are enough.** Two engines and two faults give an evicted member that
goes on inserting while another takes over, a lost reply followed by a crash, and a
redelivery of both; three records leave one for a second batch of either engine, and
one partition is the one they contend for. Two replicas, two starters and two deciders
are the least that race, and the properties relate pairs of actors at most. In `paging`
three rows with two timestamps give a tie at the boundary of a page of one row, a page
that is exactly full, and a row that moves across the cursor; the limit
of two is the default and three the maximum, and requests reach both. Two runs of two migrations
are the least where one rolls back what the other has read, and two sessions are enough
for a lease that is lost and taken again. Two requests in a process are one that is
answered and one that is cut off. Two
levels, or two gated steps, are the least for which something carries over from one
to the next. `alerting` has one starter, whose lost marks make it start an incident again;
the race of two starters is the one of `remediation`, and `NeverRestarts` is proved for any
number of them. Three faults lose a signal and break a run. In `correlation` two events a time unit apart keep a rule firing
for a second cycle and a third calms it down; a window of one unit with a quiet period
of two lets both a grouping and a recurrence happen before the clock stops. In
`correlation_quiet` the clock stops no earlier than an incident last seen at the latest
possible moment (a late event, a cycle that takes its time) has gone stale. In `janitor`, days 2 and 3 lie beyond what the migration prepared,
and day 0 expires while the clock still runs. A clock stops at its bound: the
ticker of the correlation loop goes on there, so the end of the clock is not taken for
the end of the program. Runs without deadlock checking are those that come to rest:
an incident handled, or all events, clocks and people spent.

**Fairness.** What the schedulers of the code guarantee, and no more: Go routines
that are ready run (a request's produce calls, the engine's loop, a cycle), tickers
fire (the starters', the correlation's, the janitor's), Temporal runs tasks, timers and
activities, the coordinator rebalances and evicts a member that is gone, a container
that ended is restarted; PostgreSQL grants a free key and notices a dead session, a
replica calls `Acquire` at every tick, and its pool closes sessions that are past their
lifetime (one hour unless configured); without that `SomeoneLeads` fails. In `ServiceProcess` nothing is assumed of handlers:
the drain ends them. In `Paging` the client asks on. Nothing is assumed of people, of failures, or of producers;
failures are bounded by `MaxFaults`, so "eventually" reads "once failures stop".

## 4. The proofs

All leaves are checked by `tlapm`; nothing is assumed but the named assumptions of the
modules, and `ClocksAgree` and `RotationsAreRecent` where they are stated.

| Module | Theorem | What it says, for every value of the constants |
|---|---|---|
| `EventPipelineProofs` | `TypeCorrect` | the state is well typed |
| | `CommittedIsDurableAlways` | no offset is committed past a record that is neither stored nor dropped as invalid |
| | `OneRowPerEventAlways` | an event has one row |
| | `RowsComeFromTopicAlways` | rows are valid events of the topic |
| | `OffsetsNeverMoveBackAlways` | no step moves an offset back |
| | `AcceptedIsDeliverableAlways` | with `ClocksAgree`, an accepted event is stored or still ahead of the offset |
| | `ImplementsStreamAlways` | with `ClocksAgree`, the pipeline implements `DurableStream` |
| `RemediationProofs` | `TypeCorrect` | the state is well typed |
| | `AutomationStopsAlways` | a step runs only after every earlier one succeeded |
| | `ApprovalsAreNotReusedAlways` | a gated step that ran has an approval of its own |
| | `OnePendingAlways` | at most one step waits for a decision |
| | `RunNeverReplacedAlways` | a run is never replaced by another start |
| | `OutcomesAreFinalAlways` | a recorded outcome, and what was carried out for it, is never changed |
| | `ImplementsSequenceAlways` | starters, workflow, attempts and decisions implement `GatedSequence` |
| `AlertingProofs` | `TypeCorrect`, `Invariance` | the state is well typed, the inductive invariant holds |
| | `TrailComplete` | no level is called before every earlier one has its row |
| | `OwnerStops` | at most one level is called after the incident has an owner |
| | `ClosedOpen` | a run that closes while the incident is open has told everybody |
| | `PagesFinal` | a page has one addressee, and its row is not rewritten |
| | `OwnedNotPaged` | a workflow that knows of an owner schedules nothing more |
| | `TurnsTaken` | with `RotationsAreRecent`, the contacts of a rotation take turns |
| | `ImplementsLadderAlways` | starters, workflow, activities and signals implement `EscalationLadder` |
| | `NeverRestarts` | no start replaces a run that has begun |
| `CorrelationProofs` | `TypeCorrect` | the state is well typed |
| | `OneActiveAlways` | a service has one active incident, without any lock |
| | `EpisodesMoveForwardAlways` | no step takes an incident back or changes a resolved one |
| | `FiringStaysOpenAlways` | a cycle that completes leaves the incidents alone whose services it has seen firing |
| `JanitorProofs` | `TypeCorrect` | the state is well typed |
| | `RowsAreRoutedAlways` | a row is in its day's partition, or in the default one while there is none |
| | `NothingLostEarlyAlways` | no row disappears before its day is past retention |
| `PagingProofs` | `TypeCorrect`, `Invariance` | the state is well typed, the inductive invariant holds |
| | `NoRowTwice` | no row is shown twice |
| | `NoRowLost` | a finished walk has shown what stayed, but for its offset |
| | `CursorsLead` | there are rows behind every cursor handed out |
| `LocksProofs` | `TypeCorrect`, `Invariance` | the state is well typed, the inductive invariant holds |
| | `MigrationsAreAtomic` | the schema is what is recorded |
| | `MigrationsAreOrdered` | the applied migrations are the first so many |
| | `LeadersHoldTheKey` | who leads on a live session holds the key |
| | `NeverTwoLeaders` | two replicas never lead at once |
| `ServiceProcessProofs` | `TypeCorrect`, `Invariance` | the state is well typed, the inductive invariant holds |
| | `NothingClosedInUse` | nothing is closed while a loop runs or a request is waited for |
| | `ExitCodesAreTrue` | the exit code says what happened |

**The pipeline.** `CommittedIsDurable` alone is not inductive: a commit copies a
member's progress, so the progress of every member, evicted ones included, must be
settled (`ProgressIsSettled`), polled records must belong to held partitions
(`UnfinishedIsHeld`, `OffsetsInLog`), and an insert may be under way only for a record
found valid (`InsertsAreValid`). `OffsetsNeverMoveBack` needs `OwnersAhead`: the group
gives a partition to one member, whose progress is not behind the group's offset. This
is where the rebalance block matters: a new owner starts at the committed offset, and
the old one can no longer commit. The steps are grouped by what they change, with one
lemma per action. For accepted events `AcceptedIsKept` is added: each has a record
which no engine will drop, since it satisfied the future bound at the API and a clock
that is not behind agrees. Without `ClocksAgree` the statement is false: an engine whose
clock lags drops, as dated in the future, what the API accepted.

**Remediation.** The invariant ties the workflow's place to the audit row of its step
(`StepsFit`, `RowFits`), an activity's result to its effect (`ResultFits`), and says
whose decision is where: the one in the flags is in no earlier row, nor in the channel
(`DecisionFits`, `ChannelFits`). Its parts are predicates of a local state `w`, since a
workflow task takes the workflow through several local states in one step; the lemmas
follow `Resume`, `Drain` and `Wake`. `Find` chooses the least matching index, which exists
(`LeastMember`), so every started run is a runbook some catalog holds (`RunbookFound`).
The refinement needs two facts more (`HandFits`): success is claimed for no step that was
never carried out, and a check starts without an outcome left over from the step before.
`TaskImplements` and `AttemptImplements` map a workflow task and an attempt to one step
of the sequence each. The task that schedules the execution releases the step, by the
approver on its row, whom no earlier gate has used (`DecisionFits`); the attempt that executes
carries it out, and the one that records the outcome settles it. The step in hand is the
one that is due (`CurrentIsDue`). Everything else is a stutter (`UnseenSteps`), or an
approval that the API has sent (`DecisionsAgree`).

**Alerting.** The invariant is of the same kind: which levels have rows and which may have
been called, by the workflow's place (`LevelsFit`, `RowsFit`), what the activity in hand
has read or returned (`ResultFits`), that a signal or a flag is of somebody who changed the
row first (`SignalFits`, `OwnerFits`). `OwnerStopsEscalation` counts pages and needs more
than their number: a page that is late is the current one, or the one before while the
check that ends the run is made, and there is only one (`LateFits`). The refinement adds
`ContactFits`: the page in hand is addressed to a contact of its level, since the index of
a rotation lies in its list (`OnCallIsOfTheLevel`). Beyond the pages' rows the
abstract state depends on the workflow's place (`Cleared`) and on the result in hand
(`Sighted`), so a task is mapped by what it makes of the rung (`TaskClimbs`), and the
levels below the one it clears have their rows (`DueFits`). `TurnsTaken` is arithmetic:
one shift later the quotient of the elapsed time by the shift is one greater, and its
remainder by the number of contacts is the next, or 0 after the last (`TurnAndNext`).
It assumes `RotationsAreRecent`: no rotation began so long ago that `t.Sub`
saturates, 292 years in nanoseconds.

**Paging.** What was shown lies at or above the cursor (`ShownIsBehind`), and a row moves
towards the front only, because grouping takes the greater `last_seen_at`. What was there
all along is shown, lies behind the cursor, or is one of the rows the first page's offset
skipped (`OffsetLeavesOut`). That a page with an extra row is not the last, and that its
last row is below every other, are facts about cardinalities of ordered finite sets.

**Locks.** A run between the lock and the unlock on a live session holds the key
(`WorkersHoldTheKey`), so what it has still to do agrees with the table when it commits
(`PlanIsFresh`); a session belongs to one replica (`SessionsAreOwnedOnce`), so nobody gives
up or returns the lease of another, and no two hold the key on living sessions.

**ServiceProcess.** What each phase has behind it (`PhaseInv`), that no loop's error is
lost and the group's error is a loop's (`CauseInv`), and that a request is left only by a
server that failed (`RequestInv`).

**Correlation.** Four statements change the incidents table. Each keeps it typed, keeps
one active incident per service (`Unique`, which is `OneActive` without counting) and
moves every row forward; every other step leaves it alone. That the stored events are a
finite set is part of the invariant, because the counts are cardinalities of parts of it.
`FiringStaysOpen` relates what a cycle read at its start to the table at its end, with
cycles of other replicas and people in between. A cycle is no older than `MaxCycle`, and
neither is what it has built (`CyclesAreYoung`). Of every service it saw firing it has the
upsert still to do, or the service's active incident was last detected no longer than
`MaxCycle` before the cycle started (`FiredIsFresh`). The second holds although somebody
may resolve that incident and a slower cycle open another one with an older date: that
one is at most `MaxCycle` old too. The cutoff of the auto-resolution therefore stays
behind it as long as two cycles take no longer than the quiet period, which
`RuleAssumption` says.

**Janitor.** To the types and `RowsAreRouted` the invariant adds `DropsAreDue`: what a
replica has listed for dropping has expired, and stays so, whatever happens between the
list and the drop.

## 5. Disagreements found

Where a document or comment says one thing and the code does another; each is a
violation run with a counterexample, quoted in `PROJECT.json`.

- `remediation_rejection`: a rejection that is answered 202 while the approved step is
  being recorded is cleared together with the approval, and the step runs.
- `correlation_count`: an event dated slightly ahead of the clock is counted by two
  successive cycles, as is one stored between the start of a cycle and its query.

Further observations without a run of their own:

- An event the database refuses for ever stops the loop at each restart
  (`engine/processor.go:222`), and its partition with it, although `store/postgres.go:84-89`
  says that such an error must not block the partition. `pipeline_progress` has such an
  event, and its two properties claim nothing from the moment it is on the topic
  (`RefusedOnTopic`). Without that exception TLC finds both violated: the batch is
  redelivered and refused for ever, and records of another partition that are polled with
  it wait as well. So `PartitionsDrain` is no evidence for that comment.
- An execution whose result is lost is run again (`remediate/workflow.go:183`): actions carry
  no idempotency key, although `docs/architecture.md:745` says that no step is ever executed
  twice by a retry.
- The incident's status is read before the approval is awaited and not again: a step that is
  approved after somebody resolved the incident runs, although the comment at
  `remediate/workflow.go:126-127` says never to act on an incident that is no longer live.
- The final notice goes out without a last status check (`alerting/workflow.go:151`), so an
  owner whose signal was lost gets one, against `docs/architecture.md:638-640`.
- A rotation with a shift and no start counts from the year 1, where `t.Sub` saturates at 292
  years: the same contact is on call for ever, although `oncall/oncall.go:29-31` speaks of
  cycling. `TurnsAreTaken` is about rotations with a start.
- `Down` looks for the versions of its own build: an older build rolls back its own newest
  migration under later ones that stay, against the comment at `migrate/migrate.go:150`.
  `DownAssumption` excludes it.
- `Acquire` takes any error of `SELECT 1` for a lost session, of which `store/lock.go:49-51`
  says that PostgreSQL "has already released the lock". After a break on the client's side
  the server keeps the key until it notices (`CheckBreaks`), and after an error that leaves
  the connection whole the key goes to the pool with it (`LeakLease`); nobody leads until
  the server, or the pool, ends that session. A running replica may so give up leadership
  while its session lives, although `lock.go:18-22` wants it sticky, and another replica
  take it over; no property claims otherwise.
- A SIGTERM during the start makes `NewPool` fail, so the process exits with 1 although
  nothing went wrong but the timing; `ExitTellsTheTruth` reads 0 as "had served".
- A Temporal worker that dies of a fatal SDK error stops silently while the probes stay
  healthy (`WorkerDies`), although `cmd/alerting/main.go:140-141` says that the process
  unwinds when any loop stops. `w.Stop` does not wait for activities, since no
  `WorkerStopTimeout` is set, although the comment at line 156 says it does.
- The ingestion API may take 15 s to drain, 15 s to flush and 10 s to export, more than the
  30 s Kubernetes gives it by default; `deploy/k8s/40-ingestion-api.yaml` sets no other.
  A failed flush is logged only: the records were answered 202 no earlier than their
  acknowledgement, so none of them is lost.
- `cmd/incident-engine/main.go:174-175` passes a `store.CycleLock` to
  `correlate.NewRunner`, which takes three arguments and no lock. The comments in
  `correlate/rule.go` and `evaluator.go` speak of an advisory lock; the loop has none.
  `Correlation` models the loop as it is. Its safety properties hold without the lock,
  except that replicas add up their counts. `CycleLock` models the lock as it is documented
  to be called.
- A page whose webhook was called and whose record failed is called again, although
  the repository's `README.md:102` says each level is paged exactly once. It goes to the same
  contact, and the row is not rewritten (`PageIsFinal`).
- A second approval of one step, drained after the first was consumed, stands for the
  next gate: signals do not name a step. It is a different approval, so
  `ApprovalsAreNotReused` holds.
- The row key of `telemetry_events` includes the timestamp, so an `event_id` sent again
  with another timestamp is another row. `OneRowPerEvent` says what the key guarantees.
- A row for a past day without a partition stays in the default partition for good:
  partitions are created from today on, and only dated ones expire.
- An alert or remediation run that broke on failed activities is never started again,
  because its id counts as started; `OpenIsPaged` allows for it.

## 6. Limits

*Model-checked only.* Liveness and everything under fairness: `AcceptedIsStored`,
`PartitionsDrain`, `QuietIsResolved`, `OpenIsPaged`, `EscalationEnds`, `OpenIncidentIsHandled`,
`DaysArePrepared`, `PartitionsExpire`, `WalkEnds`, `RunsEnd` (of `Remediation` and of
`Migrations`), `SomeoneLeads`, `StopIsComplete`; temporal proofs with `ENABLED` are out of
the prover's reach, and so is induction over data, thus nothing is defined by recursion
in a module with proofs. Every other property of the passing runs is proved.

*Abstracted.* Decoding and field rules of an event are the set `Contract`; the error-rate
threshold is exact where the code divides floats; one filter stands for all those of a
list; targets and timeouts of a level, and names and actions of a step, are left out;
SIGKILL is the crash of the component modules and not a step of `ServiceProcess`; Kafka
retention and PostgreSQL lock waits do not appear. The
correlation cycle is bounded by `MaxCycle`, which stands for the statement timeouts, and
must be at most half the quiet period for `FiringStaysOpen` to be meaningful: overlapping
cycles may open an incident with an older date.

*Not modelled.* Configuration parsing (`config/`), request logging and metrics (`obs/`,
`httpx/middleware.go`), the web console, the demo services and the load generator: they
read, render or produce traffic, and keep no state of the platform's own. The demo
services and the load generator are clients of the ingestion API, which `PostEvent`,
`PostEventBatch` and `ForeignProduce` stand for.

## 7. Plan

Done, in this order, the most important behaviour first: `EventPipeline` with
`DurableStream`, `Remediation`, `Alerting`, `Janitor`, `Correlation`; then `OnCall` and
`Runbook` under the two workflows, `Paging`, `Migrations` and `CycleLock` composed as
`Locks`, and `ServiceProcess`; proofs for all of them.

The abstract specifications `EscalationLadder` and `GatedSequence` followed, each as a
refinement that TLC checks and the prover proves, and the last two safety properties that
were only model-checked, `FiringStaysOpen` and `TurnsAreTaken`.

Left:

1. The composition of `CycleLock` with `Correlation` once the loop takes the lease: one
   evaluator at a time, and counts that do not add up across replicas.
2. An abstract specification of the incidents of a service, opened, refreshed, taken and
   closed one after the other, and its refinement by `Correlation`.
