---------------------------- MODULE Correlation -----------------------------
(***************************************************************************)
(* The correlation engine: every replica runs cycles that read a window of *)
(* stored events, apply the error-rate rule per service, open an incident  *)
(* or group into the active one, and close the incidents that went quiet,  *)
(* while people acknowledge and resolve incidents. One rule is configured, *)
(* so a service stands for the fingerprint of its incidents.               *)
(***************************************************************************)
EXTENDS Integers, Sequences, FiniteSets

CONSTANTS
    Replicas,      \* engine replicas; each runs the loop
    Services,      \* tenant and service name
    Events,        \* the telemetry events that may be stored
    ServiceOf,     \* event -> its service
    TimeOf,        \* event -> its event_timestamp
    Bad,           \* the events of severity error or critical
    Window,        \* Rule.Window
    MinEvents,     \* Rule.MinEvents
    Num, Den,      \* Rule.Threshold is Num / Den
    ResolveAfter,
    MaxCycle,      \* the time a cycle may take, its statements being timed out
    MaxAhead,      \* how far ahead of the clock an event may be dated
    MaxLate,       \* bound: how late an event is stored
    MaxClock,      \* bound: the clock
    MaxResolves,   \* bound: resolutions by people
    MaxFaults      \* bound: failed statements and crashes

ASSUME EventAssumption ==
    /\ ServiceOf \in [Events -> Services] /\ TimeOf \in [Events -> Nat]
    /\ Bad \subseteq Events
ASSUME RuleAssumption ==
    /\ Window \in Nat /\ MinEvents \in Nat /\ Num \in Nat /\ Den \in Nat \ {0}
    /\ ResolveAfter \in Nat /\ MaxCycle \in Nat /\ 2 * MaxCycle <= ResolveAfter
ASSUME BoundAssumption ==
    /\ MaxAhead \in Nat /\ MaxLate \in Nat /\ MaxClock \in Nat
    /\ MaxResolves \in Nat /\ MaxFaults \in Nat

VARIABLES
    clock,
    stored,      \* telemetry_events
    incidents,   \* the incidents table, oldest first
    pc,          \* replica -> "idle", "reading" or "upserting"
    start,       \* replica -> when its last cycle started, Never at first
    todo,        \* replica -> the detections not yet built into an incident
    built,       \* replica -> the incident being upserted, if any
    fired,       \* history: replica -> the services that fired in its cycle
    lastCycle,   \* replica -> lastCycleAt, Never until a cycle succeeds
    resolves,
    faults

cycleVars == <<pc, start, todo, built, fired>>
vars == <<clock, stored, incidents, pc, start, todo, built, fired, lastCycle, resolves,
          faults>>

Never == -1
Statuses == {"open", "acknowledged", "resolved"}
Incidents == [service : Services, status : Statuses, count : Nat, lastSeen : Nat]
Detections == [service : Services, errors : Nat, new : Nat]
Upserts == [service : Services, errors : Nat, new : Nat, at : Nat]

TypeOK ==
    /\ clock \in Nat
    /\ stored \subseteq Events
    /\ incidents \in Seq(Incidents)
    /\ pc \in [Replicas -> {"idle", "reading", "upserting"}]
    /\ start \in [Replicas -> Nat \union {Never}]
    /\ todo \in [Replicas -> SUBSET Detections]
    /\ built \in [Replicas -> SUBSET Upserts]
    /\ fired \in [Replicas -> SUBSET Services]
    /\ \A r \in Replicas : pc[r] # "upserting" => todo[r] = {} /\ built[r] = {} /\ fired[r] = {}
    /\ lastCycle \in [Replicas -> Nat \union {Never}]
    /\ resolves \in Nat /\ faults \in Nat

Init ==
    /\ clock = 0 /\ stored = {} /\ incidents = <<>>
    /\ pc = [r \in Replicas |-> "idle"]
    /\ start = [r \in Replicas |-> Never]
    /\ todo = [r \in Replicas |-> {}]
    /\ built = [r \in Replicas |-> {}]
    /\ fired = [r \in Replicas |-> {}]
    /\ lastCycle = [r \in Replicas |-> Never]
    /\ resolves = 0 /\ faults = 0

Fault == faults < MaxFaults /\ faults' = faults + 1

-----------------------------------------------------------------------------
(* Events, time and people.                                                *)

\* An engine stores an event, at some delay after its timestamp.
StoreEvent(e) ==
    /\ e \notin stored
    /\ clock - TimeOf[e] \in (-MaxAhead)..MaxLate
    /\ stored' = stored \union {e}
    /\ UNCHANGED <<clock, incidents, cycleVars, lastCycle, resolves, faults>>

Tick ==
    /\ clock < MaxClock
    /\ \A r \in Replicas : pc[r] # "idle" => clock - start[r] < MaxCycle
    /\ clock' = clock + 1
    /\ UNCHANGED <<stored, incidents, cycleVars, lastCycle, resolves, faults>>

Acknowledge(i) ==
    /\ incidents[i].status = "open"
    /\ incidents' = [incidents EXCEPT ![i].status = "acknowledged"]
    /\ UNCHANGED <<clock, stored, cycleVars, lastCycle, resolves, faults>>

Resolve(i) ==
    /\ incidents[i].status # "resolved"
    /\ resolves < MaxResolves /\ resolves' = resolves + 1
    /\ incidents' = [incidents EXCEPT ![i].status = "resolved"]
    /\ UNCHANGED <<clock, stored, cycleVars, lastCycle, faults>>

-----------------------------------------------------------------------------
(* The rule.                                                               *)

\* windowStatsSQL: rows from a moment on, however late they were stored and
\* however far ahead they are dated.
Since(s, from) == {e \in stored : ServiceOf[e] = s /\ TimeOf[e] >= from}

\* evaluateErrorRate; a service without rows is not in the result at all.
Fires(total, errors) ==
    total > 0 /\ total >= MinEvents /\ errors * Den >= Num * total

Later(a, b) == IF a > b THEN a ELSE b

\* What one cycle detects: the errors of the whole window seed an incident, those
\* since the last successful cycle are added to one that is already active.
Detected(r) ==
    LET since == start[r] - Window
        countSince == Later(since, lastCycle[r])
    IN  {[service |-> s, errors |-> Cardinality(Since(s, since) \cap Bad),
          new |-> Cardinality(Since(s, countSince) \cap Bad)] :
            s \in {x \in Services : Fires(Cardinality(Since(x, since)),
                                          Cardinality(Since(x, since) \cap Bad))}}

-----------------------------------------------------------------------------
(* The cycle, EvaluateOnce.                                                *)

\* The first cycle starts at once, the others by the ticker, a time unit being no
\* longer than its interval; at the bound of the clock the ticker goes on.
StartCycle(r) ==
    /\ pc[r] = "idle"
    /\ start[r] < clock \/ clock = MaxClock
    /\ pc' = [pc EXCEPT ![r] = "reading"]
    /\ start' = [start EXCEPT ![r] = clock]
    /\ UNCHANGED <<clock, stored, incidents, todo, built, fired, lastCycle, resolves, faults>>

ReadWindow(r) ==
    /\ pc[r] = "reading"
    /\ pc' = [pc EXCEPT ![r] = "upserting"]
    /\ todo' = [todo EXCEPT ![r] = Detected(r)]
    /\ fired' = [fired EXCEPT ![r] = {x.service : x \in Detected(r)}]
    /\ UNCHANGED <<clock, stored, incidents, start, built, lastCycle, resolves, faults>>

\* buildIncident reads the clock; the statement is executed some time later.
BuildIncident(r, d) ==
    /\ pc[r] = "upserting" /\ built[r] = {} /\ d \in todo[r]
    /\ todo' = [todo EXCEPT ![r] = @ \ {d}]
    /\ built' = [built EXCEPT ![r] =
          {[service |-> d.service, errors |-> d.errors, new |-> d.new, at |-> clock]}]
    /\ UNCHANGED <<clock, stored, incidents, pc, start, fired, lastCycle, resolves, faults>>

\* The rows the conflict target of the upsert collides with, if it were open ones.
ActiveIfOpen(s) == {i \in DOMAIN incidents : /\ incidents[i].service = s
                                             /\ incidents[i].status = "open"}
\* The partial unique index: the incidents of the service that are not resolved.
Active(s) == {i \in DOMAIN incidents : /\ incidents[i].service = s
                                       /\ incidents[i].status # "resolved"}

Opened(u) == [service |-> u.service, status |-> "open", count |-> u.errors,
              lastSeen |-> u.at]

\* Group without an update of last_seen_at.
GroupCountOnly(inc, u) == [inc EXCEPT !.count = @ + u.new]
\* Group without GREATEST.
GroupLast(inc, u) == [inc EXCEPT !.count = @ + u.new, !.lastSeen = u.at]
Group(inc, u) == [inc EXCEPT !.count = @ + u.new, !.lastSeen = Later(@, u.at)]

\* upsertIncidentSQL.
ApplyUpsert(u) ==
    incidents' = IF Active(u.service) = {} THEN Append(incidents, Opened(u))
                 ELSE [i \in DOMAIN incidents |->
                         IF i \in Active(u.service) THEN Group(incidents[i], u)
                         ELSE incidents[i]]

UpsertOpen(r) ==
    /\ \E u \in built[r] : ApplyUpsert(u)
    /\ built' = [built EXCEPT ![r] = {}]
    /\ UNCHANGED <<clock, stored, pc, start, todo, fired, lastCycle, resolves, faults>>

\* ApplyAutoResolve limited to open incidents.
ResolveStaleOpen(now) ==
    incidents' = [i \in DOMAIN incidents |->
        IF incidents[i].status = "open" /\ incidents[i].lastSeen < now - ResolveAfter
        THEN [incidents[i] EXCEPT !.status = "resolved"] ELSE incidents[i]]
\* autoResolveStaleSQL: whatever is active and was last detected too long ago.
ResolveStale(now) ==
    incidents' = [i \in DOMAIN incidents |->
        IF incidents[i].status # "resolved" /\ incidents[i].lastSeen < now - ResolveAfter
        THEN [incidents[i] EXCEPT !.status = "resolved"] ELSE incidents[i]]

EndCycle(r) ==
    /\ pc' = [pc EXCEPT ![r] = "idle"]
    /\ todo' = [todo EXCEPT ![r] = {}]
    /\ built' = [built EXCEPT ![r] = {}]
    /\ fired' = [fired EXCEPT ![r] = {}]

Upserted(r) == pc[r] = "upserting" /\ todo[r] = {} /\ built[r] = {}

\* AutoResolveStale, the last statement, with a cutoff computed just before it;
\* only then does lastCycleAt advance.
AutoResolve(r) ==
    /\ Upserted(r)
    /\ \E now \in start[r]..clock : ResolveStale(now)
    /\ lastCycle' = [lastCycle EXCEPT ![r] = start[r]]
    /\ EndCycle(r)
    /\ UNCHANGED <<clock, stored, start, resolves, faults>>

\* The statement under way may have been applied when its error, or the end of
\* the process, cuts the cycle short.
MaybeApplied(r) ==
    \/ UNCHANGED incidents
    \/ \E u \in built[r] : ApplyUpsert(u)
    \/ Upserted(r) /\ \E now \in start[r]..clock : ResolveStale(now)

\* The error is logged, and the next tick starts over with the same bound.
CycleFails(r) ==
    /\ pc[r] # "idle"
    /\ Fault
    /\ MaybeApplied(r)
    /\ EndCycle(r)
    /\ UNCHANGED <<clock, stored, start, lastCycle, resolves>>

\* The process ends, in a cycle or between two: its successor starts without a
\* bound.
Crash(r) ==
    /\ Fault
    /\ MaybeApplied(r)
    /\ EndCycle(r)
    /\ start' = [start EXCEPT ![r] = Never]
    /\ lastCycle' = [lastCycle EXCEPT ![r] = Never]
    /\ UNCHANGED <<clock, stored, resolves>>

-----------------------------------------------------------------------------

ReplicaStep(r) ==
    \/ StartCycle(r)
    \/ ReadWindow(r)
    \/ \E d \in todo[r] : BuildIncident(r, d)
    \/ UpsertOpen(r)
    \/ AutoResolve(r)
    \/ CycleFails(r)
    \/ Crash(r)

Next ==
    \/ \E e \in Events : StoreEvent(e)
    \/ Tick
    \/ \E i \in DOMAIN incidents : Acknowledge(i) \/ Resolve(i)
    \/ \E r \in Replicas : ReplicaStep(r)

Spec == Init /\ [][Next]_vars

\* Time passes, cycles are started by the ticker and go on to their end. Nobody
\* has to react to an incident.
Fairness ==
    /\ WF_vars(Tick)
    /\ \A r \in Replicas :
          /\ WF_vars(StartCycle(r))
          /\ WF_vars(ReadWindow(r))
          /\ WF_vars(\E d \in todo[r] : BuildIncident(r, d))
          /\ WF_vars(UpsertOpen(r))
          /\ WF_vars(AutoResolve(r))

FairSpec == Spec /\ Fairness

-----------------------------------------------------------------------------
(* Properties.                                                             *)

\* A service has at most one active incident, however many replicas evaluate it
\* and whoever acknowledges or resolves in between (upsertIncidentSQL on the
\* partial unique index).
OneActive ==
    \A s \in Services :
        Cardinality({i \in DOMAIN incidents :
            incidents[i].service = s /\ incidents[i].status # "resolved"}) <= 1

MovesForward ==
    \A i \in DOMAIN incidents :
        LET old == incidents[i]
            new == incidents'[i]
        IN  /\ i \in DOMAIN incidents'
            /\ old.status = "resolved" => new = old
            /\ old.status = "acknowledged" => new.status # "open"
            /\ new.lastSeen >= old.lastSeen /\ new.count >= old.count

\* An incident is one contiguous episode: its life cycle has one direction, its
\* last detection only moves forward, although replicas finish in any order, and
\* once resolved it never changes again (CanTransitionTo, upsertIncidentSQL).
EpisodesMoveForward == [][MovesForward]_vars

\* A cycle never closes an incident whose service it has just seen firing, even
\* when every cycle before it failed for longer than the quiet period
\* (EvaluateOnce upserts before it resolves).
FiringStaysOpen ==
    [][\A r \in Replicas : Upserted(r) /\ pc'[r] = "idle" /\ lastCycle'[r] = start[r] =>
          \A i \in DOMAIN incidents :
              incidents[i].service \in fired[r] => incidents'[i] = incidents[i]]_vars

\* An incident does not wait for a person: once its condition has stopped firing
\* it is resolved, acknowledged or not, although cycles fail (autoResolveStaleSQL).
QuietIsResolved ==
    \A i \in 1..(MaxResolves + 2) :
        i \in DOMAIN incidents ~>
            i \in DOMAIN incidents /\ incidents[i].status = "resolved"

\* "So overlapping windows do not count the same event twice."
CountedOnce ==
    \A i \in DOMAIN incidents :
        incidents[i].count <=
            Cardinality({e \in stored \cap Bad : ServiceOf[e] = incidents[i].service})
=============================================================================
