------------------------- MODULE CorrelationProofs --------------------------
(***************************************************************************)
(* Theorems about Correlation, for any events, services and rule, and any  *)
(* number of replicas, none of which holds a lock.                         *)
(*                                                                         *)
(* The incidents table is changed by four statements. Each of them is      *)
(* shown to keep the table well formed, one active incident per service,   *)
(* and every incident moving forward; a step of the program is one of      *)
(* them or leaves the table alone.                                         *)
(***************************************************************************)
EXTENDS Correlation, FiniteSetTheorems, TLAPS

\* OneActive without counting.
Unique ==
    \A i, j \in DOMAIN incidents :
        /\ incidents[i].service = incidents[j].service
        /\ incidents[i].status # "resolved" /\ incidents[j].status # "resolved"
        => i = j

IInv == TypeOK /\ IsFiniteSet(stored) /\ Unique

\* A cycle that is under way is no older than MaxCycle, and what it has built is
\* no older than the cycle; it builds one incident at a time.
CyclesAreYoung ==
    \A r \in Replicas : pc[r] # "idle" =>
        /\ start[r] \in Nat /\ start[r] <= clock /\ clock <= start[r] + MaxCycle
        /\ \A u \in built[r] : start[r] <= u.at /\ u.at <= clock
        /\ \A u, v \in built[r] : u = v

\* What a cycle has seen firing is still to be upserted, or its active incident is
\* fresh: last detected no longer than MaxCycle before the cycle started. (It may
\* be another than the one upserted, which somebody resolved meanwhile, opened by
\* an overlapping cycle with an older clock.)
Fresh(s, since) ==
    \A i \in DOMAIN incidents :
        incidents[i].service = s /\ incidents[i].status # "resolved" =>
            since <= incidents[i].lastSeen + MaxCycle

FiredIsFresh(r) ==
    \A s \in fired[r] :
        \/ \E d \in todo[r] : d.service = s
        \/ \E u \in built[r] : u.service = s
        \/ Fresh(s, start[r])

FreshInv == IInv /\ CyclesAreYoung /\ \A r \in Replicas : FiredIsFresh(r)

\* What every statement on the table does.
TableKept == incidents' \in Seq(Incidents) /\ Unique' /\ MovesForward

-----------------------------------------------------------------------------
(* The statements.                                                         *)

\* A statement that edits rows in place, never changes the service of one nor
\* makes one active again, keeps the table.
LEMMA EditKeepsTable ==
    ASSUME TypeOK, Unique,
           DOMAIN incidents' = DOMAIN incidents, incidents' \in Seq(Incidents),
           \A i \in DOMAIN incidents :
               /\ incidents'[i].service = incidents[i].service
               /\ incidents[i].status = "resolved" => incidents'[i] = incidents[i]
               /\ incidents[i].status = "acknowledged" => incidents'[i].status # "open"
               /\ incidents'[i].lastSeen >= incidents[i].lastSeen
               /\ incidents'[i].count >= incidents[i].count
    PROVE  TableKept
<1>1. Unique'
  BY DEF Unique
<1>2. MovesForward
  BY DEF MovesForward
<1>3. QED
  BY <1>1, <1>2 DEF TableKept

\* Grouping a detection keeps the row an incident of its service and status, and
\* moves it forward.
LEMMA GroupMovesForward ==
    ASSUME NEW inc \in Incidents, NEW u \in Upserts
    PROVE  /\ Group(inc, u) \in Incidents
           /\ Group(inc, u).service = inc.service
           /\ Group(inc, u).status = inc.status
           /\ Group(inc, u).lastSeen >= inc.lastSeen
           /\ Group(inc, u).count >= inc.count
<1>1. /\ inc.count \in Nat /\ inc.lastSeen \in Nat /\ u.new \in Nat /\ u.at \in Nat
  BY DEF Incidents, Upserts
<1>2. /\ inc.count + u.new \in Nat /\ inc.count + u.new >= inc.count
      /\ Later(inc.lastSeen, u.at) \in Nat /\ Later(inc.lastSeen, u.at) >= inc.lastSeen
  BY <1>1 DEF Later
<1>3. \A c, l \in Nat :
          LET new == [inc EXCEPT !.count = c, !.lastSeen = l]
          IN  /\ new \in Incidents
              /\ new.service = inc.service /\ new.status = inc.status
              /\ new.count = c /\ new.lastSeen = l
  BY DEF Incidents
<1>4. QED
  BY <1>2, <1>3 DEF Group

LEMMA UpsertKeepsTable ==
    ASSUME TypeOK, Unique, NEW u \in Upserts, ApplyUpsert(u)
    PROVE  TableKept
<1>t. incidents \in Seq(Incidents)
  BY DEF TypeOK
<1>1. CASE Active(u.service) = {}
  <2>1. incidents' = Append(incidents, Opened(u)) /\ Opened(u) \in Incidents
    BY <1>1 DEF ApplyUpsert, Opened, Upserts, Incidents, Statuses
  <2>2. /\ incidents' \in Seq(Incidents)
        /\ Len(incidents') = Len(incidents) + 1
        /\ \A i \in 1..Len(incidents) : incidents'[i] = incidents[i]
        /\ incidents'[Len(incidents) + 1] = Opened(u)
    BY <1>t, <2>1
  <2>3. DOMAIN incidents = 1..Len(incidents) /\ DOMAIN incidents' = 1..(Len(incidents) + 1)
    BY <1>t, <2>2
  <2>4. \A i \in DOMAIN incidents :
            incidents[i].service = u.service => incidents[i].status = "resolved"
    BY <1>1 DEF Active
  <2>5. Unique'
    <3>1. SUFFICES ASSUME NEW i \in DOMAIN incidents', NEW j \in DOMAIN incidents',
                          incidents'[i].service = incidents'[j].service,
                          incidents'[i].status # "resolved", incidents'[j].status # "resolved"
                   PROVE  i = j
      BY DEF Unique
    <3>2. Opened(u).service = u.service
      BY DEF Opened
    <3>3. Len(incidents) \in Nat
      BY <1>t
    <3>4. \A k \in DOMAIN incidents' : k \in DOMAIN incidents \/ k = Len(incidents) + 1
      BY <2>3, <3>3
    <3>5. CASE i \in DOMAIN incidents /\ j \in DOMAIN incidents
      BY <3>1, <3>5, <2>2, <2>3 DEF Unique
    <3>6. CASE i \in DOMAIN incidents /\ j = Len(incidents) + 1
      BY <3>1, <3>6, <3>2, <2>2, <2>3, <2>4
    <3>7. CASE j \in DOMAIN incidents /\ i = Len(incidents) + 1
      BY <3>1, <3>7, <3>2, <2>2, <2>3, <2>4
    <3>8. QED
      BY <3>4, <3>5, <3>6, <3>7
  <2>6. MovesForward
    <3>1. \A i \in DOMAIN incidents : incidents[i] \in Incidents
      BY <1>t
    <3>2. \A inc \in Incidents : inc.lastSeen >= inc.lastSeen /\ inc.count >= inc.count
      BY DEF Incidents
    <3>3. \A i \in DOMAIN incidents : i \in DOMAIN incidents' /\ incidents'[i] = incidents[i]
      BY <1>t, <2>2, <2>3
    <3>4. QED
      BY <3>1, <3>2, <3>3 DEF MovesForward
  <2>7. QED
    BY <2>2, <2>5, <2>6 DEF TableKept
<1>2. CASE Active(u.service) # {}
  <2>1. incidents' = [i \in DOMAIN incidents |->
                        IF i \in Active(u.service) THEN Group(incidents[i], u)
                        ELSE incidents[i]]
    BY <1>2 DEF ApplyUpsert
  <2>2. \A i \in DOMAIN incidents : incidents[i] \in Incidents
    BY <1>t
  <2>3. \A inc \in Incidents : inc.lastSeen >= inc.lastSeen /\ inc.count >= inc.count
    BY DEF Incidents
  <2>4. \A i \in Active(u.service) : incidents[i].status # "resolved"
    BY DEF Active
  <2>5. \A i \in DOMAIN incidents : incidents'[i] \in Incidents
    BY <2>1, <2>2, GroupMovesForward
  <2>6. DOMAIN incidents' = DOMAIN incidents /\ incidents' \in Seq(Incidents)
    BY <1>t, <2>1, <2>5
  <2>7. \A i \in DOMAIN incidents :
            /\ incidents'[i].service = incidents[i].service
            /\ incidents[i].status = "resolved" => incidents'[i] = incidents[i]
            /\ incidents[i].status = "acknowledged" => incidents'[i].status # "open"
            /\ incidents'[i].lastSeen >= incidents[i].lastSeen
            /\ incidents'[i].count >= incidents[i].count
    <3>1. SUFFICES ASSUME NEW i \in DOMAIN incidents
                   PROVE  /\ incidents'[i].service = incidents[i].service
                          /\ incidents[i].status = "resolved" => incidents'[i] = incidents[i]
                          /\ incidents[i].status = "acknowledged" =>
                                 incidents'[i].status # "open"
                          /\ incidents'[i].lastSeen >= incidents[i].lastSeen
                          /\ incidents'[i].count >= incidents[i].count
      OBVIOUS
    <3>2. CASE i \in Active(u.service)
      <4>1. incidents'[i] = Group(incidents[i], u)
        BY <3>2, <2>1
      <4>2. QED
        BY <4>1, <3>2, <2>2, <2>4, GroupMovesForward
    <3>3. CASE i \notin Active(u.service)
      <4>1. incidents'[i] = incidents[i]
        BY <3>3, <2>1
      <4>2. QED
        BY <4>1, <2>2, <2>3
    <3>4. QED
      BY <3>2, <3>3
  <2>8. QED
    BY <2>6, <2>7, EditKeepsTable
<1>3. QED
  BY <1>1, <1>2

LEMMA ResolveStaleKeepsTable ==
    ASSUME TypeOK, Unique, NEW now, ResolveStale(now)
    PROVE  TableKept
<1>t. incidents \in Seq(Incidents)
  BY DEF TypeOK
<1>1. \A i \in DOMAIN incidents :
          \/ incidents'[i] = incidents[i]
          \/ /\ incidents[i].status # "resolved"
             /\ incidents'[i] = [incidents[i] EXCEPT !.status = "resolved"]
  BY DEF ResolveStale
<1>2. DOMAIN incidents' = DOMAIN incidents
  BY DEF ResolveStale
<1>3. \A i \in DOMAIN incidents : incidents[i] \in Incidents
  BY <1>t
<1>4. \A inc \in Incidents :
          /\ inc.lastSeen >= inc.lastSeen /\ inc.count >= inc.count
          /\ [inc EXCEPT !.status = "resolved"] \in Incidents
          /\ [inc EXCEPT !.status = "resolved"].service = inc.service
          /\ [inc EXCEPT !.status = "resolved"].status = "resolved"
          /\ [inc EXCEPT !.status = "resolved"].lastSeen = inc.lastSeen
          /\ [inc EXCEPT !.status = "resolved"].count = inc.count
  BY DEF Incidents, Statuses
<1>5. \A i \in DOMAIN incidents : incidents'[i] \in Incidents
  BY <1>1, <1>3, <1>4
<1>6. incidents' \in Seq(Incidents)
  BY <1>t, <1>2, <1>5 DEF ResolveStale
<1>7. \A i \in DOMAIN incidents :
          /\ incidents'[i].service = incidents[i].service
          /\ incidents[i].status = "resolved" => incidents'[i] = incidents[i]
          /\ incidents[i].status = "acknowledged" => incidents'[i].status # "open"
          /\ incidents'[i].lastSeen >= incidents[i].lastSeen
          /\ incidents'[i].count >= incidents[i].count
  BY <1>1, <1>3, <1>4
<1>8. QED
  BY <1>2, <1>6, <1>7, EditKeepsTable

\* A person's transition of an active incident.
LEMMA TransitionKeepsTable ==
    ASSUME TypeOK, Unique, NEW i \in DOMAIN incidents, NEW st \in {"acknowledged", "resolved"},
           incidents[i].status # "resolved",
           st = "acknowledged" => incidents[i].status = "open",
           incidents' = [incidents EXCEPT ![i].status = st]
    PROVE  TableKept
<1>t. incidents \in Seq(Incidents)
  BY DEF TypeOK
<1>1. \A j \in DOMAIN incidents :
          incidents'[j] = IF j = i THEN [incidents[j] EXCEPT !.status = st] ELSE incidents[j]
  BY <1>t
<1>2. DOMAIN incidents' = DOMAIN incidents
  BY <1>t
<1>3. \A j \in DOMAIN incidents : incidents[j] \in Incidents
  BY <1>t
<1>4. \A inc \in Incidents :
          /\ inc.lastSeen >= inc.lastSeen /\ inc.count >= inc.count
          /\ [inc EXCEPT !.status = st] \in Incidents
          /\ [inc EXCEPT !.status = st].service = inc.service
          /\ [inc EXCEPT !.status = st].status = st
          /\ [inc EXCEPT !.status = st].lastSeen = inc.lastSeen
          /\ [inc EXCEPT !.status = st].count = inc.count
  BY DEF Incidents, Statuses
<1>5. \A j \in DOMAIN incidents : incidents'[j] \in Incidents
  BY <1>1, <1>3, <1>4
<1>6. incidents' \in Seq(Incidents)
  BY <1>t, <1>3, <1>4
<1>7. \A j \in DOMAIN incidents :
          /\ incidents'[j].service = incidents[j].service
          /\ incidents[j].status = "resolved" => incidents'[j] = incidents[j]
          /\ incidents[j].status = "acknowledged" => incidents'[j].status # "open"
          /\ incidents'[j].lastSeen >= incidents[j].lastSeen
          /\ incidents'[j].count >= incidents[j].count
  BY <1>1, <1>3, <1>4
<1>8. QED
  BY <1>2, <1>6, <1>7, EditKeepsTable

LEMMA StutterKeepsTable ==
    ASSUME TypeOK, Unique, UNCHANGED incidents
    PROVE  TableKept
<1>1. incidents \in Seq(Incidents)
  BY DEF TypeOK
<1>2. \A i \in DOMAIN incidents : incidents[i] \in Incidents
  BY <1>1
<1>3. \A inc \in Incidents : inc.lastSeen >= inc.lastSeen /\ inc.count >= inc.count
  BY DEF Incidents
<1>4. \A i \in DOMAIN incidents :
          incidents[i].lastSeen >= incidents[i].lastSeen /\ incidents[i].count >= incidents[i].count
  BY <1>2, <1>3
<1>5. MovesForward
  BY <1>4 DEF MovesForward
<1>6. QED
  BY <1>1, <1>5 DEF TableKept, Unique

\* The statement a failed or crashed cycle may or may not have executed.
LEMMA MaybeAppliedKeepsTable ==
    ASSUME TypeOK, Unique, NEW r \in Replicas, MaybeApplied(r)
    PROVE  TableKept
<1>1. \A u \in built[r] : u \in Upserts
  BY DEF TypeOK
<1>2. QED
  BY <1>1, StutterKeepsTable, UpsertKeepsTable, ResolveStaleKeepsTable DEF MaybeApplied

-----------------------------------------------------------------------------
(* A step of the program.                                                  *)

\* Every step keeps the table.
LEMMA NextKeepsTable ==
    ASSUME IInv, [Next]_vars
    PROVE  TableKept
<1> USE DEF IInv
<1>1. CASE UNCHANGED incidents
  BY <1>1, StutterKeepsTable
<1>2. ASSUME NEW i \in DOMAIN incidents, Acknowledge(i) PROVE TableKept
  BY <1>2, TransitionKeepsTable DEF Acknowledge
<1>3. ASSUME NEW i \in DOMAIN incidents, Resolve(i) PROVE TableKept
  BY <1>3, TransitionKeepsTable DEF Resolve
<1>4. ASSUME NEW r \in Replicas, UpsertOpen(r) PROVE TableKept
  <2>1. PICK u \in built[r] : ApplyUpsert(u)
    BY <1>4 DEF UpsertOpen
  <2>2. u \in Upserts
    BY DEF TypeOK
  <2>3. QED
    BY <2>1, <2>2, UpsertKeepsTable
<1>5. ASSUME NEW r \in Replicas, AutoResolve(r) PROVE TableKept
  BY <1>5, ResolveStaleKeepsTable DEF AutoResolve
<1>6. ASSUME NEW r \in Replicas, CycleFails(r) \/ Crash(r) PROVE TableKept
  BY <1>6, MaybeAppliedKeepsTable DEF CycleFails, Crash
<1>7. ASSUME NEW r \in Replicas, ReplicaStep(r) PROVE TableKept
  <2>1. CASE StartCycle(r) \/ ReadWindow(r) \/ \E d \in todo[r] : BuildIncident(r, d)
    BY <2>1, <1>1 DEF StartCycle, ReadWindow, BuildIncident
  <2>2. QED
    BY <1>7, <2>1, <1>4, <1>5, <1>6 DEF ReplicaStep
<1>8. CASE Tick \/ \E e \in Events : StoreEvent(e)
  BY <1>8, <1>1 DEF Tick, StoreEvent
<1>9. CASE UNCHANGED vars
  BY <1>9, <1>1 DEF vars
<1>10. QED
  BY <1>2, <1>3, <1>7, <1>8, <1>9 DEF Next

-----------------------------------------------------------------------------
(* Types.                                                                  *)

\* What a cycle detects is well typed, the counts being those of finite sets.
LEMMA DetectedIsTyped ==
    ASSUME IInv, NEW r \in Replicas
    PROVE  Detected(r) \subseteq Detections /\ {x.service : x \in Detected(r)} \subseteq Services
<1>1. \A s, from : IsFiniteSet(Since(s, from) \cap Bad)
  <2>1. \A s, from : Since(s, from) \cap Bad \in SUBSET stored
    BY DEF Since
  <2>2. QED
    BY <2>1, FS_Subset DEF IInv
<1>2. \A s, from : Cardinality(Since(s, from) \cap Bad) \in Nat
  BY <1>1, FS_CardinalityType
<1>3. ASSUME NEW x \in Detected(r) PROVE x \in Detections
  <2>1. PICK s \in Services :
            \E a, b : x = [service |-> s, errors |-> Cardinality(Since(s, a) \cap Bad),
                           new |-> Cardinality(Since(s, b) \cap Bad)]
    BY <1>3 DEF Detected
  <2>2. QED
    BY <2>1, <1>2 DEF Detections
<1>4. QED
  BY <1>3 DEF Detections

LEMMA EndCycleIsTyped ==
    ASSUME TypeOK, NEW r \in Replicas, EndCycle(r)
    PROVE  /\ pc' \in [Replicas -> {"idle", "reading", "upserting"}]
           /\ todo' \in [Replicas -> SUBSET Detections]
           /\ built' \in [Replicas -> SUBSET Upserts]
           /\ fired' \in [Replicas -> SUBSET Services]
           /\ \A q \in Replicas :
                 pc'[q] # "upserting" => todo'[q] = {} /\ built'[q] = {} /\ fired'[q] = {}
  BY DEF TypeOK, EndCycle

LEMMA FaultIsTyped ==
    ASSUME TypeOK, Fault
    PROVE  faults' \in Nat
  BY DEF TypeOK, Fault

LEMMA ReplicaStepIsTyped ==
    ASSUME IInv, incidents' \in Seq(Incidents), NEW r \in Replicas, ReplicaStep(r)
    PROVE  TypeOK'
<1> USE DEF IInv
<1>1. CASE StartCycle(r)
  BY <1>1 DEF TypeOK, StartCycle
<1>2. CASE ReadWindow(r)
  <2>1. todo' \in [Replicas -> SUBSET Detections] /\ fired' \in [Replicas -> SUBSET Services]
    BY <1>2, DetectedIsTyped DEF TypeOK, ReadWindow
  <2>2. \A q \in Replicas :
            pc'[q] # "upserting" => todo'[q] = {} /\ built'[q] = {} /\ fired'[q] = {}
    BY <1>2 DEF TypeOK, ReadWindow
  <2>3. QED
    BY <1>2, <2>1, <2>2 DEF TypeOK, ReadWindow
<1>3. ASSUME NEW d \in todo[r], BuildIncident(r, d) PROVE TypeOK'
  <2>1. [service |-> d.service, errors |-> d.errors, new |-> d.new, at |-> clock] \in Upserts
    BY DEF TypeOK, Detections, Upserts
  <2>2. QED
    BY <1>3, <2>1 DEF TypeOK, BuildIncident
<1>4. CASE UpsertOpen(r)
  BY <1>4 DEF TypeOK, UpsertOpen
<1>5. CASE AutoResolve(r)
  BY <1>5, EndCycleIsTyped DEF TypeOK, AutoResolve
<1>6. CASE CycleFails(r)
  BY <1>6, EndCycleIsTyped, FaultIsTyped DEF TypeOK, CycleFails
<1>7. CASE Crash(r)
  <2>1. start' \in [Replicas -> Nat \union {Never}] /\ lastCycle' \in [Replicas -> Nat \union {Never}]
    BY <1>7 DEF TypeOK, Crash
  <2>2. QED
    BY <1>7, <2>1, EndCycleIsTyped, FaultIsTyped DEF TypeOK, Crash
<1>8. QED
  BY <1>1, <1>2, <1>3, <1>4, <1>5, <1>6, <1>7 DEF ReplicaStep

LEMMA NextIsTyped ==
    ASSUME IInv, incidents' \in Seq(Incidents), [Next]_vars
    PROVE  TypeOK'
<1> USE DEF IInv
<1>1. ASSUME NEW e \in Events, StoreEvent(e) PROVE TypeOK'
  BY <1>1 DEF TypeOK, StoreEvent, cycleVars
<1>2. CASE Tick
  BY <1>2 DEF TypeOK, Tick, cycleVars
<1>3. ASSUME NEW i \in DOMAIN incidents, Acknowledge(i) \/ Resolve(i) PROVE TypeOK'
  BY <1>3 DEF TypeOK, Acknowledge, Resolve, cycleVars
<1>4. ASSUME NEW r \in Replicas, ReplicaStep(r) PROVE TypeOK'
  BY <1>4, ReplicaStepIsTyped
<1>5. CASE UNCHANGED vars
  BY <1>5 DEF TypeOK, vars, cycleVars
<1>6. QED
  BY <1>1, <1>2, <1>3, <1>4, <1>5 DEF Next

LEMMA StoredStaysFinite ==
    ASSUME IInv, [Next]_vars
    PROVE  IsFiniteSet(stored')
<1>1. ASSUME NEW e \in Events, StoreEvent(e) PROVE IsFiniteSet(stored')
  BY <1>1, FS_AddElement DEF IInv, StoreEvent
<1>2. CASE UNCHANGED stored
  BY <1>2 DEF IInv
<1>3. ASSUME NEW r \in Replicas, ReplicaStep(r) PROVE UNCHANGED stored
  BY <1>3 DEF ReplicaStep, StartCycle, ReadWindow, BuildIncident, UpsertOpen, AutoResolve,
              CycleFails, Crash
<1>4. QED
  BY <1>1, <1>2, <1>3 DEF Next, Tick, Acknowledge, Resolve, vars

-----------------------------------------------------------------------------
(* How old an active incident may be.                                      *)

\* A row that is active after a step was active before it and was not seen less
\* recently, or it was opened by a replica with what it had built.
RowKept(i) ==
    /\ i \in DOMAIN incidents
    /\ incidents'[i].service = incidents[i].service
    /\ incidents[i].status # "resolved"
    /\ incidents'[i].lastSeen >= incidents[i].lastSeen
RowOpened(i) ==
    \E q \in Replicas : \E u \in built[q] : incidents'[i].lastSeen = u.at
TableStep ==
    \A i \in DOMAIN incidents' :
        incidents'[i].status # "resolved" => RowKept(i) \/ RowOpened(i)

\* After the upsert of u the active incident of its service was seen at u.at or
\* later; the others are as they were.
LEMMA UpsertRows ==
    ASSUME TypeOK, NEW u \in Upserts, ApplyUpsert(u),
           NEW i \in DOMAIN incidents', incidents'[i].status # "resolved"
    PROVE  /\ RowKept(i) \/ incidents'[i] = Opened(u)
           /\ incidents'[i].service = u.service => incidents'[i].lastSeen >= u.at
<1>t. incidents \in Seq(Incidents) /\ u.at \in Nat
  BY DEF TypeOK, Upserts
<1>s. \A k \in DOMAIN incidents : incidents[k] \in Incidents
  BY <1>t
<1>g. \A inc \in Incidents : inc.lastSeen \in Nat /\ inc.lastSeen >= inc.lastSeen
  BY DEF Incidents
<1>1. CASE Active(u.service) = {}
  <2>1. incidents' = Append(incidents, Opened(u))
    BY <1>1 DEF ApplyUpsert
  <2>2. /\ Len(incidents) \in Nat
        /\ DOMAIN incidents = 1..Len(incidents) /\ DOMAIN incidents' = 1..(Len(incidents) + 1)
        /\ \A k \in 1..Len(incidents) : incidents'[k] = incidents[k]
        /\ incidents'[Len(incidents) + 1] = Opened(u)
    BY <1>t, <2>1
  <2>3. CASE i \in DOMAIN incidents
    <3>1. incidents'[i] = incidents[i]
      BY <2>2, <2>3
    <3>2. incidents[i].service # u.service
      BY <1>1, <2>3, <3>1 DEF Active
    <3>3. QED
      BY <1>s, <1>g, <2>3, <3>1, <3>2 DEF RowKept
  <2>4. CASE i \notin DOMAIN incidents
    <3>1. incidents'[i] = Opened(u)
      BY <2>2, <2>4
    <3>2. QED
      BY <1>t, <3>1 DEF Opened
  <2>5. QED
    BY <2>3, <2>4
<1>2. CASE Active(u.service) # {}
  <2>1. incidents' = [k \in DOMAIN incidents |->
                        IF k \in Active(u.service) THEN Group(incidents[k], u)
                        ELSE incidents[k]]
    BY <1>2 DEF ApplyUpsert
  <2>2. i \in DOMAIN incidents
    BY <2>1
  <2>3. CASE i \in Active(u.service)
    <3>1. incidents'[i] = Group(incidents[i], u) /\ incidents[i].status # "resolved"
      BY <2>1, <2>2, <2>3 DEF Active
    <3>2. Group(incidents[i], u).lastSeen >= u.at
      <4>1. incidents[i].lastSeen \in Nat
        BY <1>s, <1>g, <2>2
      <4>2. Group(incidents[i], u).lastSeen = Later(incidents[i].lastSeen, u.at)
        BY <1>s, <2>2 DEF Group, Incidents
      <4>3. QED
        BY <1>t, <4>1, <4>2 DEF Later
    <3>3. QED
      BY <1>s, <2>2, <3>1, <3>2, GroupMovesForward DEF RowKept
  <2>4. CASE i \notin Active(u.service)
    <3>1. incidents'[i] = incidents[i]
      BY <2>1, <2>2, <2>4
    <3>2. incidents[i].service # u.service
      BY <2>2, <2>4, <3>1 DEF Active
    <3>3. QED
      BY <1>s, <1>g, <2>2, <3>1, <3>2 DEF RowKept
  <2>5. QED
    BY <2>3, <2>4
<1>3. QED
  BY <1>1, <1>2

LEMMA ResolveStaleRows ==
    ASSUME TypeOK, NEW now, ResolveStale(now),
           NEW i \in DOMAIN incidents', incidents'[i].status # "resolved"
    PROVE  RowKept(i)
<1>1. /\ i \in DOMAIN incidents
      /\ \/ incidents'[i] = incidents[i]
         \/ incidents'[i] = [incidents[i] EXCEPT !.status = "resolved"]
  BY DEF ResolveStale
<1>2. incidents[i] \in Incidents
  BY <1>1 DEF TypeOK
<1>3. \A inc \in Incidents : /\ [inc EXCEPT !.status = "resolved"].status = "resolved"
                              /\ inc.lastSeen >= inc.lastSeen
  BY DEF Incidents
<1>4. QED
  BY <1>1, <1>2, <1>3 DEF RowKept

LEMMA TransitionRows ==
    ASSUME TypeOK, NEW k \in DOMAIN incidents, NEW st, incidents[k].status # "resolved",
           incidents' = [incidents EXCEPT ![k].status = st],
           NEW i \in DOMAIN incidents', incidents'[i].status # "resolved"
    PROVE  RowKept(i)
<1>1. /\ i \in DOMAIN incidents /\ incidents[i] \in Incidents
      /\ incidents'[i] = IF i = k THEN [incidents[i] EXCEPT !.status = st] ELSE incidents[i]
  BY DEF TypeOK
<1>2. \A inc \in Incidents : /\ [inc EXCEPT !.status = st].service = inc.service
                              /\ [inc EXCEPT !.status = st].lastSeen = inc.lastSeen
                              /\ inc.lastSeen >= inc.lastSeen
  BY DEF Incidents
<1>3. QED
  BY <1>1, <1>2 DEF RowKept

LEMMA StutterRows ==
    ASSUME TypeOK, UNCHANGED incidents
    PROVE  TableStep
<1>1. \A inc \in Incidents : inc.lastSeen >= inc.lastSeen
  BY DEF Incidents
<1>2. \A i \in DOMAIN incidents : incidents[i] \in Incidents
  BY DEF TypeOK
<1>3. QED
  BY <1>1, <1>2 DEF TableStep, RowKept

LEMMA MaybeAppliedRows ==
    ASSUME TypeOK, NEW r \in Replicas, MaybeApplied(r)
    PROVE  TableStep
<1>1. CASE UNCHANGED incidents
  BY <1>1, StutterRows
<1>2. ASSUME NEW u \in built[r], ApplyUpsert(u) PROVE TableStep
  <2>1. u \in Upserts /\ Opened(u).lastSeen = u.at
    BY DEF TypeOK, Opened
  <2>2. QED
    BY <1>2, <2>1, UpsertRows DEF TableStep, RowOpened
<1>3. ASSUME NEW now, ResolveStale(now) PROVE TableStep
  BY <1>3, ResolveStaleRows DEF TableStep
<1>4. QED
  BY <1>1, <1>2, <1>3 DEF MaybeApplied

LEMMA NextRows ==
    ASSUME TypeOK, [Next]_vars
    PROVE  TableStep
<1>1. CASE UNCHANGED incidents
  BY <1>1, StutterRows
<1>2. ASSUME NEW k \in DOMAIN incidents, Acknowledge(k) \/ Resolve(k) PROVE TableStep
  <2>1. /\ incidents[k].status # "resolved"
        /\ \E st : incidents' = [incidents EXCEPT ![k].status = st]
    BY <1>2 DEF Acknowledge, Resolve
  <2>2. QED
    BY <2>1, TransitionRows DEF TableStep
<1>3. ASSUME NEW r \in Replicas, ReplicaStep(r) PROVE TableStep
  <2>1. CASE StartCycle(r) \/ ReadWindow(r) \/ \E d \in todo[r] : BuildIncident(r, d)
    BY <2>1, <1>1 DEF StartCycle, ReadWindow, BuildIncident
  <2>2. CASE UpsertOpen(r) \/ CycleFails(r) \/ Crash(r)
    BY <2>2, MaybeAppliedRows DEF UpsertOpen, CycleFails, Crash, MaybeApplied
  <2>3. CASE AutoResolve(r)
    BY <2>3, MaybeAppliedRows DEF AutoResolve, MaybeApplied
  <2>4. QED
    BY <1>3, <2>1, <2>2, <2>3 DEF ReplicaStep
<1>4. CASE Tick \/ \E e \in Events : StoreEvent(e)
  BY <1>4, <1>1 DEF Tick, StoreEvent
<1>5. CASE UNCHANGED vars
  BY <1>5, <1>1 DEF vars
<1>6. QED
  BY <1>2, <1>3, <1>4, <1>5 DEF Next

\* A replica's cycle is left alone by the steps of the others.
LEMMA OthersLeaveTheCycle ==
    ASSUME TypeOK, NEW r \in Replicas, [Next]_vars, ~ReplicaStep(r)
    PROVE  /\ pc'[r] = pc[r] /\ start'[r] = start[r] /\ todo'[r] = todo[r]
           /\ built'[r] = built[r] /\ fired'[r] = fired[r]
<1>1. ASSUME NEW q \in Replicas, q # r, ReplicaStep(q)
      PROVE  /\ pc'[r] = pc[r] /\ start'[r] = start[r] /\ todo'[r] = todo[r]
             /\ built'[r] = built[r] /\ fired'[r] = fired[r]
  <2>1. CASE StartCycle(q) \/ ReadWindow(q) \/ \E d \in todo[q] : BuildIncident(q, d)
    BY <1>1, <2>1 DEF TypeOK, StartCycle, ReadWindow, BuildIncident
  <2>2. CASE UpsertOpen(q)
    BY <1>1, <2>2 DEF TypeOK, UpsertOpen
  <2>3. CASE AutoResolve(q) \/ CycleFails(q) \/ Crash(q)
    BY <1>1, <2>3 DEF TypeOK, AutoResolve, CycleFails, Crash, EndCycle
  <2>4. QED
    BY <1>1, <2>1, <2>2, <2>3 DEF ReplicaStep
<1>2. QED
  BY <1>1 DEF Next, Tick, StoreEvent, Acknowledge, Resolve, vars, cycleVars

\* Time passes only while every cycle under way is younger than MaxCycle.
LEMMA CyclesStayYoung ==
    ASSUME IInv, CyclesAreYoung, [Next]_vars
    PROVE  CyclesAreYoung'
<1> USE DEF IInv
<1>1. SUFFICES ASSUME NEW r \in Replicas, pc'[r] # "idle"
               PROVE  /\ start'[r] \in Nat /\ start'[r] <= clock'
                      /\ clock' <= start'[r] + MaxCycle
                      /\ \A u \in built'[r] : start'[r] <= u.at /\ u.at <= clock'
                      /\ \A u, v \in built'[r] : u = v
  BY DEF CyclesAreYoung
<1>2. clock \in Nat /\ MaxCycle \in Nat /\ \A u \in built[r] : u.at \in Nat
  BY RuleAssumption DEF TypeOK, Upserts
<1>3. CASE StartCycle(r)
  <2>1. start'[r] = clock /\ clock' = clock /\ built'[r] = {}
    BY <1>3 DEF TypeOK, StartCycle
  <2>2. QED
    BY <1>2, <2>1
<1>4. CASE ReplicaStep(r) /\ ~StartCycle(r)
  <2>1. /\ pc[r] # "idle" /\ start'[r] = start[r] /\ clock' = clock
        /\ \/ built'[r] \subseteq built[r]
           \/ \E u : built'[r] = {u} /\ u.at = clock
    <3>1. CASE ReadWindow(r)
      BY <3>1 DEF TypeOK, ReadWindow
    <3>2. ASSUME NEW d \in todo[r], BuildIncident(r, d)
          PROVE  /\ pc[r] # "idle" /\ start'[r] = start[r] /\ clock' = clock
                 /\ \E u : built'[r] = {u} /\ u.at = clock
      <4> DEFINE new == [service |-> d.service, errors |-> d.errors, new |-> d.new,
                         at |-> clock]
      <4>1. built'[r] = {new} /\ new.at = clock
        BY <3>2 DEF TypeOK, BuildIncident
      <4> HIDE DEF new
      <4>2. pc[r] # "idle" /\ start'[r] = start[r] /\ clock' = clock
        BY <3>2 DEF BuildIncident
      <4>3. QED
        BY <4>1, <4>2
    <3>3. CASE UpsertOpen(r)
      BY <3>3 DEF TypeOK, UpsertOpen
    <3>4. CASE AutoResolve(r) \/ CycleFails(r) \/ Crash(r)
      BY <1>1, <3>4 DEF TypeOK, AutoResolve, CycleFails, Crash, EndCycle
    <3>5. QED
      BY <1>4, <3>1, <3>2, <3>3, <3>4 DEF ReplicaStep
  <2>2. QED
    BY <1>2, <2>1 DEF CyclesAreYoung
<1>5. CASE ~ReplicaStep(r)
  <2>1. /\ pc'[r] = pc[r] /\ start'[r] = start[r] /\ built'[r] = built[r]
    BY <1>5, OthersLeaveTheCycle
  <2>2. /\ start[r] \in Nat /\ start[r] <= clock /\ clock <= start[r] + MaxCycle
        /\ \A u \in built[r] : start[r] <= u.at /\ u.at <= clock
        /\ \A u, v \in built[r] : u = v
    BY <1>1, <2>1 DEF CyclesAreYoung
  <2>3. CASE Tick
    <3>1. clock' = clock + 1 /\ clock - start[r] < MaxCycle
      BY <1>1, <2>1, <2>3 DEF Tick
    <3>2. QED
      BY <1>2, <2>1, <2>2, <3>1
  <2>4. CASE ~Tick
    <3>1. clock' = clock
      <4>1. ASSUME NEW q \in Replicas, ReplicaStep(q) PROVE clock' = clock
        BY <4>1 DEF ReplicaStep, StartCycle, ReadWindow, BuildIncident, UpsertOpen,
                    AutoResolve, CycleFails, Crash
      <4>2. QED
        BY <2>4, <4>1 DEF Next, StoreEvent, Acknowledge, Resolve, vars
    <3>2. QED
      BY <2>1, <2>2, <3>1
  <2>5. QED
    BY <2>3, <2>4
<1>6. QED
  BY <1>3, <1>4, <1>5

\* An active incident that was fresh stays so, and a new one is fresh: it is dated
\* within a cycle that is still under way.
LEMMA FreshStaysFresh ==
    ASSUME FreshInv, [Next]_vars, NEW r \in Replicas, pc[r] # "idle",
           NEW s, Fresh(s, start[r])
    PROVE  \A i \in DOMAIN incidents' :
               incidents'[i].service = s /\ incidents'[i].status # "resolved" =>
                   start[r] <= incidents'[i].lastSeen + MaxCycle
<1> USE DEF FreshInv, IInv
<1>a. start[r] \in Nat /\ start[r] <= clock /\ clock \in Nat /\ MaxCycle \in Nat
  BY RuleAssumption DEF CyclesAreYoung, TypeOK
<1>b. \A inc \in Incidents : inc.lastSeen \in Nat
  BY DEF Incidents
<1>1. TableStep /\ incidents' \in Seq(Incidents) /\ TypeOK
  BY NextRows, NextKeepsTable DEF TableKept
<1>2. ASSUME NEW i \in DOMAIN incidents', incidents'[i].service = s,
             incidents'[i].status # "resolved"
      PROVE  start[r] <= incidents'[i].lastSeen + MaxCycle
  <2>1. incidents'[i].lastSeen \in Nat
    BY <1>1, <1>2, <1>b
  <2>2. CASE RowKept(i)
    <3>1. incidents[i].lastSeen \in Nat
      BY <1>1, <1>b, <2>2 DEF RowKept, TypeOK
    <3>2. start[r] <= incidents[i].lastSeen + MaxCycle
      BY <1>2, <2>2 DEF RowKept, Fresh
    <3>3. QED
      BY <1>a, <2>1, <2>2, <3>1, <3>2 DEF RowKept
  <2>3. CASE RowOpened(i)
    <3>1. PICK q \in Replicas : \E u \in built[q] : incidents'[i].lastSeen = u.at
      BY <2>3 DEF RowOpened
    <3>2. pc[q] # "idle"
      BY <3>1 DEF TypeOK
    <3>3. start[q] \in Nat /\ clock <= start[q] + MaxCycle /\ start[q] <= incidents'[i].lastSeen
      BY <3>1, <3>2 DEF CyclesAreYoung
    <3>4. QED
      BY <1>a, <2>1, <3>3
  <2>4. QED
    BY <1>1, <1>2, <2>2, <2>3 DEF TableStep
<1>3. QED
  BY <1>2

\* The upsert of a detection leaves the active incident of its service fresh.
LEMMA UpsertIsFresh ==
    ASSUME FreshInv, [Next]_vars, NEW r \in Replicas, UpsertOpen(r),
           NEW u \in built[r]
    PROVE  \A i \in DOMAIN incidents' :
               incidents'[i].service = u.service /\ incidents'[i].status # "resolved" =>
                   start[r] <= incidents'[i].lastSeen + MaxCycle
<1> USE DEF FreshInv, IInv
<1>1. u \in Upserts /\ pc[r] # "idle"
  BY DEF TypeOK
<1>2. ApplyUpsert(u)
  BY <1>1 DEF UpsertOpen, CyclesAreYoung
<1>3. start[r] \in Nat /\ start[r] <= u.at /\ u.at \in Nat /\ MaxCycle \in Nat
  BY <1>1, RuleAssumption DEF CyclesAreYoung, Upserts
<1>4. ASSUME NEW i \in DOMAIN incidents', incidents'[i].service = u.service,
             incidents'[i].status # "resolved"
      PROVE  start[r] <= incidents'[i].lastSeen + MaxCycle
  <2>1. incidents'[i].lastSeen >= u.at
    BY <1>1, <1>2, <1>4, UpsertRows
  <2>2. incidents'[i].lastSeen \in Nat
    <3>1. incidents' \in Seq(Incidents)
      BY NextKeepsTable DEF TableKept
    <3>2. incidents'[i] \in Incidents
      BY <1>4, <3>1
    <3>3. QED
      BY <3>2 DEF Incidents
  <2>3. QED
    BY <1>3, <2>1, <2>2
<1>5. QED
  BY <1>4

LEMMA FiredStaysFresh ==
    ASSUME FreshInv, [Next]_vars, NEW r \in Replicas
    PROVE  FiredIsFresh(r)'
<1> USE DEF FreshInv, IInv
<1>1. SUFFICES ASSUME NEW s \in fired'[r]
               PROVE  \/ \E d \in todo'[r] : d.service = s
                      \/ \E u \in built'[r] : u.service = s
                      \/ Fresh(s, start[r])'
  BY DEF FiredIsFresh
<1>2. CASE StartCycle(r) \/ AutoResolve(r) \/ CycleFails(r) \/ Crash(r)
  <2>1. fired'[r] = {}
    BY <1>2 DEF TypeOK, StartCycle, AutoResolve, CycleFails, Crash, EndCycle
  <2>2. QED
    BY <1>1, <2>1
<1>3. CASE ReadWindow(r)
  <2>1. todo'[r] = Detected(r) /\ fired'[r] = {x.service : x \in Detected(r)}
    BY <1>3 DEF TypeOK, ReadWindow
  <2>2. QED
    BY <1>1, <2>1
<1>4. CASE fired'[r] = fired[r] /\ start'[r] = start[r]
  <2>1. pc[r] # "idle"
    BY <1>1, <1>4 DEF TypeOK
  <2>2. Fresh(s, start[r]) => Fresh(s, start[r])'
    BY <1>4, <2>1, FreshStaysFresh DEF Fresh
  <2>3. \/ \E d \in todo[r] : d.service = s
        \/ \E u \in built[r] : u.service = s
        \/ Fresh(s, start[r])
    BY <1>1, <1>4 DEF FiredIsFresh
  <2>4. ASSUME NEW d \in todo[r], BuildIncident(r, d)
        PROVE  \/ \E e \in todo'[r] : e.service = s
               \/ \E u \in built'[r] : u.service = s
               \/ Fresh(s, start[r])'
    <3> DEFINE new == [service |-> d.service, errors |-> d.errors, new |-> d.new,
                       at |-> clock]
    <3>1. todo'[r] = todo[r] \ {d} /\ built[r] = {} /\ built'[r] = {new}
          /\ new.service = d.service
      BY <2>4 DEF TypeOK, BuildIncident
    <3> HIDE DEF new
    <3>2. QED
      BY <2>2, <2>3, <3>1
  <2>5. CASE UpsertOpen(r)
    <3>1. todo'[r] = todo[r]
      BY <2>5 DEF UpsertOpen
    <3>2. ASSUME NEW u \in built[r], u.service = s PROVE Fresh(s, start[r])'
      BY <1>4, <2>5, <3>2, UpsertIsFresh DEF Fresh
    <3>3. QED
      BY <2>2, <2>3, <3>1, <3>2
  <2>6. CASE ~ReplicaStep(r)
    BY <2>2, <2>3, <2>6, OthersLeaveTheCycle
  <2>7. QED
    BY <1>1, <1>2, <1>3, <2>4, <2>5, <2>6 DEF ReplicaStep
<1>5. QED
  <2>1. (\E d \in todo[r] : BuildIncident(r, d)) \/ UpsertOpen(r) =>
            fired'[r] = fired[r] /\ start'[r] = start[r]
    BY DEF BuildIncident, UpsertOpen
  <2>2. QED
    BY <1>2, <1>3, <1>4, <2>1, OthersLeaveTheCycle DEF ReplicaStep

-----------------------------------------------------------------------------
(* The theorems.                                                           *)

LEMMA InitIInv == Init => IInv
<1>1. Init => IsFiniteSet(stored)
  BY FS_EmptySet DEF Init
<1>2. Init => Unique
  BY DEF Init, Unique
<1>3. Init => TypeOK
  BY DEF Init, TypeOK
<1>4. QED
  BY <1>1, <1>2, <1>3 DEF IInv

LEMMA NextIInv == IInv /\ [Next]_vars => IInv'
<1>1. SUFFICES ASSUME IInv, [Next]_vars PROVE IInv'
  OBVIOUS
<1>2. TableKept
  BY <1>1, NextKeepsTable
<1>3. TypeOK'
  BY <1>1, <1>2, NextIsTyped DEF TableKept
<1>4. IsFiniteSet(stored')
  BY <1>1, StoredStaysFinite
<1>5. QED
  BY <1>2, <1>3, <1>4 DEF IInv, TableKept

LEMMA Inductive == Spec => []IInv
  BY InitIInv, NextIInv, PTL DEF Spec

\* The model is type correct: the state of the cycles of Evaluator and Runner.
THEOREM TypeCorrect == Spec => []TypeOK
<1>1. IInv => TypeOK
  BY DEF IInv
<1>2. QED
  BY <1>1, Inductive, PTL

\* A service never has two active incidents, however many replicas evaluate it
\* (upsertIncidentSQL on incidents_active_fingerprint_idx).
THEOREM OneActiveAlways == Spec => []OneActive
<1>1. IInv => OneActive
  <2>1. SUFFICES ASSUME Unique, NEW s \in Services PROVE Cardinality(Active(s)) <= 1
    BY DEF IInv, OneActive, Active
  <2>2. CASE Active(s) = {}
    BY <2>2, FS_EmptySet
  <2>3. ASSUME NEW i \in Active(s) PROVE Cardinality(Active(s)) <= 1
    <3>1. Active(s) = {i}
      BY <2>1, <2>3 DEF Active, Unique
    <3>2. QED
      BY <3>1, FS_Singleton
  <2>4. QED
    BY <2>2, <2>3
<1>2. QED
  BY <1>1, Inductive, PTL

\* No step takes an incident back: a resolved one never changes, and last_seen_at
\* and event_count never decrease, in whatever order replicas upsert.
THEOREM EpisodesMoveForwardAlways == Spec => EpisodesMoveForward
<1>1. IInv /\ [Next]_vars => [MovesForward]_vars
  BY NextKeepsTable DEF TableKept
<1>2. QED
  BY <1>1, Inductive, PTL DEF Spec, EpisodesMoveForward

\* Incidents that are open for good reason are fresh, cycles are young.
LEMMA FreshInductive == Spec => []FreshInv
<1>1. Init => FreshInv
  <2>1. Init => CyclesAreYoung /\ \A r \in Replicas : FiredIsFresh(r)
    BY DEF Init, CyclesAreYoung, FiredIsFresh
  <2>2. QED
    BY <2>1, InitIInv DEF FreshInv
<1>2. FreshInv /\ [Next]_vars => FreshInv'
  <2>1. SUFFICES ASSUME FreshInv, [Next]_vars PROVE FreshInv'
    OBVIOUS
  <2>2. IInv' /\ CyclesAreYoung'
    BY <2>1, NextIInv, CyclesStayYoung DEF FreshInv
  <2>3. \A r \in Replicas : FiredIsFresh(r)'
    BY <2>1, FiredStaysFresh
  <2>4. QED
    BY <2>2, <2>3 DEF FreshInv
<1>3. QED
  BY <1>1, <1>2, PTL DEF Spec

\* The last statement of a cycle, or of one that is cut short there, closes no
\* incident whose service the cycle has seen firing: it was upserted in this very
\* cycle, or replaced by one an overlapping cycle opened, and two cycles take no
\* longer than the quiet period (EvaluateOnce, autoResolveStaleSQL).
THEOREM FiringStaysOpenAlways == Spec => FiringStaysOpen
<1> DEFINE CycleEnds(r) == Upserted(r) /\ pc'[r] = "idle" /\ lastCycle'[r] = start[r]
<1>1. ASSUME FreshInv, [Next]_vars, NEW r \in Replicas, CycleEnds(r),
             NEW i \in DOMAIN incidents, incidents[i].service \in fired[r]
      PROVE  incidents'[i] = incidents[i]
  <2> USE DEF FreshInv, IInv
  <2>1. pc[r] = "upserting" /\ todo[r] = {} /\ built[r] = {} /\ pc'[r] = "idle"
    BY <1>1 DEF Upserted
  <2>2. AutoResolve(r) \/ CycleFails(r) \/ Crash(r)
    <3>1. ReplicaStep(r)
      BY <1>1, <2>1, OthersLeaveTheCycle
    <3>2. ~(StartCycle(r) \/ ReadWindow(r) \/ (\E d \in todo[r] : BuildIncident(r, d))
            \/ UpsertOpen(r))
      BY <2>1 DEF StartCycle, ReadWindow, BuildIncident, UpsertOpen
    <3>3. QED
      BY <3>1, <3>2 DEF ReplicaStep
  <2>3. UNCHANGED incidents \/ \E now \in start[r]..clock : ResolveStale(now)
    BY <2>1, <2>2 DEF AutoResolve, CycleFails, Crash, MaybeApplied
  <2>4. ASSUME NEW now \in start[r]..clock, ResolveStale(now),
               incidents[i].status # "resolved"
        PROVE  incidents'[i] = incidents[i]
    <3>1. Fresh(incidents[i].service, start[r])
      BY <1>1, <2>1 DEF FiredIsFresh
    <3>2. start[r] <= incidents[i].lastSeen + MaxCycle
      BY <2>4, <3>1 DEF Fresh
    <3>3. /\ start[r] \in Nat /\ clock \in Nat /\ clock <= start[r] + MaxCycle
          /\ MaxCycle \in Nat /\ ResolveAfter \in Nat /\ 2 * MaxCycle <= ResolveAfter
      BY <1>1, <2>1, RuleAssumption DEF CyclesAreYoung, TypeOK
    <3>4. incidents[i].lastSeen \in Nat
      <4>1. incidents[i] \in Incidents
        BY <1>1 DEF TypeOK
      <4>2. QED
        BY <4>1 DEF Incidents
    <3>5. now \in Int /\ now <= clock
      BY <3>3
    <3>6. ~(incidents[i].lastSeen < now - ResolveAfter)
      BY <3>2, <3>3, <3>4, <3>5
    <3>7. QED
      BY <2>4, <3>6 DEF ResolveStale
  <2>5. ASSUME NEW now, ResolveStale(now), incidents[i].status = "resolved"
        PROVE  incidents'[i] = incidents[i]
    BY <2>5 DEF ResolveStale
  <2>6. QED
    BY <2>3, <2>4, <2>5
<1>2. FreshInv /\ [Next]_vars =>
          [\A r \in Replicas : CycleEnds(r) =>
              \A i \in DOMAIN incidents :
                  incidents[i].service \in fired[r] => incidents'[i] = incidents[i]]_vars
  BY <1>1
<1>3. QED
  BY <1>2, FreshInductive, PTL DEF Spec, FiringStaysOpen
=============================================================================
