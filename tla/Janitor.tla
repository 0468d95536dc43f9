------------------------------ MODULE Janitor ------------------------------
(***************************************************************************)
(* The daily partitions of telemetry_events: the engines insert rows, each *)
(* routed by PostgreSQL to the partition of its day or to the default one, *)
(* while the replicas of the janitor create partitions ahead, move rows    *)
(* out of the default partition and drop what is past retention. Every     *)
(* statement, and the transaction that moves rows, is an action.           *)
(***************************************************************************)
EXTENDS Integers, FiniteSets

CONSTANTS
    Janitors,   \* replicas of the janitor
    Rows,       \* telemetry rows, one per (event_timestamp, event_id)
    DayOf,      \* row -> the UTC day of its event_timestamp
    Prepared,   \* days after the first that migration 0006 partitions
    Lookahead,  \* how many days ahead partitions are created
    Retention,  \* how many days events are kept
    MaxDay,     \* bound: the day the clock stops at
    MaxFaults   \* bound: statements that fail

ASSUME TableAssumption == DayOf \in [Rows -> Nat] /\ Prepared \in Nat
ASSUME OptionAssumption == Lookahead \in Nat /\ Retention \in Nat
ASSUME BoundAssumption == MaxDay \in Nat /\ MaxFaults \in Nat

VARIABLES
    today,    \* the current UTC day
    parts,    \* the days whose partition is attached
    filed,    \* the rows in the partition of their day
    strays,   \* the rows in telemetry_events_default
    phase,    \* janitor -> "idle", "working", or "draining" after a conflict
    missing,  \* janitor -> the days its cycle has yet to create
    stale,    \* janitor -> the listed days its cycle has yet to drop
    faults

tableVars == <<parts, filed, strays>>
cycleVars == <<phase, missing, stale>>
vars == <<today, parts, filed, strays, phase, missing, stale, faults>>

TypeOK ==
    /\ today \in Nat
    /\ parts \subseteq Nat
    /\ filed \subseteq Rows /\ strays \subseteq Rows
    /\ phase \in [Janitors -> {"idle", "working", "draining"}]
    /\ missing \in [Janitors -> SUBSET Nat]
    /\ stale \in [Janitors -> SUBSET Nat]
    /\ faults \in Nat

\* What migration 0006 leaves behind, on day 0.
Init ==
    /\ today = 0
    /\ parts = 0..Prepared
    /\ filed = {} /\ strays = {}
    /\ phase = [j \in Janitors |-> "idle"]
    /\ missing = [j \in Janitors |-> {}]
    /\ stale = [j \in Janitors |-> {}]
    /\ faults = 0

Tick ==
    /\ today < MaxDay
    /\ today' = today + 1
    /\ UNCHANGED <<tableVars, cycleVars, faults>>

\* A row arrives, or arrives again: its primary key is looked up in the partition
\* it is routed to. Events are dated tomorrow at the latest, and as far back as
\* the backlog on the topic reaches.
Insert(r) ==
    /\ DayOf[r] <= today + 1
    /\ IF DayOf[r] \in parts
       THEN filed' = filed \union {r} /\ UNCHANGED strays
       ELSE strays' = strays \union {r} /\ UNCHANGED filed
    /\ UNCHANGED <<today, parts, cycleVars, faults>>

-----------------------------------------------------------------------------
(* One maintenance cycle, RunOnce.                                         *)

Of(S, d) == {r \in S : DayOf[r] = d}
Oldest(S) == {d \in S : \A e \in S : d <= e}

\* Expired as if a day were as old as its first row.
ExpiredByFirstRow(d) == d <= today - Retention
\* Expired as if only the newest day past the horizon could be left to drop.
ExpiredLately(d) == d + 2 = today - Retention
\* The day after d, the first one without rows of d, is past the horizon.
Expired(d) == d + 1 < today - Retention

\* ListPartitions and today() fix what the cycle will do. A partition that is
\* created or dropped by another replica meanwhile is created or dropped again.
StartCycle(j) ==
    /\ phase[j] = "idle"
    /\ phase' = [phase EXCEPT ![j] = "working"]
    /\ missing' = [missing EXCEPT ![j] = (today..(today + Lookahead)) \ parts]
    /\ stale' = [stale EXCEPT ![j] = {d \in parts : Expired(d)}]
    /\ UNCHANGED <<today, tableVars, faults>>

\* CREATE TABLE IF NOT EXISTS ... PARTITION OF: refused while the default
\* partition has rows of that day.
Refused(d) == d \notin parts /\ Of(strays, d) # {}
Attach(d) == parts' = parts \union {d} /\ UNCHANGED <<filed, strays>>

\* CreatePartition as if a conflict were an error like any other.
CreateGivesUp(j, d) ==
    /\ phase[j] = "working" /\ d \in Oldest(missing[j])
    /\ IF Refused(d)
       THEN /\ phase' = [phase EXCEPT ![j] = "idle"]
            /\ UNCHANGED <<tableVars, missing>>
       ELSE /\ Attach(d)
            /\ missing' = [missing EXCEPT ![j] = @ \ {d}]
            /\ UNCHANGED phase
    /\ UNCHANGED <<today, stale, faults>>

\* CreatePartition: a conflict is answered by a drain.
Create(j, d) ==
    /\ phase[j] = "working" /\ d \in Oldest(missing[j])
    /\ IF Refused(d)
       THEN /\ phase' = [phase EXCEPT ![j] = "draining"]
            /\ UNCHANGED <<tableVars, missing>>
       ELSE /\ Attach(d)
            /\ missing' = [missing EXCEPT ![j] = @ \ {d}]
            /\ UNCHANGED phase
    /\ UNCHANGED <<today, stale, faults>>

\* MoveRows without the DELETE.
CopyRows(d) ==
    /\ parts' = parts \union {d}
    /\ filed' = filed \union Of(strays, d)
    /\ UNCHANGED strays
\* The drain transaction, under the lock on the default partition: stage the
\* rows of the day, delete them, create the partition, insert them through the
\* parent.
MoveRows(d) ==
    /\ parts' = parts \union {d}
    /\ filed' = filed \union Of(strays, d)
    /\ strays' = strays \ Of(strays, d)

Drain(j, d) ==
    /\ phase[j] = "draining" /\ d \in Oldest(missing[j])
    /\ MoveRows(d)
    /\ phase' = [phase EXCEPT ![j] = "working"]
    /\ missing' = [missing EXCEPT ![j] = @ \ {d}]
    /\ UNCHANGED <<today, stale, faults>>

\* DROP TABLE IF EXISTS takes the rows of the day with it.
DropTable(d) ==
    /\ parts' = parts \ {d}
    /\ filed' = filed \ Of(filed, d)
    /\ UNCHANGED strays

\* Expiry starts when every missing day has been created.
Drop(j, d) ==
    /\ phase[j] = "working" /\ missing[j] = {} /\ d \in Oldest(stale[j])
    /\ DropTable(d)
    /\ stale' = [stale EXCEPT ![j] = @ \ {d}]
    /\ UNCHANGED <<today, phase, missing, faults>>

\* The rows of the default partition are counted and reported; nothing changes.
EndCycle(j) ==
    /\ phase[j] = "working" /\ missing[j] = {} /\ stale[j] = {}
    /\ phase' = [phase EXCEPT ![j] = "idle"]
    /\ UNCHANGED <<today, tableVars, missing, stale, faults>>

GiveUp(j) ==
    /\ phase' = [phase EXCEPT ![j] = "idle"]
    /\ missing' = [missing EXCEPT ![j] = {}]
    /\ stale' = [stale EXCEPT ![j] = {}]

\* The statement under way fails and ends the cycle, or is applied and its
\* answer is lost. A drain is one transaction: it is applied whole or rolled back.
CycleFails(j) ==
    /\ phase[j] # "idle"
    /\ faults < MaxFaults /\ faults' = faults + 1
    /\ \/ UNCHANGED tableVars
       \/ \E d \in Oldest(missing[j]) :
             IF phase[j] = "draining" THEN MoveRows(d) ELSE ~Refused(d) /\ Attach(d)
       \/ missing[j] = {} /\ \E d \in Oldest(stale[j]) : DropTable(d)
    /\ GiveUp(j)
    /\ UNCHANGED today

-----------------------------------------------------------------------------

JanitorStep(j) ==
    \/ StartCycle(j)
    \/ \E d \in missing[j] : Create(j, d) \/ Drain(j, d)
    \/ \E d \in stale[j] : Drop(j, d)
    \/ EndCycle(j)
    \/ CycleFails(j)

Next ==
    \/ Tick
    \/ \E r \in Rows : Insert(r)
    \/ \E j \in Janitors : JanitorStep(j)

Spec == Init /\ [][Next]_vars

\* A replica goes through its cycle and starts the next one on its ticker. How
\* many days pass between two steps is left open.
Fairness ==
    \A j \in Janitors :
        /\ WF_vars(StartCycle(j))
        /\ WF_vars(\E d \in missing[j] : Create(j, d))
        /\ WF_vars(\E d \in missing[j] : Drain(j, d))
        /\ WF_vars(\E d \in stale[j] : Drop(j, d))
        /\ WF_vars(EndCycle(j))

FairSpec == Spec /\ Fairness

-----------------------------------------------------------------------------
(* Properties.                                                             *)

Kept == filed \union strays

\* A row is where a query looks for it, exactly once: in the partition of its
\* day when there is one, in the default partition otherwise, with replicas
\* draining and creating at the same time as rows arrive (createPartition).
RowsAreRouted ==
    /\ \A r \in filed : DayOf[r] \in parts
    /\ \A r \in strays : DayOf[r] \notin parts

\* No row disappears before the whole of its day is past retention, whatever
\* drain is interrupted and however long ago a cycle made its list (RunOnce).
NothingLostEarly ==
    [][\A r \in Kept : r \notin Kept' => DayOf[r] + 1 <= today - Retention]_vars

\* The days the events are coming in for get their partition, although the
\* default partition may hold rows of them by then (CreatePartition).
DaysArePrepared ==
    \A d \in 0..(MaxDay + Lookahead) :
        d \in today..(today + Lookahead) ~> d \in parts \/ d < today

\* A partition past retention is dropped, after an outage of any length.
PartitionsExpire ==
    \A d \in 0..(MaxDay + Lookahead) : (d \in parts /\ Expired(d)) ~> d \notin parts
=============================================================================
