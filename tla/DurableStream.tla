--------------------------- MODULE DurableStream ---------------------------
(***************************************************************************)
(* What the telemetry pipeline promises, without engines, groups, retries  *)
(* or crashes: records are only appended to a topic, an event that was     *)
(* accepted stays deliverable until it is stored, a frontier over the      *)
(* topic only advances, and every event has at most one row, kept forever. *)
(***************************************************************************)
EXTENDS Integers, Sequences

CONSTANTS Events, Partitions, IdOf, TimeOf

VARIABLES
    log,       \* partition -> the records published, oldest first
    frontier,  \* partition -> how many of them have been dealt with
    rows,      \* the events stored, each with the record it was stored from
    acked      \* the events whose producer was told they are accepted

vars == <<log, frontier, rows, acked>>

Stored(e) == \E r \in rows : IdOf[r.event] = IdOf[e] /\ TimeOf[r.event] = TimeOf[e]

Init ==
    /\ log = [p \in Partitions |-> <<>>]
    /\ frontier = [p \in Partitions |-> 0]
    /\ rows = {}
    /\ acked = {}

Publish(p, e) ==
    /\ log' = [log EXCEPT ![p] = Append(@, e)]
    /\ UNCHANGED <<frontier, rows, acked>>

\* Accepting an event requires that the topic or the table already has it.
Accept(S) ==
    /\ \A e \in S :
         \/ Stored(e)
         \/ \E p \in Partitions : \E i \in 1..Len(log[p]) :
                frontier[p] < i /\ log[p][i] = e
    /\ acked' = acked \union S
    /\ UNCHANGED <<log, frontier, rows>>

Store(p, i) ==
    /\ i \in 1..Len(log[p])
    /\ ~Stored(log[p][i])
    /\ rows' = rows \union {[event |-> log[p][i],
                             from |-> [partition |-> p, offset |-> i]]}
    /\ UNCHANGED <<log, frontier, acked>>

\* The frontier passes no record that an accepted event still depends on.
Advance(f) ==
    /\ \A p \in Partitions : f[p] \in frontier[p]..Len(log[p])
    /\ \A e \in acked :
         \/ Stored(e)
         \/ \E p \in Partitions : \E i \in 1..Len(log[p]) : f[p] < i /\ log[p][i] = e
    /\ frontier' = f
    /\ UNCHANGED <<log, rows, acked>>

Next ==
    \/ \E p \in Partitions, e \in Events : Publish(p, e)
    \/ \E S \in SUBSET Events : Accept(S)
    \/ \E p \in Partitions : \E i \in 1..Len(log[p]) : Store(p, i)
    \/ \E f \in [Partitions -> UNION {0..Len(log[p]) : p \in Partitions}] : Advance(f)

Spec == Init /\ [][Next]_vars
=============================================================================
