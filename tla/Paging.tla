------------------------------- MODULE Paging -------------------------------
(***************************************************************************)
(* The two lists of the incidents API, GET /v1/events and GET              *)
(* /v1/incidents, read page by page while their table changes. A list is   *)
(* ordered by a timestamp and an id, both descending, and a page hands out *)
(* a cursor, the order key of its last row, from which the next request    *)
(* goes on. Events arrive with any timestamp and are dropped by the        *)
(* janitor; incidents are opened, change status, and move in the order     *)
(* whenever they are grouped, because their order key is last_seen_at.     *)
(* A request that fails answers 500 and leaves the client where it was: a  *)
(* stuttering step.                                                        *)
(***************************************************************************)
EXTENDS Integers, FiniteSets

CONSTANTS
    Row,           \* rows the table can come to hold, by their id
    Time,          \* instants a row can carry
    Requests,      \* what clients ask for: limit and offset (0 when absent, -1
                   \* when not a non-negative integer), the filter, the token they
                   \* begin with, and whether the offset is repeated beside a cursor
    DefaultLimit, MaxLimit

Statuses == {"open", "acknowledged", "resolved"}
Attributes == {"open", "resolved"}   \* of an event: two values stand for all
Zero == [time |-> 0, id |-> 0]       \* the zero Cursor: the start of the list
Malformed == [time |-> 0, id |-> -1] \* a token that does not decode
Tokens == [time : Time, id : Row] \union {Zero, Malformed}

ASSUME RowAssumption == Row \subseteq Nat \ {0} /\ IsFiniteSet(Row)
ASSUME TimeAssumption == Time \subseteq Nat \ {0}
ASSUME RequestAssumption ==
    Requests \subseteq [limit : Int, offset : Int, want : Statuses \union {"any"},
                        start : Tokens, repeatsOffset : BOOLEAN]
\* An offset is given only to be sent.
ASSUME OffsetAssumption ==
    \A q \in Requests : q.start # Zero /\ ~q.repeatsOffset => q.offset = 0
ASSUME LimitAssumption == DefaultLimit \in Nat \ {0} /\ MaxLimit \in Nat \ {0}

VARIABLES
    list,      \* which of the two lists is read
    seen,      \* row -> event_timestamp or last_seen_at; 0 before it exists
    status,    \* row -> "new", "dropped", or what a filter looks at: the status
               \* of an incident, an attribute of an event
    phase,     \* the client: "idle", "paging", "done" or "refused"
    request,   \* what it asks for
    token,     \* the cursor of its next request
    shown,     \* row -> how often it was shown: "never", "once" or "again"
    steady     \* the rows behind the first token when the client began that have
               \* since kept their place, their status and their existence

tableVars == <<list, seen, status>>
clientVars == <<phase, request, token, shown>>
vars == <<list, seen, status, phase, request, token, shown, steady>>

\* ORDER BY time DESC, id DESC: a is listed before b.
Newer(a, b) == a.time > b.time \/ (a.time = b.time /\ a.id > b.id)

Key(r) == [time |-> seen[r], id |-> r]
Present(r) == status[r] \in Statuses

TypeOK ==
    /\ list \in {"events", "incidents"}
    /\ seen \in [Row -> Time \union {0}]
    /\ status \in [Row -> Statuses \union {"new", "dropped"}]
    /\ \A r \in Row : Present(r) => seen[r] \in Time
    /\ phase \in {"idle", "paging", "done", "refused"}
    /\ request \in Requests
    /\ token \in Tokens
    /\ shown \in [Row -> {"never", "once", "again"}]
    /\ steady \subseteq {r \in Row : Present(r)}

Init ==
    /\ list \in {"events", "incidents"}
    /\ seen = [r \in Row |-> 0]
    /\ status = [r \in Row |-> "new"]
    /\ phase = "idle"
    /\ request \in Requests
    /\ token = request.start
    /\ shown = [r \in Row |-> "never"]
    /\ steady = {}

-----------------------------------------------------------------------------
(* The table.                                                              *)

\* InsertBatch stores a row the conflict target does not know: an event with the
\* producer's timestamp, whatever is stored already.
InsertEvent(r, t, s) ==
    /\ list = "events" /\ status[r] = "new"
    /\ seen' = [seen EXCEPT ![r] = t]
    /\ status' = [status EXCEPT ![r] = s]
    /\ UNCHANGED <<list, clientVars, steady>>

\* dropExpired: a partition goes with its rows.
DropEvents(t) ==
    /\ list = "events"
    /\ LET old == {r \in Row : Present(r) /\ seen[r] <= t}
       IN  /\ old # {}
           /\ status' = [r \in Row |-> IF r \in old THEN "dropped" ELSE status[r]]
           /\ steady' = steady \ old
    /\ UNCHANGED <<list, seen, clientVars>>

\* UpsertOpen without an active incident of the fingerprint.
OpenIncident(r, t) ==
    /\ list = "incidents" /\ status[r] = "new"
    /\ seen' = [seen EXCEPT ![r] = t]
    /\ status' = [status EXCEPT ![r] = "open"]
    /\ UNCHANGED <<list, clientVars, steady>>

\* Grouping that would take over what the repeat detection saw last.
LastSeenPlain(r, t) == t

\* upsertIncidentSQL: GREATEST(incidents.last_seen_at, EXCLUDED.last_seen_at).
LastSeen(r, t) == IF t > seen[r] THEN t ELSE seen[r]

\* UpsertOpen grouping a repeat detection into the active incident.
GroupIncident(r, t) ==
    /\ list = "incidents" /\ status[r] \in {"open", "acknowledged"}
    /\ seen' = [seen EXCEPT ![r] = LastSeen(r, t)]
    /\ steady' = IF seen'[r] = seen[r] THEN steady ELSE steady \ {r}
    /\ UNCHANGED <<list, status, clientVars>>

\* acknowledgeIncidentSQL, resolveIncidentSQL and autoResolveStaleSQL leave
\* last_seen_at alone.
MoveIncident(r, s) ==
    /\ list = "incidents"
    /\ \/ status[r] = "open" /\ s = "acknowledged"
       \/ status[r] \in {"open", "acknowledged"} /\ s = "resolved"
    /\ status' = [status EXCEPT ![r] = s]
    /\ steady' = steady \ {r}
    /\ UNCHANGED <<list, seen, clientVars>>

-----------------------------------------------------------------------------
(* The request.                                                            *)

\* The offset a request carries beside the token.
Offset == IF token = Zero \/ request.repeatsOffset THEN request.offset ELSE 0

\* parsePagination without its last check.
AcceptableMixed == request.limit >= 0 /\ Offset >= 0 /\ token # Malformed

\* parsePagination and parseNonNegative; DecodeCursor gives back what Encode was
\* given: RFC3339Nano keeps every digit of a timestamptz.
Acceptable ==
    /\ request.limit >= 0 /\ Offset >= 0
    /\ token # Malformed
    /\ ~(token # Zero /\ Offset > 0)

NormalizeLimit(limit) ==
    IF limit <= 0 THEN DefaultLimit ELSE IF limit > MaxLimit THEN MaxLimit ELSE limit

\* filterBuilder.after with <= in the place of <.
AfterOrAt(c) == {r \in Row : c # Zero => Key(r) = c \/ Newer(c, Key(r))}
\* filterBuilder.after: (time, id) < cursor, and no condition for the zero cursor.
After(c) == {r \in Row : c # Zero => Newer(c, Key(r))}

\* The WHERE clause of buildEventListQuery and buildIncidentListQuery; one filter
\* stands for all, and an empty one is not filtered on.
Matching(want) == {r \in Row : Present(r) /\ want \in {"any", status[r]}}

\* P is what ORDER BY ... LIMIT n returns of the rows S.
IsFirst(P, S, n) ==
    /\ P \subseteq S
    /\ Cardinality(P) = IF Cardinality(S) < n THEN Cardinality(S) ELSE n
    /\ \A p \in P, s \in S \ P : Newer(Key(p), Key(s))

\* Without the extra row a full page is taken for one of several.
NextPageExact(rows, limit, page) ==
    /\ IsFirst(page, rows, limit)
    /\ IF Cardinality(rows) >= limit
       THEN \E last \in page :
               /\ \A p \in page \ {last} : Newer(Key(p), Key(last))
               /\ token' = Key(last) /\ phase' = "paging"
       ELSE UNCHANGED token /\ phase' = "done"

\* A row more than the limit shows that there is a next page, which begins after
\* the last row of this one; otherwise the client gets no cursor, and is done.
NextPage(rows, limit, page) ==
    /\ IsFirst(page, rows, limit)
    /\ IF Cardinality(rows) > limit
       THEN \E last \in page :
               /\ \A p \in page \ {last} : Newer(Key(p), Key(last))
               /\ token' = Key(last) /\ phase' = "paging"
       ELSE UNCHANGED token /\ phase' = "done"

\* The client begins to read the list, from its start or from a kept token.
StartWalk ==
    /\ phase = "idle"
    /\ phase' = "paging"
    /\ steady' = {r \in Matching(request.want) : token # Zero => Newer(token, Key(r))}
    /\ UNCHANGED <<tableVars, request, token, shown>>

\* ListEvents and ListIncidents, answered 200: one query, one page.
ReadPage ==
    /\ phase = "paging" /\ Acceptable
    /\ LET limit == NormalizeLimit(request.limit)
           selected == Matching(request.want) \intersect After(token)
       IN  \E skip \in SUBSET selected : \E rows \in SUBSET (selected \ skip) : \E page \in SUBSET rows :
              /\ IsFirst(skip, selected, Offset)
              /\ IsFirst(rows, selected \ skip, limit + 1)
              /\ NextPage(rows, limit, page)
              /\ shown' = [r \in Row |-> IF r \notin page THEN shown[r]
                                         ELSE IF shown[r] = "never" THEN "once" ELSE "again"]
    /\ UNCHANGED <<tableVars, request, steady>>

\* 400, before the database is asked.
Refuse ==
    /\ phase = "paging" /\ ~Acceptable
    /\ phase' = "refused"
    /\ UNCHANGED <<tableVars, request, token, shown, steady>>

-----------------------------------------------------------------------------

TableStep ==
    \/ \E r \in Row, t \in Time, s \in Attributes : InsertEvent(r, t, s)
    \/ \E t \in Time : DropEvents(t)
    \/ \E r \in Row, t \in Time : OpenIncident(r, t) \/ GroupIncident(r, t)
    \/ \E r \in Row, s \in Statuses : MoveIncident(r, s)

Next ==
    \/ TableStep
    \/ StartWalk
    \/ ReadPage
    \/ Refuse

\* The client follows the cursors it is given and the database answers at last.
Spec == Init /\ [][Next]_vars /\ WF_vars(ReadPage) /\ WF_vars(Refuse)

-----------------------------------------------------------------------------
(* Properties.                                                             *)

\* No row is shown twice in a walk, however the table changes between the pages:
\* a cursor pins a position by value, and what moves in the order only moves
\* towards the front (Cursor, upsertIncidentSQL).
NoneShownTwice == \A r \in Row : shown[r] # "again"

\* A walk that came to its end has shown every row that was there all along, but
\* for the rows its one offset asked to leave out: rows that share a timestamp
\* are not lost at a page boundary, and a cursor with an offset on top of it is
\* refused rather than answered with gaps (filterBuilder.after, parsePagination).
SteadyRowsAreShown ==
    phase = "done" => Cardinality({r \in steady : shown[r] = "never"}) <= request.offset

\* A cursor is handed out only while there are rows behind it, so no client is
\* sent after an empty page (NextCursor "is omitted when this page is the last").
CursorMeansMore ==
    [][phase = "paging" /\ phase' = "paging" /\ token' # token =>
         \E r \in Matching(request.want) : Newer(token', Key(r))]_vars

\* Whoever follows the cursors comes to the end of the list, because every page
\* begins below the one before it.
WalkEnds == phase = "paging" ~> phase \in {"done", "refused"}
=============================================================================
