---------------------------- MODULE PagingProofs ----------------------------
(***************************************************************************)
(* Theorems about Paging, for any rows, instants, requests and page sizes. *)
(*                                                                         *)
(* What a walk has shown lies at or above its cursor, and stays there: a   *)
(* row moves in the order towards the front only. What was there all along *)
(* is shown, lies behind the cursor, or was left out by the offset of the  *)
(* first page. Both need that the extra row of a query tells a last page   *)
(* from another one, which is the argument about cardinalities of PageStep.*)
(***************************************************************************)
EXTENDS Paging, FiniteSetTheorems, TLAPS

Ahead(r) == r \in Matching(request.want) /\ (token # Zero => Newer(token, Key(r)))
Selected == {r \in Row : Ahead(r)}
Missed == {r \in steady : shown[r] = "never"}
LeftOut == {r \in Missed : ~Ahead(r)}

NothingYet == phase = "idle" => /\ token = request.start
                                /\ steady = {}
                                /\ \A r \in Row : shown[r] = "never"
ShownExists == \A r \in Row : shown[r] # "never" => status[r] # "new"
ShownIsBehind == phase = "paging" =>
    \A r \in Row : shown[r] # "never" => token # Zero /\ ~Newer(token, Key(r))
SteadyMatches == steady \subseteq Matching(request.want)
OffsetIsSent == phase = "paging" /\ token # Zero => request.start # Zero \/ request.offset >= 0
OffsetLeavesOut == phase = "paging" =>
    \/ LeftOut = {}
    \/ token # Zero /\ Cardinality(LeftOut) <= request.offset

IInv ==
    /\ TypeOK /\ NothingYet /\ ShownExists /\ ShownIsBehind /\ SteadyMatches
    /\ OffsetIsSent /\ OffsetLeavesOut
    /\ NoneShownTwice /\ SteadyRowsAreShown

-----------------------------------------------------------------------------
(* The order of the lists.                                                 *)

Keys == [time : Int, id : Int]

\* The order is strict and transitive.
LEMMA NewerIsOrder ==
    /\ \A a, b, c \in Keys : Newer(a, b) /\ Newer(b, c) => Newer(a, c)
    /\ \A a, b \in Keys : ~(Newer(a, b) /\ Newer(b, a))
    /\ \A a \in Keys : ~Newer(a, a)
BY DEF Keys, Newer

LEMMA InstantsAreInts ==
    ASSUME NEW s \in [Row -> Time \union {0}]
    PROVE  \A r \in Row : r \in Int /\ s[r] \in Int
<1>1. Row \subseteq Int /\ Time \subseteq Int
  BY RowAssumption, TimeAssumption
<1>2. SUFFICES ASSUME NEW r \in Row PROVE s[r] \in Int
  BY <1>1
<1>3. s[r] \in Time \union {0}
  OBVIOUS
<1>4. CASE s[r] \in Time
  BY <1>1, <1>4
<1>5. CASE s[r] = 0
  BY <1>5
<1>6. QED
  BY <1>3, <1>4, <1>5

\* Cursors and order keys are of one kind.
LEMMA KeysAreKeys ==
    ASSUME TypeOK
    PROVE  /\ token \in Keys
           /\ \A r \in Row : Key(r) \in Keys
           /\ \A r \in Row : Present(r) => Key(r) # Zero /\ Key(r) \in Tokens
<1>1. Zero \in Keys /\ Malformed \in Keys
  BY DEF Zero, Malformed, Keys
<1>2. token \in Keys
  <2>1. Row \subseteq Int /\ Time \subseteq Int
    BY RowAssumption, TimeAssumption
  <2>2. Tokens \subseteq Keys
    BY <1>1, <2>1 DEF Tokens, Keys
  <2>3. QED
    BY <2>2 DEF TypeOK
<1>3. ASSUME NEW r \in Row PROVE Key(r) \in Keys
  <2>1. seen[r] \in Int /\ r \in Int
    BY InstantsAreInts DEF TypeOK
  <2>2. QED
    BY <2>1 DEF Key, Keys
<1>4. ASSUME NEW r \in Row, Present(r) PROVE Key(r) # Zero /\ Key(r) \in Tokens
  BY <1>4, RowAssumption, TimeAssumption DEF TypeOK, Key, Tokens, Zero
<1>5. QED
  BY <1>2, <1>3, <1>4

-----------------------------------------------------------------------------
(* Pages.                                                                  *)

\* The first n rows of a set are all of it, or there are n of them.
LEMMA FirstRows ==
    ASSUME NEW S \in SUBSET Row, NEW P, NEW n \in Nat, IsFirst(P, S, n)
    PROVE  /\ P \in SUBSET S /\ IsFiniteSet(P) /\ IsFiniteSet(S)
           /\ Cardinality(P) \in Nat /\ Cardinality(S) \in Nat
           /\ Cardinality(P) <= n
           /\ Cardinality(P) < n => P = S
           /\ Cardinality(S) <= n => P = S
           /\ \A p \in P, s \in S \ P : Newer(Key(p), Key(s))
<1>1. P \in SUBSET S
  BY DEF IsFirst
<1>2. IsFiniteSet(S)
  BY RowAssumption, FS_Subset
<1>3. IsFiniteSet(P) /\ (Cardinality(S) = Cardinality(P) => S = P)
  BY <1>1, <1>2, FS_Subset
<1>4. Cardinality(P) \in Nat /\ Cardinality(S) \in Nat
  BY <1>2, <1>3, FS_CardinalityType
<1>5. Cardinality(P) = IF Cardinality(S) < n THEN Cardinality(S) ELSE n
  BY DEF IsFirst
<1>6. \A p \in P, s \in S \ P : Newer(Key(p), Key(s))
  BY DEF IsFirst
<1>7. QED
  BY <1>1, <1>2, <1>3, <1>4, <1>5, <1>6

\* The page of a query for one row more than it shows: without that row the page
\* is all there is, with it something is left, and what is left comes after it.
LEMMA PageOfRows ==
    ASSUME NEW S \in SUBSET Row, NEW rows, NEW page, NEW n \in Nat, NEW m \in Nat,
           \A i \in Nat : i <= n => i < m,
           IsFirst(rows, S, m), IsFirst(page, rows, n)
    PROVE  /\ page \in SUBSET S
           /\ ~(Cardinality(rows) > n) => S \subseteq page
           /\ Cardinality(rows) > n => S \ page # {}
           /\ \A p \in page, s \in S \ page : Newer(Key(p), Key(s))
<1>1. /\ rows \in SUBSET S
      /\ Cardinality(rows) \in Nat
      /\ Cardinality(rows) < m => rows = S
      /\ \A p \in rows, s \in S \ rows : Newer(Key(p), Key(s))
  BY FirstRows
<1>2. rows \in SUBSET Row
  BY <1>1
<1>3. /\ page \in SUBSET rows
      /\ Cardinality(page) \in Nat
      /\ Cardinality(page) <= n
      /\ Cardinality(rows) <= n => page = rows
      /\ \A p \in page, s \in rows \ page : Newer(Key(p), Key(s))
  BY <1>2, FirstRows
<1>4. \A p \in page, s \in S \ page : Newer(Key(p), Key(s))
  BY <1>1, <1>3
<1>5. CASE Cardinality(rows) > n
  <2>1. page # rows
    <3>1. Cardinality(page) # Cardinality(rows)
      BY <1>1, <1>3, <1>5
    <3>2. QED
      BY <3>1
  <2>2. S \ page # {}
    BY <1>1, <1>3, <2>1
  <2>3. QED
    BY <1>1, <1>3, <1>4, <1>5, <2>2
<1>6. CASE ~(Cardinality(rows) > n)
  <2>1. Cardinality(rows) <= n /\ Cardinality(rows) < m
    BY <1>1, <1>6
  <2>2. page = S
    BY <1>1, <1>3, <2>1
  <2>3. QED
    BY <1>4, <1>6, <2>2
<1>7. QED
  BY <1>5, <1>6

\* An answered request shows part of what lies behind the cursor, leaves out no
\* more than its offset, and goes on exactly when something is left, from a row
\* above all of it.
LEMMA PageStep ==
    ASSUME TypeOK, ReadPage
    PROVE  \E skip, page \in SUBSET Selected :
              /\ IsFiniteSet(skip) /\ Cardinality(skip) <= Offset
              /\ shown' = [r \in Row |-> IF r \notin page THEN shown[r]
                                         ELSE IF shown[r] = "never" THEN "once" ELSE "again"]
              /\ \/ phase' = "done" /\ token' = token /\ Selected \subseteq skip \union page
                 \/ /\ phase' = "paging"
                    /\ Selected \ (skip \union page) # {}
                    /\ \E last \in page :
                          /\ token' = Key(last)
                          /\ \A p \in page \ {last} : Newer(Key(p), Key(last))
                          /\ \A s \in Selected \ (skip \union page) : Newer(Key(last), Key(s))
<1> DEFINE limit == NormalizeLimit(request.limit)
<1>1. limit \in Nat /\ limit + 1 \in Nat
  <2>1. request.limit \in Int
    BY RequestAssumption DEF TypeOK
  <2>2. QED
    BY <2>1, LimitAssumption DEF NormalizeLimit
<1>2. Offset \in Nat
  <2>1. request.offset \in Int
    BY RequestAssumption DEF TypeOK
  <2>2. QED
    BY <2>1 DEF ReadPage, Acceptable, Offset
<1> DEFINE selected == Matching(request.want) \intersect After(token)
<1>3. selected = Selected
  BY DEF Matching, After, Selected, Ahead
<1>r. \E skip \in SUBSET selected : \E rows \in SUBSET (selected \ skip) : \E page \in SUBSET rows :
          /\ IsFirst(skip, selected, Offset)
          /\ IsFirst(rows, selected \ skip, limit + 1)
          /\ NextPage(rows, limit, page)
          /\ shown' = [r \in Row |-> IF r \notin page THEN shown[r]
                                     ELSE IF shown[r] = "never" THEN "once" ELSE "again"]
  BY Zenon DEF ReadPage
<1> HIDE DEF selected
<1>4. PICK skip \in SUBSET Selected : \E rows \in SUBSET (Selected \ skip) : \E page \in SUBSET rows :
          /\ IsFirst(skip, Selected, Offset)
          /\ IsFirst(rows, Selected \ skip, limit + 1)
          /\ NextPage(rows, limit, page)
          /\ shown' = [r \in Row |-> IF r \notin page THEN shown[r]
                                     ELSE IF shown[r] = "never" THEN "once" ELSE "again"]
  BY <1>3, <1>r, SMT
<1>5. PICK rows \in SUBSET (Selected \ skip) : \E page \in SUBSET rows :
          /\ IsFirst(skip, Selected, Offset)
          /\ IsFirst(rows, Selected \ skip, limit + 1)
          /\ NextPage(rows, limit, page)
          /\ shown' = [r \in Row |-> IF r \notin page THEN shown[r]
                                     ELSE IF shown[r] = "never" THEN "once" ELSE "again"]
  BY <1>4, Zenon
<1>6. PICK page \in SUBSET rows :
          /\ IsFirst(skip, Selected, Offset)
          /\ IsFirst(rows, Selected \ skip, limit + 1)
          /\ NextPage(rows, limit, page)
          /\ shown' = [r \in Row |-> IF r \notin page THEN shown[r]
                                     ELSE IF shown[r] = "never" THEN "once" ELSE "again"]
  BY <1>5, Zenon
<1>7. Selected \in SUBSET Row
  BY DEF Selected
<1>8. IsFiniteSet(skip) /\ Cardinality(skip) <= Offset
  BY <1>2, <1>6, <1>7, FirstRows
<1>9. /\ page \in SUBSET (Selected \ skip)
      /\ ~(Cardinality(rows) > limit) => Selected \ skip \subseteq page
      /\ Cardinality(rows) > limit => (Selected \ skip) \ page # {}
      /\ \A p \in page, s \in (Selected \ skip) \ page : Newer(Key(p), Key(s))
  <2> HIDE DEF limit
  <2>1. Selected \ skip \in SUBSET Row
    BY <1>7
  <2>2. IsFirst(page, rows, limit)
    BY <1>6 DEF NextPage
  <2>3. PICK m \in Nat : m = limit + 1
    BY <1>1
  <2>4. IsFirst(rows, Selected \ skip, m)
    BY <1>6, <2>3
  <2>5. \A i \in Nat : i <= limit => i < m
    BY <1>1, <2>3
  <2>6. QED
    BY <1>1, <2>1, <2>2, <2>4, <2>5, PageOfRows
<1>10. page \in SUBSET Selected /\ Selected \ (skip \union page) = (Selected \ skip) \ page
  BY <1>9
<1>11. CASE Cardinality(rows) > limit
  <2>1. PICK last \in page : /\ \A p \in page \ {last} : Newer(Key(p), Key(last))
                             /\ token' = Key(last) /\ phase' = "paging"
    BY <1>6, <1>11 DEF NextPage
  <2>2. \A s \in Selected \ (skip \union page) : Newer(Key(last), Key(s))
    BY <1>9, <1>10
  <2>3. Selected \ (skip \union page) # {}
    BY <1>9, <1>10, <1>11
  <2>4. QED
    BY <1>6, <1>8, <1>10, <2>1, <2>2, <2>3
<1>12. CASE ~(Cardinality(rows) > limit)
  <2>1. phase' = "done" /\ token' = token
    BY <1>6, <1>12 DEF NextPage
  <2>2. Selected \subseteq skip \union page
    BY <1>9, <1>12
  <2>3. QED
    BY <1>6, <1>8, <1>10, <2>1, <2>2
<1>13. QED
  BY <1>11, <1>12

-----------------------------------------------------------------------------
(* Type correctness.                                                       *)

LEMMA TypeInit == Init => TypeOK
BY RequestAssumption DEF Init, TypeOK, Present, Statuses

\* Every step keeps the types.
LEMMA TypeStep ==
    ASSUME TypeOK, [Next]_vars
    PROVE  TypeOK'
<1>1. ASSUME NEW r \in Row, NEW t \in Time, NEW s \in Statuses, InsertEvent(r, t, s)
      PROVE  TypeOK'
  BY <1>1 DEF InsertEvent, clientVars, TypeOK, Present
<1>2. ASSUME NEW t \in Time, DropEvents(t)
      PROVE  TypeOK'
  BY <1>2 DEF DropEvents, clientVars, TypeOK, Present, Statuses
<1>3. ASSUME NEW r \in Row, NEW t \in Time, OpenIncident(r, t)
      PROVE  TypeOK'
  BY <1>3 DEF OpenIncident, clientVars, TypeOK, Present, Statuses
<1>4. ASSUME NEW r \in Row, NEW t \in Time, GroupIncident(r, t)
      PROVE  TypeOK'
  BY <1>4 DEF GroupIncident, LastSeen, clientVars, TypeOK, Present, Statuses
<1>5. ASSUME NEW r \in Row, NEW s \in Statuses, MoveIncident(r, s)
      PROVE  TypeOK'
  BY <1>5 DEF MoveIncident, clientVars, TypeOK, Present, Statuses
<1>6. CASE StartWalk
  <2>1. request.start \in Tokens
    BY RequestAssumption DEF TypeOK
  <2>2. QED
    BY <1>6, <2>1 DEF StartWalk, tableVars, TypeOK, Present, Matching
<1>7. CASE ReadPage
  <2>1. PICK skip, page \in SUBSET Selected :
              /\ shown' = [r \in Row |-> IF r \notin page THEN shown[r]
                                         ELSE IF shown[r] = "never" THEN "once" ELSE "again"]
              /\ \/ phase' = "done" /\ token' = token
                 \/ phase' = "paging" /\ \E last \in page : token' = Key(last)
    BY <1>7, PageStep
  <2>2. \A r \in Selected : Key(r) \in Tokens
    BY KeysAreKeys DEF Selected, Ahead, Matching
  <2>3. token' \in Tokens /\ phase' \in {"paging", "done"}
    BY <2>1, <2>2 DEF TypeOK
  <2>4. shown' \in [Row -> {"never", "once", "again"}]
    BY <2>1 DEF TypeOK
  <2>5. QED
    BY <1>7, <2>3, <2>4 DEF ReadPage, tableVars, TypeOK, Present
<1>8. CASE Refuse
  BY <1>8 DEF Refuse, tableVars, TypeOK, Present
<1>9. CASE UNCHANGED vars
  BY <1>9 DEF vars, TypeOK, Present
<1>10. QED
  BY <1>1, <1>2, <1>3, <1>4, <1>5, <1>6, <1>7, <1>8, <1>9
     DEF Next, TableStep, Attributes, Statuses

\* The types of the lists and of the walks.
THEOREM TypeCorrect == Spec => []TypeOK
<1>1. QED
  BY TypeInit, TypeStep, PTL DEF Spec

-----------------------------------------------------------------------------
(* The invariant.                                                          *)

\* What happens to the table: rows stay, keep their place or move to the front,
\* and the steady ones are as they were.
Moves ==
    /\ UNCHANGED clientVars
    /\ steady' \in SUBSET steady
    /\ \A r \in steady' : seen'[r] = seen[r] /\ status'[r] = status[r]
    /\ \A r \in Row : status[r] # "new" => status'[r] # "new" /\ seen'[r] >= seen[r]

LEMMA MissedIsFinite ==
    ASSUME TypeOK
    PROVE  IsFiniteSet(LeftOut) /\ IsFiniteSet(Missed)
<1>1. Missed \in SUBSET Row /\ LeftOut \in SUBSET Row
  BY DEF Missed, LeftOut, TypeOK
<1>2. QED
  BY <1>1, RowAssumption, FS_Subset

LEMMA TableMoves ==
    ASSUME TypeOK, TableStep
    PROVE  Moves
<1>1. \A r \in Row : seen[r] \in Int
  BY InstantsAreInts DEF TypeOK
<1>2. /\ steady \subseteq Row
      /\ \A r \in steady : status[r] \notin {"new", "dropped"}
      /\ seen \in [Row -> Time \union {0}] /\ DOMAIN status = Row
  BY DEF TypeOK, Present, Statuses
<1>3. ASSUME NEW r \in Row, NEW t \in Time, NEW s \in Statuses, InsertEvent(r, t, s)
      PROVE  Moves
  BY <1>1, <1>2, <1>3 DEF InsertEvent, Statuses, Moves
<1>4. ASSUME NEW t \in Time, DropEvents(t)
      PROVE  Moves
  BY <1>1, <1>2, <1>4 DEF DropEvents, Moves
<1>5. ASSUME NEW r \in Row, NEW t \in Time, OpenIncident(r, t)
      PROVE  Moves
  BY <1>1, <1>2, <1>5 DEF OpenIncident, Moves
<1>6. ASSUME NEW r \in Row, NEW t \in Time, GroupIncident(r, t)
      PROVE  Moves
  <2>1. t \in Int
    BY TimeAssumption
  <2>2. LastSeen(r, t) \in Int /\ LastSeen(r, t) >= seen[r]
    BY <1>1, <2>1 DEF LastSeen
  <2>3. seen' = [seen EXCEPT ![r] = LastSeen(r, t)] /\ UNCHANGED <<status, clientVars>>
    BY <1>6 DEF GroupIncident
  <2>4. \A q \in Row : seen'[q] >= seen[q]
    BY <1>1, <1>2, <2>2, <2>3
  <2>5. steady' \in SUBSET steady /\ \A q \in steady' : seen'[q] = seen[q]
    BY <1>2, <1>6, <2>3 DEF GroupIncident
  <2>6. QED
    BY <2>3, <2>4, <2>5 DEF Moves
<1>7. ASSUME NEW r \in Row, NEW s \in Statuses, MoveIncident(r, s)
      PROVE  Moves
  BY <1>1, <1>2, <1>7 DEF MoveIncident, Statuses, Moves
<1>8. QED
  BY <1>3, <1>4, <1>5, <1>6, <1>7 DEF TableStep, Attributes, Statuses

\* The rows a walk has left out do not become more when the table changes.
LEMMA MovesKeep ==
    ASSUME IInv, Moves, TypeOK'
    PROVE  IInv'
<1>1. /\ phase' = phase /\ request' = request /\ token' = token /\ shown' = shown
      /\ TypeOK /\ NothingYet /\ ShownExists /\ ShownIsBehind /\ SteadyMatches
      /\ OffsetIsSent /\ OffsetLeavesOut /\ NoneShownTwice /\ SteadyRowsAreShown
  BY DEF IInv, Moves, clientVars
<1>2. NothingYet' /\ OffsetIsSent' /\ NoneShownTwice'
  BY <1>1 DEF NothingYet, OffsetIsSent, NoneShownTwice, Moves
<1>3. ShownExists'
  BY <1>1 DEF ShownExists, Moves
<1>4. ShownIsBehind'
  <2>1. SUFFICES ASSUME phase = "paging", NEW r \in Row, shown[r] # "never"
                 PROVE  token # Zero /\ ~Newer(token, Key(r)')
    BY <1>1 DEF ShownIsBehind
  <2>2. token # Zero /\ ~Newer(token, Key(r)) /\ seen'[r] >= seen[r]
    BY <1>1, <2>1 DEF ShownIsBehind, ShownExists, Moves
  <2>3. token \in Keys
    BY <1>1, KeysAreKeys
  <2>4. r \in Int /\ seen[r] \in Int /\ seen'[r] \in Int
    BY <1>1, InstantsAreInts DEF TypeOK
  <2>5. QED
    BY <2>2, <2>3, <2>4 DEF Newer, Key, Keys
<1>5. SteadyMatches'
  <2>1. ASSUME NEW r \in steady' PROVE r \in Matching(request.want)'
    <3>1. r \in Matching(request.want) /\ status'[r] = status[r]
      BY <1>1 DEF SteadyMatches, Moves
    <3>2. QED
      BY <1>1, <3>1 DEF Matching, Present
  <2>2. QED
    BY <2>1 DEF SteadyMatches
<1>6. LeftOut' \in SUBSET LeftOut /\ Missed' \in SUBSET Missed
  <2>1. Missed' \in SUBSET Missed
    BY <1>1 DEF Missed, Moves
  <2>2. ASSUME NEW r \in Missed', Ahead(r) PROVE Ahead(r)'
    <3>1. r \in steady' /\ seen'[r] = seen[r] /\ status'[r] = status[r]
      BY DEF Missed, Moves
    <3>2. QED
      BY <1>1, <2>2, <3>1 DEF Ahead, Matching, Present, Key
  <2>3. QED
    BY <2>1, <2>2 DEF LeftOut
<1>7. IsFiniteSet(LeftOut) /\ IsFiniteSet(Missed)
  BY <1>1, MissedIsFinite
<1>8. Cardinality(LeftOut') <= Cardinality(LeftOut) /\ Cardinality(Missed') <= Cardinality(Missed)
  BY <1>6, <1>7, FS_Subset
<1>9. /\ Cardinality(LeftOut) \in Nat /\ Cardinality(LeftOut') \in Nat
      /\ Cardinality(Missed) \in Nat /\ Cardinality(Missed') \in Nat
  BY <1>6, <1>7, FS_Subset, FS_CardinalityType
<1>10. request.offset \in Int
  BY <1>1, RequestAssumption DEF TypeOK
<1>11. OffsetLeavesOut'
  BY <1>1, <1>6, <1>8, <1>9, <1>10 DEF OffsetLeavesOut
<1>12. SteadyRowsAreShown'
  BY <1>1, <1>8, <1>9, <1>10 DEF SteadyRowsAreShown, Missed
<1>13. QED
  BY <1>2, <1>3, <1>4, <1>5, <1>11, <1>12 DEF IInv

\* A client that begins has been shown nothing, and all that matches behind its
\* token is ahead of it.
LEMMA StartKeeps ==
    ASSUME IInv, StartWalk, TypeOK'
    PROVE  IInv'
<1>1. /\ TypeOK /\ NothingYet /\ ShownExists /\ phase = "idle" /\ phase' = "paging"
      /\ request' = request /\ token' = token /\ shown' = shown
      /\ seen' = seen /\ status' = status
      /\ steady' = {r \in Matching(request.want) : token # Zero => Newer(token, Key(r))}
  BY DEF IInv, StartWalk, tableVars
<1>2. token = request.start /\ \A r \in Row : shown[r] = "never"
  BY <1>1 DEF NothingYet
<1>3. NothingYet' /\ ShownExists' /\ ShownIsBehind' /\ OffsetIsSent' /\ NoneShownTwice'
  BY <1>1, <1>2 DEF NothingYet, ShownExists, ShownIsBehind, OffsetIsSent, NoneShownTwice
<1>4. \A r \in steady' : Ahead(r)' /\ r \in Matching(request.want)'
  BY <1>1 DEF Ahead, Matching, Present, Key
<1>5. SteadyMatches'
  BY <1>4 DEF SteadyMatches
<1>6. OffsetLeavesOut'
  <2>1. LeftOut' = {}
    BY <1>4 DEF LeftOut, Missed
  <2>2. QED
    BY <2>1 DEF OffsetLeavesOut
<1>7. SteadyRowsAreShown'
  BY <1>1 DEF SteadyRowsAreShown
<1>8. QED
  BY <1>3, <1>5, <1>6, <1>7 DEF IInv

\* A page shows rows below everything shown before it, and what it leaves behind
\* it is what the offset asked for.
LEMMA PageKeeps ==
    ASSUME IInv, ReadPage, TypeOK'
    PROVE  IInv'
<1>1. /\ TypeOK /\ ShownExists /\ ShownIsBehind /\ SteadyMatches /\ NoneShownTwice
      /\ OffsetIsSent /\ OffsetLeavesOut
      /\ phase = "paging" /\ Acceptable
      /\ request' = request /\ seen' = seen /\ status' = status /\ steady' = steady
  BY DEF IInv, ReadPage, tableVars
<1>2. PICK skip, page \in SUBSET Selected :
        /\ IsFiniteSet(skip) /\ Cardinality(skip) <= Offset
        /\ shown' = [r \in Row |-> IF r \notin page THEN shown[r]
                                   ELSE IF shown[r] = "never" THEN "once" ELSE "again"]
        /\ \/ phase' = "done" /\ token' = token /\ Selected \subseteq skip \union page
           \/ /\ phase' = "paging"
              /\ Selected \ (skip \union page) # {}
              /\ \E last \in page :
                    /\ token' = Key(last)
                    /\ \A p \in page \ {last} : Newer(Key(p), Key(last))
                    /\ \A s \in Selected \ (skip \union page) : Newer(Key(last), Key(s))
  BY <1>1, PageStep
<1>3. /\ \A r \in Selected : r \in Row /\ Present(r) /\ (token # Zero => Newer(token, Key(r)))
      /\ \A r \in Row : Key(r)' = Key(r)
  BY <1>1 DEF Selected, Ahead, Matching, Key
<1>4. \A r \in page : shown[r] = "never"
  BY <1>1, <1>2, <1>3 DEF ShownIsBehind
<1>5. \A r \in Row : shown'[r] = IF r \in page THEN "once" ELSE shown[r]
  BY <1>2, <1>4
<1>6. NoneShownTwice'
  BY <1>1, <1>5 DEF NoneShownTwice
<1>7. ShownExists'
  BY <1>1, <1>2, <1>3, <1>5 DEF ShownExists, Present, Statuses
<1>8. NothingYet' /\ SteadyMatches'
  BY <1>1, <1>2 DEF NothingYet, SteadyMatches, Matching, Present
<1>9. /\ token \in Keys /\ \A r \in Row : Key(r) \in Keys
      /\ \A r \in Selected : Key(r) # Zero
  BY <1>1, <1>3, KeysAreKeys
<1>10. ShownIsBehind'
  <2>1. SUFFICES ASSUME phase' = "paging", NEW r \in Row, shown'[r] # "never"
                 PROVE  token' # Zero /\ ~Newer(token', Key(r))
    BY <1>3 DEF ShownIsBehind
  <2>2. PICK last \in page : /\ token' = Key(last)
                             /\ \A p \in page \ {last} : Newer(Key(p), Key(last))
    BY <1>2, <2>1
  <2>3. last \in Selected /\ last \in Row /\ Key(last) \in Keys /\ Key(r) \in Keys
    BY <1>2, <1>3, <1>9
  <2>4. CASE r \in page
    BY <1>9, <2>2, <2>3, <2>4, NewerIsOrder
  <2>5. CASE r \notin page
    <3>1. token # Zero /\ ~Newer(token, Key(r))
      BY <1>1, <1>5, <2>1, <2>5 DEF ShownIsBehind
    <3>2. Newer(token, Key(last))
      BY <1>3, <2>3, <3>1
    <3>3. QED
      BY <1>9, <2>2, <2>3, <3>1, <3>2, NewerIsOrder
  <2>6. QED
    BY <2>4, <2>5
<1>11. request.offset \in Int /\ Offset \in Nat
  <2>1. request.offset \in Int
    BY <1>1, RequestAssumption DEF TypeOK
  <2>2. QED
    BY <1>1, <2>1 DEF Acceptable, Offset
<1>12. /\ token = Zero => request.offset = Offset
       /\ token # Zero => Offset = 0 /\ request.offset >= 0
  <2>1. token = Zero => request.offset = Offset
    BY DEF Offset
  <2>2. token # Zero => Offset = 0
    BY <1>1, <1>11 DEF Acceptable
  <2>3. token # Zero => request.offset >= 0
    <3>1. CASE request.repeatsOffset
      BY <1>11, <3>1 DEF Offset
    <3>2. CASE ~request.repeatsOffset /\ request.start # Zero
      BY <1>1, <3>2, OffsetAssumption DEF TypeOK
    <3>3. CASE request.start = Zero
      BY <1>1, <3>3 DEF OffsetIsSent
    <3>4. QED
      BY <3>1, <3>2, <3>3
  <2>4. QED
    BY <2>1, <2>2, <2>3
<1>13. OffsetIsSent'
  BY <1>1, <1>11, <1>12 DEF OffsetIsSent
<1>14. \A r \in Missed' : r \in LeftOut \/ r \in skip \/ (phase' = "paging" /\ Ahead(r)')
  <2>1. SUFFICES ASSUME NEW r \in steady, shown'[r] = "never", r \notin skip, Ahead(r)
                 PROVE  phase' = "paging" /\ Ahead(r)'
    <3>1. steady \subseteq Row
      BY <1>1 DEF TypeOK
    <3>2. \A r \in Missed' : r \in steady /\ shown'[r] = "never" /\ shown[r] = "never"
      BY <1>1, <1>5, <3>1 DEF Missed
    <3>3. QED
      BY <2>1, <3>2 DEF LeftOut, Missed
  <2>2. r \in Row /\ r \in Selected
    BY <1>1, <2>1 DEF Selected, TypeOK
  <2>3. r \in Selected \ (skip \union page)
    BY <1>5, <2>1, <2>2
  <2>4. phase' = "paging" /\ Newer(token', Key(r))
    BY <1>2, <2>3
  <2>5. r \in Matching(request.want)'
    BY <1>1, <2>1 DEF SteadyMatches, Matching, Present
  <2>6. QED
    BY <1>3, <2>2, <2>4, <2>5 DEF Ahead
<1>15. \/ LeftOut \union skip = {}
       \/ IsFiniteSet(LeftOut \union skip) /\ Cardinality(LeftOut \union skip) <= request.offset
  <2>1. CASE token = Zero
    <3>1. LeftOut = {}
      BY <1>1, <2>1 DEF OffsetLeavesOut
    <3>2. LeftOut \union skip = skip
      BY <3>1
    <3>3. QED
      BY <1>2, <1>12, <2>1, <3>2
  <2>2. CASE token # Zero
    <3>1. skip = {}
      <4>1. Cardinality(skip) \in Nat /\ Cardinality(skip) <= 0
        BY <1>2, <1>12, <2>2, FS_CardinalityType
      <4>2. QED
        BY <1>2, <4>1, FS_EmptySet
    <3>2. LeftOut \union skip = LeftOut
      BY <3>1
    <3>3. QED
      BY <1>1, <3>2, MissedIsFinite DEF OffsetLeavesOut
  <2>3. QED
    BY <2>1, <2>2
<1>16. ASSUME NEW S \in SUBSET (LeftOut \union skip)
       PROVE  S = {} \/ Cardinality(S) <= request.offset
  <2>1. SUFFICES ASSUME S # {} PROVE Cardinality(S) <= request.offset
    OBVIOUS
  <2>2. IsFiniteSet(LeftOut \union skip) /\ Cardinality(LeftOut \union skip) <= request.offset
    BY <1>15, <2>1
  <2>3. /\ Cardinality(S) <= Cardinality(LeftOut \union skip)
        /\ Cardinality(S) \in Nat /\ Cardinality(LeftOut \union skip) \in Nat
    BY <2>2, FS_Subset, FS_CardinalityType
  <2>4. QED
    BY <1>11, <2>2, <2>3
<1>17. OffsetLeavesOut'
  <2>1. SUFFICES ASSUME phase' = "paging"
                 PROVE  LeftOut' = {} \/ (token' # Zero /\ Cardinality(LeftOut') <= request'.offset)
    BY DEF OffsetLeavesOut
  <2>2. LeftOut' \in SUBSET (LeftOut \union skip)
    BY <1>14 DEF LeftOut
  <2>3. token' # Zero
    BY <1>2, <1>9, <2>1
  <2>4. QED
    BY <1>1, <1>16, <2>2, <2>3
<1>18. SteadyRowsAreShown'
  <2>1. SUFFICES ASSUME phase' = "done"
                 PROVE  Cardinality(Missed') <= request.offset
    BY <1>1 DEF SteadyRowsAreShown, Missed
  <2>2. Missed' \in SUBSET (LeftOut \union skip)
    BY <1>14, <2>1
  <2>3. request.offset >= 0
    BY <1>11, <1>12
  <2>4. QED
    BY <1>16, <2>2, <2>3, FS_EmptySet
<1>19. QED
  BY <1>6, <1>7, <1>8, <1>10, <1>13, <1>17, <1>18 DEF IInv

LEMMA RefusalKeeps ==
    ASSUME IInv, Refuse, TypeOK'
    PROVE  IInv'
<1>1. /\ phase' = "refused"
      /\ request' = request /\ seen' = seen /\ status' = status /\ steady' = steady
      /\ token' = token /\ shown' = shown
      /\ ShownExists /\ SteadyMatches /\ NoneShownTwice
  BY DEF IInv, Refuse, tableVars
<1>2. ShownExists' /\ SteadyMatches' /\ NoneShownTwice'
  BY <1>1 DEF ShownExists, SteadyMatches, NoneShownTwice, Matching, Present
<1>3. NothingYet' /\ ShownIsBehind' /\ OffsetIsSent' /\ OffsetLeavesOut' /\ SteadyRowsAreShown'
  BY <1>1 DEF NothingYet, ShownIsBehind, OffsetIsSent, OffsetLeavesOut, SteadyRowsAreShown
<1>4. QED
  BY <1>2, <1>3 DEF IInv

LEMMA Inductive ==
    ASSUME IInv, [Next]_vars
    PROVE  IInv'
<1>1. TypeOK /\ TypeOK'
  BY TypeStep DEF IInv
<1>2. CASE TableStep
  BY <1>1, <1>2, TableMoves, MovesKeep
<1>3. CASE StartWalk
  BY <1>1, <1>3, StartKeeps
<1>4. CASE ReadPage
  BY <1>1, <1>4, PageKeeps
<1>5. CASE Refuse
  BY <1>1, <1>5, RefusalKeeps
<1>6. CASE UNCHANGED vars
  <2>1. Moves
    <3>1. \A r \in Row : seen[r] \in Int
      BY <1>1, InstantsAreInts DEF TypeOK
    <3>2. QED
      BY <1>6, <3>1 DEF vars, Moves, clientVars
  <2>2. QED
    BY <1>1, <2>1, MovesKeep
<1>7. QED
  BY <1>2, <1>3, <1>4, <1>5, <1>6 DEF Next

LEMMA InitInvariant == Init => IInv
<1>1. SUFFICES ASSUME Init PROVE IInv
  OBVIOUS
<1>2. TypeOK
  BY <1>1, TypeInit
<1>3. /\ phase = "idle" /\ token = request.start /\ steady = {}
      /\ \A r \in Row : shown[r] = "never"
  BY <1>1 DEF Init
<1>4. /\ NothingYet /\ ShownExists /\ ShownIsBehind /\ SteadyMatches /\ OffsetIsSent
      /\ OffsetLeavesOut /\ NoneShownTwice /\ SteadyRowsAreShown
  BY <1>3 DEF NothingYet, ShownExists, ShownIsBehind, SteadyMatches, OffsetIsSent,
              OffsetLeavesOut, NoneShownTwice, SteadyRowsAreShown
<1>5. QED
  BY <1>2, <1>4 DEF IInv

THEOREM Invariance == Spec => []IInv
<1>1. QED
  BY InitInvariant, Inductive, PTL DEF Spec

-----------------------------------------------------------------------------
(* The theorems about the lists.                                           *)

\* In every list, no walk shows a row twice.
THEOREM NoRowTwice == Spec => []NoneShownTwice
<1>1. IInv => NoneShownTwice
  BY DEF IInv
<1>2. QED
  BY <1>1, Invariance, PTL

\* In every list, a walk that ended has shown all that was there all along.
THEOREM NoRowLost == Spec => []SteadyRowsAreShown
<1>1. IInv => SteadyRowsAreShown
  BY DEF IInv
<1>2. QED
  BY <1>1, Invariance, PTL

\* In every list, a cursor has rows behind it when it is handed out.
THEOREM CursorsLead == Spec => CursorMeansMore
<1>1. ASSUME TypeOK, [Next]_vars, phase = "paging", phase' = "paging", token' # token
      PROVE  \E r \in Matching(request.want) : Newer(token', Key(r))
  <2>1. ReadPage
    <3>1. ~TableStep
      BY <1>1, TableMoves DEF Moves, clientVars
    <3>2. QED
      BY <1>1, <3>1 DEF Next, StartWalk, Refuse, vars
  <2>2. PICK skip, page \in SUBSET Selected :
          /\ Selected \ (skip \union page) # {}
          /\ \E last \in page : /\ token' = Key(last)
                                /\ \A s \in Selected \ (skip \union page) : Newer(Key(last), Key(s))
    BY <1>1, <2>1, PageStep
  <2>3. QED
    BY <2>2 DEF Selected, Ahead
<1>2. TypeOK /\ [Next]_vars
      => [phase = "paging" /\ phase' = "paging" /\ token' # token =>
            \E r \in Matching(request.want) : Newer(token', Key(r))]_vars
  BY <1>1
<1>3. QED
  BY <1>2, TypeCorrect, PTL DEF Spec, CursorMeansMore
=============================================================================
