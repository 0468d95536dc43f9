--------------------------- MODULE JanitorProofs ----------------------------
(***************************************************************************)
(* Theorems about Janitor, for any rows, any number of replicas and any    *)
(* lookahead and retention.                                                *)
(*                                                                         *)
(* The inductive invariant adds to the types and to RowsAreRouted what a   *)
(* cycle carries from one statement to the next: the days it still has to  *)
(* drop have expired, and stay expired, since the clock does not go back.  *)
(***************************************************************************)
EXTENDS Janitor, TLAPS

DropsAreDue == \A j \in Janitors : \A d \in stale[j] : Expired(d)

IInv == TypeOK /\ RowsAreRouted /\ DropsAreDue

-----------------------------------------------------------------------------
(* What the statements do to the tables.                                   *)

\* A row of an attached day is not in the default partition, so attaching a day
\* whose partition is not refused keeps every row where it belongs.
LEMMA AttachRoutes ==
    ASSUME TypeOK, RowsAreRouted, NEW d \in Nat, ~Refused(d), Attach(d)
    PROVE  RowsAreRouted' /\ Kept' = Kept
<1>1. RowsAreRouted'
  BY DEF RowsAreRouted, Attach, Refused, Of
<1>2. Kept' = Kept
  BY DEF Attach, Kept
<1>3. QED
  BY <1>1, <1>2

\* The drain moves the rows of its day and no others.
LEMMA MoveRoutes ==
    ASSUME TypeOK, RowsAreRouted, NEW d \in Nat, MoveRows(d)
    PROVE  RowsAreRouted' /\ Kept' = Kept
<1>1. RowsAreRouted'
  BY DEF RowsAreRouted, MoveRows, Of
<1>2. Kept' = Kept
  BY DEF MoveRows, Kept, Of
<1>3. QED
  BY <1>1, <1>2

\* A drop removes rows of its day only.
LEMMA DropRoutes ==
    ASSUME TypeOK, RowsAreRouted, NEW d \in Nat, DropTable(d)
    PROVE  RowsAreRouted' /\ \A r \in Kept : r \notin Kept' => DayOf[r] = d
<1>1. RowsAreRouted'
  BY DEF RowsAreRouted, DropTable, Of
<1>2. \A r \in Kept : r \notin Kept' => DayOf[r] = d
  BY DEF DropTable, Kept, Of
<1>3. QED
  BY <1>1, <1>2

\* Once a day has expired it stays so.
LEMMA ExpiryLasts ==
    ASSUME TypeOK, NEW d \in Nat, Expired(d), today' \in Nat, today' >= today
    PROVE  Expired(d)'
<1>1. d \in Int /\ today \in Int /\ today' \in Int /\ Retention \in Int
  BY OptionAssumption DEF TypeOK
<1>2. \A a, b, c, e \in Int : e + 1 < a - c /\ b >= a => e + 1 < b - c
  OBVIOUS
<1>3. QED
  BY <1>1, <1>2 DEF Expired

-----------------------------------------------------------------------------
(* The tables, over one step.                                              *)

\* What any step of the program does to the rows.
RowsKept == \A r \in Kept : r \notin Kept' => Expired(DayOf[r])

\* One step of a replica keeps rows where they belong, and removes none that is
\* not due.
LEMMA JanitorKeepsRows ==
    ASSUME IInv, NEW j \in Janitors, JanitorStep(j)
    PROVE  RowsAreRouted' /\ RowsKept
<1> USE DEF IInv
<1>1. CASE tableVars' = tableVars
  BY <1>1 DEF tableVars, RowsAreRouted, RowsKept, Kept
<1>2. ASSUME NEW d \in missing[j], Create(j, d) PROVE RowsAreRouted' /\ RowsKept
  <2>1. d \in Nat
    BY DEF TypeOK
  <2>2. tableVars' = tableVars \/ (~Refused(d) /\ Attach(d))
    BY <1>2 DEF Create, tableVars
  <2>3. QED
    BY <1>1, <2>1, <2>2, AttachRoutes DEF RowsKept
<1>3. ASSUME NEW d \in missing[j], Drain(j, d) PROVE RowsAreRouted' /\ RowsKept
  BY <1>3, MoveRoutes DEF Drain, RowsKept, TypeOK
<1>4. ASSUME NEW d \in stale[j], DropTable(d) PROVE RowsAreRouted' /\ RowsKept
  BY <1>4, DropRoutes DEF RowsKept, DropsAreDue, TypeOK
<1>5. CASE CycleFails(j)
  <2>1. PICK d \in Nat : \/ tableVars' = tableVars
                         \/ MoveRows(d)
                         \/ ~Refused(d) /\ Attach(d)
                         \/ d \in stale[j] /\ DropTable(d)
    BY <1>5 DEF CycleFails, Oldest, TypeOK
  <2>2. QED
    BY <1>1, <1>4, <2>1, AttachRoutes, MoveRoutes DEF RowsKept
<1>6. QED
  BY <1>1, <1>2, <1>3, <1>4, <1>5 DEF JanitorStep, StartCycle, Drop, EndCycle

\* An arriving row is routed, and removes nothing.
LEMMA InsertKeepsRows ==
    ASSUME IInv, NEW r \in Rows, Insert(r)
    PROVE  RowsAreRouted' /\ RowsKept
BY DEF IInv, Insert, RowsAreRouted, RowsKept, Kept

\* The same for any step.
LEMMA NextKeepsRows ==
    ASSUME IInv, [Next]_vars
    PROVE  RowsAreRouted' /\ RowsKept
<1>1. CASE Tick \/ UNCHANGED vars
  BY <1>1 DEF IInv, Tick, vars, tableVars, RowsAreRouted, RowsKept, Kept
<1>2. QED
  BY <1>1, InsertKeepsRows, JanitorKeepsRows DEF Next

-----------------------------------------------------------------------------
(* The inductive invariant.                                                *)

\* The types and the due drops, over a step of a replica.
LEMMA JanitorKeepsTypes ==
    ASSUME IInv, NEW j \in Janitors, JanitorStep(j)
    PROVE  TypeOK' /\ DropsAreDue'
<1> USE DEF IInv, TypeOK
<1>1. today' = today
  BY DEF JanitorStep, StartCycle, Create, Drain, Drop, EndCycle, CycleFails
<1>2. CASE StartCycle(j)
  <2>1. (today..(today + Lookahead)) \ parts \in SUBSET Nat
    BY OptionAssumption
  <2>2. TypeOK'
    BY <1>1, <1>2, <2>1 DEF StartCycle, tableVars
  <2>3. DropsAreDue'
    BY <1>1, <1>2 DEF StartCycle, DropsAreDue, Expired
  <2>4. QED
    BY <2>2, <2>3
<1>3. ASSUME NEW d \in missing[j], Create(j, d) \/ Drain(j, d)
      PROVE  TypeOK' /\ DropsAreDue'
  BY <1>1, <1>3 DEF Create, Drain, Attach, MoveRows, Of, tableVars, DropsAreDue, Expired
<1>4. ASSUME NEW d \in stale[j], Drop(j, d) PROVE TypeOK' /\ DropsAreDue'
  BY <1>1, <1>4 DEF Drop, DropTable, Of, DropsAreDue, Expired
<1>5. CASE EndCycle(j)
  BY <1>1, <1>5 DEF EndCycle, tableVars, DropsAreDue, Expired
<1>6. CASE CycleFails(j)
  <2>1. PICK d \in Nat : \/ tableVars' = tableVars
                         \/ MoveRows(d)
                         \/ Attach(d)
                         \/ DropTable(d)
    BY <1>6 DEF CycleFails, Oldest
  <2>2. parts' \subseteq Nat /\ filed' \subseteq Rows /\ strays' \subseteq Rows
    BY <2>1 DEF tableVars, MoveRows, Attach, DropTable, Of
  <2>3. faults' \in Nat
    BY <1>6 DEF CycleFails
  <2>4. QED
    BY <1>1, <1>6, <2>2, <2>3 DEF CycleFails, GiveUp, DropsAreDue, Expired
<1>7. QED
  BY <1>2, <1>3, <1>4, <1>5, <1>6 DEF JanitorStep

LEMMA NextKeepsTypes ==
    ASSUME IInv, [Next]_vars
    PROVE  TypeOK' /\ DropsAreDue'
<1> USE DEF IInv, TypeOK
<1>1. CASE Tick
  <2>1. today' \in Nat /\ today' >= today
    BY <1>1 DEF Tick
  <2>2. DropsAreDue'
    BY <1>1, <2>1, ExpiryLasts DEF Tick, cycleVars, DropsAreDue
  <2>3. QED
    BY <1>1, <2>1, <2>2 DEF Tick, tableVars, cycleVars
<1>2. ASSUME NEW r \in Rows, Insert(r) PROVE TypeOK' /\ DropsAreDue'
  BY <1>2 DEF Insert, cycleVars, DropsAreDue, Expired
<1>3. CASE UNCHANGED vars
  BY <1>3 DEF vars, DropsAreDue, Expired
<1>4. QED
  BY <1>1, <1>2, <1>3, JanitorKeepsTypes DEF Next

LEMMA InitIInv == Init => IInv
BY TableAssumption DEF Init, IInv, TypeOK, RowsAreRouted, DropsAreDue

LEMMA IInvAlways == Spec => []IInv
<1>1. IInv /\ [Next]_vars => IInv'
  BY NextKeepsRows, NextKeepsTypes DEF IInv
<1>2. QED
  BY InitIInv, <1>1, PTL DEF Spec

-----------------------------------------------------------------------------

\* The model is type correct.
THEOREM TypeCorrect == Spec => []TypeOK
<1>1. IInv => TypeOK
  BY DEF IInv
<1>2. QED
  BY <1>1, IInvAlways, PTL

\* Every row is in the partition of its day, or in the default one while that
\* day has none, whatever replicas create, drain, drop or fail meanwhile.
THEOREM RowsAreRoutedAlways == Spec => []RowsAreRouted
<1>1. IInv => RowsAreRouted
  BY DEF IInv
<1>2. QED
  BY <1>1, IInvAlways, PTL

\* No row disappears before its day is past retention.
THEOREM NothingLostEarlyAlways == Spec => NothingLostEarly
<1>1. ASSUME IInv, [Next]_vars
      PROVE  [\A r \in Kept : r \notin Kept' => DayOf[r] + 1 <= today - Retention]_vars
  <2>1. \A r \in Kept : r \in Rows /\ DayOf[r] \in Nat
    BY <1>1, TableAssumption DEF IInv, TypeOK, Kept
  <2>2. \A r \in Kept : r \notin Kept' => DayOf[r] + 1 < today - Retention
    BY <1>1, NextKeepsRows DEF RowsKept, Expired
  <2>3. today - Retention \in Int
    BY <1>1, OptionAssumption DEF IInv, TypeOK
  <2>4. QED
    BY <2>1, <2>2, <2>3
<1>2. QED
  BY <1>1, IInvAlways, PTL DEF Spec, NothingLostEarly
=============================================================================
