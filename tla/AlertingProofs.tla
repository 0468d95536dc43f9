--------------------------- MODULE AlertingProofs ---------------------------
(***************************************************************************)
(* Proofs about Alerting for every valid policy, every set of starters and *)
(* people and every bound.                                                 *)
(***************************************************************************)
EXTENDS Alerting, FiniteSetTheorems, TLAPS

-----------------------------------------------------------------------------
(* The inductive invariant. Most of its parts speak of a local state w of  *)
(* the workflow, because a workflow task goes through several of them.     *)

FlowType(w) ==
    w \in [pc : {"none", "await"} \union Activities \union Ended, level : 1..Levels,
           contact : Contacts \union {NoOne}, acked : BOOLEAN, resolved : BOOLEAN]

\* The levels below the current one have their row, those above it are untouched,
\* and the current one agrees with where the workflow is.
TrailFits(w) ==
    /\ w.pc = "none" => ~Owned(w) /\ w.level = 1
    /\ \A k \in 1..Levels : k < w.level => notified[Escalation(k)] # "none"
    /\ \A k \in 1..Levels : k > w.level => called[Escalation(k)] = {}
    /\ w.pc \in {"none", "check"} => called[Escalation(w.level)] = {}
    /\ w.pc \in {"await", "exhaust"} => notified[Escalation(w.level)] # "none"
    /\ w.pc = "page" => called[Escalation(w.level)] \subseteq {w.contact}
    /\ w.pc = "exhaust" => w.level = Levels /\ called[Exhausted] \subseteq {w.contact}
    /\ w.pc \notin {"exhaust"} \union Ended => called[Exhausted] = {}

\* A row stands for a call, and the last notice for all of them.
RowsFit ==
    /\ \A g \in Pages : notified[g] # "none" => called[g] # {}
    /\ called[Exhausted] # {} => \A k \in 1..Levels : notified[Escalation(k)] # "none"

\* What the workflow knows of an owner is true of the row, and a run that closed
\* without one has told everybody.
OwnerFits(w) ==
    /\ Owned(w) => status # "open"
    /\ w.pc = "closed" /\ status = "open" => \A g \in Pages : notified[g] # "none"

\* A level called too late is the current one, or the one before it while the check
\* that ends the run is made.
LateFits(w) ==
    /\ late # {} => status # "open"
    /\ \A g \in late : called[g] # {}
    /\ \A l \in 1..Levels : Escalation(l) \in late =>
          \/ l = w.level /\ w.pc \notin {"none", "check"}
          \/ l + 1 = w.level /\ w.pc \in {"check"} \union Ended
    /\ \A k, l \in 1..Levels :
          Escalation(k) \in late /\ Escalation(l) \in late => k = l

\* What the activity in hand has returned, or is about to.
ResultFits ==
    /\ wf.pc \in {"none", "await"} \union Ended => result = "none"
    /\ wf.pc = "check" => result # "ok"
    /\ wf.pc \in {"page", "exhaust"} => result \in {"none", "failed", "ok"}
    /\ result = "ok" => notified[CurrentPage] # "none"
    /\ {result, seen} \intersect {"acknowledged", "resolved"} # {} => status # "open"
    /\ seen # "none" => wf.pc = "check" /\ result = "none"
    /\ wf.pc = "check" /\ late # {} => "open" \notin {result, seen}
    /\ wf.pc = "await" => ~Owned(wf)

\* A signal is of somebody who changed the row first.
SignalFits ==
    /\ channel # {} => status # "open"
    /\ \A p \in People : request[p] \in Kinds => status # "open"

IInv ==
    /\ TypeOK
    /\ TrailFits(wf)
    /\ RowsFit
    /\ OwnerFits(wf)
    /\ LateFits(wf)
    /\ ResultFits
    /\ SignalFits

Fits(w) == FlowType(w) /\ TrailFits(w) /\ OwnerFits(w) /\ LateFits(w)

-----------------------------------------------------------------------------
(* The policy.                                                             *)

\* A valid policy has a level, and its instants are integers.
LEMMA PolicyType ==
    /\ Levels \in Nat \ {0}
    /\ \A l \in 1..Levels :
          /\ Len(Policy[l].contacts) \in Nat \ {0}
          /\ Policy[l].start \in Int /\ Policy[l].shift \in Nat
<1> DEFINE Parsed(i) == [contacts |-> Wire[i].contacts, shift |-> Wire[i].shift,
                         start |-> IF Wire[i].start = Unset THEN ZeroTime ELSE Wire[i].start]
           Level == [contacts : Seq(STRING), start : Int \union {Unset}, shift : Int]
<1>1. Wire \in Seq(Level)
  BY PolicyAssumption
<1>2. Len(Wire) \in Nat /\ \A i \in 1..Len(Wire) : Wire[i] \in Level
  <2> HIDE DEF Level
  <2>1. QED
    BY <1>1
<1>3. Policy = [i \in 1..Len(Wire) |-> Parsed(i)]
  BY DEF Policy, ParsePolicy
<1>4. Policy \in Seq({Parsed(i) : i \in 1..Len(Wire)}) /\ Len(Policy) = Len(Wire)
  <2> HIDE DEF Parsed
  <2>1. QED
    BY <1>2, <1>3
<1>5. Policy # <<>> /\ \A i \in 1..Len(Policy) : Policy[i].contacts # <<>> /\ Policy[i].shift >= 0
  BY PolicyAssumption DEF Valid
<1>6. Levels \in Nat \ {0}
  <2> HIDE DEF Parsed
  <2>1. QED
    BY <1>2, <1>4, <1>5 DEF Levels
<1>7. ASSUME NEW l \in 1..Levels
      PROVE  /\ Len(Policy[l].contacts) \in Nat \ {0}
             /\ Policy[l].start \in Int /\ Policy[l].shift \in Nat
  <2>1. l \in 1..Len(Wire) /\ Policy[l] = Parsed(l) /\ Wire[l] \in Level
    BY <1>2, <1>3, <1>4 DEF Levels
  <2>2. /\ Policy[l].contacts \in Seq(STRING) /\ Policy[l].shift \in Int
        /\ Policy[l].start \in Int
    BY <2>1, PolicyAssumption
  <2>3. Policy[l].contacts # <<>> /\ Policy[l].shift >= 0
    BY <1>5 DEF Levels
  <2>4. QED
    BY <2>2, <2>3
<1>8. QED
  BY <1>6, <1>7

\* Somebody of the level is on call at any time.
LEMMA OnCallIsOfTheLevel ==
    ASSUME NEW l \in 1..Levels, NEW t \in Int
    PROVE  OnCallAt(Policy[l], t) \in RotaOf(l)
<1> DEFINE r == Policy[l]
           n == Len(r.contacts)
<1>1. n \in Nat \ {0} /\ r.start \in Int /\ r.shift \in Nat
  BY PolicyType
<1>2. \A i \in 1..n : r.contacts[i] \in RotaOf(l)
  <2>1. l <= Levels
    BY PolicyType
  <2>2. QED
    BY <2>1 DEF RotaOf
<1>3. Sub(t, r.start) \in Int
  BY <1>1, PolicyAssumption DEF Sub
<1>4. CASE n = 1 \/ r.shift = 0 \/ Sub(t, r.start) < 0
  BY <1>1, <1>2, <1>4 DEF OnCallAt
<1>5. CASE ~(n = 1 \/ r.shift = 0 \/ Sub(t, r.start) < 0)
  <2>1. PICK e \in Nat : e = Sub(t, r.start)
    BY <1>3, <1>5
  <2>2. PICK m \in Nat \ {0} : m = n
    BY <1>1
  <2>3. PICK s \in Nat \ {0} : s = r.shift
    BY <1>1, <1>5
  <2>4. e \div s \in Nat
    OBVIOUS
  <2>5. ((e \div s) % m) + 1 \in 1..m
    BY <2>4
  <2>6. OnCallAt(r, t) = r.contacts[((e \div s) % m) + 1]
    BY <1>5, <2>1, <2>2, <2>3 DEF OnCallAt
  <2>7. QED
    BY <1>2, <2>2, <2>5, <2>6
<1>6. QED
  BY <1>4, <1>5

LEMMA OnCallIsAContact ==
    ASSUME NEW l \in 1..Levels, NEW t \in Int
    PROVE  OnCallAt(Policy[l], t) \in Contacts
<1>1. l <= Levels
  BY PolicyType
<1>2. RotaOf(l) \subseteq Contacts
  BY <1>1 DEF RotaOf, Contacts
<1>3. QED
  BY <1>2, OnCallIsOfTheLevel

\* The pages of the levels differ from each other and from the last notice.
LEMMA PagesDiffer ==
    /\ \A k, l \in 1..Levels : Escalation(k) = Escalation(l) => k = l
    /\ \A l \in 1..Levels : Escalation(l) # Exhausted /\ Escalation(l) \in Pages
    /\ Exhausted \in Pages
    /\ \A g \in Pages : g = Exhausted \/ \E l \in 1..Levels : g = Escalation(l)
BY DEF Escalation, Exhausted, Pages

-----------------------------------------------------------------------------
(* What one task does to the workflow's local state.                       *)

LEMMA DrainFits ==
    ASSUME TypeOK, SignalFits, NEW w, Fits(w), w.pc # "none"
    PROVE  /\ Fits(Drain(w)) /\ Drain(w).pc = w.pc /\ Drain(w).level = w.level
           /\ Owned(w) => Owned(Drain(w))
<1> DEFINE v == Drain(w)
<1>1. /\ v.pc = w.pc /\ v.level = w.level /\ v.contact = w.contact
      /\ v.acked = (w.acked \/ "acknowledge" \in channel)
      /\ v.resolved = (w.resolved \/ "resolve" \in channel)
      /\ FlowType(v)
  BY DEF Drain, Fits, FlowType
<1>2. Owned(v) => status # "open"
  BY <1>1 DEF Fits, OwnerFits, Owned, SignalFits
<1> HIDE DEF v
<1>3. TrailFits(v) /\ LateFits(v)
  BY <1>1 DEF Fits, TrailFits, LateFits
<1>4. OwnerFits(v)
  BY <1>1, <1>2 DEF Fits, OwnerFits
<1>5. Owned(w) => Owned(v)
  BY <1>1 DEF Owned
<1>6. QED
  BY <1>1, <1>3, <1>4, <1>5 DEF Fits, v

LEMMA CloseFits ==
    ASSUME NEW w, Fits(w), w.pc # "none", NEW e \in Ended, NEW v, v = [w EXCEPT !.pc = e],
           e = "closed" => status # "open" \/ \A g \in Pages : notified[g] # "none"
    PROVE  Fits(v)
<1>1. /\ FlowType(v) /\ v.pc = e /\ v.level = w.level
      /\ v.acked = w.acked /\ v.resolved = w.resolved
  BY DEF Fits, FlowType
<1>2. TrailFits(v)
  BY <1>1 DEF Fits, TrailFits, Ended
<1>3. OwnerFits(v)
  BY <1>1 DEF Fits, OwnerFits, Owned
<1>4. LateFits(v)
  BY <1>1 DEF Fits, LateFits, Ended
<1>5. QED
  BY <1>1, <1>2, <1>3, <1>4 DEF Fits

LEMMA WakeFits ==
    ASSUME NEW w, Fits(w), w.pc # "none"
    PROVE  /\ Fits(Wake(w)) /\ (Wake(w).pc = "await" => ~Owned(Wake(w)))
           /\ Wake(w).level = w.level
           /\ Wake(w).pc \in {w.pc} \union Ended
           /\ w.pc = "await" /\ Owned(w) => Wake(w).pc \in Ended
           /\ w.pc # "await" => Wake(w).pc = w.pc
<1>1. CASE ~(w.pc = "await" /\ Owned(w))
  BY <1>1 DEF Wake
<1>2. CASE w.pc = "await" /\ Owned(w)
  <2>1. Wake(w) = [w EXCEPT !.pc = "closed"] /\ "closed" \in Ended
    BY <1>2 DEF Wake, Ended
  <2>2. status # "open"
    BY <1>2 DEF Fits, OwnerFits
  <2>3. Fits(Wake(w))
    BY <2>1, <2>2, CloseFits
  <2>4. Wake(w).pc = "closed" /\ Wake(w).level = w.level
    BY <2>1 DEF Fits, FlowType
  <2>5. QED
    BY <1>2, <2>3, <2>4 DEF Ended
<1>3. QED
  BY <1>1, <1>2

\* Nobody is called for a level before its own check, and then the contact on call.
LEMMA AfterCheckFits ==
    ASSUME TypeOK, Fits(wf), ResultFits, wf.pc = "check", result \notin {"none", "failed"}
    PROVE  LET v == AfterCheck(wf) IN
           Fits(v) /\ v.level = wf.level /\ v.pc \in {"page", "closed"}
                   /\ (Owned(wf) => v.pc = "closed")
<1> DEFINE told == [wf EXCEPT !.acked = @ \/ result = "acknowledged",
                              !.resolved = @ \/ result = "resolved"]
<1>0. FlowType(wf) /\ TrailFits(wf) /\ OwnerFits(wf) /\ LateFits(wf) /\ wf.level \in 1..Levels
  BY DEF Fits, FlowType
<1>1. /\ FlowType(told) /\ told.pc = "check" /\ told.level = wf.level /\ told.contact = wf.contact
      /\ told.acked = (wf.acked \/ result = "acknowledged")
      /\ told.resolved = (wf.resolved \/ result = "resolved")
  BY <1>0 DEF FlowType
<1>2. result \in {"open", "acknowledged", "resolved"}
  BY DEF TypeOK, ResultFits
<1>3. Owned(told) => status # "open"
  BY <1>0, <1>1, <1>2 DEF OwnerFits, Owned, ResultFits
<1>4. Owned(wf) => Owned(told)
  BY <1>1 DEF Owned
<1>5. Fits(told)
  <2> HIDE DEF told
  <2>1. TrailFits(told) /\ LateFits(told)
    BY <1>0, <1>1 DEF TrailFits, LateFits
  <2>2. OwnerFits(told)
    BY <1>1, <1>3 DEF OwnerFits
  <2>3. QED
    BY <1>1, <2>1, <2>2 DEF Fits
<1>6. CASE Owned(told)
  <2> DEFINE v == [told EXCEPT !.pc = "closed"]
  <2>1. AfterCheck(wf) = v
    BY <1>6 DEF AfterCheck
  <2> HIDE DEF told
  <2>2. Fits(v)
    BY <1>1, <1>3, <1>5, <1>6, CloseFits DEF Ended
  <2>3. v.pc = "closed" /\ v.level = wf.level
    BY <1>1 DEF FlowType
  <2>4. QED
    BY <2>1, <2>2, <2>3
<1>7. CASE ~Owned(told)
  <2> DEFINE c == OnCallAt(Policy[wf.level], now)
             v == [told EXCEPT !.pc = "page", !.contact = c]
  <2>1. AfterCheck(wf) = v
    BY <1>1, <1>7 DEF AfterCheck
  <2>2. c \in Contacts
    BY <1>0, OnCallIsAContact DEF TypeOK
  <2> HIDE DEF told, c
  <2>3. /\ FlowType(v) /\ v.pc = "page" /\ v.level = wf.level /\ v.contact = c
        /\ v.acked = told.acked /\ v.resolved = told.resolved
    BY <1>1, <2>2 DEF FlowType, Activities
  <2> HIDE DEF v
  <2>4. result = "open"
    BY <1>1, <1>2, <1>7 DEF Owned
  <2>5. TrailFits(v)
    BY <1>0, <2>3 DEF TrailFits, Ended
  <2>6. OwnerFits(v)
    BY <1>7, <2>3 DEF OwnerFits, Owned
  <2>7. late = {}
    BY <2>4 DEF ResultFits
  <2>8. LateFits(v)
    BY <2>7 DEF LateFits
  <2>9. QED
    BY <1>4, <1>7, <2>1, <2>3, <2>5, <2>6, <2>8 DEF Fits
<1>8. QED
  BY <1>6, <1>7

\* The next level is reached with the row of this one written.
LEMMA NextLevelFits ==
    ASSUME TypeOK, Fits(wf), RowsFit, ResultFits, wf.pc = "await"
    PROVE  LET v == NextLevel(wf) IN
           Fits(v) /\ v.pc \in {"check", "exhaust"} /\ v.level >= wf.level
<1>0. /\ FlowType(wf) /\ TrailFits(wf) /\ OwnerFits(wf) /\ LateFits(wf)
      /\ wf.level \in 1..Levels /\ Levels \in Nat /\ wf.level \in Nat
  BY PolicyType DEF Fits, FlowType
<1>1. CASE wf.level = Levels
  <2> DEFINE v == [wf EXCEPT !.pc = "exhaust", !.contact = NoOne]
  <2>1. NextLevel(wf) = v
    BY <1>1 DEF NextLevel
  <2>2. /\ FlowType(v) /\ v.pc = "exhaust" /\ v.level = wf.level
        /\ v.acked = wf.acked /\ v.resolved = wf.resolved
    BY <1>0 DEF FlowType, Activities
  <2> HIDE DEF v
  <2>3. TrailFits(v)
    BY <1>0, <1>1, <2>2 DEF TrailFits, Ended
  <2>4. OwnerFits(v) /\ LateFits(v)
    BY <1>0, <2>2 DEF OwnerFits, LateFits, Owned, Ended
  <2>5. QED
    BY <1>0, <2>1, <2>2, <2>3, <2>4 DEF Fits
<1>2. CASE wf.level # Levels
  <2>1. PICK n \in 1..Levels : n = wf.level + 1
    BY <1>0, <1>2
  <2> DEFINE v == [wf EXCEPT !.pc = "check", !.level = n]
  <2>2. NextLevel(wf) = v
    BY <1>2, <2>1 DEF NextLevel, FlowType
  <2>3. /\ FlowType(v) /\ v.pc = "check" /\ v.level = n
        /\ v.acked = wf.acked /\ v.resolved = wf.resolved
    BY <1>0 DEF FlowType, Activities
  <2> HIDE DEF v
  <2>4. \A k \in 1..Levels : /\ k < n => k < wf.level \/ k = wf.level
                             /\ k >= n => k > wf.level
    BY <1>0, <2>1
  <2>5. TrailFits(v)
    BY <1>0, <2>1, <2>3, <2>4 DEF TrailFits, Ended
  <2>6. OwnerFits(v)
    BY <1>0, <2>3 DEF OwnerFits, Owned
  <2>7. LateFits(v)
    BY <1>0, <2>1, <2>3 DEF LateFits, Ended
  <2>8. QED
    BY <1>0, <2>1, <2>2, <2>3, <2>5, <2>6, <2>7 DEF Fits
<1>3. QED
  BY <1>1, <1>2

LEMMA ResumeFits ==
    ASSUME TypeOK, Fits(wf), RowsFit, ResultFits, Running
    PROVE  LET v == Resume(wf) IN
           /\ Fits(v) /\ v.pc # "none" /\ v.level >= wf.level
           /\ Owned(wf) => v.pc \in {wf.pc} \union Ended \/ (v.pc = "await" /\ Owned(v))
           /\ result # "none" => v.pc # wf.pc
           /\ wf.pc # "await" /\ result = "none" => v.pc = wf.pc
<1>0. /\ FlowType(wf) /\ TrailFits(wf) /\ OwnerFits(wf) /\ LateFits(wf)
      /\ wf.level \in 1..Levels /\ wf.level \in Nat
      /\ wf.pc \in {"await", "check", "page", "exhaust"} /\ wf.pc \notin Ended
  BY PolicyType DEF Fits, FlowType, Running, Activities
<1>1. CASE wf.pc = "await"
  <2>1. ~Owned(wf) /\ result = "none"
    BY <1>1 DEF ResultFits
  <2>2. Resume(wf) = IF fired THEN NextLevel(wf) ELSE wf
    BY <1>1 DEF Resume
  <2>3. CASE fired
    BY <1>1, <2>1, <2>2, <2>3, NextLevelFits
  <2>4. CASE ~fired
    BY <1>0, <2>1, <2>2, <2>4
  <2>5. QED
    BY <2>3, <2>4
<1>2. CASE wf.pc # "await" /\ result = "none"
  <2>1. Resume(wf) = wf
    BY <1>2 DEF Resume
  <2>2. QED
    BY <1>0, <1>2, <2>1
<1>3. ASSUME NEW e \in Ended, Resume(wf) = [wf EXCEPT !.pc = e],
             e = "closed" => status # "open" \/ \A g \in Pages : notified[g] # "none"
      PROVE  LET v == Resume(wf) IN
             /\ Fits(v) /\ v.pc = e /\ v.pc # "none" /\ v.level >= wf.level
  <2>1. Fits(Resume(wf))
    BY <1>0, <1>3, CloseFits
  <2>2. Resume(wf).pc = e /\ Resume(wf).level = wf.level
    BY <1>0, <1>3 DEF FlowType
  <2>3. QED
    BY <1>0, <2>1, <2>2 DEF Ended
<1>4. CASE wf.pc # "await" /\ result = "failed"
  <2>1. Resume(wf) = [wf EXCEPT !.pc = "broken"] /\ "broken" \in Ended
    BY <1>4 DEF Resume, Ended
  <2>2. QED
    BY <1>0, <1>4, <1>3, <2>1
<1>5. CASE wf.pc = "check" /\ result \notin {"none", "failed"}
  <2>1. Resume(wf) = AfterCheck(wf)
    BY <1>5 DEF Resume
  <2>2. QED
    BY <1>0, <1>5, <2>1, AfterCheckFits DEF Ended
<1>6. CASE wf.pc = "page" /\ result \notin {"none", "failed"}
  <2> DEFINE v == [wf EXCEPT !.pc = "await"]
  <2>1. Resume(wf) = v
    BY <1>6 DEF Resume
  <2>2. /\ FlowType(v) /\ v.pc = "await" /\ v.level = wf.level
        /\ v.acked = wf.acked /\ v.resolved = wf.resolved
    BY <1>0 DEF FlowType
  <2> HIDE DEF v
  <2>3. result = "ok" /\ notified[Escalation(wf.level)] # "none"
    BY <1>6 DEF ResultFits, CurrentPage
  <2>4. TrailFits(v)
    BY <1>0, <1>6, <2>2, <2>3 DEF TrailFits, Ended
  <2>5. OwnerFits(v) /\ LateFits(v)
    BY <1>0, <1>6, <2>2 DEF OwnerFits, LateFits, Owned, Ended
  <2>6. QED
    BY <1>0, <1>6, <2>1, <2>2, <2>4, <2>5 DEF Fits, Owned
<1>7. CASE wf.pc = "exhaust" /\ result \notin {"none", "failed"}
  <2>1. Resume(wf) = [wf EXCEPT !.pc = "closed"] /\ "closed" \in Ended
    BY <1>7 DEF Resume, Ended
  <2>2. result = "ok" /\ notified[Exhausted] # "none"
    BY <1>7 DEF ResultFits, CurrentPage
  <2>3. \A k \in 1..Levels : notified[Escalation(k)] # "none"
    BY <2>2, PagesDiffer DEF RowsFit
  <2>4. \A g \in Pages : notified[g] # "none"
    BY <2>2, <2>3, PagesDiffer
  <2>5. QED
    BY <1>0, <1>7, <1>3, <2>1, <2>4
<1>8. QED
  BY <1>0, <1>1, <1>2, <1>4, <1>5, <1>6, <1>7

\* A whole task: what has happened, then the signals, then the condition.
LEMMA TaskFits ==
    ASSUME IInv, Running
    PROVE  LET v == AfterTask IN
           /\ Fits(v) /\ v.pc # "none" /\ v.level >= wf.level
           /\ v.pc = "await" => ~Owned(v)
           /\ Owned(wf) => v.pc \in {wf.pc} \union Ended
           /\ result # "none" => v.pc # wf.pc
           /\ wf.pc # "await" /\ result = "none" => v.pc = wf.pc
<1>0. /\ TypeOK /\ Fits(wf) /\ RowsFit /\ ResultFits /\ SignalFits
      /\ wf.pc \notin Ended /\ wf.pc # "none"
  BY DEF IInv, Fits, TypeOK, FlowType, Running
<1> DEFINE a == Resume(wf)
           b == Drain(a)
<1>1. /\ Fits(a) /\ a.pc # "none" /\ a.level >= wf.level
      /\ Owned(wf) => a.pc \in {wf.pc} \union Ended \/ (a.pc = "await" /\ Owned(a))
      /\ result # "none" => a.pc # wf.pc
      /\ wf.pc # "await" /\ result = "none" => a.pc = wf.pc
  BY <1>0, ResumeFits
<1>2. AfterTask = Wake(b)
  BY DEF AfterTask
<1> HIDE DEF a
<1>3. Fits(b) /\ b.pc = a.pc /\ b.level = a.level /\ (Owned(a) => Owned(b))
  BY <1>0, <1>1, DrainFits
<1> HIDE DEF b
<1>4. /\ Fits(Wake(b)) /\ (Wake(b).pc = "await" => ~Owned(Wake(b)))
      /\ Wake(b).level = b.level /\ Wake(b).pc \in {b.pc} \union Ended
      /\ b.pc = "await" /\ Owned(b) => Wake(b).pc \in Ended
      /\ b.pc # "await" => Wake(b).pc = b.pc
  BY <1>1, <1>3, WakeFits
<1>5. Wake(b).pc # "none" /\ (result # "none" => Wake(b).pc # wf.pc)
  BY <1>0, <1>1, <1>3, <1>4 DEF Ended
<1>6. Owned(wf) => Wake(b).pc \in {wf.pc} \union Ended
  <2>1. wf.pc = "await" => ~Owned(wf)
    BY <1>0 DEF ResultFits
  <2>2. QED
    BY <1>1, <1>3, <1>4, <2>1
<1>7. QED
  BY <1>1, <1>2, <1>3, <1>4, <1>5, <1>6

-----------------------------------------------------------------------------
(* The invariant.                                                          *)

LEMMA InitInv == Init => IInv
<1> SUFFICES ASSUME Init PROVE IInv
  OBVIOUS
<1>0. Levels \in Nat \ {0} /\ 1 \in 1..Levels /\ 0 \in 0..MaxAttempts /\ 0 \in 0..MaxFaults
      /\ 0 \in 0..MaxTime
  BY PolicyType, BoundAssumption
<1>1. /\ wf.pc = "none" /\ wf.level = 1 /\ wf.acked = FALSE /\ wf.resolved = FALSE
      /\ FlowType(wf)
  BY <1>0 DEF Init, NoFlow, FlowType
<1>2. TypeOK
  BY <1>0, <1>1 DEF Init, TypeOK, FlowType
<1>3. /\ \A g \in Pages : called[g] = {} /\ notified[g] = "none"
      /\ \A l \in 1..Levels : called[Escalation(l)] = {}
      /\ called[Exhausted] = {} /\ late = {} /\ Levels \in Nat
  BY <1>0, PagesDiffer DEF Init
<1>4. TrailFits(wf)
  <2>1. \A k \in 1..Levels : ~(k < wf.level)
    BY <1>1, <1>3
  <2>2. called[Escalation(wf.level)] = {}
    BY <1>0, <1>1, <1>3
  <2>3. QED
    BY <1>1, <1>3, <2>1, <2>2 DEF TrailFits, Owned
<1>7. RowsFit /\ OwnerFits(wf) /\ LateFits(wf)
  BY <1>1, <1>3 DEF RowsFit, OwnerFits, LateFits, Owned
<1>5. ResultFits /\ SignalFits
  BY <1>1, <1>3 DEF Init, ResultFits, SignalFits, Kinds, Owned
<1>6. QED
  BY <1>2, <1>4, <1>5, <1>7 DEF IInv

\* The parts that speak of the pages, when neither they nor the workflow change
\* and the row only gains an owner.
LEMMA RowStepFits ==
    ASSUME IInv, UNCHANGED <<wf, pageVars>>, status' # "open" \/ status' = status
    PROVE  TrailFits(wf)' /\ RowsFit' /\ OwnerFits(wf)' /\ LateFits(wf)'
<1>1. TrailFits(wf)' /\ RowsFit'
  BY DEF IInv, TrailFits, RowsFit, pageVars
<1>2. OwnerFits(wf)'
  BY DEF IInv, OwnerFits, pageVars
<1>3. LateFits(wf)'
  BY DEF IInv, LateFits, pageVars
<1>4. QED
  BY <1>1, <1>2, <1>3

\* Transitions of the row keep what was read of it before.
LEMMA PersonInv ==
    ASSUME IInv, NEW p \in People, PersonStep(p)
    PROVE  IInv'
<1> USE DEF PersonStep, Acknowledge, Resolve, SignalWorkflow, SignalFails, Signal,
            actVars, rowVars, pageVars
<1>1. UNCHANGED <<wf, attempt, result, seen, fired, pageVars>> /\ (status' # "open" \/ status' = status)
  OBVIOUS
<1>2. TypeOK'
  <2>1. TypeOK
    BY DEF IInv
  <2>2. status' \in {"open", "acknowledged", "resolved"} /\ channel' \subseteq Kinds
    BY <2>1 DEF TypeOK
  <2>3. request' \in [People -> {"idle", "done"} \union Kinds]
    BY <2>1 DEF TypeOK, Kinds
  <2>4. faults' \in 0..MaxFaults
    BY <2>1, BoundAssumption DEF TypeOK, Fault
  <2>5. UNCHANGED <<alerted, starter, wf, attempt, result, seen, fired, notified, called, late, now>>
    OBVIOUS
  <2>6. QED
    BY <2>1, <2>2, <2>3, <2>4, <2>5 DEF TypeOK
<1>3. TrailFits(wf)' /\ RowsFit' /\ OwnerFits(wf)' /\ LateFits(wf)'
  BY <1>1, RowStepFits
<1>4. ResultFits'
  BY <1>1 DEF IInv, ResultFits, CurrentPage
<1>5. SignalFits'
  BY DEF IInv, TypeOK, SignalFits, Kinds, Fault
<1>6. QED
  BY <1>2, <1>3, <1>4, <1>5 DEF IInv

LEMMA LaunchFits ==
    ASSUME IInv, Launch, UNCHANGED <<status, result, seen, pageVars>>
    PROVE  /\ FlowType(wf)' /\ attempt' \in 0..MaxAttempts
           /\ TrailFits(wf)' /\ RowsFit' /\ OwnerFits(wf)' /\ LateFits(wf)' /\ ResultFits'
<1>0. FlowType(wf) /\ attempt \in 0..MaxAttempts /\ 1 \in 0..MaxAttempts /\ 1 \in 1..Levels
      /\ Levels \in Nat
  BY PolicyType, BoundAssumption DEF IInv, TypeOK, FlowType
<1>1. CASE wf.pc # "none"
  <2>1. UNCHANGED <<wf, attempt>>
    BY <1>1 DEF Launch
  <2>2. TrailFits(wf)' /\ RowsFit' /\ OwnerFits(wf)' /\ LateFits(wf)'
    BY <2>1, RowStepFits
  <2>3. ResultFits'
    BY <2>1 DEF IInv, ResultFits, CurrentPage, pageVars
  <2>4. QED
    BY <1>0, <2>1, <2>2, <2>3 DEF FlowType
<1>2. CASE wf.pc = "none"
  <2>1. /\ wf'.pc = "check" /\ wf'.level = 1 /\ wf'.acked = FALSE /\ wf'.resolved = FALSE
        /\ FlowType(wf') /\ attempt' = 1
    BY <1>0, <1>2 DEF Launch, NoFlow, FlowType, Activities
  <2>2. wf.level = 1 /\ result = "none" /\ seen = "none"
    BY <1>2 DEF IInv, TrailFits, ResultFits
  <2>3. late = {}
    <3>1. \A k \in 1..Levels : Escalation(k) \notin late
      BY <1>0, <1>2 DEF IInv, LateFits, Ended
    <3>2. called[Exhausted] = {}
      BY <1>2 DEF IInv, TrailFits, Ended
    <3>3. \A g \in late : g \in Pages /\ called[g] # {}
      BY DEF IInv, TypeOK, LateFits
    <3>4. QED
      BY <3>1, <3>2, <3>3, PagesDiffer
  <2>4. TrailFits(wf)'
    BY <1>2, <2>1, <2>2 DEF IInv, TrailFits, pageVars, Ended
  <2>5. RowsFit'
    BY DEF IInv, RowsFit, pageVars
  <2>6. OwnerFits(wf)' /\ LateFits(wf)'
    BY <2>1, <2>3 DEF OwnerFits, LateFits, Owned, pageVars
  <2>7. ResultFits'
    BY <2>1, <2>2 DEF ResultFits, Ended, Owned
  <2>8. QED
    BY <1>0, <2>1, <2>4, <2>5, <2>6, <2>7 DEF FlowType
<1>3. QED
  BY <1>1, <1>2

LEMMA StarterInv ==
    ASSUME IInv, NEW s \in Starters, StarterStep(s)
    PROVE  IInv'
<1>1. CASE ListOpen(s) \/ Mark(s) \/ MarkFails(s)
  <2>1. UNCHANGED <<status, wf, actVars, channel, request, pageVars, now>>
    BY <1>1 DEF ListOpen, Mark, MarkFails, rowVars
  <2>2. TypeOK'
    <3>1. TypeOK
      BY DEF IInv
    <3>2. alerted' \in BOOLEAN
      BY <1>1, <3>1 DEF TypeOK, ListOpen, Mark, MarkFails, rowVars
    <3>3. starter' \in [Starters -> {"idle", "starting", "marking"}]
      BY <1>1, <3>1 DEF TypeOK, ListOpen, Mark, MarkFails
    <3>4. faults' \in 0..MaxFaults
      BY <1>1, <3>1, BoundAssumption DEF TypeOK, ListOpen, Mark, MarkFails, Fault
    <3>5. QED
      BY <2>1, <3>1, <3>2, <3>3, <3>4 DEF TypeOK, actVars, pageVars
  <2>3. TrailFits(wf)' /\ RowsFit' /\ OwnerFits(wf)' /\ LateFits(wf)'
    BY <2>1, RowStepFits
  <2>4. ResultFits' /\ SignalFits'
    BY <2>1 DEF IInv, ResultFits, SignalFits, CurrentPage, actVars, pageVars
  <2>5. QED
    BY <2>2, <2>3, <2>4 DEF IInv
<1>2. CASE Start(s) \/ StartFails(s)
  <2>1. UNCHANGED <<rowVars, result, seen, fired, channel, request, pageVars, now>>
    BY <1>2 DEF Start, StartFails
  <2>2. Launch \/ UNCHANGED <<wf, attempt>>
    BY <1>2 DEF Start, StartFails
  <2>3. starter' \in [Starters -> {"idle", "starting", "marking"}] /\ faults' \in 0..MaxFaults
    BY <1>2, BoundAssumption DEF IInv, TypeOK, Start, StartFails, Fault
  <2>4. /\ FlowType(wf)' /\ attempt' \in 0..MaxAttempts
        /\ TrailFits(wf)' /\ RowsFit' /\ OwnerFits(wf)' /\ LateFits(wf)' /\ ResultFits'
    <3>1. CASE Launch
      BY <2>1, <3>1, LaunchFits DEF rowVars
    <3>2. CASE UNCHANGED <<wf, attempt>>
      <4>1. TrailFits(wf)' /\ RowsFit' /\ OwnerFits(wf)' /\ LateFits(wf)'
        BY <2>1, <3>2, RowStepFits DEF rowVars
      <4>2. FlowType(wf)' /\ attempt' \in 0..MaxAttempts /\ ResultFits'
        BY <2>1, <3>2 DEF IInv, TypeOK, FlowType, ResultFits, CurrentPage, rowVars, pageVars
      <4>3. QED
        BY <4>1, <4>2
    <3>3. QED
      BY <2>2, <3>1, <3>2
  <2>5. TypeOK'
    BY <2>1, <2>3, <2>4 DEF IInv, TypeOK, FlowType, rowVars, pageVars
  <2>6. SignalFits'
    BY <2>1 DEF IInv, SignalFits, rowVars
  <2>7. QED
    BY <2>4, <2>5, <2>6 DEF IInv
<1>3. QED
  BY <1>1, <1>2 DEF StarterStep

\* A task that moves on takes the activity's result with it.
LEMMA TaskInv ==
    ASSUME IInv, WorkflowTask
    PROVE  IInv'
<1>0. TypeOK /\ ResultFits /\ SignalFits /\ RowsFit /\ Running
  BY DEF IInv, WorkflowTask
<1>1. /\ wf' = AfterTask /\ channel' = {}
      /\ UNCHANGED <<rowVars, starter, seen, request, pageVars, now, faults>>
  BY DEF WorkflowTask
<1> DEFINE moved == <<wf'.pc, wf'.level>> # <<wf.pc, wf.level>>
<1>2. /\ attempt' = IF ~moved THEN attempt ELSE IF wf'.pc \in Activities THEN 1 ELSE 0
      /\ result' = IF moved THEN "none" ELSE result
      /\ fired' = (fired /\ ~moved)
  BY DEF WorkflowTask
<1>3. /\ Fits(wf') /\ wf'.pc # "none"
      /\ wf'.pc = "await" => ~Owned(wf')
      /\ result # "none" => moved
      /\ wf.pc # "await" /\ result = "none" => wf'.pc = wf.pc
  <2>1. LET v == AfterTask IN
           /\ Fits(v) /\ v.pc # "none"
           /\ v.pc = "await" => ~Owned(v)
           /\ result # "none" => v.pc # wf.pc
           /\ wf.pc # "await" /\ result = "none" => v.pc = wf.pc
    BY <1>0, TaskFits
  <2>2. QED
    BY <1>1, <2>1
<1>4. attempt' \in 0..MaxAttempts /\ fired' \in BOOLEAN /\ result' = "none"
  BY <1>0, <1>2, <1>3, BoundAssumption DEF TypeOK
<1>5. TypeOK'
  BY <1>0, <1>1, <1>3, <1>4 DEF TypeOK, Fits, FlowType, rowVars, pageVars
<1>6. TrailFits(wf)' /\ OwnerFits(wf)' /\ LateFits(wf)'
  <2> DEFINE v == wf'
  <2>1. TrailFits(v) /\ OwnerFits(v) /\ LateFits(v)
    BY <1>3 DEF Fits
  <2>2. status' = status /\ notified' = notified /\ called' = called /\ late' = late
    BY <1>1 DEF rowVars, pageVars
  <2>3. TrailFits(wf)'
    BY <2>1, <2>2 DEF TrailFits
  <2>4. OwnerFits(wf)'
    BY <2>1, <2>2 DEF OwnerFits
  <2>5. LateFits(wf)'
    BY <2>1, <2>2 DEF LateFits
  <2>6. QED
    BY <2>3, <2>4, <2>5
<1>7. RowsFit' /\ SignalFits'
  BY <1>0, <1>1 DEF RowsFit, SignalFits, rowVars, pageVars
<1>8. ResultFits'
  <2>1. seen # "none" => wf'.pc = "check"
    BY <1>0, <1>3 DEF ResultFits
  <2>2. QED
    BY <1>0, <1>1, <1>3, <1>4, <2>1 DEF ResultFits, rowVars, pageVars
<1>9. QED
  BY <1>5, <1>6, <1>7, <1>8 DEF IInv

\* A clock tick, a timer and the reading of the row.
LEMMA QuietInv ==
    ASSUME IInv, TimerFires \/ ReadStatus \/ Tick
    PROVE  IInv'
<1>0. TypeOK /\ ResultFits /\ SignalFits
  BY DEF IInv
<1>1. UNCHANGED <<status, alerted, starter, wf, attempt, result, channel, request, pageVars, faults>>
  BY DEF TimerFires, ReadStatus, Tick, rowVars, actVars
<1>2. TrailFits(wf)' /\ RowsFit' /\ OwnerFits(wf)' /\ LateFits(wf)'
  BY <1>1, RowStepFits
<1>3. fired' \in BOOLEAN
  BY <1>0 DEF TypeOK, TimerFires, ReadStatus, Tick, actVars
<1>4. now' \in 0..MaxTime
  BY <1>0, BoundAssumption DEF TypeOK, TimerFires, ReadStatus, Tick
<1>5. seen' = seen \/ (Scheduled /\ wf.pc = "check" /\ seen' = status)
  BY DEF TimerFires, ReadStatus, Tick, actVars
<1>6. seen' \in {"none", "open", "acknowledged", "resolved"}
  BY <1>0, <1>5 DEF TypeOK
<1>7. TypeOK'
  BY <1>0, <1>1, <1>3, <1>4, <1>6 DEF TypeOK, pageVars
<1>8. late # {} => status # "open"
  BY DEF IInv, LateFits
<1>9. ResultFits' /\ SignalFits'
  <2>1. ResultFits'
    BY <1>0, <1>1, <1>5, <1>8 DEF ResultFits, Scheduled, CurrentPage, pageVars
  <2>2. SignalFits'
    BY <1>0, <1>1 DEF SignalFits
  <2>3. QED
    BY <2>1, <2>2
<1>10. QED
  BY <1>2, <1>7, <1>9 DEF IInv

\* The page in hand.
LEMMA CurrentPageIsAPage ==
    ASSUME TypeOK
    PROVE  CurrentPage \in Pages
BY PagesDiffer DEF TypeOK, CurrentPage

\* A call for the page in hand, with or without its row.
LEMMA PostFits ==
    ASSUME IInv, Scheduled, wf.pc # "check", Post, UNCHANGED <<wf, status>>,
           UNCHANGED notified \/ \E outcome \in {"sent", "failed"} : Record(outcome)
    PROVE  /\ called' \in [Pages -> SUBSET (Contacts \union {NoOne})]
           /\ late' \subseteq Pages
           /\ notified' \in [Pages -> {"none", "sent", "failed"}]
           /\ TrailFits(wf)' /\ RowsFit' /\ OwnerFits(wf)' /\ LateFits(wf)'
<1> DEFINE c == CurrentPage
<1>0. /\ TypeOK /\ TrailFits(wf) /\ RowsFit /\ OwnerFits(wf) /\ LateFits(wf)
      /\ wf.pc \in {"page", "exhaust"} /\ wf.level \in 1..Levels /\ wf.level \in Nat /\ Levels \in Nat
      /\ wf.contact \in Contacts \union {NoOne}
  BY PolicyType DEF IInv, TypeOK, Scheduled, Activities
<1>1. /\ c \in Pages
      /\ wf.pc = "page" => c = Escalation(wf.level)
      /\ wf.pc = "exhaust" => c = Exhausted
  BY <1>0, CurrentPageIsAPage DEF CurrentPage
<1>2. /\ called' = [called EXCEPT ![c] = @ \union {wf.contact}]
      /\ late' = late \/ (called[c] = {} /\ status # "open" /\ late' = late \union {c})
  BY DEF Post, Late
<1>3. /\ called' \in [Pages -> SUBSET (Contacts \union {NoOne})] /\ late' \subseteq Pages
      /\ notified' \in [Pages -> {"none", "sent", "failed"}]
  <2> HIDE DEF c
  <2>1. called' \in [Pages -> SUBSET (Contacts \union {NoOne})] /\ late' \subseteq Pages
    BY <1>0, <1>1, <1>2 DEF TypeOK
  <2>2. notified' \in [Pages -> {"none", "sent", "failed"}]
    BY <1>0, <1>1 DEF TypeOK, Record
  <2>3. QED
    BY <2>1, <2>2
<1>4. \A g \in Pages : called'[g] = IF g = c THEN called[g] \union {wf.contact} ELSE called[g]
  <2> HIDE DEF c
  <2>1. QED
    BY <1>0, <1>1, <1>2 DEF TypeOK
<1>5. \A g \in Pages : /\ notified[g] # "none" => notified'[g] # "none"
                       /\ notified'[g] # "none" => notified[g] # "none" \/ g = c
  <2>1. CASE UNCHANGED notified
    BY <2>1
  <2>2. ASSUME NEW outcome \in {"sent", "failed"}, Record(outcome)
        PROVE  \A g \in Pages : /\ notified[g] # "none" => notified'[g] # "none"
                                /\ notified'[g] # "none" => notified[g] # "none" \/ g = c
    BY <1>0, <1>1, <2>2 DEF Record, TypeOK
  <2>3. QED
    BY <2>1, <2>2
<1> HIDE DEF c
<1>6. RowsFit'
  <2>1. \A g \in Pages : notified'[g] # "none" => called'[g] # {}
    BY <1>0, <1>4, <1>5 DEF RowsFit
  <2>2. CASE wf.pc = "page"
    <3>1. called'[Exhausted] = {}
      BY <1>0, <1>1, <1>4, <2>2, PagesDiffer DEF TrailFits, Ended
    <3>2. QED
      BY <2>1, <3>1 DEF RowsFit
  <2>3. CASE wf.pc = "exhaust"
    <3>1. \A k \in 1..Levels : k < wf.level \/ k = wf.level
      BY <1>0, <2>3 DEF TrailFits
    <3>2. \A k \in 1..Levels : notified[Escalation(k)] # "none"
      BY <1>0, <2>3, <3>1 DEF TrailFits
    <3>3. QED
      BY <1>5, <2>1, <3>2, PagesDiffer DEF RowsFit
  <2>4. QED
    BY <1>0, <2>2, <2>3
<1>7. OwnerFits(wf)'
  BY <1>0 DEF OwnerFits
<1>8. TrailFits(wf)'
  <2>1. \A k \in 1..Levels : k < wf.level => notified'[Escalation(k)] # "none"
    BY <1>0, <1>5, PagesDiffer DEF TrailFits
  <2>2. \A k \in 1..Levels : k > wf.level => called'[Escalation(k)] = {}
    <3>1. \A k \in 1..Levels : k > wf.level => Escalation(k) # c
      BY <1>0, <1>1, PagesDiffer
    <3>2. QED
      BY <1>0, <1>4, <3>1, PagesDiffer DEF TrailFits
  <2>3. CASE wf.pc = "page"
    <3>1. called'[Exhausted] = {} /\ called'[Escalation(wf.level)] \subseteq {wf.contact}
      BY <1>0, <1>1, <1>4, <2>3, PagesDiffer DEF TrailFits, Ended
    <3>2. QED
      BY <2>1, <2>2, <2>3, <3>1 DEF TrailFits
  <2>4. CASE wf.pc = "exhaust"
    <3>1. /\ called'[Exhausted] \subseteq {wf.contact} /\ wf.level = Levels
          /\ notified'[Escalation(wf.level)] # "none"
      BY <1>0, <1>1, <1>4, <1>5, <2>4, PagesDiffer DEF TrailFits
    <3>2. QED
      BY <2>1, <2>2, <2>4, <3>1 DEF TrailFits
  <2>5. QED
    BY <1>0, <2>3, <2>4
<1>9. LateFits(wf)'
  <2>1. late' # {} => status' # "open"
    BY <1>0, <1>2 DEF LateFits
  <2>2. \A g \in late' : called'[g] # {}
    <3>1. \A g \in late : g \in Pages /\ called[g] # {}
      BY <1>0 DEF LateFits, TypeOK
    <3>2. QED
      BY <1>1, <1>2, <1>4, <3>1
  <2>3. \A l \in 1..Levels : Escalation(l) \in late' => l = wf.level
    <3>1. \A l \in 1..Levels : Escalation(l) \in late => l = wf.level
      BY <1>0 DEF LateFits, Ended
    <3>2. \A l \in 1..Levels : Escalation(l) = c => l = wf.level
      BY <1>0, <1>1, PagesDiffer
    <3>3. QED
      BY <1>2, <3>1, <3>2
  <2>4. QED
    BY <1>0, <2>1, <2>2, <2>3 DEF LateFits
<1>10. QED
  BY <1>3, <1>6, <1>7, <1>8, <1>9

\* An attempt of an activity.
LEMMA ActivityInv ==
    ASSUME IInv, ActivityOK \/ ActivityFails
    PROVE  IInv'
<1>0. /\ TypeOK /\ ResultFits /\ SignalFits /\ Scheduled /\ result = "none"
      /\ wf.pc \in {"check", "page", "exhaust"}
  BY DEF IInv, ActivityOK, ActivityFails, Scheduled, Activities
<1>1. /\ UNCHANGED <<rowVars, starter, wf, fired, channel, request, now>>
      /\ seen' = "none" /\ (faults' = faults \/ Fault)
  BY DEF ActivityOK, ActivityFails
<1>2. /\ \/ UNCHANGED pageVars
         \/ /\ wf.pc # "check" /\ Post
            /\ UNCHANGED notified \/ \E outcome \in {"sent", "failed"} : Record(outcome)
      /\ ActivityOK => IF wf.pc = "check" THEN seen # "none" /\ UNCHANGED pageVars
                       ELSE \E outcome \in {"sent", "failed"} : Post /\ Record(outcome)
  BY DEF ActivityOK, ActivityFails, Dispatch
<1>3. /\ called' \in [Pages -> SUBSET (Contacts \union {NoOne})]
      /\ late' \subseteq Pages
      /\ notified' \in [Pages -> {"none", "sent", "failed"}]
      /\ TrailFits(wf)' /\ RowsFit' /\ OwnerFits(wf)' /\ LateFits(wf)'
  <2>1. CASE UNCHANGED pageVars
    <3>1. TrailFits(wf)' /\ RowsFit' /\ OwnerFits(wf)' /\ LateFits(wf)'
      BY <1>1, <2>1, RowStepFits DEF rowVars
    <3>2. QED
      BY <1>0, <2>1, <3>1 DEF TypeOK, pageVars
  <2>2. CASE /\ wf.pc # "check" /\ Post
             /\ UNCHANGED notified \/ \E outcome \in {"sent", "failed"} : Record(outcome)
    BY <1>0, <1>1, <2>2, PostFits DEF rowVars
  <2>3. QED
    BY <1>2, <2>1, <2>2
<1>4. /\ attempt' \in 0..MaxAttempts
      /\ result' \in {"none", "failed", IF wf.pc = "check" THEN seen ELSE "ok"}
      /\ result' = "ok" => ActivityOK /\ wf.pc # "check"
  <2>1. CASE ActivityOK
    BY <1>0, <2>1, BoundAssumption DEF ActivityOK, TypeOK
  <2>2. CASE ActivityFails
    <3>1. attempt' \in 0..MaxAttempts
      BY <1>0, <2>2, BoundAssumption DEF ActivityFails, TypeOK
    <3>2. result' \in {"none", "failed"}
      BY <1>0, <2>2 DEF ActivityFails
    <3>3. QED
      BY <3>1, <3>2
  <2>3. QED
    BY <2>1, <2>2
<1>5. faults' \in 0..MaxFaults
  BY <1>0, <1>1, BoundAssumption DEF TypeOK, Fault
<1>6. TypeOK'
  <2>1. result' \in {"none", "failed", "ok", "open", "acknowledged", "resolved"}
    BY <1>0, <1>4 DEF TypeOK
  <2>2. QED
    BY <1>0, <1>1, <1>3, <1>4, <1>5, <2>1 DEF TypeOK, rowVars
<1>7. SignalFits'
  BY <1>0, <1>1 DEF SignalFits, rowVars
<1>8. result' = "ok" => notified'[CurrentPage] # "none"
  <2>1. SUFFICES ASSUME result' = "ok" PROVE notified'[CurrentPage] # "none"
    OBVIOUS
  <2>2. PICK outcome \in {"sent", "failed"} : Record(outcome)
    BY <1>2, <1>4, <2>1
  <2>3. QED
    BY <1>0, <2>2, CurrentPageIsAPage DEF Record, TypeOK
<1>9. ResultFits'
  <2>1. CurrentPage' = CurrentPage /\ wf' = wf /\ status' = status
    BY <1>1 DEF CurrentPage, rowVars
  <2>2. wf.pc = "check" => late' = late
    BY <1>2 DEF pageVars
  <2>3. QED
    BY <1>0, <1>1, <1>4, <1>8, <2>1, <2>2 DEF ResultFits, Ended, TypeOK
<1>10. QED
  BY <1>3, <1>6, <1>7, <1>9 DEF IInv

LEMMA NextInv == IInv /\ [Next]_vars => IInv'
<1> SUFFICES ASSUME IInv, [Next]_vars PROVE IInv'
  OBVIOUS
<1>1. CASE \E p \in People : PersonStep(p)
  BY <1>1, PersonInv
<1>2. CASE AutoResolve
  <2>1. UNCHANGED <<wf, attempt, result, seen, fired, pageVars, alerted, starter, channel,
                    request, now, faults>> /\ status' = "resolved"
    BY <1>2 DEF AutoResolve, actVars
  <2>2. TypeOK'
    BY <2>1 DEF IInv, TypeOK, pageVars
  <2>3. TrailFits(wf)' /\ RowsFit' /\ OwnerFits(wf)' /\ LateFits(wf)'
    BY <2>1, RowStepFits
  <2>4. ResultFits' /\ SignalFits'
    BY <2>1 DEF IInv, ResultFits, SignalFits, CurrentPage, pageVars
  <2>5. QED
    BY <2>2, <2>3, <2>4 DEF IInv
<1>3. CASE \E s \in Starters : StarterStep(s)
  BY <1>3, StarterInv
<1>4. CASE WorkflowTask
  BY <1>4, TaskInv
<1>5. CASE TimerFires \/ ReadStatus \/ Tick
  BY <1>5, QuietInv
<1>6. CASE ActivityOK \/ ActivityFails
  BY <1>6, ActivityInv
<1>7. CASE UNCHANGED vars
  <2>1. UNCHANGED <<wf, pageVars, status>>
    BY <1>7 DEF vars, pageVars
  <2>2. TrailFits(wf)' /\ RowsFit' /\ OwnerFits(wf)' /\ LateFits(wf)'
    BY <2>1, RowStepFits
  <2>3. TypeOK'
    BY <1>7 DEF IInv, TypeOK, vars
  <2>4. ResultFits' /\ SignalFits'
    BY <1>7 DEF IInv, ResultFits, SignalFits, CurrentPage, vars
  <2>5. QED
    BY <2>2, <2>3, <2>4 DEF IInv
<1>8. QED
  BY <1>1, <1>2, <1>3, <1>4, <1>5, <1>6, <1>7 DEF Next

\* The inductive invariant holds in every reachable state.
THEOREM Invariance == Spec => []IInv
<1>1. QED
  BY InitInv, NextInv, PTL DEF Spec

-----------------------------------------------------------------------------
(* The properties.                                                         *)

\* Every variable keeps its type (the columns, local variables and requests).
THEOREM TypeCorrect == Spec => []TypeOK
<1>1. IInv => TypeOK
  BY DEF IInv
<1>2. QED
  BY <1>1, Invariance, PTL

\* Levels are called in order, each after the row of the one below it, and no row
\* stands for a call that was not made (IncidentAlertWorkflow, SendNotification).
THEOREM TrailComplete == Spec => []TrailHasNoGap
<1>1. IInv => TrailHasNoGap
  <2> SUFFICES ASSUME IInv PROVE TrailHasNoGap
    OBVIOUS
  <2>0. TrailFits(wf) /\ RowsFit /\ wf.level \in Nat /\ wf.level \in 1..Levels /\ Levels \in Nat
    BY PolicyType DEF IInv, TypeOK
  <2>1. ASSUME NEW l \in 1..Levels, called[Escalation(l)] # {}, NEW k \in 1..(l - 1)
        PROVE  notified[Escalation(k)] # "none"
    <3>1. ~(l > wf.level)
      BY <2>0, <2>1 DEF TrailFits
    <3>2. k \in 1..Levels /\ k < wf.level
      BY <2>0, <3>1
    <3>3. QED
      BY <2>0, <3>2 DEF TrailFits
  <2>2. QED
    BY <2>0, <2>1 DEF TrailHasNoGap, RowsFit
<1>2. QED
  BY <1>1, Invariance, PTL

\* At most one level is called once the incident has an owner (CheckIncidentStatus
\* before every page).
THEOREM OwnerStops == Spec => []OwnerStopsEscalation
<1>1. IInv => OwnerStopsEscalation
  <2> SUFFICES ASSUME IInv PROVE OwnerStopsEscalation
    OBVIOUS
  <2> DEFINE L == late \ {Exhausted}
  <2>1. \A g \in L : \E l \in 1..Levels : g = Escalation(l)
    BY PagesDiffer DEF IInv, TypeOK
  <2>2. \A g, h \in L : g = h
    BY <2>1 DEF IInv, LateFits
  <2>3. CASE L = {}
    BY <2>3, FS_EmptySet DEF OwnerStopsEscalation
  <2>4. CASE L # {}
    <3>1. PICK g \in L : L = {g}
      BY <2>2, <2>4
    <3>2. Cardinality(L) = 1
      BY <3>1, FS_Singleton
    <3>3. QED
      BY <3>2 DEF OwnerStopsEscalation
  <2>5. QED
    BY <2>3, <2>4
<1>2. QED
  BY <1>1, Invariance, PTL

\* A run closes over an open incident only when everybody was called (the end of
\* IncidentAlertWorkflow).
THEOREM ClosedOpen == Spec => []ClosedOpenMeansAllPaged
<1>1. IInv => ClosedOpenMeansAllPaged
  BY DEF IInv, OwnerFits, ClosedOpenMeansAllPaged
<1>2. QED
  BY <1>1, Invariance, PTL

\* The attempts of a page call one contact and write one row (the arguments of
\* SendNotification, recordNotificationSQL).
THEOREM PagesFinal == Spec => PageIsFinal
<1> DEFINE Final == \A g \in Pages : /\ called[g] # {} => called'[g] = called[g]
                                     /\ notified[g] # "none" => notified'[g] = notified[g]
<1>1. IInv /\ [Next]_vars => [Final]_vars
  <2> SUFFICES ASSUME IInv, [Next]_vars, ~UNCHANGED pageVars PROVE Final
    BY DEF pageVars
  <2>1. TypeOK /\ TrailFits(wf) /\ CurrentPage \in Pages
    BY CurrentPageIsAPage DEF IInv
  <2>2. ActivityOK \/ ActivityFails
    BY DEF Next, vars, pageVars, PersonStep, Acknowledge, Resolve, SignalWorkflow, SignalFails,
           AutoResolve, StarterStep, ListOpen, Start, StartFails, Mark, MarkFails, WorkflowTask,
           TimerFires, ReadStatus, Tick
  <2>3. /\ wf.pc \in {"page", "exhaust"} /\ Post
        /\ UNCHANGED notified \/ \E outcome \in {"sent", "failed"} : Record(outcome)
    BY <2>2 DEF ActivityOK, ActivityFails, Dispatch, Scheduled, Activities
  <2>4. called[CurrentPage] \subseteq {wf.contact}
    BY <2>1, <2>3 DEF TrailFits, CurrentPage
  <2>5. \A g \in Pages : called[g] # {} => called'[g] = called[g]
    BY <2>1, <2>3, <2>4 DEF Post, TypeOK
  <2>6. \A g \in Pages : notified[g] # "none" => notified'[g] = notified[g]
    BY <2>1, <2>3 DEF Record, TypeOK
  <2>7. QED
    BY <2>5, <2>6
<1>2. QED
  BY <1>1, Invariance, PTL DEF Spec, PageIsFinal

\* What a step may do to the workflow's local state.
LEMMA FlowSteps ==
    ASSUME IInv, [Next]_vars
    PROVE  \/ wf' = wf
           \/ wf.pc = "none" /\ wf' = [NoFlow EXCEPT !.pc = "check"]
           \/ Running /\ wf' = AfterTask
BY DEF Next, vars, PersonStep, Acknowledge, Resolve, SignalWorkflow, SignalFails,
       AutoResolve, StarterStep, ListOpen, Start, StartFails, Mark, MarkFails, Launch, WorkflowTask,
       TimerFires, ReadStatus, Tick, ActivityOK, ActivityFails

\* A workflow that knows of an owner goes nowhere but to its end (the signal
\* routines and AwaitWithTimeout).
THEOREM OwnedNotPaged == Spec => OwnedIsNotPaged
<1>1. IInv /\ [Next]_vars => [Owned(wf) => wf'.pc \in {wf.pc} \union Ended]_vars
  <2> SUFFICES ASSUME IInv, [Next]_vars, Owned(wf) PROVE wf'.pc \in {wf.pc} \union Ended
    OBVIOUS
  <2>1. wf.pc # "none"
    BY DEF IInv, TrailFits
  <2>2. CASE wf' = wf
    BY <2>2
  <2>3. CASE Running /\ wf' = AfterTask
    BY <2>3, TaskFits
  <2>4. QED
    BY <2>1, <2>2, <2>3, FlowSteps
<1>2. QED
  BY <1>1, Invariance, PTL DEF Spec, OwnedIsNotPaged

\* An escalation is started once and only moves up (StartAlertWorkflow with
\* REJECT_DUPLICATE).
THEOREM NeverRestarts == Spec => EscalationNeverRestarts
<1> DEFINE Keeps == /\ wf.pc # "none" => wf'.level >= wf.level /\ wf'.pc # "none"
                    /\ wf.pc \in Ended => wf' = wf
<1>1. IInv /\ [Next]_vars => [Keeps]_vars
  <2> SUFFICES ASSUME IInv, [Next]_vars PROVE Keeps
    OBVIOUS
  <2>1. wf.level \in Nat
    BY PolicyType DEF IInv, TypeOK
  <2>2. CASE wf' = wf
    BY <2>1, <2>2
  <2>3. CASE Running /\ wf' = AfterTask
    BY <2>3, TaskFits DEF Running
  <2>4. CASE wf.pc = "none"
    BY <2>4 DEF Ended
  <2>5. QED
    BY <2>2, <2>3, <2>4, FlowSteps
<1>2. QED
  BY <1>1, Invariance, PTL DEF Spec, EscalationNeverRestarts

-----------------------------------------------------------------------------
(* The rotations.                                                          *)

\* A day of 0..n-1 has the next one, and 0 after the last.
LEMMA NextModulo ==
    ASSUME NEW a \in Nat, NEW n \in Nat \ {0}
    PROVE  /\ a % n \in 0..(n - 1)
           /\ (a + 1) % n = IF (a % n) + 1 = n THEN 0 ELSE (a % n) + 1
<1> DEFINE q == a \div n
           m == a % n
<1>1. q \in Nat /\ m \in 0..(n - 1) /\ a = n * q + m
  OBVIOUS
<1>2. ASSUME NEW p \in Nat, NEW k \in 0..(n - 1) PROVE (n * p + k) % n = k
  OBVIOUS
<1> SUFFICES m \in 0..(n - 1) /\ (a + 1) % n = IF m + 1 = n THEN 0 ELSE m + 1
  OBVIOUS
<1> HIDE DEF q, m
<1>3. CASE m + 1 = n
  <2>1. a + 1 = n * (q + 1) + 0
    BY <1>1, <1>3
  <2>2. (n * (q + 1) + 0) % n = 0
    BY <1>1, <1>2
  <2>3. QED
    BY <1>1, <1>3, <2>1, <2>2
<1>4. CASE m + 1 # n
  <2>1. a + 1 = n * q + (m + 1) /\ m + 1 \in 0..(n - 1)
    BY <1>1, <1>4
  <2>2. (n * q + (m + 1)) % n = m + 1
    BY <1>1, <1>2, <2>1
  <2>3. QED
    BY <1>1, <1>4, <2>1, <2>2
<1>5. QED
  BY <1>3, <1>4

\* After one more shift it is the next one's turn.
LEMMA NextShift ==
    ASSUME NEW e \in Nat, NEW s \in Nat \ {0}
    PROVE  e \div s \in Nat /\ (e + s) \div s = (e \div s) + 1
OBVIOUS

\* Within the first shift nobody has taken over.
LEMMA FirstShift ==
    ASSUME NEW e \in Nat, NEW s \in Nat \ {0}, NEW n \in Nat \ {0}, e < s
    PROVE  (e \div s) % n = 0
<1>1. e \div s = 0
  OBVIOUS
<1>2. 0 % n = 0
  OBVIOUS
<1>3. QED
  BY <1>1, <1>2

\* OnCallAt where the difference of two times does not stop at MaxDuration.
LEMMA OnCallCounts ==
    ASSUME NEW l \in 1..Levels, NEW t \in Int, Policy[l].shift > 0,
           t >= Policy[l].start, t - Policy[l].start <= MaxDuration
    PROVE  OnCallAt(Policy[l], t) =
               Policy[l].contacts[(((t - Policy[l].start) \div Policy[l].shift)
                                      % Len(Policy[l].contacts)) + 1]
<1>1. PICK n \in Nat \ {0} : n = Len(Policy[l].contacts)
  BY PolicyType
<1>2. PICK s \in Nat \ {0} : s = Policy[l].shift
  BY PolicyType
<1>3. PICK e \in Nat : e = t - Policy[l].start /\ e <= MaxDuration
  BY PolicyType
<1>4. Sub(t, Policy[l].start) = e
  BY <1>3, PolicyType, PolicyAssumption DEF Sub
<1>5. CASE n = 1
  <2>1. e \div s \in Nat
    BY NextShift
  <2>2. (e \div s) % 1 = 0
    BY <2>1
  <2>3. OnCallAt(Policy[l], t) = Policy[l].contacts[1]
    BY <1>1, <1>5 DEF OnCallAt
  <2>4. QED
    BY <1>1, <1>2, <1>3, <1>5, <2>2, <2>3
<1>6. CASE n # 1
  <2>1. s # 0 /\ ~(e < 0)
    OBVIOUS
  <2>2. OnCallAt(Policy[l], t) = Policy[l].contacts[((e \div s) % n) + 1]
    BY <1>1, <1>2, <1>4, <1>6, <2>1, Zenon DEF OnCallAt
  <2>3. QED
    BY <1>1, <1>2, <1>3, <2>2
<1>7. QED
  BY <1>5, <1>6

\* Up to the end of the first shift the first contact is on call, also before the
\* rotation starts and however far away that is.
LEMMA FirstOnCall ==
    ASSUME NEW l \in 1..Levels, Policy[l].shift > 0,
           NEW t \in Int, t < Policy[l].start + Policy[l].shift
    PROVE  OnCallAt(Policy[l], t) = Policy[l].contacts[1]
<1> DEFINE r == Policy[l]
           n == Len(r.contacts)
           d == Sub(t, r.start)
<1>1. n \in Nat \ {0} /\ r.start \in Int /\ r.shift \in Nat \ {0}
  BY PolicyType
<1>2. CASE n = 1 \/ d < 0
  BY <1>2 DEF OnCallAt
<1>3. CASE ~(n = 1 \/ d < 0)
  <2>1. d \in Nat /\ d < r.shift
    <3>1. PICK p \in Int : p = r.start
      BY <1>1
    <3>2. PICK k \in Nat \ {0} : k = r.shift
      BY <1>1
    <3>3. PICK m \in Nat : m = MaxDuration
      BY PolicyAssumption
    <3>4. d = IF t - p > m THEN m ELSE IF t - p < -m THEN -m ELSE t - p
      BY <3>1, <3>3 DEF Sub
    <3>5. t - p < k
      BY <3>1, <3>2
    <3>6. ~(d < 0)
      BY <1>3
    <3>7. QED
      <4> HIDE DEF d
      <4>1. d \in Nat /\ d < k
        BY <3>4, <3>5, <3>6
      <4>2. QED
        BY <3>2, <4>1
  <2>2. (d \div r.shift) % n = 0
    <3> HIDE DEF n, d, r
    <3>1. QED
      BY <1>1, <2>1, FirstShift DEF r
  <2>3. OnCallAt(r, t) = r.contacts[((d \div r.shift) % n) + 1]
    BY <1>1, <1>3 DEF OnCallAt
  <2>4. QED
    BY <2>2, <2>3
<1>4. QED
  BY <1>2, <1>3

\* No rotation began so long ago that a difference of times would stop at the
\* longest Duration within the next round and a shift.
RotationsAreRecent ==
    \A l \in 1..Levels : Policy[l].shift > 0 /\ Wire[l].start # Unset =>
        MaxTime + (Len(Policy[l].contacts) + 1) * Policy[l].shift - Policy[l].start
            <= MaxDuration

\* From the start on, whoever is on call hands over to the next contact in the list
\* one shift later.
LEMMA TurnAndNext ==
    ASSUME NEW l \in 1..Levels, Policy[l].shift > 0,
           NEW t \in Int, t >= Policy[l].start,
           t + Policy[l].shift - Policy[l].start <= MaxDuration
    PROVE  \E i \in 1..Len(Policy[l].contacts) :
               /\ OnCallAt(Policy[l], t) = Policy[l].contacts[i]
               /\ OnCallAt(Policy[l], t + Policy[l].shift)
                      = Policy[l].contacts[(i % Len(Policy[l].contacts)) + 1]
<1>1. PICK n \in Nat \ {0} : n = Len(Policy[l].contacts)
  BY PolicyType
<1>2. PICK s \in Nat \ {0} : s = Policy[l].shift
  BY PolicyType
<1>3. PICK e \in Nat : e = t - Policy[l].start
  BY PolicyType
<1>4. PICK k \in Nat : k = e \div s /\ (e + s) \div s = k + 1
  BY NextShift
<1>5. OnCallAt(Policy[l], t) = Policy[l].contacts[(k % n) + 1]
  <2>1. t - Policy[l].start <= MaxDuration
    <3>1. Policy[l].start \in Int /\ Policy[l].shift \in Nat /\ MaxDuration \in Nat
      BY PolicyType, PolicyAssumption
    <3>2. QED
      BY <3>1
  <2>2. OnCallAt(Policy[l], t) =
            Policy[l].contacts[(((t - Policy[l].start) \div Policy[l].shift)
                                   % Len(Policy[l].contacts)) + 1]
    BY <2>1, OnCallCounts
  <2>3. QED
    BY <1>1, <1>2, <1>3, <1>4, <2>2
<1>6. OnCallAt(Policy[l], t + Policy[l].shift) = Policy[l].contacts[((k + 1) % n) + 1]
  <2>1. PICK u \in Int : u = t + Policy[l].shift
    BY PolicyType
  <2>2. u >= Policy[l].start /\ u - Policy[l].start <= MaxDuration /\ u - Policy[l].start = e + s
    <3>1. Policy[l].start \in Int
      BY PolicyType
    <3>2. QED
      BY <1>2, <1>3, <2>1, <3>1
  <2>3. OnCallAt(Policy[l], u) =
            Policy[l].contacts[(((u - Policy[l].start) \div Policy[l].shift)
                                   % Len(Policy[l].contacts)) + 1]
    BY <2>2, OnCallCounts
  <2>4. QED
    BY <1>1, <1>2, <1>4, <2>1, <2>2, <2>3
<1>7. PICK m \in 0..(n - 1) : m = k % n /\ (k + 1) % n = IF m + 1 = n THEN 0 ELSE m + 1
  BY NextModulo
<1>8. (m + 1) % n = IF m + 1 = n THEN 0 ELSE m + 1
  BY <1>7
<1>9. m + 1 \in 1..n
  BY <1>7
<1>10. QED
  BY <1>1, <1>5, <1>6, <1>7, <1>8, <1>9

\* Rotations take turns, at any time the clock reaches (OnCallAt of package oncall),
\* as long as they did not begin 292 years ago.
THEOREM TurnsTaken ==
    ASSUME RotationsAreRecent
    PROVE  Spec => []TurnsAreTaken
<1>1. TypeOK => TurnsAreTaken
  <2> SUFFICES ASSUME TypeOK,
                      NEW l \in 1..Levels, Policy[l].shift > 0, Wire[l].start # Unset,
                      NEW t \in now..(now + Len(Policy[l].contacts) * Policy[l].shift)
               PROVE  /\ t < Policy[l].start + Policy[l].shift =>
                             OnCallAt(Policy[l], t) = Policy[l].contacts[1]
                      /\ t >= Policy[l].start =>
                             \E i \in 1..Len(Policy[l].contacts) :
                                /\ OnCallAt(Policy[l], t) = Policy[l].contacts[i]
                                /\ OnCallAt(Policy[l], t + Policy[l].shift)
                                      = Policy[l].contacts[(i % Len(Policy[l].contacts)) + 1]
    BY DEF TurnsAreTaken
  <2>1. PICK n \in Nat \ {0} : n = Len(Policy[l].contacts)
    BY PolicyType
  <2>2. PICK s \in Nat \ {0} : s = Policy[l].shift
    BY PolicyType
  <2>3. Policy[l].start \in Int
    BY PolicyType
  <2>4. now \in Int /\ now <= MaxTime /\ MaxTime \in Nat
    BY BoundAssumption DEF TypeOK
  <2>5. n * s \in Nat /\ (n + 1) * s = n * s + s
    OBVIOUS
  <2>6. t \in Int /\ t <= now + n * s
    BY <2>1, <2>2, <2>4, <2>5
  <2>7. MaxTime + (n + 1) * s - Policy[l].start <= MaxDuration
    BY <2>1, <2>2 DEF RotationsAreRecent
  <2>8. t + s - Policy[l].start <= MaxDuration
    BY <2>3, <2>4, <2>5, <2>6, <2>7, PolicyAssumption
  <2>9. QED
    BY <2>2, <2>6, <2>8, FirstOnCall, TurnAndNext
<1>2. QED
  BY <1>1, TypeCorrect, PTL

-----------------------------------------------------------------------------
(* Alerting implements EscalationLadder.                                   *)

\* Whom the page in hand is addressed to, besides IInv.
ContactFits ==
    /\ wf.pc = "page" => wf.contact \in RotaOf(wf.level)
    /\ wf.pc = "exhaust" => wf.contact = NoOne

\* What one task makes of the rung in hand.
LEMMA TaskClimbs ==
    ASSUME IInv, Running, NEW v, v = AfterTask
    PROVE  /\ Owned(wf) => Owned(v)
           /\ Owned(v) => status # "open"
           /\ \/ v.level = wf.level /\ v.pc = wf.pc /\ v.contact = wf.contact
              \/ /\ wf.pc = "await" /\ wf.level = Levels /\ v.level = wf.level
                 /\ v.pc = "exhaust" /\ v.contact = NoOne
              \/ /\ wf.pc = "await" /\ wf.level # Levels /\ v.level = wf.level + 1
                 /\ v.pc = "check"
              \/ /\ wf.pc # "await" /\ result = "failed" /\ v.level = wf.level
                 /\ v.pc = "broken"
              \/ /\ wf.pc = "check" /\ result = "open" /\ ~Owned(wf) /\ v.level = wf.level
                 /\ v.pc = "page" /\ v.contact = OnCallAt(Policy[wf.level], now)
              \/ /\ wf.pc = "check" /\ result # "none" /\ v.level = wf.level
                 /\ v.pc = "closed"
              \/ /\ wf.pc = "page" /\ result = "ok" /\ v.level = wf.level
                 /\ v.pc \in {"await", "closed"}
              \/ /\ wf.pc = "exhaust" /\ result = "ok" /\ v.level = wf.level
                 /\ v.pc = "closed"
              \/ /\ wf.pc = "await" /\ v.level = wf.level /\ v.pc = "closed"
<1> DEFINE a == Resume(wf)
           b == Drain(a)
<1>0. /\ TypeOK /\ ResultFits /\ Fits(wf) /\ RowsFit /\ FlowType(wf) /\ Running
      /\ wf.pc \in {"await", "check", "page", "exhaust"}
  BY DEF IInv, Fits, TypeOK, FlowType, Running, Activities
<1>1. Fits(v)
  BY TaskFits
<1>2. FlowType(a)
  BY <1>0, ResumeFits DEF Fits
<1>3. /\ v.level = a.level /\ v.contact = a.contact
      /\ v.pc = a.pc \/ (a.pc = "await" /\ v.pc = "closed")
      /\ Owned(a) => Owned(v)
  <2> HIDE DEF a
  <2>1. /\ b.pc = a.pc /\ b.level = a.level /\ b.contact = a.contact /\ FlowType(b)
        /\ b.acked = (a.acked \/ "acknowledge" \in channel)
        /\ b.resolved = (a.resolved \/ "resolve" \in channel)
    BY <1>2 DEF Drain, FlowType
  <2>2. v = Wake(b)
    BY DEF AfterTask, a
  <2> HIDE DEF b
  <2>3. CASE b.pc = "await" /\ Owned(b)
    <3>1. /\ v.pc = "closed" /\ v.level = b.level /\ v.contact = b.contact
          /\ v.acked = b.acked /\ v.resolved = b.resolved
      BY <2>1, <2>2, <2>3 DEF Wake, FlowType
    <3>2. QED
      BY <2>1, <2>3, <3>1 DEF Owned
  <2>4. CASE ~(b.pc = "await" /\ Owned(b))
    BY <2>1, <2>2, <2>4 DEF Wake, Owned
  <2>5. QED
    BY <2>3, <2>4
<1>4. Owned(v) => status # "open"
  BY <1>1 DEF Fits, OwnerFits
<1>5. CASE a = wf
  BY <1>3, <1>4, <1>5
<1>6. CASE wf.pc = "await" /\ fired
  <2>1. a = NextLevel(wf)
    BY <1>6 DEF Resume
  <2>2. CASE wf.level = Levels
    <3>1. /\ a.pc = "exhaust" /\ a.level = wf.level /\ a.contact = NoOne
          /\ a.acked = wf.acked /\ a.resolved = wf.resolved
      BY <1>0, <2>1, <2>2 DEF NextLevel, FlowType
    <3>2. QED
      BY <1>3, <1>4, <1>6, <2>2, <3>1 DEF Owned
  <2>3. CASE wf.level # Levels
    <3>1. /\ a.pc = "check" /\ a.level = wf.level + 1
          /\ a.acked = wf.acked /\ a.resolved = wf.resolved
      BY <1>0, <2>1, <2>3 DEF NextLevel, FlowType
    <3>2. QED
      BY <1>3, <1>4, <1>6, <2>3, <3>1 DEF Owned
  <2>4. QED
    BY <2>2, <2>3
<1>7. CASE wf.pc # "await" /\ result = "failed"
  <2>1. /\ a.pc = "broken" /\ a.level = wf.level
        /\ a.acked = wf.acked /\ a.resolved = wf.resolved
    BY <1>0, <1>7 DEF Resume, FlowType
  <2>2. QED
    BY <1>3, <1>4, <1>7, <2>1 DEF Owned
<1>8. CASE wf.pc = "check" /\ result \notin {"none", "failed"}
  <2> DEFINE told == [wf EXCEPT !.acked = @ \/ result = "acknowledged",
                                !.resolved = @ \/ result = "resolved"]
             c == OnCallAt(Policy[wf.level], now)
  <2>1. /\ told.pc = "check" /\ told.level = wf.level
        /\ told.acked = (wf.acked \/ result = "acknowledged")
        /\ told.resolved = (wf.resolved \/ result = "resolved")
        /\ FlowType(told)
    BY <1>0, <1>8 DEF FlowType
  <2>2. a = AfterCheck(wf) /\ result \in {"open", "acknowledged", "resolved"}
    BY <1>0, <1>8 DEF Resume, TypeOK, ResultFits
  <2>3. a = IF Owned(told) THEN [told EXCEPT !.pc = "closed"]
            ELSE [told EXCEPT !.pc = "page", !.contact = c]
    BY <2>1, <2>2 DEF AfterCheck
  <2> HIDE DEF told, a
  <2>4. CASE Owned(told)
    <3>1. a.pc = "closed" /\ a.level = wf.level /\ a.acked = told.acked /\ a.resolved = told.resolved
      BY <2>1, <2>3, <2>4 DEF FlowType
    <3>2. Owned(wf) => Owned(a)
      BY <2>1, <3>1 DEF Owned
    <3>3. QED
      BY <1>3, <1>4, <1>8, <3>1, <3>2
  <2>5. CASE ~Owned(told)
    <3>1. a.pc = "page" /\ a.level = wf.level /\ a.contact = c
      BY <2>1, <2>3, <2>5 DEF FlowType
    <3>2. ~Owned(wf) /\ result = "open"
      BY <2>1, <2>2, <2>5 DEF Owned
    <3>3. QED
      BY <1>3, <1>4, <1>8, <3>1, <3>2
  <2>6. QED
    BY <2>4, <2>5
<1>9. CASE wf.pc \in {"page", "exhaust"} /\ result \notin {"none", "failed"}
  <2>1. /\ a.pc = (IF wf.pc = "page" THEN "await" ELSE "closed") /\ a.level = wf.level
        /\ a.acked = wf.acked /\ a.resolved = wf.resolved
    BY <1>0, <1>9 DEF Resume, FlowType
  <2>2. result = "ok"
    BY <1>0, <1>9 DEF ResultFits
  <2>3. QED
    BY <1>3, <1>4, <1>9, <2>1, <2>2 DEF Owned
<1>10. (wf.pc = "await" /\ ~fired) \/ (wf.pc # "await" /\ result = "none") => a = wf
  BY DEF Resume
<1>11. QED
  BY <1>0, <1>5, <1>6, <1>7, <1>8, <1>9, <1>10

LEMMA ContactKept == IInv /\ ContactFits /\ [Next]_vars => ContactFits'
<1> SUFFICES ASSUME IInv, ContactFits, [Next]_vars PROVE ContactFits'
  OBVIOUS
<1>1. CASE wf' = wf
  BY <1>1 DEF ContactFits
<1>2. CASE wf' = [NoFlow EXCEPT !.pc = "check"]
  BY <1>2 DEF ContactFits, NoFlow
<1>3. CASE Running /\ wf' = AfterTask
  <2>1. OnCallAt(Policy[wf.level], now) \in RotaOf(wf.level)
    BY OnCallIsOfTheLevel DEF IInv, TypeOK
  <2>2. QED
    BY <1>3, <2>1, TaskClimbs DEF ContactFits
<1>4. QED
  BY <1>1, <1>2, <1>3, FlowSteps

LEMMA ContactAlways == Spec => []ContactFits
<1>1. Init => ContactFits
  BY DEF Init, ContactFits, NoFlow
<1>2. QED
  BY <1>1, ContactKept, Invariance, PTL DEF Spec

\* The rungs are the pages, each once.
LEMMA RungsArePages ==
    /\ \A l \in 1..Levels : l \in Rungs /\ PageOf(l) = Escalation(l)
    /\ Levels + 1 \in Rungs /\ PageOf(Levels + 1) = Exhausted
    /\ \A n \in Rungs : PageOf(n) \in Pages
    /\ \A m, n \in Rungs : PageOf(m) = PageOf(n) => m = n
    /\ \A n \in Rungs : n <= Levels => n \in 1..Levels
    /\ Rungs \subseteq Nat
<1>1. Levels \in Nat
  BY PolicyType
<1>2. \A l \in 1..Levels : l \in Rungs /\ PageOf(l) = Escalation(l)
  BY <1>1 DEF Rungs, PageOf
<1>3. Levels + 1 \in Rungs /\ PageOf(Levels + 1) = Exhausted
  BY <1>1 DEF Rungs, PageOf
<1>4. \A n \in Rungs : n \in 1..Levels \/ n = Levels + 1
  BY <1>1 DEF Rungs
<1>5. QED
  BY <1>1, <1>2, <1>3, <1>4, PagesDiffer DEF Rungs

LEMMA InitLadder == Init => Ladder!Init
<1> SUFFICES ASSUME Init PROVE Ladder!Init
  OBVIOUS
<1>1. \A n \in Rungs : called[PageOf(n)] = {} /\ notified[PageOf(n)] = "none"
  BY RungsArePages DEF Init
<1>2. ~Owned(wf) /\ wf.pc = "none"
  BY DEF Init, NoFlow, Owned
<1>3. Cleared = 0
  BY <1>2 DEF Cleared, Ended
<1>4. QED
  BY <1>1, <1>2, <1>3 DEF Init, Ladder!Init, Ladder!Rungs, Rungs, Owned

Sighted == wf.pc = "check" /\ "open" \in {seen, result}

\* A step the ladder does not see.
LEMMA UnseenSteps ==
    ASSUME UNCHANGED <<status, called, notified>>, Owned(wf)' = Owned(wf),
           Cleared' = Cleared, Sighted' = Sighted
    PROVE  UNCHANGED Ladder!vars
BY DEF Ladder!vars, Sighted

\* A step of which the ladder sees at most news of an owner.
LEMMA NewsComes ==
    ASSUME UNCHANGED <<status, called, notified>>, Owned(wf) => Owned(wf)',
           Owned(wf)' => status # "open", Cleared' = Cleared, Sighted' = Sighted
    PROVE  [Ladder!Next]_Ladder!vars
<1>1. Ladder!Hear
  BY DEF Ladder!Hear, Owned
<1>2. Ladder!Learn
  BY <1>1 DEF Ladder!Learn, Sighted
<1>3. QED
  BY <1>2 DEF Ladder!Next

\* Everybody below the level in hand was told, and the level itself when it waits.
LEMMA DueFits ==
    ASSUME IInv, NEW l \in 1..Levels, l = wf.level
    PROVE  /\ Ladder!Due(l)
           /\ wf.pc = "await" => Ladder!Due(l + 1)
<1>1. Levels \in Nat /\ l \in Nat
  BY PolicyType
<1>2. \A k \in Rungs : k < l => k \in 1..Levels /\ notified[PageOf(k)] # "none"
  <2>1. ASSUME NEW k \in Rungs, k < l
        PROVE  k \in 1..Levels /\ PageOf(k) = Escalation(k)
    BY <1>1, <2>1, RungsArePages DEF Rungs
  <2>2. QED
    BY <2>1 DEF IInv, TrailFits
<1>3. wf.pc = "await" => \A k \in Rungs : k < l + 1 => notified[PageOf(k)] # "none"
  <2>1. \A k \in Rungs : k < l + 1 => k < l \/ k = l
    BY <1>1 DEF Rungs
  <2>2. wf.pc = "await" => notified[PageOf(l)] # "none"
    BY RungsArePages DEF IInv, TrailFits
  <2>3. QED
    BY <1>2, <2>1, <2>2
<1>4. QED
  BY <1>2, <1>3 DEF Ladder!Due, Ladder!Rungs, Rungs

LEMMA TaskLadder ==
    ASSUME IInv, IInv', WorkflowTask
    PROVE  [Ladder!Next]_Ladder!vars
<1>0. /\ Running /\ wf' = AfterTask
      /\ UNCHANGED <<status, called, notified, seen>> /\ result' \in {"none", result}
      /\ <<wf'.pc, wf'.level>> = <<wf.pc, wf.level>> => result' = result
      /\ <<wf'.pc, wf'.level>> # <<wf.pc, wf.level>> => result' = "none"
  BY DEF WorkflowTask, rowVars, pageVars
<1>1. PICK l \in 1..Levels : l = wf.level /\ l \in Nat /\ Levels \in Nat
  BY PolicyType DEF IInv, TypeOK
<1>2. /\ TypeOK /\ TrailFits(wf) /\ RowsFit /\ ResultFits /\ wf.pc \notin Ended
      /\ (Owned(wf) => Owned(wf)') /\ (Owned(wf)' => status # "open")
  <2>1. (Owned(wf) => Owned(wf')) /\ (Owned(wf') => status # "open")
    BY <1>0, TaskClimbs
  <2>2. Owned(wf)' = Owned(wf')
    BY DEF Owned
  <2>3. QED
    BY <1>0, <2>1, <2>2 DEF IInv, Running
<1>3. CASE wf'.level = wf.level /\ wf'.pc = wf.pc
  <2>1. Cleared' = Cleared
    BY <1>0, <1>3 DEF Cleared
  <2>2. Sighted' = Sighted
    BY <1>0, <1>3 DEF Sighted
  <2>3. QED
    BY <1>0, <1>2, <2>1, <2>2, NewsComes
<1>4. CASE /\ wf.pc = "await" /\ wf.level = Levels /\ wf'.level = wf.level
           /\ wf'.pc = "exhaust"
  <2>1. Cleared = l /\ Cleared' = l + 1 /\ ~Sighted' /\ l = Levels /\ ~Owned(wf)
    BY <1>1, <1>2, <1>4 DEF Cleared, Ended, Sighted, ResultFits
  <2>2. Ladder!Due(l + 1)
    BY <1>1, <1>4, DueFits
  <2>3. Ladder!Hear
    BY <1>2 DEF Ladder!Hear, Owned
  <2>4. Ladder!Clear
    BY <1>0, <1>1, <2>1, <2>2, <2>3 DEF Ladder!Clear, Sighted
  <2>5. QED
    BY <2>4 DEF Ladder!Next
<1>5. CASE /\ wf.pc = "await" /\ wf'.level = wf.level + 1 /\ wf'.pc = "check"
  <2>1. Cleared = l /\ Cleared' = l
    BY <1>1, <1>5 DEF Cleared, Ended
  <2>2. result' = "none" /\ seen' = "none"
    BY <1>0, <1>2, <1>5 DEF ResultFits
  <2>3. Sighted' = Sighted
    BY <1>5, <2>2 DEF Sighted
  <2>4. QED
    BY <1>0, <1>2, <2>1, <2>3, NewsComes
<1>6. CASE /\ wf.pc \in {"check", "page"} /\ result = "failed" /\ wf'.level = wf.level
           /\ wf'.pc = "broken"
  <2>1. called[Exhausted] = {} /\ (wf.pc = "check" => called[Escalation(l)] = {})
    BY <1>1, <1>2, <1>6 DEF TrailFits, Ended
  <2>2. ~Sighted /\ ~Sighted'
    BY <1>2, <1>6 DEF Sighted, ResultFits
  <2>3. /\ Cleared = IF wf.pc = "check" THEN l - 1 ELSE l
        /\ Cleared' = IF called[Escalation(l)] # {} THEN l ELSE l - 1
    BY <1>0, <1>1, <1>6, <2>1 DEF Cleared, Ended
  <2>4. CASE Cleared' = Cleared
    BY <1>0, <1>2, <2>2, <2>4, NewsComes DEF Sighted
  <2>5. CASE Cleared' # Cleared
    <3>1. Cleared = l /\ Cleared' = l - 1 /\ called[Escalation(l)] = {} /\ l > 0
      BY <1>1, <2>1, <2>3, <2>5
    <3>2. l \in Rungs /\ called[PageOf(l)] = {}
      BY <3>1, RungsArePages
    <3>3. Ladder!Hear
      BY <1>2 DEF Ladder!Hear, Owned
    <3>4. Sighted' = Sighted
      BY <2>2 DEF Sighted
    <3>5. Ladder!Withdraw
      BY <1>0, <3>1, <3>2, <3>3, <3>4 DEF Ladder!Withdraw, Sighted
    <3>6. QED
      BY <3>5 DEF Ladder!Next
  <2>6. QED
    BY <2>4, <2>5
<1>7. CASE /\ wf.pc = "exhaust" /\ result = "failed" /\ wf'.level = wf.level
           /\ wf'.pc = "broken"
  <2>1. l = Levels /\ called[Escalation(l)] # {}
    BY <1>1, <1>2, <1>7, PagesDiffer DEF TrailFits, RowsFit
  <2>2. Sighted' = Sighted
    BY <1>7 DEF Sighted
  <2>3. /\ Cleared = Levels + 1
        /\ Cleared' = IF called[Exhausted] # {} THEN Levels + 1 ELSE Levels
    BY <1>0, <1>1, <1>7, <2>1 DEF Cleared, Ended
  <2>4. CASE Cleared' = Cleared
    BY <1>0, <1>2, <2>2, <2>4, NewsComes
  <2>5. CASE Cleared' # Cleared
    <3>1. Cleared' = Levels /\ called[Exhausted] = {} /\ Levels + 1 > 0
          /\ (Levels + 1) - 1 = Levels
      BY <1>1, <2>3, <2>5
    <3>2. Levels + 1 \in Rungs /\ called[PageOf(Levels + 1)] = {}
      BY <3>1, RungsArePages
    <3>3. Ladder!Hear
      BY <1>2 DEF Ladder!Hear, Owned
    <3>4. Ladder!Withdraw
      BY <1>0, <2>2, <2>3, <3>1, <3>2, <3>3 DEF Ladder!Withdraw, Sighted
    <3>5. QED
      BY <3>4 DEF Ladder!Next
  <2>6. QED
    BY <2>4, <2>5
<1>8. CASE /\ wf.pc = "check" /\ result = "open" /\ ~Owned(wf) /\ wf'.level = wf.level
           /\ wf'.pc = "page"
  <2>1. Cleared = l - 1 /\ Cleared' = l /\ Sighted /\ ~Sighted'
    BY <1>1, <1>8 DEF Cleared, Ended, Sighted
  <2>2. Ladder!Due(l) /\ (l - 1) + 1 = l /\ l - 1 < Levels /\ l - 1 <= Levels
    BY <1>1, DueFits
  <2>3. Ladder!Hear
    BY <1>2 DEF Ladder!Hear, Owned
  <2>4. Ladder!Clear
    BY <1>0, <1>8, <2>1, <2>2, <2>3 DEF Ladder!Clear, Sighted
  <2>5. QED
    BY <2>4 DEF Ladder!Next
<1>9. CASE /\ wf.pc = "check" /\ wf'.level = wf.level /\ wf'.pc = "closed"
  <2>1. called[Exhausted] = {} /\ called[Escalation(l)] = {}
    BY <1>1, <1>2, <1>9 DEF TrailFits, Ended
  <2>2. Cleared = l - 1 /\ Cleared' = l - 1 /\ ~Sighted'
    BY <1>0, <1>1, <1>9, <2>1 DEF Cleared, Ended, Sighted
  <2>3. Ladder!Hear
    BY <1>2 DEF Ladder!Hear, Owned
  <2>4. Ladder!Forget
    BY <1>0, <2>2, <2>3 DEF Ladder!Forget, Sighted
  <2>5. QED
    BY <2>4 DEF Ladder!Next
<1>10. CASE /\ \/ wf.pc = "page" /\ result = "ok"
               \/ wf.pc = "await"
            /\ wf'.level = wf.level /\ wf'.pc \in {"await", "closed"}
  <2>1. called[Exhausted] = {} /\ called[Escalation(l)] # {}
    <3>1. wf.pc = "page" => notified[Escalation(l)] # "none"
      BY <1>1, <1>2, <1>10 DEF ResultFits, CurrentPage
    <3>2. wf.pc = "await" => notified[Escalation(l)] # "none"
      BY <1>1, <1>2 DEF TrailFits
    <3>3. called[Exhausted] = {}
      BY <1>2, <1>10 DEF TrailFits, Ended
    <3>4. QED
      BY <1>2, <1>10, <3>1, <3>2, <3>3, PagesDiffer DEF RowsFit
  <2>2. Cleared = l /\ Cleared' = l
    BY <1>0, <1>1, <1>10, <2>1 DEF Cleared, Ended
  <2>3. Sighted' = Sighted
    BY <1>10 DEF Sighted
  <2>4. QED
    BY <1>0, <1>2, <2>2, <2>3, NewsComes
<1>11. CASE /\ wf.pc = "exhaust" /\ result = "ok" /\ wf'.level = wf.level
            /\ wf'.pc = "closed"
  <2>1. called[Exhausted] # {}
    BY <1>2, <1>11, PagesDiffer DEF ResultFits, CurrentPage, RowsFit
  <2>2. Cleared = Levels + 1 /\ Cleared' = Levels + 1
    BY <1>0, <1>11, <2>1 DEF Cleared, Ended
  <2>3. Sighted' = Sighted
    BY <1>11 DEF Sighted
  <2>4. QED
    BY <1>0, <1>2, <2>2, <2>3, NewsComes
<1>12. wf.pc \in {"check", "page", "exhaust", "await"}
  BY <1>0, <1>2 DEF TypeOK, Running, Activities
<1>13. QED
  BY <1>0, <1>3, <1>4, <1>5, <1>6, <1>7, <1>8, <1>9, <1>10, <1>11, <1>12, TaskClimbs

\* The status read as open is the sight the next level needs.
LEMMA ReadLadder ==
    ASSUME IInv, ReadStatus
    PROVE  [Ladder!Next]_Ladder!vars
<1>1. PICK l \in 1..Levels : l = wf.level /\ l \in Nat /\ Levels \in Nat
  BY PolicyType DEF IInv, TypeOK
<1>2. /\ UNCHANGED <<status, wf, result, called, notified>>
      /\ wf.pc = "check" /\ result = "none" /\ seen = "none" /\ seen' = status
  BY DEF ReadStatus, Scheduled, rowVars, pageVars
<1>3. Cleared = l - 1 /\ Cleared' = Cleared /\ Owned(wf)' = Owned(wf)
  BY <1>1, <1>2 DEF Cleared, Ended, Owned
<1>4. CASE status = "open"
  <2>1. Sighted' /\ (l - 1) + 1 = l /\ l - 1 < Levels
    BY <1>1, <1>2, <1>4 DEF Sighted
  <2>2. Ladder!Due(l)
    BY <1>1, DueFits
  <2>3. Ladder!Sight
    BY <1>2, <1>3, <1>4, <2>1, <2>2 DEF Ladder!Sight, Sighted
  <2>4. QED
    BY <2>3 DEF Ladder!Next
<1>5. CASE status # "open"
  <2>1. Sighted' = Sighted
    BY <1>2, <1>5 DEF Sighted
  <2>2. QED
    BY <1>2, <1>3, <2>1, UnseenSteps
<1>6. QED
  BY <1>4, <1>5

\* A call for the page in hand, with or without its row, is a call of its rung.
LEMMA PostLadder ==
    ASSUME IInv, ContactFits, Scheduled, wf.pc # "check", Post,
           UNCHANGED <<status, wf>>, seen' = "none", Sighted' = Sighted,
           UNCHANGED notified \/ \E outcome \in {"sent", "failed"} : Record(outcome)
    PROVE  [Ladder!Next]_Ladder!vars
<1>0. /\ wf.pc \in {"page", "exhaust"} /\ TrailFits(wf) /\ wf.level \in 1..Levels
      /\ called \in [Pages -> SUBSET (Contacts \union {NoOne})]
      /\ notified \in [Pages -> {"none", "sent", "failed"}]
      /\ Levels \in Nat
  BY PolicyType DEF IInv, TypeOK, Scheduled, Activities
<1>1. PICK n \in Rungs : /\ n = (IF wf.pc = "page" THEN wf.level ELSE Levels + 1)
                         /\ PageOf(n) = CurrentPage /\ n > 0
  BY <1>0, RungsArePages DEF CurrentPage, Rungs
<1>2. Cleared = n /\ Cleared' = n
  BY <1>0, <1>1 DEF Cleared, Ended
<1>3. wf.contact \in RotaOf(n) /\ called[PageOf(n)] \subseteq {wf.contact}
  <2>1. CASE wf.pc = "page"
    BY <1>0, <1>1, <2>1 DEF ContactFits, TrailFits, CurrentPage
  <2>2. CASE wf.pc = "exhaust"
    BY <1>0, <1>1, <2>2 DEF ContactFits, TrailFits, CurrentPage, RotaOf
  <2>3. QED
    BY <1>0, <2>1, <2>2
<1>4. [m \in Rungs |-> called[PageOf(m)]]' =
          [[m \in Rungs |-> called[PageOf(m)]] EXCEPT ![n] = {wf.contact}]
  <2>1. called'[PageOf(n)] = {wf.contact}
    BY <1>0, <1>1, <1>3, RungsArePages DEF Post
  <2>2. \A m \in Rungs \ {n} : called'[PageOf(m)] = called[PageOf(m)]
    BY <1>0, <1>1, RungsArePages DEF Post
  <2>3. QED
    BY <2>1, <2>2
<1>5. \/ notified' = notified
      \/ /\ notified[PageOf(n)] = "none"
         /\ \E report \in {"sent", "failed"} :
               [m \in Rungs |-> notified[PageOf(m)]]' =
                   [[m \in Rungs |-> notified[PageOf(m)]] EXCEPT ![n] = report]
  <2>1. ASSUME NEW outcome \in {"sent", "failed"}, Record(outcome), notified' # notified
        PROVE  /\ notified[PageOf(n)] = "none"
               /\ [m \in Rungs |-> notified[PageOf(m)]]' =
                      [[m \in Rungs |-> notified[PageOf(m)]] EXCEPT ![n] = outcome]
    <3>1. notified[PageOf(n)] = "none"
      BY <1>0, <1>1, <2>1 DEF Record
    <3>2. notified'[PageOf(n)] = outcome
      BY <1>0, <1>1, <2>1, <3>1, RungsArePages DEF Record
    <3>3. \A m \in Rungs \ {n} : notified'[PageOf(m)] = notified[PageOf(m)]
      BY <1>0, <1>1, <2>1, RungsArePages DEF Record
    <3>4. QED
      BY <3>1, <3>2, <3>3
  <2>2. QED
    BY <2>1
<1>6. Owned(wf)' = Owned(wf)
  BY DEF Owned
<1>7. Ladder!Call
  BY <1>1, <1>2, <1>3, <1>4, <1>5, <1>6 DEF Ladder!Call, Sighted
<1>8. QED
  BY <1>7 DEF Ladder!Next

LEMMA ActivityLadder ==
    ASSUME IInv, ContactFits, ActivityOK \/ ActivityFails
    PROVE  [Ladder!Next]_Ladder!vars
<1>0. /\ Scheduled /\ UNCHANGED <<status, wf>> /\ seen' = "none"
      /\ result = "none" /\ ResultFits
  BY DEF ActivityOK, ActivityFails, rowVars, Scheduled, IInv
<1>1. Owned(wf)' = Owned(wf)
  BY <1>0 DEF Owned
<1>2. CASE wf.pc # "check" /\ ~UNCHANGED <<called, notified>>
  <2>1. /\ Post
        /\ UNCHANGED notified \/ \E outcome \in {"sent", "failed"} : Record(outcome)
    BY <1>2 DEF ActivityOK, ActivityFails, Dispatch, pageVars
  <2>2. Sighted' = Sighted
    BY <1>0, <1>2 DEF Sighted
  <2>3. QED
    BY <1>0, <1>2, <2>1, <2>2, PostLadder
<1>3. CASE wf.pc # "check" /\ UNCHANGED <<called, notified>>
  <2>1. Sighted' = Sighted
    BY <1>0, <1>3 DEF Sighted
  <2>2. Cleared' = Cleared
    BY <1>0, <1>3 DEF Cleared
  <2>3. QED
    BY <1>0, <1>1, <1>3, <2>1, <2>2, UnseenSteps
<1>4. CASE wf.pc = "check"
  <2>1. UNCHANGED <<called, notified>>
    BY <1>4 DEF ActivityOK, ActivityFails, pageVars
  <2>2. Cleared' = Cleared
    BY <1>0, <2>1 DEF Cleared
  <2>3. CASE ActivityOK
    <3>1. result' = seen
      BY <1>4, <2>3 DEF ActivityOK
    <3>2. Sighted' = Sighted
      BY <1>0, <1>4, <3>1 DEF Sighted
    <3>3. QED
      BY <1>0, <1>1, <2>1, <2>2, <3>2, UnseenSteps
  <2>4. CASE ActivityFails
    <3>1. result' \in {"none", "failed"}
      BY <1>0, <2>4 DEF ActivityFails
    <3>2. ~Sighted'
      BY <1>0, <3>1 DEF Sighted
    <3>3. Ladder!Hear
      BY <1>1 DEF Ladder!Hear
    <3>4. Ladder!Forget
      BY <1>0, <2>1, <2>2, <3>2, <3>3 DEF Ladder!Forget, Sighted
    <3>5. QED
      BY <3>4 DEF Ladder!Next
  <2>5. QED
    BY <2>3, <2>4
<1>5. QED
  BY <1>2, <1>3, <1>4

\* Taking the incident, in any of the three ways.
LEMMA OwnLadder ==
    ASSUME status' \in {"acknowledged", "resolved"},
           UNCHANGED <<wf, result, seen, called, notified>>
    PROVE  [Ladder!Next]_Ladder!vars
<1>1. Cleared' = Cleared /\ Owned(wf)' = Owned(wf) /\ Sighted' = Sighted
  BY DEF Cleared, Owned, Sighted
<1>2. Ladder!Own
  BY <1>1 DEF Ladder!Own, Sighted
<1>3. QED
  BY <1>2 DEF Ladder!Next

LEMMA StepLadder ==
    ASSUME IInv, ContactFits, IInv', [Next]_vars
    PROVE  [Ladder!Next]_Ladder!vars
<1> USE DEF rowVars, actVars, pageVars
<1>1. CASE UNCHANGED <<status, wf, result, seen, called, notified>>
  <2>1. Cleared' = Cleared /\ Owned(wf)' = Owned(wf) /\ Sighted' = Sighted
    BY <1>1 DEF Cleared, Owned, Sighted
  <2>2. QED
    BY <1>1, <2>1, UnseenSteps
<1>2. CASE (\E p \in People : Acknowledge(p) \/ Resolve(p)) \/ AutoResolve
  BY <1>2, OwnLadder DEF Acknowledge, Resolve, AutoResolve
<1>3. CASE \E s \in Starters : Start(s) \/ StartFails(s)
  <2>1. /\ UNCHANGED <<status, result, seen, called, notified>>
        /\ Launch \/ UNCHANGED wf
    BY <1>3 DEF Start, StartFails
  <2>2. CASE wf' = wf
    BY <1>1, <2>1, <2>2
  <2>3. CASE wf.pc = "none" /\ wf' = [NoFlow EXCEPT !.pc = "check"]
    <3>1. /\ wf'.pc = "check" /\ wf'.level = 1 /\ wf'.acked = FALSE /\ wf'.resolved = FALSE
      BY <2>3 DEF NoFlow
    <3>2. ~Owned(wf) /\ ~Owned(wf)' /\ result = "none" /\ seen = "none"
      BY <2>3, <3>1 DEF Owned, IInv, TrailFits, ResultFits
    <3>3. Cleared = 0 /\ Cleared' = 0
      BY <2>3, <3>1 DEF Cleared, Ended
    <3>4. Sighted' = Sighted
      BY <2>1, <2>3, <3>2 DEF Sighted
    <3>5. Owned(wf)' = Owned(wf)
      BY <3>2 DEF Owned
    <3>6. QED
      BY <2>1, <3>3, <3>4, <3>5, UnseenSteps
  <2>4. QED
    BY <2>1, <2>2, <2>3 DEF Launch
<1>4. CASE WorkflowTask
  BY <1>4, TaskLadder
<1>5. CASE ReadStatus
  BY <1>5, ReadLadder
<1>6. CASE ActivityOK \/ ActivityFails
  BY <1>6, ActivityLadder
<1>7. CASE \/ \E p \in People : SignalWorkflow(p) \/ SignalFails(p)
           \/ \E s \in Starters : ListOpen(s) \/ Mark(s) \/ MarkFails(s)
           \/ TimerFires \/ Tick \/ UNCHANGED vars
  BY <1>1, <1>7 DEF SignalWorkflow, SignalFails, ListOpen, Mark, MarkFails, TimerFires, Tick, vars
<1>8. QED
  BY <1>2, <1>3, <1>4, <1>5, <1>6, <1>7 DEF Next, PersonStep, StarterStep

\* Starters, tasks, attempts and signals implement the abstract ladder, for every
\* policy, any number of starters and people and whatever fails: no rung is left out,
\* every level needs a fresh sight of an incident without an owner, and each rung calls
\* one contact of its own and reports once (IncidentAlertWorkflow).
THEOREM ImplementsLadderAlways == Spec => ImplementsLadder
<1>1. IInv /\ ContactFits /\ IInv' /\ [Next]_vars => [Ladder!Next]_Ladder!vars
  BY StepLadder
<1>2. QED
  BY <1>1, InitLadder, Invariance, ContactAlways, PTL
     DEF Spec, ImplementsLadder, Ladder!Spec
=============================================================================
