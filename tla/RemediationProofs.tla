------------------------- MODULE RemediationProofs -------------------------
(***************************************************************************)
(* Proofs about Remediation for every runbook, every set of starters and   *)
(* deciders and every bound.                                               *)
(***************************************************************************)
EXTENDS Remediation, WellFoundedInduction, TLAPS

-----------------------------------------------------------------------------
(* The inductive invariant. Its parts speak of a local state w of the      *)
(* workflow, because a workflow task goes through several of them.         *)

FlowType(w) ==
    w \in [pc : {"none", "check", "record", "execute", "await"} \union Ended,
           step : Steps, record : RowStatuses, approved : BOOLEAN,
           rejected : BOOLEAN, by : Deciders \union {Nobody},
           releaser : Deciders \union {Nobody}]

\* The statuses a step may have while or after its action is carried out.
Before(i) == IF Gated(i) THEN "approved" ELSE "none"

\* Steps before the current one succeeded, steps after it are untouched.
StepsFit(w) ==
    /\ run = NoRunbook => /\ w = NoFlow
                          /\ \A i \in Steps : row[i].status = "none" /\ executed[i] = 0
    /\ run # NoRunbook => w.pc # "none" /\ w.step <= Len(run)
    /\ \A j \in Steps : j < w.step => row[j].status = "succeeded"
    /\ \A j \in Steps : j > w.step =>
          row[j].status = "none" /\ row[j].actor = Nobody /\ executed[j] = 0

\* The row of the current step agrees with where the workflow is.
RowFits(w) ==
    /\ w.pc \in {"none", "check"} => row[w.step].status = "none" /\ executed[w.step] = 0
    /\ w.pc = "await" =>
          Gated(w.step) /\ row[w.step].status = "pending" /\ executed[w.step] = 0
    /\ w.pc = "execute" => row[w.step].status = Before(w.step)
    /\ w.pc = "record" =>
          \/ /\ w.record = "pending" /\ Gated(w.step) /\ executed[w.step] = 0
             /\ row[w.step].status \in {"none", "pending"}
          \/ /\ w.record = "skipped" /\ executed[w.step] = 0
             /\ row[w.step].status \in {"none", "skipped"}
          \/ /\ w.record \in {"approved", "rejected", "timed_out"}
             /\ Gated(w.step) /\ executed[w.step] = 0
             /\ row[w.step].status \in {"pending", w.record}
          \/ /\ w.record \in {"succeeded", "failed"}
             /\ row[w.step].status \in {Before(w.step), w.record}
    /\ w.pc \in Ended /\ executed[w.step] > 0 =>
          row[w.step].status \in {Before(w.step), "succeeded", "failed"}

\* An activity that returned has had its effect, and returns what it can return.
ResultFits ==
    /\ run = NoRunbook => result = "none"
    /\ wf.pc = "check" => result # "ok"
    /\ wf.pc = "record" /\ result \notin {"none", "failed"} =>
          row[wf.step] = [status |-> wf.record, actor |-> wf.releaser]

Sent(d) == asked[d] # <<>> /\ answer[d] \in {"202", "500"}
Approver(d) == d \in Deciders /\ Sent(d) /\ asked[d][1] = "approve"

\* Nobody's decision is used for two steps: the decision held in the flags is
\* not yet in the audit trail of an earlier step, nor, once the gate is open, in
\* the record of the current one.
DecisionFits(w) ==
    /\ w.by \in Deciders => Sent(w.by)
    /\ w.approved /\ ~w.rejected => Approver(w.by)
    /\ \A j \in Steps : j < w.step =>
          /\ row[j].actor \in Deciders => row[j].actor \notin {w.by, w.releaser}
          /\ Gated(j) => Approver(row[j].actor)
    /\ \A i, j \in Steps : i < w.step /\ j < w.step /\ i # j /\ row[i].actor \in Deciders =>
          row[i].actor # row[j].actor
    /\ w.releaser \in Deciders => Sent(w.releaser)
    /\ \A j \in Steps : row[j].actor \in Deciders => Sent(row[j].actor)
    /\ row[w.step].actor \in {Nobody, w.releaser}
    /\ w.pc \in {"none", "check", "await"} \/ (w.pc = "record" /\ w.record = "pending") =>
          w.releaser = Nobody
    /\ /\ w.pc = "execute" \/ (w.pc = "record" /\ w.record \in {"succeeded", "failed"})
       /\ w.by \in Deciders
       => w.by # w.releaser
    /\ row[w.step].status \in {"approved", "succeeded", "failed", "rejected", "timed_out",
                               "skipped"} =>
          row[w.step].actor = w.releaser
    /\ /\ Gated(w.step)
       /\ \/ w.pc = "execute"
          \/ w.pc = "record" /\ w.record \in {"approved", "succeeded", "failed"}
          \/ row[w.step].status \in {"approved", "succeeded", "failed"}
       => Approver(w.releaser)

\* A signal that no task has handled is of somebody whose decision is not in use.
ChannelFits(w) ==
    \A kind \in {"approve", "reject"} : channel[kind] \in Deciders =>
        /\ Sent(channel[kind]) /\ asked[channel[kind]][1] = kind
        /\ channel[kind] \notin {w.by, w.releaser}
        /\ \A j \in Steps : row[j].actor # channel[kind]

IInv ==
    /\ TypeOK
    /\ StepsFit(wf)
    /\ RowFits(wf)
    /\ ResultFits
    /\ DecisionFits(wf)
    /\ ChannelFits(wf)

-----------------------------------------------------------------------------
(* What one task does to the workflow's local state.                       *)

FlowFits(w) == FlowType(w) /\ StepsFit(w) /\ RowFits(w) /\ DecisionFits(w)

\* A set of naturals that is not empty has a least member.
LEMMA LeastMember ==
    ASSUME NEW T, T \subseteq Nat, T # {}
    PROVE  \E i \in T : \A j \in T : ~(j < i)
<1> DEFINE R == OpToRel(<, Nat)
<1>1. IsWellFoundedOn(R, Nat)
  BY NatLessThanWellFounded
<1>2. \A i, j \in Nat : j < i => <<j, i>> \in R
  BY DEF OpToRel
<1> HIDE DEF R
<1>3. PICK i \in T : \A j \in T : ~(<<j, i>> \in R)
  BY <1>1, WFMin
<1>4. QED
  BY <1>2, <1>3

\* A valid catalog has a valid runbook for an incident, or none.
LEMMA RunbookFound ==
    ASSUME NEW s \in Starters
    PROVE  RunbookOf[s] \in Runbooks \union {NoRunbook}
<1> DEFINE c == CatalogOf[s]
           hits == {i \in 1..Len(c) : Matches(c[i].match, Incident)}
           first == CHOOSE i \in hits : \A j \in hits : ~(j < i)
<1>1. Len(c) \in Nat /\ \A i \in 1..Len(c) : c[i].steps \in Runbooks
  BY RunbookAssumption DEF Validate
<1>2. RunbookOf[s] = IF hits = {} THEN NoRunbook ELSE c[first].steps
  BY DEF RunbookOf, Find
<1>3. hits # {} => first \in hits
  <2>1. hits \subseteq Nat
    BY <1>1
  <2> HIDE DEF hits
  <2>2. hits # {} => \E i \in hits : \A j \in hits : ~(j < i)
    BY <2>1, LeastMember
  <2>3. QED
    BY <2>2
<1> HIDE DEF first
<1>4. QED
  BY <1>1, <1>2, <1>3

LEMMA RunbookType ==
    ASSUME TypeOK, run # NoRunbook
    PROVE  /\ Len(run) \in Steps /\ Len(run) \in Nat
           /\ \A i \in 1..Len(run) : run[i] \in {"auto", "approval"}
BY DEF TypeOK, Runbooks, Steps

LEMMA StepsAreNaturals == Steps \subseteq Nat
BY DEF Steps

\* Recording an outcome that leaves the decision alone keeps what DecisionFits
\* says of the earlier steps.
LEMMA WakeFits ==
    ASSUME TypeOK, run # NoRunbook, NEW w, FlowFits(w)
    PROVE  FlowFits(Wake(w)) /\ {Wake(w).by, Wake(w).releaser} \subseteq {w.by, w.releaser}
<1>1. CASE ~(w.pc = "await" /\ (w.approved \/ w.rejected))
  BY <1>1 DEF Wake
<1>2. ASSUME NEW s \in {"rejected", "approved"}, w.pc = "await",
             s = IF w.rejected THEN "rejected" ELSE "approved", w.approved \/ w.rejected
      PROVE  FlowFits(Wake(w)) /\ {Wake(w).by, Wake(w).releaser} \subseteq {w.by, w.releaser}
  <2> DEFINE v == Wake(w)
  <2>1. /\ v.pc = "record" /\ v.record = s /\ v.step = w.step /\ v.approved = w.approved
        /\ v.rejected = w.rejected /\ v.by = w.by /\ v.releaser = w.by
        /\ FlowType(v)
    BY <1>2 DEF Wake, Record, FlowFits, FlowType, RowStatuses
  <2> HIDE DEF v
  <2>2. StepsFit(v)
    BY <1>2, <2>1 DEF FlowFits, StepsFit, NoFlow
  <2>3. RowFits(v)
    BY <1>2, <2>1 DEF FlowFits, RowFits, Ended
  <2>4. w.releaser = Nobody /\ row[w.step].status = "pending"
    BY <1>2 DEF FlowFits, DecisionFits, RowFits
  <2>5. DecisionFits(v)
    BY <1>2, <2>1, <2>4, DeciderAssumption DEF FlowFits, DecisionFits, Approver
  <2>6. QED
    BY <2>1, <2>2, <2>3, <2>5 DEF FlowFits, v
<1>3. QED
  BY <1>1, <1>2

LEMMA DrainFits ==
    ASSUME TypeOK, run # NoRunbook, NEW w, FlowFits(w), ChannelFits(w)
    PROVE  FlowFits(Drain(w))
<1> DEFINE v == Drain(w)
<1>1. /\ v.pc = w.pc /\ v.record = w.record /\ v.step = w.step /\ v.releaser = w.releaser
      /\ v.approved = (w.approved \/ channel["approve"] # Nobody)
      /\ v.rejected = (w.rejected \/ channel["reject"] # Nobody)
      /\ v.by = IF channel["reject"] # Nobody THEN channel["reject"]
                ELSE IF channel["approve"] # Nobody THEN channel["approve"] ELSE w.by
  BY DEF Drain, FlowFits, FlowType
<1>2. \A kind \in {"approve", "reject"} : channel[kind] \in Deciders \/ channel[kind] = Nobody
  BY DEF TypeOK
<1>3. FlowType(v)
  <2>1. FlowType(w)
    BY DEF FlowFits
  <2>2. \A a, r \in BOOLEAN, b \in Deciders \union {Nobody} :
            FlowType([w EXCEPT !.approved = a, !.rejected = r, !.by = b])
    BY <2>1 DEF FlowType
  <2>3. /\ (IF channel["reject"] # Nobody THEN channel["reject"]
            ELSE IF channel["approve"] # Nobody THEN channel["approve"] ELSE w.by)
              \in Deciders \union {Nobody}
        /\ w.approved \in BOOLEAN /\ w.rejected \in BOOLEAN
    BY <1>2, <2>1 DEF FlowType
  <2>4. QED
    BY <2>2, <2>3 DEF Drain
<1> HIDE DEF v
<1>4. StepsFit(v) /\ RowFits(v)
  BY <1>1 DEF FlowFits, StepsFit, RowFits
<1>5. DecisionFits(v)
  <2>1. DecisionFits(w)
    BY DEF FlowFits
  <2>2. CASE channel["approve"] = Nobody /\ channel["reject"] = Nobody
    BY <1>1, <2>1, <2>2 DEF DecisionFits
  <2>3. CASE ~(channel["approve"] = Nobody /\ channel["reject"] = Nobody)
    <3>1. PICK kind \in {"approve", "reject"} :
              /\ v.by = channel[kind] /\ channel[kind] \in Deciders
              /\ v.approved /\ ~v.rejected => kind = "approve"
      BY <1>1, <1>2, <2>3
    <3>2. /\ Sent(v.by)
          /\ kind = "approve" => Approver(v.by)
          /\ v.by \notin {w.by, w.releaser}
          /\ \A j \in Steps : row[j].actor # v.by
      BY <3>1 DEF ChannelFits, Approver
    <3>3. QED
      BY <1>1, <2>1, <3>1, <3>2 DEF DecisionFits
  <2>4. QED
    BY <2>2, <2>3
<1>6. QED
  BY <1>3, <1>4, <1>5 DEF FlowFits, v

LEMMA ResumeFits ==
    ASSUME TypeOK, run # NoRunbook, FlowFits(wf), ResultFits, wf.pc \notin Ended
    PROVE  FlowFits(Resume(wf)) /\ {Resume(wf).by, Resume(wf).releaser}
                                      \subseteq {wf.by, wf.releaser, Nobody}
<1> DEFINE Goal(v) == FlowFits(v) /\ {v.by, v.releaser} \subseteq {wf.by, wf.releaser, Nobody}
<1> USE DeciderAssumption
<1>0. /\ FlowType(wf) /\ StepsFit(wf) /\ RowFits(wf) /\ DecisionFits(wf)
      /\ wf.pc \in {"check", "record", "execute", "await"}
      /\ wf.step \in Steps /\ wf.step \in Nat /\ wf.step <= Len(run) /\ wf.step \in 1..Len(run)
  BY RunbookType, StepsAreNaturals DEF FlowFits, FlowType, StepsFit, Ended, Steps
<1>1. ASSUME NEW v, NEW s \in {"pending", "skipped", "timed_out", "succeeded", "failed"},
             v = Record(wf, s),
             \/ s \in {"pending", "skipped"} /\ wf.pc = "check" /\ (s = "pending" => Gated(wf.step))
             \/ s = "timed_out" /\ wf.pc = "await"
             \/ s \in {"succeeded", "failed"} /\ wf.pc = "execute"
      PROVE  Goal(v)
  <2>1. /\ v.pc = "record" /\ v.record = s /\ v.step = wf.step /\ v.approved = wf.approved
        /\ v.rejected = wf.rejected /\ v.by = wf.by /\ v.releaser = wf.releaser
        /\ FlowType(v)
    BY <1>0, <1>1 DEF Record, FlowType, RowStatuses
  <2>2. StepsFit(v)
    BY <1>0, <2>1 DEF StepsFit
  <2>3. RowFits(v)
    BY <1>0, <1>1, <2>1 DEF RowFits, Ended
  <2>4. DecisionFits(v)
    BY <1>0, <1>1, <2>1 DEF DecisionFits, RowFits
  <2>5. QED
    BY <2>1, <2>2, <2>3, <2>4 DEF FlowFits
<1>2. ASSUME NEW v, NEW e \in {"closed", "broken"}, v = [wf EXCEPT !.pc = e],
             wf.pc \in {"check", "record"}
      PROVE  Goal(v)
  <2>1. /\ v.pc = e /\ v.record = wf.record /\ v.step = wf.step /\ v.approved = wf.approved
        /\ v.rejected = wf.rejected /\ v.by = wf.by /\ v.releaser = wf.releaser
        /\ FlowType(v)
    BY <1>0, <1>2 DEF FlowType, Ended
  <2>2. StepsFit(v)
    BY <1>0, <2>1 DEF StepsFit
  <2>3. RowFits(v)
    BY <1>0, <1>2, <2>1 DEF RowFits, Ended
  <2>4. DecisionFits(v)
    BY <1>0, <1>2, <2>1 DEF DecisionFits
  <2>5. QED
    BY <2>1, <2>2, <2>3, <2>4 DEF FlowFits
<1>3. ASSUME NEW v, v = [wf EXCEPT !.pc = "execute"], wf.pc = "check", ~Gated(wf.step)
      PROVE  Goal(v)
  <2>1. /\ v.pc = "execute" /\ v.record = wf.record /\ v.step = wf.step
        /\ v.approved = wf.approved /\ v.rejected = wf.rejected /\ v.by = wf.by
        /\ v.releaser = wf.releaser /\ FlowType(v)
    BY <1>0, <1>3 DEF FlowType
  <2>2. StepsFit(v)
    BY <1>0, <2>1 DEF StepsFit
  <2>3. RowFits(v)
    BY <1>0, <1>3, <2>1 DEF RowFits, Before, Ended
  <2>4. DecisionFits(v)
    BY <1>0, <1>3, <2>1 DEF DecisionFits
  <2>5. QED
    BY <2>1, <2>2, <2>3, <2>4 DEF FlowFits
<1>4. CASE wf.pc = "check" /\ result \notin {"none", "failed"}
  <2>1. result \in {"open", "acknowledged", "resolved"}
    BY <1>4 DEF TypeOK, ResultFits
  <2>2. Resume(wf) = AfterCheck(wf)
    BY <1>4 DEF Resume
  <2>3. CASE result = "resolved"
    <3>1. AfterCheck(wf) = Record(wf, "skipped")
      BY <2>3 DEF AfterCheck, Active
    <3>2. QED
      BY <1>1, <1>4, <2>2, <3>1
  <2>4. CASE result \in Active /\ run[wf.step] = "approval"
    <3>1. Gated(wf.step)
      BY <1>0, <2>4 DEF Gated
    <3>2. AfterCheck(wf) = Record(wf, "pending")
      BY <2>4 DEF AfterCheck, Active
    <3>3. QED
      BY <1>1, <1>4, <2>2, <3>1, <3>2
  <2>5. CASE result \in Active /\ run[wf.step] # "approval"
    <3>1. ~Gated(wf.step)
      BY <2>5 DEF Gated
    <3>2. AfterCheck(wf) = [wf EXCEPT !.pc = "execute"]
      BY <2>5 DEF AfterCheck, Active
    <3>3. QED
      BY <1>3, <1>4, <2>2, <3>1, <3>2
  <2>6. QED
    BY <2>1, <2>3, <2>4, <2>5 DEF Active
<1>5. CASE wf.pc = "record" /\ result \notin {"none", "failed"}
  <2>1. Resume(wf) = AfterRecord(wf)
    BY <1>5 DEF Resume
  <2>2. row[wf.step].status = wf.record /\ row[wf.step].actor = wf.releaser
    BY <1>5 DEF ResultFits
  <2>3. CASE wf.record = "pending"
    <3> DEFINE v == [wf EXCEPT !.pc = "await"]
    <3>1. /\ v.pc = "await" /\ v.record = wf.record /\ v.step = wf.step
          /\ v.approved = wf.approved /\ v.rejected = wf.rejected /\ v.by = wf.by
          /\ v.releaser = wf.releaser /\ FlowType(v)
      BY <1>0 DEF FlowType
    <3>2. Resume(wf) = v
      BY <2>1, <2>3 DEF AfterRecord
    <3> HIDE DEF v
    <3>3. StepsFit(v)
      BY <1>0, <3>1 DEF StepsFit
    <3>4. RowFits(v)
      BY <1>0, <1>5, <2>2, <2>3, <3>1 DEF RowFits, Ended
    <3>5. DecisionFits(v)
      BY <1>0, <1>5, <2>3, <3>1 DEF DecisionFits
    <3>6. QED
      BY <3>1, <3>2, <3>3, <3>4, <3>5 DEF FlowFits
  <2>4. CASE wf.record = "approved"
    <3> DEFINE v == GateOpens(wf)
    <3>1. /\ v.pc = "execute" /\ v.record = wf.record /\ v.step = wf.step
          /\ v.approved = FALSE /\ v.rejected = FALSE /\ v.by = Nobody
          /\ v.releaser = wf.releaser /\ FlowType(v)
      BY <1>0 DEF FlowType, GateOpens
    <3>2. Resume(wf) = v
      BY <2>1, <2>4 DEF AfterRecord
    <3> HIDE DEF v
    <3>3. StepsFit(v)
      BY <1>0, <3>1 DEF StepsFit
    <3>4. RowFits(v)
      BY <1>0, <1>5, <2>2, <2>4, <3>1 DEF RowFits, Before, Ended
    <3>5. DecisionFits(v)
      BY <1>0, <1>5, <2>4, <3>1 DEF DecisionFits
    <3>6. QED
      BY <3>1, <3>2, <3>3, <3>4, <3>5 DEF FlowFits
  <2>5. CASE wf.record = "succeeded" /\ wf.step # Len(run)
    <3> DEFINE v == EndStep(wf)
    <3>1. /\ v.pc = "check" /\ v.record = "none" /\ v.step = wf.step + 1
          /\ v.approved = wf.approved /\ v.rejected = wf.rejected /\ v.by = wf.by
          /\ v.releaser = Nobody /\ FlowType(v)
      <4>0. wf.step + 1 \in Steps
        <5>1. MaxSteps \in Nat /\ Len(run) \in 1..MaxSteps
          BY RunbookType, RunbookAssumption DEF Steps
        <5>2. wf.step \in Nat /\ wf.step <= Len(run) /\ wf.step # Len(run)
          BY <1>0, <2>5
        <5>3. QED
          BY <5>1, <5>2 DEF Steps
      <4>1. PICK n \in Steps : n = wf.step + 1
        BY <4>0
      <4>2. v = [wf EXCEPT !.pc = "check", !.step = n, !.record = "none",
                           !.releaser = Nobody]
        BY <1>0, <2>5, <4>1 DEF EndStep, FlowType
      <4> HIDE DEF v
      <4>3. /\ v.pc = "check" /\ v.record = "none" /\ v.step = n
            /\ v.approved = wf.approved /\ v.rejected = wf.rejected /\ v.by = wf.by
            /\ v.releaser = Nobody /\ FlowType(v)
        BY <1>0, <4>2 DEF FlowType, RowStatuses
      <4>4. QED
        BY <4>1, <4>3
    <3>2. Resume(wf) = v
      BY <2>1, <2>5 DEF AfterRecord
    <3> HIDE DEF v
    <3>3. StepsFit(v)
      BY <1>0, <2>2, <2>5, <3>1, RunbookType, StepsAreNaturals DEF StepsFit
    <3>4. RowFits(v)
      BY <1>0, <3>1, StepsAreNaturals DEF RowFits, StepsFit, FlowType, Ended
    <3>5. DecisionFits(v)
      <4>1. wf.by \in Deciders => wf.by # wf.releaser
        BY <1>0, <1>5, <2>5 DEF DecisionFits
      <4>2. Gated(wf.step) => Approver(wf.releaser)
        BY <1>0, <1>5, <2>5 DEF DecisionFits
      <4>3. \A j \in Steps : j < v.step <=> j < wf.step \/ j = wf.step
        BY <1>0, <3>1, StepsAreNaturals
      <4>4. /\ row[v.step].status = "none" /\ row[v.step].actor = Nobody
        BY <1>0, <3>1, StepsAreNaturals DEF StepsFit, FlowType
      <4>5. QED
        BY <1>0, <2>2, <3>1, <4>1, <4>2, <4>3, <4>4 DEF DecisionFits
    <3>6. QED
      BY <3>1, <3>2, <3>3, <3>4, <3>5 DEF FlowFits
  <2>6. CASE wf.record \notin {"pending", "approved", "succeeded"}
             \/ (wf.record = "succeeded" /\ wf.step = Len(run))
    <3>1. Resume(wf) = [wf EXCEPT !.pc = "closed"]
      BY <2>1, <2>6 DEF AfterRecord, EndStep
    <3>2. QED
      BY <1>2, <1>5, <3>1
  <2>7. QED
    BY <2>3, <2>4, <2>5, <2>6
<1>6. CASE wf.pc = "execute" /\ result # "none"
  <2>1. Resume(wf) = Record(wf, IF result = "failed" THEN "failed" ELSE "succeeded")
    BY <1>6 DEF Resume
  <2>2. QED
    BY <1>1, <1>6, <2>1
<1>7. CASE wf.pc = "await" /\ fired
  <2>1. Resume(wf) = Record(wf, "timed_out")
    BY <1>7 DEF Resume, AfterTimer
  <2>2. QED
    BY <1>1, <1>7, <2>1
<1>8. CASE wf.pc \in {"check", "record"} /\ result = "failed"
  <2>1. Resume(wf) = [wf EXCEPT !.pc = "broken"]
    BY <1>8 DEF Resume
  <2>2. QED
    BY <1>2, <1>8, <2>1
<1>9. CASE (wf.pc = "await" /\ ~fired) \/ (wf.pc # "await" /\ result = "none")
  <2>1. Resume(wf) = wf
    BY <1>9 DEF Resume
  <2>2. QED
    BY <2>1
<1>10. QED
  BY <1>0, <1>4, <1>5, <1>6, <1>7, <1>8, <1>9

\* A task that finds the audit row written moves on from it.
LEMMA RecordMoves ==
    ASSUME TypeOK, run # NoRunbook, FlowFits(wf), wf.pc = "record",
           result \notin {"none", "failed"}
    PROVE  ~(AfterTask.pc = wf.pc /\ AfterTask.record = wf.record)
<1> DEFINE v == Resume(wf)
<1>0. FlowType(wf)
  BY DEF FlowFits
<1>1. v = AfterRecord(wf)
  BY DEF Resume
<1>2. v.pc # "record" /\ (v.pc = "await" => wf.record = "pending") /\ DOMAIN v = DOMAIN wf
  BY <1>0, <1>1 DEF AfterRecord, GateOpens, EndStep, FlowType
<1>3. ASSUME NEW w, DOMAIN w = DOMAIN wf,
             \/ w.pc # "record" /\ (w.pc = "await" => wf.record = "pending")
             \/ wf.record = "pending" /\ w.pc = "record" /\ w.record \in {"approved", "rejected"}
      PROVE  /\ DOMAIN Wake(w) = DOMAIN wf /\ DOMAIN Drain(w) = DOMAIN wf
             /\ Drain(w).pc = w.pc /\ Drain(w).record = w.record
             /\ \/ /\ Wake(w).pc # "record"
                   /\ Wake(w).pc = "await" => wf.record = "pending"
                \/ /\ wf.record = "pending" /\ Wake(w).pc = "record"
                   /\ Wake(w).record \in {"approved", "rejected"}
  <2>1. /\ DOMAIN Drain(w) = DOMAIN wf
        /\ Drain(w).pc = w.pc /\ Drain(w).record = w.record
    BY <1>3 DEF Drain
  <2>2. CASE w.pc = "await" /\ (w.approved \/ w.rejected)
    BY <1>0, <1>3, <2>1, <2>2 DEF Wake, Record, FlowType
  <2>3. CASE ~(w.pc = "await" /\ (w.approved \/ w.rejected))
    BY <1>3, <2>1, <2>3 DEF Wake
  <2>4. QED
    BY <2>2, <2>3
<1> HIDE DEF v
<1>4. QED
  BY <1>2, <1>3 DEF AfterTask, v

-----------------------------------------------------------------------------
(* Each step preserves the inductive invariant.                            *)

LEMMA InitIInv == Init => IInv
<1> SUFFICES ASSUME Init PROVE IInv
  OBVIOUS
<1>1. 1 \in Steps /\ 1 \in Nat /\ \A j \in Steps : ~(j < 1)
  BY RunbookAssumption DEF Steps
<1>2. /\ wf.step = 1 /\ wf.pc = "none" /\ wf.by = Nobody /\ wf.releaser = Nobody
      /\ wf.approved = FALSE /\ wf.rejected = FALSE /\ wf = NoFlow /\ FlowType(wf)
  BY <1>1 DEF Init, NoFlow, FlowType, RowStatuses
<1>3. \A i \in Steps : row[i].status = "none" /\ row[i].actor = Nobody /\ executed[i] = 0
  BY DEF Init
<1>4. TypeOK
  <2>1. /\ attempt \in 0..MaxAttempts /\ faults \in 0..MaxFaults
        /\ executed \in [Steps -> Nat]
    BY BoundAssumption DEF Init
  <2>2. row \in [Steps -> [status : RowStatuses, actor : Deciders \union {Nobody}]]
    BY DEF Init, RowStatuses
  <2>3. channel \in [{"approve", "reject"} -> Deciders \union {Nobody}]
    BY DEF Init, Empty
  <2>4. QED
    BY <1>2, <2>1, <2>2, <2>3 DEF Init, TypeOK, FlowType
<1>5. StepsFit(wf)
  BY <1>1, <1>2, <1>3 DEF Init, StepsFit
<1>6. RowFits(wf) /\ ResultFits
  BY <1>1, <1>2, <1>3 DEF Init, RowFits, ResultFits, Ended
<1>7. DecisionFits(wf)
  BY <1>1, <1>2, <1>3, DeciderAssumption DEF DecisionFits
<1>8. ChannelFits(wf)
  BY DeciderAssumption DEF Init, ChannelFits, Empty
<1>9. QED
  BY <1>4, <1>5, <1>6, <1>7, <1>8 DEF IInv

LEMMA TaskKeepsIInv == IInv /\ WorkflowTask => IInv'
<1> SUFFICES ASSUME IInv, WorkflowTask PROVE IInv'
  OBVIOUS
<1> DEFINE r == Resume(wf)
           w1 == Wake(r)
           v == AfterTask
<1>1. /\ run # NoRunbook /\ wf.pc \notin Ended /\ TypeOK /\ FlowFits(wf)
      /\ ResultFits /\ ChannelFits(wf)
  BY DEF WorkflowTask, Running, IInv, FlowFits, FlowType, TypeOK
<1>2. FlowFits(r) /\ {r.by, r.releaser} \subseteq {wf.by, wf.releaser, Nobody}
  BY <1>1, ResumeFits
<1>3. FlowFits(w1) /\ {w1.by, w1.releaser} \subseteq {r.by, r.releaser}
  BY <1>1, <1>2, WakeFits
<1>4. ChannelFits(w1)
  <2> HIDE DEF w1, r
  <2>1. {w1.by, w1.releaser} \subseteq {wf.by, wf.releaser, Nobody}
    BY <1>2, <1>3
  <2>2. QED
    BY <1>1, <2>1, DeciderAssumption DEF ChannelFits
<1>5. FlowFits(Drain(w1))
  BY <1>1, <1>3, <1>4, DrainFits
<1>6. FlowFits(v)
  BY <1>1, <1>5, WakeFits DEF AfterTask
<1>7. wf' = v /\ channel' = Empty /\ UNCHANGED <<tablesVars, starter, run, apiVars, executed, faults>>
  BY DEF WorkflowTask
<1>8. wf.pc = "record" /\ result \notin {"none", "failed"} => ~(v.pc = wf.pc /\ v.record = wf.record)
  BY <1>1, RecordMoves
<1> HIDE DEF v
<1>9. /\ result' \in {"none", result} /\ fired' \in BOOLEAN /\ attempt' \in 0..MaxAttempts
      /\ ~(v.pc = wf.pc /\ v.record = wf.record) => result' = "none"
  <2>1. attempt' \in {attempt, 0, 1}
    BY <1>7 DEF WorkflowTask
  <2>2. attempt' \in 0..MaxAttempts
    BY <1>1, <2>1, BoundAssumption DEF TypeOK
  <2>3. result' \in {"none", result} /\ fired' \in BOOLEAN
    BY <1>1, <1>7 DEF WorkflowTask, TypeOK
  <2>4. ~(v.pc = wf.pc /\ v.record = wf.record) => result' = "none"
    BY <1>7 DEF WorkflowTask
  <2>5. QED
    BY <2>2, <2>3, <2>4
<1>10. TypeOK'
  BY <1>1, <1>6, <1>7, <1>9, DeciderAssumption
  DEF TypeOK, FlowFits, FlowType, Empty, tablesVars, apiVars
<1>11. StepsFit(wf)' /\ RowFits(wf)'
  BY <1>6, <1>7 DEF FlowFits, StepsFit, RowFits, Gated, Before, tablesVars, apiVars
<1>12. DecisionFits(wf)'
  BY <1>6, <1>7 DEF FlowFits, DecisionFits, Gated, Approver, Sent, tablesVars, apiVars
<1>13. ResultFits'
  BY <1>1, <1>7, <1>8, <1>9 DEF ResultFits
<1>14. ChannelFits(wf)'
  BY <1>7, DeciderAssumption DEF ChannelFits, Empty
<1>15. QED
  BY <1>10, <1>11, <1>12, <1>13, <1>14 DEF IInv

\* An attempt of an activity, with its effect or without.
LEMMA AttemptKeepsIInv ==
    ASSUME IInv, Scheduled, Effect \/ UNCHANGED <<row, executed>>,
           UNCHANGED <<status, marked, starter, run, wf, fired, channel, apiVars>>,
           attempt' \in 0..MaxAttempts, faults' \in 0..MaxFaults,
           \/ result' \in {"none", "failed"}
           \/ Effect /\ result' = IF wf.pc = "check" THEN status ELSE "ok"
    PROVE  IInv'
<1> USE DEF apiVars
<1>1. /\ run # NoRunbook /\ wf.pc \in {"check", "record", "execute"} /\ result = "none"
      /\ TypeOK /\ StepsFit(wf) /\ RowFits(wf) /\ DecisionFits(wf) /\ ChannelFits(wf)
      /\ wf.step \in Steps /\ wf.record \in RowStatuses
      /\ wf.releaser \in Deciders \union {Nobody}
  BY DEF Scheduled, Running, InActivity, IInv, TypeOK
<1>2. /\ row' \in [Steps -> [status : RowStatuses, actor : Deciders \union {Nobody}]]
      /\ executed' \in [Steps -> Nat]
  <2>1. /\ row \in [Steps -> [status : RowStatuses, actor : Deciders \union {Nobody}]]
        /\ executed \in [Steps -> Nat]
    BY <1>1 DEF TypeOK
  <2>2. row' \in [Steps -> [status : RowStatuses, actor : Deciders \union {Nobody}]]
    BY <1>1, <2>1 DEF Effect
  <2>3. executed[wf.step] + 1 \in Nat
    BY <1>1, <2>1
  <2>4. PICK n \in Nat : n = executed[wf.step] + 1
    BY <2>3
  <2>5. executed' = executed \/ executed' = [executed EXCEPT ![wf.step] = n]
    BY <2>4 DEF Effect
  <2>6. QED
    BY <1>1, <2>1, <2>2, <2>5
<1>3. /\ \A j \in Steps \ {wf.step} : row'[j] = row[j] /\ executed'[j] = executed[j]
      /\ wf.pc # "execute" => executed'[wf.step] = executed[wf.step]
      /\ wf.pc # "record" => row'[wf.step] = row[wf.step]
      /\ wf.pc = "record" => \/ row'[wf.step] = row[wf.step]
                             \/ row'[wf.step] = [status |-> wf.record, actor |-> wf.releaser]
  BY <1>1 DEF Effect, TypeOK
<1>4. TypeOK'
  BY <1>1, <1>2 DEF TypeOK
<1>5. StepsFit(wf)'
  BY <1>1, <1>3, StepsAreNaturals DEF StepsFit
<1>6. RowFits(wf)'
  <2>1. CASE wf.pc = "record"
    BY <1>1, <1>3, <2>1 DEF RowFits, Before, Gated, Ended
  <2>2. CASE wf.pc # "record"
    BY <1>1, <1>3, <2>2 DEF RowFits, Before, Gated, Ended
  <2>3. QED
    BY <2>1, <2>2
<1>7. DecisionFits(wf)'
  <2>1. \A d : Sent(d)' = Sent(d) /\ Approver(d)' = Approver(d)
    BY DEF Sent, Approver
  <2>2. \A j \in Steps : j < wf.step => row'[j] = row[j]
    BY <1>1, <1>3, StepsAreNaturals
  <2>3. \A i : Gated(i)' = Gated(i)
    BY DEF Gated
  <2>4. /\ row'[wf.step].actor \in {Nobody, wf.releaser}
        /\ row'[wf.step].status \in {"approved", "succeeded", "failed", "rejected", "timed_out",
                                    "skipped"} =>
              row'[wf.step].actor = wf.releaser
    BY <1>1, <1>3 DEF DecisionFits
  <2>5. /\ wf.releaser \in Deciders => Sent(wf.releaser)
        /\ \A j \in Steps : row'[j].actor \in Deciders => Sent(row'[j].actor)
    BY <1>1, <1>3, <2>4, DeciderAssumption DEF DecisionFits
  <2>6. /\ Gated(wf.step)
        /\ \/ wf.pc = "execute"
           \/ wf.pc = "record" /\ wf.record \in {"approved", "succeeded", "failed"}
           \/ row'[wf.step].status \in {"approved", "succeeded", "failed"}
        => Approver(wf.releaser)
    BY <1>1, <1>3 DEF DecisionFits
  <2>7. QED
    BY <1>1, <2>1, <2>2, <2>3, <2>4, <2>5, <2>6 DEF DecisionFits
<1>8. ChannelFits(wf)'
  BY <1>1, <1>3 DEF ChannelFits, Sent
<1>9. ResultFits'
  <2>1. status # "ok"
    BY <1>1 DEF TypeOK
  <2>2. Effect /\ wf.pc = "record" => row'[wf.step] = [status |-> wf.record, actor |-> wf.releaser]
    BY <1>1 DEF Effect, TypeOK
  <2>3. QED
    BY <1>1, <2>1, <2>2 DEF ResultFits
<1>10. QED
  BY <1>4, <1>5, <1>6, <1>7, <1>8, <1>9 DEF IInv

\* A decision is signalled, or its sender is told that it could not be.
LEMMA DeliveryKeepsIInv ==
    ASSUME IInv, NEW d \in Deciders, asked[d] # <<>>, answer[d] = "none",
           NEW a \in {"202", "409", "500"}, answer' = [answer EXCEPT ![d] = a],
           Signal(d) \/ UNCHANGED channel, Running /\ Signal(d) => a # "409",
           UNCHANGED <<tablesVars, starter, run, wf, actVars, asked, executed>>,
           faults' \in 0..MaxFaults
    PROVE  IInv'
<1> USE DEF tablesVars, actVars
<1>1. /\ TypeOK /\ StepsFit(wf) /\ RowFits(wf) /\ ResultFits /\ DecisionFits(wf)
      /\ ChannelFits(wf) /\ asked[d][1] \in {"approve", "reject"}
  BY DEF IInv, TypeOK
<1>2. \/ channel' = channel
      \/ channel' = [channel EXCEPT ![asked[d][1]] = d] /\ a # "409"
  BY DEF Signal
<1>3. TypeOK'
  BY <1>1, <1>2 DEF TypeOK
<1>4. StepsFit(wf)' /\ RowFits(wf)' /\ ResultFits'
  BY <1>1 DEF StepsFit, RowFits, ResultFits, Gated, Before
<1>5. /\ \A e \in Deciders : Sent(e) => Sent(e)' /\ e # d
      /\ \A e : Approver(e) => Approver(e)'
      /\ a # "409" => Sent(d)'
      /\ \A i : Gated(i)' = Gated(i)
  BY <1>1 DEF Sent, Approver, Gated, TypeOK
<1>6. DecisionFits(wf)'
  BY <1>1, <1>5 DEF DecisionFits
<1>7. ChannelFits(wf)'
  <2>1. /\ d \notin {wf.by, wf.releaser}
        /\ \A j \in Steps : row[j].actor # d
    BY <1>1, <1>5 DEF DecisionFits
  <2>2. ASSUME NEW kind \in {"approve", "reject"}, channel'[kind] \in Deciders
        PROVE  \/ channel'[kind] = channel[kind]
               \/ channel'[kind] = d /\ kind = asked[d][1] /\ a # "409"
    BY <1>1, <1>2 DEF TypeOK
  <2>3. QED
    BY <1>1, <1>5, <2>1, <2>2 DEF ChannelFits
<1>8. QED
  BY <1>3, <1>4, <1>6, <1>7 DEF IInv

LEMMA ReadKeepsIInv ==
    ASSUME IInv, NEW d \in Deciders, NEW kind \in {"approve", "reject"}, NEW i \in Steps,
           ReadPending(d, kind, i)
    PROVE  IInv'
<1> USE DEF tablesVars, actVars
<1>1. /\ TypeOK /\ StepsFit(wf) /\ RowFits(wf) /\ ResultFits /\ DecisionFits(wf)
      /\ ChannelFits(wf)
  BY DEF IInv
<1>2. TypeOK'
  BY <1>1 DEF ReadPending, TypeOK
<1>3. StepsFit(wf)' /\ RowFits(wf)' /\ ResultFits'
  BY <1>1 DEF ReadPending, StepsFit, RowFits, ResultFits, Gated, Before
<1>4. \A e \in Deciders : Sent(e) => asked'[e] = asked[e]
  BY <1>1 DEF Sent, ReadPending, TypeOK
<1>5. /\ \A e \in Deciders : Sent(e) => Sent(e)'
      /\ \A e : Approver(e) => Approver(e)'
      /\ \A j : Gated(j)' = Gated(j)
  BY <1>4 DEF Sent, Approver, Gated, ReadPending
<1>6. DecisionFits(wf)'
  BY <1>1, <1>5 DEF DecisionFits, ReadPending
<1>7. ChannelFits(wf)'
  BY <1>1, <1>4, <1>5 DEF ChannelFits, ReadPending
<1>8. QED
  BY <1>2, <1>3, <1>6, <1>7 DEF IInv

\* Starting a run, or finding that the incident has one.
LEMMA LaunchKeepsIInv ==
    ASSUME IInv, NEW s \in Starters,
           \/ RunbookOf[s] # NoRunbook /\ Launch(s)
           \/ UNCHANGED <<run, wf, attempt>>,
           starter' \in [Starters -> {"idle", "starting", "marking"}],
           faults' \in 0..MaxFaults,
           UNCHANGED <<tablesVars, result, fired, channel, apiVars, executed>>
    PROVE  IInv'
<1> USE DEF tablesVars, apiVars
<1>1. /\ TypeOK /\ StepsFit(wf) /\ RowFits(wf) /\ ResultFits /\ DecisionFits(wf)
      /\ ChannelFits(wf)
  BY DEF IInv
<1>2. CASE UNCHANGED <<run, wf, attempt>>
  <2>1. TypeOK'
    BY <1>1, <1>2 DEF TypeOK
  <2>2. StepsFit(wf)' /\ RowFits(wf)' /\ ResultFits'
    BY <1>1, <1>2 DEF StepsFit, RowFits, ResultFits, Gated, Before
  <2>3. DecisionFits(wf)' /\ ChannelFits(wf)'
    BY <1>1, <1>2 DEF DecisionFits, ChannelFits, Gated, Sent, Approver
  <2>4. QED
    BY <2>1, <2>2, <2>3 DEF IInv
<1>3. CASE /\ run = NoRunbook /\ run' = RunbookOf[s] /\ RunbookOf[s] # NoRunbook
           /\ wf' = [NoFlow EXCEPT !.pc = "check"] /\ attempt' = 1
  <2>1. wf = NoFlow /\ \A i \in Steps : row[i].status = "none" /\ executed[i] = 0
    BY <1>1, <1>3 DEF StepsFit
  <2>2. /\ wf'.pc = "check" /\ wf'.step = 1 /\ wf'.by = Nobody /\ wf'.releaser = Nobody
        /\ wf'.approved = FALSE /\ wf'.rejected = FALSE /\ wf'.record = "none"
        /\ wf.step = 1 /\ wf.by = Nobody /\ wf.releaser = Nobody
        /\ wf' = [pc |-> "check", step |-> 1, record |-> "none", approved |-> FALSE,
                  rejected |-> FALSE, by |-> Nobody, releaser |-> Nobody]
    BY <1>3, <2>1 DEF NoFlow
  <2>3. run' \in Runbooks /\ Len(run') \in Steps /\ run' # NoRunbook /\ 1 \in Steps
    BY <1>3, RunbookAssumption, RunbookFound DEF Runbooks, Steps
  <2>4. TypeOK'
    <3>1. attempt' \in 0..MaxAttempts
      BY <1>3, BoundAssumption
    <3>2. /\ wf' \in [pc : {"none", "check", "record", "execute", "await"} \union Ended,
                      step : Steps, record : RowStatuses, approved : BOOLEAN,
                      rejected : BOOLEAN, by : Deciders \union {Nobody},
                      releaser : Deciders \union {Nobody}]
      BY <2>2, <2>3 DEF RowStatuses
    <3>3. QED
      BY <1>1, <2>3, <3>1, <3>2 DEF TypeOK
  <2>5. StepsFit(wf)'
    <3>1. /\ \A j \in Steps : j < 1 => FALSE
          /\ 1 <= Len(run')
      BY <2>3 DEF Steps
    <3>2. \A j \in Steps : j > 1 =>
             row[j].status = "none" /\ row[j].actor = Nobody /\ executed[j] = 0
      BY <1>1, <2>2 DEF StepsFit
    <3>3. QED
      BY <2>2, <2>3, <3>1, <3>2 DEF StepsFit
  <2>6. RowFits(wf)' /\ ResultFits'
    BY <1>1, <1>3, <2>1, <2>2, <2>3 DEF RowFits, ResultFits, Ended
  <2>7. DecisionFits(wf)'
    <3>1. \A j \in Steps : j < 1 => FALSE
      BY DEF Steps
    <3>2. /\ row[1].actor = Nobody
          /\ \A j \in Steps : row[j].actor \in Deciders => Sent(row[j].actor)'
      BY <1>1, <2>2, DeciderAssumption DEF DecisionFits, Sent
    <3>3. QED
      BY <2>1, <2>2, <2>3, <3>1, <3>2, DeciderAssumption DEF DecisionFits
  <2>8. ChannelFits(wf)'
    BY <1>1, <2>2 DEF ChannelFits, Sent
  <2>9. QED
    BY <2>4, <2>5, <2>6, <2>7, <2>8 DEF IInv
<1>4. QED
  BY <1>2, <1>3 DEF Launch

\* Steps that change only the incident, the marks, the starters or the timer.
LEMMA FrameKeepsIInv ==
    ASSUME IInv, UNCHANGED <<run, wf, attempt, result, channel, row, apiVars, executed>>,
           status' \in {"open", "acknowledged", "resolved"}, marked' \in BOOLEAN,
           starter' \in [Starters -> {"idle", "starting", "marking"}],
           fired' \in BOOLEAN, faults' \in 0..MaxFaults
    PROVE  IInv'
<1> USE DEF apiVars
<1>1. TypeOK'
  BY DEF IInv, TypeOK
<1>2. StepsFit(wf)' /\ RowFits(wf)' /\ ResultFits'
  BY DEF IInv, StepsFit, RowFits, ResultFits, Gated, Before
<1>3. DecisionFits(wf)' /\ ChannelFits(wf)'
  BY DEF IInv, DecisionFits, ChannelFits, Gated, Sent, Approver
<1>4. QED
  BY <1>1, <1>2, <1>3 DEF IInv

LEMMA NextKeepsIInv == IInv /\ [Next]_vars => IInv'
<1> SUFFICES ASSUME IInv, [Next]_vars PROVE IInv'
  OBVIOUS
<1> USE DEF tablesVars, apiVars, actVars
<1>0. /\ TypeOK /\ (Fault => faults' \in 0..MaxFaults)
      /\ (UNCHANGED faults => faults' \in 0..MaxFaults)
  BY BoundAssumption DEF IInv, TypeOK, Fault
<1>1. CASE Acknowledge \/ Resolve
  BY <1>0, <1>1, FrameKeepsIInv DEF Acknowledge, Resolve, TypeOK
<1>2. ASSUME NEW s \in Starters, StarterStep(s) PROVE IInv'
  <2>1. CASE ListOpen(s)
    BY <1>0, <2>1, FrameKeepsIInv DEF ListOpen, TypeOK
  <2>2. CASE Mark(s)
    BY <1>0, <2>2, FrameKeepsIInv DEF Mark, TypeOK
  <2>3. CASE MarkFails(s)
    BY <1>0, <2>3, FrameKeepsIInv DEF MarkFails, TypeOK
  <2>4. CASE Start(s)
    <3>1. /\ starter' \in [Starters -> {"idle", "starting", "marking"}]
          /\ \/ RunbookOf[s] # NoRunbook /\ Launch(s)
             \/ UNCHANGED <<run, wf, attempt>>
          /\ UNCHANGED <<tablesVars, result, fired, channel, apiVars, executed, faults>>
      BY <1>0, <2>4 DEF Start, TypeOK
    <3>2. QED
      BY <1>0, <3>1, LaunchKeepsIInv
  <2>5. CASE StartFails(s)
    <3>1. /\ starter' \in [Starters -> {"idle", "starting", "marking"}]
          /\ \/ RunbookOf[s] # NoRunbook /\ Launch(s)
             \/ UNCHANGED <<run, wf, attempt>>
          /\ UNCHANGED <<tablesVars, result, fired, channel, apiVars, executed>>
          /\ Fault
      BY <1>0, <2>5 DEF StartFails, TypeOK
    <3>2. QED
      BY <1>0, <3>1, LaunchKeepsIInv
  <2>6. QED
    BY <1>2, <2>1, <2>2, <2>3, <2>4, <2>5 DEF StarterStep
<1>3. ASSUME NEW d \in Deciders, DeciderStep(d) PROVE IInv'
  <2>1. ASSUME NEW kind \in {"approve", "reject"}, NEW i \in Steps, ReadPending(d, kind, i)
        PROVE  IInv'
    BY <2>1, ReadKeepsIInv
  <2>2. CASE Deliver(d)
    <3> DEFINE a == IF Running THEN "202" ELSE "409"
    <3>1. /\ asked[d] # <<>> /\ answer[d] = "none" /\ Signal(d)
          /\ answer' = [answer EXCEPT ![d] = a]
          /\ UNCHANGED <<tablesVars, starter, run, wf, actVars, asked, executed, faults>>
      BY <2>2 DEF Deliver
    <3>2. a \in {"202", "409", "500"} /\ (Running => a # "409")
      OBVIOUS
    <3> HIDE DEF a
    <3>3. QED
      BY <1>0, <3>1, <3>2, DeliveryKeepsIInv
  <2>3. CASE DeliverFails(d)
    <3>1. /\ asked[d] # <<>> /\ answer[d] = "none" /\ (Signal(d) \/ UNCHANGED channel)
          /\ answer' = [answer EXCEPT ![d] = "500"] /\ Fault
          /\ UNCHANGED <<tablesVars, starter, run, wf, actVars, asked, executed>>
      BY <2>3 DEF DeliverFails
    <3>2. QED
      BY <1>0, <3>1, DeliveryKeepsIInv
  <2>4. QED
    BY <1>3, <2>1, <2>2, <2>3 DEF DeciderStep
<1>4. CASE WorkflowTask
  BY <1>4, TaskKeepsIInv
<1>5. CASE TimerFires
  BY <1>0, <1>5, FrameKeepsIInv DEF TimerFires, TypeOK
<1>6. CASE ActivityOK
  <2>1. attempt' \in 0..MaxAttempts
    BY <1>6, BoundAssumption DEF ActivityOK
  <2>2. QED
    BY <1>0, <1>6, <2>1, AttemptKeepsIInv DEF ActivityOK
<1>7. CASE ActivityFails
  <2>1. attempt' \in 0..MaxAttempts
    BY <1>0, <1>7, BoundAssumption DEF ActivityFails, TypeOK
  <2>2. result' \in {"none", "failed"}
    BY <1>7 DEF ActivityFails, Scheduled
  <2>3. QED
    BY <1>0, <1>7, <2>1, <2>2, AttemptKeepsIInv DEF ActivityFails
<1>8. CASE UNCHANGED vars
  BY <1>0, <1>8, FrameKeepsIInv DEF vars, TypeOK
<1>9. QED
  BY <1>1, <1>2, <1>3, <1>4, <1>5, <1>6, <1>7, <1>8 DEF Next

LEMMA IInvAlways == Spec => []IInv
  BY InitIInv, NextKeepsIInv, PTL DEF Spec

-----------------------------------------------------------------------------
(* What follows from it.                                                   *)

\* Every state of the model has its type, for every runbook and every bound.
THEOREM TypeCorrect == Spec => []TypeOK
<1>1. IInv => TypeOK
  BY DEF IInv
<1>2. QED
  BY <1>1, IInvAlways, PTL

\* Automation goes on only from a recorded success, whatever fails, is retried
\* or arrives late: workflow.go's loop over the runbook's steps.
THEOREM AutomationStopsAlways == Spec => []AutomationStops
<1>1. ASSUME IInv PROVE AutomationStops
  <2> SUFFICES ASSUME NEW i \in Steps, executed[i] > 0
               PROVE  /\ run # NoRunbook /\ i <= Len(run)
                      /\ row[i].status \in (IF Gated(i) THEN {"approved"} ELSE {"none"})
                                           \union {"succeeded", "failed"}
                      /\ \A j \in 1..(i - 1) : row[j].status = "succeeded"
    BY DEF AutomationStops
  <2>1. TypeOK /\ StepsFit(wf) /\ RowFits(wf) /\ wf.step \in Steps /\ executed[i] # 0
    BY <1>1 DEF IInv, TypeOK
  <2>2. run # NoRunbook /\ ~(i > wf.step)
    BY <2>1 DEF StepsFit
  <2>3. i \in Nat /\ wf.step \in Nat /\ Len(run) \in Nat /\ i <= wf.step /\ wf.step <= Len(run)
    BY <2>1, <2>2, RunbookType, StepsAreNaturals DEF StepsFit
  <2>4. \A j \in 1..(i - 1) : j \in Steps /\ j < wf.step
    <3>1. MaxSteps \in Nat /\ i \in 1..MaxSteps
      BY RunbookAssumption DEF Steps
    <3>2. QED
      BY <2>3, <3>1 DEF Steps
  <2>5. row[i].status \in {Before(i), "succeeded", "failed"}
    <3>1. CASE i < wf.step
      BY <2>1, <3>1 DEF StepsFit
    <3>2. CASE i = wf.step
      BY <2>1, <2>2, <3>2 DEF RowFits, StepsFit, TypeOK
    <3>3. QED
      BY <2>3, <3>1, <3>2
  <2>6. QED
    BY <2>1, <2>2, <2>3, <2>4, <2>5 DEF StepsFit, Before
<1>2. QED
  BY <1>1, IInvAlways, PTL

\* One approval releases one step, and the audit trail names its author:
\* the decision is cleared when the gate opens (workflow.go), although several
\* decisions may wait, arrive together or arrive late.
THEOREM ApprovalsAreNotReusedAlways == Spec => []ApprovalsAreNotReused
<1>1. ASSUME IInv PROVE ApprovalsAreNotReused
  <2>1. /\ TypeOK /\ StepsFit(wf) /\ RowFits(wf) /\ DecisionFits(wf) /\ wf.step \in Steps
    BY <1>1 DEF IInv, TypeOK
  <2>2. ASSUME NEW i \in Steps, Gated(i), executed[i] > 0
        PROVE  /\ Approver(row[i].actor)
               /\ i = wf.step => row[i].actor = wf.releaser
               /\ i < wf.step \/ i = wf.step
    <3>1. executed[i] # 0 /\ run # NoRunbook /\ ~(i > wf.step)
      BY <2>1, <2>2 DEF StepsFit, TypeOK
    <3>2. i < wf.step \/ i = wf.step
      <4>1. i \in Nat /\ wf.step \in Nat
        BY <2>1, StepsAreNaturals
      <4>2. QED
        BY <3>1, <4>1
    <3>3. CASE i < wf.step
      BY <2>1, <2>2, <3>3, StepsAreNaturals DEF DecisionFits
    <3>4. CASE i = wf.step
      <4>1. row[i].status \in {"approved", "succeeded", "failed"}
        BY <2>1, <2>2, <3>1, <3>4 DEF RowFits, StepsFit, TypeOK, Before
      <4>2. QED
        BY <2>1, <2>2, <3>4, <4>1 DEF DecisionFits
    <3>5. QED
      BY <3>2, <3>3, <3>4
  <2>3. ASSUME NEW i \in Steps, NEW j \in Steps \ {i}, Gated(i), executed[i] > 0,
               Gated(j), executed[j] > 0
        PROVE  row[j].actor # row[i].actor
    BY <2>1, <2>2, <2>3 DEF DecisionFits, Approver
  <2>4. QED
    BY <2>2, <2>3 DEF ApprovalsAreNotReused, Approver, Sent
<1>2. QED
  BY <1>1, IInvAlways, PTL

\* The step behind a decision is unambiguous: pendingActionSQL takes the first
\* pending row, and there is never a second.
THEOREM OnePendingAlways == Spec => []OnePending
<1>1. ASSUME IInv PROVE OnePending
  <2>1. StepsFit(wf) /\ wf.step \in Steps
    BY <1>1 DEF IInv, TypeOK
  <2>2. \A i \in Steps : row[i].status = "pending" => i = wf.step
    <3>1. ASSUME NEW i \in Steps, row[i].status = "pending"
          PROVE  ~(i < wf.step) /\ ~(i > wf.step) /\ i \in Nat /\ wf.step \in Nat
      BY <2>1, <3>1, StepsAreNaturals DEF StepsFit
    <3>2. QED
      BY <3>1
  <2>3. QED
    BY <2>2 DEF OnePending
<1>2. QED
  BY <1>1, IInvAlways, PTL

\* The runbook a run was started with is the one it carries to its end, however
\* many starters try again with other catalogs (REJECT_DUPLICATE in temporal.go).
THEOREM RunNeverReplacedAlways == Spec => RunNeverReplaced
<1>1. [Next]_vars => [run # NoRunbook => run' = run]_vars
  BY DEF Next, vars, StarterStep, DeciderStep, Acknowledge, Resolve, ListOpen, Start,
         StartFails, Launch, Mark, MarkFails, ReadPending, Deliver, DeliverFails,
         WorkflowTask, TimerFires, ActivityOK, ActivityFails
<1>2. QED
  BY <1>1, PTL DEF Spec, RunNeverReplaced

\* A recorded outcome is never rewritten and its step never carried out again
\* (StartRemediationWorkflow, RecordAction).
THEOREM OutcomesAreFinalAlways == Spec => OutcomesAreFinal
<1> DEFINE Settled == {"succeeded", "rejected", "timed_out", "failed", "skipped"}
           Final == \A i \in Steps : row[i].status \in Settled =>
                       row'[i] = row[i] /\ executed'[i] = executed[i]
<1>1. IInv /\ [Next]_vars => [Final]_vars
  <2> SUFFICES ASSUME IInv, [Next]_vars, NEW i \in Steps, row[i].status \in Settled,
                      ~UNCHANGED <<row, executed>>
               PROVE  row'[i] = row[i] /\ executed'[i] = executed[i]
    OBVIOUS
  <2>1. ActivityOK \/ ActivityFails
    BY DEF Next, vars, Acknowledge, Resolve, StarterStep, ListOpen, Start, StartFails, Mark,
           MarkFails, DeciderStep, ReadPending, Deliver, DeliverFails, WorkflowTask, TimerFires,
           tablesVars, apiVars
  <2>2. Effect /\ wf.pc \in {"check", "record", "execute"} /\ run # NoRunbook
    BY <2>1 DEF ActivityOK, ActivityFails, Scheduled, InActivity, Running
  <2>3. /\ TypeOK /\ StepsFit(wf) /\ RowFits(wf) /\ DecisionFits(wf) /\ wf.step \in Steps
        /\ row \in [Steps -> [status : RowStatuses, actor : Deciders \union {Nobody}]]
    BY DEF IInv, TypeOK
  <2>4. CASE i # wf.step
    BY <2>2, <2>3, <2>4 DEF Effect, TypeOK
  <2>5. CASE i = wf.step
    <3>1. wf.pc = "record" /\ wf.record = row[i].status
      BY <2>2, <2>3, <2>5 DEF RowFits, Before
    <3>2. row[i].actor = wf.releaser
      BY <2>3, <2>5 DEF DecisionFits, Halting
    <3>3. row[i] = [status |-> wf.record, actor |-> wf.releaser]
      BY <2>3, <3>1, <3>2
    <3>4. QED
      BY <2>2, <2>3, <2>5, <3>1, <3>3 DEF Effect, TypeOK
  <2>6. QED
    BY <2>4, <2>5
<1>2. IInv /\ [Next]_vars =>
        [\A i \in Steps : row[i].status \in Halting \union {"succeeded"} =>
            row'[i] = row[i] /\ executed'[i] = executed[i]]_vars
  BY <1>1 DEF Halting
<1>3. QED
  BY <1>2, IInvAlways, NextKeepsIInv, PTL DEF Spec, OutcomesAreFinal

-----------------------------------------------------------------------------
(* The remediation implements GatedSequence.                               *)

Hand(w) == \/ w.pc = "execute"
           \/ w.pc \in {"record", "broken"} /\ w.record \in {"succeeded", "failed"}

\* What was carried out, besides IInv: a success is not claimed for a step that
\* was never carried out, and no outcome is left over from an earlier step.
HandFits ==
    /\ wf.pc = "execute" /\ result \notin {"none", "failed"} => executed[wf.step] # 0
    /\ wf.pc = "record" /\ wf.record = "succeeded" => executed[wf.step] # 0
    /\ wf.pc = "check" => wf.record = "none"

\* The signal routines and the wait touch neither the step nor, unless the
\* workflow awaits a decision, what the main routine is at.
LEMMA SignalsMove ==
    ASSUME NEW w, FlowType(w), NEW v, v = Wake(Drain(Wake(w)))
    PROVE  /\ v.step = w.step
           /\ \/ v.pc = w.pc /\ v.record = w.record
              \/ w.pc = "await" /\ v.pc = "record" /\ v.record \in {"approved", "rejected"}
<1>1. ASSUME NEW x, DOMAIN x = DOMAIN w, x.step = w.step,
             \/ x.pc = w.pc /\ x.record = w.record
             \/ w.pc = "await" /\ x.pc = "record" /\ x.record \in {"approved", "rejected"}
      PROVE  /\ DOMAIN Wake(x) = DOMAIN w /\ Wake(x).step = w.step
             /\ \/ Wake(x).pc = w.pc /\ Wake(x).record = w.record
                \/ /\ w.pc = "await" /\ Wake(x).pc = "record"
                   /\ Wake(x).record \in {"approved", "rejected"}
  <2>1. CASE x.pc = "await" /\ (x.approved \/ x.rejected)
    BY <1>1, <2>1 DEF Wake, Record, FlowType
  <2>2. CASE ~(x.pc = "await" /\ (x.approved \/ x.rejected))
    BY <1>1, <2>2 DEF Wake
  <2>3. QED
    BY <2>1, <2>2
<1>2. ASSUME NEW x, DOMAIN x = DOMAIN w
      PROVE  /\ DOMAIN Drain(x) = DOMAIN w /\ Drain(x).step = x.step
             /\ Drain(x).pc = x.pc /\ Drain(x).record = x.record
  BY <1>2 DEF Drain, FlowType
<1>3. QED
  BY <1>1, <1>2

\* What a task does to the current step: nothing that shows, or it releases the
\* step, or it goes on from a success on record.
LEMMA TaskMoves ==
    ASSUME IInv, HandFits, run # NoRunbook, wf.pc \notin Ended, NEW v, v = AfterTask
    PROVE  /\ \/ /\ v.step = wf.step
                 /\ \/ Hand(v) <=> Hand(wf)
                    \/ row[wf.step].status \in Halting \union {"succeeded"}
              \/ /\ v.step = wf.step /\ v.pc = "execute" /\ ~Hand(wf)
                 /\ row[wf.step].status \notin Halting \union {"succeeded"}
                 /\ Gated(wf.step) => row[wf.step].status = "approved"
              \/ /\ v.step = wf.step + 1 /\ v.pc = "check"
                 /\ row[wf.step].status = "succeeded"
           /\ v.pc = "record" /\ v.record = "succeeded" =>
                 /\ v.step = wf.step
                 /\ \/ wf.pc = "record" /\ wf.record = "succeeded"
                    \/ wf.pc = "execute" /\ result \notin {"none", "failed"}
           /\ v.pc = "check" => v.record = "none"
<1> DEFINE r == Resume(wf)
<1>0. /\ TypeOK /\ FlowFits(wf) /\ FlowType(wf) /\ ResultFits /\ RowFits(wf)
      /\ wf.pc \in {"check", "record", "execute", "await"}
  <2>1. FlowType(wf)
    BY DEF IInv, TypeOK, FlowType
  <2>2. wf.pc \in {"check", "record", "execute", "await"}
    BY <2>1 DEF IInv, StepsFit, FlowType, Ended
  <2>3. QED
    BY <2>1, <2>2 DEF IInv, FlowFits
<1>1. FlowType(r)
  BY <1>0, ResumeFits DEF FlowFits
<1>2. /\ v.step = r.step
      /\ \/ v.pc = r.pc /\ v.record = r.record
         \/ r.pc = "await" /\ v.pc = "record" /\ v.record \in {"approved", "rejected"}
  BY <1>1, SignalsMove DEF AfterTask
<1>3. CASE r = wf
  BY <1>0, <1>2, <1>3 DEF Hand, HandFits
<1>4. CASE wf.pc = "execute" /\ result # "none"
  <2>1. /\ r.pc = "record" /\ r.step = wf.step
        /\ r.record = IF result = "failed" THEN "failed" ELSE "succeeded"
    BY <1>0, <1>4 DEF Resume, Record, FlowType
  <2>2. QED
    BY <1>2, <1>4, <2>1 DEF Hand
<1>5. CASE wf.pc \in {"check", "record"} /\ result = "failed"
  <2>1. r.pc = "broken" /\ r.step = wf.step /\ r.record = wf.record
    BY <1>0, <1>5 DEF Resume, FlowType
  <2>2. QED
    BY <1>2, <1>5, <2>1 DEF Hand, HandFits
<1>6. CASE wf.pc = "check" /\ result \notin {"none", "failed"}
  <2>1. /\ r.step = wf.step /\ row[wf.step].status = "none"
        /\ \/ r.pc = "record" /\ r.record \in {"skipped", "pending"}
           \/ r.pc = "execute" /\ ~Gated(wf.step)
    <3>1. result \in {"open", "acknowledged", "resolved"} /\ r = AfterCheck(wf)
      BY <1>0, <1>6 DEF TypeOK, ResultFits, Resume
    <3>2. row[wf.step].status = "none"
      BY <1>0, <1>6 DEF RowFits
    <3>3. /\ r.step = wf.step
          /\ \/ r.pc = "record" /\ r.record \in {"skipped", "pending"}
             \/ r.pc = "execute" /\ run[wf.step] # "approval"
      BY <1>0, <3>1 DEF AfterCheck, Active, Record, FlowType
    <3>4. QED
      BY <3>2, <3>3 DEF Gated
  <2>2. QED
    BY <1>2, <1>6, <2>1 DEF Hand, Halting
<1>7. CASE wf.pc = "record" /\ result \notin {"none", "failed"}
  <2>1. r = AfterRecord(wf) /\ row[wf.step].status = wf.record
    BY <1>0, <1>7 DEF Resume, ResultFits
  <2>2. CASE wf.record = "pending"
    <3>1. r.pc = "await" /\ r.step = wf.step
      BY <1>0, <2>1, <2>2 DEF AfterRecord, FlowType
    <3>2. QED
      BY <1>2, <1>7, <2>2, <3>1 DEF Hand
  <2>3. CASE wf.record = "approved"
    <3>1. r.pc = "execute" /\ r.step = wf.step
      BY <1>0, <2>1, <2>3 DEF AfterRecord, GateOpens, FlowType
    <3>2. QED
      BY <1>2, <1>7, <2>1, <2>3, <3>1 DEF Hand, Halting
  <2>4. CASE wf.record = "succeeded" /\ wf.step # Len(run)
    <3>1. r.pc = "check" /\ r.step = wf.step + 1 /\ r.record = "none"
      BY <1>0, <2>1, <2>4 DEF AfterRecord, EndStep, FlowType
    <3>2. QED
      BY <1>2, <1>7, <2>1, <2>4, <3>1 DEF Hand
  <2>5. CASE wf.record \notin {"pending", "approved", "succeeded"}
             \/ (wf.record = "succeeded" /\ wf.step = Len(run))
    <3>1. r.pc = "closed" /\ r.step = wf.step
      BY <1>0, <2>1, <2>5 DEF AfterRecord, EndStep, FlowType
    <3>2. row[wf.step].status \in Halting \union {"succeeded"}
      BY <1>0, <1>7, <2>1, <2>5 DEF RowFits, Halting
    <3>3. QED
      BY <1>2, <3>1, <3>2
  <2>6. QED
    BY <2>2, <2>3, <2>4, <2>5
<1>8. CASE wf.pc = "await" /\ fired
  <2>1. r.pc = "record" /\ r.record = "timed_out" /\ r.step = wf.step
    BY <1>0, <1>8 DEF Resume, AfterTimer, Record, FlowType
  <2>2. QED
    BY <1>2, <1>8, <2>1 DEF Hand
<1>9. (wf.pc = "await" /\ ~fired) \/ (wf.pc # "await" /\ result = "none") => r = wf
  BY DEF Resume
<1>10. QED
  BY <1>0, <1>3, <1>4, <1>5, <1>6, <1>7, <1>8, <1>9

LEMMA HandKept == IInv /\ HandFits /\ [Next]_vars => HandFits'
<1> SUFFICES ASSUME IInv, HandFits, [Next]_vars PROVE HandFits'
  OBVIOUS
<1> USE DEF tablesVars, apiVars, actVars
<1>0. /\ wf.step \in Steps /\ executed \in [Steps -> Nat]
      /\ (run = NoRunbook => wf = NoFlow) /\ (run # NoRunbook => wf.pc # "none")
  BY DEF IInv, TypeOK, StepsFit
<1>1. CASE UNCHANGED <<wf, result, executed>>
  BY <1>1 DEF HandFits
<1>2. CASE WorkflowTask
  <2>1. run # NoRunbook /\ wf.pc \notin Ended /\ wf' = AfterTask /\ executed' = executed
    BY <1>2 DEF WorkflowTask, Running
  <2>2. /\ wf'.pc # wf.pc \/ wf'.step # wf.step => result' = "none"
        /\ result' \in {"none", result}
    BY <1>2 DEF WorkflowTask
  <2>3. QED
    BY <2>1, <2>2, TaskMoves DEF HandFits, Hand
<1>3. ASSUME NEW s \in Starters, run = NoRunbook, Launch(s), UNCHANGED <<result, executed>>
      PROVE  HandFits'
  <2>1. wf'.pc = "check" /\ wf'.record = "none"
    BY <1>3 DEF Launch, NoFlow
  <2>2. QED
    BY <2>1 DEF HandFits
<1>4. CASE ActivityOK \/ ActivityFails
  <2>1. /\ wf' = wf /\ InActivity(wf) /\ result = "none"
        /\ Effect \/ UNCHANGED <<row, executed>>
        /\ wf.pc = "execute" => Effect \/ result' \in {"none", "failed"}
    BY <1>4 DEF ActivityOK, ActivityFails, Scheduled
  <2>2. PICK n \in Nat : n = executed[wf.step] + 1 /\ n # 0
    BY <1>0
  <2>3. Effect /\ wf.pc = "execute" => executed'[wf.step] # 0
    BY <1>0, <2>2 DEF Effect
  <2>4. wf.pc # "execute" => executed' = executed
    BY <2>1 DEF Effect
  <2>5. QED
    BY <2>1, <2>3, <2>4 DEF HandFits
<1>5. QED
  BY <1>1, <1>2, <1>3, <1>4
  DEF Next, vars, Acknowledge, Resolve, StarterStep, ListOpen, Start, StartFails, Launch, Mark,
      MarkFails, DeciderStep, ReadPending, Deliver, DeliverFails, TimerFires

LEMMA HandAlways == Spec => []HandFits
<1>1. Init => HandFits
  BY DEF Init, HandFits, NoFlow
<1>2. QED
  BY <1>1, HandKept, IInvAlways, PTL DEF Spec

LEMMA InitSequence == Init => Sequence!Init
<1> SUFFICES ASSUME Init PROVE Sequence!Init
  OBVIOUS
<1>1. \A i \in Steps : Outcome(i) = "waiting" /\ Releaser(i) = Nobody
  BY DEF Init, Outcome, InHand, Releaser, Gated, Halting
<1>2. Consent = {}
  BY DEF Init, Consent
<1>3. QED
  BY <1>1, <1>2 DEF Init, Sequence!Init

LEMMA UnseenSteps ==
    ASSUME UNCHANGED <<run, wf, row, apiVars, executed>>
    PROVE  UNCHANGED Sequence!vars
<1>1. \A i : Gated(i)' = Gated(i) /\ InHand(i)' = InHand(i)
  BY DEF Gated, InHand
<1>2. \A i \in Steps : Outcome(i)' = Outcome(i)
  BY <1>1 DEF Outcome
<1>3. \A i \in Steps : Releaser(i)' = Releaser(i)
  BY <1>1, <1>2 DEF Releaser
<1>4. Consent' = Consent
  BY DEF Consent, apiVars
<1>5. QED
  BY <1>2, <1>3, <1>4 DEF Sequence!vars

\* A decision on its way, whatever becomes of it.
LEMMA DecisionsAgree ==
    ASSUME NEW d \in Deciders, UNCHANGED <<run, wf, row, executed>>,
           \A e \in Deciders \ {d} : asked'[e] = asked[e] /\ answer'[e] = answer[e],
           d \notin Consent
    PROVE  [Sequence!Next]_Sequence!vars
<1>1. \A i : Gated(i)' = Gated(i) /\ InHand(i)' = InHand(i)
  BY DEF Gated, InHand
<1>2. \A i \in Steps : Outcome(i)' = Outcome(i)
  BY <1>1 DEF Outcome
<1>3. \A i \in Steps : Releaser(i)' = Releaser(i)
  BY <1>1, <1>2 DEF Releaser
<1>4. Consent' = Consent \/ Consent' = Consent \union {d}
  BY DEF Consent
<1>5. CASE Consent' = Consent
  BY <1>2, <1>3, <1>5 DEF Sequence!vars
<1>6. CASE Consent' = Consent \union {d}
  <2>1. Sequence!Agree(d)
    BY <1>2, <1>3, <1>6 DEF Sequence!Agree
  <2>2. QED
    BY <2>1 DEF Sequence!Next
<1>7. QED
  BY <1>4, <1>5, <1>6

LEMMA LaunchAdopts ==
    ASSUME IInv, NEW s \in Starters, RunbookOf[s] # NoRunbook /\ Launch(s),
           UNCHANGED <<row, apiVars, executed>>
    PROVE  [Sequence!Next]_Sequence!vars
<1>1. CASE run # NoRunbook
  BY <1>1, UnseenSteps DEF Launch
<1>2. CASE run = NoRunbook
  <2>1. run' = RunbookOf[s] /\ wf'.pc = "check" /\ \A i \in Steps : row[i].status = "none"
    BY <1>2 DEF Launch, NoFlow, IInv, StepsFit
  <2>2. \A i \in Steps : Outcome(i) = "waiting" /\ Outcome(i)' = "waiting"
    BY <1>2, <2>1 DEF Outcome, InHand, Halting
  <2>3. \A i \in Steps : Releaser(i)' = Releaser(i)
    BY <2>2 DEF Releaser
  <2>4. Consent' = Consent
    BY DEF Consent, apiVars
  <2>5. Sequence!Adopt(RunbookOf[s])
    BY <1>2, <2>1, <2>2, <2>3, <2>4 DEF Sequence!Adopt
  <2>6. QED
    BY <2>5 DEF Sequence!Next
<1>3. QED
  BY <1>1, <1>2

\* The current step is the one that is due, and no later step shows anything.
LEMMA CurrentIsDue ==
    ASSUME IInv, run # NoRunbook
    PROVE  /\ wf.step \in Steps /\ Sequence!Due(wf.step)
           /\ \A j \in Steps : j > wf.step => Outcome(j) = "waiting"
           /\ \A j \in Steps : j < wf.step => Outcome(j) = "succeeded"
<1>1. TypeOK /\ StepsFit(wf) /\ wf.step \in Steps
  BY DEF IInv, TypeOK
<1>2. \A j \in Steps : j > wf.step => Outcome(j) = "waiting"
  <2> SUFFICES ASSUME NEW j \in Steps, j > wf.step PROVE Outcome(j) = "waiting"
    OBVIOUS
  <2>1. row[j].status = "none" /\ j # wf.step
    BY <1>1, StepsAreNaturals DEF StepsFit
  <2>2. QED
    BY <2>1 DEF Outcome, InHand, Halting
<1>3. \A j \in Steps : j < wf.step => Outcome(j) = "succeeded"
  <2>1. \A j \in Steps : j < wf.step => row[j].status = "succeeded"
    BY <1>1 DEF StepsFit
  <2>2. QED
    BY <2>1 DEF Outcome, Halting
<1>4. wf.step <= Len(run)
  BY <1>1 DEF StepsFit
<1>5. QED
  BY <1>1, <1>2, <1>3, <1>4 DEF Sequence!Due

LEMMA OutcomeCases ==
    ASSUME TypeOK, NEW i \in Steps
    PROVE  /\ row[i].status = "succeeded" => Outcome(i) = "succeeded"
           /\ row[i].status \in Halting => Outcome(i) = "stopped"
           /\ row[i].status \notin Halting \union {"succeeded"} /\ InHand(i) =>
                 Outcome(i) = "released"
           /\ row[i].status \notin Halting \union {"succeeded"} /\ ~InHand(i) =>
                 Outcome(i) = "waiting"
<1>1. row[i].status \in RowStatuses
  BY DEF TypeOK
<1>2. QED
  BY <1>1 DEF Outcome, Halting, RowStatuses

LEMMA TaskImplements ==
    ASSUME IInv, HandFits, WorkflowTask, TypeOK'
    PROVE  [Sequence!Next]_Sequence!vars
<1>1. /\ run # NoRunbook /\ run' = run /\ wf.pc \notin Ended /\ wf' = AfterTask
      /\ row' = row /\ executed' = executed
      /\ Consent' = Consent
  BY DEF WorkflowTask, Running, Consent, tablesVars, apiVars
<1>2. PICK k \in Steps : k = wf.step /\ k \in Nat /\ TypeOK
  BY StepsAreNaturals DEF IInv, TypeOK
<1>3. \A i : Gated(i)' = Gated(i)
  BY <1>1 DEF Gated
<1>4. \A i \in Steps : (InHand(i)' <=> InHand(i)) => Outcome(i)' = Outcome(i)
  BY <1>1 DEF Outcome
<1>5. \A i \in Steps : row[i].status \in Halting \union {"succeeded"} => Outcome(i)' = Outcome(i)
  <2> SUFFICES ASSUME NEW i \in Steps, row[i].status \in Halting \union {"succeeded"}
               PROVE  Outcome(i)' = Outcome(i)
    OBVIOUS
  <2>1. row'[i].status = row[i].status
    BY <1>1
  <2>2. QED
    BY <2>1 DEF Outcome, Halting
<1>6. \A i \in Steps : Outcome(i)' = Outcome(i) => Releaser(i)' = Releaser(i)
  BY <1>1, <1>3 DEF Releaser
<1>7. /\ InHand(k) <=> Hand(wf)
      /\ \A i : i # k => ~InHand(i)
      /\ \A i : InHand(i)' <=> i = wf'.step /\ Hand(wf')
  BY <1>1, <1>2 DEF InHand, Hand
<1>8. CASE \A i \in Steps : Outcome(i)' = Outcome(i)
  BY <1>1, <1>6, <1>8 DEF Sequence!vars
<1>9. CASE /\ wf'.step = k
           /\ (Hand(wf') <=> Hand(wf)) \/ row[k].status \in Halting \union {"succeeded"}
  <2>1. \A i \in Steps : Outcome(i)' = Outcome(i)
    BY <1>4, <1>5, <1>7, <1>9
  <2>2. QED
    BY <1>8, <2>1
<1>10. CASE wf'.step = k + 1 /\ wf'.pc = "check" /\ row[k].status = "succeeded"
  <2>1. ~Hand(wf')
    BY <1>10 DEF Hand
  <2>2. \A i \in Steps : Outcome(i)' = Outcome(i)
    BY <1>4, <1>5, <1>7, <1>10, <2>1
  <2>3. QED
    BY <1>8, <2>2
<1>11. CASE /\ wf'.step = k /\ wf'.pc = "execute" /\ ~Hand(wf)
            /\ row[k].status \notin Halting \union {"succeeded"}
            /\ Gated(k) => row[k].status = "approved"
  <2>1. InHand(k)' /\ ~InHand(k)
    BY <1>1, <1>7, <1>11 DEF Hand
  <2>2. Outcome(k) = "waiting" /\ Outcome(k)' = "released"
    <3>1. Outcome(k) = "waiting"
      BY <1>2, <1>11, <2>1, OutcomeCases
    <3>2. row[k].status \in {"none", "pending", "approved"}
      BY <1>2, <1>11 DEF TypeOK, Halting, RowStatuses
    <3>3. row'[k].status = row[k].status
      BY <1>1
    <3>4. QED
      BY <2>1, <3>1, <3>2, <3>3 DEF Outcome, Halting
  <2>3. \A i \in Steps \ {k} : Outcome(i)' = Outcome(i)
    BY <1>4, <1>7, <1>11
  <2>4. \A i \in Steps \ {k} : Releaser(i)' = Releaser(i)
    BY <1>6, <2>3
  <2>5. Sequence!Due(k) /\ \A j \in Steps : j > k => Outcome(j) = "waiting"
    BY <1>1, <1>2, CurrentIsDue
  <2>6. Releaser(k) = Nobody
    BY <2>2 DEF Releaser
  <2>7. CASE ~Gated(k)
    <3>1. Releaser(k)' = Nobody
      BY <1>3, <2>7 DEF Releaser
    <3>2. run[k] # "approval"
      <4>1. k \in 1..Len(run)
        BY <1>1, <1>2, <2>5, RunbookType DEF Sequence!Due, Steps
      <4>2. QED
        BY <1>1, <2>7, <4>1 DEF Gated
    <3>3. \A i \in Steps : Releaser(i)' = Releaser(i)
      BY <2>4, <2>6, <3>1
    <3>4. Sequence!Release(k)
      BY <1>1, <1>2, <2>2, <2>3, <2>5, <3>2, <3>3 DEF Sequence!Release
    <3>5. QED
      BY <1>2, <3>4 DEF Sequence!Next
  <2>8. CASE Gated(k)
    <3> DEFINE d == row[k].actor
    <3>1. row[k].status = "approved" /\ Releaser(k)' = d
      BY <1>1, <1>3, <1>11, <2>2, <2>8 DEF Releaser
    <3>2. d = wf.releaser /\ Approver(d) /\ d \in Consent
      BY <1>2, <2>8, <3>1 DEF IInv, DecisionFits, Approver, Sent, Consent
    <3>3. \A j \in Steps : Releaser(j) # d
      <4> SUFFICES ASSUME NEW j \in Steps, Releaser(j) = d PROVE FALSE
        OBVIOUS
      <4>1. d \in Deciders /\ d # Nobody
        BY <3>2, DeciderAssumption DEF Approver
      <4>2. row[j].actor = d /\ Outcome(j) # "waiting"
        BY <4>1 DEF Releaser
      <4>3. j < k
        BY <1>2, <2>2, <2>5, <4>2, StepsAreNaturals
      <4>4. row[j].actor # wf.releaser
        BY <1>2, <4>1, <4>2, <4>3 DEF IInv, DecisionFits
      <4>5. QED
        BY <3>2, <4>2, <4>4
    <3>4. run[k] = "approval"
      BY <2>8 DEF Gated
    <3>5. Sequence!Release(k)
      <4> HIDE DEF d
      <4>1. [i \in Steps |-> Releaser(i)]' = [[i \in Steps |-> Releaser(i)] EXCEPT ![k] = d]
        BY <1>2, <2>4, <3>1
      <4>2. [i \in Steps |-> Outcome(i)]' = [[i \in Steps |-> Outcome(i)] EXCEPT ![k] = "released"]
        BY <1>2, <2>2, <2>3
      <4>3. \A j \in Steps : [i \in Steps |-> Releaser(i)][j] # d
        BY <3>3
      <4>4. QED
        BY <1>1, <1>2, <2>2, <2>5, <3>2, <3>4, <4>1, <4>2, <4>3 DEF Sequence!Release
    <3>6. QED
      BY <1>2, <3>5 DEF Sequence!Next
  <2>9. QED
    BY <2>7, <2>8
<1>12. QED
  BY <1>1, <1>2, <1>9, <1>10, <1>11, TaskMoves

\* An attempt of the action carries the released step out; an attempt of the
\* record ends the step, or shows nothing.
LEMMA AttemptImplements ==
    ASSUME IInv, HandFits, Scheduled, Effect \/ UNCHANGED <<row, executed>>,
           UNCHANGED <<run, wf, apiVars>>
    PROVE  [Sequence!Next]_Sequence!vars
<1>1. PICK k \in Steps : k = wf.step /\ k \in Nat /\ TypeOK
  BY StepsAreNaturals DEF IInv, TypeOK
<1>2. /\ run # NoRunbook /\ wf.pc \in {"check", "record", "execute"}
      /\ row \in [Steps -> [status : RowStatuses, actor : Deciders \union {Nobody}]]
      /\ executed \in [Steps -> Nat] /\ RowFits(wf) /\ DecisionFits(wf)
      /\ wf.record \in RowStatuses
  BY <1>1 DEF Scheduled, Running, InActivity, IInv, TypeOK
<1>3. Consent' = Consent /\ run' = run /\ \A i : Gated(i)' = Gated(i) /\ InHand(i)' = InHand(i)
  BY DEF Consent, apiVars, Gated, InHand
<1>4. Sequence!Due(k)
  BY <1>1, <1>2, CurrentIsDue
<1>5. CASE UNCHANGED <<row, executed>>
  BY <1>5, UnseenSteps
<1>6. CASE Effect /\ wf.pc = "check"
  BY <1>5, <1>6 DEF Effect
<1>7. CASE Effect /\ wf.pc = "execute"
  <2>1. row' = row /\ executed' = [executed EXCEPT ![k] = @ + 1]
    BY <1>1, <1>7 DEF Effect
  <2>2. \A i \in Steps : Outcome(i)' = Outcome(i)
    BY <1>3, <2>1 DEF Outcome
  <2>3. \A i \in Steps : Releaser(i)' = Releaser(i)
    BY <1>3, <2>1, <2>2 DEF Releaser
  <2>4. Outcome(k) = "released"
    <3>1. row[k].status \notin Halting \union {"succeeded"} /\ InHand(k)
      BY <1>1, <1>2, <1>7 DEF RowFits, Before, InHand, Halting
    <3>2. QED
      BY <1>1, <3>1, OutcomeCases
  <2>5. Sequence!CarryOut(k)
    BY <1>3, <2>1, <2>2, <2>3, <2>4 DEF Sequence!CarryOut
  <2>6. QED
    BY <2>5 DEF Sequence!Next
<1>8. CASE Effect /\ wf.pc = "record"
  <2>1. /\ executed' = executed
        /\ row' = [row EXCEPT ![k] = [status |-> wf.record, actor |-> wf.releaser]]
    BY <1>1, <1>8 DEF Effect
  <2>2. /\ row'[k].status = wf.record /\ row'[k].actor = wf.releaser
        /\ \A i \in Steps \ {k} : row'[i] = row[i]
    BY <1>2, <2>1
  <2>3. \A i \in Steps \ {k} : Outcome(i)' = Outcome(i)
    BY <1>3, <2>2 DEF Outcome
  <2>4. \A i \in Steps \ {k} : Releaser(i)' = Releaser(i)
    BY <1>3, <2>2, <2>3 DEF Releaser
  <2>5. InHand(k) <=> wf.record \in {"succeeded", "failed"}
    BY <1>1, <1>2, <1>8 DEF InHand
  <2>6. ASSUME row[k].status = wf.record, wf.record \in Halting \union {"succeeded"}
        PROVE  [Sequence!Next]_Sequence!vars
    <3>1. row[k].actor = wf.releaser
      BY <1>1, <1>2, <2>6 DEF DecisionFits, Halting
    <3>2. row'[k] = row[k]
      BY <1>2, <2>1, <2>6, <3>1
    <3>3. row' = row
      BY <1>2, <2>1, <3>2
    <3>4. QED
      BY <1>5, <2>1, <3>3
  <2>7. CASE wf.record \in {"pending", "approved"}
    <3>1. row[k].status \in {"none", "pending", "approved"} /\ ~InHand(k)
      BY <1>1, <1>2, <1>8, <2>5, <2>7 DEF RowFits
    <3>2. Outcome(k) = "waiting" /\ Outcome(k)' = "waiting"
      BY <1>3, <2>2, <2>7, <3>1 DEF Outcome, Halting
    <3>3. Releaser(k) = Nobody /\ Releaser(k)' = Nobody
      BY <3>2 DEF Releaser
    <3>4. \A i \in Steps : Outcome(i)' = Outcome(i) /\ Releaser(i)' = Releaser(i)
      BY <2>3, <2>4, <3>2, <3>3
    <3>5. QED
      BY <1>3, <2>1, <3>4 DEF Sequence!vars
  <2>8. CASE wf.record \in {"succeeded", "failed"} /\ row[k].status # wf.record
    <3>1. row[k].status = Before(k) /\ InHand(k)
      BY <1>1, <1>2, <1>8, <2>5, <2>8 DEF RowFits
    <3>2. /\ Outcome(k) = "released"
          /\ wf.record = "succeeded" => Outcome(k)' = "succeeded"
          /\ wf.record = "failed" => Outcome(k)' = "stopped"
      BY <2>2, <2>8, <3>1 DEF Outcome, Halting, Before
    <3>3. Releaser(k)' = Releaser(k)
      <4>1. CASE Gated(k)
        <5>1. row[k].status = "approved" /\ row[k].actor = wf.releaser
          BY <1>1, <1>2, <3>1, <4>1 DEF Before, DecisionFits
        <5>2. Outcome(k)' # "waiting" /\ Outcome(k) # "waiting"
          BY <2>8, <3>2
        <5>3. QED
          BY <1>3, <2>2, <2>8, <5>1, <5>2 DEF Releaser
      <4>2. CASE ~Gated(k)
        BY <1>3, <4>2 DEF Releaser
      <4>3. QED
        BY <4>1, <4>2
    <3>4. \A i \in Steps : Releaser(i)' = Releaser(i)
      BY <2>4, <3>3
    <3>5. CASE wf.record = "succeeded"
      <4>1. executed[k] > 0
        <5>1. executed[k] # 0 /\ executed[k] \in Nat
          BY <1>1, <1>2, <1>8, <3>5 DEF HandFits
        <5>2. QED
          BY <5>1
      <4>2. Sequence!Succeed(k)
        BY <1>3, <2>1, <2>3, <3>2, <3>4, <3>5, <4>1 DEF Sequence!Succeed
      <4>3. QED
        BY <4>2 DEF Sequence!Next
    <3>6. CASE wf.record = "failed"
      <4>1. Sequence!Stop(k)
        BY <1>3, <1>4, <2>1, <2>3, <3>2, <3>4, <3>6 DEF Sequence!Stop
      <4>2. QED
        BY <4>1 DEF Sequence!Next
    <3>7. QED
      BY <2>8, <3>5, <3>6
  <2>9. CASE wf.record \in {"rejected", "timed_out", "skipped"} /\ row[k].status # wf.record
    <3>1. row[k].status \in {"none", "pending"} /\ ~InHand(k)
      BY <1>1, <1>2, <1>8, <2>5, <2>9 DEF RowFits
    <3>2. Outcome(k) = "waiting" /\ Outcome(k)' = "stopped"
      BY <2>2, <2>9, <3>1 DEF Outcome, Halting
    <3>3. Releaser(k) = Nobody /\ Releaser(k)' = Nobody
      BY <2>2, <2>9, <3>2 DEF Releaser
    <3>4. \A i \in Steps : Releaser(i)' = Releaser(i)
      BY <2>4, <3>3
    <3>5. Sequence!Stop(k)
      BY <1>3, <1>4, <2>1, <2>3, <3>2, <3>4 DEF Sequence!Stop
    <3>6. QED
      BY <3>5 DEF Sequence!Next
  <2>10. wf.record \in {"pending", "approved", "succeeded", "failed", "rejected", "timed_out",
                        "skipped"}
    BY <1>2, <1>8 DEF RowFits
  <2>11. QED
    BY <2>6, <2>7, <2>8, <2>9, <2>10 DEF Halting
<1>9. QED
  BY <1>2, <1>5, <1>6, <1>7, <1>8

LEMMA StepImplements ==
    ASSUME IInv, HandFits, IInv', [Next]_vars
    PROVE  [Sequence!Next]_Sequence!vars
<1> USE DEF tablesVars, apiVars, actVars
<1>1. CASE UNCHANGED <<run, wf, row, apiVars, executed>>
  BY <1>1, UnseenSteps DEF Sequence!vars
<1>2. ASSUME NEW s \in Starters, Start(s) \/ StartFails(s)
      PROVE  [Sequence!Next]_Sequence!vars
  <2>1. /\ UNCHANGED <<row, apiVars, executed>>
        /\ \/ RunbookOf[s] # NoRunbook /\ Launch(s)
           \/ UNCHANGED <<run, wf>>
    BY <1>2 DEF Start, StartFails
  <2>2. QED
    BY <1>1, <2>1, LaunchAdopts
<1>3. ASSUME NEW d \in Deciders, DeciderStep(d)
      PROVE  [Sequence!Next]_Sequence!vars
  <2>1. /\ asked \in [Deciders -> {<<>>} \union ({"approve", "reject"} \X Steps)]
        /\ answer \in [Deciders -> {"none", "202", "409", "500"}]
    BY DEF IInv, TypeOK
  <2>2. UNCHANGED <<run, wf, row, executed>> /\ d \notin Consent
    BY <1>3 DEF DeciderStep, ReadPending, Deliver, DeliverFails, Consent
  <2>3. \A e \in Deciders \ {d} : asked'[e] = asked[e] /\ answer'[e] = answer[e]
    BY <1>3, <2>1 DEF DeciderStep, ReadPending, Deliver, DeliverFails
  <2>4. QED
    BY <2>2, <2>3, DecisionsAgree
<1>4. CASE WorkflowTask
  BY <1>4, TaskImplements DEF IInv
<1>5. CASE ActivityOK \/ ActivityFails
  <2>1. /\ Scheduled /\ UNCHANGED <<run, wf, apiVars>>
        /\ Effect \/ UNCHANGED <<row, executed>>
    BY <1>5 DEF ActivityOK, ActivityFails
  <2>2. QED
    BY <2>1, AttemptImplements
<1>6. CASE \/ Acknowledge \/ Resolve \/ TimerFires \/ UNCHANGED vars
           \/ \E s \in Starters : ListOpen(s) \/ Mark(s) \/ MarkFails(s)
  BY <1>1, <1>6 DEF Acknowledge, Resolve, TimerFires, ListOpen, Mark, MarkFails, vars
<1>7. QED
  BY <1>2, <1>3, <1>4, <1>5, <1>6 DEF Next, StarterStep

\* Starters, tasks, activities and decisions implement the abstract sequence, for
\* every catalog, any number of starters and people and whatever fails: steps are
\* released in order, once, and a gated one by a person who released no other.
THEOREM ImplementsSequenceAlways == Spec => ImplementsSequence
<1>1. IInv /\ HandFits /\ IInv' /\ [Next]_vars => [Sequence!Next]_Sequence!vars
  BY StepImplements
<1>2. QED
  BY <1>1, InitSequence, IInvAlways, HandAlways, PTL
     DEF Spec, ImplementsSequence, Sequence!Spec
=============================================================================
