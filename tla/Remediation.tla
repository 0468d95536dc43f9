---------------------------- MODULE Remediation ----------------------------
(***************************************************************************)
(* Automated remediation of one incident: starters poll for open incidents *)
(* and start a Temporal workflow, the workflow walks a runbook, and people *)
(* approve or reject its gated steps through the incidents API.            *)
(*                                                                         *)
(* Temporal is modelled from how the code uses it: a workflow task handles *)
(* every event that has arrived since the last one, the main routine of    *)
(* the workflow first and its two signal routines after it; activities run *)
(* between tasks and are retried up to MaxAttempts times.                  *)
(***************************************************************************)
EXTENDS Runbook, FiniteSets

CONSTANTS
    Starters,     \* replicas of the remediation starter
    CatalogOf,    \* starter -> the catalog it was started with
    Incident,     \* the rule, service and severity of the incident
    Deciders,     \* people; each sends one decision to the API
    Nobody,
    MaxAttempts,  \* the activities' RetryPolicy.MaximumAttempts
    MaxFaults     \* bound: failed attempts, lost replies, lost marks

RunbookOf == [s \in Starters |-> Find(CatalogOf[s], Incident)]

\* A starter does not start with a catalog that is not valid.
ASSUME RunbookAssumption ==
    /\ MaxSteps \in Nat \ {0} /\ NoRunbook \notin Runbooks
    /\ \A s \in Starters : Len(CatalogOf[s]) \in Nat /\ Validate(CatalogOf[s])
ASSUME DeciderAssumption == Nobody \notin Deciders
ASSUME BoundAssumption == MaxAttempts \in Nat \ {0} /\ MaxFaults \in Nat

VARIABLES
    status,    \* incidents.status
    marked,    \* incidents.remediated_at is set
    starter,   \* starter -> "idle", "starting" (listed the incident) or "marking"
    run,       \* the runbook in the workflow's input, or NoRunbook before it starts
    wf,        \* the workflow's local state
    attempt,   \* attempt of the scheduled activity, 0 when none is
    result,    \* how the last activity ended: "none", "failed" or what it returned
    fired,     \* the approval timer has fired
    channel,   \* signal -> the sender of the latest one that no task has handled
               \* yet, or Nobody: the routine keeps no more of a channel's content
    row,       \* remediation_actions: step -> its status and actor
    asked,     \* decider -> the decision and the step the API read as pending
    answer,    \* decider -> "none", "202", "409" or "500"
    executed,  \* history: step -> how often its action was carried out
    faults

tablesVars == <<status, marked, row>>
apiVars == <<asked, answer>>
actVars == <<attempt, result, fired>>
vars == <<status, marked, starter, run, wf, attempt, result, fired, channel, row, asked,
          answer, executed, faults>>

Empty == [kind \in {"approve", "reject"} |-> Nobody]
Active == {"open", "acknowledged"}
RowStatuses == {"none", "pending", "approved", "rejected", "timed_out", "succeeded",
                "failed", "skipped"}
\* The statuses whose record ends the run.
Halting == {"rejected", "timed_out", "failed", "skipped"}

\* pc names the activity awaited ("check", "record", "execute"), or "await" for
\* the approval, or how the run ended: "closed", or "broken" by an activity that
\* failed. by is the actor of the last decision, releaser the actor in the audit
\* record of the current step.
NoFlow == [pc |-> "none", step |-> 1, record |-> "none", approved |-> FALSE,
           rejected |-> FALSE, by |-> Nobody, releaser |-> Nobody]
Ended == {"closed", "broken"}
InActivity(w) == w.pc \in {"check", "record", "execute"}
Running == run # NoRunbook /\ wf.pc \notin Ended

TypeOK ==
    /\ status \in {"open", "acknowledged", "resolved"}
    /\ marked \in BOOLEAN
    /\ starter \in [Starters -> {"idle", "starting", "marking"}]
    /\ run \in Runbooks \union {NoRunbook}
    /\ wf \in [pc : {"none", "check", "record", "execute", "await"} \union Ended,
               step : Steps, record : RowStatuses, approved : BOOLEAN,
               rejected : BOOLEAN, by : Deciders \union {Nobody},
               releaser : Deciders \union {Nobody}]
    /\ attempt \in 0..MaxAttempts
    /\ result \in {"none", "failed", "ok", "open", "acknowledged", "resolved"}
    /\ fired \in BOOLEAN
    /\ channel \in [{"approve", "reject"} -> Deciders \union {Nobody}]
    /\ row \in [Steps -> [status : RowStatuses, actor : Deciders \union {Nobody}]]
    /\ asked \in [Deciders -> {<<>>} \union ({"approve", "reject"} \X Steps)]
    /\ answer \in [Deciders -> {"none", "202", "409", "500"}]
    /\ executed \in [Steps -> Nat]
    /\ faults \in 0..MaxFaults

Init ==
    /\ status = "open" /\ marked = FALSE
    /\ starter = [s \in Starters |-> "idle"]
    /\ run = NoRunbook /\ wf = NoFlow
    /\ attempt = 0 /\ result = "none" /\ fired = FALSE
    /\ channel = Empty
    /\ row = [i \in Steps |-> [status |-> "none", actor |-> Nobody]]
    /\ asked = [d \in Deciders |-> <<>>]
    /\ answer = [d \in Deciders |-> "none"]
    /\ executed = [i \in Steps |-> 0]
    /\ faults = 0

Fault == faults < MaxFaults /\ faults' = faults + 1

-----------------------------------------------------------------------------
(* The incident and the starters.                                          *)

\* A person, or the correlation engine, closes the incident; see Incidents for
\* the full life cycle.
Acknowledge ==
    /\ status = "open" /\ status' = "acknowledged"
    /\ UNCHANGED <<marked, starter, run, wf, actVars, channel, row, apiVars, executed,
                   faults>>

Resolve ==
    /\ status # "resolved" /\ status' = "resolved"
    /\ UNCHANGED <<marked, starter, run, wf, actVars, channel, row, apiVars, executed,
                   faults>>

\* listOpenUnremediatedSQL returns the incident. What it showed may be stale by
\* the time the starter acts on it.
ListOpen(s) ==
    /\ starter[s] = "idle" /\ status = "open" /\ ~marked
    /\ starter' = [starter EXCEPT ![s] = "starting"]
    /\ UNCHANGED <<tablesVars, run, wf, actVars, channel, apiVars, executed, faults>>

\* ExecuteWorkflow under a reuse policy that replaces the earlier run.
LaunchAlways(s) ==
    /\ run' = RunbookOf[s]
    /\ wf' = [NoFlow EXCEPT !.pc = "check"]
    /\ attempt' = 1

\* ExecuteWorkflow with REJECT_DUPLICATE: a workflow id is used once.
Launch(s) ==
    IF run = NoRunbook
    THEN /\ run' = RunbookOf[s]
         /\ wf' = [NoFlow EXCEPT !.pc = "check"]
         /\ attempt' = 1
    ELSE UNCHANGED <<run, wf, attempt>>

\* Start, if "already started" were reported as an error.
StartStrict(s) ==
    /\ starter[s] = "starting"
    /\ RunbookOf[s] # NoRunbook => Launch(s)
    /\ RunbookOf[s] = NoRunbook => UNCHANGED <<run, wf, attempt>>
    /\ starter' = [starter EXCEPT ![s] = IF run = NoRunbook THEN "marking" ELSE "idle"]
    /\ UNCHANGED <<tablesVars, result, fired, channel, apiVars, executed, faults>>

\* StartPending, one incident: without a matching runbook there is nothing to
\* start; a run that exists already counts as started. Then it is marked.
Start(s) ==
    /\ starter[s] = "starting"
    /\ IF RunbookOf[s] = NoRunbook THEN UNCHANGED <<run, wf, attempt>> ELSE Launch(s)
    /\ starter' = [starter EXCEPT ![s] = "marking"]
    /\ UNCHANGED <<tablesVars, result, fired, channel, apiVars, executed, faults>>

\* The start call fails, with or without an effect: the incident is left
\* unmarked for the next tick. (A starter that dies here does the same.)
StartFails(s) ==
    /\ starter[s] = "starting"
    /\ Fault
    /\ \/ RunbookOf[s] # NoRunbook /\ Launch(s)
       \/ UNCHANGED <<run, wf, attempt>>
    /\ starter' = [starter EXCEPT ![s] = "idle"]
    /\ UNCHANGED <<tablesVars, result, fired, channel, apiVars, executed>>

Mark(s) ==
    /\ starter[s] = "marking"
    /\ marked' = TRUE
    /\ starter' = [starter EXCEPT ![s] = "idle"]
    /\ UNCHANGED <<status, run, wf, actVars, channel, row, apiVars, executed, faults>>

\* markRemediated is best effort.
MarkFails(s) ==
    /\ starter[s] = "marking"
    /\ Fault
    /\ starter' = [starter EXCEPT ![s] = "idle"]
    /\ UNCHANGED <<tablesVars, run, wf, actVars, channel, apiVars, executed>>

-----------------------------------------------------------------------------
(* The workflow: what one task does to its local state.                    *)

Record(w, s) == [w EXCEPT !.pc = "record", !.record = s]
EndStep(w) == IF w.step = Len(run) THEN [w EXCEPT !.pc = "closed"]
              ELSE [w EXCEPT !.pc = "check", !.step = @ + 1, !.record = "none",
                             !.releaser = Nobody]

\* After the record of an approval, without clearing the decision.
GateOpensUncleared(w) == [w EXCEPT !.pc = "execute"]
\* After the record of an approval: clear the decision and execute.
GateOpens(w) == [w EXCEPT !.pc = "execute", !.approved = FALSE, !.rejected = FALSE,
                          !.by = Nobody]

\* AfterRecord, if only a rejection halted the runbook.
AfterRecordLax(w) ==
    CASE w.record = "pending" -> [w EXCEPT !.pc = "await"]
      [] w.record = "approved" -> GateOpens(w)
      [] w.record = "rejected" -> [w EXCEPT !.pc = "closed"]
      [] OTHER -> EndStep(w)

\* The audit row is written: go on to what the recorded outcome calls for.
AfterRecord(w) ==
    CASE w.record = "pending" -> [w EXCEPT !.pc = "await"]
      [] w.record = "approved" -> GateOpens(w)
      [] w.record = "succeeded" -> EndStep(w)
      [] OTHER -> [w EXCEPT !.pc = "closed"]

\* On a timeout, wait once more.
AfterTimerAgain(w) == w
AfterTimer(w) == Record(w, "timed_out")

AfterCheck(w) ==
    CASE result = "resolved" -> Record(w, "skipped")
      [] result \in Active /\ run[w.step] = "approval" -> Record(w, "pending")
      [] OTHER -> [w EXCEPT !.pc = "execute"]

\* The main routine continues when what it waits for has happened. A failed
\* action is recorded; any other failed activity fails the workflow.
Resume(w) ==
    CASE w.pc = "await" -> IF fired THEN AfterTimer(w) ELSE w
      [] w.pc # "await" /\ result = "none" -> w
      [] w.pc = "execute" /\ result # "none" ->
            Record(w, IF result = "failed" THEN "failed" ELSE "succeeded")
      [] w.pc \in {"check", "record"} /\ result = "failed" -> [w EXCEPT !.pc = "broken"]
      [] w.pc = "check" /\ result \notin {"none", "failed"} -> AfterCheck(w)
      [] w.pc = "record" /\ result \notin {"none", "failed"} -> AfterRecord(w)

\* The two signal routines empty their channels, approvals first.
Drain(w) ==
    [w EXCEPT !.approved = @ \/ channel["approve"] # Nobody,
              !.rejected = @ \/ channel["reject"] # Nobody,
              !.by = IF channel["reject"] # Nobody THEN channel["reject"]
                     ELSE IF channel["approve"] # Nobody THEN channel["approve"] ELSE @]

\* A decision ends the wait; a rejection wins over an approval.
Wake(w) ==
    IF w.pc = "await" /\ (w.approved \/ w.rejected)
    THEN [Record(w, IF w.rejected THEN "rejected" ELSE "approved") EXCEPT !.releaser = w.by]
    ELSE w

AfterTask == Wake(Drain(Wake(Resume(wf))))

\* A workflow task: one or more events have arrived. A new activity is
\* scheduled when the main routine has moved on to one.
WorkflowTask ==
    /\ Running
    /\ (InActivity(wf) /\ result # "none") \/ (wf.pc = "await" /\ fired) \/ channel # Empty
    /\ wf' = AfterTask
    /\ channel' = Empty
    /\ LET moved == <<wf'.pc, wf'.step, wf'.record>> # <<wf.pc, wf.step, wf.record>>
       IN  /\ attempt' = IF ~moved THEN attempt ELSE IF InActivity(wf') THEN 1 ELSE 0
           /\ result' = IF moved THEN "none" ELSE result
           /\ fired' = (fired /\ ~moved)
    /\ UNCHANGED <<tablesVars, starter, run, apiVars, executed, faults>>

TimerFires ==
    /\ Running /\ wf.pc = "await" /\ ~fired
    /\ fired' = TRUE
    /\ UNCHANGED <<tablesVars, starter, run, wf, attempt, result, channel, apiVars,
                   executed, faults>>

-----------------------------------------------------------------------------
(* The activities.                                                         *)

Scheduled == Running /\ InActivity(wf) /\ result = "none"

\* What an attempt of the scheduled activity does outside the workflow:
\* RecordAction upserts the step's row, ExecuteAction posts the webhook.
Effect ==
    /\ row' = IF wf.pc = "record"
              THEN [row EXCEPT ![wf.step] = [status |-> wf.record, actor |-> wf.releaser]]
              ELSE row
    /\ executed' = IF wf.pc = "execute" THEN [executed EXCEPT ![wf.step] = @ + 1]
                   ELSE executed

\* An attempt succeeds and its result reaches Temporal.
ActivityOK ==
    /\ Scheduled
    /\ Effect
    /\ result' = IF wf.pc = "check" THEN status ELSE "ok"
    /\ attempt' = 0
    /\ UNCHANGED <<status, marked, starter, run, wf, fired, channel, apiVars, faults>>

\* An attempt fails, times out or dies with its worker, before or after its
\* effect: it is retried until the attempts are used up.
ActivityFails ==
    /\ Scheduled
    /\ Fault
    /\ Effect \/ UNCHANGED <<row, executed>>
    /\ IF attempt < MaxAttempts
       THEN attempt' = attempt + 1 /\ UNCHANGED result
       ELSE attempt' = 0 /\ result' = "failed"
    /\ UNCHANGED <<status, marked, starter, run, wf, fired, channel, apiVars>>

-----------------------------------------------------------------------------
(* The incidents API: decideRemediation in its two steps.                  *)

\* Pending: the first step whose row says pending; none is a 409.
ReadPending(d, kind, i) ==
    /\ asked[d] = <<>>
    /\ row[i].status = "pending" /\ \A j \in 1..(i - 1) : row[j].status # "pending"
    /\ asked' = [asked EXCEPT ![d] = <<kind, i>>]
    /\ UNCHANGED <<tablesVars, starter, run, wf, actVars, channel, answer, executed,
                   faults>>

Signal(d) ==
    channel' = IF Running THEN [channel EXCEPT ![asked[d][1]] = d] ELSE channel

\* SignalWorkflow: accepted by a run in progress, NotFound (409) otherwise.
Deliver(d) ==
    /\ asked[d] # <<>> /\ answer[d] = "none"
    /\ Signal(d)
    /\ answer' = [answer EXCEPT ![d] = IF Running THEN "202" ELSE "409"]
    /\ UNCHANGED <<tablesVars, starter, run, wf, actVars, asked, executed, faults>>

\* The reply to SignalWorkflow is lost, or the call never arrived.
DeliverFails(d) ==
    /\ asked[d] # <<>> /\ answer[d] = "none"
    /\ Fault
    /\ Signal(d) \/ UNCHANGED channel
    /\ answer' = [answer EXCEPT ![d] = "500"]
    /\ UNCHANGED <<tablesVars, starter, run, wf, actVars, asked, executed>>

-----------------------------------------------------------------------------

StarterStep(s) == ListOpen(s) \/ Start(s) \/ StartFails(s) \/ Mark(s) \/ MarkFails(s)

DeciderStep(d) ==
    \/ \E kind \in {"approve", "reject"}, i \in Steps : ReadPending(d, kind, i)
    \/ Deliver(d)
    \/ DeliverFails(d)

Next ==
    \/ Acknowledge
    \/ Resolve
    \/ \E s \in Starters : StarterStep(s)
    \/ \E d \in Deciders : DeciderStep(d)
    \/ WorkflowTask
    \/ TimerFires
    \/ ActivityOK
    \/ ActivityFails

Spec == Init /\ [][Next]_vars

\* Temporal dispatches tasks, activities and timers, the starters tick and the
\* API finishes its requests. People owe nothing, faults are bounded.
Fairness ==
    /\ WF_vars(WorkflowTask)
    /\ WF_vars(TimerFires)
    /\ WF_vars(ActivityOK)
    /\ \A s \in Starters : WF_vars(ListOpen(s)) /\ WF_vars(Start(s)) /\ WF_vars(Mark(s))
    /\ \A d \in Deciders : WF_vars(Deliver(d))

FairSpec == Spec /\ Fairness

-----------------------------------------------------------------------------
(* Properties.                                                             *)

Gated(i) == run # NoRunbook /\ i \in 1..Len(run) /\ run[i] = "approval"

\* Automation goes on only from a recorded success: a step is executed after
\* every earlier one succeeded, a gated one only once its approval is in the
\* audit trail, and no step that was rejected, timed out or skipped is executed
\* at all, whatever fails, is retried or is lost (the posture of the package
\* comment of workflow.go).
AutomationStops ==
    \A i \in Steps : executed[i] > 0 =>
        /\ run # NoRunbook /\ i <= Len(run)
        /\ row[i].status \in (IF Gated(i) THEN {"approved"} ELSE {"none"})
                             \union {"succeeded", "failed"}
        /\ \A j \in 1..(i - 1) : row[j].status = "succeeded"

\* Every gated step that was executed names somebody who approved, and nobody's
\* single approval released two steps, with decisions arriving at any moment,
\* several at once, or late.
ApprovalsAreNotReused ==
    \A i \in Steps : Gated(i) /\ executed[i] > 0 =>
        /\ row[i].actor \in Deciders
        /\ asked[row[i].actor][1] = "approve" /\ answer[row[i].actor] \in {"202", "500"}
        /\ \A j \in Steps \ {i} :
              Gated(j) /\ executed[j] > 0 => row[j].actor # row[i].actor

\* At most one step of a runbook waits for a decision, so the query behind the
\* decision API is unambiguous (pendingActionSQL).
OnePending ==
    \A i, j \in Steps : row[i].status = "pending" /\ row[j].status = "pending" => i = j

\* An incident has one run, whatever the starters believe, however often they
\* try and whichever catalog they carry (StartRemediationWorkflow).
RunNeverReplaced == [][run # NoRunbook => run' = run]_vars

\* The outcome of a step is final: once its row says how it ended, the step is not
\* carried out again and the row is not rewritten, neither by an attempt whose
\* reply was lost nor by another starter (StartRemediationWorkflow, RecordAction).
OutcomesAreFinal ==
    [][\A i \in Steps : row[i].status \in Halting \union {"succeeded"} =>
          row'[i] = row[i] /\ executed'[i] = executed[i]]_vars

\* A run always comes to an end: nobody answering does not hold it.
RunsEnd == run # NoRunbook ~> wf.pc \in Ended

\* An open incident is not re-examined for ever: it is marked, or stops being
\* open, although starts and marks fail (StartPending).
OpenIncidentIsHandled == status = "open" /\ ~marked ~> status # "open" \/ marked

\* "Automation never continues after a human has said no": once a rejection has
\* been answered 202, no step from the rejected one on is executed.
RejectionHalts ==
    [][\A d \in Deciders : answer[d] = "202" /\ asked[d][1] = "reject" =>
          \A i \in Steps : i >= asked[d][2] => executed'[i] = executed[i]]_vars
-----------------------------------------------------------------------------
(* What the remediation implements.                                        *)

\* The current step is being executed, or what came of it is about to be recorded.
InHand(i) ==
    /\ run # NoRunbook /\ i = wf.step
    /\ \/ wf.pc = "execute"
       \/ wf.pc \in {"record", "broken"} /\ wf.record \in {"succeeded", "failed"}

\* The audit trail decides how a step ended.
Outcome(i) ==
    CASE row[i].status = "succeeded" -> "succeeded"
      [] row[i].status \in Halting -> "stopped"
      [] row[i].status \in {"none", "pending", "approved"} ->
            IF InHand(i) THEN "released" ELSE "waiting"

\* The approver on record of a gated step that was released.
Releaser(i) ==
    IF Gated(i) /\ Outcome(i) # "waiting"
                /\ row[i].status \in {"approved", "succeeded", "failed"}
    THEN row[i].actor ELSE Nobody

\* Those whose approval was sent and not refused.
Consent == {d \in Deciders : /\ asked[d] # <<>> /\ answer[d] \in {"202", "500"}
                             /\ asked[d][1] = "approve"}

\* Starters, tasks, activities and the decision API together implement the
\* abstract sequence of GatedSequence: whatever fails, is retried, arrives late or
\* twice, the steps are released in order and once, each gated one by a person of
\* its own, and an outcome on record stays (workflow.go, temporal.go, handler.go).
Sequence == INSTANCE GatedSequence
    WITH plan <- run, carried <- executed, consent <- Consent,
         outcome <- [i \in Steps |-> Outcome(i)], by <- [i \in Steps |-> Releaser(i)],
         Plans <- {RunbookOf[s] : s \in Starters} \ {NoRunbook}, NoPlan <- NoRunbook,
         People <- Deciders
ImplementsSequence == Sequence!Spec
=============================================================================
