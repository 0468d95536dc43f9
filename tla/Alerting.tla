------------------------------ MODULE Alerting ------------------------------
(***************************************************************************)
(* Paging for one incident: starters poll for open incidents that have no  *)
(* alert yet and start a Temporal workflow, the workflow pages the levels  *)
(* of the escalation policy one after the other, and people acknowledge or *)
(* resolve the incident through the API, which writes the row first and    *)
(* signals the workflow afterwards, as best it can. Temporal is modelled   *)
(* from how the code uses it, as in Remediation.                           *)
(***************************************************************************)
EXTENDS OnCall, FiniteSets

CONSTANTS
    Starters,     \* replicas of the alert starter
    People,       \* each sends one request to the incidents API
    Wire,         \* the policy file
    MaxAttempts,  \* the activities' RetryPolicy.MaximumAttempts
    MaxTime,      \* bound of the clock
    MaxFaults     \* bound: failed attempts, lost signals, lost marks

Policy == ParsePolicy(Wire)
Levels == Len(Policy)

\* loadPolicy refuses a policy that is not valid.
ASSUME PolicyAssumption ==
    /\ Wire \in Seq([contacts : Seq(STRING), start : Int \union {Unset}, shift : Int])
    /\ ZeroTime \in Int /\ MaxDuration \in Nat /\ Unset \notin Int
    /\ Valid(Policy)
ASSUME BoundAssumption == MaxAttempts \in Nat \ {0} /\ MaxFaults \in Nat /\ MaxTime \in Nat

VARIABLES
    status,    \* incidents.status
    alerted,   \* incidents.alerted_at is set
    starter,   \* starter -> "idle", "starting" (listed the incident) or "marking"
    wf,        \* the workflow's local state
    attempt,   \* attempt of the scheduled activity, 0 when none is
    result,    \* how the last activity ended: "none", "failed" or what it returned
    seen,      \* the status the attempt in hand has read, "none" before
    fired,     \* the timer of the current level has fired
    channel,   \* the signals that no workflow task has handled yet
    request,   \* person -> "idle", the kind of transition made but not yet
               \* signalled, or "done"
    notified,  \* notifications: page -> its status, "none" while it has no row
    now,       \* workflow.Now
    called,    \* history: page -> the contacts called for it
    late,      \* history: pages first posted after the incident had an owner
    faults

rowVars == <<status, alerted>>
actVars == <<attempt, result, seen, fired>>
pageVars == <<notified, called, late>>
vars == <<status, alerted, starter, wf, attempt, result, seen, fired, channel, request,
          notified, called, late, now, faults>>

\* A page is identified by what notificationID derives its id from.
Escalation(l) == <<l, "escalation">>
Exhausted == <<Levels, "exhausted">>
Pages == {Escalation(l) : l \in 1..Levels} \union {Exhausted}

Kinds == {"acknowledge", "resolve"}
Ended == {"closed", "broken"}
Activities == {"check", "page", "exhaust"}
\* pc names the activity awaited, or "await" for the level's acknowledgement, or
\* how the run ended: "closed", or "broken" by an activity that failed.
NoOne == "none"
Contacts == UNION {{Policy[l].contacts[i] : i \in 1..Len(Policy[l].contacts)} : l \in 1..Levels}
NoFlow == [pc |-> "none", level |-> 1, contact |-> NoOne, acked |-> FALSE, resolved |-> FALSE]
Running == wf.pc \notin {"none"} \union Ended

TypeOK ==
    /\ status \in {"open", "acknowledged", "resolved"}
    /\ alerted \in BOOLEAN
    /\ starter \in [Starters -> {"idle", "starting", "marking"}]
    /\ wf \in [pc : {"none", "await"} \union Activities \union Ended, level : 1..Levels,
               contact : Contacts \union {NoOne}, acked : BOOLEAN, resolved : BOOLEAN]
    /\ attempt \in 0..MaxAttempts
    /\ result \in {"none", "failed", "ok", "open", "acknowledged", "resolved"}
    /\ seen \in {"none", "open", "acknowledged", "resolved"}
    /\ fired \in BOOLEAN
    /\ channel \subseteq Kinds
    /\ request \in [People -> {"idle", "done"} \union Kinds]
    /\ notified \in [Pages -> {"none", "sent", "failed"}]
    /\ called \in [Pages -> SUBSET (Contacts \union {NoOne})]
    /\ late \subseteq Pages
    /\ now \in 0..MaxTime
    /\ faults \in 0..MaxFaults

Init ==
    /\ status = "open" /\ alerted = FALSE
    /\ starter = [s \in Starters |-> "idle"]
    /\ wf = NoFlow
    /\ attempt = 0 /\ result = "none" /\ seen = "none" /\ fired = FALSE
    /\ channel = {}
    /\ request = [p \in People |-> "idle"]
    /\ notified = [g \in Pages |-> "none"]
    /\ called = [g \in Pages |-> {}]
    /\ late = {}
    /\ now = 0
    /\ faults = 0

Fault == faults < MaxFaults /\ faults' = faults + 1

-----------------------------------------------------------------------------
(* The incidents API and the auto-resolution of the correlation engine.    *)

\* acknowledgeIncidentSQL changes only an open incident; anything else is
\* answered 404 or 409 and signals nothing.
Acknowledge(p) ==
    /\ request[p] = "idle" /\ status = "open"
    /\ status' = "acknowledged"
    /\ request' = [request EXCEPT ![p] = "acknowledge"]
    /\ UNCHANGED <<alerted, starter, wf, actVars, channel, pageVars, now, faults>>

Resolve(p) ==
    /\ request[p] = "idle" /\ status # "resolved"
    /\ status' = "resolved"
    /\ request' = [request EXCEPT ![p] = "resolve"]
    /\ UNCHANGED <<alerted, starter, wf, actVars, channel, pageVars, now, faults>>

\* A run that has not started or has ended is NotFound, which is no error.
Signal(p) == channel' = IF Running THEN channel \union {request[p]} ELSE channel

\* signalBestEffort, after the transition was committed.
SignalWorkflow(p) ==
    /\ request[p] \in Kinds
    /\ Signal(p)
    /\ request' = [request EXCEPT ![p] = "done"]
    /\ UNCHANGED <<rowVars, starter, wf, actVars, pageVars, now, faults>>

\* The signal, or the reply to it, is lost, or the API dies before it: either
\* way nobody tries again.
SignalFails(p) ==
    /\ request[p] \in Kinds
    /\ Fault
    /\ Signal(p) \/ UNCHANGED channel
    /\ request' = [request EXCEPT ![p] = "done"]
    /\ UNCHANGED <<rowVars, starter, wf, actVars, pageVars, now>>

\* autoResolveStaleSQL signals nobody.
AutoResolve ==
    /\ status # "resolved"
    /\ status' = "resolved"
    /\ UNCHANGED <<alerted, starter, wf, actVars, channel, request, pageVars, now, faults>>

-----------------------------------------------------------------------------
(* The starters.                                                           *)

\* listOpenUnalertedSQL returns the incident; what it showed may be stale by the
\* time the starter acts on it.
ListOpen(s) ==
    /\ starter[s] = "idle" /\ status = "open" /\ ~alerted
    /\ starter' = [starter EXCEPT ![s] = "starting"]
    /\ UNCHANGED <<rowVars, wf, actVars, channel, request, pageVars, now, faults>>

\* ExecuteWorkflow with REJECT_DUPLICATE: an id that was ever used is "already
\* started", which StartAlertWorkflow takes for success.
Launch ==
    IF wf.pc = "none" THEN /\ wf' = [NoFlow EXCEPT !.pc = "check"]
                           /\ attempt' = 1
    ELSE UNCHANGED <<wf, attempt>>

\* StartPending, one incident: start its workflow, then mark it.
Start(s) ==
    /\ starter[s] = "starting"
    /\ Launch
    /\ starter' = [starter EXCEPT ![s] = "marking"]
    /\ UNCHANGED <<rowVars, result, seen, fired, channel, request, pageVars, now, faults>>

\* StartFails, going on to the mark.
StartFailsMarked(s) ==
    /\ starter[s] = "starting"
    /\ Fault
    /\ Launch \/ UNCHANGED <<wf, attempt>>
    /\ starter' = [starter EXCEPT ![s] = "marking"]
    /\ UNCHANGED <<rowVars, result, seen, fired, channel, request, pageVars, now>>

\* A start that fails, with or without effect, leaves the incident for the next
\* tick.
StartFails(s) ==
    /\ starter[s] = "starting"
    /\ Fault
    /\ Launch \/ UNCHANGED <<wf, attempt>>
    /\ starter' = [starter EXCEPT ![s] = "idle"]
    /\ UNCHANGED <<rowVars, result, seen, fired, channel, request, pageVars, now>>

Mark(s) ==
    /\ starter[s] = "marking"
    /\ alerted' = TRUE
    /\ starter' = [starter EXCEPT ![s] = "idle"]
    /\ UNCHANGED <<status, wf, actVars, channel, request, pageVars, now, faults>>

\* MarkAlerted fails; the incident counts as started all the same.
MarkFails(s) ==
    /\ starter[s] = "marking"
    /\ Fault
    /\ starter' = [starter EXCEPT ![s] = "idle"]
    /\ UNCHANGED <<rowVars, wf, actVars, channel, request, pageVars, now>>

-----------------------------------------------------------------------------
(* The workflow: what one task does to its local state.                    *)

Owned(w) == w.acked \/ w.resolved

\* AfterCheck, trusting the signals alone.
AfterCheckSignalsOnly(w) ==
    IF Owned(w) THEN [w EXCEPT !.pc = "closed"]
    ELSE [w EXCEPT !.pc = "page", !.contact = OnCallAt(Policy[w.level], now)]
\* AfterCheck, trusting the row alone.
AfterCheckRowOnly(w) ==
    IF result # "open" THEN [w EXCEPT !.pc = "closed"]
    ELSE [w EXCEPT !.pc = "page", !.contact = OnCallAt(Policy[w.level], now)]

\* The database has the last word before a level is paged, and whom to call is
\* settled with it.
AfterCheck(w) ==
    LET told == [w EXCEPT !.acked = @ \/ result = "acknowledged",
                          !.resolved = @ \/ result = "resolved"]
    IN  IF Owned(told) THEN [told EXCEPT !.pc = "closed"]
        ELSE [told EXCEPT !.pc = "page", !.contact = OnCallAt(Policy[w.level], now)]

\* The level's time is up, but the policy's last level is left out.
NextLevelShort(w) ==
    IF w.level >= Levels - 1 THEN [w EXCEPT !.pc = "exhaust", !.contact = NoOne]
    ELSE [w EXCEPT !.pc = "check", !.level = @ + 1]
\* The level's time is up: the next one, or the notice that none is left. The
\* status is not read again before that notice.
NextLevel(w) ==
    IF w.level = Levels THEN [w EXCEPT !.pc = "exhaust", !.contact = NoOne]
    ELSE [w EXCEPT !.pc = "check", !.level = @ + 1]

\* Resume, waiting on when the time is up.
ResumeDeaf(w) ==
    CASE w.pc = "await" \/ result = "none" -> w
      [] w.pc # "await" /\ result = "failed" -> [w EXCEPT !.pc = "broken"]
      [] w.pc = "check" /\ result \notin {"none", "failed"} -> AfterCheck(w)
      [] w.pc = "page" /\ result \notin {"none", "failed"} -> [w EXCEPT !.pc = "await"]
      [] w.pc = "exhaust" /\ result \notin {"none", "failed"} -> [w EXCEPT !.pc = "closed"]

\* The main routine continues when what it waits for has happened.
Resume(w) ==
    CASE w.pc = "await" -> IF fired THEN NextLevel(w) ELSE w
      [] w.pc # "await" /\ result = "none" -> w
      [] w.pc # "await" /\ result = "failed" -> [w EXCEPT !.pc = "broken"]
      [] w.pc = "check" /\ result \notin {"none", "failed"} -> AfterCheck(w)
      [] w.pc = "page" /\ result \notin {"none", "failed"} -> [w EXCEPT !.pc = "await"]
      [] w.pc = "exhaust" /\ result \notin {"none", "failed"} -> [w EXCEPT !.pc = "closed"]

\* The two signal routines run after the main routine.
Drain(w) == [w EXCEPT !.acked = @ \/ "acknowledge" \in channel,
                      !.resolved = @ \/ "resolve" \in channel]

\* AwaitWithTimeout looks at its condition before its timer.
Wake(w) == IF w.pc = "await" /\ Owned(w) THEN [w EXCEPT !.pc = "closed"] ELSE w

AfterTask == Wake(Drain(Resume(wf)))

WorkflowTask ==
    /\ Running
    /\ result # "none" \/ (wf.pc = "await" /\ fired) \/ channel # {}
    /\ wf' = AfterTask
    /\ channel' = {}
    /\ LET moved == <<wf'.pc, wf'.level>> # <<wf.pc, wf.level>>
       IN  /\ attempt' = IF ~moved THEN attempt ELSE IF wf'.pc \in Activities THEN 1 ELSE 0
           /\ result' = IF moved THEN "none" ELSE result
           /\ fired' = (fired /\ ~moved)
    /\ UNCHANGED <<rowVars, starter, seen, request, pageVars, now, faults>>

TimerFires ==
    /\ wf.pc = "await" /\ ~fired
    /\ fired' = TRUE
    /\ UNCHANGED <<rowVars, starter, wf, attempt, result, seen, channel, request, pageVars,
                   now, faults>>

-----------------------------------------------------------------------------
(* The activities.                                                         *)

Scheduled == wf.pc \in Activities /\ result = "none"
CurrentPage == IF wf.pc = "page" THEN Escalation(wf.level) ELSE Exhausted

\* The first call for a page, made after the incident got an owner.
Late == IF called[CurrentPage] = {} /\ status # "open" THEN late \union {CurrentPage} ELSE late

\* Post, to whoever is on call when the attempt is made.
PostOnCall ==
    /\ called' = [called EXCEPT ![CurrentPage] = @ \union
                      {IF wf.pc = "page" THEN OnCallAt(Policy[wf.level], now) ELSE NoOne}]
    /\ late' = Late
\* Dispatch calls the webhook first, of the contact it was given ...
Post ==
    /\ called' = [called EXCEPT ![CurrentPage] = @ \union {wf.contact}]
    /\ late' = Late

\* ... and records the outcome: recordNotificationSQL, ON CONFLICT (id) DO NOTHING.
Record(outcome) ==
    notified' = [notified EXCEPT ![CurrentPage] = IF @ = "none" THEN outcome ELSE @]

\* A webhook that fails is an outcome, not an error.
Dispatch == \E outcome \in {"sent", "failed"} : Post /\ Record(outcome)

\* CheckIncidentStatus reads the row; what it read is under way for a while.
ReadStatus ==
    /\ Scheduled /\ wf.pc = "check" /\ seen = "none"
    /\ seen' = status
    /\ UNCHANGED <<rowVars, starter, wf, attempt, result, fired, channel, request, pageVars,
                   now, faults>>

ActivityOK ==
    /\ Scheduled
    /\ IF wf.pc = "check" THEN seen # "none" /\ UNCHANGED pageVars ELSE Dispatch
    /\ result' = IF wf.pc = "check" THEN seen ELSE "ok"
    /\ attempt' = 0
    /\ seen' = "none"
    /\ UNCHANGED <<rowVars, starter, wf, fired, channel, request, now, faults>>

\* An attempt fails, times out or dies with its worker: before the webhook,
\* between the webhook and the row, or with both done and its result lost. It is
\* retried until the attempts are used up.
ActivityFails ==
    /\ Scheduled
    /\ Fault
    /\ \/ UNCHANGED pageVars
       \/ wf.pc # "check" /\ Post /\ UNCHANGED notified
       \/ wf.pc # "check" /\ Dispatch
    /\ IF attempt < MaxAttempts
       THEN attempt' = attempt + 1 /\ UNCHANGED result
       ELSE attempt' = 0 /\ result' = "failed"
    /\ seen' = "none"
    /\ UNCHANGED <<rowVars, starter, wf, fired, channel, request, now>>

-----------------------------------------------------------------------------

\* Time passes; a shift may end between any two steps.
Tick ==
    /\ now < MaxTime
    /\ now' = now + 1
    /\ UNCHANGED <<rowVars, starter, wf, actVars, channel, request, pageVars, faults>>

PersonStep(p) == Acknowledge(p) \/ Resolve(p) \/ SignalWorkflow(p) \/ SignalFails(p)
StarterStep(s) == ListOpen(s) \/ Start(s) \/ StartFails(s) \/ Mark(s) \/ MarkFails(s)

Next ==
    \/ \E p \in People : PersonStep(p)
    \/ AutoResolve
    \/ \E s \in Starters : StarterStep(s)
    \/ WorkflowTask
    \/ TimerFires
    \/ ReadStatus
    \/ ActivityOK
    \/ ActivityFails
    \/ Tick

Spec == Init /\ [][Next]_vars

\* Temporal dispatches tasks, activities and timers, the starters tick. Nobody
\* has to react to a page, and no signal has to arrive.
Fairness ==
    /\ WF_vars(WorkflowTask)
    /\ WF_vars(TimerFires)
    /\ WF_vars(ReadStatus \/ ActivityOK)
    /\ \A s \in Starters : WF_vars(ListOpen(s)) /\ WF_vars(Start(s)) /\ WF_vars(Mark(s))

FairSpec == Spec /\ Fairness

-----------------------------------------------------------------------------
(* Properties.                                                             *)

\* The trail has no gap: a level is called only after every level below it has
\* its row, the last notice only after all of them, and a row never stands for a
\* call that was not made, whatever the retries did (the loop of
\* IncidentAlertWorkflow over SendNotification).
TrailHasNoGap ==
    /\ \A g \in Pages : notified[g] # "none" => called[g] # {}
    /\ \A l \in 1..Levels : called[Escalation(l)] # {} =>
          \A k \in 1..(l - 1) : notified[Escalation(k)] # "none"
    /\ called[Exhausted] # {} => \A l \in 1..Levels : notified[Escalation(l)] # "none"

\* Once the incident has an owner at most one more level is called, the one
\* whose status check was already behind it, even when the signal is lost or was
\* never sent (the database is the authority, CheckIncidentStatus).
OwnerStopsEscalation == Cardinality(late \ {Exhausted}) <= 1

\* A run that closes while the incident is still open has called everybody:
\* nothing but an owner or the end of the policy ends an escalation.
ClosedOpenMeansAllPaged ==
    wf.pc = "closed" /\ status = "open" => \A g \in Pages : notified[g] # "none"

\* A page has one addressee and one row: the attempts of its activity call nobody
\* else, also when a shift ends between them, and a row, once written, is not
\* rewritten by an attempt that calls again (the contact is an argument of
\* SendNotification; recordNotificationSQL).
PageIsFinal ==
    [][\A g \in Pages : /\ called[g] # {} => called'[g] = called[g]
                        /\ notified[g] # "none" => notified'[g] = notified[g]]_vars

\* A workflow that knows of an owner schedules nothing more, neither a check nor a
\* page nor the last notice: it finishes the activity in hand and closes (the
\* signal routines, and the condition of AwaitWithTimeout).
OwnedIsNotPaged == [][Owned(wf) => wf'.pc \in {wf.pc} \union Ended]_vars

\* A rotation that has a start and a shift takes turns: its first contact is on call
\* up to the end of the first shift, and from the start on every contact hands over
\* to the next in the list one shift later, the last to the first (OnCallAt).
TurnsAreTaken ==
    \A l \in {k \in 1..Levels : Policy[k].shift > 0 /\ Wire[k].start # Unset} :
        LET r == Policy[l]
            n == Len(r.contacts)
        IN  \A t \in now..(now + n * r.shift) :
               /\ t < r.start + r.shift => OnCallAt(r, t) = r.contacts[1]
               /\ t >= r.start => \E i \in 1..n : /\ OnCallAt(r, t) = r.contacts[i]
                                               /\ OnCallAt(r, t + r.shift) = r.contacts[(i % n) + 1]

\* However many starters list the incident, however often a mark is lost, its
\* escalation never starts over (StartAlertWorkflow).
EscalationNeverRestarts ==
    [][/\ wf.pc # "none" => wf'.level >= wf.level /\ wf'.pc # "none"
       /\ wf.pc \in Ended => wf' = wf]_vars

\* An incident nobody takes is paged, although starts, marks and attempts fail;
\* only activities that failed MaxAttempts times in a row end a run before.
OpenIsPaged ==
    status = "open" ~> status # "open" \/ notified[Escalation(1)] # "none" \/ wf.pc = "broken"

\* An escalation ends even when nobody reacts and no signal arrives.
EscalationEnds == Running ~> wf.pc \in Ended

-----------------------------------------------------------------------------
(* What alerting implements.                                               *)

Rungs == 1..(Levels + 1)
PageOf(n) == IF n <= Levels THEN Escalation(n) ELSE Exhausted
RotaOf(n) == IF n <= Levels THEN {Policy[n].contacts[i] : i \in 1..Len(Policy[n].contacts)}
             ELSE {NoOne}

\* The highest rung the workflow may call, or may have called when it ended.
Cleared ==
    CASE wf.pc = "none" -> 0
      [] wf.pc = "check" -> wf.level - 1
      [] wf.pc \in {"page", "await"} -> wf.level
      [] wf.pc = "exhaust" -> Levels + 1
      [] wf.pc \in Ended -> IF called[Exhausted] # {} THEN Levels + 1
                            ELSE IF called[Escalation(wf.level)] # {} THEN wf.level
                            ELSE wf.level - 1

\* Alerting implements the abstract ladder of EscalationLadder: whatever fails, is
\* retried, arrives late or not at all, no rung is left out, a level is called on a
\* reading of the row as open and only one is called on a stale one, none once the
\* workflow knows better, and each rung calls one contact of its own and reports once
\* (IncidentAlertWorkflow, SendNotification).
Ladder == INSTANCE EscalationLadder
    WITH Rota <- [n \in Rungs |-> RotaOf(n)],
         owned <- (status # "open"), known <- Owned(wf), cleared <- Cleared,
         sighted <- (wf.pc = "check" /\ "open" \in {seen, result}),
         called <- [n \in Rungs |-> called[PageOf(n)]],
         told <- [n \in Rungs |-> notified[PageOf(n)]]
ImplementsLadder == Ladder!Spec
=============================================================================
