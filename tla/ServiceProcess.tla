--------------------------- MODULE ServiceProcess ----------------------------
(***************************************************************************)
(* The life of one process of SentinelFlow, from main to its exit code:    *)
(* run() opens what the service needs one after the other, serves, and is  *)
(* unwound by SIGTERM or by the failure of one of its loops. The six       *)
(* services are six shapes of the same life: what they open, in order, and *)
(* the loops that share the process.                                       *)
(***************************************************************************)
EXTENDS Sequences, FiniteSets, Naturals

CONSTANTS
    Requests,  \* HTTP requests that clients send
    None       \* no error, no exit code

VARIABLES
    service,    \* the shape of this process
    phase,      \* "starting", "running" (group.Wait), "closing" (the defers), "exited"
    at,         \* how many of the starts are behind
    open,       \* what is open, in the order in which it was opened
    signalled,  \* SIGINT or SIGTERM has cancelled the context
    loop,       \* loop -> what became of it
    cause,      \* the first error: run's own, or the group's
    request,    \* request -> what became of it
    activity,   \* the Temporal worker has an activity in hand
    exit        \* the exit code

vars == <<service, phase, at, open, signalled, loop, cause, request, activity, exit>>

-----------------------------------------------------------------------------
(* The services. Every step of starts may fail; those of Closed are closed *)
(* by a deferred call.                                                     *)

Closed == {"telemetry", "pool", "consumer", "producer", "temporal"}

IngestionAPI == {[starts |-> <<"config", "telemetry", "metrics", "producer">>,
                  loops  |-> {"serve"}]}

\* Temporal is dialled only when an address is configured.
IncidentsAPI == {[starts |-> <<"config", "telemetry", "metrics", "pool">> \o dial,
                  loops  |-> {"serve"}] : dial \in {<<>>, <<"temporal">>}}

\* Correlation can be disabled, and has no goroutine then.
IncidentEngine == {[starts |-> <<"config", "telemetry", "metrics", "pool", "consumer">>,
                    loops  |-> {"serve", "consume"} \union correlation] :
                        correlation \in {{}, {"correlate"}}}

AlertingService == {[starts |-> <<"config", "telemetry", "metrics", "pool", "policy", "temporal">>,
                     loops  |-> {"serve", "worker", "starter"}]}

RemediationService ==
    {[starts |-> <<"config", "telemetry", "metrics", "pool", "catalog", "temporal">>,
      loops  |-> {"serve", "worker", "starter"}]}

JanitorService == {[starts |-> <<"config", "telemetry", "metrics", "pool">>,
                    loops  |-> {"serve", "maintain"}]}

Services == IngestionAPI \union IncidentsAPI \union IncidentEngine
                \union AlertingService \union RemediationService \union JanitorService

-----------------------------------------------------------------------------

Loops == UNION {s.loops : s \in Services}

ASSUME NoneAssumption == None \notin {0, 1} /\ None \notin {"start"} \union Loops

TypeOK ==
    /\ service \in Services
    /\ phase \in {"starting", "running", "closing", "exited"}
    /\ at \in 0..Len(service.starts)
    /\ open \in Seq(Closed)
    /\ signalled \in BOOLEAN
    /\ loop \in [service.loops ->
                    {"idle", "launched", "running", "dead", "draining", "stopped", "failed"}]
    /\ cause \in {None, "start"} \union service.loops
    /\ request \in [Requests -> {"none", "open", "left", "answered", "dropped"}]
    /\ activity \in BOOLEAN
    /\ exit \in {None, 0, 1}

Init ==
    /\ service \in Services
    /\ phase = "starting" /\ at = 0 /\ open = <<>>
    /\ signalled = FALSE
    /\ loop = [l \in service.loops |-> "idle"]
    /\ cause = None
    /\ request = [q \in Requests |-> "none"]
    /\ activity = FALSE
    /\ exit = None

\* signal.NotifyContext: later signals find the context done already.
Signal ==
    /\ ~signalled /\ phase # "exited"
    /\ signalled' = TRUE
    /\ UNCHANGED <<service, phase, at, open, loop, cause, request, activity, exit>>

-----------------------------------------------------------------------------
(* Starting.                                                               *)

\* The pool is pinged before it is handed out, on the signal's context.
NewPool == IF signalled THEN {"failed"} ELSE {"ok", "failed"}
\* Temporal is dialled for a minute. A context that is done ends the pause between
\* two attempts, not an attempt.
DialTemporal == {"ok", "failed"}

Outcomes(step) == CASE step = "pool" -> NewPool
                    [] step = "temporal" -> DialTemporal
                    [] OTHER -> {"ok", "failed"}

StartStep ==
    /\ phase = "starting" /\ at < Len(service.starts)
    /\ LET step == service.starts[at + 1] IN
       /\ "ok" \in Outcomes(step)
       /\ at' = at + 1
       /\ open' = IF step \in Closed THEN Append(open, step) ELSE open
    /\ UNCHANGED <<service, phase, signalled, loop, cause, request, activity, exit>>

\* run returns the error; what was opened before is closed.
StartFails ==
    /\ phase = "starting" /\ at < Len(service.starts)
    /\ "failed" \in Outcomes(service.starts[at + 1])
    /\ phase' = "closing"
    /\ cause' = "start"
    /\ UNCHANGED <<service, at, open, signalled, loop, request, activity, exit>>

Launch ==
    /\ phase = "starting" /\ at = Len(service.starts)
    /\ phase' = "running"
    /\ loop' = [l \in service.loops |-> "launched"]
    /\ UNCHANGED <<service, at, open, signalled, cause, request, activity, exit>>

-----------------------------------------------------------------------------
(* The loops.                                                              *)

\* The context of the loops when they do not form a group.
SignalOnly == signalled
\* errgroup.WithContext: the first error cancels it as the signal does.
Done == signalled \/ cause # None

Begin(l) ==
    /\ loop[l] = "launched"
    /\ loop' = [loop EXCEPT ![l] = "running"]
    /\ UNCHANGED <<service, phase, at, open, signalled, cause, request, activity, exit>>

\* The listener cannot be opened or breaks, the worker cannot be started, a batch
\* cannot be stored or its offsets committed. The other loops log what fails.
CanFail(l) == \/ l = "serve" /\ loop[l] \in {"launched", "running"}
              \/ l = "worker" /\ loop[l] = "launched"
              \/ l = "consume" /\ loop[l] = "running"

FirstError(l) == IF cause = None THEN l ELSE cause

\* A broken listener returns from Serve at once, whatever is in flight.
Fail(l) ==
    /\ l \in service.loops /\ CanFail(l)
    /\ loop' = [loop EXCEPT ![l] = "failed"]
    /\ cause' = FirstError(l)
    /\ request' = [q \in Requests |-> IF l = "serve" /\ request[q] = "open"
                                      THEN "left" ELSE request[q]]
    /\ UNCHANGED <<service, phase, at, open, signalled, activity, exit>>

\* Every other loop returns nil when it finds the context done; the consume loop
\* also when that interrupted its batch or its commit. Worker.Stop is called with
\* no time to wait in: an activity in hand goes on.
StopLoop(l) ==
    /\ l # "serve" /\ loop[l] \in {"running", "dead"} /\ Done
    /\ loop' = [loop EXCEPT ![l] = "stopped"]
    /\ UNCHANGED <<service, phase, at, open, signalled, cause, request, activity, exit>>

\* A fatal error of the SDK's stops the worker; its goroutine waits for the context.
WorkerDies ==
    /\ "worker" \in service.loops /\ loop["worker"] = "running"
    /\ loop' = [loop EXCEPT !["worker"] = "dead"]
    /\ UNCHANGED <<service, phase, at, open, signalled, cause, request, activity, exit>>

TakeActivity ==
    /\ "worker" \in service.loops /\ loop["worker"] = "running" /\ ~activity
    /\ activity' = TRUE
    /\ UNCHANGED <<service, phase, at, open, signalled, loop, cause, request, exit>>

EndActivity ==
    /\ phase # "exited" /\ activity
    /\ activity' = FALSE
    /\ UNCHANGED <<service, phase, at, open, signalled, loop, cause, request, exit>>

-----------------------------------------------------------------------------
(* httpx.Serve.                                                            *)

Accept(q) ==
    /\ request[q] = "none" /\ loop["serve"] = "running"
    /\ request' = [request EXCEPT ![q] = "open"]
    /\ UNCHANGED <<service, phase, at, open, signalled, loop, cause, activity, exit>>

\* The handler returns; nobody reads the answer to a request that was left behind.
Return(q) ==
    /\ request[q] \in {"open", "left"} /\ phase # "exited"
    /\ request' = [request EXCEPT ![q] = IF @ = "open" THEN "answered" ELSE "dropped"]
    /\ UNCHANGED <<service, phase, at, open, signalled, loop, cause, activity, exit>>

\* Shutdown: the listener is closed, so that nothing more is accepted.
BeginDrain ==
    /\ loop["serve"] \in {"launched", "running"} /\ Done
    /\ loop' = [loop EXCEPT !["serve"] = "draining"]
    /\ UNCHANGED <<service, phase, at, open, signalled, cause, request, activity, exit>>

Drained ==
    /\ loop["serve"] = "draining" /\ \A q \in Requests : request[q] # "open"
    /\ loop' = [loop EXCEPT !["serve"] = "stopped"]
    /\ UNCHANGED <<service, phase, at, open, signalled, cause, request, activity, exit>>

\* The outcome of a drain the grace period cut short: closed and forgotten ...
Forgiven == "stopped"
\* ... or closed and returned as an error.
Rough == "failed"

GraceEnds ==
    /\ loop["serve"] = "draining" /\ \E q \in Requests : request[q] = "open"
    /\ loop' = [loop EXCEPT !["serve"] = Rough]
    /\ cause' = IF Rough = "failed" THEN FirstError("serve") ELSE cause
    /\ request' = [q \in Requests |-> IF request[q] = "open" THEN "left" ELSE request[q]]
    /\ UNCHANGED <<service, phase, at, open, signalled, activity, exit>>

-----------------------------------------------------------------------------
(* Unwinding.                                                              *)

Ended(l) == loop[l] \in {"stopped", "failed"}
\* The first loop that returns ends the wait.
WaitFirst == \E l \in service.loops : Ended(l)
WaitAll == \A l \in service.loops : Ended(l)

Wait ==
    /\ phase = "running" /\ WaitAll
    /\ phase' = "closing"
    /\ UNCHANGED <<service, at, open, signalled, loop, cause, request, activity, exit>>

\* The deferred calls, the last first. A pool waits for connections that are out,
\* the producer flushes and the telemetry is exported, each within a deadline;
\* what fails in it is logged.
CloseLast ==
    /\ phase = "closing" /\ open # <<>>
    /\ open' = SubSeq(open, 1, Len(open) - 1)
    /\ UNCHANGED <<service, phase, at, signalled, loop, cause, request, activity, exit>>

\* main: whatever still runs in the process goes with it.
Exit ==
    /\ phase = "closing" /\ open = <<>>
    /\ phase' = "exited"
    /\ exit' = IF cause = None THEN 0 ELSE 1
    /\ request' = [q \in Requests |-> IF request[q] \in {"open", "left"}
                                      THEN "dropped" ELSE request[q]]
    /\ activity' = FALSE
    /\ UNCHANGED <<service, at, open, signalled, loop, cause>>

-----------------------------------------------------------------------------

StartUp == StartStep \/ StartFails \/ Launch
Unwind == Wait \/ CloseLast \/ Exit

Next ==
    \/ Signal \/ StartUp \/ Unwind
    \/ \E l \in service.loops : Begin(l) \/ Fail(l) \/ StopLoop(l)
    \/ WorkerDies \/ TakeActivity \/ EndActivity
    \/ \E q \in Requests : Accept(q) \/ Return(q)
    \/ BeginDrain \/ Drained \/ GraceEnds

\* Every constructor has a deadline, a loop looks at its context between two steps
\* that have deadlines, and so has the drain. A handler need not return.
Spec ==
    /\ Init /\ [][Next]_vars
    /\ WF_vars(StartUp) /\ WF_vars(Unwind)
    /\ \A l \in Loops : WF_vars(l \in service.loops /\ (Begin(l) \/ StopLoop(l)))
    /\ WF_vars(BeginDrain) /\ WF_vars(Drained \/ GraceEnds)

-----------------------------------------------------------------------------
(* Properties.                                                             *)

\* Nothing is closed under a loop that runs or a request that is waited for: what
\* still works when the pool, the client or the producer goes is a request that the
\* grace period or a broken listener left behind, or an activity of the worker's
\* (the order of the deferred calls in run, and group.Wait before them).
ClosedWhenUnused ==
    phase \in {"closing", "exited"} =>
        /\ \A l \in service.loops : loop[l] \in {"idle", "stopped", "failed"}
        /\ \A q \in Requests : request[q] # "open"

\* The exit code is the operator's only account of a shutdown: zero means that the
\* process had served, that no loop failed and that every request it accepted was
\* answered (Serve, "exit non-zero and make the rough shutdown visible").
ExitTellsTheTruth ==
    exit # None =>
        (exit = 0 <=> /\ at = Len(service.starts)
                      /\ \A l \in service.loops : loop[l] = "stopped"
                      /\ \A q \in Requests : request[q] \in {"none", "answered"})

\* A signal, at whatever moment, or the failure of any loop ends the process with
\* everything closed: no loop is left running beside one that has failed (run,
\* "if either stops, the group's context is cancelled and the other unwinds too").
StopIsComplete ==
    (signalled \/ \E l \in service.loops : loop[l] = "failed")
        ~> (phase = "exited" /\ open = <<>>)
=============================================================================
