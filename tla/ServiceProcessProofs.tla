----------------------- MODULE ServiceProcessProofs -------------------------
(***************************************************************************)
(* Theorems about ServiceProcess, for every service and any requests.      *)
(*                                                                         *)
(* The inductive invariant says what each phase has behind it: the group   *)
(* holds an error exactly when a loop has failed, a request is waited for  *)
(* only while the server runs or drains, and is left behind only by a      *)
(* server that has failed.                                                 *)
(***************************************************************************)
EXTENDS ServiceProcess, TLAPS

Idle == /\ \A l \in service.loops : loop[l] = "idle"
        /\ \A q \in Requests : request[q] = "none"
Started == /\ at = Len(service.starts)
           /\ \A l \in service.loops : loop[l] # "idle"
           /\ cause # "start"

\* What each phase has behind it.
PhaseInv ==
    /\ phase = "starting" => Idle /\ cause = None
    /\ phase = "running" => Started
    /\ phase \in {"closing", "exited"} =>
          \/ Idle /\ cause = "start" /\ at < Len(service.starts)
          \/ Started /\ WaitAll

\* The group's error is a loop's, and no loop's error is lost.
CauseInv ==
    /\ \A l \in service.loops : loop[l] = "failed" => cause # None
    /\ cause \notin {None, "start"} => \E l \in service.loops : loop[l] = "failed"

\* A request is waited for as long as the server serves, and left by one that failed.
RequestInv ==
    \A q \in Requests :
        /\ request[q] = "open" => loop["serve"] \in {"running", "draining"}
        /\ request[q] \in {"left", "dropped"} => loop["serve"] = "failed"

ExitInv == /\ exit # None => phase = "exited"
           /\ exit = 0 => cause = None
           /\ exit = 1 => cause # None

IInv == TypeOK /\ PhaseInv /\ CauseInv /\ RequestInv /\ ExitInv

-----------------------------------------------------------------------------

\* Every service serves HTTP, and starts with a few steps.
LEMMA EveryoneServes ==
    \A s \in Services : "serve" \in s.loops /\ s.loops \subseteq Loops /\ Len(s.starts) \in Nat
<1> SUFFICES ASSUME NEW s \in Services
             PROVE  "serve" \in s.loops /\ s.loops \subseteq Loops /\ Len(s.starts) \in Nat
  OBVIOUS
<1>1. s.loops \subseteq Loops
  BY DEF Loops
<1>2. CASE s \in IngestionAPI
  BY <1>1, <1>2 DEF IngestionAPI
<1>3. CASE s \in IncidentsAPI
  BY <1>1, <1>3 DEF IncidentsAPI
<1>4. CASE s \in IncidentEngine
  BY <1>1, <1>4 DEF IncidentEngine
<1>5. CASE s \in AlertingService
  BY <1>1, <1>5 DEF AlertingService
<1>6. CASE s \in RemediationService
  BY <1>1, <1>6 DEF RemediationService
<1>7. CASE s \in JanitorService
  BY <1>1, <1>7 DEF JanitorService
<1>8. QED
  BY <1>2, <1>3, <1>4, <1>5, <1>6, <1>7 DEF Services

LEMMA InitInv == Init => IInv
<1> SUFFICES ASSUME Init PROVE IInv
  OBVIOUS
<1> USE DEF Init
<1>1. TypeOK
  <2>1. at \in 0..Len(service.starts)
    BY EveryoneServes
  <2>2. open \in Seq(Closed)
    OBVIOUS
  <2>3. loop \in [service.loops -> {"idle"}] /\ request \in [Requests -> {"none"}]
    OBVIOUS
  <2>4. QED
    BY <2>1, <2>2, <2>3 DEF TypeOK
<1>2. PhaseInv /\ CauseInv /\ RequestInv /\ ExitInv
  BY NoneAssumption DEF PhaseInv, Idle, CauseInv, RequestInv, ExitInv
<1>3. QED
  BY <1>1, <1>2 DEF IInv

LEMMA NextTypeOK == ASSUME TypeOK, [Next]_vars PROVE TypeOK'
<1> USE DEF TypeOK
<1>0. "serve" \in service.loops /\ Len(service.starts) \in Nat
  BY EveryoneServes
<1>1. CASE Signal
  BY <1>1 DEF Signal
<1>2. CASE StartStep
  <2>1. at' \in 0..Len(service.starts)
    BY <1>0, <1>2 DEF StartStep
  <2>2. open' \in Seq(Closed)
    BY <1>2 DEF StartStep
  <2>3. QED
    BY <1>2, <2>1, <2>2 DEF StartStep
<1>3. CASE StartFails
  BY <1>3 DEF StartFails
<1>4. CASE Launch
  BY <1>4 DEF Launch
<1>5. CASE Wait
  BY <1>5 DEF Wait
<1>6. CASE CloseLast
  <2>1. open' \in Seq(Closed)
    BY <1>6 DEF CloseLast
  <2>2. QED
    BY <1>6, <2>1 DEF CloseLast
<1>7. CASE Exit
  BY <1>7 DEF Exit
<1>8. ASSUME NEW l \in service.loops, Begin(l) PROVE TypeOK'
  BY <1>8 DEF Begin
<1>9. ASSUME NEW l \in service.loops, Fail(l) PROVE TypeOK'
  BY <1>9 DEF Fail, FirstError
<1>10. ASSUME NEW l \in service.loops, StopLoop(l) PROVE TypeOK'
  BY <1>10 DEF StopLoop
<1>11. CASE WorkerDies \/ TakeActivity \/ EndActivity
  BY <1>11 DEF WorkerDies, TakeActivity, EndActivity
<1>12. ASSUME NEW q \in Requests, Accept(q) \/ Return(q) PROVE TypeOK'
  BY <1>12 DEF Accept, Return
<1>13. CASE BeginDrain \/ Drained
  BY <1>13 DEF BeginDrain, Drained
<1>14. CASE GraceEnds
  BY <1>0, <1>14 DEF GraceEnds, Rough, FirstError
<1>15. CASE UNCHANGED vars
  BY <1>15 DEF vars
<1>16. QED
  BY <1>1, <1>2, <1>3, <1>4, <1>5, <1>6, <1>7, <1>8, <1>9, <1>10, <1>11, <1>12, <1>13,
     <1>14, <1>15 DEF Next, StartUp, Unwind

LEMMA NextInv == ASSUME IInv, [Next]_vars PROVE IInv'
<1>0. "serve" \in service.loops /\ service.loops \subseteq Loops /\ Len(service.starts) \in Nat
      /\ at \in Nat /\ None # "start" /\ None \notin service.loops /\ None # 0 /\ None # 1
  BY EveryoneServes, NoneAssumption DEF IInv, TypeOK
<1>t. TypeOK /\ TypeOK'
  BY NextTypeOK DEF IInv
<1> DEFINE Rest == PhaseInv /\ CauseInv /\ RequestInv /\ ExitInv
<1> SUFFICES Rest'
  BY <1>t DEF IInv
<1> USE <1>0 DEF PhaseInv, Idle, Started, CauseInv, RequestInv, ExitInv, WaitAll, Ended
<1>r. TypeOK /\ Rest
  BY DEF IInv
<1>1. CASE Signal
  BY <1>1, <1>r DEF Signal, TypeOK
<1>2. CASE StartStep
  BY <1>2, <1>r DEF StartStep, TypeOK
<1>3. CASE StartFails
  BY <1>3, <1>r DEF StartFails, TypeOK
<1>4. CASE Launch
  BY <1>4, <1>r DEF Launch, TypeOK
<1>5. CASE Wait
  BY <1>5, <1>r DEF Wait, TypeOK
<1>6. CASE CloseLast
  BY <1>6, <1>r DEF CloseLast, TypeOK
<1>7. CASE Exit
  BY <1>7, <1>r DEF Exit, TypeOK
<1>8. ASSUME NEW l \in service.loops, Begin(l) PROVE Rest'
  BY <1>8, <1>r DEF Begin, TypeOK
<1>9. ASSUME NEW l \in service.loops, Fail(l) PROVE Rest'
  BY <1>9, <1>r DEF Fail, CanFail, FirstError, TypeOK
<1>10. ASSUME NEW l \in service.loops, StopLoop(l) PROVE Rest'
  BY <1>10, <1>r DEF StopLoop, TypeOK
<1>11. CASE WorkerDies \/ TakeActivity \/ EndActivity
  BY <1>11, <1>r DEF WorkerDies, TakeActivity, EndActivity, TypeOK
<1>12. ASSUME NEW q \in Requests, Accept(q) \/ Return(q) PROVE Rest'
  BY <1>12, <1>r DEF Accept, Return, TypeOK
<1>13. CASE BeginDrain \/ Drained
  BY <1>13, <1>r DEF BeginDrain, Drained, TypeOK
<1>14. CASE GraceEnds
  BY <1>14, <1>r DEF GraceEnds, Rough, FirstError, TypeOK
<1>15. CASE UNCHANGED vars
  BY <1>15, <1>r DEF vars
<1>16. QED
  BY <1>1, <1>2, <1>3, <1>4, <1>5, <1>6, <1>7, <1>8, <1>9, <1>10, <1>11, <1>12, <1>13,
     <1>14, <1>15 DEF Next, StartUp, Unwind

\* The invariant holds throughout the life of every service.
THEOREM Invariance == Spec => []IInv
<1>1. Init => IInv
  BY InitInv
<1>2. IInv /\ [Next]_vars => IInv'
  BY NextInv
<1>3. QED
  BY <1>1, <1>2, PTL DEF Spec

\* The variables keep their types.
THEOREM TypeCorrect == Spec => []TypeOK
<1>1. IInv => TypeOK
  BY DEF IInv
<1>2. QED
  BY <1>1, Invariance, PTL

\* Whatever fails, in whatever order loops and requests end, the deferred calls
\* close nothing that is still waited for.
THEOREM NothingClosedInUse == Spec => []ClosedWhenUnused
<1>1. IInv => ClosedWhenUnused
  BY EveryoneServes
     DEF IInv, TypeOK, PhaseInv, Idle, Started, RequestInv, WaitAll, Ended, ClosedWhenUnused
<1>2. QED
  BY <1>1, Invariance, PTL

\* Exit code zero stands for a clean life of any of the services.
THEOREM ExitCodesAreTrue == Spec => []ExitTellsTheTruth
<1>1. ASSUME IInv PROVE ExitTellsTheTruth
  <2>0. "serve" \in service.loops /\ Len(service.starts) \in Nat /\ at \in Nat
        /\ None # "start" /\ None \notin service.loops
    BY EveryoneServes, NoneAssumption, <1>1 DEF IInv, TypeOK
  <2> SUFFICES ASSUME exit # None PROVE ExitTellsTheTruth
    BY DEF ExitTellsTheTruth
  <2>1. exit \in {0, 1} /\ phase = "exited"
    BY <1>1 DEF IInv, TypeOK, ExitInv
  <2>2. CASE exit = 0
    <3>1. cause = None
      BY <1>1, <2>2 DEF IInv, ExitInv
    <3>2. Started /\ WaitAll
      BY <1>1, <2>0, <2>1, <3>1 DEF IInv, PhaseInv
    <3>3. \A l \in service.loops : loop[l] = "stopped"
      BY <1>1, <3>1, <3>2 DEF IInv, CauseInv, WaitAll, Ended
    <3>4. \A q \in Requests : request[q] \in {"none", "answered"}
      BY <1>1, <2>0, <3>3 DEF IInv, TypeOK, RequestInv
    <3>5. QED
      BY <2>2, <3>2, <3>3, <3>4 DEF ExitTellsTheTruth, Started
  <2>3. CASE exit = 1
    <3>1. cause # None
      BY <1>1, <2>3 DEF IInv, ExitInv
    <3>2. CASE cause = "start"
      BY <1>1, <2>0, <2>1, <2>3, <3>2 DEF IInv, PhaseInv, Started, ExitTellsTheTruth
    <3>3. CASE cause # "start"
      BY <1>1, <2>3, <3>1, <3>3 DEF IInv, CauseInv, ExitTellsTheTruth
    <3>4. QED
      BY <3>2, <3>3
  <2>4. QED
    BY <2>1, <2>2, <2>3
<1>2. QED
  BY <1>1, Invariance, PTL
=============================================================================
