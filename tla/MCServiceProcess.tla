-------------------------- MODULE MCServiceProcess ---------------------------
(* An instance of ServiceProcess for TLC: every service, two requests.      *)
EXTENDS ServiceProcess, TLC

CONSTANTS q1, q2

MCRequests == {q1, q2}
=============================================================================
