----------------------------- MODULE MCJanitor ------------------------------
(* Instances of Janitor for TLC.                                           *)
EXTENDS Janitor, TLC

CONSTANTS j1, j2, old, mid, new

\* Day 0 expires on day 3; days 2 and 3 are beyond what the migration prepared.
MCDayOf == (old :> 0) @@ (mid :> 2) @@ (new :> 3)
=============================================================================
