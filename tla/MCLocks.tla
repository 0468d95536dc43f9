------------------------------- MODULE MCLocks -------------------------------
(* An instance of Locks for TLC.                                            *)
EXTENDS Locks, TLC

CONSTANTS new, back, s1, s2, e1, e2

MCRuns == {new, back}
MCSessions == MCRuns \union {s1, s2}
\* Two runs of the newest build: one goes up, one rolls a migration back.
MCKnown == (new :> 2) @@ (back :> 2)
MCSteps == (new :> 0) @@ (back :> 1)
=============================================================================
