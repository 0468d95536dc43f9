----------------------------- MODULE MCAlerting -----------------------------
(* An instance of Alerting for TLC.                                         *)
EXTENDS Alerting, TLC

CONSTANTS s1, s2, ann, bob

\* Two contacts take turns on the first level and change over at 1, one is permanent on the second.
MCWire == <<[contacts |-> <<"a", "b">>, start |-> -1, shift |-> 2],
            [contacts |-> <<"manager">>, start |-> Unset, shift |-> 0]>>
MCZeroTime == -1000
=============================================================================
