--------------------------- MODULE MCRemediation ---------------------------
(* Instances of Remediation for TLC.                                       *)
EXTENDS Remediation, TLC

CONSTANTS s1, s2, ann, bob

Entry(id, service, severity, steps) ==
    [id |-> id, match |-> [rule |-> "errors", service |-> service, severity |-> severity],
     steps |-> steps]
MCIncident == [rule |-> "errors", service |-> "checkout", severity |-> "critical"]

\* Two starters with different catalogs, as during a rollout: the second has got a
\* runbook of its own for the service before the general one.
General == Entry("general", "", "", <<"approval", "approval">>)
TwoCatalogs ==
    (s1 :> <<Entry("search", "search", "", <<"auto">>), General>>) @@
    (s2 :> <<Entry("checkout", "checkout", "critical", <<"auto", "approval">>), General>>)
OneCatalog == [s \in Starters |-> <<General>>]
=============================================================================
