------------------------------- MODULE Runbook -------------------------------
(***************************************************************************)
(* The runbook catalog: which runbook answers an incident. A step is       *)
(* reduced to its mode; what its action does is left to Remediation.       *)
(***************************************************************************)
EXTENDS Integers, Sequences

CONSTANTS
    MaxSteps,  \* bound: the longest runbook
    NoRunbook  \* what Find returns when nothing matches

Steps == 1..MaxSteps
Runbooks == {r \in Seq({"auto", "approval"}) : Len(r) \in Steps}

\* A matcher that leaves the service or the severity empty takes any.
Matches(match, incident) ==
    /\ match.rule = incident.rule
    /\ match.service \in {"", incident.service}
    /\ match.severity \in {"", incident.severity}

\* A catalog ParseCatalog accepts.
Validate(catalog) ==
    /\ catalog # <<>>
    /\ \A i \in 1..Len(catalog) : catalog[i].match.rule # "" /\ catalog[i].steps \in Runbooks
    /\ \A i, j \in 1..Len(catalog) : catalog[i].id = catalog[j].id => i = j

\* The runbook of the first entry that matches.
Find(catalog, incident) ==
    LET hits == {i \in 1..Len(catalog) : Matches(catalog[i].match, incident)}
    IN  IF hits = {} THEN NoRunbook
        ELSE catalog[CHOOSE i \in hits : \A j \in hits : ~(j < i)].steps
=============================================================================
