--------------------------- MODULE DecisionRules ---------------------------
(***************************************************************************)
\* When decisions about a workset are valid: every candidate ends in exactly
\* one finding or is excluded, and no finding forgets what its sources
\* demand (validate-integration-decisions.py).
(***************************************************************************)
EXTENDS Naturals, FiniteSets

NoDecisions == [findings |-> {}, excluded |-> {}, registry |-> {}]

\* A finding has its sources, the effort it states, whether it gives a reason
\* for it, and whether its severity is above the ceilings.
ValidFinding(f, effort, capped) ==
    /\ f.sources # {}
    /\ f.reason \/ (\A c \in f.sources : effort[c] <= f.effort)
    /\ f.high => f.sources \cap capped = {}

\* Each candidate is accounted for once.
Accounted(ids, findings, excluded) ==
    /\ excluded \cup UNION {f.sources : f \in findings} = ids
    /\ \A f \in findings : f.sources \cap excluded = {}
    /\ \A f, g \in findings : f # g => f.sources \cap g.sources = {}

Valid(ids, effort, capped, d) ==
    /\ Accounted(ids, d.findings, d.excluded)
    /\ \A f \in d.findings : ValidFinding(f, effort, capped)
    /\ \A r \in d.registry : r \subseteq ids

=============================================================================
