----------------------------- MODULE Reduction -----------------------------
(***************************************************************************)
\* The reduction of a workset as one step, which produces valid decisions or
\* gives up: what integrate-run.sh expects of whatever reduces it.
(***************************************************************************)
EXTENDS DecisionRules

VARIABLES workset,    \* ids: its candidates, effort: what they state,
                      \* capped: those with a ceiling on their severity
          state,      \* "pending", "done" or "given up"
          result

vars == <<workset, state, result>>

Init == state \in {"pending", "given up"} /\ result = NoDecisions

Reduce ==
    /\ state = "pending"
    /\ \/ state' = "given up" /\ UNCHANGED result
       \/ /\ state' = "done"
          /\ Valid(workset.ids, workset.effort, workset.capped, result')
          /\ \A r \in result'.registry : \E f \in result'.findings : r \subseteq f.sources
    /\ UNCHANGED workset

Spec == Init /\ [][Reduce]_vars
=============================================================================
