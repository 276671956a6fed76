---------------------------- MODULE MCAdrSweep ----------------------------
\* Instances of the sweep for TLC.
EXTENDS AdrSweepProperties

CONSTANTS l1, l2

\* Record 1 has two falsifiers; record 2 has one without a command, rests on
\* record 1, supersedes it and cites itself.  Record 1 is alone in a project.
MCFalsifiers == <<{l1, l2}, {l1}>>
MCMalformed == <<{}, {l1}>>
MCDir == <<"project", "house">>
MCRefs == <<{}, {1, 2}>>
MCSupersedes == <<{}, {1}>>
MCInitial == {<<Record("active"), Record("active")>>}
Clean == [a \in Records |-> [l \in Labels |-> 0]]
MCConditions == {Clean, [Clean EXCEPT ![1][l1] = 1]}
===========================================================================
