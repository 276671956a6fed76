----------------------------- MODULE MCUsageLog -----------------------------
\* Instances of the index of runs for TLC.
EXTENDS UsageLog

\* A run finalized three times, once under another spelling of its path, and
\* a run whose path the first one's is the beginning of, finalized twice.
MCAppenders == {"a1", "a2", "a3", "b1", "b2"}
MCRunOf == [a \in MCAppenders |-> IF a \in {"b1", "b2"} THEN <<1, 0>> ELSE <<1>>]
MCSpelled == [a \in MCAppenders |-> IF a = "a3" THEN "raw" ELSE "resolved"]
=============================================================================
