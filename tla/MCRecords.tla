----------------------------- MODULE MCRecords -----------------------------
\* Instances of a run's records for TLC.
EXTENDS RunRecordProperties

\* One persona under multiball: pass 1 recorded by the orchestrator, pass 2
\* by a headless leg, a headless reconciler of the same name, and a verifier.
MCLegs == {"first", "second", "merge", "check"}
Plain == [phase |-> "persona", name |-> "A", headless |-> TRUE, pass |-> 0,
          findings |-> FALSE, verdict |-> FALSE]
MCLeg == [l \in MCLegs |->
    CASE l = "first" -> [Plain EXCEPT !.headless = FALSE, !.pass = 1, !.findings = TRUE]
      [] l = "second" -> [Plain EXCEPT !.pass = 2]
      [] l = "merge" -> [Plain EXCEPT !.phase = "reconciler"]
      [] l = "check" -> [Plain EXCEPT !.phase = "verifier", !.headless = FALSE,
                                      !.verdict = TRUE]]

\* The headless pass may be dispatched again.
MCMaxRuns == [l \in MCLegs |-> IF l = "second" THEN 2 ELSE 1]
=============================================================================
