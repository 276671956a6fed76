----------------------------- MODULE RunRecord -----------------------------
(***************************************************************************)
\* The records of one Angel run while its legs are under way: each leg is
\* one review by one agent, and record-dispatch.sh keeps its usage row, its
\* pass, its findings and its verdict.  The headless legs go through
\* dispatch-leg.sh, which runs Codex and answers for what it records; the
\* others are recorded by the orchestrator's own call.
\* 
\* Nothing locks the run directory, and legs run side by side.  A leg can be
\* killed, and a write can fail, between any two steps.
(***************************************************************************)
EXTENDS Naturals, FiniteSets

CONSTANTS Legs, Names, Passes,
          Leg,          \* what each leg was asked to do
          Multiball,    \* does the run have a MULTIBALL marker
          MaxRuns,      \* how often each leg may run
          MaxFaults

\* pass = 0: no --pass.  verdict: a verifier's JSON.
LegRecord == [phase : {"persona", "reconciler", "verifier"}, name : Names, headless : BOOLEAN,
              pass : {0} \cup Passes, findings : BOOLEAN, verdict : BOOLEAN]

ASSUME RunRecordAssumption ==
    /\ 1 \in Passes /\ Passes \subseteq Nat \ {0}
    /\ Leg \in [Legs -> LegRecord]
    /\ \A l \in Legs : /\ Leg[l].findings => Leg[l].pass \in {0, 1}
                       /\ Leg[l].verdict => Leg[l].pass = 0 /\ ~Leg[l].headless
    /\ Multiball \in BOOLEAN
    /\ MaxRuns \in [Legs -> Nat] /\ MaxFaults \in Nat

VARIABLES
    step,       \* where each leg is
    answer,     \* what its agent returned
    runs,       \* how often its agent ran
    rows,       \* its rows in usage.jsonl
    pass,       \* passes/NAME-pI.md
    findings,   \* findings/NAME.md
    verdict,    \* verification/NAME.json
    faults      \* how many kills and failed writes there were, and the legs they hit

vars == <<step, answer, runs, rows, pass, findings, verdict, faults>>

Steps == {"idle", "answered", "row", "pass", "findings", "verdict",
          "preserve", "failRow", "failStub", "done", "failed", "refused", "killed"}

\* good: structured findings or valid JSON.  malformed: text without them.
\* hung: a stdin that never closes.  failed: Codex timed out, ended with an
\* error, or its output shows no count of tokens.
Answers == {"none", "good", "malformed", "empty", "hung", "failed"}
AnswersOf(l) == IF Leg[l].headless THEN {"good", "malformed", "empty", "failed"}
                ELSE {"good", "malformed", "empty", "hung"}

\* A file, and the leg that wrote it last.
Absent == [kind |-> "absent", by |-> "nobody"]
Kinds == {"absent", "torn", "stub", "block"}

Init ==
    /\ step = [l \in Legs |-> "idle"]
    /\ answer = [l \in Legs |-> "none"]
    /\ runs = [l \in Legs |-> 0]
    /\ rows = [l \in Legs |-> 0]
    /\ pass = [n \in Names |-> [i \in Passes |-> Absent]]
    /\ findings = [n \in Names |-> Absent]
    /\ verdict = [n \in Names |-> Absent]
    /\ faults = [number |-> 0, legs |-> {}]

Ended == {"idle", "done", "failed", "refused", "killed"}

\* The answer is forgotten when the leg ends.
Goto(l, s) ==
    /\ step' = [step EXCEPT ![l] = s]
    /\ answer' = [answer EXCEPT ![l] = IF s \in Ended THEN "none" ELSE @]
KeepFiles == UNCHANGED <<rows, pass, findings, verdict>>

\* Written whole, by one printf into a truncated file.
Written(l, kind) == [kind |-> kind, by |-> l]

-----------------------------------------------------------------------------
\* The agent.

\* Codex runs under the time limit of dispatch-leg.sh.
Run(l) ==
    /\ step[l] = "idle"
    /\ \E a \in AnswersOf(l) : answer' = [answer EXCEPT ![l] = a]
    /\ step' = [step EXCEPT ![l] = "answered"]
    /\ runs' = [runs EXCEPT ![l] = @ + 1]
    /\ KeepFiles /\ UNCHANGED faults

\* Mutant of Preflight: the structure is left to record-dispatch.sh.
PreflightNever(l) == FALSE

\* The parser of record-dispatch.sh is tried before anything is recorded.
Preflight(l) == Leg[l].pass # 0 \/ Leg[l].findings

Unusable(l) ==
    /\ Leg[l].headless
    /\ answer[l] \in {"failed", "empty"} \/ (answer[l] = "malformed" /\ Preflight(l))

-----------------------------------------------------------------------------
\* record-dispatch.sh

\* It exits with an error: dispatch-leg.sh records the failure, and the
\* orchestrator is told.
Rejected(l) == IF Leg[l].headless THEN "preserve" ELSE "refused"

\* Under multiball every review of a persona has a pass; a block must not
\* be empty, and the wait for it has a limit.
Refuses(l) ==
    \/ Multiball /\ Leg[l].phase = "persona" /\ Leg[l].pass = 0
    \/ answer[l] \in {"empty", "hung"} /\ (Leg[l].pass # 0 \/ Leg[l].findings)
    \/ answer[l] = "hung" /\ Leg[l].verdict

Check(l) ==
    /\ step[l] = "answered"
    /\ Goto(l, IF Unusable(l) \/ Refuses(l) THEN Rejected(l) ELSE "row")
    /\ KeepFiles /\ UNCHANGED <<runs, faults>>

AfterRow(l) ==
    CASE Leg[l].verdict -> "verdict"
      [] Leg[l].pass # 0 -> "pass"
      [] Leg[l].pass = 0 /\ Leg[l].findings -> "findings"
      [] OTHER -> "done"

\* The row comes before everything else is looked at.
AppendRow(l) ==
    /\ step[l] = "row"
    /\ rows' = [rows EXCEPT ![l] = @ + 1]
    /\ Goto(l, AfterRow(l))
    /\ UNCHANGED <<runs, pass, findings, verdict, faults>>

\* Mutant of Structured: whatever arrives is written.
StructuredAny(l) == TRUE

Structured(l) == answer[l] # "malformed"

WritePass(l) ==
    /\ step[l] = "pass" /\ Structured(l)
    /\ pass' = [pass EXCEPT ![Leg[l].name][Leg[l].pass] =
                    Written(l, IF answer[l] = "good" THEN "block" ELSE "torn")]
    /\ Goto(l, IF Leg[l].findings THEN "findings" ELSE "done")
    /\ UNCHANGED <<runs, rows, findings, verdict, faults>>

\* The block goes to a file of its own, beside the pass.
RejectPass(l) ==
    /\ step[l] = "pass" /\ ~Structured(l)
    /\ Goto(l, Rejected(l))
    /\ KeepFiles /\ UNCHANGED <<runs, faults>>

WriteFindings(l) ==
    /\ step[l] = "findings"
    /\ findings' = [findings EXCEPT ![Leg[l].name] = Written(l, "block")]
    /\ Goto(l, "done")
    /\ UNCHANGED <<runs, rows, pass, verdict, faults>>

WriteVerdict(l) ==
    /\ step[l] = "verdict"
    /\ IF answer[l] = "good"
       THEN /\ verdict' = [verdict EXCEPT ![Leg[l].name] = Written(l, "block")]
            /\ Goto(l, "done")
       ELSE /\ Goto(l, "refused")
            /\ UNCHANGED verdict
    /\ UNCHANGED <<runs, rows, pass, findings, faults>>

-----------------------------------------------------------------------------
\* dispatch-leg.sh records a failure.

\* Mutant of Preserve: a failed copy ends the script.
PreserveOrDie(l) ==
    /\ step[l] = "preserve"
    /\ \E copied \in BOOLEAN : Goto(l, IF copied THEN "failRow" ELSE "failed")
    /\ KeepFiles /\ UNCHANGED <<runs, faults>>

\* The captured output is copied aside; whether or not that works, the
\* failure is recorded.
Preserve(l) ==
    /\ step[l] = "preserve"
    /\ Goto(l, "failRow")
    /\ KeepFiles /\ UNCHANGED <<runs, faults>>

FailRow(l) ==
    /\ step[l] = "failRow"
    /\ rows' = [rows EXCEPT ![l] = @ + 1]
    /\ Goto(l, "failStub")
    /\ UNCHANGED <<runs, pass, findings, verdict, faults>>

\* Mutant of StubPass: the stub always goes to pass 1.
StubPassOne(l) == 1

\* A leg without a pass excuses pass 1 of its name.
StubPass(l) == IF Leg[l].pass = 0 THEN 1 ELSE Leg[l].pass

FailStub(l) ==
    /\ step[l] = "failStub"
    /\ pass' = [pass EXCEPT ![Leg[l].name][StubPass(l)] = Written(l, "stub")]
    /\ Goto(l, "failed")
    /\ UNCHANGED <<runs, rows, findings, verdict, faults>>

-----------------------------------------------------------------------------
\* The orchestrator, and what goes wrong.

\* A refused record, or a failed leg, is dispatched once more; a refused
\* one may be recorded as failed instead.
Redispatch(l) ==
    /\ step[l] \in {"refused", "failed", "killed"}
    /\ runs[l] < MaxRuns[l]
    /\ Goto(l, "idle")
    /\ KeepFiles /\ UNCHANGED <<runs, faults>>

RecordFailed(l) ==
    /\ step[l] \in {"refused", "killed"} /\ ~Leg[l].headless /\ Leg[l].pass # 0
    /\ Goto(l, "failRow")
    /\ KeepFiles /\ UNCHANGED <<runs, faults>>

Hit(l) ==
    /\ faults.number < MaxFaults
    /\ faults' = [number |-> faults.number + 1, legs |-> faults.legs \cup {l}]

\* What is left of the file that a killed or failed write was about.
Torn(l) ==
    /\ pass' = CASE step[l] = "pass" /\ Structured(l) ->
                      [pass EXCEPT ![Leg[l].name][Leg[l].pass] = Written(l, "torn")]
                 [] step[l] = "failStub" ->
                      [pass EXCEPT ![Leg[l].name][StubPass(l)] = Written(l, "torn")]
                 [] OTHER -> pass
    /\ findings' = IF step[l] = "findings"
                   THEN [findings EXCEPT ![Leg[l].name] = Written(l, "torn")] ELSE findings
    /\ verdict' = IF step[l] = "verdict" /\ answer[l] = "good"
                  THEN [verdict EXCEPT ![Leg[l].name] = Written(l, "torn")] ELSE verdict

Kill(l) ==
    /\ step[l] \notin Ended
    /\ Hit(l)
    /\ \/ Torn(l)
       \/ UNCHANGED <<pass, findings, verdict>>
    /\ Goto(l, "killed")
    /\ UNCHANGED <<runs, rows>>

\* A write of record-dispatch.sh fails, after the row.
WriteFails(l) ==
    /\ step[l] \in {"pass", "findings"} /\ Structured(l)
    /\ Hit(l)
    /\ \/ Torn(l)
       \/ UNCHANGED <<pass, findings, verdict>>
    /\ Goto(l, Rejected(l))
    /\ UNCHANGED <<runs, rows>>

Next ==
    \E l \in Legs :
        \/ Run(l) \/ Check(l) \/ AppendRow(l)
        \/ WritePass(l) \/ RejectPass(l) \/ WriteFindings(l) \/ WriteVerdict(l)
        \/ Preserve(l) \/ FailRow(l) \/ FailStub(l)
        \/ Redispatch(l) \/ RecordFailed(l) \/ Kill(l) \/ WriteFails(l)

Spec == Init /\ [][Next]_vars

-----------------------------------------------------------------------------
\* The completeness gate: for each persona every pass is there, if only as
\* a stub; it does not look inside.
PassesPresent == \A n \in Names, i \in Passes : pass[n][i].kind # "absent"
=============================================================================
