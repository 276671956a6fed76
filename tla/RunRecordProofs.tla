-------------------------- MODULE RunRecordProofs --------------------------
(***************************************************************************)
\* The promises of RunRecordProperties, proved for every set of legs, names
\* and passes, every number of runs and every number of faults.
\* 
\* The argument: an answer that reaches the row is fit to be recorded
\* (Checked), so a headless leg that was not hit moves along one path on
\* which its rows keep step with its runs (Counted); and every file under
\* passes/ was put there by a leg that was asked for it (Held, Honest).
(***************************************************************************)
EXTENDS RunRecordProperties, TLAPS

\* What record-dispatch.sh has established when it appends the row.
Checked ==
    \A l \in Legs :
        /\ step[l] = "answered" => answer[l] \in AnswersOf(l)
        /\ step[l] \in {"row", "pass", "findings"} /\ (Leg[l].pass # 0 \/ Leg[l].findings) =>
               /\ answer[l] \in {"good", "malformed"}
               /\ Leg[l].headless => answer[l] = "good"
        /\ step[l] = "pass" => Leg[l].pass # 0
        /\ step[l] = "findings" => Leg[l].findings
        /\ step[l] = "verdict" => Leg[l].verdict
        /\ step[l] = "refused" => ~Leg[l].headless

\* The rows and runs of a headless leg that was not hit.
Counted ==
    \A l \in Legs : Leg[l].headless /\ l \notin faults.legs =>
        /\ step[l] \in {"idle", "pass", "findings", "failStub", "done", "failed"} =>
               rows[l] = runs[l]
        /\ step[l] \in {"answered", "row", "preserve", "failRow"} => rows[l] + 1 = runs[l]
        /\ step[l] # "killed"

\* The pass of a leg that has written it.
Keeps(l) ==
    LET n == Leg[l].name
        i == Leg[l].pass
        f == pass[n][i]
    IN  \/ f = Written(l, "block")
        \/ /\ f.by \in Legs \ {l}
           /\ \/ AskedFor(f.by, n, i)
              \/ AskedFor(f.by, n, 0) /\ i = 1 /\ f.kind # "block"

Held == \A l \in Legs : step[l] \in {"findings", "done"} /\ Leg[l].pass # 0 => Keeps(l)

There ==
    \A l \in Legs : step[l] \in {"findings", "done", "failed"} /\ Leg[l].pass # 0 =>
        pass[Leg[l].name][Leg[l].pass].kind # "absent"

\* A file of the run's passes, as long as nothing was hit.
Proper(n, i, f) ==
    /\ f.kind \in {"block", "stub"}
    /\ AskedFor(f.by, n, i) \/ (AskedFor(f.by, n, 0) /\ i = 1 /\ f.kind = "stub")

Honest ==
    faults.legs = {} =>
        \A n \in Names, i \in Passes : pass[n][i].kind = "absent" \/ Proper(n, i, pass[n][i])

IInv == TypeOK /\ Checked /\ Counted /\ Held /\ There /\ Honest

\* A step of leg d writes in its own name only, to a pass it was asked for,
\* or a stub for a leg without one; and it tears a file only when it is hit.
Stamped(d) ==
    \A n \in Names, i \in Passes :
        \/ pass'[n][i] = pass[n][i]
        \/ \E k \in {"block", "torn", "stub"} :
               /\ pass'[n][i] = Written(d, k)
               /\ AskedFor(d, n, i) \/ (AskedFor(d, n, 0) /\ i = 1 /\ k # "block")
               /\ k = "torn" => faults'.legs # {}

LegStep(d) ==
    \/ Run(d) \/ Check(d) \/ AppendRow(d)
    \/ WritePass(d) \/ RejectPass(d) \/ WriteFindings(d) \/ WriteVerdict(d)
    \/ Preserve(d) \/ FailRow(d) \/ FailStub(d)
    \/ Redispatch(d) \/ RecordFailed(d) \/ Kill(d) \/ WriteFails(d)

-----------------------------------------------------------------------------
\* At first every file is absent.
LEMMA TypeInit == Init => TypeOK
  BY RunRecordAssumption DEF Init, TypeOK, File, Kinds, Steps, Answers, Absent

\* A torn file keeps the type of its directory.
LEMMA TornType ==
  ASSUME TypeOK, NEW d \in Legs, Torn(d)
  PROVE  /\ pass' \in [Names -> [Passes -> File]]
         /\ findings' \in [Names -> File]
         /\ verdict' \in [Names -> File]
<1> USE RunRecordAssumption DEF LegRecord
<1>1. Written(d, "torn") \in File
  BY DEF Written, File, Kinds
<1>2. Leg[d].name \in Names /\ StubPass(d) \in Passes /\ (step[d] = "pass" => TRUE)
  BY DEF StubPass
<1>3. findings' \in [Names -> File] /\ verdict' \in [Names -> File]
  BY <1>1, <1>2 DEF Torn, TypeOK
<1>4. CASE step[d] = "pass" /\ Structured(d)
  <2>1. pass' = [pass EXCEPT ![Leg[d].name][Leg[d].pass] = Written(d, "torn")]
    BY <1>4 DEF Torn
  <2>2. QED BY <2>1, <1>1, <1>3 DEF TypeOK
<1>5. CASE step[d] = "failStub"
  <2>1. pass' = [pass EXCEPT ![Leg[d].name][StubPass(d)] = Written(d, "torn")]
    BY <1>5 DEF Torn
  <2>2. QED BY <2>1, <1>1, <1>3 DEF TypeOK
<1>6. CASE ~(step[d] = "pass" /\ Structured(d)) /\ step[d] # "failStub"
  <2>1. pass' = pass
    BY <1>6 DEF Torn
  <2>2. QED BY <2>1, <1>3 DEF TypeOK
<1>7. QED BY <1>4, <1>5, <1>6

\* A step keeps the types.
LEMMA TypeStep == TypeOK /\ [Next]_vars => TypeOK'
<1> SUFFICES ASSUME TypeOK, [Next]_vars
             PROVE  TypeOK'
  OBVIOUS
<1> USE RunRecordAssumption DEF LegRecord
<1>1. ASSUME UNCHANGED vars PROVE TypeOK'
  BY <1>1 DEF vars, TypeOK, File, Kinds, Steps, Answers
<1>2. ASSUME NEW d \in Legs, LegStep(d)
      PROVE  TypeOK'
  <2>1. CASE Run(d)
    BY <2>1 DEF Run, AnswersOf, KeepFiles, TypeOK, File, Kinds, Steps, Answers
  <2>2. CASE Check(d)
    BY <2>2 DEF Check, Goto, Ended, Unusable, Refuses, Rejected, Preflight, KeepFiles, TypeOK, File, Kinds, Steps, Answers
  <2>3. CASE AppendRow(d)
    BY <2>3 DEF AppendRow, Goto, Ended, AfterRow, TypeOK, File, Kinds, Steps, Answers
  <2>4. CASE WritePass(d)
    BY <2>4 DEF WritePass, Goto, Ended, Structured, Written, TypeOK, File, Kinds, Steps, Answers
  <2>5. CASE RejectPass(d)
    BY <2>5 DEF RejectPass, Goto, Ended, Rejected, Structured, KeepFiles, TypeOK, File, Kinds, Steps, Answers
  <2>6. CASE WriteFindings(d)
    BY <2>6 DEF WriteFindings, Goto, Ended, Written, TypeOK, File, Kinds, Steps, Answers
  <2>7. CASE WriteVerdict(d)
    <3>1. Written(d, "block") \in File
      BY DEF Written, File, Kinds
    <3>2. verdict' \in [Names -> File]
      BY <2>7, <3>1 DEF WriteVerdict, TypeOK
    <3>3. QED BY <2>7, <3>2 DEF WriteVerdict, Goto, Ended, TypeOK, Steps, Answers
  <2>8. CASE Preserve(d)
    BY <2>8 DEF Preserve, Goto, Ended, KeepFiles, TypeOK, File, Kinds, Steps, Answers
  <2>9. CASE FailRow(d)
    BY <2>9 DEF FailRow, Goto, Ended, TypeOK, File, Kinds, Steps, Answers
  <2>10. CASE FailStub(d)
    BY <2>10 DEF FailStub, Goto, Ended, StubPass, Written, TypeOK, File, Kinds, Steps, Answers
  <2>11. CASE Redispatch(d)
    BY <2>11 DEF Redispatch, Goto, Ended, KeepFiles, TypeOK, File, Kinds, Steps, Answers
  <2>12. CASE RecordFailed(d)
    BY <2>12 DEF RecordFailed, Goto, Ended, KeepFiles, TypeOK, File, Kinds, Steps, Answers
  <2>13. CASE Kill(d)
    <3>1. /\ pass' \in [Names -> [Passes -> File]]
          /\ findings' \in [Names -> File] /\ verdict' \in [Names -> File]
      BY <2>13, TornType DEF Kill, TypeOK
    <3>2. faults' \in [number : Nat, legs : SUBSET Legs]
      BY <2>13 DEF Kill, Hit, TypeOK
    <3>3. QED BY <2>13, <3>1, <3>2 DEF Kill, Goto, Ended, TypeOK, Steps, Answers
  <2>14. CASE WriteFails(d)
    <3>1. /\ pass' \in [Names -> [Passes -> File]]
          /\ findings' \in [Names -> File] /\ verdict' \in [Names -> File]
      BY <2>14, TornType DEF WriteFails, TypeOK
    <3>2. faults' \in [number : Nat, legs : SUBSET Legs]
      BY <2>14 DEF WriteFails, Hit, TypeOK
    <3>3. QED BY <2>14, <3>1, <3>2 DEF WriteFails, Goto, Rejected, Ended, TypeOK, Steps, Answers
  <2>15. QED BY <1>2, <2>1, <2>2, <2>3, <2>4, <2>5, <2>6, <2>7, <2>8, <2>9, <2>10, <2>11, <2>12, <2>13, <2>14 DEF LegStep
<1>3. QED BY <1>1, <1>2 DEF Next, LegStep

\* What is established before the row holds until the leg is through.
LEMMA CheckedStep == TypeOK /\ Checked /\ [Next]_vars => Checked'
<1> SUFFICES ASSUME TypeOK, Checked, [Next]_vars
             PROVE  Checked'
  OBVIOUS
<1> USE RunRecordAssumption DEF LegRecord
<1>1. ASSUME UNCHANGED vars PROVE Checked'
  BY <1>1 DEF vars, TypeOK, Steps, Answers, Checked, AnswersOf
<1>2. ASSUME NEW d \in Legs, LegStep(d)
      PROVE  Checked'
  <2>1. CASE Run(d)
    BY <2>1 DEF Run, AnswersOf, KeepFiles, TypeOK, Steps, Answers, Checked, AnswersOf
  <2>2. CASE Check(d)
    BY <2>2 DEF Check, Goto, Ended, Unusable, Refuses, Rejected, Preflight, KeepFiles, TypeOK, Steps, Answers, Checked, AnswersOf
  <2>3. CASE AppendRow(d)
    BY <2>3 DEF AppendRow, Goto, Ended, AfterRow, TypeOK, Steps, Answers, Checked, AnswersOf
  <2>4. CASE WritePass(d)
    BY <2>4 DEF WritePass, Goto, Ended, Structured, Written, TypeOK, Steps, Answers, Checked, AnswersOf
  <2>5. CASE RejectPass(d)
    BY <2>5 DEF RejectPass, Goto, Ended, Rejected, Structured, KeepFiles, TypeOK, Steps, Answers, Checked, AnswersOf
  <2>6. CASE WriteFindings(d)
    BY <2>6 DEF WriteFindings, Goto, Ended, Written, TypeOK, Steps, Answers, Checked, AnswersOf
  <2>7. CASE WriteVerdict(d)
    BY <2>7 DEF WriteVerdict, Goto, Ended, TypeOK, Steps, Answers, Checked, AnswersOf
  <2>8. CASE Preserve(d)
    BY <2>8 DEF Preserve, Goto, Ended, KeepFiles, TypeOK, Steps, Answers, Checked, AnswersOf
  <2>9. CASE FailRow(d)
    BY <2>9 DEF FailRow, Goto, Ended, TypeOK, Steps, Answers, Checked, AnswersOf
  <2>10. CASE FailStub(d)
    BY <2>10 DEF FailStub, Goto, Ended, StubPass, Written, TypeOK, Steps, Answers, Checked, AnswersOf
  <2>11. CASE Redispatch(d)
    BY <2>11 DEF Redispatch, Goto, Ended, KeepFiles, TypeOK, Steps, Answers, Checked, AnswersOf
  <2>12. CASE RecordFailed(d)
    BY <2>12 DEF RecordFailed, Goto, Ended, KeepFiles, TypeOK, Steps, Answers, Checked, AnswersOf
  <2>13. CASE Kill(d)
    BY <2>13 DEF Kill, Goto, Ended, Hit, TypeOK, Steps, Answers, Checked, AnswersOf
  <2>14. CASE WriteFails(d)
    BY <2>14 DEF WriteFails, Goto, Ended, Hit, Structured, Rejected, TypeOK, Steps, Answers, Checked, AnswersOf
  <2>15. QED BY <1>2, <2>1, <2>2, <2>3, <2>4, <2>5, <2>6, <2>7, <2>8, <2>9, <2>10, <2>11, <2>12, <2>13, <2>14 DEF LegStep
<1>3. QED BY <1>1, <1>2 DEF Next, LegStep

\* Rows keep step with runs.
LEMMA CountedStep == TypeOK /\ Checked /\ Counted /\ [Next]_vars => Counted'
<1> SUFFICES ASSUME TypeOK, Checked, Counted, [Next]_vars
             PROVE  Counted'
  OBVIOUS
<1> USE RunRecordAssumption DEF LegRecord
<1>1. ASSUME UNCHANGED vars PROVE Counted'
  BY <1>1 DEF vars, TypeOK, Steps, Answers, Checked, AnswersOf, Counted
<1>2. ASSUME NEW d \in Legs, LegStep(d)
      PROVE  Counted'
  <2>1. CASE Run(d)
    BY <2>1 DEF Run, AnswersOf, KeepFiles, TypeOK, Steps, Answers, Checked, AnswersOf, Counted
  <2>2. CASE Check(d)
    BY <2>2 DEF Check, Goto, Ended, Unusable, Refuses, Rejected, Preflight, KeepFiles, TypeOK, Steps, Answers, Checked, AnswersOf, Counted
  <2>3. CASE AppendRow(d)
    BY <2>3 DEF AppendRow, Goto, Ended, AfterRow, TypeOK, Steps, Answers, Checked, AnswersOf, Counted
  <2>4. CASE WritePass(d)
    BY <2>4 DEF WritePass, Goto, Ended, Structured, Written, TypeOK, Steps, Answers, Checked, AnswersOf, Counted
  <2>5. CASE RejectPass(d)
    BY <2>5 DEF RejectPass, Goto, Ended, Rejected, Structured, KeepFiles, TypeOK, Steps, Answers, Checked, AnswersOf, Counted
  <2>6. CASE WriteFindings(d)
    BY <2>6 DEF WriteFindings, Goto, Ended, Written, TypeOK, Steps, Answers, Checked, AnswersOf, Counted
  <2>7. CASE WriteVerdict(d)
    BY <2>7 DEF WriteVerdict, Goto, Ended, TypeOK, Steps, Answers, Checked, AnswersOf, Counted
  <2>8. CASE Preserve(d)
    BY <2>8 DEF Preserve, Goto, Ended, KeepFiles, TypeOK, Steps, Answers, Checked, AnswersOf, Counted
  <2>9. CASE FailRow(d)
    BY <2>9 DEF FailRow, Goto, Ended, TypeOK, Steps, Answers, Checked, AnswersOf, Counted
  <2>10. CASE FailStub(d)
    BY <2>10 DEF FailStub, Goto, Ended, StubPass, Written, TypeOK, Steps, Answers, Checked, AnswersOf, Counted
  <2>11. CASE Redispatch(d)
    BY <2>11 DEF Redispatch, Goto, Ended, KeepFiles, TypeOK, Steps, Answers, Checked, AnswersOf, Counted
  <2>12. CASE RecordFailed(d)
    BY <2>12 DEF RecordFailed, Goto, Ended, KeepFiles, TypeOK, Steps, Answers, Checked, AnswersOf, Counted
  <2>13. CASE Kill(d)
    BY <2>13 DEF Kill, Goto, Ended, Hit, TypeOK, Steps, Answers, Checked, AnswersOf, Counted
  <2>14. CASE WriteFails(d)
    BY <2>14 DEF WriteFails, Goto, Ended, Hit, Structured, Rejected, TypeOK, Steps, Answers, Checked, AnswersOf, Counted
  <2>15. QED BY <1>2, <2>1, <2>2, <2>3, <2>4, <2>5, <2>6, <2>7, <2>8, <2>9, <2>10, <2>11, <2>12, <2>13, <2>14 DEF LegStep
<1>3. QED BY <1>1, <1>2 DEF Next, LegStep

-----------------------------------------------------------------------------
\* Nobody else moves when a leg does.
LEMMA OthersStay ==
  ASSUME TypeOK, NEW d \in Legs, LegStep(d), NEW l \in Legs \ {d}
  PROVE  step'[l] = step[l]
  BY DEF LegStep, Run, Check, AppendRow, WritePass, RejectPass, WriteFindings, WriteVerdict, Preserve, FailRow, FailStub, Redispatch, RecordFailed, Kill, WriteFails, Goto, Hit, TypeOK

\* A torn file is a pass of the leg that was hit.
LEMMA TornStamp ==
  ASSUME TypeOK, NEW d \in Legs, Torn(d), faults'.legs # {}, step[d] = "pass" => Leg[d].pass # 0
  PROVE  Stamped(d)
<1> USE RunRecordAssumption DEF LegRecord, Written
<1>1. CASE step[d] = "pass" /\ Structured(d)
  <2>1. pass' = [pass EXCEPT ![Leg[d].name][Leg[d].pass] = Written(d, "torn")]
    BY <1>1 DEF Torn
  <2>2. QED BY <2>1 DEF Stamped, TypeOK, AskedFor
<1>2. CASE step[d] = "failStub"
  <2>1. pass' = [pass EXCEPT ![Leg[d].name][StubPass(d)] = Written(d, "torn")]
    BY <1>2 DEF Torn
  <2>2. QED BY <2>1 DEF Stamped, StubPass, TypeOK, AskedFor
<1>3. CASE ~(step[d] = "pass" /\ Structured(d)) /\ step[d] # "failStub"
  BY <1>3 DEF Torn, Stamped
<1>4. QED BY <1>1, <1>2, <1>3

\* Each step stamps what it writes.
LEMMA StampStep ==
  ASSUME TypeOK, Checked, NEW d \in Legs, LegStep(d)
  PROVE  Stamped(d)
<1> USE RunRecordAssumption DEF LegRecord
<1>1. CASE WritePass(d)
  <2>1. answer[d] = "good" /\ Leg[d].pass # 0
    BY <1>1 DEF WritePass, Structured, Checked
  <2>2. pass' = [pass EXCEPT ![Leg[d].name][Leg[d].pass] = Written(d, "block")]
    BY <1>1, <2>1 DEF WritePass
  <2>3. QED BY <2>2 DEF Stamped, TypeOK, AskedFor
<1>2. CASE FailStub(d)
  <2>1. pass' = [pass EXCEPT ![Leg[d].name][StubPass(d)] = Written(d, "stub")]
    BY <1>2 DEF FailStub
  <2>2. QED BY <2>1 DEF Stamped, StubPass, TypeOK, AskedFor
<1>3. CASE Kill(d) \/ WriteFails(d)
  <2>1. faults'.legs # {}
    <3>1. faults' = [number |-> faults.number + 1, legs |-> faults.legs \cup {d}]
      BY <1>3 DEF Kill, WriteFails, Hit
    <3>2. faults'.legs = faults.legs \cup {d}
      BY <3>1
    <3>3. QED BY <3>2
  <2>2. CASE Torn(d)
    BY <1>3, <2>1, <2>2, TornStamp DEF Checked
  <2>3. CASE UNCHANGED <<pass, findings, verdict>>
    BY <2>3 DEF Stamped
  <2>4. QED BY <1>3, <2>2, <2>3 DEF Kill, WriteFails
<1>4. CASE ~WritePass(d) /\ ~FailStub(d) /\ ~Kill(d) /\ ~WriteFails(d)
  <2>1. pass' = pass
    BY <1>4 DEF LegStep, Run, Check, AppendRow, RejectPass, WriteFindings, WriteVerdict,
                Preserve, FailRow, Redispatch, RecordFailed, KeepFiles
  <2>2. QED BY <2>1 DEF Stamped
<1>5. QED BY <1>1, <1>2, <1>3, <1>4

\* A leg that comes to have written its pass wrote it, in that step or before.
LEMMA Arrives ==
  ASSUME TypeOK, Checked, NEW d \in Legs, LegStep(d), Leg[d].pass # 0,
         step'[d] \in {"findings", "done"}
  PROVE  \/ step[d] = "findings" /\ pass' = pass
         \/ pass'[Leg[d].name][Leg[d].pass] = Written(d, "block")
<1> USE RunRecordAssumption DEF LegRecord
<1>1. CASE WritePass(d)
  <2>1. answer[d] = "good"
    BY <1>1 DEF WritePass, Structured, Checked
  <2>2. pass' = [pass EXCEPT ![Leg[d].name][Leg[d].pass] = Written(d, "block")]
    BY <1>1, <2>1 DEF WritePass
  <2>3. QED BY <2>2 DEF TypeOK
<1>2. CASE WriteFindings(d)
  BY <1>2 DEF WriteFindings
<1>3. CASE AppendRow(d)
  BY <1>3 DEF AppendRow, Goto, AfterRow, TypeOK
<1>4. CASE WriteVerdict(d)
  BY <1>4 DEF WriteVerdict, Checked
<1>5. CASE ~WritePass(d) /\ ~WriteFindings(d) /\ ~AppendRow(d) /\ ~WriteVerdict(d)
  BY <1>5 DEF LegStep, Run, Check, RejectPass, Preserve, FailRow, FailStub, Redispatch,
              RecordFailed, Kill, WriteFails, Goto, Rejected, TypeOK
<1>6. QED BY <1>1, <1>2, <1>3, <1>4, <1>5

\* Nobody who was not asked for it overwrites the pass of a leg.
LEMMA HeldStep == TypeOK /\ Checked /\ Held /\ [Next]_vars => Held'
<1> SUFFICES ASSUME TypeOK, Checked, Held, [Next]_vars
             PROVE  Held'
  OBVIOUS
<1> USE RunRecordAssumption DEF LegRecord
<1>1. ASSUME UNCHANGED vars PROVE Held'
  BY <1>1 DEF vars, Held, Keeps
<1>2. ASSUME NEW d \in Legs, LegStep(d), NEW l \in Legs,
             step'[l] \in {"findings", "done"}, Leg[l].pass # 0
      PROVE  Keeps(l)'
  <2> DEFINE n == Leg[l].name
             i == Leg[l].pass
  <2>1. Stamped(d) /\ n \in Names /\ i \in Passes
    BY <1>2, StampStep
  <2>2. CASE l = d
    BY <1>2, <2>2, Arrives DEF Held, Keeps
  <2>3. CASE l # d
    <3>1. Keeps(l)
      BY <1>2, <2>3, OthersStay DEF Held
    <3>2. \/ pass'[n][i] = pass[n][i]
          \/ \E k \in {"block", "torn", "stub"} :
                 /\ pass'[n][i] = Written(d, k)
                 /\ AskedFor(d, n, i) \/ (AskedFor(d, n, 0) /\ i = 1 /\ k # "block")
                 /\ k = "torn" => faults'.legs # {}
      <4> HIDE DEF n, i
      <4>1. QED BY <2>1 DEF Stamped
    <3>3. CASE pass'[n][i] = pass[n][i]
      BY <3>1, <3>3 DEF Keeps, AskedFor
    <3>4. ASSUME NEW k \in {"block", "torn", "stub"}, pass'[n][i] = Written(d, k),
                 AskedFor(d, n, i) \/ (AskedFor(d, n, 0) /\ i = 1 /\ k # "block")
          PROVE  Keeps(l)'
      BY <2>3, <3>4 DEF Keeps, Written, AskedFor
    <3>5. QED BY <3>2, <3>3, <3>4
  <2>4. QED BY <2>2, <2>3
<1>3. QED BY <1>1, <1>2 DEF Next, LegStep, Held

\* No step removes a pass.
LEMMA ThereStep == TypeOK /\ Checked /\ There /\ [Next]_vars => There'
<1> SUFFICES ASSUME TypeOK, Checked, There, [Next]_vars
             PROVE  There'
  OBVIOUS
<1> USE RunRecordAssumption DEF LegRecord
<1>1. ASSUME UNCHANGED vars PROVE There'
  BY <1>1 DEF vars, There
<1>2. ASSUME NEW d \in Legs, LegStep(d), NEW l \in Legs,
             step'[l] \in {"findings", "done", "failed"}, Leg[l].pass # 0
      PROVE  pass'[Leg[l].name][Leg[l].pass].kind # "absent"
  <2>1. Stamped(d) /\ Leg[l].name \in Names /\ Leg[l].pass \in Passes
    BY <1>2, StampStep
  <2>2. pass[Leg[l].name][Leg[l].pass].kind # "absent" =>
            pass'[Leg[l].name][Leg[l].pass].kind # "absent"
    BY <2>1 DEF Stamped, Written
  <2>3. CASE l # d
    BY <1>2, <2>2, <2>3, OthersStay DEF There
  <2>4. CASE l = d /\ step'[d] # "failed"
    <3>1. step'[d] \in {"findings", "done"} /\ Leg[d].pass # 0
      BY <1>2, <2>4
    <3>2. CASE step[d] = "findings" /\ pass' = pass
      BY <2>4, <3>1, <3>2 DEF There
    <3>3. CASE pass'[Leg[d].name][Leg[d].pass] = Written(d, "block")
      BY <2>4, <3>3 DEF Written
    <3>4. QED BY <1>2, <3>1, <3>2, <3>3, Arrives
  <2>5. CASE l = d /\ step'[d] = "failed"
    <3>1. FailStub(d)
      BY <1>2, <2>5 DEF LegStep, Run, Check, AppendRow, WritePass, RejectPass, WriteFindings, WriteVerdict, Preserve, FailRow, Redispatch, RecordFailed, Kill, WriteFails,
             Goto, Rejected, AfterRow, TypeOK
    <3>2. pass' = [pass EXCEPT ![Leg[d].name][Leg[d].pass] = Written(d, "stub")]
      BY <1>2, <2>5, <3>1 DEF FailStub, StubPass
    <3>3. QED BY <2>1, <2>5, <3>2 DEF TypeOK, Written
  <2>6. QED BY <1>2, <2>3, <2>4, <2>5
<1>3. QED BY <1>1, <1>2 DEF Next, LegStep, There

\* What is written without a fault is a block or a stub, where it belongs.
LEMMA HonestStep == TypeOK /\ Checked /\ Honest /\ [Next]_vars => Honest'
<1> SUFFICES ASSUME TypeOK, Checked, Honest, [Next]_vars
             PROVE  Honest'
  OBVIOUS
<1>1. ASSUME UNCHANGED vars PROVE Honest'
  BY <1>1 DEF vars, Honest
<1>2. ASSUME NEW d \in Legs, LegStep(d), faults'.legs = {}, NEW n \in Names, NEW i \in Passes
      PROVE  pass'[n][i].kind = "absent" \/ Proper(n, i, pass'[n][i])
  <2>1. faults.legs = {}
    BY <1>2 DEF LegStep, Run, Check, AppendRow, WritePass, RejectPass, WriteFindings, WriteVerdict, Preserve, FailRow, FailStub, Redispatch, RecordFailed, Kill, WriteFails, Hit, TypeOK
  <2>2. Stamped(d)
    BY <1>2, StampStep
  <2>3. CASE pass'[n][i] = pass[n][i]
    BY <2>1, <2>3 DEF Honest
  <2>4. ASSUME NEW k \in {"block", "torn", "stub"}, pass'[n][i] = Written(d, k),
               AskedFor(d, n, i) \/ (AskedFor(d, n, 0) /\ i = 1 /\ k # "block"), k # "torn"
        PROVE  Proper(n, i, pass'[n][i])
    BY <2>4 DEF Proper, Written
  <2>5. QED BY <1>2, <2>2, <2>3, <2>4 DEF Stamped
<1>3. QED BY <1>1, <1>2 DEF Next, LegStep, Honest

-----------------------------------------------------------------------------
\* Type correctness of the records.
THEOREM Typing == Spec => []TypeOK
<1>1. QED BY TypeInit, TypeStep, PTL DEF Spec

\* The strengthening is inductive.
LEMMA Invariance == Spec => []IInv
<1>1. Init => IInv
  <2>1. ASSUME Init PROVE Checked /\ Counted /\ Held /\ There /\ Honest
    BY <2>1, RunRecordAssumption DEF Init, Checked, Counted, Held, There, Honest, Absent
  <2>2. QED BY <2>1, TypeInit DEF IInv
<1>2. IInv /\ [Next]_vars => IInv'
  BY TypeStep, CheckedStep, CountedStep, HeldStep, ThereStep, HonestStep DEF IInv
<1>3. QED BY <1>1, <1>2, PTL DEF Spec

\* A recorded review is not lost to the bookkeeping of other legs.
THEOREM WorkIsKept == Spec => []WorkKept
<1>1. IInv => WorkKept
  BY DEF IInv, Held, Keeps, WorkKept
<1>2. QED BY <1>1, Invariance, PTL

\* The tokens of an answer of a headless leg are not counted twice.
THEOREM TokensCountOnce == Spec => []TokensOnce
<1>1. IInv => TokensOnce
  <2>1. ASSUME IInv, NEW l \in Legs, Leg[l].headless, l \notin faults.legs
        PROVE  rows[l] <= runs[l]
    <3>1. step[l] \notin {"refused", "verdict", "killed"}
      BY <2>1, RunRecordAssumption DEF IInv, Checked, Counted
    <3>2. step[l] \in Steps /\ rows[l] \in Nat /\ runs[l] \in Nat
      BY <2>1 DEF IInv, TypeOK
    <3>3. rows[l] = runs[l] \/ rows[l] + 1 = runs[l]
      BY <2>1, <3>1, <3>2 DEF IInv, Counted, Steps
    <3>4. QED BY <3>2, <3>3
  <2>2. QED BY <2>1 DEF TokensOnce
<1>2. QED BY <1>1, Invariance, PTL

\* A headless leg that ends leaves its rows, and its block or its stub.
THEOREM NeverEndsSilently == Spec => []NeverSilent
<1>1. IInv => NeverSilent
  BY DEF IInv, TypeOK, Counted, There, NeverSilent
<1>2. QED BY <1>1, Invariance, PTL

\* The completeness gate is passed by reviews and stubs only.
THEOREM GateIsHonest == Spec => []GateHonest
<1>1. IInv => GateHonest
  BY DEF IInv, Honest, Proper, PassesPresent, GateHonest
<1>2. QED BY <1>1, Invariance, PTL
=============================================================================
