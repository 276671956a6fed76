------------------------- MODULE IntegrationProofs -------------------------
(***************************************************************************)
(* Theorems about Integration, for every set of worksets and all bounds.   *)
(***************************************************************************)
EXTENDS IntegrationProperties, TLAPS

USE DEF Goto, Stop, Finished, Start, disk, others, process

\* Starting a driver leaves the state well typed, whoever starts it.
LEMMA StartTyped ==
  ASSUME TypeOK, NEW p \in Positions, Start(p), retrying' \in BOOLEAN,
         archive' \subseteq Nat, count' \in [crashes : Nat, retries : Nat],
         UNCHANGED <<workset, decisions, telemetry, report, snapshot, registry,
                     usage, usageJson, log>>
  PROVE  TypeOK'
<1>1. mem' \in Decisions
  BY DEF NoDecisions, Decisions
<1>2. pc' \in Positions /\ attempt' \in 0..2 /\ exit' \in {"none", "ok", "error", "killed"}
  OBVIOUS
<1>3. UNCHANGED <<dispositions, verification, passes, issued>>
  OBVIOUS
<1>4. QED
  BY <1>1, <1>2, <1>3 DEF TypeOK

\* Every action leaves the state well typed.
LEMMA TypeInductive ==
  ASSUME TypeOK, [Next]_vars
  PROVE  TypeOK'
<1> USE IntegrationAssumption DEF TypeOK, Positions, WorksetFile, DispositionFiles,
        Decisions, UsageFile, ReportFile, SnapshotFile,
        Passes, Support, SupportOf
<1>1. CASE Integrate
  <2>1. Start("build") /\ retrying' \in BOOLEAN /\ UNCHANGED <<disk, count>>
    BY <1>1 DEF Integrate
  <2>2. QED
    BY <2>1, StartTyped
<1>2. CASE Resume
  <2>1. Start("build") /\ retrying' \in BOOLEAN /\ UNCHANGED <<disk, count>>
    BY <1>2 DEF Resume
  <2>2. QED
    BY <2>1, StartTyped
<1>3. CASE Refinalize
  <2>1. Start("finalize") /\ retrying' \in BOOLEAN /\ UNCHANGED <<disk, count>>
    BY <1>3 DEF Refinalize
  <2>2. QED
    BY <2>1, StartTyped
<1>4. CASE Retry
  <2>1. Start("build") /\ retrying' \in BOOLEAN
    BY <1>4 DEF Retry
  <2>2. count' \in [crashes : Nat, retries : Nat]
    <3>1. count' = [count EXCEPT !.retries = @ + 1]
      BY <1>4 DEF Retry
    <3>2. count \in [crashes : Nat, retries : Nat]
      OBVIOUS
    <3>3. QED
      BY ONLY <3>1, <3>2
  <2>3. archive' \subseteq Nat
    BY <1>4 DEF Retry
  <2>4. QED
    BY <1>4, <2>1, <2>2, <2>3, StartTyped DEF Retry
<1>5. CASE Build
  <2>1. workset' \in WorksetFile
    <3>1. CASE workset.built
      BY <1>5, <3>1 DEF Build
    <3>2. CASE ~workset.built
      <4>1. PICK w \in Worksets : workset' = [w EXCEPT !.partial = (passes = "missing")]
        BY <1>5, <3>2 DEF Build
      <4>2. w \in WorksetFile /\ (passes = "missing") \in BOOLEAN
        OBVIOUS
      <4>3. QED
        BY ONLY <4>1, <4>2 DEF WorksetFile
    <3>3. QED
      BY <3>1, <3>2
  <2>2. QED
    BY <1>5, <2>1 DEF Build
<1>6. CASE SkipDispatch
  BY <1>6 DEF SkipDispatch
<1>7. CASE NoRunner
  BY <1>7 DEF NoRunner
<1>8. CASE QualifiedRunner
  BY <1>8 DEF QualifiedRunner
<1>9. CASE Reduced
  BY <1>9 DEF Reduced
<1>10. CASE AttemptAgain
  BY <1>10 DEF AttemptAgain
<1>11. CASE GiveUp
  BY <1>11 DEF GiveUp
<1>12. CASE Install
  BY <1>12 DEF Install
<1>13. CASE KeepTelemetry
  BY <1>13 DEF KeepTelemetry
<1>14. CASE Meter
  BY <1>14 DEF Meter
<1>15. CASE Union
  BY <1>15 DEF Union, DeterministicUnion
<1>16. CASE MeterUnion
  BY <1>16 DEF MeterUnion
<1>17. CASE Validate
  BY <1>17 DEF Validate
<1>18. CASE SkipRender
  BY <1>18 DEF SkipRender
<1>19. CASE Render
  BY <1>19 DEF Render
<1>20. CASE RenderRefuses
  BY <1>20 DEF RenderRefuses
<1>21. CASE WriteReport
  BY <1>21 DEF WriteReport
<1>22. CASE WriteSnapshot
  BY <1>22 DEF WriteSnapshot
<1>23. CASE WriteRegistry
  BY <1>23 DEF WriteRegistry
<1>24. CASE Finalize
  <2>1. CASE snapshot.id = 0 \/ ~decisions.valid
    BY <1>24, <2>1, SMTT(30) DEF Finalize
  <2>2. CASE snapshot.id # 0 /\ decisions.valid
    <3>1. snapshot' = [snapshot EXCEPT !.assembled = SupportOf(passes)]
      BY <1>24, <2>2 DEF Finalize
    <3>2. SupportOf(passes) \in Support /\ snapshot \in SnapshotFile
      OBVIOUS
    <3>3. snapshot' \in SnapshotFile
      BY ONLY <3>1, <3>2 DEF SnapshotFile
    <3>4. QED
      BY <1>24, <2>2, <3>3 DEF Finalize
  <2>3. QED
    BY <2>1, <2>2
<1>25. CASE Aggregate
  BY <1>25 DEF Aggregate, TornUsage
<1>26. CASE WriteUsage
  BY <1>26 DEF WriteUsage, UsageOf
<1>27. CASE Gate
  BY <1>27, SMTT(20) DEF Gate
<1>28. CASE Supersede
  BY <1>28 DEF Supersede
<1>29. CASE AppendLine
  BY <1>29 DEF AppendLine
<1>30. CASE OpenSkeleton
  BY <1>30 DEF OpenSkeleton
<1>31. CASE WriteSkeleton
  BY <1>31 DEF WriteSkeleton
<1>32. CASE PatchReport
  <2>1. report' \in ReportFile
    BY <1>32 DEF PatchReport
  <2>2. QED
    BY <1>32, <2>1 DEF PatchReport
<1>33. CASE ApplyVerdicts
  <2>1. snapshot' \in SnapshotFile
    BY <1>33 DEF ApplyVerdicts
  <2>2. QED
    BY <1>33, <2>1 DEF ApplyVerdicts
<1>34. CASE WriteVerdict
  BY <1>34 DEF WriteVerdict
<1>35. CASE RecordDisposition
  BY <1>35 DEF RecordDisposition
<1>36. CASE RecordPass
  BY <1>36 DEF RecordPass
<1>37. CASE Crash
  <2>1. count' \in [crashes : Nat, retries : Nat]
    <3>1. count' = [count EXCEPT !.crashes = @ + 1]
      BY <1>37 DEF Crash
    <3>2. count \in [crashes : Nat, retries : Nat]
      OBVIOUS
    <3>3. QED
      BY ONLY <3>1, <3>2
  <2>2. QED
    BY <1>37, <2>1 DEF Crash
<1>38. CASE UNCHANGED vars
  BY <1>38 DEF vars
<1>39. QED
  BY <1>1, <1>2, <1>3, <1>4, <1>5, <1>6, <1>7, <1>8, <1>9, <1>10,
     <1>11, <1>12, <1>13, <1>14, <1>15, <1>16, <1>17, <1>18, <1>19, <1>20,
     <1>21, <1>22, <1>23, <1>24, <1>25, <1>26, <1>27, <1>28, <1>29, <1>30,
     <1>31, <1>32, <1>33, <1>34, <1>35, <1>36, <1>37, <1>38
  DEF Next, Step, Dispatch, Rendering, Finalization

\* Every reachable state is well typed, for all worksets, all positions of
\* kills and of others' actions, and all bounds.
THEOREM IntegrationTypeCorrect == Spec => []TypeOK
<1>1. Init => TypeOK
  <2> SUFFICES ASSUME Init PROVE TypeOK
    OBVIOUS
  <2>1. workset \in WorksetFile /\ decisions \in Decisions /\ mem \in Decisions
    BY DEF Init, NoWorkset, NoDecisions, WorksetFile, Decisions
  <2>2. /\ report \in ReportFile
        /\ snapshot \in SnapshotFile
        /\ usageJson \in UsageFile
    BY DEF Init, NoReport, NoSnapshot, NoUsage, UsageFile, ReportFile, SnapshotFile,
       Support
  <2>3. count \in [crashes : Nat, retries : Nat]
    BY DEF Init
  <2>4. usage \in Seq(Nat) /\ log \in Seq(UsageFile)
    BY DEF Init
  <2>5. pc \in Positions /\ dispositions \in DispositionFiles
    BY DEF Init, Positions, DispositionFiles
  <2>6. /\ exit \in {"none", "ok", "error", "killed"} /\ attempt \in 0..2
        /\ telemetry \in Nat /\ registry \in Nat /\ issued \in Nat
    BY DEF Init
  <2>7. verification \in BOOLEAN /\ passes \in Passes /\ retrying \in BOOLEAN
    BY DEF Init
  <2>8. archive \subseteq Nat
    BY DEF Init
  <2>9. QED
    BY <2>1, <2>2, <2>3, <2>4, <2>5, <2>6, <2>7, <2>8 DEF TypeOK
<1>2. TypeOK /\ [Next]_vars => TypeOK'
  BY TypeInductive
<1>3. QED
  BY <1>1, <1>2, PTL DEF Spec

-----------------------------------------------------------------------------

\* Assembling the support leaves the rest of the snapshot as it is.
LEMMA FinalizeKeeps ==
  ASSUME TypeOK, Finalize
  PROVE  /\ snapshot'.id = snapshot.id
         /\ snapshot'.degraded = snapshot.degraded
         /\ snapshot'.verified = snapshot.verified
<1>1. snapshot \in SnapshotFile
  BY DEF TypeOK
<1>2. UNCHANGED snapshot \/ snapshot' = [snapshot EXCEPT !.assembled = SupportOf(passes)]
  BY DEF Finalize
<1>3. QED
  BY ONLY <1>1, <1>2 DEF SnapshotFile

-----------------------------------------------------------------------------
\* Verdicts.

\* apply-verification.py patches the snapshot before the report, and a new
\* report is written without verdicts before a new snapshot is.
VerdictsInv ==
    /\ VerdictsShownAreRecorded
    /\ pc = "snapshot" => ~report.verified
    /\ pc = "patch" => snapshot.verified

\* Every step keeps the verdicts of the report in the snapshot.
LEMMA VerdictsInductive ==
  ASSUME TypeOK, VerdictsInv, [Next]_vars
  PROVE  VerdictsInv'
<1> USE DEF VerdictsInv, VerdictsShownAreRecorded
<1>0. /\ report \in ReportFile
      /\ snapshot \in SnapshotFile
  BY DEF TypeOK, ReportFile, SnapshotFile
<1>1. CASE Integrate \/ Resume \/ Refinalize \/ Retry
  BY <1>1 DEF Integrate, Resume, Refinalize, Retry
<1>2. CASE Build \/ Dispatch \/ Validate
  BY <1>2 DEF Build, Validate, Dispatch, SkipDispatch, NoRunner, QualifiedRunner,
     Reduced, AttemptAgain, GiveUp, Install, KeepTelemetry, Meter, Union, MeterUnion
<1>3. CASE SkipRender \/ Render \/ RenderRefuses \/ WriteRegistry
  BY <1>3 DEF SkipRender, Render, RenderRefuses, WriteRegistry
<1>4. CASE WriteReport
  BY <1>4 DEF WriteReport
<1>5. CASE WriteSnapshot
  BY <1>5 DEF WriteSnapshot
<1>6. CASE Finalize
  BY <1>6, FinalizeKeeps DEF Finalize
<1>7. CASE Aggregate \/ WriteUsage \/ Gate \/ Supersede \/ AppendLine
           \/ OpenSkeleton \/ WriteSkeleton
  BY <1>7 DEF Aggregate, WriteUsage, Gate, Supersede, AppendLine, OpenSkeleton,
     WriteSkeleton
<1>8. CASE PatchReport
  BY <1>0, <1>8 DEF PatchReport
<1>9. CASE ApplyVerdicts
  BY <1>0, <1>9 DEF ApplyVerdicts
<1>10. CASE WriteVerdict \/ RecordDisposition \/ RecordPass \/ Crash
  BY <1>10 DEF WriteVerdict, RecordDisposition, RecordPass, Crash
<1>11. CASE UNCHANGED vars
  BY <1>11 DEF vars
<1>12. QED
  BY <1>1, <1>2, <1>3, <1>4, <1>5, <1>6, <1>7, <1>8, <1>9, <1>10, <1>11
  DEF Next, Step, Rendering, Finalization

\* A report never shows verdicts that its snapshot lacks, wherever the
\* patching or a retry is killed.
THEOREM VerdictsCorrect == Spec => []VerdictsShownAreRecorded
<1>1. Init => VerdictsInv
  BY DEF Init, VerdictsInv, VerdictsShownAreRecorded, NoReport
<1>2. TypeOK /\ VerdictsInv /\ [Next]_vars => VerdictsInv'
  BY VerdictsInductive
<1>3. VerdictsInv => VerdictsShownAreRecorded
  BY DEF VerdictsInv
<1>4. QED
  BY <1>1, <1>2, <1>3, IntegrationTypeCorrect, PTL DEF Spec

-----------------------------------------------------------------------------
\* The index.

\* From the aggregation to the end of the driver usage.json describes the
\* snapshot, and after the append it is the one line of the run.
IndexInv ==
    /\ Len(log) <= 1
    /\ pc = "append" => log = <<>>
    /\ pc \in {"gate", "supersede", "append", "skeleton", "skeletonWrite"} =>
         usageJson.snapshot = snapshot.id
    /\ pc \in {"skeleton", "skeletonWrite"} => log = <<usageJson>>
    /\ exit = "ok" => /\ pc \in {"idle", "patch"}
                      /\ log = <<usageJson>> /\ usageJson.snapshot = snapshot.id

\* Every step keeps the log and usage.json in line with the driver's position.
LEMMA IndexInductive ==
  ASSUME TypeOK, IndexInv, [Next]_vars
  PROVE  IndexInv'
<1> USE DEF IndexInv
<1>0. snapshot \in SnapshotFile
  BY DEF TypeOK, ReportFile, SnapshotFile
<1>1. CASE Integrate \/ Resume \/ Refinalize \/ Retry
  BY <1>1 DEF Integrate, Resume, Refinalize, Retry
<1>2. CASE Build \/ Dispatch \/ Validate
  BY <1>2 DEF Build, Validate, Dispatch, SkipDispatch, NoRunner, QualifiedRunner,
     Reduced, AttemptAgain, GiveUp, Install, KeepTelemetry, Meter, Union, MeterUnion
<1>3. CASE SkipRender \/ Render \/ RenderRefuses \/ WriteReport \/ WriteSnapshot
           \/ WriteRegistry
  BY <1>3 DEF SkipRender, Render, RenderRefuses, WriteReport, WriteSnapshot,
     WriteRegistry
<1>4. CASE Finalize \/ Aggregate
  BY <1>4, FinalizeKeeps DEF Finalize, Aggregate
<1>5. CASE WriteUsage
  BY <1>5 DEF WriteUsage, UsageOf
<1>6. CASE Gate
  BY <1>6 DEF Gate
<1>7. CASE Supersede
  BY <1>7 DEF Supersede
<1>8. CASE AppendLine
  BY <1>8 DEF AppendLine
<1>9. CASE OpenSkeleton \/ WriteSkeleton
  BY <1>9 DEF OpenSkeleton, WriteSkeleton
<1>10. CASE PatchReport
  BY <1>10 DEF PatchReport
<1>11. CASE ApplyVerdicts
  BY <1>0, <1>11 DEF ApplyVerdicts
<1>12. CASE WriteVerdict \/ RecordDisposition \/ RecordPass \/ Crash
  BY <1>12 DEF WriteVerdict, RecordDisposition, RecordPass, Crash
<1>13. CASE UNCHANGED vars
  BY <1>13 DEF vars
<1>14. QED
  BY <1>1, <1>2, <1>3, <1>4, <1>5, <1>6, <1>7, <1>8, <1>9, <1>10, <1>11, <1>12, <1>13
  DEF Next, Step, Rendering, Finalization

\* A finalized run has one line in the index, and the line counts its
\* snapshot, through every interruption, repetition and retry.
THEOREM IndexCorrect == Spec => []Indexed
<1>1. Init => IndexInv
  BY DEF Init, IndexInv
<1>2. TypeOK /\ IndexInv /\ [Next]_vars => IndexInv'
  BY IndexInductive
<1>3. IndexInv => Indexed
  BY DEF IndexInv, Indexed, Done
<1>4. QED
  BY <1>1, <1>2, <1>3, IntegrationTypeCorrect, PTL DEF Spec

-----------------------------------------------------------------------------
\* Completeness of what is in the index.

\* Decisions that were rendered stay valid: only a retry replaces them, a
\* retry needs a snapshot from a union, a union passed the validation once,
\* and it would pass it again because the workset is built once.
CompleteInv ==
    /\ decisions.valid => decisions.id # 0
    /\ decisions.valid /\ decisions.union => workset.built /\ ~workset.capped
    /\ snapshot.id # 0 => decisions.valid
    /\ snapshot.id # 0 /\ snapshot.degraded => workset.built /\ ~workset.capped
    /\ retrying => workset.built /\ ~workset.capped
    /\ pc \in {"dispatch", "reduce", "install", "union"} => workset.built
    /\ pc \in {"reduce", "install", "union"} => decisions.id = 0 \/ retrying
    /\ pc = "install" => mem.valid /\ mem.id # 0 /\ ~mem.union
    /\ pc \in {"render", "report", "snapshot", "registry"} => decisions.valid
    /\ pc \in {"report", "snapshot"} => mem = decisions
    /\ pc \in {"supersede", "append"} => passes # "missing" /\ report.id # 0 /\ snapshot.id # 0
    /\ log # <<>> => passes # "missing" /\ report.id # 0 /\ snapshot.id # 0

\* Every step keeps what the gate has seen, also during a retry.
LEMMA CompleteInductive ==
  ASSUME TypeOK, CompleteInv, [Next]_vars
  PROVE  CompleteInv'
<1> USE DEF CompleteInv
<1>0. /\ workset \in WorksetFile /\ Worksets \subseteq {w \in WorksetFile : w.built}
      /\ decisions \in Decisions /\ mem \in Decisions /\ issued \in Nat
      /\ report \in ReportFile
      /\ snapshot \in SnapshotFile
  BY IntegrationAssumption DEF TypeOK, ReportFile, SnapshotFile
<1>1. CASE Integrate \/ Resume \/ Refinalize
  BY <1>1 DEF Integrate, Resume, Refinalize
<1>2. CASE Retry
  BY <1>2 DEF Retry, MayRetry
<1>3. CASE Build
  BY <1>0, <1>3 DEF Build, WorksetFile
<1>4. CASE SkipDispatch \/ NoRunner \/ QualifiedRunner
  BY <1>4 DEF SkipDispatch, NoRunner, QualifiedRunner, NeedsDispatch
<1>5. CASE Reduced
  BY <1>0, <1>5 DEF Reduced
<1>6. CASE AttemptAgain \/ GiveUp
  BY <1>6 DEF AttemptAgain, GiveUp
<1>7. CASE Install
  BY <1>7 DEF Install
<1>8. CASE Union
  <2>1. decisions' = [id |-> issued + 1, union |-> TRUE, valid |-> ~workset.capped]
    BY <1>8 DEF Union, DeterministicUnion
  <2>2. /\ decisions'.id # 0 /\ decisions'.union
        /\ decisions'.valid <=> ~workset.capped
    <3>1. issued + 1 # 0
      BY <1>0
    <3>2. QED
      BY ONLY <2>1, <3>1
  <2>3. decisions.id = 0 \/ retrying
    BY <1>8 DEF Union
  <2>4. snapshot.id # 0 => retrying
    BY <2>3
  <2>5. pc' \in {"unionMeter", "idle"} /\ workset.built
    BY <1>8 DEF Union
  <2>6. QED
    BY <1>8, <2>2, <2>4, <2>5 DEF Union
<1>9. CASE KeepTelemetry \/ Meter \/ MeterUnion \/ Validate
  BY <1>9 DEF KeepTelemetry, Meter, MeterUnion, Validate
<1>10. CASE SkipRender \/ Render \/ RenderRefuses \/ WriteRegistry
  BY <1>10 DEF SkipRender, Render, RenderRefuses, WriteRegistry
<1>11. CASE WriteReport
  BY <1>11 DEF WriteReport
<1>12. CASE WriteSnapshot
  BY <1>12 DEF WriteSnapshot
<1>13. CASE Finalize
  BY <1>13, FinalizeKeeps DEF Finalize
<1>14. CASE Aggregate \/ WriteUsage
  BY <1>14 DEF Aggregate, WriteUsage
<1>15. CASE Gate
  BY <1>15 DEF Gate, RunComplete
<1>16. CASE Supersede \/ AppendLine \/ OpenSkeleton \/ WriteSkeleton
  BY <1>16 DEF Supersede, AppendLine, OpenSkeleton, WriteSkeleton
<1>17. CASE PatchReport
  BY <1>0, <1>17 DEF PatchReport
<1>18. CASE ApplyVerdicts
  BY <1>0, <1>18 DEF ApplyVerdicts
<1>19. CASE WriteVerdict \/ RecordDisposition \/ RecordPass \/ Crash
  BY <1>19 DEF WriteVerdict, RecordDisposition, RecordPass, Crash
<1>20. CASE UNCHANGED vars
  BY <1>20 DEF vars
<1>21. QED
  BY <1>1, <1>2, <1>3, <1>4, <1>5, <1>6, <1>7, <1>8, <1>9, <1>10, <1>11, <1>12,
     <1>13, <1>14, <1>15, <1>16, <1>17, <1>18, <1>19, <1>20
  DEF Next, Step, Dispatch, Rendering, Finalization

\* CompleteInv and the typing hold in every reachable state.
LEMMA CompleteInvariant == Spec => []CompleteInv
<1>1. Init => CompleteInv
  BY DEF Init, CompleteInv, NoDecisions, NoSnapshot
<1>2. TypeOK /\ CompleteInv /\ [Next]_vars => CompleteInv'
  BY CompleteInductive
<1>3. QED
  BY <1>1, <1>2, IntegrationTypeCorrect, PTL DEF Spec

\* Whatever is in the index has all its passes, its report, its snapshot
\* and valid decisions, and keeps them during a retry.
THEOREM CompleteCorrect == Spec => []IndexedWhenComplete
<1>1. CompleteInv => IndexedWhenComplete
  BY DEF CompleteInv, IndexedWhenComplete
<1>2. QED
  BY <1>1, CompleteInvariant, PTL

-----------------------------------------------------------------------------
\* Support.

\* Past the gate the support in the snapshot is that of the passes, which
\* no longer change.
SupportInv ==
    /\ pc \in {"supersede", "append", "skeleton", "skeletonWrite"} =>
         passes # "missing" /\ snapshot.assembled = SupportOf(passes)
    /\ exit = "ok" => /\ pc \in {"idle", "patch"} /\ passes # "missing"
                      /\ snapshot.assembled = SupportOf(passes)

\* Every step keeps the assembled support that of the passes once the gate
\* has compared the two.
LEMMA SupportInductive ==
  ASSUME TypeOK, SupportInv, [Next]_vars
  PROVE  SupportInv'
<1> USE DEF SupportInv
<1>1. CASE Integrate \/ Resume \/ Refinalize \/ Retry
  BY <1>1 DEF Integrate, Resume, Refinalize, Retry
<1>2. CASE Build \/ Dispatch \/ Validate
  BY <1>2 DEF Build, Validate, Dispatch, SkipDispatch, NoRunner, QualifiedRunner,
     Reduced, AttemptAgain, GiveUp, Install, KeepTelemetry, Meter, Union, MeterUnion
<1>3. CASE Rendering
  BY <1>3 DEF Rendering, SkipRender, Render, RenderRefuses, WriteReport,
     WriteSnapshot, WriteRegistry
<1>4. CASE Finalize \/ Aggregate \/ WriteUsage
  BY <1>4 DEF Finalize, Aggregate, WriteUsage
<1>5. CASE Gate
  BY <1>5 DEF Gate, RunComplete
<1>6. CASE Supersede \/ AppendLine
  BY <1>6 DEF Supersede, AppendLine
<1>7. CASE OpenSkeleton \/ WriteSkeleton
  BY <1>7 DEF OpenSkeleton, WriteSkeleton
<1>8. CASE PatchReport
  BY <1>8 DEF PatchReport
<1>9. CASE ApplyVerdicts
  <2>1. snapshot'.assembled = snapshot.assembled
    <3>1. snapshot \in SnapshotFile /\ snapshot' = [snapshot EXCEPT !.verified = TRUE]
      BY <1>9 DEF ApplyVerdicts, TypeOK
    <3>2. QED
      BY ONLY <3>1 DEF SnapshotFile
  <2>2. QED
    BY <1>9, <2>1 DEF ApplyVerdicts
<1>10. CASE WriteVerdict \/ RecordDisposition \/ Crash
  BY <1>10 DEF WriteVerdict, RecordDisposition, Crash
<1>11. CASE RecordPass
  BY <1>11 DEF RecordPass
<1>12. CASE UNCHANGED vars
  BY <1>12 DEF vars
<1>13. QED
  BY <1>1, <1>2, <1>3, <1>4, <1>5, <1>6, <1>7, <1>8, <1>9, <1>10, <1>11, <1>12
  DEF Next, Step, Finalization

\* The support that a finalized run claims is that of its passes, also when
\* the last of them was recorded while the driver ran.
THEOREM SupportCorrect == Spec => []SupportProven
<1>1. Init => SupportInv
  BY DEF Init, SupportInv
<1>2. TypeOK /\ SupportInv /\ [Next]_vars => SupportInv'
  BY SupportInductive
<1>3. SupportInv => SupportProven
  BY DEF SupportInv, SupportProven, Done
<1>4. QED
  BY <1>1, <1>2, <1>3, IntegrationTypeCorrect, PTL DEF Spec

-----------------------------------------------------------------------------
\* Evidence, if nobody verifies or triages between the renderer's check and
\* its write of the snapshot.

NoEvidenceWhileWriting == EvidenceAt \cap {"report", "snapshot"} = {}

\* The renderer replaces a snapshot only in a retry that has archived it,
\* and which found it degraded and pristine.
EvidenceInv ==
    /\ pc \in {"report", "snapshot"} =>
         snapshot.id = 0 \/ (retrying /\ snapshot.degraded /\ ~Enriched)
    /\ /\ retrying
       /\ pc \in {"build", "dispatch", "reduce", "install", "telemetry", "meter",
                  "union", "unionMeter", "validate", "render", "report", "snapshot"}
       => snapshot.id = 0 \/ snapshot.id \in archive

\* Every step keeps a writing renderer on a pristine snapshot.
LEMMA EvidenceInductive ==
  ASSUME NoEvidenceWhileWriting, TypeOK, EvidenceInv, [Next]_vars
  PROVE  EvidenceInv'
<1> USE DEF EvidenceInv, Enriched, Verified
<1>0. snapshot \in SnapshotFile
  BY DEF TypeOK, ReportFile, SnapshotFile
<1>1. CASE Integrate \/ Resume \/ Refinalize
  BY <1>1 DEF Integrate, Resume, Refinalize
<1>2. CASE Retry
  BY <1>2 DEF Retry
<1>3. CASE Build \/ Dispatch \/ Validate
  BY <1>3 DEF Build, Validate, Dispatch, SkipDispatch, NoRunner, QualifiedRunner,
     Reduced, AttemptAgain, GiveUp, Install, KeepTelemetry, Meter, Union, MeterUnion
<1>4. CASE Render
  <2>1. snapshot.id = 0 \/ (retrying /\ snapshot.degraded /\ ~Enriched)
    BY <1>4 DEF Render, NeedsRender, MayRender
  <2>2. UNCHANGED <<snapshot, dispositions, verification, retrying, archive>>
    BY <1>4 DEF Render
  <2>3. pc = "render" /\ pc' = "report"
    BY <1>4 DEF Render
  <2>4. QED
    BY <2>1, <2>2, <2>3
<1>5. CASE SkipRender \/ RenderRefuses \/ WriteReport \/ WriteRegistry
  BY <1>5 DEF SkipRender, RenderRefuses, WriteReport, WriteRegistry
<1>6. CASE WriteSnapshot
  BY <1>6 DEF WriteSnapshot
<1>7. CASE Finalize
  BY <1>7, FinalizeKeeps DEF Finalize
<1>8. CASE Aggregate \/ WriteUsage \/ Gate \/ Supersede \/ AppendLine
           \/ OpenSkeleton \/ WriteSkeleton
  BY <1>8 DEF Aggregate, WriteUsage, Gate, Supersede, AppendLine, OpenSkeleton,
     WriteSkeleton
<1>9. CASE PatchReport
  BY <1>9 DEF PatchReport
<1>10. CASE ApplyVerdicts
  BY <1>0, <1>10 DEF ApplyVerdicts
<1>11. CASE WriteVerdict \/ RecordDisposition
  BY <1>11 DEF WriteVerdict, RecordDisposition, NoEvidenceWhileWriting
<1>12. CASE RecordPass \/ Crash
  BY <1>12 DEF RecordPass, Crash
<1>13. CASE UNCHANGED vars
  BY <1>13 DEF vars
<1>14. QED
  BY <1>1, <1>2, <1>3, <1>4, <1>5, <1>6, <1>7, <1>8, <1>9, <1>10, <1>11, <1>12, <1>13
  DEF Next, Step, Rendering, Finalization

\* The renderer is the only one that gives a report or a snapshot another
\* identity.
LEMMA OnlyRendererReplaces ==
  ASSUME TypeOK, [Next]_vars, snapshot'.id # snapshot.id \/ report'.id # report.id
  PROVE  pc \in {"report", "snapshot"}
<1>0. /\ report \in ReportFile
      /\ snapshot \in SnapshotFile
  BY DEF TypeOK, ReportFile, SnapshotFile
<1>1. CASE Integrate \/ Resume \/ Refinalize \/ Retry
  BY <1>1 DEF Integrate, Resume, Refinalize, Retry
<1>2. CASE Build \/ Dispatch \/ Validate
  BY <1>2 DEF Build, Validate, Dispatch, SkipDispatch, NoRunner, QualifiedRunner,
     Reduced, AttemptAgain, GiveUp, Install, KeepTelemetry, Meter, Union, MeterUnion
<1>3. CASE SkipRender \/ Render \/ RenderRefuses \/ WriteReport \/ WriteSnapshot
           \/ WriteRegistry
  BY <1>3 DEF SkipRender, Render, RenderRefuses, WriteReport, WriteSnapshot,
     WriteRegistry
<1>4. CASE Finalize
  BY <1>4, FinalizeKeeps DEF Finalize
<1>5. CASE Aggregate \/ WriteUsage \/ Gate \/ Supersede \/ AppendLine
           \/ OpenSkeleton \/ WriteSkeleton
  BY <1>5 DEF Aggregate, WriteUsage, Gate, Supersede, AppendLine, OpenSkeleton,
     WriteSkeleton
<1>6. CASE PatchReport
  BY <1>0, <1>6 DEF PatchReport
<1>7. CASE ApplyVerdicts
  BY <1>0, <1>7 DEF ApplyVerdicts
<1>8. CASE WriteVerdict \/ RecordDisposition \/ RecordPass \/ Crash
  BY <1>8 DEF WriteVerdict, RecordDisposition, RecordPass, Crash
<1>9. CASE UNCHANGED vars
  BY <1>9 DEF vars
<1>10. QED
  BY <1>1, <1>2, <1>3, <1>4, <1>5, <1>6, <1>7, <1>8, <1>9
  DEF Next, Step, Rendering, Finalization

\* EvidenceInv holds in every reachable state.
LEMMA EvidenceInvariant ==
  ASSUME NoEvidenceWhileWriting
  PROVE  Spec => []EvidenceInv
<1>1. Init => EvidenceInv
  BY DEF Init, EvidenceInv
<1>2. TypeOK /\ EvidenceInv /\ [Next]_vars => EvidenceInv'
  BY EvidenceInductive
<1>3. QED
  BY <1>1, <1>2, IntegrationTypeCorrect, PTL DEF Spec

\* A snapshot that somebody verified or triaged, and its report, are never
\* replaced.
THEOREM EvidenceCorrect ==
  ASSUME NoEvidenceWhileWriting
  PROVE  Spec => EvidenceKept
<1>1. TypeOK /\ EvidenceInv /\ [Next]_vars
      => [Enriched /\ snapshot.id # 0 =>
            snapshot'.id = snapshot.id /\ report'.id = report.id]_vars
  BY OnlyRendererReplaces DEF EvidenceInv
<1>2. Spec => []EvidenceInv
  BY EvidenceInvariant
<1>3. QED
  BY <1>1, <1>2, IntegrationTypeCorrect, PTL DEF Spec, EvidenceKept

\* A snapshot that is replaced has a copy in retry-history, was degraded
\* and had no verdicts.
THEOREM ReplacementCorrect ==
  ASSUME NoEvidenceWhileWriting
  PROVE  Spec => ReplacedArchived
<1>1. TypeOK /\ EvidenceInv /\ [Next]_vars
      => [snapshot.id # 0 /\ snapshot'.id # snapshot.id =>
            snapshot.id \in archive /\ snapshot.degraded /\ ~snapshot.verified]_vars
  BY OnlyRendererReplaces DEF EvidenceInv, Enriched, Verified
<1>2. Spec => []EvidenceInv
  BY EvidenceInvariant
<1>3. QED
  BY <1>1, <1>2, IntegrationTypeCorrect, PTL DEF Spec, ReplacedArchived

-----------------------------------------------------------------------------
\* Metering, if no driver is killed between decisions and their usage row.

NoUnmeteredKill == CrashAt \cap {"telemetry", "meter", "unionMeter"} = {}

\* The last usage row is that of the valid decisions on disk, and so is the
\* one that the aggregation, and then the index, took.
MeterInv ==
    /\ decisions.valid /\ pc \notin {"telemetry", "meter", "unionMeter"} =>
         usage # <<>> /\ usage[Len(usage)] = decisions.id
    /\ pc \in {"telemetry", "meter"} => mem = decisions
    /\ pc = "meter" => telemetry = decisions.id
    /\ /\ pc \in {"gate", "supersede", "append", "skeleton", "skeletonWrite"}
       /\ decisions.valid
       => usageJson.integrator = decisions.id
    /\ pc \in {"supersede", "append", "skeleton", "skeletonWrite"} => snapshot.id # 0
    /\ exit = "ok" => /\ pc \in {"idle", "patch"} /\ snapshot.id # 0
                      /\ usageJson.integrator = decisions.id

\* Every step keeps the last usage row that of the present decisions, but
\* between these two writes.
LEMMA MeterInductive ==
  ASSUME NoUnmeteredKill, TypeOK, CompleteInv, MeterInv, [Next]_vars
  PROVE  MeterInv'
<1> USE DEF MeterInv
<1>0. /\ usage \in Seq(Nat) /\ telemetry \in Nat
      /\ decisions \in Decisions /\ mem \in Decisions
      /\ snapshot \in SnapshotFile
  BY DEF TypeOK, ReportFile, SnapshotFile
<1>1. CASE Integrate \/ Resume \/ Refinalize \/ Retry
  BY <1>1 DEF Integrate, Resume, Refinalize, Retry
<1>2. CASE Build \/ SkipDispatch \/ NoRunner \/ QualifiedRunner \/ Reduced
           \/ AttemptAgain \/ GiveUp
  BY <1>2 DEF Build, SkipDispatch, NoRunner, QualifiedRunner, Reduced, AttemptAgain,
     GiveUp
<1>3. CASE Install
  BY <1>3 DEF Install
<1>4. CASE KeepTelemetry
  BY <1>4 DEF KeepTelemetry
<1>5. CASE Meter
  BY <1>0, <1>5 DEF Meter
<1>6. CASE Union
  <2>1. decisions'.valid => pc' = "unionMeter"
    BY <1>6 DEF Union
  <2>2. pc = "union" /\ pc' \in {"unionMeter", "idle"} /\ exit' # "ok"
    BY <1>6 DEF Union
  <2>3. QED
    BY <2>1, <2>2
<1>7. CASE MeterUnion
  BY <1>0, <1>7 DEF MeterUnion, Decisions
<1>8. CASE Validate
  BY <1>8 DEF Validate
<1>9. CASE Rendering
  BY <1>9 DEF Rendering, SkipRender, Render, RenderRefuses, WriteReport,
     WriteSnapshot, WriteRegistry
<1>10. CASE Finalize \/ Aggregate
  BY <1>10, FinalizeKeeps DEF Finalize, Aggregate
<1>11. CASE WriteUsage
  BY <1>11 DEF WriteUsage, UsageOf
<1>12. CASE Gate
  BY <1>12 DEF Gate, RunComplete
<1>13. CASE Supersede \/ AppendLine
  BY <1>13 DEF Supersede, AppendLine
<1>14. CASE OpenSkeleton \/ WriteSkeleton
  BY <1>14 DEF OpenSkeleton, WriteSkeleton, CompleteInv
<1>15. CASE PatchReport
  BY <1>15 DEF PatchReport
<1>16. CASE ApplyVerdicts
  BY <1>0, <1>16 DEF ApplyVerdicts
<1>17. CASE WriteVerdict \/ RecordDisposition \/ RecordPass
  BY <1>17 DEF WriteVerdict, RecordDisposition, RecordPass
<1>18. CASE Crash
  BY <1>18 DEF Crash, NoUnmeteredKill
<1>19. CASE UNCHANGED vars
  BY <1>19 DEF vars
<1>20. QED
  BY <1>1, <1>2, <1>3, <1>4, <1>5, <1>6, <1>7, <1>8, <1>9, <1>10, <1>11, <1>12,
     <1>13, <1>14, <1>15, <1>16, <1>17, <1>18, <1>19
  DEF Next, Step, Dispatch, Finalization

\* The index charges a finalized run for the dispatch that its decisions
\* came from.
THEOREM MeterCorrect ==
  ASSUME NoUnmeteredKill
  PROVE  Spec => []Metered
<1>1. Init => MeterInv
  BY DEF Init, MeterInv, NoDecisions
<1>2. TypeOK /\ CompleteInv /\ MeterInv /\ [Next]_vars => MeterInv'
  BY MeterInductive
<1>3. MeterInv => Metered
  BY DEF MeterInv, Metered, Done
<1>4. QED
  BY <1>1, <1>2, <1>3, IntegrationTypeCorrect, CompleteInvariant, PTL DEF Spec

-----------------------------------------------------------------------------
\* Coherence, if no driver is killed between decisions and snapshot, and
\* others act only while no driver runs.

RenderWindow == {"telemetry", "meter", "unionMeter", "validate", "render", "report",
                 "snapshot", "registry"}
NoKillInWindow == CrashAt \cap RenderWindow = {}
OthersWait == EvidenceAt \subseteq {"idle"}

Rendered == report.id = decisions.id /\ snapshot.id = decisions.id

\* Outside the window a snapshot and its report are of the decisions beside
\* them; inside, they are, or the driver is a retry whose snapshot is as
\* pristine as it found it, so that the renderer will not refuse.
CoherentInv ==
    /\ snapshot.id # 0 /\ pc \notin RenderWindow => Rendered
    /\ /\ snapshot.id # 0
       /\ pc \in {"telemetry", "meter", "unionMeter", "validate", "render"}
       => retrying \/ Rendered
    /\ /\ retrying
       /\ pc \in {"build", "dispatch", "reduce", "install", "telemetry", "meter",
                  "union", "unionMeter", "validate", "render"}
       => MayRender
    /\ pc = "snapshot" => report.id = decisions.id
    /\ pc = "registry" => Rendered
    /\ pc \in {"supersede", "append", "skeleton", "skeletonWrite"} => snapshot.id # 0
    /\ exit = "ok" => pc \in {"idle", "patch"} /\ snapshot.id # 0

\* Every step keeps decisions, report and snapshot in the driver's order.
LEMMA CoherentInductive ==
  ASSUME NoKillInWindow, OthersWait, TypeOK, CompleteInv, CoherentInv, [Next]_vars
  PROVE  CoherentInv'
<1> USE DEF CoherentInv, RenderWindow, Rendered, MayRender, Enriched, Verified
<1>0. /\ report \in ReportFile
      /\ snapshot \in SnapshotFile
  BY DEF TypeOK, ReportFile, SnapshotFile
<1>1. CASE Integrate \/ Resume \/ Refinalize
  BY <1>1 DEF Integrate, Resume, Refinalize
<1>2. CASE Retry
  BY <1>2 DEF Retry, MayRetry
<1>3. CASE Build
  BY <1>3 DEF Build
<1>4. CASE SkipDispatch \/ NoRunner \/ QualifiedRunner
  BY <1>4 DEF SkipDispatch, NoRunner, QualifiedRunner
<1>5. CASE Reduced \/ AttemptAgain \/ GiveUp
  BY <1>5 DEF Reduced, AttemptAgain, GiveUp
<1>6. CASE Install
  BY <1>6 DEF Install, CompleteInv
<1>7. CASE Union
  BY <1>7 DEF Union, DeterministicUnion, CompleteInv
<1>8. CASE KeepTelemetry \/ Meter \/ MeterUnion
  BY <1>8 DEF KeepTelemetry, Meter, MeterUnion
<1>9. CASE Validate
  BY <1>9 DEF Validate, CompleteInv
<1>10. CASE SkipRender \/ Render \/ RenderRefuses
  BY <1>10 DEF SkipRender, Render, RenderRefuses, NeedsRender
<1>11. CASE WriteReport
  BY <1>11 DEF WriteReport, CompleteInv
<1>12. CASE WriteSnapshot
  BY <1>12 DEF WriteSnapshot, CompleteInv
<1>13. CASE WriteRegistry
  BY <1>13 DEF WriteRegistry
<1>14. CASE Finalize
  BY <1>14, FinalizeKeeps DEF Finalize
<1>15. CASE Aggregate \/ WriteUsage \/ Supersede \/ AppendLine
  BY <1>15 DEF Aggregate, WriteUsage, Supersede, AppendLine
<1>16. CASE Gate
  BY <1>16 DEF Gate, RunComplete
<1>17. CASE OpenSkeleton \/ WriteSkeleton
  BY <1>17 DEF OpenSkeleton, WriteSkeleton
<1>18. CASE PatchReport
  BY <1>0, <1>18 DEF PatchReport
<1>19. CASE ApplyVerdicts
  BY <1>0, <1>19 DEF ApplyVerdicts
<1>20. CASE WriteVerdict \/ RecordDisposition
  BY <1>20 DEF WriteVerdict, RecordDisposition, OthersWait
<1>21. CASE RecordPass
  BY <1>21 DEF RecordPass
<1>22. CASE Crash
  BY <1>22 DEF Crash, NoKillInWindow
<1>23. CASE UNCHANGED vars
  BY <1>23 DEF vars
<1>24. QED
  BY <1>1, <1>2, <1>3, <1>4, <1>5, <1>6, <1>7, <1>8, <1>9, <1>10, <1>11, <1>12,
     <1>13, <1>14, <1>15, <1>16, <1>17, <1>18, <1>19, <1>20, <1>21, <1>22, <1>23
  DEF Next, Step, Dispatch, Rendering, Finalization

\* CoherentInv holds in every reachable state.
LEMMA CoherentInvariant ==
  ASSUME NoKillInWindow, OthersWait
  PROVE  Spec => []CoherentInv
<1>1. Init => CoherentInv
  BY DEF Init, CoherentInv, NoSnapshot
<1>2. TypeOK /\ CompleteInv /\ CoherentInv /\ [Next]_vars => CoherentInv'
  BY CoherentInductive
<1>3. QED
  BY <1>1, <1>2, IntegrationTypeCorrect, CompleteInvariant, PTL DEF Spec

\* Report, snapshot and decisions of a finalized run are one result.
THEOREM CoherentCorrect ==
  ASSUME NoKillInWindow, OthersWait
  PROVE  Spec => []Coherent
<1>1. CoherentInv => Coherent
  BY DEF CoherentInv, Coherent, Done, RenderWindow, Rendered
<1>2. Spec => []CoherentInv
  BY CoherentInvariant
<1>3. QED
  BY <1>1, <1>2, PTL

\* The decisions behind verified or triaged findings are never replaced.
THEOREM ImmutableCorrect ==
  ASSUME NoKillInWindow, OthersWait
  PROVE  Spec => EnrichedImmutable
<1>1. TypeOK /\ CompleteInv /\ CoherentInv /\ [Next]_vars
      => [Enriched /\ snapshot.id # 0 => decisions'.id = decisions.id]_vars
  <2> SUFFICES ASSUME TypeOK, CompleteInv, CoherentInv, [Next]_vars,
                      decisions'.id # decisions.id, snapshot.id # 0
               PROVE  ~Enriched
    OBVIOUS
  <2>1. CASE Install \/ Union
    BY <2>1 DEF Install, Union, CompleteInv, CoherentInv, MayRender
  <2>2. UNCHANGED decisions \/ Install \/ Union
    BY DEF Next, Step, Dispatch, Rendering, Finalization, Integrate, Resume,
       Refinalize, Retry, Build, Validate, SkipDispatch, NoRunner, QualifiedRunner,
       Reduced, AttemptAgain, GiveUp, KeepTelemetry, Meter, MeterUnion, SkipRender,
       Render, RenderRefuses, WriteReport, WriteSnapshot, WriteRegistry, Finalize,
       Aggregate, WriteUsage, Gate, Supersede, AppendLine, OpenSkeleton,
       WriteSkeleton, PatchReport, ApplyVerdicts, WriteVerdict, RecordDisposition,
       RecordPass, Crash, vars
  <2>3. QED
    BY <2>1, <2>2
<1>2. Spec => []CoherentInv
  BY CoherentInvariant
<1>3. QED
  BY <1>1, <1>2, IntegrationTypeCorrect, CompleteInvariant, PTL
  DEF Spec, EnrichedImmutable

-----------------------------------------------------------------------------
\* The registry updates, if no driver is killed before it wrote them.

NoKillBeforeRegistry == "registry" \notin CrashAt

\* They are those of the snapshot, but between the two writes.
RegistryInv ==
    /\ pc # "registry" => registry = snapshot.id
    /\ pc = "registry" => mem.id = snapshot.id

\* Every step keeps them those of the snapshot.
LEMMA RegistryInductive ==
  ASSUME NoKillBeforeRegistry, TypeOK, RegistryInv, [Next]_vars
  PROVE  RegistryInv'
<1> USE DEF RegistryInv
<1>1. CASE Integrate \/ Resume \/ Refinalize \/ Retry
  BY <1>1 DEF Integrate, Resume, Refinalize, Retry, Start, disk
<1>2. CASE Build \/ Dispatch \/ Validate
  BY <1>2 DEF Build, Validate, Dispatch, SkipDispatch, NoRunner, QualifiedRunner,
     Reduced, AttemptAgain, GiveUp, Install, KeepTelemetry, Meter, Union, MeterUnion,
     Goto, Stop, disk
<1>3. CASE SkipRender \/ Render \/ RenderRefuses \/ WriteReport
  BY <1>3 DEF SkipRender, Render, RenderRefuses, WriteReport, Goto, Stop, disk
<1>4. CASE WriteSnapshot
  BY <1>4 DEF WriteSnapshot, Goto
<1>5. CASE WriteRegistry
  BY <1>5 DEF WriteRegistry, Goto
<1>6. CASE Finalize
  <2>1. snapshot'.id = snapshot.id
    BY <1>6, FinalizeKeeps
  <2>2. QED
    BY <1>6, <2>1 DEF Finalize, Goto, Stop
<1>7. CASE Aggregate \/ WriteUsage \/ Gate \/ Supersede \/ AppendLine
           \/ OpenSkeleton \/ WriteSkeleton
  BY <1>7 DEF Aggregate, WriteUsage, Gate, Supersede, AppendLine, OpenSkeleton,
     WriteSkeleton, Goto, Stop, Finished, disk
<1>8. CASE PatchReport
  BY <1>8 DEF PatchReport, Goto
<1>9. CASE ApplyVerdicts
  <2>1. snapshot'.id = snapshot.id
    <3>1. snapshot \in SnapshotFile /\ snapshot' = [snapshot EXCEPT !.verified = TRUE]
      BY <1>9 DEF ApplyVerdicts, TypeOK
    <3>2. QED
      BY ONLY <3>1 DEF SnapshotFile
  <2>2. QED
    BY <1>9, <2>1 DEF ApplyVerdicts, Goto
<1>10. CASE WriteVerdict \/ RecordDisposition \/ RecordPass
  BY <1>10 DEF WriteVerdict, RecordDisposition, RecordPass, disk, process
<1>11. CASE Crash
  BY <1>11 DEF Crash, NoKillBeforeRegistry, disk
<1>12. CASE UNCHANGED vars
  BY <1>12 DEF vars, disk, process
<1>13. QED
  BY <1>1, <1>2, <1>3, <1>4, <1>5, <1>6, <1>7, <1>8, <1>9, <1>10, <1>11, <1>12
  DEF Next, Step, Rendering, Finalization

\* A finalized run has the registry updates of its snapshot, through any
\* number of retries and whatever others do meanwhile.
THEOREM RegistryCorrect ==
  ASSUME NoKillBeforeRegistry
  PROVE  Spec => []RegistryWritten
<1>1. Init => RegistryInv
  BY DEF Init, RegistryInv, NoSnapshot
<1>2. TypeOK /\ RegistryInv /\ [Next]_vars => RegistryInv'
  BY RegistryInductive
<1>3. RegistryInv => RegistryWritten
  BY DEF RegistryInv, RegistryWritten, Done
<1>4. QED
  BY <1>1, <1>2, <1>3, IntegrationTypeCorrect, PTL DEF Spec
=============================================================================
