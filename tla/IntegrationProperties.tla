----------------------- MODULE IntegrationProperties -----------------------
(***************************************************************************)
\* What integrate-run.sh and finalize-run.sh promise of a run directory.
(***************************************************************************)
EXTENDS Integration

Decisions == [id : Nat, union : BOOLEAN, valid : BOOLEAN]
ReportFile == [id : Nat, verified : BOOLEAN]
SnapshotFile == [id : Nat, degraded : BOOLEAN, assembled : Support, verified : BOOLEAN]
UsageFile == [state : {"absent", "torn", "whole"}, integrator : Nat, snapshot : Nat]

\* Every variable holds a value of its kind.
TypeOK ==
    /\ workset \in WorksetFile
    /\ decisions \in Decisions
    /\ telemetry \in Nat
    /\ report \in ReportFile
    /\ snapshot \in SnapshotFile
    /\ registry \in Nat
    /\ archive \subseteq Nat
    /\ usage \in Seq(Nat)
    /\ usageJson \in UsageFile
    /\ log \in Seq(UsageFile)
    /\ dispositions \in DispositionFiles
    /\ verification \in BOOLEAN
    /\ passes \in Passes
    /\ pc \in Positions
    /\ retrying \in BOOLEAN
    /\ attempt \in 0..2
    /\ mem \in Decisions
    /\ exit \in {"none", "ok", "error", "killed"}
    /\ issued \in Nat
    /\ count \in [crashes : Nat, retries : Nat]

\* The driver has returned with success.
Done == pc = "idle" /\ exit = "ok"

\* Report and snapshot of a run that was finalized are renderings of the
\* decisions beside them: the driver, the reader of the report and
\* assemble-wpr.py all take the three for one result.
Coherent == Done => report.id = decisions.id /\ snapshot.id = decisions.id

\* What the index says of a finalized run is what its directory says: one
\* line, which counts the findings of the present snapshot.
Indexed ==
    /\ Len(log) <= 1
    /\ Done => log = <<usageJson>> /\ usageJson.snapshot = snapshot.id

\* No line is in the index for a run that lacks a pass, its report or its
\* snapshot: finalize-run.sh appends only after the gate.
IndexedWhenComplete ==
    log # <<>> => passes # "missing" /\ report.id # 0 /\ snapshot.id # 0 /\ decisions.valid

\* The decisions of a finalized run are the ones the index charges for: the
\* last row that aggregate-usage.py found is the row of their dispatch.
Metered == Done => usageJson.integrator = decisions.id

\* The support that a finalized run's findings claim is that of the passes on
\* disk, whenever the last of them was recorded.
SupportProven == Done => snapshot.assembled = SupportOf(passes)

\* The registry's part of the rendering is not lost.
RegistryWritten == Done => registry = snapshot.id

\* Once somebody verified or triaged the findings of a snapshot, no retry
\* replaces that snapshot or its report.
EvidenceKept ==
    [][Enriched /\ snapshot.id # 0 =>
         snapshot'.id = snapshot.id /\ report'.id = report.id]_vars

\* Nor does it replace the decisions that these findings came from.
EnrichedImmutable ==
    [][Enriched /\ snapshot.id # 0 => decisions'.id = decisions.id]_vars

\* A snapshot is only ever replaced when a copy of it is in retry-history,
\* it was degraded, and none of its findings were verified.
ReplacedArchived ==
    [][snapshot.id # 0 /\ snapshot'.id # snapshot.id =>
         snapshot.id \in archive /\ snapshot.degraded /\ ~snapshot.verified]_vars

\* A report with a verification section has a snapshot with the verdicts:
\* apply-verification.py patches the snapshot first, and a retry of what is
\* verified is refused.
VerdictsShownAreRecorded == report.verified => snapshot.verified

\* An integration that was begun, and is resumed whenever it ended early,
\* is finalized.
Finishes == pc # "idle" ~> Done
=============================================================================
