---------------------------- MODULE Integration ----------------------------
(***************************************************************************)
\* The integration of one Angel run: integrate-run.sh, the programs it
\* calls, and the people and agents who act on the same run directory.
\* 
\* One driver at a time walks from the workset to the line in usage.log;
\* it can stop anywhere, and the next one goes on from the files it finds.
\* An action is one durable write, or one check, of one program.
\* 
\* A file that is rendered from decisions is described by the identity of
\* these decisions (id); id 0 means that the file does not exist.
(***************************************************************************)
EXTENDS Naturals, Sequences

CONSTANTS Worksets,     \* the worksets the builder may find in the run's Markdown
          CrashAt,      \* the positions at which a driver may be killed
          EvidenceAt,   \* the positions of the driver at which others act
          MaxCrashes, MaxRetries

Positions == {"idle", "build", "dispatch", "reduce", "install", "telemetry", "meter",
              "union", "unionMeter", "validate", "render", "report", "snapshot",
              "registry", "finalize", "aggregate", "usageJson", "gate", "supersede",
              "append", "skeleton", "skeletonWrite", "patch"}

\* large: above the reducer's token limit.  capped: some candidate exceeds
\* its severity ceiling, or its ceiling could not be parsed.  partial: built
\* while a pass was missing.
WorksetFile == [built : BOOLEAN, large : BOOLEAN, capped : BOOLEAN, partial : BOOLEAN]

\* The last pass of a run with several passes is missing, excused by the
\* stub of a failed dispatch, or recorded.
Passes == {"missing", "excused", "recorded"}

\* The passes that a snapshot's support was assembled from.
Support == {"none", "without", "with"}
SupportOf(p) == IF p = "recorded" THEN "with" ELSE "without"

ASSUME IntegrationAssumption ==
    /\ Worksets \subseteq {w \in WorksetFile : w.built /\ ~w.partial}
    /\ CrashAt \subseteq Positions
    /\ EvidenceAt \subseteq Positions
    /\ MaxCrashes \in Nat
    /\ MaxRetries \in Nat

VARIABLES
    workset,        \* integration-workset.json
    decisions,      \* integration-decisions.json
    telemetry,      \* integration-telemetry.json
    report,         \* report.md
    snapshot,       \* findings-snapshot.json
    registry,       \* registry-updates.json
    archive,        \* the snapshots kept in retry-history/
    usage,          \* the integrator rows of usage.jsonl
    usageJson,      \* usage.json
    log,            \* this run's lines in usage.log
    dispositions,   \* dispositions.json
    verification,   \* does the directory verification/ exist
    passes,         \* the last of the run's passes
    pc,             \* the next step of the driver, "idle" when there is none
    retrying,       \* was it called with --retry-reducer
    attempt,        \* of the unsharded reducer
    mem,            \* the decisions the process at hand has in memory
    exit,           \* what the last driver returned
    issued,         \* decisions produced so far (names the next ones)
    count           \* crashes and retries so far

disk == <<workset, decisions, telemetry, report, snapshot, registry, archive,
          usage, usageJson, log>>
others == <<dispositions, verification, passes>>
process == <<pc, retrying, attempt, mem, exit>>
vars == <<disk, others, process, issued, count>>

NoWorkset == [built |-> FALSE, large |-> FALSE, capped |-> FALSE, partial |-> FALSE]
NoDecisions == [id |-> 0, union |-> FALSE, valid |-> FALSE]
NoReport == [id |-> 0, verified |-> FALSE]
NoSnapshot == [id |-> 0, degraded |-> FALSE, assembled |-> "none", verified |-> FALSE]

\* usage.json says which reducer call and which snapshot it counted; an
\* interrupted write leaves it torn.
NoUsage == [state |-> "absent", integrator |-> 0, snapshot |-> 0]
TornUsage == [state |-> "torn", integrator |-> 0, snapshot |-> 0]

\* The last integrator row counts.
UsageOf(rows, id) ==
    [state |-> "whole", snapshot |-> id,
     integrator |-> IF rows = <<>> THEN 0 ELSE rows[Len(rows)]]

\* Dispositions: "skeleton" has a no-record entry for each finding, "full"
\* is a skeleton in which somebody decided, "sparse" holds decisions only,
\* "torn" is what an interrupted write of the skeleton leaves.
DispositionFiles == {"absent", "torn", "skeleton", "sparse", "full"}
Decided == {"sparse", "full"}

Init ==
    /\ workset = NoWorkset /\ decisions = NoDecisions /\ telemetry = 0
    /\ report = NoReport /\ snapshot = NoSnapshot /\ registry = 0
    /\ archive = {} /\ usage = <<>> /\ usageJson = NoUsage /\ log = <<>>
    /\ dispositions = "absent" /\ verification = FALSE
    /\ passes \in Passes
    /\ pc = "idle" /\ retrying = FALSE /\ attempt = 0 /\ mem = NoDecisions
    /\ exit = "none" /\ issued = 0
    /\ count = [crashes |-> 0, retries |-> 0]

Goto(p) == pc' = p /\ UNCHANGED <<retrying, attempt, mem, exit>>

\* A command of the driver fails, and set -e ends it.
Stop == pc' = "idle" /\ exit' = "error" /\ UNCHANGED <<retrying, attempt, mem>>

-----------------------------------------------------------------------------
\* The driver is started.

Start(p) ==
    /\ pc = "idle"
    /\ pc' = p /\ attempt' = 0 /\ mem' = NoDecisions /\ exit' = "none"
    /\ UNCHANGED <<others, issued>>

Integrate ==
    /\ snapshot.id = 0
    /\ Start("build") /\ retrying' = FALSE
    /\ UNCHANGED <<disk, count>>

Resume ==
    /\ Start("build") /\ retrying' = FALSE
    /\ UNCHANGED <<disk, count>>

\* finalize-run.sh called by hand, after missing artifacts were recorded.
Refinalize ==
    /\ Start("finalize") /\ retrying' = FALSE
    /\ UNCHANGED <<disk, count>>

\* Verdicts have been written or applied, or a disposition recorded.
Verified == verification \/ snapshot.verified
Enriched == Verified \/ dispositions \in Decided

\* A torn dispositions.json does not parse, which refuses as well.
MayRetry ==
    /\ snapshot.id # 0 /\ snapshot.degraded
    /\ ~Enriched /\ dispositions # "torn"

\* Mutant of Retry: nothing is copied to retry-history.
RetryUncopied ==
    /\ count.retries < MaxRetries
    /\ MayRetry
    /\ Start("build") /\ retrying' = TRUE
    /\ count' = [count EXCEPT !.retries = @ + 1]
    /\ UNCHANGED disk

Retry ==
    /\ count.retries < MaxRetries
    /\ MayRetry
    /\ Start("build") /\ retrying' = TRUE
    /\ archive' = archive \cup {snapshot.id}
    /\ count' = [count EXCEPT !.retries = @ + 1]
    /\ UNCHANGED <<workset, decisions, telemetry, report, snapshot, registry,
                   usage, usageJson, log>>

-----------------------------------------------------------------------------
\* Workset and decisions.

Build ==
    /\ pc = "build"
    /\ IF workset.built THEN UNCHANGED workset
       ELSE \E w \in Worksets : workset' = [w EXCEPT !.partial = (passes = "missing")]
    /\ Goto("dispatch")
    /\ UNCHANGED <<decisions, telemetry, report, snapshot, registry, archive, usage,
                   usageJson, log, others, issued, count>>

\* Mutant of NeedsDispatch: a resumed run dispatches again.
AlwaysDispatch == TRUE

NeedsDispatch == decisions.id = 0 \/ retrying

SkipDispatch ==
    /\ pc = "dispatch" /\ ~NeedsDispatch
    /\ Goto("validate")
    /\ UNCHANGED <<disk, others, issued, count>>

NoRunner ==
    /\ pc = "dispatch" /\ NeedsDispatch
    /\ Goto("union")
    /\ UNCHANGED <<disk, others, issued, count>>

QualifiedRunner ==
    /\ pc = "dispatch" /\ NeedsDispatch
    /\ pc' = "reduce" /\ attempt' = 1
    /\ UNCHANGED <<retrying, mem, exit, disk, others, issued, count>>

\* The reducer, or the sharder with all its reducers, returns decisions
\* that pass the validation against the workset.
Reduced ==
    /\ pc = "reduce"
    /\ pc' = "install" /\ issued' = issued + 1
    /\ mem' = [id |-> issued + 1, union |-> FALSE, valid |-> TRUE]
    /\ UNCHANGED <<retrying, attempt, exit, disk, others, count>>

\* It fails, times out or returns invalid decisions: once more, unless it
\* was the sharder, which has retried its own calls.
AttemptAgain ==
    /\ pc = "reduce" /\ attempt = 1 /\ ~workset.large
    /\ attempt' = 2
    /\ UNCHANGED <<pc, retrying, mem, exit, disk, others, issued, count>>

\* The second failure, a failed sharder, or processes that may survive.
GiveUp ==
    /\ pc = "reduce"
    /\ Goto("union")
    /\ UNCHANGED <<disk, others, issued, count>>

Install ==
    /\ pc = "install"
    /\ decisions' = mem
    /\ Goto("telemetry")
    /\ UNCHANGED <<workset, telemetry, report, snapshot, registry, archive, usage,
                   usageJson, log, others, issued, count>>

KeepTelemetry ==
    /\ pc = "telemetry"
    /\ telemetry' = mem.id
    /\ Goto("meter")
    /\ UNCHANGED <<workset, decisions, report, snapshot, registry, archive, usage,
                   usageJson, log, others, issued, count>>

Meter ==
    /\ pc = "meter"
    /\ usage' = Append(usage, telemetry)
    /\ Goto("validate")
    /\ UNCHANGED <<workset, decisions, telemetry, report, snapshot, registry, archive,
                   usageJson, log, others, issued, count>>

\* The union keeps every candidate with its own severity; it is written
\* first and validated afterwards.
DeterministicUnion(w) == [id |-> issued + 1, union |-> TRUE, valid |-> ~w.capped]

Union ==
    /\ pc = "union"
    /\ decisions' = DeterministicUnion(workset)
    /\ issued' = issued + 1
    /\ IF decisions'.valid THEN Goto("unionMeter") ELSE Stop
    /\ UNCHANGED <<workset, telemetry, report, snapshot, registry, archive, usage,
                   usageJson, log, others, count>>

MeterUnion ==
    /\ pc = "unionMeter"
    /\ usage' = Append(usage, decisions.id)
    /\ Goto("validate")
    /\ UNCHANGED <<workset, decisions, telemetry, report, snapshot, registry, archive,
                   usageJson, log, others, issued, count>>

Validate ==
    /\ pc = "validate"
    /\ IF decisions.valid THEN Goto("render") ELSE Stop
    /\ UNCHANGED <<disk, others, issued, count>>

-----------------------------------------------------------------------------
\* Rendering.

NeedsRender == snapshot.id = 0 \/ retrying

SkipRender ==
    /\ pc = "render" /\ ~NeedsRender
    /\ Goto("finalize")
    /\ UNCHANGED <<disk, others, issued, count>>

\* Mutant of MayRender: only the driver's check when the retry began.
MayRenderUnchecked == snapshot.id = 0 \/ snapshot.degraded

\* What the renderer accepts: no snapshot yet, or a pristine degraded one.
MayRender ==
    \/ snapshot.id = 0
    \/ ~Enriched /\ dispositions # "torn" /\ snapshot.degraded

Render ==
    /\ pc = "render" /\ NeedsRender /\ MayRender
    /\ pc' = "report" /\ mem' = decisions
    /\ UNCHANGED <<retrying, attempt, exit, disk, others, issued, count>>

RenderRefuses ==
    /\ pc = "render" /\ NeedsRender /\ ~MayRender
    /\ Stop
    /\ UNCHANGED <<disk, others, issued, count>>

WriteReport ==
    /\ pc = "report"
    /\ report' = [id |-> mem.id, verified |-> FALSE]
    /\ Goto("snapshot")
    /\ UNCHANGED <<workset, decisions, telemetry, snapshot, registry, archive, usage,
                   usageJson, log, others, issued, count>>

WriteSnapshot ==
    /\ pc = "snapshot"
    /\ snapshot' = [id |-> mem.id, degraded |-> mem.union,
                    assembled |-> "none", verified |-> FALSE]
    /\ Goto("registry")
    /\ UNCHANGED <<workset, decisions, telemetry, report, registry, archive, usage,
                   usageJson, log, others, issued, count>>

\* The personas include one that feeds the registry.
WriteRegistry ==
    /\ pc = "registry"
    /\ registry' = mem.id
    /\ Goto("finalize")
    /\ UNCHANGED <<workset, decisions, telemetry, report, snapshot, archive, usage,
                   usageJson, log, others, issued, count>>

-----------------------------------------------------------------------------
\* finalize-run.sh.

\* The decisions are validated once more if there is a snapshot, into which
\* the support of the passes is then assembled.
Finalize ==
    /\ pc = "finalize"
    /\ IF snapshot.id = 0 THEN UNCHANGED snapshot /\ Goto("aggregate")
       ELSE IF ~decisions.valid THEN UNCHANGED snapshot /\ Stop
       ELSE snapshot' = [snapshot EXCEPT !.assembled = SupportOf(passes)]
            /\ Goto("aggregate")
    /\ UNCHANGED <<workset, decisions, telemetry, report, registry, archive, usage,
                   usageJson, log, others, issued, count>>

\* usage.json is opened for writing, which truncates it, and written.
Aggregate ==
    /\ pc = "aggregate"
    /\ usageJson' = TornUsage
    /\ Goto("usageJson")
    /\ UNCHANGED <<workset, decisions, telemetry, report, snapshot, registry, archive,
                   usage, log, others, issued, count>>

WriteUsage ==
    /\ pc = "usageJson"
    /\ usageJson' = UsageOf(usage, snapshot.id)
    /\ Goto("gate")
    /\ UNCHANGED <<workset, decisions, telemetry, report, snapshot, registry, archive,
                   usage, log, others, issued, count>>

\* Mutant of RunComplete: the support is not compared with the passes.
RunCompleteUnproven ==
    /\ snapshot.id # 0 /\ report.id # 0 /\ usageJson # NoUsage
    /\ workset.built /\ decisions.id # 0
    /\ passes # "missing"

\* Mutant of RunComplete: missing passes are not noticed.
RunCompleteWithoutPasses ==
    /\ snapshot.id # 0 /\ report.id # 0 /\ usageJson # NoUsage
    /\ workset.built /\ decisions.id # 0

\* Mutant of RunComplete: the gate asks for the line that follows it.
RunCompleteInIndex ==
    /\ snapshot.id # 0 /\ report.id # 0 /\ usageJson # NoUsage
    /\ passes # "missing" /\ log # <<>>

\* check-run-complete.py --pre-append: everything is there, and the support
\* in the snapshot is what the passes give once more.
RunComplete ==
    /\ snapshot.id # 0 /\ report.id # 0 /\ usageJson # NoUsage
    /\ workset.built /\ decisions.id # 0
    /\ passes # "missing" /\ snapshot.assembled = SupportOf(passes)

Gate ==
    /\ pc = "gate"
    /\ IF RunComplete THEN Goto("supersede") ELSE Stop
    /\ UNCHANGED <<disk, others, issued, count>>

\* Mutant of Supersede: the earlier line stays.
SupersedeNothing ==
    /\ pc = "supersede"
    /\ Goto("append")
    /\ UNCHANGED <<disk, others, issued, count>>

\* Mutant of Supersede: a run that has a line gets no other.
SupersedeFirst ==
    /\ pc = "supersede"
    /\ Goto(IF log = <<>> THEN "append" ELSE "skeleton")
    /\ UNCHANGED <<disk, others, issued, count>>

\* The lines of this run are filtered out of the log, and one is appended.
Supersede ==
    /\ pc = "supersede"
    /\ log' = <<>>
    /\ Goto("append")
    /\ UNCHANGED <<workset, decisions, telemetry, report, snapshot, registry, archive,
                   usage, usageJson, others, issued, count>>

AppendLine ==
    /\ pc = "append"
    /\ log' = Append(log, usageJson)
    /\ Goto("skeleton")
    /\ UNCHANGED <<workset, decisions, telemetry, report, snapshot, registry, archive,
                   usage, usageJson, others, issued, count>>

Finished == pc' = "idle" /\ exit' = "ok" /\ UNCHANGED <<retrying, attempt, mem>>

\* An existing dispositions.json is left as it is.
OpenSkeleton ==
    /\ pc = "skeleton"
    /\ IF dispositions = "absent"
       THEN dispositions' = "torn" /\ Goto("skeletonWrite")
       ELSE UNCHANGED dispositions /\ Finished
    /\ UNCHANGED <<disk, verification, passes, issued, count>>

WriteSkeleton ==
    /\ pc = "skeletonWrite"
    /\ dispositions' = "skeleton"
    /\ Finished
    /\ UNCHANGED <<disk, verification, passes, issued, count>>

-----------------------------------------------------------------------------
\* Others.

\* Mutant of ApplyVerdicts: the report first.
ApplyToReport ==
    /\ pc = "idle" /\ verification /\ snapshot.id # 0
    /\ report' = [report EXCEPT !.verified = TRUE]
    /\ Goto("patch")
    /\ UNCHANGED <<workset, decisions, telemetry, snapshot, registry, archive, usage,
                   usageJson, log, others, issued, count>>

\* apply-verification.py: the snapshot first, then the report.
ApplyVerdicts ==
    /\ pc = "idle" /\ verification /\ snapshot.id # 0
    /\ snapshot' = [snapshot EXCEPT !.verified = TRUE]
    /\ Goto("patch")
    /\ UNCHANGED <<workset, decisions, telemetry, report, registry, archive, usage,
                   usageJson, log, others, issued, count>>

PatchReport ==
    /\ pc = "patch"
    /\ report' = IF report.id = 0 THEN report ELSE [report EXCEPT !.verified = TRUE]
    /\ Goto("idle")
    /\ UNCHANGED <<workset, decisions, telemetry, snapshot, registry, archive, usage,
                   usageJson, log, others, issued, count>>

\* A verifier's verdict is written to verification/.
WriteVerdict ==
    /\ pc \in EvidenceAt
    /\ snapshot.id # 0
    /\ verification' = TRUE
    /\ UNCHANGED <<disk, dispositions, passes, process, issued, count>>

\* record-disposition.py: what does not parse is replaced.
RecordDisposition ==
    /\ pc \in EvidenceAt
    /\ report.id # 0
    /\ dispositions' = IF dispositions \in {"skeleton", "full"} THEN "full" ELSE "sparse"
    /\ UNCHANGED <<disk, verification, passes, process, issued, count>>

\* The missing pass is recorded after all, or as failed.
RecordPass ==
    /\ passes = "missing"
    /\ passes' \in {"excused", "recorded"}
    /\ UNCHANGED <<disk, dispositions, verification, process, issued, count>>

\* The process is killed, or one of its commands fails.
Crash ==
    /\ pc # "idle" /\ pc \in CrashAt
    /\ count.crashes < MaxCrashes
    /\ pc' = "idle" /\ exit' = "killed"
    /\ count' = [count EXCEPT !.crashes = @ + 1]
    /\ UNCHANGED <<retrying, attempt, mem, disk, others, issued>>

-----------------------------------------------------------------------------

Dispatch == SkipDispatch \/ NoRunner \/ QualifiedRunner \/ Reduced \/ AttemptAgain
            \/ GiveUp \/ Install \/ KeepTelemetry \/ Meter \/ Union \/ MeterUnion

Rendering == SkipRender \/ Render \/ RenderRefuses \/ WriteReport \/ WriteSnapshot
             \/ WriteRegistry

Finalization == Finalize \/ Aggregate \/ WriteUsage \/ Gate
                \/ Supersede \/ AppendLine \/ OpenSkeleton \/ WriteSkeleton

Step == Build \/ Dispatch \/ Validate \/ Rendering \/ Finalization \/ PatchReport

Next == \/ Integrate \/ Resume \/ Refinalize \/ Retry
        \/ Step
        \/ ApplyVerdicts \/ WriteVerdict \/ RecordDisposition \/ RecordPass
        \/ Crash

Spec == Init /\ [][Next]_vars

\* A running driver goes on.  Whoever works on a run whose driver did not
\* return with success resumes it sooner or later (strong fairness: in between
\* they may do other things to the run), by what the driver returned and not
\* by what resume-run.sh says of the files (which calls a run complete as soon
\* as there is a usage.json), and records the missing pass.
Unfinished == exit # "ok" /\ Resume

FairSpec == Spec /\ WF_vars(Step) /\ SF_vars(Unfinished) /\ WF_vars(RecordPass)
=============================================================================
