# PropterMaltwo in TLA+

PropterMaltwo distributes one set of assistant assets (skills, hooks, agent
instructions, configuration) to several hosts: Claude Code, Codex, Polytoken
and Copilot.  This directory holds TLA+ models of its programs, the TLC
configurations that check them and the TLAPS proofs about them.  Paths below
are relative to the repository.

## The system

| Part | State it keeps | Operations | What is hard |
|---|---|---|---|
| Installer: `scripts/proptermaltwo_installer.py`, `install.sh`, `manifests/hosts-v1.json` | destinations in the hosts' homes, `state/ledger-v1.json`, `state/journal-v1.json`, `recovery-v1/<txid>`, `backups-v1`, visible backups, a lock file | apply, uninstall, recover, doctor, dry runs | kills and exceptions between any two writes, recovery of a recovery, files the user owns or edits, hosts that share assets |
| Angel run records: `skills/angel/scripts/init-run.sh`, `record-dispatch.sh`, `dispatch-leg.sh`, `record-disposition.py`, `apply-verification.py` | the files of a run directory: `usage.jsonl`, `passes/`, `findings/`, `verification/`, `dispositions.json` | record a leg, record a failed leg, record a verdict or a disposition | concurrent legs, late or repeated legs, appends before checks |
| Angel integration: `integrate-run.sh`, `build-integration-workset.py`, `dispatch-integration.sh`, `validate-integration-decisions.py`, `render-integration.py` | workset, decisions, telemetry, report, snapshot, `PROGRESS` | build, dispatch with two attempts or a degraded union, validate, render; `--resume`, `--retry-reducer`, `--clone-retry` | kills between artifacts, resumption from a mixture of old and new artifacts, two integrations of one run |
| Angel finalization: `finalize-run.sh`, `assemble-wpr.py`, `aggregate-usage.py`, `check-run-complete.py`, `append-usage-log.sh` | `usage.json`, the shared `usage.log` | assemble, aggregate, gate, append with supersede | the log is shared by all runs; an append must happen once and after the gate |
| Angel reducer: `dispatch-integration.sh`, `run-reducer-sandbox.py`, `shard-integration.py` | a child process group, exit codes, the directory of the attempt; shard worksets | qualify, spawn, wait, time out, kill, judge, install; shard, reduce, expand | signals around the spawn and in the cleanup, wrappers that outlive their dispatcher, every candidate accounted for exactly once |
| Session hooks: `hooks/auto-kickoff.sh`, `session-end-snapshot.sh`, `stop-failure-throttle.sh`, `ctx-nudge.sh` | sentinels, start snapshots, caches in `/tmp`, calibration log | one run per event | sessions run side by side and share the caches |
| Tool guards: `hooks/gh-identity-guard.py`, `gh-commit-author-guard.py`, `block-*.py`, `sanitize-permission-allowlist.py`, `post-edit-*.py`; `adapters/shared/host-hook-bridge.py` | none of their own; they read repositories, identity map and gh login | one decision per tool call | the decision is made before the command runs, on what it will have changed by then; guards fail |
| Admission: `scripts/codex_admission.py`, `polytoken_admission.py`, `tests/polytoken_release_gate.py` | sentinel files, evidence files, the activation index | probe a host, judge its trace, write evidence, merge it into the index | agents that do something else, hooks that are trusted or changed meanwhile, leftovers of a killed run |
| ADR sweep: `scripts/adr-sweep.py`, `adr-falsifier-sweep.sh` | two lines in the frontmatter of each decision record, a log | run the records' falsifiers, follow their references, write or remove the lines, open tasks | people and git edit the same files meanwhile; commands break; kills between and during the writes; nothing else remembers what was announced |
| Analytics (`mine-runs.py`, `true-cost.py`, ...), skills, templates, documents | none | - | offline statistics and text |

The parts are separate programs.  The installer places the others' files; the
hooks are run by a host, through the bridge where the host is not Claude Code;
an Angel run is driven by an assistant that calls the scripts one after the
other, and by scripts that call each other (`integrate-run.sh` runs the
builder, the dispatcher, the validator, the renderer and `finalize-run.sh`).
They meet only in files.  What makes each correct:

* Installer: a command happens completely or not at all, whatever is killed;
  users never lose what they wrote; the ledger tells the truth; no journal is
  unresolvable.
* Run records: what a leg delivered is never replaced by a stub; every dispatch
  is counted once.
* Integration: the finalized snapshot, report and decisions belong together;
  every reducer call is accounted for; enriched runs are never rewritten.
* Finalization: one line per run in the log, the last one's, and none for an
  incomplete run; no other run's line is lost.
* Reducer: no process group survives unnoticed beside the next attempt; what is
  installed comes from one proper turn; candidates are conserved.
* Session hooks: one kickoff per session; deltas from the right session's
  snapshot.
* Guards and bridge: what leaves a repository leaves under its identity, as far
  as a guard that reads the text alone can see it.
* Admission: a host is admitted only if its hooks were seen to act.
* ADR sweep: what is on a record was observed; a standing problem is announced
  once; what a person has judged, and what could not be evaluated, is left alone.

`PROJECT.json` lists the hazards at their lines, covered or not.

| Module | Models | Read it with |
|---|---|---|
| `InstallerData`, `Installer`, `AtomicInstall`, `InstallerProperties`, `InstallerProofs`, `MCInstaller` | the installer, and the atomic commands it implements | "The installer" |
| `Integration`, `IntegrationProperties`, `IntegrationProofs`, `MCIntegration` | one run directory from workset to index | "The integration of an Angel run" |
| `Reducer`, `ReducerProperties`, `ReducerProofs`, `MCReducer` | the processes of one reducer dispatch | "The dispatch of the reducer" |
| `DecisionRules`, `Reduction`, `Sharding`, `ShardingProofs`, `MCSharding` | what decisions are valid, the reduction in one step, the sharded reduction | "The sharded reduction" |
| `RunRecord`, `RunRecordProperties`, `RunRecordProofs`, `MCRecords` | the legs of a run and what is kept of them | "The records of a run" |
| `UsageLog`, `UsageLogProofs`, `MCUsageLog` | the index that all runs share | "The index of all runs" |
| `IdentityGuard`, `HookedHost`, `HookedHostProperties`, `Admission`, `AdmissionProperties`, `AdmissionProofs`, `MCHooks` | the guards' decision, a host and its shell, the admission of a host | "Guarded hosts and their admission" |
| `AdrSweep`, `AdrSweepProperties`, `AdrSweepProofs`, `MCAdrSweep` | the sweep over the decision records, people and kills | "The sweep over the decision records" |

## The installer

### Modules

| Module | Contents |
|---|---|
| `InstallerData` | Pure: destinations' contents, ledger records, the resolution of the manifest's operations (`build_operations`, `resolve_operation`, `stage_operation`), the refusals (`mutation_needed`) and the records (`operation_record`) |
| `AtomicInstall` | The abstract specification: `Apply` and `Uninstall` change files and ledger in one step, and only where nothing is refused and no directory is in the way; until the command returns it may `Withdraw` everything (`undo` is the state it would go back to, if any) |
| `Installer` | The program: one action per durable write or decision of `apply_operations`, `uninstall`, their handler, `rollback_journal` and `recover`; kills, exceptions and users |
| `InstallerProperties` | Type invariant, safety, the refinement mapping, liveness |
| `InstallerProofs` | Theorems about `Installer` |
| `MCInstaller` | Instances for TLC |

### State

`files`, `ledger`, `journal`, `recov` and `visible` are on disk and survive a
kill.  `pc`, `cur`, `held`, `plan`, `mem`, `jm`, `rest` and `errs` belong to the
process that holds the lock: its next step, the destination at hand, the entry
between `pop` and `append`, the operations still to be reached, its copies of
ledger and journal, the entries to be rolled back, whether one failed.
`count` bounds the runs.  `base` (the state when the transaction began) and
`mine` (what the user last wrote) are history variables that no action reads.

The flock in `main` admits one process at a time and is dropped by the kernel
with the process, so it is the condition `pc = "idle"` of the actions that
start one.  A second command that finds the lock taken exits without effect.

### Actions and code

| Action | Code |
|---|---|
| `BeginApply`, `BeginUninstall` | the lock, `load_ledger`, `build_operations`, `ensure_journal_clear`, the new journal |
| `Keep`, `Refuse` | no mutation needed: only the record is refreshed; `InstallerError` for a modified or foreign file |
| `Shrink`, `Preserve` | uninstall: other owners remain; a modified file stays |
| `Snapshot`, `WritePending` | `snapshot_path` to the recovery directory; the pending entry written |
| `Unlink`, `Write` | `perform_operation` or `restore_snapshot`, the visible copy before it; `atomic_write` replaces atomically, but the unlink comes first |
| `Pop`, `Append` | `journal["completed"].append(journal.pop("pending"))`, the journal written, the record changed |
| `ReadyToCommit`, `WriteLedger`, `MarkCommitted`, `ClearJournal`, `SyncDirectory`, `Clean` | the commit, one write each |
| `Fail`, `Handle` | an exception, and `except BaseException` up to the journal "rolling-back" |
| `UndoUnlink`, `Restore`, `CannotRestore`, `RestoreFails` | one entry of `rollback_journal`, backwards |
| `RestoreLedger`, `ForgetJournal`, `KeepJournal` | its end |
| `Finalize`, `RollBackJournal` | `recover` |
| `Crash`, `UserEdit` | kill -9 or power loss; users |

An exception raised inside the handler, outside the loop over the entries,
ends the process with the journal where it is, which is `Crash` as far as the
disk is concerned.

### Abstractions

* A file's bytes are the user's part and the release's part.  That suffices to
  tell whose content is where; checksums are equality.
* Destinations are numbers in sorted order, since both loops sort them.
* Modes, time stamps, notes and the activation file are left out, except the
  ledger's `updated_at` (`stamp`), which makes the ledger after a transaction
  differ from the one before and on which `recover`'s comparison relies.
* A merged hook configuration is one content: the definitions inside it are
  not told apart.
* The copies in `backups-v1` are never deleted by any code, so an original is
  kept in its record.  The recovery directory is per transaction and emptied
  by `Clean`; a new transaction gets a new one, so `recov` restarts empty.
* Empty directories and `prune_empty_parents` are left out; a nonempty
  directory at a destination is kind `other`.
* Profiles and probes only choose what is shipped: `Ships`.

### Runs

| Run | Question |
|---|---|
| `claude_transactions` | Mirrored files and the settings seed, in two releases: reversible at every instant, rollbacks exact, user content kept, and the refinement of `AtomicInstall`, under two kills (so a recovery can be killed as well), one exception and one edit; every command ends, every journal is resolved |
| `shared_hosts` | Codex and Polytoken with a shared asset, a merged configuration with its fragment, instructions that are installed or staged, and a linked skill, and Claude Code with a directory in a mirrored file's place: three commands of any of them, one kill, one exception, users who edit or turn a file into a link: the ledger is truthful and user content kept |
| `interrupted_cleanup` | A disagreement between the code and its documents: it finds its one property violated (below) |

Bounds: two or seven destinations (one per kind of operation that interact),
two releases (the smallest number with an upgrade and a downgrade), one or two
user contents, two or three commands (install, upgrade, uninstall), at most two
kills (one in a command, one in its recovery) and one exception.  Every
interleaving of a destination's steps with a kill needs only one destination
being mutated, one before it and one after it, and three destinations give all
of these.  `shared_hosts` has all kinds of operations but the seed in one ledger.
`CHECK_DEADLOCK FALSE`: once the bounds are used up nobody has to
issue another command.

`FailAt` says where exceptions are raised.  The passing runs use every point
but two, `append` and `clean`.  Users edit between commands (`settled`); edits
during an outage or a running command are part of the model and of no run: what
is written to a destination then is lost by design.

Fairness: `WF(Advance)`, a process that runs goes on (no step of it waits for
anybody: the lock is taken without blocking), and `WF(Recover)`, somebody issues
the recovery command when a journal blocks the installer, as `doctor` asks.
Kills and exceptions are not fair and bounded by the run.

### Where the properties do not hold

`interrupted_cleanup` shows one behaviour: the deletion of the recovery copies is
inside the `try` of `apply_operations` and `uninstall`.  A Ctrl-C there enters
the rollback of a committed transaction whose copies are partly gone:
destinations are removed, their restore fails, and the journal stays for good.

The passing runs leave out:

* A nonempty directory at the destination of a mirrored file
  (kind `other`, which only `shared_hosts` has): the mutation fails, its
  rollback fails as well, for ever, against `RecoveryCompletes`
  (`proptermaltwo_installer.py:720`).
* The command that the messages print (`RecoverFlags = {TRUE}`): it lacks
  `--apply`, and `main` refuses it (`:643`, `:1123`).
* An interrupt between `pop` and `append` (`FailAt` without `append`): the entry
  is in neither list, and the rollback "succeeds" without it, against
  `RollbackRestores`.
* An installed mirrored file that the user turns into a symbolic link
  (`EditKinds` without `link` in the Claude Code run): the visible copy is made
  of regular files only, against `UserContentKept`.

### Proofs

`InstallerProofs` proves, for all constants that satisfy the assumptions
`DataAssumption`, `StagingAssumption` and `InstallerAssumption` (any number of
destinations, hosts and releases, any manifest, any bounds):

* `TypeCorrect`: `Spec => []TypeOK`.  `TypeOK` alone is not inductive (a
  destination that is being mutated must have a plan, `cur` a member with a
  pending entry), so `TypeInv` adds `Pointers`.
* `ReversibleCorrect`: `Spec => []TransactionReversible`, and
* `RollbackCorrect`: `Spec => []RollbackRestores`, both under `Undisturbed`
  (exceptions avoid the two windows above, edits happen between commands).
  The inductive invariant `ReversibleInv` says, for each position of the
  program: what of the plan has been reached (`LoopInv`), how the journal on
  disk relates to the one in memory (`JournalInv`), how far a rollback has got
  (`UndoInv`: an entry no longer in `rest` is restored unless `errs`), and that
  both journals are reversible.  It is proved action by action.

* `InstallerIsAtomic`: `Spec => ImplementsAtomic`, the refinement of
  `AtomicInstall`, under `Undisturbed`.  The mapping shows the state before the
  transaction until the ledger is written (`SettledFiles`, `SettledRecs`) and the
  way back while the process may still take it (`WayBack`).  The commit point is
  `WriteLedger`: there the plan in memory, all of whose destinations are settled,
  must be the plan `AtomicInstall` computes from the state at the beginning.
  `CommitInv` says which of journal and ledger is on disk at each position, by
  the stamps that tell ledgers apart; `TransactionInv` that the plan is that of
  the state before the transaction and that every destination and record is
  still the old one, or already the planned one, according to what is left to be
  done.  Each action is then a step of `AtomicInstall` or a stutter.
* `LedgerTruthfulCorrect`: `Spec => []LedgerTruthful`, under `Undisturbed` and
  `"delete" \notin EditKinds`, as the property says.  It is proved of the
  *settled* files and records, so that only committed transactions and edits
  change it.
* `UserContentCorrect`: `Spec => []UserContentKept`, under `Undisturbed` and
  `PlainEdits` (no user turns the destination of a mirrored file into a link, the
  case listed above).  Its invariant `Safe` names the four places
  where a user's content may be, for the settled state; the journal's
  reversibility carries it through a transaction.

The proof attempts of these three changed the model: `AtomicInstall` now says
that a directory in a destination's place stops an install.

Model-checked only: the two liveness properties (liveness and `ENABLED` are out
of the prover's reach).

## The integration of an Angel run

### Modules

| Module | Contents |
|---|---|
| `Integration` | One run directory, the driver that walks from the workset to the line in `usage.log`, and everybody else who writes to the directory meanwhile; one action per durable write or check |
| `IntegrationProperties` | Type invariant, safety and action properties, liveness |
| `IntegrationProofs` | Theorems about `Integration` |
| `MCIntegration` | Instances for TLC: worksets and positions |

### State

Each file of the run directory is a variable, described by what its readers
compare: the *identity* of the decisions it was made from (`id`, 0 when there
is no file) and the flags the programs branch on.

| Variable | File | What is kept of it |
|---|---|---|
| `workset` | `integration-workset.json` | built or not; above the reducer's token limit; a candidate above its severity ceiling; built while a pass was missing |
| `decisions` | `integration-decisions.json` | identity; reducer's or deterministic union; valid for the workset |
| `telemetry`, `usage` | `integration-telemetry.json`, the integrator rows of `usage.jsonl` | the decisions they are about |
| `report`, `snapshot`, `registry` | `report.md`, `findings-snapshot.json`, `registry-updates.json` | the decisions they render; patched by verdicts; degraded; the passes the support was assembled from |
| `archive` | `retry-history/` | the identities of the snapshots in it |
| `usageJson`, `log` | `usage.json`, this run's lines of `usage.log` | torn or whole, the row and the snapshot it counted |
| `dispositions`, `verification`, `passes` | `dispositions.json`, `verification/`, the last pass of the run | the form of the file; existence; missing, excused by a failure stub, or recorded |

`pc`, `retrying`, `attempt`, `mem` and `exit` are the driver: where it is,
whether it was called with `--retry-reducer`, the reducer's attempt, what the
process at hand has read into memory, and how the last driver ended.  `issued`
names decisions, `count` bounds kills and retries.

### Actions and code

| Action | Code |
|---|---|
| `Integrate`, `Resume`, `Retry` | `integrate-run.sh` up to the workset: the branches of its `ACTION`, with the check for evidence and the copies of a retry |
| `Refinalize` | `finalize-run.sh` by hand |
| `Build` | `build-integration-workset.py`, only if there is no workset |
| `SkipDispatch`, `NoRunner`, `QualifiedRunner`, `Reduced`, `AttemptAgain`, `GiveUp` | `dispatch-integration.sh`: no runner leads to the union, a reducer has two attempts, the sharder one |
| `Install`, `KeepTelemetry`, `Meter` | the three writes after a success: decisions, telemetry, usage row |
| `Union`, `MeterUnion` | `deterministic_union`, written and then validated, and its usage row |
| `Validate` | `validate-integration-decisions.py` as the driver's own step |
| `SkipRender`, `Render`, `RenderRefuses`, `WriteReport`, `WriteSnapshot`, `WriteRegistry` | `render-integration.py`: its checks and its three writes |
| `Finalize`, `Aggregate`, `WriteUsage`, `Gate` | `finalize-run.sh`: the assembly, the truncating write of `usage.json`, `check-run-complete.py --pre-append` |
| `Supersede`, `AppendLine` | `append-usage-log.sh`: filter and rename, then append |
| `OpenSkeleton`, `WriteSkeleton` | `emit-dispositions-skeleton.py`, which truncates before it writes |
| `ApplyVerdicts`, `PatchReport` | `apply-verification.py`: snapshot, then report |
| `WriteVerdict`, `RecordDisposition`, `RecordPass` | verifiers, `record-disposition.py`, `record-dispatch.sh`, at any position in `EvidenceAt` |
| `Crash` | a kill, or a failing command, at any position in `CrashAt` |

### Abstractions

* One driver at a time.  The scripts take no lock, so two drivers on one
  directory are possible in the code and not in this model.
* Identities stand for contents: two renderings of one decisions file are
  equal, since the renderer is a function of workset and decisions.
* `PROGRESS`, heartbeats and pid files are written and read for display only.
* The sharder with all its reducers is one step (`Sharding` opens it), a reducer's
  attempt is one (`Reducer` opens it), `--clone-retry` (which makes
  another directory) is left out, and `run-meta.json` is taken to be ready and
  `usage.jsonl` to exist: the builder refuses otherwise, before it writes.
* The run has several findings, so dispositions of single ones ("sparse") are
  not all of them; a persona that feeds the registry took part.
* Other runs' lines in `usage.log` are left out; filtering and appending
  concern this run's lines only (`UsageLog` has the other runs).
* Verdicts and dispositions are taken to be written at once.  (A torn verdict is
  evidence as well: its directory exists; a torn `dispositions.json` is in the
  model, from the skeleton.)
  `apply-verification.py` runs only while no driver does.

### Runs

| Run | Retries | Kills | Others act | Shows |
|---|---|---|---|---|
| `first_integration` | 0 | 2, anywhere | always | Without retries nothing can mix results: one result, a gate that means what it says, verdicts in report and snapshot, proven support |
| `retried_integration` | 2 | 1, anywhere | always but between the renderer's check and its write | One line through any sequence of retries; evidence is kept; what is replaced is archived, degraded and unverified; every integration that is begun ends in the index |

Bounds.  Two kills allow a resumption to be killed as well; two retries allow a
retry of a retry, the second of which sees an archive that is not empty and a
line that is not the first.  All worksets (large or not, with an exceeded ceiling
or not) are explored in `first_integration`; the runs with retries take those
within their ceilings, since the others are never rendered as degraded and hence
never retried, and since they need not finish (below).  Deadlock is
checked in all of these runs: somebody can always resume.  `issued` and `usage`
need no bound of their own, since a dispatch needs missing decisions or a retry,
and a union that is invalid stays on disk.

Fairness of `FairSpec`.  `WF(Step)`: a driver is a shell script of commands that
end; its only long wait, for the reducer, has a time limit.  `SF(Unfinished)`:
who sees that the driver failed or vanished resumes the run in the end; strong,
because verdicts and dispositions may be recorded in between and make the
driver's being idle intermittent.  It goes by the driver's exit, not by
`resume-run.sh`, whose diagnosis is premature (below).
`WF(RecordPass)`: a pass that the gate reports missing is recorded or recorded
as failed.  Kills and retries are not fair.

### Where the properties do not hold

The runs and theorems leave out:

* A retry killed after its decisions are in place: `--resume` has forgotten that
  it was a retry, finds a snapshot, skips the renderer and finalizes the old
  report beside the new decisions, against `Coherent` (`integrate-run.sh:68`).
* A pass that the gate reported missing and that is recorded then: the run is
  finalized, its support counts the pass, and the workset was built without that
  pass's findings.  No property says that every pass is integrated
  (`integrate-run.sh:60`).
* A candidate above its severity ceiling (`Worksets` of the runs with retries):
  the union keeps its severity, the validation rejects it, the file stays, every
  resumption stops at the validation and `--retry-reducer` asks for a snapshot,
  against `Finishes` (`validate-integration-decisions.py:145`).
* Evidence during the dispatch of a retry: the renderer notices it, after the
  decisions have been replaced, against `EnrichedImmutable`.
* Evidence between the renderer's check and its writes: it stays beside findings
  it was not about, against `EvidenceKept`.
* A kill between decisions and usage row: after `--resume` the index charges
  nothing, or the dispatch before, against `Metered`.
* A kill between snapshot and registry updates: `--resume` skips the renderer,
  and they are never written, against `RegistryWritten`.
* A disposition recorded before the finalization, or a kill that leaves a torn
  skeleton: the skeleton is never written, so `dispositions.json` need not list
  every finding, and no property says so.
* `resume-run.sh` reports a run complete that has a `usage.json`, also one the
  gate has kept out of the index.

### Proofs

`IntegrationProofs` proves, from `IntegrationAssumption` alone unless a further
assumption is named, for all worksets, positions and bounds:

| Theorem | Property | Further assumption | Inductive invariant and why it is needed |
|---|---|---|---|
| `IntegrationTypeCorrect` | `TypeOK` | | `TypeOK` itself |
| `VerdictsCorrect` | `VerdictsShownAreRecorded` | | `VerdictsInv`: a report written by the renderer is unverified until its snapshot is written, and a patching program has patched the snapshot |
| `IndexCorrect` | `Indexed` | | `IndexInv`: `usage.json` counts the present snapshot from its aggregation to the end; nothing renders before the next start |
| `CompleteCorrect` | `IndexedWhenComplete` | | `CompleteInv`: a snapshot implies valid decisions *also during a retry*, whose union could be invalid; so a degraded snapshot must imply that the workset is within its ceilings |
| `SupportCorrect` | `SupportProven` | | `SupportInv`: past the gate no pass is missing, hence none can be recorded any more |
| `EvidenceCorrect`, `ReplacementCorrect` | `EvidenceKept`, `ReplacedArchived` | `NoEvidenceWhileWriting` | `EvidenceInv`: a renderer that writes over a snapshot is a retry that archived it and found it degraded and pristine |
| `MeterCorrect` | `Metered` | `NoUnmeteredKill` | `MeterInv`: but between the two writes, the last row is that of the valid decisions on disk |
| `CoherentCorrect`, `ImmutableCorrect` | `Coherent`, `EnrichedImmutable` | `NoKillInWindow`, `OthersWait` | `CoherentInv`: outside the window the three are one result; inside, they are, or the driver is a retry whose renderer will not refuse |
| `RegistryCorrect` | `RegistryWritten` | `NoKillBeforeRegistry` | `RegistryInv`: but between the two writes, the registry updates are those of the snapshot |

The further assumptions are hypotheses of the theorems, not of the model, and
each is needed: without it the property fails as described above.
`Metered`, `EnrichedImmutable` and `RegistryWritten` are proved and in no run: the
kills and the evidence that their theorems exclude are what the run with retries
is about.  Model-checked only: `Finishes`.

## The dispatch of the reducer

`Integration` takes an attempt of the reducer as one step.  `Reducer` opens it:
`dispatch-integration.sh` (`driver`), one wrapper `run-reducer-sandbox.py` per
call (`call`), and the Codex process group of each (`codex`).  They share exit
codes and the directory of the attempt (`dir`); `final` and `union` are what
the dispatcher installs.

| Actions | Code |
|---|---|
| `Describe`, `Spawn`, `SpawnFails` | the wrapper's second look at the installation, and the start of Codex with signals masked |
| `Finish` | Codex ends, with any stream and message |
| `Communicated`, `WallTimeout`, `Kill`, `KillRefused`, `Reaped`, `NotReaped` | `communicate`, its time limit, and `_stop_process_group` with its reserved exit code |
| `Parse`, `WriteDecisions`, `WriteTelemetry` | `_parse_events`, the limits on the message, the two files |
| `Signal`, `KillWrapper`, `KillDriver`, `HostChanges` | signals to the wrapper at any point, kills, an upgrade of Codex |
| `Unqualified`, `StartCall`, `Judge`, `InstallDecisions`, `InstallTelemetry`, `WriteUnion`, `Resume` | the dispatcher, and the resumption after it was killed |

A signal's effect depends on where it lands: it is held back while the process
is spawned, raises the handler's exception in `communicate` and in the cleanup
after a timeout, and ends the wrapper at once in the handler's own cleanup and
outside of `_execute`.  `HostChanges` may come between the description and the
start (`seen` and `ran` differ).

`reducer_dispatch`: three calls (two attempts, and one that a killed dispatcher
left behind), two signals (a second one meets the cleanup), one kill, one
change of the installation; streams with a refused tool, with a tool that ran,
and cut off in a second turn.  `OneReducer` names all behaviours in which a
Codex process is left beside a later attempt; `InstalledWhole` says what
installed decisions come from, `ReasonTrue` what a degraded reason is worth,
`DispatchEnds` that a dispatch that is not killed ends.  `CHECK_DEADLOCK FALSE`:
a dispatch stops when it is done.

Fairness: `WF(Dispatcher)` and `WF(Wrapper(c))`.  Both are processes that the
operating system runs, and every wait of the wrapper has a limit (the wall
timeout and the limits of the reaping).  Codex (`Finish`) is not fair: it may
hang.

`ReducerProofs` proves the three invariants and the types for any number of
calls, signals, kills and changes.  The inductive invariant: a Codex process
outlives its wrapper only behind the reserved code, a kill or a second signal
(`Contained`); every call but the dispatcher's present one is abandoned or has
ended with another code (`Settlement`), which needs the calls to be numbered in
order (`Numbered`); what the dispatcher knows when it judges (`Judged`,
`Reasoned`); and the files in an attempt's directory come from calls of that
attempt whose stream was accepted (`Sound`).  `DispatchEnds` is model-checked
only.

## The sharded reduction

`DecisionRules` has the rules of `validate-integration-decisions.py`;
`Reduction` is the abstract specification, one step from a workset to valid
decisions or to giving up; `Sharding` is `shard-integration.py`: components by
file, cut by persona and by candidate above the target (`Components`), packed
greedily (`Pack`), each shard reduced (`ReduceShard`), findings made candidates
of the next level (`CompactCandidate`), at most two levels, one last call
(`LastCall`), expansion to the original candidates (`Expanded`) and one more
validation (`Checked`).

A call answers with *any* decisions that are valid for its own workset
(`Answers`), or fails.  Titles, lines and summaries are left out; sizes are
small numbers against `Target` and `Hard`; two candidates of a file are linked.
A candidate that stands for others has lost their ceilings and keeps only the
effort of its finding, as in the code, so answers that are valid for each shard
may be invalid for the run; `Checked` is what notices.

`sharded_reduction`: four worksets of two to four candidates, which are cut in
each of the ways, need one or two levels, or cannot be cut small enough.
`Conserved` is the account of the candidates between the levels, `Bounded` the
limit on every call, `ImplementsReduction` the refinement (`Whole`).  Four
candidates are the least that make two shards with two candidates each, whose
findings are again too large for one call.  `CHECK_DEADLOCK FALSE`: the program
stops.

### Proofs

`ShardingProofs` proves all three properties for every workset whose candidates
have their ids to themselves, every target and limit, and every sequence of valid
answers (`ShardingAssumption`).

* *Packing.*  The components are the classes of an equivalence, cut further by
  equivalences (`ComponentsCover`); so each has a first candidate of its own and
  they can be put in order (`InOrderOK`), and `Add`, one after the other, makes
  disjoint packs that cover the workset (`AddCuts`, `Packing`).
* *Compacting.*  Validity gives the findings disjoint sources that, with the
  excluded candidates, are the whole shard.  Candidates with different ids stand
  for disjoint sets of originals (`OriginsDisjoint`), and so do the findings, which are
  numbered without a gap or a double (`Ranks`, `Compacting`, `Answered`).
* *The invariant.*  `Sharded`: shards to come, the next level and what is excluded
  are pairwise apart and complete, each of them a workset, the shards within the
  limit, and the next level numbered from 1 to its size.  `Conserved` and
  `Bounded` follow from it and are not inductive without it.
* *The refinement.*  Only the last call can change what `Reduction` sees, and it
  does so after `Checked`.  This needs no invariant, which is the point of
  validating the whole again: it would hold however the levels went wrong.

`Size` and `Pack` are recursive functions of the community modules, so choices:
`SizesExist` and `PacksExist` show that there is something to choose.  `InOrder` is a
choice in the model itself.

## The records of a run

`RunRecord` has the legs of one run side by side: `record-dispatch.sh` as the
orchestrator calls it, and `dispatch-leg.sh`, which runs Codex for headless
legs and answers for the record of what it returned.  A file is its kind
(`block`, `stub`, `torn`, `absent`) and the leg that wrote it last.

| Actions | Code |
|---|---|
| `Run`, `Check` | the agent's answer; the checks of both scripts before anything is written (`Preflight`, `Refuses`) |
| `AppendRow`, `WritePass`, `RejectPass`, `WriteFindings`, `WriteVerdict` | `record-dispatch.sh`: the usage row first, then the files |
| `Preserve`, `FailRow`, `FailStub` | `dispatch-leg.sh` after a failure: the rejected output, then the failed row and its stub |
| `Redispatch`, `RecordFailed` | the orchestrator runs a leg again, or records it as failed |
| `Torn`, `Kill`, `WriteFails` | faults, at any step; `faults.legs` names whom they hit |

`PassesPresent` is the completeness gate over these files.

`run_records`: two passes of one persona, one recorded by the orchestrator and
one headless and dispatched twice, a headless reconciler of the same name (its
failure stub goes to pass 1, for want of a pass of its own), a verifier, and one
fault anywhere.  The four invariants say what survives (`WorkKept`), what is
counted (`TokensOnce`), that nothing ends silently (`NeverSilent`) and what the
gate is worth (`GateHonest`); each names its exceptions, and these are all there
are.  `CHECK_DEADLOCK FALSE`: when every leg has ended nobody has to go on.

`RunRecordProofs` proves all four, and the types, for any set of legs, passes
and names, any number of runs and faults.  The inductive invariant: an answer
that reaches the row is fit to be recorded (`Checked`), so that rows keep step
with runs (`Counted`); every file in `passes/` was put there by a leg that was
asked for it (`Held`, `Honest`), and stays (`There`).

## The index of all runs

`UsageLog` is `append-usage-log.sh` run by several finalizations at once: grep
for an earlier line, filter into a temporary file, move it over the log, append.
A run is its path, a sequence, because grep finds a path in front of a longer
one too.  A process adds one line, so the log is a set of lines, and their order
is left out.  `usage_log` has a run finalized three times, once under another
spelling of its path, and a second run, finalized twice, whose path begins with
the first one's; two appenders at a time, one kill, one failed rewrite.

`OneLine` says that every line of a run is the one that was added last, hence
that there is one at most, unless the run was `Disturbed`: finalized under
another spelling of its path, by two processes at once, by one that was killed
or could not rewrite the log, or by one whose line, or whose removal of the
earlier line, came between another process's copy of the log and its move.  In
the instance each of these occurs: without any one of them TLC finds `OneLine`
violated.  `LineKept` says when a finalized run may have no line.

`UsageLogProofs` proves both for every set of runs and any number of processes,
kills and faults.  Neither is inductive: what matters is what lies in the other
processes' temporary files.  `Others` says that the lines of an undisturbed run
in another run's copy are those of the log, so a move by another run changes
nothing; `Cleared` that none is left when the run's own process is about to add
one; `Latest` follows from these.  For `LineKept`, `Held` says that a line, once
there, is in the log and in the copies of all other runs, or that a process of
the run is about to add another.

Two of the exceptions contradict the script's header (`append-usage-log.sh:22`, "a run
appears in usage.log at most once"): the line holds the resolved path
(`aggregate-usage.py:139`) while the key that is looked for is the path as the
caller wrote it (`append-usage-log.sh:35`), so a run finalized under a relative
path is appended again; and an append between another's copy and its move is
lost, since nothing locks the log.

## Guarded hosts and their admission

`IdentityGuard` has the decisions of the push guard and the commit guard as
operators on a command: a sequence of items, each a simple command or the body
of a `bash -c`, and what separates each from the next (`join`).
`HookedHost` composes them with what they are about: a host
that asks them (Claude Code starts them itself and goes on when one fails;
Codex and Polytoken go through `host-hook-bridge.py`, which denies the push and
allows the commit then), and the shell that runs the items afterwards.
`Admission` adds the two admission scripts, which drive such a host through
their probes and judge it by its trace.

| Actions | Code |
|---|---|
| `UserIssue`, `AgentCalls` | an agent issues a command, in a session or in a probe (as asked, or something else) |
| `DecideCall` | the hooks: `PushGuardAllows`, `CommitGuardAllows`, `Bridged` |
| `RunCall`, `EndCall` | the shell runs the items or skips those behind `&&`; others may switch the gh login meanwhile; the trace |
| `Begin`, `TurnEnds`, `Timeout`, `Judge` | versions and sentinels, the end of a probe, the result by `CodexResult` or `PolytokenResult`, the outcome |
| `WriteEvidence`, `MergeActivation` | the evidence file, then the activation index |
| `TrustChanges`, `Crash`, `RunAgain` | somebody reviews or changes the hooks between two probes; a kill; another run over what the last one left |

The guards do not lex as a shell does.  `shlex.split` splits at blanks and line
ends, and `segment` (`hooks/_gh_identity_common.py:173`) breaks a segment only
at a token that *is* a delimiter.  So a command begins a segment of its own if
the delimiter before it stands apart; after `cd B;` or a new line it is read as
further arguments of the one before.  The shell runs both.  Each definition of
that reading is one consequence:

| Definition | What the guards read |
|---|---|
| `Absorbed`, `Swallowed` | what is behind such a join is no command: `git status; git push` is a `git status` with more arguments |
| `Attached` | a delimiter stuck to a word spoils the word: `cd B;` enters no repository, `origin;` is no remote, `push;` no verb |
| `Extended` | a command reads what it swallowed as its own words: the first as the remote of a push that names none, an `--author` as a commit's author |
| `Reading`, `View` | a segment behind `env --chdir` cannot be parsed, and is refused only if it has the words of a push (`gh-identity-guard.py:695`); `env --chdir=d gh pr merge` has none of them |
| `Expand` | the body of a `bash -c` takes the wrapper's place, fenced on both sides |

Identities stand for SSH host, account and author together, which the identity
map keeps apart; directories are absolute.  A command is decided on as a whole
and then run, so everything it changes itself is a hazard of the decision.

Left out of the commands: shell keywords and prefixes that stand before a program
(`then`, `{`, `time`, `sudo`), pipelines and parentheses around a `cd`, words that
merely contain `push`, and options of a swallowed command other than `--author`
that the head reads as its own (`--dry-run` for a commit, `--get` for `git config`,
`--push` for `gh repo create`).  `RightIdentity` says nothing of commands with these.

`hooked_hosts`: commands of one to three items (a `cd`, `popd`, changed remote, tag
or login, or a push or commit first, joined to what follows by a delimiter that
stands apart, one that does not, or a new line; then a push or commit: of every kind
alone, after a plain `cd` and after a push, of eight kinds after the rest) in three
pairs of repositories (SSH and HTTPS remotes, an untagged, a retired and a
conflicting tag, a default remote that is not `origin`), each by Claude Code and
Codex; and the admissions of Codex and Polytoken with two calls per probe, one
kill with a rerun, and one change of trust.  Two items suffice for a decision
about a later item to depend on an earlier one; in those with three the second
is swallowed by the first and the third is not.  Items only act through the state
they leave.  `CHECK_DEADLOCK FALSE`: sessions and admissions end.

`RightIdentity` and `RightAuthor` say that a push or commit that was let through
has the right identity *or an excuse*.  The excuses of a push are all of these:

* hooks that are not trusted, or on Claude Code a guard that failed (`Unguarded`);
* the gh login switched between decision and push (`switches`);
* `git push` without a remote, which the guard checks as `origin`
  (`gh-identity-guard.py:879`);
* the push is no segment of its own, its verb has a delimiter attached, or it is a
  `gh pr merge` behind `env --chdir` (`Unseen`).  `gh-identity-guard.py:37` says
  that every push-class segment of a compound command is validated: of what the
  shell runs, only those that `segment` finds;
* up to it, a `cd` or a changed remote that is no segment of its own, or a `cd`
  whose argument has a delimiter attached (`Misread`);
* before it, a `cd` in a `bash -c` or behind `&&`, which the walk takes for done
  (`UncertainCd`);
* up to it, a remote changed behind a wrapper, or a tag or login changed by the
  command itself (`Unfollowed`).

Those of a commit: hooks, failures, unreadable commands and identity maps, all of
which the commit guard lets through; any `cd`, `popd`, changed tag, `env --chdir` or
unknown directory up to it, none of which it follows; and a commit that is no
segment of its own, has `commit;` for a verb, is read with an `--author` that
another command has, or takes its author from `--amend` or a variable
(`UnseenCommit`).  `gh-commit-author-guard.py:14` and `:259` call the push guard its
backstop; that guard never looks at authors, so a commit under the wrong author
leaves with the next push.

None of these excuses is for nothing: with any of them taken out, `hooked_hosts` has a
counterexample, except for a commit under untrusted hooks, which its instance lacks.

`OutcomeEarned` says what an admission's outcome is worth, judged by history the
scripts cannot see (`witness`): after a pass, the push of the probe was denied and
none was run; after `installed-untrusted`, the push of the probe was run; and under
Polytoken a push that the hooks were asked about was never run.  It covers the
outcome only: a kill between the evidence and the index leaves the index of the
previous run, and nothing compares the two.

`installed-untrusted` does not mean that the hooks were not trusted.  Codex's push
probe (`codex_admission.py:290`) begins with `printf ... >/dev/null; git push`, one
segment headed by `printf`, which the push guard allows when it is asked.
`codex_push_probe` shows an admission with trusted hooks that ends so, against
`UntrustedUnasked`, which is what `docs/hosts/codex.md:57` says; by the
same reading Codex passes only if the push guard fails, which the bridge turns into
a denial (`host-hook-bridge.py:138`).  Polytoken's probe begins with `git push` and
is denied.  `CHECK_DEADLOCK FALSE` there as well.

`AdmissionProofs` proves all three, `RightIdentityCorrect`,
`RightAuthorCorrect` and `OutcomeEarnedCorrect`, from `GuardAssumption` (the
words for nobody and nowhere are no names), `HostAssumption` (commands are
well-formed sequences of items, of any length and any set of them) and
`AdmissionAssumption`.  The instance has commands of three items at most and three
pairs of repositories; the theorems have any.

The guard folds `Walk` over the expanded command, once; the shell folds `Execute`
over items, one by one, some of which it skips.  The inductive invariant
`HostBase` relates the two.  `ExpandParts` cuts the expanded command into the views
of its items, `WalkByItems` the walk into walks over them, and `ReadingFacts` says
in what a reading can differ from the command that the shell runs.  `PushFollowed`:
there is a state of the walk for each item, each of which the guard was content
with (`Ok`), and as long as nothing has run that the walk does not follow or the
guards misread, the shell is in the directory, the repositories and the login of
the walk's state (`Follows`).  `StepFollows` is the step of that argument (one
command), `BodyFollows` its induction over a body, and
`PolicyRight` says that what the policy allows in such a shell leaves under the
right identity.  `CommitDecided` is the simpler counterpart for commits: the shell
has not left the directory in which all of them were judged (`Steady`).  Folds
are recursive functions of the community modules; since the provers take
no operator as an argument, `One` names the three operators that are folded.
An admission preserves all this because its probes push to a path (`Quiet`).

For `OutcomeEarned`, `PushTraced` and `CallTraced` say what a call in a trace is worth in terms of
`witness`, and `PushJudged` and `CallsJudged` that a result that the scripts read
off the trace is worth as much.

Two excuses came out of the proofs: a changed remote is not followed whenever it
is behind a wrapper, not just `env`; and `git -C "$X" commit`, where the
commit guard finds no repository and allows (`gh-commit-author-guard.py:254`).

## The sweep over the decision records

A decision record may name commands that would falsify it (`falsifier_cmd`) and
records it rests on (`depends_on`).  Once a week cron runs `adr-sweep.py`, which
walks the records twice: first it runs the commands of each and writes those
that fired to a `fired:` line, then it looks at the targets of each and writes
what has befallen them to a `support_lost:` line.  These lines are all it
remembers.  People append a verdict to them (`adjudicated: real` or `false`),
revise records, and let git restore or remove them, at any moment.

| Module | Contents |
|---|---|
| `AdrSweep` | The functional core as operators (`Outcome`, `DecideFired`, `DecideSupport`, `LossReason`, `Upsert`), the sweep as one action per read, command, reference and write, kills, torn writes, people, and commands whose outcome changes |
| `AdrSweepProperties` | Type invariant, safety, liveness |
| `AdrSweepProofs` | Theorems about `AdrSweep` |
| `MCAdrSweep` | The instance for TLC |

`files` holds the records, `dirs` the decisions directories that exist; both survive
a kill.  A record is a status and two lines; a line is a set of items and a verdict.
`step`, `dry`, `roots`, `swept`, `todo`, `cur`, `text`, `results` and `found` are the
process: the pass, `--dry-run`, the directories it found when it began, the records
it listed and has not come to, the record in hand with its text as it was
read, the outcomes so far, and the announcements it collects.  `world` says how
each command would end now.  `observed`, `fell` and `asked` are history: which
commands ever exited 1, what ever befell a record through people, and which
announcements stand on record since they were made.

| Action | Code |
|---|---|
| `Begin`, `Scheduling` | `adr-falsifier-sweep.sh` behind its `flock`, `parse_args`, `enumerate_roots`, `enumerate_adrs` |
| `ReadRecord`, `ReadAgain` | the head of either loop of `sweep`: `read_adr`, `parse_frontmatter`, `continue` on a record that cannot be parsed or declares nothing |
| `RunFalsifier` | `run_falsifier` and `classify_exit` |
| `DecideFire`, `DecideLoss` | the rest of either loop: `decide_fired`, `decide_support`, `write_line`, the transitions |
| `FollowRef` | `resolve_ref` with `adr_dir_for_alias` (`Support`, `UnknownAlias`) and `loss_reason` with `successor_id` |
| `WriteFails` | `write_text` where the directory has gone since the record was read: the exception ends the sweep in `main` |
| `SideEffects`, `OpenTask`, `SkipTask`, `AppendLog` | the side effects at the end |
| `Crash`, `CrashWriting` | a kill; a kill or a full disk in `write_text`, which leaves an empty or a cut file |
| `Adjudicate`, `Revise`, `Checkout`, `Delete` | `/retro`, editors, git; `Delete` may take the directory, or the project, with its last record, and `Checkout` brings it back |

A reference names its target by an alias.  That of a project (`Projects`) is known
while its decisions directory exists (`adr-sweep.py:484`), and to a sweep that found
it when it began (`:473`); with `ADR_SWEEP_ROOTS` set, and for `house` and `angel`, it
is always known, which is an empty `Projects`.  A reference under an unknown alias is
skipped: no loss and no error (`:718`).

Left out: dates, observations, the lint of `until` and `status`, the log and the
notification, which the sweep does not read back, and the file of a record that
has moved.  Statuses and the two lines change; `falsifier_cmd`, `depends_on` and
`supersedes` are constants.  References that are always skipped, since they are
empty, malformed or under an alias that never was a project, are left out of `Refs`.
Commands and references of one record come in any order.  A reference is resolved
and looked at in one step.  A command's first line of output becomes part of the
line; it is taken not to contain the words of a verdict, which the code would read
as one.  One sweep at a time, as `flock` has it
(`adr-sweep.py` run by hand without the wrapper takes no lock).

`adr_sweep` has two records that may be in any of three statuses, of which the
second rests on both and supersedes the first, which is alone in a project; two
commands, and an entry without a command; exit codes 0, 1 and 2; one kill, two edits and one change of a
command's outcome at any moment.  Two edits allow a verdict and its removal, a
verdict and a checkout, or the loss of a record and then of its project, between
any steps.  It checks

* `Earned`: each item of a `fired:` line is of a command that once exited 1,
  never of one that broke, and each item of a `support_lost:` line names what has
  befallen its target through people, so no fire counts before it was judged;
* `NagOnce`: what is about to be announced has not been announced since it came
  on record, through dry runs, kills, edits and any number of sweeps;
* `LinesRespected`: no step of the sweep changes a line that had a verdict when
  its record was read, and none takes an open line away that has not seen every
  command, or every reference, of its record end clean; a reference may be skipped
  instead if the project's directory was gone when the sweep began (`Passed`);
* `FireRecorded`: a falsifier that keeps firing gets on record, whatever wiped the
  line before.  Fairness: `WF(Sweep)`, since every command and hook has a timeout,
  and `SF(Scheduling)`, since cron tries again each week and a sweep that is under
  way ends.  Kills are not fair.

Where it does not hold: the text that is written back is the one that was read
before the commands ran, for up to two minutes each.  A verdict given meanwhile,
a revision and a checkout are overwritten; the docstring calls an adjudicated line
untouchable (`adr-sweep.py:22`), which is so for verdicts that were there when the
record was read.  Where a project's
decisions directory has vanished, its alias is unknown and its references are
skipped: an open `support_lost:` line that stands for one of them is taken away
unseen (`adr-sweep.py:483`, `:718`), while `docs/decision-records.md:139` counts a
missing target as a hard loss.  `LinesRespected` makes that exception and no other;
a sweep that found the directory when it began reports the target missing.  A line
that is written anew holds what fired in this sweep only:
with one command firing, another that stood on the line and broke this time is
dropped from it.  A kill between a write and the tasks at the end loses the
announcement, since the line is on record then.  A torn record declares nothing,
and stays torn until git restores it.

`AdrSweepProofs` proves the three safety properties for any records, references,
statuses, exit codes and bounds, from `AdrSweepAssumption` (which only types the
constants; at the start no record has a line).  `AdrInvariant` is inductive.
Its core is `LaterOnly`: between a read and a write only people change a record,
and what they can do to a line that was read (`Later`) is to leave it, take it
away, or judge an open one.  So a line without an item in the text in hand has
none on disk either, which `NagOnce` needs, and a line with a verdict in the text
is the same on disk or gone, which `LinesRespected` needs; its second half needs that
a skipped reference is one to the record itself or into a project that the sweep did
not find (`ResultsTyped`).  `TextEarned` and
`ResultsEarned` say of what is in hand what `Earned` says of the files, and
`AllExplained` that every text, also the one in hand, agrees with what has
befallen its record.  `FiredDecided` and `SupportDecided` are the lemmas on the
two decisions.

## Not modelled

* Analytics and evaluation (`mine-runs.py`, `true-cost.py`,
  `depth-lane-yield.py`, `jev-reconciliation-eval.py`, ...): statistics of finished
  runs, whose results nothing reads back.  There is no state to go wrong.
* Session hooks: one short process per event over caches in `/tmp` for a status
  line; no other program depends on them.
* `monthly-lint-dead-sweep.sh` and the set-up scripts: they run other programs in
  order and keep nothing.
* The guards that look for words in one text (`block-*.py`, `post-edit-*.py`,
  `sanitize-permission-allowlist.py`, `angel-multiball-guard.py`): they decide on
  one input and keep nothing.
* The digests that bind evidence to files, and `polytoken_release_gate.py`, which
  compares them.
* `--clone-retry`, two drivers on one run directory, two writers of
  `dispositions.json`, two PropterMaltwo homes over one set of destinations, and
  the merge of hook definitions inside one file.
* Skills, templates and documents: no program.

Of the properties, those about liveness (`CommandEnds`, `RecoveryCompletes`,
`Finishes`, `DispatchEnds`, `FireRecorded`) are model-checked only: ENABLED and fairness are out of
the prover's reach.  Every invariant and every action property that a passing run
checks is a theorem, and so are both refinements.
