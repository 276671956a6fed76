----------------------------- MODULE Installer -----------------------------
(***************************************************************************)
(* The transactional shell of scripts/proptermaltwo_installer.py: apply,   *)
(* uninstall, the exception handler with its rollback, and --recover, over *)
(* the destinations, the ledger, the journal and the recovery copies on    *)
(* disk.  One process at a time is inside (the flock in main; the kernel   *)
(* drops it with the process), so the lock is the value of pc: "idle" when *)
(* nobody holds it.  Every step is one durable write or one decision, and  *)
(* the process may be killed between any two of them, or raise (Ctrl-C, an *)
(* I/O error, an injected failure) wherever FailAt says.  Users edit       *)
(* destinations whenever EditWindows says.                                 *)
(***************************************************************************)
EXTENDS InstallerData

CONSTANTS
  InitialFiles,  \* what users may have at the destinations at first
  FailAt,        \* the values of pc at which an exception may be raised
  EditWindows,   \* when users edit: "settled", "outage" or "running"
  EditKinds,     \* how: "write", "delete", "link"
  RecoverFlags,  \* with --apply (TRUE) or without: how recover is invoked
  MaxCommands, MaxEdits, MaxCrashes, MaxFaults  \* bounds of the runs

FailPoints == {"next", "pend", "unlink", "write", "pop", "append", "ledger",
               "mark", "clear", "sync", "clean", "undo", "restore"}

ASSUME InstallerAssumption ==
  /\ InitialFiles \subseteq [Path -> File]
  /\ FailAt \subseteq FailPoints
  /\ EditWindows \subseteq {"settled", "outage", "running"}
  /\ EditKinds \subseteq {"write", "delete", "link"}
  /\ RecoverFlags \subseteq BOOLEAN
  /\ {MaxCommands, MaxEdits, MaxCrashes, MaxFaults} \subseteq Nat

VARIABLES
  \* on disk
  files,    \* what is at each destination
  ledger,   \* ledger-v1.json
  journal,  \* journal-v1.json, or NoJournal
  recov,    \* recovery-v1/<txid>: the copies of the journalled files
  visible,  \* the user content kept in .propter-maltwo-backup-* directories
  \* in the process that holds the lock
  pc,       \* what it does next
  cur,      \* the destination being mutated or restored
  held,     \* the entry popped from pending and not yet appended
  plan,     \* the operations still to be reached
  mem,      \* its copy of the ledger
  jm,       \* its copy of the journal
  rest,     \* the entries still to be rolled back
  errs,     \* some entry could not be rolled back
  \* bounds, and history read only by the properties
  count,    \* commands, edits, crashes and faults so far
  base,     \* the files and the ledger when the last transaction began
  mine      \* the content the user last put at each destination, or 0

disk    == <<files, ledger, journal, recov, visible>>
process == <<pc, cur, held, plan, mem, jm, rest, errs>>
history == <<base, mine>>
vars    == <<disk, process, count, history>>

---------------------------------------------------------------------------
(* The ledger and the journal.                                             *)

Ledger == [recs : [Path -> Record], stamp : Nat]

\* default_ledger: what load_ledger answers when there is no file.
NoLedger == [recs |-> [p \in Path |-> NoRecord], stamp |-> 0]

Entries   == [Path -> FileOrNone]
NoEntries == [p \in Path |-> None]

\* "pending" holds one entry at most; the two lists together name what a
\* rollback restores.
Statuses == {"none", "open", "ready-to-commit", "committed", "rolling-back",
             "rollback-failed"}

Journal == [status : Statuses, before : Ledger, after : Ledger,
            completed : Entries, pending : Entries]

NoJournal == [status |-> "none", before |-> NoLedger, after |-> NoLedger,
              completed |-> NoEntries, pending |-> NoEntries]

Entry(j, p) == IF j.completed[p] # None THEN j.completed[p] ELSE j.pending[p]

Entered(j) == {p \in Path : Entry(j, p) # None}

\* recover finalizes this transaction instead of rolling it back.
Committed(j, l) ==
  /\ j.status \in {"ready-to-commit", "committed"}
  /\ l = j.after

\* The values the process variables have when no process runs.
Stopped ==
  /\ pc' = "idle"
  /\ cur' = {}
  /\ held' = None
  /\ plan' = [p \in Path |-> NoOp]
  /\ mem' = NoLedger
  /\ jm' = NoJournal
  /\ rest' = {}
  /\ errs' = FALSE

Init ==
  /\ files \in InitialFiles
  /\ ledger = NoLedger
  /\ journal = NoJournal
  /\ recov = NoEntries
  /\ visible = [p \in Path |-> {}]
  /\ pc = "idle"
  /\ cur = {}
  /\ held = None
  /\ plan = [p \in Path |-> NoOp]
  /\ mem = NoLedger
  /\ jm = NoJournal
  /\ rest = {}
  /\ errs = FALSE
  /\ count = [commands |-> 0, edits |-> 0, crashes |-> 0, faults |-> 0]
  /\ base = [files |-> files, ledger |-> NoLedger]
  /\ mine = [p \in Path |-> files[p].user]

---------------------------------------------------------------------------
(* A command starts.  With a journal on disk both refuse                   *)
(* (ensure_journal_clear).                                                 *)

Begin(newPlan) ==
  /\ pc = "idle"
  /\ journal = NoJournal
  /\ count.commands < MaxCommands
  /\ count' = [count EXCEPT !.commands = @ + 1]
  /\ plan' = newPlan
  /\ mem' = ledger
  /\ jm' = [NoJournal EXCEPT !.status = "open", !.before = ledger]
  /\ journal' = jm'
  /\ recov' = NoEntries
  /\ base' = [files |-> files, ledger |-> ledger]
  /\ pc' = "next"
  /\ UNCHANGED <<files, ledger, visible, cur, held, rest, errs, mine>>

BeginApply(sel, v) ==
  /\ ~ PlanRefused(sel, v, files, ledger.recs)
  /\ Begin(ApplyPlan(sel, v, files, ledger.recs))

BeginUninstall(sel) == Begin(UninstallPlan(sel, ledger.recs))

---------------------------------------------------------------------------
(* The loop over the operations, in the order of their destinations.       *)

Reached(p) ==
  /\ pc = "next"
  /\ plan[p] # NoOp
  /\ \A q \in Path : q < p => plan[q] = NoOp

\* Mutant of Keep: an operation that changes nothing is not recorded.
KeepUnrecorded(p) ==
  /\ Reached(p)
  /\ plan[p].op # "remove"
  /\ files[p] = plan[p].content
  /\ plan' = [plan EXCEPT ![p] = NoOp]
  /\ UNCHANGED <<disk, pc, cur, held, mem, jm, rest, errs, count, history>>

\* apply: the content is already there; only the record is refreshed.
Keep(p) ==
  /\ Reached(p)
  /\ plan[p].op # "remove"
  /\ ~ Refused(plan[p], files[p], mem.recs[p])
  /\ files[p] = plan[p].content
  /\ mem' = [mem EXCEPT !.recs[p] = OperationRecord(plan[p], files[p], @)]
  /\ plan' = [plan EXCEPT ![p] = NoOp]
  /\ UNCHANGED <<disk, pc, cur, held, jm, rest, errs, count, history>>

\* apply: a modified or foreign file; the whole transaction fails.
Refuse(p) ==
  /\ Reached(p)
  /\ plan[p].op # "remove"
  /\ Refused(plan[p], files[p], mem.recs[p])
  /\ pc' = "failed"
  /\ UNCHANGED <<disk, cur, held, plan, mem, jm, rest, errs, count, history>>

\* uninstall: other hosts still own the artifact.
Shrink(p) ==
  /\ Reached(p)
  /\ plan[p].op = "remove"
  /\ plan[p].owners # {}
  /\ mem' = [mem EXCEPT !.recs[p] = [@ EXCEPT !.owners = plan[p].owners]]
  /\ plan' = [plan EXCEPT ![p] = NoOp]
  /\ UNCHANGED <<disk, pc, cur, held, jm, rest, errs, count, history>>

\* uninstall: a modified file stays, and its record with no owner.
Preserve(p) ==
  /\ Reached(p)
  /\ plan[p].op = "remove"
  /\ plan[p].owners = {}
  /\ ~ Matches(files[p], mem.recs[p])
  /\ mem' = [mem EXCEPT !.recs[p] = [@ EXCEPT !.owners = {}]]
  /\ plan' = [plan EXCEPT ![p] = NoOp]
  /\ UNCHANGED <<disk, pc, cur, held, jm, rest, errs, count, history>>

\* The destination is going to change.
Mutates(p) ==
  IF plan[p].op = "remove"
  THEN plan[p].owners = {} /\ Matches(files[p], mem.recs[p])
  ELSE /\ ~ Refused(plan[p], files[p], mem.recs[p])
       /\ files[p] # plan[p].content

\* snapshot_path, and the pending entry in memory.
Snapshot(p) ==
  /\ Reached(p)
  /\ Mutates(p)
  /\ recov' = IF files[p].kind = "file"
              THEN [recov EXCEPT ![p] = files[p]] ELSE recov
  /\ jm' = [jm EXCEPT !.pending = [NoEntries EXCEPT ![p] = files[p]]]
  /\ cur' = {p}
  /\ pc' = "pend"
  /\ UNCHANGED <<files, ledger, journal, visible, held, plan, mem, rest, errs,
                 count, history>>

\* Mutant of WritePending: the mutation runs before it is journalled.
SkipPending ==
  /\ pc = "pend"
  /\ pc' = "unlink"
  /\ UNCHANGED <<disk, cur, held, plan, mem, jm, rest, errs, count, history>>

WritePending ==
  /\ pc = "pend"
  /\ journal' = jm
  /\ pc' = "unlink"
  /\ UNCHANGED <<files, ledger, recov, visible, cur, held, plan, mem, jm, rest,
                 errs, count, history>>

\* What the operation leaves at its destination.
Result(p) ==
  IF plan[p].op = "remove" THEN AfterRemoval(jm.pending[p], mem.recs[p])
  ELSE plan[p].content

\* An uninstall leaves the path alone when what it replaced was neither
\* absent, nor a file, nor a link.
Untouched(p) ==
  /\ plan[p].op = "remove"
  /\ ~ mem.recs[p].created
  /\ mem.recs[p].original.kind \notin {"file", "symlink"}

\* Mutant of VisibleCopies: no visible backup.
NoVisibleCopy(p) == visible

\* legacy-replace keeps a visible copy of a differing file.
VisibleCopies(p) ==
  IF plan[p].op = "legacy-replace" /\ files[p].kind = "file"
  THEN [visible EXCEPT ![p] = @ \cup {files[p].user}]
  ELSE visible

\* Then the old content goes.  A nonempty directory cannot be removed: rmdir
\* raises.
Unlink(p) ==
  /\ pc = "unlink"
  /\ p \in cur
  /\ IF files[p].kind = "other"
     THEN /\ pc' = "failed"
          /\ UNCHANGED <<files, visible>>
     ELSE /\ pc' = "write"
          /\ files' = IF Untouched(p) THEN files
                      ELSE [files EXCEPT ![p] = Absent]
          /\ visible' = VisibleCopies(p)
  /\ UNCHANGED <<ledger, journal, recov, cur, held, plan, mem, jm, rest, errs,
                 count, history>>

Write(p) ==
  /\ pc = "write"
  /\ p \in cur
  /\ files' = IF Untouched(p) THEN files ELSE [files EXCEPT ![p] = Result(p)]
  /\ pc' = "pop"
  /\ UNCHANGED <<ledger, journal, recov, visible, cur, held, plan, mem, jm,
                 rest, errs, count, history>>

\* journal["completed"].append(journal.pop("pending")): the entry is out of
\* the dictionary before it is in the list.
Pop(p) ==
  /\ pc = "pop"
  /\ p \in cur
  /\ held' = jm.pending[p]
  /\ jm' = [jm EXCEPT !.pending = NoEntries]
  /\ pc' = "append"
  /\ UNCHANGED <<disk, cur, plan, mem, rest, errs, count, history>>

\* ... appended, written, and the record changed in memory.
Append(p) ==
  /\ pc = "append"
  /\ p \in cur
  /\ jm' = [jm EXCEPT !.completed[p] = held]
  /\ journal' = jm'
  /\ mem' = [mem EXCEPT !.recs[p] =
               IF plan[p].op = "remove" THEN NoRecord
               ELSE OperationRecord(plan[p], held, @)]
  /\ plan' = [plan EXCEPT ![p] = NoOp]
  /\ held' = None
  /\ cur' = {}
  /\ pc' = "next"
  /\ UNCHANGED <<files, ledger, recov, visible, rest, errs, count, history>>

---------------------------------------------------------------------------
(* The commit.                                                             *)

ReadyToCommit ==
  /\ pc = "next"
  /\ \A p \in Path : plan[p] = NoOp
  /\ mem' = [mem EXCEPT !.stamp = count.commands]
  /\ jm' = [jm EXCEPT !.status = "ready-to-commit", !.after = mem']
  /\ journal' = jm'
  /\ pc' = "ledger"
  /\ UNCHANGED <<files, ledger, recov, visible, cur, held, plan, rest, errs,
                 count, history>>

WriteLedger ==
  /\ pc = "ledger"
  /\ ledger' = mem
  /\ pc' = "mark"
  /\ UNCHANGED <<files, journal, recov, visible, cur, held, plan, mem, jm, rest,
                 errs, count, history>>

MarkCommitted ==
  /\ pc = "mark"
  /\ jm' = [jm EXCEPT !.status = "committed"]
  /\ journal' = jm'
  /\ pc' = "clear"
  /\ UNCHANGED <<files, ledger, recov, visible, cur, held, plan, mem, rest, errs,
                 count, history>>

ClearJournal ==
  /\ pc = "clear"
  /\ journal' = NoJournal
  /\ pc' = "sync"
  /\ UNCHANGED <<files, ledger, recov, visible, cur, held, plan, mem, jm, rest,
                 errs, count, history>>

SyncDirectory ==
  /\ pc = "sync"
  /\ pc' = "clean"
  /\ UNCHANGED <<disk, cur, held, plan, mem, jm, rest, errs, count, history>>

\* shutil.rmtree(recovery_root), one copy after the other.
Clean ==
  /\ pc = "clean"
  /\ \/ \E p \in Path :
          /\ recov[p] # None
          /\ recov' = [recov EXCEPT ![p] = None]
          /\ UNCHANGED process
     \/ /\ recov = NoEntries
        /\ Stopped
        /\ UNCHANGED recov
  /\ UNCHANGED <<files, ledger, journal, visible, count, history>>

---------------------------------------------------------------------------
(* except BaseException: the rollback.                                     *)

Fail ==
  /\ pc \in FailAt \ {"undo", "restore"}
  /\ count.faults < MaxFaults
  /\ count' = [count EXCEPT !.faults = @ + 1]
  /\ pc' = "failed"
  /\ UNCHANGED <<disk, cur, held, plan, mem, jm, rest, errs, history>>

\* Mutant of UndoList: the pending entry is forgotten.
CompletedOnly(j) == j.completed

\* The pending entry joins the completed ones.
UndoList(j) == [p \in Path |-> Entry(j, p)]

Handle ==
  /\ pc = "failed"
  /\ jm' = [jm EXCEPT !.status = "rolling-back",
                      !.completed = UndoList(jm),
                      !.pending = NoEntries]
  /\ journal' = jm'
  /\ rest' = Entered(jm')
  /\ errs' = FALSE
  /\ held' = None
  /\ cur' = {}
  /\ pc' = "undo"
  /\ UNCHANGED <<files, ledger, recov, visible, plan, mem, count, history>>

\* rollback_journal goes through the entries backwards.
Undoing(p) ==
  /\ pc = "undo"
  /\ p \in rest
  /\ \A q \in rest : q <= p

\* restore_snapshot, first half: whatever is there goes.
UndoUnlink(p) ==
  /\ Undoing(p)
  /\ files[p].kind # "other"
  /\ files' = [files EXCEPT ![p] = Absent]
  /\ cur' = {p}
  /\ pc' = "restore"
  /\ UNCHANGED <<ledger, journal, recov, visible, held, plan, mem, jm, rest,
                 errs, count, history>>

\* Second half: the prior content comes back, from the recovery copy if it
\* was a file.
Restorable(p) ==
  CASE Entry(jm, p).kind = "file"  -> recov[p] # None
    [] Entry(jm, p).kind = "other" -> FALSE
    [] OTHER                       -> TRUE

Restored(p) ==
  IF Entry(jm, p).kind = "file" THEN recov[p] ELSE Entry(jm, p)

\* Mutant of Restore: the entry stays on the list.
RestoreAgain(p) ==
  /\ pc = "restore"
  /\ p \in cur
  /\ Restorable(p)
  /\ files' = [files EXCEPT ![p] = Restored(p)]
  /\ cur' = {}
  /\ pc' = "undo"
  /\ UNCHANGED <<ledger, journal, recov, visible, held, plan, mem, jm, rest,
                 errs, count, history>>

Restore(p) ==
  /\ pc = "restore"
  /\ p \in cur
  /\ Restorable(p)
  /\ files' = [files EXCEPT ![p] = Restored(p)]
  /\ rest' = rest \ {p}
  /\ cur' = {}
  /\ pc' = "undo"
  /\ UNCHANGED <<ledger, journal, recov, visible, held, plan, mem, jm, errs,
                 count, history>>

\* An entry that cannot be restored is reported and the loop goes on.
SkipEntry(p) ==
  /\ errs' = TRUE
  /\ rest' = rest \ {p}
  /\ cur' = {}
  /\ pc' = "undo"
  /\ UNCHANGED <<disk, held, plan, mem, jm, history>>

CannotRestore(p) ==
  /\ \/ Undoing(p) /\ files[p].kind = "other"
     \/ pc = "restore" /\ p \in cur /\ ~ Restorable(p)
  /\ SkipEntry(p)
  /\ UNCHANGED count

\* Ctrl-C or an I/O error inside restore_snapshot.
RestoreFails(p) ==
  /\ pc \in FailAt
  /\ Undoing(p) \/ (pc = "restore" /\ p \in cur)
  /\ count.faults < MaxFaults
  /\ count' = [count EXCEPT !.faults = @ + 1]
  /\ SkipEntry(p)

\* Mutant of RestoreLedger: the files are rolled back, the ledger is not.
RestoreFilesOnly ==
  /\ pc = "undo"
  /\ rest = {}
  /\ ~ errs
  /\ pc' = "forget"
  /\ UNCHANGED <<disk, cur, held, plan, mem, jm, rest, errs, count, history>>

RestoreLedger ==
  /\ pc = "undo"
  /\ rest = {}
  /\ ~ errs
  /\ ledger' = jm.before
  /\ pc' = "forget"
  /\ UNCHANGED <<files, journal, recov, visible, cur, held, plan, mem, jm, rest,
                 errs, count, history>>

\* Mutant of ForgetJournal: the journal outlives its rollback.
ForgetNothing == pc = "forget" /\ Stopped /\ UNCHANGED <<disk, count, history>>

ForgetJournal ==
  /\ pc = "forget"
  /\ journal' = NoJournal
  /\ Stopped
  /\ UNCHANGED <<files, ledger, recov, visible, count, history>>

KeepJournal ==
  /\ pc = "undo"
  /\ rest = {}
  /\ errs
  /\ journal' = [jm EXCEPT !.status = "rollback-failed"]
  /\ Stopped
  /\ UNCHANGED <<files, ledger, recov, visible, count, history>>

---------------------------------------------------------------------------
(* --recover.  Without --apply main refuses before it takes the lock.      *)

RecoverStarts ==
  /\ TRUE \in RecoverFlags
  /\ pc = "idle"
  /\ journal # NoJournal

\* Mutant of Finalize: the status is believed without looking at the ledger.
FinalizeUnchecked ==
  /\ RecoverStarts
  /\ journal.status \in {"ready-to-commit", "committed"}
  /\ journal' = NoJournal
  /\ UNCHANGED <<files, ledger, recov, visible, process, count, history>>

Finalize ==
  /\ RecoverStarts
  /\ Committed(journal, ledger)
  /\ journal' = NoJournal
  /\ UNCHANGED <<files, ledger, recov, visible, process, count, history>>

RollBackJournal ==
  /\ RecoverStarts
  /\ ~ Committed(journal, ledger)
  /\ jm' = journal
  /\ rest' = Entered(journal)
  /\ pc' = "undo"
  /\ UNCHANGED <<disk, cur, held, plan, mem, errs, count, history>>

---------------------------------------------------------------------------
(* The environment: kill -9 or a power cut, and users.                     *)

Crash ==
  /\ pc # "idle"
  /\ count.crashes < MaxCrashes
  /\ count' = [count EXCEPT !.crashes = @ + 1]
  /\ Stopped
  /\ UNCHANGED <<disk, history>>

Window ==
  IF pc # "idle" THEN "running"
  ELSE IF journal = NoJournal THEN "settled" ELSE "outage"

\* A user writes into a file (keeping the release's part), deletes it, or
\* replaces it by a symbolic link.
Edited(f, u) ==
  {g \in File :
     \/ /\ "write" \in EditKinds
        /\ g = [kind |-> "file", user |-> u,
                rel |-> IF f.kind = "file" THEN f.rel ELSE 0]
     \/ "delete" \in EditKinds /\ g = Absent
     \/ "link" \in EditKinds /\ g = [kind |-> "symlink", user |-> u, rel |-> 0]}

UserEdit(p) ==
  /\ Window \in EditWindows
  /\ count.edits < MaxEdits
  /\ count' = [count EXCEPT !.edits = @ + 1]
  /\ files[p].kind # "other"
  /\ \E u \in UserContent : \E g \in Edited(files[p], u) :
       /\ files' = [files EXCEPT ![p] = g]
       /\ mine' = [mine EXCEPT ![p] = g.user]
  /\ UNCHANGED <<ledger, journal, recov, visible, process, base>>

---------------------------------------------------------------------------
(* The specification.                                                      *)

Step(p) ==
  \/ Keep(p) \/ Refuse(p) \/ Shrink(p) \/ Preserve(p) \/ Snapshot(p)
  \/ Unlink(p) \/ Write(p) \/ Pop(p) \/ Append(p)
  \/ UndoUnlink(p) \/ Restore(p) \/ CannotRestore(p)

\* What the running process does unless something stops it.
Advance ==
  \/ \E p \in Path : Step(p)
  \/ WritePending
  \/ ReadyToCommit \/ WriteLedger \/ MarkCommitted \/ ClearJournal
  \/ SyncDirectory \/ Clean
  \/ Handle \/ RestoreLedger \/ ForgetJournal \/ KeepJournal

Recover == Finalize \/ RollBackJournal

Next ==
  \/ \E sel \in Selections :
       \/ \E v \in Releases : BeginApply(sel, v)
       \/ BeginUninstall(sel)
  \/ Advance
  \/ Recover
  \/ Fail
  \/ \E p \in Path : RestoreFails(p)
  \/ Crash
  \/ \E p \in Path : UserEdit(p)

Spec == Init /\ [][Next]_vars

\* A started process runs, and somebody issues the recovery command for a
\* journal that stays.
FairSpec == Spec /\ WF_vars(Advance) /\ WF_vars(Recover)
============================================================================
