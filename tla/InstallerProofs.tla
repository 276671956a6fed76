-------------------------- MODULE InstallerProofs --------------------------
(***************************************************************************)
(* Proofs about Installer for every set of destinations, hosts, releases   *)
(* and user contents, and every bound.                                     *)
(***************************************************************************)
EXTENDS InstallerProperties, TLAPS

---------------------------------------------------------------------------
(* Type correctness.  What a step writes is well typed because of where    *)
(* cur and rest point: at a planned operation while it is performed, at a  *)
(* journal entry while it is undone.                                       *)

Performing == {"pend", "unlink", "write", "pop", "append"}

Pointers ==
  /\ pc \in Performing => \A p \in cur : plan[p] # NoOp
  /\ pc = "undo" => rest \subseteq Entered(jm)
  /\ pc = "restore" => cur \subseteq Entered(jm) /\ rest \subseteq Entered(jm)

TypeInv == TypeOK /\ Pointers

---------------------------------------------------------------------------
(* Reversibility.                                                          *)

\* Exceptions that are raised neither between the two halves of
\* completed.append(pop("pending")) nor in the removal of the recovery
\* copies; users who leave the destinations alone while a transaction runs or
\* waits to be recovered.
Undisturbed ==
  /\ FailAt \cap {"append", "clean"} = {}
  /\ EditWindows \subseteq {"settled"}

\* The entry popped from the journal in memory is the one Append puts back.
HeldReversible ==
  /\ jm.before = base.ledger
  /\ \A p \in cur : /\ held # None
                    /\ held = base.files[p]
                    /\ held.kind = "file" => recov[p] = base.files[p]
  /\ \A p \in Path \ cur :
       IF Entry(jm, p) = None THEN files[p] = base.files[p]
       ELSE /\ Entry(jm, p) = base.files[p]
            /\ Entry(jm, p).kind = "file" => recov[p] = base.files[p]

\* The part of the journal in memory the loop over the operations relies on.
LoopInv ==
  /\ \A p, q \in cur : p = q
  /\ pc \in {"next", "append"} => jm.pending = NoEntries
  /\ pc \in Performing \cup {"next"} =>
       \A p \in Path : plan[p] # NoOp => jm.completed[p] = None
  /\ pc \in {"pend", "unlink", "write", "pop"} =>
       \A p \in Path : (jm.pending[p] # None) <=> p \in cur

\* Where the disk and the memory hold the same journal.
JournalInv ==
  /\ pc \in {"next", "unlink", "write", "pop", "undo", "restore", "forget"} =>
       journal = jm
  /\ pc \in {"sync", "clean"} => journal = NoJournal

\* What a rollback without errors has done so far.
UndoInv ==
  /\ pc \in {"undo", "restore"} /\ ~ errs =>
       \A p \in Path \ rest : files[p] = base.files[p]
  /\ pc = "restore" => cur \subseteq rest
  /\ RollbackRestores

ReversibleInv ==
  /\ LoopInv
  /\ JournalInv
  /\ UndoInv
  /\ journal # NoJournal => Reversible(journal)
  /\ pc \notin {"idle", "append", "clean"} => Reversible(jm)
  /\ pc = "append" => HeldReversible

---------------------------------------------------------------------------
(* The values the definitions build.                                       *)

\* None is no content, and the empty values are of their kinds.
LEMMA Constants ==
  /\ None \notin File
  /\ Absent \in File
  /\ Link \in File
  /\ NoRecord \in Record
  /\ NoEntries \in Entries
  /\ NoLedger \in Ledger
  /\ NoJournal \in Journal
BY DEF None, File, Absent, Link, NoRecord, Record, FileOrNone, NoEntries,
       Entries, NoLedger, Ledger, NoJournal, Journal, Statuses

\* An entry, where there is one, is the content of a destination.
LEMMA EntryType ==
  ASSUME NEW j \in Journal, NEW p \in Path
  PROVE  /\ Entry(j, p) \in FileOrNone
         /\ p \in Entered(j) => Entry(j, p) \in File
BY DEF Entry, Entered, Journal, Entries, FileOrNone

\* The content an installation writes is a file or a link.
LEMMA ContentType ==
  ASSUME NEW p \in Path, NEW v \in Releases, NEW fs \in [Path -> File]
  PROVE  Content(p, v, fs) \in File
<1>1. /\ Shipped(v) \in File
      /\ Merge(fs[p], v) \in File
      /\ Link \in File
  BY DEF Shipped, Merge, Link, File
<1> QED BY <1>1 DEF Content

\* build_operations yields installations only, at destinations only.
LEMMA ApplyPlanType ==
  ASSUME NEW sel \in SUBSET Host, NEW v \in Releases,
         NEW fs \in [Path -> File], NEW rs
  PROVE  ApplyPlan(sel, v, fs, rs) \in Plan
<1> DEFINE items  == Wanted(sel, fs)
           direct == {p \in items : ~ Staged(p, v, fs, rs)}
           staged == items \ direct
           fragment(q) ==
             [op |-> "staged-fragment", content |-> Shipped(v),
              owners |-> UNION {Owners(sel, p) : p \in
                                  {s \in staged : StageOf[s] = q}}]
           copy(q) == [op |-> ResolvedOp(q), content |-> Content(q, v, fs),
                       owners |-> Owners(sel, q)]
<1>1. \A q \in Path : fragment(q) \in Installation
  <2>1. Shipped(v) \in File
    BY DEF Shipped, File
  <2>2. \A p : Owners(sel, p) \subseteq Host
    BY DEF Owners
  <2> QED BY <2>1, <2>2 DEF Installation, OpKind
<1>2. \A q \in Path : copy(q) \in Installation
  <2> TAKE q \in Path
  <2>1. Content(q, v, fs) \in File
    BY ContentType
  <2>2. ResolvedOp(q) \in OpKind \cup {"managed-config"}
    BY DataAssumption DEF ResolvedOp, OpKind
  <2>3. Owners(sel, q) \subseteq Host
    BY DEF Owners
  <2> QED BY <2>1, <2>2, <2>3 DEF Installation
<1>3. ApplyPlan(sel, v, fs, rs) =
        [q \in Path |-> IF q \in direct THEN copy(q)
                        ELSE IF \E p \in staged : StageOf[p] = q
                        THEN fragment(q) ELSE NoOp]
  BY DEF ApplyPlan
<1> HIDE DEF direct, staged, fragment, copy
<1> QED BY <1>1, <1>2, <1>3 DEF Plan

\* uninstall reviews what the ledger records.
LEMMA UninstallPlanType ==
  ASSUME NEW sel \in SUBSET Host, NEW rs \in [Path -> Record]
  PROVE  UninstallPlan(sel, rs) \in Plan
BY DEF UninstallPlan, Plan, Removal, Record

\* What an uninstall leaves is the content of a destination.
LEMMA AfterRemovalType ==
  ASSUME NEW f \in FileOrNone, NEW r \in Record,
         r.created \/ r.original.kind \in {"file", "symlink"}
  PROVE  AfterRemoval(f, r) \in File
<1>1. r.original.kind \in {"file", "symlink"} => r.original \in File
  BY DEF Record, FileOrNone, None
<1> QED BY <1>1, Constants DEF AfterRemoval

\* operation_record builds a record.
LEMMA OperationRecordType ==
  ASSUME NEW o \in Installation, NEW f \in FileOrNone, NEW r \in Record
  PROVE  OperationRecord(o, f, r) \in Record
BY DEF OperationRecord, Installation, Record, FileOrNone

---------------------------------------------------------------------------
(* TypeInv is inductive.                                                   *)

LEMMA TypeInit == Init => TypeInv
<1> SUFFICES ASSUME Init PROVE TypeInv
  OBVIOUS
<1>1. files \in [Path -> File]
  BY InstallerAssumption DEF Init
<1>2. mine \in [Path -> {0} \cup UserContent]
  BY <1>1 DEF Init, File
<1> QED
  BY <1>1, <1>2, Constants
  DEF Init, TypeInv, TypeOK, Pointers, Performing, PcValues, FailPoints, Plan,
      Counts, FileOrNone

\* A process that ends leaves its variables well typed.
LEMMA TypeStopped ==
  ASSUME Stopped
  PROVE  /\ pc' \in PcValues /\ cur' \subseteq Path /\ held' \in FileOrNone
         /\ plan' \in Plan /\ mem' \in Ledger /\ jm' \in Journal
         /\ rest' \subseteq Path /\ errs' \in BOOLEAN /\ Pointers'
BY Constants DEF Stopped, PcValues, FileOrNone, Plan, Pointers, Performing

LEMMA TypeBegin ==
  ASSUME TypeInv, NEW newPlan \in Plan, Begin(newPlan)
  PROVE  TypeInv'
<1>1. jm' \in Journal
  BY Constants DEF Begin, Journal, TypeInv, TypeOK, Statuses
<1>2. count' \in Counts
  BY DEF Begin, TypeInv, TypeOK, Counts
<1> QED
  BY <1>1, <1>2, Constants
  DEF Begin, TypeInv, TypeOK, Pointers, Performing, PcValues, FailPoints

\* The ledger in memory keeps its kind when one record changes.
LEMMA LedgerUpdate ==
  ASSUME NEW l \in Ledger, NEW p \in Path, NEW r \in Record
  PROVE  [l EXCEPT !.recs[p] = r] \in Ledger
BY DEF Ledger

\* A record keeps its kind when its owners change.
LEMMA OwnersUpdate ==
  ASSUME NEW r \in Record, NEW owners \in SUBSET Host
  PROVE  [r EXCEPT !.owners = owners] \in Record
BY DEF Record

LEMMA TypeLoop ==
  ASSUME TypeInv, NEW p \in Path,
         Keep(p) \/ Refuse(p) \/ Shrink(p) \/ Preserve(p) \/ Snapshot(p)
  PROVE  TypeInv'
<1> USE DEF TypeInv, Reached
<1>0. plan[p] \in Installation \cup Removal
  BY DEF TypeOK, Plan, Keep, Refuse, Shrink, Preserve, Snapshot
<1>1. CASE Keep(p)
  <2>1. plan[p] \in Installation
    BY <1>0, <1>1 DEF Keep, Removal
  <2>2. mem' \in Ledger
    <3>1. OperationRecord(plan[p], files[p], mem.recs[p]) \in Record
      BY <2>1, OperationRecordType DEF TypeOK, FileOrNone, Ledger
    <3> QED BY <1>1, <3>1, LedgerUpdate DEF Keep, TypeOK
  <2>3. plan' \in Plan
    BY <1>1 DEF Keep, TypeOK, Plan
  <2> QED
    BY <1>1, <2>2, <2>3
    DEF Keep, TypeOK, Pointers, Performing, disk, history
<1>2. CASE Refuse(p)
  BY <1>2 DEF Refuse, TypeOK, Pointers, Performing, disk, history, PcValues
<1>3. CASE Shrink(p)
  <2>1. mem' \in Ledger
    <3>1. [mem.recs[p] EXCEPT !.owners = plan[p].owners] \in Record
      <4>1. mem.recs[p] \in Record /\ plan[p].owners \in SUBSET Host
        BY <1>0 DEF TypeOK, Ledger, Installation, Removal
      <4> QED BY <4>1, OwnersUpdate
    <3>2. mem' = [mem EXCEPT !.recs[p] =
                    [mem.recs[p] EXCEPT !.owners = plan[p].owners]]
      BY <1>3 DEF Shrink
    <3> QED BY <3>1, <3>2, LedgerUpdate DEF TypeOK
  <2>2. plan' \in Plan
    BY <1>3 DEF Shrink, TypeOK, Plan
  <2> QED
    BY <1>3, <2>1, <2>2
    DEF Shrink, TypeOK, Pointers, Performing, disk, history
<1>4. CASE Preserve(p)
  <2>1. mem' \in Ledger
    <3>1. [mem.recs[p] EXCEPT !.owners = {}] \in Record
      <4>1. mem.recs[p] \in Record
        BY DEF TypeOK, Ledger
      <4> QED BY <4>1, OwnersUpdate
    <3>2. mem' = [mem EXCEPT !.recs[p] = [mem.recs[p] EXCEPT !.owners = {}]]
      BY <1>4 DEF Preserve
    <3> QED BY <3>1, <3>2, LedgerUpdate DEF TypeOK
  <2>2. plan' \in Plan
    BY <1>4 DEF Preserve, TypeOK, Plan
  <2> QED
    BY <1>4, <2>1, <2>2
    DEF Preserve, TypeOK, Pointers, Performing, disk, history
<1>5. CASE Snapshot(p)
  <2>1. recov' \in Entries
    BY <1>5 DEF Snapshot, TypeOK, Entries, FileOrNone
  <2>2. jm' \in Journal
    <3>1. [NoEntries EXCEPT ![p] = files[p]] \in Entries
      BY Constants DEF TypeOK, Entries, FileOrNone
    <3> QED BY <1>5, <3>1 DEF Snapshot, TypeOK, Journal
  <2> QED
    BY <1>5, <2>1, <2>2
    DEF Snapshot, TypeOK, Pointers, Performing, history, PcValues, FailPoints
<1> QED BY <1>1, <1>2, <1>3, <1>4, <1>5

LEMMA TypePerform ==
  ASSUME TypeInv, NEW p \in Path,
         Unlink(p) \/ Write(p) \/ Pop(p) \/ Append(p)
  PROVE  TypeInv'
<1> USE DEF TypeInv
<1>1. CASE Unlink(p)
  <2>0. files[p].user \in {0} \cup UserContent
    BY DEF TypeOK, File
  <2>1. VisibleCopies(p) \in [Path -> SUBSET ({0} \cup UserContent)]
    BY <2>0 DEF VisibleCopies, TypeOK
  <2>3. /\ files' \in [Path -> File]
        /\ visible' \in [Path -> SUBSET ({0} \cup UserContent)]
    BY <1>1, <2>1, Constants DEF Unlink, TypeOK
  <2>2. pc' \in {"failed", "write"}
    BY <1>1 DEF Unlink
  <2> QED
    BY <1>1, <2>3, <2>2
    DEF Unlink, TypeOK, Pointers, Performing, history, PcValues, FailPoints
<1>2. CASE Write(p)
  <2>0. plan[p] \in Installation \cup Removal
    BY <1>2 DEF Write, TypeOK, Plan, Pointers, Performing
  <2>1. ~ Untouched(p) => Result(p) \in File
    <3> SUFFICES ASSUME ~ Untouched(p) PROVE Result(p) \in File
      OBVIOUS
    <3>1. CASE plan[p].op = "remove"
      <4>1. /\ mem.recs[p] \in Record
            /\ jm.pending[p] \in FileOrNone
        BY DEF TypeOK, Ledger, Journal, Entries
      <4> QED BY <3>1, <4>1, AfterRemovalType DEF Result, Untouched
    <3>2. CASE plan[p].op # "remove"
      BY <2>0, <3>2 DEF Result, Installation, Removal
    <3> QED BY <3>1, <3>2
  <2>2. files' \in [Path -> File]
    BY <1>2, <2>1 DEF Write, TypeOK
  <2> QED
    BY <1>2, <2>2
    DEF Write, TypeOK, Pointers, Performing, history, PcValues, FailPoints
<1>3. CASE Pop(p)
  <2>1. jm' \in Journal /\ held' \in FileOrNone
    BY <1>3, Constants DEF Pop, TypeOK, Journal, Entries
  <2> QED
    BY <1>3, <2>1
    DEF Pop, TypeOK, Pointers, Performing, disk, history, PcValues, FailPoints
<1>4. CASE Append(p)
  <2>0. plan[p] \in Installation \cup Removal
    BY <1>4 DEF Append, TypeOK, Plan, Pointers, Performing
  <2>1. jm' \in Journal /\ journal' \in Journal
    BY <1>4 DEF Append, TypeOK, Journal, Entries
  <2>2. mem' \in Ledger
    <3> DEFINE r == IF plan[p].op = "remove" THEN NoRecord
                    ELSE OperationRecord(plan[p], held, mem.recs[p])
    <3>1. r \in Record
      <4>1. plan[p].op # "remove" => plan[p] \in Installation
        BY <2>0 DEF Removal
      <4> QED
        BY <4>1, Constants, OperationRecordType DEF TypeOK, Ledger
    <3>2. mem' = [mem EXCEPT !.recs[p] = r]
      BY <1>4 DEF Append
    <3> HIDE DEF r
    <3> QED BY <3>1, <3>2, LedgerUpdate DEF TypeOK
  <2>3. plan' \in Plan
    BY <1>4 DEF Append, TypeOK, Plan
  <2> QED
    BY <1>4, <2>1, <2>2, <2>3
    DEF Append, TypeOK, Pointers, Performing, history, PcValues, FailPoints,
        FileOrNone
<1> QED BY <1>1, <1>2, <1>3, <1>4

LEMMA TypeCommit ==
  ASSUME TypeInv,
         \/ WritePending \/ ReadyToCommit \/ WriteLedger \/ MarkCommitted \/ ClearJournal
         \/ SyncDirectory \/ Clean
  PROVE  TypeInv'
<1> USE DEF TypeInv
<1>1. CASE ReadyToCommit
  <2>1. mem' \in Ledger
    BY <1>1 DEF ReadyToCommit, TypeOK, Ledger, Counts
  <2>2. jm' \in Journal
    BY <1>1, <2>1 DEF ReadyToCommit, TypeOK, Journal, Statuses
  <2> QED
    BY <1>1, <2>1, <2>2
    DEF ReadyToCommit, TypeOK, Pointers, Performing, history, PcValues,
        FailPoints
<1>2. CASE WriteLedger
  BY <1>2 DEF WriteLedger, TypeOK, Pointers, Performing, history, PcValues,
              FailPoints
<1>3. CASE MarkCommitted
  <2>1. jm' \in Journal
    BY <1>3 DEF MarkCommitted, TypeOK, Journal, Statuses
  <2> QED
    BY <1>3, <2>1
    DEF MarkCommitted, TypeOK, Pointers, Performing, history, PcValues,
        FailPoints
<1>4. CASE ClearJournal
  BY <1>4, Constants
  DEF ClearJournal, TypeOK, Pointers, Performing, history, PcValues, FailPoints
<1>5. CASE SyncDirectory
  BY <1>5 DEF SyncDirectory, TypeOK, Pointers, Performing, disk, history,
              PcValues, FailPoints
<1>6. CASE Clean
  <2>1. recov' \in Entries
    BY <1>6 DEF Clean, TypeOK, Entries, FileOrNone
  <2>2. CASE UNCHANGED process
    BY <1>6, <2>1, <2>2
    DEF Clean, TypeOK, Pointers, Performing, process, history, PcValues
  <2>3. CASE Stopped
    BY <1>6, <2>1, <2>3, TypeStopped DEF Clean, TypeOK, history
  <2> QED BY <1>6, <2>2, <2>3 DEF Clean
<1>7. CASE WritePending
  BY <1>7 DEF WritePending, TypeOK, Pointers, Performing, history, PcValues,
              FailPoints
<1> QED BY <1>1, <1>2, <1>3, <1>4, <1>5, <1>6, <1>7

LEMMA TypeUndo ==
  ASSUME TypeInv, NEW p \in Path,
         UndoUnlink(p) \/ Restore(p) \/ CannotRestore(p) \/ RestoreFails(p)
  PROVE  TypeInv'
<1> USE DEF TypeInv
<1>1. CASE UndoUnlink(p)
  <2>1. files' \in [Path -> File]
    BY <1>1, Constants DEF UndoUnlink, TypeOK
  <2> QED
    BY <1>1, <2>1
    DEF UndoUnlink, Undoing, TypeOK, Pointers, Performing, history, PcValues,
        FailPoints, Entered
<1>2. CASE Restore(p)
  <2>1. Restored(p) \in File
    <3>1. Entry(jm, p) \in File
      BY <1>2, EntryType DEF Restore, Pointers, TypeOK
    <3>2. Entry(jm, p).kind = "file" => recov[p] \in File
      BY <1>2 DEF Restore, Restorable, TypeOK, Entries, FileOrNone
    <3> QED BY <3>1, <3>2 DEF Restored
  <2>2. files' \in [Path -> File]
    BY <1>2, <2>1 DEF Restore, TypeOK
  <2> QED
    BY <1>2, <2>2
    DEF Restore, TypeOK, Pointers, Performing, history, PcValues, FailPoints,
        Entered
<1>3. CASE CannotRestore(p) \/ RestoreFails(p)
  <2>1. SkipEntry(p) /\ count' \in Counts /\ pc \in {"undo", "restore"}
    BY <1>3 DEF CannotRestore, RestoreFails, Undoing, TypeOK, Counts
  <2> QED
    BY <2>1 DEF SkipEntry, TypeOK, Pointers, Performing, disk, history,
                PcValues, FailPoints, Entered
<1> QED BY <1>1, <1>2, <1>3

LEMMA TypeRollback ==
  ASSUME TypeInv,
         Fail \/ Handle \/ RestoreLedger \/ ForgetJournal \/ KeepJournal
  PROVE  TypeInv'
<1> USE DEF TypeInv
<1>1. CASE Fail
  BY <1>1 DEF Fail, TypeOK, Pointers, Performing, disk, history, PcValues,
              Counts
<1>2. CASE Handle
  <2>1. jm' \in Journal
    <3>1. UndoList(jm) \in Entries
      BY EntryType DEF UndoList, Entries, TypeOK
    <3> QED BY <1>2, <3>1, Constants DEF Handle, TypeOK, Journal, Statuses
  <2> QED
    BY <1>2, <2>1
    DEF Handle, TypeOK, Pointers, Performing, history, PcValues, FailPoints,
        Entered, FileOrNone
<1>3. CASE RestoreLedger
  BY <1>3 DEF RestoreLedger, TypeOK, Pointers, Performing, history, PcValues,
              Journal
<1>4. CASE ForgetJournal
  BY <1>4, TypeStopped, Constants DEF ForgetJournal, TypeOK, history
<1>5. CASE KeepJournal
  <2>1. journal' \in Journal
    BY <1>5 DEF KeepJournal, TypeOK, Journal, Statuses
  <2> QED BY <1>5, <2>1, TypeStopped DEF KeepJournal, TypeOK, history
<1> QED BY <1>1, <1>2, <1>3, <1>4, <1>5

LEMMA TypeEnvironment ==
  ASSUME TypeInv, Recover \/ Crash \/ \E p \in Path : UserEdit(p)
  PROVE  TypeInv'
<1> USE DEF TypeInv
<1>1. CASE Finalize
  BY <1>1, Constants DEF Finalize, TypeOK, process, history, Pointers,
                         Performing, Entered
<1>2. CASE RollBackJournal
  BY <1>2 DEF RollBackJournal, RecoverStarts, TypeOK, disk, history, Pointers,
              Performing, PcValues, FailPoints, Entered
<1>3. CASE Crash
  BY <1>3, TypeStopped DEF Crash, TypeOK, disk, history, Counts
<1>4. ASSUME NEW p \in Path, UserEdit(p) PROVE TypeInv'
  <2>0. PICK u \in UserContent : \E g \in Edited(files[p], u) :
          /\ files' = [files EXCEPT ![p] = g]
          /\ mine' = [mine EXCEPT ![p] = g.user]
    BY <1>4 DEF UserEdit
  <2>1. PICK g \in Edited(files[p], u) :
          /\ files' = [files EXCEPT ![p] = g]
          /\ mine' = [mine EXCEPT ![p] = g.user]
    BY <2>0
  <2>2. g \in File /\ g.user \in {0} \cup UserContent
    BY DEF Edited, File
  <2>3. files' \in [Path -> File] /\ mine' \in [Path -> {0} \cup UserContent]
    BY <2>1, <2>2 DEF TypeOK
  <2> QED
    BY <1>4, <2>3 DEF UserEdit, TypeOK, process, Pointers, Performing, Counts,
                      Entered
<1> QED BY <1>1, <1>2, <1>3, <1>4 DEF Recover

LEMMA TypeStep == TypeInv /\ [Next]_vars => TypeInv'
<1> SUFFICES ASSUME TypeInv, [Next]_vars PROVE TypeInv'
  OBVIOUS
<1>1. ASSUME NEW sel \in Selections, NEW v \in Releases, BeginApply(sel, v)
      PROVE  TypeInv'
  <2>1. ApplyPlan(sel, v, files, ledger.recs) \in Plan
    BY DataAssumption, ApplyPlanType DEF TypeInv, TypeOK
  <2> QED BY <1>1, <2>1, TypeBegin DEF BeginApply
<1>2. ASSUME NEW sel \in Selections, BeginUninstall(sel)
      PROVE  TypeInv'
  <2>1. UninstallPlan(sel, ledger.recs) \in Plan
    BY DataAssumption, UninstallPlanType DEF TypeInv, TypeOK, Ledger
  <2> QED BY <1>2, <2>1, TypeBegin DEF BeginUninstall
<1>3. CASE Advance
  <2>1. ASSUME NEW p \in Path, Step(p) PROVE TypeInv'
    BY <2>1, TypeLoop, TypePerform, TypeUndo DEF Step
  <2> QED
    BY <1>3, <2>1, TypeCommit, TypeRollback DEF Advance
<1>4. CASE Recover \/ Fail \/ Crash
  BY <1>4, TypeEnvironment, TypeRollback
<1>5. ASSUME NEW p \in Path, RestoreFails(p) \/ UserEdit(p) PROVE TypeInv'
  BY <1>5, TypeUndo, TypeEnvironment
<1>6. CASE UNCHANGED vars
  BY <1>6 DEF vars, disk, process, history, TypeInv, TypeOK, Pointers,
              Performing, Entered
<1> QED BY <1>1, <1>2, <1>3, <1>4, <1>5, <1>6 DEF Next

\* The variables of the installer always hold values of their kinds; in
\* particular no step writes None, a missing copy or a missing entry, to a
\* destination.
THEOREM TypeCorrect == Spec => []TypeOK
<1>1. Init => TypeInv
  BY TypeInit
<1>2. TypeInv /\ [Next]_vars => TypeInv'
  BY TypeStep
<1>3. TypeInv => TypeOK
  BY DEF TypeInv
<1> QED BY <1>1, <1>2, <1>3, PTL DEF Spec

---------------------------------------------------------------------------
(* ReversibleInv is inductive while nobody disturbs the transaction.       *)

LEMMA ReversibleInit == Init => ReversibleInv
BY DEF Init, ReversibleInv, LoopInv, JournalInv, UndoInv, RollbackRestores,
       Performing, NoJournal

LEMMA ReversibleBegin ==
  ASSUME TypeInv, ReversibleInv, NEW newPlan, Begin(newPlan)
  PROVE  ReversibleInv'
<1> USE DEF Begin, NoJournal, NoEntries
<1>1. /\ jm'.pending = NoEntries /\ jm'.completed = NoEntries
      /\ jm'.before = ledger /\ journal' = jm'
  OBVIOUS
<1>2. Reversible(jm)'
  BY <1>1 DEF Reversible, Entry
<1> QED
  BY <1>1, <1>2
  DEF ReversibleInv, LoopInv, JournalInv, UndoInv, RollbackRestores,
      Performing, TypeInv, TypeOK

\* Steps of the loop that touch neither the files nor the journals.
LEMMA ReversibleLoop ==
  ASSUME TypeInv, ReversibleInv, NEW p \in Path,
         Keep(p) \/ Refuse(p) \/ Shrink(p) \/ Preserve(p)
  PROVE  ReversibleInv'
<1>1. /\ UNCHANGED <<disk, cur, held, jm, base>>
      /\ pc = "next" /\ pc' \in {"next", "failed"}
      /\ \A q \in Path : plan'[q] # NoOp => plan[q] # NoOp
  BY DEF Keep, Refuse, Shrink, Preserve, Reached, history, TypeInv, TypeOK,
         Plan
<1> QED
  BY <1>1
  DEF ReversibleInv, LoopInv, JournalInv, UndoInv, RollbackRestores,
      Performing, Reversible, Entry, disk

LEMMA ReversibleSnapshot ==
  ASSUME TypeInv, ReversibleInv, NEW p \in Path, Snapshot(p)
  PROVE  ReversibleInv'
<1>1. /\ pc = "next" /\ pc' = "pend" /\ plan[p] # NoOp /\ cur' = {p}
      /\ UNCHANGED <<files, ledger, journal, plan, base>>
  BY DEF Snapshot, Reached, history
<1>2. /\ jm.pending = NoEntries /\ journal = jm /\ Reversible(jm)
      /\ \A q \in Path : plan[q] # NoOp => jm.completed[q] = None
  BY <1>1 DEF ReversibleInv, LoopInv, JournalInv, Performing
<1>3. /\ jm'.before = jm.before
      /\ jm'.completed = jm.completed
      /\ \A q \in Path : jm'.pending[q] = IF q = p THEN files[p] ELSE None
  BY DEF Snapshot, TypeInv, TypeOK, Journal, NoEntries
<1>4. files[p] \in File /\ files[p] # None
  BY Constants DEF TypeInv, TypeOK
<1>5. /\ files[p] = base.files[p]
      /\ files[p].kind = "file" => recov'[p] = files[p]
      /\ \A q \in Path \ {p} : recov'[q] = recov[q]
  BY <1>1, <1>2 DEF Snapshot, Reversible, Entry, NoEntries, TypeInv, TypeOK,
                    Entries
<1>6. Reversible(jm)'
  BY <1>1, <1>2, <1>3, <1>4, <1>5 DEF Reversible, Entry, NoEntries
<1>7. Reversible(journal)'
  BY <1>1, <1>2, <1>5 DEF Reversible, Entry, NoEntries
<1> QED
  BY <1>1, <1>2, <1>3, <1>4, <1>6, <1>7
  DEF ReversibleInv, LoopInv, JournalInv, UndoInv, RollbackRestores, Performing

LEMMA ReversibleWritePending ==
  ASSUME TypeInv, ReversibleInv, WritePending
  PROVE  ReversibleInv'
BY DEF WritePending, ReversibleInv, LoopInv, JournalInv, UndoInv,
       RollbackRestores, Performing, Reversible, Entry, history

\* The mutation itself: only the destination whose entry is on disk changes.
LEMMA ReversibleMutation ==
  ASSUME TypeInv, ReversibleInv, NEW p \in Path, Unlink(p) \/ Write(p)
  PROVE  ReversibleInv'
<1>1. /\ pc \in {"unlink", "write"} /\ pc' \in {"failed", "write", "pop"}
      /\ p \in cur
      /\ \A q \in Path \ {p} : files'[q] = files[q]
      /\ UNCHANGED <<ledger, journal, recov, cur, held, plan, jm, rest, errs,
                     base>>
  BY DEF Unlink, Write, history, TypeInv, TypeOK
<1>2. journal = jm /\ Reversible(jm)
  BY <1>1 DEF ReversibleInv, JournalInv
<1>3. Entry(jm, p) # None
  BY <1>1 DEF ReversibleInv, LoopInv, Entry
<1>4. Reversible(jm)' /\ Reversible(journal)'
  BY <1>1, <1>2, <1>3 DEF Reversible, Entry
<1> QED
  BY <1>1, <1>2, <1>4
  DEF ReversibleInv, LoopInv, JournalInv, UndoInv, RollbackRestores, Performing

LEMMA ReversiblePop ==
  ASSUME TypeInv, ReversibleInv, NEW p \in Path, Pop(p)
  PROVE  ReversibleInv'
<1>1. /\ pc = "pop" /\ pc' = "append" /\ p \in cur /\ cur = {p}
      /\ held' = jm.pending[p]
      /\ UNCHANGED <<disk, cur, plan, base>>
  BY DEF Pop, history, ReversibleInv, LoopInv, TypeInv, TypeOK
<1>2. /\ jm'.before = jm.before
      /\ jm'.completed = jm.completed
      /\ jm'.pending = NoEntries
  BY DEF Pop, TypeInv, TypeOK, Journal
<1>3. /\ journal = jm /\ Reversible(jm)
      /\ jm.completed[p] = None /\ jm.pending[p] # None
      /\ \A q \in Path \ {p} : jm.pending[q] = None
  BY <1>1 DEF ReversibleInv, LoopInv, JournalInv, Performing, TypeInv, Pointers
<1>4. HeldReversible'
  BY <1>1, <1>2, <1>3 DEF HeldReversible, Reversible, Entry, NoEntries, disk
<1>5. Reversible(journal)'
  BY <1>1, <1>3 DEF Reversible, Entry, disk
<1> QED
  BY <1>1, <1>2, <1>3, <1>4, <1>5
  DEF ReversibleInv, LoopInv, JournalInv, UndoInv, RollbackRestores, Performing,
      disk

LEMMA ReversibleAppend ==
  ASSUME TypeInv, ReversibleInv, NEW p \in Path, Append(p)
  PROVE  ReversibleInv'
<1>1. /\ pc = "append" /\ pc' = "next" /\ cur = {p} /\ cur' = {}
      /\ journal' = jm'
      /\ UNCHANGED <<files, ledger, recov, base>>
  BY DEF Append, history, ReversibleInv, LoopInv, TypeInv, TypeOK
<1>2. /\ jm'.before = jm.before
      /\ \A q \in Path : jm'.completed[q] = IF q = p THEN held
                                            ELSE jm.completed[q]
      /\ jm'.pending = jm.pending
  BY DEF Append, TypeInv, TypeOK, Journal, Entries
<1>3. HeldReversible
  BY <1>1 DEF ReversibleInv
<1>4. Reversible(jm)'
  BY <1>1, <1>2, <1>3 DEF HeldReversible, Reversible, Entry
<1>5. \A q \in Path : plan'[q] # NoOp => plan[q] # NoOp /\ q # p
  BY DEF Append, TypeInv, TypeOK, Plan
<1> QED
  BY <1>1, <1>2, <1>4, <1>5
  DEF ReversibleInv, LoopInv, JournalInv, UndoInv, RollbackRestores, Performing

\* ready-to-commit, the ledger, committed, the journal removed, and the
\* recovery copies after it.
LEMMA ReversibleCommit ==
  ASSUME TypeInv, ReversibleInv,
         \/ ReadyToCommit \/ WriteLedger \/ MarkCommitted \/ ClearJournal
         \/ SyncDirectory
  PROVE  ReversibleInv'
<1>1. /\ UNCHANGED <<files, recov, cur, held, plan, rest, errs, base>>
      /\ jm'.before = jm.before
      /\ jm'.completed = jm.completed
      /\ jm'.pending = jm.pending
  BY DEF ReadyToCommit, WriteLedger, MarkCommitted, ClearJournal,
         SyncDirectory, disk, history, TypeInv, TypeOK, Journal
<1>2. /\ pc \in {"next", "ledger", "mark", "clear", "sync"}
      /\ pc' \in {"ledger", "mark", "clear", "sync", "clean"}
      /\ journal' \in {journal, jm', NoJournal}
      /\ pc' \in {"sync", "clean"} => journal' = NoJournal
  BY DEF ReadyToCommit, WriteLedger, MarkCommitted, ClearJournal,
         SyncDirectory, disk, ReversibleInv, JournalInv
<1>3. Reversible(jm)'
  BY <1>1, <1>2 DEF ReversibleInv, Reversible, Entry
<1>4. journal' # NoJournal => Reversible(journal)'
  BY <1>1, <1>2, <1>3 DEF ReversibleInv, Reversible, Entry
<1> QED
  BY <1>1, <1>2, <1>3, <1>4
  DEF ReversibleInv, LoopInv, JournalInv, UndoInv, RollbackRestores, Performing

\* With no process and no journal there is nothing to reverse.
LEMMA ReversibleIdle ==
  ASSUME ReversibleInv, Stopped,
         journal' # NoJournal => Reversible(journal)'
  PROVE  ReversibleInv'
BY DEF Stopped, ReversibleInv, LoopInv, JournalInv, UndoInv, RollbackRestores,
       Performing

LEMMA ReversibleClean ==
  ASSUME TypeInv, ReversibleInv, Clean
  PROVE  ReversibleInv'
<1>1. pc = "clean" /\ journal = NoJournal /\ journal' = NoJournal
  BY DEF Clean, ReversibleInv, JournalInv
<1>2. CASE Stopped
  BY <1>1, <1>2, ReversibleIdle
<1>3. CASE UNCHANGED process
  BY <1>1, <1>3
  DEF Clean, process, history, ReversibleInv, LoopInv, JournalInv, UndoInv,
      RollbackRestores, Performing
<1> QED BY <1>2, <1>3 DEF Clean

\* An exception: the copy in memory is still good for a rollback.
LEMMA ReversibleFail ==
  ASSUME TypeInv, ReversibleInv, Undisturbed, Fail
  PROVE  ReversibleInv'
<1>1. /\ pc \in FailAt \ {"undo", "restore"} /\ pc' = "failed"
      /\ UNCHANGED <<disk, cur, held, plan, jm, rest, errs, base>>
  BY DEF Fail, history
<1>2. pc \notin {"idle", "append", "clean"}
  BY <1>1, InstallerAssumption DEF Undisturbed, FailPoints
<1> QED
  BY <1>1, <1>2
  DEF ReversibleInv, LoopInv, JournalInv, UndoInv, RollbackRestores,
      Performing, Reversible, Entry, disk

LEMMA ReversibleHandle ==
  ASSUME TypeInv, ReversibleInv, Handle
  PROVE  ReversibleInv'
<1>1. /\ pc = "failed" /\ pc' = "undo" /\ cur' = {} /\ journal' = jm'
      /\ rest' = Entered(jm') /\ Reversible(jm)
      /\ UNCHANGED <<files, ledger, recov, base>>
  BY DEF Handle, history, ReversibleInv
<1>2. /\ jm'.before = jm.before
      /\ jm'.completed = UndoList(jm)
      /\ jm'.pending = NoEntries
  BY DEF Handle, TypeInv, TypeOK, Journal
<1>3. \A q \in Path : Entry(jm', q) = Entry(jm, q)
  BY <1>2 DEF Entry, UndoList, NoEntries
<1>4. Reversible(jm)'
  BY <1>1, <1>2, <1>3 DEF Reversible
<1>5. \A q \in Path \ rest' : files'[q] = base'.files[q]
  BY <1>1, <1>4 DEF Reversible, Entered
<1> QED
  BY <1>1, <1>2, <1>4, <1>5
  DEF ReversibleInv, LoopInv, JournalInv, UndoInv, RollbackRestores, Performing

\* A restore changes a destination whose entry is on disk, and puts the prior
\* content there.
LEMMA ReversibleUndo ==
  ASSUME TypeInv, ReversibleInv, NEW p \in Path, UndoUnlink(p) \/ Restore(p)
  PROVE  ReversibleInv'
<1>1. /\ pc \in {"undo", "restore"} /\ pc' \in {"undo", "restore"}
      /\ \A q \in Path \ {p} : files'[q] = files[q]
      /\ UNCHANGED <<ledger, journal, recov, held, plan, jm, errs, base>>
      /\ cur' \in {{}, {p}}
  BY DEF UndoUnlink, Restore, Undoing, history, TypeInv, TypeOK
<1>2. journal = jm /\ Reversible(jm)
  BY <1>1 DEF ReversibleInv, JournalInv
<1>3. p \in rest /\ Entry(jm, p) # None
  BY DEF UndoUnlink, Restore, Undoing, TypeInv, Pointers, Entered,
         ReversibleInv, UndoInv
<1>4. Reversible(jm)' /\ Reversible(journal)'
  BY <1>1, <1>2, <1>3 DEF Reversible, Entry
<1>5. CASE UndoUnlink(p)
  <2>1. pc = "undo" /\ pc' = "restore" /\ rest' = rest /\ cur' = {p}
    BY <1>5 DEF UndoUnlink, Undoing
  <2> QED
    BY <1>1, <1>2, <1>3, <1>4, <2>1
    DEF ReversibleInv, LoopInv, JournalInv, UndoInv, RollbackRestores,
        Performing
<1>6. CASE Restore(p)
  <2>1. pc = "restore" /\ pc' = "undo" /\ rest' = rest \ {p} /\ cur' = {}
    BY <1>6 DEF Restore
  <2>2. files'[p] = base'.files[p]
    BY <1>1, <1>2, <1>3, <1>6
    DEF Restore, Restored, Reversible, TypeInv, TypeOK
  <2>3. ~ errs' => \A q \in Path \ rest' : files'[q] = base'.files[q]
    BY <1>1, <2>1, <2>2 DEF ReversibleInv, UndoInv
  <2> QED
    BY <1>1, <1>2, <1>4, <2>1, <2>3
    DEF ReversibleInv, LoopInv, JournalInv, UndoInv, RollbackRestores,
        Performing
<1> QED BY <1>5, <1>6

LEMMA ReversibleSkip ==
  ASSUME TypeInv, ReversibleInv, NEW p \in Path,
         CannotRestore(p) \/ RestoreFails(p)
  PROVE  ReversibleInv'
<1>1. /\ pc \in {"undo", "restore"} /\ pc' = "undo" /\ errs' = TRUE
      /\ cur' = {}
      /\ UNCHANGED <<disk, held, plan, jm, base>>
  BY DEF CannotRestore, RestoreFails, SkipEntry, Undoing, history
<1> QED
  BY <1>1
  DEF ReversibleInv, LoopInv, JournalInv, UndoInv, RollbackRestores,
      Performing, Reversible, Entry, disk

\* The end of a rollback without errors.
LEMMA ReversibleRestoreLedger ==
  ASSUME TypeInv, ReversibleInv, RestoreLedger
  PROVE  ReversibleInv'
<1>1. /\ pc = "undo" /\ pc' = "forget" /\ rest = {} /\ ~ errs
      /\ ledger' = jm.before
      /\ UNCHANGED <<files, journal, recov, cur, held, plan, jm, rest, errs,
                     base>>
  BY DEF RestoreLedger, history
<1>2. Reversible(jm) /\ journal = jm
  BY <1>1 DEF ReversibleInv, JournalInv
<1>3. files = base.files
  <2>1. \A q \in Path : files[q] = base.files[q]
    BY <1>1 DEF ReversibleInv, UndoInv
  <2>2. files \in [Path -> File] /\ base.files \in [Path -> File]
    BY DEF TypeInv, TypeOK
  <2> QED BY <2>1, <2>2
<1>4. ledger' = base.ledger
  BY <1>1, <1>2 DEF Reversible
<1>5. Reversible(jm)' /\ Reversible(journal)'
  BY <1>1, <1>2 DEF Reversible, Entry
<1> QED
  BY <1>1, <1>2, <1>3, <1>4, <1>5
  DEF ReversibleInv, LoopInv, JournalInv, UndoInv, RollbackRestores, Performing

LEMMA ReversibleKeepJournal ==
  ASSUME TypeInv, ReversibleInv, KeepJournal
  PROVE  ReversibleInv'
<1>1. /\ pc = "undo" /\ journal' = [jm EXCEPT !.status = "rollback-failed"]
      /\ Stopped /\ UNCHANGED <<files, recov, base>>
  BY DEF KeepJournal, history
<1>2. /\ journal'.before = jm.before
      /\ journal'.completed = jm.completed
      /\ journal'.pending = jm.pending
  BY <1>1 DEF TypeInv, TypeOK, Journal
<1>3. Reversible(jm)
  BY <1>1 DEF ReversibleInv
<1>4. Reversible(journal)'
  BY <1>1, <1>2, <1>3 DEF Reversible, Entry
<1> QED BY <1>1, <1>4, ReversibleIdle

LEMMA ReversibleRecover ==
  ASSUME TypeInv, ReversibleInv, Recover
  PROVE  ReversibleInv'
<1>1. CASE Finalize
  BY <1>1
  DEF Finalize, RecoverStarts, process, history, ReversibleInv, LoopInv,
      JournalInv, UndoInv, RollbackRestores, Performing
<1>2. CASE RollBackJournal
  <2>1. /\ pc = "idle" /\ pc' = "undo" /\ jm' = journal
        /\ rest' = Entered(journal)
        /\ UNCHANGED <<disk, cur, held, plan, errs, base>>
    BY <1>2 DEF RollBackJournal, RecoverStarts, history
  <2>2. Reversible(journal)
    BY <1>2 DEF RollBackJournal, RecoverStarts, ReversibleInv
  <2>3. Reversible(jm)' /\ Reversible(journal)'
    BY <2>1, <2>2 DEF Reversible, Entry, disk
  <2>4. \A q \in Path \ rest' : files'[q] = base'.files[q]
    BY <2>1, <2>2 DEF Reversible, Entered, disk
  <2> QED
    BY <2>1, <2>3, <2>4
    DEF ReversibleInv, LoopInv, JournalInv, UndoInv, RollbackRestores,
        Performing, disk
<1> QED BY <1>1, <1>2 DEF Recover

LEMMA ReversibleEnvironment ==
  ASSUME TypeInv, ReversibleInv, Undisturbed,
         Crash \/ ForgetJournal \/ \E p \in Path : UserEdit(p)
  PROVE  ReversibleInv'
<1>1. CASE Crash
  <2>1. UNCHANGED <<files, journal, recov, base>> /\ Stopped
    BY <1>1 DEF Crash, disk, history
  <2>2. journal' # NoJournal => Reversible(journal)'
    BY <2>1 DEF ReversibleInv, Reversible, Entry
  <2> QED BY <2>1, <2>2, ReversibleIdle
<1>2. CASE ForgetJournal
  BY <1>2, ReversibleIdle DEF ForgetJournal
<1>3. ASSUME NEW p \in Path, UserEdit(p) PROVE ReversibleInv'
  <2>1. pc = "idle" /\ journal = NoJournal
    BY <1>3 DEF UserEdit, Window, Undisturbed
  <2> QED
    BY <1>3, <2>1
    DEF UserEdit, process, ReversibleInv, LoopInv, JournalInv, UndoInv,
        RollbackRestores, Performing
<1> QED BY <1>1, <1>2, <1>3

LEMMA ReversibleStep ==
  ASSUME TypeInv, ReversibleInv, Undisturbed, [Next]_vars
  PROVE  ReversibleInv'
<1>1. ASSUME NEW sel \in Selections,
             BeginUninstall(sel) \/ \E v \in Releases : BeginApply(sel, v)
      PROVE  ReversibleInv'
  BY <1>1, ReversibleBegin DEF BeginApply, BeginUninstall
<1>2. ASSUME NEW p \in Path, Step(p) \/ RestoreFails(p)
      PROVE  ReversibleInv'
  BY <1>2, ReversibleLoop, ReversibleSnapshot, ReversibleMutation,
     ReversiblePop, ReversibleAppend, ReversibleUndo, ReversibleSkip DEF Step
<1>3. CASE Advance
  BY <1>2, <1>3, ReversibleWritePending, ReversibleCommit, ReversibleClean,
     ReversibleHandle, ReversibleRestoreLedger, ReversibleEnvironment,
     ReversibleKeepJournal DEF Advance
<1>4. CASE Recover \/ Fail \/ Crash \/ \E p \in Path : UserEdit(p)
  BY <1>4, ReversibleRecover, ReversibleFail, ReversibleEnvironment
<1>5. CASE UNCHANGED vars
  BY <1>5
  DEF vars, disk, process, history, ReversibleInv, LoopInv, JournalInv,
      UndoInv, RollbackRestores, Performing, Reversible, Entry,
      HeldReversible
<1> QED BY <1>1, <1>2, <1>3, <1>4, <1>5 DEF Next

LEMMA AlwaysReversible ==
  ASSUME Undisturbed
  PROVE  Spec => [](TypeInv /\ ReversibleInv)
<1>1. Init => TypeInv /\ ReversibleInv
  BY TypeInit, ReversibleInit
<1>2. TypeInv /\ ReversibleInv /\ [Next]_vars => TypeInv' /\ ReversibleInv'
  BY TypeStep, ReversibleStep
<1> QED BY <1>1, <1>2, PTL DEF Spec

\* A kill or an exception at any instant finds the journal good for undoing
\* the transaction: on disk for --recover, in memory for the handler.
THEOREM ReversibleCorrect ==
  ASSUME Undisturbed
  PROVE  Spec => []TransactionReversible
<1>1. TypeInv /\ ReversibleInv => TransactionReversible
  BY InstallerAssumption
  DEF ReversibleInv, TransactionReversible, Undisturbed, FailPoints
<1> QED BY <1>1, AlwaysReversible, PTL

\* "prior filesystem and ledger state restored": a rollback that reports no
\* error has brought every destination and the ledger back, however often
\* it was itself killed and run again.
THEOREM RollbackCorrect ==
  ASSUME Undisturbed
  PROVE  Spec => []RollbackRestores
<1>1. TypeInv /\ ReversibleInv => RollbackRestores
  BY DEF ReversibleInv, UndoInv
<1> QED BY <1>1, AlwaysReversible, PTL

---------------------------------------------------------------------------
(* The commit point.  The stamp tells the ledgers of different commands    *)
(* apart, so that the ledger equals the journal's copy of the later one    *)
(* from WriteLedger on, and never before.                                  *)

StampInv ==
  /\ ledger.stamp <= count.commands
  /\ base.ledger.stamp <= count.commands
  /\ pc \in Performing \cup {"next"} => base.ledger.stamp < count.commands
  /\ journal.status \in {"ready-to-commit", "committed"} =>
       base.ledger.stamp < journal.after.stamp

CommitInv ==
  /\ StampInv
  /\ pc \in {"idle", "next"} => cur = {}
  /\ pc \in Performing \cup {"next"} =>
       journal.status = "open" /\ jm.status = "open"
  /\ pc \in Performing \cup {"next", "ledger"} => ledger = base.ledger
  /\ pc \in {"ledger", "mark"} =>
       /\ journal = jm
       /\ jm.status = "ready-to-commit"
       /\ jm.after = mem
       /\ mem.stamp <= count.commands
  /\ pc = "mark" => ledger = mem
  /\ pc = "clear" => ~ Uncommitted
  /\ pc \in {"undo", "restore", "forget"} => Uncommitted

---------------------------------------------------------------------------
(* The transaction so far: which of the planned operations are done, which *)
(* one is under way and which are ahead, compared with the files and the   *)
(* ledger it began with.                                                   *)

\* The operations of one command, as they were planned when it began.
Started(o) ==
  \/ \E sel \in Selections, v \in Releases :
       /\ ~ PlanRefused(sel, v, base.files, base.ledger.recs)
       /\ o = ApplyPlan(sel, v, base.files, base.ledger.recs)
  \/ \E sel \in Selections : o = UninstallPlan(sel, base.ledger.recs)

\* A differing file that legacy-replace overwrites is in a visible backup.
Shown(x, p) ==
  /\ x.op = "legacy-replace"
  /\ base.files[p].kind = "file"
  /\ base.files[p] # x.content
  => base.files[p].user \in visible[p]

Ahead(x, p) ==
  /\ plan[p] = x
  /\ files[p] = base.files[p]
  /\ mem.recs[p] = base.ledger.recs[p]

\* The removal of x takes something away.
Removes(x, p) ==
  x.owners = {} /\ Matches(base.files[p], base.ledger.recs[p])

Underway(x, p) ==
  /\ plan[p] = x
  /\ x # NoOp
  /\ mem.recs[p] = base.ledger.recs[p]
  /\ IF x.op = "remove" THEN Removes(x, p)
     ELSE ~ Refused(x, base.files[p], base.ledger.recs[p])
  /\ pc \in {"pend", "unlink"} => files[p] = base.files[p]
  /\ pc \in {"write", "pop", "append"} =>
       base.files[p].kind # "other" /\ Shown(x, p)
  /\ pc = "write" /\ Untouched(p) => files[p] = base.files[p]
  /\ pc \in {"pop", "append"} =>
       files[p] = IF x.op = "remove"
                  THEN AfterRemoval(base.files[p], base.ledger.recs[p])
                  ELSE x.content

Installed(x, p) ==
  /\ ~ Refused(x, base.files[p], base.ledger.recs[p])
  /\ base.files[p].kind # "other"
  /\ Shown(x, p)
  /\ files[p] = x.content
  /\ mem.recs[p] = OperationRecord(x, base.files[p], base.ledger.recs[p])

Uninstalled(x, p) ==
  IF Removes(x, p)
  THEN /\ files[p] = AfterRemoval(base.files[p], base.ledger.recs[p])
       /\ mem.recs[p] = NoRecord
  ELSE /\ files[p] = base.files[p]
       /\ mem.recs[p] = [base.ledger.recs[p] EXCEPT !.owners = x.owners]

Done(x, p) ==
  IF x = NoOp
  THEN files[p] = base.files[p] /\ mem.recs[p] = base.ledger.recs[p]
  ELSE IF x.op = "remove" THEN Uninstalled(x, p) ELSE Installed(x, p)

Progress(o) ==
  \A p \in Path :
    IF p \in cur THEN Underway(o[p], p)
    ELSE IF plan[p] # NoOp THEN Ahead(o[p], p) ELSE Done(o[p], p)

Transacting == Performing \cup {"next", "ledger"}

TransactionInv ==
  /\ pc \in Transacting => \E o \in Plan : Started(o) /\ Progress(o)
  /\ pc = "ledger" => cur = {} /\ \A p \in Path : plan[p] = NoOp

---------------------------------------------------------------------------
(* What the atomic commands preserve.                                      *)

\* A record some host owns describes what is there, except for what the user
\* has made of it since.
Truthful(fs, rs) ==
  \A p \in Path : rs[p].owners # {} =>
    \/ fs[p] = rs[p].installed
    \/ mine[p] # 0 /\ fs[p].user = mine[p]

\* The original is what was found before the first record; what is installed
\* brings no user content of its own.
Recording(r) ==
  IF Recorded(r)
  THEN /\ r.original \in File
       /\ r.original.kind # "other"
       /\ r.created => r.original = Absent
       /\ r.installed.user \in {0, r.original.user}
  ELSE r.original.user = 0

\* A recorded legacy-replace destination holds a file or nothing of a user's.
Plain(p, f, r) ==
  OpOf[p] = "legacy-replace" /\ Recorded(r) => f.kind = "file" \/ f.user = 0

\* What a user last put at a destination is there, in the original of its
\* record, or in a visible backup.
Preserved(p, f, r) ==
  mine[p] # 0 => \/ f.user = mine[p]
                 \/ r.original.user = mine[p]
                 \/ mine[p] \in visible[p]

Safe(fs, rs) ==
  \A p \in Path : /\ Recording(rs[p])
                  /\ Plain(p, fs[p], rs[p])
                  /\ Preserved(p, fs[p], rs[p])

\* No user replaces an installed mirror by a symbolic link of their own.
PlainEdits ==
  "link" \notin EditKinds \/ \A p \in Path : OpOf[p] # "legacy-replace"

\* Both hold of what the disk stands for and of what a handler may bring back.
TruthInv ==
  /\ Truthful(SettledFiles, SettledRecs)
  /\ \A u \in WayBack : Truthful(u.files, u.recs)

SafeInv ==
  /\ Safe(SettledFiles, SettledRecs)
  /\ \A u \in WayBack : Safe(u.files, u.recs)

---------------------------------------------------------------------------
(* CommitInv is inductive.                                                 *)

LEMMA CommitInit == Init => CommitInv
BY DEF Init, CommitInv, StampInv, Performing, NoJournal, NoLedger

LEMMA CommitBegin ==
  ASSUME TypeInv, CommitInv, NEW newPlan, Begin(newPlan)
  PROVE  CommitInv'
<1>1. /\ pc = "idle" /\ pc' = "next" /\ cur' = cur
      /\ jm'.status = "open" /\ journal' = jm'
      /\ ledger' = ledger /\ base'.ledger = ledger
  BY DEF Begin, NoJournal
<1>2. count'.commands = count.commands + 1 /\ count.commands \in Nat
  BY DEF Begin, TypeInv, TypeOK, Counts
<1>3. ledger.stamp \in Nat
  BY DEF TypeInv, TypeOK, Ledger
<1> QED BY <1>1, <1>2, <1>3 DEF CommitInv, StampInv, Performing

\* The loop over the operations writes no ledger and leaves the status open.
LEMMA CommitLoop ==
  ASSUME TypeInv, ReversibleInv, CommitInv, NEW p \in Path,
         \/ Keep(p) \/ Refuse(p) \/ Shrink(p) \/ Preserve(p) \/ Snapshot(p)
         \/ Unlink(p) \/ Write(p) \/ Pop(p) \/ Append(p)
  PROVE  CommitInv'
<1>1. /\ pc \in Performing \cup {"next"}
      /\ pc' \in Performing \cup {"next", "failed"}
      /\ pc' = "next" => cur' = {} \/ (pc = "next" /\ cur' = cur)
      /\ UNCHANGED <<ledger, count, base>>
  BY DEF Keep, Refuse, Shrink, Preserve, Snapshot, Reached, Unlink,
         Write, Pop, Append, disk, history, Performing
<1>2. jm'.status = jm.status /\ journal' \in {journal, jm, jm'}
  BY DEF Keep, Refuse, Shrink, Preserve, Snapshot, Unlink, Write, Pop, Append, disk, TypeInv, TypeOK, Journal
<1> QED BY <1>1, <1>2 DEF CommitInv, StampInv, Performing

LEMMA CommitReady ==
  ASSUME TypeInv, ReversibleInv, CommitInv, ReadyToCommit
  PROVE  CommitInv'
<1>1. /\ pc = "next" /\ pc' = "ledger" /\ journal' = jm'
      /\ UNCHANGED <<ledger, count, base, cur>>
  BY DEF ReadyToCommit, history
<1>2. mem'.stamp = count.commands /\ count.commands \in Nat
  BY DEF ReadyToCommit, TypeInv, TypeOK, Ledger, Counts
<1>3. jm'.status = "ready-to-commit" /\ jm'.after = mem'
  BY DEF ReadyToCommit, TypeInv, TypeOK, Journal
<1> QED BY <1>1, <1>2, <1>3 DEF CommitInv, StampInv, Performing

LEMMA CommitPoint ==
  ASSUME TypeInv, ReversibleInv, CommitInv,
         \/ WriteLedger \/ MarkCommitted \/ ClearJournal
         \/ SyncDirectory \/ Clean
  PROVE  CommitInv'
<1>1. CASE WriteLedger
  BY <1>1 DEF WriteLedger, history, CommitInv, StampInv, Performing
<1>2. CASE MarkCommitted
  <2>1. /\ pc = "mark" /\ pc' = "clear" /\ journal' = jm'
        /\ UNCHANGED <<ledger, count, base>>
    BY <1>2 DEF MarkCommitted, history
  <2>2. jm'.status = "committed" /\ jm'.after = jm.after
    BY <1>2 DEF MarkCommitted, TypeInv, TypeOK, Journal
  <2> QED
    BY <2>1, <2>2
    DEF CommitInv, StampInv, Performing, Uncommitted, Committed
<1>3. CASE ClearJournal
  BY <1>3 DEF ClearJournal, history, CommitInv, StampInv, Performing, NoJournal
<1>4. CASE SyncDirectory
  BY <1>4 DEF SyncDirectory, disk, history, CommitInv, StampInv, Performing
<1>5. CASE Clean
  BY <1>5 DEF Clean, Stopped, process, history, CommitInv, StampInv, Performing
<1> QED BY <1>1, <1>2, <1>3, <1>4, <1>5

\* The handler opens the journal again.
LEMMA CommitHandle ==
  ASSUME TypeInv, CommitInv, Handle
  PROVE  CommitInv'
<1>1. /\ pc = "failed" /\ pc' = "undo" /\ journal' = jm'
      /\ UNCHANGED <<ledger, count, base>>
  BY DEF Handle, history
<1>2. jm'.status = "rolling-back"
  BY DEF Handle, TypeInv, TypeOK, Journal
<1> QED
  BY <1>1, <1>2
  DEF CommitInv, StampInv, Performing, Uncommitted, Committed, NoJournal

LEMMA CommitUndo ==
  ASSUME TypeInv, ReversibleInv, CommitInv, NEW p \in Path,
         UndoUnlink(p) \/ Restore(p) \/ CannotRestore(p) \/ RestoreFails(p)
  PROVE  CommitInv'
<1>1. /\ pc \in {"undo", "restore"} /\ pc' \in {"undo", "restore"}
      /\ count'.commands = count.commands
      /\ UNCHANGED <<ledger, journal, base>>
  BY DEF UndoUnlink, Restore, CannotRestore, RestoreFails, SkipEntry, Undoing,
         disk, history, TypeInv, TypeOK, Counts
<1> QED BY <1>1 DEF CommitInv, StampInv, Performing, Uncommitted, Committed

LEMMA CommitEnd ==
  ASSUME TypeInv, CommitInv, ForgetJournal \/ KeepJournal \/ Crash
  PROVE  CommitInv'
<1>1. /\ pc' = "idle" /\ cur' = {}
      /\ count'.commands = count.commands
      /\ UNCHANGED <<ledger, base>>
  BY DEF ForgetJournal, KeepJournal, Crash, Stopped, disk, history, TypeInv,
         TypeOK, Counts
<1>2. \/ journal' = journal
      \/ journal'.status \notin {"ready-to-commit", "committed"}
  BY DEF ForgetJournal, KeepJournal, Crash, disk, NoJournal, TypeInv, TypeOK,
         Journal
<1> QED BY <1>1, <1>2 DEF CommitInv, StampInv, Performing

LEMMA CommitOutside ==
  ASSUME TypeInv, CommitInv, Recover \/ \E p \in Path : UserEdit(p)
  PROVE  CommitInv'
<1>1. CASE Finalize
  BY <1>1 DEF Finalize, RecoverStarts, process, history, CommitInv, StampInv,
              Performing, NoJournal
<1>2. CASE RollBackJournal
  BY <1>2 DEF RollBackJournal, RecoverStarts, disk, history, CommitInv,
              StampInv, Performing, Uncommitted
<1>3. ASSUME NEW p \in Path, UserEdit(p) PROVE CommitInv'
  <2>1. /\ count'.commands = count.commands
        /\ UNCHANGED <<ledger, journal, process, base>>
    BY <1>3 DEF UserEdit, TypeInv, TypeOK, Counts
  <2> QED
    BY <2>1 DEF process, CommitInv, StampInv, Uncommitted, Committed
<1> QED BY <1>1, <1>2, <1>3 DEF Recover

LEMMA CommitStep ==
  ASSUME TypeInv, ReversibleInv, CommitInv, [Next]_vars
  PROVE  CommitInv'
<1>1. ASSUME NEW sel \in Selections,
             BeginUninstall(sel) \/ \E v \in Releases : BeginApply(sel, v)
      PROVE  CommitInv'
  BY <1>1, CommitBegin DEF BeginApply, BeginUninstall
<1>2. ASSUME NEW p \in Path, Step(p) \/ RestoreFails(p)
      PROVE  CommitInv'
  BY <1>2, CommitLoop, CommitUndo DEF Step
<1>3. CASE WritePending
  <2>1. /\ pc = "pend" /\ pc' = "unlink" /\ journal' = jm
        /\ UNCHANGED <<ledger, jm, count, base>>
    BY <1>3 DEF WritePending, history
  <2> QED BY <2>1 DEF CommitInv, StampInv, Performing
<1>4. CASE RestoreLedger
  <2>1. /\ pc = "undo" /\ pc' = "forget" /\ ledger' = jm.before
        /\ UNCHANGED <<journal, jm, count, base>>
    BY <1>4 DEF RestoreLedger, history
  <2>2. ledger' = base.ledger /\ base.ledger.stamp \in Nat
    BY <2>1 DEF ReversibleInv, Reversible, TypeInv, TypeOK, Ledger
  <2> QED
    BY <2>1, <2>2
    DEF CommitInv, StampInv, Performing, Uncommitted, Committed
<1>5. CASE Fail
  <2>1. /\ pc' = "failed" /\ count'.commands = count.commands
        /\ UNCHANGED <<ledger, journal, base>>
    BY <1>5 DEF Fail, disk, history, TypeInv, TypeOK, Counts
  <2> QED BY <2>1 DEF CommitInv, StampInv, Performing
<1>6. CASE Advance
  BY <1>2, <1>3, <1>4, <1>6, CommitReady, CommitPoint, CommitHandle,
     CommitEnd DEF Advance
<1>7. CASE Recover \/ Crash \/ \E p \in Path : UserEdit(p)
  BY <1>7, CommitOutside, CommitEnd
<1>8. CASE UNCHANGED vars
  BY <1>8 DEF vars, disk, process, history, CommitInv, StampInv, Uncommitted,
              Committed
<1> QED BY <1>1, <1>2, <1>5, <1>6, <1>7, <1>8 DEF Next

---------------------------------------------------------------------------
(* The operations of a plan.                                               *)

\* What build_operations installs: a file or a link, with no user content
\* but that of the configuration it merges with; legacy-replace only where
\* the manifest says so, and nothing but files there.
LEMMA PlanContent ==
  ASSUME NEW sel \in Selections, NEW v \in Releases,
         NEW fs \in [Path -> File], NEW rs, NEW p \in Path,
         ApplyPlan(sel, v, fs, rs)[p] # NoOp
  PROVE  LET x == ApplyPlan(sel, v, fs, rs)[p] IN
         /\ x \in Installation
         /\ x.op # "remove"
         /\ x.content.kind \in {"file", "symlink"}
         /\ x.content.user = IF x.op = "managed-config" THEN fs[p].user ELSE 0
         /\ x.op = "legacy-replace" => OpOf[p] = "legacy-replace"
         /\ OpOf[p] = "legacy-replace" => x.content.kind = "file"
<1> DEFINE x == ApplyPlan(sel, v, fs, rs)[p]
<1>1. x \in Installation
  <2>1. ApplyPlan(sel, v, fs, rs) \in Plan
    BY DataAssumption, ApplyPlanType
  <2>2. \A q \in Path : ApplyPlan(sel, v, fs, rs)[q].op # "remove"
    BY DataAssumption DEF ApplyPlan, ResolvedOp, OpKind, NoOp
  <2> QED BY <2>1, <2>2 DEF Plan, Removal
<1>2. \/ x.op = ResolvedOp(p) /\ x.content = Content(p, v, fs)
      \/ x.op = "staged-fragment" /\ x.content = Shipped(v)
  BY DEF ApplyPlan
<1>3. x.op # "remove"
  BY <1>1 DEF Installation, OpKind
<1>4. CASE x.op = ResolvedOp(p) /\ x.content = Content(p, v, fs)
  BY <1>1, <1>3, <1>4, DataAssumption
  DEF ResolvedOp, Content, Shipped, Merge, Link, OpKind
<1>5. CASE x.op = "staged-fragment" /\ x.content = Shipped(v)
  BY <1>1, <1>3, <1>5 DEF Shipped
<1> HIDE DEF x
<1> QED BY <1>2, <1>4, <1>5 DEF x

\* A command installs or uninstalls.
LEMMA StartedKinds ==
  ASSUME TypeInv, NEW o, Started(o), NEW p \in Path, o[p] # NoOp
  PROVE  IF o[p].op = "remove"
         THEN o[p].content = None
         ELSE o[p] \in Installation /\ o[p].content.kind \in {"file", "symlink"}
<1>1. base.files \in [Path -> File]
  BY DEF TypeInv, TypeOK
<1>2. CASE \E sel \in Selections, v \in Releases :
             o = ApplyPlan(sel, v, base.files, base.ledger.recs)
  BY <1>1, <1>2, PlanContent
<1>3. CASE \E sel \in Selections : o = UninstallPlan(sel, base.ledger.recs)
  BY <1>3 DEF UninstallPlan
<1> QED BY <1>2, <1>3 DEF Started

---------------------------------------------------------------------------
(* TransactionInv is inductive.                                            *)

\* One destination of Progress.
At(x, p) ==
  IF p \in cur THEN Underway(x, p)
  ELSE IF plan[p] # NoOp THEN Ahead(x, p) ELSE Done(x, p)

\* A step at one destination leaves the others where they were.
LEMMA Elsewhere ==
  ASSUME NEW q \in Path, NEW x, q \notin cur, q \notin cur', At(x, q),
         base' = base, files'[q] = files[q], plan'[q] = plan[q],
         mem'.recs[q] = mem.recs[q], visible[q] \subseteq visible'[q]
  PROVE  At(x, q)'
BY DEF At, Ahead, Done, Uninstalled, Installed, Shown, Removes

LEMMA TransactionInit == Init => TransactionInv
BY DEF Init, TransactionInv, Transacting, Performing

LEMMA TransactionBegin ==
  ASSUME TypeInv, CommitInv, NEW newPlan \in Plan, Begin(newPlan),
         Started(newPlan)'
  PROVE  TransactionInv'
<1>1. /\ pc' = "next" /\ cur' = {} /\ plan' = newPlan /\ mem' = ledger
      /\ base' = [files |-> files, ledger |-> ledger] /\ files' = files
  BY DEF Begin, CommitInv
<1>2. Progress(newPlan)'
  BY <1>1 DEF Progress, Ahead, Done
<1> QED BY <1>1, <1>2 DEF TransactionInv

LEMMA TransactionLoop ==
  ASSUME TypeInv, ReversibleInv, CommitInv, TransactionInv, NEW p \in Path,
         Keep(p) \/ Refuse(p) \/ Shrink(p) \/ Preserve(p) \/ Snapshot(p)
  PROVE  TransactionInv'
<1>1. /\ pc = "next" /\ cur = {} /\ plan[p] # NoOp
      /\ UNCHANGED <<files, visible, base>>
  BY DEF Keep, Refuse, Shrink, Preserve, Snapshot, Reached, disk, history,
         CommitInv
<1>2. PICK o \in Plan : Started(o) /\ Progress(o)
  BY <1>1 DEF TransactionInv, Transacting
<1>3. Started(o)'
  BY <1>1, <1>2 DEF Started
<1>4. /\ plan[p] = o[p]
      /\ files[p] = base.files[p]
      /\ mem.recs[p] = base.ledger.recs[p]
  BY <1>1, <1>2 DEF Progress, Ahead
<1>5. \A q \in Path : At(o[q], q)
  BY <1>2 DEF Progress, At
<1>6. /\ p \in DOMAIN plan
      /\ p \in DOMAIN mem.recs
      /\ "recs" \in DOMAIN mem
  BY DEF TypeInv, TypeOK, Plan, Ledger
<1>7. CASE Keep(p) \/ Shrink(p) \/ Preserve(p)
  <2>1. /\ pc' = "next" /\ cur' = {}
        /\ plan'[p] = NoOp
        /\ \A q \in Path \ {p} : /\ plan'[q] = plan[q]
                                 /\ mem'.recs[q] = mem.recs[q]
    BY <1>1, <1>7 DEF Keep, Shrink, Preserve, TypeInv, TypeOK, Plan, Ledger
  <2>2. At(o[p], p)'
    <3>1. CASE Keep(p)
      <4>1. mem'.recs[p] = OperationRecord(plan[p], files[p], mem.recs[p])
        BY <1>6, <3>1 DEF Keep
      <4>2. /\ o[p].op # "remove"
            /\ ~ Refused(o[p], base.files[p], base.ledger.recs[p])
            /\ base.files[p] = o[p].content
        BY <1>4, <3>1 DEF Keep
      <4>3. base.files[p].kind # "other"
        BY <1>1, <1>2, <1>4, <4>2, StartedKinds
      <4> QED
        BY <1>1, <1>4, <2>1, <4>1, <4>2, <4>3 DEF At, Done, Installed, Shown
    <3>2. CASE Shrink(p)
      <4>1. mem'.recs[p] = [mem.recs[p] EXCEPT !.owners = plan[p].owners]
        BY <1>6, <3>2 DEF Shrink
      <4> QED
        BY <1>1, <1>4, <2>1, <3>2, <4>1
        DEF Shrink, At, Done, Uninstalled, Removes
    <3>3. CASE Preserve(p)
      <4>1. mem'.recs[p] = [mem.recs[p] EXCEPT !.owners = {}]
        BY <1>6, <3>3 DEF Preserve
      <4> QED
        BY <1>1, <1>4, <2>1, <3>3, <4>1
        DEF Preserve, At, Done, Uninstalled, Removes
    <3> QED BY <1>7, <3>1, <3>2, <3>3
  <2>3. \A q \in Path \ {p} : At(o[q], q)'
    BY <1>1, <1>5, <2>1, Elsewhere
  <2> QED BY <1>3, <2>1, <2>2, <2>3 DEF TransactionInv, Progress, At
<1>8. CASE Refuse(p)
  BY <1>8 DEF Refuse, TransactionInv, Transacting, Performing
<1>9. CASE Snapshot(p)
  <2>1. /\ pc' = "pend" /\ cur' = {p} /\ plan' = plan /\ mem' = mem
    BY <1>9 DEF Snapshot
  <2>2. At(o[p], p)'
    BY <1>1, <1>4, <1>9, <2>1
    DEF Snapshot, Mutates, At, Underway, Removes
  <2>3. \A q \in Path \ {p} : At(o[q], q)'
    BY <1>1, <1>5, <2>1, Elsewhere
  <2> QED BY <1>3, <2>1, <2>2, <2>3 DEF TransactionInv, Progress, At
<1> QED BY <1>7, <1>8, <1>9

\* The mutation of a destination.
LEMMA TransactionPerform ==
  ASSUME TypeInv, ReversibleInv, TransactionInv, NEW p \in Path,
         Unlink(p) \/ Write(p) \/ Pop(p) \/ Append(p)
  PROVE  TransactionInv'
<1>1. /\ pc \in Performing /\ cur = {p}
      /\ mem' = mem \/ Append(p)
      /\ base' = base
  BY DEF Unlink, Write, Pop, Append, history, Performing,
         ReversibleInv, LoopInv, TypeInv, TypeOK
<1>2. PICK o \in Plan : Started(o) /\ Progress(o)
  BY <1>1 DEF TransactionInv, Transacting
<1>3. Started(o)'
  BY <1>1, <1>2 DEF Started
<1>4. Underway(o[p], p)
  BY <1>1, <1>2 DEF Progress
<1>5. \A q \in Path : At(o[q], q)
  BY <1>2 DEF Progress, At
<1>6. \A q \in Path \ {p} :
         /\ files'[q] = files[q] /\ plan'[q] = plan[q]
         /\ mem'.recs[q] = mem.recs[q] /\ visible[q] \subseteq visible'[q]
         /\ q \notin cur'
  BY <1>1
  DEF Unlink, Write, Pop, Append, VisibleCopies, TypeInv,
      TypeOK, Plan, Ledger, disk
<1>7. \A q \in Path \ {p} : At(o[q], q)'
  BY <1>1, <1>5, <1>6, Elsewhere
<1>8. SUFFICES ASSUME pc' # "failed" PROVE At(o[p], p)' /\ pc' # "ledger"
  BY <1>3, <1>7
  DEF TransactionInv, Progress, At, Transacting, Performing
<1>9. CASE Unlink(p)
  <2>1. /\ pc = "unlink" /\ pc' = "write" /\ files[p].kind # "other"
        /\ Untouched(p) => files' = files
        /\ visible' = VisibleCopies(p)
        /\ UNCHANGED <<cur, plan, mem>>
    BY <1>8, <1>9 DEF Unlink
  <2>2. files[p] = base.files[p] /\ plan[p] = o[p]
    BY <1>4, <2>1 DEF Underway
  <2>3. Shown(o[p], p)'
    BY <1>1, <2>1, <2>2 DEF Shown, VisibleCopies, TypeInv, TypeOK
  <2> QED BY <1>1, <1>4, <2>1, <2>2, <2>3 DEF At, Underway, Removes, Untouched
<1>10. CASE Write(p)
  <2>1. /\ pc = "write" /\ pc' = "pop"
        /\ files' = IF Untouched(p) THEN files
                    ELSE [files EXCEPT ![p] = Result(p)]
        /\ UNCHANGED <<visible, cur, plan, mem>>
    BY <1>10 DEF Write
  <2>2. jm.pending[p] = base.files[p]
    BY <1>1, <1>4, <2>1
    DEF ReversibleInv, LoopInv, Performing, Reversible, Entry, Underway
  <2>3. files'[p] = IF o[p].op = "remove"
                    THEN AfterRemoval(base.files[p], base.ledger.recs[p])
                    ELSE o[p].content
    BY <1>4, <2>1, <2>2
    DEF Underway, Untouched, Result, AfterRemoval, TypeInv, TypeOK
  <2> QED BY <1>1, <1>4, <2>1, <2>3 DEF At, Underway, Removes, Shown
<1>11. CASE Pop(p)
  BY <1>1, <1>4, <1>11 DEF Pop, disk, At, Underway, Removes, Shown
<1>12. CASE Append(p)
  <2>1. /\ pc = "append" /\ pc' = "next" /\ cur' = {}
        /\ plan'[p] = NoOp
        /\ mem'.recs[p] = IF plan[p].op = "remove" THEN NoRecord
                          ELSE OperationRecord(plan[p], held, mem.recs[p])
        /\ UNCHANGED <<files, visible>>
    BY <1>12 DEF Append, TypeInv, TypeOK, Plan, Ledger
  <2>2. held = base.files[p]
    BY <1>1, <2>1 DEF ReversibleInv, HeldReversible
  <2> QED
    BY <1>1, <1>4, <2>1, <2>2
    DEF At, Underway, Done, Installed, Uninstalled, Removes, Shown
<1> QED BY <1>9, <1>10, <1>11, <1>12

LEMMA TransactionPending ==
  ASSUME TransactionInv, WritePending
  PROVE  TransactionInv'
<1>1. /\ pc = "pend" /\ pc' = "unlink"
      /\ UNCHANGED <<files, visible, cur, plan, mem, base>>
  BY DEF WritePending, history
<1>2. PICK o \in Plan : Started(o) /\ Progress(o)
  BY <1>1 DEF TransactionInv, Transacting, Performing
<1>3. Started(o)'
  BY <1>1, <1>2 DEF Started
<1>4. Progress(o)'
  BY <1>1, <1>2
  DEF Progress, Underway, Ahead, Done, Uninstalled, Installed, Shown, Removes,
      Untouched
<1> QED BY <1>1, <1>3, <1>4 DEF TransactionInv

LEMMA TransactionReady ==
  ASSUME TypeInv, CommitInv, TransactionInv, ReadyToCommit
  PROVE  TransactionInv'
<1>1. /\ pc = "next" /\ pc' = "ledger" /\ cur = {}
      /\ mem'.recs = mem.recs
      /\ \A p \in Path : plan[p] = NoOp
      /\ UNCHANGED <<files, visible, cur, plan, base>>
  BY DEF ReadyToCommit, history, CommitInv, TypeInv, TypeOK, Ledger
<1>2. PICK o \in Plan : Started(o) /\ Progress(o)
  BY <1>1 DEF TransactionInv, Transacting
<1>3. Started(o)'
  BY <1>1, <1>2 DEF Started
<1>4. \A p \in Path : Done(o[p], p)'
  BY <1>1, <1>2 DEF Progress, Done, Uninstalled, Installed, Shown, Removes
<1> QED BY <1>1, <1>3, <1>4 DEF TransactionInv, Progress

LEMMA TransactionStep ==
  ASSUME TypeInv, ReversibleInv, CommitInv, TransactionInv, Undisturbed,
         [Next]_vars
  PROVE  TransactionInv'
<1>1. ASSUME NEW sel \in Selections, NEW v \in Releases, BeginApply(sel, v)
      PROVE  TransactionInv'
  <2>0. PICK newPlan : newPlan = ApplyPlan(sel, v, files, ledger.recs)
    OBVIOUS
  <2>1. Begin(newPlan) /\ ~ PlanRefused(sel, v, files, ledger.recs)
    BY <1>1, <2>0 DEF BeginApply
  <2>2. newPlan \in Plan
    BY <2>0, DataAssumption, ApplyPlanType DEF TypeInv, TypeOK
  <2>3. base'.files = files /\ base'.ledger = ledger
    BY <2>1 DEF Begin
  <2>4. Started(newPlan)'
    BY <2>0, <2>1, <2>3 DEF Started
  <2> QED BY <2>1, <2>2, <2>4, TransactionBegin
<1>2. ASSUME NEW sel \in Selections, BeginUninstall(sel)
      PROVE  TransactionInv'
  <2>0. PICK newPlan : newPlan = UninstallPlan(sel, ledger.recs)
    OBVIOUS
  <2>1. Begin(newPlan)
    BY <1>2, <2>0 DEF BeginUninstall
  <2>2. newPlan \in Plan
    BY <2>0, DataAssumption, UninstallPlanType DEF TypeInv, TypeOK, Ledger
  <2>3. base'.ledger = ledger
    BY <2>1 DEF Begin
  <2>4. Started(newPlan)'
    BY <2>0, <2>3 DEF Started
  <2> QED BY <2>1, <2>2, <2>4, TransactionBegin
<1>3. CASE WritePending
  BY <1>3, TransactionPending
<1>4. ASSUME NEW p \in Path, Step(p) \/ RestoreFails(p)
      PROVE  TransactionInv'
  <2>1. CASE UndoUnlink(p) \/ Restore(p) \/ CannotRestore(p) \/ RestoreFails(p)
    BY <2>1
    DEF UndoUnlink, Restore, CannotRestore, RestoreFails, SkipEntry,
        TransactionInv, Transacting, Performing
  <2> QED BY <1>4, <2>1, TransactionLoop, TransactionPerform DEF Step
<1>5. CASE \/ WriteLedger \/ MarkCommitted \/ ClearJournal \/ SyncDirectory
           \/ Handle \/ RestoreLedger \/ ForgetJournal \/ KeepJournal
           \/ RollBackJournal \/ Fail \/ Crash
  BY <1>5
  DEF WriteLedger, MarkCommitted, ClearJournal, SyncDirectory, Handle,
      RestoreLedger, ForgetJournal, KeepJournal, RollBackJournal, Fail, Crash,
      Stopped, TransactionInv, Transacting, Performing
<1>6. CASE Clean \/ Finalize
  BY <1>6
  DEF Clean, Finalize, RecoverStarts, Stopped, process, TransactionInv,
      Transacting, Performing
<1>7. ASSUME NEW p \in Path, UserEdit(p) PROVE TransactionInv'
  BY <1>7
  DEF UserEdit, Window, Undisturbed, process, TransactionInv, Transacting,
      Performing
<1>8. CASE UNCHANGED vars
  <2>1. UNCHANGED <<files, visible, pc, cur, plan, mem, base>>
    BY <1>8 DEF vars, disk, process, history
  <2>2. \A o : Started(o) => Started(o)'
    BY <2>1 DEF Started
  <2>3. \A o : Progress(o) => Progress(o)'
    BY <2>1
    DEF Progress, Underway, Ahead, Done, Installed, Uninstalled, Removes,
        Shown, Untouched
  <2> QED BY <2>1, <2>2, <2>3 DEF TransactionInv
<1> QED
  BY <1>1, <1>2, <1>3, <1>4, <1>5, <1>6, <1>7, <1>8, TransactionReady
  DEF Next, Advance, Recover

---------------------------------------------------------------------------
(* Every step maps to a step of AtomicInstall or to a stutter.             *)

AtomicInv == ReversibleInv /\ CommitInv /\ TransactionInv

\* What the visible backups hold when an installation takes effect.
Backed(sel, v) ==
  \A p \in Path :
    LET x == ApplyPlan(sel, v, SettledFiles, SettledRecs)[p] IN
    /\ x.op = "legacy-replace"
    /\ SettledFiles[p].kind = "file"
    /\ SettledFiles[p] # x.content
    => SettledFiles[p].user \in visible'[p]

\* AtomicInstall resolves operations, and builds records, as Installer does.
LEMMA SameValues ==
  /\ Atomic!File = File
  /\ Atomic!Absent = Absent
  /\ Atomic!None = None
  /\ Atomic!NoRecord = NoRecord
  /\ Atomic!NoOp = NoOp
  /\ \A v : Atomic!Shipped(v) = Shipped(v)
  /\ \A f, r : Atomic!Matches(f, r) <=> Matches(f, r)
  /\ \A f, r : Atomic!AfterRemoval(f, r) = AfterRemoval(f, r)
  /\ \A o, f, r : Atomic!Refused(o, f, r) <=> Refused(o, f, r)
  /\ \A o, f, r : Atomic!OperationRecord(o, f, r) = OperationRecord(o, f, r)
BY DEF Atomic!File, File, Atomic!Absent, Absent, Atomic!None, None,
       Atomic!NoRecord, NoRecord, Atomic!NoOp, NoOp, Atomic!Shipped, Shipped,
       Atomic!Matches, Matches, Atomic!Recorded, Recorded,
       Atomic!AfterRemoval, AfterRemoval, Atomic!Refused, Refused,
       Atomic!OperationRecord, OperationRecord

LEMMA SamePlans ==
  ASSUME NEW sel, NEW v, NEW fs, NEW rs
  PROVE  /\ Atomic!ApplyPlan(sel, v, fs, rs) = ApplyPlan(sel, v, fs, rs)
         /\ Atomic!PlanRefused(sel, v, fs, rs) <=> PlanRefused(sel, v, fs, rs)
<1>1. Atomic!Wanted(sel, fs) = Wanted(sel, fs)
  BY SameValues DEF Atomic!Wanted, Wanted
<1>2. \A p : Atomic!Staged(p, v, fs, rs) <=> Staged(p, v, fs, rs)
  BY SameValues DEF Atomic!Staged, Staged
<1>3. \A p : Atomic!Content(p, v, fs) = Content(p, v, fs)
  BY SameValues DEF Atomic!Content, Content, Atomic!Merge, Merge, Atomic!Link,
                    Link
<1>4. \A p : Atomic!ResolvedOp(p) = ResolvedOp(p)
  BY DEF Atomic!ResolvedOp, ResolvedOp
<1>5. \A p : Atomic!Owners(sel, p) = Owners(sel, p)
  BY DEF Atomic!Owners, Owners
<1>6. Atomic!PlanRefused(sel, v, fs, rs) <=> PlanRefused(sel, v, fs, rs)
  BY <1>1, <1>2, SameValues
  DEF Atomic!PlanRefused, PlanRefused, Atomic!StageRefused, StageRefused
<1> QED
  BY <1>1, <1>2, <1>3, <1>4, <1>5, <1>6, SameValues
  DEF Atomic!ApplyPlan, ApplyPlan

LEMMA AtomicInit == Init => Atomic!Init
<1> SUFFICES ASSUME Init PROVE Atomic!Init
  OBVIOUS
<1>1. ~ Uncommitted /\ ~ MayWithdraw
  BY DEF Init, Uncommitted, MayWithdraw
<1>2. /\ SettledFiles = files /\ WayBack = {}
      /\ SettledRecs = [p \in Path |-> NoRecord]
  BY <1>1 DEF Init, SettledFiles, SettledRecs, WayBack, NoLedger
<1> QED
  BY <1>2, TypeInit, SameValues DEF Atomic!Init, Atomic!NoUndo, TypeInv, TypeOK

\* Before the commit, and while a rollback goes on, nothing is seen to happen.
LEMMA Unseen ==
  ASSUME Uncommitted, Uncommitted', base' = base
  PROVE  UNCHANGED Atomic!vars
BY DEF Atomic!vars, SettledFiles, SettledRecs, WayBack, MayWithdraw

\* After it, nothing that leaves the files, the ledger and the way back.
LEMMA Settled ==
  ASSUME ~ Uncommitted, ~ Uncommitted', files' = files,
         ledger'.recs = ledger.recs, WayBack' = WayBack
  PROVE  UNCHANGED Atomic!vars
BY DEF Atomic!vars, SettledFiles, SettledRecs

\* WriteLedger is the instant at which the command happens.
LEMMA AtomicCommit ==
  ASSUME TypeInv, AtomicInv, WriteLedger
  PROVE  \/ \E sel \in Selections, v \in Releases :
              Atomic!Apply(sel, v) /\ Backed(sel, v)
         \/ \E sel \in Selections : Atomic!Uninstall(sel)
<1>1. /\ pc = "ledger" /\ pc' = "mark" /\ ledger' = mem
      /\ UNCHANGED <<files, journal, visible, base>>
  BY DEF WriteLedger, history
<1>2. /\ journal.status = "ready-to-commit" /\ journal.after = mem
      /\ ledger = base.ledger /\ ledger # mem
  BY <1>1 DEF AtomicInv, CommitInv, StampInv, TypeInv, TypeOK, Ledger
<1>3. Uncommitted /\ ~ Uncommitted'
  BY <1>1, <1>2 DEF Uncommitted, Committed, NoJournal
<1>4. /\ SettledFiles = base.files /\ SettledFiles' = files
      /\ SettledRecs = base.ledger.recs /\ SettledRecs' = mem.recs
      /\ WayBack = {}
      /\ WayBack' = {[files |-> base.files, recs |-> base.ledger.recs]}
  BY <1>1, <1>3 DEF SettledFiles, SettledRecs, WayBack, MayWithdraw
<1>5. PICK o \in Plan : Started(o) /\ Progress(o)
  BY <1>1 DEF AtomicInv, TransactionInv, Transacting
<1>6. \A p \in Path : Done(o[p], p)
  BY <1>1, <1>5 DEF AtomicInv, TransactionInv, Progress
<1>7. /\ files \in [Path -> File] /\ base.files \in [Path -> File]
      /\ mem.recs \in [Path -> Record] /\ base.ledger.recs \in [Path -> Record]
  BY DEF TypeInv, TypeOK, Ledger
<1>8. ASSUME NEW sel \in Selections, NEW v \in Releases,
             ~ PlanRefused(sel, v, base.files, base.ledger.recs),
             o = ApplyPlan(sel, v, base.files, base.ledger.recs)
      PROVE  Atomic!Apply(sel, v) /\ Backed(sel, v)
  <2>1. \A p \in Path : o[p] # NoOp => Installed(o[p], p)
    BY <1>6, <1>7, <1>8, PlanContent DEF Done
  <2>2. files = [p \in Path |-> IF o[p] = NoOp THEN base.files[p]
                                ELSE o[p].content]
    BY <1>6, <1>7, <2>1 DEF Done, Installed
  <2>3. mem.recs = [p \in Path |->
                     IF o[p] = NoOp THEN base.ledger.recs[p]
                     ELSE OperationRecord(o[p], base.files[p],
                                          base.ledger.recs[p])]
    BY <1>6, <1>7, <2>1 DEF Done, Installed
  <2>4. \A p \in Path : o[p] # NoOp =>
          /\ base.files[p].kind # "other"
          /\ ~ Refused(o[p], base.files[p], base.ledger.recs[p])
    BY <2>1 DEF Installed
  <2>5. Backed(sel, v)
    BY <1>1, <1>4, <1>8, <2>1 DEF Backed, Installed, Shown, NoOp
  <2> QED
    BY <1>4, <1>8, <2>2, <2>3, <2>4, <2>5, SameValues, SamePlans
    DEF Atomic!Apply, Atomic!NoUndo
<1>9. ASSUME NEW sel \in Selections,
             o = UninstallPlan(sel, base.ledger.recs)
      PROVE  Atomic!Uninstall(sel)
  <2> DEFINE f(p) == base.files[p]
             r(p) == base.ledger.recs[p]
             gone(p) == /\ r(p).owners \cap sel # {}
                        /\ r(p).owners \subseteq sel
                        /\ Matches(f(p), r(p))
  <2>1. ASSUME NEW p \in Path
        PROVE  /\ files[p] = IF gone(p) THEN AfterRemoval(f(p), r(p)) ELSE f(p)
               /\ mem.recs[p] = IF gone(p) THEN NoRecord
                                ELSE [r(p) EXCEPT !.owners = @ \ sel]
    <3>1. CASE r(p).owners \cap sel = {}
      <4>1. o[p] = NoOp
        BY <1>9, <3>1 DEF UninstallPlan
      <4>2. r(p).owners \ sel = r(p).owners
        BY <3>1
      <4>3. [r(p) EXCEPT !.owners = @ \ sel] = r(p)
        BY <1>7, <4>2 DEF Record
      <4> QED BY <1>6, <3>1, <4>1, <4>3 DEF Done
    <3>2. CASE r(p).owners \cap sel # {}
      <4>1. /\ o[p] # NoOp /\ o[p].op = "remove"
            /\ o[p].owners = r(p).owners \ sel
        BY <1>9, <3>2 DEF UninstallPlan, NoOp
      <4>2. Uninstalled(o[p], p)
        BY <1>6, <4>1 DEF Done
      <4>3. Removes(o[p], p) <=> gone(p)
        BY <3>2, <4>1 DEF Removes
      <4> QED BY <4>1, <4>2, <4>3 DEF Uninstalled
    <3> QED BY <3>1, <3>2
  <2>2. files = [p \in Path |-> IF gone(p) THEN AfterRemoval(f(p), r(p))
                                ELSE f(p)]
    BY <1>7, <2>1
  <2>3. mem.recs = [p \in Path |-> IF gone(p) THEN NoRecord
                                   ELSE [r(p) EXCEPT !.owners = @ \ sel]]
    BY <1>7, <2>1
  <2> QED
    BY <1>4, <2>2, <2>3, SameValues
    DEF Atomic!Uninstall, Atomic!Removed, Atomic!NoUndo
<1> QED BY <1>5, <1>8, <1>9 DEF Started

\* Until the ledger is written the journal is one to roll back.
LEMMA Underneath ==
  TypeInv /\ CommitInv /\ pc \in Transacting => Uncommitted
<1> SUFFICES ASSUME TypeInv, CommitInv, pc \in Transacting PROVE Uncommitted
  OBVIOUS
<1>1. CASE pc = "ledger"
  BY <1>1 DEF CommitInv, StampInv, Uncommitted, Committed, NoJournal, TypeInv,
              TypeOK, Ledger
<1>2. CASE pc \in Performing \cup {"next"}
  BY <1>2 DEF CommitInv, Uncommitted, Committed, NoJournal
<1> QED BY <1>1, <1>2 DEF Transacting

LEMMA AtomicBegin ==
  ASSUME TypeInv, TypeInv', CommitInv', NEW newPlan, Begin(newPlan)
  PROVE  UNCHANGED Atomic!vars
<1>1. /\ pc = "idle" /\ pc' = "next" /\ journal = NoJournal /\ files' = files
      /\ base' = [files |-> files, ledger |-> ledger]
  BY DEF Begin
<1>2. Uncommitted'
  BY <1>1 DEF CommitInv, Uncommitted, Committed, NoJournal
<1>3. ~ Uncommitted
  BY <1>1 DEF Uncommitted
<1> QED
  BY <1>1, <1>2, <1>3
  DEF Atomic!vars, SettledFiles, SettledRecs, WayBack, MayWithdraw

LEMMA AtomicLoop ==
  ASSUME TypeInv, TypeInv', CommitInv, CommitInv',
         \/ \E p \in Path :
              \/ Keep(p) \/ Refuse(p) \/ Shrink(p) \/ Preserve(p)
              \/ Snapshot(p) \/ Unlink(p) \/ Write(p) \/ Pop(p) \/ Append(p)
         \/ WritePending \/ ReadyToCommit
  PROVE  UNCHANGED Atomic!vars
<1>1. /\ pc \in Performing \cup {"next"}
      /\ pc' \in Transacting \/ (pc' = "failed" /\ journal' = journal)
      /\ ledger' = ledger /\ base' = base
  BY DEF Keep, Refuse, Shrink, Preserve, Snapshot, Reached, Unlink, Write,
         Pop, Append, WritePending, ReadyToCommit, disk, history, Performing,
         Transacting
<1>2. Uncommitted
  BY <1>1, Underneath DEF Transacting
<1>3. Uncommitted'
  <2>1. CASE pc' \in Transacting
    <3>1. (TypeInv /\ CommitInv /\ pc \in Transacting => Uncommitted)'
      BY Underneath, PTL
    <3> QED BY <2>1, <3>1
  <2>2. CASE journal' = journal
    BY <1>1, <1>2, <2>2 DEF Uncommitted
  <2> QED BY <1>1, <2>1, <2>2
<1> QED BY <1>1, <1>2, <1>3, Unseen

LEMMA AtomicCleanup ==
  ASSUME TypeInv, ReversibleInv, CommitInv, CommitInv',
         MarkCommitted \/ ClearJournal \/ SyncDirectory \/ Clean
  PROVE  Atomic!Return \/ UNCHANGED Atomic!vars
<1>1. /\ pc \in {"mark", "clear", "sync", "clean"}
      /\ UNCHANGED <<files, ledger, base>>
  BY DEF MarkCommitted, ClearJournal, SyncDirectory, Clean, disk, history
<1>2. ~ Uncommitted
  BY <1>1 DEF CommitInv, ReversibleInv, JournalInv, Uncommitted, Committed
<1>3. ~ Uncommitted'
  BY <1>2 DEF MarkCommitted, ClearJournal, SyncDirectory, Clean, disk,
              CommitInv, Uncommitted
<1>4. CASE pc' \in {"mark", "clear", "sync", "clean"}
  BY <1>1, <1>2, <1>3, <1>4, Settled DEF WayBack, MayWithdraw
<1>5. CASE Clean /\ Stopped
  <2>1. SettledFiles' = SettledFiles /\ SettledRecs' = SettledRecs
    BY <1>1, <1>2, <1>3 DEF SettledFiles, SettledRecs
  <2>2. WayBack # {} /\ WayBack' = {}
    BY <1>1, <1>2, <1>5 DEF Stopped, WayBack, MayWithdraw
  <2> QED BY <2>1, <2>2 DEF Atomic!Return, Atomic!NoUndo
<1> QED
  BY <1>1, <1>4, <1>5
  DEF MarkCommitted, ClearJournal, SyncDirectory, Clean, process

\* The handler undoes what was committed, or what never was.
LEMMA AtomicHandle ==
  ASSUME TypeInv, CommitInv, CommitInv', Handle
  PROVE  Atomic!Withdraw \/ UNCHANGED Atomic!vars
<1>1. /\ pc = "failed" /\ pc' = "undo" /\ base' = base
  BY DEF Handle, history
<1>2. Uncommitted'
  BY <1>1 DEF CommitInv
<1>3. CASE Uncommitted
  BY <1>1, <1>2, <1>3, Unseen
<1>4. CASE ~ Uncommitted
  <2>1. /\ WayBack = {[files |-> base.files, recs |-> base.ledger.recs]}
        /\ WayBack' = {}
    BY <1>1, <1>4 DEF WayBack, MayWithdraw
  <2>2. SettledFiles' = base.files /\ SettledRecs' = base.ledger.recs
    BY <1>1, <1>2 DEF SettledFiles, SettledRecs
  <2> QED BY <2>1, <2>2 DEF Atomic!Withdraw, Atomic!NoUndo
<1> QED BY <1>3, <1>4

LEMMA AtomicUndo ==
  ASSUME TypeInv, ReversibleInv, CommitInv, CommitInv',
         \/ \E p \in Path : \/ UndoUnlink(p) \/ Restore(p)
                            \/ CannotRestore(p) \/ RestoreFails(p)
         \/ RestoreLedger \/ ForgetJournal \/ KeepJournal
         \/ Recover
  PROVE  UNCHANGED Atomic!vars
<1>1. CASE \/ \E p \in Path : \/ UndoUnlink(p) \/ Restore(p)
                              \/ CannotRestore(p) \/ RestoreFails(p)
           \/ RestoreLedger
  <2>1. /\ pc \in {"undo", "restore"} /\ pc' \in {"undo", "restore", "forget"}
        /\ base' = base
    BY <1>1 DEF UndoUnlink, Restore, CannotRestore, RestoreFails, SkipEntry,
                Undoing, RestoreLedger, history
  <2> QED BY <2>1, Unseen DEF CommitInv
<1>2. CASE ForgetJournal
  <2>1. /\ pc = "forget" /\ pc' = "idle" /\ journal' = NoJournal
        /\ UNCHANGED <<files, ledger, base>>
    BY <1>2 DEF ForgetJournal, Stopped, history
  <2>2. files = base.files /\ ledger = base.ledger
    BY <2>1 DEF ReversibleInv, UndoInv, RollbackRestores
  <2> QED
    BY <2>1, <2>2
    DEF Atomic!vars, SettledFiles, SettledRecs, WayBack, MayWithdraw,
        Uncommitted
<1>3. CASE KeepJournal
  <2>1. /\ pc = "undo" /\ base' = base
        /\ journal'.status = "rollback-failed"
    BY <1>3 DEF KeepJournal, history, TypeInv, TypeOK, Journal
  <2>2. Uncommitted'
    BY <2>1 DEF Uncommitted, Committed, NoJournal
  <2> QED BY <2>1, <2>2, Unseen DEF CommitInv
<1>4. CASE Finalize
  <2>1. /\ pc = "idle" /\ pc' = "idle" /\ Committed(journal, ledger)
        /\ journal' = NoJournal /\ UNCHANGED <<files, ledger, base>>
    BY <1>4 DEF Finalize, RecoverStarts, process, history
  <2> QED BY <2>1, Settled DEF WayBack, MayWithdraw, Uncommitted
<1>5. CASE RollBackJournal
  <2>1. /\ journal # NoJournal /\ ~ Committed(journal, ledger)
        /\ UNCHANGED <<journal, ledger, base>>
    BY <1>5 DEF RollBackJournal, RecoverStarts, disk, history
  <2> QED BY <2>1, Unseen DEF Uncommitted
<1> QED BY <1>1, <1>2, <1>3, <1>4, <1>5 DEF Recover

LEMMA AtomicStopped ==
  ASSUME TypeInv, CommitInv, Undisturbed, Fail \/ Crash
  PROVE  Atomic!Return \/ UNCHANGED Atomic!vars
<1>1. /\ UNCHANGED <<files, ledger, journal, base>>
      /\ Uncommitted' <=> Uncommitted
  BY DEF Fail, Crash, disk, history, Uncommitted
<1>2. CASE Uncommitted
  BY <1>1, <1>2, Unseen
<1>3. CASE ~ Uncommitted /\ Fail
  <2>1. pc \in {"mark", "clear", "sync", "clean"} /\ pc' = "failed"
    BY <1>3, Underneath, InstallerAssumption
    DEF Fail, FailPoints, Transacting, Performing
  <2> QED BY <1>1, <1>3, <2>1, Settled DEF WayBack, MayWithdraw
<1>4. CASE ~ Uncommitted /\ Crash
  <2>1. SettledFiles' = SettledFiles /\ SettledRecs' = SettledRecs
    BY <1>1, <1>4 DEF SettledFiles, SettledRecs
  <2>2. WayBack' = {}
    BY <1>4 DEF Crash, Stopped, WayBack, MayWithdraw
  <2> QED BY <2>1, <2>2 DEF Atomic!Return, Atomic!NoUndo, Atomic!vars
<1> QED BY <1>2, <1>3, <1>4

\* Users edit while no transaction is open.
LEMMA AtomicEdit ==
  ASSUME TypeInv, Undisturbed, NEW p \in Path, UserEdit(p)
  PROVE  /\ SettledFiles = files /\ SettledFiles' = files'
         /\ SettledRecs = ledger.recs /\ SettledRecs' = ledger.recs
         /\ WayBack = {} /\ WayBack' = {}
         /\ Atomic!UserEdit
<1>1. /\ pc = "idle" /\ journal = NoJournal
      /\ UNCHANGED <<ledger, journal, pc, base>>
  BY DEF UserEdit, Window, Undisturbed, process
<1>2. /\ SettledFiles = files /\ SettledFiles' = files'
      /\ SettledRecs = ledger.recs /\ SettledRecs' = ledger.recs
      /\ WayBack = {} /\ WayBack' = {}
  BY <1>1 DEF SettledFiles, SettledRecs, WayBack, MayWithdraw, Uncommitted
<1>3. PICK u \in UserContent : \E g \in Edited(files[p], u) :
        files' = [files EXCEPT ![p] = g]
  BY DEF UserEdit
<1>4. PICK g \in Edited(files[p], u) : files' = [files EXCEPT ![p] = g]
  BY <1>3
<1>5. g \in File
  BY DEF Edited
<1>6. Atomic!UserEdit
  BY <1>2, <1>4, <1>5, SameValues DEF Atomic!UserEdit, Atomic!NoUndo
<1> QED BY <1>2, <1>6

LEMMA AtomicInvStep ==
  ASSUME TypeInv, AtomicInv, Undisturbed, [Next]_vars
  PROVE  TypeInv' /\ AtomicInv'
BY TypeStep, ReversibleStep, CommitStep, TransactionStep DEF AtomicInv

\* Every step but the commit and the users' edits.
LEMMA AtomicQuiet ==
  ASSUME TypeInv, AtomicInv, Undisturbed, [Next]_vars,
         ~ WriteLedger, \A p \in Path : ~ UserEdit(p)
  PROVE  Atomic!Withdraw \/ Atomic!Return \/ UNCHANGED Atomic!vars
<1>1. TypeInv' /\ CommitInv'
  BY AtomicInvStep DEF AtomicInv
<1>2. CASE UNCHANGED vars
  BY <1>2 DEF vars, disk, process, history, Atomic!vars, SettledFiles,
              SettledRecs, WayBack, MayWithdraw, Uncommitted
<1>3. CASE \E sel \in Selections :
             BeginUninstall(sel) \/ \E v \in Releases : BeginApply(sel, v)
  BY <1>1, <1>3, AtomicBegin DEF BeginApply, BeginUninstall
<1>4. CASE Advance
  BY <1>1, <1>4, AtomicLoop, AtomicCleanup, AtomicHandle, AtomicUndo
  DEF Advance, Step, AtomicInv
<1>5. CASE Recover \/ \E p \in Path : RestoreFails(p)
  BY <1>1, <1>5, AtomicUndo DEF AtomicInv
<1>6. CASE Fail \/ Crash
  BY <1>6, AtomicStopped DEF AtomicInv
<1> QED BY <1>2, <1>3, <1>4, <1>5, <1>6 DEF Next

LEMMA AtomicStep ==
  TypeInv /\ AtomicInv /\ Undisturbed /\ [Next]_vars
    => [Atomic!Next]_(Atomic!vars)
<1> SUFFICES ASSUME TypeInv, AtomicInv, Undisturbed, [Next]_vars
             PROVE  [Atomic!Next]_(Atomic!vars)
  OBVIOUS
<1>1. CASE WriteLedger
  BY <1>1, AtomicCommit DEF Atomic!Next
<1>2. CASE \E p \in Path : UserEdit(p)
  BY <1>2, AtomicEdit DEF Atomic!Next
<1>3. CASE ~ WriteLedger /\ \A p \in Path : ~ UserEdit(p)
  BY <1>3, AtomicQuiet DEF Atomic!Next
<1> QED BY <1>1, <1>2, <1>3

LEMMA AlwaysAtomic ==
  ASSUME Undisturbed
  PROVE  Spec => [](TypeInv /\ AtomicInv)
<1>1. Init => TypeInv /\ AtomicInv
  BY TypeInit, ReversibleInit, CommitInit, TransactionInit DEF AtomicInv
<1>2. TypeInv /\ AtomicInv /\ [Next]_vars => TypeInv' /\ AtomicInv'
  BY AtomicInvStep
<1> QED BY <1>1, <1>2, PTL DEF Spec

\* Installs and uninstalls are all or nothing, whatever kills, exceptions and
\* recoveries they go through: each behaviour of the transactions is one of
\* AtomicInstall.
THEOREM InstallerIsAtomic ==
  ASSUME Undisturbed
  PROVE  Spec => ImplementsAtomic
<1>1. Init => Atomic!Init
  BY AtomicInit
<1>2. TypeInv /\ AtomicInv /\ [Next]_vars => [Atomic!Next]_(Atomic!vars)
  BY AtomicStep
<1> QED BY <1>1, <1>2, AlwaysAtomic, PTL DEF Spec, ImplementsAtomic, Atomic!Spec

---------------------------------------------------------------------------
(* Records describe the disk.                                              *)

\* Only users' edits change what users put there; backups are never removed.
LEMMA HistoryGrows ==
  ASSUME TypeInv, [Next]_vars, \A p \in Path : ~ UserEdit(p)
  PROVE  /\ mine' = mine
         /\ \A p \in Path : visible[p] \subseteq visible'[p]
<1>1. CASE \E p \in Path : Unlink(p)
  BY <1>1 DEF Unlink, VisibleCopies, history, TypeInv, TypeOK
<1>2. CASE ~ \E p \in Path : Unlink(p)
  <2>1. visible' = visible /\ mine' = mine
    BY <1>2
    DEF Next, vars, BeginApply, BeginUninstall, Begin, Advance, Step, Keep,
        Refuse, Shrink, Preserve, Snapshot, Write, Pop, Append, UndoUnlink,
        Restore, CannotRestore, RestoreFails, SkipEntry, WritePending,
        ReadyToCommit, WriteLedger, MarkCommitted, ClearJournal,
        SyncDirectory, Clean, Handle, RestoreLedger, ForgetJournal,
        KeepJournal, Recover, Finalize, RollBackJournal, Fail, Crash, disk,
        history
  <2> QED BY <2>1
<1> QED BY <1>1, <1>2

LEMMA TruthInit == Init => TruthInv
<1> SUFFICES ASSUME Init PROVE TruthInv
  OBVIOUS
<1>1. SettledRecs = [p \in Path |-> NoRecord] /\ WayBack = {}
  BY AtomicInit, SameValues DEF Atomic!Init, Atomic!NoUndo
<1> QED BY <1>1 DEF TruthInv, Truthful, NoRecord

LEMMA TruthCommit ==
  ASSUME TypeInv, AtomicInv, TruthInv, WriteLedger
  PROVE  TruthInv'
<1>1. mine' = mine
  BY DEF WriteLedger, history
<1>2. Truthful(SettledFiles, SettledRecs)
  BY DEF TruthInv
<1>3. ASSUME NEW sel, NEW v, Atomic!Apply(sel, v)
      PROVE  TruthInv'
  <2> DEFINE o == ApplyPlan(sel, v, SettledFiles, SettledRecs)
  <2>1. /\ \A p \in Path :
             /\ SettledFiles'[p] = IF o[p] = NoOp THEN SettledFiles[p]
                                   ELSE o[p].content
             /\ SettledRecs'[p] =
                  IF o[p] = NoOp THEN SettledRecs[p]
                  ELSE OperationRecord(o[p], SettledFiles[p], SettledRecs[p])
        /\ WayBack' = {[files |-> SettledFiles, recs |-> SettledRecs]}
    BY <1>3, SameValues, SamePlans DEF Atomic!Apply
  <2> HIDE DEF o
  <2>2. Truthful(SettledFiles, SettledRecs)'
    <3> SUFFICES ASSUME NEW p \in Path, SettledRecs'[p].owners # {}
                 PROVE  \/ SettledFiles'[p] = SettledRecs'[p].installed
                        \/ mine[p] # 0 /\ SettledFiles'[p].user = mine[p]
      BY <1>1 DEF Truthful
    <3>1. CASE o[p] = NoOp
      BY <1>2, <2>1, <3>1 DEF Truthful
    <3>2. CASE o[p] # NoOp
      <4>1. \A x, f, r : OperationRecord(x, f, r).installed = x.content
        BY DEF OperationRecord
      <4> QED BY <2>1, <3>2, <4>1
    <3> QED BY <3>1, <3>2
  <2>3. \A u \in WayBack' : Truthful(u.files, u.recs)'
    BY <1>1, <1>2, <2>1 DEF Truthful
  <2> QED BY <2>2, <2>3 DEF TruthInv
<1>4. ASSUME NEW sel, Atomic!Uninstall(sel)
      PROVE  TruthInv'
  <2>1. /\ \A p \in Path :
             \/ /\ SettledFiles'[p] = SettledFiles[p]
                /\ SettledRecs'[p] =
                     [SettledRecs[p] EXCEPT !.owners = @ \ sel]
             \/ SettledRecs'[p] = NoRecord
        /\ WayBack' = {[files |-> SettledFiles, recs |-> SettledRecs]}
    BY <1>4, SameValues DEF Atomic!Uninstall
  <2>2. SettledRecs \in [Path -> Record]
    BY DEF SettledRecs, TypeInv, TypeOK, Ledger
  <2>3. Truthful(SettledFiles, SettledRecs)'
    <3> SUFFICES ASSUME NEW p \in Path, SettledRecs'[p].owners # {}
                 PROVE  \/ SettledFiles'[p] = SettledRecs'[p].installed
                        \/ mine[p] # 0 /\ SettledFiles'[p].user = mine[p]
      BY <1>1 DEF Truthful
    <3>1. /\ SettledFiles'[p] = SettledFiles[p]
          /\ SettledRecs'[p] = [SettledRecs[p] EXCEPT !.owners = @ \ sel]
      BY <2>1 DEF NoRecord
    <3>2. /\ SettledRecs[p].owners # {}
          /\ SettledRecs'[p].installed = SettledRecs[p].installed
      BY <2>2, <3>1 DEF Record
    <3> QED BY <1>2, <3>1, <3>2 DEF Truthful
  <2>4. \A u \in WayBack' : Truthful(u.files, u.recs)'
    BY <1>1, <1>2, <2>1 DEF Truthful
  <2> QED BY <2>3, <2>4 DEF TruthInv
<1> QED BY <1>3, <1>4, AtomicCommit

LEMMA TruthEdit ==
  ASSUME TypeInv, Undisturbed, "delete" \notin EditKinds, TruthInv,
         NEW p \in Path, UserEdit(p)
  PROVE  TruthInv'
<1>1. PICK u \in UserContent : \E g \in Edited(files[p], u) :
        /\ files' = [files EXCEPT ![p] = g]
        /\ mine' = [mine EXCEPT ![p] = g.user]
  BY DEF UserEdit
<1>2. PICK g \in Edited(files[p], u) :
        /\ files' = [files EXCEPT ![p] = g]
        /\ mine' = [mine EXCEPT ![p] = g.user]
  BY <1>1
<1>3. g.user = u /\ u # 0
  BY DataAssumption DEF Edited
<1>4. /\ SettledFiles = files /\ SettledFiles' = files'
      /\ SettledRecs' = SettledRecs /\ WayBack' = {}
  BY AtomicEdit
<1> QED
  BY <1>2, <1>3, <1>4 DEF TruthInv, Truthful, TypeInv, TypeOK

LEMMA TruthStep ==
  ASSUME TypeInv, AtomicInv, TruthInv, Undisturbed, "delete" \notin EditKinds,
         [Next]_vars
  PROVE  TruthInv'
<1>1. CASE \E p \in Path : UserEdit(p)
  BY <1>1, TruthEdit
<1>2. CASE ~ WriteLedger /\ \A p \in Path : ~ UserEdit(p)
  <2>1. mine' = mine
    BY <1>2, HistoryGrows
  <2>2. \/ UNCHANGED <<SettledFiles, SettledRecs>> /\ WayBack' \subseteq WayBack
        \/ /\ WayBack' = {}
           /\ \E u \in WayBack : SettledFiles' = u.files /\ SettledRecs' = u.recs
    BY <1>2, AtomicQuiet
    DEF Atomic!Withdraw, Atomic!Return, Atomic!vars, Atomic!NoUndo
  <2> QED BY <2>1, <2>2 DEF TruthInv, Truthful
<1> QED BY <1>1, <1>2, TruthCommit

\* Between the commands, a record that some host owns describes what is at its
\* destination, up to what users have written there: no command, failed
\* command or recovery leaves a stale or a half-made installation behind it.
THEOREM LedgerTruthfulCorrect ==
  ASSUME Undisturbed, "delete" \notin EditKinds
  PROVE  Spec => []LedgerTruthful
<1>1. Init => TruthInv
  BY TruthInit
<1>2. TypeInv /\ AtomicInv /\ TruthInv /\ [Next]_vars => TruthInv'
  BY TruthStep
<1>3. TruthInv => LedgerTruthful
  BY DEF TruthInv, Truthful, LedgerTruthful, SettledFiles, SettledRecs,
         Uncommitted
<1> QED BY <1>1, <1>2, <1>3, AlwaysAtomic, PTL DEF Spec

---------------------------------------------------------------------------
(* Users' content.                                                         *)

LEMMA SafeInit == Init => SafeInv
<1> SUFFICES ASSUME Init PROVE SafeInv
  OBVIOUS
<1>1. SettledRecs = [p \in Path |-> NoRecord] /\ WayBack = {}
  BY AtomicInit, SameValues DEF Atomic!Init, Atomic!NoUndo
<1>2. ~ Recorded(NoRecord) /\ NoRecord.original.user = 0
  BY DEF Recorded, NoRecord, None
<1>3. SettledFiles = files /\ mine = [p \in Path |-> files[p].user]
  BY DEF Init, SettledFiles, Uncommitted
<1> QED BY <1>1, <1>2, <1>3 DEF SafeInv, Safe, Recording, Plain, Preserved

\* What an installation may assume of an operation, and of what it finds.
Installs(x, p, f, r) ==
  /\ x \in Installation
  /\ x.content.user = IF x.op = "managed-config" THEN f.user ELSE 0
  /\ x.op = "legacy-replace" => OpOf[p] = "legacy-replace"
  /\ OpOf[p] = "legacy-replace" => x.content.kind = "file"
  /\ f.kind # "other"
  /\ ~ Refused(x, f, r)

LEMMA RecordingInstall ==
  ASSUME NEW p \in Path, NEW x, NEW f \in File, NEW r \in Record,
         Installs(x, p, f, r), Recording(r)
  PROVE  Recording(OperationRecord(x, f, r))
<1> DEFINE n == OperationRecord(x, f, r)
<1>1. /\ n.installed = x.content /\ x.content \in File
      /\ n.original = IF Recorded(r) THEN r.original ELSE f
      /\ n.created = IF Recorded(r) THEN r.created ELSE f = Absent
  BY DEF OperationRecord, Installs, Installation
<1> HIDE DEF n
<1>2. Recorded(n)
  BY <1>1, Constants DEF Recorded
<1>3. n.installed.user \in {0, n.original.user}
  <2>1. CASE ~ Recorded(r) \/ x.op # "managed-config"
    BY <1>1, <2>1 DEF Installs
  <2>2. CASE Recorded(r) /\ x.op = "managed-config"
    BY <1>1, <2>2 DEF Installs, Refused, Matches, Recording
  <2> QED BY <2>1, <2>2
<1>4. n.original \in File /\ n.original.kind # "other"
  BY <1>1 DEF Installs, Recording
<1>5. n.created => n.original = Absent
  BY <1>1 DEF Recording
<1> QED BY <1>2, <1>3, <1>4, <1>5 DEF Recording, n

LEMMA PreservedInstall ==
  ASSUME NEW p \in Path, NEW x, NEW f \in File, NEW r \in Record,
         Installs(x, p, f, r), Recording(r), Plain(p, f, r),
         Preserved(p, f, r), mine' = mine, visible[p] \subseteq visible'[p],
         x.op = "legacy-replace" /\ f.kind = "file" /\ f # x.content
           => f.user \in visible'[p]
  PROVE  \/ mine'[p] = 0
         \/ x.content.user = mine'[p]
         \/ OperationRecord(x, f, r).original.user = mine'[p]
         \/ mine'[p] \in visible'[p]
<1> SUFFICES ASSUME mine[p] # 0, mine[p] \notin visible'[p]
             PROVE  \/ x.content.user = mine[p]
                    \/ OperationRecord(x, f, r).original.user = mine[p]
  OBVIOUS
<1>1. OperationRecord(x, f, r).original = IF Recorded(r) THEN r.original ELSE f
  BY DEF OperationRecord
<1>2. CASE r.original.user = mine[p]
  BY <1>1, <1>2 DEF Recording
<1>3. CASE f.user = mine[p]
  <2>1. CASE ~ Recorded(r) \/ f = x.content \/ x.op = "managed-config"
    BY <1>1, <1>3, <2>1 DEF Installs
  <2>2. CASE Recorded(r) /\ Matches(f, r)
    BY <1>1, <1>3, <2>2 DEF Recording, Matches
  <2>3. CASE Recorded(r) /\ ~ Matches(f, r) /\ f # x.content
    BY <1>3, <2>3 DEF Installs, Refused, Plain
  <2> QED BY <2>1, <2>2, <2>3
<1> QED BY <1>2, <1>3 DEF Preserved

\* An uninstall brings the original back before it forgets it.
LEMMA PreservedRemove ==
  ASSUME NEW p \in Path, NEW f \in File, NEW r \in Record,
         Recording(r), Preserved(p, f, r), Matches(f, r),
         mine[p] # 0, mine[p] \notin visible[p]
  PROVE  AfterRemoval(f, r).user = mine[p]
<1>1. Recorded(r) /\ f = r.installed
  BY DEF Matches
<1>2. r.original.user = mine[p]
  BY <1>1 DEF Recording, Preserved
<1>3. r.original.kind \in {"file", "symlink"}
  BY <1>1, <1>2 DEF Recording, File
<1>4. ~ r.created
  BY <1>1, <1>2 DEF Recording, Absent
<1> QED BY <1>2, <1>3, <1>4 DEF AfterRemoval

LEMMA SafeCommit ==
  ASSUME TypeInv, AtomicInv, SafeInv, WriteLedger
  PROVE  SafeInv'
<1>1. mine' = mine /\ \A p \in Path : visible[p] \subseteq visible'[p]
  BY DEF WriteLedger, history
<1>2. /\ SettledFiles \in [Path -> File]
      /\ SettledRecs \in [Path -> Record]
  BY DEF SettledFiles, SettledRecs, TypeInv, TypeOK, Ledger
<1>3. Safe(SettledFiles, SettledRecs)
  BY DEF SafeInv
<1>4. ASSUME WayBack' = {[files |-> SettledFiles, recs |-> SettledRecs]}
      PROVE  \A u \in WayBack' : Safe(u.files, u.recs)'
  BY <1>1, <1>3, <1>4 DEF Safe, Preserved
<1>5. ASSUME NEW sel \in Selections, NEW v \in Releases,
             Atomic!Apply(sel, v), Backed(sel, v)
      PROVE  SafeInv'
  <2> DEFINE o == ApplyPlan(sel, v, SettledFiles, SettledRecs)
  <2>1. /\ \A p \in Path :
             /\ SettledFiles'[p] = IF o[p] = NoOp THEN SettledFiles[p]
                                   ELSE o[p].content
             /\ SettledRecs'[p] =
                  IF o[p] = NoOp THEN SettledRecs[p]
                  ELSE OperationRecord(o[p], SettledFiles[p], SettledRecs[p])
             /\ o[p] # NoOp =>
                  /\ SettledFiles[p].kind # "other"
                  /\ ~ Refused(o[p], SettledFiles[p], SettledRecs[p])
        /\ WayBack' = {[files |-> SettledFiles, recs |-> SettledRecs]}
    BY <1>5, SameValues, SamePlans DEF Atomic!Apply
  <2>2. \A p \in Path : o[p] # NoOp =>
          Installs(o[p], p, SettledFiles[p], SettledRecs[p])
    BY <1>2, <2>1, PlanContent DEF Installs
  <2>3. \A p \in Path :
          /\ o[p].op = "legacy-replace"
          /\ SettledFiles[p].kind = "file"
          /\ SettledFiles[p] # o[p].content
          => SettledFiles[p].user \in visible'[p]
    BY <1>5 DEF Backed
  <2> HIDE DEF o
  <2>4. ASSUME NEW p \in Path
        PROVE  /\ Recording(SettledRecs'[p])
               /\ Plain(p, SettledFiles'[p], SettledRecs'[p])
               /\ \/ mine'[p] = 0
                  \/ SettledFiles'[p].user = mine'[p]
                  \/ SettledRecs'[p].original.user = mine'[p]
                  \/ mine'[p] \in visible'[p]
    <3>1. CASE o[p] = NoOp
      BY <1>1, <1>3, <2>1, <3>1 DEF Safe, Preserved
    <3>2. CASE o[p] # NoOp
      <4>1. /\ SettledFiles'[p] = o[p].content
            /\ SettledRecs'[p] =
                 OperationRecord(o[p], SettledFiles[p], SettledRecs[p])
            /\ Installs(o[p], p, SettledFiles[p], SettledRecs[p])
        BY <2>1, <2>2, <3>2
      <4>2. /\ Recording(SettledRecs[p])
            /\ Plain(p, SettledFiles[p], SettledRecs[p])
            /\ Preserved(p, SettledFiles[p], SettledRecs[p])
            /\ SettledFiles[p] \in File /\ SettledRecs[p] \in Record
        BY <1>2, <1>3 DEF Safe
      <4>3. Recording(SettledRecs'[p])
        BY <4>1, <4>2, RecordingInstall
      <4>4. Plain(p, SettledFiles'[p], SettledRecs'[p])
        BY <4>1 DEF Plain, Installs
      <4>5. \/ mine'[p] = 0
            \/ o[p].content.user = mine'[p]
            \/ OperationRecord(o[p], SettledFiles[p],
                               SettledRecs[p]).original.user = mine'[p]
            \/ mine'[p] \in visible'[p]
        BY <1>1, <2>3, <4>1, <4>2, PreservedInstall
      <4> QED BY <4>1, <4>3, <4>4, <4>5
    <3> QED BY <3>1, <3>2
  <2>5. Safe(SettledFiles, SettledRecs)'
    BY <2>4 DEF Safe, Preserved
  <2> QED BY <1>4, <2>1, <2>5 DEF SafeInv
<1>6. ASSUME NEW sel, Atomic!Uninstall(sel)
      PROVE  SafeInv'
  <2>1. /\ \A p \in Path :
             \/ /\ SettledFiles'[p] = SettledFiles[p]
                /\ SettledRecs'[p] =
                     [SettledRecs[p] EXCEPT !.owners = @ \ sel]
             \/ /\ Matches(SettledFiles[p], SettledRecs[p])
                /\ SettledFiles'[p] =
                     AfterRemoval(SettledFiles[p], SettledRecs[p])
                /\ SettledRecs'[p] = NoRecord
        /\ WayBack' = {[files |-> SettledFiles, recs |-> SettledRecs]}
    BY <1>6, SameValues DEF Atomic!Uninstall, Atomic!Removed
  <2>2. ASSUME NEW p \in Path
        PROVE  /\ Recording(SettledRecs'[p])
               /\ Plain(p, SettledFiles'[p], SettledRecs'[p])
               /\ \/ mine'[p] = 0
                  \/ SettledFiles'[p].user = mine'[p]
                  \/ SettledRecs'[p].original.user = mine'[p]
                  \/ mine'[p] \in visible'[p]
    <3>1. /\ Recording(SettledRecs[p])
          /\ Plain(p, SettledFiles[p], SettledRecs[p])
          /\ Preserved(p, SettledFiles[p], SettledRecs[p])
          /\ SettledFiles[p] \in File /\ SettledRecs[p] \in Record
      BY <1>2, <1>3 DEF Safe
    <3>2. CASE /\ SettledFiles'[p] = SettledFiles[p]
               /\ SettledRecs'[p] = [SettledRecs[p] EXCEPT !.owners = @ \ sel]
      <4>1. /\ SettledRecs'[p].installed = SettledRecs[p].installed
            /\ SettledRecs'[p].original = SettledRecs[p].original
            /\ SettledRecs'[p].created = SettledRecs[p].created
        BY <3>1, <3>2 DEF Record
      <4> QED
        BY <1>1, <3>1, <3>2, <4>1
        DEF Recording, Recorded, Plain, Preserved
    <3>3. CASE /\ Matches(SettledFiles[p], SettledRecs[p])
               /\ SettledFiles'[p] =
                    AfterRemoval(SettledFiles[p], SettledRecs[p])
               /\ SettledRecs'[p] = NoRecord
      <4>1. Recording(NoRecord) /\ ~ Recorded(NoRecord)
        BY DEF Recording, Recorded, NoRecord, None
      <4>2. \/ mine[p] = 0
            \/ SettledFiles'[p].user = mine[p]
            \/ mine[p] \in visible[p]
        BY <3>1, <3>3, PreservedRemove
      <4> QED BY <1>1, <3>3, <4>1, <4>2 DEF Plain
    <3> QED BY <2>1, <3>2, <3>3
  <2>3. Safe(SettledFiles, SettledRecs)'
    BY <2>2 DEF Safe, Preserved
  <2> QED BY <1>4, <2>1, <2>3 DEF SafeInv
<1> QED BY <1>5, <1>6, AtomicCommit

LEMMA SafeEdit ==
  ASSUME TypeInv, Undisturbed, PlainEdits, SafeInv, NEW p \in Path, UserEdit(p)
  PROVE  SafeInv'
<1>1. PICK u \in UserContent : \E g \in Edited(files[p], u) :
        /\ files' = [files EXCEPT ![p] = g]
        /\ mine' = [mine EXCEPT ![p] = g.user]
  BY DEF UserEdit
<1>2. PICK g \in Edited(files[p], u) :
        /\ files' = [files EXCEPT ![p] = g]
        /\ mine' = [mine EXCEPT ![p] = g.user]
  BY <1>1
<1>3. /\ SettledFiles = files /\ SettledFiles' = files'
      /\ SettledRecs' = SettledRecs /\ WayBack' = {} /\ visible' = visible
  BY AtomicEdit DEF UserEdit
<1>4. OpOf[p] = "legacy-replace" => g.kind = "file" \/ g.user = 0
  BY DEF Edited, PlainEdits, Absent
<1>5. ASSUME NEW q \in Path
      PROVE  /\ Recording(SettledRecs'[q])
             /\ Plain(q, SettledFiles'[q], SettledRecs'[q])
             /\ \/ mine'[q] = 0
                \/ SettledFiles'[q].user = mine'[q]
                \/ SettledRecs'[q].original.user = mine'[q]
                \/ mine'[q] \in visible'[q]
  <2>1. /\ Recording(SettledRecs[q])
        /\ Plain(q, SettledFiles[q], SettledRecs[q])
        /\ Preserved(q, SettledFiles[q], SettledRecs[q])
    BY DEF SafeInv, Safe
  <2>2. CASE q = p
    BY <1>2, <1>3, <1>4, <2>1, <2>2 DEF Plain, TypeInv, TypeOK
  <2>3. CASE q # p
    BY <1>2, <1>3, <2>1, <2>3 DEF Plain, Preserved, TypeInv, TypeOK
  <2> QED BY <2>2, <2>3
<1>6. Safe(SettledFiles, SettledRecs)'
  BY <1>5 DEF Safe, Preserved
<1> QED BY <1>3, <1>6 DEF SafeInv

LEMMA SafeStep ==
  ASSUME TypeInv, AtomicInv, SafeInv, Undisturbed, PlainEdits, [Next]_vars
  PROVE  SafeInv'
<1>1. CASE \E p \in Path : UserEdit(p)
  BY <1>1, SafeEdit
<1>2. CASE ~ WriteLedger /\ \A p \in Path : ~ UserEdit(p)
  <2>1. mine' = mine /\ \A p \in Path : visible[p] \subseteq visible'[p]
    BY <1>2, HistoryGrows
  <2>2. \/ UNCHANGED <<SettledFiles, SettledRecs>> /\ WayBack' \subseteq WayBack
        \/ /\ WayBack' = {}
           /\ \E u \in WayBack : SettledFiles' = u.files /\ SettledRecs' = u.recs
    BY <1>2, AtomicQuiet
    DEF Atomic!Withdraw, Atomic!Return, Atomic!vars, Atomic!NoUndo
  <2>3. ASSUME NEW fs, NEW rs, Safe(fs, rs)
        PROVE  \A p \in Path : /\ Recording(rs[p])
                               /\ Plain(p, fs[p], rs[p])
                               /\ \/ mine'[p] = 0
                                  \/ fs[p].user = mine'[p]
                                  \/ rs[p].original.user = mine'[p]
                                  \/ mine'[p] \in visible'[p]
    BY <2>1, <2>3 DEF Safe, Preserved
  <2>4. Safe(SettledFiles, SettledRecs)'
    BY <2>2, <2>3 DEF SafeInv, Safe, Preserved
  <2>5. \A u \in WayBack' : Safe(u.files, u.recs)'
    BY <2>2, <2>3 DEF SafeInv, Safe, Preserved
  <2> QED BY <2>4, <2>5 DEF SafeInv
<1> QED BY <1>1, <1>2, SafeCommit

\* What a user last put at a destination is never lost: at every instant,
\* while a transaction runs, fails or waits to be recovered as well, it is at
\* its place, in a record, in a visible backup or among what a recovery
\* brings back.
THEOREM UserContentCorrect ==
  ASSUME Undisturbed, PlainEdits
  PROVE  Spec => []UserContentKept
<1>1. Init => SafeInv
  BY SafeInit
<1>2. TypeInv /\ AtomicInv /\ SafeInv /\ [Next]_vars => SafeInv'
  BY SafeStep
<1>3. TypeInv /\ AtomicInv /\ SafeInv => UserContentKept
  <2> SUFFICES ASSUME TypeInv, AtomicInv, SafeInv, NEW p \in Path, mine[p] # 0
               PROVE  Kept(p)
    BY DEF UserContentKept
  <2>1. Preserved(p, SettledFiles[p], SettledRecs[p])
    BY DEF SafeInv, Safe
  <2>2. CASE ~ Uncommitted
    BY <2>1, <2>2 DEF Preserved, SettledFiles, SettledRecs, Kept
  <2>3. CASE Uncommitted
    <3>1. Reversible(journal)
      BY <2>3 DEF Uncommitted, AtomicInv, ReversibleInv
    <3>2. Preserved(p, base.files[p], base.ledger.recs[p])
      BY <2>1, <2>3 DEF SettledFiles, SettledRecs
    <3> QED BY <3>1, <3>2 DEF Preserved, Reversible, Kept
  <2> QED BY <2>2, <2>3
<1> QED BY <1>1, <1>2, <1>3, AlwaysAtomic, PTL DEF Spec

=============================================================================
