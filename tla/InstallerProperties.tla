------------------------ MODULE InstallerProperties ------------------------
(***************************************************************************)
(* What the installer's transactions promise.                              *)
(***************************************************************************)
EXTENDS Installer

---------------------------------------------------------------------------
(* Types.                                                                  *)

PcValues == FailPoints \cup {"idle", "failed", "forget"}

Counts == [commands : Nat, edits : Nat, crashes : Nat, faults : Nat]

Plan == [Path -> Installation \cup Removal \cup {NoOp}]

\* Every variable holds a value of its kind; a destination is never None.
TypeOK ==
  /\ files \in [Path -> File]
  /\ ledger \in Ledger
  /\ journal \in Journal
  /\ recov \in Entries
  /\ visible \in [Path -> SUBSET ({0} \cup UserContent)]
  /\ pc \in PcValues
  /\ cur \subseteq Path
  /\ held \in FileOrNone
  /\ plan \in Plan
  /\ mem \in Ledger
  /\ jm \in Journal
  /\ rest \subseteq Path
  /\ errs \in BOOLEAN
  /\ count \in Counts
  /\ base \in [files : [Path -> File], ledger : Ledger]
  /\ mine \in [Path -> {0} \cup UserContent]

---------------------------------------------------------------------------
(* Reversibility.                                                          *)

\* A rollback that follows j brings back what was there when the transaction
\* began: each entry holds the prior content (its copy, for a file, is still
\* on disk), and a destination without an entry has not changed.
Reversible(j) ==
  /\ j.before = base.ledger
  /\ \A p \in Path :
       IF Entry(j, p) = None THEN files[p] = base.files[p]
       ELSE /\ Entry(j, p) = base.files[p]
            /\ Entry(j, p).kind = "file" => recov[p] = base.files[p]

\* The journal on disk makes the transaction reversible at every instant at
\* which the process may be killed (atomic_json of the pending entry comes
\* before perform_operation, and the entries stay until every restore is
\* done), and so does the copy in memory at every instant at which the
\* process may raise and enter its own handler.
TransactionReversible ==
  /\ journal # NoJournal => Reversible(journal)
  /\ pc \in (FailAt \ {"undo", "restore"}) \cup {"failed"} => Reversible(jm)

\* A rollback that reports no error (by the handler or by --recover) has
\* restored every file and the ledger: "prior filesystem and ledger state
\* restored".
RollbackRestores ==
  pc = "forget" => files = base.files /\ ledger = base.ledger

---------------------------------------------------------------------------
(* Users' content.                                                         *)

\* What a user last put at a destination is still there, or it is where the
\* installer keeps it: in the original of a record of the ledger or of the
\* journal's copy of the earlier ledger, in a visible backup, or in the
\* recovery copy (the link's target, for a link) of a journalled entry.
Kept(p) ==
  \/ files[p].user = mine[p]
  \/ ledger.recs[p].original.user = mine[p]
  \/ journal.before.recs[p].original.user = mine[p]
  \/ mine[p] \in visible[p]
  \/ /\ Entry(journal, p).user = mine[p]
     /\ Entry(journal, p).kind = "file" => recov[p] = Entry(journal, p)

UserContentKept == \A p \in Path : mine[p] # 0 => Kept(p)

\* With no transaction open, a record some host owns describes what is on
\* disk, except for what the user has made of it: no command, failed command
\* or recovery leaves a stale release, a half-done replacement or another
\* destination's content under a current record.  (For runs in which users
\* write but do not delete.)
LedgerTruthful ==
  pc = "idle" /\ journal = NoJournal =>
    \A p \in Path :
      LET r == ledger.recs[p] IN
      r.owners # {} => \/ files[p] = r.installed
                       \/ mine[p] # 0 /\ files[p].user = mine[p]

---------------------------------------------------------------------------
(* The installer implements AtomicInstall.  The state it stands for is the *)
(* one before the transaction until the ledger is written, and the actual  *)
(* one from then on, unless the handler opens the journal again.           *)

Uncommitted == journal # NoJournal /\ ~ Committed(journal, ledger)

MayWithdraw ==
  /\ pc \in {"mark", "clear", "sync", "clean", "failed"}
  /\ ~ Uncommitted

SettledFiles == IF Uncommitted THEN base.files ELSE files
SettledRecs  == IF Uncommitted THEN base.ledger.recs ELSE ledger.recs
WayBack == IF MayWithdraw
           THEN {[files |-> base.files, recs |-> base.ledger.recs]} ELSE {}

Atomic == INSTANCE AtomicInstall WITH
  files <- SettledFiles, recs <- SettledRecs, undo <- WayBack

\* Every behaviour of the transactions is one of AtomicInstall: installs and
\* uninstalls are all or nothing, whatever crashes, exceptions and recoveries
\* they go through.
ImplementsAtomic == Atomic!Spec

---------------------------------------------------------------------------
(* Liveness, under FairSpec.                                               *)

\* Every command ends: it returns, raises or is killed, and the lock is free.
CommandEnds == pc # "idle" ~> pc = "idle"

\* Mutation does not stay blocked: a journal is finalized or rolled back.
RecoveryCompletes == journal # NoJournal ~> journal = NoJournal
============================================================================
