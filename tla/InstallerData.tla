--------------------------- MODULE InstallerData ---------------------------
(***************************************************************************)
(* The data the installer (scripts/proptermaltwo_installer.py) works on:   *)
(* what can be at a destination, the ledger's records, the operations the  *)
(* manifest declares, and how the operations are resolved against the      *)
(* disk before a transaction starts.  Everything here is pure.             *)
(*                                                                         *)
(* Abstractions.  A file's bytes are a pair: the user's part (0 or a       *)
(* member of UserContent) and the release whose content it holds (0 or a   *)
(* member of Releases); a merged hook configuration has both.  File modes, *)
(* time stamps and notes are left out.  "other" is a nonempty directory.   *)
(* Destinations are numbered in the order their names sort.                *)
(***************************************************************************)
EXTENDS Naturals

CONSTANTS
  Path,         \* the destinations
  Host,         \* claude-code, codex, polytoken, copilot
  Selections,   \* the sets of hosts one command line can select
  Releases,     \* the releases of the repository, positive numbers
  UserContent,  \* what users write in files, positive numbers
  Ships,        \* [Host -> SUBSET Path]: what the manifest declares per host
  OpOf,         \* [Path -> OpKind]: the declared operation of a destination
  StageOf       \* [Path -> Path]: where a conflicting destination is staged

OpKind == {"managed-copy", "legacy-replace", "seed-only", "symlink",
           "install-or-stage", "hooks-merge", "staged-fragment"}

ASSUME DataAssumption ==
  /\ Path \subseteq Nat
  /\ Releases \subseteq Nat \ {0}
  /\ UserContent \subseteq Nat \ {0}
  /\ Selections \subseteq SUBSET Host
  /\ Ships \in [Host -> SUBSET Path]
  /\ OpOf \in [Path -> OpKind]
  /\ StageOf \in [Path -> Path]

\* A fragment's name belongs to one destination and nothing is shipped to it.
ASSUME StagingAssumption ==
  \A p, q \in Path :
    {OpOf[p], OpOf[q]} \subseteq {"install-or-stage", "hooks-merge"} =>
      /\ StageOf[p] = StageOf[q] => p = q
      /\ \A h \in Host : StageOf[p] \notin Ships[h]

---------------------------------------------------------------------------
(* What is at a destination: path_kind plus the content.                   *)

File ==
  {f \in [kind : {"absent", "file", "symlink", "other"},
          user : {0} \cup UserContent,
          rel  : {0} \cup Releases] :
     f.kind = "absent" => f.user = 0 /\ f.rel = 0}

Absent     == [kind |-> "absent", user |-> 0, rel |-> 0]
None       == [kind |-> "none", user |-> 0, rel |-> 0]  \* no entry, no backup
Shipped(v) == [kind |-> "file", user |-> 0, rel |-> v]
Link       == [kind |-> "symlink", user |-> 0, rel |-> 0]

FileOrNone == File \cup {None}

\* The release's hook definitions merged into the user's own configuration.
\* A symbolic link is read through and replaced by a regular file.
Merge(f, v) == [kind |-> "file", user |-> f.user, rel |-> v]

---------------------------------------------------------------------------
(* Ledger records (operation_record).  A record with no owners is what an  *)
(* uninstall leaves behind for a file it preserved.                        *)

Record == [owners : SUBSET Host, installed : FileOrNone,
           original : FileOrNone, created : BOOLEAN]

NoRecord == [owners |-> {}, installed |-> None, original |-> None,
             created |-> FALSE]

Recorded(r)   == r.installed # None
Matches(f, r) == Recorded(r) /\ f = r.installed

---------------------------------------------------------------------------
(* Resolved operations.  "remove" is an artifact an uninstall reviews; its *)
(* owners are those that remain.                                           *)

Installation == [op : OpKind \cup {"managed-config"}, content : File,
                 owners : SUBSET Host]

Removal == [op : {"remove"}, content : {None}, owners : SUBSET Host]

NoOp == [op |-> "none", content |-> None, owners |-> {}]

Owners(sel, p) == {h \in sel : p \in Ships[h]}

\* resolve_operation: the destination holds something the installer may not
\* take over, so the release's content goes to a fragment beside it.
Staged(p, v, fs, rs) ==
  \/ /\ OpOf[p] = "install-or-stage"
     /\ fs[p] \notin {Absent, Shipped(v)}
     /\ ~ Matches(fs[p], rs[p])
  \/ /\ OpOf[p] = "hooks-merge"
     /\ \/ fs[p].kind = "other"
        \/ /\ fs[p].rel \notin {0, v}
           /\ ~ Matches(fs[p], rs[p])

\* stage_operation: a fragment somebody else wrote is never overwritten.
StageRefused(p, v, fs, rs) ==
  /\ Staged(p, v, fs, rs)
  /\ fs[StageOf[p]] \notin {Absent, Shipped(v)}
  /\ ~ Matches(fs[StageOf[p]], rs[StageOf[p]])

Content(p, v, fs) ==
  CASE OpOf[p] = "symlink"     -> Link
    [] OpOf[p] = "hooks-merge" -> Merge(fs[p], v)
    [] OTHER                   -> Shipped(v)

ResolvedOp(p) ==
  CASE OpOf[p] = "install-or-stage" -> "managed-copy"
    [] OpOf[p] = "hooks-merge"      -> "managed-config"
    [] OTHER                        -> OpOf[p]

\* The declared items that become operations: a seed needs an empty place.
Wanted(sel, fs) ==
  {p \in UNION {Ships[h] : h \in sel} :
     OpOf[p] = "seed-only" => fs[p] = Absent}

\* build_operations for the selected hosts and release, given disk and ledger.
ApplyPlan(sel, v, fs, rs) ==
  LET items  == Wanted(sel, fs)
      direct == {p \in items : ~ Staged(p, v, fs, rs)}
      staged == items \ direct
  IN  [q \in Path |->
        IF q \in direct
        THEN [op |-> ResolvedOp(q), content |-> Content(q, v, fs),
              owners |-> Owners(sel, q)]
        ELSE IF \E p \in staged : StageOf[p] = q
        THEN [op |-> "staged-fragment", content |-> Shipped(v),
              owners |-> UNION {Owners(sel, p) : p \in
                                  {s \in staged : StageOf[s] = q}}]
        ELSE NoOp]

\* build_operations raises before anything is written.
PlanRefused(sel, v, fs, rs) ==
  \E p \in Wanted(sel, fs) : StageRefused(p, v, fs, rs)

\* The artifacts uninstall reviews: those the selected hosts own a share of.
UninstallPlan(sel, rs) ==
  [p \in Path |->
    IF rs[p].owners \cap sel = {} THEN NoOp
    ELSE [op |-> "remove", content |-> None, owners |-> rs[p].owners \ sel]]

---------------------------------------------------------------------------
(* One operation against the file and the record found when it is reached. *)

\* Mutant of Refused: a recorded destination is taken over as it is.
RefusedUnrecorded(o, f, r) ==
  /\ ~ Recorded(r)
  /\ f \notin {Absent, o.content}
  /\ o.op \notin {"legacy-replace", "managed-config"}

\* apply_operations and mutation_needed: raised instead of overwriting.
Refused(o, f, r) ==
  \/ /\ Recorded(r)
     /\ ~ Matches(f, r)
     /\ o.op # "legacy-replace"
  \/ /\ f \notin {Absent, o.content}
     /\ ~ Matches(f, r)
     /\ o.op \notin {"legacy-replace", "managed-config"}

OperationRecord(o, prior, r) ==
  [owners    |-> o.owners \cup r.owners,
   installed |-> o.content,
   original  |-> IF Recorded(r) THEN r.original ELSE prior,
   created   |-> IF Recorded(r) THEN r.created ELSE prior = Absent]

\* What an uninstall leaves in place of an unmodified artifact.
AfterRemoval(f, r) ==
  IF r.created THEN Absent
  ELSE IF r.original.kind \in {"file", "symlink"} THEN r.original
  ELSE f
============================================================================
