--------------------------- MODULE AtomicInstall ---------------------------
(***************************************************************************)
(* What the installer promises: an install or an uninstall happens to the  *)
(* files and the ledger at one instant and completely, or not at all.      *)
(* A process that has committed may still take everything back until it    *)
(* returns (an error after the ledger is written enters the same handler   *)
(* as any other), but then, too, all of it.  Installer implements this.    *)
(***************************************************************************)
EXTENDS InstallerData

VARIABLES
  files,  \* [Path -> File]: what is at each destination
  recs,   \* [Path -> Record]: the ledger
  undo    \* the state a still running process may go back to, if any

vars == <<files, recs, undo>>

\* undo is a set of at most one such state.
NoUndo == {}

Init ==
  /\ files \in [Path -> File]
  /\ recs = [p \in Path |-> NoRecord]
  /\ undo = NoUndo

\* Every planned destination holds the release's content and is recorded; the
\* content found before the first record is kept as the original.  Nothing
\* happens if a destination holds what may not be replaced, or a directory.
Apply(sel, v) ==
  LET plan == ApplyPlan(sel, v, files, recs) IN
  /\ undo = NoUndo
  /\ ~ PlanRefused(sel, v, files, recs)
  /\ \A p \in Path : plan[p] # NoOp => /\ files[p].kind # "other"
                                       /\ ~ Refused(plan[p], files[p], recs[p])
  /\ files' = [p \in Path |->
                IF plan[p] = NoOp THEN files[p] ELSE plan[p].content]
  /\ recs' = [p \in Path |->
               IF plan[p] = NoOp THEN recs[p]
               ELSE OperationRecord(plan[p], files[p], recs[p])]
  /\ undo' = {[files |-> files, recs |-> recs]}

\* Only what the selected hosts alone own and nobody modified is removed.
Removed(sel, p) ==
  /\ recs[p].owners \cap sel # {}
  /\ recs[p].owners \subseteq sel
  /\ Matches(files[p], recs[p])

Uninstall(sel) ==
  /\ undo = NoUndo
  /\ files' = [p \in Path |->
                IF Removed(sel, p) THEN AfterRemoval(files[p], recs[p])
                ELSE files[p]]
  /\ recs' = [p \in Path |->
               IF Removed(sel, p) THEN NoRecord
               ELSE [recs[p] EXCEPT !.owners = @ \ sel]]
  /\ undo' = {[files |-> files, recs |-> recs]}

Withdraw ==
  /\ \E u \in undo : files' = u.files /\ recs' = u.recs
  /\ undo' = NoUndo

Return ==
  /\ undo # NoUndo
  /\ undo' = NoUndo
  /\ UNCHANGED <<files, recs>>

UserEdit ==
  /\ undo = NoUndo
  /\ \E p \in Path, f \in File : files' = [files EXCEPT ![p] = f]
  /\ UNCHANGED <<recs, undo>>

Next ==
  \/ \E sel \in Selections, v \in Releases : Apply(sel, v)
  \/ \E sel \in Selections : Uninstall(sel)
  \/ Withdraw
  \/ Return
  \/ UserEdit

Spec == Init /\ [][Next]_vars
============================================================================
