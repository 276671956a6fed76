------------------------ MODULE RunRecordProperties ------------------------
\* What the records of a run's legs promise.
EXTENDS RunRecord

\* The files of the run directory name who wrote them last.
File == [kind : Kinds, by : Legs \cup {"nobody"}]

TypeOK ==
    /\ step \in [Legs -> Steps] /\ answer \in [Legs -> Answers]
    /\ runs \in [Legs -> Nat] /\ rows \in [Legs -> Nat]
    /\ pass \in [Names -> [Passes -> File]]
    /\ findings \in [Names -> File] /\ verdict \in [Names -> File]
    /\ faults \in [number : Nat, legs : SUBSET Legs]

\* A leg that was asked for this very pass.
AskedFor(l, n, i) == Leg[l].name = n /\ Leg[l].pass = i

\* A recorded review is not lost to the bookkeeping: the pass of a leg that
\* is done holds its block, until a leg that was asked for the same pass
\* writes it again, or a leg of that name without a pass fails, whose stub
\* goes to pass 1.
WorkKept ==
    \A l \in Legs : step[l] = "done" /\ Leg[l].pass # 0 =>
        LET n == Leg[l].name
            i == Leg[l].pass
            f == pass[n][i]
        IN  \/ f = Written(l, "block")
            \/ /\ f.by \in Legs \ {l}
               /\ \/ AskedFor(f.by, n, i)
                  \/ AskedFor(f.by, n, 0) /\ i = 1 /\ f.kind # "block"

\* The tokens of one answer are counted once, although the row comes before
\* the checks: only a write that fails after the row, or a call that was
\* killed or refused by the record and is then recorded as failed, adds one.
TokensOnce ==
    \A l \in Legs : Leg[l].headless /\ l \notin faults.legs => rows[l] <= runs[l]

\* A headless leg never ends silently: it leaves a row for each answer, and
\* one that was to record a pass leaves a block or a stub.
NeverSilent ==
    \A l \in Legs : Leg[l].headless /\ l \notin faults.legs /\ step[l] \in {"done", "failed"} =>
        /\ rows[l] >= runs[l]
        /\ Leg[l].pass # 0 => pass[Leg[l].name][Leg[l].pass].kind # "absent"

\* The gate is satisfied by the presence of files.  Unless something was
\* killed or could not be written, each of them is a structured review, or
\* the stub of a leg that was asked for this pass, or, in pass 1, for none;
\* in particular no torn or unstructured block passes the gate.
GateHonest ==
    PassesPresent /\ faults.legs = {} =>
        \A n \in Names, i \in Passes :
            LET f == pass[n][i] IN
            /\ f.kind \in {"block", "stub"}
            /\ AskedFor(f.by, n, i) \/ (AskedFor(f.by, n, 0) /\ i = 1 /\ f.kind = "stub")
=============================================================================
