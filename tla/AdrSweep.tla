------------------------------ MODULE AdrSweep ------------------------------
(***************************************************************************)
(* adr-sweep.py under its cron entry point: the weekly sweep over the      *)
(* decision records, the people who edit the same files, and the commands  *)
(* that it runs.                                                           *)
(*                                                                         *)
(* The state of the sweep is in the records themselves, as two lines of    *)
(* their frontmatter.  A line is the set of its items and the verdict that *)
(* a person appended to it; dates, observations and layout are left out,   *)
(* and so is the log, which only people read.  A record is read as a       *)
(* whole, its commands run, each for up to two minutes, and the text that  *)
(* was read, with one line changed, is written back.                       *)
(***************************************************************************)
EXTENDS Naturals, FiniteSets

CONSTANTS
    Records,        \* the files that may exist, in the order of their paths
    Labels,
    Falsifiers,     \* the labels of each record's falsifier_cmd
    Malformed,      \* those of them whose entry has no command
    Refs,           \* what each record's depends_on names
    Dir,            \* the directory of each record, which an alias names
    Projects,       \* those whose alias is known only while they exist
    Supersedes,     \* what each record's supersedes names
    Selections,     \* what the roots and --only may select
    Scheduled,      \* what the cron job selects
    Exits,          \* the exit codes of the commands
    Statuses,       \* the statuses that people give to a record
    Initial,        \* the contents of the files at the start
    Conditions,     \* how the commands may end at the start
    MaxEdits, MaxChanges, MaxCrashes

Verdicts == {"none", "open", "real", "false"}
Judged == {"real", "false"}

\* Texts and lines.

Line(items, verdict) == [items |-> items, verdict |-> verdict]
NoLine == Line({}, "none")

\* The verdict that a person appended to a line; NoLine has none either.
Adjudication(line) == line.verdict \in Judged

Record(status) == [kind |-> "text", status |-> status, fired |-> NoLine, support |-> NoLine]
NoRecord == [Record("") EXCEPT !.kind = "missing"]

ASSUME AdrSweepAssumption ==
    /\ Records \subseteq Nat
    /\ Falsifiers \in [Records -> SUBSET Labels]
    /\ Malformed \in [Records -> SUBSET Labels]
    /\ Refs \in [Records -> SUBSET Records]
    /\ DOMAIN Dir = Records
    /\ Supersedes \in [Records -> SUBSET Records]
    /\ Selections \subseteq SUBSET Records /\ Scheduled \in Selections
    /\ Initial \subseteq [Records -> {Record(s) : s \in Statuses} \cup {NoRecord}]
    /\ Conditions \subseteq [Records -> [Labels -> Exits]]
    /\ MaxEdits \in Nat /\ MaxChanges \in Nat /\ MaxCrashes \in Nat

VARIABLES
    files,          \* the contents of the records
    dirs,           \* the directories that exist
    world,          \* how each command would end now
    step,           \* where the sweep is
    dry,            \* --dry-run
    roots,          \* the directories that this sweep found when it began
    swept,          \* the records that this sweep found
    todo,           \* those of them that the current pass has not come to
    cur, text,      \* the record in hand, and its text as it was read
    results,        \* what its commands, or the looks at its refs, gave so far
    found,          \* the transitions: items that are to be announced
    observed,       \* the labels of each record whose command ever exited 1
    fell,           \* everything that ever befell a record through people
    asked,          \* the announced items that have been on record since
    edits, changes, crashes

Directories == {Dir[a] : a \in Records}

process == <<step, dry, roots, swept, todo, cur, text, results, found>>
history == <<observed, fell, asked>>
counters == <<edits, changes, crashes>>
vars == <<files, dirs, world, process, history, counters>>

-----------------------------------------------------------------------------
\* Texts.

\* What a write leaves that was cut short: nothing, or frontmatter without end.
Torn == {[NoRecord EXCEPT !.kind = k] : k \in {"empty", "cut"}}

\* An empty file parses, as a record that declares nothing.
Parsed(t) == t.kind \in {"text", "empty"}
Declares(t) == t.kind = "text"

\* Mutant of Upsert: a line is replaced but not inserted.
UpsertReplacing(t, key, line) == IF t[key] = NoLine THEN t ELSE [t EXCEPT ![key] = line]

\* One line is inserted, replaced or removed; the rest of the text stays.
Upsert(t, key, line) == [t EXCEPT ![key] = line]

HardDead == {"retracted", "rejected"}
SoftDead == {"superseded", "deprecated"}

\* The items of a record that are on one of its lines, as they are announced.
Fire(a, l) == [kind |-> "fire", of |-> a, key |-> l, why |-> "fired"]
Loss(a, p) == [kind |-> "support", of |-> a, key |-> p.ref, why |-> p.why]
OnRecord(fs) ==
    (UNION {{Fire(a, l) : l \in fs[a].fired.items} : a \in Records})
        \cup (UNION {{Loss(a, p) : p \in fs[a].support.items} : a \in Records})

-----------------------------------------------------------------------------
\* The functional core.

\* Mutant of Outcome: a command that breaks has fired.
OutcomeBroken(code) == IF code = 0 THEN "clean" ELSE "fired"

\* Exit codes are the whole interface of a command; 124 and 126 stand for a
\* timeout and for a shell that cannot be started.
Outcome(code) ==
    CASE code = 0 -> "clean"
      [] code = 1 -> "fired"
      [] OTHER -> "error"

Commands == [a \in Records |-> Falsifiers[a] \ Malformed[a]]

\* A decision: the line, whether it is written, and whether it is news.
Decision(line, write, news) == [line |-> line, write |-> write, news |-> news]

\* Mutants of DecideFired: a verdict does not protect the line; a command
\* that failed does not; and a standing fire is news again.
DecideFiredAnyway(line, items, mayHeal) ==
    IF items # {} THEN Decision(Line(items, "open"), TRUE, line = NoLine)
    ELSE Decision(NoLine, line # NoLine /\ mayHeal, FALSE)

DecideFiredHealing(line, items, mayHeal) ==
    CASE Adjudication(line) -> Decision(line, FALSE, FALSE)
      [] ~Adjudication(line) /\ items # {} ->
            Decision(Line(items, "open"), TRUE, line = NoLine)
      [] OTHER -> Decision(NoLine, line # NoLine, FALSE)

DecideFiredLoud(line, items, mayHeal) ==
    CASE Adjudication(line) -> Decision(line, FALSE, FALSE)
      [] ~Adjudication(line) /\ items # {} -> Decision(Line(items, "open"), TRUE, TRUE)
      [] OTHER -> IF mayHeal THEN Decision(NoLine, line # NoLine, FALSE)
                  ELSE Decision(line, FALSE, FALSE)

DecideFired(line, items, mayHeal) ==
    CASE Adjudication(line) -> Decision(line, FALSE, FALSE)
      [] ~Adjudication(line) /\ items # {} ->
            Decision(Line(items, "open"), TRUE, line = NoLine)
      [] OTHER -> IF mayHeal THEN Decision(NoLine, line # NoLine, FALSE)
                  ELSE Decision(line, FALSE, FALSE)

\* The same for the support line, which is left alone, with its date, when
\* it would say the same again.
DecideSupport(line, items, hasHard, mayHeal) ==
    CASE Adjudication(line) -> Decision(line, FALSE, FALSE)
      [] ~Adjudication(line) /\ items # {} ->
            IF line.items = items THEN Decision(line, FALSE, FALSE)
            ELSE Decision(Line(items, "open"), TRUE, hasHard)
      [] OTHER -> IF mayHeal THEN Decision(NoLine, line # NoLine, FALSE)
                  ELSE Decision(line, FALSE, FALSE)

-----------------------------------------------------------------------------
\* What a sweep looks up.

Enumerated(sel) == {a \in sel : files[a].kind # "missing"}

First(as) == CHOOSE a \in as : \A b \in as : a <= b

\* A sibling that names the record as superseded; one that cannot be read or
\* parsed is passed over.
Succeeded(r) == \E s \in Records \ {r} : Declares(files[s]) /\ r \in Supersedes[s]

\* Mutant of LossReason: a fire counts before anybody has judged it.
LossReasonUnjudged(r) ==
    IF ~Parsed(files[r]) THEN "error"
    ELSE IF files[r].status \in HardDead THEN files[r].status
    ELSE IF files[r].fired # NoLine THEN "fired-real"
    ELSE IF files[r].status \notin SoftDead THEN "clean"
    ELSE IF Succeeded(r) THEN "succeeded" ELSE "superseded"

\* One hop: the support line of the target does not matter.
LossReason(r) ==
    IF ~Parsed(files[r]) THEN "error"
    ELSE IF files[r].status \in HardDead THEN files[r].status
    ELSE IF files[r].fired.verdict = "real" THEN "fired-real"
    ELSE IF files[r].status \notin SoftDead THEN "clean"
    ELSE IF Succeeded(r) THEN "succeeded" ELSE "superseded"

Hard == HardDead \cup {"missing", "fired-real"}
Soft == {"succeeded", "superseded"}

\* The alias of a project is known while its directory exists, and to a sweep
\* that found it when it began.
UnknownAlias(r) == Dir[r] \in Projects \ (roots \cup dirs)

\* Mutant of Support: only the directories there are now count.
SupportNow(a, r) ==
    CASE Dir[r] \in Projects \ dirs -> "unknown"
      [] Dir[r] \notin Projects \ dirs /\ files[r].kind = "missing" -> "missing"
      [] Dir[r] \notin Projects \ dirs /\ files[r].kind # "missing" /\ r = a -> "self"
      [] OTHER -> LossReason(r)

\* A ref under an unknown alias, and one to the record itself, are skipped:
\* neither is a loss or an error.
Support(a, r) ==
    CASE UnknownAlias(r) -> "unknown"
      [] ~UnknownAlias(r) /\ files[r].kind = "missing" -> "missing"
      [] ~UnknownAlias(r) /\ files[r].kind # "missing" /\ r = a -> "self"
      [] OTHER -> LossReason(r)

\* What the results in hand amount to.
FiredItems == {l \in DOMAIN results : results[l] = "fired"}
Losses == {[ref |-> r, why |-> results[r]] : r \in {s \in DOMAIN results : results[s] \in Hard \cup Soft}}
HardLosses == {p \in Losses : p.why \in Hard}
Errored == \E k \in DOMAIN results : results[k] = "error"

Extended(k, outcome) == [j \in DOMAIN results \cup {k} |-> IF j = k THEN outcome ELSE results[j]]

-----------------------------------------------------------------------------
\* The process.

Nothing == <<>>

Idle ==
    /\ step' = "idle" /\ dry' = FALSE /\ roots' = {} /\ swept' = {} /\ todo' = {}
    /\ cur' = 0 /\ text' = NoRecord /\ results' = Nothing /\ found' = {}

Init ==
    /\ files \in Initial
    /\ dirs = {Dir[a] : a \in {b \in Records : files[b].kind # "missing"}}
    /\ world \in Conditions
    /\ step = "idle" /\ dry = FALSE /\ roots = {} /\ swept = {} /\ todo = {}
    /\ cur = 0 /\ text = NoRecord /\ results = Nothing /\ found = {}
    /\ observed = [a \in Records |-> {}]
    /\ fell = [a \in Records |->
                 IF files[a].kind = "missing" THEN {"missing"} ELSE {files[a].status}]
    /\ asked = {}
    /\ edits = 0 /\ changes = 0 /\ crashes = 0

\* cron, or somebody by hand, through the same lock.
Begin(sel, d) ==
    /\ step = "idle"
    /\ step' = "pass1" /\ dry' = d /\ roots' = dirs
    /\ swept' = Enumerated(sel) /\ todo' = Enumerated(sel)
    /\ UNCHANGED <<files, dirs, world, cur, text, results, found, history, counters>>

Scheduling == Begin(Scheduled, FALSE)

\* A file that cannot be read or parsed, and one without commands, is passed over.
Read(declared, now, then) ==
    /\ step = now /\ todo # {}
    /\ LET a == First(todo) IN
       /\ todo' = todo \ {a}
       /\ IF Declares(files[a]) /\ declared[a] # {}
          THEN step' = then /\ cur' = a /\ text' = files[a]
          ELSE UNCHANGED <<step, cur, text>>
    /\ results' = Nothing
    /\ UNCHANGED <<files, dirs, world, dry, roots, swept, found, history, counters>>

ReadRecord == Read(Commands, "pass1", "run")

RunFalsifier(l) ==
    /\ step = "run" /\ l \in Commands[cur] \ DOMAIN results
    /\ results' = Extended(l, Outcome(world[cur][l]))
    /\ observed' = [observed EXCEPT ![cur] = IF world[cur][l] = 1 THEN @ \cup {l} ELSE @]
    /\ UNCHANGED <<files, dirs, world, step, dry, roots, swept, todo, cur, text, found,
                   fell, asked, counters>>

FireDecision ==
    DecideFired(text.fired, FiredItems, ~Errored /\ Malformed[cur] = {})

\* Writes the text as it was read, with the line as decided.
Writes(d) == d.write /\ ~dry
Store(key, d) ==
    /\ Writes(d) => Dir[cur] \in dirs
    /\ files' = IF Writes(d) THEN [files EXCEPT ![cur] = Upsert(text, key, d.line)]
                ELSE files
    /\ asked' = asked \cap OnRecord(files')

DecideFire ==
    /\ step = "run" /\ Commands[cur] \subseteq DOMAIN results
    /\ Store("fired", FireDecision)
    /\ found' = found \cup
         (IF FireDecision.news THEN {Fire(cur, l) : l \in FiredItems} ELSE {})
    /\ step' = "pass1"
    /\ cur' = 0 /\ text' = NoRecord /\ results' = Nothing
    /\ UNCHANGED <<dirs, world, dry, roots, swept, todo, observed, fell, counters>>

SecondPass ==
    /\ step = "pass1" /\ todo = {}
    /\ step' = "pass2" /\ todo' = swept
    /\ UNCHANGED <<files, dirs, world, dry, roots, swept, cur, text, results, found,
                   history, counters>>

\* Read again: the first pass may have written into the file.
ReadAgain == Read(Refs, "pass2", "refs")

FollowRef(r) ==
    /\ step = "refs" /\ r \in Refs[cur] \ DOMAIN results
    /\ results' = Extended(r, Support(cur, r))
    /\ UNCHANGED <<files, dirs, world, step, dry, roots, swept, todo, cur, text, found,
                   history, counters>>

LossDecision == DecideSupport(text.support, Losses, HardLosses # {}, ~Errored)

DecideLoss ==
    /\ step = "refs" /\ Refs[cur] \subseteq DOMAIN results
    /\ Store("support", LossDecision)
    /\ found' = found \cup
         (IF LossDecision.news
          THEN {Loss(cur, p) : p \in HardLosses \ text.support.items} ELSE {})
    /\ step' = "pass2"
    /\ cur' = 0 /\ text' = NoRecord /\ results' = Nothing
    /\ UNCHANGED <<dirs, world, dry, roots, swept, todo, observed, fell, counters>>

\* A decision is due, and it will be written.
WriteDue ==
    \/ step = "run" /\ Commands[cur] \subseteq DOMAIN results /\ Writes(FireDecision)
    \/ step = "refs" /\ Refs[cur] \subseteq DOMAIN results /\ Writes(LossDecision)

\* The directory is gone since the record was read: the sweep ends.
WriteFails ==
    /\ WriteDue /\ Dir[cur] \notin dirs
    /\ Idle
    /\ UNCHANGED <<files, dirs, world, history, counters>>

SideEffects ==
    /\ step = "pass2" /\ todo = {}
    /\ IF dry THEN Idle
       ELSE step' = "tasks" /\ UNCHANGED <<dry, roots, swept, todo, cur, text, results, found>>
    /\ UNCHANGED <<files, dirs, world, history, counters>>

\* One tracker item for each transition, unless there is no such hook.
OpenTask(i) ==
    /\ step = "tasks" /\ i \in found
    /\ found' = found \ {i}
    /\ asked' = asked \cup ({i} \cap OnRecord(files))
    /\ UNCHANGED <<files, dirs, world, step, dry, roots, swept, todo, cur, text,
                   results, observed, fell, counters>>

SkipTask(i) ==
    /\ step = "tasks" /\ i \in found
    /\ found' = found \ {i}
    /\ UNCHANGED <<files, dirs, world, step, dry, roots, swept, todo, cur, text,
                   results, history, counters>>

\* The notification and the run's lines in the log end the sweep.
AppendLog ==
    /\ step = "tasks" /\ found = {}
    /\ Idle
    /\ UNCHANGED <<files, dirs, world, history, counters>>

-----------------------------------------------------------------------------
\* Kills, people, and the world.

Crash ==
    /\ step # "idle" /\ crashes < MaxCrashes
    /\ Idle
    /\ crashes' = crashes + 1
    /\ UNCHANGED <<files, dirs, world, history, edits, changes>>

\* A kill, or a full disk, during one of the two writes.
CrashWriting ==
    /\ crashes < MaxCrashes
    /\ WriteDue /\ Dir[cur] \in dirs
    /\ \E t \in Torn : files' = [files EXCEPT ![cur] = t]
    /\ asked' = asked \cap OnRecord(files')
    /\ Idle
    /\ crashes' = crashes + 1
    /\ UNCHANGED <<dirs, world, observed, fell, edits, changes>>

\* An edit by a person or by git, at any moment.
Edit(a, t, what) ==
    /\ edits < MaxEdits /\ edits' = edits + 1
    /\ t # files[a] /\ files' = [files EXCEPT ![a] = t]
    /\ fell' = [fell EXCEPT ![a] = @ \cup what]
    /\ asked' = asked \cap OnRecord(files')
    /\ UNCHANGED <<world, process, observed, changes, crashes>>

\* The suffix of /retro, the only edit of a line the sweep wrote.
Adjudicate(a, key, v) ==
    /\ Declares(files[a]) /\ files[a][key].verdict = "open"
    /\ Edit(a, [files[a] EXCEPT ![key].verdict = v],
            IF key = "fired" /\ v = "real" THEN {"fired-real"} ELSE {})
    /\ dirs' = dirs

\* A revision: another status, and adjudicated lines are taken away.
Unjudged(line) == IF Adjudication(line) THEN NoLine ELSE line
Revise(a, s) ==
    /\ Declares(files[a])
    /\ Edit(a, [files[a] EXCEPT !.status = s, !.fired = Unjudged(@), !.support = Unjudged(@)],
            {s})
    /\ dirs' = dirs

\* git brings back a committed text, which has no line of the sweep.
Checkout(a, s) ==
    /\ Edit(a, Record(s), {s})
    /\ dirs' = dirs \cup {Dir[a]}

\* Its directory, or the whole project, may go with the last record.
Delete(a) ==
    /\ Edit(a, NoRecord, {"missing"})
    /\ \/ dirs' = dirs
       \/ /\ \A b \in Records : Dir[b] = Dir[a] => files'[b].kind = "missing"
          /\ dirs' = dirs \ {Dir[a]}

People == \E a \in Records :
    \/ \E key \in {"fired", "support"}, v \in Judged : Adjudicate(a, key, v)
    \/ \E s \in Statuses : Revise(a, s) \/ Checkout(a, s)
    \/ Delete(a)

WorldChanges == \E a \in Records : \E l \in Commands[a], e \in Exits :
    /\ changes < MaxChanges /\ changes' = changes + 1
    /\ e # world[a][l] /\ world' = [world EXCEPT ![a][l] = e]
    /\ UNCHANGED <<files, dirs, process, history, edits, crashes>>

-----------------------------------------------------------------------------
\* One step of a sweep that is under way.
Sweep ==
    \/ ReadRecord
    \/ \E l \in Labels : RunFalsifier(l)
    \/ DecideFire
    \/ SecondPass
    \/ ReadAgain
    \/ \E r \in Records : FollowRef(r)
    \/ DecideLoss
    \/ WriteFails
    \/ SideEffects
    \/ \E i \in found : OpenTask(i) \/ SkipTask(i)
    \/ AppendLog

Next ==
    \/ \E sel \in Selections, d \in BOOLEAN : Begin(sel, d)
    \/ Sweep
    \/ Crash \/ CrashWriting
    \/ People
    \/ WorldChanges

Spec == Init /\ [][Next]_vars

\* cron starts a sweep again and again, and a sweep that runs goes on: every
\* command has a timeout.
FairSpec == Spec /\ WF_vars(Sweep) /\ SF_vars(Scheduling)
=============================================================================
