------------------------------ MODULE UsageLog ------------------------------
(***************************************************************************)
\* The index of all runs, usage.log, and the processes that add a run's line
\* to it: append-usage-log.sh as the last step of a finalization.
\* 
\* A line names its run by a path.  An earlier line of the run is dropped
\* first, by rewriting the log through a temporary file that replaces it;
\* nothing locks the log, and the runs of all projects share it.  A process
\* adds one line, so the log is a set of lines: their order is left out.
(***************************************************************************)
EXTENDS Naturals, Sequences, FiniteSets

CONSTANTS Appenders,
          RunOf,        \* the run of each appender: a path, as a sequence
          Spelled,      \* how its caller wrote the path: "resolved", or "raw"
          MaxTogether, MaxKills, MaxFaults

ASSUME UsageLogAssumption ==
    /\ RunOf \in [Appenders -> Seq(Nat)]
    /\ Spelled \in [Appenders -> {"resolved", "raw"}]
    /\ MaxTogether \in Nat /\ MaxKills \in Nat /\ MaxFaults \in Nat

VARIABLES
    log,        \* usage.log
    at,         \* where each appender is
    line,       \* the line it is about to write: a set of at most one
    copy,       \* its temporary file
    newest,     \* the appender that last added a line of the same run
    raced,      \* appenders whose line came between another's copy and its move
    undone,     \* appenders that moved between another's copy and its move
    met,        \* appenders that were under way beside one of the same run
    broken      \* appenders that were killed, or warned that they could not rewrite

logVars == <<log, at, line, copy, newest, raced, undone, met, broken>>

\* No action reads newest, raced, undone or met.
LogInit ==
    /\ log = {}
    /\ at = [a \in Appenders |-> "start"]
    /\ line = [a \in Appenders |-> {}]
    /\ copy = [a \in Appenders |-> {}]
    /\ newest = [a \in Appenders |-> a]
    /\ raced = {} /\ undone = {} /\ met = {} /\ broken = {}

Active == {a \in Appenders : at[a] \notin {"start", "done", "killed"}}
SameRun(a) == {b \in Appenders \ {a} : RunOf[b] = RunOf[a]}
BesideMove(a) == \E b \in Appenders \ {a} : at[b] = "move"

To(a, pc) == at' = [at EXCEPT ![a] = pc]

\* usage.json holds the resolved path; the line that stands in for it when
\* it is missing or malformed is given the argument.
LineOf(a) == {[run |-> RunOf[a], as |-> s, by |-> a] : s \in {"resolved", Spelled[a]}}

Start(a) ==
    /\ at[a] = "start"
    /\ Cardinality(Active) < MaxTogether
    /\ \E l \in LineOf(a) : line' = [line EXCEPT ![a] = {l}]
    /\ To(a, "grep")
    /\ met' = met \cup (IF SameRun(a) \cap Active = {} THEN {}
                        ELSE {a} \cup (SameRun(a) \cap Active))
    /\ UNCHANGED <<log, copy, newest, raced, undone, broken>>

\* The key is the path as the caller wrote it.  grep finds it in front of a
\* longer path too; awk looks at the character that follows.
Mentions(l, a) ==
    /\ l.as = Spelled[a]
    /\ Len(l.run) >= Len(RunOf[a]) /\ SubSeq(l.run, 1, Len(RunOf[a])) = RunOf[a]

\* Mutant of Names: the following character is not looked at.
NamesPrefix(l, a) == Mentions(l, a)

Names(l, a) == l.as = Spelled[a] /\ l.run = RunOf[a]

Grep(a) ==
    /\ at[a] = "grep"
    /\ To(a, IF \E l \in log : Mentions(l, a) THEN "awk" ELSE "append")
    /\ UNCHANGED <<log, line, copy, newest, raced, undone, met, broken>>

\* Mutant of Rewrite: the earlier line is kept.
RewriteAll(a) ==
    /\ at[a] = "awk"
    /\ copy' = [copy EXCEPT ![a] = log]
    /\ To(a, "move")
    /\ UNCHANGED <<log, line, newest, raced, undone, met, broken>>

Rewrite(a) ==
    /\ at[a] = "awk"
    /\ copy' = [copy EXCEPT ![a] = {l \in log : ~Names(l, a)}]
    /\ To(a, "move")
    /\ UNCHANGED <<log, line, newest, raced, undone, met, broken>>

\* The rewrite fails: a warning, and the line is added beside the old one.
RewriteFails(a) ==
    /\ at[a] = "awk"
    /\ Cardinality(broken) < MaxFaults
    /\ broken' = broken \cup {a}
    /\ To(a, "append")
    /\ UNCHANGED <<log, line, copy, newest, raced, undone, met>>

Move(a) ==
    /\ at[a] = "move"
    /\ log' = copy[a]
    /\ copy' = [copy EXCEPT ![a] = {}]
    /\ undone' = IF BesideMove(a) THEN undone \cup {a} ELSE undone
    /\ To(a, "append")
    /\ UNCHANGED <<line, newest, raced, met, broken>>

AddLine(a) ==
    /\ at[a] = "append"
    /\ log' = log \cup line[a]
    /\ line' = [line EXCEPT ![a] = {}]
    /\ newest' = [b \in Appenders |-> IF RunOf[b] = RunOf[a] THEN a ELSE newest[b]]
    /\ raced' = IF BesideMove(a) THEN raced \cup {a} ELSE raced
    /\ To(a, "done")
    /\ UNCHANGED <<copy, undone, met, broken>>

KillAppender(a) ==
    /\ a \in Active
    /\ Cardinality(broken) < MaxKills
    /\ broken' = broken \cup {a}
    /\ To(a, "killed")
    /\ line' = [line EXCEPT ![a] = {}]
    /\ copy' = [copy EXCEPT ![a] = {}]
    /\ UNCHANGED <<log, newest, raced, undone, met>>

LogNext ==
    \E a \in Appenders :
        \/ Start(a) \/ Grep(a) \/ Rewrite(a) \/ RewriteFails(a) \/ Move(a) \/ AddLine(a)
        \/ KillAppender(a)

LogSpec == LogInit /\ [][LogNext]_logVars

-----------------------------------------------------------------------------
LinesOf(r) == {l \in log : l.run = r}
OfRun(r) == {a \in Appenders : RunOf[a] = r}

\* What can go wrong with the lines of a run r: a finalization under another
\* spelling of its path; two that overlapped; one killed, or warned that it
\* could not rewrite the log; one whose line, or whose removal of the earlier
\* line, came between some other process's copy of the log and its move.
Disturbed(r) ==
    \E a \in OfRun(r) :
        \/ Spelled[a] = "raw" /\ at[a] = "done"
        \/ a \in met \cup broken \cup raced \cup undone

\* A run appears in the log at most once, however often it is finalized, and
\* the later write wins: every line of a run is the one that was added last
\* (emit's supersede), unless the run was disturbed.
OneLine ==
    \A a \in Appenders : \A l \in LinesOf(RunOf[a]) :
        l.by = newest[a] \/ Disturbed(RunOf[a])

\* A finalized run has a line (emit's printf).  It is lost only if it was
\* added while some other process was between copying the log and replacing
\* it; and it is missing while a later finalization of the run replaces it, or
\* if that one was lost or killed.
LineKept ==
    \A a \in Appenders : at[a] = "done" /\ LinesOf(RunOf[a]) = {} =>
        \/ a \in raced
        \/ \E b \in SameRun(a) : at[b] = "append" \/ b \in raced \cup broken
=============================================================================
