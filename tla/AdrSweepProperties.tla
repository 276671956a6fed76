------------------------- MODULE AdrSweepProperties -------------------------
\* What the sweep over the decision records promises.
EXTENDS AdrSweep

Steps == {"idle", "pass1", "run", "pass2", "refs", "tasks"}

\* A line without a verdict is no line.
FiredLine == {l \in [items : SUBSET Labels, verdict : Verdicts] : l.verdict # "none" \/ l = NoLine}
SupportLine ==
    {l \in [items : SUBSET [ref : Records, why : Hard \cup Soft], verdict : Verdicts] :
       l.verdict # "none" \/ l = NoLine}
Text == [kind : {"text", "missing", "empty", "cut"}, status : Statuses \cup {""},
         fired : FiredLine, support : SupportLine]

Items == {Fire(a, l) : a \in Records, l \in Labels}
           \cup {Loss(a, [ref |-> r, why |-> w]) : a \in Records, r \in Records, w \in Hard \cup Soft}

TypeOK ==
    /\ files \in [Records -> Text]
    /\ world \in [Records -> [Labels -> Exits]]
    /\ step \in Steps /\ dry \in BOOLEAN
    /\ dirs \subseteq Directories /\ roots \subseteq Directories
    /\ swept \subseteq Records /\ todo \subseteq swept
    /\ text \in Text
    /\ step \in {"run", "refs"} => cur \in swept
    /\ step = "run" => DOMAIN results \subseteq Commands[cur]
    /\ step = "refs" => DOMAIN results \subseteq Refs[cur]
    /\ found \subseteq Items /\ asked \subseteq Items
    /\ observed \in [Records -> SUBSET Labels]

\* What a loss says of its target must once have been true of it, through
\* people: no fire counts before one of them has judged it real.
Happened(p) ==
    IF p.why \in Soft THEN fell[p.ref] \cap SoftDead # {} ELSE p.why \in fell[p.ref]

\* Nothing is on record that was not observed: each item of a fired line is
\* of a command that exited 1, never of one that broke, and each item of a
\* support line names what had befallen its target.
Earned ==
    \A a \in Records :
        /\ files[a].fired.items \subseteq observed[a]
        /\ \A p \in files[a].support.items : Happened(p)

\* A standing problem nags once: what is about to be announced has not been
\* announced since it came on record, through any number of sweeps, kills
\* and edits.
NagOnce == found \cap asked = {}

\* A ref that is no reason to keep the line: its target was found clean, or is
\* the record itself, or the sweep skipped it, which it may do only for a
\* project whose directory was already gone when it began.
Passed(r) ==
    \/ results[r] \in {"clean", "self"}
    \/ results[r] = "unknown" /\ Dir[r] \in Projects \ roots

\* The sweep takes an open line away only when it looked at everything that
\* the record declares and found it clean.  The one exception is a target
\* whose whole project has vanished: the sweep then heals the line unseen.
Healed(old, new) ==
    Declares(text) /\ old.verdict = "open" /\ new = NoLine =>
        /\ step = "run" => \A l \in Falsifiers[cur] : l \in DOMAIN results /\ results[l] = "clean"
        /\ step = "refs" => \A r \in Refs[cur] : r \in DOMAIN results /\ Passed(r)

\* A line that carries a person's verdict is not touched by the sweep; it
\* may lose one that was given after it read the record.
Untouched(old, new, read) == Adjudication(old) /\ read = old => new = old

\* Both of every step of the sweep, and of both lines of every record that
\* is not torn by it.
LinesRespected ==
    [][\A a \in Records, key \in {"fired", "support"} :
          step' # step /\ Declares(files[a]) /\ Declares(files'[a]) =>
              /\ Untouched(files[a][key], files'[a][key], text[key])
              /\ text[key] = files[a][key] => Healed(files[a][key], files'[a][key])]_vars

\* A falsifier that keeps firing gets on record, whatever was wiped, healed
\* or killed before: unless the line has a verdict, or the record is gone.
FireRecorded ==
    \A a \in Scheduled : \A l \in Commands[a] :
        world[a][l] = 1 /\ Declares(files[a]) ~>
            \/ world[a][l] # 1 \/ ~Declares(files[a])
            \/ l \in files[a].fired.items \/ Adjudication(files[a].fired)
=============================================================================
