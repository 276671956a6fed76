--------------------------- MODULE IdentityGuard ---------------------------
(***************************************************************************)
\* The decisions of the two identity guards about a shell command:
\* gh-identity-guard.py for pushes and gh-commit-author-guard.py for commits,
\* with the expansion and the reading of tags they share.
\* 
\* A command is a sequence of items.  An item is one simple command, or the
\* body of a bash -c that runs in a shell of its own; one that follows && or
\* || may be skipped.  The guards see neither shells nor exit codes: before
\* anything runs they split the text into words at blanks, take a delimiter
\* for one only where it is a word of its own, and walk the segments they get
\* from left to right.  What follows another delimiter, as in "x; y", or a new
\* line they read as further arguments of the command before it.
\* 
\* An identity stands for its SSH host, its GitHub account and its author,
\* which the identity map keeps distinct.
(***************************************************************************)
EXTENDS Naturals, Sequences, FiniteSets, SequencesExt

CONSTANTS Repos,    \* directories that are repositories
          Ids,      \* identities that tags, remotes and logins may name
          Active    \* those the map knows, neither retired nor push-disabled

NoId == "none"
Outside == "outside"        \* a directory that is in no repository
Unknown == "unknown"        \* a directory the command does not spell out

\* The words below are no names of repositories or identities.
ASSUME GuardAssumption ==
    /\ Active \subseteq Ids /\ IsFiniteSet(Repos)
    /\ Repos \cap {NoId, Outside, Unknown} = {}
    /\ Ids \cap {NoId, "untagged", "conflict", "config", "pattern"} = {}

Dirs == Repos \cup {Outside}
Files == {"benign-sentinel", "push-sentinel", "scratch"}

\* pr stands for gh pr create and gh release create, create for gh repo create
\* with --push or --source, merge for gh pr merge; touch for any command that
\* none of the others stands for.
PushClass == {"push", "sendpack", "pr", "create", "merge"}
Ops == PushClass \cup {"cd", "popd", "seturl", "tag", "switch", "commit", "touch"}

\* What separates a command from the next: a delimiter that is a word of its
\* own; one attached to a word that the guards look at, as in "cd x;"; a new
\* line, or a delimiter attached to a word they do not look at.
Joins == {"apart", "attached", "line"}

\* wrap: the program itself, behind env, or behind env --chdir, which
\* enters the directories of dirs; dirs: otherwise the values of -C, or the
\* argument of cd; id: whom seturl, tag, switch and sendpack name, or the
\* file that is touched; over: the identity in the environment, and for a
\* commit the one that -c user.* names; author: what --author names; danger: a
\* -c or a variable that reroutes, and for a commit --amend, -C or a variable
\* that names another author.
Segment == [op : Ops, wrap : {"plain", "env", "chdir"}, dirs : Seq(Dirs \cup {Unknown}),
            remote : {"origin", "other", "default", "path"}, id : Ids \cup {NoId} \cup Files,
            over : Ids \cup {NoId, "conflict"}, author : Ids \cup {"config", "pattern"},
            danger : BOOLEAN, join : Joins]

Urls == [scheme : {"ssh", "https", "missing", "other"}, who : Ids]

\* cd enters one directory, gh takes no directory but that of env --chdir, and
\* whom a command names is an identity.
WellFormed(s) ==
    /\ s \in Segment
    /\ s.op = "cd" => Len(s.dirs) = 1
    /\ s.op \in {"pr", "create", "merge"} /\ s.wrap # "chdir" => s.dirs = <<>>
    /\ s.op \in {"seturl", "tag", "switch", "sendpack"} => s.id \in Ids

\* One command of the shell, or the body of a bash -c; sure: nothing lets it be
\* skipped.
Item == [shell : {"same", "inner"}, sure : BOOLEAN, body : Seq(Segment)]

IsCommand(c) ==
    /\ c \in Seq(Item)
    /\ \A i \in DOMAIN c :
           /\ c[i].body # <<>>
           /\ c[i].shell = "same" => Len(c[i].body) = 1
           /\ \A j \in DOMAIN c[i].body : WellFormed(c[i].body[j])

\* What git answers about a repository; default is the remote that a push
\* without one goes to.
Repository == [tag : Ids \cup {"untagged", "conflict"}, origin : Urls, other : Urls,
               default : {"origin", "other"}, author : Ids]

-----------------------------------------------------------------------------
\* Lexing, expansion and directories.

\* The text of a bash -c is fenced on both sides.
Absorbed(c, i, j) ==
    IF j > 1 THEN c[i].body[j - 1].join # "apart"
    ELSE /\ i > 1 /\ c[i].shell = "same" /\ c[i - 1].shell = "same"
         /\ Last(c[i - 1].body).join # "apart"

Places(c) == UNION {{<<i, j>> : j \in DOMAIN c[i].body} : i \in DOMAIN c}
Precedes(p, q) == p[1] < q[1] \/ (p[1] = q[1] /\ p[2] < q[2])

\* Where the commands are that the guards read as arguments of the one at p.
Swallowed(c, p) ==
    {q \in Places(c) :
        /\ Precedes(p, q)
        /\ \A m \in Places(c) : Precedes(p, m) /\ ~Precedes(q, m) => Absorbed(c, m[1], m[2])}

\* The commands among them that name an --author.
Authors(c, p) ==
    {q \in Swallowed(c, p) :
        LET s == c[q[1]].body[q[2]] IN s.op = "commit" /\ s.author # "config"}

\* A command that heads its segment, with a delimiter attached to a word that
\* matters: "cd B;" enters no repository, "push;" is no verb, "origin;" no
\* remote and "Name <address>;" no author.
Attached(s) ==
    CASE s.op = "cd" -> [s EXCEPT !.dirs = IF @ = <<Unknown>> THEN @ ELSE <<Outside>>]
      [] \/ s.op \in {"popd", "pr", "merge", "create"}
         \/ s.op = "push" /\ s.remote = "default"
         \/ s.op = "commit" /\ s.author = "config" -> [s EXCEPT !.op = "argument"]
      [] s.op = "push" /\ s.remote # "default" -> [s EXCEPT !.remote = "path"]
      [] s.op = "commit" /\ s.author # "config" -> [s EXCEPT !.author = "pattern"]
      [] OTHER -> s

\* A command that heads its segment: the words of what it swallowed are its
\* own, the first for the remote, an --author for the author.
Extended(c, p, s) ==
    LET first == CHOOSE q \in Authors(c, p) : \A m \in Authors(c, p) : ~Precedes(m, q)
        t == c[first[1]].body[first[2]]
    IN CASE s.op = "push" /\ s.remote = "default" /\ Swallowed(c, p) # {} ->
                [s EXCEPT !.remote = "path"]
         [] s.op = "commit" /\ s.author = "config" /\ Authors(c, p) # {} ->
                [s EXCEPT !.author = IF t.join = "attached" THEN "pattern" ELSE t.author]
         [] OTHER -> s

\* What the guards make of a command: it is an argument of another, or cannot
\* be read, for env --chdir is not followed, which matters where the segment
\* has the words of a push.
Reading(c, i, j) ==
    LET s == c[i].body[j]
        words == {s.op} \cup {c[q[1]].body[q[2]].op : q \in Swallowed(c, <<i, j>>)}
    IN CASE Absorbed(c, i, j) -> [s EXCEPT !.op = "argument"]
         [] ~Absorbed(c, i, j) /\ s.wrap = "chdir" ->
                [s EXCEPT !.op = IF words \cap {"push", "sendpack", "pr", "create"} # {}
                                 THEN "unparsed" ELSE "argument"]
         [] ~Absorbed(c, i, j) /\ s.wrap # "chdir" /\ s.join = "attached" -> Attached(s)
         [] OTHER -> Extended(c, <<i, j>>, s)

View(c, i) == [j \in DOMAIN c[i].body |-> Reading(c, i, j)]

\* Mutant of Expand: inner commands are appended at the end.
ExpandAtEnd(c) ==
    FlattenSeq([i \in DOMAIN c |-> IF c[i].shell = "same" THEN View(c, i) ELSE <<>>])
    \o FlattenSeq([i \in DOMAIN c |-> IF c[i].shell = "inner" THEN View(c, i) ELSE <<>>])

\* The body of a bash -c takes the wrapper's place.
Expand(c) == FlattenSeq([i \in DOMAIN c |-> View(c, i)])

\* Absolute directories: the last -C wins.
AccumulateDir(dirs, cwd) == IF dirs = <<>> THEN cwd ELSE Last(dirs)

Toplevel(dir) == IF dir \in Repos THEN dir ELSE NoId

-----------------------------------------------------------------------------
\* The walk of the push guard.

Start(cwd) == [cwd |-> cwd, mutated |-> FALSE, refused |-> FALSE, pushes |-> <<>>]

Mutates(s) == s.op = "seturl" /\ s.wrap = "plain"

\* cd moves, or taints what comes after; what cannot be parsed is refused;
\* every push is collected with what precedes it.
Walk(acc, s) ==
    CASE s.op = "cd" /\ s.wrap = "plain" ->
            [acc EXCEPT !.cwd = IF @ = Unknown THEN Unknown ELSE Head(s.dirs)]
      [] s.op = "popd" /\ s.wrap = "plain" -> [acc EXCEPT !.cwd = Unknown]
      [] Mutates(s) -> [acc EXCEPT !.mutated = TRUE]
      [] s.op = "unparsed" -> [acc EXCEPT !.refused = TRUE]
      [] s.op \in PushClass ->
            [acc EXCEPT !.pushes = Append(@, [seg |-> s, cwd |-> acc.cwd,
                                              mutated |-> acc.mutated])]
      [] OTHER -> acc

Named(remote) == IF remote = "other" THEN "other" ELSE "origin"

\* What the map, the remote and the active login must agree on.
PolicyAllows(id, seg, top, repos, login) ==
    /\ id \in Active
    /\ CASE seg.op = "sendpack" -> seg.id = id
         [] seg.op = "push" ->
                LET u == repos[top][Named(seg.remote)] IN
                /\ seg.remote # "path"
                /\ u.scheme \in {"ssh", "https"} /\ u.who = id
                /\ u.scheme = "https" => login = id
         [] OTHER -> login = id

DescriptorAllows(d, repos, login) ==
    LET seg == d.seg
        top == Toplevel(AccumulateDir(seg.dirs, d.cwd)) IN
    /\ seg.over # "conflict" /\ ~seg.danger /\ ~d.mutated
    /\ d.cwd = Unknown => seg.dirs # <<>>
    /\ IF top = NoId
       THEN seg.op = "create" /\ PolicyAllows(seg.over, seg, NoId, repos, login)
       ELSE LET tag == repos[top].tag IN
            PolicyAllows(IF tag = "untagged" THEN seg.over ELSE tag, seg, top, repos, login)

\* By the words of the text, wherever they stand.
LooksLikePush(c) ==
    \E i \in DOMAIN c : \E j \in DOMAIN c[i].body : c[i].body[j].op \in PushClass

\* readable: shlex can split the command; idmap: the state of the map.
PushGuardAllows(c, readable, cwd, repos, login, idmap) ==
    LET walked == FoldLeft(Walk, Start(cwd), Expand(c)) IN
    IF ~readable THEN ~LooksLikePush(c)
    ELSE /\ ~walked.refused
         /\ walked.pushes # <<>> => idmap = "valid"
         /\ \A i \in DOMAIN walked.pushes : DescriptorAllows(walked.pushes[i], repos, login)

-----------------------------------------------------------------------------
\* The commit guard, which allows whenever it cannot tell.

\* A commit that is read as an argument, or behind env --chdir, is not seen.
SeenCommits(c) == {s \in Range(Expand(c)) : s.op = "commit"}

\* --author goes before -c user.*, and that before the configuration.
Author(s, configured) ==
    CASE s.author # "config" -> s.author
      [] s.author = "config" /\ s.over \in Ids -> s.over
      [] OTHER -> configured

\* Mutant of CommitAllows: --author and -c user.* are not read.
CommitAllowsConfig(s, cwd, repos) ==
    LET top == Toplevel(AccumulateDir(s.dirs, cwd)) IN
    \/ top = NoId
    \/ repos[top].tag \in {"untagged"} \cup (Ids \ Active)
    \/ repos[top].tag = repos[top].author

\* The author is compared when the repository carries an active identity;
\* a pattern that git would look up in the history is refused.
CommitAllows(s, cwd, repos) ==
    LET top == Toplevel(AccumulateDir(s.dirs, cwd)) IN
    \/ top = NoId
    \/ repos[top].tag \in {"untagged"} \cup (Ids \ Active)
    \/ /\ repos[top].tag \in Active
       /\ repos[top].tag = Author(s, repos[top].author)

\* Every commit is judged in the directory where the command starts.
CommitGuardAllows(c, readable, cwd, repos, idmap) ==
    \/ ~readable \/ idmap # "valid"
    \/ \A s \in SeenCommits(c) : CommitAllows(s, cwd, repos)
=============================================================================
