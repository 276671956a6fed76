------------------------ MODULE HookedHostProperties ------------------------
(***************************************************************************)
\* What the identity guards secure, and exactly where a static reading of a
\* command stops.
(***************************************************************************)
EXTENDS HookedHost

Before(n) == {session.cmd[i] : i \in 1..(n - 1)}
UpTo(n) == {session.cmd[i] : i \in 1..n}
SomeSegment(item, P(_)) == \E j \in DOMAIN item.body : P(item.body[j])

\* The walk takes these cds for done, in the shell of the command.
UncertainCd(item) ==
    /\ SomeSegment(item, LAMBDA s : s.op \in {"cd", "popd"})
    /\ item.shell = "inner" \/ ~item.sure

\* Item i has a cd or a changed remote that the guards read as arguments of
\* another command, or a cd whose own argument they misread.
Misread(i) ==
    \E j \in DOMAIN session.cmd[i].body :
        LET s == session.cmd[i].body[j] IN
        \/ s.op \in {"cd", "popd", "seturl"} /\ Absorbed(session.cmd, i, j)
        \/ s.op \in {"cd", "popd"} /\ s.join = "attached"

\* The push is no segment of its own, or its words are not those of a push.
Unseen(i, j) ==
    LET s == session.cmd[i].body[j] IN
    \/ Absorbed(session.cmd, i, j)
    \/ s.op \in {"pr", "merge", "create"} /\ s.join = "attached"
    \/ s.op = "merge" /\ s.wrap = "chdir"

\* What the walk does not follow: a remote changed behind env, another tag
\* or another login set by an earlier part of the same command.
Unfollowed(item) ==
    SomeSegment(item,
        LAMBDA s : s.op \in {"tag", "switch"} \/ (s.op = "seturl" /\ s.wrap # "plain"))

\* The guard did not decide: its host never asked it, or went on without it.
Unguarded(guard) ==
    host.hooks = "untrusted" \/ (host.name = "claude" /\ guard = "failed")

PushExcused(p) ==
    \/ Unguarded(session.push)
    \/ switches > 0
    \/ p.seg.op = "push" /\ p.seg.remote = "default"
    \/ \E j \in DOMAIN session.cmd[p.item].body :
           session.cmd[p.item].body[j] = p.seg /\ Unseen(p.item, j)
    \/ \E i \in 1..p.item : Misread(i)
    \/ \E item \in Before(p.item) : UncertainCd(item)
    \/ \E item \in UpTo(p.item) : Unfollowed(item)

\* A push that the hooks let through leaves under the identity of the
\* repository it is run in, and that identity may push: whatever cds, remote
\* changes and further pushes the command contains, whichever host runs it
\* and however its guards fail.  The excuses are the complete list of what
\* the static walk does not see; among them what shlex.split hides behind a
\* delimiter that is no word of its own.
RightIdentity ==
    \A p \in sent : (p.owner = p.sender /\ p.owner \in Active) \/ PushExcused(p)

\* The commit is no segment of its own, is read with an --author that another
\* command has, or takes its author from elsewhere.
UnseenCommit(i, j) ==
    LET s == session.cmd[i].body[j] IN
    /\ s.op = "commit"
    /\ \/ Absorbed(session.cmd, i, j)
       \/ s.author = "config" /\ s.join = "attached"
       \/ s.author = "config" /\ Authors(session.cmd, <<i, j>>) # {}
       \/ s.danger

CommitExcused(m) ==
    \/ Unguarded("none") \/ session.commit = "failed" \/ ~session.readable \/ idmap # "valid"
    \/ \E item \in UpTo(m.item) :
           SomeSegment(item, LAMBDA s :
               s.op \in {"cd", "popd", "tag"} \/ s.wrap = "chdir" \/ Unknown \in Range(s.dirs))
    \/ \E j \in DOMAIN session.cmd[m.item].body : UnseenCommit(m.item, j)

\* A commit in a repository with an active identity is authored by that
\* identity, whatever its options say.  The commit guard follows no cd at all
\* and allows whenever it cannot tell; these are the excuses, and they are all.
RightAuthor ==
    \A m \in made : (m.tag \in Active => m.author = m.tag) \/ CommitExcused(m)
=============================================================================
