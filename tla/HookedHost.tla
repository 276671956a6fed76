----------------------------- MODULE HookedHost -----------------------------
(***************************************************************************)
\* A host that asks the identity guards before it runs a shell command, and
\* the shell that then runs it: Claude Code, which starts the guards itself,
\* and Codex and Polytoken, which start host-hook-bridge.py.
\* 
\* The guards read the repositories, the identity map and the active gh login
\* at one moment; the shell runs the items one after the other, and others
\* share the gh login.
(***************************************************************************)
EXTENDS IdentityGuard

CONSTANTS Commands,     \* the commands an agent may issue
          Worlds,       \* the repositories, as functions from Repos
          Starts,       \* where a command starts
          Logins,       \* whom gh may be logged in as, at first
          MaxSwitches   \* gh auth switch by others, while a command is under way

ASSUME HostAssumption ==
    /\ Worlds \subseteq [Repos -> Repository]
    /\ Starts \subseteq Dirs /\ Logins \subseteq Ids \cup {NoId}
    /\ \A c \in Commands : IsCommand(c)
    /\ MaxSwitches \in Nat

HostNames == {"claude", "codex", "polytoken"}

VARIABLES
    host,       \* which host, and whether it runs the hooks: they may be installed untrusted
    idmap,      \* the identity map; "invalid": unreadable, or two variables name different ones
    world,      \* the shell: its directory, the repositories, the gh login, files touched
    session,    \* the command, the item that runs next, what the guards did
    sent,       \* the pushes of the command that were run so far
    made,       \* its commits
    switches

hostVars == <<host, idmap, world, session, sent, made, switches>>

Idle == [pc |-> "idle", cmd |-> <<>>, readable |-> TRUE, next |-> 1,
         push |-> "none", commit |-> "none"]

HostInit ==
    /\ host \in [name : HostNames, hooks : {"trusted", "untrusted"}]
    /\ idmap \in {"valid", "invalid"}
    /\ \E w \in Worlds, d \in Starts, l \in Logins :
           world = [cwd |-> d, repos |-> w, login |-> l, touched |-> {}]
    /\ session = Idle
    /\ sent = {} /\ made = {} /\ switches = 0

-----------------------------------------------------------------------------
\* The hooks.

Issue(c, readable) ==
    /\ session.pc = "idle"
    /\ session' = [Idle EXCEPT !.pc = "decide", !.cmd = c, !.readable = readable]
    /\ UNCHANGED <<host, idmap, world, sent, made, switches>>

\* Mutant of Bridged: a failed push guard is only reported.
BridgedOpen(kind, guard, allows) ==
    CASE guard = "judged" -> allows
      [] OTHER -> TRUE

\* The event is not the expected one, the guard crashes, runs out of time or
\* answers something malformed: the push is denied, the commit is let through.
Bridged(kind, guard, allows) ==
    CASE guard = "judged" -> allows
      [] OTHER -> kind = "commit"

\* Claude Code goes on when a hook fails.
Answer(kind, guard, allows) ==
    IF host.name = "claude" THEN guard = "judged" => allows
    ELSE Bridged(kind, guard, allows)

GuardsAllow(push, commit) ==
    LET s == session  w == world IN
    /\ Answer("push", push,
              PushGuardAllows(s.cmd, s.readable, w.cwd, w.repos, w.login, idmap))
    /\ Answer("commit", commit,
              CommitGuardAllows(s.cmd, s.readable, w.cwd, w.repos, idmap))

Decide ==
    /\ session.pc = "decide"
    /\ IF host.hooks = "untrusted"
       THEN session' = [session EXCEPT !.pc = "run"]
       ELSE \E push, commit \in {"judged", "failed"} :
                session' = [session EXCEPT
                    !.pc = IF GuardsAllow(push, commit) THEN "run" ELSE "denied",
                    !.push = push, !.commit = commit]
    /\ UNCHANGED <<host, idmap, world, sent, made, switches>>

-----------------------------------------------------------------------------
\* The shell.

\* The remote that git uses when none is named need not be origin.
Remote(r, seg) == IF seg.remote = "default" THEN r[r.default] ELSE r[Named(seg.remote)]

Owner(seg, tag) == IF tag \in {"untagged", NoId} THEN seg.over ELSE tag

\* A push leaves under the key of the SSH host, or under the gh login.
PushedAs(seg, top, repos, login) ==
    CASE seg.danger -> NoId
      [] ~seg.danger /\ seg.op = "sendpack" -> seg.id
      [] ~seg.danger /\ seg.op = "push" ->
             LET u == Remote(repos[top], seg) IN
             IF u.scheme = "https" /\ u.who # login THEN NoId ELSE u.who
      [] OTHER -> login

Delivers(seg, top, repos) ==
    \/ seg.op \in {"pr", "merge", "sendpack"} /\ top # NoId
    \/ seg.op = "create"
    \/ /\ seg.op = "push" /\ top # NoId /\ seg.remote # "path"
       /\ Remote(repos[top], seg).scheme \in {"ssh", "https"}

Tag(top, repos) == IF top = NoId THEN NoId ELSE repos[top].tag

\* -C and env --chdir are followed one after the other.
Entered(dirs, cwd) == FoldLeft(LAMBDA here, d : d, cwd, dirs)

\* One simple command; guess stands for what the text does not say.
Execute(w, seg, item, guess) ==
    LET dir == Entered(seg.dirs, w.cwd)
        top == Toplevel(IF dir = Unknown THEN guess.dir ELSE dir)
    IN CASE seg.op = "cd" /\ seg.wrap = "plain" ->
                [w EXCEPT !.cwd = IF dir = Unknown THEN guess.dir ELSE dir]
         [] seg.op = "popd" /\ seg.wrap = "plain" -> [w EXCEPT !.cwd = guess.dir]
         [] seg.op = "seturl" /\ top # NoId -> [w EXCEPT !.repos[top].origin.who = seg.id]
         [] seg.op = "tag" /\ top # NoId -> [w EXCEPT !.repos[top].tag = seg.id]
         [] seg.op = "switch" -> [w EXCEPT !.login = seg.id]
         [] seg.op = "touch" -> [w EXCEPT !.touched = @ \cup {seg.id}]
         [] seg.op = "commit" /\ top # NoId ->
                [w EXCEPT !.made = @ \cup {[item |-> item, tag |-> w.repos[top].tag,
                     author |-> IF seg.danger \/ seg.author = "pattern" THEN guess.author
                                ELSE Author(seg, w.repos[top].author)]}]
         [] seg.op \in PushClass /\ Delivers(seg, top, w.repos) ->
                [w EXCEPT !.sent = @ \cup {[item |-> item, seg |-> seg,
                     owner |-> Owner(seg, Tag(top, w.repos)),
                     sender |-> PushedAs(seg, top, w.repos, w.login)]}]
         [] OTHER -> w

\* The commands of one item, from left to right.
Executed(w, segs, item, guess) == FoldLeft(LAMBDA x, seg : Execute(x, seg, item, guess), w, segs)

\* The items run in order.  A body that has a shell of its own changes
\* everything but the directory.
RunItem ==
    /\ session.pc = "run" /\ session.next <= Len(session.cmd)
    /\ \E guess \in [dir : Dirs, author : Ids] :
           LET item == session.cmd[session.next]
               before == [cwd |-> world.cwd, repos |-> world.repos, login |-> world.login,
                          touched |-> world.touched, sent |-> sent, made |-> made]
               after == Executed(before, item.body, session.next, guess)
           IN /\ world' = [cwd |-> IF item.shell = "inner" THEN world.cwd ELSE after.cwd,
                           repos |-> after.repos, login |-> after.login,
                           touched |-> after.touched]
              /\ sent' = after.sent /\ made' = after.made
    /\ session' = [session EXCEPT !.next = @ + 1]
    /\ UNCHANGED <<host, idmap, switches>>

SkipItem ==
    /\ session.pc = "run" /\ session.next <= Len(session.cmd)
    /\ ~session.cmd[session.next].sure
    /\ session' = [session EXCEPT !.next = @ + 1]
    /\ UNCHANGED <<host, idmap, world, sent, made, switches>>

End ==
    /\ \/ session.pc = "run" /\ session.next > Len(session.cmd)
       \/ session.pc = "denied"
    /\ session' = Idle
    /\ sent' = {} /\ made' = {}
    /\ UNCHANGED <<host, idmap, world, switches>>

\* gh auth switch in another session.
OtherSwitches ==
    /\ switches < MaxSwitches /\ session.pc = "run"
    /\ \E l \in Ids : world' = [world EXCEPT !.login = l]
    /\ switches' = switches + 1
    /\ UNCHANGED <<host, idmap, session, sent, made>>
=============================================================================
