---------------------------- MODULE MCHooks ----------------------------
(***************************************************************************)
\* Two repositories, two active identities and a retired one; commands of one
\* to three items, and the probes of both admissions.
(***************************************************************************)
EXTENDS AdmissionProperties, TLC

MCPlain == [op |-> "touch", wrap |-> "plain", dirs |-> <<>>, remote |-> "origin", id |-> NoId,
            over |-> NoId, author |-> "config", danger |-> FALSE, join |-> "apart"]
MCCd(d) == [MCPlain EXCEPT !.op = "cd", !.dirs = <<d>>]
MCOp(op) == [MCPlain EXCEPT !.op = op]

\* What may precede a push or a commit: the shell moves, and a first push.
MCFirst == { MCCd("B"), MCCd("outside"), MCOp("push") }

\* The shell moves to where the text does not say, or the repositories or the
\* login change.
MCChange == {
    MCCd(Unknown), MCOp("popd"),
    [MCOp("seturl") EXCEPT !.id = "b"],
    [MCOp("seturl") EXCEPT !.id = "b", !.wrap = "env"],
    [MCOp("seturl") EXCEPT !.id = "b", !.wrap = "chdir", !.dirs = <<"A">>],
    [MCOp("tag") EXCEPT !.id = "b"],
    [MCOp("switch") EXCEPT !.id = "b"] }

\* The same before a delimiter that is no word of its own.
MCJoined == {
    [MCPlain EXCEPT !.join = "line"],
    [MCCd("B") EXCEPT !.join = "line"], [MCCd("B") EXCEPT !.join = "attached"],
    [MCOp("seturl") EXCEPT !.id = "b", !.join = "line"],
    [MCOp("push") EXCEPT !.join = "attached"],
    [MCOp("push") EXCEPT !.remote = "default", !.join = "line"],
    [MCOp("merge") EXCEPT !.wrap = "chdir", !.dirs = <<"A">>, !.join = "line"],
    [MCOp("commit") EXCEPT !.dirs = <<"B">>, !.join = "line"] }

MCLast == {
    MCOp("push"),
    [MCOp("push") EXCEPT !.remote = "default"],
    [MCOp("push") EXCEPT !.remote = "other"],
    [MCOp("push") EXCEPT !.wrap = "chdir", !.dirs = <<"B">>],
    [MCOp("push") EXCEPT !.dirs = <<"A", "B">>],
    [MCOp("push") EXCEPT !.over = "a", !.wrap = "env"],
    [MCOp("push") EXCEPT !.danger = TRUE],
    [MCOp("sendpack") EXCEPT !.id = "a"],
    MCOp("pr"), [MCOp("pr") EXCEPT !.join = "attached"],
    [MCOp("merge") EXCEPT !.wrap = "chdir", !.dirs = <<"B">>],
    [MCOp("create") EXCEPT !.over = "a"],
    MCOp("commit"),
    [MCOp("commit") EXCEPT !.dirs = <<"B">>],
    [MCOp("commit") EXCEPT !.dirs = <<Unknown>>],
    [MCOp("commit") EXCEPT !.author = "b"],
    [MCOp("commit") EXCEPT !.author = "pattern"],
    [MCOp("commit") EXCEPT !.over = "b"], [MCOp("commit") EXCEPT !.danger = TRUE],
    [MCOp("commit") EXCEPT !.dirs = <<"B">>, !.join = "attached"],
    [MCOp("commit") EXCEPT !.author = "b", !.join = "attached"],
    [MCOp("commit") EXCEPT !.wrap = "chdir", !.dirs = <<"B">>] }

\* Enough of them to tell where the first left the shell, and what it hid.
MCAfter == {
    MCOp("push"), [MCOp("push") EXCEPT !.remote = "default"],
    [MCOp("merge") EXCEPT !.wrap = "chdir", !.dirs = <<"B">>],
    [MCOp("pr") EXCEPT !.join = "attached"], [MCOp("create") EXCEPT !.over = "a"],
    MCOp("commit"), [MCOp("commit") EXCEPT !.dirs = <<"B">>], [MCOp("commit") EXCEPT !.author = "b"] }

MCItem(shell, sure, body) == [shell |-> shell, sure |-> sure, body |-> body]
MCSame(segs) == {MCItem("same", TRUE, <<s>>) : s \in segs}
MCTail == MCSame(MCLast)
          \cup {MCItem("inner", TRUE, <<s, MCOp(op)>>) :
                    s \in {MCCd("B"), [MCCd("B") EXCEPT !.join = "line"]}, op \in {"push", "commit"}}
MCLead == MCSame(MCChange \cup MCJoined)
          \cup {MCItem("inner", TRUE, <<s>>) : s \in {MCCd("B"), [MCOp("seturl") EXCEPT !.id = "b"]}}
          \cup {MCItem("same", FALSE, <<MCCd("B")>>)}

\* The second command is an argument of the first, the third is not.
MCLong == {
    <<MCItem("same", TRUE, <<[s EXCEPT !.join = j]>>), MCItem("same", TRUE, <<t>>),
      MCItem("same", TRUE, <<[MCOp(op) EXCEPT !.over = "a"]>>)>> :
    s \in {MCPlain, MCCd("B")}, j \in {"attached", "line"},
    t \in {MCPlain, MCCd("B"), [MCOp("seturl") EXCEPT !.id = "b"]}, op \in {"push", "create"}}

MCCommands == {<<t>> : t \in MCTail} \cup {<<l, t>> : l \in MCSame(MCFirst), t \in MCTail}
              \cup {<<l, t>> : l \in MCLead, t \in MCSame(MCAfter)} \cup MCLong

MCUrl(s, i) == [scheme |-> s, who |-> i]
MCRepo(tag, scheme, who) ==
    [tag |-> tag, origin |-> MCUrl(scheme, who), other |-> MCUrl("ssh", "b"),
     default |-> "origin", author |-> "a"]
MCWorlds == {
    ("A" :> [MCRepo("a", "ssh", "a") EXCEPT !.default = "other"] @@ "B" :> MCRepo("b", "ssh", "b")),
    ("A" :> MCRepo("a", "https", "a") @@ "B" :> MCRepo("r", "https", "r")),
    ("A" :> MCRepo("untagged", "ssh", "a") @@ "B" :> MCRepo("conflict", "ssh", "b")) }

MCUserHosts == {[name |-> n, hooks |-> "trusted"] : n \in {"claude", "codex"}}
=============================================================================
