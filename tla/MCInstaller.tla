---------------------------- MODULE MCInstaller ----------------------------
(***************************************************************************)
(* Instances of Installer for TLC: two or seven destinations, one host or  *)
(* three, two releases, one or two user contents.                          *)
(***************************************************************************)
EXTENDS InstallerProperties, TLC

CONSTANTS claude, codex, polytoken

MCUser(u)     == [kind |-> "file", user |-> u, rel |-> 0]
MCUserLink(u) == [kind |-> "symlink", user |-> u, rel |-> 0]
MCDirectory   == [kind |-> "other", user |-> 0, rel |-> 0]

MCHandled == FailPoints \ {"append", "clean"}

\* Claude Code: a mirrored file and the settings seed.
MCClaudeShips   == claude :> {1, 2}
MCClaudeOps     == <<"legacy-replace", "seed-only">>
MCClaudeStage   == <<1, 2>>
MCClaudePlain   == {<<a, b>> : a \in {Absent, MCUser(1), MCUserLink(1)},
                               b \in {Absent, MCUser(1)}}
MCClaudeFresh   == {<<MCUser(1), Absent>>}

\* Codex and Polytoken: a shared asset, hook configuration merged or staged,
\* instructions installed or staged, and a linked skill.  Claude Code: a
\* mirrored file, with a directory of the user's in its place.
MCHostsShips   == codex :> {1, 2, 4} @@ polytoken :> {1, 6} @@ claude :> {7}
MCHostsOps     == <<"managed-copy", "hooks-merge", "staged-fragment",
                    "install-or-stage", "staged-fragment", "symlink", "legacy-replace">>
MCHostsStage   == <<1, 3, 3, 5, 5, 6, 7>>
MCHostsInitial == {<<Absent, b, Absent, d, Absent, Absent, MCDirectory>> :
                     b \in {MCUser(1), MCUserLink(1)}, d \in {MCUser(1)}}
============================================================================
