----------------------------- MODULE MCReducer -----------------------------
\* Instances of the reducer's dispatch for TLC.
EXTENDS ReducerProperties

\* The probed installation and its successor.
Codex1 == [backend |-> "auto", binary |-> "trusted", supported |-> TRUE, chatgpt |-> TRUE,
           identity |-> 1]
MCHosts == {Codex1, [Codex1 EXCEPT !.identity = 2]}

\* One stream with a refused tool, one with a tool that ran, and one that
\* breaks off in its second turn.
MCStreams == {<<"started", "blocked", "completed">>,
              <<"started", "tool", "completed">>,
              <<"started", "completed", "started", "garbage">>}
=============================================================================
