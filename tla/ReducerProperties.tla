------------------------- MODULE ReducerProperties -------------------------
\* What the dispatch of the reducer promises.
EXTENDS Reducer

Output == [stream : Streams \cup {<<>>}, message : Messages \cup {"none"}]
CallRecord == [pc : CallSteps, attempt : Attempts, exit : Exits, signals : Nat,
               pending : BOOLEAN, killed : BOOLEAN, seen : 0..2, ran : 0..2, output : Output]

TypeOK ==
    /\ host \in Hosts
    /\ driver \in [pc : DriverSteps, attempt : Attempts, call : 0..MaxCalls]
    /\ call \in [Calls -> CallRecord]
    /\ codex \in [Calls -> {"none", "running", "dead"}]
    /\ dir \in [Attempts -> [decisions : 0..MaxCalls, telemetry : 0..MaxCalls]]
    /\ final \in [decisions : 0..MaxCalls, telemetry : 0..MaxCalls]
    /\ abandoned \subseteq Calls

\* Whose group nobody could stop any more: the dispatcher or the wrapper
\* was killed outright, or a second signal met the wrapper's cleanup.
Forsaken(c) == c \in abandoned \/ call[c].killed \/ call[c].signals > 1

\* The second attempt never runs beside a Codex process that the first one
\* left: the wrapper reserves an exit code for a group it could not stop,
\* and the dispatcher does not retry after it.
OneReducer ==
    \A c, d \in Calls : c < d /\ call[d].pc # "none" /\ codex[c] = "running"
                        => Forsaken(c)

\* What is installed comes from one call that ended well, whose decisions
\* are valid and whose stream shows one turn and no tool, by the installation
\* that was probed unless it was replaced just before the process started;
\* and the telemetry is that call's own.  Only a wrapper that outlived its dispatcher can
\* interfere: both write to the same directory, and it may replace the file
\* between its validation and its move.
InstalledWhole ==
    /\ final.decisions # 0 =>
           LET c == call[final.decisions]
               s == c.output.stream
           IN /\ Occurrences(s, "tool") = 0 /\ Occurrences(s, "started") = 1
              /\ c.ran = Probed \/ c.ran # c.seen
    /\ final.decisions # 0 /\ abandoned = {} =>
           /\ call[final.decisions].exit = "ok"
           /\ call[final.decisions].output.message = "valid"
    /\ final.telemetry # 0 /\ abandoned = {} => final.telemetry = final.decisions

\* The reason in a degraded union says what happened: a cleanup that could
\* not be proved in its last call, or two failed calls, none of them so.
ReasonTrue ==
    /\ union = "runner-cleanup-failed" => call[driver.call].exit = "cleanup"
    /\ union = "reducer-failed-twice" =>
           /\ driver.call > 1
           /\ \A c \in {driver.call - 1, driver.call} : call[c].exit \in {"ok", "error"}
    /\ union # "none" => final.decisions = 0

\* A dispatch that is not killed ends, with decisions or with a union: every
\* wait of the wrapper has a limit, and there are two attempts.
DispatchEnds ==
    (driver.pc = "wait") ~> (final.decisions # 0 \/ union # "none" \/ driver.pc = "idle")
=============================================================================
