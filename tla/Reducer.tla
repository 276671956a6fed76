------------------------------ MODULE Reducer ------------------------------
(***************************************************************************)
\* The dispatch of the unsharded reducer: dispatch-integration.sh, the
\* wrapper run-reducer-sandbox.py it starts for each attempt, and the Codex
\* process group that the wrapper starts in a session of its own.
\* 
\* They share nothing but processes, exit codes and the directory of the
\* attempt.  Signals reach the wrapper at any point; the dispatcher and the
\* wrapper may be killed outright, and a resumed driver dispatches again.
\* A call is one start of the wrapper; calls are numbered in their order.
(***************************************************************************)
EXTENDS Naturals, Sequences, FiniteSets

CONSTANTS Hosts,        \* the states the Codex installation may be in
          Streams,      \* the event streams Codex may print, as sequences of Events
          Messages,     \* what it may leave as its last message
          MaxCalls, MaxSignals, MaxKills, MaxChanges

Events == {"started", "completed", "failed", "reasoning", "blocked", "tool", "garbage"}

\* identity stands for the binary's path, inode, times and digest.
HostRecord == [backend : {"auto", "codex", "disabled", "other"}, binary : {"trusted", "none"},
               supported : BOOLEAN, chatgpt : BOOLEAN, identity : {1, 2}]

ASSUME ReducerAssumption ==
    /\ Hosts \subseteq HostRecord
    /\ Streams \subseteq Seq(Events)
    /\ Messages \subseteq {"valid", "invalid", "none", "garbled", "large"}
    /\ MaxCalls \in Nat /\ MaxCalls > 1
    /\ MaxSignals \in Nat /\ MaxKills \in Nat /\ MaxChanges \in Nat

Calls == 1..MaxCalls
Attempts == 1..2

VARIABLES
    host,       \* the Codex installation, which somebody may upgrade or log out
    driver,     \* dispatch-integration.sh: its step, attempt and call
    call,       \* the wrapper of each call
    codex,      \* the Codex process of each call: "none", "running" or "dead"
    dir,        \* .integration-attempt-N: whose decisions and telemetry it holds
    final,      \* the installed decisions and telemetry, by call
    union,      \* the reason of the degraded union, "none" before it is written
    abandoned,  \* calls whose dispatcher was killed
    count       \* signals, kills and changes so far

vars == <<host, driver, call, codex, dir, final, union, abandoned, count>>

\* The installation that probe-integration-runner.sh qualified.
Probed == 1

DriverSteps == {"idle", "start", "wait", "judge", "install", "telemetry",
                "unionCleanup", "unionFailed", "unionUnqualified", "done"}
CallSteps == {"none", "describe", "masked", "communicate", "timeout", "timeoutReap",
              "handler", "handlerReap", "failed", "parse", "decisions", "telemetry", "exited"}
\* Exit codes that the dispatcher tells apart: 0, the reserved 75, others.
Exits == {"none", "ok", "error", "cleanup"}

NoOutput == [stream |-> <<>>, message |-> "none"]
NoCall == [pc |-> "none", attempt |-> 1, exit |-> "none", signals |-> 0, pending |-> FALSE,
           killed |-> FALSE, seen |-> 0, ran |-> 0, output |-> NoOutput]

Init ==
    /\ host \in Hosts
    /\ driver = [pc |-> "start", attempt |-> 1, call |-> 0]
    /\ call = [c \in Calls |-> NoCall]
    /\ codex = [c \in Calls |-> "none"]
    /\ dir = [a \in Attempts |-> [decisions |-> 0, telemetry |-> 0]]
    /\ final = [decisions |-> 0, telemetry |-> 0]
    /\ union = "none" /\ abandoned = {}
    /\ count = [signals |-> 0, kills |-> 0, changes |-> 0]

Used == {c \in Calls : call[c].pc # "none"}
Alive(c) == call[c].pc \notin {"none", "exited"}

-----------------------------------------------------------------------------
\* The installation.

HostChanges ==
    /\ count.changes < MaxChanges
    /\ host' \in Hosts \ {host}
    /\ count' = [count EXCEPT !.changes = @ + 1]
    /\ UNCHANGED <<driver, call, codex, dir, final, union, abandoned>>

\* A binary in a trusted place that only its owner can write, a version
\* that was tried, a ChatGPT login.
Described(h) ==
    /\ h.backend \in {"auto", "codex"}
    /\ h.binary = "trusted" /\ h.supported /\ h.chatgpt

\* The qualification file was written for this identity, and each wrapper
\* is told which one to expect.
Qualified(h) == Described(h) /\ h.identity = Probed

-----------------------------------------------------------------------------
\* The wrapper, from its start to the codex process.

Step(c, pc) == call' = [call EXCEPT ![c].pc = pc]
Exit(c, e) == call' = [call EXCEPT ![c].pc = "exited", ![c].exit = e]

Describe(c) ==
    /\ call[c].pc = "describe"
    /\ IF Qualified(host)
       THEN call' = [call EXCEPT ![c].pc = "masked", ![c].seen = host.identity]
       ELSE Exit(c, "error")
    /\ UNCHANGED <<host, driver, codex, dir, final, union, abandoned, count>>

\* Termination signals are blocked while the process is started, and the
\* handlers installed; the mask is lifted once the process is known.
Spawn(c) ==
    /\ call[c].pc = "masked"
    /\ codex' = [codex EXCEPT ![c] = "running"]
    /\ call' = [call EXCEPT ![c].pc = IF call[c].pending THEN "handler" ELSE "communicate",
                            ![c].ran = host.identity]
    /\ UNCHANGED <<host, driver, dir, final, union, abandoned, count>>

\* The process could not be started; a pending signal then finds the
\* default action again.
SpawnFails(c) ==
    /\ call[c].pc = "masked"
    /\ Exit(c, "error")
    /\ UNCHANGED <<host, driver, codex, dir, final, union, abandoned, count>>

-----------------------------------------------------------------------------
\* Codex.

Finish(c) ==
    /\ codex[c] = "running"
    /\ codex' = [codex EXCEPT ![c] = "dead"]
    /\ UNCHANGED <<host, driver, call, dir, final, union, abandoned, count>>

-----------------------------------------------------------------------------
\* The wrapper waits for Codex, and cleans up.

\* The pipes are closed and the process has ended, well or not.
Communicated(c) ==
    /\ call[c].pc = "communicate" /\ codex[c] = "dead"
    /\ \/ Step(c, "failed")
       \/ \E s \in Streams, m \in Messages :
              call' = [call EXCEPT ![c].pc = "parse",
                                   ![c].output = [stream |-> s, message |-> m]]
    /\ UNCHANGED <<host, driver, codex, dir, final, union, abandoned, count>>

\* Mutant of WallTimeout: communicate without a time limit.
WallTimeoutOff(c) == FALSE /\ UNCHANGED vars

WallTimeout(c) ==
    /\ call[c].pc = "communicate"
    /\ Step(c, "timeout")
    /\ UNCHANGED <<host, driver, codex, dir, final, union, abandoned, count>>

Killing == {"timeout", "handler", "failed"}

\* killpg reaches the whole codex, or finds none; the leader that has not
\* been reaped yet is waited for.  It may be stuck in the kernel.
Kill(c) ==
    /\ call[c].pc \in Killing
    /\ \E stuck \in BOOLEAN :
           codex' = [codex EXCEPT ![c] = IF stuck THEN @ ELSE "dead"]
    /\ IF codex[c] = "dead" THEN Exit(c, "error")
       ELSE Step(c, IF call[c].pc = "timeout" THEN "timeoutReap" ELSE "handlerReap")
    /\ UNCHANGED <<host, driver, dir, final, union, abandoned, count>>

\* killpg is refused.
KillRefused(c) ==
    /\ call[c].pc \in Killing
    /\ Exit(c, "cleanup")
    /\ UNCHANGED <<host, driver, codex, dir, final, union, abandoned, count>>

Reaping == {"timeoutReap", "handlerReap"}

Reaped(c) ==
    /\ call[c].pc \in Reaping /\ codex[c] = "dead"
    /\ Exit(c, "error")
    /\ UNCHANGED <<host, driver, codex, dir, final, union, abandoned, count>>

\* Mutant of NotReaped: an unproven cleanup looks like any other failure.
NotReapedAsError(c) ==
    /\ call[c].pc \in Reaping /\ codex[c] # "dead"
    /\ Exit(c, "error")
    /\ UNCHANGED <<host, driver, codex, dir, final, union, abandoned, count>>

NotReaped(c) ==
    /\ call[c].pc \in Reaping /\ codex[c] # "dead"
    /\ Exit(c, "cleanup")
    /\ UNCHANGED <<host, driver, codex, dir, final, union, abandoned, count>>

-----------------------------------------------------------------------------
\* What the wrapper makes of the output.

Occurrences(s, e) == Cardinality({i \in DOMAIN s : s[i] = e})

\* Exactly one turn, no error, no item but messages, reasoning and the
\* refusals of disabled tools.
WellFormed(s) ==
    /\ \A i \in DOMAIN s : s[i] \notin {"garbage", "failed", "tool"}
    /\ Occurrences(s, "started") = 1 /\ Occurrences(s, "completed") = 1

Readable(m) == m \in {"valid", "invalid"}

Parse(c) ==
    /\ call[c].pc = "parse"
    /\ IF WellFormed(call[c].output.stream) /\ Readable(call[c].output.message)
       THEN Step(c, "decisions")
       ELSE call' = [call EXCEPT ![c].pc = "exited", ![c].exit = "error", ![c].output = NoOutput]
    /\ UNCHANGED <<host, driver, codex, dir, final, union, abandoned, count>>

WriteDecisions(c) ==
    /\ call[c].pc = "decisions"
    /\ dir' = [dir EXCEPT ![call[c].attempt].decisions = c]
    /\ Step(c, "telemetry")
    /\ UNCHANGED <<host, driver, codex, final, union, abandoned, count>>

WriteTelemetry(c) ==
    /\ call[c].pc = "telemetry"
    /\ dir' = [dir EXCEPT ![call[c].attempt].telemetry = c]
    /\ Exit(c, "ok")
    /\ UNCHANGED <<host, driver, codex, final, union, abandoned, count>>

-----------------------------------------------------------------------------
\* Signals.

\* The handler of the wrapper raises an exception.  The timeout's cleanup
\* runs inside the statement that catches it; the handler's own cleanup
\* does not, and elsewhere the default action is in force.
SignalTaken(pc) ==
    CASE pc \in {"communicate", "timeout", "timeoutReap"} -> "handler"
      [] OTHER -> "exited"

Signal(c) ==
    /\ count.signals < MaxSignals
    /\ Alive(c)
    /\ count' = [count EXCEPT !.signals = @ + 1]
    /\ IF call[c].pc = "masked"
       THEN call' = [call EXCEPT ![c].pending = TRUE, ![c].signals = @ + 1]
       ELSE LET next == SignalTaken(call[c].pc) IN
            call' = [call EXCEPT ![c].pc = next, ![c].signals = @ + 1,
                                 ![c].exit = IF next = "exited" THEN "error" ELSE @]
    /\ UNCHANGED <<host, driver, codex, dir, final, union, abandoned>>

KillWrapper(c) ==
    /\ count.kills < MaxKills
    /\ Alive(c)
    /\ count' = [count EXCEPT !.kills = @ + 1]
    /\ call' = [call EXCEPT ![c].pc = "exited", ![c].exit = "error", ![c].killed = TRUE]
    /\ UNCHANGED <<host, driver, codex, dir, final, union, abandoned>>

-----------------------------------------------------------------------------
\* The dispatcher.

Drive(pc) == driver' = [driver EXCEPT !.pc = pc]

Unqualified ==
    /\ driver.pc = "start" /\ driver.call = 0 /\ ~Qualified(host)
    /\ Drive("unionUnqualified")
    /\ UNCHANGED <<host, call, codex, dir, final, union, abandoned, count>>

\* The first attempt follows the check of the qualification, the second
\* follows the first.
StartCall ==
    /\ driver.pc = "start"
    /\ driver.call = 0 => Qualified(host)
    /\ \E c \in Calls \ Used :
           /\ 1..(c - 1) \subseteq Used
           /\ call' = [call EXCEPT ![c] = [NoCall EXCEPT !.pc = "describe",
                                                         !.attempt = driver.attempt]]
           /\ driver' = [driver EXCEPT !.pc = "wait", !.call = c]
    /\ UNCHANGED <<host, codex, dir, final, union, abandoned, count>>

\* Mutant of CleanupFailed: the reserved exit code is not recognised.
CleanupFailedNever == FALSE

CleanupFailed == call[driver.call].exit = "cleanup"

\* The candidate decisions lie in the attempt's directory.
Candidate == dir[driver.attempt].decisions

\* Mutant of Acceptable: a file that lies there is enough.
AcceptableFile ==
    /\ Candidate # 0
    /\ call[Candidate].output.message = "valid"

Acceptable ==
    /\ call[driver.call].exit = "ok"
    /\ Candidate # 0
    /\ call[Candidate].output.message = "valid"

Judge ==
    /\ driver.pc = "wait" /\ call[driver.call].pc = "exited"
    /\ CASE CleanupFailed -> Drive("unionCleanup")
         [] ~CleanupFailed /\ Acceptable -> Drive("install")
         [] OTHER -> IF driver.attempt = 1
                     THEN driver' = [driver EXCEPT !.pc = "start", !.attempt = 2]
                     ELSE Drive("unionFailed")
    /\ UNCHANGED <<host, call, codex, dir, final, union, abandoned, count>>

\* The files are moved out of the attempt's directory, one after the other.
InstallDecisions ==
    /\ driver.pc = "install"
    /\ final' = [final EXCEPT !.decisions = Candidate]
    /\ dir' = [dir EXCEPT ![driver.attempt].decisions = 0]
    /\ Drive("telemetry")
    /\ UNCHANGED <<host, call, codex, union, abandoned, count>>

InstallTelemetry ==
    /\ driver.pc = "telemetry"
    /\ IF dir[driver.attempt].telemetry # 0
       THEN /\ final' = [final EXCEPT !.telemetry = dir[driver.attempt].telemetry]
            /\ dir' = [dir EXCEPT ![driver.attempt].telemetry = 0]
       ELSE UNCHANGED <<final, dir>>
    /\ Drive("done")
    /\ UNCHANGED <<host, call, codex, union, abandoned, count>>

Reason == [unionCleanup |-> "runner-cleanup-failed", unionFailed |-> "reducer-failed-twice",
           unionUnqualified |-> "no-qualified-runner"]

WriteUnion ==
    /\ driver.pc \in DOMAIN Reason
    /\ union' = Reason[driver.pc]
    /\ Drive("done")
    /\ UNCHANGED <<host, call, codex, dir, final, abandoned, count>>

\* The dispatcher is killed; nothing stops its wrapper.
KillDriver ==
    /\ count.kills < MaxKills
    /\ driver.pc \notin {"idle", "done"}
    /\ driver' = [driver EXCEPT !.pc = "idle"]
    /\ abandoned' = abandoned \cup ({driver.call} \ {0})
    /\ count' = [count EXCEPT !.kills = @ + 1]
    /\ UNCHANGED <<host, call, codex, dir, final, union>>

\* integrate-run.sh --resume: decisions that are there are not made again.
\* The bound on calls leaves room for both attempts.
Resume ==
    /\ driver.pc = "idle"
    /\ final.decisions = 0 /\ union = "none"
    /\ Cardinality(Used) + Cardinality(Attempts) <= MaxCalls
    /\ driver' = [pc |-> "start", attempt |-> 1, call |-> 0]
    /\ UNCHANGED <<host, call, codex, dir, final, union, abandoned, count>>

Wrapper(c) ==
    \/ Describe(c) \/ Spawn(c) \/ SpawnFails(c) \/ Communicated(c) \/ WallTimeout(c)
    \/ Kill(c) \/ KillRefused(c) \/ Reaped(c) \/ NotReaped(c)
    \/ Parse(c) \/ WriteDecisions(c) \/ WriteTelemetry(c)

Dispatcher ==
    \/ Unqualified \/ StartCall \/ Judge
    \/ InstallDecisions \/ InstallTelemetry \/ WriteUnion

Environment ==
    \/ HostChanges \/ KillDriver \/ Resume
    \/ \E c \in Calls : Finish(c) \/ Signal(c) \/ KillWrapper(c)

Next == Dispatcher \/ (\E c \in Calls : Wrapper(c)) \/ Environment

Spec == Init /\ [][Next]_vars

\* The operating system runs the dispatcher and the wrappers, whose waits
\* all have a limit; it owes nothing to Codex.
FairSpec == Spec /\ WF_vars(Dispatcher) /\ (\A c \in Calls : WF_vars(Wrapper(c)))
=============================================================================
