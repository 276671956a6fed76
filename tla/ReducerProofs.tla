--------------------------- MODULE ReducerProofs ---------------------------
(***************************************************************************)
\* The promises of ReducerProperties, proved for every installation, stream
\* and message, and every number of calls, signals, kills and changes.
\* 
\* The argument: a Codex process outlives its wrapper only behind the
\* reserved exit code, a kill, or a second signal (Contained); and all
\* calls but the dispatcher's present one are settled: abandoned by a killed
\* dispatcher, or ended with another code than the reserved one (Settlement).
(***************************************************************************)
EXTENDS ReducerProperties, FiniteSetTheorems, TLAPS

\* While Codex runs its wrapper is where it knows of it, or has given up.
ContainedAt(k, process) ==
    /\ process = "running" =>
           k.pc \in {"communicate", "timeout", "timeoutReap", "handler", "handlerReap", "exited"}
    /\ process = "none" => k.pc \in {"none", "describe", "masked", "exited"}
    /\ process = "running" /\ k.pc = "exited" =>
           k.exit = "cleanup" \/ k.killed \/ k.signals > 1
    /\ k.pc \in {"handler", "handlerReap"} \/ k.pending => k.signals > 0

Contained == \A c \in Calls : ContainedAt(call[c], codex[c])

\* Calls ended, with an exit code, or did not.
Coded == \A c \in Calls : call[c].pc = "exited" <=> call[c].exit # "none"

Settled(c) == c \in abandoned \/ (call[c].pc = "exited" /\ call[c].exit # "cleanup")

Settlement ==
    /\ \A c \in Calls : call[c].pc # "none" /\ c # driver.call => Settled(c)
    /\ driver.pc = "start" /\ driver.call # 0 => Settled(driver.call)
    /\ driver.pc = "idle" /\ driver.call # 0 => driver.call \in abandoned

\* Calls are numbered in their order.
Numbered ==
    /\ \A c, d \in Calls : d < c /\ call[c].pc # "none" => call[d].pc # "none"
    /\ driver.call # 0 => /\ call[driver.call].pc # "none"
                          /\ \A c \in Calls : call[c].pc # "none" => c <= driver.call

Failed(c) == call[c].pc = "exited" /\ call[c].exit \in {"ok", "error"}

\* What the dispatcher knows of its calls when it chooses the next step.
Judged ==
    /\ driver.pc \in {"wait", "install", "telemetry", "unionCleanup", "unionFailed"} =>
           driver.call # 0
    /\ driver.pc = "start" /\ driver.attempt = 2 => driver.call # 0 /\ Failed(driver.call)
    /\ driver.pc \in {"wait", "unionFailed"} /\ driver.attempt = 2 =>
           driver.call > 1 /\ Failed(driver.call - 1)
    /\ driver.pc = "unionFailed" => driver.attempt = 2 /\ Failed(driver.call)
    /\ driver.pc = "unionCleanup" =>
           call[driver.call].pc = "exited" /\ call[driver.call].exit = "cleanup"
    /\ driver.pc \in {"start", "wait", "install", "unionCleanup", "unionFailed",
                      "unionUnqualified"} => final.decisions = 0

Reasoned ==
    /\ union # "none" => driver.pc = "done"
    /\ union = "runner-cleanup-failed" =>
           /\ driver.call # 0
           /\ call[driver.call].pc = "exited" /\ call[driver.call].exit = "cleanup"
    /\ union = "reducer-failed-twice" =>
           driver.call > 1 /\ Failed(driver.call) /\ Failed(driver.call - 1)
    /\ union # "none" => final.decisions = 0

\* Decisions that were taken from a proper stream of the probed installation.
Reviewed(c) ==
    /\ call[c].pc \in {"telemetry", "exited"}
    /\ call[c].seen = Probed /\ WellFormed(call[c].output.stream)

Sound ==
    /\ \A c \in Calls :
           /\ call[c].pc \notin {"none", "describe", "exited"} => call[c].seen = Probed
           /\ call[c].pc \in {"decisions", "telemetry"} => WellFormed(call[c].output.stream)
    /\ \A a \in Attempts : dir[a].decisions # 0 => Reviewed(dir[a].decisions)
    /\ final.decisions # 0 => Reviewed(final.decisions)

\* As long as no call was abandoned, the dispatch is the first one, and its
\* calls are numbered like its attempts.
Dedicated ==
    /\ \A a \in Attempts :
           /\ dir[a].decisions # 0 => call[dir[a].decisions].attempt = a
           /\ dir[a].telemetry # 0 =>
                  call[dir[a].telemetry].pc = "exited" /\ call[dir[a].telemetry].attempt = a
    /\ abandoned = {} =>
           /\ \A c \in Calls : call[c].pc # "none" => call[c].attempt = c
           /\ driver.call = 0 => driver.attempt = 1 /\ (\A c \in Calls : call[c].pc = "none")
           /\ driver.call # 0 =>
                  driver.attempt = IF driver.pc = "start" THEN driver.call + 1 ELSE driver.call
           /\ driver.pc = "idle" => driver.call = 0

Whole(c) == call[c].exit = "ok" /\ call[c].output.message = "valid"

\* What goes from the directory of an attempt to the installed files.
Carried ==
    /\ final.telemetry # 0 => driver.pc = "done"
    /\ abandoned = {} =>
           /\ driver.pc = "wait" /\ call[driver.call].exit = "ok" =>
                  dir[driver.attempt].telemetry = driver.call
           /\ driver.pc = "install" =>
                  /\ Whole(driver.call)
                  /\ dir[driver.attempt] = [decisions |-> driver.call, telemetry |-> driver.call]
           /\ driver.pc = "telemetry" =>
                  /\ final.decisions = driver.call
                  /\ dir[driver.attempt].telemetry = driver.call
           /\ final.decisions # 0 => Whole(final.decisions)
           /\ final.telemetry # 0 => final.telemetry = final.decisions

IInv == /\ TypeOK /\ Coded /\ Contained /\ Settlement /\ Numbered /\ Judged /\ Reasoned
        /\ Sound /\ Dedicated /\ Carried

-----------------------------------------------------------------------------
\* The steps of a wrapper and of what happens to it, and the others.
CallStep(c) == Wrapper(c) \/ Finish(c) \/ Signal(c) \/ KillWrapper(c)

DriverStep == \/ Unqualified \/ StartCall \/ Judge \/ InstallDecisions \/ InstallTelemetry
              \/ WriteUnion \/ KillDriver \/ Resume \/ HostChanges

\* What a step of call c, from q to r, may change, and what it may not.
Effect(c) ==
    LET q == call[c]
        r == call'[c]
        steps == {"none", "describe", "exited"}
    IN  /\ UNCHANGED <<driver, final, union, abandoned>>
        /\ \A d \in Calls \ {c} : call'[d] = call[d] /\ codex'[d] = codex[d]
        /\ r.attempt = q.attempt
        /\ r.pc = "none" <=> q.pc = "none"
        /\ q.pc \in {"none", "exited"} => r = q
        /\ r.pc = "exited" <=> r.exit # "none"
        /\ ContainedAt(q, codex[c]) => ContainedAt(r, codex'[c])
        /\ \/ dir' = dir
           \/ /\ q.pc = "decisions" /\ r.pc = "telemetry"
              /\ dir' = [dir EXCEPT ![q.attempt].decisions = c]
           \/ /\ q.pc = "telemetry" /\ r.pc = "exited"
              /\ dir' = [dir EXCEPT ![q.attempt].telemetry = c]
        /\ r.exit = "ok" /\ q.exit # "ok" => dir' = [dir EXCEPT ![q.attempt].telemetry = c]
        /\ q.pc \in {"decisions", "telemetry"} =>
               /\ r.output = q.output /\ r.seen = q.seen
               /\ r.pc \in {"decisions", "telemetry", "exited"}
        /\ r.pc = "decisions" => WellFormed(r.output.stream) \/ q.pc = "decisions"
        /\ r.pc = "decisions" => q.pc \in {"parse", "decisions"}
        /\ r.pc = "telemetry" => q.pc \in {"decisions", "telemetry"}
        /\ r.pc \notin steps => r.seen = Probed \/ (q.pc \notin steps /\ r.seen = q.seen)

\* There are no other steps.
LEMMA StepKinds == [Next]_vars => (\E c \in Calls : CallStep(c)) \/ DriverStep \/ UNCHANGED vars
  BY DEF Next, Dispatcher, Environment, CallStep, DriverStep

\* At first nothing was called.
LEMMA TypeInit == Init => TypeOK
<1>1. NoCall \in CallRecord
  BY DEF NoCall, NoOutput, CallRecord, Output, CallSteps, Attempts, Exits
<1>2. QED BY <1>1, ReducerAssumption DEF Init, TypeOK, Calls, Attempts, DriverSteps

\* The frame of a call's step, and its type.
LEMMA CallEffect ==
  ASSUME TypeOK, Coded, NEW c \in Calls, CallStep(c)
  PROVE  call' \in [Calls -> CallRecord] /\ Effect(c)
<1> USE ReducerAssumption
<1>17. host.identity \in {1, 2}
  BY DEF TypeOK, HostRecord
<1>0. /\ call \in [Calls -> CallRecord] /\ call[c] \in CallRecord /\ NoOutput \in Output
      /\ codex \in [Calls -> {"none", "running", "dead"}]
      /\ call[c].pc = "exited" <=> call[c].exit # "none"
  BY DEF TypeOK, Coded, NoOutput, Output
<1>1. CASE Describe(c)
  <2> DEFINE i == host.identity
  <2>0. i \in 0..2
    BY <1>17
  <2>9. Qualified(host) => i = Probed
    BY DEF Qualified, i
  <2> HIDE DEF i
  <2>1. CASE Qualified(host)
    <3> DEFINE r == [call[c] EXCEPT !.pc = "masked", !.seen = i]
    <3>1. r \in CallRecord
      BY <1>0, <2>0 DEF CallRecord, CallSteps, Exits
    <3>2. call' = [call EXCEPT ![c] = r]
      BY <1>1, <2>1 DEF Describe, Exit, i
    <3>3. call' \in [Calls -> CallRecord] /\ call'[c] = r
      BY <1>0, <3>1, <3>2
    <3>4. QED BY <1>0, <2>9, <1>1, <2>1, <3>2, <3>3 DEF Describe, Exit, Effect, ContainedAt, CallRecord, CallSteps, Exits, Probed
  <2>2. CASE ~Qualified(host)
    <3> DEFINE r == [call[c] EXCEPT !.pc = "exited", !.exit = "error"]
    <3>1. r \in CallRecord
      BY <1>0 DEF CallRecord, CallSteps, Exits
    <3>2. call' = [call EXCEPT ![c] = r]
      BY <1>1, <2>2 DEF Describe, Exit
    <3>3. call' \in [Calls -> CallRecord] /\ call'[c] = r
      BY <1>0, <3>1, <3>2
    <3>4. QED BY <1>0, <1>1, <2>2, <3>2, <3>3 DEF Describe, Exit, Effect, ContainedAt, CallRecord, CallSteps, Exits, Probed
  <2>3. QED BY <2>1, <2>2
<1>2. CASE Spawn(c)
  <2> DEFINE i == host.identity
  <2>0. i \in 0..2
    BY <1>17
  <2> HIDE DEF i
  <2>1. CASE call[c].pending
    <3> DEFINE r == [call[c] EXCEPT !.pc = "handler", !.ran = i]
    <3>1. r \in CallRecord
      BY <1>0, <2>0 DEF CallRecord, CallSteps, Exits
    <3>2. call' = [call EXCEPT ![c] = r]
      BY <1>2, <2>1 DEF Spawn, i
    <3>3. call' \in [Calls -> CallRecord] /\ call'[c] = r
      BY <1>0, <3>1, <3>2
    <3>4. QED BY <1>0, <1>2, <2>1, <3>2, <3>3 DEF Spawn, Effect, ContainedAt, CallRecord, CallSteps, Exits
  <2>2. CASE ~call[c].pending
    <3> DEFINE r == [call[c] EXCEPT !.pc = "communicate", !.ran = i]
    <3>1. r \in CallRecord
      BY <1>0, <2>0 DEF CallRecord, CallSteps, Exits
    <3>2. call' = [call EXCEPT ![c] = r]
      BY <1>2, <2>2 DEF Spawn, i
    <3>3. call' \in [Calls -> CallRecord] /\ call'[c] = r
      BY <1>0, <3>1, <3>2
    <3>4. QED BY <1>0, <1>2, <2>2, <3>2, <3>3 DEF Spawn, Effect, ContainedAt, CallRecord, CallSteps, Exits
  <2>3. QED BY <2>1, <2>2
<1>3. CASE SpawnFails(c)
  <2> DEFINE r == [call[c] EXCEPT !.pc = "exited", !.exit = "error"]
  <2>1. r \in CallRecord
    BY <1>0 DEF CallRecord, CallSteps, Exits
  <2>2. call' = [call EXCEPT ![c] = r]
    BY <1>3 DEF SpawnFails, Exit
  <2>3. call' \in [Calls -> CallRecord] /\ call'[c] = r
    BY <1>0, <2>1, <2>2
  <2>4. QED BY <1>0, <1>3, <2>2, <2>3 DEF SpawnFails, Exit, Effect, ContainedAt, CallRecord, CallSteps, Exits
<1>4. CASE Communicated(c)
  <2>1. CASE Step(c, "failed")
    <3>1. [call[c] EXCEPT !.pc = "failed"] \in CallRecord
      BY <1>0 DEF CallRecord, CallSteps
    <3>2. call' = [call EXCEPT ![c] = [call[c] EXCEPT !.pc = "failed"]]
      BY <2>1 DEF Step
    <3>3. call' \in [Calls -> CallRecord] /\ call'[c] = [call[c] EXCEPT !.pc = "failed"]
      BY <1>0, <3>1, <3>2
    <3>4. QED BY <1>0, <1>4, <3>2, <3>3, ZenonT(30)
              DEF Communicated, Effect, ContainedAt, CallRecord, CallSteps, Exits
  <2>2. ASSUME NEW s \in Streams, NEW m \in Messages,
               call' = [call EXCEPT ![c].pc = "parse",
                                    ![c].output = [stream |-> s, message |-> m]]
        PROVE  call' \in [Calls -> CallRecord] /\ Effect(c)
    <3> DEFINE o == [stream |-> s, message |-> m]
               r == [call[c] EXCEPT !.pc = "parse", !.output = o]
    <3>1. o \in Output
      BY DEF Output
    <3> HIDE DEF o
    <3>2. r \in CallRecord
      BY <1>0, <3>1 DEF CallRecord, CallSteps
    <3>3. call' = [call EXCEPT ![c] = r]
      BY <2>2 DEF o
    <3>4. call' \in [Calls -> CallRecord] /\ call'[c] = r
      BY <1>0, <3>2, <3>3
    <3>5. QED BY <1>0, <1>4, <3>3, <3>4, ZenonT(30)
              DEF Communicated, Effect, ContainedAt, CallRecord, CallSteps, Exits
  <2>3. QED BY <1>4, <2>1, <2>2 DEF Communicated
<1>5. CASE WallTimeout(c)
  <2> DEFINE r == [call[c] EXCEPT !.pc = "timeout"]
  <2>1. r \in CallRecord
    BY <1>0 DEF CallRecord, CallSteps, Exits
  <2>2. call' = [call EXCEPT ![c] = r]
    BY <1>5 DEF WallTimeout, Step
  <2>3. call' \in [Calls -> CallRecord] /\ call'[c] = r
    BY <1>0, <2>1, <2>2
  <2>4. QED BY <1>0, <1>5, <2>2, <2>3 DEF WallTimeout, Step, Effect, ContainedAt, CallRecord, CallSteps, Exits
<1>6. CASE Kill(c)
  <2>1. CASE codex[c] = "dead"
    <3> DEFINE r == [call[c] EXCEPT !.pc = "exited", !.exit = "error"]
    <3>1. r \in CallRecord
      BY <1>0 DEF CallRecord, CallSteps, Exits
    <3>2. call' = [call EXCEPT ![c] = r]
      BY <1>6, <2>1 DEF Kill, Killing, Step, Exit
    <3>3. call' \in [Calls -> CallRecord] /\ call'[c] = r
      BY <1>0, <3>1, <3>2
    <3>4. QED BY <1>0, <1>6, <2>1, <3>2, <3>3 DEF Kill, Killing, Step, Exit, Effect, ContainedAt, CallRecord, CallSteps, Exits
  <2>2. CASE codex[c] # "dead" /\ call[c].pc = "timeout"
    <3> DEFINE r == [call[c] EXCEPT !.pc = "timeoutReap"]
    <3>1. r \in CallRecord
      BY <1>0 DEF CallRecord, CallSteps, Exits
    <3>2. call' = [call EXCEPT ![c] = r]
      BY <1>6, <2>2 DEF Kill, Killing, Step, Exit
    <3>3. call' \in [Calls -> CallRecord] /\ call'[c] = r
      BY <1>0, <3>1, <3>2
    <3>4. QED BY <1>0, <1>6, <2>2, <3>2, <3>3 DEF Kill, Killing, Step, Exit, Effect, ContainedAt, CallRecord, CallSteps, Exits
  <2>3. CASE codex[c] # "dead" /\ call[c].pc # "timeout"
    <3> DEFINE r == [call[c] EXCEPT !.pc = "handlerReap"]
    <3>1. r \in CallRecord
      BY <1>0 DEF CallRecord, CallSteps, Exits
    <3>2. call' = [call EXCEPT ![c] = r]
      BY <1>6, <2>3 DEF Kill, Killing, Step, Exit
    <3>3. call' \in [Calls -> CallRecord] /\ call'[c] = r
      BY <1>0, <3>1, <3>2
    <3>4. QED BY <1>0, <1>6, <2>3, <3>2, <3>3 DEF Kill, Killing, Step, Exit, Effect, ContainedAt, CallRecord, CallSteps, Exits
  <2>4. QED BY <1>0, <2>1, <2>2, <2>3
<1>7. CASE KillRefused(c)
  <2> DEFINE r == [call[c] EXCEPT !.pc = "exited", !.exit = "cleanup"]
  <2>1. r \in CallRecord
    BY <1>0 DEF CallRecord, CallSteps, Exits
  <2>2. call' = [call EXCEPT ![c] = r]
    BY <1>7 DEF KillRefused, Killing, Exit
  <2>3. call' \in [Calls -> CallRecord] /\ call'[c] = r
    BY <1>0, <2>1, <2>2
  <2>4. QED BY <1>0, <1>7, <2>2, <2>3 DEF KillRefused, Killing, Exit, Effect, ContainedAt, CallRecord, CallSteps, Exits
<1>8. CASE Reaped(c)
  <2> DEFINE r == [call[c] EXCEPT !.pc = "exited", !.exit = "error"]
  <2>1. r \in CallRecord
    BY <1>0 DEF CallRecord, CallSteps, Exits
  <2>2. call' = [call EXCEPT ![c] = r]
    BY <1>8 DEF Reaped, Reaping, Exit
  <2>3. call' \in [Calls -> CallRecord] /\ call'[c] = r
    BY <1>0, <2>1, <2>2
  <2>4. QED BY <1>0, <1>8, <2>2, <2>3 DEF Reaped, Reaping, Exit, Effect, ContainedAt, CallRecord, CallSteps, Exits
<1>9. CASE NotReaped(c)
  <2> DEFINE r == [call[c] EXCEPT !.pc = "exited", !.exit = "cleanup"]
  <2>1. r \in CallRecord
    BY <1>0 DEF CallRecord, CallSteps, Exits
  <2>2. call' = [call EXCEPT ![c] = r]
    BY <1>9 DEF NotReaped, Reaping, Exit
  <2>3. call' \in [Calls -> CallRecord] /\ call'[c] = r
    BY <1>0, <2>1, <2>2
  <2>4. QED BY <1>0, <1>9, <2>2, <2>3 DEF NotReaped, Reaping, Exit, Effect, ContainedAt, CallRecord, CallSteps, Exits
<1>10. CASE Parse(c)
  <2>1. CASE WellFormed(call[c].output.stream) /\ Readable(call[c].output.message)
    <3> DEFINE r == [call[c] EXCEPT !.pc = "decisions"]
    <3>1. r \in CallRecord
      BY <1>0 DEF CallRecord, CallSteps, Exits
    <3>2. call' = [call EXCEPT ![c] = r]
      BY <1>10, <2>1 DEF Parse, Step, Exit
    <3>3. call' \in [Calls -> CallRecord] /\ call'[c] = r
      BY <1>0, <3>1, <3>2
    <3>4. QED BY <1>0, <1>10, <2>1, <3>2, <3>3 DEF Parse, Step, Exit, Effect, ContainedAt, CallRecord, CallSteps, Exits
  <2>2. CASE ~(WellFormed(call[c].output.stream) /\ Readable(call[c].output.message))
    <3> DEFINE r == [call[c] EXCEPT !.pc = "exited", !.exit = "error", !.output = NoOutput]
    <3>1. r \in CallRecord
      BY <1>0 DEF CallRecord, CallSteps, Exits
    <3>2. call' = [call EXCEPT ![c] = r]
      BY <1>10, <2>2 DEF Parse, Step, Exit
    <3>3. call' \in [Calls -> CallRecord] /\ call'[c] = r
      BY <1>0, <3>1, <3>2
    <3>4. QED BY <1>0, <1>10, <2>2, <3>2, <3>3 DEF Parse, Step, Exit, Effect, ContainedAt, CallRecord, CallSteps, Exits
  <2>3. QED BY <2>1, <2>2
<1>11. CASE WriteDecisions(c)
  <2> DEFINE r == [call[c] EXCEPT !.pc = "telemetry"]
  <2>1. r \in CallRecord
    BY <1>0 DEF CallRecord, CallSteps, Exits
  <2>2. call' = [call EXCEPT ![c] = r]
    BY <1>11 DEF WriteDecisions, Step
  <2>3. call' \in [Calls -> CallRecord] /\ call'[c] = r
    BY <1>0, <2>1, <2>2
  <2>4. QED BY <1>0, <1>11, <2>2, <2>3 DEF WriteDecisions, Step, Effect, ContainedAt, CallRecord, CallSteps, Exits
<1>12. CASE WriteTelemetry(c)
  <2> DEFINE r == [call[c] EXCEPT !.pc = "exited", !.exit = "ok"]
  <2>1. r \in CallRecord
    BY <1>0 DEF CallRecord, CallSteps, Exits
  <2>2. call' = [call EXCEPT ![c] = r]
    BY <1>12 DEF WriteTelemetry, Exit
  <2>3. call' \in [Calls -> CallRecord] /\ call'[c] = r
    BY <1>0, <2>1, <2>2
  <2>4. QED BY <1>0, <1>12, <2>2, <2>3 DEF WriteTelemetry, Exit, Effect, ContainedAt, CallRecord, CallSteps, Exits
<1>13. CASE Finish(c)
  <2>1. /\ call' = call /\ codex' = [codex EXCEPT ![c] = "dead"] /\ dir' = dir
        /\ codex[c] = "running" /\ UNCHANGED <<driver, final, union, abandoned>>
    BY <1>13 DEF Finish
  <2>2. codex'[c] = "dead" /\ (\A d \in Calls \ {c} : codex'[d] = codex[d])
    BY <1>0, <2>1
  <2>4. ContainedAt(call[c], codex[c]) => ContainedAt(call'[c], codex'[c])
    BY <2>1, <2>2 DEF ContainedAt
  <2>5. QED BY <1>0, <2>1, <2>2, <2>4 DEF Effect
<1>14. CASE Signal(c)
  <2> DEFINE n == call[c].signals + 1
  <2>0. call[c].signals \in Nat
    BY <1>0 DEF CallRecord
  <2>5. n \in Nat /\ n > 0 /\ (call[c].signals > 0 => n > 1)
    BY <2>0
  <2> HIDE DEF n
  <2>1. CASE call[c].pc = "masked"
    <3> DEFINE r == [call[c] EXCEPT !.pending = TRUE, !.signals = n]
    <3>1. /\ r \in CallRecord
          /\ r.pc = call[c].pc /\ r.exit = call[c].exit /\ r.signals = n
          /\ r.pending = TRUE /\ r.killed = call[c].killed /\ r.attempt = call[c].attempt
          /\ r.seen = call[c].seen /\ r.output = call[c].output
      BY <1>0, <2>5 DEF CallRecord, CallSteps, Exits
    <3>2. call' = [call EXCEPT ![c] = r]
      BY <1>14, <2>1 DEF Signal, SignalTaken, Alive, n
    <3>3. /\ call' \in [Calls -> CallRecord] /\ call'[c] = r
          /\ \A d \in Calls \ {c} : call'[d] = call[d]
      BY <1>0, <3>1, <3>2
    <3> HIDE DEF r
    <3>4. ContainedAt(call[c], codex[c]) => ContainedAt(r, codex[c])
      BY <1>0, <1>14, <2>1, <2>5, <3>1 DEF ContainedAt, Signal, Alive
    <3>5. call[c].pc # "none" /\ call[c].pc # "exited" /\ dir' = dir /\ codex' = codex
          /\ UNCHANGED <<driver, final, union, abandoned>>
      BY <1>14 DEF Signal, Alive
    <3>6. QED BY <1>0, <2>1, <3>1, <3>3, <3>4, <3>5 DEF Effect
  <2>2. CASE call[c].pc \in {"communicate", "timeout", "timeoutReap"}
    <3> DEFINE r == [call[c] EXCEPT !.pc = "handler", !.signals = n, !.exit = @]
    <3>1. /\ r \in CallRecord
          /\ r.pc = "handler" /\ r.exit = call[c].exit /\ r.signals = n
          /\ r.pending = call[c].pending /\ r.killed = call[c].killed /\ r.attempt = call[c].attempt
          /\ r.seen = call[c].seen /\ r.output = call[c].output
      BY <1>0, <2>5 DEF CallRecord, CallSteps, Exits
    <3>2. call' = [call EXCEPT ![c] = r]
      BY <1>14, <2>2 DEF Signal, SignalTaken, Alive, n
    <3>3. /\ call' \in [Calls -> CallRecord] /\ call'[c] = r
          /\ \A d \in Calls \ {c} : call'[d] = call[d]
      BY <1>0, <3>1, <3>2
    <3> HIDE DEF r
    <3>4. ContainedAt(call[c], codex[c]) => ContainedAt(r, codex[c])
      BY <1>0, <1>14, <2>2, <2>5, <3>1 DEF ContainedAt, Signal, Alive
    <3>5. call[c].pc # "none" /\ call[c].pc # "exited" /\ dir' = dir /\ codex' = codex
          /\ UNCHANGED <<driver, final, union, abandoned>>
      BY <1>14 DEF Signal, Alive
    <3>6. QED BY <1>0, <2>2, <3>1, <3>3, <3>4, <3>5 DEF Effect
  <2>3. CASE call[c].pc \notin {"masked", "communicate", "timeout", "timeoutReap"}
    <3> DEFINE r == [call[c] EXCEPT !.pc = "exited", !.signals = n, !.exit = "error"]
    <3>1. /\ r \in CallRecord
          /\ r.pc = "exited" /\ r.exit = "error" /\ r.signals = n
          /\ r.pending = call[c].pending /\ r.killed = call[c].killed /\ r.attempt = call[c].attempt
          /\ r.seen = call[c].seen /\ r.output = call[c].output
      BY <1>0, <2>5 DEF CallRecord, CallSteps, Exits
    <3>2. call' = [call EXCEPT ![c] = r]
      BY <1>14, <2>3 DEF Signal, SignalTaken, Alive, n
    <3>3. /\ call' \in [Calls -> CallRecord] /\ call'[c] = r
          /\ \A d \in Calls \ {c} : call'[d] = call[d]
      BY <1>0, <3>1, <3>2
    <3> HIDE DEF r
    <3>4. ContainedAt(call[c], codex[c]) => ContainedAt(r, codex[c])
      BY <1>0, <1>14, <2>3, <2>5, <3>1 DEF ContainedAt, Signal, Alive
    <3>5. call[c].pc # "none" /\ call[c].pc # "exited" /\ dir' = dir /\ codex' = codex
          /\ UNCHANGED <<driver, final, union, abandoned>>
      BY <1>14 DEF Signal, Alive
    <3>6. QED BY <1>0, <2>3, <3>1, <3>3, <3>4, <3>5 DEF Effect
  <2>6. QED BY <2>1, <2>2, <2>3
<1>15. CASE KillWrapper(c)
  <2> DEFINE r == [call[c] EXCEPT !.pc = "exited", !.exit = "error", !.killed = TRUE]
  <2>1. r \in CallRecord
    BY <1>0 DEF CallRecord, CallSteps, Exits
  <2>2. call' = [call EXCEPT ![c] = r]
    BY <1>15 DEF KillWrapper, Alive
  <2>3. call' \in [Calls -> CallRecord] /\ call'[c] = r
    BY <1>0, <2>1, <2>2
  <2>4. QED BY <1>0, <1>15, <2>2, <2>3 DEF KillWrapper, Alive, Effect, ContainedAt, CallRecord, CallSteps, Exits
<1>16. QED BY <1>1, <1>2, <1>3, <1>4, <1>5, <1>6, <1>7, <1>8, <1>9, <1>10, <1>11, <1>12, <1>13, <1>14, <1>15 DEF CallStep, Wrapper

\* The start of a call.
LEMMA StartEffect ==
  ASSUME TypeOK, StartCall
  PROVE  \E c \in Calls :
             /\ call[c].pc = "none" /\ (\A d \in Calls : d < c => call[d].pc # "none")
             /\ call' \in [Calls -> CallRecord]
             /\ \A d \in Calls \ {c} : call'[d] = call[d]
             /\ call'[c] = [NoCall EXCEPT !.pc = "describe", !.attempt = driver.attempt]
             /\ driver' = [driver EXCEPT !.pc = "wait", !.call = c]
             /\ driver.pc = "start"
             /\ UNCHANGED <<host, codex, dir, final, union, abandoned>>
<1>1. PICK c \in Calls \ Used :
          /\ 1..(c - 1) \subseteq Used
          /\ call' = [call EXCEPT ![c] = [NoCall EXCEPT !.pc = "describe",
                                                        !.attempt = driver.attempt]]
          /\ driver' = [driver EXCEPT !.pc = "wait", !.call = c]
  BY DEF StartCall
<1>2. [NoCall EXCEPT !.pc = "describe", !.attempt = driver.attempt] \in CallRecord
  <2>1. driver.attempt \in Attempts
    BY DEF TypeOK
  <2>2. NoCall \in CallRecord
    BY DEF NoCall, NoOutput, CallRecord, Output, CallSteps, Attempts, Exits
  <2>3. QED BY <2>1, <2>2 DEF CallRecord, CallSteps
<1>3. \A d \in Calls : d < c => call[d].pc # "none"
  <2>1. ASSUME NEW d \in Calls, d < c PROVE d \in 1..(c - 1)
    BY <2>1, ReducerAssumption DEF Calls
  <2>2. QED BY <1>1, <2>1 DEF Used
<1>4. call[c].pc = "none" /\ c \in Calls
  BY <1>1 DEF Used
<1>5. /\ call' \in [Calls -> CallRecord]
      /\ \A d \in Calls \ {c} : call'[d] = call[d]
      /\ call'[c] = [NoCall EXCEPT !.pc = "describe", !.attempt = driver.attempt]
  <2>1. call \in [Calls -> CallRecord]
    BY DEF TypeOK
  <2>2. QED BY <1>1, <1>2, <1>4, <2>1
<1>6. driver.pc = "start" /\ UNCHANGED <<host, codex, dir, final, union, abandoned>>
  BY DEF StartCall
<1>7. QED BY <1>1, <1>3, <1>4, <1>5, <1>6

\* What every call sees of a call's step.
LEMMA CallFrame ==
  ASSUME TypeOK, Coded, NEW c \in Calls, CallStep(c)
  PROVE  /\ \A d \in Calls :
                /\ call'[d].pc = "none" <=> call[d].pc = "none"
                /\ call[d].pc \in {"none", "exited"} => call'[d] = call[d]
                /\ call'[d].attempt = call[d].attempt
                /\ call'[d].pc = "exited" <=> call'[d].exit # "none"
                /\ ContainedAt(call[d], codex[d]) => ContainedAt(call'[d], codex'[d])
         /\ UNCHANGED <<driver, final, union, abandoned>>
<1>1. Effect(c)
  BY CallEffect
<1>2. UNCHANGED <<driver, final, union, abandoned>>
  BY <1>1 DEF Effect
<1>3. SUFFICES ASSUME NEW d \in Calls
               PROVE  /\ call'[d].pc = "none" <=> call[d].pc = "none"
                      /\ call[d].pc \in {"none", "exited"} => call'[d] = call[d]
                      /\ call'[d].attempt = call[d].attempt
                      /\ call'[d].pc = "exited" <=> call'[d].exit # "none"
                      /\ ContainedAt(call[d], codex[d]) => ContainedAt(call'[d], codex'[d])
  BY <1>2
<1>4. CASE d = c
  BY <1>1, <1>4 DEF Effect
<1>5. CASE d # c
  <2>1. call'[d] = call[d] /\ codex'[d] = codex[d]
    BY <1>1, <1>5 DEF Effect
  <2>2. call[d].pc = "exited" <=> call[d].exit # "none"
    BY DEF Coded
  <2>3. QED BY <2>1, <2>2
<1>6. QED BY <1>4, <1>5

\* The other steps of the dispatcher leave the calls alone.
LEMMA DriverFrame ==
  ASSUME TypeOK, DriverStep, ~StartCall
  PROVE  /\ call' = call /\ codex' = codex /\ abandoned \subseteq abandoned'
         /\ driver'.call = driver.call \/ driver'.call = 0
<1>1. driver \in [pc : DriverSteps, attempt : Attempts, call : 0..MaxCalls]
  BY DEF TypeOK
<1>2. call' = call /\ codex' = codex /\ abandoned \subseteq abandoned'
  BY DEF DriverStep, Unqualified, Judge, InstallDecisions, InstallTelemetry, WriteUnion,
         KillDriver, Resume, HostChanges
<1>3. driver'.call = driver.call \/ driver'.call = 0
  <2>1. CASE Unqualified \/ InstallDecisions \/ InstallTelemetry \/ WriteUnion
    BY <1>1, <2>1 DEF Unqualified, InstallDecisions, InstallTelemetry, WriteUnion, Drive
  <2>2. CASE Judge
    <3>1. \/ driver' = [driver EXCEPT !.pc = "unionCleanup"]
          \/ driver' = [driver EXCEPT !.pc = "install"]
          \/ driver' = [driver EXCEPT !.pc = "start", !.attempt = 2]
          \/ driver' = [driver EXCEPT !.pc = "unionFailed"]
      BY <2>2 DEF Judge, Drive
    <3>2. QED BY <1>1, <3>1
  <2>3. CASE KillDriver \/ Resume \/ HostChanges
    BY <1>1, <2>3 DEF KillDriver, Resume, HostChanges
  <2>4. QED BY <2>1, <2>2, <2>3 DEF DriverStep
<1>4. QED BY <1>2, <1>3

\* The call that a dispatcher starts, and those before it.
LEMMA StartFrame ==
  ASSUME TypeOK, StartCall
  PROVE  \E c \in Calls :
             /\ call[c].pc = "none" /\ (\A d \in Calls : d < c => call[d].pc # "none")
             /\ call'[c].pc = "describe" /\ call'[c].exit = "none"
             /\ call'[c].attempt = driver.attempt
             /\ \A d \in Calls \ {c} : call'[d] = call[d]
             /\ ContainedAt(call'[c], "none")
             /\ driver' = [driver EXCEPT !.pc = "wait", !.call = c]
             /\ driver'.pc = "wait" /\ driver'.call = c /\ driver'.attempt = driver.attempt
             /\ driver.pc = "start"
             /\ UNCHANGED <<host, codex, dir, final, union, abandoned>>
<1>1. PICK c \in Calls :
             /\ call[c].pc = "none" /\ (\A d \in Calls : d < c => call[d].pc # "none")
             /\ \A d \in Calls \ {c} : call'[d] = call[d]
             /\ call'[c] = [NoCall EXCEPT !.pc = "describe", !.attempt = driver.attempt]
             /\ driver' = [driver EXCEPT !.pc = "wait", !.call = c]
             /\ driver.pc = "start"
             /\ UNCHANGED <<host, codex, dir, final, union, abandoned>>
  BY StartEffect
<1> DEFINE r == call'[c]
<1>2. /\ r.pc = "describe" /\ r.attempt = driver.attempt /\ r.exit = "none" /\ r.signals = 0
      /\ r.pending = FALSE /\ r.killed = FALSE
  <2>1. r = [NoCall EXCEPT !.pc = "describe", !.attempt = driver.attempt]
    BY <1>1
  <2> HIDE DEF r
  <2>2. QED BY <2>1 DEF NoCall
<1> HIDE DEF r
<1>3. ContainedAt(r, "none")
  BY <1>2 DEF ContainedAt
<1>4. driver'.pc = "wait" /\ driver'.call = c /\ driver'.attempt = driver.attempt
  BY <1>1 DEF TypeOK
<1>5. ContainedAt(call'[c], "none") /\ call'[c].pc = "describe" /\ call'[c].exit = "none"
      /\ call'[c].attempt = driver.attempt
  BY <1>2, <1>3 DEF r
<1>6. QED BY <1>1, <1>4, <1>5

\* A step keeps the types.
LEMMA TypeStep == TypeOK /\ Coded /\ [Next]_vars => TypeOK'
<1> SUFFICES ASSUME TypeOK, Coded, [Next]_vars
             PROVE  TypeOK'
  OBVIOUS
<1> USE ReducerAssumption
<1>1. ASSUME NEW c \in Calls, CallStep(c) PROVE TypeOK'
  <2>1. /\ call' \in [Calls -> CallRecord] /\ UNCHANGED <<driver, final, union, abandoned>>
        /\ \/ dir' = dir
           \/ dir' = [dir EXCEPT ![call[c].attempt].decisions = c]
           \/ dir' = [dir EXCEPT ![call[c].attempt].telemetry = c]
    BY <1>1, CallEffect DEF Effect
  <2>2. call[c].attempt \in Attempts /\ c \in 0..MaxCalls
    BY DEF TypeOK, CallRecord, Calls
  <2>3. dir' \in [Attempts -> [decisions : 0..MaxCalls, telemetry : 0..MaxCalls]]
    <3> DEFINE N == 0..MaxCalls
    <3>1. dir \in [Attempts -> [decisions : N, telemetry : N]] /\ c \in N
      BY <2>2 DEF TypeOK
    <3> HIDE DEF N
    <3>2. dir' \in [Attempts -> [decisions : N, telemetry : N]]
      BY <2>1, <2>2, <3>1
    <3>3. QED BY <3>2 DEF N
  <2>4. host' = host /\ codex' \in [Calls -> {"none", "running", "dead"}]
    BY <1>1 DEF CallStep, Wrapper, TypeOK, Describe, Spawn, SpawnFails, Communicated, WallTimeout, Kill, KillRefused, Reaped, NotReaped, Parse, WriteDecisions, WriteTelemetry, Finish, Signal, KillWrapper
  <2>5. QED BY <2>1, <2>3, <2>4 DEF TypeOK
<1>2. ASSUME DriverStep PROVE TypeOK'
  <2>1. CASE StartCall
    <3>1. PICK c \in Calls :
              /\ call' \in [Calls -> CallRecord]
              /\ driver' = [driver EXCEPT !.pc = "wait", !.call = c]
              /\ UNCHANGED <<host, codex, dir, final, union, abandoned>>
      BY <2>1, StartEffect
    <3>2. c \in 0..MaxCalls
      BY DEF Calls
    <3>3. driver' \in [pc : DriverSteps, attempt : Attempts, call : 0..MaxCalls]
      BY <3>1, <3>2 DEF TypeOK, DriverSteps
    <3>4. QED BY <3>1, <3>3 DEF TypeOK
  <2>2. CASE Unqualified
    BY <2>2 DEF Unqualified, Drive, TypeOK, DriverSteps, Attempts
  <2>3. CASE Judge
    <3>1. driver' \in [pc : DriverSteps, attempt : Attempts, call : 0..MaxCalls]
      <4>1. /\ \/ driver' = [driver EXCEPT !.pc = "unionCleanup"]
               \/ driver' = [driver EXCEPT !.pc = "install"]
               \/ driver' = [driver EXCEPT !.pc = "start", !.attempt = 2]
               \/ driver' = [driver EXCEPT !.pc = "unionFailed"]
        BY <2>3 DEF Judge, Drive
      <4>2. driver \in [pc : DriverSteps, attempt : Attempts, call : 0..MaxCalls]
        BY DEF TypeOK
      <4> DEFINE N == 0..MaxCalls
      <4> HIDE DEF N
      <4>3. driver \in [pc : DriverSteps, attempt : Attempts, call : N]
        BY <4>2 DEF N
      <4>4. driver' \in [pc : DriverSteps, attempt : Attempts, call : N]
        <5>1. CASE driver' = [driver EXCEPT !.pc = "unionCleanup"]
          BY <4>3, <5>1 DEF DriverSteps
        <5>2. CASE driver' = [driver EXCEPT !.pc = "install"]
          BY <4>3, <5>2 DEF DriverSteps
        <5>3. CASE driver' = [driver EXCEPT !.pc = "start", !.attempt = 2]
          <6>1. 2 \in Attempts /\ "start" \in DriverSteps
            BY DEF Attempts, DriverSteps
          <6>2. QED BY <4>3, <5>3, <6>1
        <5>4. CASE driver' = [driver EXCEPT !.pc = "unionFailed"]
          BY <4>3, <5>4 DEF DriverSteps
        <5>5. QED BY <4>1, <5>1, <5>2, <5>3, <5>4
      <4>5. QED BY <4>4 DEF N
    <3>2. UNCHANGED <<host, call, codex, dir, final, union, abandoned>>
      BY <2>3 DEF Judge
    <3>3. QED BY <3>1, <3>2 DEF TypeOK
  <2>4. CASE InstallDecisions
    BY <2>4, SMTT(20) DEF InstallDecisions, Candidate, Drive, TypeOK, DriverSteps, Attempts
  <2>5. CASE InstallTelemetry
    BY <2>5, SMTT(20) DEF InstallTelemetry, Drive, TypeOK, DriverSteps, Attempts
  <2>6. CASE WriteUnion
    BY <2>6 DEF WriteUnion, Drive, TypeOK, DriverSteps, Attempts
  <2>7. CASE KillDriver
    <3>1. driver' \in [pc : DriverSteps, attempt : Attempts, call : 0..MaxCalls]
      BY <2>7 DEF KillDriver, TypeOK, DriverSteps
    <3>2. driver.call \in Calls \cup {0}
      BY DEF TypeOK, Calls
    <3>3. abandoned' \subseteq Calls
      BY <2>7, <3>2 DEF KillDriver, TypeOK
    <3>4. QED BY <2>7, <3>1, <3>3 DEF KillDriver, TypeOK
  <2>8. CASE Resume
    BY <2>8 DEF Resume, TypeOK, DriverSteps, Attempts
  <2>9. CASE HostChanges
    BY <2>9 DEF HostChanges, TypeOK, DriverSteps, Attempts
  <2>10. QED BY <1>2, <2>1, <2>2, <2>3, <2>4, <2>5, <2>6, <2>7, <2>8, <2>9 DEF DriverStep
<1>3. ASSUME UNCHANGED vars PROVE TypeOK'
  BY <1>3 DEF vars, TypeOK
<1>4. QED BY <1>1, <1>2, <1>3, StepKinds

\* A call has an exit code when it has ended.
LEMMA CodedStep == TypeOK /\ Coded /\ [Next]_vars => Coded'
<1> SUFFICES ASSUME TypeOK, Coded, [Next]_vars
             PROVE  Coded'
  OBVIOUS
<1>1. ASSUME NEW c \in Calls, CallStep(c) PROVE Coded'
  BY <1>1, CallFrame DEF Coded
<1>2. CASE StartCall
  <2>1. PICK c \in Calls : /\ call'[c].pc = "describe" /\ call'[c].exit = "none"
                           /\ \A d \in Calls \ {c} : call'[d] = call[d]
    BY <1>2, StartFrame
  <2>2. SUFFICES ASSUME NEW d \in Calls
                 PROVE  call'[d].pc = "exited" <=> call'[d].exit # "none"
    BY DEF Coded
  <2>3. call[d].pc = "exited" <=> call[d].exit # "none"
    BY DEF Coded
  <2>4. CASE d = c
    BY <2>1, <2>4
  <2>5. CASE d # c
    <3>1. call'[d] = call[d]
      BY <2>1, <2>5
    <3>2. QED BY <2>3, <3>1
  <2>6. QED BY <2>4, <2>5
<1>3. CASE call' = call
  BY <1>3 DEF Coded
<1>4. QED BY <1>1, <1>2, <1>3, StepKinds, DriverFrame DEF vars

\* Codex does not outlive its wrapper unnoticed.
LEMMA ContainedStep == TypeOK /\ Coded /\ Contained /\ [Next]_vars => Contained'
<1> SUFFICES ASSUME TypeOK, Coded, Contained, [Next]_vars
             PROVE  Contained'
  OBVIOUS
<1>1. ASSUME NEW c \in Calls, CallStep(c) PROVE Contained'
  BY <1>1, CallFrame DEF Contained
<1>2. CASE StartCall
  <2>1. PICK c \in Calls : /\ call[c].pc = "none" /\ call'[c].pc = "describe"
                           /\ \A d \in Calls \ {c} : call'[d] = call[d]
                           /\ ContainedAt(call'[c], "none") /\ codex' = codex
    BY <1>2, StartFrame
  <2>2. ContainedAt(call[c], codex[c]) /\ codex[c] \in {"none", "running", "dead"}
    BY DEF Contained, TypeOK
  <2>3. codex[c] # "running"
    BY <2>1, <2>2 DEF ContainedAt
  <2>4. ContainedAt(call'[c], codex'[c])
    BY <2>1, <2>3 DEF ContainedAt
  <2>5. \A d \in Calls \ {c} : ContainedAt(call'[d], codex'[d])
    BY <2>1 DEF Contained
  <2>6. QED BY <2>4, <2>5 DEF Contained
<1>3. CASE call' = call /\ codex' = codex
  BY <1>3 DEF Contained
<1>4. QED BY <1>1, <1>2, <1>3, StepKinds, DriverFrame DEF vars

\* Calls are made in their order.
LEMMA NumberedStep == TypeOK /\ Coded /\ Numbered /\ [Next]_vars => Numbered'
<1> SUFFICES ASSUME TypeOK, Coded, Numbered, [Next]_vars
             PROVE  Numbered'
  OBVIOUS
<1>0. driver.call # 0 => driver.call \in Calls
  BY DEF TypeOK, Calls
<1>1. ASSUME NEW c \in Calls, CallStep(c) PROVE Numbered'
  <2>1. driver' = driver /\ \A d \in Calls : call'[d].pc = "none" <=> call[d].pc = "none"
    BY <1>1, CallFrame
  <2>2. QED BY <2>1, <1>0 DEF Numbered
<1>2. CASE StartCall
  <2>1. PICK c \in Calls :
            /\ call[c].pc = "none" /\ (\A d \in Calls : d < c => call[d].pc # "none")
            /\ call'[c].pc = "describe" /\ driver'.call = c
            /\ \A d \in Calls \ {c} : call'[d] = call[d]
    BY <1>2, StartFrame
  <2>2. \A d \in Calls : call'[d].pc # "none" <=> (d = c \/ call[d].pc # "none")
    BY <2>1
  <2>3. \A d \in Calls : call[d].pc # "none" => d < c
    <3>1. SUFFICES ASSUME NEW d \in Calls, call[d].pc # "none", ~(d < c)
                   PROVE  FALSE
      OBVIOUS
    <3>2. d = c \/ c < d
      BY <3>1, ReducerAssumption DEF Calls
    <3>3. QED BY <2>1, <3>1, <3>2 DEF Numbered
  <2>4. ASSUME NEW d \in Calls, NEW e \in Calls, e < d, call'[d].pc # "none"
        PROVE  call'[e].pc # "none"
    BY <2>1, <2>2, <2>4 DEF Numbered
  <2>5. \A d \in Calls : call'[d].pc # "none" => d <= c
    BY <2>2, <2>3, ReducerAssumption DEF Calls
  <2>6. QED BY <2>1, <2>2, <2>4, <2>5 DEF Numbered
<1>3. CASE call' = call /\ (driver'.call = driver.call \/ driver'.call = 0)
  BY <1>3 DEF Numbered
<1>4. QED BY <1>1, <1>2, <1>3, StepKinds, DriverFrame DEF vars

\* The dispatcher settles a call before it makes another.
LEMMA SettlementStep ==
  TypeOK /\ Coded /\ Numbered /\ Judged /\ Settlement /\ [Next]_vars => Settlement'
<1> SUFFICES ASSUME TypeOK, Coded, Numbered, Judged, Settlement, [Next]_vars
             PROVE  Settlement'
  OBVIOUS
<1>0. driver.call # 0 => driver.call \in Calls
  BY DEF TypeOK, Calls
<1>1. ASSUME NEW c \in Calls, CallStep(c) PROVE Settlement'
  <2>1. driver' = driver /\ abandoned' = abandoned
    BY <1>1, CallFrame
  <2>2. ASSUME NEW d \in Calls PROVE /\ call'[d].pc = "none" <=> call[d].pc = "none"
                                     /\ Settled(d) => Settled(d)'
    <3>1. /\ call'[d].pc = "none" <=> call[d].pc = "none"
          /\ call[d].pc = "exited" => call'[d] = call[d]
      BY <1>1, CallFrame
    <3>2. QED BY <2>1, <3>1 DEF Settled
  <2>3. QED BY <1>0, <2>1, <2>2 DEF Settlement
<1>2. CASE StartCall
  <2>1. PICK c \in Calls :
            /\ call[c].pc = "none" /\ call'[c].pc = "describe"
            /\ driver'.call = c /\ driver'.pc = "wait" /\ driver.pc = "start"
            /\ \A d \in Calls \ {c} : call'[d] = call[d]
            /\ abandoned' = abandoned
    BY <1>2, StartFrame
  <2>2. ASSUME NEW d \in Calls, d # c, call'[d].pc # "none" PROVE Settled(d)'
    <3>1. call'[d] = call[d]
      BY <2>1, <2>2
    <3>2. Settled(d)
      <4>1. CASE d = driver.call
        <5>1. driver.call # 0
          BY <4>1, ReducerAssumption DEF Calls
        <5>2. Settled(driver.call)
          BY <2>1, <5>1 DEF Settlement
        <5>3. QED BY <4>1, <5>2
      <4>2. CASE d # driver.call
        BY <2>2, <3>1, <4>2 DEF Settlement
      <4>3. QED BY <4>1, <4>2
    <3>3. QED BY <2>1, <3>1, <3>2 DEF Settled
  <2>3. QED BY <2>1, <2>2 DEF Settlement
<1>3. ASSUME DriverStep, ~StartCall PROVE Settlement'
  <2>1. call' = call /\ abandoned \subseteq abandoned'
    BY <1>3, DriverFrame
  <2>2. \A d \in Calls : Settled(d) => Settled(d)'
    BY <2>1 DEF Settled
  <2>3. CASE Judge
    <3>1. driver.pc = "wait" /\ driver.call # 0 /\ driver.call \in Calls
      BY <2>3, <1>0 DEF Judge, Judged
    <3>2. driver'.call = driver.call /\ driver'.pc # "idle"
      BY <2>3, <3>1 DEF Judge, Drive, TypeOK
    <3>3. driver'.pc = "start" => Settled(driver.call)
      BY <2>3, <3>1 DEF Judge, Drive, TypeOK, Settled, CleanupFailed
    <3>4. QED BY <2>1, <2>2, <3>1, <3>2, <3>3 DEF Settlement
  <2>4. CASE KillDriver
    <3>1. driver'.call = driver.call /\ driver'.pc = "idle"
          /\ (driver.call # 0 => driver.call \in abandoned')
      BY <2>4 DEF KillDriver, TypeOK
    <3>2. QED BY <2>1, <2>2, <3>1 DEF Settlement
  <2>5. CASE Resume
    <3>1. driver.pc = "idle" /\ driver'.call = 0 /\ driver'.pc = "start"
      BY <2>5 DEF Resume
    <3>2. driver.call # 0 => Settled(driver.call)
      BY <3>1 DEF Settlement, Settled
    <3>3. ASSUME NEW d \in Calls, call[d].pc # "none" PROVE Settled(d)
      <4>1. CASE d = driver.call
        <5>1. driver.call # 0
          BY <4>1, ReducerAssumption DEF Calls
        <5>2. QED BY <3>2, <4>1, <5>1
      <4>2. CASE d # driver.call
        BY <3>3, <4>2 DEF Settlement
      <4>3. QED BY <4>1, <4>2
    <3>4. QED BY <2>1, <2>2, <3>1, <3>3 DEF Settlement
  <2>6. CASE HostChanges
    <3>1. driver' = driver /\ abandoned' = abandoned
      BY <2>6 DEF HostChanges
    <3>2. QED BY <2>1, <3>1 DEF Settlement, Settled
  <2>7. CASE Unqualified \/ InstallDecisions \/ InstallTelemetry \/ WriteUnion
    <3>1. driver'.call = driver.call /\ driver'.pc \notin {"start", "idle"}
      BY <2>7 DEF Unqualified, InstallDecisions, InstallTelemetry, WriteUnion, Drive, TypeOK
    <3>2. QED BY <2>1, <2>2, <3>1 DEF Settlement
  <2>8. QED BY <1>3, <2>3, <2>4, <2>5, <2>6, <2>7 DEF DriverStep
<1>4. CASE UNCHANGED vars
  BY <1>4 DEF vars, Settlement, Settled
<1>5. QED BY <1>1, <1>2, <1>3, <1>4, StepKinds

\* The verdict on an ended call.
LEMMA JudgeKinds ==
  ASSUME TypeOK, Coded, Judged, Judge
  PROVE  /\ driver.pc = "wait" /\ driver.call # 0 /\ call[driver.call].pc = "exited"
         /\ driver'.call = driver.call
         /\ UNCHANGED <<host, call, codex, dir, final, union, abandoned>>
         /\ \/ /\ driver'.pc = "unionCleanup" /\ driver'.attempt = driver.attempt
               /\ call[driver.call].exit = "cleanup"
            \/ /\ driver'.pc = "install" /\ driver'.attempt = driver.attempt
               /\ Failed(driver.call) /\ Acceptable
            \/ /\ driver'.pc = "start" /\ driver.attempt = 1 /\ driver'.attempt = 2
               /\ Failed(driver.call)
            \/ /\ driver'.pc = "unionFailed" /\ driver.attempt = 2 /\ driver'.attempt = 2
               /\ Failed(driver.call)
<1>1. /\ driver.pc = "wait" /\ call[driver.call].pc = "exited"
      /\ UNCHANGED <<host, call, codex, dir, final, union, abandoned>>
  BY DEF Judge
<1>2. driver.call # 0
  BY <1>1 DEF Judged
<1>3. driver \in [pc : DriverSteps, attempt : Attempts, call : 0..MaxCalls]
  BY DEF TypeOK
<1>4. driver.call \in Calls /\ driver.attempt \in {1, 2}
  BY <1>2, <1>3, ReducerAssumption DEF Calls, Attempts
<1>5. call[driver.call].exit # "none" /\ call[driver.call].exit \in Exits
  BY <1>1, <1>4 DEF Coded, TypeOK, CallRecord
<1>6. CASE CleanupFailed
  <2>1. driver' = [driver EXCEPT !.pc = "unionCleanup"]
    BY <1>6 DEF Judge, Drive
  <2>2. QED BY <1>1, <1>2, <1>3, <1>6, <2>1 DEF CleanupFailed
<1>7. CASE ~CleanupFailed
  <2>1. Failed(driver.call)
    BY <1>1, <1>5, <1>7 DEF CleanupFailed, Failed, Exits
  <2>2. CASE Acceptable
    <3>1. driver' = [driver EXCEPT !.pc = "install"]
      BY <1>7, <2>2 DEF Judge, Drive
    <3>2. QED BY <1>1, <1>2, <1>3, <2>1, <2>2, <3>1
  <2>3. CASE ~Acceptable /\ driver.attempt = 1
    <3>1. driver' = [driver EXCEPT !.pc = "start", !.attempt = 2]
      BY <1>7, <2>3 DEF Judge
    <3>2. QED BY <1>1, <1>2, <1>3, <2>1, <2>3, <3>1
  <2>4. CASE ~Acceptable /\ driver.attempt = 2
    <3>1. driver' = [driver EXCEPT !.pc = "unionFailed"]
      BY <1>7, <2>4 DEF Judge, Drive
    <3>2. QED BY <1>1, <1>2, <1>3, <2>1, <2>4, <3>1
  <2>5. QED BY <1>4, <2>2, <2>3, <2>4
<1>8. QED BY <1>6, <1>7

\* The dispatcher starts the call after its last one.
LEMMA NextCall ==
  ASSUME TypeOK, Numbered, NEW c \in Calls, call[c].pc = "none", driver.call # 0,
         \A d \in Calls : d < c => call[d].pc # "none"
  PROVE  c > 1 /\ c - 1 = driver.call
<1> DEFINE n == driver.call
<1>1. n \in Calls
  BY DEF TypeOK, Calls
<1>2. call[n].pc # "none" /\ \A d \in Calls : call[d].pc # "none" => d <= n
  BY DEF Numbered
<1>3. \A d \in Calls : d < n => call[d].pc # "none"
  BY <1>1, <1>2 DEF Numbered
<1> HIDE DEF n
<1>4. n < c
  <2>1. ~(c < n) /\ c # n
    BY <1>2, <1>3
  <2>2. QED BY <1>1, <2>1, ReducerAssumption DEF Calls
<1>5. c - 1 \in Calls /\ c - 1 < c /\ c > 1
  BY <1>1, <1>4, ReducerAssumption DEF Calls
<1>6. c - 1 <= n
  BY <1>2, <1>5
<1>7. c - 1 = n
  BY <1>1, <1>4, <1>6, ReducerAssumption DEF Calls
<1>8. QED BY <1>5, <1>7 DEF n

\* What is known of the calls a dispatcher has judged stays true.
LEMMA FailedFrame ==
  ASSUME TypeOK, Coded, NEW c \in Calls, CallStep(c), NEW d \in Calls
  PROVE  Failed(d) => Failed(d)'
  BY CallFrame DEF Failed

\* The dispatcher knows what it must of its calls.
LEMMA JudgedStep == TypeOK /\ Coded /\ Numbered /\ Judged /\ [Next]_vars => Judged'
<1> SUFFICES ASSUME TypeOK, Coded, Numbered, Judged, [Next]_vars
             PROVE  Judged'
  OBVIOUS
<1>0. /\ driver \in [pc : DriverSteps, attempt : Attempts, call : 0..MaxCalls]
      /\ driver.call # 0 => driver.call \in Calls
      /\ driver.call > 1 => driver.call - 1 \in Calls
  BY ReducerAssumption DEF TypeOK, Calls
<1>1. ASSUME NEW c \in Calls, CallStep(c) PROVE Judged'
  <2>1. driver' = driver /\ final' = final
    BY <1>1, CallFrame
  <2>2. \A d \in Calls : call[d].pc = "exited" => call'[d] = call[d]
    BY <1>1, CallFrame
  <2>3. driver.call # 0 /\ Failed(driver.call) => Failed(driver.call)'
    BY <1>0, <2>1, <2>2 DEF Failed
  <2>4. driver.call > 1 /\ Failed(driver.call - 1) => Failed(driver.call - 1)'
    BY <1>0, <2>1, <2>2 DEF Failed
  <2>5. driver.pc = "unionCleanup" =>
            call'[driver.call].pc = "exited" /\ call'[driver.call].exit = "cleanup"
    BY <1>0, <2>2 DEF Judged
  <2>6. driver.pc = "unionFailed" => driver.call # 0
    BY DEF Judged
  <2>7. QED BY <2>1, <2>3, <2>4, <2>5, <2>6 DEF Judged
<1>2. CASE StartCall
  <2>1. PICK c \in Calls :
            /\ call[c].pc = "none" /\ (\A d \in Calls : d < c => call[d].pc # "none")
            /\ driver'.pc = "wait" /\ driver'.call = c /\ driver'.attempt = driver.attempt
            /\ \A d \in Calls \ {c} : call'[d] = call[d]
            /\ driver.pc = "start" /\ final' = final
    BY <1>2, StartFrame
  <2>2. driver'.call # 0 /\ final'.decisions = 0
    BY <2>1, ReducerAssumption DEF Judged, Calls
  <2>3. ASSUME driver.attempt = 2 PROVE c > 1 /\ Failed(c - 1)'
    <3>1. driver.call # 0 /\ Failed(driver.call)
      BY <2>1, <2>3 DEF Judged
    <3>2. c > 1 /\ c - 1 = driver.call
      BY <2>1, <3>1, NextCall
    <3>3. c - 1 \in Calls \ {c}
      BY <3>2, ReducerAssumption DEF Calls
    <3>4. call'[c - 1] = call[c - 1]
      BY <2>1, <3>3
    <3>5. QED BY <3>1, <3>2, <3>4 DEF Failed
  <2>4. QED BY <2>1, <2>2, <2>3 DEF Judged
<1>3. CASE Judge
  <2>1. final'.decisions = 0 /\ call' = call
    BY <1>3, JudgeKinds DEF Judged
  <2>2. \A c : Failed(c) => Failed(c)'
    BY <2>1 DEF Failed
  <2>3. driver.attempt = 2 => driver.call > 1 /\ Failed(driver.call - 1)
    BY <1>3, JudgeKinds DEF Judged
  <2>4. CASE driver'.pc = "unionFailed"
    BY <1>3, <2>1, <2>2, <2>3, <2>4, JudgeKinds DEF Judged
  <2>5. CASE driver'.pc # "unionFailed"
    BY <1>3, <2>1, <2>2, <2>5, JudgeKinds DEF Judged
  <2>6. QED BY <2>4, <2>5
<1>4. CASE Unqualified \/ InstallDecisions \/ InstallTelemetry \/ WriteUnion
  <2>1. driver'.call = driver.call /\ driver'.attempt = driver.attempt
        /\ driver'.pc \in {"unionUnqualified", "telemetry", "done"}
    BY <1>0, <1>4 DEF Unqualified, InstallDecisions, InstallTelemetry, WriteUnion, Drive
  <2>2. driver'.pc = "telemetry" => driver.call # 0
    BY <1>0, <1>4 DEF Unqualified, InstallDecisions, InstallTelemetry, WriteUnion, Drive, Judged
  <2>3. driver'.pc = "unionUnqualified" => final'.decisions = 0
    BY <1>0, <1>4 DEF Unqualified, InstallDecisions, InstallTelemetry, WriteUnion, Drive, Judged
  <2>4. QED BY <2>1, <2>2, <2>3 DEF Judged
<1>5. CASE KillDriver
  <2>1. driver'.pc = "idle"
    BY <1>0, <1>5 DEF KillDriver
  <2>2. QED BY <2>1 DEF Judged
<1>6. CASE Resume
  <2>1. driver'.pc = "start" /\ driver'.attempt = 1 /\ final'.decisions = 0
    BY <1>6 DEF Resume
  <2>2. QED BY <2>1 DEF Judged
<1>7. CASE UNCHANGED <<driver, call, final>>
  BY <1>7 DEF Judged, Failed
<1>8. QED BY <1>1, <1>2, <1>3, <1>4, <1>5, <1>6, <1>7, StepKinds
          DEF vars, DriverStep, HostChanges

\* The reason is the one that was judged.
LEMMA ReasonedStep == TypeOK /\ Coded /\ Judged /\ Reasoned /\ [Next]_vars => Reasoned'
<1> SUFFICES ASSUME TypeOK, Coded, Judged, Reasoned, [Next]_vars
             PROVE  Reasoned'
  OBVIOUS
<1>0. /\ driver \in [pc : DriverSteps, attempt : Attempts, call : 0..MaxCalls]
      /\ driver.call # 0 => driver.call \in Calls
      /\ driver.call > 1 => driver.call - 1 \in Calls /\ driver.call # 0
  BY ReducerAssumption DEF TypeOK, Calls
<1>1. ASSUME NEW c \in Calls, CallStep(c) PROVE Reasoned'
  <2>1. driver' = driver /\ final' = final /\ union' = union
    BY <1>1, CallFrame
  <2>2. \A d \in Calls : call[d].pc = "exited" => call'[d] = call[d]
    BY <1>1, CallFrame
  <2>3. driver.call > 1 /\ Failed(driver.call) => Failed(driver.call)'
    BY <1>0, <2>1, <2>2 DEF Failed
  <2>4. driver.call > 1 /\ Failed(driver.call - 1) => Failed(driver.call - 1)'
    BY <1>0, <2>1, <2>2 DEF Failed
  <2>5. union = "runner-cleanup-failed" =>
            call'[driver.call].pc = "exited" /\ call'[driver.call].exit = "cleanup"
    BY <1>0, <2>2 DEF Reasoned
  <2>6. QED BY <2>1, <2>3, <2>4, <2>5 DEF Reasoned
<1>2. CASE driver.pc # "done" /\ union' = union
  BY <1>2 DEF Reasoned
<1>3. CASE WriteUnion
  <2>1. /\ driver'.pc = "done" /\ driver'.call = driver.call
        /\ call' = call /\ final' = final /\ union' = Reason[driver.pc]
        /\ driver.pc \in {"unionCleanup", "unionFailed", "unionUnqualified"}
    BY <1>0, <1>3 DEF WriteUnion, Drive, Reason
  <2>2. /\ driver.pc = "unionCleanup" => union' = "runner-cleanup-failed"
        /\ driver.pc = "unionFailed" => union' = "reducer-failed-twice"
        /\ driver.pc = "unionUnqualified" => union' = "no-qualified-runner"
    BY <2>1 DEF Reason
  <2>3. final.decisions = 0
    BY <2>1 DEF Judged
  <2>4. \A c : Failed(c) => Failed(c)'
    BY <2>1 DEF Failed
  <2>5. CASE driver.pc = "unionCleanup"
    BY <2>1, <2>2, <2>3, <2>5 DEF Reasoned, Judged
  <2>6. CASE driver.pc = "unionFailed"
    BY <2>1, <2>2, <2>3, <2>4, <2>6 DEF Reasoned, Judged
  <2>7. CASE driver.pc = "unionUnqualified"
    BY <2>1, <2>2, <2>3, <2>7 DEF Reasoned
  <2>8. QED BY <2>1, <2>5, <2>6, <2>7
<1>4. CASE Resume
  <2>1. union' = "none"
    BY <1>4 DEF Resume
  <2>2. QED BY <2>1 DEF Reasoned
<1>5. CASE UNCHANGED <<driver, call, final, union>>
  BY <1>5 DEF Reasoned, Failed
<1>6. CASE Unqualified \/ StartCall \/ Judge \/ InstallDecisions \/ InstallTelemetry \/ KillDriver
  <2>1. driver.pc # "done" /\ union' = union
    BY <1>6 DEF Unqualified, StartCall, Judge, InstallDecisions, InstallTelemetry, KillDriver
  <2>2. QED BY <1>2, <2>1
<1>7. QED BY <1>1, <1>3, <1>4, <1>5, <1>6, StepKinds DEF vars, DriverStep, HostChanges

\* Decisions that were reviewed stay so.
LEMMA ReviewedFrame ==
  ASSUME TypeOK, Coded, NEW c \in Calls, CallStep(c), NEW d \in Calls, Reviewed(d)
  PROVE  Reviewed(d)'
<1>1. Effect(c)
  BY CallEffect
<1>2. CASE d # c
  <2>1. call'[d] = call[d]
    BY <1>1, <1>2 DEF Effect
  <2>2. QED BY <2>1 DEF Reviewed
<1>3. CASE d = c
  <2>1. /\ call[c].pc \in {"telemetry", "exited"}
        /\ call[c].seen = Probed /\ WellFormed(call[c].output.stream)
    BY <1>3 DEF Reviewed
  <2>2. CASE call[c].pc = "exited"
    <3>1. call'[c] = call[c]
      BY <1>1, <2>2 DEF Effect
    <3>2. QED BY <1>3, <3>1, <2>1 DEF Reviewed
  <2>3. CASE call[c].pc = "telemetry"
    <3>1. /\ call'[c].output = call[c].output /\ call'[c].seen = call[c].seen
          /\ call'[c].pc \in {"telemetry", "exited"}
      BY <1>1, <2>3 DEF Effect
    <3>2. QED BY <1>3, <2>1, <3>1 DEF Reviewed
  <2>4. QED BY <2>1, <2>2, <2>3
<1>4. QED BY <1>2, <1>3

\* Decisions come from proper streams.
LEMMA SoundStep == TypeOK /\ Coded /\ Sound /\ [Next]_vars => Sound'
<1> SUFFICES ASSUME TypeOK, Coded, Sound, [Next]_vars
             PROVE  Sound'
  OBVIOUS
<1>0. /\ \A a \in Attempts : dir[a].decisions # 0 => dir[a].decisions \in Calls
      /\ final.decisions # 0 => final.decisions \in Calls
      /\ dir \in [Attempts -> [decisions : 0..MaxCalls, telemetry : 0..MaxCalls]]
      /\ final \in [decisions : 0..MaxCalls, telemetry : 0..MaxCalls]
      /\ driver.attempt \in Attempts
  BY ReducerAssumption DEF TypeOK, Calls
<1>1. ASSUME NEW c \in Calls, CallStep(c) PROVE Sound'
  <2>1. Effect(c)
    BY <1>1, CallEffect
  <2>2. \A d \in Calls : Reviewed(d) => Reviewed(d)'
    BY <1>1, ReviewedFrame
  <2>3. ASSUME NEW d \in Calls
        PROVE  /\ call'[d].pc \notin {"none", "describe", "exited"} => call'[d].seen = Probed
               /\ call'[d].pc \in {"decisions", "telemetry"} =>
                      WellFormed(call'[d].output.stream)
    <3>1. CASE d # c
      <4>1. call'[d] = call[d]
        BY <2>1, <3>1 DEF Effect
      <4>2. QED BY <4>1 DEF Sound
    <3>2. CASE d = c
      <4>1. call'[c].pc \notin {"none", "describe", "exited"} => call'[c].seen = Probed
        <5>1. call'[c].pc \notin {"none", "describe", "exited"} =>
                  \/ call'[c].seen = Probed
                  \/ /\ call[c].pc \notin {"none", "describe", "exited"}
                     /\ call'[c].seen = call[c].seen
          BY <2>1 DEF Effect
        <5>2. QED BY <5>1 DEF Sound
      <4>2. call'[c].pc \in {"decisions", "telemetry"} => WellFormed(call'[c].output.stream)
        <5>1. call'[c].pc \in {"decisions", "telemetry"} =>
                  \/ WellFormed(call'[c].output.stream)
                  \/ /\ call[c].pc \in {"decisions", "telemetry"}
                     /\ call'[c].output = call[c].output
          BY <2>1 DEF Effect
        <5>2. QED BY <5>1 DEF Sound
      <4>3. QED BY <3>2, <4>1, <4>2
    <3>3. QED BY <3>1, <3>2
  <2>4. ASSUME NEW a \in Attempts, dir'[a].decisions # 0 PROVE Reviewed(dir[a].decisions)'
    <3>1. CASE dir'[a].decisions = dir[a].decisions
      <4>1. dir[a].decisions \in Calls /\ Reviewed(dir[a].decisions)
        BY <1>0, <2>4, <3>1 DEF Sound
      <4>2. ASSUME NEW d \in Calls, d = dir[a].decisions, Reviewed(d)
            PROVE  Reviewed(dir[a].decisions)'
        BY <2>2, <3>1, <4>2 DEF Reviewed
      <4>3. QED BY <4>1, <4>2
    <3>2. CASE dir'[a].decisions # dir[a].decisions
      <4>1. /\ call[c].pc = "decisions" /\ call'[c].pc = "telemetry"
            /\ dir' = [dir EXCEPT ![call[c].attempt].decisions = c]
        BY <1>0, <2>1, <3>2 DEF Effect
      <4>2. dir'[a].decisions = c
        BY <1>0, <3>2, <4>1
      <4>3. call'[c].seen = Probed /\ WellFormed(call'[c].output.stream)
        BY <2>3, <4>1
      <4>4. QED BY <4>1, <4>2, <4>3 DEF Reviewed
    <3>3. QED BY <3>1, <3>2
  <2>5. final' = final
    BY <2>1 DEF Effect
  <2>6. final'.decisions # 0 => Reviewed(final.decisions)'
    <3>1. SUFFICES ASSUME final.decisions # 0
                   PROVE  Reviewed(final.decisions)'
      BY <2>5
    <3>2. ASSUME NEW d \in Calls, d = final.decisions, Reviewed(d)
          PROVE  Reviewed(final.decisions)'
      BY <2>2, <2>5, <3>2 DEF Reviewed
    <3>3. QED BY <1>0, <3>1, <3>2 DEF Sound
  <2>7. QED BY <2>3, <2>4, <2>6 DEF Sound
<1>2. CASE StartCall
  <2>1. PICK c \in Calls :
            /\ call[c].pc = "none" /\ call'[c].pc = "describe"
            /\ \A d \in Calls \ {c} : call'[d] = call[d]
            /\ dir' = dir /\ final' = final
    BY <1>2, StartFrame
  <2>2. ASSUME NEW d \in Calls
        PROVE  /\ call'[d].pc \notin {"none", "describe", "exited"} => call'[d].seen = Probed
               /\ call'[d].pc \in {"decisions", "telemetry"} =>
                      WellFormed(call'[d].output.stream)
    <3>1. CASE d = c
      BY <2>1, <3>1
    <3>2. CASE d # c
      <4>1. call'[d] = call[d]
        BY <2>1, <3>2
      <4>2. QED BY <4>1 DEF Sound
    <3>3. QED BY <3>1, <3>2
  <2>3. ASSUME NEW d \in Calls, Reviewed(d)
        PROVE  /\ call'[d].pc \in {"telemetry", "exited"}
               /\ call'[d].seen = Probed /\ WellFormed(call'[d].output.stream)
    <3>1. call'[d] = call[d]
      BY <2>1, <2>3 DEF Reviewed
    <3>2. QED BY <2>3, <3>1 DEF Reviewed
  <2>4. ASSUME NEW a \in Attempts, dir[a].decisions # 0 PROVE Reviewed(dir[a].decisions)'
    BY <1>0, <2>1, <2>3, <2>4 DEF Sound, Reviewed
  <2>5. final.decisions # 0 => Reviewed(final.decisions)'
    BY <1>0, <2>1, <2>3 DEF Sound, Reviewed
  <2>6. QED BY <2>1, <2>2, <2>4, <2>5 DEF Sound
<1>3. CASE InstallDecisions
  <2>1. /\ call' = call /\ final'.decisions = dir[driver.attempt].decisions
        /\ \A a \in Attempts : dir'[a].decisions \in {0, dir[a].decisions}
    BY <1>0, <1>3 DEF InstallDecisions, Candidate
  <2>2. QED BY <1>0, <2>1 DEF Sound, Reviewed
<1>4. CASE InstallTelemetry
  <2>1. /\ call' = call /\ final'.decisions = final.decisions
        /\ \A a \in Attempts : dir'[a].decisions = dir[a].decisions
    BY <1>0, <1>4 DEF InstallTelemetry
  <2>2. QED BY <2>1 DEF Sound, Reviewed
<1>5. CASE call' = call /\ dir' = dir /\ final' = final
  BY <1>5 DEF Sound, Reviewed
<1>6. CASE Unqualified \/ Judge \/ WriteUnion \/ KillDriver \/ Resume \/ HostChanges
  <2>1. call' = call /\ dir' = dir /\ final' = final
    BY <1>6 DEF Unqualified, Judge, WriteUnion, KillDriver, Resume, HostChanges
  <2>2. QED BY <1>5, <2>1
<1>7. QED BY <1>1, <1>2, <1>3, <1>4, <1>5, <1>6, StepKinds DEF vars, DriverStep

\* The directories of the attempts are not mixed.
LEMMA DedicatedStep ==
  TypeOK /\ Coded /\ Settlement /\ Numbered /\ Judged /\ Sound /\ Dedicated /\ [Next]_vars
      => Dedicated'
<1> SUFFICES ASSUME TypeOK, Coded, Settlement, Numbered, Judged, Sound, Dedicated, [Next]_vars
             PROVE  Dedicated'
  OBVIOUS
<1>0. /\ driver \in [pc : DriverSteps, attempt : Attempts, call : 0..MaxCalls]
      /\ driver.call # 0 => driver.call \in Calls
      /\ \A a \in Attempts : /\ dir[a].decisions # 0 => dir[a].decisions \in Calls
                             /\ dir[a].telemetry # 0 => dir[a].telemetry \in Calls
      /\ dir \in [Attempts -> [decisions : 0..MaxCalls, telemetry : 0..MaxCalls]]
      /\ driver.attempt \in Attempts
  BY ReducerAssumption DEF TypeOK, Calls
<1>1. ASSUME NEW c \in Calls, CallStep(c) PROVE Dedicated'
  <2>1. Effect(c)
    BY <1>1, CallEffect
  <2>2. /\ driver' = driver /\ abandoned' = abandoned
        /\ \A d \in Calls : /\ call'[d].pc = "none" <=> call[d].pc = "none"
                            /\ call[d].pc = "exited" => call'[d] = call[d]
                            /\ call'[d].attempt = call[d].attempt
    BY <1>1, CallFrame
  <2>3. ASSUME NEW a \in Attempts
        PROVE  /\ dir'[a].decisions # 0 => call'[dir'[a].decisions].attempt = a
               /\ dir'[a].telemetry # 0 => /\ call'[dir'[a].telemetry].pc = "exited"
                                           /\ call'[dir'[a].telemetry].attempt = a
    <3>1. \/ dir'[a] = dir[a]
          \/ /\ dir'[a].telemetry = dir[a].telemetry /\ dir'[a].decisions = c
             /\ call[c].attempt = a
          \/ /\ dir'[a].decisions = dir[a].decisions /\ dir'[a].telemetry = c
             /\ call[c].attempt = a /\ call'[c].pc = "exited"
      <4>1. CASE dir' = dir
        BY <4>1
      <4>2. CASE dir' = [dir EXCEPT ![call[c].attempt].decisions = c]
        BY <1>0, <4>2
      <4>3. CASE /\ dir' = [dir EXCEPT ![call[c].attempt].telemetry = c]
                 /\ call'[c].pc = "exited"
        BY <1>0, <4>3
      <4>4. QED BY <2>1, <4>1, <4>2, <4>3 DEF Effect
    <3>2. dir[a].decisions # 0 => call'[dir[a].decisions].attempt = a
      BY <1>0, <2>2 DEF Dedicated
    <3>3. dir[a].telemetry # 0 => /\ call'[dir[a].telemetry].pc = "exited"
                                  /\ call'[dir[a].telemetry].attempt = a
      BY <1>0, <2>2 DEF Dedicated
    <3>4. call'[c].attempt = call[c].attempt
      BY <2>2
    <3>5. QED BY <3>1, <3>2, <3>3, <3>4
  <2>4. QED BY <2>2, <2>3 DEF Dedicated
<1>2. CASE StartCall
  <2>1. PICK c \in Calls :
            /\ call[c].pc = "none" /\ (\A d \in Calls : d < c => call[d].pc # "none")
            /\ call'[c].pc = "describe" /\ call'[c].attempt = driver.attempt
            /\ \A d \in Calls \ {c} : call'[d] = call[d]
            /\ driver'.pc = "wait" /\ driver'.call = c /\ driver'.attempt = driver.attempt
            /\ driver.pc = "start" /\ dir' = dir /\ abandoned' = abandoned
    BY <1>2, StartFrame
  <2>2. ASSUME NEW d \in Calls, call[d].pc # "none" PROVE call'[d] = call[d]
    BY <2>1, <2>2
  <2>3. ASSUME NEW a \in Attempts
        PROVE  /\ dir[a].decisions # 0 => call'[dir[a].decisions].attempt = a
               /\ dir[a].telemetry # 0 => /\ call'[dir[a].telemetry].pc = "exited"
                                          /\ call'[dir[a].telemetry].attempt = a
    <3>1. dir[a].decisions # 0 => call[dir[a].decisions].pc # "none"
      BY DEF Sound, Reviewed
    <3>2. dir[a].telemetry # 0 => call[dir[a].telemetry].pc = "exited"
      BY DEF Dedicated
    <3>3. QED BY <1>0, <2>2, <3>1, <3>2 DEF Dedicated
  <2>4. ASSUME abandoned = {} PROVE driver.attempt = c
    <3>1. CASE driver.call = 0
      <4>1. driver.attempt = 1 /\ \A d \in Calls : call[d].pc = "none"
        BY <2>4, <3>1 DEF Dedicated
      <4>2. ~(1 < c)
        <5>1. 1 \in Calls
          BY ReducerAssumption DEF Calls
        <5>2. QED BY <2>1, <4>1, <5>1
      <4>3. QED BY <4>1, <4>2, ReducerAssumption DEF Calls
    <3>2. CASE driver.call # 0
      <4>1. driver.attempt = driver.call + 1
        BY <2>1, <2>4, <3>2 DEF Dedicated
      <4>2. c - 1 = driver.call
        BY <2>1, <3>2, NextCall
      <4>3. QED BY <4>1, <4>2, ReducerAssumption DEF Calls
    <3>3. QED BY <3>1, <3>2
  <2>5. ASSUME abandoned = {}, NEW d \in Calls, call'[d].pc # "none" PROVE call'[d].attempt = d
    <3>1. CASE d = c
      BY <2>1, <2>4, <2>5, <3>1
    <3>2. CASE d # c
      <4>1. call'[d] = call[d]
        BY <2>1, <3>2
      <4>2. QED BY <2>5, <4>1 DEF Dedicated
    <3>3. QED BY <3>1, <3>2
  <2>6. driver'.call # 0
    BY <2>1, ReducerAssumption DEF Calls
  <2>7. QED BY <2>1, <2>3, <2>4, <2>5, <2>6 DEF Dedicated
<1>3. ASSUME call' = call,
             \A a \in Attempts : /\ dir'[a].decisions \in {0, dir[a].decisions}
                                 /\ dir'[a].telemetry \in {0, dir[a].telemetry},
             abandoned' # {} \/ UNCHANGED <<abandoned, driver>>
      PROVE  Dedicated'
  BY <1>3 DEF Dedicated
<1>4. CASE Judge
  <2>1. /\ driver'.call = driver.call /\ driver.call # 0 /\ driver.pc = "wait"
        /\ \/ driver'.attempt = driver.attempt /\ driver'.pc \notin {"start", "idle"}
           \/ driver'.pc = "start" /\ driver.attempt = 1 /\ driver'.attempt = 2
        /\ UNCHANGED <<call, dir, abandoned>>
    BY <1>4, JudgeKinds
  <2>2. QED BY <2>1, <1>0 DEF Dedicated
<1>5. CASE Unqualified \/ InstallDecisions \/ InstallTelemetry \/ WriteUnion
  <2>1. /\ driver'.call = driver.call /\ driver'.attempt = driver.attempt
        /\ driver'.pc \notin {"start", "idle"} /\ driver.pc # "idle"
        /\ call' = call /\ abandoned' = abandoned
    BY <1>0, <1>5 DEF Unqualified, InstallDecisions, InstallTelemetry, WriteUnion, Drive, Reason
  <2>2. driver.pc = "start" => driver.call = 0
    BY <1>5 DEF Unqualified, InstallDecisions, InstallTelemetry, WriteUnion, Reason
  <2>3. ASSUME NEW a \in Attempts
        PROVE  /\ dir'[a].decisions \in {0, dir[a].decisions}
               /\ dir'[a].telemetry \in {0, dir[a].telemetry}
    <3>1. CASE InstallDecisions
      BY <1>0, <3>1 DEF InstallDecisions
    <3>2. CASE InstallTelemetry
      BY <1>0, <3>2 DEF InstallTelemetry
    <3>3. CASE Unqualified \/ WriteUnion
      BY <3>3 DEF Unqualified, WriteUnion
    <3>4. QED BY <1>5, <3>1, <3>2, <3>3
  <2>4. ASSUME NEW a \in Attempts
        PROVE  /\ dir'[a].decisions # 0 => call'[dir'[a].decisions].attempt = a
               /\ dir'[a].telemetry # 0 => /\ call'[dir'[a].telemetry].pc = "exited"
                                           /\ call'[dir'[a].telemetry].attempt = a
    BY <2>1, <2>3 DEF Dedicated
  <2>5. QED BY <2>1, <2>2, <2>4 DEF Dedicated
<1>6. CASE KillDriver
  <2>1. /\ driver'.call = driver.call /\ driver'.pc = "idle" /\ driver'.attempt = driver.attempt
        /\ call' = call /\ dir' = dir /\ abandoned' = abandoned \cup ({driver.call} \ {0})
    BY <1>0, <1>6 DEF KillDriver
  <2>2. CASE driver.call # 0
    <3>1. abandoned' # {}
      BY <2>1, <2>2
    <3>2. QED BY <2>1, <3>1, <1>3
  <2>3. CASE driver.call = 0
    <3>1. abandoned' = abandoned
      BY <2>1, <2>3
    <3>2. QED BY <2>1, <2>3, <3>1 DEF Dedicated
  <2>4. QED BY <2>2, <2>3
<1>7. CASE Resume
  <2>1. /\ driver.pc = "idle" /\ driver' = [pc |-> "start", attempt |-> 1, call |-> 0]
        /\ call' = call /\ dir' = dir /\ abandoned' = abandoned
    BY <1>7 DEF Resume
  <2>2. abandoned = {} => \A c \in Calls : call[c].pc = "none"
    BY <2>1 DEF Dedicated
  <2>3. driver'.pc = "start" /\ driver'.attempt = 1 /\ driver'.call = 0
    BY <2>1
  <2>4. QED BY <2>1, <2>2, <2>3 DEF Dedicated
<1>8. CASE UNCHANGED <<driver, call, dir, abandoned>>
  BY <1>8 DEF Dedicated
<1>9. QED BY <1>1, <1>2, <1>4, <1>5, <1>6, <1>7, <1>8, StepKinds
          DEF vars, DriverStep, HostChanges

\* The files of one call are carried together.
LEMMA CarriedStep ==
  TypeOK /\ Coded /\ Settlement /\ Numbered /\ Judged /\ Sound /\ Dedicated /\ Carried
  /\ [Next]_vars => Carried'
<1> SUFFICES ASSUME TypeOK, Coded, Settlement, Numbered, Judged, Sound, Dedicated, Carried,
                    [Next]_vars
             PROVE  Carried'
  OBVIOUS
<1>0. /\ driver \in [pc : DriverSteps, attempt : Attempts, call : 0..MaxCalls]
      /\ driver.call # 0 => driver.call \in Calls
      /\ final.decisions # 0 => final.decisions \in Calls
      /\ dir \in [Attempts -> [decisions : 0..MaxCalls, telemetry : 0..MaxCalls]]
      /\ final \in [decisions : 0..MaxCalls, telemetry : 0..MaxCalls]
      /\ driver.attempt \in Attempts
  BY ReducerAssumption DEF TypeOK, Calls
<1>1. ASSUME NEW c \in Calls, CallStep(c) PROVE Carried'
  <2>1. Effect(c)
    BY <1>1, CallEffect
  <2>2. /\ UNCHANGED <<driver, abandoned, final>>
        /\ \A d \in Calls : call[d].pc = "exited" => call'[d] = call[d]
    BY <1>1, CallFrame
  <2>3. \A d \in Calls : Whole(d) => call'[d] = call[d] /\ call[d].pc = "exited"
    BY <2>2 DEF Whole, Coded
  <2>4. ASSUME abandoned = {}, driver.call # 0, call[driver.call].pc = "exited"
        PROVE  dir' = dir /\ call'[driver.call] = call[driver.call]
    <3>1. call'[driver.call] = call[driver.call]
      BY <1>0, <2>2, <2>4
    <3>2. CASE c = driver.call
      BY <2>1, <2>4, <3>2 DEF Effect
    <3>3. CASE c # driver.call
      <4>1. call[c].pc \in {"none", "exited"}
        BY <2>4, <3>3 DEF Settlement, Settled
      <4>2. QED BY <2>1, <3>1, <4>1 DEF Effect
    <3>4. QED BY <3>1, <3>2, <3>3
  <2>5. ASSUME abandoned = {}, driver.pc = "wait", call'[driver.call].exit = "ok"
        PROVE  dir'[driver.attempt].telemetry = driver.call
    <3>1. driver.call # 0 /\ driver.call \in Calls /\ driver.attempt = driver.call
      BY <1>0, <2>5 DEF Judged, Dedicated
    <3>2. CASE call[driver.call].exit = "ok"
      <4>1. call[driver.call].pc = "exited"
        BY <3>1, <3>2 DEF Coded
      <4>2. dir' = dir
        BY <2>4, <2>5, <3>1, <4>1
      <4>3. QED BY <2>5, <3>2, <4>2 DEF Carried
    <3>3. CASE call[driver.call].exit # "ok"
      <4>1. c = driver.call
        <5>1. ASSUME c # driver.call PROVE FALSE
          <6>1. call'[driver.call] = call[driver.call]
            BY <2>1, <3>1, <5>1 DEF Effect
          <6>2. QED BY <2>5, <3>3, <6>1
        <5>2. QED BY <5>1
      <4>2. dir' = [dir EXCEPT ![call[c].attempt].telemetry = c]
        BY <2>1, <2>5, <3>3, <4>1 DEF Effect
      <4>3. call[driver.call].pc # "none"
        BY <3>1 DEF Numbered
      <4>4. call[c].attempt = driver.attempt
        BY <2>5, <3>1, <4>1, <4>3 DEF Dedicated
      <4>5. QED BY <1>0, <4>1, <4>2, <4>4
    <3>4. QED BY <3>2, <3>3
  <2>6. ASSUME abandoned = {}, driver.pc = "install"
        PROVE  Whole(driver.call)' /\ dir' = dir
    <3>1. driver.call # 0 /\ driver.call \in Calls /\ Whole(driver.call)
      BY <1>0, <2>6 DEF Judged, Carried
    <3>2. call[driver.call].pc = "exited"
      BY <2>3, <3>1
    <3>3. QED BY <2>2, <2>4, <2>6, <3>1, <3>2 DEF Whole
  <2>7. ASSUME abandoned = {}, driver.pc = "telemetry"
        PROVE  dir' = dir
    <3>1. driver.call # 0 /\ final.decisions = driver.call
      BY <2>7 DEF Judged, Carried
    <3>2. driver.call \in Calls /\ Whole(driver.call)
      BY <1>0, <2>7, <3>1 DEF Carried
    <3>3. call[driver.call].pc = "exited"
      BY <2>3, <3>2
    <3>4. QED BY <2>4, <2>7, <3>1, <3>3
  <2>8. abandoned = {} /\ final.decisions # 0 => Whole(final.decisions)'
    BY <1>0, <2>2, <2>3 DEF Carried, Whole
  <2>9. QED BY <2>2, <2>5, <2>6, <2>7, <2>8 DEF Carried
<1>2. CASE StartCall
  <2>1. PICK c \in Calls :
            /\ call'[c].exit = "none"
            /\ driver'.pc = "wait" /\ driver'.call = c
            /\ driver.pc = "start" /\ final' = final
    BY <1>2, StartFrame
  <2>2. final.decisions = 0 /\ final.telemetry = 0
    BY <2>1 DEF Judged, Carried
  <2>3. QED BY <2>1, <2>2 DEF Carried
<1>3. CASE Judge
  <2>1. /\ driver.pc = "wait" /\ driver.call # 0 /\ driver.call \in Calls
        /\ driver'.call = driver.call /\ driver'.pc \notin {"wait", "telemetry"}
        /\ UNCHANGED <<call, dir, final, abandoned>>
        /\ driver'.pc = "install" => Acceptable /\ driver'.attempt = driver.attempt
    BY <1>0, <1>3, JudgeKinds
  <2>2. final.decisions = 0 /\ final.telemetry = 0
    BY <2>1 DEF Judged, Carried
  <2>3. ASSUME driver'.pc = "install", abandoned = {}
        PROVE  /\ Whole(driver.call)
               /\ dir[driver.attempt] = [decisions |-> driver.call, telemetry |-> driver.call]
    <3>1. /\ call[driver.call].exit = "ok" /\ Candidate # 0 /\ Candidate \in Calls
          /\ call[Candidate].output.message = "valid"
      BY <1>0, <2>1, <2>3, ReducerAssumption DEF Acceptable, Candidate, Calls
    <3>2. driver.attempt = driver.call /\ call[Candidate].attempt = driver.attempt
      BY <1>0, <2>1, <2>3, <3>1 DEF Dedicated, Candidate
    <3>3. call[Candidate].pc # "none"
      BY <1>0, <3>1 DEF Sound, Reviewed, Candidate
    <3>4. call[Candidate].attempt = Candidate
      BY <2>3, <3>1, <3>3 DEF Dedicated
    <3>5. dir[driver.attempt].telemetry = driver.call /\ dir[driver.attempt].decisions = driver.call
      BY <2>1, <2>3, <3>1, <3>2, <3>4 DEF Carried, Candidate
    <3>6. QED BY <1>0, <3>1, <3>2, <3>4, <3>5 DEF Whole
  <2>4. QED BY <2>1, <2>2, <2>3 DEF Carried, Whole
<1>4. CASE InstallDecisions
  <2>1. /\ driver.pc = "install" /\ driver'.pc = "telemetry" /\ driver'.call = driver.call
        /\ driver'.attempt = driver.attempt /\ call' = call /\ abandoned' = abandoned
        /\ final'.decisions = dir[driver.attempt].decisions
        /\ final'.telemetry = final.telemetry
        /\ dir'[driver.attempt].telemetry = dir[driver.attempt].telemetry
    BY <1>0, <1>4 DEF InstallDecisions, Candidate, Drive
  <2>2. final.telemetry = 0
    BY <2>1 DEF Carried
  <2>3. ASSUME abandoned = {}
        PROVE  /\ dir[driver.attempt].decisions = driver.call
               /\ dir[driver.attempt].telemetry = driver.call /\ Whole(driver.call)
    BY <2>1, <2>3 DEF Carried
  <2>4. QED BY <2>1, <2>2, <2>3 DEF Carried, Whole
<1>5. CASE InstallTelemetry
  <2>1. /\ driver.pc = "telemetry" /\ driver'.pc = "done" /\ call' = call
        /\ abandoned' = abandoned /\ final'.decisions = final.decisions
        /\ dir[driver.attempt].telemetry # 0 =>
               final'.telemetry = dir[driver.attempt].telemetry
    BY <1>0, <1>5 DEF InstallTelemetry, Drive
  <2>2. abandoned = {} => /\ dir[driver.attempt].telemetry = driver.call
                          /\ final.decisions = driver.call /\ driver.call # 0
    BY <2>1 DEF Carried, Judged
  <2>3. QED BY <2>1, <2>2 DEF Carried, Whole
<1>6. CASE Unqualified \/ WriteUnion \/ KillDriver
  <2>1. /\ driver.pc # "done" /\ driver'.pc \in {"unionUnqualified", "done", "idle"}
        /\ call' = call /\ final' = final /\ (abandoned' = {} => abandoned = {})
    <3>1. CASE Unqualified
      BY <1>0, <3>1 DEF Unqualified, Drive
    <3>2. CASE WriteUnion
      BY <1>0, <3>2 DEF WriteUnion, Drive, Reason
    <3>3. CASE KillDriver
      <4>1. driver.pc # "done" /\ driver' = [driver EXCEPT !.pc = "idle"]
            /\ call' = call /\ final' = final /\ abandoned \subseteq abandoned'
        BY <3>3 DEF KillDriver
      <4>2. driver'.pc = "idle"
        BY <1>0, <4>1
      <4>3. QED BY <4>1, <4>2
    <3>4. QED BY <1>6, <3>1, <3>2, <3>3
  <2>2. final.telemetry = 0
    BY <2>1 DEF Carried
  <2>3. QED BY <2>1, <2>2 DEF Carried, Whole
<1>7. CASE Resume
  <2>1. /\ driver.pc = "idle" /\ driver'.pc = "start" /\ final' = final
        /\ final.decisions = 0
    BY <1>7 DEF Resume
  <2>2. final.telemetry = 0
    BY <2>1 DEF Carried
  <2>3. QED BY <2>1, <2>2 DEF Carried
<1>8. CASE UNCHANGED <<driver, call, dir, final, abandoned>>
  BY <1>8 DEF Carried, Whole
<1>9. QED BY <1>1, <1>2, <1>3, <1>4, <1>5, <1>6, <1>7, <1>8, StepKinds
          DEF vars, DriverStep, HostChanges

-----------------------------------------------------------------------------
LEMMA Invariance == Spec => []IInv
<1>1. Init => IInv
  <2> SUFFICES ASSUME Init PROVE IInv
    OBVIOUS
  <2>1. TypeOK
    BY TypeInit
  <2>2. /\ driver.pc = "start" /\ driver.attempt = 1 /\ driver.call = 0
        /\ \A c \in Calls : call[c] = NoCall /\ codex[c] = "none"
        /\ \A a \in Attempts : dir[a].decisions = 0 /\ dir[a].telemetry = 0
        /\ final.decisions = 0 /\ final.telemetry = 0
        /\ union = "none" /\ abandoned = {}
    BY DEF Init
  <2>3. /\ NoCall.pc = "none" /\ NoCall.exit = "none" /\ NoCall.pending = FALSE
        /\ NoCall.signals = 0
    BY DEF NoCall
  <2>4. Coded /\ Contained
    BY <2>2, <2>3 DEF Coded, Contained, ContainedAt
  <2>5. Settlement /\ Numbered
    BY <2>2, <2>3 DEF Settlement, Numbered
  <2>6. Judged /\ Reasoned
    BY <2>2 DEF Judged, Reasoned
  <2>7. Sound
    BY <2>2, <2>3 DEF Sound
  <2>8. Dedicated /\ Carried
    BY <2>2, <2>3 DEF Dedicated, Carried
  <2>9. QED BY <2>1, <2>4, <2>5, <2>6, <2>7, <2>8 DEF IInv
<1>2. IInv /\ [Next]_vars => IInv'
  BY TypeStep, CodedStep, ContainedStep, NumberedStep, SettlementStep, JudgedStep,
     ReasonedStep, SoundStep, DedicatedStep, CarriedStep DEF IInv
<1>3. QED BY <1>1, <1>2, PTL DEF Spec

\* Every variable keeps its type, whatever the kills and the signals.
THEOREM Typing == Spec => []TypeOK
<1>1. IInv => TypeOK
  BY DEF IInv
<1>2. QED BY <1>1, Invariance, PTL

\* The dispatcher never runs a second attempt beside a Codex process of an
\* earlier call, unless that call's wrapper or dispatcher was taken away.
THEOREM OneReducerRuns == Spec => []OneReducer
<1>1. IInv => OneReducer
  <2> SUFFICES ASSUME IInv, NEW c \in Calls, NEW d \in Calls,
                      c < d, call[d].pc # "none", codex[c] = "running"
               PROVE  Forsaken(c)
    BY DEF OneReducer
  <2>1. call[c].pc # "none"
    BY DEF IInv, Numbered
  <2>2. ContainedAt(call[c], codex[c])
    BY DEF IInv, Contained
  <2>3. c # driver.call
    <3>1. SUFFICES ASSUME c = driver.call PROVE FALSE
      OBVIOUS
    <3>2. driver.call # 0
      BY <3>1, ReducerAssumption DEF Calls
    <3>3. d <= c
      BY <3>1, <3>2 DEF IInv, Numbered
    <3>4. QED BY <3>3, ReducerAssumption DEF Calls
  <2>4. Settled(c)
    BY <2>1, <2>3 DEF IInv, Settlement
  <2>5. QED BY <2>2, <2>4 DEF Settled, ContainedAt, Forsaken
<1>2. QED BY <1>1, Invariance, PTL

\* The degraded union gives the reason that happened: the dispatcher's last
\* calls ended so, and nothing was installed.
THEOREM ReasonIsTrue == Spec => []ReasonTrue
<1>1. IInv => ReasonTrue
  BY DEF IInv, Reasoned, ReasonTrue, Failed
<1>2. QED BY <1>1, Invariance, PTL

\* A stream that is well formed has one turn and no tool.
LEMMA OneTurn ==
  ASSUME NEW s, WellFormed(s)
  PROVE  Occurrences(s, "tool") = 0 /\ Occurrences(s, "started") = 1
<1>1. {i \in DOMAIN s : s[i] = "tool"} = {}
  BY DEF WellFormed
<1>2. Occurrences(s, "tool") = 0
  BY <1>1, FS_EmptySet DEF Occurrences
<1>3. QED BY <1>2 DEF WellFormed

\* The installed decisions were taken from one proper turn of the probed
\* installation; and, while no dispatcher was killed, the decisions and the
\* telemetry are those of one call that ended well.
THEOREM InstalledIsWhole == Spec => []InstalledWhole
<1>1. IInv => InstalledWhole
  <2> SUFFICES ASSUME IInv PROVE InstalledWhole
    OBVIOUS
  <2>1. ASSUME final.decisions # 0
        PROVE  /\ Occurrences(call[final.decisions].output.stream, "tool") = 0
               /\ Occurrences(call[final.decisions].output.stream, "started") = 1
               /\ \/ call[final.decisions].ran = Probed
                  \/ call[final.decisions].ran # call[final.decisions].seen
    <3>1. call[final.decisions].seen = Probed /\ WellFormed(call[final.decisions].output.stream)
      BY <2>1 DEF IInv, Sound, Reviewed
    <3>2. QED BY <3>1, OneTurn
  <2>2. abandoned = {} =>
            /\ final.decisions # 0 => Whole(final.decisions)
            /\ final.telemetry # 0 => final.telemetry = final.decisions
    BY DEF IInv, Carried
  <2>3. QED BY <2>1, <2>2 DEF InstalledWhole, Whole
<1>2. QED BY <1>1, Invariance, PTL

=============================================================================
