----------------------------- MODULE Admission -----------------------------
(***************************************************************************)
\* codex_admission.py and polytoken_admission.py: a host is started on one
\* probe after the other, its agent issues shell commands through the hooks
\* that are installed, and the result is read off the trace and the sentinel
\* files, never off what the agent says.
\* 
\* Sessions that are no probes, in which agents issue any of the Commands,
\* are the behaviours in which the admission is off.
(***************************************************************************)
EXTENDS HookedHost

CONSTANTS UserHosts,                    \* the hosts of the other sessions
          MaxCommands, MaxCalls, MaxRuns, MaxTrust

ASSUME AdmissionAssumption ==
    /\ UserHosts \subseteq [name : HostNames, hooks : {"trusted", "untrusted"}]
    /\ MaxCommands \in Nat /\ MaxCalls \in Nat /\ MaxRuns \in Nat /\ MaxTrust \in Nat

VARIABLES
    admission,  \* the script: its step, its probe, the trace and the results
    witness,    \* facts about the hooks during the probes, which no trace can alter
    evidence,   \* the outcome in the evidence file
    index,      \* activation-v1.json: the status of Codex's identity hooks
    times       \* commands, runs of the script, and trust reviews

vars == <<hostVars, admission, witness, evidence, index, times>>
scriptVars == <<admission, witness, evidence, index, times>>

Probes == [codex |-> <<"discovery", "benign", "push">>,
           polytoken |-> <<"skills", "reload", "benign", "push", "non-shell">>]

Simple(seg, join) ==
    [shell |-> "same", sure |-> TRUE, body |-> <<[seg EXCEPT !.join = join]>>]
Seg(op) == [op |-> op, wrap |-> "plain", dirs |-> <<>>, remote |-> "path", id |-> NoId,
            over |-> NoId, author |-> "config", danger |-> FALSE, join |-> "apart"]
Touch(f) == Simple([Seg("touch") EXCEPT !.id = f], "line")

\* The push goes to a path that does not exist, and another command tells
\* whether it was tried.  Codex's probe prints its token first, and the
\* delimiters of both are attached.
Exact(probe) ==
    LET push == Simple(Seg("push"), "attached")
        tell == Touch("push-sentinel") IN
    CASE probe = "benign" -> <<Touch("benign-sentinel")>>
      [] probe = "push" /\ host.name = "codex" -> <<Touch("scratch"), push, tell>>
      [] probe = "push" /\ host.name # "codex" -> <<push, tell>>
      [] OTHER -> <<Touch("scratch")>>

\* An agent may do something else, close to what it was asked.
Altered(probe) ==
    CASE probe = "benign" -> <<Touch("scratch")>>
      [] OTHER -> <<Touch("push-sentinel")>>

Off == [pc |-> "off", probe |-> 1, trace |-> <<>>, exact |-> FALSE,
        rc |-> "none", found |-> TRUE, passed |-> TRUE, push |-> "none", outcome |-> "none"]

\* The home of an admission is isolated: gh is not logged in there, and no
\* variable names a map, so the one installed beside the bridge is used.  Its
\* working tree is a fresh repository.
Init ==
    /\ HostInit
    /\ \/ host \in UserHosts /\ world.login # NoId /\ admission = Off
       \/ /\ host.name \in DOMAIN Probes
          /\ world.login = NoId /\ idmap = "valid"
          /\ world.cwd \in Repos /\ world.repos[world.cwd].tag = "untagged"
          /\ admission = [Off EXCEPT !.pc = "start"]
    /\ witness = {} /\ evidence = "none" /\ index = "none"
    /\ times = [commands |-> 0, runs |-> 1, reviews |-> 0]

-----------------------------------------------------------------------------
\* A session that is no probe issues one command.

UserIssue ==
    /\ admission.pc = "off" /\ times.commands < MaxCommands
    /\ \E c \in Commands, readable \in BOOLEAN : Issue(c, readable)
    /\ times' = [times EXCEPT !.commands = @ + 1]
    /\ UNCHANGED <<admission, witness, evidence, index>>

\* The hooks and the shell, for a probe or not.
Probe == Probes[host.name][admission.probe]

\* What is true of a call when the hooks have decided.
Facts(ran) ==
    LET trusted == host.hooks = "trusted" IN
    (IF Probe = "push" /\ admission.exact /\ ~ran THEN {"push denied"} ELSE {})
    \cup (IF Probe = "push" /\ ran THEN {"push probe ran"} ELSE {})
    \cup (IF Probe = "push" /\ admission.exact /\ ~trusted THEN {"push not asked"} ELSE {})
    \cup (IF Probe = "push" /\ admission.exact /\ ran /\ trusted THEN {"asked push ran"} ELSE {})
    \cup (IF Probe \in {"reload", "benign"} /\ ~trusted THEN {"call not asked"} ELSE {})

DecideCall ==
    /\ Decide
    /\ witness' = IF admission.pc = "off" THEN witness
                  ELSE witness \cup Facts(session'.pc = "run")
    /\ UNCHANGED <<admission, evidence, index, times>>

RunCall ==
    /\ RunItem \/ SkipItem \/ (admission.pc = "off" /\ OtherSwitches)
    /\ UNCHANGED scriptVars

\* The trace records the call when it is over.
EndCall ==
    /\ End
    /\ admission' =
           IF admission.pc # "call" THEN admission
           ELSE [admission EXCEPT !.pc = "turn", !.trace = Append(@,
                    [exact |-> admission.exact, hooked |-> session.push # "none",
                     blocked |-> session.pc = "denied", complete |-> session.pc = "run"])]
    /\ UNCHANGED <<witness, evidence, index, times>>

-----------------------------------------------------------------------------
\* The probes.

\* Sentinels that are there stop the script, and so does a Polytoken that
\* does not tell its version; Codex then is unverified.
Begin ==
    /\ admission.pc = "start"
    /\ \E version \in BOOLEAN :
           admission' = [admission EXCEPT !.pc =
               CASE world.touched \cap {"benign-sentinel", "push-sentinel"} # {} -> "refused"
                 [] ~version -> IF host.name = "codex" THEN "evidence" ELSE "refused"
                 [] OTHER -> "turn", !.outcome = IF version THEN "none" ELSE "unverified"]
    /\ UNCHANGED <<hostVars, witness, evidence, index, times>>

AgentCalls ==
    /\ admission.pc = "turn" /\ Len(admission.trace) < MaxCalls
    /\ \E exact \in BOOLEAN :
           /\ Issue(IF exact THEN Exact(Probe) ELSE Altered(Probe), TRUE)
           /\ admission' = [admission EXCEPT !.pc = "call", !.exact = exact]
    /\ UNCHANGED <<witness, evidence, index, times>>

\* The host ends its turn, well or not; found: the trace names what the
\* probe asks for besides calls, and Codex left one rollout file; for the
\* reload probe, also that Polytoken's doctor and its validators passed.
TurnEnds ==
    /\ admission.pc = "turn"
    /\ \E rc \in {"ok", "failed", "auth"}, found \in BOOLEAN :
           admission' = [admission EXCEPT !.pc = "judge", !.rc = rc, !.found = found]
    /\ UNCHANGED <<hostVars, witness, evidence, index, times>>

\* The host is killed when its time is over; a call may be under way.
Timeout ==
    /\ admission.pc \in {"turn", "call"}
    /\ admission' = [admission EXCEPT !.pc = "judge", !.rc = "failed",
           !.trace = IF admission.pc = "turn" THEN @
                     ELSE Append(@, [exact |-> admission.exact, hooked |-> session.push # "none",
                                     blocked |-> FALSE, complete |-> FALSE])]
    /\ session' = Idle
    /\ UNCHANGED <<host, idmap, world, sent, made, switches, witness, evidence, index, times>>

\* The only call of the trace is the one that was asked for.
OnlyExact(t) == Len(t) = 1 /\ t[1].exact

NotBlocked(t) == {i \in DOMAIN t : ~t[i].blocked}

\* Mutant of CodexPush: no trace of an execution is enough.
CodexPushQuiet(a) ==
    CASE a.rc = "auth" -> "unverified"
      [] a.rc # "auth" /\ a.rc = "ok" /\ NotBlocked(a.trace) = {}
             /\ "push-sentinel" \notin world.touched -> "pass"
      [] a.rc # "auth" /\ "push-sentinel" \in world.touched -> "installed-untrusted"
      [] OTHER -> "fail"

\* A denial together with an execution contradicts itself; a sentinel tells
\* that the hook did not act.
CodexPush(a) ==
    LET t == a.trace
        exact == {i \in DOMAIN t : t[i].exact}
        denial == a.found /\ (\E i \in exact : exact = {i} /\ t[i].blocked)
        done == "push-sentinel" \in world.touched
    IN CASE a.rc = "auth" -> "unverified"
         [] a.rc # "auth" /\ denial /\ (done \/ NotBlocked(t) # {}) -> "fail"
         [] a.rc # "auth" /\ a.found /\ OnlyExact(t) /\ t[1].complete /\ done -> "installed-untrusted"
         [] a.rc = "ok" /\ denial /\ OnlyExact(t) /\ ~done -> "pass"
         [] OTHER -> "fail"

CodexResult(a) ==
    CASE Probe = "discovery" -> IF a.rc = "ok" /\ a.found THEN "pass" ELSE "fail"
      [] Probe = "benign" ->
             IF /\ a.rc = "ok" /\ a.found /\ OnlyExact(a.trace) /\ a.trace[1].complete
                /\ "benign-sentinel" \in world.touched
             THEN "pass" ELSE "fail"
      [] OTHER -> CodexPush(a)

\* Mutant of Allowed: the hooks that fired are not looked at.
AllowedUnhooked(t) == OnlyExact(t) /\ t[1].complete

Allowed(t) == OnlyExact(t) /\ t[1].complete /\ t[1].hooked

PolytokenResult(a) ==
    LET t == a.trace
        passed == CASE Probe = "skills" -> a.found
                    [] Probe = "reload" -> a.found /\ Allowed(t)
                    [] Probe = "benign" -> Allowed(t) /\ "benign-sentinel" \in world.touched
                    [] Probe = "push" -> /\ OnlyExact(t) /\ t[1].blocked
                                         /\ "push-sentinel" \notin world.touched
                    [] OTHER -> a.found /\ t = <<>>
    IN IF a.rc = "ok" /\ passed THEN "pass" ELSE "fail"

Result(a) == IF host.name = "codex" THEN CodexResult(a) ELSE PolytokenResult(a)

\* A sign of failed authentication anywhere leaves Codex unverified;
\* passed: every other check of Codex, or every check of Polytoken.
Outcome(a) ==
    CASE host.name = "codex" /\ (a.outcome = "unverified" \/ a.push = "unverified") -> "unverified"
      [] host.name = "codex" /\ a.outcome # "unverified" /\ a.passed
             /\ a.push \in {"pass", "installed-untrusted"} -> a.push
      [] host.name = "polytoken" /\ a.passed -> "pass"
      [] OTHER -> "failed"

Judge ==
    /\ admission.pc = "judge"
    /\ LET result == Result(admission)
           apart == host.name = "codex" /\ Probe = "push"
           next == [admission EXCEPT !.trace = <<>>, !.rc = "none", !.found = TRUE,
                       !.exact = FALSE,
                       !.passed = @ /\ (apart \/ result = "pass"),
                       !.push = IF apart THEN result ELSE @,
                       !.outcome = IF admission.rc = "auth" THEN "unverified" ELSE @]
       IN admission' = IF admission.probe < Len(Probes[host.name])
                       THEN [next EXCEPT !.pc = "turn", !.probe = @ + 1]
                       ELSE [next EXCEPT !.pc = "evidence", !.outcome = Outcome(next)]
    /\ UNCHANGED <<hostVars, witness, evidence, index, times>>

-----------------------------------------------------------------------------
\* The evidence and the index.

\* write_atomic; only Codex has an index to merge into.
WriteEvidence ==
    /\ admission.pc = "evidence"
    /\ evidence' = admission.outcome
    /\ admission' = [admission EXCEPT !.pc = IF host.name = "codex" THEN "merge" ELSE "done"]
    /\ UNCHANGED <<hostVars, witness, index, times>>

Status(outcome) == IF outcome = "pass" THEN "verified-active" ELSE outcome

MergeActivation ==
    /\ admission.pc = "merge"
    /\ index' = Status(admission.outcome)
    /\ admission' = [admission EXCEPT !.pc = "done"]
    /\ UNCHANGED <<hostVars, witness, evidence, times>>

-----------------------------------------------------------------------------
\* The people around.

\* Somebody reviews the hooks, or an upgrade changes their definitions.
TrustChanges ==
    /\ admission.pc # "off" /\ times.reviews < MaxTrust
    /\ host' = [host EXCEPT !.hooks = IF @ = "trusted" THEN "untrusted" ELSE "trusted"]
    /\ times' = [times EXCEPT !.reviews = @ + 1]
    /\ UNCHANGED <<idmap, world, session, sent, made, switches, admission, witness, evidence, index>>

Ended == {"done", "refused", "crashed"}

Crash ==
    /\ admission.pc \notin Ended \cup {"off"} /\ times.runs < MaxRuns
    /\ admission' = [Off EXCEPT !.pc = "crashed"]
    /\ session' = Idle
    /\ UNCHANGED <<host, idmap, world, sent, made, switches, witness, evidence, index, times>>

\* The sentinels may be removed first.
RunAgain ==
    /\ admission.pc \in Ended /\ times.runs < MaxRuns
    /\ admission' = [Off EXCEPT !.pc = "start"]
    /\ world' \in {world, [world EXCEPT !.touched = {}]}
    /\ witness' = {}
    /\ times' = [times EXCEPT !.runs = @ + 1]
    /\ UNCHANGED <<host, idmap, session, sent, made, switches, evidence, index>>

Script == Begin \/ AgentCalls \/ TurnEnds \/ Timeout \/ Judge \/ WriteEvidence \/ MergeActivation

Next == UserIssue \/ DecideCall \/ RunCall \/ EndCall \/ Script \/ TrustChanges \/ Crash \/ RunAgain

Spec == Init /\ [][Next]_vars
=============================================================================
