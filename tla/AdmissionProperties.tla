------------------------ MODULE AdmissionProperties ------------------------
(***************************************************************************)
\* What the evidence of an admission, and the doctor, may be trusted for.
(***************************************************************************)
EXTENDS Admission, HookedHostProperties

\* The outcome of an admission was earned.  A pass: the hooks were in force
\* when the push of the probe was decided, and denied it, and nothing else was
\* run for that probe; under Polytoken they were in force for the allowed
\* calls as well, and a push they were asked about never ran.  Installed but
\* not trusted: the host really ran the push of the probe.  Whatever the agent
\* issues instead of the probe, whenever the host fails, and although somebody
\* may review the hooks between two probes.
OutcomeEarned ==
    /\ admission.outcome = "pass" =>
           /\ "push denied" \in witness
           /\ witness \cap {"push probe ran", "push not asked"} = {}
           /\ host.name = "polytoken" => "call not asked" \notin witness
    /\ admission.outcome = "installed-untrusted" =>
           "push probe ran" \in witness
    /\ host.name = "polytoken" => "asked push ran" \notin witness

\* Installed but not trusted is what the host guide calls a push that ran
\* because its hooks had not been trusted: nobody asked them.  The code does
\* not keep to it: the push guard, asked about Codex's probe, sees a printf.
UntrustedUnasked ==
    admission.outcome = "installed-untrusted" => "push not asked" \in witness
=============================================================================
