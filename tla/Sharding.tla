------------------------------ MODULE Sharding ------------------------------
(***************************************************************************)
\* The reduction of a workset too large for one call, shard-integration.py:
\* it is cut into shards, each shard is reduced, the findings become the
\* candidates of a smaller workset, which is cut and reduced once more if it
\* is still too large, and one last call sees all of them.  The decisions of
\* the last call are then expanded to the original candidates.
\* 
\* A call (call_reducer) tries twice; its answer is valid for the workset
\* it was given, or the call fails.
(***************************************************************************)
EXTENDS DecisionRules, Sequences, FiniteSetsExt, SequencesExt

CONSTANTS Worksets,     \* the worksets a run may have
          Target,       \* a shard is filled up to this many tokens
          Hard,         \* and never exceeds this many
          CompactSize   \* the tokens of a finding that becomes a candidate

\* origins, canonical: the original candidates that it stands for.
Candidate == [id : Nat, persona : STRING, file : STRING, size : Nat, effort : 0..1,
              capped : BOOLEAN, origins : SUBSET Nat, canonical : Nat]

ASSUME ShardingAssumption ==
    /\ \A w \in Worksets :
           /\ w \subseteq Candidate /\ IsFiniteSet(w)
           /\ \A c, d \in w : c.id = d.id => c = d
           /\ \A c \in w : c.origins = {c.id} /\ c.canonical = c.id
    /\ Target \in Nat /\ Hard \in Nat /\ Target <= Hard /\ CompactSize \in Nat

VARIABLES
    original,   \* the workset of the run
    level,      \* 1, 2, and 3 for the last call
    todo,       \* the shards of this level that are still to be reduced
    next,       \* the candidates of the next level
    excluded,   \* the original candidates excluded so far
    registry,   \* the registry updates proposed so far, by original candidates
    exit,       \* what the program returned
    decisions   \* integration-decisions.json

vars == <<original, level, todo, next, excluded, registry, exit, decisions>>

IdsOf(w) == {c.id : c \in w}
Size(w) == MapThenSumSet(LAMBDA c : c.size, w)
Get(w, id) == CHOOSE c \in w : c.id = id

-----------------------------------------------------------------------------
\* components and pack

\* Candidates of one file are linked; a component is what is closed under it.
Linked(c, d) == c.file = d.file
Component(w, c) == {d \in w : Linked(c, d)}

Lanes(g) == {{d \in g : d.persona = c.persona} : c \in g}

\* A component above the target is cut between the personas, and one of a
\* single persona into its candidates.
Cut(g) ==
    CASE Size(g) <= Target -> {g}
      [] Size(g) > Target /\ Cardinality(Lanes(g)) = 1 -> {{c} : c \in g}
      [] OTHER -> Lanes(g)

Components(w) == UNION {Cut(Component(w, c)) : c \in w}

First(g) == Min(IdsOf(g))

InOrder(groups) ==
    CHOOSE s \in [1..Cardinality(groups) -> groups] :
        \A i, j \in DOMAIN s : i < j => First(s[i]) < First(s[j])

\* Greedily, in the order of their first candidates.
Add(packs, g) ==
    IF packs # <<>> /\ Size(Last(packs) \cup g) <= Target
    THEN Front(packs) \o <<Last(packs) \cup g>>
    ELSE Append(packs, g)

Pack(w) == FoldLeft(Add, <<>>, InOrder(Components(w)))

TooLarge(packs) == \E i \in DOMAIN packs : Size(packs[i]) > Hard

-----------------------------------------------------------------------------
\* Calls.

EffortOf(w) == [id \in IdsOf(w) |-> Get(w, id).effort]
CappedOf(w) == {c.id : c \in {d \in w : d.capped}}

Partitions(S) ==
    {P \in SUBSET (SUBSET S \ {{}}) :
        UNION P = S /\ (\A p, q \in P : p # q => p \cap q = {})}

\* All valid decisions about a workset: some candidates are excluded, the
\* others are merged in some way, and each finding keeps its sources' effort
\* or lowers it with a reason, below or above the ceilings.
Answers(w) ==
    LET judged(p, o) ==
            [sources |-> p, reason |-> o.lowered, high |-> o.high,
             effort |-> IF o.lowered THEN 0 ELSE Max({Get(w, id).effort : id \in p})]
        options(P) == [P -> [lowered : BOOLEAN, high : BOOLEAN]]
        merged == UNION {Partitions(S) : S \in SUBSET IdsOf(w)}
        answers == UNION {{[findings |-> {judged(p, o[p]) : p \in P},
                            excluded |-> IdsOf(w) \ UNION P, registry |-> r] :
                              o \in options(P), r \in {{}, {IdsOf(w)}}} : P \in merged}
    IN {d \in answers : Valid(IdsOf(w), EffortOf(w), CappedOf(w), d)}

\* Mutant of Origins: the sources at hand instead of their origins.
OriginsNotFlattened(w, ids) == ids

Origins(w, ids) == UNION {Get(w, id).origins : id \in ids}

\* The finding as a candidate of the next level, where it is the k-th.  Its
\* ceiling is reset, and its effort is the one that the finding states.
CompactCandidate(w, k, f) ==
    LET canonical == Get(w, Min(f.sources)) IN
    [id |-> k, persona |-> "integration_shard", file |-> canonical.file,
     size |-> CompactSize, effort |-> f.effort, capped |-> FALSE,
     origins |-> Origins(w, f.sources), canonical |-> canonical.canonical]

Rank(f, findings) == Cardinality({g \in findings : Min(g.sources) <= Min(f.sources)})

\* The findings of a shard follow the n candidates of those before it.
Compact(w, n, findings) == {CompactCandidate(w, n + Rank(f, findings), f) : f \in findings}

-----------------------------------------------------------------------------
Init ==
    /\ original \in Worksets
    /\ level = 1 /\ next = {} /\ excluded = {} /\ registry = {}
    /\ decisions = NoDecisions
    /\ IF TooLarge(Pack(original))
       THEN todo = <<>> /\ exit = "depth"
       ELSE todo = Pack(original) /\ exit = "none"

Stop(code) == exit' = code /\ UNCHANGED <<original, level, todo, next, excluded, registry,
                                          decisions>>

\* The shards of one level are reduced one after the other.
ReduceShard ==
    /\ exit = "none" /\ level < 3 /\ todo # <<>>
    /\ LET w == Head(todo) IN
       \E d \in Answers(w) :
              /\ next' = next \cup Compact(w, Cardinality(next), d.findings)
              /\ excluded' = excluded \cup Origins(w, d.excluded)
              /\ registry' = registry \cup {Origins(w, r) : r \in d.registry}
    /\ todo' = Tail(todo)
    /\ UNCHANGED <<original, level, exit, decisions>>

\* Two attempts failed or were invalid; or the runner could not prove that
\* its processes ended, and there is no second attempt.
CallFails ==
    /\ exit = "none" /\ todo # <<>>
    /\ \E code \in {"failed", "cleanup"} : Stop(code)

\* Mutant of LastLevel: the last call is made after one level.
LastLevelAtOnce == TRUE

\* The findings fit into one call.
LastLevel == Size(next) <= Hard

\* Another level, of which there are two, or the last call.
NextLevel ==
    /\ exit = "none" /\ level < 3 /\ todo = <<>>
    /\ CASE LastLevel ->
                /\ level' = 3 /\ todo' = <<next>> /\ next' = {}
                /\ UNCHANGED <<original, excluded, registry, exit, decisions>>
         [] ~LastLevel /\ level = 1 /\ ~TooLarge(Pack(next)) ->
                /\ level' = 2 /\ todo' = Pack(next) /\ next' = {}
                /\ UNCHANGED <<original, excluded, registry, exit, decisions>>
         [] OTHER -> Stop("depth")

\* expand: an original candidate belongs to the finding of its last
\* representative, or is excluded; a registry update is kept when its
\* sources survive in one finding.
Expanded(w, d) ==
    LET found == {[f EXCEPT !.sources = Origins(w, f.sources)] : f \in d.findings}
        proposed == registry \cup {Origins(w, r) : r \in d.registry}
    IN [findings |-> found,
        excluded |-> excluded \cup Origins(w, d.excluded),
        registry |-> {r \in proposed : r # {} /\ (\E f \in found : r \subseteq f.sources)}]

\* Mutant of Checked: the expanded decisions are not validated.
CheckedNever(d) == TRUE

\* The whole is validated against the original workset, whose ceilings and
\* efforts the shards have lost.
Checked(d) == Valid(IdsOf(original), EffortOf(original), CappedOf(original), d)

LastCall ==
    /\ exit = "none" /\ level = 3 /\ todo # <<>>
    /\ \E a \in Answers(Head(todo)) :
           LET d == Expanded(Head(todo), a) IN
           IF Checked(d)
           THEN decisions' = d /\ exit' = "ok"
           ELSE exit' = "failed" /\ UNCHANGED decisions
    /\ todo' = <<>>
    /\ UNCHANGED <<original, level, next, excluded, registry>>

Next == ReduceShard \/ CallFails \/ NextLevel \/ LastCall

Spec == Init /\ [][Next]_vars

-----------------------------------------------------------------------------
Under(w) == UNION {c.origins : c \in w}
Rest == {todo[i] : i \in DOMAIN todo} \cup {next}

\* Until the end no candidate is lost or counted twice, at any level: each
\* original one is excluded, or under exactly one candidate of the shards to
\* come and of the next level.
Conserved ==
    exit = "none" =>
        /\ excluded \cup UNION {Under(w) : w \in Rest} = IdsOf(original)
        /\ \A w \in Rest : Under(w) \cap excluded = {}
        /\ \A c, d \in UNION Rest : c # d => c.origins \cap d.origins = {}

\* No call is given more than the hard limit, the last one included, however
\* the candidates are linked and whatever the reducers merge.
Bounded == exit = "none" => \A i \in DOMAIN todo : Size(todo[i]) <= Hard

\* The sharded reduction does what one call would: it produces, in one step,
\* decisions that are valid for the original workset, or gives up.
Whole == INSTANCE Reduction WITH
    workset <- [ids |-> IdsOf(original), effort |-> EffortOf(original),
                capped |-> CappedOf(original)],
    state <- CASE exit = "none" -> "pending" [] exit = "ok" -> "done" [] OTHER -> "given up",
    result <- decisions

ImplementsReduction == Whole!Spec
=============================================================================
