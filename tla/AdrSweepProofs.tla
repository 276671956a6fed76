--------------------------- MODULE AdrSweepProofs ---------------------------
(***************************************************************************)
(* The sweep over the decision records: whatever people, git, the commands *)
(* and kills do meanwhile, its lines are earned, a standing problem is     *)
(* announced once, and a line with a verdict, or one whose falsifiers did  *)
(* not all end clean, is left alone; so is one whose refs were not all     *)
(* found clean, unless they were skipped.                                  *)
(*                                                                         *)
(* Between the reading of a record and the writing of its text only people *)
(* change it, and they can do three things to a line: leave it, take it    *)
(* away, or judge an open one.  That is the invariant that relates the     *)
(* text in hand to the file (Later); the rest of the inductive invariant   *)
(* says that the text and the results in hand are earned as well.          *)
(***************************************************************************)
EXTENDS AdrSweepProperties, WellFoundedInduction, TLAPS

\* The text in hand is a record's.
InHand == step \in {"run", "refs"}

Skipped == {"self", "unknown"}

ResultsTyped ==
    /\ step = "run" => results \in [DOMAIN results -> {"clean", "fired", "error"}]
    /\ step = "refs" =>
           /\ results \in [DOMAIN results -> Skipped \cup {"clean", "error"} \cup Hard \cup Soft]
           /\ \A r \in DOMAIN results : results[r] = "unknown" => Dir[r] \in Projects \ roots

FellTyped == fell \in [Records -> SUBSET (Statuses \cup {"missing", "fired-real"})]

\* What a text says of its record's state has befallen the record.
Explained(t, r) ==
    /\ t.kind = "missing" => "missing" \in fell[r]
    /\ t.kind = "text" => t.status \in fell[r]
    /\ t.kind # "text" => t.status = "" /\ t.fired = NoLine /\ t.support = NoLine
    /\ t.fired.verdict = "real" => "fired-real" \in fell[r]

AllExplained ==
    /\ \A r \in Records : Explained(files[r], r)
    /\ InHand => Explained(text, cur)

TextEarned ==
    InHand => /\ text.fired.items \subseteq observed[cur]
              /\ \A p \in text.support.items : Happened(p)

ResultsEarned ==
    /\ step = "run" => FiredItems \subseteq observed[cur]
    /\ step = "refs" => \A p \in Losses : Happened(p)

\* What people may do to a line that was read.
Later(new, old) ==
    \/ new = old
    \/ new = NoLine
    \/ old.verdict = "open" /\ Adjudication(new) /\ new.items = old.items

LaterOnly ==
    InHand => /\ text.kind = "text"
              /\ Later(files[cur].fired, text.fired)
              /\ Later(files[cur].support, text.support)

AskedOnRecord == asked \subseteq OnRecord(files)

\* The inductive invariant.
AdrInvariant ==
    /\ TypeOK /\ ResultsTyped /\ FellTyped
    /\ AllExplained /\ Earned /\ TextEarned /\ ResultsEarned
    /\ LaterOnly
    /\ AskedOnRecord /\ NagOnce
-----------------------------------------------------------------------------
\* Lemmas about the operators.

\* The next record is one of those to do.
LEMMA FirstIsOne ==
  ASSUME NEW as \in SUBSET Records, as # {}
  PROVE  First(as) \in as
<1> DEFINE R == OpToRel(<, Nat)
<1>1. PICK x \in as : \A y \in as : ~ (<<y, x>> \in R)
  <2>1. IsWellFoundedOn(R, Nat)
    BY NatLessThanWellFounded
  <2>2. as \subseteq Nat
    BY AdrSweepAssumption
  <2> HIDE DEF R
  <2> QED BY <2>1, <2>2, WFMin
<1>2. ASSUME NEW y \in as PROVE x <= y
  <2>1. x \in Nat /\ y \in Nat
    BY AdrSweepAssumption
  <2>2. y < x => <<y, x>> \in R
    BY <2>1 DEF OpToRel
  <2> HIDE DEF R
  <2>3. ~(y < x)
    BY <1>1, <2>2
  <2> QED BY <2>1, <2>3
<1> QED BY <1>2, Zenon DEF First

\* What DecideFired may decide.
LEMMA FiredDecided ==
  ASSUME NEW line \in FiredLine, NEW items \in SUBSET Labels, NEW mayHeal \in BOOLEAN
  PROVE  LET d == DecideFired(line, items, mayHeal) IN
         /\ d.line \in FiredLine /\ d.write \in BOOLEAN /\ d.news \in BOOLEAN
         /\ d.line.items \subseteq line.items \cup items
         /\ d.line = line \/ d.line.verdict \in {"none", "open"}
         /\ d.news => line = NoLine
         /\ d.write => ~Adjudication(line)
         /\ d.write /\ d.line = NoLine => items = {} /\ mayHeal
<1>1. CASE Adjudication(line)
  BY <1>1 DEF DecideFired, Decision
<1>2. CASE ~Adjudication(line) /\ items # {}
  BY <1>2 DEF DecideFired, Decision, Line, NoLine, FiredLine, Verdicts
<1>3. CASE ~Adjudication(line) /\ items = {}
  BY <1>3 DEF DecideFired, Decision, Line, NoLine, FiredLine, Verdicts
<1> QED BY <1>1, <1>2, <1>3

LEMMA SupportDecided ==
  ASSUME NEW line \in SupportLine, NEW items \in SUBSET [ref : Records, why : Hard \cup Soft],
         NEW hasHard \in BOOLEAN, NEW mayHeal \in BOOLEAN
  PROVE  LET d == DecideSupport(line, items, hasHard, mayHeal) IN
         /\ d.line \in SupportLine /\ d.write \in BOOLEAN /\ d.news \in BOOLEAN
         /\ d.line.items \subseteq line.items \cup items
         /\ d.write => ~Adjudication(line)
         /\ d.write /\ d.line = NoLine => items = {} /\ mayHeal
<1>1. CASE Adjudication(line)
  BY <1>1 DEF DecideSupport, Decision
<1>2. CASE ~Adjudication(line) /\ items # {}
  BY <1>2 DEF DecideSupport, Decision, Line, NoLine, SupportLine, Verdicts
<1>3. CASE ~Adjudication(line) /\ items = {}
  BY <1>3 DEF DecideSupport, Decision, Line, NoLine, SupportLine, Verdicts
<1> QED BY <1>1, <1>2, <1>3

LEMMA TextsTyped ==
  /\ NoLine \in FiredLine /\ NoLine \in SupportLine
  /\ NoRecord \in Text /\ Torn \subseteq Text
  /\ \A s \in Statuses : Record(s) \in Text
<1>1. NoLine \in FiredLine /\ NoLine \in SupportLine
  BY DEF NoLine, Line, FiredLine, SupportLine, Verdicts
<1>2. NoRecord \in Text /\ Torn \subseteq Text
  BY <1>1 DEF NoRecord, Record, Torn, Text
<1>3. ASSUME NEW s \in Statuses PROVE Record(s) \in Text
  BY <1>1 DEF Record, Text
<1> QED BY <1>1, <1>2, <1>3

LEMMA UpsertTyped ==
  ASSUME NEW t \in Text
  PROVE  /\ \A l \in FiredLine : Upsert(t, "fired", l) \in Text
         /\ \A l \in SupportLine : Upsert(t, "support", l) \in Text
BY DEF Upsert, Text

\* The initial states.
LEMMA InitInvariant == Init => AdrInvariant
<1> SUFFICES ASSUME Init PROVE AdrInvariant
  OBVIOUS
<1> USE DEF Init
<1>1. \A r \in Records : files[r] \in {Record(s) : s \in Statuses} \cup {NoRecord}
  BY AdrSweepAssumption
<1>2. files \in [Records -> Text]
  <2>1. files \in [Records -> {Record(s) : s \in Statuses} \cup {NoRecord}]
    BY AdrSweepAssumption
  <2> QED BY <2>1, TextsTyped
<1>3. TypeOK
  <2>1. dirs \subseteq Directories
    BY DEF Directories
  <2> QED BY <1>2, <2>1, TextsTyped, AdrSweepAssumption DEF TypeOK, Steps
<1>4. ResultsTyped /\ TextEarned /\ ResultsEarned /\ LaterOnly /\ ~InHand
  BY DEF ResultsTyped, TextEarned, ResultsEarned, LaterOnly, InHand
<1>5. ASSUME NEW r \in Records
      PROVE  /\ Explained(files[r], r) /\ fell[r] \subseteq Statuses \cup {"missing"}
             /\ files[r].fired = NoLine /\ files[r].support = NoLine
  <2>1. fell[r] = IF files[r].kind = "missing" THEN {"missing"} ELSE {files[r].status}
    OBVIOUS
  <2>2. NoLine.verdict = "none"
    BY DEF NoLine, Line
  <2>3. CASE files[r] = NoRecord
    <3>1. /\ files[r].kind = "missing" /\ files[r].status = ""
          /\ files[r].fired = NoLine /\ files[r].support = NoLine
      BY <2>3 DEF NoRecord, Record
    <3> QED BY <2>1, <2>2, <3>1 DEF Explained
  <2>4. CASE files[r] \in {Record(s) : s \in Statuses}
    <3>1. PICK s \in Statuses : files[r] = Record(s)
      BY <2>4
    <3>2. /\ files[r].kind = "text" /\ files[r].status = s
          /\ files[r].fired = NoLine /\ files[r].support = NoLine
      BY <3>1 DEF Record
    <3> QED BY <2>1, <2>2, <3>1, <3>2 DEF Explained
  <2> QED BY <1>1, <2>3, <2>4
<1>6. FellTyped
  BY <1>5 DEF FellTyped
<1>7. AllExplained
  BY <1>4, <1>5 DEF AllExplained
<1>8. \A r \in Records : files[r].fired = NoLine /\ files[r].support = NoLine
  BY <1>5
<1>9. Earned
  BY <1>8 DEF Earned, NoLine, Line
<1>10. AskedOnRecord /\ NagOnce
  BY DEF AskedOnRecord, NagOnce
<1> QED BY <1>3, <1>4, <1>6, <1>7, <1>9, <1>10 DEF AdrInvariant

-----------------------------------------------------------------------------
\* The sweep, one action at a time.

\* A step that touches neither a file nor the history, and has nothing in
\* hand afterwards, keeps what is said of them.
LEMMA NothingInHand ==
  ASSUME AdrInvariant, TypeOK', ~InHand', UNCHANGED <<files, history>>,
         found' \subseteq found
  PROVE  AdrInvariant'
<1> USE DEF history, AdrInvariant
<1>1. ResultsTyped' /\ TextEarned' /\ ResultsEarned' /\ LaterOnly'
  BY DEF ResultsTyped, TextEarned, ResultsEarned, LaterOnly, InHand
<1>2. FellTyped' /\ Earned' /\ AskedOnRecord'
  BY DEF FellTyped, Earned, Happened, AskedOnRecord
<1>3. AllExplained'
  BY DEF AllExplained, Explained
<1>4. NagOnce'
  BY DEF NagOnce
<1> QED BY <1>1, <1>2, <1>3, <1>4

LEMMA IdleTyped ==
  ASSUME TypeOK, Idle, UNCHANGED <<files, dirs, world>>, observed' = observed, asked' = asked
  PROVE  TypeOK' /\ ~InHand' /\ found' \subseteq found
BY TextsTyped DEF TypeOK, Idle, Steps, InHand

LEMMA BeginStep ==
  ASSUME AdrInvariant, NEW sel \in Selections, NEW d \in BOOLEAN, Begin(sel, d)
  PROVE  AdrInvariant'
<1>1. Enumerated(sel) \subseteq Records
  BY AdrSweepAssumption DEF Enumerated
<1>2. TypeOK' /\ ~InHand'
  BY <1>1 DEF AdrInvariant, TypeOK, Begin, history, Steps, InHand
<1> QED BY <1>2, NothingInHand DEF Begin, history

LEMMA SecondPassStep ==
  ASSUME AdrInvariant, SecondPass
  PROVE  AdrInvariant'
<1>1. TypeOK' /\ ~InHand'
  BY DEF AdrInvariant, TypeOK, SecondPass, history, Steps, InHand
<1> QED BY <1>1, NothingInHand DEF SecondPass, history

LEMMA SideEffectsStep ==
  ASSUME AdrInvariant, SideEffects
  PROVE  AdrInvariant'
<1>1. CASE dry
  <2>1. Idle /\ UNCHANGED <<files, dirs, world, history>>
    BY <1>1 DEF SideEffects
  <2> QED BY <2>1, IdleTyped, NothingInHand DEF AdrInvariant, history
<1>2. CASE ~dry
  <2>1. TypeOK' /\ ~InHand'
    BY <1>2 DEF AdrInvariant, TypeOK, SideEffects, history, Steps, InHand
  <2> QED BY <1>2, <2>1, NothingInHand DEF SideEffects, history
<1> QED BY <1>1, <1>2 DEF AdrInvariant, TypeOK

LEMMA EndsStep ==
  ASSUME AdrInvariant, AppendLog \/ Crash \/ WriteFails
  PROVE  AdrInvariant'
<1>1. Idle /\ UNCHANGED <<files, dirs, world, history>>
  BY DEF AppendLog, Crash, WriteFails
<1> QED BY <1>1, IdleTyped, NothingInHand DEF AdrInvariant, history

LEMMA SkipTaskStep ==
  ASSUME AdrInvariant, NEW i, SkipTask(i)
  PROVE  AdrInvariant'
<1>1. TypeOK' /\ ~InHand'
  BY DEF AdrInvariant, TypeOK, SkipTask, history, Steps, InHand
<1> QED BY <1>1, NothingInHand DEF SkipTask, history

LEMMA OpenTaskStep ==
  ASSUME AdrInvariant, NEW i, OpenTask(i)
  PROVE  AdrInvariant'
<1> USE DEF OpenTask, AdrInvariant
<1>1. TypeOK' /\ ~InHand'
  BY DEF TypeOK, Steps, InHand
<1>2. ResultsTyped' /\ TextEarned' /\ ResultsEarned' /\ LaterOnly'
  BY <1>1 DEF ResultsTyped, TextEarned, ResultsEarned, LaterOnly, InHand
<1>3. FellTyped' /\ Earned'
  BY DEF FellTyped, Earned, Happened
<1>4. AllExplained'
  BY <1>1 DEF AllExplained, Explained
<1>5. AskedOnRecord'
  BY DEF AskedOnRecord
<1>6. NagOnce'
  BY DEF NagOnce
<1> QED BY <1>1, <1>2, <1>3, <1>4, <1>5, <1>6

LEMMA WorldStep ==
  ASSUME AdrInvariant, WorldChanges
  PROVE  AdrInvariant'
<1> USE DEF AdrInvariant
<1>1. PICK a \in Records : \E l \in Commands[a], e \in Exits :
          world' = [world EXCEPT ![a][l] = e] /\ UNCHANGED <<files, dirs, process, history>>
  BY DEF WorldChanges
<1>2. PICK l \in Commands[a], e \in Exits :
          world' = [world EXCEPT ![a][l] = e] /\ UNCHANGED <<files, dirs, process, history>>
  BY <1>1
<1>3. l \in Labels
  BY AdrSweepAssumption DEF Commands
<1>4. world' \in [Records -> [Labels -> Exits]]
  BY <1>2, <1>3 DEF TypeOK
<1>5. TypeOK'
  BY <1>2, <1>4 DEF TypeOK, process, history
<1>6. ResultsTyped' /\ TextEarned' /\ ResultsEarned' /\ LaterOnly'
  BY <1>2 DEF ResultsTyped, TextEarned, ResultsEarned, LaterOnly, InHand, process, history,
              FiredItems, Losses, Happened
<1>7. FellTyped' /\ Earned' /\ AskedOnRecord' /\ NagOnce'
  BY <1>2 DEF FellTyped, Earned, Happened, AskedOnRecord, NagOnce, process, history
<1>8. AllExplained'
  BY <1>2 DEF AllExplained, Explained, InHand, process, history
<1> QED BY <1>5, <1>6, <1>7, <1>8

\* What was read is what is on disk.
LEMMA ReadStep ==
  ASSUME AdrInvariant, NEW declared, NEW now, NEW then,
         Read(declared, now, then),
         <<now, then>> \in {<<"pass1", "run">>, <<"pass2", "refs">>}
  PROVE  AdrInvariant'
<1> USE DEF AdrInvariant
<1> DEFINE a == First(todo)
<1>1. a \in todo /\ a \in Records /\ a \in swept
  BY FirstIsOne DEF TypeOK, Read
<1>2. UNCHANGED <<files, dirs, world, dry, roots, swept, found, history>> /\ results' = <<>>
  BY DEF Read, Nothing
<1>3. todo' = todo \ {a}
  BY DEF Read
<1>4. \/ Declares(files[a]) /\ step' = then /\ cur' = a /\ text' = files[a]
      \/ UNCHANGED <<step, cur, text>>
  BY DEF Read
<1>5. step = now /\ ~InHand
  BY DEF Read, InHand
<1> HIDE DEF a
<1>6. DOMAIN <<>> = {}
  OBVIOUS
<1>7. CASE Declares(files[a]) /\ step' = then /\ cur' = a /\ text' = files[a]
  <2>1. TypeOK'
    BY <1>1, <1>2, <1>3, <1>6, <1>7 DEF TypeOK, Steps, history
  <2>2. ResultsTyped' /\ ResultsEarned'
    BY <1>2, <1>6, <1>7 DEF ResultsTyped, ResultsEarned, FiredItems, Losses
  <2>3. FellTyped' /\ Earned' /\ AskedOnRecord' /\ NagOnce'
    BY <1>2 DEF FellTyped, Earned, Happened, AskedOnRecord, NagOnce, history
  <2>4. AllExplained'
    BY <1>1, <1>2, <1>7 DEF AllExplained, Explained, history
  <2>5. TextEarned'
    BY <1>1, <1>2, <1>7 DEF Earned, TextEarned, Happened, history
  <2>6. LaterOnly'
    BY <1>2, <1>7 DEF LaterOnly, Later, Declares
  <2> QED BY <2>1, <2>2, <2>3, <2>4, <2>5, <2>6
<1>8. CASE UNCHANGED <<step, cur, text>>
  <2>1. TypeOK' /\ ~InHand'
    BY <1>2, <1>3, <1>5, <1>8 DEF TypeOK, Steps, InHand, history
  <2> QED BY <1>2, <2>1, NothingInHand
<1> QED BY <1>4, <1>7, <1>8

LEMMA RunFalsifierStep ==
  ASSUME AdrInvariant, NEW l, RunFalsifier(l)
  PROVE  AdrInvariant'
<1> USE DEF AdrInvariant
<1> DEFINE c == world[cur][l]
<1>1. /\ step = "run" /\ InHand /\ cur \in Records
      /\ l \in Commands[cur] /\ l \in Labels
  BY AdrSweepAssumption DEF RunFalsifier, TypeOK, InHand, Commands
<1>2. /\ UNCHANGED <<files, dirs, world, step, dry, roots, swept, todo, cur, text, found, fell, asked>>
      /\ results' = Extended(l, Outcome(c))
      /\ observed' = [observed EXCEPT ![cur] = IF c = 1 THEN @ \cup {l} ELSE @]
  BY DEF RunFalsifier
<1>3. /\ Outcome(c) \in {"clean", "fired", "error"}
      /\ Outcome(c) = "fired" => c = 1
  BY DEF Outcome
<1>4. /\ DOMAIN results' = DOMAIN results \cup {l}
      /\ results'[l] = Outcome(c)
      /\ \A k \in DOMAIN results \ {l} : results'[k] = results[k]
      /\ results' \in [DOMAIN results' -> {"clean", "fired", "error"}]
  <2>1. results \in [DOMAIN results -> {"clean", "fired", "error"}]
    BY <1>1 DEF ResultsTyped
  <2> QED BY <1>2, <1>3, <2>1 DEF Extended
<1>5. /\ observed' \in [Records -> SUBSET Labels]
      /\ \A r \in Records : observed[r] \subseteq observed'[r]
      /\ c = 1 => l \in observed'[cur]
  BY <1>1, <1>2 DEF TypeOK
<1> HIDE DEF c
<1>6. TypeOK'
  BY <1>1, <1>2, <1>4, <1>5 DEF TypeOK
<1>7. ResultsTyped'
  BY <1>1, <1>2, <1>4 DEF ResultsTyped
<1>8. FellTyped' /\ AskedOnRecord' /\ NagOnce'
  BY <1>2 DEF FellTyped, AskedOnRecord, NagOnce
<1>9. AllExplained' /\ LaterOnly'
  BY <1>2 DEF AllExplained, Explained, LaterOnly, InHand
<1>10. Earned' /\ TextEarned'
  BY <1>1, <1>2, <1>5 DEF Earned, TextEarned, Happened, InHand
<1>11. ResultsEarned'
  BY <1>1, <1>2, <1>3, <1>4, <1>5 DEF ResultsEarned, FiredItems
<1> QED BY <1>6, <1>7, <1>8, <1>9, <1>10, <1>11

\* A look at a ref finds what has befallen its target.
LEMMA SupportHappened ==
  ASSUME AdrInvariant, NEW a, NEW r \in Records
  PROVE  /\ Support(a, r) \in Skipped \cup {"clean", "error"} \cup Hard \cup Soft
         /\ Support(a, r) = "unknown" => Dir[r] \in Projects \ roots
         /\ Support(a, r) \in Hard \cup Soft => Happened([ref |-> r, why |-> Support(a, r)])
<1> DEFINE f == files[r]
<1>1. Explained(f, r)
  BY DEF AdrInvariant, AllExplained
<1>2. f \in Text
  BY DEF AdrInvariant, TypeOK
<1> USE DEF Skipped
<1>3. CASE f.kind = "missing" \/ UnknownAlias(r) \/ r = a
  BY <1>1, <1>3 DEF Support, LossReason, Explained, Happened, Hard, Soft, HardDead, SoftDead, Parsed,
                    UnknownAlias
<1>4. CASE f.kind # "missing" /\ ~UnknownAlias(r) /\ r # a
  <2>1. Support(a, r) = LossReason(r)
    BY <1>4 DEF Support
  <2>2. CASE ~Parsed(f)
    <3>1. LossReason(r) = "error"
      BY <2>2 DEF LossReason
    <3> QED BY <2>1, <3>1 DEF Hard, Soft, HardDead
  <2>3. CASE Parsed(f) /\ f.status \in HardDead
    <3>1. LossReason(r) = f.status
      BY <2>3 DEF LossReason
    <3>2. f.kind = "text"
      BY <1>1, <2>3 DEF Explained, HardDead
    <3> QED BY <1>1, <2>1, <2>3, <3>1, <3>2 DEF Explained, Happened, Hard, Soft, HardDead
  <2>4. CASE Parsed(f) /\ f.status \notin HardDead /\ f.fired.verdict = "real"
    <3>1. LossReason(r) = "fired-real"
      BY <2>4 DEF LossReason
    <3> QED BY <1>1, <2>1, <2>4, <3>1 DEF Explained, Happened, Hard, Soft, HardDead
  <2>5. CASE /\ Parsed(f) /\ f.status \notin HardDead /\ f.fired.verdict # "real"
             /\ f.status \in SoftDead
    <3>1. LossReason(r) \in Soft
      BY <2>5 DEF LossReason, Soft
    <3>2. f.kind = "text"
      BY <1>1, <2>5 DEF Explained, SoftDead
    <3> QED BY <1>1, <2>1, <2>5, <3>1, <3>2 DEF Explained, Happened, Soft
  <2>6. CASE /\ Parsed(f) /\ f.status \notin HardDead /\ f.fired.verdict # "real"
             /\ f.status \notin SoftDead
    <3>1. LossReason(r) = "clean"
      BY <2>6 DEF LossReason
    <3> QED BY <2>1, <3>1 DEF Hard, Soft, HardDead
  <2> QED BY <2>2, <2>3, <2>4, <2>5, <2>6
<1> QED BY <1>3, <1>4

LEMMA FollowRefStep ==
  ASSUME AdrInvariant, NEW r, FollowRef(r)
  PROVE  AdrInvariant'
<1> DEFINE o == Support(cur, r)
<1>1. step = "refs" /\ InHand /\ cur \in Records /\ r \in Refs[cur] /\ r \in Records
  <2>1. step = "refs" /\ r \in Refs[cur]
    BY DEF FollowRef
  <2>2. InHand /\ (InHand => cur \in Records)
    <3>1. TypeOK
      BY DEF AdrInvariant
    <3> QED BY <2>1, <3>1 DEF TypeOK, InHand
  <2>3. Refs[cur] \subseteq Records
    BY <2>2, AdrSweepAssumption
  <2> QED BY <2>1, <2>2, <2>3
<1>2. /\ UNCHANGED <<files, dirs, world, step, dry, roots, swept, todo, cur, text, found, history>>
      /\ results' = Extended(r, o)
  BY DEF FollowRef
<1>3. /\ o \in Skipped \cup {"clean", "error"} \cup Hard \cup Soft
      /\ o = "unknown" => Dir[r] \in Projects \ roots
      /\ o \in Hard \cup Soft => Happened([ref |-> r, why |-> o])
  BY <1>1, SupportHappened
<1> HIDE DEF o
<1> USE DEF AdrInvariant
<1>4. /\ DOMAIN results' = DOMAIN results \cup {r}
      /\ results'[r] = o
      /\ \A k \in DOMAIN results \ {r} : results'[k] = results[k]
      /\ results' \in [DOMAIN results' -> Skipped \cup {"clean", "error"} \cup Hard \cup Soft]
  <2>1. results \in [DOMAIN results -> Skipped \cup {"clean", "error"} \cup Hard \cup Soft]
    BY <1>1 DEF ResultsTyped
  <2> QED BY <1>2, <1>3, <2>1 DEF Extended
<1>5. TypeOK'
  BY <1>1, <1>2, <1>4 DEF TypeOK, history
<1>6. ResultsTyped'
  BY <1>1, <1>2, <1>3, <1>4 DEF ResultsTyped
<1>7. FellTyped' /\ AskedOnRecord' /\ NagOnce'
  BY <1>2 DEF FellTyped, AskedOnRecord, NagOnce, history
<1>8. AllExplained' /\ LaterOnly'
  BY <1>2 DEF AllExplained, Explained, LaterOnly, InHand, history
<1>9. Earned' /\ TextEarned'
  BY <1>2 DEF Earned, TextEarned, Happened, InHand, history
<1>10. ResultsEarned'
  <2>1. ASSUME NEW p \in Losses' PROVE Happened(p)'
    <3>1. PICK k \in DOMAIN results' : results'[k] \in Hard \cup Soft /\ p = [ref |-> k, why |-> results'[k]]
      BY <2>1 DEF Losses
    <3>2. CASE k = r
      BY <1>2, <1>3, <1>4, <3>1, <3>2 DEF Happened, history
    <3>3. CASE k # r
      <4>1. p \in Losses
        BY <1>4, <3>1, <3>3 DEF Losses
      <4> QED BY <1>1, <1>2, <4>1 DEF ResultsEarned, Happened, history
    <3> QED BY <3>2, <3>3
  <2> QED BY <1>1, <1>2, <2>1 DEF ResultsEarned
<1> QED BY <1>5, <1>6, <1>7, <1>8, <1>9, <1>10

\* A file is replaced by a text that is explained and earned.
LEMMA FileReplaced ==
  ASSUME AdrInvariant, NEW a \in Records, NEW t \in Text,
         files' = [files EXCEPT ![a] = t],
         observed' = observed,
         fell' \in [Records -> SUBSET (Statuses \cup {"missing", "fired-real"})],
         \A r \in Records : fell[r] \subseteq fell'[r],
         asked' = asked \cap OnRecord(files'),
         Explained(t, a)',
         t.fired.items \subseteq observed[a],
         \A p \in t.support.items : Happened(p)
  PROVE  /\ files' \in [Records -> Text] /\ FellTyped' /\ AskedOnRecord' /\ Earned'
         /\ \A r \in Records : Explained(files[r], r)'
         /\ asked' \subseteq asked
         /\ \A r \in Records : \A u : Explained(u, r) => Explained(u, r)'
         /\ \A p \in [ref : Records, why : Hard \cup Soft] : Happened(p) => Happened(p)'
<1> USE DEF AdrInvariant
<1>1. files' \in [Records -> Text]
  BY DEF TypeOK
<1>2. FellTyped' /\ AskedOnRecord'
  BY DEF FellTyped, AskedOnRecord
<1>3. \A r \in Records : \A u : Explained(u, r) => Explained(u, r)'
  BY DEF Explained
<1>4. \A r \in Records : Explained(files[r], r)'
  <2>1. ASSUME NEW r \in Records, r # a PROVE Explained(files[r], r)'
    <3>1. files'[r] = files[r]
      BY <2>1 DEF TypeOK
    <3>2. Explained(files[r], r)
      BY DEF AllExplained
    <3> QED BY <3>1, <3>2 DEF Explained
  <2>2. files'[a] = t
    BY DEF TypeOK
  <2>3. Explained(files[a], a)'
    BY <2>2 DEF Explained
  <2> QED BY <2>1, <2>3
<1>5. \A p \in [ref : Records, why : Hard \cup Soft] : Happened(p) => Happened(p)'
  <2>1. ASSUME NEW p \in [ref : Records, why : Hard \cup Soft], Happened(p) PROVE Happened(p)'
    <3>1. fell[p.ref] \subseteq fell'[p.ref]
      OBVIOUS
    <3> QED BY <2>1, <3>1 DEF Happened
  <2> QED BY <2>1
<1>6. Earned'
  <2>1. ASSUME NEW r \in Records
        PROVE  /\ files'[r].fired.items \subseteq observed[r]
               /\ \A p \in files'[r].support.items : Happened(p)'
    <3>1. files'[r].support.items \subseteq [ref : Records, why : Hard \cup Soft]
      BY <1>1 DEF Text, SupportLine
    <3>2. CASE r = a
      BY <3>1, <3>2, <1>5 DEF TypeOK
    <3>3. CASE r # a
      BY <3>1, <3>3, <1>5 DEF TypeOK, Earned
    <3> QED BY <3>2, <3>3
  <2> QED BY <2>1 DEF Earned
<1> QED BY <1>1, <1>2, <1>3, <1>4, <1>5, <1>6

\* The items of a record that are announced are its own, and each is one.
LEMMA OnRecordOf ==
  ASSUME NEW fs \in [Records -> Text], NEW a \in Records
  PROVE  /\ \A l : Fire(a, l) \in OnRecord(fs) => l \in fs[a].fired.items
         /\ \A p \in [ref : Records, why : Hard \cup Soft] :
               Loss(a, p) \in OnRecord(fs) => p \in fs[a].support.items
<1>1. ASSUME NEW i, i \in OnRecord(fs)
      PROVE  \/ \E b \in Records : \E l \in fs[b].fired.items : i = Fire(b, l)
             \/ \E b \in Records : \E q \in fs[b].support.items : i = Loss(b, q)
  <2> DEFINE F == {{Fire(b, l) : l \in fs[b].fired.items} : b \in Records}
             L == {{Loss(b, q) : q \in fs[b].support.items} : b \in Records}
  <2>1. \A S \in F : \E b \in Records : S = {Fire(b, l) : l \in fs[b].fired.items}
    OBVIOUS
  <2>2. \A S \in L : \E b \in Records : S = {Loss(b, q) : q \in fs[b].support.items}
    OBVIOUS
  <2>3. i \in UNION F \/ i \in UNION L
    BY <1>1 DEF OnRecord
  <2> HIDE DEF F, L
  <2>4. CASE i \in UNION F
    <3>1. PICK S \in F : i \in S
      BY <2>4
    <3>2. PICK b \in Records : S = {Fire(b, l) : l \in fs[b].fired.items}
      BY <2>1, <3>1
    <3> QED BY <3>1, <3>2
  <2>5. CASE i \in UNION L
    <3>1. PICK S \in L : i \in S
      BY <2>5
    <3>2. PICK b \in Records : S = {Loss(b, q) : q \in fs[b].support.items}
      BY <2>2, <3>1
    <3> QED BY <3>1, <3>2
  <2> QED BY <2>3, <2>4, <2>5
<1>2. ASSUME NEW l, Fire(a, l) \in OnRecord(fs) PROVE l \in fs[a].fired.items
  <2>1. \A b, q : Fire(a, l) # Loss(b, q)
    BY DEF Fire, Loss
  <2>2. PICK b \in Records : \E m \in fs[b].fired.items : Fire(a, l) = Fire(b, m)
    BY <1>1, <1>2, <2>1
  <2>3. \A m : Fire(a, l) = Fire(b, m) => a = b /\ l = m
    BY DEF Fire
  <2> QED BY <2>2, <2>3
<1>3. ASSUME NEW p \in [ref : Records, why : Hard \cup Soft], Loss(a, p) \in OnRecord(fs)
      PROVE  p \in fs[a].support.items
  <2>1. \A b, l : Loss(a, p) # Fire(b, l)
    BY DEF Fire, Loss
  <2>2. PICK b \in Records : \E q \in fs[b].support.items : Loss(a, p) = Loss(b, q)
    BY <1>1, <1>3, <2>1
  <2>3. PICK q \in fs[b].support.items : Loss(a, p) = Loss(b, q)
    BY <2>2
  <2>4. q \in [ref : Records, why : Hard \cup Soft]
    BY DEF Text, SupportLine
  <2>5. b = a /\ q.ref = p.ref /\ q.why = p.why
    BY <2>3 DEF Loss
  <2> QED BY <2>3, <2>4, <2>5
<1> QED BY <1>2, <1>3

\* What may be announced.
LEMMA AnnouncedTyped ==
  ASSUME NEW a \in Records
  PROVE  /\ \A l \in Labels : Fire(a, l) \in Items
         /\ \A p \in [ref : Records, why : Hard \cup Soft] : Loss(a, p) \in Items
<1>1. ASSUME NEW l \in Labels
      PROVE  Fire(a, l) \in {Fire(b, m) : b \in Records, m \in Labels}
  OBVIOUS
<1>2. ASSUME NEW p \in [ref : Records, why : Hard \cup Soft]
      PROVE  \E r \in Records, w \in Hard \cup Soft : Loss(a, p) = Loss(a, [ref |-> r, why |-> w])
  <2>1. p.ref \in Records /\ p.why \in Hard \cup Soft
    OBVIOUS
  <2>2. Loss(a, p) = Loss(a, [ref |-> p.ref, why |-> p.why])
    BY DEF Loss
  <2> QED BY <2>1, <2>2
<1>3. ASSUME NEW p \in [ref : Records, why : Hard \cup Soft]
      PROVE  Loss(a, p) \in {Loss(b, [ref |-> r, why |-> w]) :
                               b \in Records, r \in Records, w \in Hard \cup Soft}
  BY <1>2
<1> QED BY <1>1, <1>3 DEF Items

\* A loss is of a record.
LEMMA LossesTyped ==
  ASSUME TypeOK, step = "refs"
  PROVE  Losses \subseteq [ref : Records, why : Hard \cup Soft]
<1>1. cur \in Records /\ DOMAIN results \subseteq Records
  BY AdrSweepAssumption DEF TypeOK
<1> QED BY <1>1 DEF Losses

\* What the text in hand is, and the line that it would be given.
LEMMA FireDecisionIs ==
  ASSUME AdrInvariant, step = "run", Commands[cur] \subseteq DOMAIN results
  PROVE  LET d == FireDecision IN
         /\ cur \in Records /\ InHand /\ text \in Text /\ FiredItems \subseteq Labels
         /\ d.line \in FiredLine /\ d.write \in BOOLEAN /\ d.news \in BOOLEAN
         /\ d.line.items \subseteq observed[cur]
         /\ d.line = text.fired \/ d.line.verdict \in {"none", "open"}
         /\ d.news => text.fired = NoLine
         /\ d.write => ~Adjudication(text.fired)
         /\ d.write /\ d.line = NoLine =>
               \A l \in Falsifiers[cur] : l \in DOMAIN results /\ results[l] = "clean"
<1> USE DEF AdrInvariant
<1> DEFINE heal == ~Errored /\ Malformed[cur] = {}
           d == FireDecision
<1>1. cur \in Records /\ InHand /\ text \in Text /\ text.fired \in FiredLine
  BY DEF TypeOK, InHand, Text
<1>2. FiredItems \subseteq Labels
  BY <1>1, AdrSweepAssumption DEF TypeOK, FiredItems, Commands
<1>3. heal \in BOOLEAN /\ d = DecideFired(text.fired, FiredItems, heal)
  BY DEF Errored, FireDecision
<1>4. heal /\ FiredItems = {} =>
         \A l \in Falsifiers[cur] : l \in DOMAIN results /\ results[l] = "clean"
  <2>1. Malformed[cur] = {} => Commands[cur] = Falsifiers[cur]
    BY <1>1 DEF Commands
  <2> QED BY <2>1 DEF Errored, FiredItems, ResultsTyped
<1> HIDE DEF heal, d
<1>5. /\ d.line \in FiredLine /\ d.write \in BOOLEAN /\ d.news \in BOOLEAN
      /\ d.line.items \subseteq text.fired.items \cup FiredItems
      /\ d.line = text.fired \/ d.line.verdict \in {"none", "open"}
      /\ d.news => text.fired = NoLine
      /\ d.write => ~Adjudication(text.fired)
      /\ d.write /\ d.line = NoLine => FiredItems = {} /\ heal
  BY <1>1, <1>2, <1>3, FiredDecided
<1>6. d.line.items \subseteq observed[cur]
  BY <1>1, <1>5 DEF TextEarned, ResultsEarned
<1> QED BY <1>1, <1>2, <1>4, <1>5, <1>6 DEF d

LEMMA LossDecisionIs ==
  ASSUME AdrInvariant, step = "refs", Refs[cur] \subseteq DOMAIN results
  PROVE  LET d == LossDecision IN
         /\ cur \in Records /\ InHand /\ text \in Text
         /\ Losses \subseteq [ref : Records, why : Hard \cup Soft]
         /\ d.line \in SupportLine /\ d.write \in BOOLEAN
         /\ \A p \in d.line.items : Happened(p)
         /\ d.write => ~Adjudication(text.support)
         /\ d.write /\ d.line = NoLine =>
               \A r \in Refs[cur] : r \in DOMAIN results /\ Passed(r)
<1> USE DEF AdrInvariant
<1> DEFINE heal == ~Errored
           hard == HardLosses # {}
           d == LossDecision
<1>1. cur \in Records /\ InHand /\ text \in Text /\ text.support \in SupportLine
  BY DEF TypeOK, InHand, Text
<1>2. Losses \subseteq [ref : Records, why : Hard \cup Soft]
  BY LossesTyped
<1>3. heal \in BOOLEAN /\ hard \in BOOLEAN /\ d = DecideSupport(text.support, Losses, hard, heal)
  BY DEF Errored, LossDecision
<1>4. heal /\ Losses = {} => \A r \in Refs[cur] : r \in DOMAIN results /\ Passed(r)
  <2>1. ASSUME heal, Losses = {}, NEW r \in Refs[cur]
        PROVE  r \in DOMAIN results /\ Passed(r)
    <3>1. /\ r \in DOMAIN results
          /\ results[r] \in Skipped \cup {"clean", "error"} \cup Hard \cup Soft
          /\ results[r] = "unknown" => Dir[r] \in Projects \ roots
      BY DEF ResultsTyped
    <3>2. results[r] \notin Hard \cup Soft
      BY <2>1, <3>1 DEF Losses
    <3>3. results[r] # "error"
      BY <2>1, <3>1 DEF Errored
    <3> QED BY <3>1, <3>2, <3>3 DEF Passed, Skipped
  <2> QED BY <2>1
<1> HIDE DEF heal, hard, d
<1>5. /\ d.line \in SupportLine /\ d.write \in BOOLEAN
      /\ d.line.items \subseteq text.support.items \cup Losses
      /\ d.write => ~Adjudication(text.support)
      /\ d.write /\ d.line = NoLine => Losses = {} /\ heal
  <2> HIDE DEF AdrInvariant
  <2> DEFINE e == DecideSupport(text.support, Losses, hard, heal)
  <2>1. /\ e.line \in SupportLine /\ e.write \in BOOLEAN
        /\ e.line.items \subseteq text.support.items \cup Losses
        /\ e.write => ~Adjudication(text.support)
        /\ e.write /\ e.line = NoLine => Losses = {} /\ heal
    BY <1>1, <1>2, <1>3, SupportDecided, ZenonT(40)
  <2> HIDE DEF e
  <2>2. d = e
    BY <1>3 DEF e
  <2> QED BY <2>1, <2>2
<1>6. \A p \in d.line.items : Happened(p)
  BY <1>1, <1>5 DEF TextEarned, ResultsEarned
<1> QED BY <1>1, <1>2, <1>4, <1>5, <1>6 DEF d

\* A step that ends the work on a record, with or without a write.
LEMMA Stored ==
  ASSUME AdrInvariant, NEW t \in Text, cur \in Records,
         files' = files \/ files' = [files EXCEPT ![cur] = t],
         Explained(t, cur), t.fired.items \subseteq observed[cur],
         \A p \in t.support.items : Happened(p),
         UNCHANGED <<dirs, world, observed, fell>>, roots' \subseteq Directories,
         asked' = asked \cap OnRecord(files'),
         found' \subseteq Items, found' \cap asked = {},
         step' \in Steps, dry' \in BOOLEAN, swept' \subseteq Records, todo' \subseteq swept',
         text' \in Text, ~InHand'
  PROVE  AdrInvariant'
<1> USE DEF AdrInvariant
<1> PICK c \in Records : c = cur
  OBVIOUS
<1>1. /\ files' \in [Records -> Text] /\ FellTyped' /\ AskedOnRecord' /\ Earned'
      /\ \A r \in Records : Explained(files[r], r)'
  <2>1. CASE files' = files
    BY <2>1 DEF TypeOK, FellTyped, AskedOnRecord, Earned, Happened, AllExplained, Explained
  <2>2. CASE files' = [files EXCEPT ![cur] = t]
    <3>1. Explained(t, c)'
      BY DEF Explained
    <3>2. /\ fell' \in [Records -> SUBSET (Statuses \cup {"missing", "fired-real"})]
          /\ \A r \in Records : fell[r] \subseteq fell'[r]
          /\ files' = [files EXCEPT ![c] = t]
      BY <2>2 DEF FellTyped
    <3> QED BY <3>1, <3>2, FileReplaced
  <2> QED BY <2>1, <2>2
<1>2. TypeOK'
  <2>1. asked' \subseteq Items
    BY DEF TypeOK
  <2>2. step' \notin {"run", "refs"}
    BY DEF InHand
  <2> QED BY <1>1, <2>1, <2>2 DEF TypeOK
<1>3. ResultsTyped' /\ TextEarned' /\ ResultsEarned' /\ LaterOnly'
  BY DEF ResultsTyped, TextEarned, ResultsEarned, LaterOnly, InHand
<1>4. AllExplained'
  BY <1>1 DEF AllExplained
<1>5. NagOnce'
  BY DEF NagOnce
<1> QED BY <1>1, <1>2, <1>3, <1>4, <1>5

LEMMA DecideFireStep ==
  ASSUME AdrInvariant, DecideFire
  PROVE  AdrInvariant'
<1> USE DEF AdrInvariant
<1> DEFINE d == FireDecision
           t == Upsert(text, "fired", d.line)
<1>1. step = "run" /\ Commands[cur] \subseteq DOMAIN results
  BY DEF DecideFire
<1>2. /\ cur \in Records /\ InHand /\ text \in Text /\ FiredItems \subseteq Labels
      /\ d.line \in FiredLine /\ d.write \in BOOLEAN /\ d.news \in BOOLEAN
      /\ d.line.items \subseteq observed[cur]
      /\ d.line = text.fired \/ d.line.verdict \in {"none", "open"}
      /\ d.news => text.fired = NoLine
  BY <1>1, FireDecisionIs
<1>3. /\ files' = files \/ files' = [files EXCEPT ![cur] = t]
      /\ asked' = asked \cap OnRecord(files')
      /\ found' = found \cup (IF d.news THEN {Fire(cur, l) : l \in FiredItems} ELSE {})
      /\ step' = "pass1" /\ text' = NoRecord
      /\ UNCHANGED <<dirs, world, dry, roots, swept, todo, observed, fell>>
  BY DEF DecideFire, Store
<1> HIDE DEF d
<1>4. t \in Text
  BY <1>2, UpsertTyped
<1>5. /\ t.kind = text.kind /\ t.status = text.status /\ t.support = text.support
      /\ t.fired = d.line
  BY <1>2 DEF Upsert, Text
<1> HIDE DEF t
<1>6. Explained(t, cur)
  <2>1. Explained(text, cur) /\ text.kind = "text"
    BY <1>2 DEF AllExplained, LaterOnly
  <2>2. d.line.verdict = "real" => "fired-real" \in fell[cur]
    BY <1>2, <2>1 DEF Explained
  <2> QED BY <1>5, <2>1, <2>2 DEF Explained
<1>7. t.fired.items \subseteq observed[cur] /\ \A p \in t.support.items : Happened(p)
  BY <1>2, <1>5 DEF TextEarned
<1>8. found' \subseteq Items
  <2>1. ASSUME NEW l \in Labels PROVE Fire(cur, l) \in Items
    BY <1>2, AnnouncedTyped
  <2> QED BY <1>2, <1>3, <2>1 DEF TypeOK
<1>9. found' \cap asked = {}
  <2>1. ASSUME d.news, NEW l \in FiredItems PROVE Fire(cur, l) \notin asked
    <3>1. files[cur].fired.items = {}
      BY <1>2, <2>1 DEF LaterOnly, Later, NoLine, Line
    <3> QED BY <1>2, <3>1, OnRecordOf DEF AskedOnRecord, TypeOK
  <2> QED BY <1>3, <2>1 DEF NagOnce
<1>10. /\ step' \in Steps /\ ~InHand' /\ text' \in Text
       /\ dry' \in BOOLEAN /\ roots' \subseteq Directories /\ swept' \subseteq Records /\ todo' \subseteq swept'
  BY <1>3, TextsTyped DEF TypeOK, Steps, InHand
<1> QED BY <1>2, <1>3, <1>4, <1>6, <1>7, <1>8, <1>9, <1>10, Stored

LEMMA DecideLossStep ==
  ASSUME AdrInvariant, DecideLoss
  PROVE  AdrInvariant'
<1> USE DEF AdrInvariant
<1> DEFINE d == LossDecision
           t == Upsert(text, "support", d.line)
           new == HardLosses \ text.support.items
<1>1. step = "refs" /\ Refs[cur] \subseteq DOMAIN results
  BY DEF DecideLoss
<1>2. /\ cur \in Records /\ InHand /\ text \in Text
      /\ Losses \subseteq [ref : Records, why : Hard \cup Soft]
      /\ d.line \in SupportLine /\ d.write \in BOOLEAN
      /\ \A p \in d.line.items : Happened(p)
  BY <1>1, LossDecisionIs
<1>3. /\ files' = files \/ files' = [files EXCEPT ![cur] = t]
      /\ asked' = asked \cap OnRecord(files')
      /\ found' \subseteq found \cup {Loss(cur, p) : p \in new}
      /\ step' = "pass2" /\ text' = NoRecord
      /\ UNCHANGED <<dirs, world, dry, roots, swept, todo, observed, fell>>
  BY DEF DecideLoss, Store
<1>4. new \subseteq [ref : Records, why : Hard \cup Soft]
  BY <1>2 DEF HardLosses
<1> HIDE DEF d
<1>5. t \in Text
  BY <1>2, UpsertTyped
<1>6. /\ t.kind = text.kind /\ t.status = text.status /\ t.fired = text.fired
      /\ t.support = d.line
  BY <1>2 DEF Upsert, Text
<1> HIDE DEF t
<1>7. Explained(t, cur)
  <2>1. Explained(text, cur) /\ text.kind = "text"
    BY <1>2 DEF AllExplained, LaterOnly
  <2> QED BY <1>6, <2>1 DEF Explained
<1>8. t.fired.items \subseteq observed[cur] /\ \A p \in t.support.items : Happened(p)
  BY <1>2, <1>6 DEF TextEarned
<1>9. found' \subseteq Items
  <2>1. ASSUME NEW p \in new PROVE Loss(cur, p) \in Items
    BY <1>2, <1>4, AnnouncedTyped
  <2> QED BY <1>3, <2>1 DEF TypeOK
<1>10. found' \cap asked = {}
  <2>1. ASSUME NEW p \in new PROVE Loss(cur, p) \notin asked
    <3>1. p \notin files[cur].support.items
      BY <1>2 DEF LaterOnly, Later, NoLine, Line
    <3> QED BY <1>2, <1>4, <3>1, OnRecordOf DEF AskedOnRecord, TypeOK
  <2> QED BY <1>3, <2>1 DEF NagOnce
<1>11. /\ step' \in Steps /\ ~InHand' /\ text' \in Text
       /\ dry' \in BOOLEAN /\ roots' \subseteq Directories /\ swept' \subseteq Records /\ todo' \subseteq swept'
  BY <1>3, TextsTyped DEF TypeOK, Steps, InHand
<1> QED BY <1>2, <1>3, <1>5, <1>7, <1>8, <1>9, <1>10, <1>11, Stored

LEMMA CrashWritingStep ==
  ASSUME AdrInvariant, CrashWriting
  PROVE  AdrInvariant'
<1> USE DEF AdrInvariant
<1>1. PICK t \in Torn : files' = [files EXCEPT ![cur] = t]
  BY DEF CrashWriting
<1>2. cur \in Records
  BY DEF CrashWriting, WriteDue, TypeOK
<1>3. t \in Text
  BY TextsTyped
<1>4. /\ t.kind \in {"empty", "cut"} /\ t.status = ""
      /\ t.fired = NoLine /\ t.support = NoLine
  BY DEF Torn, NoRecord, Record
<1>5. Explained(t, cur) /\ t.fired.items = {} /\ t.support.items = {}
  <2>1. NoLine.items = {} /\ NoLine.verdict # "real"
    BY DEF NoLine, Line
  <2> QED BY <1>4, <2>1 DEF Explained
<1>6. Idle /\ UNCHANGED <<dirs, world, observed, fell>> /\ asked' = asked \cap OnRecord(files')
  BY DEF CrashWriting
<1>7. /\ step' \in Steps /\ ~InHand' /\ text' \in Text /\ found' = {}
      /\ dry' \in BOOLEAN /\ roots' \subseteq Directories /\ swept' \subseteq Records /\ todo' \subseteq swept'
  BY <1>6, TextsTyped DEF Idle, Steps, InHand
<1> QED BY <1>1, <1>2, <1>3, <1>5, <1>6, <1>7, Stored

-----------------------------------------------------------------------------
\* People.

\* An edit leaves, takes away or judges a line, and what it does to the
\* record's state is noted.
LEMMA EditStep ==
  ASSUME AdrInvariant, NEW a \in Records, NEW t \in Text,
         NEW what \in SUBSET (Statuses \cup {"missing", "fired-real"}),
         Edit(a, t, what), dirs' \subseteq Directories,
         Later(t.fired, files[a].fired), Later(t.support, files[a].support),
         t.kind = "missing" => "missing" \in what,
         t.kind = "text" => t.status \in fell[a] \cup what,
         t.kind # "text" => t.status = "" /\ t.fired = NoLine /\ t.support = NoLine,
         t.fired.verdict = "real" => "fired-real" \in fell[a] \cup what
  PROVE  AdrInvariant'
<1> USE DEF AdrInvariant
<1>1. /\ files' = [files EXCEPT ![a] = t]
      /\ fell' = [fell EXCEPT ![a] = @ \cup what]
      /\ asked' = asked \cap OnRecord(files')
      /\ UNCHANGED <<world, process, observed>>
  BY DEF Edit
<1>2. /\ fell' \in [Records -> SUBSET (Statuses \cup {"missing", "fired-real"})]
      /\ \A r \in Records : fell[r] \subseteq fell'[r]
      /\ fell'[a] = fell[a] \cup what
  BY <1>1 DEF FellTyped
<1>3. Explained(t, a)'
  BY <1>2 DEF Explained
<1>4. /\ t.fired.items \subseteq files[a].fired.items
      /\ t.support.items \subseteq files[a].support.items
  <2>1. NoLine.items = {}
    BY DEF NoLine, Line
  <2> QED BY <2>1 DEF Later
<1>5. t.fired.items \subseteq observed[a] /\ \A p \in t.support.items : Happened(p)
  BY <1>4 DEF Earned
<1>6. /\ files' \in [Records -> Text] /\ FellTyped' /\ AskedOnRecord' /\ Earned'
      /\ \A r \in Records : Explained(files[r], r)'
      /\ asked' \subseteq asked
      /\ \A r \in Records : \A u : Explained(u, r) => Explained(u, r)'
      /\ \A p \in [ref : Records, why : Hard \cup Soft] : Happened(p) => Happened(p)'
  BY <1>1, <1>2, <1>3, <1>5, FileReplaced
<1>7. TypeOK'
  BY <1>1, <1>6 DEF TypeOK, process
<1>8. ResultsTyped' /\ NagOnce'
  BY <1>1, <1>6 DEF ResultsTyped, NagOnce, process
<1>9. AllExplained'
  <2>1. InHand => cur \in Records /\ Explained(text, cur)
    BY DEF AllExplained, TypeOK, InHand
  <2>2. InHand' <=> InHand
    BY <1>1 DEF InHand, process
  <2>3. ASSUME InHand PROVE Explained(text, cur)'
    <3>1. fell[cur] \subseteq fell'[cur] /\ cur' = cur /\ text' = text
      BY <1>1, <1>2, <2>1, <2>3 DEF process
    <3> QED BY <2>1, <2>3, <3>1 DEF Explained
  <2> QED BY <1>6, <2>2, <2>3 DEF AllExplained
<1>10. TextEarned' /\ ResultsEarned'
  <2>1. text.support.items \subseteq [ref : Records, why : Hard \cup Soft]
    BY DEF TypeOK, Text, SupportLine
  <2>2. step = "refs" => Losses \subseteq [ref : Records, why : Hard \cup Soft]
    BY LossesTyped
  <2>3. TextEarned'
    BY <1>1, <1>6, <2>1 DEF TextEarned, InHand, process
  <2>4. ResultsEarned'
    BY <1>1, <1>6, <2>2 DEF ResultsEarned, FiredItems, Losses, process
  <2> QED BY <2>3, <2>4
<1>11. LaterOnly'
  <2>1. CASE cur = a
    <3>1. files'[cur] = t
      BY <1>1, <2>1 DEF TypeOK
    <3>2. NoLine.verdict = "none"
      BY DEF NoLine, Line
    <3>3. \A x, y, z : Later(x, y) /\ Later(y, z) => Later(x, z)
      BY <3>2 DEF Later, Adjudication, Judged
    <3>4. UNCHANGED <<step, cur, text>>
      BY <1>1 DEF process
    <3>5. ASSUME InHand PROVE /\ text.kind = "text"
                              /\ Later(files[a].fired, text.fired)
                              /\ Later(files[a].support, text.support)
      BY <2>1, <3>5 DEF LaterOnly
    <3>6. InHand => Later(t.fired, text.fired) /\ Later(t.support, text.support)
      BY <3>3, <3>5
    <3> QED BY <3>1, <3>4, <3>5, <3>6 DEF LaterOnly, InHand
  <2>2. CASE cur # a
    <3>1. InHand => files'[cur] = files[cur]
      BY <1>1, <2>2 DEF TypeOK, InHand
    <3> QED BY <1>1, <3>1 DEF LaterOnly, InHand, process
  <2> QED BY <2>1, <2>2
<1> QED BY <1>6, <1>7, <1>8, <1>9, <1>10, <1>11

LEMMA PeopleStep ==
  ASSUME AdrInvariant, People
  PROVE  AdrInvariant'
<1> PICK a \in Records :
       \/ \E key \in {"fired", "support"}, v \in Judged : Adjudicate(a, key, v)
       \/ \E s \in Statuses : Revise(a, s) \/ Checkout(a, s)
       \/ Delete(a)
  BY DEF People
<1> DEFINE f == files[a]
<1>7. dirs' \subseteq Directories
  <2>1. dirs \subseteq Directories /\ Dir[a] \in Directories
    BY DEF AdrInvariant, TypeOK, Directories
  <2> QED BY <2>1 DEF Adjudicate, Revise, Checkout, Delete
<1>1. /\ f \in Text /\ f.fired \in FiredLine /\ f.support \in SupportLine
      /\ Explained(f, a)
  BY DEF AdrInvariant, TypeOK, Text, AllExplained
<1>2. ASSUME NEW v \in Judged, Adjudicate(a, "fired", v) PROVE AdrInvariant'
  <2> DEFINE t == [f EXCEPT !["fired"].verdict = v]
             what == IF v = "real" THEN {"fired-real"} ELSE {}
  <2>1. f.kind = "text" /\ f.fired.verdict = "open" /\ Edit(a, t, what)
    BY <1>2 DEF Adjudicate, Declares
  <2>2. /\ t \in Text /\ t.kind = f.kind /\ t.status = f.status /\ t.support = f.support
        /\ t.fired.verdict = v /\ t.fired.items = f.fired.items
    BY <1>1 DEF Text, FiredLine, Verdicts, Judged
  <2>3. Later(t.fired, f.fired) /\ Later(t.support, f.support)
    BY <2>1, <2>2 DEF Later, Adjudication
  <2> HIDE DEF t
  <2>4. /\ t.kind = "text" /\ t.status \in fell[a]
        /\ t.fired.verdict = "real" => "fired-real" \in what
    BY <1>1, <2>1, <2>2 DEF Explained
  <2>5. what \subseteq Statuses \cup {"missing", "fired-real"}
    OBVIOUS
  <2> HIDE DEF what
  <2> QED BY <2>1, <2>2, <2>3, <2>4, <2>5, <1>7, EditStep
<1>3. ASSUME NEW v \in Judged, Adjudicate(a, "support", v) PROVE AdrInvariant'
  <2> DEFINE t == [f EXCEPT !["support"].verdict = v]
  <2>1. f.kind = "text" /\ f.support.verdict = "open" /\ Edit(a, t, {})
    BY <1>3 DEF Adjudicate, Declares
  <2>2. /\ t \in Text /\ t.kind = f.kind /\ t.status = f.status /\ t.fired = f.fired
        /\ t.support.verdict = v /\ t.support.items = f.support.items
    BY <1>1 DEF Text, SupportLine, Verdicts, Judged
  <2>3. Later(t.fired, f.fired) /\ Later(t.support, f.support)
    BY <1>3, <2>1, <2>2 DEF Later, Adjudication
  <2> HIDE DEF t
  <2>4. /\ t.kind = "text" /\ t.status \in fell[a]
        /\ t.fired.verdict = "real" => "fired-real" \in fell[a]
    BY <1>1, <2>1, <2>2 DEF Explained
  <2> QED BY <2>1, <2>2, <2>3, <2>4, <1>7, EditStep
<1>4. ASSUME NEW s \in Statuses, Revise(a, s) PROVE AdrInvariant'
  <2> DEFINE t == [f EXCEPT !.status = s, !.fired = Unjudged(@), !.support = Unjudged(@)]
  <2>1. f.kind = "text" /\ Edit(a, t, {s})
    BY <1>4 DEF Revise, Declares
  <2>2. /\ Unjudged(f.fired) \in FiredLine /\ Later(Unjudged(f.fired), f.fired)
        /\ Unjudged(f.support) \in SupportLine /\ Later(Unjudged(f.support), f.support)
        /\ Unjudged(f.fired).verdict # "real"
    BY <1>1, TextsTyped DEF Unjudged, Later, Adjudication, Judged, NoLine, Line
  <2>3. /\ t \in Text /\ t.kind = f.kind /\ t.status = s
        /\ t.fired = Unjudged(f.fired) /\ t.support = Unjudged(f.support)
    BY <1>1, <2>2 DEF Text
  <2> HIDE DEF t
  <2> QED BY <2>1, <2>2, <2>3, <1>7, EditStep
<1>5. ASSUME NEW s \in Statuses, Checkout(a, s) PROVE AdrInvariant'
  <2>1. Edit(a, Record(s), {s})
    BY <1>5 DEF Checkout
  <2>2. /\ Record(s) \in Text
        /\ Record(s).kind = "text" /\ Record(s).status = s
        /\ Record(s).fired = NoLine /\ Record(s).support = NoLine /\ NoLine.verdict # "real"
    BY TextsTyped DEF Record, NoLine, Line
  <2> QED BY <2>1, <2>2, <1>7, EditStep DEF Later
<1>6. CASE Delete(a)
  <2>1. Edit(a, NoRecord, {"missing"})
    BY <1>6 DEF Delete
  <2>2. /\ NoRecord \in Text
        /\ NoRecord.kind = "missing" /\ NoRecord.status = ""
        /\ NoRecord.fired = NoLine /\ NoRecord.support = NoLine /\ NoLine.verdict # "real"
    BY TextsTyped DEF NoRecord, Record, NoLine, Line
  <2> QED BY <2>1, <2>2, <1>7, EditStep DEF Later
<1> QED BY <1>2, <1>3, <1>4, <1>5, <1>6

-----------------------------------------------------------------------------
\* Every step of the sweep keeps the invariant.
LEMMA SweepStep ==
  ASSUME AdrInvariant, Sweep
  PROVE  AdrInvariant'
<1>1. CASE ReadRecord
  <2>1. Read(Commands, "pass1", "run")
    BY <1>1 DEF ReadRecord
  <2>2. <<"pass1", "run">> \in {<<"pass1", "run">>, <<"pass2", "refs">>}
    OBVIOUS
  <2> QED BY <2>1, <2>2, ReadStep, Zenon
<1>2. CASE \E l \in Labels : RunFalsifier(l)
  BY <1>2, RunFalsifierStep
<1>3. CASE DecideFire
  BY <1>3, DecideFireStep
<1>4. CASE SecondPass
  BY <1>4, SecondPassStep
<1>5. CASE ReadAgain
  <2>1. Read(Refs, "pass2", "refs")
    BY <1>5 DEF ReadAgain
  <2>2. <<"pass2", "refs">> \in {<<"pass1", "run">>, <<"pass2", "refs">>}
    OBVIOUS
  <2> QED BY <2>1, <2>2, ReadStep, Zenon
<1>6. CASE \E r \in Records : FollowRef(r)
  BY <1>6, FollowRefStep
<1>7. CASE DecideLoss
  BY <1>7, DecideLossStep
<1>8. CASE SideEffects
  BY <1>8, SideEffectsStep
<1>9. CASE \E i \in found : OpenTask(i) \/ SkipTask(i)
  BY <1>9, OpenTaskStep, SkipTaskStep
<1>10. CASE AppendLog \/ WriteFails
  BY <1>10, EndsStep
<1> QED BY <1>1, <1>2, <1>3, <1>4, <1>5, <1>6, <1>7, <1>8, <1>9, <1>10 DEF Sweep

LEMMA UnchangedStep ==
  ASSUME AdrInvariant, UNCHANGED vars
  PROVE  AdrInvariant'
<1> USE DEF vars, process, history, AdrInvariant
<1>1. TypeOK'
  BY DEF TypeOK
<1>2. ResultsTyped' /\ FellTyped' /\ Earned'
  BY DEF ResultsTyped, FellTyped, Earned, Happened
<1>3. AllExplained' /\ LaterOnly'
  BY DEF AllExplained, Explained, LaterOnly, InHand
<1>4. TextEarned' /\ ResultsEarned'
  BY DEF TextEarned, ResultsEarned, FiredItems, Losses, InHand, Happened
<1>5. AskedOnRecord' /\ NagOnce'
  BY DEF AskedOnRecord, NagOnce
<1> QED BY <1>1, <1>2, <1>3, <1>4, <1>5

\* The inductive invariant holds of every state of the sweep.
THEOREM AdrSweepInductive == Spec => []AdrInvariant
<1>1. Init => AdrInvariant
  BY InitInvariant
<1>2. AdrInvariant /\ [Next]_vars => AdrInvariant'
  <2> SUFFICES ASSUME AdrInvariant, [Next]_vars PROVE AdrInvariant'
    OBVIOUS
  <2>1. CASE \E sel \in Selections, d \in BOOLEAN : Begin(sel, d)
    BY <2>1, BeginStep
  <2>2. CASE Sweep
    BY <2>2, SweepStep
  <2>3. CASE Crash
    BY <2>3, EndsStep
  <2>4. CASE CrashWriting
    BY <2>4, CrashWritingStep
  <2>5. CASE People
    BY <2>5, PeopleStep
  <2>6. CASE WorldChanges
    BY <2>6, WorldStep
  <2>7. CASE UNCHANGED vars
    BY <2>7, UnchangedStep
  <2> QED BY <2>1, <2>2, <2>3, <2>4, <2>5, <2>6, <2>7 DEF Next
<1> QED BY <1>1, <1>2, PTL DEF Spec

\* What the sweep has put on record was observed by a command that exited 1,
\* or befell a target through people; no fire counts before it was judged.
THEOREM EarnedCorrect == Spec => []Earned
BY AdrSweepInductive, PTL DEF AdrInvariant

\* Nothing is announced twice while it stands on record.
THEOREM NagOnceCorrect == Spec => []NagOnce
BY AdrSweepInductive, PTL DEF AdrInvariant

\* What LinesRespected says of a step.
RespectsLines ==
    \A a \in Records, key \in {"fired", "support"} :
        step' # step /\ Declares(files[a]) /\ Declares(files'[a]) =>
            /\ Untouched(files[a][key], files'[a][key], text[key])
            /\ text[key] = files[a][key] => Healed(files[a][key], files'[a][key])

\* A step that writes no file respects every line.
LEMMA NoWriteRespects ==
  ASSUME files' = files
  PROVE  RespectsLines
BY DEF RespectsLines, Untouched, Healed, NoLine, Line

LEMMA DecideFireRespects ==
  ASSUME AdrInvariant, DecideFire
  PROVE  RespectsLines
<1> DEFINE d == FireDecision
           t == Upsert(text, "fired", d.line)
<1>1. step = "run" /\ Commands[cur] \subseteq DOMAIN results
  BY DEF DecideFire
<1>2. /\ cur \in Records /\ InHand /\ text \in Text
      /\ d.line \in FiredLine /\ d.write \in BOOLEAN
      /\ d.write => ~Adjudication(text.fired)
      /\ d.write /\ d.line = NoLine =>
            \A l \in Falsifiers[cur] : l \in DOMAIN results /\ results[l] = "clean"
  BY <1>1, FireDecisionIs
<1>3. files' = files \/ (d.write /\ files' = [files EXCEPT ![cur] = t])
  <2>1. Store("fired", d)
    BY DEF DecideFire
  <2> QED BY <2>1 DEF Store, Writes
<1> HIDE DEF d
<1>4. t.support = text.support /\ t.fired = d.line
  BY <1>2 DEF Upsert, Text
<1> HIDE DEF t
<1>5. CASE d.write /\ files' = [files EXCEPT ![cur] = t]
  <2>1. Later(files[cur].support, text.support)
    BY <1>2 DEF AdrInvariant, LaterOnly
  <2>2. Untouched(files[cur].fired, t.fired, text.fired)
    BY <1>2, <1>5 DEF Untouched
  <2>3. Untouched(files[cur].support, t.support, text.support)
    BY <1>4, <2>1 DEF Untouched, Later, Adjudication, Judged, NoLine, Line
  <2>4. Healed(files[cur].fired, t.fired)
    BY <1>1, <1>2, <1>4, <1>5 DEF Healed
  <2>5. text.support = files[cur].support => Healed(files[cur].support, t.support)
    BY <1>4 DEF Healed, NoLine, Line
  <2>6. files'[cur] = t /\ \A a \in Records \ {cur} : files'[a] = files[a]
    BY <1>2, <1>5 DEF AdrInvariant, TypeOK
  <2>7. \A line : Untouched(line, line, text.fired) /\ Untouched(line, line, text.support)
                  /\ Healed(line, line)
    BY DEF Untouched, Healed, NoLine, Line
  <2> QED BY <2>2, <2>3, <2>4, <2>5, <2>6, <2>7 DEF RespectsLines
<1> QED BY <1>3, <1>5, NoWriteRespects

LEMMA DecideLossRespects ==
  ASSUME AdrInvariant, DecideLoss
  PROVE  RespectsLines
<1> DEFINE d == LossDecision
           t == Upsert(text, "support", d.line)
<1>1. step = "refs" /\ Refs[cur] \subseteq DOMAIN results
  BY DEF DecideLoss
<1>2. /\ cur \in Records /\ InHand /\ text \in Text
      /\ d.line \in SupportLine /\ d.write \in BOOLEAN
      /\ d.write => ~Adjudication(text.support)
      /\ d.write /\ d.line = NoLine =>
            \A r \in Refs[cur] : r \in DOMAIN results /\ Passed(r)
  BY <1>1, LossDecisionIs
<1>3. files' = files \/ (d.write /\ files' = [files EXCEPT ![cur] = t])
  <2>1. Store("support", d)
    BY DEF DecideLoss
  <2> QED BY <2>1 DEF Store, Writes
<1> HIDE DEF d
<1>4. t.fired = text.fired /\ t.support = d.line
  BY <1>2 DEF Upsert, Text
<1> HIDE DEF t
<1>5. CASE d.write /\ files' = [files EXCEPT ![cur] = t]
  <2>1. Later(files[cur].fired, text.fired)
    BY <1>2 DEF AdrInvariant, LaterOnly
  <2>2. Untouched(files[cur].support, t.support, text.support)
    BY <1>2, <1>5 DEF Untouched
  <2>3. Untouched(files[cur].fired, t.fired, text.fired)
    BY <1>4, <2>1 DEF Untouched, Later, Adjudication, Judged, NoLine, Line
  <2>4. Healed(files[cur].support, t.support)
    BY <1>1, <1>2, <1>4, <1>5 DEF Healed
  <2>5. text.fired = files[cur].fired => Healed(files[cur].fired, t.fired)
    BY <1>4 DEF Healed, NoLine, Line
  <2>6. files'[cur] = t /\ \A a \in Records \ {cur} : files'[a] = files[a]
    BY <1>2, <1>5 DEF AdrInvariant, TypeOK
  <2>7. \A line : Untouched(line, line, text.fired) /\ Untouched(line, line, text.support)
                  /\ Healed(line, line)
    BY DEF Untouched, Healed, NoLine, Line
  <2> QED BY <2>2, <2>3, <2>4, <2>5, <2>6, <2>7 DEF RespectsLines
<1> QED BY <1>3, <1>5, NoWriteRespects

\* A write that is cut short leaves no record that declares anything.
LEMMA CrashWritingRespects ==
  ASSUME AdrInvariant, CrashWriting
  PROVE  RespectsLines
<1>1. PICK t \in Torn : files' = [files EXCEPT ![cur] = t]
  BY DEF CrashWriting
<1>2. ~Declares(t)
  BY DEF Torn, Declares, NoRecord, Record
<1>3. /\ ~Declares(files'[cur])
      /\ \A a \in Records \ {cur} : files'[a] = files[a]
  BY <1>1, <1>2 DEF AdrInvariant, TypeOK, CrashWriting, WriteDue
<1> QED BY <1>3 DEF RespectsLines, Untouched, Healed, NoLine, Line

\* The sweep never touches a line that had a verdict when it read the
\* record.  It takes an open one away only when it found all the commands
\* clean, or every ref clean or skipped for one of the two reasons of Passed.
THEOREM LinesRespectedCorrect == Spec => LinesRespected
<1>1. AdrInvariant /\ [Next]_vars => [RespectsLines]_vars
  <2> SUFFICES ASSUME AdrInvariant, Next PROVE RespectsLines
    OBVIOUS
  <2>1. CASE \E sel \in Selections, d \in BOOLEAN : Begin(sel, d)
    BY <2>1, NoWriteRespects DEF Begin
  <2>2. CASE Sweep
    <3>1. CASE DecideFire
      BY <3>1, DecideFireRespects
    <3>2. CASE DecideLoss
      BY <3>2, DecideLossRespects
    <3>3. CASE ~DecideFire /\ ~DecideLoss
      <4>1. files' = files
        BY <2>2, <3>3 DEF Sweep, ReadRecord, ReadAgain, Read, RunFalsifier, SecondPass, FollowRef,
                          WriteFails, SideEffects, OpenTask, SkipTask, AppendLog
      <4> QED BY <4>1, NoWriteRespects
    <3> QED BY <3>1, <3>2, <3>3
  <2>3. CASE Crash
    BY <2>3, NoWriteRespects DEF Crash
  <2>4. CASE CrashWriting
    BY <2>4, CrashWritingRespects
  <2>5. CASE People
    <3>1. ASSUME NEW a \in Records, NEW t, NEW what, Edit(a, t, what)
          PROVE  step' = step
      BY <3>1 DEF Edit, process
    <3>2. ASSUME NEW a \in Records, Delete(a) PROVE step' = step
      BY <3>2, <3>1 DEF Delete, process
    <3>3. step' = step
      BY <2>5, <3>1, <3>2 DEF People, Adjudicate, Revise, Checkout
    <3> QED BY <3>3 DEF RespectsLines
  <2>6. CASE WorldChanges
    BY <2>6, NoWriteRespects DEF WorldChanges
  <2> QED BY <2>1, <2>2, <2>3, <2>4, <2>5, <2>6 DEF Next
<1>2. Spec => [][RespectsLines]_vars
  BY <1>1, AdrSweepInductive, PTL DEF Spec
<1> QED BY <1>2 DEF LinesRespected, RespectsLines
=============================================================================
