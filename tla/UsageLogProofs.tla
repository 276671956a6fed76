--------------------------- MODULE UsageLogProofs ---------------------------
(***************************************************************************)
\* The two promises of UsageLog, proved for every set of appenders, runs and
\* spellings, and every number of processes under way, kills and faults.
\* 
\* The argument: what another run's process would put back over the log has
\* the lines of a run as the log has them (Others), unless a line was added or
\* removed beside it; so the process that adds a line finds none (Cleared),
\* and the lines of a run are those of the last one (Latest).  A line, once
\* there, is in the log and in all copies, or a process of the run is about
\* to add another (Held).
(***************************************************************************)
EXTENDS UsageLog, TLAPS

Working == {"grep", "awk", "move", "append"}
Part(S, r) == {l \in S : l.run = r}

TypeOK ==
    /\ at \in [Appenders -> Working \cup {"start", "done", "killed"}]
    /\ line \in [Appenders -> SUBSET UNION {LineOf(a) : a \in Appenders}]
    /\ log \in SUBSET UNION {LineOf(a) : a \in Appenders}
    /\ copy \in [Appenders -> SUBSET UNION {LineOf(a) : a \in Appenders}]
    /\ newest \in [Appenders -> Appenders]

\* The line of one that is under way is its own; lines in the log and in the
\* copies are of those that are done.
InHand == \A a \in Appenders : at[a] \in Working => \E l \in LineOf(a) : line[a] = {l}
Written ==
    /\ \A l \in log : at[l.by] = "done"
    /\ \A a \in Appenders : \A l \in copy[a] : at[l.by] = "done"

\* Two of one run under way have met; a killed one is broken.
Alone == \A a, b \in Active : RunOf[a] = RunOf[b] /\ a # b => a \in met
Killed == \A a \in Appenders : at[a] = "killed" => a \in broken

\* The lines of an undisturbed run in another run's copy are those of the log.
Others ==
    \A a, d \in Appenders :
        ~Disturbed(RunOf[a]) /\ at[d] = "move" /\ RunOf[d] # RunOf[a] =>
            Part(copy[d], RunOf[a]) = LinesOf(RunOf[a])

\* They are those of its last appender, in the log and in its own copy.
Latest ==
    \A a \in Appenders : ~Disturbed(RunOf[a]) =>
        /\ \A l \in LinesOf(RunOf[a]) : l.by = newest[a]
        /\ \A d \in Appenders : at[d] = "move" /\ RunOf[d] = RunOf[a] =>
               \A l \in Part(copy[d], RunOf[a]) : l.by = newest[a]

\* They are gone when the next one is about to be added.
Cleared ==
    \A a \in Appenders : ~Disturbed(RunOf[a]) /\ Spelled[a] = "resolved" =>
        /\ at[a] = "append" => LinesOf(RunOf[a]) = {}
        /\ at[a] = "move" => Part(copy[a], RunOf[a]) = {}

Lost(r) == \E b \in OfRun(r) : b \in raced \/ at[b] = "killed"

Held ==
    \A a \in Appenders : at[a] = "done" /\ ~Lost(RunOf[a]) =>
        \/ \E b \in OfRun(RunOf[a]) : at[b] = "append"
        \/ /\ LinesOf(RunOf[a]) # {}
           /\ \A d \in Appenders : at[d] = "move" /\ RunOf[d] # RunOf[a] =>
                  Part(copy[d], RunOf[a]) # {}

IInv == /\ TypeOK /\ InHand /\ Written /\ Alone /\ Killed
        /\ Others /\ Latest /\ Cleared /\ Held

-----------------------------------------------------------------------------
\* A line has its appender's run; it is spelled as its appender spelled it or
\* resolved, and in no case otherwise.
LEMMA LineFacts ==
    ASSUME NEW a \in Appenders, NEW l \in LineOf(a)
    PROVE  /\ l.run = RunOf[a] /\ l.by = a
           /\ l.as = "resolved" \/ (l.as = "raw" /\ Spelled[a] = "raw")
  BY UsageLogAssumption DEF LineOf

\* A line that awk would drop is one that grep finds.
LEMMA NamedIsMentioned ==
    ASSUME NEW a \in Appenders, NEW l, Names(l, a)
    PROVE  Mentions(l, a)
<1>1. RunOf[a] \in Seq(Nat)  BY UsageLogAssumption
<1>2. SubSeq(RunOf[a], 1, Len(RunOf[a])) = RunOf[a] /\ Len(RunOf[a]) \in Nat
  BY <1>1, SMT
<1> QED  BY <1>2 DEF Names, Mentions

\* A run that is undisturbed after a step was so before it: what disturbs a
\* run is never taken back.
LEMMA Undisturbed ==
    ASSUME TypeOK, LogNext, NEW r, ~Disturbed(r)'
    PROVE  ~Disturbed(r)
<1> SUFFICES ASSUME NEW a \in OfRun(r),
                    \/ Spelled[a] = "raw" /\ at[a] = "done"
                    \/ a \in met \cup broken \cup raced \cup undone
             PROVE  FALSE
  BY DEF Disturbed
<1>1. a \in Appenders /\ a \in OfRun(r)'  BY DEF OfRun
<1>2. at[a] = "done" => at'[a] = "done"
  BY <1>1 DEF LogNext, Start, Grep, Rewrite, RewriteFails, Move, AddLine, KillAppender, To,
              TypeOK, Active
<1>3. a \in met \cup broken \cup raced \cup undone
          => (a \in met \cup broken \cup raced \cup undone)'
  BY DEF LogNext, Start, Grep, Rewrite, RewriteFails, Move, AddLine, KillAppender
<1> QED  BY <1>1, <1>2, <1>3 DEF Disturbed

\* Every action moves one appender.
LEMMA Moves ==
    ASSUME TypeOK, NEW c \in Appenders,
           \/ Start(c) \/ Grep(c) \/ Rewrite(c) \/ RewriteFails(c) \/ Move(c) \/ AddLine(c)
           \/ KillAppender(c)
    PROVE  /\ \A a \in Appenders \ {c} : at'[a] = at[a]
           /\ at[c] \notin {"done", "killed"}
           /\ Start(c) => at'[c] = "grep" /\ at[c] = "start"
           /\ Grep(c) => at'[c] \in {"awk", "append"} /\ at[c] = "grep"
           /\ Rewrite(c) => at'[c] = "move" /\ at[c] = "awk"
           /\ RewriteFails(c) => at'[c] = "append" /\ at[c] = "awk"
           /\ Move(c) => at'[c] = "append" /\ at[c] = "move"
           /\ AddLine(c) => at'[c] = "done" /\ at[c] = "append"
           /\ KillAppender(c) => at'[c] = "killed" /\ at[c] \in Working
  BY DEF Start, Grep, Rewrite, RewriteFails, Move, AddLine, KillAppender, To, TypeOK, Active,
         Working

\* The initial state has the invariant.
LEMMA InitOK == ASSUME LogInit PROVE IInv
<1>1. TypeOK  BY DEF LogInit, TypeOK
<1>2. InHand /\ Written /\ Alone /\ Killed
  BY DEF LogInit, InHand, Written, Alone, Killed, Working, Active
<1>3. Others /\ Latest /\ Cleared /\ Held
  BY DEF LogInit, Others, Latest, Cleared, Held, LinesOf, Part
<1> QED  BY <1>1, <1>2, <1>3 DEF IInv

\* Every step keeps the types.
LEMMA TypeStep == ASSUME TypeOK, InHand, LogNext PROVE TypeOK'
<1> PICK c \in Appenders :
        \/ Start(c) \/ Grep(c) \/ Rewrite(c) \/ RewriteFails(c) \/ Move(c) \/ AddLine(c)
        \/ KillAppender(c)
  BY DEF LogNext
<1>1. CASE Start(c)  BY <1>1 DEF Start, To, TypeOK, Working
<1>2. CASE Grep(c)  BY <1>2 DEF Grep, To, TypeOK, Working
<1>3. CASE Rewrite(c)  BY <1>3 DEF Rewrite, To, TypeOK, Working
<1>4. CASE RewriteFails(c)  BY <1>4 DEF RewriteFails, To, TypeOK, Working
<1>5. CASE Move(c)  BY <1>5 DEF Move, To, TypeOK, Working
<1>6. CASE AddLine(c)
  <2>1. log' \subseteq UNION {LineOf(a) : a \in Appenders}
    BY <1>6 DEF AddLine, TypeOK
  <2>2. newest' \in [Appenders -> Appenders]  BY <1>6 DEF AddLine, TypeOK
  <2> QED  BY <1>6, <2>1, <2>2 DEF AddLine, To, TypeOK, Working
<1>7. CASE KillAppender(c)  BY <1>7 DEF KillAppender, To, TypeOK, Working
<1> QED  BY <1>1, <1>2, <1>3, <1>4, <1>5, <1>6, <1>7

\* Every step keeps what is said of the lines, and of the processes of a run.
LEMMA WrittenStep == ASSUME TypeOK, InHand, Written, LogNext PROVE InHand' /\ Written'
<1> PICK c \in Appenders :
        \/ Start(c) \/ Grep(c) \/ Rewrite(c) \/ RewriteFails(c) \/ Move(c) \/ AddLine(c)
        \/ KillAppender(c)
  BY DEF LogNext
<1>a. \A b \in Appenders : at[b] = "done" => at'[b] = "done"  BY Moves
<1>b. /\ \A l \in log : l.by \in Appenders
      /\ \A b \in Appenders : \A l \in copy[b] : l.by \in Appenders
  BY LineFacts DEF TypeOK
<1>c. \A l \in log : at'[l.by] = "done"  BY <1>a, <1>b DEF Written
<1>d. \A b \in Appenders : \A l \in copy[b] : at'[l.by] = "done"
  BY <1>a, <1>b DEF Written
<1>e. InHand'
  <2> SUFFICES ASSUME NEW b \in Appenders, at'[b] \in Working
               PROVE  \E l \in LineOf(b) : line'[b] = {l}
    BY DEF InHand, LineOf
  <2>1. CASE Start(c) /\ b = c  BY <2>1 DEF Start, TypeOK
  <2>2. CASE ~(Start(c) /\ b = c)
    <3>1. at[b] \in Working /\ ~(AddLine(c) /\ b = c) /\ ~(KillAppender(c) /\ b = c)
      BY <2>2, Moves DEF Working
    <3>2. line'[b] = line[b]
      BY <2>2, <3>1 DEF TypeOK, Start, Grep, Rewrite, RewriteFails, Move, AddLine,
                        KillAppender
    <3> QED  BY <3>1, <3>2 DEF InHand
  <2> QED  BY <2>1, <2>2
<1>1. CASE Start(c) \/ Grep(c) \/ RewriteFails(c)
  BY <1>1, <1>c, <1>d, <1>e DEF Start, Grep, RewriteFails, Written
<1>2. CASE Rewrite(c)
  <2>1. \A b \in Appenders : copy'[b] \subseteq copy[b] \cup log
    BY <1>2 DEF Rewrite, TypeOK
  <2> QED  BY <1>2, <2>1, <1>c, <1>d, <1>e DEF Rewrite, Written
<1>3. CASE Move(c) \/ KillAppender(c)
  <2>1. /\ \A b \in Appenders : copy'[b] \subseteq copy[b]
        /\ log' = log \/ log' = copy[c]
    BY <1>3 DEF Move, KillAppender, TypeOK
  <2> QED  BY <2>1, <1>c, <1>d, <1>e DEF Written
<1>4. CASE AddLine(c)
  <2>1. \A l \in line[c] : l.by = c
    BY <1>4, LineFacts DEF AddLine, InHand, Working
  <2>2. at'[c] = "done"  BY <1>4, Moves
  <2> QED  BY <1>4, <1>c, <1>d, <1>e, <2>1, <2>2 DEF AddLine, Written
<1> QED  BY <1>1, <1>2, <1>3, <1>4, <1>e

LEMMA AloneStep == ASSUME TypeOK, Alone, Killed, LogNext PROVE Alone' /\ Killed'
<1> PICK c \in Appenders :
        \/ Start(c) \/ Grep(c) \/ Rewrite(c) \/ RewriteFails(c) \/ Move(c) \/ AddLine(c)
        \/ KillAppender(c)
  BY DEF LogNext
<1>1. CASE Start(c)
  <2>1. \A a \in Active' : a \in Active \cup {c}
    BY <1>1, Moves DEF Active
  <2>2. met \subseteq met'  BY <1>1 DEF Start
  <2>3. \A b \in Active : b # c /\ RunOf[b] = RunOf[c] => {b, c} \subseteq met'
    BY <1>1 DEF Start, SameRun, Active
  <2>4. Alone'  BY <2>1, <2>2, <2>3 DEF Alone
  <2> QED  BY <1>1, <2>4, Moves DEF Start, Killed
<1>2. CASE ~Start(c)
  <2>1. \A a \in Active' : a \in Active
    BY <1>2, Moves DEF Active, Working
  <2>2. met' = met /\ broken \subseteq broken'
    BY <1>2 DEF Grep, Rewrite, RewriteFails, Move, AddLine, KillAppender
  <2>3. KillAppender(c) => c \in broken'  BY DEF KillAppender
  <2> QED  BY <1>2, <2>1, <2>2, <2>3, Moves DEF Alone, Killed
<1> QED  BY <1>1, <1>2

\* An undisturbed run after a step by one of the run: it is not one spelled
\* otherwise that ended, and a line was not added or removed beside a copy.
LEMMA Apart ==
    ASSUME TypeOK, NEW c \in Appenders, ~Disturbed(RunOf[c])'
    PROVE  /\ AddLine(c) => Spelled[c] = "resolved" /\ ~BesideMove(c)
           /\ Move(c) => ~BesideMove(c)
           /\ ~RewriteFails(c) /\ ~KillAppender(c)
<1>1. c \in OfRun(RunOf[c])'  BY DEF OfRun
<1>2. /\ c \notin (met \cup broken \cup raced \cup undone)'
      /\ Spelled[c] = "raw" => at'[c] # "done"
  BY <1>1 DEF Disturbed
<1>3. AddLine(c) => at'[c] = "done"  BY DEF AddLine, To, TypeOK
<1>4. Spelled[c] \in {"resolved", "raw"}  BY UsageLogAssumption
<1> QED  BY <1>2, <1>3, <1>4 DEF AddLine, Move, RewriteFails, KillAppender

\* A line of an undisturbed run is spelled as resolved.
LEMMA Resolved ==
    ASSUME TypeOK, Written, NEW l \in log, ~Disturbed(l.run)
    PROVE  l.as = "resolved"
<1>1. PICK b \in Appenders : l \in LineOf(b)  BY DEF TypeOK
<1>2. l.by = b /\ l.run = RunOf[b]  BY <1>1, LineFacts
<1>3. at[b] = "done"  BY <1>2 DEF Written
<1>4. b \in OfRun(l.run)  BY <1>2 DEF OfRun
<1>5. Spelled[b] # "raw"  BY <1>3, <1>4 DEF Disturbed
<1> QED  BY <1>1, <1>5, LineFacts

LEMMA OthersStep ==
    ASSUME TypeOK, InHand, Others, LogNext
    PROVE  Others'
<1> SUFFICES ASSUME NEW a \in Appenders, NEW d \in Appenders,
                    ~Disturbed(RunOf[a])', at'[d] = "move", RunOf[d] # RunOf[a]
             PROVE  Part(copy'[d], RunOf[a]) = Part(log', RunOf[a])
  BY DEF Others, LinesOf, Part
<1> PICK c \in Appenders :
        \/ Start(c) \/ Grep(c) \/ Rewrite(c) \/ RewriteFails(c) \/ Move(c) \/ AddLine(c)
        \/ KillAppender(c)
  BY DEF LogNext
<1>a. ~Disturbed(RunOf[a])  BY Undisturbed
<1>b. at[d] = "move" => Part(copy[d], RunOf[a]) = Part(log, RunOf[a])
  BY <1>a DEF Others, LinesOf, Part
<1>1. CASE Start(c) \/ Grep(c) \/ RewriteFails(c)
  BY <1>1, <1>b, Moves DEF Start, Grep, RewriteFails
<1>2. CASE Rewrite(c)
  <2>1. CASE c = d
    <3>1. copy'[d] = {l \in log : ~Names(l, d)}  BY <1>2, <2>1 DEF Rewrite, TypeOK
    <3> QED  BY <3>1, <1>2 DEF Part, Names, Rewrite
  <2>2. CASE c # d  BY <1>2, <2>2, <1>b, Moves DEF Rewrite, TypeOK
  <2> QED  BY <2>1, <2>2
<1>3. CASE Move(c)
  <2>1. c # d  BY <1>3, Moves
  <2>2. at[d] = "move" /\ copy'[d] = copy[d]  BY <1>3, <2>1, Moves DEF Move, TypeOK
  <2>3. RunOf[c] # RunOf[a]
    BY <1>3, <2>1, <2>2, Apart DEF BesideMove
  <2>4. Part(copy[c], RunOf[a]) = Part(log, RunOf[a])
    BY <1>3, <1>a, <2>3, Moves DEF Others, LinesOf, Part
  <2> QED  BY <1>3, <1>b, <2>2, <2>4 DEF Move
<1>4. CASE AddLine(c)
  <2>1. c # d  BY <1>4, Moves
  <2>2. at[d] = "move" /\ copy'[d] = copy[d]  BY <1>4, <2>1, Moves DEF AddLine, TypeOK
  <2>3. RunOf[c] # RunOf[a]
    BY <1>4, <2>1, <2>2, Apart DEF BesideMove
  <2>4. \A l \in line[c] : l.run # RunOf[a]
    BY <1>4, <2>3, LineFacts DEF InHand, AddLine, Working
  <2>5. Part(log', RunOf[a]) = Part(log, RunOf[a])
    BY <1>4, <2>4 DEF AddLine, Part
  <2> QED  BY <1>b, <2>2, <2>5
<1>5. CASE KillAppender(c)
  <2>1. c # d  BY <1>5, Moves
  <2> QED  BY <1>5, <2>1, <1>b, Moves DEF KillAppender, TypeOK
<1> QED  BY <1>1, <1>2, <1>3, <1>4, <1>5

LEMMA LatestStep ==
    ASSUME TypeOK, InHand, Others, Latest, Cleared, LogNext
    PROVE  Latest'
<1> SUFFICES ASSUME NEW a \in Appenders, ~Disturbed(RunOf[a])'
             PROVE  /\ \A l \in Part(log', RunOf[a]) : l.by = newest'[a]
                    /\ \A d \in Appenders : at'[d] = "move" /\ RunOf[d] = RunOf[a] =>
                           \A l \in Part(copy'[d], RunOf[a]) : l.by = newest'[a]
  BY DEF Latest, LinesOf, Part
<1> PICK c \in Appenders :
        \/ Start(c) \/ Grep(c) \/ Rewrite(c) \/ RewriteFails(c) \/ Move(c) \/ AddLine(c)
        \/ KillAppender(c)
  BY DEF LogNext
<1>a. ~Disturbed(RunOf[a])  BY Undisturbed
<1>b. \A l \in Part(log, RunOf[a]) : l.by = newest[a]
  BY <1>a DEF Latest, LinesOf, Part
<1>c. \A d \in Appenders : at[d] = "move" /\ RunOf[d] = RunOf[a] =>
          \A l \in Part(copy[d], RunOf[a]) : l.by = newest[a]
  BY <1>a DEF Latest
<1>1. CASE Start(c) \/ Grep(c) \/ RewriteFails(c)
  BY <1>1, <1>b, <1>c, Moves DEF Start, Grep, RewriteFails
<1>2. CASE Rewrite(c)
  <2>1. \A l \in Part(copy'[c], RunOf[a]) : l \in Part(log, RunOf[a])
    BY <1>2 DEF Rewrite, TypeOK, Part
  <2>2. \A d \in Appenders \ {c} : copy'[d] = copy[d] /\ at'[d] = at[d]
    BY <1>2, Moves DEF Rewrite, TypeOK
  <2> QED  BY <1>2, <1>b, <1>c, <2>1, <2>2 DEF Rewrite
<1>3. CASE Move(c)
  <2>1. \A l \in Part(copy[c], RunOf[a]) : l.by = newest[a]
    <3>1. CASE RunOf[c] = RunOf[a]  BY <1>3, <3>1, <1>c, Moves
    <3>2. CASE RunOf[c] # RunOf[a]
      BY <1>3, <3>2, <1>a, <1>b, Moves DEF Others, LinesOf, Part
    <3> QED  BY <3>1, <3>2
  <2>2. \A d \in Appenders : at'[d] = "move" => copy'[d] = copy[d] /\ at[d] = "move"
    BY <1>3, Moves DEF Move, TypeOK
  <2> QED  BY <1>3, <1>c, <2>1, <2>2 DEF Move
<1>4. CASE AddLine(c)
  <2>1. PICK n \in LineOf(c) : line[c] = {n}
    BY <1>4 DEF InHand, AddLine, Working
  <2>2. n.run = RunOf[c] /\ n.by = c  BY <2>1, LineFacts
  <2>3. log' = log \cup {n} /\ copy' = copy  BY <1>4, <2>1 DEF AddLine
  <2>4. \A d \in Appenders : at'[d] = "move" => at[d] = "move" /\ d # c
    BY <1>4, Moves
  <2>5. CASE RunOf[c] = RunOf[a]
    <3>1. newest'[a] = c  BY <1>4, <2>5 DEF AddLine
    <3>2. Spelled[c] = "resolved" /\ ~BesideMove(c)  BY <1>4, <2>5, Apart
    <3>3. Part(log, RunOf[a]) = {}
      BY <1>4, <1>a, <2>5, <3>2 DEF Cleared, AddLine, LinesOf, Part
    <3>4. \A l \in Part(log', RunOf[a]) : l.by = c  BY <2>2, <2>3, <3>3 DEF Part
    <3> QED  BY <2>4, <3>1, <3>2, <3>4 DEF BesideMove
  <2>6. CASE RunOf[c] # RunOf[a]
    <3>1. newest'[a] = newest[a]  BY <1>4, <2>6 DEF AddLine
    <3>2. Part(log', RunOf[a]) = Part(log, RunOf[a])  BY <2>2, <2>3, <2>6 DEF Part
    <3> QED  BY <1>b, <1>c, <2>3, <2>4, <3>1, <3>2
  <2> QED  BY <2>5, <2>6
<1>5. CASE KillAppender(c)
  <2>1. \A d \in Appenders : at'[d] = "move" => copy'[d] = copy[d] /\ at[d] = "move"
    BY <1>5, Moves DEF KillAppender, TypeOK
  <2> QED  BY <1>5, <1>b, <1>c, <2>1 DEF KillAppender
<1> QED  BY <1>1, <1>2, <1>3, <1>4, <1>5

LEMMA ClearedStep ==
    ASSUME TypeOK, InHand, Written, Alone, Others, Cleared, LogNext
    PROVE  Cleared'
<1> SUFFICES ASSUME NEW a \in Appenders, ~Disturbed(RunOf[a])', Spelled[a] = "resolved"
             PROVE  /\ at'[a] = "append" => Part(log', RunOf[a]) = {}
                    /\ at'[a] = "move" => Part(copy'[a], RunOf[a]) = {}
  BY DEF Cleared, LinesOf, Part
<1> PICK c \in Appenders :
        \/ Start(c) \/ Grep(c) \/ Rewrite(c) \/ RewriteFails(c) \/ Move(c) \/ AddLine(c)
        \/ KillAppender(c)
  BY DEF LogNext
<1>a. ~Disturbed(RunOf[a])  BY Undisturbed
<1>b. /\ at[a] = "append" => Part(log, RunOf[a]) = {}
      /\ at[a] = "move" => Part(copy[a], RunOf[a]) = {}
  BY <1>a DEF Cleared, LinesOf, Part
<1>c. \A l \in log : l.run = RunOf[a] => Names(l, a)
  BY <1>a, Resolved DEF Names
\* Two of the run are not under way at once.
<1>d. at'[a] \in Working /\ c # a /\ RunOf[c] = RunOf[a] => at[c] \notin Working
  <2>1. a \in OfRun(RunOf[a])  BY DEF OfRun
  <2>2. a \notin met  BY <1>a, <2>1 DEF Disturbed
  <2> QED  BY <2>2, Moves DEF Alone, Active, Working
<1>1. CASE Start(c)  BY <1>1, <1>b, Moves DEF Start
<1>2. CASE Grep(c)
  <2>1. CASE c = a /\ at'[a] = "append"
    <3>1. ~\E l \in log : Mentions(l, a)  BY <1>2, <2>1 DEF Grep, To, TypeOK
    <3> QED  BY <1>2, <2>1, <3>1, <1>c, NamedIsMentioned DEF Grep, Part
  <2> QED  BY <1>2, <2>1, <1>b, Moves DEF Grep
<1>3. CASE Rewrite(c)
  <2>1. CASE c = a
    <3>1. copy'[a] = {l \in log : ~Names(l, a)}  BY <1>3, <2>1 DEF Rewrite, TypeOK
    <3> QED  BY <1>3, <2>1, <3>1, <1>c, Moves DEF Part
  <2> QED  BY <1>3, <2>1, <1>b, Moves DEF Rewrite, TypeOK
<1>4. CASE RewriteFails(c)
  <2>1. CASE c = a  BY <1>4, <2>1, Apart
  <2> QED  BY <1>4, <2>1, <1>b, Moves DEF RewriteFails
<1>5. CASE Move(c)
  <2>1. CASE c = a  BY <1>5, <2>1, <1>b, Moves DEF Move
  <2>2. CASE c # a /\ at'[a] \in Working
    <3>1. RunOf[c] # RunOf[a]  BY <1>5, <2>2, <1>d, Moves DEF Working
    <3>2. Part(copy[c], RunOf[a]) = Part(log, RunOf[a])
      BY <1>5, <1>a, <3>1, Moves DEF Others, LinesOf, Part
    <3> QED  BY <1>5, <2>2, <3>2, <1>b, Moves DEF Move, TypeOK
  <2> QED  BY <2>1, <2>2 DEF Working
<1>6. CASE AddLine(c)
  <2>1. CASE c # a /\ at'[a] \in Working
    <3>1. RunOf[c] # RunOf[a]  BY <1>6, <2>1, <1>d, Moves DEF Working
    <3>2. \A l \in line[c] : l.run # RunOf[a]
      BY <1>6, <3>1, LineFacts DEF InHand, AddLine, Working
    <3> QED  BY <1>6, <2>1, <3>2, <1>b, Moves DEF AddLine, Part
  <2> QED  BY <1>6, <2>1, Moves DEF Working
<1>7. CASE KillAppender(c)  BY <1>7, <1>b, Moves DEF KillAppender, TypeOK
<1> QED  BY <1>1, <1>2, <1>3, <1>4, <1>5, <1>6, <1>7

LEMMA HeldStep ==
    ASSUME TypeOK, InHand, Held, LogNext
    PROVE  Held'
<1> SUFFICES ASSUME NEW a \in Appenders, at'[a] = "done", ~Lost(RunOf[a])',
                    \A b \in OfRun(RunOf[a]) : at'[b] # "append"
             PROVE  /\ Part(log', RunOf[a]) # {}
                    /\ \A d \in Appenders : at'[d] = "move" /\ RunOf[d] # RunOf[a] =>
                           Part(copy'[d], RunOf[a]) # {}
  BY DEF Held, LinesOf, Part, OfRun
<1> PICK c \in Appenders :
        \/ Start(c) \/ Grep(c) \/ Rewrite(c) \/ RewriteFails(c) \/ Move(c) \/ AddLine(c)
        \/ KillAppender(c)
  BY DEF LogNext
<1>1. CASE AddLine(c) /\ RunOf[c] = RunOf[a]
  <2>1. PICK n \in LineOf(c) : line[c] = {n}
    BY <1>1 DEF InHand, AddLine, Working
  <2>2. n \in Part(log', RunOf[a])  BY <1>1, <2>1, LineFacts DEF AddLine, Part
  <2>3. c \notin raced'  BY <1>1 DEF Lost, OfRun
  <2>4. \A d \in Appenders : at'[d] # "move"
    <3>1. ~BesideMove(c)  BY <1>1, <2>3 DEF AddLine
    <3>2. at'[c] = "done" /\ \A d \in Appenders \ {c} : at'[d] = at[d]  BY <1>1, Moves
    <3> QED  BY <3>1, <3>2 DEF BesideMove
  <2> QED  BY <2>2, <2>4
<1>2. CASE ~(AddLine(c) /\ RunOf[c] = RunOf[a])
  <2>1. c # a  BY <1>2, Moves DEF Working
  <2>2. at[a] = "done"  BY <2>1, Moves
  <2>3. ~Lost(RunOf[a])
    BY Moves DEF Lost, OfRun, Start, Grep, Rewrite, RewriteFails, Move, AddLine, KillAppender
  <2>4. \A b \in OfRun(RunOf[a]) : at[b] # "append"
    <3>1. KillAppender(c) => c \notin OfRun(RunOf[a])  BY Moves DEF Lost, OfRun
    <3> QED  BY <1>2, <3>1, Moves DEF OfRun
  <2>5. Part(log, RunOf[a]) # {}  BY <2>2, <2>3, <2>4 DEF Held, LinesOf, Part
  <2>6. \A d \in Appenders : at[d] = "move" /\ RunOf[d] # RunOf[a] =>
            Part(copy[d], RunOf[a]) # {}
    BY <2>2, <2>3, <2>4 DEF Held
  <2>7. CASE Start(c) \/ Grep(c) \/ RewriteFails(c)
    BY <2>5, <2>6, <2>7, Moves DEF Start, Grep, RewriteFails
  <2>8. CASE Rewrite(c)
    <3>1. copy'[c] = {l \in log : ~Names(l, c)}  BY <2>8 DEF Rewrite, TypeOK
    <3>2. RunOf[c] # RunOf[a] => Part(copy'[c], RunOf[a]) # {}
      BY <3>1, <2>5 DEF Part, Names
    <3> QED  BY <2>8, <3>2, <2>5, <2>6, Moves DEF Rewrite, TypeOK
  <2>9. CASE Move(c)
    <3>1. RunOf[c] # RunOf[a]  BY <2>9, Moves DEF OfRun
    <3> QED  BY <2>9, <3>1, <2>6, Moves DEF Move, TypeOK
  <2>10. CASE AddLine(c)
    BY <2>10, <2>5, <2>6, Moves DEF AddLine, Part
  <2>11. CASE KillAppender(c)
    BY <2>11, <2>5, <2>6, Moves DEF KillAppender, TypeOK
  <2> QED  BY <2>7, <2>8, <2>9, <2>10, <2>11
<1> QED  BY <1>1, <1>2

-----------------------------------------------------------------------------
LEMMA StepOK == ASSUME IInv, [LogNext]_logVars PROVE IInv'
<1>1. CASE LogNext
  BY <1>1, TypeStep, WrittenStep, AloneStep, OthersStep, LatestStep, ClearedStep, HeldStep
  DEF IInv
<1>2. CASE UNCHANGED logVars
  BY <1>2, SMTT(30) DEF logVars, IInv, TypeOK, InHand, Written, Alone, Active, Killed, Others, Latest,
              Cleared, Held, Lost, LinesOf, Disturbed
<1> QED  BY <1>1, <1>2

\* The invariant holds in every reachable state.
THEOREM Inductive == LogSpec => []IInv
  BY InitOK, StepOK, PTL DEF LogSpec

\* The states of log, copies and appenders are well typed.
THEOREM Typing == LogSpec => []TypeOK
<1>1. IInv => TypeOK  BY DEF IInv
<1> QED  BY <1>1, Inductive, PTL

\* A run that was not disturbed is in the log at most once, with the line
\* that was added last (emit in append-usage-log.sh), whatever the runs of
\* other projects do with the log meanwhile.
THEOREM LaterWriteWins == LogSpec => []OneLine
<1>1. IInv => OneLine  BY DEF IInv, Latest, OneLine
<1> QED  BY <1>1, Inductive, PTL

\* A finalized run has a line, except those whose line was added beside a
\* move, or that are being finalized again or were killed at it.
THEOREM NoLineIsLost == LogSpec => []LineKept
<1>1. ASSUME IInv PROVE LineKept
  <2> SUFFICES ASSUME NEW a \in Appenders, at[a] = "done", LinesOf(RunOf[a]) = {},
                      a \notin raced,
                      \A b \in SameRun(a) : b \notin raced \cup broken
               PROVE  \E b \in SameRun(a) : at[b] = "append"
    BY DEF LineKept
  <2>1. \A b \in OfRun(RunOf[a]) : b = a \/ b \in SameRun(a)  BY DEF OfRun, SameRun
  <2>2. ~Lost(RunOf[a])  BY <1>1, <2>1 DEF Lost, OfRun, IInv, Killed
  <2>3. PICK b \in OfRun(RunOf[a]) : at[b] = "append"  BY <1>1, <2>2 DEF IInv, Held
  <2> QED  BY <2>1, <2>3
<1> QED  BY <1>1, Inductive, PTL
=============================================================================
