-------------------------- MODULE AdmissionProofs --------------------------
(***************************************************************************)
(* The two identity guards decide rightly about every command of a host,   *)
(* however many items it has and however it moves the shell before it      *)
(* pushes or commits; and the outcome of a host's admission is earned.     *)
(*                                                                         *)
(* The argument for the guards: the guard folds Walk over the expanded     *)
(* command before anything runs; the shell folds Execute over the items    *)
(* that are not skipped.  The invariant relates the two: until an item     *)
(* comes that the walk cannot follow (Unfollowed, UncertainCd) or that the *)
(* guards misread (Misread), the shell is where the walk was when it       *)
(* reached that item (Follows), and a push that the walk saw and let       *)
(* through there is right.  The commit guard judges every commit that it   *)
(* sees in the first directory; these are right as long as the shell stays *)
(* there (Steady).                                                         *)
(*                                                                         *)
(* Folds are recursive functions, which are choices: FoldExists shows that *)
(* there is something to choose, StepInduction is the induction over the   *)
(* elements.                                                               *)
(*                                                                         *)
(* The argument for the outcome: PushTraced and CallTraced say what the    *)
(* trace of a probe is worth, in terms of the witness the scripts cannot   *)
(* see; a result is judged from the trace alone, and PushJudged and        *)
(* CallsJudged say that it is worth as much.  HostInv, the invariant of    *)
(* the host, is preserved by an admission, since its probes push to a path *)
(* and reach nobody (Quiet).                                               *)
(***************************************************************************)
EXTENDS AdmissionProperties, TLAPS, SequenceTheorems, WellFoundedInduction

\* Induction, over a set of numbers.
LEMMA NatSetInduction ==
  ASSUME NEW S, 0 \in S, \A n \in Nat : n \in S => n + 1 \in S
  PROVE  Nat \subseteq S
<1> SUFFICES ASSUME Nat \ S # {} PROVE FALSE
  OBVIOUS
<1> DEFINE R == OpToRel(<, Nat)
<1>1. PICK x \in Nat \ S : \A y \in Nat \ S : ~ (<<y, x>> \in R)
  <2>1. IsWellFoundedOn(R, Nat)
    BY NatLessThanWellFounded
  <2> HIDE DEF R
  <2> QED BY <2>1, WFMin
<1>2. x # 0 /\ x - 1 \in Nat /\ x - 1 < x /\ (x - 1) + 1 = x
  OBVIOUS
<1>3. <<x - 1, x>> \in R
  BY <1>2 DEF OpToRel
<1>4. x - 1 \in S
  BY <1>1, <1>2, <1>3
<1> QED BY <1>2, <1>4

\* Up to n.
LEMMA StepInduction ==
  ASSUME NEW n \in Nat, NEW S, 0 \in S,
         \A k \in 0..(n - 1) : k \in S => k + 1 \in S
  PROVE  0..n \subseteq S
<1> DEFINE T == {k \in Nat : k <= n => k \in S}
<1>1. 0 \in T
  OBVIOUS
<1>2. ASSUME NEW k \in Nat, k \in T PROVE k + 1 \in T
  BY <1>2
<1>3. Nat \subseteq T
  <2> HIDE DEF T
  <2> QED BY <1>1, <1>2, NatSetInduction
<1> QED BY <1>3

-----------------------------------------------------------------------------
\* Folds.  The provers take no operator as a parameter of a lemma; One stands
\* for the three that the model folds.

One(p, acc, x) ==
    CASE p.fold = "walk" -> Walk(acc, x)
      [] p.fold = "execute" -> Execute(acc, x, p.item, p.guess)
      [] p.fold = "enter" -> x

\* The largest member of a set of numbers up to n + 1 that has n + 1.
LEMMA MaxLast ==
  ASSUME NEW n \in Nat, NEW T \in SUBSET (1..(n + 1)), n + 1 \in T
  PROVE  Max(T) = n + 1 /\ T \ {Max(T)} \in SUBSET (1..n)
<1>1. \A y \in T : n + 1 >= y
  OBVIOUS
<1>2. \A x \in T : (\A y \in T : x >= y) => x = n + 1
  OBVIOUS
<1>3. Max(T) = n + 1
  BY <1>1, <1>2 DEF Max
<1> QED BY <1>3

\* The recursive function behind the fold exists.
IsFold(f, n, p, acc, xs) ==
    f = [T \in SUBSET (1..n) |->
            IF T = {} THEN acc ELSE One(p, f[T \ {Max(T)}], xs[Max(T)])]

LEMMA FoldExists ==
  ASSUME NEW p, NEW acc, NEW xs, NEW n \in Nat
  PROVE  \E f : IsFold(f, n, p, acc, xs)
<1> DEFINE S == {m \in Nat : \E f : IsFold(f, m, p, acc, xs)}
<1>1. 0 \in S
  <2> DEFINE f == [T \in SUBSET (1..0) |-> acc]
  <2>1. \A T \in SUBSET (1..0) : T = {}
    OBVIOUS
  <2>2. IsFold(f, 0, p, acc, xs)
    BY <2>1 DEF IsFold
  <2> QED BY <2>2
<1>2. ASSUME NEW m \in Nat, m \in S
      PROVE  m + 1 \in S
  <2>1. PICK f : IsFold(f, m, p, acc, xs)
    BY <1>2
  <2> DEFINE e(h, T) == IF T = {} THEN acc ELSE One(p, h[T \ {Max(T)}], xs[Max(T)])
             g == [T \in SUBSET (1..(m + 1)) |->
                      IF m + 1 \in T THEN One(p, f[T \ {m + 1}], xs[m + 1]) ELSE f[T]]
  <2>2. f = [T \in SUBSET (1..m) |-> e(f, T)]
    BY <2>1 DEF IsFold
  <2> HIDE DEF e
  <2>3. \A T \in SUBSET (1..m) : f[T] = e(f, T) /\ g[T] = f[T]
    <3>1. ASSUME NEW T \in SUBSET (1..m) PROVE T \in SUBSET (1..(m + 1)) /\ m + 1 \notin T
      OBVIOUS
    <3>2. \A T \in SUBSET (1..m) : f[T] = e(f, T)
      BY <2>2
    <3> QED BY <3>1, <3>2
  <2>4. ASSUME NEW T \in SUBSET (1..(m + 1))
        PROVE  g[T] = e(g, T)
    <3>1. CASE m + 1 \in T
      <4>1. Max(T) = m + 1 /\ T \ {Max(T)} \in SUBSET (1..m)
        BY <3>1, MaxLast
      <4>2. g[T \ {Max(T)}] = f[T \ {Max(T)}]
        BY <2>3, <4>1
      <4>3. g[T] = One(p, f[T \ {m + 1}], xs[m + 1])
        BY <3>1
      <4>4. T # {}
        BY <3>1
      <4> HIDE DEF g
      <4> QED BY <4>1, <4>2, <4>3, <4>4 DEF e
    <3>2. CASE m + 1 \notin T
      <4>0. \A i \in 1..(m + 1) : i # m + 1 => i \in 1..m
        OBVIOUS
      <4>1. T \in SUBSET (1..m) /\ T \ {Max(T)} \in SUBSET (1..m)
        BY <3>2, <4>0
      <4>2. g[T] = e(f, T) /\ g[T \ {Max(T)}] = f[T \ {Max(T)}]
        BY <2>3, <4>1
      <4> HIDE DEF g
      <4> QED BY <4>2 DEF e
    <3> QED BY <3>1, <3>2
  <2>5. g = [T \in SUBSET (1..(m + 1)) |-> e(g, T)]
    <3>1. g = [T \in SUBSET (1..(m + 1)) |-> g[T]]
      OBVIOUS
    <3> HIDE DEF g
    <3> QED BY <2>4, <3>1
  <2>6. IsFold(g, m + 1, p, acc, xs)
    <3> HIDE DEF g
    <3> QED BY <2>5 DEF e, IsFold
  <2> QED BY <2>6
<1> HIDE DEF S
<1>3. Nat \subseteq S
  BY <1>1, <1>2, NatSetInduction
<1> QED BY <1>3 DEF S

\* The values of the fold, one element after the other.
Passes(F, p, acc, xs) ==
    /\ F[0] = acc
    /\ \A k \in 0..(Len(xs) - 1) : F[k + 1] = One(p, F[k], xs[k + 1])

\* A fold goes through one value per element.
LEMMA FoldPasses ==
  ASSUME NEW p, NEW acc, NEW X, NEW xs \in Seq(X), NEW f, IsFold(f, Len(xs), p, acc, xs)
  PROVE  \E F : Passes(F, p, acc, xs) /\ F[Len(xs)] = f[1..Len(xs)]
<1> DEFINE n == Len(xs)
           F == [k \in 0..n |-> f[1..k]]
<1>1. n \in Nat /\ DOMAIN xs = 1..n
  OBVIOUS
<1>2. \A T \in SUBSET (1..n) :
        f[T] = IF T = {} THEN acc ELSE One(p, f[T \ {Max(T)}], xs[Max(T)])
  <2> DEFINE e(T) == IF T = {} THEN acc ELSE One(p, f[T \ {Max(T)}], xs[Max(T)])
  <2>1. f = [T \in SUBSET (1..n) |-> e(T)]
    BY DEF IsFold
  <2> HIDE DEF e, n
  <2>2. \A T \in SUBSET (1..n) : f[T] = e(T)
    BY <2>1
  <2> QED BY <2>2 DEF e
<1> HIDE DEF n
<1>3. F[0] = acc
  <2>1. 1..0 = {} /\ {} \in SUBSET (1..n)
    OBVIOUS
  <2>2. f[{}] = acc
    BY <1>2, <2>1
  <2>3. 0 \in 0..n
    BY <1>1
  <2>4. F[0] = f[1..0]
    BY <2>3
  <2> QED BY <2>1, <2>2, <2>4
<1>4. ASSUME NEW k \in 0..(n - 1)
      PROVE  F[k + 1] = One(p, F[k], xs[k + 1])
  <2>1. k \in Nat /\ k + 1 \in 0..n /\ k \in 0..n
    BY <1>1
  <2> DEFINE T == 1..(k + 1)
  <2>2. T # {} /\ k + 1 \in T /\ T \in SUBSET (1..n) /\ T \ {k + 1} = 1..k
    <3>1. T # {} /\ k + 1 \in T
      BY <2>1
    <3>2. T \in SUBSET (1..n)
      BY <1>1, <2>1
    <3>3. T \ {k + 1} = 1..k
      BY <2>1
    <3> QED BY <3>1, <3>2, <3>3
  <2>3. Max(T) = k + 1
    <3>1. T \in SUBSET (1..(k + 1))
      OBVIOUS
    <3> HIDE DEF T
    <3> QED BY <2>1, <2>2, <3>1, MaxLast
  <2>4. f[T] = One(p, f[1..k], xs[k + 1])
    <3> HIDE DEF T
    <3> QED BY <1>2, <2>2, <2>3
  <2> QED BY <2>1, <2>4
<1>5. F[n] = f[1..n]
  BY <1>1
<1> HIDE DEF F
<1> QED BY <1>3, <1>4, <1>5 DEF Passes, n

-----------------------------------------------------------------------------
\* The walk of the push guard.
Walked(acc, segs) == FoldLeft(Walk, acc, segs)

WalkPass == [fold |-> "walk"]

\* So does the walk of the push guard, gh-identity-guard.py's evaluate.
LEMMA WalkPasses ==
  ASSUME NEW acc, NEW X, NEW segs \in Seq(X)
  PROVE  \E F : Passes(F, WalkPass, acc, segs) /\ F[Len(segs)] = Walked(acc, segs)
<1> DEFINE n == Len(segs)
           R(h) == h = [T \in SUBSET (DOMAIN segs) |->
                          IF T = {} THEN acc ELSE Walk(h[T \ {Max(T)}], segs[Max(T)])]
           f == CHOOSE h : R(h)
<1>1. n \in Nat /\ DOMAIN segs = 1..n
  OBVIOUS
<1>2. \A a, x : One(WalkPass, a, x) = Walk(a, x)
  BY DEF One, WalkPass
<1>3. \A h : R(h) <=> IsFold(h, n, WalkPass, acc, segs)
  BY <1>1, <1>2 DEF IsFold
<1>4. \E h : IsFold(h, n, WalkPass, acc, segs)
  <2> HIDE DEF n
  <2> QED BY <1>1, FoldExists
<1> HIDE DEF R
<1>5. R(f)
  BY <1>3, <1>4
<1>6. Walked(acc, segs) = f[DOMAIN segs]
  BY Zenon DEF Walked, FoldLeft, MapThenFoldSet, R
<1> HIDE DEF f
<1> QED BY <1>1, <1>3, <1>5, <1>6, FoldPasses

-----------------------------------------------------------------------------
\* The shell: the commands of an item.
ExecutePass(item, guess) == [fold |-> "execute", item |-> item, guess |-> guess]

\* So does the shell that runs an item.
LEMMA ExecutePasses ==
  ASSUME NEW w, NEW X, NEW segs \in Seq(X), NEW item, NEW guess
  PROVE  \E F : /\ Passes(F, ExecutePass(item, guess), w, segs)
                /\ F[Len(segs)] = Executed(w, segs, item, guess)
<1> DEFINE n == Len(segs)
           p == ExecutePass(item, guess)
           R(h) == h = [T \in SUBSET (DOMAIN segs) |->
                          IF T = {} THEN w
                          ELSE Execute(h[T \ {Max(T)}], segs[Max(T)], item, guess)]
           f == CHOOSE h : R(h)
<1>1. n \in Nat /\ DOMAIN segs = 1..n
  OBVIOUS
<1>2. \A a, x : One(p, a, x) = Execute(a, x, item, guess)
  BY DEF One, ExecutePass
<1> HIDE DEF p
<1>3. \A h : R(h) <=> IsFold(h, n, p, w, segs)
  BY <1>1, <1>2 DEF IsFold
<1>4. \E h : IsFold(h, n, p, w, segs)
  <2> HIDE DEF n
  <2> QED BY <1>1, FoldExists
<1> HIDE DEF R
<1>5. R(f)
  BY <1>3, <1>4
<1>6. Executed(w, segs, item, guess) = f[DOMAIN segs]
  BY Zenon DEF Executed, FoldLeft, MapThenFoldSet, R
<1> HIDE DEF f
<1> QED BY <1>1, <1>3, <1>5, <1>6, FoldPasses DEF p

\* Absolute directories that are entered one after the other: the last one is
\* what the guards take.
EnterPass == [fold |-> "enter"]

LEMMA EnteredLast ==
  ASSUME NEW X, NEW dirs \in Seq(X), NEW cwd
  PROVE  Entered(dirs, cwd) = AccumulateDir(dirs, cwd)
<1> DEFINE n == Len(dirs)
           R(h) == h = [T \in SUBSET (DOMAIN dirs) |->
                          IF T = {} THEN cwd ELSE dirs[Max(T)]]
           f == CHOOSE h : R(h)
<1>1. n \in Nat /\ DOMAIN dirs = 1..n
  OBVIOUS
<1>2. R([T \in SUBSET (DOMAIN dirs) |-> IF T = {} THEN cwd ELSE dirs[Max(T)]])
  OBVIOUS
<1>3. R(f)
  <2> HIDE DEF R
  <2> QED BY <1>2
<1>4. Entered(dirs, cwd) = f[DOMAIN dirs]
  <2> HIDE DEF n
  <2> QED BY Zenon DEF Entered, FoldLeft, MapThenFoldSet
<1> HIDE DEF f
<1>5. f[1..n] = IF 1..n = {} THEN cwd ELSE dirs[Max(1..n)]
  BY <1>1, <1>3
<1>6. CASE n = 0
  <2>1. dirs = <<>>
    BY <1>6
  <2> QED BY <1>1, <1>4, <1>5, <1>6, <2>1 DEF AccumulateDir
<1>7. CASE n # 0
  <2>1. n - 1 \in Nat /\ n = (n - 1) + 1 /\ n \in 1..n /\ dirs # <<>>
    BY <1>1, <1>7
  <2>2. Max(1..n) = n
    <3>1. PICK m \in Nat : n = m + 1
      BY <2>1
    <3>2. 1..n \in SUBSET (1..(m + 1)) /\ m + 1 \in 1..n
      BY <2>1, <3>1
    <3> HIDE DEF n
    <3> QED BY <3>1, <3>2, MaxLast
  <2> QED BY <1>1, <1>4, <1>5, <2>1, <2>2 DEF AccumulateDir, Last
<1> QED BY <1>6, <1>7

-----------------------------------------------------------------------------
\* Expansion: what the guards see is one item after the other.

\* The recursive function of FlattenSeq exists.
IsFlat(f, n, seqs) ==
    f = [i \in 1..n |-> IF i = 1 THEN seqs[i] ELSE f[i - 1] \o seqs[i]]

\* The recursive function behind FlattenSeq exists.
LEMMA FlatExists ==
  ASSUME NEW seqs, NEW n \in Nat
  PROVE  \E f : IsFlat(f, n, seqs)
<1> DEFINE S == {m \in Nat : \E f : IsFlat(f, m, seqs)}
<1>1. 0 \in S
  <2> DEFINE f == [i \in 1..0 |-> seqs]
  <2>1. \A i \in 1..0 : FALSE
    OBVIOUS
  <2>2. IsFlat(f, 0, seqs)
    BY <2>1 DEF IsFlat
  <2> QED BY <2>2
<1>2. ASSUME NEW m \in Nat, m \in S
      PROVE  m + 1 \in S
  <2>1. PICK f : IsFlat(f, m, seqs)
    BY <1>2
  <2> DEFINE e(h, i) == IF i = 1 THEN seqs[i] ELSE h[i - 1] \o seqs[i]
             g == [i \in 1..(m + 1) |-> IF i = m + 1 THEN e(f, i) ELSE f[i]]
  <2>2. f = [i \in 1..m |-> e(f, i)]
    BY <2>1 DEF IsFlat
  <2> HIDE DEF e
  <2>3. \A i \in 1..m : f[i] = e(f, i) /\ g[i] = f[i]
    BY <2>2
  <2>4. g[m + 1] = e(f, m + 1)
    OBVIOUS
  <2>5. ASSUME NEW i \in 1..(m + 1)
        PROVE  g[i] = e(g, i)
    <3>1. g[i] = e(f, i)
      <4>1. i = m + 1 \/ i \in 1..m
        OBVIOUS
      <4> HIDE DEF g
      <4> QED BY <2>3, <2>4, <4>1
    <3>2. i # 1 => i - 1 \in 1..m
      OBVIOUS
    <3>3. i # 1 => g[i - 1] = f[i - 1]
      <4> HIDE DEF g
      <4> QED BY <2>3, <3>2
    <3> HIDE DEF g
    <3> QED BY <3>1, <3>3 DEF e
  <2>6. g = [i \in 1..(m + 1) |-> e(g, i)]
    <3>1. g = [i \in 1..(m + 1) |-> g[i]]
      OBVIOUS
    <3> HIDE DEF g
    <3> QED BY <2>5, <3>1
  <2>7. IsFlat(g, m + 1, seqs)
    <3> HIDE DEF g
    <3> QED BY <2>6 DEF e, IsFlat
  <2> QED BY <2>7
<1> HIDE DEF S
<1>3. Nat \subseteq S
  BY <1>1, <1>2, NatSetInduction
<1> QED BY <1>3 DEF S

\* A sequence of readings; what the commit guard reads as the author of a
\* commit may be anything.
IsView(view) == view \in Seq(Range(view))

\* Whatever the guards read in a command.
Readings(c) == UNION {Range(View(c, i)) : i \in DOMAIN c}

\* An item is read command by command.
LEMMA ViewType ==
  ASSUME NEW c, IsCommand(c), NEW i \in DOMAIN c
  PROVE  /\ i \in Nat /\ c[i] \in Item /\ c[i].body \in Seq(Segment)
         /\ \A j \in DOMAIN c[i].body : WellFormed(c[i].body[j])
         /\ View(c, i) \in Seq(Readings(c)) /\ IsView(View(c, i))
         /\ DOMAIN View(c, i) = DOMAIN c[i].body /\ Len(View(c, i)) = Len(c[i].body)
         /\ \A j \in DOMAIN c[i].body : View(c, i)[j] = Reading(c, i, j)
<1>1. c \in Seq(Item) /\ \A j \in DOMAIN c[i].body : WellFormed(c[i].body[j])
  BY DEF IsCommand
<1>2. i \in Nat /\ c[i] \in Item
  BY <1>1
<1> DEFINE body == c[i].body
           v == View(c, i)
<1>3. body \in Seq(Segment)
  BY <1>2 DEF Item
<1>4. v = [j \in DOMAIN body |-> Reading(c, i, j)]
  BY DEF View
<1>5. Range(v) \subseteq Readings(c)
  BY DEF Readings
<1> HIDE DEF body, v
<1>6. Len(body) \in Nat /\ DOMAIN body = 1..Len(body)
  BY <1>3
<1>7. DOMAIN v = 1..Len(body) /\ \A j \in DOMAIN body : v[j] = Reading(c, i, j)
  BY <1>4, <1>6
<1>8. ASSUME NEW R, Range(v) \subseteq R
      PROVE  v \in Seq(R) /\ Len(v) = Len(body)
  <2>1. \A j \in 1..Len(body) : v[j] \in R
    BY <1>7, <1>8 DEF Range
  <2>2. v = [j \in 1..Len(body) |-> v[j]]
    BY <1>4, <1>6
  <2>3. v \in [1..Len(body) -> R]
    BY <2>1, <2>2
  <2> QED BY <1>6, <2>3, LenProperties
<1>9. v \in Seq(Readings(c)) /\ v \in Seq(Range(v)) /\ Len(v) = Len(body)
  BY <1>5, <1>8
<1> QED BY <1>1, <1>2, <1>3, <1>6, <1>7, <1>9 DEF IsView, body, v

\* The expansion of the first items of a command.
Parts(L, c) ==
    /\ L[0] = <<>>
    /\ \A i \in 0..(Len(c) - 1) : L[i + 1] = L[i] \o View(c, i + 1)

\* The expansion of a command grows by one view per item.
LEMMA ExpandParts ==
  ASSUME NEW c, IsCommand(c)
  PROVE  \E L : /\ Parts(L, c) /\ L[Len(c)] = Expand(c)
                /\ \A i \in 0..Len(c) : L[i] \in Seq(Readings(c))
<1> DEFINE n == Len(c)
           seqs == [i \in DOMAIN c |-> View(c, i)]
           X == Readings(c)
<1>1. n \in Nat /\ DOMAIN c = 1..n /\ \A i \in 1..n : View(c, i) \in Seq(X)
  <2>1. c \in Seq(Item)
    BY DEF IsCommand
  <2>2. n \in Nat /\ DOMAIN c = 1..n
    BY <2>1
  <2> QED BY <2>2, ViewType
<1> HIDE DEF X
<1>2. seqs \in Seq(Seq(X)) /\ Len(seqs) = n /\ \A i \in 1..n : seqs[i] = View(c, i)
  BY <1>1
<1>3. Expand(c) = FlattenSeq(seqs)
  BY DEF Expand
<1> HIDE DEF seqs, n
<1>4. CASE n = 0
  <2>1. seqs = <<>>
    BY <1>2, <1>4
  <2>2. FlattenSeq(seqs) = <<>>
    BY <1>2, <1>4, <2>1 DEF FlattenSeq
  <2> DEFINE L == [i \in 0..0 |-> <<>>]
  <2>3. Parts(L, c) /\ L[0] = <<>> /\ <<>> \in Seq(X)
    BY <1>4 DEF Parts, n
  <2> HIDE DEF L
  <2>4. \A i \in 0..Len(c) : L[i] \in Seq(X)
    <3>1. \A i \in 0..Len(c) : i = 0
      BY <1>4 DEF n
    <3> QED BY <2>3, <3>1
  <2> QED BY <1>3, <1>4, <2>2, <2>3, <2>4 DEF n, X
<1>5. CASE n # 0
  <2> DEFINE R(h) == h = [i \in 1..Len(seqs) |-> IF i = 1 THEN seqs[i] ELSE h[i - 1] \o seqs[i]]
             f == CHOOSE h : R(h)
  <2>1. PICK h : IsFlat(h, n, seqs)
    BY <1>1, FlatExists
  <2>2. R(h)
    BY <1>2, <2>1 DEF IsFlat
  <2>3. R(f)
    <3> HIDE DEF R
    <3> QED BY <2>2
  <2>4. FlattenSeq(seqs) = f[n]
    <3>1. FlattenSeq(seqs) = f[Len(seqs)]
      BY <1>2, <1>5, Zenon DEF FlattenSeq
    <3> QED BY <1>2, <3>1
  <2> HIDE DEF f
  <2>5. \A i \in 1..n : f[i] = IF i = 1 THEN seqs[i] ELSE f[i - 1] \o seqs[i]
    <3> DEFINE e(i) == IF i = 1 THEN seqs[i] ELSE f[i - 1] \o seqs[i]
    <3>1. f = [i \in 1..n |-> e(i)]
      BY <1>2, <2>3
    <3> HIDE DEF e
    <3>2. \A i \in 1..n : f[i] = e(i)
      BY <3>1
    <3> QED BY <3>2 DEF e
  <2> DEFINE L == [i \in 0..n |-> IF i = 0 THEN <<>> ELSE f[i]]
  <2>6. L[0] = <<>> /\ \A i \in 1..n : L[i] = f[i]
    BY <1>1
  <2> HIDE DEF L
  <2>7. ASSUME NEW i \in 0..(n - 1)
        PROVE  L[i + 1] = L[i] \o View(c, i + 1)
    <3>1. i + 1 \in 1..n /\ (i + 1) - 1 = i
      BY <1>1
    <3>2. CASE i = 0
      <4>1. <<>> \o View(c, 1) = View(c, 1)
        BY <1>1, <3>1, <3>2, ConcatEmptySeq
      <4>2. f[1] = seqs[1]
        BY <2>5, <3>1, <3>2
      <4>3. L[0] = <<>> /\ L[1] = f[1] /\ seqs[1] = View(c, 1)
        BY <1>2, <2>6, <3>1, <3>2
      <4>4. L[1] = L[0] \o View(c, 1)
        BY <4>1, <4>2, <4>3
      <4>5. i + 1 = 1
        BY <3>2
      <4> QED BY <3>2, <4>4, <4>5
    <3>3. CASE i # 0
      <4>1. i \in 1..n /\ i + 1 # 1
        BY <1>1, <3>3
      <4>2. f[i + 1] = f[i] \o seqs[i + 1]
        BY <2>5, <3>1, <4>1
      <4> QED BY <1>2, <2>6, <3>1, <4>1, <4>2
    <3> QED BY <3>2, <3>3
  <2>8. Parts(L, c) /\ L[n] = Expand(c)
    <3>1. n \in 1..n
      BY <1>1, <1>5
    <3>2. L[n] = Expand(c)
      BY <1>3, <2>4, <2>6, <3>1
    <3>3. Parts(L, c)
      BY <2>6, <2>7 DEF Parts, n
    <3> QED BY <3>2, <3>3
  <2>9. 0..n \subseteq {i \in 0..n : L[i] \in Seq(X)}
    <3> DEFINE S == {i \in 0..n : L[i] \in Seq(X)}
    <3>1. 0 \in S
      <4>1. 0 \in 0..n
        BY <1>1
      <4>2. <<>> \in Seq(X)
        OBVIOUS
      <4> QED BY <2>6, <4>1, <4>2
    <3>2. ASSUME NEW i \in 0..(n - 1), i \in S PROVE i + 1 \in S
      <4>1. i + 1 \in 1..n /\ i + 1 \in 0..n
        BY <1>1
      <4>2. L[i] \in Seq(X) /\ View(c, i + 1) \in Seq(X)
        BY <1>1, <3>2, <4>1
      <4>3. L[i] \o View(c, i + 1) \in Seq(X)
        BY <4>2
      <4> QED BY <2>7, <4>1, <4>3
    <3> HIDE DEF S
    <3>3. 0..n \subseteq S
      BY <1>1, <3>1, <3>2, StepInduction
    <3> QED BY <3>3 DEF S
  <2> QED BY <2>8, <2>9 DEF n, X
<1> QED BY <1>4, <1>5

\* The guards get the reading of every command of every item.
LEMMA ExpandHasAll ==
  ASSUME NEW c, IsCommand(c)
  PROVE  \A i \in DOMAIN c : \A j \in DOMAIN c[i].body :
            Reading(c, i, j) \in Range(Expand(c))
<1> DEFINE n == Len(c)
           In(i, l) == \A j \in DOMAIN c[i].body : Reading(c, i, j) \in Range(l)
<1>1. n \in Nat /\ DOMAIN c = 1..n
  <2>1. c \in Seq(Item)
    BY DEF IsCommand
  <2> QED BY <2>1
<1>2. PICK L : /\ Parts(L, c) /\ L[n] = Expand(c)
               /\ \A i \in 0..n : L[i] \in Seq(Readings(c))
  BY ExpandParts
<1> DEFINE S == {k \in 0..n : \A i \in 1..k : In(i, L[k])}
<1>3. \A k \in 0..(n - 1) : L[k + 1] = L[k] \o View(c, k + 1)
  BY <1>2 DEF Parts
<1>0. \A i \in 1..n : View(c, i) \in Seq(Readings(c)) /\ In(i, View(c, i))
  <2> SUFFICES ASSUME NEW i \in 1..n PROVE View(c, i) \in Seq(Readings(c)) /\ In(i, View(c, i))
    OBVIOUS
  <2>1. /\ View(c, i) \in Seq(Readings(c)) /\ DOMAIN View(c, i) = DOMAIN c[i].body
        /\ \A j \in DOMAIN c[i].body : View(c, i)[j] = Reading(c, i, j)
    BY <1>1, ViewType
  <2> QED BY <2>1 DEF Range
<1> HIDE DEF n
<1>4. 0 \in S
  BY <1>1
<1>5. ASSUME NEW k \in 0..(n - 1), k \in S
      PROVE  k + 1 \in S
  <2>1. k \in 0..n /\ k + 1 \in 0..n /\ k + 1 \in 1..n
    BY <1>1
  <2>2. L[k] \in Seq(Readings(c)) /\ View(c, k + 1) \in Seq(Readings(c))
    BY <1>0, <1>2, <2>1 DEF n
  <2>3. Range(L[k + 1]) = Range(L[k]) \cup Range(View(c, k + 1))
    <3> DEFINE u == L[k]
               v == View(c, k + 1)
    <3>1. L[k + 1] = u \o v /\ u \in Seq(Readings(c)) /\ v \in Seq(Readings(c))
      BY <1>3, <2>2
    <3> HIDE DEF u, v
    <3>2. Range(u \o v) = Range(u) \cup Range(v)
      BY <3>1, RangeConcatenation
    <3>3. Range(L[k + 1]) = Range(u) \cup Range(v)
      BY <3>1, <3>2
    <3> QED BY <3>3 DEF u, v
  <2>4. In(k + 1, View(c, k + 1))
    BY <1>0, <2>1
  <2>5. \A i \in 1..k : In(i, L[k])
    BY <1>5
  <2>6. ASSUME NEW i \in 1..(k + 1) PROVE In(i, L[k + 1])
    <3>1. i \in 1..k \/ i = k + 1
      BY <1>1
    <3>2. CASE i \in 1..k
      BY <2>3, <2>5, <3>2
    <3>3. CASE i = k + 1
      BY <2>3, <2>4, <3>3
    <3> QED BY <3>1, <3>2, <3>3
  <2> HIDE DEF In
  <2> QED BY <2>1, <2>6
<1>6. 0..n \subseteq S
  <2> HIDE DEF S
  <2> QED BY <1>1, <1>4, <1>5, StepInduction
<1>7. n \in S
  BY <1>1, <1>6
<1> QED BY <1>1, <1>2, <1>7 DEF n

\* The walk of two parts is the walk of the second after that of the first.
LEMMA WalkedConcat ==
  ASSUME NEW acc, NEW X, NEW a \in Seq(X), NEW b \in Seq(X)
  PROVE  Walked(acc, a \o b) = Walked(Walked(acc, a), b)
<1> DEFINE m == Len(a)
           n == Len(b)
           ab == a \o b
<1>1. /\ m \in Nat /\ n \in Nat /\ ab \in Seq(X) /\ Len(ab) = m + n
      /\ \A i \in 1..m : ab[i] = a[i]
      /\ \A i \in 1..n : ab[m + i] = b[i]
  <2>1. /\ m \in Nat /\ n \in Nat /\ ab \in Seq(X) /\ Len(ab) = m + n
        /\ \A i \in 1..(m + n) : ab[i] = IF i <= m THEN a[i] ELSE b[i - m]
    BY ConcatProperties
  <2> HIDE DEF m, n, ab
  <2>2. ASSUME NEW i \in 1..n PROVE ab[m + i] = b[i]
    <3>1. m + i \in 1..(m + n) /\ ~(m + i <= m) /\ (m + i) - m = i
      BY <2>1
    <3> QED BY <2>1, <3>1
  <2>3. ASSUME NEW i \in 1..m PROVE ab[i] = a[i]
    <3>1. i \in 1..(m + n) /\ i <= m
      BY <2>1
    <3> QED BY <2>1, <3>1
  <2> QED BY <2>1, <2>2, <2>3
<1>2. PICK F : Passes(F, WalkPass, acc, ab) /\ F[Len(ab)] = Walked(acc, ab)
  BY <1>1, WalkPasses
<1>3. PICK A : Passes(A, WalkPass, acc, a) /\ A[m] = Walked(acc, a)
  BY WalkPasses
<1>4. PICK B : Passes(B, WalkPass, Walked(acc, a), b) /\ B[n] = Walked(Walked(acc, a), b)
  BY WalkPasses
<1> DEFINE P == {k \in 0..m : F[k] = A[k]}
           Q == {k \in 0..n : F[m + k] = B[k]}
<1> HIDE DEF ab
<1>5. 0..m \subseteq P
  <2>1. 0 \in P
    BY <1>1, <1>2, <1>3 DEF Passes
  <2>2. ASSUME NEW k \in 0..(m - 1), k \in P PROVE k + 1 \in P
    <3>1. k + 1 \in 0..m /\ k + 1 \in 1..m /\ k \in 0..(Len(ab) - 1)
      BY <1>1
    <3>2. F[k + 1] = One(WalkPass, F[k], ab[k + 1])
      BY <1>2, <3>1 DEF Passes
    <3>3. A[k + 1] = One(WalkPass, A[k], a[k + 1])
      BY <1>3 DEF Passes
    <3> QED BY <1>1, <2>2, <3>1, <3>2, <3>3
  <2> HIDE DEF P
  <2> QED BY <1>1, <2>1, <2>2, StepInduction
<1>6. F[m] = Walked(acc, a)
  BY <1>1, <1>3, <1>5
<1>7. 0..n \subseteq Q
  <2>1. 0 \in Q
    BY <1>1, <1>4, <1>6 DEF Passes
  <2>2. ASSUME NEW k \in 0..(n - 1), k \in Q PROVE k + 1 \in Q
    <3>1. k + 1 \in 0..n /\ k + 1 \in 1..n /\ m + k \in 0..(Len(ab) - 1)
          /\ (m + k) + 1 = m + (k + 1)
      BY <1>1
    <3>2. F[m + (k + 1)] = One(WalkPass, F[m + k], ab[m + (k + 1)])
      BY <1>2, <3>1 DEF Passes
    <3>3. B[k + 1] = One(WalkPass, B[k], b[k + 1])
      BY <1>4 DEF Passes
    <3> QED BY <1>1, <2>2, <3>1, <3>2, <3>3
  <2> HIDE DEF Q
  <2> QED BY <1>1, <2>1, <2>2, StepInduction
<1>8. F[m + n] = B[n]
  BY <1>1, <1>7, SMTT(20)
<1> QED BY <1>1, <1>2, <1>4, <1>8 DEF ab

\* The walk, one item after the other.
ItemWalk(H, acc, c) ==
    /\ H[0] = acc
    /\ \A i \in 0..(Len(c) - 1) : H[i + 1] = Walked(H[i], View(c, i + 1))

\* The walk over the expanded command is a walk over one view after the other.
LEMMA WalkByItems ==
  ASSUME NEW acc, NEW c, IsCommand(c)
  PROVE  \E H : ItemWalk(H, acc, c) /\ H[Len(c)] = Walked(acc, Expand(c))
<1> DEFINE n == Len(c)
           X == Readings(c)
<1>1. n \in Nat /\ \A i \in 1..n : View(c, i) \in Seq(X)
  <2>1. c \in Seq(Item)
    BY DEF IsCommand
  <2>2. n \in Nat /\ DOMAIN c = 1..n
    BY <2>1
  <2> QED BY <2>2, ViewType
<1>2. PICK L : /\ Parts(L, c) /\ L[n] = Expand(c)
               /\ \A i \in 0..n : L[i] \in Seq(X)
  BY ExpandParts
<1> HIDE DEF X
<1>3. Walked(acc, <<>>) = acc
  <2> DEFINE e == <<>>
  <2>1. e \in Seq(X) /\ Len(e) = 0
    OBVIOUS
  <2> HIDE DEF e
  <2>2. PICK F : Passes(F, WalkPass, acc, e) /\ F[Len(e)] = Walked(acc, e)
    BY <2>1, WalkPasses
  <2> QED BY <2>1, <2>2 DEF Passes, e
<1> DEFINE H == [i \in 0..n |-> Walked(acc, L[i])]
<1>4. H[0] = acc
  BY <1>1, <1>2, <1>3 DEF Parts
<1>5. ASSUME NEW i \in 0..(n - 1)
      PROVE  H[i + 1] = Walked(H[i], View(c, i + 1))
  <2>1. i \in 0..n /\ i + 1 \in 0..n /\ i + 1 \in 1..n
    BY <1>1
  <2>2. L[i + 1] = L[i] \o View(c, i + 1)
    BY <1>2 DEF Parts
  <2>3. L[i] \in Seq(X) /\ View(c, i + 1) \in Seq(X)
    BY <1>1, <1>2, <2>1
  <2>4. Walked(acc, L[i] \o View(c, i + 1)) = Walked(Walked(acc, L[i]), View(c, i + 1))
    BY <2>3, WalkedConcat
  <2> HIDE DEF n
  <2> QED BY <2>1, <2>2, <2>4
<1>6. H[n] = Walked(acc, Expand(c))
  BY <1>1, <1>2
<1> HIDE DEF H
<1> QED BY <1>4, <1>5, <1>6 DEF ItemWalk

-----------------------------------------------------------------------------
\* What one simple command changes.

Names == Ids \cup {NoId} \cup Files
Push == [item : Nat, seg : Segment, owner : Ids \cup {NoId, "conflict"}, sender : Ids \cup {NoId}]
Commit == [item : Nat, tag : Ids \cup {"untagged", "conflict"}, author : Ids]
Shell == [cwd : Dirs, repos : [Repos -> Repository], login : Ids \cup {NoId},
          touched : SUBSET Names, sent : SUBSET Push, made : SUBSET Commit]
Guess == [dir : Dirs, author : Ids]

Where(w, seg, guess) ==
    LET dir == Entered(seg.dirs, w.cwd) IN IF dir = Unknown THEN guess.dir ELSE dir
Top(w, seg, guess) == Toplevel(Where(w, seg, guess))

\* The directory a command runs in, as git finds it, is one.
LEMMA EnteredType ==
  ASSUME NEW w, w.cwd \in Dirs, NEW seg, WellFormed(seg), NEW guess \in Guess
  PROVE  /\ Entered(seg.dirs, w.cwd) = AccumulateDir(seg.dirs, w.cwd)
         /\ Entered(seg.dirs, w.cwd) \in Dirs \cup {Unknown}
         /\ Where(w, seg, guess) \in Dirs
         /\ Top(w, seg, guess) \in Repos \cup {NoId}
<1>1. seg.dirs \in Seq(Dirs \cup {Unknown})
  BY DEF WellFormed, Segment
<1>2. Entered(seg.dirs, w.cwd) = AccumulateDir(seg.dirs, w.cwd)
  BY <1>1, EnteredLast
<1> DEFINE dirs == seg.dirs
<1> HIDE DEF dirs
<1>3. AccumulateDir(dirs, w.cwd) \in Dirs \cup {Unknown}
  <2>1. CASE dirs = <<>>
    BY <2>1 DEF AccumulateDir
  <2>2. CASE dirs # <<>>
    <3>1. Last(dirs) \in Dirs \cup {Unknown}
      BY <1>1, <2>2 DEF Last, dirs
    <3> QED BY <2>2, <3>1 DEF AccumulateDir
  <2> QED BY <2>1, <2>2
<1>4. Where(w, seg, guess) \in Dirs
  BY <1>2, <1>3 DEF Where, Guess, dirs
<1> QED BY <1>2, <1>3, <1>4 DEF Top, Toplevel, dirs

\* The shell after seturl and tag, in a repository.
LEMMA RepositoryChanges ==
  ASSUME NEW repos \in [Repos -> Repository], NEW top \in Repos, NEW id \in Ids, NEW x
  PROVE  /\ x = [repos EXCEPT ![top].tag = id] => x \in [Repos -> Repository]
         /\ x = [repos EXCEPT ![top].origin.who = id] =>
                /\ x \in [Repos -> Repository]
                /\ \A r \in Repos : x[r].tag = repos[r].tag /\ x[r].author = repos[r].author
<1> DEFINE old == repos[top]
<1>1. old \in Repository
  OBVIOUS
<1>2. old.origin \in Urls
  BY <1>1 DEF Repository
<1>3. ASSUME x = [repos EXCEPT ![top].tag = id]
      PROVE  x \in [Repos -> Repository]
  <2> DEFINE new == [old EXCEPT !.tag = id]
  <2>1. new \in Repository
    <3> HIDE DEF old
    <3> QED BY <1>1 DEF Repository
  <2>2. x = [repos EXCEPT ![top] = new]
    BY <1>3
  <2> HIDE DEF new
  <2> QED BY <2>1, <2>2
<1>4. ASSUME x = [repos EXCEPT ![top].origin.who = id]
      PROVE  /\ x \in [Repos -> Repository]
             /\ \A r \in Repos : x[r].tag = repos[r].tag /\ x[r].author = repos[r].author
  <2> DEFINE new == [old EXCEPT !.origin.who = id]
  <2>1. [old.origin EXCEPT !.who = id] \in Urls
    BY <1>2 DEF Urls
  <2>2. new \in Repository /\ new.tag = old.tag /\ new.author = old.author
    <3> HIDE DEF old
    <3> QED BY <1>1, <2>1 DEF Repository
  <2>3. x = [repos EXCEPT ![top] = new]
    BY <1>4
  <2> HIDE DEF new
  <2>4. x \in [Repos -> Repository] /\ \A r \in Repos : x[r] = IF r = top THEN new ELSE repos[r]
    BY <2>2, <2>3
  <2> QED BY <2>2, <2>4
<1> QED BY <1>3, <1>4

NewPush(w, seg, item, guess) ==
    [item |-> item, seg |-> seg, owner |-> Owner(seg, Tag(Top(w, seg, guess), w.repos)),
     sender |-> PushedAs(seg, Top(w, seg, guess), w.repos, w.login)]

NewCommit(w, seg, item, guess) ==
    LET top == Top(w, seg, guess) IN
    [item |-> item, tag |-> w.repos[top].tag,
     author |-> IF seg.danger \/ seg.author = "pattern" THEN guess.author
                ELSE Author(seg, w.repos[top].author)]

\* The cases of Execute, apart.
LEMMA ExecuteCases ==
  ASSUME NEW w, NEW seg, NEW item, NEW guess,
         NEW x, x = Execute(w, seg, item, guess),
         NEW top, top = Top(w, seg, guess)
  PROVE  /\ seg.op = "cd" /\ seg.wrap = "plain" =>
                x = [w EXCEPT !.cwd = Where(w, seg, guess)]
         /\ seg.op = "cd" /\ seg.wrap # "plain" => x = w
         /\ seg.op = "popd" /\ seg.wrap = "plain" => x = [w EXCEPT !.cwd = guess.dir]
         /\ seg.op = "popd" /\ seg.wrap # "plain" => x = w
         /\ seg.op = "seturl" /\ top # NoId => x = [w EXCEPT !.repos[top].origin.who = seg.id]
         /\ seg.op = "tag" /\ top # NoId => x = [w EXCEPT !.repos[top].tag = seg.id]
         /\ seg.op \in {"seturl", "tag", "commit"} /\ top = NoId => x = w
         /\ seg.op = "switch" => x = [w EXCEPT !.login = seg.id]
         /\ seg.op = "touch" => x = [w EXCEPT !.touched = @ \cup {seg.id}]
         /\ seg.op = "commit" /\ top # NoId =>
                x = [w EXCEPT !.made = @ \cup {NewCommit(w, seg, item, guess)}]
         /\ seg.op \in PushClass /\ Delivers(seg, top, w.repos) =>
                x = [w EXCEPT !.sent = @ \cup {NewPush(w, seg, item, guess)}]
         /\ seg.op \in PushClass /\ ~Delivers(seg, top, w.repos) => x = w
<1> DEFINE moved == [w EXCEPT !.cwd = Where(w, seg, guess)]
           back == [w EXCEPT !.cwd = guess.dir]
           url == [w EXCEPT !.repos[top].origin.who = seg.id]
           tag == [w EXCEPT !.repos[top].tag = seg.id]
           login == [w EXCEPT !.login = seg.id]
           touched == [w EXCEPT !.touched = @ \cup {seg.id}]
           committed == [w EXCEPT !.made = @ \cup {NewCommit(w, seg, item, guess)}]
           pushed == [w EXCEPT !.sent = @ \cup {NewPush(w, seg, item, guess)}]
<1>1. x = CASE seg.op = "cd" /\ seg.wrap = "plain" -> moved
            [] seg.op = "popd" /\ seg.wrap = "plain" -> back
            [] seg.op = "seturl" /\ top # NoId -> url
            [] seg.op = "tag" /\ top # NoId -> tag
            [] seg.op = "switch" -> login
            [] seg.op = "touch" -> touched
            [] seg.op = "commit" /\ top # NoId -> committed
            [] seg.op \in PushClass /\ Delivers(seg, top, w.repos) -> pushed
            [] OTHER -> w
  BY Zenon DEF Execute, NewCommit, NewPush, Where, Top
<1> HIDE DEF moved, back, url, tag, login, touched, committed, pushed
<1>2. /\ seg.op = "cd" /\ seg.wrap = "plain" => x = moved
      /\ seg.op = "cd" /\ seg.wrap # "plain" => x = w
      /\ seg.op = "popd" /\ seg.wrap = "plain" => x = back
      /\ seg.op = "popd" /\ seg.wrap # "plain" => x = w
      /\ seg.op = "seturl" /\ top # NoId => x = url
      /\ seg.op = "tag" /\ top # NoId => x = tag
      /\ seg.op \in {"seturl", "tag", "commit"} /\ top = NoId => x = w
      /\ seg.op = "switch" => x = login
      /\ seg.op = "touch" => x = touched
      /\ seg.op = "commit" /\ top # NoId => x = committed
      /\ seg.op \in PushClass /\ Delivers(seg, top, w.repos) => x = pushed
      /\ seg.op \in PushClass /\ ~Delivers(seg, top, w.repos) => x = w
  BY <1>1 DEF PushClass
<1> QED BY <1>2 DEF moved, back, url, tag, login, touched, committed, pushed

\* A remote is a URL.
LEMMA RemoteType ==
  ASSUME NEW r \in Repository, NEW seg
  PROVE  Remote(r, seg) \in Urls
<1>1. r.origin \in Urls /\ r.other \in Urls /\ r.default \in {"origin", "other"}
  BY DEF Repository
<1>2. r["origin"] \in Urls /\ r["other"] \in Urls
  BY <1>1
<1>3. Named(seg.remote) \in {"origin", "other"}
  BY DEF Named
<1> QED BY <1>1, <1>2, <1>3 DEF Remote

\* What a push delivers is well typed.
LEMMA NewPushType ==
  ASSUME NEW w \in Shell, NEW seg, WellFormed(seg), NEW item \in Nat, NEW guess \in Guess,
         Delivers(seg, Top(w, seg, guess), w.repos)
  PROVE  NewPush(w, seg, item, guess) \in Push
<1> DEFINE top == Top(w, seg, guess)
<1>1. /\ w.repos \in [Repos -> Repository] /\ w.login \in Ids \cup {NoId}
      /\ w.cwd \in Dirs
  BY DEF Shell
<1>2. top \in Repos \cup {NoId}
  BY <1>1, EnteredType
<1> HIDE DEF top
<1>3. /\ seg \in Segment /\ seg.over \in Ids \cup {NoId, "conflict"} /\ seg.danger \in BOOLEAN
      /\ seg.op = "sendpack" => seg.id \in Ids
  BY DEF WellFormed, Segment
<1>4. Tag(top, w.repos) \in Ids \cup {NoId, "untagged", "conflict"}
  <2>1. CASE top = NoId
    BY <2>1 DEF Tag
  <2>2. CASE top # NoId
    <3>1. w.repos[top] \in Repository
      BY <1>1, <1>2, <2>2
    <3>2. w.repos[top].tag \in Ids \cup {"untagged", "conflict"}
      BY <3>1 DEF Repository
    <3> QED BY <2>2, <3>2 DEF Tag
  <2> QED BY <2>1, <2>2
<1>5. Owner(seg, Tag(top, w.repos)) \in Ids \cup {NoId, "conflict"}
  BY <1>3, <1>4 DEF Owner
<1>6. PushedAs(seg, top, w.repos, w.login) \in Ids \cup {NoId}
  <2>1. CASE seg.danger
    BY <2>1 DEF PushedAs
  <2>2. CASE ~seg.danger /\ seg.op = "sendpack"
    BY <1>3, <2>2 DEF PushedAs
  <2>3. CASE ~seg.danger /\ seg.op = "push"
    <3>1. top # NoId
      BY <2>3 DEF Delivers, top
    <3>2. w.repos[top] \in Repository
      BY <1>1, <1>2, <3>1
    <3> DEFINE u == Remote(w.repos[top], seg)
    <3>3. u.who \in Ids
      BY <3>2, RemoteType DEF Urls
    <3>4. PushedAs(seg, top, w.repos, w.login) =
            IF u.scheme = "https" /\ u.who # w.login THEN NoId ELSE u.who
      BY <2>3 DEF PushedAs
    <3> QED BY <3>3, <3>4
  <2>4. CASE ~seg.danger /\ seg.op \notin {"sendpack", "push"}
    BY <1>1, <2>4 DEF PushedAs
  <2> QED BY <1>3, <2>1, <2>2, <2>3, <2>4
<1> QED BY <1>3, <1>5, <1>6 DEF NewPush, Push, top

\* And what a commit makes.
LEMMA NewCommitType ==
  ASSUME NEW w \in Shell, NEW seg, WellFormed(seg), NEW item \in Nat, NEW guess \in Guess,
         Top(w, seg, guess) # NoId
  PROVE  NewCommit(w, seg, item, guess) \in Commit
<1> DEFINE top == Top(w, seg, guess)
<1>1. w.repos \in [Repos -> Repository] /\ w.cwd \in Dirs
  BY DEF Shell
<1>2. top \in Repos
  BY <1>1, EnteredType
<1>3. w.repos[top] \in Repository
  BY <1>1, <1>2
<1> HIDE DEF top
<1>4. w.repos[top].tag \in Ids \cup {"untagged", "conflict"} /\ w.repos[top].author \in Ids
  BY <1>3 DEF Repository
<1>5. seg.author \in Ids \cup {"config", "pattern"} /\ guess.author \in Ids
  BY DEF WellFormed, Segment, Guess
<1> DEFINE m == NewCommit(w, seg, item, guess)
<1>6. m.author \in Ids
  <2>1. seg.author # "pattern" => Author(seg, w.repos[top].author) \in Ids
    BY <1>4, <1>5 DEF Author
  <2> QED BY <1>5, <2>1 DEF NewCommit, top
<1>7. m = [item |-> item, tag |-> w.repos[top].tag, author |-> m.author]
  BY DEF NewCommit, top
<1> HIDE DEF m
<1>8. m \in Commit
  BY <1>4, <1>6, <1>7 DEF Commit
<1> QED BY <1>8 DEF m

\* What a command may change, kind by kind.
LEMMA Effects ==
  ASSUME NEW w \in Shell, NEW seg, WellFormed(seg), NEW item \in Nat, NEW guess \in Guess,
         NEW x, x = Execute(w, seg, item, guess),
         NEW top, top = Top(w, seg, guess)
  PROVE  /\ x \in Shell
         /\ \/ x.cwd = w.cwd /\ ~(seg.op = "cd" /\ seg.wrap = "plain")
            \/ seg.op = "popd" /\ seg.wrap = "plain"
            \/ seg.op = "cd" /\ seg.wrap = "plain" /\ x.cwd = Where(w, seg, guess)
         /\ x.repos = w.repos \/ seg.op \in {"seturl", "tag"}
         /\ seg.op # "tag" =>
                \A r \in Repos : /\ x.repos[r].tag = w.repos[r].tag
                                 /\ x.repos[r].author = w.repos[r].author
         /\ x.login = w.login \/ seg.op = "switch"
         /\ \/ x.sent = w.sent
            \/ /\ seg.op \in PushClass /\ Delivers(seg, top, w.repos)
               /\ x.sent = w.sent \cup {NewPush(w, seg, item, guess)}
         /\ \/ x.made = w.made
            \/ /\ seg.op = "commit" /\ top # NoId
               /\ x.made = w.made \cup {NewCommit(w, seg, item, guess)}
<1>1. /\ w.cwd \in Dirs /\ w.repos \in [Repos -> Repository] /\ w.login \in Ids \cup {NoId}
      /\ w.touched \in SUBSET Names /\ w.sent \in SUBSET Push /\ w.made \in SUBSET Commit
  BY DEF Shell
<1>2. Where(w, seg, guess) \in Dirs /\ top \in Repos \cup {NoId}
  BY <1>1, EnteredType
<1>3. seg.op \in Ops /\ seg.wrap \in {"plain", "env", "chdir"} /\ seg.id \in Names
      /\ (seg.op \in {"seturl", "tag", "switch"} => seg.id \in Ids)
  BY DEF WellFormed, Segment, Names
<1>4. CASE seg.op = "cd" /\ seg.wrap = "plain"
  <2>1. x = [w EXCEPT !.cwd = Where(w, seg, guess)]
    BY <1>4, ExecuteCases
  <2>2. /\ x \in Shell /\ x.cwd = Where(w, seg, guess) /\ x.repos = w.repos
        /\ x.login = w.login /\ x.sent = w.sent /\ x.made = w.made
    BY <1>2, <2>1 DEF Shell
  <2> QED BY <1>4, <2>2
<1>5. CASE x = w /\ ~(seg.op = "cd" /\ seg.wrap = "plain")
  BY <1>5
<1>6. CASE seg.op = "popd" /\ seg.wrap = "plain"
  <2>1. x = [w EXCEPT !.cwd = guess.dir]
    BY <1>6, ExecuteCases
  <2>2. /\ x \in Shell /\ x.repos = w.repos
        /\ x.login = w.login /\ x.sent = w.sent /\ x.made = w.made
    BY <2>1 DEF Shell, Guess
  <2> QED BY <1>6, <2>2
<1>7. CASE seg.op = "seturl" /\ top # NoId
  <2> DEFINE new == [w.repos EXCEPT ![top].origin.who = seg.id]
  <2>1. x = [w EXCEPT !.repos[top].origin.who = seg.id]
    BY <1>7, ExecuteCases
  <2>2. x = [w EXCEPT !.repos = new]
    BY <2>1
  <2>3. /\ new \in [Repos -> Repository]
        /\ \A r \in Repos : new[r].tag = w.repos[r].tag /\ new[r].author = w.repos[r].author
    <3>1. w.repos \in [Repos -> Repository] /\ top \in Repos /\ seg.id \in Ids
      BY <1>1, <1>2, <1>3, <1>7
    <3>2. new = [w.repos EXCEPT ![top].origin.who = seg.id]
      OBVIOUS
    <3> HIDE DEF new
    <3> QED BY <3>1, <3>2, RepositoryChanges
  <2> HIDE DEF new
  <2>4. /\ x \in Shell /\ x.repos = new /\ x.cwd = w.cwd
        /\ x.login = w.login /\ x.sent = w.sent /\ x.made = w.made
    BY <2>2, <2>3 DEF Shell
  <2> QED BY <1>7, <2>3, <2>4
<1>8. CASE seg.op = "tag" /\ top # NoId
  <2> DEFINE new == [w.repos EXCEPT ![top].tag = seg.id]
  <2>1. x = [w EXCEPT !.repos[top].tag = seg.id]
    BY <1>8, ExecuteCases
  <2>2. x = [w EXCEPT !.repos = new]
    BY <2>1
  <2>3. new \in [Repos -> Repository]
    <3>1. w.repos \in [Repos -> Repository] /\ top \in Repos /\ seg.id \in Ids
      BY <1>1, <1>2, <1>3, <1>8
    <3>2. new = [w.repos EXCEPT ![top].tag = seg.id]
      OBVIOUS
    <3> HIDE DEF new
    <3> QED BY <3>1, <3>2, RepositoryChanges
  <2> HIDE DEF new
  <2>4. /\ x \in Shell /\ x.repos = new /\ x.cwd = w.cwd
        /\ x.login = w.login /\ x.sent = w.sent /\ x.made = w.made
    BY <2>2, <2>3 DEF Shell
  <2> QED BY <1>8, <2>4
<1>9. CASE seg.op = "switch"
  <2>1. x = [w EXCEPT !.login = seg.id]
    BY <1>9, ExecuteCases
  <2>2. /\ x \in Shell /\ x.repos = w.repos /\ x.cwd = w.cwd
        /\ x.sent = w.sent /\ x.made = w.made
    BY <1>3, <1>9, <2>1 DEF Shell
  <2> QED BY <1>9, <2>2
<1>10. CASE seg.op = "touch"
  <2>1. x = [w EXCEPT !.touched = w.touched \cup {seg.id}]
    BY <1>10, ExecuteCases
  <2>2. w.touched \cup {seg.id} \in SUBSET Names
    BY <1>1, <1>3
  <2>3. /\ x \in Shell /\ x.repos = w.repos /\ x.cwd = w.cwd
        /\ x.login = w.login /\ x.sent = w.sent /\ x.made = w.made
    BY <2>1, <2>2 DEF Shell
  <2> QED BY <1>10, <2>3
<1>11. CASE seg.op = "commit" /\ top # NoId
  <2> DEFINE new == w.made \cup {NewCommit(w, seg, item, guess)}
  <2>1. x = [w EXCEPT !.made = new]
    BY <1>11, ExecuteCases
  <2>2. NewCommit(w, seg, item, guess) \in Commit
    BY <1>11, NewCommitType
  <2>3. new \in SUBSET Commit
    BY <1>1, <2>2
  <2> HIDE DEF new
  <2>4. /\ x \in Shell /\ x.repos = w.repos /\ x.cwd = w.cwd
        /\ x.login = w.login /\ x.sent = w.sent /\ x.made = new
    BY <2>1, <2>3 DEF Shell
  <2> QED BY <1>11, <2>4 DEF new
<1>12. CASE seg.op \in PushClass /\ Delivers(seg, top, w.repos)
  <2> DEFINE new == w.sent \cup {NewPush(w, seg, item, guess)}
  <2>1. x = [w EXCEPT !.sent = new]
    BY <1>12, ExecuteCases
  <2>2. NewPush(w, seg, item, guess) \in Push
    BY <1>12, NewPushType
  <2>3. new \in SUBSET Push
    BY <1>1, <2>2
  <2> HIDE DEF new
  <2>4. /\ x \in Shell /\ x.repos = w.repos /\ x.cwd = w.cwd
        /\ x.login = w.login /\ x.made = w.made /\ x.sent = new
    BY <2>1, <2>3 DEF Shell
  <2> QED BY <1>12, <2>4 DEF new, PushClass
<1>13. \/ seg.op = "cd" /\ seg.wrap = "plain"
       \/ x = w /\ ~(seg.op = "cd" /\ seg.wrap = "plain")
       \/ seg.op = "popd" /\ seg.wrap = "plain"
       \/ seg.op = "seturl" /\ top # NoId
       \/ seg.op = "tag" /\ top # NoId
       \/ seg.op = "switch"
       \/ seg.op = "touch"
       \/ seg.op = "commit" /\ top # NoId
       \/ seg.op \in PushClass /\ Delivers(seg, top, w.repos)
  <2>1. /\ seg.op \in {"cd", "popd"} /\ seg.wrap # "plain" => x = w
        /\ seg.op \in {"seturl", "tag", "commit"} /\ top = NoId => x = w
        /\ seg.op \in PushClass /\ ~Delivers(seg, top, w.repos) => x = w
    BY ExecuteCases
  <2> QED BY <1>3, <2>1 DEF Ops, PushClass
<1> QED BY <1>4, <1>5, <1>6, <1>7, <1>8, <1>9, <1>10, <1>11, <1>12, <1>13

-----------------------------------------------------------------------------
\* What the guards read of one command.

\* What the walk needs of a reading.
IsReading(r) ==
    /\ r.op = "cd" /\ r.wrap = "plain" => r.dirs \in Seq(Dirs \cup {Unknown}) /\ Len(r.dirs) = 1
    /\ r.op \in PushClass => WellFormed(r) /\ r.wrap # "chdir"

\* A command is read as itself or it is not read: then it moves nothing.
Reads(r, s) ==
    /\ IsReading(r) /\ WellFormed(s)
    /\ r.op \in {s.op, "argument", "unparsed"} /\ r.wrap = s.wrap

\* It is read as what it is, if it moves the shell or changes a remote.
Moving(s) == s.op \in {"cd", "popd", "seturl"}
Faithful(r, s) == Moving(s) /\ s.wrap # "chdir" => r = s

\* A push is read as what it is, or in a way that is refused.
Seen(r, s) ==
    \/ r = s \/ r.op = "unparsed"
    \/ r.op = "push" /\ r.remote = "path"
    \/ s.op = "push" /\ s.remote = "default"

\* The fields of a command.
LEMMA SegmentFields ==
  ASSUME NEW s, WellFormed(s)
  PROVE  /\ s \in Segment /\ s.op \in Ops /\ s.wrap \in {"plain", "env", "chdir"}
         /\ s.dirs \in Seq(Dirs \cup {Unknown}) /\ s.join \in Joins
         /\ s.remote \in {"origin", "other", "default", "path"}
         /\ s.op \notin {"argument", "unparsed"}
  BY DEF WellFormed, Segment, Ops, PushClass

\* A delimiter attached to a word.
LEMMA AttachedReading ==
  ASSUME NEW s, WellFormed(s), s.wrap # "chdir", NEW r, r = Attached(s)
  PROVE  /\ Reads(r, s)
         /\ s.op \notin {"cd", "popd", "pr", "merge", "create", "push", "commit"} => r = s
         /\ s.op = "push" => Seen(r, s)
         /\ s.op = "commit" /\ s.author # "config" => r = [s EXCEPT !.author = "pattern"]
<1>1. /\ s \in Segment /\ s.op \in Ops /\ s.wrap \in {"plain", "env", "chdir"}
      /\ s.dirs \in Seq(Dirs \cup {Unknown})
      /\ s.remote \in {"origin", "other", "default", "path"}
      /\ s.op \notin {"argument", "unparsed"}
  BY SegmentFields
<1> DEFINE d == IF s.dirs = <<Unknown>> THEN s.dirs ELSE <<Outside>>
           into == [s EXCEPT !.dirs = d]
           word == [s EXCEPT !.op = "argument"]
           path == [s EXCEPT !.remote = "path"]
           name == [s EXCEPT !.author = "pattern"]
<1>2. r = CASE s.op = "cd" -> into
            [] \/ s.op \in {"popd", "pr", "merge", "create"}
               \/ s.op = "push" /\ s.remote = "default"
               \/ s.op = "commit" /\ s.author = "config" -> word
            [] s.op = "push" /\ s.remote # "default" -> path
            [] s.op = "commit" /\ s.author # "config" -> name
            [] OTHER -> s
  BY DEF Attached
<1>3. d \in Seq(Dirs \cup {Unknown}) /\ Len(d) = 1
  <2>1. Outside \in Dirs
    BY DEF Dirs
  <2>2. \A x \in Dirs \cup {Unknown} : <<x>> \in Seq(Dirs \cup {Unknown}) /\ Len(<<x>>) = 1
    OBVIOUS
  <2> QED BY <2>1, <2>2
<1>4. into.op = s.op /\ into.wrap = s.wrap /\ into.dirs = d
  <2> HIDE DEF d
  <2> QED BY <1>1 DEF Segment
<1>5. word.op = "argument" /\ word.wrap = s.wrap
  BY <1>1 DEF Segment
<1>6. /\ path \in Segment /\ path.op = s.op /\ path.wrap = s.wrap /\ path.remote = "path"
      /\ s.op = "push" => WellFormed(path)
  <2>1. path \in Segment /\ path.op = s.op /\ path.wrap = s.wrap /\ path.remote = "path"
    BY <1>1 DEF Segment
  <2> HIDE DEF path
  <2> QED BY <2>1 DEF WellFormed
<1>7. name.op = s.op /\ name.wrap = s.wrap
  BY <1>1 DEF Segment
<1> HIDE DEF d, into, word, path, name
<1>8. s.op = "cd" => r = into
  BY <1>2
<1>9. /\ s.op \in {"popd", "pr", "merge", "create"} => r = word
      /\ s.op = "push" /\ s.remote = "default" => r = word
      /\ s.op = "commit" /\ s.author = "config" => r = word
      /\ s.op = "push" /\ s.remote # "default" => r = path
      /\ s.op = "commit" /\ s.author # "config" => r = name
      /\ s.op \notin {"cd", "popd", "pr", "merge", "create", "push", "commit"} => r = s
  BY <1>2
<1>10. Reads(r, s)
  <2>1. CASE s.op = "cd"
    BY <1>3, <1>4, <1>8, <2>1 DEF Reads, IsReading, PushClass
  <2>2. CASE r = word
    BY <1>5, <2>2 DEF Reads, IsReading, PushClass
  <2>3. CASE s.op = "push" /\ r = path
    BY <1>6, <2>3 DEF Reads, IsReading, PushClass
  <2>4. CASE s.op = "commit" /\ r = name
    BY <1>7, <2>4 DEF Reads, IsReading, PushClass
  <2>5. CASE s.op # "cd" /\ r = s
    BY <2>5 DEF Reads, IsReading
  <2> QED BY <1>9, <2>1, <2>2, <2>3, <2>4, <2>5
<1>11. s.op = "push" => Seen(r, s)
  BY <1>6, <1>9 DEF Seen
<1> QED BY <1>9, <1>10, <1>11 DEF name

\* A command that heads its segment.
LEMMA ExtendedReading ==
  ASSUME NEW s, WellFormed(s), s.wrap # "chdir", NEW c, NEW p, NEW r, r = Extended(c, p, s)
  PROVE  /\ Reads(r, s)
         /\ s.op \notin {"push", "commit"} => r = s
         /\ s.op = "push" => Seen(r, s)
         /\ s.op = "commit" /\ (s.author = "config" => Authors(c, p) = {}) => r = s
<1>1. /\ s \in Segment /\ s.op \in Ops /\ s.wrap \in {"plain", "env", "chdir"}
      /\ s.dirs \in Seq(Dirs \cup {Unknown})
      /\ s.remote \in {"origin", "other", "default", "path"}
  BY SegmentFields
<1> DEFINE path == [s EXCEPT !.remote = "path"]
           name(a) == [s EXCEPT !.author = a]
<1>2. \E a : r = CASE s.op = "push" /\ s.remote = "default" /\ Swallowed(c, p) # {} -> path
                   [] s.op = "commit" /\ s.author = "config" /\ Authors(c, p) # {} -> name(a)
                   [] OTHER -> s
  BY DEF Extended
<1>3. path \in Segment /\ path.op = s.op /\ path.wrap = s.wrap /\ path.remote = "path"
  BY <1>1 DEF Segment
<1>4. ASSUME NEW a PROVE name(a).op = s.op /\ name(a).wrap = s.wrap
  BY <1>1 DEF Segment
<1> HIDE DEF path, name
<1>5. \/ s.op = "push" /\ s.remote = "default" /\ r = path
      \/ s.op = "commit" /\ s.author = "config" /\ Authors(c, p) # {} /\ \E a : r = name(a)
      \/ r = s
  BY <1>2
<1>6. CASE s.op = "push" /\ s.remote = "default" /\ r = path
  <2>1. WellFormed(path)
    BY <1>3, <1>6 DEF WellFormed
  <2> QED BY <1>3, <1>6, <2>1 DEF Reads, IsReading, Seen, PushClass
<1>7. CASE s.op = "commit" /\ s.author = "config" /\ Authors(c, p) # {} /\ \E a : r = name(a)
  BY <1>4, <1>7 DEF Reads, IsReading, PushClass
<1>8. CASE r = s
  <2>1. s.op = "cd" => Len(s.dirs) = 1
    BY DEF WellFormed
  <2> QED BY <1>1, <1>8, <2>1 DEF Reads, IsReading, Seen
<1> QED BY <1>5, <1>6, <1>7, <1>8

\* What a reading has of the command it is a reading of.
LEMMA ReadingFacts ==
  ASSUME NEW c, IsCommand(c), NEW i \in DOMAIN c, NEW j \in DOMAIN c[i].body,
         NEW s, s = c[i].body[j], NEW r, r = Reading(c, i, j)
  PROVE  /\ Reads(r, s)
         /\ ~Absorbed(c, i, j) /\ ~(s.op \in {"cd", "popd"} /\ s.join = "attached")
                => Faithful(r, s)
         /\ /\ s.op \in PushClass /\ ~Absorbed(c, i, j)
            /\ ~(s.op \in {"pr", "merge", "create"} /\ s.join = "attached")
            /\ ~(s.op = "merge" /\ s.wrap = "chdir")
            => Seen(r, s)
         /\ /\ s.op = "commit" /\ ~Absorbed(c, i, j) /\ s.wrap # "chdir"
            /\ ~(s.author = "config" /\ s.join = "attached")
            /\ ~(s.author = "config" /\ Authors(c, <<i, j>>) # {})
            => r \in {s, [s EXCEPT !.author = "pattern"]}
<1>1. WellFormed(s)
  BY DEF IsCommand
<1>2. /\ s \in Segment /\ s.op \in Ops /\ s.wrap \in {"plain", "env", "chdir"}
      /\ s.op \notin {"argument", "unparsed"}
  BY <1>1, SegmentFields
<1> DEFINE word(op) == [s EXCEPT !.op = op]
           words == {s.op} \cup {c[q[1]].body[q[2]].op : q \in Swallowed(c, <<i, j>>)}
           op == IF words \cap {"push", "sendpack", "pr", "create"} # {} THEN "unparsed" ELSE "argument"
           absorbed == Absorbed(c, i, j)
           a == Attached(s)
           e == Extended(c, <<i, j>>, s)
<1>3. /\ op \in {"argument", "unparsed"}
      /\ s.op \in {"push", "sendpack", "pr", "create"} => op = "unparsed"
  BY DEF PushClass
<1> HIDE DEF words, op
<1>4. r = CASE absorbed -> word("argument")
            [] ~absorbed /\ s.wrap = "chdir" -> word(op)
            [] ~absorbed /\ s.wrap # "chdir" /\ s.join = "attached" -> a
            [] OTHER -> e
  BY DEF Reading, op, words
<1>5. \A x : word(x).op = x /\ word(x).wrap = s.wrap
  BY <1>2 DEF Segment
<1>6. s.wrap # "chdir" =>
         /\ Reads(a, s)
         /\ s.op \notin {"cd", "popd", "pr", "merge", "create", "push", "commit"} => a = s
         /\ s.op = "push" => Seen(a, s)
         /\ s.op = "commit" /\ s.author # "config" => a = [s EXCEPT !.author = "pattern"]
  BY <1>1, AttachedReading
<1>7. s.wrap # "chdir" =>
         /\ Reads(e, s)
         /\ s.op \notin {"push", "commit"} => e = s
         /\ s.op = "push" => Seen(e, s)
         /\ s.op = "commit" /\ (s.author = "config" => Authors(c, <<i, j>>) = {}) => e = s
  BY <1>1, ExtendedReading
<1> HIDE DEF word, absorbed, a, e
<1>8. CASE absorbed
  <2>1. r = word("argument")
    BY <1>4, <1>8
  <2> QED BY <1>1, <1>5, <1>8, <2>1 DEF Reads, IsReading, PushClass, absorbed
<1>9. CASE ~absorbed /\ s.wrap = "chdir"
  <2>1. r = word(op)
    BY <1>4, <1>9
  <2>2. s.op \in PushClass /\ s.op # "merge" => r.op = "unparsed"
    BY <1>3, <1>5, <2>1 DEF PushClass
  <2> QED BY <1>1, <1>3, <1>5, <1>9, <2>1, <2>2 DEF Reads, IsReading, PushClass, Faithful, Seen
<1>10. CASE ~absorbed /\ s.wrap # "chdir" /\ s.join = "attached"
  <2>1. r = a
    BY <1>4, <1>10
  <2> QED BY <1>6, <1>10, <2>1 DEF Faithful, Moving, Seen, PushClass
<1>11. CASE ~absorbed /\ s.wrap # "chdir" /\ s.join # "attached"
  <2>1. r = e
    BY <1>4, <1>11
  <2> QED BY <1>7, <1>11, <2>1 DEF Faithful, Moving, Seen, PushClass
<1> QED BY <1>8, <1>9, <1>10, <1>11

-----------------------------------------------------------------------------
\* What one segment changes in the walk of the push guard.

Descriptor == [seg : Segment, cwd : Dirs \cup {Unknown}, mutated : BOOLEAN]
Walker == [cwd : Dirs \cup {Unknown}, mutated : BOOLEAN, refused : BOOLEAN,
           pushes : Seq(Descriptor)]

Collected(acc, s) == [seg |-> s, cwd |-> acc.cwd, mutated |-> acc.mutated]

\* The walk, one kind of command at a time.
LEMMA WalkCases ==
  ASSUME NEW acc, NEW s, NEW x, x = Walk(acc, s)
  PROVE  /\ s.op = "cd" /\ s.wrap = "plain" =>
                x = [acc EXCEPT !.cwd = IF @ = Unknown THEN Unknown ELSE Head(s.dirs)]
         /\ s.op = "popd" /\ s.wrap = "plain" => x = [acc EXCEPT !.cwd = Unknown]
         /\ Mutates(s) => x = [acc EXCEPT !.mutated = TRUE]
         /\ s.op = "unparsed" => x = [acc EXCEPT !.refused = TRUE]
         /\ s.op \in PushClass => x = [acc EXCEPT !.pushes = Append(@, Collected(acc, s))]
         /\ /\ ~(s.op \in {"cd", "popd"} /\ s.wrap = "plain")
            /\ ~Mutates(s) /\ s.op \notin PushClass \cup {"unparsed"}
            => x = acc
<1> DEFINE moved == [acc EXCEPT !.cwd = IF @ = Unknown THEN Unknown ELSE Head(s.dirs)]
           back == [acc EXCEPT !.cwd = Unknown]
           mutated == [acc EXCEPT !.mutated = TRUE]
           refused == [acc EXCEPT !.refused = TRUE]
           pushed == [acc EXCEPT !.pushes = Append(@, Collected(acc, s))]
<1>1. x = CASE s.op = "cd" /\ s.wrap = "plain" -> moved
            [] s.op = "popd" /\ s.wrap = "plain" -> back
            [] Mutates(s) -> mutated
            [] s.op = "unparsed" -> refused
            [] s.op \in PushClass -> pushed
            [] OTHER -> acc
  BY Zenon DEF Walk, Collected
<1> HIDE DEF moved, back, mutated, refused, pushed
<1>2. /\ s.op = "cd" /\ s.wrap = "plain" => x = moved
      /\ s.op = "popd" /\ s.wrap = "plain" => x = back
      /\ Mutates(s) => x = mutated
      /\ s.op = "unparsed" => x = refused
      /\ s.op \in PushClass => x = pushed
      /\ /\ ~(s.op \in {"cd", "popd"} /\ s.wrap = "plain")
         /\ ~Mutates(s) /\ s.op \notin PushClass \cup {"unparsed"}
         => x = acc
  BY <1>1 DEF PushClass, Mutates
<1> QED BY <1>2 DEF moved, back, mutated, refused, pushed

\* cd enters its only directory.
LEMMA HeadLast ==
  ASSUME NEW s, IsReading(s), s.op = "cd", s.wrap = "plain", NEW cwd
  PROVE  AccumulateDir(s.dirs, cwd) = Head(s.dirs) /\ Head(s.dirs) \in Dirs \cup {Unknown}
<1> DEFINE dirs == s.dirs
<1> DEFINE D == Dirs \cup {Unknown}
<1>1. dirs \in Seq(D) /\ Len(dirs) = 1
  BY DEF IsReading
<1> HIDE DEF dirs, D
<1>2. dirs # <<>> /\ Head(dirs) = dirs[1] /\ dirs[1] \in D
  BY <1>1, SMTT(20)
<1>3. AccumulateDir(dirs, cwd) = Head(dirs)
  BY <1>1, <1>2 DEF AccumulateDir, Last
<1> QED BY <1>2, <1>3 DEF dirs, D

\* What a step of the walk does to each part of it.
LEMMA WalkEffects ==
  ASSUME NEW acc \in Walker, NEW s, IsReading(s), NEW x, x = Walk(acc, s)
  PROVE  /\ x \in Walker
         /\ s.op = "cd" /\ s.wrap = "plain" =>
                x.cwd = IF acc.cwd = Unknown THEN Unknown ELSE Head(s.dirs)
         /\ s.op = "popd" /\ s.wrap = "plain" => x.cwd = Unknown
         /\ ~(s.op \in {"cd", "popd"} /\ s.wrap = "plain") => x.cwd = acc.cwd
         /\ x.mutated = (acc.mutated \/ Mutates(s))
         /\ acc.refused => x.refused
         /\ \A i \in DOMAIN acc.pushes : i \in DOMAIN x.pushes /\ x.pushes[i] = acc.pushes[i]
         /\ s.op = "unparsed" => x.refused
         /\ s.op \in PushClass => \E i \in DOMAIN x.pushes : x.pushes[i] = Collected(acc, s)
<1>1. /\ acc.cwd \in Dirs \cup {Unknown} /\ acc.mutated \in BOOLEAN /\ acc.refused \in BOOLEAN
      /\ acc.pushes \in Seq(Descriptor)
  BY DEF Walker
<1>2. CASE s.op = "cd" /\ s.wrap = "plain"
  <2> DEFINE d == IF acc.cwd = Unknown THEN Unknown ELSE Head(s.dirs)
  <2>1. x = [acc EXCEPT !.cwd = d]
    BY <1>2, WalkCases
  <2>2. d \in Dirs \cup {Unknown}
    BY <1>2, HeadLast
  <2> HIDE DEF d
  <2>3. /\ x \in Walker /\ x.cwd = d /\ x.mutated = acc.mutated /\ x.refused = acc.refused
        /\ x.pushes = acc.pushes
    BY <2>1, <2>2 DEF Walker
  <2> QED BY <1>1, <1>2, <2>3 DEF Mutates, PushClass, d
<1>3. CASE s.op = "popd" /\ s.wrap = "plain"
  <2>1. x = [acc EXCEPT !.cwd = Unknown]
    BY <1>3, WalkCases
  <2>3. /\ x \in Walker /\ x.cwd = Unknown /\ x.mutated = acc.mutated /\ x.refused = acc.refused
        /\ x.pushes = acc.pushes
    BY <2>1 DEF Walker
  <2> QED BY <1>1, <1>3, <2>3 DEF Mutates, PushClass
<1>4. CASE Mutates(s)
  <2>1. x = [acc EXCEPT !.mutated = TRUE]
    BY <1>4, WalkCases
  <2>3. /\ x \in Walker /\ x.cwd = acc.cwd /\ x.mutated = TRUE /\ x.refused = acc.refused
        /\ x.pushes = acc.pushes
    BY <2>1 DEF Walker
  <2> QED BY <1>1, <1>4, <2>3 DEF Mutates, PushClass
<1>5. CASE s.op = "unparsed"
  <2>1. x = [acc EXCEPT !.refused = TRUE]
    BY <1>5, WalkCases
  <2>3. /\ x \in Walker /\ x.cwd = acc.cwd /\ x.mutated = acc.mutated /\ x.refused = TRUE
        /\ x.pushes = acc.pushes
    BY <2>1 DEF Walker
  <2> QED BY <1>1, <1>5, <2>3 DEF Mutates, PushClass
<1>6. CASE s.op \in PushClass
  <2> DEFINE d == Collected(acc, s)
             new == Append(acc.pushes, d)
  <2>1. x = [acc EXCEPT !.pushes = new]
    BY <1>6, WalkCases
  <2>2. d \in Descriptor
    BY <1>1, <1>6 DEF Descriptor, Collected, WellFormed, IsReading
  <2> HIDE DEF d
  <2>3. new \in Seq(Descriptor)
    BY <1>1, <2>2
  <2>4. /\ \A i \in DOMAIN acc.pushes : i \in DOMAIN new /\ new[i] = acc.pushes[i]
        /\ \E i \in DOMAIN new : new[i] = d
    <3> DEFINE old == acc.pushes
    <3>1. old \in Seq(Descriptor)
      BY <1>1
    <3> HIDE DEF old
    <3>2. /\ Len(Append(old, d)) = Len(old) + 1 /\ Len(old) \in Nat
          /\ DOMAIN Append(old, d) = 1..(Len(old) + 1) /\ DOMAIN old = 1..Len(old)
          /\ Append(old, d)[Len(old) + 1] = d
          /\ \A i \in 1..Len(old) : Append(old, d)[i] = old[i]
      BY <2>2, <3>1
    <3>3. Len(old) + 1 \in DOMAIN Append(old, d)
          /\ \A i \in DOMAIN old : i \in DOMAIN Append(old, d)
      BY <3>2
    <3>4. Append(old, d) = new
      BY DEF old
    <3> HIDE DEF new
    <3> QED BY <3>2, <3>3, <3>4 DEF old
  <2> HIDE DEF new
  <2>5. /\ x \in Walker /\ x.cwd = acc.cwd /\ x.mutated = acc.mutated /\ x.refused = acc.refused
        /\ x.pushes = new
    BY <2>1, <2>3 DEF Walker
  <2> QED BY <1>1, <1>6, <2>4, <2>5 DEF Mutates, PushClass, d
<1>7. CASE /\ ~(s.op \in {"cd", "popd"} /\ s.wrap = "plain")
           /\ ~Mutates(s) /\ s.op \notin PushClass \cup {"unparsed"}
  <2>1. x = acc
    BY <1>7, WalkCases
  <2> QED BY <1>1, <1>7, <2>1
<1> QED BY <1>2, <1>3, <1>4, <1>5, <1>6, <1>7

\* Nothing of what was walked so far is refused.
Ok(acc, repos, login) ==
    /\ ~acc.refused
    /\ \A i \in DOMAIN acc.pushes : DescriptorAllows(acc.pushes[i], repos, login)

\* A walk that is let through was let through before, and at each push.
LEMMA OkStep ==
  ASSUME NEW acc \in Walker, NEW s, IsReading(s), NEW repos, NEW login,
         Ok(Walk(acc, s), repos, login)
  PROVE  /\ Ok(acc, repos, login) /\ s.op # "unparsed"
         /\ s.op \in PushClass => DescriptorAllows(Collected(acc, s), repos, login)
<1> DEFINE x == Walk(acc, s)
<1>1. /\ acc.refused => x.refused
      /\ \A i \in DOMAIN acc.pushes : i \in DOMAIN x.pushes /\ x.pushes[i] = acc.pushes[i]
      /\ s.op = "unparsed" => x.refused
      /\ s.op \in PushClass => \E i \in DOMAIN x.pushes : x.pushes[i] = Collected(acc, s)
  BY WalkEffects
<1> HIDE DEF x
<1>2. Ok(x, repos, login)
  BY DEF x
<1> QED BY <1>1, <1>2 DEF Ok

-----------------------------------------------------------------------------
\* The walk follows the shell.

Follows(acc, w, repos, login) ==
    /\ acc.cwd \in {Unknown, w.cwd}
    /\ ~acc.mutated => w.repos = repos
    /\ w.login = login

\* What RightIdentity asks of a push that nothing excuses.
RightPush(p) ==
    \/ p.owner = p.sender /\ p.owner \in Active
    \/ p.seg.op = "push" /\ p.seg.remote = "default"

\* The words are no identities, and no directory is unknown.
LEMMA Words ==
  /\ Unknown \notin Dirs /\ Outside \notin Repos /\ NoId \notin Repos /\ NoId \notin Active
  /\ "untagged" \notin Ids /\ "conflict" \notin Ids /\ NoId \notin Ids /\ "pattern" \notin Ids
  /\ "config" \notin Ids /\ Active \subseteq Ids
BY GuardAssumption DEF Dirs, NoId, Outside, Unknown

\* A push that is let through runs where the walk believes it runs, and in
\* repositories nobody has changed.
LEMMA PushSame ==
  ASSUME NEW acc \in Walker, NEW w \in Shell, NEW s, WellFormed(s), NEW guess \in Guess,
         NEW repos, NEW login, Follows(acc, w, repos, login),
         s.op \in PushClass, s.wrap # "chdir",
         DescriptorAllows(Collected(acc, s), repos, login)
  PROVE  /\ Top(w, s, guess) = Toplevel(AccumulateDir(s.dirs, acc.cwd))
         /\ w.repos = repos
<1> DEFINE dir == AccumulateDir(s.dirs, acc.cwd)
<1>1. /\ ~acc.mutated
      /\ acc.cwd = Unknown => s.dirs # <<>>
      /\ Toplevel(dir) = NoId => s.op = "create"
  BY DEF DescriptorAllows, Collected
<1>2. w.cwd \in Dirs /\ Entered(s.dirs, w.cwd) = AccumulateDir(s.dirs, w.cwd)
      /\ Entered(s.dirs, w.cwd) \in Dirs \cup {Unknown}
  <2>1. w.cwd \in Dirs
    BY DEF Shell
  <2> QED BY <2>1, EnteredType
<1>3. Entered(s.dirs, w.cwd) = dir
  <2>1. CASE s.dirs = <<>>
    <3>1. acc.cwd = w.cwd
      BY <1>1, <2>1 DEF Follows
    <3> QED BY <1>2, <3>1
  <2>2. CASE s.dirs # <<>>
    BY <1>2, <2>2 DEF AccumulateDir
  <2> QED BY <2>1, <2>2
<1>4. dir # Unknown
  <2>1. SUFFICES ASSUME dir = Unknown PROVE FALSE
    OBVIOUS
  <2>2. Toplevel(dir) = NoId
    BY <2>1, Words DEF Toplevel, Dirs
  <2>3. s.dirs = <<>>
    BY <1>1, <2>2 DEF WellFormed
  <2>4. dir = w.cwd
    BY <1>2, <1>3, <2>3 DEF AccumulateDir
  <2> QED BY <1>2, <2>1, <2>4, Words
<1>5. Top(w, s, guess) = Toplevel(dir)
  BY <1>3, <1>4 DEF Top, Where
<1> QED BY <1>1, <1>5 DEF Follows

\* What the policy of the guard allows is right when the shell is as it was
\* assumed to be.
LEMMA PolicyRight ==
  ASSUME NEW w \in Shell, NEW s, WellFormed(s), NEW item, NEW guess \in Guess,
         s.op \in PushClass, ~s.danger, s.over # "conflict",
         NEW top, top = Top(w, s, guess), Delivers(s, top, w.repos),
         IF top = NoId
         THEN s.op = "create" /\ PolicyAllows(s.over, s, NoId, w.repos, w.login)
         ELSE PolicyAllows(IF w.repos[top].tag = "untagged" THEN s.over ELSE w.repos[top].tag,
                           s, top, w.repos, w.login)
  PROVE  RightPush(NewPush(w, s, item, guess))
<1> DEFINE p == NewPush(w, s, item, guess)
           id == Owner(s, Tag(top, w.repos))
<1>0. /\ p.seg = s /\ p.owner = id
      /\ p.sender = PushedAs(s, top, w.repos, w.login)
  BY DEF NewPush
<1>1. w.repos \in [Repos -> Repository] /\ w.cwd \in Dirs
  BY DEF Shell
<1>2. top \in Repos \cup {NoId}
  BY <1>1, EnteredType
<1>3. IF top = NoId
      THEN s.op = "create" /\ PolicyAllows(id, s, NoId, w.repos, w.login)
      ELSE PolicyAllows(id, s, top, w.repos, w.login)
  <2>1. CASE top = NoId
    BY <2>1 DEF Owner, Tag
  <2>2. CASE top # NoId
    <3>1. w.repos[top] \in Repository
      BY <1>1, <1>2, <2>2
    <3>2. w.repos[top].tag \in Ids \cup {"untagged", "conflict"}
      BY <3>1 DEF Repository
    <3>3. w.repos[top].tag # NoId
      BY <3>2, Words DEF NoId
    <3> QED BY <2>2, <3>3 DEF Owner, Tag
  <2> QED BY <2>1, <2>2
<1> HIDE DEF p, id
<1>4. id \in Active
  BY <1>3 DEF PolicyAllows
<1>5. CASE s.op = "sendpack"
  <2>1. s.id = id
    BY <1>3, <1>5 DEF PolicyAllows
  <2>2. p.sender = s.id
    BY <1>0, <1>5 DEF PushedAs
  <2> QED BY <1>0, <1>4, <2>1, <2>2 DEF RightPush, p
<1>6. CASE s.op = "push" /\ s.remote # "default"
  <2> DEFINE u == w.repos[top][Named(s.remote)]
  <2>1. top # NoId
    BY <1>3, <1>6
  <2>2. u.who = id /\ (u.scheme = "https" => w.login = id)
    BY <1>3, <1>6, <2>1 DEF PolicyAllows
  <2>3. Remote(w.repos[top], s) = u
    BY <1>6 DEF Remote
  <2>4. p.sender = id
    BY <1>0, <1>6, <2>2, <2>3 DEF PushedAs
  <2> QED BY <1>0, <1>4, <2>4 DEF RightPush, p
<1>7. CASE s.op = "push" /\ s.remote = "default"
  BY <1>0, <1>7 DEF RightPush, p
<1>8. CASE s.op \in {"pr", "create", "merge"}
  <2>1. w.login = id
    BY <1>3, <1>8 DEF PolicyAllows
  <2>2. p.sender = w.login
    BY <1>0, <1>8 DEF PushedAs
  <2> QED BY <1>0, <1>4, <2>1, <2>2 DEF RightPush, p
<1> QED BY <1>5, <1>6, <1>7, <1>8 DEF PushClass

\* A push that is let through was read as what it is, unless it was not seen.
LEMMA SeenAllowed ==
  ASSUME NEW acc \in Walker, NEW s, NEW r, Reads(r, s), Seen(r, s), s.op \in PushClass,
         NEW repos, NEW login, Ok(Walk(acc, r), repos, login)
  PROVE  r = s \/ (s.op = "push" /\ s.remote = "default")
<1>1. r.op # "unparsed" /\ (r.op \in PushClass => DescriptorAllows(Collected(acc, r), repos, login))
  BY OkStep DEF Reads
<1>2. ~(r.op = "push" /\ r.remote = "path")
  <2> SUFFICES ASSUME r.op = "push", r.remote = "path" PROVE FALSE
    OBVIOUS
  <2>1. DescriptorAllows(Collected(acc, r), repos, login)
    BY <1>1 DEF PushClass
  <2>2. \A id, top : ~PolicyAllows(id, r, top, repos, login)
    BY DEF PolicyAllows
  <2> QED BY <2>1, <2>2 DEF DescriptorAllows, Collected
<1> QED BY <1>1, <1>2 DEF Seen

\* The push is the command, and is not in the reading.
Overlooks(p, r, s) == p.seg = s /\ s.op \in PushClass /\ ~Seen(r, s)

\* One command: the shell stays with the walk, and a push is right or was not seen.
LEMMA StepFollows ==
  ASSUME NEW acc \in Walker, NEW w \in Shell, NEW s, NEW r, Reads(r, s), Faithful(r, s),
         NEW item \in Nat, NEW guess \in Guess, NEW repos, NEW login,
         Follows(acc, w, repos, login), Ok(Walk(acc, r), repos, login),
         s.op \notin {"tag", "switch"}, ~(s.op = "seturl" /\ s.wrap # "plain"),
         NEW x, x = Execute(w, s, item, guess)
  PROVE  /\ Follows(Walk(acc, r), x, repos, login)
         /\ \A p \in x.sent :
                p \in w.sent \/ (p.item = item /\ (RightPush(p) \/ Overlooks(p, r, s)))
<1> DEFINE top == Top(w, s, guess)
           y == Walk(acc, r)
<1>0. /\ WellFormed(s) /\ IsReading(r) /\ r.op \in {s.op, "argument", "unparsed"}
      /\ s.wrap \in {"plain", "env", "chdir"} /\ r.wrap = s.wrap
      /\ s.op \notin {"argument", "unparsed"}
  BY SegmentFields DEF Reads
<1>1. /\ \/ x.cwd = w.cwd /\ ~(s.op = "cd" /\ s.wrap = "plain")
         \/ s.op = "popd" /\ s.wrap = "plain"
         \/ s.op = "cd" /\ s.wrap = "plain" /\ x.cwd = Where(w, s, guess)
      /\ x.repos = w.repos \/ s.op \in {"seturl", "tag"}
      /\ x.login = w.login \/ s.op = "switch"
      /\ \/ x.sent = w.sent
         \/ /\ s.op \in PushClass /\ Delivers(s, top, w.repos)
            /\ x.sent = w.sent \cup {NewPush(w, s, item, guess)}
  BY <1>0, Effects
<1>2. /\ r.op = "cd" /\ r.wrap = "plain" =>
                y.cwd = IF acc.cwd = Unknown THEN Unknown ELSE Head(r.dirs)
      /\ r.op = "popd" /\ r.wrap = "plain" => y.cwd = Unknown
      /\ ~(r.op \in {"cd", "popd"} /\ r.wrap = "plain") => y.cwd = acc.cwd
      /\ y.mutated = (acc.mutated \/ Mutates(r))
  BY <1>0, WalkEffects
<1>3. acc.mutated \in BOOLEAN /\ w.cwd \in Dirs
  BY DEF Walker, Shell
<1> HIDE DEF y, top
<1>4. y.cwd \in {Unknown, x.cwd}
  <2>1. CASE s.op = "cd" /\ s.wrap = "plain"
    <3>0. r = s
      BY <2>1 DEF Faithful, Moving
    <3>1. Entered(s.dirs, w.cwd) = Head(s.dirs)
      <4>1. Entered(s.dirs, w.cwd) = AccumulateDir(s.dirs, w.cwd)
        BY <1>0, <1>3, EnteredType
      <4> QED BY <1>0, <2>1, <3>0, <4>1, HeadLast
    <3>2. x.cwd = Where(w, s, guess)
      BY <1>1, <2>1
    <3> QED BY <1>2, <2>1, <3>0, <3>1, <3>2 DEF Where
  <2>2. CASE s.op = "popd" /\ s.wrap = "plain"
    BY <1>2, <2>2 DEF Faithful, Moving
  <2>3. CASE ~(s.op \in {"cd", "popd"} /\ s.wrap = "plain")
    BY <1>0, <1>1, <1>2, <2>3 DEF Follows
  <2> QED BY <2>1, <2>2, <2>3
<1>5. ~y.mutated => x.repos = repos
  <2>1. s.op = "seturl" => r = s
    BY DEF Faithful, Moving
  <2> QED BY <1>1, <1>2, <1>3, <2>1 DEF Follows, Mutates
<1>6. x.login = login
  BY <1>1 DEF Follows
<1>7. ASSUME NEW p \in x.sent, p \notin w.sent
      PROVE  p.item = item /\ (RightPush(p) \/ Overlooks(p, r, s))
  <2>1. /\ s.op \in PushClass /\ Delivers(s, top, w.repos)
        /\ p = NewPush(w, s, item, guess)
    BY <1>1, <1>7
  <2>2. p.item = item /\ p.seg = s
    BY <2>1 DEF NewPush
  <2>3. CASE ~Seen(r, s)
    BY <2>1, <2>2, <2>3 DEF Overlooks
  <2>4. CASE s.op = "push" /\ s.remote = "default"
    BY <2>2, <2>4 DEF RightPush
  <2>5. CASE Seen(r, s) /\ ~(s.op = "push" /\ s.remote = "default")
    <3>0. r = s
      BY <2>1, <2>5, SeenAllowed
    <3>1. s.wrap # "chdir" /\ DescriptorAllows(Collected(acc, s), repos, login)
      BY <1>0, <2>1, <3>0, OkStep DEF IsReading
    <3>2. top = Toplevel(AccumulateDir(s.dirs, acc.cwd)) /\ w.repos = repos /\ w.login = login
      BY <1>0, <2>1, <3>1, PushSame DEF top, Follows
    <3>3. /\ s.over # "conflict" /\ ~s.danger
          /\ IF top = NoId
             THEN s.op = "create" /\ PolicyAllows(s.over, s, NoId, repos, login)
             ELSE PolicyAllows(IF repos[top].tag = "untagged" THEN s.over ELSE repos[top].tag,
                               s, top, repos, login)
      BY <3>1, <3>2 DEF DescriptorAllows, Collected
    <3>4. RightPush(NewPush(w, s, item, guess))
      BY <1>0, <2>1, <3>2, <3>3, PolicyRight DEF top
    <3> QED BY <2>1, <2>2, <3>4
  <2> QED BY <2>3, <2>4, <2>5
<1> QED BY <1>4, <1>5, <1>6, <1>7 DEF Follows, y

-----------------------------------------------------------------------------
\* The body of an item.

IsBody(body) == body \in Seq(Segment) /\ \A j \in DOMAIN body : WellFormed(body[j])
Some(body, ops) == \E j \in DOMAIN body : body[j].op \in ops

\* The readings of a body.
AreReadings(view) == IsView(view) /\ \A j \in DOMAIN view : IsReading(view[j])

\* The walk over them.
LEMMA WalkedBody ==
  ASSUME NEW acc \in Walker, NEW body, AreReadings(body), NEW repos, NEW login
  PROVE  LET x == Walked(acc, body) IN
         /\ x \in Walker
         /\ Ok(x, repos, login) => Ok(acc, repos, login)
         /\ acc.mutated => x.mutated
         /\ ~Some(body, {"cd", "popd"}) => x.cwd = acc.cwd
<1> DEFINE n == Len(body)
           Fine(y) == /\ y \in Walker
                      /\ Ok(y, repos, login) => Ok(acc, repos, login)
                      /\ acc.mutated => y.mutated
                      /\ ~Some(body, {"cd", "popd"}) => y.cwd = acc.cwd
<1>1. n \in Nat /\ DOMAIN body = 1..n /\ body \in Seq(Range(body))
  BY DEF AreReadings, IsView
<1>2. PICK F : Passes(F, WalkPass, acc, body) /\ F[Len(body)] = Walked(acc, body)
  BY <1>1, WalkPasses
<1> DEFINE S == {k \in 0..n : Fine(F[k])}
<1>3. 0 \in S
  <2>1. F[0] = acc /\ 0 \in 0..n
    BY <1>1, <1>2 DEF Passes
  <2> HIDE DEF n
  <2> QED BY <2>1
<1>4. ASSUME NEW k \in 0..(n - 1), k \in S
      PROVE  k + 1 \in S
  <2>1. k + 1 \in 0..n /\ k + 1 \in DOMAIN body
    BY <1>1
  <2> DEFINE s == body[k + 1]
  <2>2. F[k + 1] = Walk(F[k], s)
    BY <1>2 DEF Passes, One, WalkPass
  <2>3. IsReading(s)
    BY <2>1 DEF AreReadings
  <2>4. ~Some(body, {"cd", "popd"}) => s.op \notin {"cd", "popd"}
    BY <2>1 DEF Some
  <2>5. Fine(F[k])
    BY <1>4
  <2> HIDE DEF s, S
  <2>6. /\ F[k + 1] \in Walker
        /\ s.op \notin {"cd", "popd"} => F[k + 1].cwd = F[k].cwd
        /\ F[k].mutated => F[k + 1].mutated
    <3>1. F[k] \in Walker
      BY <2>5
    <3> HIDE DEF Fine
    <3>2. /\ F[k + 1] \in Walker
          /\ ~(s.op \in {"cd", "popd"} /\ s.wrap = "plain") => F[k + 1].cwd = F[k].cwd
          /\ F[k + 1].mutated = (F[k].mutated \/ Mutates(s))
      BY <2>2, <2>3, <3>1, WalkEffects
    <3> QED BY <3>2
  <2>7. Ok(F[k + 1], repos, login) => Ok(F[k], repos, login)
    BY <2>2, <2>3, <2>5, OkStep
  <2>8. Fine(F[k + 1])
    BY <2>4, <2>5, <2>6, <2>7
  <2> QED BY <2>1, <2>8 DEF S
<1> HIDE DEF S
<1>5. 0..n \subseteq S
  BY <1>1, <1>3, <1>4, StepInduction
<1>6. n \in S
  BY <1>1, <1>5
<1> QED BY <1>2, <1>6 DEF S

\* A push to a path reaches nobody.
Reaches(s) == s.op \in PushClass /\ ~(s.op = "push" /\ s.remote = "path")

\* Whatever the body does, it is a shell that is left, and what is new in sent
\* and made carries the item.
LEMMA ExecutedBody ==
  ASSUME NEW w \in Shell, NEW body, IsBody(body), NEW item \in Nat, NEW guess \in Guess
  PROVE  LET x == Executed(w, body, item, guess) IN
         /\ x \in Shell
         /\ \A p \in x.sent : p \in w.sent \/ (p.item = item /\ \E j \in DOMAIN body : Reaches(body[j]))
         /\ \A m \in x.made : m \in w.made \/ (m.item = item /\ Some(body, {"commit"}))
<1> DEFINE n == Len(body)
           Fine(y) == /\ y \in Shell
                      /\ \A p \in y.sent :
                            p \in w.sent \/ (p.item = item /\ \E j \in DOMAIN body : Reaches(body[j]))
                      /\ \A m \in y.made : m \in w.made \/ (m.item = item /\ Some(body, {"commit"}))
<1>1. n \in Nat /\ DOMAIN body = 1..n /\ body \in Seq(Segment)
  BY DEF IsBody
<1>2. PICK F : /\ Passes(F, ExecutePass(item, guess), w, body)
               /\ F[Len(body)] = Executed(w, body, item, guess)
  BY <1>1, ExecutePasses
<1> DEFINE S == {k \in 0..n : Fine(F[k])}
<1>3. 0 \in S
  <2>1. F[0] = w /\ 0 \in 0..n
    BY <1>1, <1>2 DEF Passes
  <2> HIDE DEF n
  <2> QED BY <2>1
<1>4. ASSUME NEW k \in 0..(n - 1), k \in S
      PROVE  k + 1 \in S
  <2>1. k + 1 \in 0..n /\ k + 1 \in DOMAIN body
    BY <1>1
  <2> DEFINE s == body[k + 1]
             u == F[k]
             v == F[k + 1]
             top == Top(u, s, guess)
  <2>2. v = Execute(u, s, item, guess)
    BY <1>2 DEF Passes, One, ExecutePass
  <2>3. WellFormed(s)
    BY <2>1 DEF IsBody
  <2>4. top = Top(u, s, guess)
    OBVIOUS
  <2>5. Fine(u)
    BY <1>4
  <2> HIDE DEF s, S, u, v, top
  <2>6. /\ v \in Shell
        /\ \/ v.sent = u.sent
           \/ Reaches(s) /\ v.sent = u.sent \cup {NewPush(u, s, item, guess)}
        /\ \/ v.made = u.made
           \/ s.op = "commit" /\ v.made = u.made \cup {NewCommit(u, s, item, guess)}
    <3>1. u \in Shell
      BY <2>5
    <3>2. /\ v \in Shell
          /\ \/ v.sent = u.sent
             \/ /\ s.op \in PushClass /\ Delivers(s, top, u.repos)
                /\ v.sent = u.sent \cup {NewPush(u, s, item, guess)}
          /\ \/ v.made = u.made
             \/ /\ s.op = "commit" /\ top # NoId
                /\ v.made = u.made \cup {NewCommit(u, s, item, guess)}
      BY <2>2, <2>3, <2>4, <3>1, Effects
    <3>3. s.op \in PushClass /\ Delivers(s, top, u.repos) => Reaches(s)
      BY DEF Delivers, Reaches
    <3> QED BY <3>2, <3>3
  <2>7. NewPush(u, s, item, guess).item = item /\ NewCommit(u, s, item, guess).item = item
    BY DEF NewPush, NewCommit
  <2>8. /\ Reaches(s) => \E j \in DOMAIN body : Reaches(body[j])
        /\ s.op = "commit" => Some(body, {"commit"})
    BY <2>1 DEF Some, s
  <2>9. Fine(v)
    <3> DEFINE P == \E j \in DOMAIN body : Reaches(body[j])
               C == Some(body, {"commit"})
    <3> HIDE DEF P, C
    <3>1. (Reaches(s) => P) /\ (s.op = "commit" => C)
      BY <2>8 DEF P, C
    <3>2. /\ \A p \in u.sent : p \in w.sent \/ (p.item = item /\ P)
          /\ \A m \in u.made : m \in w.made \/ (m.item = item /\ C)
      BY <2>5 DEF P, C
    <3>3. /\ \A p \in v.sent : p \in w.sent \/ (p.item = item /\ P)
          /\ \A m \in v.made : m \in w.made \/ (m.item = item /\ C)
      BY <2>6, <2>7, <3>1, <3>2
    <3> QED BY <2>6, <3>3 DEF P, C
  <2> QED BY <2>1, <2>9 DEF S, v
<1> HIDE DEF S
<1>5. 0..n \subseteq S
  BY <1>1, <1>3, <1>4, StepInduction
<1>6. n \in S
  BY <1>1, <1>5
<1> QED BY <1>2, <1>6 DEF S

\* The readings of the commands of a body.
IsReadAs(view, body) ==
    /\ IsBody(body) /\ IsView(view)
    /\ Len(view) = Len(body) /\ DOMAIN view = DOMAIN body
    /\ \A j \in DOMAIN body : Reads(view[j], body[j])

\* They move nothing that the commands do not move.
LEMMA ReadAs ==
  ASSUME NEW view, NEW body, IsReadAs(view, body)
  PROVE  AreReadings(view) /\ (~Some(body, {"cd", "popd"}) => ~Some(view, {"cd", "popd"}))
BY DEF IsReadAs, AreReadings, Some, Reads

\* The push is right, or the guard did not see it.
RightOrUnseen(p, view, body) ==
    RightPush(p) \/ \E j \in DOMAIN body : Overlooks(p, view[j], body[j])

\* The walk and the shell go through a body together.
LEMMA BodyFollows ==
  ASSUME NEW acc \in Walker, NEW w \in Shell, NEW body, NEW view, IsReadAs(view, body),
         NEW item \in Nat, NEW guess \in Guess, NEW repos, NEW login,
         Follows(acc, w, repos, login), Ok(Walked(acc, view), repos, login),
         \A j \in DOMAIN body : /\ body[j].op \notin {"tag", "switch"}
                                /\ ~(body[j].op = "seturl" /\ body[j].wrap # "plain")
                                /\ Faithful(view[j], body[j])
  PROVE  LET x == Executed(w, body, item, guess) IN
         /\ Follows(Walked(acc, view), x, repos, login)
         /\ \A p \in x.sent : p \in w.sent \/ (p.item = item /\ RightOrUnseen(p, view, body))
<1> DEFINE n == Len(body)
<1>1. n \in Nat /\ DOMAIN body = 1..n /\ body \in Seq(Segment)
      /\ view \in Seq(Range(view)) /\ Len(view) = n /\ AreReadings(view)
  BY ReadAs DEF IsReadAs, IsBody, IsView
<1>2. PICK A : Passes(A, WalkPass, acc, view) /\ A[n] = Walked(acc, view)
  BY <1>1, WalkPasses
<1>3. PICK F : /\ Passes(F, ExecutePass(item, guess), w, body)
               /\ F[n] = Executed(w, body, item, guess)
  BY <1>1, ExecutePasses
<1>4. ASSUME NEW k \in 0..(n - 1)
      PROVE  /\ k + 1 \in 0..n /\ k \in 0..n /\ k + 1 \in DOMAIN body
             /\ A[k + 1] = Walk(A[k], view[k + 1])
             /\ F[k + 1] = Execute(F[k], body[k + 1], item, guess)
             /\ Reads(view[k + 1], body[k + 1])
             /\ WellFormed(body[k + 1]) /\ IsReading(view[k + 1])
  <2>1. k + 1 \in 0..n /\ k \in 0..n /\ k + 1 \in DOMAIN body
    BY <1>1
  <2>2. A[k + 1] = Walk(A[k], view[k + 1])
    BY <1>1, <1>2 DEF Passes, One, WalkPass
  <2>3. F[k + 1] = Execute(F[k], body[k + 1], item, guess)
    BY <1>3 DEF Passes, One, ExecutePass
  <2>4. Reads(view[k + 1], body[k + 1]) /\ WellFormed(body[k + 1]) /\ IsReading(view[k + 1])
    BY <2>1 DEF IsReadAs, Reads
  <2> QED BY <2>1, <2>2, <2>3, <2>4
\* Nothing was refused at any point: a refusal is never taken back.
<1> DEFINE R == {k \in 0..n : /\ A[k] \in Walker
                              /\ Ok(A[k], repos, login) =>
                                    \A j \in 0..k : Ok(A[j], repos, login)}
<1>5. 0..n \subseteq R
  <2>1. 0 \in R
    <3>1. A[0] = acc /\ 0 \in 0..n /\ \A j \in 0..0 : j = 0
      BY <1>1, <1>2 DEF Passes
    <3> HIDE DEF n
    <3> QED BY <3>1
  <2>2. ASSUME NEW k \in 0..(n - 1), k \in R PROVE k + 1 \in R
    <3>1. A[k + 1] \in Walker /\ (Ok(A[k + 1], repos, login) => Ok(A[k], repos, login))
      <4>1. A[k] \in Walker /\ A[k + 1] = Walk(A[k], view[k + 1]) /\ IsReading(view[k + 1])
        BY <1>4, <2>2
      <4> QED BY <4>1, WalkEffects, OkStep
    <3>2. \A j \in 0..(k + 1) : j \in 0..k \/ j = k + 1
      BY <1>1
    <3> HIDE DEF n
    <3> QED BY <1>4, <2>2, <3>1, <3>2
  <2> HIDE DEF R
  <2> QED BY <1>1, <2>1, <2>2, StepInduction
<1>6. \A k \in 0..n : A[k] \in Walker /\ Ok(A[k], repos, login)
  <2>1. n \in R
    BY <1>1, <1>5
  <2>2. \A j \in 0..n : Ok(A[j], repos, login)
    BY <1>2, <2>1
  <2> QED BY <1>5, <2>2
<1> HIDE DEF R
<1> DEFINE Fine(k) == /\ F[k] \in Shell /\ Follows(A[k], F[k], repos, login)
                      /\ \A p \in F[k].sent :
                            p \in w.sent \/ (p.item = item /\ RightOrUnseen(p, view, body))
           S == {k \in 0..n : Fine(k)}
<1>7. 0 \in S
  <2>1. F[0] = w /\ A[0] = acc /\ 0 \in 0..n
    BY <1>1, <1>2, <1>3 DEF Passes
  <2> HIDE DEF n
  <2> QED BY <2>1
<1>8. ASSUME NEW k \in 0..(n - 1), k \in S
      PROVE  k + 1 \in S
  <2> DEFINE s == body[k + 1]
             r == view[k + 1]
             right(p) == RightOrUnseen(p, view, body)
             u == F[k]
             v == F[k + 1]
             a == A[k]
             b == A[k + 1]
  <2>1. /\ k + 1 \in 0..n /\ b = Walk(a, r) /\ v = Execute(u, s, item, guess)
        /\ WellFormed(s) /\ Reads(r, s) /\ Faithful(r, s)
        /\ s.op \notin {"tag", "switch"} /\ ~(s.op = "seturl" /\ s.wrap # "plain")
    BY <1>4
  <2>2. a \in Walker /\ Ok(b, repos, login)
    BY <1>4, <1>6
  <2>3. /\ u \in Shell /\ Follows(a, u, repos, login)
        /\ \A p \in u.sent : p \in w.sent \/ (p.item = item /\ right(p))
    BY <1>8
  <2>a. \A p : RightPush(p) \/ Overlooks(p, r, s) => right(p)
    BY <1>4 DEF RightOrUnseen
  <2> HIDE DEF s, r, u, v, a, b, S, right
  <2>4. /\ Follows(b, v, repos, login)
        /\ \A p \in v.sent : p \in u.sent \/ (p.item = item /\ right(p))
    BY <2>1, <2>2, <2>3, <2>a, StepFollows
  <2>5. v \in Shell
    BY <2>1, <2>3, Effects
  <2>6. /\ v \in Shell /\ Follows(b, v, repos, login)
        /\ \A p \in v.sent : p \in w.sent \/ (p.item = item /\ right(p))
    BY <2>3, <2>4, <2>5
  <2>7. Fine(k + 1)
    BY <2>6 DEF v, b, right
  <2> QED BY <2>1, <2>7 DEF S
<1> HIDE DEF S
<1>9. 0..n \subseteq S
  BY <1>1, <1>7, <1>8, StepInduction
<1>10. Fine(n)
  BY <1>1, <1>9 DEF S
<1> HIDE DEF n
<1> QED BY <1>2, <1>3, <1>10

-----------------------------------------------------------------------------
\* Commits.

\* What the commit guard does not follow.
Lost(s) == s.op \in {"cd", "popd", "tag"} \/ s.wrap = "chdir" \/ Unknown \in Range(s.dirs)

\* The directory, the tags and the authors the guard has seen.
Steady(w, cwd, repos) ==
    /\ w.cwd = cwd
    /\ \A r \in Repos : w.repos[r].tag = repos[r].tag /\ w.repos[r].author = repos[r].author

RightCommit(m) == m.tag \in Active => m.author = m.tag

\* What the commit guard allows is right in the shell it was judged for.
LEMMA CommitRight ==
  ASSUME NEW w \in Shell, NEW s, WellFormed(s), NEW item, NEW guess \in Guess,
         NEW cwd, NEW repos, Steady(w, cwd, repos), ~Lost(s),
         ~s.danger, CommitAllows(s, cwd, repos), Top(w, s, guess) # NoId
  PROVE  RightCommit(NewCommit(w, s, item, guess))
<1> DEFINE top == Top(w, s, guess)
           dirs == s.dirs
           dir == AccumulateDir(dirs, cwd)
           m == NewCommit(w, s, item, guess)
<1>1. w.cwd \in Dirs /\ w.cwd = cwd
  BY DEF Shell, Steady
<1>2. Entered(dirs, w.cwd) = dir /\ top \in Repos
  BY <1>1, EnteredType
<1>3. dir # Unknown
  <2>1. dirs \in Seq(Dirs \cup {Unknown}) /\ Unknown \notin Range(dirs)
    BY DEF WellFormed, Segment, Lost
  <2> HIDE DEF dirs
  <2>2. CASE dirs = <<>>
    BY <1>1, <2>2, Words DEF AccumulateDir
  <2>3. CASE dirs # <<>>
    <3>1. Len(dirs) \in DOMAIN dirs
      BY <2>1, <2>3
    <3>2. Last(dirs) \in Range(dirs)
      BY <3>1 DEF Last, Range
    <3> QED BY <2>1, <2>3, <3>2 DEF AccumulateDir
  <2> QED BY <2>2, <2>3
<1>4. top = Toplevel(dir)
  BY <1>2, <1>3 DEF Top, Where
<1> DEFINE tag == repos[top].tag
<1>5. m.tag = tag /\ w.repos[top].author = repos[top].author
  BY <1>2 DEF NewCommit, Steady
<1>6. \/ tag \in {"untagged"} \cup (Ids \ Active)
      \/ tag \in Active /\ tag = Author(s, repos[top].author)
  BY <1>4 DEF CommitAllows
<1>7. s.author # "pattern" => m.author = Author(s, w.repos[top].author)
  BY DEF NewCommit
<1> HIDE DEF m, tag, top, dirs
<1>8. ASSUME m.tag \in Active PROVE m.author = m.tag
  <2>1. tag \in Active /\ tag # "untagged" /\ tag # "pattern"
    BY <1>5, <1>8, Words
  <2>2. tag = Author(s, repos[top].author)
    BY <1>6, <2>1
  <2>3. s.author # "pattern"
    BY <2>1, <2>2 DEF Author
  <2>4. m.author = tag
    BY <1>5, <1>7, <2>2, <2>3 DEF tag
  <2> QED BY <1>5, <2>4
<1> QED BY <1>8 DEF RightCommit, m

\* The guard has allowed each commit of the body, and knows its author.
AllSeen(body, cwd, repos) ==
    \A j \in DOMAIN body :
        body[j].op = "commit" => ~body[j].danger /\ CommitAllows(body[j], cwd, repos)

\* A body that keeps directory, tags and authors: its commits are right.
LEMMA BodySteady ==
  ASSUME NEW w \in Shell, NEW body, IsBody(body), NEW item \in Nat, NEW guess \in Guess,
         NEW cwd, NEW repos, Steady(w, cwd, repos),
         \A j \in DOMAIN body : ~Lost(body[j])
  PROVE  LET x == Executed(w, body, item, guess) IN
         /\ Steady(x, cwd, repos)
         /\ AllSeen(body, cwd, repos) => \A m \in x.made : m \in w.made \/ RightCommit(m)
<1> DEFINE n == Len(body)
           all == AllSeen(body, cwd, repos)
           Fine(y) == /\ y \in Shell /\ Steady(y, cwd, repos)
                      /\ all => \A m \in y.made : m \in w.made \/ RightCommit(m)
<1> HIDE DEF all
<1>1. n \in Nat /\ DOMAIN body = 1..n /\ body \in Seq(Segment)
  BY DEF IsBody
<1>2. PICK F : /\ Passes(F, ExecutePass(item, guess), w, body)
               /\ F[Len(body)] = Executed(w, body, item, guess)
  BY <1>1, ExecutePasses
<1> DEFINE S == {k \in 0..n : Fine(F[k])}
<1>3. 0 \in S
  <2>1. F[0] = w /\ 0 \in 0..n
    BY <1>1, <1>2 DEF Passes
  <2> HIDE DEF n
  <2> QED BY <2>1
<1>4. ASSUME NEW k \in 0..(n - 1), k \in S
      PROVE  k + 1 \in S
  <2>1. k + 1 \in 0..n /\ k + 1 \in DOMAIN body
    BY <1>1
  <2> DEFINE s == body[k + 1]
             u == F[k]
             v == F[k + 1]
             top == Top(u, s, guess)
  <2>2. v = Execute(u, s, item, guess) /\ top = Top(u, s, guess)
    BY <1>2 DEF Passes, One, ExecutePass
  <2>3. /\ WellFormed(s) /\ ~Lost(s)
        /\ all /\ s.op = "commit" => ~s.danger /\ CommitAllows(s, cwd, repos)
    BY <2>1 DEF IsBody, AllSeen, all
  <2>4. Fine(u)
    BY <1>4
  <2>5. u \in Shell /\ Steady(u, cwd, repos)
    BY <2>4
  <2> HIDE DEF s, S, u, v, top
  <2>6. /\ v \in Shell
        /\ \/ v.cwd = u.cwd /\ ~(s.op = "cd" /\ s.wrap = "plain")
           \/ s.op = "popd" /\ s.wrap = "plain"
           \/ s.op = "cd" /\ s.wrap = "plain" /\ v.cwd = Where(u, s, guess)
        /\ s.op # "tag" => \A r \in Repos : /\ v.repos[r].tag = u.repos[r].tag
                                           /\ v.repos[r].author = u.repos[r].author
        /\ \/ v.made = u.made
           \/ /\ s.op = "commit" /\ top # NoId
              /\ v.made = u.made \cup {NewCommit(u, s, item, guess)}
    <3>1. u \in Shell /\ WellFormed(s) /\ v = Execute(u, s, item, guess) /\ top = Top(u, s, guess)
      BY <2>2, <2>3, <2>5
    <3>2. /\ v \in Shell
          /\ \/ v.cwd = u.cwd /\ ~(s.op = "cd" /\ s.wrap = "plain")
             \/ s.op = "popd" /\ s.wrap = "plain"
             \/ s.op = "cd" /\ s.wrap = "plain" /\ v.cwd = Where(u, s, guess)
      BY <3>1, Effects, SMTT(20)
    <3>3. s.op # "tag" => \A r \in Repos : /\ v.repos[r].tag = u.repos[r].tag
                                           /\ v.repos[r].author = u.repos[r].author
      BY <3>1, Effects, SMTT(20)
    <3>4. \/ v.made = u.made
          \/ /\ s.op = "commit" /\ top # NoId
             /\ v.made = u.made \cup {NewCommit(u, s, item, guess)}
      BY <3>1, Effects, SMTT(20)
    <3> QED BY <3>2, <3>3, <3>4
  <2>7. Steady(v, cwd, repos)
    BY <2>3, <2>5, <2>6 DEF Steady, Lost
  <2>8. all /\ s.op = "commit" /\ top # NoId => RightCommit(NewCommit(u, s, item, guess))
    BY <2>2, <2>3, <2>5, CommitRight
  <2>9. all => \A m \in v.made : m \in w.made \/ RightCommit(m)
    BY <2>4, <2>6, <2>8
  <2>10. Fine(v)
    BY <2>6, <2>7, <2>9
  <2> QED BY <2>1, <2>10 DEF S, v
<1> HIDE DEF S
<1>5. 0..n \subseteq S
  BY <1>1, <1>3, <1>4, StepInduction
<1>6. n \in S
  BY <1>1, <1>5
<1> QED BY <1>2, <1>6 DEF S, all

-----------------------------------------------------------------------------
\* The invariant of the host.

SessionOK(s) ==
    /\ s = [pc |-> s.pc, cmd |-> s.cmd, readable |-> s.readable,
            next |-> s.next, push |-> s.push, commit |-> s.commit]
    /\ s.pc \in {"idle", "decide", "run", "denied"}
    /\ s.push \in {"none", "judged", "failed"} /\ s.commit \in {"none", "judged", "failed"}
    /\ s.readable \in BOOLEAN
    /\ IsCommand(s.cmd) /\ s.next \in 1..(Len(s.cmd) + 1)

HostTypeOK ==
    /\ host \in [name : HostNames, hooks : {"trusted", "untrusted"}]
    /\ idmap \in {"valid", "invalid"}
    /\ SessionOK(session)
    /\ world \in [cwd : Dirs, repos : [Repos -> Repository], login : Ids \cup {NoId},
                  touched : SUBSET Names]
    /\ sent \in SUBSET Push /\ made \in SUBSET Commit
    /\ switches \in Nat

\* Only a command that runs has pushed or committed, with the items before the next.
Ran ==
    /\ session.pc # "run" => sent = {} /\ made = {}
    /\ session.pc = "decide" =>
           session.next = 1 /\ session.push = "none" /\ session.commit = "none"
    /\ \A p \in sent : p.item < session.next
    /\ \A m \in made : m.item < session.next

\* A guard that fails stops the push, except under Claude Code.
FailedClosed == session.pc = "run" /\ session.push = "failed" => host.name = "claude"

Plain(item) == ~UncertainCd(item) /\ ~Unfollowed(item)

\* Nothing before item n is an excuse for it.
AllPlain(n) ==
    /\ \A item \in Before(n) : Plain(item)
    /\ \A i \in 1..(n - 1) : ~Misread(i)

\* The push guard has walked the command, and as long as nothing is run that
\* it does not follow, the shell is where the walk was.
PushFollowed ==
    \E H, repos, login :
        /\ \A i \in 0..Len(session.cmd) : H[i] \in Walker /\ Ok(H[i], repos, login)
        /\ \A i \in 0..(Len(session.cmd) - 1) :
               H[i + 1] = Walked(H[i], View(session.cmd, i + 1))
        /\ switches = 0 /\ AllPlain(session.next) =>
               Follows(H[session.next - 1], world, repos, login)

PushDecided ==
    session.pc = "run" /\ session.push = "judged" =>
        IF session.readable THEN PushFollowed
        ELSE \A i \in DOMAIN session.cmd : ~Some(session.cmd[i].body, PushClass)

Calm(item) == \A j \in DOMAIN item.body : ~Lost(item.body[j])

\* The commit guard has seen every commit of the command in one directory, and
\* as long as nothing is lost the shell is there.
CommitDecided ==
    /\ session.pc = "run" /\ session.commit = "judged"
    /\ session.readable /\ idmap = "valid"
    => \E cwd, repos :
           /\ \A i \in DOMAIN session.cmd : \A j \in DOMAIN session.cmd[i].body :
                  LET s == session.cmd[i].body[j] IN
                  s.op = "commit" /\ ~Lost(s) /\ ~UnseenCommit(i, j) => CommitAllows(s, cwd, repos)
           /\ (\A item \in Before(session.next) : Calm(item)) => Steady(world, cwd, repos)

HostBase == HostTypeOK /\ Ran /\ FailedClosed /\ PushDecided /\ CommitDecided

\* The hooks are asked wherever they are trusted.
Asked ==
    session.pc = "run" /\ (session.push = "none" \/ session.commit = "none") =>
        host.hooks = "untrusted"

HostRight == Asked /\ RightIdentity /\ RightAuthor

\* A probe reaches nobody.
Quiet ==
    /\ sent = {} /\ made = {}
    /\ \A i \in DOMAIN session.cmd : \A j \in DOMAIN session.cmd[i].body :
           ~Reaches(session.cmd[i].body[j]) /\ session.cmd[i].body[j].op # "commit"

\* What an item does not contain if it is no excuse.
LEMMA PlainBody ==
  ASSUME NEW item
  PROVE  /\ ~Unfollowed(item) <=>
                \A j \in DOMAIN item.body :
                   /\ item.body[j].op \notin {"tag", "switch"}
                   /\ ~(item.body[j].op = "seturl" /\ item.body[j].wrap # "plain")
         /\ ~UncertainCd(item) <=>
                ~Some(item.body, {"cd", "popd"}) \/ (item.shell # "inner" /\ item.sure)
BY DEF Unfollowed, UncertainCd, SomeSegment, Some

\* An excuse for a commit is an item that is not calm.
LEMMA CalmItem ==
  ASSUME NEW m, ~CommitExcused(m), NEW item \in UpTo(m.item)
  PROVE  Calm(item)
BY DEF CommitExcused, SomeSegment, Calm, Lost

\* The item that is at its turn.
LEMMA NextItem ==
  ASSUME SessionOK(session), session.next <= Len(session.cmd)
  PROVE  /\ session.next \in Nat /\ session.next - 1 \in 0..(Len(session.cmd) - 1)
         /\ session.next \in DOMAIN session.cmd
         /\ session.next \in 0..Len(session.cmd)
         /\ session.cmd[session.next] \in Item
         /\ IsBody(session.cmd[session.next].body)
         /\ session.next + 1 \in 1..(Len(session.cmd) + 1)
         /\ (session.next - 1) + 1 = session.next /\ (session.next + 1) - 1 = session.next
         /\ Before(session.next + 1) = Before(session.next) \cup {session.cmd[session.next]}
         /\ UpTo(session.next) = Before(session.next) \cup {session.cmd[session.next]}
         /\ AllPlain(session.next + 1) <=>
                AllPlain(session.next) /\ Plain(session.cmd[session.next]) /\ ~Misread(session.next)
<1> DEFINE c == session.cmd
           n == session.next
<1>1. c \in Seq(Item) /\ n \in 1..(Len(c) + 1) /\ n <= Len(c)
      /\ \A i \in DOMAIN c : \A j \in DOMAIN c[i].body : WellFormed(c[i].body[j])
  BY DEF SessionOK, IsCommand
<1>2. /\ Before(n + 1) = {c[i] : i \in 1..((n + 1) - 1)} /\ Before(n) = {c[i] : i \in 1..(n - 1)}
      /\ UpTo(n) = {c[i] : i \in 1..n}
  BY DEF Before, UpTo
<1> HIDE DEF c, n
<1>3. Len(c) \in Nat /\ DOMAIN c = 1..Len(c)
  BY <1>1
<1>4. n \in Nat /\ n - 1 \in 0..(Len(c) - 1) /\ n \in 1..Len(c) /\ n \in 0..Len(c)
      /\ n + 1 \in 1..(Len(c) + 1) /\ (n - 1) + 1 = n /\ (n + 1) - 1 = n
  BY <1>1, <1>3
<1>5. c[n] \in Item
  BY <1>1, <1>3, <1>4
<1>6. IsBody(c[n].body)
  BY <1>1, <1>3, <1>4, <1>5 DEF IsBody, Item
<1>7. \A i : i \in 1..n <=> i \in 1..(n - 1) \/ i = n
  BY <1>4
<1>8. {c[i] : i \in 1..n} = {c[i] : i \in 1..(n - 1)} \cup {c[n]}
  BY <1>7
<1>9. Before(n + 1) = Before(n) \cup {c[n]}
  BY <1>2, <1>4, <1>8
<1>10. AllPlain(n + 1) <=> AllPlain(n) /\ Plain(c[n]) /\ ~Misread(n)
  BY <1>4, <1>7, <1>9 DEF AllPlain
<1> QED BY <1>2, <1>3, <1>4, <1>5, <1>6, <1>8, <1>10 DEF c, n

\* How the guards read an item.
LEMMA ItemRead ==
  ASSUME SessionOK(session), NEW i \in DOMAIN session.cmd,
         NEW body, body = session.cmd[i].body, NEW view, view = View(session.cmd, i)
  PROVE  /\ IsReadAs(view, body)
         /\ ~Misread(i) => \A j \in DOMAIN body : Faithful(view[j], body[j])
         /\ \A j \in DOMAIN body :
                body[j].op \in PushClass /\ ~Seen(view[j], body[j]) => Unseen(i, j)
         /\ \A j \in DOMAIN body :
                body[j].op = "commit" /\ ~Lost(body[j]) /\ ~UnseenCommit(i, j) =>
                    view[j] \in {body[j], [body[j] EXCEPT !.author = "pattern"]}
<1> DEFINE c == session.cmd
<1>1. IsCommand(c)
  BY DEF SessionOK
<1>2. /\ body = c[i].body /\ view = View(c, i) /\ body \in Seq(Segment)
      /\ \A j \in DOMAIN body : WellFormed(body[j]) /\ view[j] = Reading(c, i, j)
      /\ IsView(view) /\ DOMAIN view = DOMAIN body /\ Len(view) = Len(body)
  BY <1>1, ViewType
<1>3. /\ ~Misread(i) => \A j \in DOMAIN body :
              /\ ~(body[j].op \in {"cd", "popd", "seturl"} /\ Absorbed(c, i, j))
              /\ ~(body[j].op \in {"cd", "popd"} /\ body[j].join = "attached")
      /\ \A j \in DOMAIN body : ~Unseen(i, j) =>
              /\ ~Absorbed(c, i, j)
              /\ ~(body[j].op \in {"pr", "merge", "create"} /\ body[j].join = "attached")
              /\ ~(body[j].op = "merge" /\ body[j].wrap = "chdir")
      /\ \A j \in DOMAIN body : body[j].op = "commit" /\ ~UnseenCommit(i, j) =>
              /\ ~Absorbed(c, i, j)
              /\ ~(body[j].author = "config" /\ body[j].join = "attached")
              /\ ~(body[j].author = "config" /\ Authors(c, <<i, j>>) # {})
  BY <1>2 DEF Misread, Unseen, UnseenCommit
<1> HIDE DEF c
<1>4. ASSUME NEW j \in DOMAIN body
      PROVE  /\ Reads(view[j], body[j])
             /\ ~Misread(i) => Faithful(view[j], body[j])
             /\ body[j].op \in PushClass /\ ~Seen(view[j], body[j]) => Unseen(i, j)
             /\ body[j].op = "commit" /\ ~Lost(body[j]) /\ ~UnseenCommit(i, j) =>
                    view[j] \in {body[j], [body[j] EXCEPT !.author = "pattern"]}
  <2> DEFINE s == body[j]
             r == view[j]
  <2>1. i \in DOMAIN c /\ j \in DOMAIN c[i].body /\ s = c[i].body[j] /\ r = Reading(c, i, j)
    BY <1>2 DEF c
  <2>2. /\ ~Misread(i) => /\ ~(s.op \in {"cd", "popd", "seturl"} /\ Absorbed(c, i, j))
                          /\ ~(s.op \in {"cd", "popd"} /\ s.join = "attached")
        /\ ~Unseen(i, j) =>
              /\ ~Absorbed(c, i, j)
              /\ ~(s.op \in {"pr", "merge", "create"} /\ s.join = "attached")
              /\ ~(s.op = "merge" /\ s.wrap = "chdir")
        /\ s.op = "commit" /\ ~UnseenCommit(i, j) =>
              /\ ~Absorbed(c, i, j)
              /\ ~(s.author = "config" /\ s.join = "attached")
              /\ ~(s.author = "config" /\ Authors(c, <<i, j>>) # {})
    BY <1>3
  <2> HIDE DEF s, r
  <2>3. /\ Reads(r, s)
        /\ ~Absorbed(c, i, j) /\ ~(s.op \in {"cd", "popd"} /\ s.join = "attached")
                => Faithful(r, s)
        /\ /\ s.op \in PushClass /\ ~Absorbed(c, i, j)
           /\ ~(s.op \in {"pr", "merge", "create"} /\ s.join = "attached")
           /\ ~(s.op = "merge" /\ s.wrap = "chdir")
           => Seen(r, s)
        /\ /\ s.op = "commit" /\ ~Absorbed(c, i, j) /\ s.wrap # "chdir"
           /\ ~(s.author = "config" /\ s.join = "attached")
           /\ ~(s.author = "config" /\ Authors(c, <<i, j>>) # {})
           => r \in {s, [s EXCEPT !.author = "pattern"]}
    BY <1>1, <2>1, ReadingFacts
  <2>4. ~Misread(i) => Faithful(r, s)
    BY <2>2, <2>3 DEF Faithful, Moving
  <2>5. s.op \in PushClass /\ ~Seen(r, s) => Unseen(i, j)
    BY <2>2, <2>3
  <2>6. s.op = "commit" /\ ~Lost(s) /\ ~UnseenCommit(i, j) =>
            r \in {s, [s EXCEPT !.author = "pattern"]}
    BY <2>2, <2>3 DEF Lost
  <2> QED BY <2>3, <2>4, <2>5, <2>6 DEF s, r
<1> QED BY <1>2, <1>4 DEF IsReadAs, IsBody

-----------------------------------------------------------------------------
\* An item is run.

\* The shell before the item and after it.
LEMMA RunKeepsTypes ==
  ASSUME HostTypeOK, RunItem
  PROVE  \E guess, b, x :
            /\ guess \in Guess
            /\ b = [cwd |-> world.cwd, repos |-> world.repos, login |-> world.login,
                    touched |-> world.touched, sent |-> sent, made |-> made]
            /\ x = Executed(b, session.cmd[session.next].body, session.next, guess)
            /\ b \in Shell /\ x \in Shell
            /\ world' = [cwd |-> IF session.cmd[session.next].shell = "inner"
                                 THEN world.cwd ELSE x.cwd,
                         repos |-> x.repos, login |-> x.login, touched |-> x.touched]
            /\ sent' = x.sent /\ made' = x.made
            /\ HostTypeOK'
<1> DEFINE n == session.next
           item == session.cmd[n]
           b == [cwd |-> world.cwd, repos |-> world.repos, login |-> world.login,
                 touched |-> world.touched, sent |-> sent, made |-> made]
<1>1. PICK guess \in Guess :
        /\ world' = [cwd |-> IF item.shell = "inner"
                             THEN world.cwd ELSE Executed(b, item.body, n, guess).cwd,
                     repos |-> Executed(b, item.body, n, guess).repos,
                     login |-> Executed(b, item.body, n, guess).login,
                     touched |-> Executed(b, item.body, n, guess).touched]
        /\ sent' = Executed(b, item.body, n, guess).sent
        /\ made' = Executed(b, item.body, n, guess).made
  BY Zenon DEF RunItem, Guess
<1> DEFINE x == Executed(b, item.body, n, guess)
<1>2. b \in Shell
  BY DEF HostTypeOK, Shell
<1>3. n \in Nat /\ IsBody(item.body) /\ n + 1 \in 1..(Len(session.cmd) + 1)
  BY NextItem DEF HostTypeOK, RunItem
<1>4. x \in Shell
  <2> HIDE DEF b, item, n
  <2> QED BY <1>2, <1>3, ExecutedBody
<1>5. session' = [session EXCEPT !.next = n + 1] /\ UNCHANGED <<host, idmap, switches>>
  BY DEF RunItem
<1>6. world' = [cwd |-> IF item.shell = "inner" THEN world.cwd ELSE x.cwd,
                repos |-> x.repos, login |-> x.login, touched |-> x.touched]
      /\ sent' = x.sent /\ made' = x.made
  BY <1>1
<1> HIDE DEF x
<1>7. SessionOK(session')
  <2> HIDE DEF n
  <2> QED BY <1>3, <1>5 DEF HostTypeOK, SessionOK
<1>8. world.cwd \in Dirs
  BY DEF HostTypeOK
<1>9. world' \in [cwd : Dirs, repos : [Repos -> Repository], login : Ids \cup {NoId},
                  touched : SUBSET Names]
      /\ sent' \in SUBSET Push /\ made' \in SUBSET Commit
  <2> HIDE DEF item, b
  <2> QED BY <1>4, <1>6, <1>8 DEF Shell
<1>10. HostTypeOK'
  BY <1>5, <1>7, <1>9 DEF HostTypeOK
<1> QED BY <1>2, <1>4, <1>6, <1>10 DEF x

\* The excuses are about the command and the host, never about what ran since.
LEMMA ExcusesStay ==
  ASSUME UNCHANGED <<host, idmap>>,
         session'.cmd = session.cmd, session'.push = session.push,
         session'.commit = session.commit, session'.readable = session.readable
  PROVE  /\ \A n : Before(n)' = Before(n) /\ UpTo(n)' = UpTo(n)
         /\ AllPlain(session.next)' <=> AllPlain(session'.next)
         /\ \A i, j : UnseenCommit(i, j)' <=> UnseenCommit(i, j)
         /\ switches' = switches => \A p : PushExcused(p) => PushExcused(p)'
         /\ \A m : CommitExcused(m) => CommitExcused(m)'
<1>1. \A n : Before(n)' = Before(n) /\ UpTo(n)' = UpTo(n)
  BY DEF Before, UpTo
<1>a. /\ \A i : Misread(i)' <=> Misread(i)
      /\ \A i, j : Unseen(i, j)' <=> Unseen(i, j)
      /\ \A i, j : UnseenCommit(i, j)' <=> UnseenCommit(i, j)
  BY DEF Misread, Unseen, UnseenCommit
<1>b. AllPlain(session.next)' <=> AllPlain(session'.next)
  <2>1. AllPlain(session.next)' <=> /\ \A item \in Before(session.next)' : Plain(item)
                                    /\ \A i \in 1..(session'.next - 1) : ~Misread(i)'
    BY DEF AllPlain
  <2>2. Before(session.next)' = Before(session'.next)
    BY DEF Before
  <2> QED BY <1>a, <2>1, <2>2 DEF AllPlain
<1>2. ASSUME switches' = switches, NEW p, PushExcused(p) PROVE PushExcused(p)'
  BY <1>1, <1>a, <1>2 DEF PushExcused, Unguarded
<1>3. ASSUME NEW m, CommitExcused(m) PROVE CommitExcused(m)'
  BY <1>1, <1>a, <1>3 DEF CommitExcused, Unguarded, SomeSegment
<1> QED BY <1>1, <1>a, <1>b, <1>2, <1>3

\* An item whose segments the walk follows.
LEMMA ItemFollows ==
  ASSUME NEW acc \in Walker, NEW b \in Shell, NEW item,
         NEW view, IsReadAs(view, item.body),
         NEW n \in Nat, NEW guess \in Guess, NEW repos, NEW login,
         NEW x, x = Executed(b, item.body, n, guess),
         Follows(acc, b, repos, login), Ok(Walked(acc, view), repos, login),
         ~Unfollowed(item), \A j \in DOMAIN item.body : Faithful(view[j], item.body[j]),
         NEW w, w.cwd = (IF item.shell = "inner" THEN b.cwd ELSE x.cwd),
         w.repos = x.repos, w.login = x.login
  PROVE  /\ \A p \in x.sent : p \in b.sent \/ (p.item = n /\ RightOrUnseen(p, view, item.body))
         /\ ~UncertainCd(item) => Follows(Walked(acc, view), w, repos, login)
<1> DEFINE y == Walked(acc, view)
<1>1. /\ Follows(y, x, repos, login)
      /\ \A p \in x.sent : p \in b.sent \/ (p.item = n /\ RightOrUnseen(p, view, item.body))
  <2>1. \A j \in DOMAIN item.body : /\ item.body[j].op \notin {"tag", "switch"}
                                    /\ ~(item.body[j].op = "seturl" /\ item.body[j].wrap # "plain")
    BY PlainBody
  <2> DEFINE body == item.body
  <2>2. /\ IsReadAs(view, body) /\ x = Executed(b, body, n, guess)
        /\ \A j \in DOMAIN body : /\ body[j].op \notin {"tag", "switch"}
                                  /\ ~(body[j].op = "seturl" /\ body[j].wrap # "plain")
                                  /\ Faithful(view[j], body[j])
    BY <2>1
  <2> HIDE DEF body
  <2>3. /\ Follows(Walked(acc, view), x, repos, login)
        /\ \A p \in x.sent : p \in b.sent \/ (p.item = n /\ RightOrUnseen(p, view, body))
    BY <2>2, BodyFollows
  <2> QED BY <2>3 DEF body
<1>2. ~Some(item.body, {"cd", "popd"}) => y.cwd = acc.cwd
  BY ReadAs, WalkedBody
<1>3. ASSUME ~UncertainCd(item)
      PROVE  Follows(y, w, repos, login)
  <2>1. item.shell = "inner" => y.cwd = acc.cwd
    BY <1>2, <1>3, PlainBody
  <2> HIDE DEF y
  <2>2. y.cwd \in {Unknown, w.cwd}
    BY <1>1, <2>1 DEF Follows
  <2> QED BY <1>1, <2>2 DEF Follows
<1> QED BY <1>1, <1>3

\* An item that is run, for the push guard: the walk goes on, or there is an excuse.
LEMMA RunPush ==
  ASSUME HostBase, RunItem, session.push = "judged", session.readable
  PROVE  /\ PushFollowed'
         /\ \A p \in sent' : \/ p \in sent \/ RightPush(p)
                             \/ switches > 0
                             \/ \E item \in Before(session.next) : UncertainCd(item)
                             \/ \E item \in UpTo(session.next) : Unfollowed(item)
                             \/ \E i \in 1..session.next : Misread(i)
                             \/ /\ p.item = session.next
                                /\ \E j \in DOMAIN session.cmd[p.item].body :
                                      /\ session.cmd[p.item].body[j] = p.seg
                                      /\ Unseen(p.item, j)
<1> DEFINE n == session.next
           c == session.cmd
           item == c[n]
           view == View(c, n)
<1>1. /\ n \in Nat /\ n - 1 \in 0..(Len(c) - 1) /\ n \in DOMAIN c /\ n \in 0..Len(c)
      /\ IsBody(item.body) /\ (n - 1) + 1 = n /\ (n + 1) - 1 = n
      /\ Before(n + 1) = Before(n) \cup {item} /\ UpTo(n) = Before(n) \cup {item}
      /\ AllPlain(n + 1) <=> AllPlain(n) /\ Plain(item) /\ ~Misread(n)
  BY NextItem DEF HostBase, HostTypeOK, RunItem
<1>2. PICK guess, b, x :
            /\ guess \in Guess
            /\ b = [cwd |-> world.cwd, repos |-> world.repos, login |-> world.login,
                    touched |-> world.touched, sent |-> sent, made |-> made]
            /\ x = Executed(b, item.body, n, guess)
            /\ b \in Shell /\ x \in Shell
            /\ world' = [cwd |-> IF item.shell = "inner" THEN world.cwd ELSE x.cwd,
                         repos |-> x.repos, login |-> x.login, touched |-> x.touched]
            /\ sent' = x.sent
  BY RunKeepsTypes DEF HostBase
<1>3. /\ session'.cmd = c /\ session'.next = n + 1 /\ switches' = switches
      /\ session.pc = "run" /\ UNCHANGED <<host, idmap>>
      /\ session'.readable = session.readable /\ session'.push = session.push
      /\ session'.commit = session.commit
  BY DEF RunItem, HostBase, HostTypeOK, SessionOK
<1>4. PushFollowed
  BY <1>3 DEF HostBase, PushDecided
<1>5. PICK H, repos, login :
        /\ \A i \in 0..Len(c) : H[i] \in Walker /\ Ok(H[i], repos, login)
        /\ \A i \in 0..(Len(c) - 1) : H[i + 1] = Walked(H[i], View(c, i + 1))
        /\ switches = 0 /\ AllPlain(n) =>
               Follows(H[n - 1], world, repos, login)
  BY <1>4 DEF PushFollowed
<1>a. /\ IsReadAs(view, item.body)
      /\ ~Misread(n) => \A j \in DOMAIN item.body : Faithful(view[j], item.body[j])
      /\ \A j \in DOMAIN item.body :
            item.body[j].op \in PushClass /\ ~Seen(view[j], item.body[j]) => Unseen(n, j)
  BY <1>1, ItemRead DEF HostBase, HostTypeOK
<1> HIDE DEF n, c, item, view
<1>6. /\ H[n - 1] \in Walker /\ H[n] = Walked(H[n - 1], view)
      /\ Ok(H[n], repos, login)
  <2>1. n - 1 \in 0..Len(c)
    BY <1>1
  <2> QED BY <1>1, <1>5, <2>1 DEF view
<1>7. ASSUME switches = 0, AllPlain(n), ~Unfollowed(item), ~Misread(n)
      PROVE  /\ \A p \in x.sent : p \in sent \/ (p.item = n /\ RightOrUnseen(p, view, item.body))
             /\ ~UncertainCd(item) => Follows(H[n], world', repos, login)
  <2>1. Follows(H[n - 1], b, repos, login) /\ b.sent = sent /\ b.cwd = world.cwd
    BY <1>2, <1>5, <1>7 DEF Follows
  <2>2. /\ world'.cwd = (IF item.shell = "inner" THEN b.cwd ELSE x.cwd)
        /\ world'.repos = x.repos /\ world'.login = x.login
    BY <1>2
  <2> DEFINE acc == H[n - 1]
             w == world'
  <2> HIDE DEF w, acc
  <2>3. /\ acc \in Walker /\ Follows(acc, b, repos, login)
        /\ Ok(Walked(acc, view), repos, login) /\ H[n] = Walked(acc, view)
        /\ w.cwd = (IF item.shell = "inner" THEN b.cwd ELSE x.cwd)
        /\ w.repos = x.repos /\ w.login = x.login
    BY <1>6, <2>1, <2>2 DEF acc, w
  <2>4. /\ \A p \in x.sent : p \in b.sent \/ (p.item = n /\ RightOrUnseen(p, view, item.body))
        /\ ~UncertainCd(item) => Follows(Walked(acc, view), w, repos, login)
    <3>1. /\ IsReadAs(view, item.body) /\ n \in Nat /\ guess \in Guess /\ b \in Shell
          /\ x = Executed(b, item.body, n, guess) /\ ~Unfollowed(item)
          /\ \A j \in DOMAIN item.body : Faithful(view[j], item.body[j])
      BY <1>1, <1>2, <1>a, <1>7
    <3> QED BY <2>3, <3>1, ItemFollows
  <2> QED BY <2>1, <2>3, <2>4 DEF w
<1>8. PushFollowed'
  <2>1. switches' = 0 /\ AllPlain(session.next)' =>
            Follows(H[session'.next - 1], world', repos, login)
    <3>1. AllPlain(session.next)' <=> AllPlain(session'.next)
      BY <1>3, ExcusesStay DEF c
    <3> QED BY <1>1, <1>3, <1>7, <3>1 DEF Plain
  <2> QED BY <1>3, <1>5, <2>1 DEF PushFollowed
<1>9. ASSUME NEW p \in sent', p \notin sent, ~RightPush(p), ~(switches > 0),
             \A it \in Before(n) : ~UncertainCd(it), \A it \in UpTo(n) : ~Unfollowed(it),
             \A i \in 1..n : ~Misread(i)
      PROVE  p.item = n /\ \E j \in DOMAIN item.body : item.body[j] = p.seg /\ Unseen(n, j)
  <2>1. switches = 0
    BY <1>9 DEF HostBase, HostTypeOK
  <2>2. AllPlain(n) /\ ~Unfollowed(item) /\ ~Misread(n)
    BY <1>1, <1>9 DEF AllPlain, Plain
  <2>3. p.item = n /\ RightOrUnseen(p, view, item.body)
    BY <1>2, <1>7, <1>9, <2>1, <2>2
  <2> QED BY <1>a, <1>9, <2>3 DEF RightOrUnseen, Overlooks
<1> QED BY <1>8, <1>9 DEF n, c, item

\* The same for the commit guard.
LEMMA RunCommit ==
  ASSUME HostBase, RunItem
  PROVE  /\ CommitDecided'
         /\ session.commit = "judged" /\ session.readable /\ idmap = "valid" =>
                \A m \in made' : \/ m \in made \/ RightCommit(m)
                                 \/ \E item \in UpTo(session.next) : ~Calm(item)
                                 \/ \E j \in DOMAIN session.cmd[session.next].body :
                                       UnseenCommit(session.next, j)
<1> DEFINE n == session.next
           c == session.cmd
           item == c[n]
<1>1. /\ n \in Nat /\ n \in DOMAIN c /\ IsBody(item.body) /\ (n + 1) - 1 = n
      /\ Before(n + 1) = Before(n) \cup {item} /\ UpTo(n) = Before(n) \cup {item}
  BY NextItem DEF HostBase, HostTypeOK, RunItem
<1>2. PICK guess, b, x :
            /\ guess \in Guess
            /\ b = [cwd |-> world.cwd, repos |-> world.repos, login |-> world.login,
                    touched |-> world.touched, sent |-> sent, made |-> made]
            /\ x = Executed(b, item.body, n, guess)
            /\ b \in Shell /\ x \in Shell
            /\ world' = [cwd |-> IF item.shell = "inner" THEN world.cwd ELSE x.cwd,
                         repos |-> x.repos, login |-> x.login, touched |-> x.touched]
            /\ made' = x.made
  BY RunKeepsTypes DEF HostBase
<1>3. /\ session'.cmd = c /\ session'.next = n + 1 /\ session.pc = "run"
      /\ session'.readable = session.readable /\ idmap' = idmap
      /\ session'.commit = session.commit
      /\ \A i, j : UnseenCommit(i, j)' <=> UnseenCommit(i, j)
  BY ExcusesStay DEF RunItem, HostBase, HostTypeOK, SessionOK
<1>4. ASSUME session.commit = "judged", session.readable, idmap = "valid"
      PROVE  /\ CommitDecided'
             /\ \A m \in made' : \/ m \in made \/ RightCommit(m)
                                 \/ \E it \in UpTo(n) : ~Calm(it)
                                 \/ \E j \in DOMAIN item.body : UnseenCommit(n, j)
  <2>1. PICK cwd, repos :
           /\ \A i \in DOMAIN c : \A j \in DOMAIN c[i].body :
                  LET s == c[i].body[j] IN
                  s.op = "commit" /\ ~Lost(s) /\ ~UnseenCommit(i, j) => CommitAllows(s, cwd, repos)
           /\ (\A it \in Before(n) : Calm(it)) => Steady(world, cwd, repos)
    BY <1>3, <1>4 DEF HostBase, CommitDecided
  <2> HIDE DEF n, c, item
  <2>2. ASSUME \A it \in UpTo(n) : Calm(it)
        PROVE  /\ Steady(world', cwd, repos)
               /\ (\A j \in DOMAIN item.body : ~UnseenCommit(n, j)) =>
                      \A m \in x.made : m \in made \/ RightCommit(m)
    <3>1. Steady(b, cwd, repos) /\ b.made = made /\ b.cwd = world.cwd
      BY <1>1, <1>2, <2>1, <2>2 DEF Steady
    <3> DEFINE body == item.body
    <3>2. /\ \A j \in DOMAIN body : ~Lost(body[j])
          /\ (\A j \in DOMAIN body : ~UnseenCommit(n, j)) => AllSeen(body, cwd, repos)
      <4>1. \A j \in DOMAIN body : ~Lost(body[j])
        BY <1>1, <2>2 DEF Calm
      <4>2. \A j \in DOMAIN body : ~UnseenCommit(n, j) /\ body[j].op = "commit" => ~body[j].danger
        BY DEF UnseenCommit, item, c
      <4>3. \A j \in DOMAIN body : ~UnseenCommit(n, j) /\ body[j].op = "commit" /\ ~Lost(body[j])
                => CommitAllows(body[j], cwd, repos)
        BY <1>1, <2>1 DEF item
      <4> HIDE DEF body
      <4> QED BY <4>1, <4>2, <4>3 DEF AllSeen
    <3>3. IsBody(body) /\ x = Executed(b, body, n, guess)
      BY <1>1, <1>2
    <3> HIDE DEF body
    <3>4. /\ Steady(x, cwd, repos)
          /\ AllSeen(body, cwd, repos) => \A m \in x.made : m \in b.made \/ RightCommit(m)
      BY <1>1, <1>2, <3>1, <3>2, <3>3, BodySteady
    <3>5. Steady(world', cwd, repos)
      BY <1>2, <3>1, <3>4 DEF Steady
    <3> QED BY <3>1, <3>2, <3>4, <3>5 DEF body
  <2>3. CommitDecided'
    <3>1. Before(session.next)' = UpTo(n)
      <4>1. Before(session.next)' = {session'.cmd[i] : i \in 1..(session'.next - 1)}
        BY DEF Before
      <4>2. Before(n + 1) = {c[i] : i \in 1..((n + 1) - 1)}
        BY DEF Before, c
      <4> QED BY <1>1, <1>3, <4>1, <4>2
    <3>2. (\A it \in Before(session.next)' : Calm(it)) => Steady(world', cwd, repos)
      BY <2>2, <3>1
    <3>3. \A i \in DOMAIN session'.cmd : \A j \in DOMAIN session'.cmd[i].body :
                  LET s == session'.cmd[i].body[j] IN
                  s.op = "commit" /\ ~Lost(s) /\ ~UnseenCommit(i, j)' => CommitAllows(s, cwd, repos)
      BY <1>3, <2>1
    <3> QED BY <3>2, <3>3 DEF CommitDecided
  <2> QED BY <1>2, <2>2, <2>3
<1>5. ~(session.commit = "judged" /\ session.readable /\ idmap = "valid") => CommitDecided'
  BY <1>3 DEF CommitDecided
<1> QED BY <1>4, <1>5 DEF n, c, item

\* An item that is run preserves the invariant.
LEMMA RunItemStep ==
  ASSUME HostBase, RunItem
  PROVE  /\ HostBase'
         /\ HostRight => HostRight'
         /\ Quiet => Quiet'
<1> DEFINE n == session.next
           c == session.cmd
           item == c[n]
<1>1. /\ n \in Nat /\ n \in DOMAIN c /\ IsBody(item.body) /\ item = c[n]
  BY NextItem DEF HostBase, HostTypeOK, RunItem
<1>2. PICK guess, b, x :
            /\ guess \in Guess
            /\ b = [cwd |-> world.cwd, repos |-> world.repos, login |-> world.login,
                    touched |-> world.touched, sent |-> sent, made |-> made]
            /\ x = Executed(b, item.body, n, guess)
            /\ b \in Shell /\ x \in Shell
            /\ sent' = x.sent /\ made' = x.made
            /\ HostTypeOK'
  BY RunKeepsTypes DEF HostBase
<1>3. /\ session' = [session EXCEPT !.next = n + 1]
      /\ session'.cmd = c /\ session'.next = n + 1 /\ session.pc = "run" /\ session'.pc = "run"
      /\ session'.readable = session.readable /\ session'.push = session.push
      /\ session'.commit = session.commit
      /\ UNCHANGED <<host, idmap, switches>>
  BY DEF RunItem, HostBase, HostTypeOK, SessionOK
<1> HIDE DEF n, c, item
<1>4. /\ \A p \in sent' : p \in sent \/ (p.item = n /\ \E j \in DOMAIN item.body : Reaches(item.body[j]))
      /\ \A m \in made' : m \in made \/ (m.item = n /\ Some(item.body, {"commit"}))
  <2>1. b.sent = sent /\ b.made = made
    BY <1>2
  <2> DEFINE body == item.body
  <2>2. IsBody(body) /\ x = Executed(b, body, n, guess)
    BY <1>1, <1>2
  <2> HIDE DEF body
  <2>3. /\ \A p \in x.sent : p \in b.sent \/ (p.item = n /\ \E j \in DOMAIN body : Reaches(body[j]))
        /\ \A m \in x.made : m \in b.made \/ (m.item = n /\ Some(body, {"commit"}))
    BY <1>1, <1>2, <2>2, ExecutedBody
  <2> QED BY <1>2, <2>1, <2>3 DEF body
<1>5. Ran'
  <2>1. /\ \A p \in sent : p.item < n /\ p.item \in Nat
        /\ \A m \in made : m.item < n /\ m.item \in Nat
    BY DEF HostBase, Ran, HostTypeOK, Push, Commit, n
  <2>2. \A i \in Nat : i < n => i < n + 1
    BY <1>1
  <2>3. n < n + 1
    BY <1>1
  <2>4. (\A p \in sent' : p.item < n + 1) /\ (\A m \in made' : m.item < n + 1)
    BY <1>4, <2>1, <2>2, <2>3
  <2> QED BY <1>3, <2>4 DEF Ran
<1>6. FailedClosed'
  BY <1>3 DEF HostBase, FailedClosed
<1>7. PushDecided'
  <2>1. CASE session.push = "judged" /\ session.readable
    BY <1>3, <2>1, RunPush DEF PushDecided
  <2>2. CASE session.push = "judged" /\ ~session.readable
    BY <1>3, <2>2 DEF HostBase, PushDecided, c
  <2>3. CASE session.push # "judged"
    BY <1>3, <2>3 DEF PushDecided
  <2> QED BY <2>1, <2>2, <2>3
<1>8. HostBase'
  BY <1>2, <1>5, <1>6, <1>7, RunCommit DEF HostBase
<1>9. ASSUME Quiet PROVE Quiet'
  <2>1. \A j \in DOMAIN item.body : ~Reaches(item.body[j]) /\ item.body[j].op # "commit"
    BY <1>1, <1>9 DEF Quiet, c
  <2>2. sent' = {} /\ made' = {}
    BY <1>4, <1>9, <2>1 DEF Quiet, Some
  <2> QED BY <1>3, <1>9, <2>2 DEF Quiet, c
<1>10. ASSUME HostRight PROVE HostRight'
  <2>1. /\ \A p : PushExcused(p) => PushExcused(p)'
        /\ \A m : CommitExcused(m) => CommitExcused(m)'
    BY <1>3, ExcusesStay DEF c
  <2>2. Asked'
    BY <1>3, <1>10 DEF HostRight, Asked
  <2>3. ASSUME NEW p \in sent', ~(p.owner = p.sender /\ p.owner \in Active), ~PushExcused(p)
        PROVE  FALSE
    <3>1. p \notin sent
      BY <1>10, <2>3 DEF HostRight, RightIdentity
    <3>2. p.item = n /\ \E j \in DOMAIN item.body : Reaches(item.body[j])
      BY <1>4, <3>1
    <3>3. /\ host.hooks # "untrusted" /\ ~(host.name = "claude" /\ session.push = "failed")
          /\ ~(switches > 0)
          /\ ~(p.seg.op = "push" /\ p.seg.remote = "default")
          /\ ~\E it \in Before(n) : UncertainCd(it)
          /\ ~\E it \in UpTo(n) : Unfollowed(it)
          /\ ~\E i \in 1..n : Misread(i)
          /\ ~\E j \in DOMAIN item.body : item.body[j] = p.seg /\ Unseen(n, j)
      BY <2>3, <3>2 DEF PushExcused, Unguarded, item, c
    <3>4. session.push = "judged"
      BY <1>3, <1>10, <3>3 DEF HostRight, Asked, HostBase, FailedClosed, HostTypeOK, SessionOK
    <3>5. CASE session.readable
      <4>1. RightPush(p)
        BY <3>1, <3>2, <3>3, <3>4, <3>5, RunPush DEF n, c, item
      <4> QED BY <2>3, <3>3, <4>1 DEF RightPush
    <3>6. CASE ~session.readable
      <4>1. ~Some(item.body, PushClass)
        BY <1>1, <1>3, <3>4, <3>6 DEF HostBase, PushDecided, c
      <4> QED BY <3>2, <4>1 DEF Some, Reaches
    <3> QED BY <3>5, <3>6
  <2>4. RightIdentity'
    BY <2>1, <2>3 DEF RightIdentity
  <2>5. ASSUME NEW m \in made', ~(m.tag \in Active => m.author = m.tag), ~CommitExcused(m)
        PROVE  FALSE
    <3>1. m \notin made
      BY <1>10, <2>5 DEF HostRight, RightAuthor
    <3>2. m.item = n
      BY <1>4, <3>1
    <3>3. /\ host.hooks # "untrusted" /\ session.commit # "failed" /\ session.readable
          /\ idmap = "valid"
      BY <2>5 DEF CommitExcused, Unguarded
    <3>4. session.commit = "judged"
      BY <1>3, <1>10, <3>3 DEF HostRight, Asked, HostBase, HostTypeOK, SessionOK
    <3>5. \A it \in UpTo(n) : Calm(it)
      BY <2>5, <3>2, CalmItem
    <3>a. \A j \in DOMAIN item.body : ~UnseenCommit(n, j)
      BY <2>5, <3>2 DEF CommitExcused, item, c
    <3>6. RightCommit(m)
      BY <3>1, <3>3, <3>4, <3>5, <3>a, RunCommit DEF n, c, item
    <3> QED BY <2>5, <3>6 DEF RightCommit
  <2>6. RightAuthor'
    BY <2>1, <2>5 DEF RightAuthor
  <2> QED BY <2>2, <2>4, <2>6 DEF HostRight
<1> QED BY <1>8, <1>9, <1>10

-----------------------------------------------------------------------------
\* The other steps of the host.

\* So does an item that is skipped: what is sure is never skipped.
LEMMA SkipStep ==
  ASSUME HostBase, SkipItem
  PROVE  /\ HostBase'
         /\ HostRight => HostRight'
         /\ Quiet => Quiet'
<1> DEFINE n == session.next
           c == session.cmd
           item == c[n]
<1>1. /\ n \in Nat /\ n - 1 \in 0..(Len(c) - 1) /\ n \in DOMAIN c /\ n \in 0..Len(c)
      /\ IsBody(item.body) /\ (n - 1) + 1 = n /\ (n + 1) - 1 = n
      /\ n + 1 \in 1..(Len(c) + 1) /\ item \in Item
      /\ Before(n + 1) = Before(n) \cup {item}
      /\ AllPlain(n + 1) <=> AllPlain(n) /\ Plain(item) /\ ~Misread(n)
  BY NextItem DEF HostBase, HostTypeOK, SkipItem
<1>2. /\ session' = [session EXCEPT !.next = n + 1]
      /\ session'.cmd = c /\ session'.next = n + 1 /\ session.pc = "run" /\ session'.pc = "run"
      /\ session'.readable = session.readable /\ session'.push = session.push
      /\ session'.commit = session.commit
      /\ UNCHANGED <<host, idmap, world, sent, made, switches>> /\ ~item.sure
  BY DEF SkipItem, HostBase, HostTypeOK, SessionOK
<1> DEFINE view == View(c, n)
<1>a. IsReadAs(view, item.body)
  BY <1>1, ItemRead DEF HostBase, HostTypeOK
<1> HIDE DEF item, view
<1>3. HostTypeOK'
  <2>1. SessionOK(session')
    <3> HIDE DEF n
    <3> QED BY <1>1, <1>2 DEF HostBase, HostTypeOK, SessionOK
  <2> QED BY <1>2, <2>1 DEF HostBase, HostTypeOK
<1>4. Ran'
  <2>1. (\A p \in sent : p.item < n /\ p.item \in Nat) /\ (\A m \in made : m.item < n /\ m.item \in Nat)
    BY DEF HostBase, Ran, HostTypeOK, Push, Commit
  <2>2. \A i \in Nat : i < n => i < n + 1
    BY <1>1
  <2> HIDE DEF n
  <2> QED BY <1>2, <2>1, <2>2 DEF Ran
<1>5. FailedClosed'
  BY <1>2 DEF HostBase, FailedClosed
<1> HIDE DEF n, c
<1>6. Before(session.next)' = Before(n) \cup {item}
  <2>1. Before(session.next)' = {session'.cmd[i] : i \in 1..(session'.next - 1)}
    BY DEF Before
  <2>2. Before(n + 1) = {c[i] : i \in 1..((n + 1) - 1)}
    BY DEF Before, c
  <2>3. session'.next - 1 = (n + 1) - 1 /\ session'.cmd = c
    BY <1>2
  <2>4. Before(session.next)' = Before(n + 1)
    BY <2>1, <2>2, <2>3
  <2> QED BY <1>1, <2>4
<1>7. PushDecided'
  <2>1. ASSUME session.push = "judged", session.readable
        PROVE  PushFollowed'
    <3>1. PushFollowed
      BY <1>2, <2>1 DEF HostBase, PushDecided
    <3>2. PICK H, repos, login :
            /\ \A i \in 0..Len(c) : H[i] \in Walker /\ Ok(H[i], repos, login)
            /\ \A i \in 0..(Len(c) - 1) : H[i + 1] = Walked(H[i], View(c, i + 1))
            /\ switches = 0 /\ AllPlain(n) =>
                   Follows(H[n - 1], world, repos, login)
      BY <3>1 DEF PushFollowed, n, c
    <3>3. H[n - 1] \in Walker /\ H[n] = Walked(H[n - 1], view) /\ H[n] \in Walker
      <4>1. n - 1 \in 0..Len(c)
        BY <1>1
      <4> QED BY <1>1, <3>2, <4>1 DEF view
    <3>4. ASSUME Follows(H[n - 1], world, repos, login), Plain(item)
          PROVE  Follows(H[n], world, repos, login)
      <4>1. AreReadings(view) /\ ~Some(view, {"cd", "popd"})
        <5>1. ~Some(item.body, {"cd", "popd"})
          BY <1>2, <3>4, PlainBody DEF Plain
        <5> QED BY <1>a, <5>1, ReadAs
      <4>2. H[n].cwd = H[n - 1].cwd /\ (H[n - 1].mutated => H[n].mutated)
        <5> DEFINE acc == H[n - 1]
        <5>1. /\ acc \in Walker /\ AreReadings(view) /\ H[n] = Walked(acc, view)
              /\ ~Some(view, {"cd", "popd"})
          BY <3>3, <4>1
        <5> HIDE DEF acc
        <5>2. Walked(acc, view).cwd = acc.cwd /\ (acc.mutated => Walked(acc, view).mutated)
          BY <5>1, WalkedBody
        <5> QED BY <5>1, <5>2 DEF acc
      <4> QED BY <3>4, <4>2 DEF Follows
    <3>5. switches' = 0 /\ AllPlain(session.next)' =>
            Follows(H[session'.next - 1], world', repos, login)
      <4>1. AllPlain(session.next)' <=> AllPlain(session'.next)
        BY <1>2, ExcusesStay DEF c
      <4> QED BY <1>1, <1>2, <3>2, <3>4, <4>1
    <3> QED BY <1>2, <3>2, <3>5 DEF PushFollowed
  <2>2. CASE session.push = "judged" /\ session.readable
    BY <1>2, <2>1, <2>2 DEF PushDecided
  <2>3. CASE session.push = "judged" /\ ~session.readable
    BY <1>2, <2>3 DEF HostBase, PushDecided, c
  <2>4. CASE session.push # "judged"
    BY <1>2, <2>4 DEF PushDecided
  <2> QED BY <2>2, <2>3, <2>4
<1>8. CommitDecided'
  <2>1. \A i, j : UnseenCommit(i, j)' <=> UnseenCommit(i, j)
    BY <1>2, ExcusesStay DEF c
  <2> QED BY <1>2, <1>6, <2>1 DEF HostBase, CommitDecided, n, c
<1>9. HostRight => HostRight'
  <2>1. /\ \A p : PushExcused(p) => PushExcused(p)'
        /\ \A m : CommitExcused(m) => CommitExcused(m)'
    BY <1>2, ExcusesStay DEF c
  <2> QED BY <1>2, <2>1 DEF HostRight, Asked, RightIdentity, RightAuthor
<1>10. Quiet => Quiet'
  BY <1>2 DEF Quiet, c
<1> QED BY <1>3, <1>4, <1>5, <1>7, <1>8, <1>9, <1>10 DEF HostBase

\* So does another session that switches the gh login: an excuse from then on.
LEMMA SwitchStep ==
  ASSUME HostBase, OtherSwitches
  PROVE  HostBase' /\ (HostRight => HostRight')
<1>1. /\ session.pc = "run" /\ UNCHANGED <<host, idmap, session, sent, made>>
      /\ switches' = switches + 1
  BY DEF OtherSwitches
<1>2. PICK l \in Ids : world' = [world EXCEPT !.login = l]
  BY DEF OtherSwitches
<1>3. switches' \in Nat /\ switches' > 0 /\ switches' # 0
  BY <1>1 DEF HostBase, HostTypeOK
<1>4. HostTypeOK'
  BY <1>1, <1>2, <1>3 DEF HostBase, HostTypeOK
<1>5. world'.cwd = world.cwd /\ world'.repos = world.repos
  BY <1>2 DEF HostBase, HostTypeOK
<1>6. Ran' /\ FailedClosed'
  BY <1>1 DEF HostBase, Ran, FailedClosed
<1>7. PushDecided'
  <2>1. PushFollowed => PushFollowed'
    BY <1>1, <1>3 DEF PushFollowed
  <2> QED BY <1>1, <2>1 DEF HostBase, PushDecided
<1>8. CommitDecided'
  <2>1. \A n : Before(n)' = Before(n)
    BY <1>1 DEF Before
  <2>2. \A cwd, repos : Steady(world', cwd, repos) <=> Steady(world, cwd, repos)
    BY <1>5 DEF Steady
  <2>3. \A i, j : UnseenCommit(i, j)' <=> UnseenCommit(i, j)
    BY <1>1, ExcusesStay
  <2> QED BY <1>1, <2>1, <2>2, <2>3 DEF HostBase, CommitDecided
<1>9. ASSUME HostRight PROVE HostRight'
  <2>1. \A p : PushExcused(p)'
    BY <1>3 DEF PushExcused
  <2>2. \A m : CommitExcused(m) => CommitExcused(m)'
    BY <1>1, ExcusesStay
  <2> QED BY <1>1, <1>9, <2>1, <2>2 DEF HostRight, Asked, RightIdentity, RightAuthor
<1> QED BY <1>4, <1>6, <1>7, <1>8, <1>9 DEF HostBase

\* A host that runs nothing has pushed nothing.
LEMMA RestStep ==
  ASSUME HostTypeOK', session'.pc # "run", sent' = {}, made' = {},
         session'.pc = "decide" =>
            session'.next = 1 /\ session'.push = "none" /\ session'.commit = "none"
  PROVE  HostBase' /\ HostRight'
BY DEF HostBase, Ran, FailedClosed, PushDecided, CommitDecided,
       HostRight, Asked, RightIdentity, RightAuthor

\* A session that waits is well formed.
LEMMA IdleSession == SessionOK(Idle)
<1>1. <<>> \in Seq(Item) /\ Len(<<>>) = 0 /\ \A i \in DOMAIN <<>> : FALSE
  OBVIOUS
<1>2. IsCommand(<<>>)
  BY <1>1 DEF IsCommand
<1>3. 1 \in 1..(Len(<<>>) + 1)
  BY <1>1
<1> QED BY <1>2, <1>3 DEF SessionOK, Idle

\* An agent issues a command.
LEMMA IssueStep ==
  ASSUME HostBase, NEW c, IsCommand(c), NEW readable \in BOOLEAN, Issue(c, readable)
  PROVE  HostBase' /\ HostRight' /\ sent' = {} /\ made' = {} /\ session'.cmd = c
<1>1. session' = [pc |-> "decide", cmd |-> c, readable |-> readable, next |-> 1,
                  push |-> "none", commit |-> "none"]
      /\ session.pc = "idle" /\ UNCHANGED <<host, idmap, world, sent, made, switches>>
  BY DEF Issue, Idle
<1>2. 1 \in 1..(Len(c) + 1)
  <2>1. Len(c) \in Nat
    BY DEF IsCommand
  <2> QED BY <2>1
<1>3. SessionOK(session')
  BY <1>1, <1>2 DEF SessionOK
<1>4. HostTypeOK'
  BY <1>1, <1>3 DEF HostBase, HostTypeOK
<1>5. sent' = {} /\ made' = {}
  BY <1>1 DEF HostBase, Ran
<1> QED BY <1>1, <1>4, <1>5, RestStep

\* A command ends.
LEMMA EndStep ==
  ASSUME HostBase, session' = Idle, sent' = {}, made' = {},
         UNCHANGED <<host, idmap, world, switches>>
  PROVE  HostBase' /\ HostRight' /\ Quiet'
<1>1. HostTypeOK'
  BY IdleSession DEF HostBase, HostTypeOK
<1>2. session'.pc = "idle" /\ session'.cmd = <<>>
  BY DEF Idle
<1>3. Quiet'
  BY <1>2 DEF Quiet
<1> QED BY <1>1, <1>2, <1>3, RestStep

\* Trust reviews, and all that does not concern the host.
LEMMA OtherStep ==
  ASSUME HostBase, UNCHANGED <<idmap, world, session, sent, made, switches>>,
         host' \in [name : HostNames, hooks : {"trusted", "untrusted"}], host'.name = host.name
  PROVE  /\ HostBase'
         /\ UNCHANGED host /\ HostRight => HostRight'
         /\ Quiet => Quiet'
<1>1. HostTypeOK' /\ Ran' /\ FailedClosed'
  BY DEF HostBase, HostTypeOK, Ran, FailedClosed
<1>2. \A n : Before(n)' = Before(n)
  BY DEF Before
<1>3. PushDecided'
  <2>1. AllPlain(session.next)' <=> AllPlain(session.next)
    BY <1>2 DEF AllPlain, Misread
  <2>2. PushFollowed => PushFollowed'
    BY <2>1 DEF PushFollowed
  <2> QED BY <2>2 DEF HostBase, PushDecided
<1>4. CommitDecided'
  <2>1. \A i, j : UnseenCommit(i, j)' <=> UnseenCommit(i, j)
    BY DEF UnseenCommit
  <2> QED BY <1>2, <2>1 DEF HostBase, CommitDecided
<1>5. ASSUME UNCHANGED host, HostRight PROVE HostRight'
  <2>1. /\ \A p : PushExcused(p) => PushExcused(p)'
        /\ \A m : CommitExcused(m) => CommitExcused(m)'
    BY <1>5, ExcusesStay
  <2> QED BY <1>5, <2>1 DEF HostRight, Asked, RightIdentity, RightAuthor
<1>6. Quiet => Quiet'
  BY DEF Quiet
<1> QED BY <1>1, <1>3, <1>4, <1>5, <1>6 DEF HostBase

-----------------------------------------------------------------------------
\* The guards decide.

\* What the guards read of an item are readings.
LEMMA ViewReadings ==
  ASSUME NEW c, IsCommand(c), NEW i \in DOMAIN c
  PROVE  AreReadings(View(c, i))
<1> DEFINE view == View(c, i)
<1>1. /\ IsView(view) /\ DOMAIN view = DOMAIN c[i].body
      /\ \A j \in DOMAIN c[i].body : view[j] = Reading(c, i, j)
  BY ViewType
<1>2. ASSUME NEW j \in DOMAIN c[i].body PROVE IsReading(Reading(c, i, j))
  BY ReadingFacts DEF Reads
<1> HIDE DEF view
<1>3. AreReadings(view)
  BY <1>1, <1>2 DEF AreReadings
<1> QED BY <1>3 DEF view

\* A command that the push guard lets through has a walk in which nothing is
\* refused, at any item.
WalkedOk(H, c, repos, login) ==
    /\ \A i \in 0..Len(c) : H[i] \in Walker /\ Ok(H[i], repos, login)
    /\ \A i \in 0..(Len(c) - 1) : H[i + 1] = Walked(H[i], View(c, i + 1))

\* The decision of the push guard lets it follow the shell.
LEMMA DecidedPush ==
  ASSUME NEW c, IsCommand(c), NEW cwd \in Dirs, NEW repos, NEW login, NEW map,
         NEW readable, readable = TRUE,
         PushGuardAllows(c, readable, cwd, repos, login, map)
  PROVE  \E H : H[0] = Start(cwd) /\ WalkedOk(H, c, repos, login)
<1> DEFINE n == Len(c)
<1>1. n \in Nat /\ \A i \in 1..n : AreReadings(View(c, i))
  <2>1. c \in Seq(Item)
    BY DEF IsCommand
  <2>2. n \in Nat /\ DOMAIN c = 1..n
    BY <2>1
  <2> QED BY <2>2, ViewReadings
<1>2. PICK H : ItemWalk(H, Start(cwd), c) /\ H[n] = Walked(Start(cwd), Expand(c))
  BY WalkByItems
<1>3. H[0] = Start(cwd) /\ \A i \in 0..(n - 1) : H[i + 1] = Walked(H[i], View(c, i + 1))
  BY <1>2 DEF ItemWalk
<1>4. Ok(H[n], repos, login)
  BY <1>2 DEF PushGuardAllows, Walked, Ok
<1>5. Start(cwd) \in Walker
  <2>1. <<>> \in Seq(Descriptor)
    OBVIOUS
  <2> QED BY <2>1 DEF Start, Walker
<1> HIDE DEF n
<1> DEFINE R == {k \in 0..n : /\ H[k] \in Walker
                              /\ Ok(H[k], repos, login) =>
                                    \A j \in 0..k : Ok(H[j], repos, login)}
<1>6. 0..n \subseteq R
  <2>1. 0 \in R
    <3>1. 0 \in 0..n /\ \A j \in 0..0 : j = 0
      BY <1>1
    <3> QED BY <1>3, <1>5, <3>1
  <2>2. ASSUME NEW k \in 0..(n - 1), k \in R PROVE k + 1 \in R
    <3>1. k + 1 \in 0..n /\ k + 1 \in 1..n
      BY <1>1
    <3>2. H[k + 1] \in Walker /\ (Ok(H[k + 1], repos, login) => Ok(H[k], repos, login))
      <4> DEFINE acc == H[k]
                 body == View(c, k + 1)
      <4>1. acc \in Walker /\ AreReadings(body) /\ H[k + 1] = Walked(acc, body)
        BY <1>1, <1>3, <2>2, <3>1
      <4> HIDE DEF acc, body
      <4>2. /\ Walked(acc, body) \in Walker
            /\ Ok(Walked(acc, body), repos, login) => Ok(acc, repos, login)
        BY <4>1, WalkedBody
      <4> QED BY <4>1, <4>2 DEF acc
    <3>3. \A j \in 0..(k + 1) : j \in 0..k \/ j = k + 1
      BY <1>1
    <3> QED BY <2>2, <3>1, <3>2, <3>3
  <2> HIDE DEF R
  <2> QED BY <1>1, <2>1, <2>2, StepInduction
<1>7. \A i \in 0..n : H[i] \in Walker /\ Ok(H[i], repos, login)
  <2>1. n \in R
    BY <1>1, <1>6
  <2>2. \A j \in 0..n : Ok(H[j], repos, login)
    BY <1>4, <2>1
  <2> QED BY <1>6, <2>2
<1> HIDE DEF R
<1> QED BY <1>3, <1>7 DEF n, WalkedOk

\* The hooks decide: this is where the invariant gets its hypotheses.
LEMMA DecideStep ==
  ASSUME HostBase, Decide
  PROVE  HostBase' /\ HostRight' /\ sent' = {} /\ made' = {} /\ session'.cmd = session.cmd
<1> DEFINE c == session.cmd
<1>1. /\ session.pc = "decide" /\ UNCHANGED <<host, idmap, world, sent, made, switches>>
      /\ session.next = 1 /\ session.push = "none" /\ session.commit = "none"
      /\ sent = {} /\ made = {} /\ IsCommand(c) /\ session.readable \in BOOLEAN
  BY DEF Decide, HostBase, Ran, HostTypeOK, SessionOK
<1>2. PICK pc \in {"run", "denied"}, push, commit \in {"none", "judged", "failed"} :
        /\ session' = [session EXCEPT !.pc = pc, !.push = push, !.commit = commit]
        /\ \/ host.hooks = "untrusted" /\ push = "none" /\ commit = "none"
           \/ /\ push # "none" /\ commit # "none"
              /\ pc = "run" => GuardsAllow(push, commit)
  <2>1. CASE host.hooks = "untrusted"
    <3>1. session' = [session EXCEPT !.pc = "run"]
      BY <2>1 DEF Decide
    <3>2. session' = [session EXCEPT !.pc = "run", !.push = "none", !.commit = "none"]
      BY <1>1, <3>1 DEF HostBase, HostTypeOK, SessionOK
    <3> QED BY <2>1, <3>2
  <2>2. CASE host.hooks # "untrusted"
    <3>1. PICK push, commit \in {"judged", "failed"} :
            session' = [session EXCEPT
                    !.pc = IF GuardsAllow(push, commit) THEN "run" ELSE "denied",
                    !.push = push, !.commit = commit]
      BY <2>2 DEF Decide
    <3>2. CASE GuardsAllow(push, commit)
      BY <3>1, <3>2
    <3>3. CASE ~GuardsAllow(push, commit)
      BY <3>1, <3>3
    <3> QED BY <3>2, <3>3
  <2> QED BY <2>1, <2>2
<1>3. session' = [pc |-> pc, cmd |-> c, readable |-> session.readable, next |-> 1,
                  push |-> push, commit |-> commit]
  BY <1>1, <1>2 DEF HostBase, HostTypeOK, SessionOK
<1> HIDE DEF c
<1>4. HostTypeOK'
  <2>1. 1 \in 1..(Len(c) + 1)
    <3>1. Len(c) \in Nat
      BY <1>1 DEF IsCommand
    <3> QED BY <3>1
  <2>2. SessionOK(session')
    BY <1>1, <1>3, <2>1 DEF SessionOK
  <2> QED BY <1>1, <2>2 DEF HostBase, HostTypeOK
<1>5. Ran' /\ sent' = {} /\ made' = {} /\ session'.cmd = c
  BY <1>1, <1>3 DEF Ran
<1>6. ASSUME pc = "run", push # "none"
      PROVE  /\ push = "judged" => PushGuardAllows(c, session.readable, world.cwd, world.repos,
                                                   world.login, idmap)
             /\ push = "failed" => host.name = "claude"
             /\ commit = "judged" => CommitGuardAllows(c, session.readable, world.cwd,
                                                       world.repos, idmap)
  BY <1>2, <1>6 DEF GuardsAllow, Answer, Bridged, c
<1>7. FailedClosed'
  BY <1>1, <1>3, <1>6 DEF FailedClosed
<1>8. world.cwd \in Dirs
  BY DEF HostBase, HostTypeOK
<1>9. PushDecided'
  <2>1. ASSUME pc = "run", push = "judged", session.readable
        PROVE  PushFollowed'
    <3>1. PushGuardAllows(c, session.readable, world.cwd, world.repos, world.login, idmap)
      BY <1>6, <2>1
    <3>2. PICK H : H[0] = Start(world.cwd) /\ WalkedOk(H, c, world.repos, world.login)
      BY <1>1, <1>8, <2>1, <3>1, DecidedPush
    <3>3. Follows(H[0], world', world.repos, world.login)
      BY <1>1, <3>2 DEF Follows, Start
    <3>4. session'.next - 1 = 0 /\ session'.cmd = c
      BY <1>3
    <3>5. Follows(H[session'.next - 1], world', world.repos, world.login)
      BY <3>3, <3>4
    <3> QED BY <3>2, <3>4, <3>5 DEF PushFollowed, WalkedOk
  <2>2. ASSUME pc = "run", push = "judged", ~session.readable
        PROVE  \A i \in DOMAIN c : ~Some(c[i].body, PushClass)
    <3>1. ~LooksLikePush(c)
      BY <1>6, <2>2 DEF PushGuardAllows
    <3> QED BY <3>1 DEF LooksLikePush, Some
  <2> QED BY <1>3, <2>1, <2>2 DEF PushDecided
<1>10. CommitDecided'
  <2>1. ASSUME pc = "run", commit = "judged", session.readable, idmap = "valid"
        PROVE  \A i \in DOMAIN c : \A j \in DOMAIN c[i].body :
                  LET s == c[i].body[j] IN
                  s.op = "commit" /\ ~Lost(s) /\ ~UnseenCommit(i, j) =>
                      CommitAllows(s, world.cwd, world.repos)
    <3>1. \A s \in SeenCommits(c) : CommitAllows(s, world.cwd, world.repos)
      BY <1>2, <1>6, <2>1 DEF CommitGuardAllows
    <3>2. ASSUME NEW i \in DOMAIN c, NEW j \in DOMAIN c[i].body,
                 NEW s, s = c[i].body[j],
                 s.op = "commit", ~Lost(s), ~UnseenCommit(i, j)
          PROVE  CommitAllows(s, world.cwd, world.repos)
      <4> DEFINE r == Reading(c, i, j)
                 name == [s EXCEPT !.author = "pattern"]
                 view == View(c, i)
      <4>1. s \in Segment
        BY <1>1, <3>2 DEF IsCommand, WellFormed
      <4>2. r \in Range(Expand(c)) /\ view[j] = r
        BY <1>1, <3>2, ExpandHasAll, ViewType
      <4>3. view[j] \in {s, name}
        BY <3>2, ItemRead DEF HostBase, HostTypeOK, c
      <4>4. name.op = s.op /\ name.dirs = s.dirs /\ name.author = "pattern"
        BY <4>1 DEF Segment
      <4> HIDE DEF r, view, name
      <4>5. r.op = "commit" /\ r \in {s, name}
        BY <3>2, <4>2, <4>3, <4>4
      <4>6. CommitAllows(r, world.cwd, world.repos)
        BY <3>1, <4>2, <4>5 DEF SeenCommits
      <4>7. \A x : Author(name, x) = "pattern"
        BY <4>4 DEF Author
      <4>8. CommitAllows(name, world.cwd, world.repos) => CommitAllows(s, world.cwd, world.repos)
        BY <4>4, <4>7, Words DEF CommitAllows
      <4> QED BY <4>5, <4>6, <4>8
    <3> QED BY <3>2
  <2>2. Steady(world', world.cwd, world.repos)
    BY <1>1 DEF Steady
  <2>3. \A i, j : UnseenCommit(i, j)' <=> UnseenCommit(i, j)
    BY <1>5 DEF UnseenCommit, c
  <2> QED BY <1>1, <1>3, <2>1, <2>2, <2>3 DEF CommitDecided
<1>11. HostRight'
  BY <1>1, <1>2, <1>3, <1>5 DEF HostRight, Asked, RightIdentity, RightAuthor
<1> QED BY <1>4, <1>5, <1>7, <1>9, <1>10, <1>11 DEF HostBase, c

-----------------------------------------------------------------------------
\* The probes.

\* What the agents of the probes run reaches nobody, whatever they make of it.
LEMMA ProbeCommands ==
  ASSUME NEW probe
  PROVE  /\ IsCommand(Exact(probe)) /\ IsCommand(Altered(probe))
         /\ \A c \in {Exact(probe), Altered(probe)} :
                \A i \in DOMAIN c : \A j \in DOMAIN c[i].body :
                    ~Reaches(c[i].body[j]) /\ c[i].body[j].op # "commit"
<1> DEFINE Good(s) == WellFormed(s) /\ ~Reaches(s) /\ s.op # "commit"
<1>1. <<>> \in Seq(Dirs \cup {Unknown})
  OBVIOUS
<1>2. /\ Seg("push") \in Segment /\ Seg("push").op = "push"
      /\ Seg("push").remote = "path" /\ Seg("push").dirs = <<>>
  BY <1>1 DEF Seg, Segment, Ops, PushClass, Joins
<1>3. ASSUME NEW f \in Files
      PROVE  [Seg("touch") EXCEPT !.id = f] \in Segment /\ [Seg("touch") EXCEPT !.id = f].op = "touch"
  <2> DEFINE s == Seg("touch")
  <2>1. f \in Ids \cup {NoId} \cup Files /\ "touch" \in Ops
    BY <1>3 DEF Ops
  <2>2. s \in Segment /\ s.op = "touch"
    BY <1>1, <2>1 DEF Seg, Segment, Joins
  <2> HIDE DEF s
  <2>3. [s EXCEPT !.id = f] \in Segment /\ [s EXCEPT !.id = f].op = "touch"
    BY <2>1, <2>2 DEF Segment
  <2> QED BY <2>3 DEF s
<1>a. ASSUME NEW s \in Segment, s.op = "touch" \/ (s.op = "push" /\ s.remote = "path" /\ s.dirs = <<>>),
             NEW j \in Joins
      PROVE  Good([s EXCEPT !.join = j])
  <2> DEFINE u == [s EXCEPT !.join = j]
  <2>1. u \in Segment /\ u.op = s.op /\ u.remote = s.remote /\ u.dirs = s.dirs
    BY DEF Segment
  <2> HIDE DEF u
  <2>2. Good(u)
    BY <1>a, <2>1 DEF WellFormed, Reaches, PushClass
  <2> QED BY <2>2 DEF u
<1>b. ASSUME NEW j \in Joins PROVE Good([Seg("push") EXCEPT !.join = j])
  <2> DEFINE s == Seg("push")
  <2>1. s \in Segment /\ s.op = "push" /\ s.remote = "path" /\ s.dirs = <<>>
    BY <1>2
  <2> HIDE DEF s, Good
  <2>2. Good([s EXCEPT !.join = j])
    BY <1>a, <2>1
  <2> QED BY <2>2 DEF s
<1>c. ASSUME NEW f \in Files, NEW j \in Joins
      PROVE  Good([[Seg("touch") EXCEPT !.id = f] EXCEPT !.join = j])
  <2> DEFINE s == [Seg("touch") EXCEPT !.id = f]
  <2>1. s \in Segment /\ s.op = "touch"
    BY <1>3
  <2> HIDE DEF s, Good
  <2>2. Good([s EXCEPT !.join = j])
    BY <1>a, <2>1
  <2> QED BY <2>2 DEF s
<1> HIDE DEF Good
<1> DEFINE Solid(it) == /\ it \in Item /\ it.shell = "same" /\ Len(it.body) = 1 /\ it.body # <<>>
                        /\ \A j \in DOMAIN it.body : Good(it.body[j])
<1>4. ASSUME NEW s, NEW j, Good([s EXCEPT !.join = j]) PROVE Solid(Simple(s, j))
  <2> DEFINE u == [s EXCEPT !.join = j]
             it == [shell |-> "same", sure |-> TRUE, body |-> <<u>>]
  <2>1. u \in Segment
    BY <1>4 DEF Good, WellFormed
  <2>2. Simple(s, j) = it
    BY DEF Simple
  <2> HIDE DEF u
  <2>3. <<u>> \in Seq(Segment) /\ DOMAIN <<u>> = {1} /\ <<u>>[1] = u /\ Len(<<u>>) = 1 /\ <<u>> # <<>>
    BY <2>1
  <2>4. Good(u)
    BY <1>4 DEF u
  <2>5. it \in Item /\ it.shell = "same" /\ it.body = <<u>>
    BY <2>3 DEF Item
  <2> HIDE DEF it
  <2>6. Solid(it)
    BY <2>3, <2>4, <2>5
  <2> QED BY <2>2, <2>6
<1> DEFINE Fine(c) == /\ IsCommand(c)
                      /\ \A i \in DOMAIN c : \A j \in DOMAIN c[i].body : Good(c[i].body[j])
<1>5. ASSUME NEW c, c \in Seq(Item), \A i \in DOMAIN c : Solid(c[i]) PROVE Fine(c)
  BY <1>5 DEF IsCommand, Good
<1>6. /\ \A f \in Files : Solid(Touch(f))
      /\ Solid(Simple(Seg("push"), "attached"))
  BY <1>4, <1>b, <1>c DEF Touch, Joins
<1> HIDE DEF Fine, Solid
<1>7. ASSUME NEW it, Solid(it) PROVE Fine(<<it>>)
  <2>1. <<it>> \in Seq(Item) /\ \A i \in DOMAIN <<it>> : <<it>>[i] = it
    BY <1>7 DEF Solid
  <2> QED BY <1>5, <1>7, <2>1
<1>8. ASSUME NEW it, Solid(it), NEW on, Solid(on) PROVE Fine(<<it, on>>)
  <2>1. <<it, on>> \in Seq(Item) /\ \A i \in DOMAIN <<it, on>> : <<it, on>>[i] \in {it, on}
    BY <1>8 DEF Solid
  <2> QED BY <1>5, <1>8, <2>1
<1>9. ASSUME NEW first, Solid(first), NEW it, Solid(it), NEW on, Solid(on)
      PROVE  Fine(<<first, it, on>>)
  <2>1. first \in Item /\ it \in Item /\ on \in Item
    BY <1>9 DEF Solid
  <2> DEFINE c == <<first, it, on>>
  <2>2. c = [i \in 1..3 |-> IF i = 1 THEN first ELSE IF i = 2 THEN it ELSE on]
    BY SMTT(20)
  <2>3. c \in [1..3 -> Item]
    BY <2>1, <2>2
  <2>4. c \in Seq(Item) /\ DOMAIN c = 1..3 /\ \A i \in 1..3 : c[i] \in {first, it, on}
    BY <2>2, <2>3
  <2> HIDE DEF c
  <2>5. Fine(c)
    BY <1>5, <1>9, <2>4
  <2> QED BY <2>5 DEF c
<1>10. Fine(Exact(probe)) /\ Fine(Altered(probe))
  <2>1. {"benign-sentinel", "push-sentinel", "scratch"} = Files
    BY DEF Files
  <2>2. Fine(Altered(probe))
    BY <1>6, <1>7, <2>1 DEF Altered
  <2> DEFINE push == Simple(Seg("push"), "attached")
             mark == Touch("push-sentinel")
             print == Touch("scratch")
             do == Touch("benign-sentinel")
  <2>3. Exact(probe) \in {<<do>>, <<print, push, mark>>, <<push, mark>>, <<print>>}
    BY DEF Exact
  <2>4. Solid(push) /\ Solid(mark) /\ Solid(print) /\ Solid(do)
    BY <1>6, <2>1
  <2> HIDE DEF push, mark, print, do
  <2> QED BY <1>7, <1>8, <1>9, <2>2, <2>3, <2>4
<1> QED BY <1>10 DEF Fine, Good

\* Guards that are asked never let Polytoken's push through: its remote is a
\* path, also with the delimiter that is attached to it, and a guard that fails
\* denies.
LEMMA ProbePushDenied ==
  ASSUME host.name = "polytoken", world.cwd \in Dirs,
         session.cmd = Exact("push"), session.readable = TRUE,
         NEW push \in {"judged", "failed"}, NEW commit
  PROVE  ~ GuardsAllow(push, commit)
<1> DEFINE p == [Seg("push") EXCEPT !.join = "attached"]
           c == session.cmd
           r == Reading(c, 1, 1)
           view == View(c, 1)
           cwd == world.cwd
           repos == world.repos
           login == world.login
           readable == session.readable
<1>1. CASE push = "failed"
  BY <1>1 DEF GuardsAllow, Answer, Bridged
<1>2. CASE push = "judged"
  <2>1. SUFFICES ASSUME PushGuardAllows(c, readable, cwd, repos, login, idmap) PROVE FALSE
    BY <1>2 DEF GuardsAllow, Answer, Bridged
  <2>2. IsCommand(c)
    BY ProbeCommands
  <2>3. c = <<Simple(Seg("push"), "attached"), Touch("push-sentinel")>>
    BY DEF Exact
  <2>4. Len(c) = 2 /\ 1 \in DOMAIN c /\ c[1].body = <<p>>
    BY <2>3 DEF Simple, Touch
  <2>5. p.op = "push" /\ p.wrap = "plain" /\ p.remote = "path" /\ p.join = "attached"
    BY DEF Seg
  <2>7. cwd \in Dirs /\ readable = TRUE
    OBVIOUS
  <2> HIDE DEF p, c, cwd, repos, login, readable
  <2>8. 1 \in DOMAIN c[1].body /\ c[1].body[1] = p /\ Len(c[1].body) = 1
    BY <2>4
  <2>9. /\ IsView(view) /\ Len(view) = 1 /\ view[1] = r /\ DOMAIN view = DOMAIN c[1].body
    BY <2>2, <2>4, <2>8, ViewType
  <2>10. IsReading(r)
    <3>1. AreReadings(View(c, 1))
      BY <2>2, <2>4, ViewReadings
    <3> QED BY <2>8, <2>9, <3>1 DEF AreReadings
  <2>11. ~Absorbed(c, 1, 1)
    BY DEF Absorbed
  <2>12. r.op = "push" /\ r.remote = "path"
    <3>1. r = Attached(p)
      BY <2>5, <2>8, <2>11 DEF Reading
    <3>2. Attached(p) = [p EXCEPT !.remote = "path"]
      BY <2>5 DEF Attached
    <3>3. p \in Segment
      BY <2>2, <2>4, <2>8 DEF IsCommand, WellFormed
    <3> QED BY <2>5, <3>1, <3>2, <3>3 DEF Segment
  <2> HIDE DEF r, view
  <2>13. PICK H : H[0] = Start(cwd) /\ WalkedOk(H, c, repos, login)
    BY <2>1, <2>2, <2>7, DecidedPush
  <2>14. H[0] \in Walker /\ H[1] = Walked(H[0], view) /\ Ok(H[1], repos, login)
    <3>1. 0 \in 0..2 /\ 1 \in 0..2 /\ 0 \in 0..(2 - 1) /\ 0 + 1 = 1
      OBVIOUS
    <3>2. H[0 + 1] = Walked(H[0], View(c, 0 + 1))
      BY <2>4, <2>13, <3>1 DEF WalkedOk
    <3> QED BY <2>4, <2>13, <3>1, <3>2 DEF WalkedOk, view
  <2>15. Walked(H[0], view) = Walk(H[0], r)
    <3>1. PICK F : Passes(F, WalkPass, H[0], view) /\ F[Len(view)] = Walked(H[0], view)
      BY <2>9, WalkPasses DEF IsView
    <3>2. F[0] = H[0] /\ F[0 + 1] = One(WalkPass, F[0], view[0 + 1])
      BY <2>9, <3>1 DEF Passes
    <3> QED BY <2>9, <3>1, <3>2 DEF One, WalkPass
  <2>16. DescriptorAllows(Collected(H[0], r), repos, login)
    <3>1. Ok(Walk(H[0], r), repos, login)
      BY <2>14, <2>15
    <3> QED BY <2>10, <2>12, <2>14, <3>1, OkStep DEF PushClass
  <2>17. \A id, top : ~PolicyAllows(id, r, top, repos, login)
    BY <2>12 DEF PolicyAllows
  <2> QED BY <2>12, <2>16, <2>17 DEF DescriptorAllows, Collected
<1> QED BY <1>1, <1>2

-----------------------------------------------------------------------------
\* The invariant.

Steps == {"off", "start", "turn", "call", "judge", "evidence", "merge", "done",
          "refused", "crashed"}

\* A probe is under way.
Probing == {"turn", "call", "judge"}

TraceCall == [exact : BOOLEAN, hooked : BOOLEAN, blocked : BOOLEAN, complete : BOOLEAN]
Results == {"none", "pass", "fail", "installed-untrusted", "unverified"}

AdmissionRecord ==
    [pc : Steps, probe : 1..5, trace : Seq(TraceCall), exact : BOOLEAN,
     rc : {"none", "ok", "failed", "auth"}, found : BOOLEAN,
     passed : BOOLEAN, push : Results, outcome : Results \cup {"failed"}]

IsSession(s) ==
    /\ s = [pc |-> s.pc, cmd |-> s.cmd, readable |-> s.readable,
            next |-> s.next, push |-> s.push, commit |-> s.commit]
    /\ s.pc \in {"idle", "decide", "run", "denied"}
    /\ s.push \in {"none", "judged", "failed"}

AdmissionTypeOK ==
    /\ host \in [name : HostNames, hooks : {"trusted", "untrusted"}]
    /\ IsSession(session)
    /\ admission \in AdmissionRecord
    /\ admission.pc # "off" =>
           host.name \in DOMAIN Probes /\ admission.probe <= Len(Probes[host.name])

\* The call that is under way is the one that the agent made.
Calling ==
    /\ admission.pc \notin {"off", "call"} => session.pc = "idle"
    /\ admission.pc = "call" =>
           /\ session.pc # "idle"
           /\ session.readable = TRUE
           /\ admission.exact => session.cmd = Exact(Probe)
    /\ session.pc = "decide" => session.push = "none"

PushFacts == {"push denied", "push probe ran", "push not asked"}
Denied == "push denied" \in witness /\ witness \cap {"push probe ran", "push not asked"} = {}
PushRan == "push probe ran" \in witness

\* The call under way was let through, or stopped.
Running == admission.pc = "call" /\ session.pc = "run"
Stopped == admission.pc = "call" /\ session.pc = "denied"

\* What the trace of the push probe shows is what the hooks decided.
PushTraced ==
    /\ "push probe ran" \in witness =>
           Running \/ \E i \in DOMAIN admission.trace : ~ admission.trace[i].blocked
    /\ \A i \in DOMAIN admission.trace : admission.trace[i].exact =>
           /\ admission.trace[i].blocked => "push denied" \in witness
           /\ admission.trace[i].complete => PushRan
    /\ admission.exact /\ Stopped => "push denied" \in witness
    /\ admission.exact /\ Running => PushRan

\* A call of Polytoken's that was not asked for is in the trace without its
\* hook, or its probe has failed.
CallTraced ==
    /\ host.name = "polytoken" /\ admission.passed
    /\ "call not asked" \in witness
    => /\ Probe \in {"reload", "benign"}
       /\ \/ Running /\ session.push = "none"
          \/ \E i \in DOMAIN admission.trace : ~ admission.trace[i].hooked

Traced ==
    admission.pc \in Probing =>
        /\ Probe \in {"discovery", "skills", "reload", "benign"} => witness \cap PushFacts = {}
        /\ Probe = "push" => PushTraced
        /\ CallTraced
        /\ Probe = "non-shell" /\ admission.passed => Denied
        /\ admission.push = "none"

Earned ==
    /\ "push not asked" \in witness => "push probe ran" \in witness
    /\ admission.pc = "start" =>
           witness = {} /\ admission.probe = 1 /\ admission.push = "none"
    /\ admission.pc \in {"off", "start", "turn", "call", "judge", "refused", "crashed"} =>
           admission.outcome \in {"none", "unverified"}

AdmissionInv == AdmissionTypeOK /\ Calling /\ Traced /\ Earned /\ OutcomeEarned

-----------------------------------------------------------------------------
\* The probes of either host, in order.
LEMMA ProbesDef ==
  /\ DOMAIN Probes = {"codex", "polytoken"}
  /\ Len(Probes["codex"]) = 3 /\ Len(Probes["polytoken"]) = 5
  /\ Probes["codex"][1] = "discovery" /\ Probes["codex"][2] = "benign"
  /\ Probes["codex"][3] = "push"
  /\ Probes["polytoken"][1] = "skills" /\ Probes["polytoken"][2] = "reload"
  /\ Probes["polytoken"][3] = "benign" /\ Probes["polytoken"][4] = "push"
  /\ Probes["polytoken"][5] = "non-shell"
  BY DEF Probes

\* A probe has one of four results.
LEMMA ResultType ==
  ASSUME NEW a
  PROVE  Result(a) \in {"pass", "fail", "installed-untrusted", "unverified"}
  BY DEF Result, CodexResult, CodexPush, PolytokenResult

\* And an admission that of its push, or none.
LEMMA OutcomeType ==
  ASSUME NEW a, a.push \in Results
  PROVE  Outcome(a) \in Results \cup {"failed"}
  BY DEF Outcome, Results

\* The invariant holds initially.
LEMMA InitInv == Init => AdmissionInv
<1> SUFFICES ASSUME Init PROVE AdmissionInv
  OBVIOUS
<1> USE DEF Init, HostInit, Idle, Off
<1>1. AdmissionTypeOK
  <2>1. CASE admission = Off
    BY <2>1 DEF AdmissionTypeOK, IsSession, AdmissionRecord, Steps, Results, HostNames
  <2>2. CASE host.name \in DOMAIN Probes /\ admission = [Off EXCEPT !.pc = "start"]
    <3>1. 1 <= Len(Probes[host.name])
      BY <2>2, ProbesDef
    <3>2. admission.probe = 1
      BY <2>2
    <3>3. admission \in AdmissionRecord
      <4>1. admission = [pc |-> "start", probe |-> 1, trace |-> <<>>, exact |-> FALSE,
                rc |-> "none", found |-> TRUE, passed |-> TRUE, push |-> "none", outcome |-> "none"]
        BY <2>2
      <4> QED BY <4>1 DEF AdmissionRecord, Steps, Results
    <3> QED BY <2>2, <3>1, <3>2, <3>3 DEF AdmissionTypeOK, IsSession, HostNames
  <2> QED BY <2>1, <2>2
<1>2. Calling
  BY DEF Calling
<1>3. Traced
  BY DEF Traced, Probing
<1>4. Earned /\ OutcomeEarned
  BY DEF Earned, OutcomeEarned
<1> QED BY <1>1, <1>2, <1>3, <1>4 DEF AdmissionInv

-----------------------------------------------------------------------------
\* The steps.

\* The probe, and what it asks for, are those of the host and the step.
LEMMA AskedStays ==
  ASSUME host'.name = host.name, admission'.probe = admission.probe
  PROVE  Probe' = Probe /\ Exact(Probe)' = Exact(Probe)
<1>1. Probe' = Probe
  BY DEF Probe
<1> QED BY <1>1 DEF Exact

\* A step that changes nothing that the invariant reads.
LEMMA Unread ==
  ASSUME AdmissionInv, UNCHANGED <<host, admission, witness>>, IsSession(session'),
         /\ session'.pc = session.pc /\ session'.cmd = session.cmd
         /\ session'.readable = session.readable /\ session'.push = session.push
  PROVE  AdmissionInv'
<1>1. AdmissionTypeOK'
  BY DEF AdmissionInv, AdmissionTypeOK
<1>2. Probe' = Probe /\ Exact(Probe)' = Exact(Probe)
  BY AskedStays
<1>3. Calling'
  BY <1>2 DEF AdmissionInv, Calling
<1>4. PushTraced' = PushTraced /\ CallTraced' = CallTraced /\ Denied' = Denied
  BY <1>2 DEF PushTraced, CallTraced, Denied, Running, Stopped, PushRan
<1>5. Traced'
  BY <1>2, <1>4 DEF AdmissionInv, Traced
<1>6. Earned' /\ OutcomeEarned'
  BY DEF AdmissionInv, Earned, OutcomeEarned
<1> QED BY <1>1, <1>3, <1>5, <1>6 DEF AdmissionInv

\* Outside the probes only the outcome matters.
LEMMA NotProbing ==
  ASSUME AdmissionInv, AdmissionTypeOK', Calling', admission'.pc \notin Probing,
         Earned', OutcomeEarned'
  PROVE  AdmissionInv'
  BY DEF AdmissionInv, Traced

\* It is preserved by each action; first, a session outside of an admission.
LEMMA StepUser ==
  ASSUME AdmissionInv, UserIssue
  PROVE  AdmissionInv'
<1>1. PICK c, r : Issue(c, r)
  BY DEF UserIssue
<1>2. IsSession(session') /\ session'.pc = "decide" /\ session'.push = "none"
  BY <1>1 DEF Issue, Idle, IsSession
<1>3. AdmissionTypeOK'
  BY <1>1, <1>2 DEF AdmissionInv, AdmissionTypeOK, UserIssue, Issue
<1>4. Calling'
  BY <1>2 DEF UserIssue, Calling
<1>5. Earned' /\ OutcomeEarned'
  BY <1>1 DEF UserIssue, Issue, AdmissionInv, Earned, OutcomeEarned
<1> QED BY <1>3, <1>4, <1>5, NotProbing DEF UserIssue, Probing

\* Items that are run.
LEMMA StepRun ==
  ASSUME AdmissionInv, RunCall
  PROVE  AdmissionInv'
<1>1. UNCHANGED <<host, admission, witness>>
  BY DEF RunCall, RunItem, SkipItem, OtherSwitches, scriptVars
<1>2. session' = session \/ session' = [session EXCEPT !.next = @ + 1]
  BY DEF RunCall, RunItem, SkipItem, OtherSwitches
<1>3. /\ IsSession(session')
      /\ session'.pc = session.pc /\ session'.cmd = session.cmd
      /\ session'.readable = session.readable /\ session'.push = session.push
  BY <1>2 DEF AdmissionInv, AdmissionTypeOK, IsSession
<1> QED BY <1>1, <1>3, Unread

\* The evidence, and the index after it.
LEMMA StepEvidence ==
  ASSUME AdmissionInv, WriteEvidence \/ MergeActivation
  PROVE  AdmissionInv'
<1>1. UNCHANGED <<hostVars, witness>>
  BY DEF WriteEvidence, MergeActivation
<1>2. \E p \in {"merge", "done"} : admission' = [admission EXCEPT !.pc = p]
  BY DEF WriteEvidence, MergeActivation
<1>3. admission.pc \in {"evidence", "merge"}
  BY DEF WriteEvidence, MergeActivation
<1>4. AdmissionTypeOK'
  BY <1>1, <1>2, <1>3 DEF AdmissionInv, AdmissionTypeOK, AdmissionRecord, Steps, hostVars
<1>5. /\ admission'.pc \in {"merge", "done"}
      /\ admission'.outcome = admission.outcome
  BY <1>2 DEF AdmissionInv, AdmissionTypeOK, AdmissionRecord
<1>6. Calling'
  BY <1>1, <1>3, <1>5 DEF AdmissionInv, Calling, hostVars
<1>7. Earned' /\ OutcomeEarned'
  BY <1>1, <1>3, <1>5 DEF AdmissionInv, Earned, OutcomeEarned, hostVars
<1> QED BY <1>4, <1>5, <1>6, <1>7, NotProbing DEF Probing

\* Hooks that are trusted or changed between two probes.
LEMMA StepTrust ==
  ASSUME AdmissionInv, TrustChanges
  PROVE  AdmissionInv'
<1>1. /\ UNCHANGED <<session, admission, witness>>
      /\ host'.name = host.name
      /\ host' \in [name : HostNames, hooks : {"trusted", "untrusted"}]
  BY DEF AdmissionInv, AdmissionTypeOK, TrustChanges
<1>2. AdmissionTypeOK'
  BY <1>1 DEF AdmissionInv, AdmissionTypeOK
<1>3. Probe' = Probe /\ Exact(Probe)' = Exact(Probe)
  BY <1>1, AskedStays
<1>4. Calling'
  BY <1>1, <1>3 DEF AdmissionInv, Calling
<1>5. PushTraced' = PushTraced /\ CallTraced' = CallTraced /\ Denied' = Denied
  BY <1>1, <1>3 DEF PushTraced, CallTraced, Denied, Running, Stopped, PushRan
<1>6. Traced'
  BY <1>1, <1>3, <1>5 DEF AdmissionInv, Traced
<1>7. Earned' /\ OutcomeEarned'
  BY <1>1 DEF AdmissionInv, Earned, OutcomeEarned
<1> QED BY <1>2, <1>4, <1>6, <1>7 DEF AdmissionInv

\* A kill, and another run.
LEMMA StepCrash ==
  ASSUME AdmissionInv, Crash \/ RunAgain
  PROVE  AdmissionInv'
<1>1. UNCHANGED host /\ admission.pc # "off"
  BY DEF Crash, RunAgain, Ended
<1>2. PICK p \in {"crashed", "start"} : admission' = [Off EXCEPT !.pc = p]
  BY DEF Crash, RunAgain
<1>3. admission' = [pc |-> p, probe |-> 1, trace |-> <<>>, exact |-> FALSE,
            rc |-> "none", found |-> TRUE, passed |-> TRUE, push |-> "none", outcome |-> "none"]
  BY <1>2 DEF Off
<1>4. admission' \in AdmissionRecord
  BY <1>3 DEF AdmissionRecord, Steps, Results
<1>5. session' = Idle \/ (session' = session /\ session.pc = "idle")
  BY DEF Crash, RunAgain, Ended, AdmissionInv, Calling
<1>6. IsSession(session') /\ session'.pc = "idle"
  BY <1>5 DEF AdmissionInv, AdmissionTypeOK, IsSession, Idle
<1>7. 1 <= Len(Probes[host.name]) /\ host.name \in DOMAIN Probes
  BY <1>1, ProbesDef DEF AdmissionInv, AdmissionTypeOK
<1>8. AdmissionTypeOK'
  BY <1>1, <1>3, <1>4, <1>6, <1>7 DEF AdmissionInv, AdmissionTypeOK
<1>9. Calling'
  BY <1>3, <1>6 DEF Calling
<1>10. witness' = witness \/ witness' = {}
  BY DEF Crash, RunAgain
<1>11. admission'.pc = "start" => witness' = {}
  BY <1>3 DEF Crash, RunAgain, Off
<1>12. Earned' /\ OutcomeEarned'
  BY <1>1, <1>3, <1>10, <1>11 DEF AdmissionInv, Earned, OutcomeEarned
<1> QED BY <1>3, <1>8, <1>9, <1>12, NotProbing DEF Probing

\* The first probe asks for no push, and nothing is known yet.
LEMMA StepBegin ==
  ASSUME AdmissionInv, Begin
  PROVE  AdmissionInv'
<1>1. PICK version \in BOOLEAN :
        admission' = [admission EXCEPT !.pc =
               CASE world.touched \cap {"benign-sentinel", "push-sentinel"} # {} -> "refused"
                 [] ~version -> IF host.name = "codex" THEN "evidence" ELSE "refused"
                 [] OTHER -> "turn", !.outcome = IF version THEN "none" ELSE "unverified"]
  BY DEF Begin
<1>2. PICK p \in {"refused", "evidence", "turn"}, o \in {"none", "unverified"} :
        admission' = [admission EXCEPT !.pc = p, !.outcome = o]
  <2> DEFINE p == CASE world.touched \cap {"benign-sentinel", "push-sentinel"} # {} -> "refused"
                    [] ~version -> IF host.name = "codex" THEN "evidence" ELSE "refused"
                    [] OTHER -> "turn"
             o == IF version THEN "none" ELSE "unverified"
  <2>1. p \in {"refused", "evidence", "turn"} /\ o \in {"none", "unverified"}
    OBVIOUS
  <2>2. admission' = [admission EXCEPT !.pc = p, !.outcome = o]
    BY <1>1
  <2> HIDE DEF p, o
  <2> QED BY <2>1, <2>2
<1>3. /\ UNCHANGED <<host, session, witness>> /\ session.pc = "idle" /\ witness = {}
      /\ admission.pc = "start"
  BY DEF Begin, hostVars, AdmissionInv, Calling, Earned
<1>4. /\ admission'.pc = p /\ admission'.outcome = o
      /\ admission' \in AdmissionRecord
      /\ admission'.probe = admission.probe
  BY <1>2 DEF AdmissionInv, AdmissionTypeOK, AdmissionRecord, Steps, Results
<1>5. AdmissionTypeOK'
  BY <1>3, <1>4 DEF AdmissionInv, AdmissionTypeOK
<1>6. Calling'
  BY <1>3, <1>4 DEF Calling
<1>7. Earned' /\ OutcomeEarned'
  BY <1>3, <1>4 DEF AdmissionInv, Earned, OutcomeEarned
<1>8. CASE p = "turn"
  <2>1. Probe' \in {"discovery", "skills"}
    BY <1>3, <1>4, ProbesDef DEF AdmissionInv, AdmissionTypeOK, Earned, Probe
  <2>2. witness' = {} /\ admission'.push = "none"
    BY <1>2, <1>3 DEF AdmissionInv, AdmissionTypeOK, AdmissionRecord, Earned
  <2>3. Traced'
    BY <2>1, <2>2 DEF Traced, CallTraced
  <2> QED BY <2>3, <1>5, <1>6, <1>7 DEF AdmissionInv
<1>9. CASE p # "turn"
  BY <1>9, <1>4, <1>5, <1>6, <1>7, NotProbing DEF Probing
<1> QED BY <1>8, <1>9

\* The agent makes a call: nothing is decided yet.
LEMMA StepCall ==
  ASSUME AdmissionInv, AgentCalls
  PROVE  AdmissionInv'
<1>1. PICK exact \in BOOLEAN :
        /\ Issue(IF exact THEN Exact(Probe) ELSE Altered(Probe), TRUE)
        /\ admission' = [admission EXCEPT !.pc = "call", !.exact = exact]
  BY DEF AgentCalls
<1>2. /\ UNCHANGED <<host, witness>> /\ session.pc = "idle" /\ admission.pc = "turn"
  BY <1>1 DEF AgentCalls, Issue
<1>3. session' = [pc |-> "decide", cmd |-> IF exact THEN Exact(Probe) ELSE Altered(Probe),
                  readable |-> TRUE, next |-> 1, push |-> "none", commit |-> "none"]
  BY <1>1 DEF Issue, Idle
<1>4. /\ admission' \in AdmissionRecord
      /\ admission'.pc = "call" /\ admission'.exact = exact
      /\ admission'.probe = admission.probe /\ admission'.trace = admission.trace
      /\ admission'.passed = admission.passed /\ admission'.push = admission.push
      /\ admission'.outcome = admission.outcome
  BY <1>1 DEF AdmissionInv, AdmissionTypeOK, AdmissionRecord, Steps
<1>5. Probe' = Probe /\ Exact(Probe)' = Exact(Probe)
  BY <1>2, <1>4, AskedStays
<1>6. AdmissionTypeOK'
  BY <1>2, <1>3, <1>4 DEF AdmissionInv, AdmissionTypeOK, IsSession
<1>7. Calling'
  BY <1>3, <1>4, <1>5 DEF Calling
<1>8. ~Running /\ ~Running' /\ ~Stopped'
  BY <1>2, <1>3 DEF Running, Stopped
<1>9. Traced /\ admission.pc \in Probing
  BY <1>2 DEF AdmissionInv, Probing
<1>10. (PushTraced => PushTraced') /\ (CallTraced => CallTraced') /\ (Denied => Denied')
  BY <1>2, <1>4, <1>5, <1>8 DEF PushTraced, CallTraced, Denied, PushRan
<1>11. Traced'
  BY <1>2, <1>4, <1>5, <1>9, <1>10 DEF Traced
<1>12. Earned' /\ OutcomeEarned'
  BY <1>2, <1>4 DEF AdmissionInv, Earned, OutcomeEarned
<1> QED BY <1>6, <1>7, <1>11, <1>12 DEF AdmissionInv

\* The end of the agent's turn.
LEMMA StepTurnEnds ==
  ASSUME AdmissionInv, TurnEnds
  PROVE  AdmissionInv'
<1>1. /\ UNCHANGED <<host, session, witness>> /\ session.pc = "idle" /\ admission.pc = "turn"
  BY DEF TurnEnds, hostVars, AdmissionInv, Calling
<1>2. PICK rc \in {"ok", "failed", "auth"}, found \in BOOLEAN :
        admission' = [admission EXCEPT !.pc = "judge", !.rc = rc, !.found = found]
  BY DEF TurnEnds
<1>4. /\ admission' \in AdmissionRecord
      /\ admission'.pc = "judge" /\ admission'.exact = admission.exact
      /\ admission'.probe = admission.probe /\ admission'.trace = admission.trace
      /\ admission'.passed = admission.passed /\ admission'.push = admission.push
      /\ admission'.outcome = admission.outcome
  BY <1>2 DEF AdmissionInv, AdmissionTypeOK, AdmissionRecord, Steps
<1>5. Probe' = Probe
  BY <1>1, <1>4 DEF Probe
<1>6. AdmissionTypeOK'
  BY <1>1, <1>4 DEF AdmissionInv, AdmissionTypeOK
<1>7. Calling'
  BY <1>1, <1>4 DEF Calling
<1>8. ~Running /\ ~Running' /\ ~Stopped'
  BY <1>1, <1>4 DEF Running, Stopped
<1>9. Traced /\ admission.pc \in Probing
  BY <1>1 DEF AdmissionInv, Probing
<1>10. (PushTraced => PushTraced') /\ (CallTraced => CallTraced') /\ (Denied => Denied')
  BY <1>1, <1>4, <1>5, <1>8 DEF PushTraced, CallTraced, Denied, PushRan
<1>11. Traced'
  BY <1>1, <1>4, <1>5, <1>9, <1>10 DEF Traced
<1>12. Earned' /\ OutcomeEarned'
  BY <1>1, <1>4 DEF AdmissionInv, Earned, OutcomeEarned
<1> QED BY <1>6, <1>7, <1>11, <1>12 DEF AdmissionInv

-----------------------------------------------------------------------------
\* What an entry that is added to the trace must be, for the trace to tell
\* what the hooks did.
Fits(c) ==
    /\ c \in TraceCall
    /\ Running => ~c.blocked
    /\ Running /\ session.push = "none" => ~c.hooked
    /\ Probe = "push" /\ c.exact =>
           /\ c.blocked => "push denied" \in witness
           /\ c.complete => PushRan

\* One more call in the trace.
LEMMA Traces ==
  ASSUME AdmissionInv, UNCHANGED <<host, witness>>, AdmissionTypeOK', ~Running', ~Stopped',
         admission.pc \in Probing,
         admission'.probe = admission.probe,
         admission'.passed = admission.passed, admission'.push = admission.push,
         NEW c, Fits(c), admission'.trace = Append(admission.trace, c)
  PROVE  Traced'
<1> DEFINE t == admission.trace
           u == admission'.trace
<1>1. Probe' = Probe
  BY DEF Probe
<1>2. t \in Seq(TraceCall) /\ c \in TraceCall
  BY DEF AdmissionInv, AdmissionTypeOK, AdmissionRecord, Fits
<1>3. /\ \A i \in DOMAIN t : i \in DOMAIN u /\ u[i] = t[i]
      /\ Len(t) + 1 \in DOMAIN u /\ u[Len(t) + 1] = c
      /\ \A i \in DOMAIN u : i \in DOMAIN t \/ i = Len(t) + 1
  BY <1>2
<1> HIDE DEF t, u
<1>4. Probe = "push" /\ PushTraced => PushTraced'
  <2> SUFFICES ASSUME Probe = "push", PushTraced PROVE PushTraced'
    OBVIOUS
  <2>1. "push probe ran" \in witness => \E i \in DOMAIN u : ~ u[i].blocked
    BY <1>3 DEF PushTraced, Fits, t
  <2>2. ASSUME NEW i \in DOMAIN u, u[i].exact
        PROVE  (u[i].blocked => "push denied" \in witness) /\ (u[i].complete => PushRan)
    <3>1. CASE i \in DOMAIN t
      <4>1. t[i].exact /\ u[i] = t[i]
        BY <1>3, <2>2, <3>1
      <4> QED BY <3>1, <4>1 DEF PushTraced, t
    <3>2. CASE i = Len(t) + 1
      BY <1>3, <2>2, <3>2 DEF Fits
    <3> QED BY <1>3, <3>1, <3>2
  <2>3. PushRan' = PushRan
    BY DEF PushRan
  <2> QED BY <2>1, <2>2, <2>3 DEF PushTraced, u
<1>5. CallTraced => CallTraced'
  <2> SUFFICES ASSUME CallTraced, host.name = "polytoken", admission.passed,
                      "call not asked" \in witness
               PROVE  Probe \in {"reload", "benign"} /\ \E i \in DOMAIN u : ~ u[i].hooked
    BY <1>1 DEF CallTraced, u
  <2> QED BY <1>3 DEF CallTraced, Fits, t
<1>6. Denied => Denied'
  BY DEF Denied
<1>7. Traced
  BY DEF AdmissionInv
<1> QED BY <1>1, <1>4, <1>5, <1>6, <1>7 DEF Traced

\* The end of a call.
LEMMA StepEnd ==
  ASSUME AdmissionInv, EndCall
  PROVE  AdmissionInv'
<1> DEFINE c == [exact |-> admission.exact, hooked |-> session.push # "none",
                 blocked |-> session.pc = "denied", complete |-> session.pc = "run"]
<1>1. /\ UNCHANGED <<host, witness>> /\ session' = Idle /\ session.pc \in {"run", "denied"}
  BY DEF EndCall, End
<1>2. IsSession(session') /\ session'.pc = "idle"
  BY <1>1 DEF Idle, IsSession
<1>3. CASE admission.pc # "call"
  <2>1. admission' = admission /\ admission.pc = "off"
    BY <1>1, <1>3 DEF EndCall, AdmissionInv, Calling
  <2>2. AdmissionTypeOK' /\ Calling'
    BY <1>1, <1>2, <2>1 DEF AdmissionInv, AdmissionTypeOK, Calling
  <2>3. Earned' /\ OutcomeEarned'
    BY <1>1, <2>1 DEF AdmissionInv, Earned, OutcomeEarned
  <2> QED BY <2>1, <2>2, <2>3, NotProbing DEF Probing
<1>4. CASE admission.pc = "call"
  <2>1. admission' = [admission EXCEPT !.pc = "turn", !.trace = Append(@, c)]
    BY <1>4 DEF EndCall
  <2>2. c \in TraceCall
    BY DEF TraceCall, AdmissionInv, AdmissionTypeOK, AdmissionRecord
  <2>3. Fits(c)
    <3>1. c.exact = admission.exact /\ c.hooked = (session.push # "none")
          /\ c.blocked = (session.pc = "denied") /\ c.complete = (session.pc = "run")
      OBVIOUS
    <3> HIDE DEF c
    <3>2. Probe = "push" => PushTraced
      BY <1>4 DEF AdmissionInv, Traced, Probing
    <3> QED BY <1>4, <2>2, <3>1, <3>2 DEF Fits, Running, Stopped, PushTraced
  <2> HIDE DEF c
  <2>4. /\ admission' \in AdmissionRecord
        /\ admission'.pc = "turn" /\ admission'.trace = Append(admission.trace, c)
        /\ admission'.probe = admission.probe
        /\ admission'.passed = admission.passed /\ admission'.push = admission.push
        /\ admission'.outcome = admission.outcome
    <3>1. admission \in AdmissionRecord
      BY DEF AdmissionInv, AdmissionTypeOK
    <3>2. Append(admission.trace, c) \in Seq(TraceCall)
      BY <2>2, <3>1 DEF AdmissionRecord
    <3> QED BY <2>1, <3>1, <3>2 DEF AdmissionRecord, Steps
  <2>5. AdmissionTypeOK' /\ Calling'
    BY <1>1, <1>2, <1>4, <2>4 DEF AdmissionInv, AdmissionTypeOK, Calling
  <2>6. Traced'
    BY <1>1, <1>2, <1>4, <2>3, <2>4, <2>5, Traces DEF Running, Stopped, Probing
  <2>7. Earned' /\ OutcomeEarned'
    BY <1>1, <1>4, <2>4 DEF AdmissionInv, Earned, OutcomeEarned
  <2> QED BY <2>5, <2>6, <2>7 DEF AdmissionInv
<1> QED BY <1>3, <1>4

\* A probe that takes too long.
LEMMA StepTimeout ==
  ASSUME AdmissionInv, Timeout
  PROVE  AdmissionInv'
<1> DEFINE c == [exact |-> admission.exact, hooked |-> session.push # "none",
                 blocked |-> FALSE, complete |-> FALSE]
<1>1. UNCHANGED <<host, witness>> /\ session' = Idle /\ admission.pc \in {"turn", "call"}
  BY DEF Timeout
<1>2. IsSession(session') /\ session'.pc = "idle"
  BY <1>1 DEF Idle, IsSession
<1>3. c \in TraceCall
  BY DEF TraceCall, AdmissionInv, AdmissionTypeOK, AdmissionRecord
<1>4. Fits(c)
  <2>1. c.exact = admission.exact /\ c.hooked = (session.push # "none")
        /\ c.blocked = FALSE /\ c.complete = FALSE
    OBVIOUS
  <2> HIDE DEF c
  <2> QED BY <1>3, <2>1 DEF Fits
<1>5. admission' = [admission EXCEPT !.pc = "judge", !.rc = "failed",
                      !.trace = IF admission.pc = "turn" THEN @ ELSE Append(@, c)]
  BY DEF Timeout
<1> HIDE DEF c
<1>6. /\ admission' \in AdmissionRecord
      /\ admission'.pc = "judge"
      /\ admission'.trace = IF admission.pc = "turn" THEN admission.trace
                            ELSE Append(admission.trace, c)
      /\ admission'.probe = admission.probe /\ admission'.exact = admission.exact
      /\ admission'.passed = admission.passed /\ admission'.push = admission.push
      /\ admission'.outcome = admission.outcome
  <2>1. admission \in AdmissionRecord
    BY DEF AdmissionInv, AdmissionTypeOK
  <2>2. Append(admission.trace, c) \in Seq(TraceCall) /\ admission.trace \in Seq(TraceCall)
    BY <1>3, <2>1 DEF AdmissionRecord
  <2> QED BY <1>5, <2>1, <2>2 DEF AdmissionRecord, Steps
<1>7. AdmissionTypeOK' /\ Calling'
  BY <1>1, <1>2, <1>6 DEF AdmissionInv, AdmissionTypeOK, Calling
<1>8. Traced'
  <2>1. CASE admission.pc = "call"
    BY <1>1, <1>2, <1>4, <1>6, <1>7, <2>1, Traces DEF Running, Stopped, Probing
  <2>2. CASE admission.pc = "turn"
    <3>1. ~Running /\ ~Running' /\ ~Stopped' /\ Traced /\ Probe' = Probe
      BY <1>1, <1>2, <1>6, <2>2 DEF Running, Stopped, AdmissionInv, Probe
    <3>2. (PushTraced => PushTraced') /\ (CallTraced => CallTraced') /\ (Denied => Denied')
      BY <1>1, <1>6, <2>2, <3>1 DEF PushTraced, CallTraced, Denied, PushRan
    <3> QED BY <1>1, <1>6, <2>2, <3>1, <3>2 DEF Traced, Probing
  <2> QED BY <1>1, <2>1, <2>2
<1>9. Earned' /\ OutcomeEarned'
  BY <1>1, <1>6 DEF AdmissionInv, Earned, OutcomeEarned
<1> QED BY <1>7, <1>8, <1>9 DEF AdmissionInv

\* The hooks decide.
LEMMA StepDecide ==
  ASSUME AdmissionInv, HostTypeOK, DecideCall
  PROVE  AdmissionInv'
<1> DEFINE ran == session'.pc = "run"
           trusted == host.hooks = "trusted"
<1>1. /\ UNCHANGED <<host, admission>> /\ session.pc = "decide"
      /\ session.push = "none"
  BY DEF DecideCall, Decide, AdmissionInv, Calling
<1>2. /\ IsSession(session') /\ session'.pc \in {"run", "denied"}
      /\ session'.cmd = session.cmd /\ session'.readable = session.readable
      /\ ~trusted => ran /\ session'.push = "none"
      /\ trusted => session'.push # "none"
  <2>1. IsSession(session)
    BY DEF AdmissionInv, AdmissionTypeOK
  <2>2. CASE ~trusted
    <3>1. session' = [session EXCEPT !.pc = "run"]
      BY <2>2 DEF DecideCall, Decide, AdmissionInv, AdmissionTypeOK
    <3> QED BY <1>1, <2>1, <2>2, <3>1 DEF IsSession
  <2>3. CASE trusted
    <3>1. PICK push, commit \in {"judged", "failed"} :
            session' = [session EXCEPT
                    !.pc = IF GuardsAllow(push, commit) THEN "run" ELSE "denied",
                    !.push = push, !.commit = commit]
      BY <2>3 DEF DecideCall, Decide
    <3>2. PICK p \in {"run", "denied"} :
            session' = [session EXCEPT !.pc = p, !.push = push, !.commit = commit]
      BY <3>1
    <3> QED BY <2>1, <2>3, <3>2 DEF IsSession
  <2> QED BY <2>2, <2>3
<1>3. /\ admission.pc = "call" /\ Probe = "push" /\ admission.exact
      /\ trusted /\ host.name = "polytoken"
      => ~ran
  <2> SUFFICES ASSUME admission.pc = "call", Probe = "push", admission.exact, trusted,
                      host.name = "polytoken"
               PROVE  ~ran
    OBVIOUS
  <2>1. PICK push, commit \in {"judged", "failed"} :
            session' = [session EXCEPT
                    !.pc = IF GuardsAllow(push, commit) THEN "run" ELSE "denied",
                    !.push = push, !.commit = commit]
    BY DEF DecideCall, Decide
  <2>2. /\ session.cmd = Exact("push") /\ session.readable = TRUE
        /\ world.cwd \in Dirs
    BY DEF AdmissionInv, AdmissionTypeOK, Calling, HostTypeOK
  <2>3. ~GuardsAllow(push, commit)
    BY <2>2, ProbePushDenied
  <2> QED BY <2>1, <2>3 DEF AdmissionInv, AdmissionTypeOK, IsSession
<1>4. AdmissionTypeOK' /\ Calling'
  <2>1. Probe' = Probe /\ Exact(Probe)' = Exact(Probe)
    BY <1>1, AskedStays
  <2> QED BY <1>1, <1>2, <2>1 DEF AdmissionInv, AdmissionTypeOK, Calling
<1>5. CASE admission.pc = "off"
  <2>1. witness' = witness
    BY <1>5 DEF DecideCall
  <2>2. Earned' /\ OutcomeEarned'
    BY <1>1, <1>5, <2>1 DEF AdmissionInv, Earned, OutcomeEarned
  <2> QED BY <1>1, <1>4, <1>5, <2>2, NotProbing DEF Probing
<1>6. CASE admission.pc # "off"
  <2>1. admission.pc = "call" /\ ~Running /\ ~Stopped
    BY <1>1, <1>6 DEF AdmissionInv, Calling, Running, Stopped
  <2>2. (Running' <=> ran) /\ (Stopped' <=> ~ran) /\ Probe' = Probe
    BY <1>1, <1>2, <2>1 DEF Running, Stopped, Probe
  <2>3. witness' = witness \cup Facts(ran)
    BY <2>1 DEF DecideCall
  <2>4. /\ "push denied" \in witness' <=>
             "push denied" \in witness \/ (Probe = "push" /\ admission.exact /\ ~ran)
        /\ "push probe ran" \in witness' <=>
             "push probe ran" \in witness \/ (Probe = "push" /\ ran)
        /\ "push not asked" \in witness' <=>
             "push not asked" \in witness \/ (Probe = "push" /\ admission.exact /\ ~trusted)
        /\ "asked push ran" \in witness' <=>
             \/ "asked push ran" \in witness
             \/ Probe = "push" /\ admission.exact /\ ran /\ trusted
        /\ "call not asked" \in witness' <=>
             "call not asked" \in witness \/ (Probe \in {"reload", "benign"} /\ ~trusted)
    <3> HIDE DEF ran
    <3> QED BY <2>3 DEF Facts
  <2> HIDE DEF ran, trusted
  <2>5. Traced /\ Earned
    BY DEF AdmissionInv
  <2>6. Probe = "push" => PushTraced'
    <3> SUFFICES ASSUME Probe = "push" PROVE PushTraced'
      OBVIOUS
    <3>1. PushTraced
      BY <2>1, <2>5 DEF Traced, Probing
    <3>2. PushRan => PushRan'
      BY <2>4 DEF PushRan
    <3>3. ran => PushRan'
      BY <2>4 DEF PushRan
    <3> QED BY <1>1, <2>1, <2>2, <2>4, <3>1, <3>2, <3>3 DEF PushTraced
  <2>7. CallTraced'
    BY <1>1, <1>2, <2>1, <2>2, <2>4, <2>5 DEF CallTraced, Traced, Probing, ran, trusted
  <2>8. Probe = "non-shell" /\ admission.passed => Denied'
    BY <2>1, <2>4, <2>5 DEF Denied, Traced, Probing
  <2>9. Traced'
    BY <1>1, <2>1, <2>2, <2>4, <2>5, <2>6, <2>7, <2>8 DEF Traced, PushFacts, Probing
  <2>10. Earned'
    BY <1>1, <1>2, <2>1, <2>4, <2>5 DEF Earned, ran, trusted
  <2>11. OutcomeEarned'
    <3>1. admission'.outcome \notin {"pass", "installed-untrusted"}
      BY <1>1, <2>1, <2>5 DEF Earned
    <3>2. host.name = "polytoken" => "asked push ran" \notin witness'
      BY <1>3, <2>1, <2>4 DEF AdmissionInv, OutcomeEarned
    <3> QED BY <1>1, <3>1, <3>2 DEF OutcomeEarned
  <2> QED BY <1>4, <2>9, <2>10, <2>11 DEF AdmissionInv
<1> QED BY <1>5, <1>6

-----------------------------------------------------------------------------
\* The judgement of a probe.

\* One entry, which is what was asked for.
LEMMA OnlyEntry ==
  ASSUME NEW t \in Seq(TraceCall), OnlyExact(t)
  PROVE  DOMAIN t = {1} /\ t[1].exact
  BY DEF OnlyExact

\* When the turn is over, a passed push probe was denied, and one that tells
\* of hooks that are installed but untrusted was run.
LEMMA PushJudged ==
  ASSUME AdmissionInv, admission.pc = "judge", Probe = "push"
  PROVE  /\ Result(admission) = "pass" => Denied
         /\ Result(admission) = "installed-untrusted" => PushRan
<1> DEFINE t == admission.trace
<1>1. t \in Seq(TraceCall)
  BY DEF AdmissionInv, AdmissionTypeOK, AdmissionRecord
<1>2. PushTraced /\ Earned /\ ~Running
  BY DEF AdmissionInv, Traced, Probing, Running
<1>3. ASSUME OnlyExact(t), t[1].blocked
      PROVE  Denied
  <2>1. DOMAIN t = {1} /\ t[1].exact
    BY <1>1, <1>3, OnlyEntry
  <2> QED BY <1>2, <1>3, <2>1 DEF PushTraced, Denied, Earned
<1>4. ASSUME OnlyExact(t), t[1].complete
      PROVE  PushRan
  <2>1. DOMAIN t = {1} /\ t[1].exact
    BY <1>1, <1>4, OnlyEntry
  <2> QED BY <1>2, <1>4, <2>1 DEF PushTraced
<1>5. CASE host.name = "codex"
  <2>1. Result(admission) = CodexPush(admission)
    BY <1>5 DEF Result, CodexResult
  <2>2. Result(admission) = "pass" => OnlyExact(t) /\ \E i \in DOMAIN t : t[i].blocked
    BY <2>1 DEF CodexPush
  <2>3. Result(admission) = "installed-untrusted" => OnlyExact(t) /\ t[1].complete
    BY <2>1 DEF CodexPush
  <2> HIDE DEF t
  <2> QED BY <1>1, <1>3, <1>4, <2>2, <2>3, OnlyEntry
<1>6. CASE host.name # "codex"
  <2>1. Result(admission) = PolytokenResult(admission)
    BY <1>6 DEF Result
  <2>2. Result(admission) = "pass" => OnlyExact(t) /\ t[1].blocked
    BY <2>1 DEF PolytokenResult
  <2>3. Result(admission) # "installed-untrusted"
    BY <2>1 DEF PolytokenResult
  <2> QED BY <1>3, <2>2, <2>3
<1> QED BY <1>5, <1>6

\* A Polytoken that is still passing after the probe was asked for every call
\* that had to be allowed.
LEMMA CallsJudged ==
  ASSUME AdmissionInv, admission.pc = "judge", host.name = "polytoken",
         admission.passed, Result(admission) = "pass"
  PROVE  "call not asked" \notin witness
<1> SUFFICES ASSUME "call not asked" \in witness PROVE FALSE
  OBVIOUS
<1>1. Probe \in {"reload", "benign"} /\ \E i \in DOMAIN admission.trace : ~ admission.trace[i].hooked
  BY DEF AdmissionInv, Traced, Probing, CallTraced, Running
<1>2. Result(admission) = PolytokenResult(admission)
  BY DEF Result
<1>3. Allowed(admission.trace)
  BY <1>1, <1>2 DEF PolytokenResult
<1>4. admission.trace \in Seq(TraceCall)
  BY DEF AdmissionInv, AdmissionTypeOK, AdmissionRecord
<1> QED BY <1>1, <1>3, <1>4, OnlyEntry DEF Allowed

\* The judgement of a probe.
LEMMA StepJudge ==
  ASSUME AdmissionInv, Judge
  PROVE  AdmissionInv'
<1> DEFINE result == Result(admission)
           apart == host.name = "codex" /\ Probe = "push"
           next == [admission EXCEPT !.trace = <<>>, !.rc = "none", !.found = TRUE,
                       !.exact = FALSE,
                       !.passed = @ /\ (apart \/ result = "pass"),
                       !.push = IF apart THEN result ELSE @,
                       !.outcome = IF admission.rc = "auth" THEN "unverified" ELSE @]
           last == ~(admission.probe < Len(Probes[host.name]))
<1>1. /\ admission.pc = "judge" /\ UNCHANGED <<host, session, witness>>
      /\ session.pc = "idle" /\ ~Running /\ ~Stopped
  BY DEF Judge, hostVars, AdmissionInv, Calling, Running, Stopped
<1>2. admission' = IF ~last THEN [next EXCEPT !.pc = "turn", !.probe = @ + 1]
                   ELSE [next EXCEPT !.pc = "evidence", !.outcome = Outcome(next)]
  BY DEF Judge
<1>3. result \in {"pass", "fail", "installed-untrusted", "unverified"}
  BY ResultType
<1>4. admission \in AdmissionRecord /\ host.name \in {"codex", "polytoken"}
  BY <1>1, ProbesDef DEF AdmissionInv, AdmissionTypeOK
<1>5. Traced /\ admission.push = "none" /\ admission.outcome \in {"none", "unverified"}
  BY <1>1 DEF AdmissionInv, Traced, Earned, Probing
<1> HIDE DEF result, apart, last
<1>6. /\ next \in AdmissionRecord
      /\ next.passed = (admission.passed /\ (apart \/ result = "pass"))
      /\ next.push = IF apart THEN result ELSE "none"
      /\ next.outcome \in {"none", "unverified"}
      /\ next.trace = <<>> /\ next.probe = admission.probe /\ next.exact = FALSE
  <2>1. (admission.passed /\ (apart \/ result = "pass")) \in BOOLEAN
    OBVIOUS
  <2>2. <<>> \in Seq(TraceCall)
    OBVIOUS
  <2>3. PICK b \in BOOLEAN : b = (admission.passed /\ (apart \/ result = "pass"))
    BY <2>1
  <2>4. PICK r \in Results : r = IF apart THEN result ELSE admission.push
    BY <1>3, <1>5 DEF Results
  <2>5. PICK o \in {"none", "unverified"} :
           o = IF admission.rc = "auth" THEN "unverified" ELSE admission.outcome
    BY <1>5
  <2>6. next = [admission EXCEPT !.trace = <<>>, !.rc = "none", !.found = TRUE,
                       !.exact = FALSE, !.passed = b, !.push = r, !.outcome = o]
    BY <2>3, <2>4, <2>5, <1>4 DEF AdmissionRecord
  <2> HIDE DEF next
  <2>7. next = [pc |-> admission.pc, probe |-> admission.probe, trace |-> <<>>,
               exact |-> FALSE, rc |-> "none", found |-> TRUE,
               passed |-> b, push |-> r, outcome |-> o]
    BY <1>4, <2>6 DEF AdmissionRecord
  <2>8. next \in AdmissionRecord
    BY <1>4, <2>2, <2>7 DEF AdmissionRecord, Results
  <2> QED BY <1>5, <2>3, <2>4, <2>5, <2>7, <2>8
<1>7. Outcome(next) \in Results \cup {"failed"}
  <2>1. next.push \in Results
    <3>1. next.push = "none" \/ next.push = result
      BY <1>6
    <3> QED BY <3>1, <1>3 DEF Results
  <2> HIDE DEF next
  <2> QED BY <2>1, OutcomeType
<1> HIDE DEF next
<1>8. CASE last
  <2>1. /\ admission' \in AdmissionRecord
        /\ admission'.pc = "evidence" /\ admission'.outcome = Outcome(next)
        /\ admission'.probe = admission.probe
    BY <1>2, <1>6, <1>7, <1>8 DEF AdmissionRecord, Steps
  <2>2. AdmissionTypeOK' /\ Calling'
    BY <1>1, <2>1 DEF AdmissionInv, AdmissionTypeOK, Calling
  <2>3. Earned'
    BY <1>1, <2>1 DEF AdmissionInv, Earned
  <2>4. Probe = IF host.name = "codex" THEN "push" ELSE "non-shell"
    BY <1>1, <1>4, <1>8, ProbesDef DEF Probe, last, AdmissionInv, AdmissionTypeOK, AdmissionRecord
  <2>5. CASE host.name = "codex"
    <3>1. Outcome(next) = "pass" => result = "pass"
      BY <1>6, <2>4, <2>5 DEF Outcome, apart
    <3>2. Outcome(next) = "installed-untrusted" => result = "installed-untrusted"
      BY <1>6, <2>4, <2>5 DEF Outcome, apart
    <3>3. (result = "pass" => Denied) /\ (result = "installed-untrusted" => PushRan)
      BY <1>1, <2>4, <2>5, PushJudged DEF result
    <3>4. OutcomeEarned'
      BY <1>1, <2>1, <2>5, <3>1, <3>2, <3>3 DEF OutcomeEarned, Denied, PushRan
    <3> QED BY <2>1, <2>2, <2>3, <3>4, NotProbing DEF Probing
  <2>6. CASE host.name = "polytoken"
    <3>1. Outcome(next) = "pass" => next.passed
      BY <2>6 DEF Outcome
    <3>2. Outcome(next) # "installed-untrusted"
      BY <2>6 DEF Outcome
    <3>3. next.passed => admission.passed /\ result = "pass"
      BY <1>6, <2>6 DEF apart
    <3>4. next.passed => Denied
      BY <1>1, <1>5, <2>4, <2>6, <3>3 DEF Traced, Probing
    <3>5. next.passed => "call not asked" \notin witness
      BY <1>1, <2>6, <3>3, CallsJudged DEF result
    <3>6. OutcomeEarned'
      BY <1>1, <2>1, <3>1, <3>2, <3>4, <3>5 DEF AdmissionInv, OutcomeEarned, Denied
    <3> QED BY <2>1, <2>2, <2>3, <3>6, NotProbing DEF Probing
  <2> QED BY <1>4, <2>5, <2>6
<1>9. CASE ~last
  <2>1. admission.probe < Len(Probes[host.name]) /\ admission.probe \in 1..5
    BY <1>4, <1>9 DEF last, AdmissionRecord
  <2>2. admission.probe + 1 \in 1..5 /\ admission.probe + 1 <= Len(Probes[host.name])
    <3>1. CASE host.name = "codex" BY <2>1, <3>1, ProbesDef
    <3>2. CASE host.name = "polytoken" BY <2>1, <3>2, ProbesDef
    <3> QED BY <1>4, <3>1, <3>2
  <2>3. /\ admission' \in AdmissionRecord
        /\ admission'.pc = "turn" /\ admission'.outcome = next.outcome
        /\ admission'.probe = admission.probe + 1 /\ admission'.trace = <<>>
        /\ admission'.passed = next.passed /\ admission'.push = next.push
        /\ admission'.exact = FALSE
    BY <1>2, <1>6, <1>9, <2>2 DEF AdmissionRecord, Steps
  <2>4. AdmissionTypeOK' /\ Calling'
    BY <1>1, <2>2, <2>3 DEF AdmissionInv, AdmissionTypeOK, Calling
  <2>5. Earned' /\ OutcomeEarned'
    BY <1>1, <1>6, <2>3 DEF AdmissionInv, Earned, OutcomeEarned
  <2>6. \/ Probe' = "non-shell" /\ Probe = "push" /\ host.name = "polytoken"
        \/ /\ Probe \in {"discovery", "skills", "reload", "benign"}
           /\ Probe' \in {"reload", "benign", "push"}
    <3>1. Probe = Probes[host.name][admission.probe]
          /\ Probe' = Probes[host.name][admission.probe + 1]
      BY <1>1, <2>3 DEF Probe
    <3>2. CASE host.name = "codex"
      <4>1. admission.probe \in {1, 2} BY <2>1, <3>2, ProbesDef
      <4> QED BY <3>1, <3>2, <4>1, ProbesDef
    <3>3. CASE host.name = "polytoken"
      <4>1. admission.probe \in {1, 2, 3, 4} BY <2>1, <3>3, ProbesDef
      <4> QED BY <3>1, <3>3, <4>1, ProbesDef
    <3> QED BY <1>4, <3>2, <3>3
  <2>7. ~apart /\ admission'.push = "none"
    BY <1>6, <2>3, <2>6 DEF apart
  <2>8. Probe \in {"discovery", "skills", "reload", "benign"} => witness \cap PushFacts = {}
    BY <1>1, <1>5 DEF Traced, Probing
  <2>9. ~Running' /\ ~Stopped' /\ DOMAIN admission'.trace = {}
    BY <1>1, <2>3 DEF Running, Stopped
  <2>10. Probe' = "push" => PushTraced'
    BY <1>1, <2>6, <2>8, <2>9 DEF PushTraced, PushFacts
  <2>11. CallTraced'
    <3>1. admission'.passed => admission.passed /\ result = "pass"
      BY <1>6, <2>3, <2>7
    <3>2. admission'.passed /\ host.name = "polytoken" => "call not asked" \notin witness
      BY <1>1, <3>1, CallsJudged DEF result
    <3> QED BY <1>1, <3>2 DEF CallTraced
  <2>12. Probe' = "non-shell" /\ admission'.passed => Denied'
    <3>1. Probe' = "non-shell" /\ admission'.passed => result = "pass" /\ Probe = "push"
      BY <1>6, <2>3, <2>6, <2>7
    <3>2. Denied => Denied'
      BY <1>1 DEF Denied
    <3> QED BY <1>1, <3>1, <3>2, PushJudged DEF result
  <2>13. Traced'
    BY <1>1, <2>6, <2>7, <2>8, <2>10, <2>11, <2>12 DEF Traced
  <2> QED BY <2>4, <2>5, <2>13 DEF AdmissionInv
<1> QED BY <1>8, <1>9

-----------------------------------------------------------------------------
\* The host, in an admission or not.
HostInv ==
    /\ HostBase
    /\ admission.pc = "off" => HostRight
    /\ admission.pc # "off" => Quiet

\* The hosts' invariant holds initially.
LEMMA InitHost == Init => HostInv
<1> SUFFICES ASSUME Init PROVE HostInv
  OBVIOUS
<1>1. /\ session = Idle /\ sent = {} /\ made = {} /\ switches = 0
      /\ host \in [name : HostNames, hooks : {"trusted", "untrusted"}]
      /\ idmap \in {"valid", "invalid"}
  BY DEF Init, HostInit
<1>2. PICK w \in Worlds, d \in Starts, l \in Logins :
           world = [cwd |-> d, repos |-> w, login |-> l, touched |-> {}]
  BY DEF Init, HostInit
<1>3. HostTypeOK
  BY <1>1, <1>2, IdleSession, HostAssumption DEF HostTypeOK
<1>4. session.pc = "idle" /\ session.cmd = <<>>
  BY <1>1 DEF Idle
<1> QED BY <1>1, <1>3, <1>4 DEF HostInv, HostBase, Ran, FailedClosed, PushDecided, CommitDecided,
        HostRight, Asked, RightIdentity, RightAuthor, Quiet

\* An admission is one from the start, and never ends.
LEMMA OffStays ==
  ASSUME AdmissionInv, Next
  PROVE  admission'.pc = "off" <=> admission.pc = "off"
<1>1. admission \in AdmissionRecord
  BY DEF AdmissionInv, AdmissionTypeOK
<1>2. CASE UserIssue \/ DecideCall \/ RunCall \/ TrustChanges
  BY <1>2 DEF UserIssue, DecideCall, RunCall, TrustChanges, scriptVars
<1>3. CASE EndCall
  BY <1>1, <1>3 DEF EndCall, AdmissionRecord
<1>4. CASE AgentCalls
  BY <1>1, <1>4 DEF AgentCalls, AdmissionRecord
<1>5. CASE TurnEnds
  BY <1>1, <1>5 DEF TurnEnds, AdmissionRecord
<1>6. CASE Timeout
  BY <1>1, <1>6 DEF Timeout, AdmissionRecord
<1>7. CASE WriteEvidence \/ MergeActivation
  BY <1>1, <1>7 DEF WriteEvidence, MergeActivation, AdmissionRecord
<1>8. CASE Crash \/ RunAgain
  BY <1>8 DEF Crash, RunAgain, Off, Ended
<1>9. CASE Begin
  <2>1. PICK version \in BOOLEAN :
        admission' = [admission EXCEPT !.pc =
               CASE world.touched \cap {"benign-sentinel", "push-sentinel"} # {} -> "refused"
                 [] ~version -> IF host.name = "codex" THEN "evidence" ELSE "refused"
                 [] OTHER -> "turn", !.outcome = IF version THEN "none" ELSE "unverified"]
    BY <1>9 DEF Begin
  <2> QED BY <1>1, <1>9, <2>1 DEF Begin, AdmissionRecord
<1>10. CASE Judge
  <2>1. admission.pc = "judge" /\ admission'.pc \in {"turn", "evidence"}
    BY <1>1, <1>10 DEF Judge, AdmissionRecord
  <2> QED BY <2>1
<1> QED BY <1>2, <1>3, <1>4, <1>5, <1>6, <1>7, <1>8, <1>9, <1>10 DEF Next, Script

\* Each action preserves it: in a session because of the guards' decision, in an
\* admission because a probe pushes to a path.
LEMMA StepHost ==
  ASSUME AdmissionInv, HostInv, [Next]_vars
  PROVE  HostInv'
<1> USE DEF HostInv
<1>1. host.name \in HostNames /\ host.hooks \in {"trusted", "untrusted"}
  BY DEF HostBase, HostTypeOK
<1>2. CASE UNCHANGED hostVars /\ (admission'.pc = "off" <=> admission.pc = "off")
  BY <1>2, OtherStep DEF hostVars, HostBase, HostTypeOK
<1>3. CASE UserIssue
  <2>1. PICK c \in Commands, r \in BOOLEAN : Issue(c, r)
    BY <1>3 DEF UserIssue
  <2>2. IsCommand(c)
    BY HostAssumption
  <2>3. admission'.pc = "off"
    BY <1>3 DEF UserIssue
  <2> QED BY <2>1, <2>2, <2>3, IssueStep
<1>4. CASE DecideCall
  <2>1. HostBase' /\ HostRight' /\ sent' = {} /\ made' = {} /\ session'.cmd = session.cmd
    BY <1>4, DecideStep DEF DecideCall
  <2>2. admission' = admission
    BY <1>4 DEF DecideCall
  <2> QED BY <2>1, <2>2 DEF Quiet
<1>5. CASE RunCall
  <2>1. admission' = admission
    BY <1>5 DEF RunCall, scriptVars
  <2>2. RunItem \/ SkipItem \/ (admission.pc = "off" /\ OtherSwitches)
    BY <1>5 DEF RunCall
  <2> QED BY <2>1, <2>2, RunItemStep, SkipStep, SwitchStep
<1>6. CASE EndCall
  BY <1>6, EndStep DEF EndCall, End
<1>7. CASE AgentCalls
  <2>1. PICK exact \in BOOLEAN : Issue(IF exact THEN Exact(Probe) ELSE Altered(Probe), TRUE)
    BY <1>7 DEF AgentCalls
  <2>2. PICK c \in {Exact(Probe), Altered(Probe)} : Issue(c, TRUE)
    BY <2>1
  <2>3. /\ IsCommand(c)
        /\ \A i \in DOMAIN c : \A j \in DOMAIN c[i].body :
              ~Reaches(c[i].body[j]) /\ c[i].body[j].op # "commit"
    BY ProbeCommands
  <2>4. HostBase' /\ HostRight' /\ sent' = {} /\ made' = {} /\ session'.cmd = c
    BY <2>2, <2>3, IssueStep
  <2>5. Quiet'
    BY <2>3, <2>4 DEF Quiet
  <2> QED BY <2>4, <2>5
<1>8. CASE Timeout \/ Crash
  <2>1. /\ session' = Idle /\ UNCHANGED <<host, idmap, world, sent, made, switches>>
        /\ admission.pc # "off"
    BY <1>8 DEF Timeout, Crash
  <2>2. sent' = {} /\ made' = {}
    BY <2>1 DEF Quiet
  <2> QED BY <2>1, <2>2, EndStep
<1>9. CASE TrustChanges
  <2>1. /\ UNCHANGED <<idmap, world, session, sent, made, switches, admission>>
        /\ admission.pc # "off"
    BY <1>9 DEF TrustChanges
  <2>2. host' \in [name : HostNames, hooks : {"trusted", "untrusted"}] /\ host'.name = host.name
    BY <1>9 DEF TrustChanges, HostBase, HostTypeOK
  <2> QED BY <2>1, <2>2, OtherStep
<1>10. CASE RunAgain
  <2>1. /\ UNCHANGED <<host, idmap, session, sent, made, switches>> /\ admission.pc \in Ended
        /\ world' \in {world, [world EXCEPT !.touched = {}]}
    BY <1>10 DEF RunAgain
  <2>2. admission.pc # "off" /\ session.pc = "idle"
    BY <2>1 DEF Ended, AdmissionInv, Calling
  <2>3. HostTypeOK'
    BY <2>1 DEF HostBase, HostTypeOK
  <2>4. sent' = {} /\ made' = {} /\ Quiet'
    BY <2>1, <2>2 DEF Quiet
  <2> QED BY <2>1, <2>2, <2>3, <2>4, RestStep
<1>11. CASE Begin \/ TurnEnds \/ Judge \/ WriteEvidence \/ MergeActivation
  <2>1. UNCHANGED hostVars
    BY <1>11 DEF Begin, TurnEnds, Judge, WriteEvidence, MergeActivation
  <2>2. Next
    BY <1>11 DEF Next, Script
  <2> QED BY <1>2, <2>1, <2>2, OffStays
<1>12. CASE UNCHANGED vars
  BY <1>2, <1>12 DEF vars
<1> QED BY <1>3, <1>4, <1>5, <1>6, <1>7, <1>8, <1>9, <1>10, <1>11, <1>12 DEF Next, Script

-----------------------------------------------------------------------------
\* Every reachable state of an admission, and of a session that is none,
\* satisfies the two invariants together.
THEOREM AdmissionInductive == Spec => [](AdmissionInv /\ HostInv)
<1>1. AdmissionInv /\ HostInv /\ [Next]_vars => AdmissionInv' /\ HostInv'
  <2> SUFFICES ASSUME AdmissionInv, HostInv, [Next]_vars PROVE AdmissionInv'
    BY StepHost
  <2>1. CASE UNCHANGED vars
    <3>1. UNCHANGED <<host, session, admission, witness>>
      BY <2>1 DEF vars, hostVars
    <3>2. IsSession(session')
      BY <3>1 DEF AdmissionInv, AdmissionTypeOK
    <3> QED BY <3>1, <3>2, Unread
  <2>2. HostTypeOK
    BY DEF HostInv, HostBase
  <2> QED BY <2>1, <2>2, StepUser, StepDecide, StepRun, StepEnd, StepBegin, StepCall,
             StepTurnEnds, StepTimeout, StepJudge, StepEvidence, StepTrust, StepCrash
          DEF Next, Script
<1> QED BY InitInv, InitHost, <1>1, PTL DEF Spec

\* The outcome of an admission was earned: an admission, codex_admission.py or
\* polytoken_admission.py, that says "pass" saw the guards deny the push of the
\* probe and let none run, one that says "installed-untrusted" saw the push of
\* the probe run, and under Polytoken no push that the guards were asked about
\* ever ran; for every number of calls, runs, crashes and trust reviews.
THEOREM OutcomeEarnedCorrect == Spec => []OutcomeEarned
<1>1. AdmissionInv => OutcomeEarned
  BY DEF AdmissionInv
<1> QED BY AdmissionInductive, <1>1, PTL

\* A push that gh-identity-guard.py lets through leaves under the identity of
\* the repository it is run in, unless RightIdentity's excuses apply: for every
\* command, however many items it has, however they nest and however they are
\* joined, every set of repositories and identities, and every host.
THEOREM RightIdentityCorrect == Spec => []RightIdentity
<1>1. HostInv => RightIdentity
  BY DEF HostInv, HostRight, Quiet, RightIdentity
<1> QED BY AdmissionInductive, <1>1, PTL

\* A commit that gh-commit-author-guard.py lets through in a repository with an
\* active identity is authored by it, unless RightAuthor's excuses apply.
THEOREM RightAuthorCorrect == Spec => []RightAuthor
<1>1. HostInv => RightAuthor
  BY DEF HostInv, HostRight, Quiet, RightAuthor
<1> QED BY AdmissionInductive, <1>1, PTL
=============================================================================
