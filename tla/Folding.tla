------------------------------- MODULE Folding -------------------------------
(***************************************************************************)
(* Going through natural numbers or the elements of a sequence one by one.  *)
(* The provers know a recursive function, and with it every fold of the     *)
(* community modules, as a CHOOSE only: a module that proves something of    *)
(* one instantiates this module with the operator of one step and cites     *)
(*   IterateStep, IterateKeeps  for a function defined over the numbers,    *)
(*   FoldNone, FoldNext, FoldAll, which speak of the fold of a sequence's   *)
(*                           first elements,                                *)
(*   FoldKeeps               for what every element leaves as it is,        *)
(*   FlattenNone, FlattenNext, FoldJoined  for sequences that are joined,   *)
(*   SmallestOf, GreatestOf, EveryNatural  for sets of numbers.             *)
(* (Fold is FoldLeft with its definition written out: an instance takes     *)
(* over all that this module extends.)                                      *)
(***************************************************************************)
EXTENDS Integers, WellFoundedInduction, Sequences, Folds

CONSTANTS
  Op(_, _, _),  \* for a parameter, the value after one more number or element
  Holds(_, _)   \* for a parameter, what may be kept of a value

----------------------------------------------------------------------------
(* Induction over the natural numbers, for sets of them.                     *)

\* A set of natural numbers that is not empty has a smallest one.
LEMMA SmallestOf ==
  ASSUME NEW S \in SUBSET Nat, S # {}
  PROVE  \E i \in S : \A j \in S : i <= j
<1> DEFINE R == {p \in Nat \X Nat : p[1] < p[2]}
<1>1. IsWellFoundedOn(R, Nat) BY NatLessThanWellFounded DEF OpToRel
<1>2. PICK i \in S : \A j \in S : ~(<<j, i>> \in R) BY <1>1, WFMin
<1>3. \A j \in S : ~(j < i) BY <1>2
<1> QED BY <1>3

\* A set of natural numbers with a bound that is not empty has a greatest one.
LEMMA GreatestOf ==
  ASSUME NEW n \in Nat, NEW S \in SUBSET (0 .. n), S # {}
  PROVE  \E i \in S : \A j \in S : i >= j
<1> DEFINE T == {k \in Nat : n - k \in S}
<1>1. PICK k \in T : \A j \in T : k <= j
  <2>1. PICK i \in S : TRUE OBVIOUS
  <2>2. n - i \in T OBVIOUS
  <2> QED BY <2>2, SmallestOf
<1>2. \A j \in S : n - j \in T OBVIOUS
<1>3. \A j \in S : n - k >= j BY <1>1, <1>2
<1> QED BY <1>1, <1>3

\* A set of natural numbers that has 0 and with every number the next is all of
\* them.
LEMMA EveryNatural ==
  ASSUME NEW T, 0 \in T, \A n \in Nat : n \in T => n + 1 \in T
  PROVE  \A n \in Nat : n \in T
<1> DEFINE S == {n \in Nat : n \notin T}
<1> SUFFICES ASSUME S # {} PROVE FALSE OBVIOUS
<1>1. PICK i \in S : \A j \in S : i <= j BY SmallestOf
<1>2. i # 0 /\ i - 1 \in Nat /\ i - 1 \notin S BY <1>1
<1> QED BY <1>1, <1>2

----------------------------------------------------------------------------
(* A function defined by recursion over the natural numbers obeys its        *)
(* defining equation.                                                        *)

Iterate(p, base, n) ==
  LET upTo[t \in Nat] == IF t = 0 THEN base ELSE Op(p, upTo[t - 1], t)
  IN  upTo[n]

\* The equation up to a number.
Approximates(p, base, n, f) ==
  \A t \in 0 .. n : f[t] = IF t = 0 THEN base ELSE Op(p, f[t - 1], t)

\* There is a function that obeys the equation up to any number.
LEMMA Approximation ==
  ASSUME NEW p, NEW base
  PROVE  \A n \in Nat : \E f : Approximates(p, base, n, f)
<1> DEFINE T == {n \in Nat : \E f : Approximates(p, base, n, f)}
<1>1. 0 \in T
  <2>1. Approximates(p, base, 0, [t \in {0} |-> base]) BY DEF Approximates
  <2> QED BY <2>1
<1>2. ASSUME NEW n \in Nat, n \in T PROVE n + 1 \in T
  <2>1. PICK f : Approximates(p, base, n, f) BY <1>2
  <2> DEFINE g == [t \in 0 .. n + 1 |-> IF t = n + 1 THEN Op(p, f[n], n + 1) ELSE f[t]]
  <2>2. \A t \in 0 .. n : g[t] = f[t] OBVIOUS
  <2>3. g[n + 1] = Op(p, g[n], n + 1) OBVIOUS
  <2> HIDE DEF g
  <2>4. ASSUME NEW t \in 0 .. n + 1
        PROVE  g[t] = IF t = 0 THEN base ELSE Op(p, g[t - 1], t)
    <3>1. CASE t = n + 1 BY <2>3, <3>1
    <3>2. CASE t = 0 BY <2>1, <2>2, <3>2 DEF Approximates
    <3>3. CASE t \in 1 .. n
      <4>1. f[t] = Op(p, f[t - 1], t) BY <2>1, <3>3 DEF Approximates
      <4>2. g[t] = f[t] /\ g[t - 1] = f[t - 1] BY <2>2, <3>3
      <4> QED BY <3>3, <4>1, <4>2
    <3> QED BY <3>1, <3>2, <3>3
  <2>5. Approximates(p, base, n + 1, g) BY <2>4 DEF Approximates
  <2> QED BY <2>5
<1> HIDE DEF T
<1>3. \A n \in Nat : n \in T BY <1>1, <1>2, EveryNatural
<1> QED BY <1>3 DEF T

\* Two functions that obey the equation up to a number are the same there.
LEMMA SameApproximation ==
  ASSUME NEW p, NEW base, NEW f, NEW g, NEW m \in Nat, NEW n \in Nat,
         Approximates(p, base, m, f), Approximates(p, base, n, g)
  PROVE  \A t \in Nat : t <= m /\ t <= n => f[t] = g[t]
<1> DEFINE T == {t \in Nat : t <= m /\ t <= n => f[t] = g[t]}
<1>1. 0 \in T BY DEF Approximates
<1>2. ASSUME NEW t \in Nat, t \in T PROVE t + 1 \in T
  <2> SUFFICES ASSUME t + 1 <= m, t + 1 <= n PROVE f[t + 1] = g[t + 1] OBVIOUS
  <2>1. f[t] = g[t] BY <1>2
  <2>2. /\ f[t + 1] = Op(p, f[(t + 1) - 1], t + 1)
        /\ g[t + 1] = Op(p, g[(t + 1) - 1], t + 1)
    BY DEF Approximates
  <2>3. (t + 1) - 1 = t OBVIOUS
  <2> QED BY <2>1, <2>2, <2>3
<1> HIDE DEF T
<1>3. \A t \in Nat : t \in T BY <1>1, <1>2, EveryNatural
<1> QED BY <1>3 DEF T

\* The equation, one case at a time.
THEOREM IterateStep ==
  ASSUME NEW p, NEW base
  PROVE  /\ Iterate(p, base, 0) = base
         /\ \A n \in Nat : Iterate(p, base, n + 1) = Op(p, Iterate(p, base, n), n + 1)
<1> DEFINE Obeys(h) == h = [t \in Nat |-> IF t = 0 THEN base ELSE Op(p, h[t - 1], t)]
           value(n) == (CHOOSE f : Approximates(p, base, n, f))[n]
           h0 == [n \in Nat |-> value(n)]
           it == CHOOSE h : Obeys(h)
<1>1. \A n \in Nat : Approximates(p, base, n, CHOOSE f : Approximates(p, base, n, f)) BY Approximation
<1>2. Obeys(h0)
  <2>1. ASSUME NEW n \in Nat
        PROVE  value(n) = IF n = 0 THEN base ELSE Op(p, h0[n - 1], n)
    <3> DEFINE f == CHOOSE f : Approximates(p, base, n, f)
               g == CHOOSE g : Approximates(p, base, n - 1, g)
    <3>1. CASE n = 0 BY <1>1, <3>1 DEF Approximates
    <3>2. CASE n # 0
      <4>1. n - 1 \in Nat BY <3>2
      <4>2. Approximates(p, base, n, f) /\ Approximates(p, base, n - 1, g) BY <1>1, <4>1
      <4>3. h0[n - 1] = g[n - 1] BY <4>1
      <4> HIDE DEF f, g, h0
      <4>4. f[n - 1] = g[n - 1] BY <4>1, <4>2, SameApproximation
      <4>5. f[n] = Op(p, f[n - 1], n) BY <3>2, <4>2 DEF Approximates
      <4> QED BY <3>2, <4>3, <4>4, <4>5 DEF f
    <3> QED BY <3>1, <3>2
  <2> HIDE DEF value
  <2> QED BY <2>1
<1> HIDE DEF h0
<1>3. Obeys(it) BY <1>2
<1>4. \A n : Iterate(p, base, n) = it[n] BY DEF Iterate
<1> HIDE DEF it
<1>5. it[0] = base BY <1>3
<1>6. ASSUME NEW n \in Nat PROVE it[n + 1] = Op(p, it[n], n + 1)
  <2>1. n + 1 \in Nat /\ n + 1 # 0 /\ (n + 1) - 1 = n OBVIOUS
  <2>2. it[n + 1] = Op(p, it[(n + 1) - 1], n + 1) BY <1>3, <2>1
  <2> QED BY <2>1, <2>2
<1> QED BY <1>4, <1>5, <1>6

\* What every step keeps holds of all values.
StepsKeep(p) == \A v, n : Holds(p, v) => Holds(p, Op(p, v, n))

THEOREM IterateKeeps ==
  ASSUME NEW p, NEW base, Holds(p, base), StepsKeep(p), NEW n \in Nat
  PROVE  Holds(p, Iterate(p, base, n))
<1> DEFINE T == {k \in Nat : Holds(p, Iterate(p, base, k))}
<1>1. 0 \in T BY IterateStep
<1>2. ASSUME NEW k \in Nat, k \in T PROVE k + 1 \in T
  <2>1. Iterate(p, base, k + 1) = Op(p, Iterate(p, base, k), k + 1) BY IterateStep
  <2>2. Holds(p, Op(p, Iterate(p, base, k), k + 1)) BY <1>2 DEF StepsKeep
  <2> QED BY <2>1, <2>2
<1> HIDE DEF T
<1>3. \A k \in Nat : k \in T BY <1>1, <1>2, EveryNatural
<1> QED BY <1>3 DEF T

----------------------------------------------------------------------------
(* Folding a sequence from the left: FoldLeft takes the elements by the      *)
(* greatest of their numbers and recurs over sets of them.                   *)

\* Max of the community modules.
GreatestIn(I) == CHOOSE i \in I : \A j \in I : i >= j

Fold(p, base, s) ==
  MapThenFoldSet(LAMBDA x, b : Op(p, b, x), base, LAMBDA i : s[i],
                 LAMBDA I : GreatestIn(I), DOMAIN s)

\* f is what folding makes of every set of the numbers of s up to n.
FoldsUpTo(p, base, s, n, f) ==
  \A I \in SUBSET (1 .. n) :
    f[I] = IF I = {} THEN base ELSE LET x == GreatestIn(I) IN Op(p, f[I \ {x}], s[x])

LEMMA MaxIs ==
  ASSUME NEW n \in Nat, NEW I \in SUBSET (1 .. n), I # {}
  PROVE  GreatestIn(I) \in I /\ \A i \in I : GreatestIn(I) >= i
<1>1. I \in SUBSET (0 .. n) OBVIOUS
<1> QED BY <1>1, GreatestOf DEF GreatestIn

LEMMA MaxOf ==
  ASSUME NEW n \in Nat, NEW I \in SUBSET (1 .. n + 1), n + 1 \in I
  PROVE  GreatestIn(I) = n + 1
<1> DEFINE m == n + 1
<1>1. m \in Nat /\ I \in SUBSET (1 .. m) /\ I # {} OBVIOUS
<1>2. GreatestIn(I) \in I /\ \A i \in I : GreatestIn(I) >= i
  <2> HIDE DEF m
  <2> QED BY <1>1, MaxIs
<1>3. GreatestIn(I) \in 1 .. m /\ GreatestIn(I) >= m BY <1>2
<1> QED BY <1>3

\* There is such a function.
LEMMA FoldsExists ==
  ASSUME NEW p, NEW base, NEW s
  PROVE  \A n \in Nat : \E f : FoldsUpTo(p, base, s, n, f)
<1> DEFINE T == {n \in Nat : \E f : FoldsUpTo(p, base, s, n, f)}
<1>1. 0 \in T
  <2> DEFINE f == [I \in {{}} |-> base]
  <2>1. \A I \in SUBSET (1 .. 0) : I = {} OBVIOUS
  <2>2. FoldsUpTo(p, base, s, 0, f) BY <2>1 DEF FoldsUpTo
  <2> QED BY <2>2
<1>2. ASSUME NEW n \in Nat, n \in T PROVE n + 1 \in T
  <2>1. PICK f : FoldsUpTo(p, base, s, n, f) BY <1>2
  <2> DEFINE g == [I \in SUBSET (1 .. n + 1) |->
                     IF n + 1 \in I THEN Op(p, f[I \ {n + 1}], s[n + 1]) ELSE f[I]]
  <2>2. ASSUME NEW I \in SUBSET (1 .. n + 1)
        PROVE  g[I] = IF I = {} THEN base ELSE LET x == GreatestIn(I) IN Op(p, g[I \ {x}], s[x])
    <3>1. CASE n + 1 \in I
      <4>1. GreatestIn(I) = n + 1 BY <3>1, MaxOf
      <4>2. I \ {n + 1} \in SUBSET (1 .. n + 1) /\ n + 1 \notin I \ {n + 1} OBVIOUS
      <4>3. g[I \ {n + 1}] = f[I \ {n + 1}] BY <4>2
      <4> QED BY <3>1, <4>1, <4>3
    <3>2. CASE n + 1 \notin I
      <4>1. I \in SUBSET (1 .. n)
        <5>1. \A i \in 1 .. n + 1 : i # n + 1 => i \in 1 .. n OBVIOUS
        <5> QED BY <3>2, <5>1
      <4>2. g[I] = f[I] BY <3>2
      <4>3. f[I] = IF I = {} THEN base ELSE LET x == GreatestIn(I) IN Op(p, f[I \ {x}], s[x])
        BY <2>1, <4>1 DEF FoldsUpTo
      <4>4. CASE I = {} BY <4>2, <4>3, <4>4
      <4>5. CASE I # {}
        <5> DEFINE x == GreatestIn(I)
        <5>1. I \ {x} \in SUBSET (1 .. n + 1) /\ n + 1 \notin I \ {x} BY <3>2
        <5>2. g[I \ {x}] = f[I \ {x}] BY <5>1
        <5> HIDE DEF g
        <5> QED BY <4>2, <4>3, <4>5, <5>2
      <4> QED BY <4>4, <4>5
    <3> QED BY <3>1, <3>2
  <2> HIDE DEF g
  <2>3. FoldsUpTo(p, base, s, n + 1, g) BY <2>2 DEF FoldsUpTo
  <2> QED BY <2>3
<1> HIDE DEF T
<1>3. \A n \in Nat : n \in T BY <1>1, <1>2, EveryNatural
<1> QED BY <1>3 DEF T

\* f goes through the elements of s up to n.
IsTrace(p, base, s, n, f) ==
  f[0] = base /\ \A k \in 1 .. n : f[k] = Op(p, f[k - 1], s[k])

\* A fold is the end of a trace.
LEMMA FoldTrace ==
  ASSUME NEW S, NEW p, NEW base, NEW s \in Seq(S)
  PROVE  \E f : IsTrace(p, base, s, Len(s), f) /\ Fold(p, base, s) = f[Len(s)]
<1> DEFINE n == Len(s)
           D == SUBSET (1 .. n)
           Obeys(h) == h = [I \in D |-> IF I = {} THEN base
                                        ELSE LET x == GreatestIn(I) IN Op(p, h[I \ {x}], s[x])]
           it == CHOOSE h : Obeys(h)
<1>1. n \in Nat /\ DOMAIN s = 1 .. n OBVIOUS
<1>2. Fold(p, base, s) = it[1 .. n]
  BY <1>1 DEF Fold, MapThenFoldSet
<1>3. PICK f : FoldsUpTo(p, base, s, n, f) BY <1>1, FoldsExists
<1>4. Obeys([I \in D |-> f[I]])
  <2>1. ASSUME NEW I \in D
        PROVE  f[I] = IF I = {} THEN base ELSE LET x == GreatestIn(I) IN Op(p, [J \in D |-> f[J]][I \ {x}], s[x])
    <3>1. f[I] = IF I = {} THEN base ELSE LET x == GreatestIn(I) IN Op(p, f[I \ {x}], s[x])
      BY <1>3 DEF FoldsUpTo
    <3>2. \A x : [J \in D |-> f[J]][I \ {x}] = f[I \ {x}] OBVIOUS
    <3> QED BY <3>1, <3>2
  <2> QED BY <2>1
<1>5. Obeys(it) BY <1>4
<1> DEFINE g == [k \in 0 .. n |-> it[1 .. k]]
<1> HIDE DEF it
<1>6. g[0] = base
  <2>1. 1 .. 0 = {} /\ {} \in D OBVIOUS
  <2>2. it[{}] = base BY <1>5, <2>1
  <2> QED BY <1>1, <2>1, <2>2
<1>7. ASSUME NEW k \in 1 .. n PROVE g[k] = Op(p, g[k - 1], s[k])
  <2>1. 1 .. k \in D /\ 1 .. k # {}
    <3>1. k \in Nat /\ k >= 1 /\ k <= n BY <1>1
    <3>2. 1 .. k \subseteq 1 .. n /\ 1 \in 1 .. k BY <1>1, <3>1
    <3> QED BY <3>2
  <2>2. GreatestIn(1 .. k) = k
    <3> DEFINE j == k - 1
    <3>1. j \in Nat /\ j + 1 = k BY <1>1
    <3>2. 1 .. k \in SUBSET (1 .. j + 1) /\ j + 1 \in 1 .. k BY <3>1
    <3> HIDE DEF j
    <3> QED BY <3>1, <3>2, MaxOf
  <2>3. (1 .. k) \ {k} = 1 .. k - 1 OBVIOUS
  <2>4. it[1 .. k] = Op(p, it[(1 .. k) \ {k}], s[k]) BY <1>5, <2>1, <2>2
  <2>5. g[k] = it[1 .. k] /\ g[k - 1] = it[1 .. k - 1] BY <1>1
  <2> QED BY <2>3, <2>4, <2>5
<1>8. g[n] = it[1 .. n] BY <1>1
<1> HIDE DEF g
<1> QED BY <1>1, <1>2, <1>6, <1>7, <1>8 DEF IsTrace

\* The first m elements of s are those of t.
SameUpTo(s, t, m) == \A k \in 1 .. m : s[k] = t[k]

\* Two traces over the same elements are the same.
LEMMA SameTrace ==
  ASSUME NEW p, NEW base, NEW s, NEW t, NEW f, NEW g, NEW m \in Nat, NEW n \in Nat, m <= n,
         IsTrace(p, base, s, m, f), IsTrace(p, base, t, n, g), SameUpTo(s, t, m)
  PROVE  f[m] = g[m]
<1> DEFINE T == {k \in Nat : k <= m => f[k] = g[k]}
<1>1. 0 \in T BY DEF IsTrace
<1>2. ASSUME NEW k \in Nat, k \in T PROVE k + 1 \in T
  <2> SUFFICES ASSUME k + 1 <= m PROVE f[k + 1] = g[k + 1] OBVIOUS
  <2>1. k + 1 \in 1 .. m /\ k + 1 \in 1 .. n /\ (k + 1) - 1 = k OBVIOUS
  <2>2. /\ f[k + 1] = Op(p, f[k], s[k + 1])
        /\ g[k + 1] = Op(p, g[k], t[k + 1])
        /\ s[k + 1] = t[k + 1]
    BY <2>1 DEF IsTrace, SameUpTo
  <2>3. f[k] = g[k] BY <1>2
  <2> QED BY <2>1, <2>2, <2>3
<1> HIDE DEF T
<1>3. \A k \in Nat : k \in T BY <1>1, <1>2, EveryNatural
<1> QED BY <1>3 DEF T

\* The fold of the first elements.
FoldTo(p, base, s, k) == Fold(p, base, SubSeq(s, 1, k))

\* The folds of the first elements are a trace.
FoldsAre(p, base, s, f) ==
  /\ IsTrace(p, base, s, Len(s), f)
  /\ \A k \in 0 .. Len(s) : FoldTo(p, base, s, k) = f[k]

LEMMA FoldsAreTrace ==
  ASSUME NEW S, NEW p, NEW base, NEW s \in Seq(S)
  PROVE  \E f : FoldsAre(p, base, s, f)
<1>1. PICK f : IsTrace(p, base, s, Len(s), f) BY FoldTrace
<1>2. ASSUME NEW k \in 0 .. Len(s) PROVE FoldTo(p, base, s, k) = f[k]
  <2> DEFINE t == SubSeq(s, 1, k)
  <2>1. t \in Seq(S) /\ Len(t) = k /\ \A i \in 1 .. k : t[i] = s[i] OBVIOUS
  <2> HIDE DEF t
  <2>2. PICK g : IsTrace(p, base, t, Len(t), g) /\ Fold(p, base, t) = g[Len(t)] BY <2>1, FoldTrace
  <2>3. IsTrace(p, base, t, k, g) BY <2>1, <2>2
  <2>4. k \in Nat /\ Len(s) \in Nat /\ k <= Len(s) OBVIOUS
  <2>5. g[k] = f[k]
    <3>1. SameUpTo(t, s, k) BY <2>1 DEF SameUpTo
    <3>2. IsTrace(p, base, s, Len(s), f) BY <1>1
    <3> QED BY <2>3, <2>4, <3>1, <3>2, SameTrace
  <2> QED BY <2>1, <2>2, <2>5 DEF FoldTo, t
<1> QED BY <1>1, <1>2 DEF FoldsAre

\* Folding the first elements, one more at a time: none of them, one more, all.
THEOREM FoldNone ==
  ASSUME NEW S, NEW p, NEW base, NEW s \in Seq(S)
  PROVE  FoldTo(p, base, s, 0) = base
<1>1. PICK f : FoldsAre(p, base, s, f) BY FoldsAreTrace
<1>2. 0 \in 0 .. Len(s) OBVIOUS
<1>3. FoldTo(p, base, s, 0) = f[0] BY <1>1, <1>2 DEF FoldsAre
<1>4. f[0] = base BY <1>1 DEF FoldsAre, IsTrace
<1> QED BY <1>3, <1>4

THEOREM FoldNext ==
  ASSUME NEW S, NEW p, NEW base, NEW s \in Seq(S), NEW k \in 1 .. Len(s)
  PROVE  FoldTo(p, base, s, k) = Op(p, FoldTo(p, base, s, k - 1), s[k])
<1>1. PICK f : FoldsAre(p, base, s, f) BY FoldsAreTrace
<1>2. k \in 0 .. Len(s) /\ k - 1 \in 0 .. Len(s) OBVIOUS
<1>3. FoldTo(p, base, s, k) = f[k] /\ FoldTo(p, base, s, k - 1) = f[k - 1]
  BY <1>1, <1>2 DEF FoldsAre
<1>4. f[k] = Op(p, f[k - 1], s[k]) BY <1>1 DEF FoldsAre, IsTrace
<1> QED BY <1>3, <1>4

THEOREM FoldAll ==
  ASSUME NEW S, NEW p, NEW base, NEW s \in Seq(S)
  PROVE  Fold(p, base, s) = FoldTo(p, base, s, Len(s))
<1>1. SubSeq(s, 1, Len(s)) = s OBVIOUS
<1> QED BY <1>1 DEF FoldTo

\* Folding no element and one element.
THEOREM FoldFew ==
  ASSUME NEW p, NEW base, NEW x
  PROVE  Fold(p, base, <<>>) = base /\ Fold(p, base, <<x>>) = Op(p, base, x)
<1> DEFINE S == {x}
           s == <<x>>
<1>1. <<>> \in Seq(S) /\ Len(<<>>) = 0 OBVIOUS
<1>2. s \in Seq(S) /\ Len(s) = 1 /\ s[1] = x /\ 1 \in 1 .. 1 OBVIOUS
<1> HIDE DEF S, s
<1>3. Fold(p, base, <<>>) = FoldTo(p, base, <<>>, 0) BY <1>1, FoldAll
<1>4. FoldTo(p, base, <<>>, 0) = base BY <1>1, FoldNone
<1>5. Fold(p, base, s) = FoldTo(p, base, s, 1) BY <1>2, FoldAll
<1>6. FoldTo(p, base, s, 1) = Op(p, FoldTo(p, base, s, 1 - 1), s[1])
  <2>1. \A k \in 1 .. Len(s) : FoldTo(p, base, s, k) = Op(p, FoldTo(p, base, s, k - 1), s[k])
    BY <1>2, FoldNext
  <2>2. 1 \in 1 .. Len(s) BY <1>2
  <2> QED BY <2>1, <2>2
<1>7. FoldTo(p, base, s, 0) = base BY <1>2, FoldNone
<1>8. 1 - 1 = 0 OBVIOUS
<1> QED BY <1>2, <1>3, <1>4, <1>5, <1>6, <1>7, <1>8 DEF s

\* Every element of s keeps what holds.
Kept(p, s) == \A v : \A k \in DOMAIN s : Holds(p, v) => Holds(p, Op(p, v, s[k]))

\* Then it holds of the fold.
THEOREM FoldKeeps ==
  ASSUME NEW S, NEW p, NEW base, NEW s \in Seq(S), Holds(p, base), Kept(p, s)
  PROVE  Holds(p, Fold(p, base, s))
<1>1. PICK f : IsTrace(p, base, s, Len(s), f) /\ Fold(p, base, s) = f[Len(s)] BY FoldTrace
<1> DEFINE T == {k \in Nat : k <= Len(s) => Holds(p, f[k])}
<1>2. 0 \in T BY <1>1 DEF IsTrace
<1>3. ASSUME NEW k \in Nat, k \in T PROVE k + 1 \in T
  <2> SUFFICES ASSUME k + 1 <= Len(s) PROVE Holds(p, f[k + 1]) OBVIOUS
  <2>1. k + 1 \in 1 .. Len(s) /\ (k + 1) - 1 = k /\ k + 1 \in DOMAIN s OBVIOUS
  <2>2. f[k + 1] = Op(p, f[k], s[k + 1]) BY <1>1, <2>1 DEF IsTrace
  <2>3. Holds(p, f[k]) BY <1>3
  <2> QED BY <2>1, <2>2, <2>3 DEF Kept
<1> HIDE DEF T
<1>4. \A k \in Nat : k \in T BY <1>2, <1>3, EveryNatural
<1>5. Len(s) \in Nat OBVIOUS
<1> QED BY <1>1, <1>4, <1>5 DEF T
----------------------------------------------------------------------------
(* Sequences that are joined.                                               *)

\* FlattenSeq of the community modules, for a sequence that is not empty.
Joined(ss) ==
  LET flatten[i \in 1 .. Len(ss)] == IF i = 1 THEN ss[i] ELSE flatten[i - 1] \o ss[i]
  IN  flatten[Len(ss)]

\* f joins the first n of ss one by one.
JoinsUpTo(ss, n, f) ==
  /\ n >= 1 => f[1] = ss[1]
  /\ \A k \in 1 .. n : k # 1 => f[k] = f[k - 1] \o ss[k]

\* There is such a function, and it ends with all of them joined.
THEOREM JoinedTrace ==
  ASSUME NEW ss, Len(ss) \in Nat \ {0}
  PROVE  \E f : JoinsUpTo(ss, Len(ss), f) /\ Joined(ss) = f[Len(ss)]
<1> DEFINE m == Len(ss)
           Obeys(h) == h = [i \in 1 .. m |-> IF i = 1 THEN ss[i] ELSE h[i - 1] \o ss[i]]
           it == CHOOSE h : Obeys(h)
           T == {n \in Nat : \E f : JoinsUpTo(ss, n, f)}
<1>1. Joined(ss) = it[m] BY DEF Joined
<1>2. 0 \in T
  <2>1. JoinsUpTo(ss, 0, <<>>) BY DEF JoinsUpTo
  <2> QED BY <2>1
<1>3. ASSUME NEW n \in Nat, n \in T PROVE n + 1 \in T
  <2>1. PICK f : JoinsUpTo(ss, n, f) BY <1>3
  <2> DEFINE next == IF n = 0 THEN ss[1] ELSE f[n] \o ss[n + 1]
             g == [i \in 1 .. n + 1 |-> IF i = n + 1 THEN next ELSE f[i]]
  <2> HIDE DEF next
  <2>2. (\A i \in 1 .. n : g[i] = f[i]) /\ g[n + 1] = next OBVIOUS
  <2> HIDE DEF g
  <2>3. n # 0 => f[1] = ss[1] BY <2>1 DEF JoinsUpTo
  <2>4. g[1] = ss[1]
    <3>1. CASE n = 0 BY <2>2, <3>1 DEF next
    <3>2. CASE n # 0
      <4>1. 1 \in 1 .. n BY <3>2
      <4> QED BY <2>2, <2>3, <3>2, <4>1
    <3> QED BY <3>1, <3>2
  <2>5. ASSUME NEW k \in 1 .. n + 1, k # 1 PROVE g[k] = g[k - 1] \o ss[k]
    <3>1. k - 1 \in 1 .. n /\ g[k - 1] = f[k - 1] BY <2>2, <2>5
    <3>2. CASE k = n + 1
      <4>1. k - 1 = n /\ n # 0 BY <2>5, <3>2
      <4> QED BY <2>2, <3>1, <3>2, <4>1 DEF next
    <3>3. CASE k \in 1 .. n
      <4>1. f[k] = f[k - 1] \o ss[k] BY <2>1, <2>5, <3>3 DEF JoinsUpTo
      <4> QED BY <2>2, <3>1, <3>3, <4>1
    <3>4. k = n + 1 \/ k \in 1 .. n OBVIOUS
    <3> QED BY <3>2, <3>3, <3>4
  <2>6. JoinsUpTo(ss, n + 1, g) BY <2>4, <2>5 DEF JoinsUpTo
  <2> QED BY <2>6
<1> HIDE DEF T
<1>4. \A n \in Nat : n \in T BY <1>2, <1>3, EveryNatural
<1>5. PICK f : JoinsUpTo(ss, m, f) BY <1>4 DEF T
<1>6. Obeys([i \in 1 .. m |-> f[i]])
  <2> DEFINE g == [i \in 1 .. m |-> f[i]]
  <2>1. \A i \in 1 .. m : g[i] = f[i] /\ (i # 1 => i - 1 \in 1 .. m /\ g[i - 1] = f[i - 1])
    OBVIOUS
  <2>2. ASSUME NEW i \in 1 .. m PROVE g[i] = IF i = 1 THEN ss[i] ELSE g[i - 1] \o ss[i]
    <3> HIDE DEF g
    <3>1. CASE i = 1 BY <1>5, <2>1, <3>1 DEF JoinsUpTo
    <3>2. CASE i # 1
      <4>1. f[i] = f[i - 1] \o ss[i] BY <1>5, <3>2 DEF JoinsUpTo
      <4> QED BY <2>1, <3>2, <4>1
    <3> QED BY <3>1, <3>2
  <2>3. g = [i \in 1 .. m |-> g[i]] OBVIOUS
  <2> HIDE DEF g
  <2>4. Obeys(g) BY <2>2, <2>3
  <2> QED BY <2>4 DEF g
<1>7. Obeys(it) BY <1>6
<1> HIDE DEF it
<1>8. JoinsUpTo(ss, m, it)
  <2>1. \A i \in 1 .. m : it[i] = IF i = 1 THEN ss[i] ELSE it[i - 1] \o ss[i] BY <1>7
  <2>2. 1 \in 1 .. m OBVIOUS
  <2> HIDE DEF m
  <2> QED BY <2>1, <2>2 DEF JoinsUpTo
<1> QED BY <1>1, <1>8

\* Folding two sequences that are joined is folding the one and then the other.
THEOREM FoldJoined ==
  ASSUME NEW S, NEW p, NEW base, NEW r \in Seq(S), NEW s \in Seq(S)
  PROVE  Fold(p, base, r \o s) = Fold(p, Fold(p, base, r), s)
<1> DEFINE q == r \o s
           between == Fold(p, base, r)
           m == Len(r)
           T == {k \in Nat : k <= Len(s) => FoldTo(p, base, q, m + k) = FoldTo(p, between, s, k)}
<1>1. /\ q \in Seq(S) /\ m \in Nat /\ Len(s) \in Nat /\ Len(q) = m + Len(s)
      /\ SubSeq(q, 1, m) = r /\ \A k \in 1 .. Len(s) : q[m + k] = s[k]
  OBVIOUS
<1> HIDE DEF q, m
<1>2. 0 \in T
  <2>1. FoldTo(p, between, s, 0) = between BY FoldNone
  <2>2. FoldTo(p, base, q, m) = between BY <1>1 DEF FoldTo
  <2>3. m + 0 = m BY <1>1
  <2> HIDE DEF between
  <2> QED BY <2>1, <2>2, <2>3
<1> HIDE DEF between
<1>3. ASSUME NEW k \in Nat, k \in T PROVE k + 1 \in T
  <2> DEFINE j == k + 1
             i == m + j
  <2> SUFFICES ASSUME j <= Len(s) PROVE FoldTo(p, base, q, i) = FoldTo(p, between, s, j) OBVIOUS
  <2>1. j \in 1 .. Len(s) /\ i \in 1 .. Len(q) /\ j - 1 = k /\ i - 1 = m + k /\ q[i] = s[j]
    BY <1>1
  <2>2. FoldTo(p, base, q, m + k) = FoldTo(p, between, s, k) BY <1>3, <2>1
  <2> HIDE DEF i, j, T
  <2>3. FoldTo(p, between, s, j) = Op(p, FoldTo(p, between, s, j - 1), s[j])
    <3>1. j \in 1 .. Len(s) BY <2>1
    <3> QED BY <3>1, FoldNext
  <2>4. FoldTo(p, base, q, i) = Op(p, FoldTo(p, base, q, i - 1), q[i])
    <3>1. q \in Seq(S) /\ i \in 1 .. Len(q) BY <1>1, <2>1
    <3> QED BY <3>1, FoldNext
  <2> QED BY <2>1, <2>2, <2>3, <2>4
<1> HIDE DEF T
<1>4. \A k \in Nat : k \in T BY <1>2, <1>3, EveryNatural
<1>5. FoldTo(p, base, q, Len(q)) = FoldTo(p, between, s, Len(s)) BY <1>1, <1>4 DEF T
<1>6. Fold(p, base, q) = FoldTo(p, base, q, Len(q)) BY <1>1, FoldAll
<1>7. Fold(p, between, s) = FoldTo(p, between, s, Len(s)) BY FoldAll
<1> QED BY <1>5, <1>6, <1>7 DEF q, between

\* FlattenSeq for any sequence.
Flat(ss) == IF Len(ss) = 0 THEN ss ELSE Joined(ss)

\* What is joined has the elements of the parts.
THEOREM FlatTyped ==
  ASSUME NEW S, NEW ss \in Seq(Seq(S))
  PROVE  Flat(ss) \in Seq(S)
<1>1. CASE Len(ss) = 0 BY <1>1 DEF Flat
<1>2. CASE Len(ss) # 0
  <2> DEFINE Parts == Seq(S)
             m == Len(ss)
  <2>1. m \in Nat \ {0} /\ \A k \in 1 .. m : ss[k] \in Parts BY <1>2
  <2>2. PICK f : JoinsUpTo(ss, m, f) /\ Joined(ss) = f[m] BY <2>1, JoinedTrace
  <2>3. \A r, s \in Parts : r \o s \in Parts OBVIOUS
  <2> HIDE DEF Parts, m
  <2> DEFINE T == {k \in Nat : k + 1 <= m => f[k + 1] \in Parts}
  <2>4. 0 \in T
    <3>1. m >= 1 /\ 1 \in 1 .. m BY <2>1
    <3>2. f[1] = ss[1] BY <2>2, <3>1 DEF JoinsUpTo
    <3> QED BY <2>1, <3>1, <3>2
  <2>5. ASSUME NEW k \in Nat, k \in T PROVE k + 1 \in T
    <3> DEFINE j == k + 1
               i == j + 1
    <3> SUFFICES ASSUME i <= m PROVE f[i] \in Parts OBVIOUS
    <3>1. i \in 1 .. m /\ i # 1 /\ i - 1 = j /\ j <= m BY <2>1
    <3>2. f[j] \in Parts BY <2>5, <3>1
    <3> HIDE DEF i, j, T
    <3>3. f[i] = f[i - 1] \o ss[i] BY <2>2, <3>1 DEF JoinsUpTo
    <3>4. ss[i] \in Parts BY <2>1, <3>1
    <3> QED BY <2>3, <3>1, <3>2, <3>3, <3>4
  <2> HIDE DEF T
  <2>6. \A k \in Nat : k \in T BY <2>4, <2>5, EveryNatural
  <2> DEFINE j == m - 1
  <2>7. j \in Nat /\ j + 1 = m BY <2>1
  <2> HIDE DEF j
  <2>8. f[m] \in Parts BY <2>1, <2>6, <2>7 DEF T
  <2> QED BY <1>2, <2>2, <2>8 DEF Flat, Parts
<1> QED BY <1>1, <1>2

\* g goes through the folds of the parts, one after the other, and ends with the
\* fold of what is joined.
FoldsParts(p, base, ss, g) ==
  /\ g[0] = base /\ \A k \in 1 .. Len(ss) : g[k] = Fold(p, g[k - 1], ss[k])
  /\ Fold(p, base, Flat(ss)) = g[Len(ss)]

\* Folding what is joined is folding the parts one after the other.
THEOREM FoldFlat ==
  ASSUME NEW S, NEW p, NEW base, NEW ss \in Seq(Seq(S))
  PROVE  \E g : FoldsParts(p, base, ss, g)
<1> DEFINE m == Len(ss)
<1>1. CASE m = 0
  <2> DEFINE g == [k \in {0} |-> base]
  <2>1. Flat(ss) = ss /\ ss \in Seq(S) BY <1>1 DEF Flat
  <2>2. Fold(p, base, ss) = FoldTo(p, base, ss, m) BY <2>1, FoldAll
  <2>3. FoldTo(p, base, ss, 0) = base BY <2>1, FoldNone
  <2>4. FoldsParts(p, base, ss, g) BY <1>1, <2>1, <2>2, <2>3 DEF FoldsParts
  <2> QED BY <2>4
<1>2. CASE m # 0
  <2> DEFINE Parts == Seq(S)
  <2>1. m \in Nat \ {0} /\ \A k \in 1 .. m : ss[k] \in Parts BY <1>2
  <2>2. PICK f : JoinsUpTo(ss, m, f) /\ Joined(ss) = f[m] BY <2>1, JoinedTrace
  <2> HIDE DEF m
  <2> DEFINE g == [k \in 0 .. m |-> IF k = 0 THEN base ELSE Fold(p, base, f[k])]
             T == {k \in Nat : k + 1 <= m => f[k + 1] \in Parts
                                             /\ g[k + 1] = Fold(p, g[k], ss[k + 1])}
  <2>3. 0 \in T
    <3>1. m >= 1 /\ 1 \in 1 .. m BY <2>1
    <3>2. f[1] = ss[1] BY <2>2, <3>1 DEF JoinsUpTo
    <3>3. g[1] = Fold(p, base, f[1]) /\ g[0] = base BY <2>1, <3>1
    <3> HIDE DEF g
    <3> QED BY <2>1, <3>1, <3>2, <3>3
  <2>4. ASSUME NEW k \in Nat, k \in T PROVE k + 1 \in T
    <3> DEFINE j == k + 1
               i == j + 1
    <3> SUFFICES ASSUME i <= m PROVE f[i] \in Parts /\ g[i] = Fold(p, g[j], ss[i]) OBVIOUS
    <3>1. i \in 1 .. m /\ i # 1 /\ i # 0 /\ i - 1 = j /\ j <= m /\ j \in 1 .. m /\ j # 0 BY <2>1
    <3>2. f[j] \in Parts BY <2>4, <3>1
    <3>3. g[i] = Fold(p, base, f[i]) /\ g[j] = Fold(p, base, f[j]) BY <3>1
    <3> HIDE DEF i, j, T, g
    <3>4. f[i] = f[j] \o ss[i] BY <2>2, <3>1 DEF JoinsUpTo
    <3>5. ss[i] \in Parts BY <2>1, <3>1
    <3>6. f[j] \o ss[i] \in Parts BY <3>2, <3>5
    <3>7. Fold(p, base, f[j] \o ss[i]) = Fold(p, Fold(p, base, f[j]), ss[i])
      BY <3>2, <3>5, FoldJoined
    <3> QED BY <3>3, <3>4, <3>6, <3>7
  <2> HIDE DEF T
  <2>5. \A k \in Nat : k \in T BY <2>3, <2>4, EveryNatural
  <2>6. g[0] = base /\ g[m] = Fold(p, base, f[m]) BY <2>1
  <2> HIDE DEF g
  <2>7. ASSUME NEW k \in 1 .. m PROVE g[k] = Fold(p, g[k - 1], ss[k])
    <3> DEFINE j == k - 1
    <3>1. j \in Nat /\ j + 1 = k /\ k <= m BY <2>1
    <3> HIDE DEF j
    <3>2. g[k] = Fold(p, g[j], ss[k]) BY <2>5, <3>1 DEF T
    <3> QED BY <3>2 DEF j
  <2>8. Flat(ss) = f[m] BY <1>2, <2>2 DEF Flat, m
  <2>9. FoldsParts(p, base, ss, g) BY <2>6, <2>7, <2>8 DEF FoldsParts, m
  <2> QED BY <2>9
<1> QED BY <1>1, <1>2

=============================================================================
