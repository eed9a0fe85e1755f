--------------------------- MODULE LoadPassProofs ---------------------------
(***************************************************************************)
(* Proofs about LoadPass: for every ramp, every system, every measured     *)
(* pass and every way the sampler misses its ticks, what is read from the  *)
(* pass is true of it.                                                     *)
(*                                                                         *)
(* The sums of a series are folds over finite sets.  The induction they    *)
(* need is carried out on a set of counterexamples, which would have a     *)
(* least member (Least, SubsetInduction); from it follow the variance      *)
(* bound behind NoDipInside, the counters that never decrease, what a rung *)
(* that was held says of the system, and that a pass which nothing         *)
(* disturbs is measured.                                                   *)
(***************************************************************************)
EXTENDS LoadPass, TLAPS, FiniteSetTheorems, WellFoundedInduction, SequenceTheorems

-----------------------------------------------------------------------------
\* Sums over finite sets.

\* A set of naturals that is not empty has a least member.
LEMMA Least ==
  ASSUME NEW T, T \subseteq Nat, T # {}
  PROVE  \E m \in T : \A k \in T : m <= k
<1>1. IsWellFoundedOn(OpToRel(<, Nat), Nat)
  BY NatLessThanWellFounded, Zenon
<1>2. PICK x \in T : \A y \in T : ~(<<y, x>> \in OpToRel(<, Nat))
  BY <1>1, WFMin, Zenon
<1>3. ASSUME NEW y \in T, y < x
      PROVE  FALSE
  <2>1. <<y, x>> \in {ss \in Nat \X Nat : ss[1] < ss[2]}
    BY <1>3, SMT
  <2> QED BY <2>1, <1>2, Zenon DEF OpToRel
<1> QED BY <1>3, SMT

\* What holds of 0, and of n + 1 when of n, holds of every natural: there would be a
\* least exception.
LEMMA NatClosed ==
  ASSUME NEW P, 0 \in P, \A n \in Nat : n \in P => n + 1 \in P
  PROVE  Nat \subseteq P
<1> SUFFICES ASSUME ~( Nat \subseteq P) PROVE FALSE OBVIOUS
<1>1. PICK m \in Nat \ P : \A k \in Nat \ P : m <= k
  BY Least, Zenon
<1> QED BY <1>1

\* What holds of the empty set, and of a set when of every set with one member less,
\* holds of every part of a finite set.
LEMMA SubsetInduction ==
  ASSUME NEW D, IsFiniteSet(D), NEW P, {} \in P,
         \A S \in SUBSET D : S # {} /\ (\A x \in S : S \ {x} \in P) => S \in P
  PROVE  SUBSET D \subseteq P
<1> DEFINE Small == {n \in Nat : \A S \in SUBSET D : Cardinality(S) = n => S \in P}
<1>1. \A S \in SUBSET D : IsFiniteSet(S) /\ Cardinality(S) \in Nat
  BY FS_Subset, FS_CardinalityType
<1>2. 0 \in Small
  BY <1>1, FS_EmptySet
<1>3. ASSUME NEW n \in Nat, n \in Small
      PROVE  n + 1 \in Small
  <2> SUFFICES ASSUME NEW S \in SUBSET D, Cardinality(S) = n + 1
               PROVE  S \in P
    BY <1>3
  <2>1. S # {}
    BY <1>1, FS_EmptySet
  <2>2. ASSUME NEW x \in S
        PROVE  S \ {x} \in P
    <3>1. Cardinality(S \ {x}) = Cardinality(S) - 1
      BY <1>1, FS_RemoveElement, Zenon
    <3>2. Cardinality(S \ {x}) = n
      BY <3>1
    <3> QED BY <1>3, <3>2
  <2> QED BY <2>1, <2>2
<1>4. Nat \subseteq Small
  BY <1>2, <1>3, NatClosed, Zenon
<1> QED BY <1>1, <1>4

\* The sums of FiniteSetsExt take the members of a set in the order of CHOOSE: one step
\* of such a sum, and a function that holds the sums over all the parts of D.
Pick(S) == CHOOSE x \in S : TRUE
FoldStep(f, g, s) == IF s = {} THEN 0 ELSE f[Pick(s)] + g[s \ {Pick(s)}]
Accumulates(f, g, D) == g = [s \in SUBSET D |-> FoldStep(f, g, s)]

\* Where two such functions are both defined they are equal.
LEMMA FoldsAgree ==
  \A f, D : \A g, h, E :
    IsFiniteSet(D) /\ E \in SUBSET D /\ Accumulates(f, g, D) /\ Accumulates(f, h, E)
      => \A T \in SUBSET E : g[T] = h[T]
<1> SUFFICES ASSUME NEW f, NEW D, NEW g, NEW h, NEW E,
                    IsFiniteSet(D), E \in SUBSET D, Accumulates(f, g, D), Accumulates(f, h, E)
             PROVE  \A T \in SUBSET E : g[T] = h[T]
  OBVIOUS
<1> DEFINE P == {S \in SUBSET E : g[S] = h[S]}
<1>0. \A S \in SUBSET E : g[S] = FoldStep(f, g, S) /\ h[S] = FoldStep(f, h, S)
  BY DEF Accumulates
<1>1. {} \in P
  BY <1>0 DEF FoldStep
<1>2. ASSUME NEW S \in SUBSET E, S # {}, \A x \in S : S \ {x} \in P
      PROVE  S \in P
  <2>1. Pick(S) \in S
    BY <1>2 DEF Pick
  <2>2. g[S \ {Pick(S)}] = h[S \ {Pick(S)}]
    BY <1>2, <2>1
  <2> QED BY <1>0, <1>2, <2>2 DEF FoldStep
<1>3. IsFiniteSet(E)
  BY FS_Subset
<1>4. SUBSET E \subseteq P
  <2> HIDE DEF P
  <2>1. \A S \in SUBSET E : S # {} /\ (\A x \in S : S \ {x} \in P) => S \in P
    BY <1>2
  <2> QED BY <1>1, <1>3, <2>1, SubsetInduction, Zenon
<1> QED BY <1>4

\* There is one for every finite set: those of its parts are put together.
LEMMA FoldExists ==
  ASSUME NEW f, NEW D, IsFiniteSet(D)
  PROVE  \E g : Accumulates(f, g, D)
<1> DEFINE P == {S \in SUBSET D : \E g : Accumulates(f, g, S)}
<1>1. {} \in P
  <2> DEFINE g == [s \in SUBSET {} |-> 0]
  <2>1. Accumulates(f, g, {})
    BY DEF Accumulates, FoldStep
  <2> QED BY <2>1
<1>2. ASSUME NEW S \in SUBSET D, S # {}, \A x \in S : S \ {x} \in P
      PROVE  S \in P
  <2> DEFINE of(x) == CHOOSE g : Accumulates(f, g, S \ {x})
             g == [s \in SUBSET S |->
                     IF s = {} THEN 0 ELSE f[Pick(s)] + of(Pick(s))[s \ {Pick(s)}]]
             h == [s \in SUBSET S |-> 
                     IF s = S THEN g[S] ELSE of(CHOOSE x \in S \ s : TRUE)[s]]
  <2>1. ASSUME NEW x \in S
        PROVE  Accumulates(f, of(x), S \ {x})
    BY <1>2, Zenon
  <2> HIDE DEF of
  <2>2. ASSUME NEW s \in SUBSET S, NEW x \in S \ s
        PROVE  h[s] = of(x)[s]
    <3> DEFINE y == CHOOSE y \in S \ s : TRUE
    <3>1. y \in S \ s
      OBVIOUS
    <3>2. h[s] = of(y)[s]
      BY <3>1
    <3>3. of(y)[s] = of(x)[s]
      <4> DEFINE both == (S \ {x}) \cap (S \ {y})
                 r == [t \in SUBSET both |-> of(x)[t]]
                 q == [t \in SUBSET both |-> of(y)[t]]
      <4>1. Accumulates(f, r, both) /\ Accumulates(f, q, both)
        <5>1. \A t \in SUBSET both : t \ {Pick(t)} \in SUBSET both OBVIOUS
        <5>2. \A t \in SUBSET both : of(x)[t] = FoldStep(f, of(x), t) /\ of(y)[t] = FoldStep(f, of(y), t)
          BY <2>1, <3>1 DEF Accumulates
        <5>3. \A t \in SUBSET both : FoldStep(f, r, t) = FoldStep(f, of(x), t) /\ FoldStep(f, q, t) = FoldStep(f, of(y), t)
          BY <5>1 DEF FoldStep
        <5> QED BY <5>2, <5>3 DEF Accumulates
      <4>2. IsFiniteSet(both) /\ s \in SUBSET both
        BY <3>1, FS_Subset
      <4>3. r[s] = q[s]
        <5> HIDE DEF both, r, q
        <5>1. both \in SUBSET both
          OBVIOUS
        <5>2. \A t \in SUBSET both : r[t] = q[t]
          BY <4>1, <4>2, <5>1, FoldsAgree
        <5> QED BY <4>2, <5>2
      <4> QED BY <4>2, <4>3
    <3> QED BY <3>2, <3>3
  <2>3. Accumulates(f, h, S)
    <3>1. ASSUME NEW s \in SUBSET S
          PROVE  h[s] = FoldStep(f, h, s)
      <4>1. CASE s = S
        <5>1. Pick(s) \in S
          BY <1>2, <4>1 DEF Pick
        <5>2. h[s \ {Pick(s)}] = of(Pick(s))[s \ {Pick(s)}]
          BY <2>2, <4>1, <5>1
        <5>3. h[s] = f[Pick(s)] + of(Pick(s))[s \ {Pick(s)}]
          BY <1>2, <4>1
        <5> QED BY <1>2, <4>1, <5>2, <5>3 DEF FoldStep
      <4>2. CASE s # S
        <5>1. PICK x : x \in S \ s
          BY <4>2
        <5>2. h[s] = of(x)[s] 
          BY <2>2, <5>1
        <5>3. of(x)[s] = FoldStep(f, of(x), s)
          <6>1. of(x) = [t \in SUBSET (S \ {x}) |-> FoldStep(f, of(x), t)]
            BY <2>1, <5>1 DEF Accumulates
          <6>2. s \in SUBSET (S \ {x})
            BY <5>1
          <6> QED BY <6>1, <6>2, Zenon
        <5>4. h[s \ {Pick(s)}] = of(x)[s \ {Pick(s)}]
          BY <2>2, <5>1
        <5> QED BY <5>2, <5>3, <5>4 DEF FoldStep
      <4> QED BY <4>1, <4>2
    <3> QED BY <3>1 DEF Accumulates
  <2> QED BY <2>3, Zenon
<1>3. SUBSET D \subseteq P
  <2> HIDE DEF P
  <2>1. \A S \in SUBSET D : S # {} /\ (\A x \in S : S \ {x} \in P) => S \in P
    BY <1>2
  <2> QED BY <1>1, <2>1, SubsetInduction, Zenon
<1> QED BY <1>3

\* The sum over a part of the domain of f, and how it grows.
SumOn(f, S) == SumFunctionOnSet(f, S)

\* So the recursion inside SumFunctionOnSet can be unfolded.
LEMMA SumUnfold ==
  ASSUME NEW f, NEW D, IsFiniteSet(D)
  PROVE  \E g : /\ Accumulates(f, g, D)
                /\ \A S \in SUBSET D : SumOn(f, S) = g[S]
<1>1. PICK g : Accumulates(f, g, D)
  BY FoldExists
<1>2. ASSUME NEW S \in SUBSET D
      PROVE  SumOn(f, S) = g[S]
  <2> DEFINE iter == CHOOSE h : Accumulates(f, h, S)
  <2>1. IsFiniteSet(S)
    BY FS_Subset
  <2>2. Accumulates(f, iter, S)
    BY <2>1, FoldExists, Zenon
  <2>3. SumOn(f, S) = iter[S]
    BY DEF SumOn, SumFunctionOnSet, FoldFunctionOnSet, MapThenFoldSet, Accumulates, FoldStep, Pick
  <2>4. PICK h : Accumulates(f, h, S) /\ SumOn(f, S) = h[S]
    BY <2>2, <2>3
  <2>5. \A T \in SUBSET S : g[T] = h[T]
    BY <1>1, <2>4, FoldsAgree
  <2>6. S \in SUBSET S
    OBVIOUS
  <2> QED BY <2>4, <2>5, <2>6
<1> QED BY <1>1, <1>2

\* The sum takes one value off at a time, the one CHOOSE picks.
LEMMA SumIsInt ==
  ASSUME NEW D, IsFiniteSet(D), NEW f, \A x \in D : f[x] \in Int
  PROVE  /\ \A S \in SUBSET D : SumOn(f, S) \in Int
         /\ SumOn(f, {}) = 0
         /\ \A S \in SUBSET D : S # {} =>
              Pick(S) \in S /\ SumOn(f, S) = f[Pick(S)] + SumOn(f, S \ {Pick(S)})
<1> DEFINE P == {S \in SUBSET D : SumOn(f, S) \in Int}
<1>1. PICK g : Accumulates(f, g, D) /\ \A S \in SUBSET D : SumOn(f, S) = g[S]
  BY SumUnfold
<1>2. \A S \in SUBSET D : SumOn(f, S) = FoldStep(f, g, S)
  BY <1>1 DEF Accumulates
<1>3. SumOn(f, {}) = 0
  BY <1>2 DEF FoldStep
<1>4. ASSUME NEW S \in SUBSET D, S # {}
      PROVE  Pick(S) \in S /\ SumOn(f, S) = f[Pick(S)] + SumOn(f, S \ {Pick(S)})
  <2>1. Pick(S) \in S
    BY <1>4 DEF Pick
  <2> QED BY <1>1, <1>2, <1>4, <2>1 DEF FoldStep
<1>5. SUBSET D \subseteq P
  <2>1. {} \in P
    BY <1>3
  <2>2. ASSUME NEW S \in SUBSET D, S # {}, \A x \in S : S \ {x} \in P
        PROVE  S \in P
    <3>1. Pick(S) \in S /\ SumOn(f, S) = f[Pick(S)] + SumOn(f, S \ {Pick(S)})
      BY <1>4, <2>2
    <3>2. SumOn(f, S \ {Pick(S)}) \in Int /\ f[Pick(S)] \in Int
      BY <2>2, <3>1
    <3> QED BY <3>1, <3>2
  <2> HIDE DEF P
  <2>3. \A S \in SUBSET D : S # {} /\ (\A x \in S : S \ {x} \in P) => S \in P
    BY <2>2
  <2> QED BY <2>1, <2>3, SubsetInduction, Zenon
<1> QED BY <1>3, <1>4, <1>5

\* And it does not matter which one.
LEMMA SumStep ==
  ASSUME NEW D, IsFiniteSet(D), NEW f, \A x \in D : f[x] \in Int
  PROVE  \A S \in SUBSET D : \A x \in S : SumOn(f, S) = f[x] + SumOn(f, S \ {x})
<1> DEFINE P == {S \in SUBSET D : \A x \in S : SumOn(f, S) = f[x] + SumOn(f, S \ {x})}
<1>1. {} \in P
  OBVIOUS
<1>2. ASSUME NEW S \in SUBSET D, S # {}, \A x \in S : S \ {x} \in P
      PROVE  S \in P
  <2> SUFFICES ASSUME NEW x \in S
               PROVE  SumOn(f, S) = f[x] + SumOn(f, S \ {x})
    OBVIOUS
  <2> DEFINE p == Pick(S)
             R == (S \ {x}) \ {p}
  <2>1. p \in S /\ SumOn(f, S) = f[p] + SumOn(f, S \ {p})
    <3>1. \A T \in SUBSET D : T # {} =>
            Pick(T) \in T /\ SumOn(f, T) = f[Pick(T)] + SumOn(f, T \ {Pick(T)})
      BY SumIsInt
    <3> QED BY <1>2, <3>1
  <2>2. CASE x = p
    BY <2>1, <2>2
  <2>3. CASE x # p
    <3>1. x \in S \ {p} /\ p \in S \ {x} /\ (S \ {p}) \ {x} = R
      BY <2>1, <2>3
    <3>2. SumOn(f, S \ {p}) = f[x] + SumOn(f, R)
      BY <1>2, <2>1, <3>1
    <3>3. SumOn(f, S \ {x}) = f[p] + SumOn(f, R)
      BY <1>2, <3>1
    <3>4. SumOn(f, R) \in Int /\ f[x] \in Int /\ f[p] \in Int
      BY <2>1, SumIsInt
    <3> QED BY <2>1, <3>2, <3>3, <3>4
  <2> QED BY <2>2, <2>3
<1>3. SUBSET D \subseteq P
  <2> HIDE DEF P
  <2>1. \A S \in SUBSET D : S # {} /\ (\A x \in S : S \ {x} \in P) => S \in P
    BY <1>2
  <2> QED BY <1>1, <2>1, SubsetInduction, Zenon
<1> QED BY <1>3

\* Induction over the parts of D, for two sums that grow alike.
LEMMA SumLinear ==
  ASSUME NEW D, IsFiniteSet(D), NEW f, NEW g, NEW h,
         NEW a \in Int, NEW b \in Int, NEW c \in Int,
         \A x \in D : /\ f[x] \in Int /\ g[x] \in Int
                      /\ h[x] = a * f[x] + b * g[x] + c
  PROVE  SumOn(h, D) = a * SumOn(f, D) + b * SumOn(g, D) + c * Cardinality(D)
<1> DEFINE P == {S \in SUBSET D :
                   SumOn(h, S) = a * SumOn(f, S) + b * SumOn(g, S) + c * Cardinality(S)}
<1>1. \A x \in D : h[x] \in Int
  OBVIOUS
<1>2. \A S \in SUBSET D :
        /\ SumOn(f, S) \in Int /\ SumOn(g, S) \in Int /\ SumOn(h, S) \in Int
        /\ IsFiniteSet(S) /\ Cardinality(S) \in Nat
  BY <1>1, SumIsInt, FS_Subset, FS_CardinalityType
<1>3. {} \in P
  BY <1>1, SumIsInt, FS_EmptySet
<1>4. ASSUME NEW S \in SUBSET D, S # {}, \A x \in S : S \ {x} \in P
      PROVE  S \in P
  <2>1. PICK x : x \in S
    BY <1>4
  <2> DEFINE R == S \ {x}
  <2>2. R \in P /\ R \in SUBSET D
    BY <1>4, <2>1
  <2>3. /\ SumOn(f, S) = f[x] + SumOn(f, R)
        /\ SumOn(g, S) = g[x] + SumOn(g, R)
        /\ SumOn(h, S) = h[x] + SumOn(h, R)
    BY <1>1, <2>1, SumStep
  <2>4. Cardinality(S) = Cardinality(R) + 1
    <3>1. Cardinality(R) = Cardinality(S) - 1
      BY <1>2, <2>1, FS_RemoveElement, Zenon
    <3> QED BY <1>2, <3>1
  <2> HIDE DEF R
  <2>5. /\ SumOn(f, R) \in Int /\ SumOn(g, R) \in Int /\ Cardinality(R) \in Nat
        /\ f[x] \in Int /\ g[x] \in Int /\ h[x] = a * f[x] + b * g[x] + c
    BY <1>2, <2>1, <2>2
  <2>6. SumOn(h, R) = a * SumOn(f, R) + b * SumOn(g, R) + c * Cardinality(R)
    BY <2>2
  <2>7. SumOn(h, S) = a * SumOn(f, S) + b * SumOn(g, S) + c * Cardinality(S)
    BY <2>3, <2>4, <2>5, <2>6
  <2> QED BY <2>7
<1>5. SUBSET D \subseteq P
  <2> HIDE DEF P
  <2>1. \A S \in SUBSET D : S # {} /\ (\A x \in S : S \ {x} \in P) => S \in P
    BY <1>4
  <2> QED BY <1>3, <2>1, SubsetInduction, Zenon
<1> QED BY <1>5

\* A sum of naturals is one.
LEMMA SumNonNegative ==
  ASSUME NEW D, IsFiniteSet(D), NEW f, \A x \in D : f[x] \in Nat
  PROVE  \A S \in SUBSET D : SumOn(f, S) \in Nat
<1> DEFINE P == {S \in SUBSET D : SumOn(f, S) \in Nat}
<1>1. {} \in P
  BY SumIsInt
<1>2. ASSUME NEW S \in SUBSET D, S # {}, \A x \in S : S \ {x} \in P
      PROVE  S \in P
  <2>1. PICK x : x \in S
    BY <1>2
  <2>2. SumOn(f, S) = f[x] + SumOn(f, S \ {x})
    BY <2>1, SumStep
  <2>3. SumOn(f, S \ {x}) \in Nat /\ f[x] \in Nat
    BY <1>2, <2>1
  <2> QED BY <2>2, <2>3
<1>3. SUBSET D \subseteq P
  <2> HIDE DEF P
  <2>1. \A S \in SUBSET D : S # {} /\ (\A x \in S : S \ {x} \in P) => S \in P
    BY <1>2
  <2> QED BY <1>1, <2>1, SubsetInduction, Zenon
<1> QED BY <1>3

\* No member of a sum without negative ones is more than the whole.
LEMMA MemberOfSum ==
  ASSUME NEW D, IsFiniteSet(D), NEW f, \A x \in D : f[x] \in Nat, NEW y \in D
  PROVE  f[y] <= SumOn(f, D)
<1>1. SumOn(f, D) = f[y] + SumOn(f, D \ {y})
  BY SumStep
<1>2. SumOn(f, D \ {y}) \in Nat
  BY SumNonNegative
<1> QED BY <1>1, <1>2

\* The sum of a single value.
LEMMA SumOfOne ==
  ASSUME NEW x, NEW f, f[x] \in Int
  PROVE  SumOn(f, {x}) = f[x]
<1>1. IsFiniteSet({x})
  BY FS_Singleton
<1>2. SumOn(f, {x}) = f[x] + SumOn(f, {x} \ {x})
  BY <1>1, SumStep
<1>3. SumOn(f, {}) = 0 /\ {x} \ {x} = {}
  BY <1>1, SumIsInt
<1> QED BY <1>2, <1>3

\* Equal values have equal sums.
LEMMA SameSum ==
  ASSUME NEW D, IsFiniteSet(D), NEW f, NEW g, \A x \in D : f[x] \in Int /\ g[x] = f[x]
  PROVE  SumOn(g, D) = SumOn(f, D)
<1>1. \A x \in D : f[x] \in Int /\ f[x] \in Int /\ g[x] = 1 * f[x] + 0 * f[x] + 0
  OBVIOUS
<1>2. SumOn(g, D) = 1 * SumOn(f, D) + 0 * SumOn(f, D) + 0 * Cardinality(D)
  BY <1>1, SumLinear
<1>3. SumOn(f, D) \in Int /\ Cardinality(D) \in Nat
  BY SumIsInt, FS_CardinalityType
<1> QED BY <1>2, <1>3

\* The squares of the distances from the mean: n times the sum of squares, less the
\* square of the sum, bounds what any one of n values is off the mean.
LEMMA Spread ==
  ASSUME NEW D, IsFiniteSet(D), NEW f, \A x \in D : f[x] \in Int, NEW y \in D
  PROVE  LET n == Cardinality(D)
             S == SumOn(f, D)
             Q == SumOn([x \in D |-> f[x] * f[x]], D)
             d == S - n * f[y]
         IN  d * d <= n * (n * Q - S * S)
<1> DEFINE n == Cardinality(D)
           S == SumOn(f, D)
           sq == [x \in D |-> f[x] * f[x]]
           Q == SumOn(sq, D)
           off == [x \in D |-> (S - n * f[x]) * (S - n * f[x])]
<1>1. n \in Nat /\ S \in Int
  BY FS_CardinalityType, SumIsInt
<1>2. \A x \in D : sq[x] \in Int
  OBVIOUS
<1>3. Q \in Int
  BY <1>2, SumIsInt
<1>4. \A x \in D : off[x] = (n * n) * sq[x] + (-2 * n * S) * f[x] + S * S
  <2> SUFFICES ASSUME NEW x \in D
               PROVE  (S - n * f[x]) * (S - n * f[x]) = (n * n) * (f[x] * f[x]) + (-2 * n * S) * f[x] + S * S
    OBVIOUS
  <2> HIDE DEF S, n
  <2> QED BY <1>1
<1>5. SumOn(off, D) = (n * n) * Q + (-2 * n * S) * S + (S * S) * n
  <2> HIDE DEF off, sq, S, n
  <2>1. n * n \in Int /\ -2 * n * S \in Int /\ S * S \in Int
    BY <1>1
  <2>2. SumOn(off, D) = (n * n) * SumOn(sq, D) + (-2 * n * S) * SumOn(f, D) + (S * S) * Cardinality(D)
    BY <1>2, <1>4, <2>1, SumLinear
  <2> QED BY <2>2 DEF S, n
<1>6. \A x \in D : off[x] \in Nat
  <2> SUFFICES ASSUME NEW x \in D
               PROVE  (S - n * f[x]) * (S - n * f[x]) \in Nat
    OBVIOUS
  <2> DEFINE d == S - n * f[x]
  <2>1. d \in Int
    <3> HIDE DEF S, n
    <3> QED BY <1>1
  <2> HIDE DEF d
  <2>2. d * d \in Nat
    BY <2>1
  <2> QED BY <2>2 DEF d
<1>7. off[y] <= SumOn(off, D)
  <2> HIDE DEF off
  <2> QED BY <1>6, MemberOfSum
<1>8. off[y] = (S - n * f[y]) * (S - n * f[y])
  OBVIOUS
<1>9. (n * n) * Q + (-2 * n * S) * S + (S * S) * n = n * (n * Q - S * S)
  <2> HIDE DEF S, n, Q
  <2> QED BY <1>1, <1>3
<1> QED 
  <2> HIDE DEF off
  <2> QED BY <1>5, <1>7, <1>8, <1>9

-----------------------------------------------------------------------------
\* Extrema, quotients, and the series.

\* A finite set of integers that is not empty has a least and a greatest member, and
\* Min and Max are those.
LEMMA Extrema ==
  ASSUME NEW D, IsFiniteSet(D), D \subseteq Int, D # {}
  PROVE  /\ Min(D) \in D /\ \A x \in D : Min(D) <= x
         /\ Max(D) \in D /\ \A x \in D : x <= Max(D)
<1> DEFINE P == {S \in SUBSET D : S # {} => \E m \in S, n \in S : \A x \in S : m <= x /\ x <= n}
<1>1. {} \in P
  OBVIOUS
<1>2. ASSUME NEW S \in SUBSET D, S # {}, \A x \in S : S \ {x} \in P
      PROVE  S \in P
  <2>1. PICK y : y \in S
    BY <1>2
  <2>2. CASE S \ {y} = {}
    <3>1. \A x \in S : y <= x /\ x <= y
      BY <2>1, <2>2
    <3> QED BY <2>1, <3>1
  <2>3. CASE S \ {y} # {}
    <3>1. PICK m \in S \ {y}, n \in S \ {y} : \A x \in S \ {y} : m <= x /\ x <= n
      BY <1>2, <2>1, <2>3
    <3> DEFINE a == IF y < m THEN y ELSE m
               b == IF y > n THEN y ELSE n
    <3>2. a \in S /\ b \in S /\ \A x \in S : a <= x /\ x <= b
      BY <2>1, <3>1
    <3> QED BY <3>2
  <2> QED BY <2>2, <2>3
<1>3. SUBSET D \subseteq P
  <2> HIDE DEF P
  <2>1. \A S \in SUBSET D : S # {} /\ (\A x \in S : S \ {x} \in P) => S \in P
    BY <1>2
  <2> QED BY <1>1, <2>1, SubsetInduction, Zenon
<1>4. PICK m \in D, n \in D : \A x \in D : m <= x /\ x <= n
  BY <1>3
<1>5. \E x \in D : \A y \in D : x >= y
  BY <1>4
<1> QED BY <1>4, <1>5 DEF Min, Max

\* Min and Max of two.
LEMMA OfTwo ==
  ASSUME NEW a \in Int, NEW b \in Int
  PROVE  /\ Min({a, b}) = IF a <= b THEN a ELSE b
         /\ Max({a, b}) = IF a <= b THEN b ELSE a
<1>1. IsFiniteSet({a, b})
  <2>1. {a, b} = {a} \cup {b}
    OBVIOUS
  <2>2. IsFiniteSet({a} \cup {b})
    BY FS_Singleton, FS_AddElement, Zenon
  <2> QED BY <2>1, <2>2, Zenon
<1> QED BY <1>1, Extrema

\* Division rounds down.
LEMMA Rounding ==
  ASSUME NEW a \in Int, NEW d \in Nat \ {0}
  PROVE  /\ a \div d \in Int
         /\ d * (a \div d) <= a /\ a < d * (a \div d) + d
OBVIOUS

\* The quotient is the only integer with such a remainder.
LEMMA Quotient ==
  ASSUME NEW a \in Int, NEW q \in Int, NEW d \in Nat \ {0}, d * q <= a, a < d * q + d
  PROVE  a \div d = q
<1> DEFINE p == a \div d
<1>1. p \in Int /\ d * p <= a /\ a < d * p + d
  BY Rounding
<1> HIDE DEF p
<1>2. d * p < d * q + d /\ d * q < d * p + d
  BY <1>1
<1>3. CASE p < q
  <2>1. p + 1 <= q
    BY <1>1, <1>3
  <2>2. d * (p + 1) <= d * q
    BY <1>1, <2>1
  <2> QED BY <1>1, <1>2, <2>2
<1>4. CASE q < p
  <2>1. q + 1 <= p
    BY <1>1, <1>4
  <2>2. d * (q + 1) <= d * p
    BY <1>1, <2>1
  <2> QED BY <1>1, <1>2, <2>2
<1> QED BY <1>1, <1>3, <1>4 DEF p

\* A larger dividend has no smaller quotient.
LEMMA DivMonotone ==
  ASSUME NEW a \in Int, NEW b \in Int, NEW d \in Nat \ {0}, a <= b
  PROVE  a \div d <= b \div d
<1> DEFINE p == a \div d
           q == b \div d
<1>1. p \in Int /\ d * p <= a /\ a < d * p + d /\ q \in Int /\ d * q <= b /\ b < d * q + d
  BY Rounding
<1> HIDE DEF p, q
<1>2. CASE q < p
  <2>1. q + 1 <= p
    BY <1>1, <1>2
  <2>2. d * (q + 1) <= d * p
    BY <1>1, <2>1
  <2> QED BY <1>1, <2>2
<1> QED BY <1>1, <1>2 DEF p, q

\* Series.Sum is the sum over its stamps.
LEMMA SumOfSeries ==
  ASSUME NEW s
  PROVE  Sum(s) = SumOn(s, DOMAIN s)
BY DEF Sum, SumFunction, SumOn

\* Series.Window keeps the points between its ends as they are.
LEMMA WindowIs ==
  ASSUME NEW s, NEW from, NEW to
  PROVE  /\ Window(s, from, to) = [t \in {t \in DOMAIN s : from <= t /\ t <= to} |-> s[t]]
         /\ DOMAIN Window(s, from, to) = {t \in DOMAIN s : from <= t /\ t <= to}
         /\ \A t \in DOMAIN Window(s, from, to) : Window(s, from, to)[t] = s[t]
BY DEF Window, Restrict

\* A suffix that passes for flat has no deep dip.
LEMMA FlatHasNoDip ==
  ASSUME NEW s, IsFiniteSet(DOMAIN s), \A t \in DOMAIN s : s[t] \in Nat,
         CVAtMost(s, 5), NEW t \in DOMAIN s
  PROVE  LET dip == Sum(s) - s[t] * Points(s)
         IN  /\ 400 * dip * dip <= (Points(s) - 1) * Sum(s) * Sum(s)
             /\ Points(s) <= 17 => 5 * dip <= Sum(s)
<1> DEFINE n == Points(s)
           S == Sum(s)
           Q == Squares(s)
           v == s[t]
           d == S - n * v
<1>1. n \in Nat /\ S \in Nat /\ v \in Nat
  BY FS_CardinalityType, SumNonNegative, SumOfSeries DEF Points
<1>2. Q \in Int
  <2>1. \A y \in DOMAIN s : [x \in DOMAIN s |-> s[x] * s[x]][y] \in Int
    OBVIOUS
  <2>2. SumOn([x \in DOMAIN s |-> s[x] * s[x]], DOMAIN s) \in Int
    BY <2>1, SumIsInt
  <2> QED BY <2>2, SumOfSeries DEF Squares
<1>3. d * d <= n * (n * Q - S * S)
  <2>1. \A x \in DOMAIN s : s[x] \in Int
    OBVIOUS
  <2> QED BY <2>1, Spread, SumOfSeries DEF Points, Squares
<1>4. (10000 \div (5 * 5)) * n * (n * Q - S * S) <= (n - 1) * S * S
  BY DEF CVAtMost
<1> HIDE DEF n, S, Q, v
<1>5. 400 * n * (n * Q - S * S) <= (n - 1) * S * S
  <2>1. 10000 \div (5 * 5) = 400
    OBVIOUS
  <2> QED BY <1>4, <2>1
<1>6. d \in Int
  BY <1>1
<1> DEFINE m == n * (n * Q - S * S)
<1>7. m \in Int /\ 400 * m = 400 * n * (n * Q - S * S) /\ d * d <= m
  BY <1>1, <1>2, <1>3
<1> HIDE DEF d, m
<1>8. 400 * (d * d) <= (n - 1) * S * S
  <2>1. 400 * m <= (n - 1) * S * S
    BY <1>5, <1>7
  <2> QED BY <1>1, <1>6, <1>7, <2>1
<1>9. 400 * d * d <= (n - 1) * S * S
  BY <1>6, <1>8
<1>10. ASSUME n <= 17
       PROVE  5 * d <= S
  <2>1. (n - 1) * (S * S) <= 16 * (S * S)
    BY <1>1, <1>10
  <2>2. (n - 1) * S * S = (n - 1) * (S * S)
    BY <1>1
  <2>3. 25 * (d * d) <= S * S
    BY <1>1, <1>6, <1>8, <2>1, <2>2
  <2>4. CASE 5 * d > S
    <3>1. (5 * d) * (5 * d) > S * S
      BY <1>1, <1>6, <2>4
    <3> QED BY <1>1, <1>6, <2>3, <3>1
  <2> QED BY <1>1, <1>6, <2>4
<1>11. Sum(s) - s[t] * Points(s) = d
  BY <1>1 DEF d, S, n, v
<1> QED BY <1>9, <1>10, <1>11 DEF S, n

-----------------------------------------------------------------------------
\* Series of whole seconds, and DetectSteady over them.

\* The stamps the aggregator gives to seconds (stream.go).
SecondsOf(K) == {k * Second : k \in K}

\* A stamp and its second determine each other.
LEMMA OfSeconds ==
  ASSUME NEW K, K \subseteq Nat
  PROVE  /\ SecondsOf(K) \subseteq Nat
         /\ \A k \in Int : (k * Second) \div Second = k
         /\ \A t \in SecondsOf(K) : t \div Second \in K /\ t = (t \div Second) * Second
         /\ IsFiniteSet(K) => IsFiniteSet(SecondsOf(K))
<1>1. Second \in Nat \ {0}
  BY LoadPassAssumption
<1>2. ASSUME NEW k \in Int
      PROVE  (k * Second) \div Second = k
  <2>1. k * Second \in Int /\ Second * k <= k * Second /\ k * Second < Second * k + Second
    BY <1>1
  <2> QED BY <1>1, <2>1, Quotient
<1>3. SecondsOf(K) \subseteq Nat
  BY <1>1 DEF SecondsOf
<1>4. \A t \in SecondsOf(K) : t \div Second \in K /\ t = (t \div Second) * Second
  BY <1>2 DEF SecondsOf
<1>5. ASSUME IsFiniteSet(K)
      PROVE  IsFiniteSet(SecondsOf(K))
  <2> DEFINE f == [t \in SecondsOf(K) |-> t \div Second]
  <2>1. f \in Injection(SecondsOf(K), K)
    BY <1>4 DEF Injection, IsInjective
  <2> QED BY <1>5, <2>1, FS_Injection
<1> QED BY <1>2, <1>3, <1>4, <1>5

\* A series of whole seconds: at most one point a second, at its beginning.
OnSeconds(s) ==
  /\ s = [t \in DOMAIN s |-> s[t]]
  /\ IsFiniteSet(DOMAIN s)
  /\ DOMAIN s \subseteq SecondsOf(Nat)
  /\ \A t \in DOMAIN s : s[t] \in Nat

\* The type of such a series.
LEMMA OnSecondsType ==
  ASSUME NEW s, OnSeconds(s)
  PROVE  /\ DOMAIN s \subseteq Nat
         /\ DOMAIN s # {} => /\ First(s) \in DOMAIN s /\ \A t \in DOMAIN s : First(s) <= t
                             /\ Last(s) \in DOMAIN s /\ \A t \in DOMAIN s : t <= Last(s)
<1>1. DOMAIN s \subseteq Nat
  BY OfSeconds DEF OnSeconds
<1> QED BY <1>1, Extrema DEF First, Last, OnSeconds

\* Bucketing such a series by the second changes nothing.
LEMMA BucketOfSeconds ==
  ASSUME NEW s, OnSeconds(s)
  PROVE  Bucket(s, Second) = s
<1> DEFINE stamp(t) == First(s) + ((t - First(s)) \div Second) * Second
           in(b) == {t \in DOMAIN s : stamp(t) = b}
<1>1. ASSUME NEW t \in DOMAIN s
      PROVE  stamp(t) = t
  <2>1. t \in SecondsOf(Nat) /\ First(s) \in SecondsOf(Nat)
    BY OnSecondsType DEF OnSeconds
  <2>2. PICK k \in Nat, j \in Nat : t = k * Second /\ First(s) = j * Second
    BY <2>1 DEF SecondsOf
  <2>3. Second \in Nat
    BY LoadPassAssumption
  <2>4. t - First(s) = (k - j) * Second
    BY <2>2, <2>3
  <2>5. ((k - j) * Second) \div Second = k - j
    <3>1. \A i \in Int : (i * Second) \div Second = i
      BY OfSeconds, Nat \subseteq Nat
    <3> QED BY <3>1
  <2>6. First(s) + (k - j) * Second = t
    BY <2>2, <2>3
  <2> QED BY <2>4, <2>5, <2>6
<1>2. {stamp(t) : t \in DOMAIN s} = DOMAIN s
  BY <1>1
<1>3. ASSUME NEW b \in DOMAIN s
      PROVE  Sum(Restrict(s, in(b))) \div Cardinality(in(b)) = s[b]
  <2>1. in(b) = {b}
    BY <1>1, <1>3
  <2> HIDE DEF in
  <2>2. Cardinality(in(b)) = 1
    BY <2>1, FS_Singleton
  <2>3. Restrict(s, in(b)) = [t \in {b} |-> s[t]]
    BY <2>1 DEF Restrict
  <2>4. s[b] \in Nat
    BY DEF OnSeconds
  <2>5. Sum([t \in {b} |-> s[t]]) = s[b]
    <3>1. [t \in {b} |-> s[t]][b] = s[b] /\ DOMAIN [t \in {b} |-> s[t]] = {b}
      OBVIOUS
    <3>2. SumOn([t \in {b} |-> s[t]], {b}) = s[b]
      BY <2>4, <3>1, SumOfOne
    <3> QED BY <3>1, <3>2, SumOfSeries
  <2> QED BY <2>2, <2>3, <2>4, <2>5
<1>4. Bucket(s, Second) = [b \in {stamp(t) : t \in DOMAIN s} |-> Sum(Restrict(s, in(b))) \div Cardinality(in(b))]
  BY DEF Bucket
<1>5. s = [t \in DOMAIN s |-> s[t]]
  BY DEF OnSeconds
<1> HIDE DEF stamp, in
<1> QED BY <1>2, <1>3, <1>4, <1>5

\* A window DetectSteady found runs from a point of the series to its last, and what is
\* in it was found flat.
LEMMA SteadyWindow ==
  ASSUME NEW s, OnSeconds(s), NEW pass, NEW co, NEW quantum,
         NEW w, w = DetectSteady(s, pass, co, quantum), w.ok
  PROVE  /\ w.from \in DOMAIN s /\ w.to = Last(s) /\ w.to \in DOMAIN s
         /\ CVAtMost(Window(s, w.from, w.to), MaxCVPct)
<1> DEFINE over == MinDuration(pass)
           says(t) == Corroborates(co, t, Last(s), over, quantum)
           good == {t \in DOMAIN s :
                 /\ Points(Window(s, t, Last(s))) >= 3
                 /\ Last(s) - t >= over
                 /\ Flat(Window(s, t, Last(s)), over)
                 /\ says(t) # "drifting"}
<1>1. DetectSteady(s, pass, co, quantum)
        = IF good = {} THEN NoWindow
          ELSE [ok |-> TRUE, from |-> Min(good), to |-> Last(s),
                corroborated |-> says(Min(good)) = "agrees"]
  BY BucketOfSeconds DEF DetectSteady
<1>2. good \subseteq DOMAIN s
  OBVIOUS
<1>3. \A t \in good : CVAtMost(Window(s, t, Last(s)), MaxCVPct)
  BY DEF Flat
<1> HIDE DEF good, says
<1>4. good # {}
  BY <1>1 DEF NoWindow
<1>5. Min(good) \in good
  <2>1. IsFiniteSet(good) /\ good \subseteq Int
    BY <1>2, FS_Subset, OnSecondsType DEF OnSeconds
  <2> QED BY <1>4, <2>1, Extrema
<1>6. w.from = Min(good) /\ w.to = Last(s)
  BY <1>1, <1>4
<1> QED BY <1>2, <1>3, <1>5, <1>6, OnSecondsType

-----------------------------------------------------------------------------
\* The series of the aggregator, and selectWindow over them.

\* What the aggregator holds.
BucketsOK ==
  /\ IsFiniteSet(DOMAIN buckets) /\ DOMAIN buckets \subseteq Nat
  /\ \A k \in DOMAIN buckets : buckets[k].requests \in Nat

\* The series of a column of the buckets has a point per bucket, stamped with its second.
LEMMA SeriesOfIs ==
  ASSUME NEW value, DOMAIN value \subseteq Nat
  PROVE  /\ DOMAIN SeriesOf(value) = SecondsOf(DOMAIN value)
         /\ \A k \in DOMAIN value : SeriesOf(value)[k * Second] = value[k]
         /\ \A t \in SecondsOf(DOMAIN value) :
              t \div Second \in DOMAIN value /\ SeriesOf(value)[t] = value[t \div Second]
<1>1. SeriesOf(value) = [t \in SecondsOf(DOMAIN value) |-> value[t \div Second]]
  BY DEF SeriesOf, SecondsOf
<1>2. \A t \in SecondsOf(DOMAIN value) : t \div Second \in DOMAIN value
  BY OfSeconds
<1>3. \A k \in DOMAIN value : k * Second \in SecondsOf(DOMAIN value) /\ (k * Second) \div Second = k
  <2>1. \A k \in Int : (k * Second) \div Second = k
    BY OfSeconds
  <2> QED BY <2>1 DEF SecondsOf
<1> QED BY <1>1, <1>2, <1>3

\* The throughput series is one of whole seconds.
LEMMA ThroughputIs ==
  ASSUME BucketsOK
  PROVE  /\ OnSeconds(RPS)
         /\ DOMAIN RPS = SecondsOf(DOMAIN buckets)
         /\ \A k \in DOMAIN buckets : RPS[k * Second] = buckets[k].requests
<1> DEFINE value == [s \in DOMAIN buckets |-> buckets[s].requests]
<1>1. DOMAIN value = DOMAIN buckets /\ \A k \in DOMAIN buckets : value[k] \in Nat /\ value[k] = buckets[k].requests
  BY DEF BucketsOK
<1>2. RPS = SeriesOf(value)
  BY DEF RPS
<1> HIDE DEF value
<1>3. DOMAIN value \subseteq Nat
  BY <1>1 DEF BucketsOK
<1>4. /\ DOMAIN RPS = SecondsOf(DOMAIN buckets)
      /\ \A k \in DOMAIN buckets : RPS[k * Second] = value[k]
      /\ \A t \in DOMAIN RPS : t \div Second \in DOMAIN value /\ RPS[t] = value[t \div Second]
  BY <1>1, <1>2, <1>3, SeriesOfIs
<1>5. RPS = [t \in DOMAIN RPS |-> RPS[t]]
  BY <1>2 DEF SeriesOf
<1>6. IsFiniteSet(DOMAIN RPS) /\ DOMAIN RPS \subseteq SecondsOf(Nat)
  BY <1>4, OfSeconds DEF BucketsOK, SecondsOf
<1>7. \A t \in DOMAIN RPS : RPS[t] \in Nat
  BY <1>1, <1>4
<1> QED BY <1>1, <1>4, <1>5, <1>6, <1>7 DEF OnSeconds

\* wholeSeconds drops the first and the last point and nothing else.
LEMMA WholeSecondsIs ==
  ASSUME NEW s, OnSeconds(s)
  PROVE  /\ OnSeconds(WholeSeconds(s))
         /\ DOMAIN WholeSeconds(s) = DOMAIN s \ {First(s), Last(s)}
         /\ \A t \in DOMAIN WholeSeconds(s) : WholeSeconds(s)[t] = s[t]
<1> DEFINE D == DOMAIN s \ {First(s), Last(s)}
<1>1. WholeSeconds(s) = [t \in D |-> s[t]]
  BY DEF WholeSeconds, Restrict
<1>2. D \subseteq DOMAIN s
  OBVIOUS
<1>3. IsFiniteSet(D)
  BY <1>2, FS_Subset DEF OnSeconds
<1> HIDE DEF D
<1>4. OnSeconds(WholeSeconds(s))
  BY <1>1, <1>2, <1>3 DEF OnSeconds
<1> QED BY <1>1, <1>4 DEF D

\* The selected window: whole seconds of the pass, and no dip among them.
LEMMA SelectedWindow ==
  ASSUME BucketsOK, SelectWindow.ok
  PROVE  LET w == SelectWindow
             r == Window(RPS, w.from, w.to)
         IN  /\ w.from \in DOMAIN RPS /\ w.to \in DOMAIN RPS
             /\ w.from <= w.to
             /\ First(RPS) < w.from /\ w.to < Last(RPS)
             /\ First(RPS) \in DOMAIN RPS /\ Last(RPS) \in DOMAIN RPS
             /\ IsFiniteSet(DOMAIN r) /\ \A t \in DOMAIN r : r[t] \in Nat
             /\ CVAtMost(r, 5)
<1> DEFINE s == WholeSeconds(RPS)
           co == IF sampler = "full" THEN Rate(cpu) ELSE [t \in {} |-> 0]
           w == SelectWindow
           r == Window(RPS, w.from, w.to)
<1>1. OnSeconds(RPS)
  BY ThroughputIs
<1>2. /\ OnSeconds(s)
      /\ DOMAIN s = DOMAIN RPS \ {First(RPS), Last(RPS)}
      /\ \A t \in DOMAIN s : s[t] = RPS[t]
  BY <1>1, WholeSecondsIs
<1>3. SelectWindow = IF Empty(s) THEN NoWindow
                     ELSE DetectSteady(s, PassSeconds * Second, co, Quantum)
  BY DEF SelectWindow
<1> HIDE DEF s, co
<1>4. w = DetectSteady(s, PassSeconds * Second, co, Quantum)
  BY <1>3 DEF NoWindow
<1>5. /\ w.from \in DOMAIN s /\ w.to = Last(s) /\ w.to \in DOMAIN s
      /\ CVAtMost(Window(s, w.from, w.to), MaxCVPct)
  <2> HIDE DEF w
  <2>1. w.ok
    BY DEF w
  <2> QED BY <1>2, <1>4, <2>1, SteadyWindow
<1>6. w.from \in Nat /\ w.to \in Nat /\ w.from <= w.to
  BY <1>2, <1>5, OnSecondsType
<1>7. /\ First(RPS) < w.from /\ w.to < Last(RPS)
      /\ First(RPS) \in DOMAIN RPS /\ Last(RPS) \in DOMAIN RPS
  <2>1. DOMAIN RPS \subseteq Nat /\ DOMAIN RPS # {}
    BY <1>1, <1>2, <1>5, OnSecondsType
  <2>2. /\ First(RPS) \in DOMAIN RPS /\ \A t \in DOMAIN RPS : First(RPS) <= t
        /\ Last(RPS) \in DOMAIN RPS /\ \A t \in DOMAIN RPS : t <= Last(RPS)
    BY <1>1, <2>1, OnSecondsType
  <2> HIDE DEF w
  <2> QED BY <1>2, <1>5, <2>1, <2>2
<1>8. r = Window(s, w.from, w.to)
  <2> DEFINE in == {t \in DOMAIN RPS : w.from <= t /\ t <= w.to}
  <2>1. in = {t \in DOMAIN s : w.from <= t /\ t <= w.to}
    <3>1. DOMAIN RPS \subseteq Nat
      BY <1>1, OnSecondsType
    <3> HIDE DEF w
    <3> QED BY <1>2, <1>6, <1>7, <3>1
  <2>2. Window(s, w.from, w.to) = [t \in in |-> s[t]] /\ r = [t \in in |-> RPS[t]]
    BY <2>1, Zenon DEF Window, Restrict
  <2>3. \A t \in in : s[t] = RPS[t]
    BY <1>2, <2>1
  <2> HIDE DEF in, r
  <2> QED BY <2>2, <2>3
<1>9. IsFiniteSet(DOMAIN r) /\ \A t \in DOMAIN r : r[t] \in Nat
  <2>1. DOMAIN r \subseteq DOMAIN RPS /\ \A t \in DOMAIN r : r[t] = RPS[t]
    BY DEF Window, Restrict
  <2> HIDE DEF r
  <2> QED BY <1>1, <2>1, FS_Subset DEF OnSeconds
<1>10. CVAtMost(r, 5)
  <2> HIDE DEF w, r
  <2> QED BY <1>5, <1>8 DEF MaxCVPct
<1> HIDE DEF w, r
<1>11. w.from \in DOMAIN RPS /\ w.to \in DOMAIN RPS
  BY <1>2, <1>5
<1> QED BY <1>6, <1>7, <1>9, <1>10, <1>11 DEF w, r

-----------------------------------------------------------------------------
\* The subject's counters.

\* The counters of the subject, and one state of them being no later than another.
Tally == [fast : Nat, mid : Nat, slow : Nat, cpu : Nat]
Below(a, b) == a.fast <= b.fast /\ a.mid <= b.mid /\ a.slow <= b.slow /\ a.cpu <= b.cpu

\* Below is reflexive and transitive.
LEMMA BelowOrder ==
  /\ \A a \in Tally : Below(a, a)
  /\ \A a, b, c \in Tally : Below(a, b) /\ Below(b, c) => Below(a, c)
BY DEF Tally, Below

\* Adding to the counters does not decrease them, and keeps their order.
LEMMA PlusType ==
  \A a, b, c \in Tally :
    /\ Plus(a, b) \in Tally
    /\ Below(a, Plus(a, b))
    /\ Below(b, c) => Below(Plus(a, b), Plus(a, c))
BY DEF Tally, Below, Plus

\* A second adds more to the counters the longer it is under load.
LEMMA ShareType ==
  ASSUME NEW p \in Kinds, NEW m \in Nat, NEW n \in Nat, m <= n
  PROVE  /\ Share(p, m) \in Tally /\ Share(p, n) \in Tally
         /\ Below(Share(p, m), Share(p, n))
<1>1. Second \in Nat \ {0}
  BY LoadPassAssumption
<1>2. ASSUME NEW x \in Nat
      PROVE  /\ (x * m) \div Second \in Nat /\ (x * n) \div Second \in Nat
             /\ (x * m) \div Second <= (x * n) \div Second
  <2>1. x * m \in Nat /\ x * n \in Nat /\ x * m <= x * n
    OBVIOUS
  <2>2. (x * m) \div Second \in Nat /\ (x * n) \div Second \in Nat
    BY <1>1, <2>1
  <2> QED BY <1>1, <2>1, <2>2, DivMonotone
<1>3. p.fast \in Nat /\ p.mid \in Nat /\ p.slow \in Nat /\ p.cpu \in Nat
  BY DEF Kinds
<1> QED BY <1>2, <1>3 DEF Share, Tally, Below

\* Begin and End in a pass of either kind.
LEMMA LoadedType ==
  ASSUME Begin \in Nat, End \in Int, NEW from \in Int, NEW s \in Int, NEW t \in Int, s <= t
  PROVE  /\ Loaded(from, s) \in Nat /\ Loaded(from, t) \in Nat
         /\ Loaded(from, s) <= Loaded(from, t)
         /\ s <= Begin => Loaded(from, s) = 0
         /\ Begin <= from /\ from <= s /\ s <= End => Loaded(from, s) = s - from
<1> DEFINE least(x) == IF x <= End THEN x ELSE End
           most == IF from <= Begin THEN Begin ELSE from
           length(x) == IF 0 <= least(x) - most THEN least(x) - most ELSE 0
<1>1. ASSUME NEW x \in Int
      PROVE  Loaded(from, x) = length(x)
  <2>1. Min({x, End}) = least(x) /\ least(x) \in Int
    BY OfTwo
  <2>2. Max({from, Begin}) = most /\ most \in Int
    BY OfTwo
  <2> DEFINE d == least(x) - most
  <2> HIDE DEF least, most
  <2>3. Max({0, d}) = IF 0 <= d THEN d ELSE 0
    <3>1. d \in Int
      BY <2>1, <2>2
    <3> HIDE DEF d
    <3> QED BY <3>1, OfTwo
  <2> QED BY <2>1, <2>2, <2>3 DEF Loaded
<1>2. Loaded(from, s) = length(s) /\ Loaded(from, t) = length(t)
  BY <1>1
<1>3. length(s) \in Nat /\ length(t) \in Nat /\ length(s) <= length(t)
  OBVIOUS
<1>4. s <= Begin => length(s) = 0
  OBVIOUS
<1>5. Begin <= from /\ from <= s /\ s <= End => length(s) = s - from
  OBVIOUS
<1> HIDE DEF length
<1> QED BY <1>2, <1>3, <1>4, <1>5

\* Counters that start at Prior and grow by inc[k] in second k.
Grows(g, n, inc) == g = [k \in 0..n |-> IF k = 0 THEN Prior ELSE Plus(g[k-1], inc[k-1])]

\* Such a history of the counters exists,
LEMMA GrowthExists ==
  ASSUME NEW n \in Nat, NEW inc
  PROVE  \E g : Grows(g, n, inc)
<1> DEFINE P == {m \in Nat : \E g : Grows(g, m, inc)}
<1>1. 0 \in P
  <2>1. Grows([k \in 0..0 |-> Prior], 0, inc)
    BY DEF Grows
  <2> QED BY <2>1, Zenon
<1>2. ASSUME NEW m \in Nat, m \in P
      PROVE  m + 1 \in P
  <2>1. PICK g : Grows(g, m, inc)
    BY <1>2
  <2> DEFINE h == [k \in 0..(m + 1) |-> IF k = m + 1 THEN Plus(g[m], inc[m]) ELSE g[k]]
  <2>2. ASSUME NEW k \in 0..(m + 1)
        PROVE  h[k] = IF k = 0 THEN Prior ELSE Plus(h[k-1], inc[k-1])
    <3>1. CASE k = m + 1
      <4>1. h[k - 1] = g[m] /\ h[k] = Plus(g[m], inc[m]) /\ k - 1 = m /\ k # 0
        BY <3>1
      <4> HIDE DEF h
      <4> QED BY <4>1
    <3>2. CASE k \in 0..m
      <4>1. g[k] = IF k = 0 THEN Prior ELSE Plus(g[k-1], inc[k-1])
        BY <2>1, <3>2 DEF Grows
      <4>2. h[k] = g[k] /\ (k # 0 => h[k-1] = g[k-1])
        BY <3>2
      <4> HIDE DEF h
      <4> QED BY <4>1, <4>2
    <3> QED BY <3>1, <3>2
  <2>3. Grows(h, m + 1, inc)
    BY <2>2 DEF Grows
  <2> QED BY <2>3
<1>3. Nat \subseteq P
  <2> HIDE DEF P
  <2> QED BY <1>1, <1>2, NatClosed
<1> QED BY <1>3

\* and is the only one.
LEMMA GrowthAgrees ==
  ASSUME NEW n \in Nat, NEW m \in Nat, n <= m, NEW inc, NEW jnc, NEW g, NEW h,
         Grows(g, n, inc), Grows(h, m, jnc), \A k \in 0..(n - 1) : inc[k] = jnc[k]
  PROVE  \A k \in 0..n : g[k] = h[k]
<1> DEFINE P == {k \in Nat : k <= n => g[k] = h[k]}
<1>1. 0 \in P
  BY DEF Grows
<1>2. ASSUME NEW k \in Nat, k \in P
      PROVE  k + 1 \in P
  <2> SUFFICES ASSUME k + 1 <= n PROVE g[k + 1] = h[k + 1]
    OBVIOUS
  <2>1. g[k + 1] = Plus(g[k], inc[k]) /\ h[k + 1] = Plus(h[k], jnc[k])
    <3>1. k + 1 \in 0..n /\ k + 1 \in 0..m /\ k + 1 # 0 /\ (k + 1) - 1 = k
      OBVIOUS
    <3> QED BY <3>1 DEF Grows
  <2> QED BY <1>2, <2>1
<1>3. Nat \subseteq P
  <2> HIDE DEF P
  <2> QED BY <1>1, <1>2, NatClosed
<1> QED BY <1>3

\* What the warm-up pass left is a state of the counters.
LEMMA PriorType == Prior \in Tally
BY DEF Prior, Tally

\* The counters never decrease along such a history.
LEMMA GrowthType ==
  ASSUME NEW n \in Nat, NEW inc, \A k \in 0..(n - 1) : inc[k] \in Tally, NEW g, Grows(g, n, inc)
  PROVE  /\ \A k \in 0..n : g[k] \in Tally
         /\ \A j, k \in 0..n : j <= k => Below(g[j], g[k])
<1> DEFINE P == {k \in Nat : k <= n => g[k] \in Tally /\ \A j \in 0..k : g[j] \in Tally /\ Below(g[j], g[k])}
<1>0. \A k \in Nat : k + 1 <= n => g[k + 1] = Plus(g[k], inc[k])
  <2> SUFFICES ASSUME NEW k \in Nat, k + 1 <= n PROVE g[k + 1] = Plus(g[k], inc[k])
    OBVIOUS
  <2>1. k + 1 \in 0..n /\ k + 1 # 0 /\ (k + 1) - 1 = k
    OBVIOUS
  <2> QED BY <2>1 DEF Grows
<1>1. 0 \in P
  <2>1. g[0] = Prior
    BY DEF Grows
  <2>2. \A j \in 0..0 : j = 0
    OBVIOUS
  <2> QED BY <2>1, <2>2, PriorType, BelowOrder
<1>2. ASSUME NEW k \in Nat, k \in P
      PROVE  k + 1 \in P
  <2> SUFFICES ASSUME k + 1 <= n
               PROVE  g[k + 1] \in Tally /\ \A j \in 0..(k + 1) : g[j] \in Tally /\ Below(g[j], g[k + 1])
    OBVIOUS
  <2>1. g[k] \in Tally /\ \A j \in 0..k : g[j] \in Tally /\ Below(g[j], g[k])
    BY <1>2
  <2>2. inc[k] \in Tally
    OBVIOUS
  <2>3. g[k + 1] \in Tally /\ Below(g[k], g[k + 1])
    BY <1>0, <2>1, <2>2, PlusType
  <2>4. ASSUME NEW j \in 0..(k + 1)
        PROVE  g[j] \in Tally /\ Below(g[j], g[k + 1])
    <3>1. CASE j = k + 1
      BY <2>3, <3>1, BelowOrder
    <3>2. CASE j \in 0..k
      BY <2>1, <2>3, <3>2, BelowOrder
    <3> QED BY <3>1, <3>2
  <2> QED BY <2>3, <2>4
<1>3. Nat \subseteq P
  <2> HIDE DEF P
  <2> QED BY <1>1, <1>2, NatClosed
<1> QED BY <1>3

\* What the counters gain in each second of the pass so far.
Gains == [k \in 0..(second - 1) |-> Share(seconds[k], Loaded(k * Second, k * Second + Second))]

\* The clocks and the seconds produced so far have their types.
Clocked ==
  /\ second \in Nat
  /\ seconds \in [0..(second - 1) -> Kinds]
  /\ Begin \in Nat /\ End \in Int

\* The recursion of Counted, unfolded.
LEMMA CountedIs ==
  ASSUME second \in Nat
  PROVE  Grows(Counted, second, Gains)
<1> DEFINE IsCounted(g) ==
      g = [k \in 0..second |->
             IF k = 0 THEN Prior
             ELSE Plus(g[k-1], Share(seconds[k-1], Loaded((k - 1) * Second, k * Second)))]
<1>1. ASSUME NEW g
      PROVE  IsCounted(g) <=> Grows(g, second, Gains)
  <2>1. ASSUME NEW k \in 0..second
        PROVE  (IF k = 0 THEN Prior
                ELSE Plus(g[k-1], Share(seconds[k-1], Loaded((k - 1) * Second, k * Second))))
                 = (IF k = 0 THEN Prior ELSE Plus(g[k-1], Gains[k-1]))
    <3>1. CASE k = 0
      BY <3>1
    <3>2. CASE k # 0
      <4>1. k - 1 \in 0..(second - 1) /\ (k - 1) * Second + Second = k * Second
        BY <3>2, LoadPassAssumption
      <4>2. Gains[k-1] = Share(seconds[k-1], Loaded((k - 1) * Second, k * Second))
        BY <4>1 DEF Gains
      <4> QED BY <3>2, <4>2
    <3> QED BY <3>1, <3>2
  <2>2. [k \in 0..second |-> IF k = 0 THEN Prior
           ELSE Plus(g[k-1], Share(seconds[k-1], Loaded((k - 1) * Second, k * Second)))]
         = [k \in 0..second |-> IF k = 0 THEN Prior ELSE Plus(g[k-1], Gains[k-1])]
    BY <2>1
  <2> QED BY <2>2 DEF Grows
<1>2. PICK g : Grows(g, second, Gains)
  BY GrowthExists
<1>3. Counted = CHOOSE h : IsCounted(h)
  BY DEF Counted
<1> HIDE DEF IsCounted
<1>4. IsCounted(Counted)
  BY <1>1, <1>2, <1>3
<1> QED BY <1>1, <1>4

\* The counters at the beginnings of the seconds never decrease.
LEMMA CountedType ==
  ASSUME Clocked
  PROVE  /\ \A k \in 0..second : Counted[k] \in Tally
         /\ \A j, k \in 0..second : j <= k => Below(Counted[j], Counted[k])
         /\ Counted[0] = Prior
         /\ \A k \in 0..(second - 1) :
              /\ Counted[k + 1] = Plus(Counted[k], Gains[k])
              /\ Gains[k] = Share(seconds[k], Loaded(k * Second, k * Second + Second))
<1>1. \A k \in 0..(second - 1) : Gains[k] \in Tally
  <2> TAKE k \in 0..(second - 1)
  <2>1. k * Second \in Int /\ k * Second + Second \in Int
    BY LoadPassAssumption DEF Clocked
  <2>2. Loaded(k * Second, k * Second + Second) \in Nat
    BY <2>1, LoadedType DEF Clocked
  <2>3. Share(seconds[k], Loaded(k * Second, k * Second + Second)) \in Tally
    BY <2>2, ShareType DEF Clocked
  <2> QED BY <2>3 DEF Gains
<1>2. Grows(Counted, second, Gains)
  BY CountedIs DEF Clocked
<1>3. second \in Nat
  BY DEF Clocked
<1>4. /\ \A k \in 0..second : Counted[k] \in Tally
      /\ \A j, k \in 0..second : j <= k => Below(Counted[j], Counted[k])
  BY <1>1, <1>2, <1>3, GrowthType
<1>5. Counted[0] = Prior
  BY <1>2, <1>3 DEF Grows
<1>6. ASSUME NEW k \in 0..(second - 1)
      PROVE  Counted[k + 1] = Plus(Counted[k], Gains[k])
  <2>1. k + 1 \in 0..second /\ k + 1 # 0 /\ (k + 1) - 1 = k
    BY <1>3
  <2> QED BY <1>2, <2>1 DEF Grows
<1> QED BY <1>4, <1>5, <1>6 DEF Gains

\* The second a tick is in.
LEMMA SecondOf ==
  ASSUME NEW t \in Nat
  PROVE  /\ t \div Second \in Nat
         /\ (t \div Second) * Second <= t /\ t < (t \div Second) * Second + Second
<1>1. Second \in Nat \ {0}
  BY LoadPassAssumption
<1>2. t \div Second \in Nat
  BY <1>1
<1> QED BY <1>1, <1>2, Rounding

\* The counters at a tick: those of the beginning of its second and its share of it.
LEMMA TruthType ==
  ASSUME Clocked, NEW t \in Int
  PROVE  /\ Truth(t) \in Tally
         /\ t < 0 => Truth(t) = Prior
         /\ t >= 0 => LET k == t \div Second
                      IN /\ k < second => /\ Truth(t) = Plus(Counted[k], Share(seconds[k], Loaded(k * Second, t)))
                                          /\ Below(Counted[k], Truth(t)) /\ Below(Truth(t), Counted[k + 1])
                         /\ k >= second => Truth(t) = Counted[second]
<1>1. CASE t < 0
  BY <1>1, PriorType DEF Truth
<1>2. CASE t >= 0
  <2> DEFINE k == t \div Second
  <2>1. t \in Nat /\ k \in Nat /\ k * Second <= t /\ t < k * Second + Second
    BY <1>2, SecondOf
  <2>2. CASE k >= second
    <3>1. Truth(t) = Counted[second]
      BY <1>2, <2>2 DEF Truth
    <3> HIDE DEF k
    <3> QED BY <1>2, <2>1, <2>2, <3>1, CountedType DEF Clocked, k
  <2>3. CASE k < second
    <3>1. Truth(t) = Plus(Counted[k], Share(seconds[k], Loaded(k * Second, t)))
      <4>1. ~(k >= second) /\ ~(t < 0)
        BY <1>2, <2>1, <2>3 DEF Clocked
      <4> QED BY <4>1 DEF Truth
    <3> DEFINE part == Share(seconds[k], Loaded(k * Second, t))
               whole == Share(seconds[k], Loaded(k * Second, k * Second + Second))
    <3>2. k \in 0..(second - 1)
      BY <2>1, <2>3 DEF Clocked
    <3>3. Counted[k] \in Tally /\ Counted[k + 1] = Plus(Counted[k], whole)
      <4>1. k \in 0..second
        BY <3>2 DEF Clocked
      <4> HIDE DEF k
      <4> QED BY <3>2, <4>1, CountedType
    <3>4. part \in Tally /\ whole \in Tally /\ Below(part, whole)
      <4>1. k * Second \in Int /\ k * Second + Second \in Int
        BY <2>1, LoadPassAssumption
      <4> HIDE DEF k
      <4>2. /\ Loaded(k * Second, t) \in Nat /\ Loaded(k * Second, k * Second + Second) \in Nat
            /\ Loaded(k * Second, t) <= Loaded(k * Second, k * Second + Second)
        BY <2>1, <4>1, LoadedType DEF Clocked
      <4>3. seconds[k] \in Kinds
        BY <3>2 DEF Clocked
      <4> QED BY <4>2, <4>3, ShareType
    <3>5. /\ Plus(Counted[k], part) \in Tally
          /\ Below(Counted[k], Plus(Counted[k], part))
          /\ Below(Plus(Counted[k], part), Plus(Counted[k], whole))
      <4> HIDE DEF k, part, whole
      <4> QED BY <3>3, <3>4, PlusType
    <3> HIDE DEF k
    <3> QED BY <1>2, <2>1, <2>3, <3>1, <3>3, <3>5 DEF Clocked, k
  <2> HIDE DEF k
  <2> QED BY <2>1, <2>2, <2>3 DEF Clocked
<1> QED BY <1>1, <1>2

\* The counters never decrease from one tick to a later one.
LEMMA TruthMonotone ==
  ASSUME Clocked, NEW s \in Int, NEW t \in Int, s <= t
  PROVE  Below(Truth(s), Truth(t))
<1> DEFINE j == s \div Second
           k == t \div Second
<1>0. \A i \in 0..second : Counted[i] \in Tally /\ Below(Prior, Counted[i])
  <2>1. 0 \in 0..second
    BY DEF Clocked
  <2> QED BY <2>1, CountedType
<1>1. Truth(s) \in Tally /\ Truth(t) \in Tally
  BY TruthType
<1>2. CASE t < 0
  <2>1. Truth(s) = Prior /\ Truth(t) = Prior
    BY <1>2, TruthType
  <2> QED BY <2>1, PriorType, BelowOrder
<1>3. CASE t >= 0 /\ s < 0
  <2>1. Truth(s) = Prior
    BY <1>3, TruthType
  <2>2. k \in Nat
    BY <1>3, SecondOf
  <2>3. CASE k >= second
    <3>1. Truth(t) = Counted[second] /\ second \in 0..second
      BY <1>3, <2>3, TruthType DEF Clocked
    <3> QED BY <1>0, <2>1, <3>1
  <2>4. CASE k < second
    <3>1. Below(Counted[k], Truth(t)) /\ k \in 0..second
      BY <1>3, <2>2, <2>4, TruthType DEF Clocked
    <3> HIDE DEF k
    <3> QED BY <1>0, <1>1, <2>1, <3>1, PriorType, BelowOrder
  <2> QED BY <2>2, <2>3, <2>4 DEF Clocked
<1>4. CASE s >= 0
  <2>1. /\ j \in Nat /\ j * Second <= s /\ s < j * Second + Second
        /\ k \in Nat /\ k * Second <= t /\ t < k * Second + Second
    <3>1. s \in Nat /\ t \in Nat
      BY <1>4
    <3> QED BY <3>1, SecondOf
  <2>2. j <= k
    BY <1>4, DivMonotone, LoadPassAssumption
  <2>3. CASE j >= second
    <3>1. Truth(s) = Counted[second]
      BY <1>4, <2>3, TruthType
    <3>2. k >= second /\ t >= 0
      <4> HIDE DEF j, k
      <4> QED BY <1>4, <2>1, <2>2, <2>3 DEF Clocked
    <3>3. Truth(t) = Counted[second]
      BY <3>2, TruthType
    <3> QED BY <1>1, <3>1, <3>3, BelowOrder
  <2>4. CASE j < second /\ j = k
    <3>1. /\ Truth(s) = Plus(Counted[j], Share(seconds[j], Loaded(j * Second, s)))
          /\ Truth(t) = Plus(Counted[k], Share(seconds[k], Loaded(k * Second, t)))
      <4>1. j < second /\ k < second /\ s >= 0 /\ t >= 0
        BY <1>4, <2>4
      <4> QED BY <4>1, TruthType
    <3> HIDE DEF j, k
    <3>2. j \in 0..(second - 1) /\ j \in 0..second /\ j * Second \in Int
      BY <2>1, <2>4, LoadPassAssumption DEF Clocked
    <3>3. /\ Loaded(j * Second, s) \in Nat /\ Loaded(j * Second, t) \in Nat
          /\ Loaded(j * Second, s) <= Loaded(j * Second, t)
      BY <3>2, LoadedType DEF Clocked
    <3>4. seconds[j] \in Kinds
      BY <3>2 DEF Clocked
    <3>5. /\ Share(seconds[j], Loaded(j * Second, s)) \in Tally
          /\ Share(seconds[j], Loaded(j * Second, t)) \in Tally
          /\ Below(Share(seconds[j], Loaded(j * Second, s)), Share(seconds[j], Loaded(j * Second, t)))
      BY <3>3, <3>4, ShareType
    <3>6. Counted[j] \in Tally
      BY <1>0, <3>2
    <3> QED BY <2>4, <3>1, <3>5, <3>6, PlusType
  <2>5. CASE j < second /\ j < k
    <3>1. Below(Truth(s), Counted[j + 1])
      BY <1>4, <2>5, TruthType
    <3>2. j + 1 \in 0..second
      <4> HIDE DEF j, k
      <4> QED BY <2>1, <2>5 DEF Clocked
    <3>3. CASE k >= second
      <4>1. Truth(t) = Counted[second]
        BY <1>4, <3>3, TruthType
      <4>2. second \in 0..second /\ j + 1 <= second
        BY <3>2 DEF Clocked
      <4> HIDE DEF j, k
      <4>3. Below(Counted[j + 1], Counted[second])
        BY <3>2, <4>2, CountedType
      <4> QED BY <1>0, <1>1, <3>1, <3>2, <4>1, <4>2, <4>3, BelowOrder
    <3>4. CASE k < second
      <4>1. Below(Counted[k], Truth(t))
        BY <1>4, <3>4, TruthType
      <4> HIDE DEF j, k
      <4>2. k \in 0..second /\ j + 1 <= k
        BY <2>1, <2>5, <3>4 DEF Clocked
      <4>3. Below(Counted[j + 1], Counted[k])
        BY <3>2, <4>2, CountedType
      <4>4. Counted[j + 1] \in Tally /\ Counted[k] \in Tally
        BY <1>0, <3>2, <4>2
      <4>5. Below(Truth(s), Counted[k])
        BY <1>1, <3>1, <4>3, <4>4, BelowOrder
      <4> QED BY <1>1, <4>1, <4>4, <4>5, BelowOrder
    <3> HIDE DEF j, k
    <3> QED BY <2>1, <3>3, <3>4 DEF Clocked
  <2> HIDE DEF j, k
  <2> QED BY <2>1, <2>2, <2>3, <2>4, <2>5 DEF Clocked
<1> QED BY <1>2, <1>3, <1>4

-----------------------------------------------------------------------------
\* The ramp.

\* The constants of a capacity pass.
RampTypes ==
  /\ Second \in Nat \ {0} /\ StartRate \in Nat /\ PeakRate \in Nat /\ StartRate <= PeakRate
  /\ Steps \in Nat \ {0} /\ Dwell \in Nat \ {0} /\ Transition \in Nat \ {0}

\* The targets of the rungs lie between the first and the last rate, and rise.
LEMMA TargetsAre ==
  /\ RampTypes
  /\ \A i \in 1..Steps : Target(StartRate, PeakRate, Steps, i) \in StartRate..PeakRate
  /\ \A i, j \in 1..Steps : i <= j => Target(StartRate, PeakRate, Steps, i)
                                        <= Target(StartRate, PeakRate, Steps, j)
<1>1. RampTypes
  BY LoadPassAssumption DEF RampTypes
<1>2. CASE Steps = 1
  <2>1. \A i \in 1..Steps : Target(StartRate, PeakRate, Steps, i) = PeakRate
    BY <1>2 DEF Target
  <2> QED BY <1>1, <2>1 DEF RampTypes
<1>3. CASE Steps > 1
  <2> DEFINE r == PeakRate - StartRate
             d == Steps - 1
             part(i) == (r * (i - 1)) \div d
  <2>1. \A i \in 1..Steps : Target(StartRate, PeakRate, Steps, i) = StartRate + part(i)
    BY <1>3 DEF Target
  <2>2. d \in Nat \ {0} /\ r \in Nat /\ Steps = d + 1 /\ PeakRate = StartRate + r /\ StartRate \in Nat
    BY <1>1, <1>3 DEF RampTypes
  <2> HIDE DEF d, r
  <2>3. \A i \in 1..Steps : i - 1 \in Nat /\ i - 1 <= d /\ r * (i - 1) \in Int /\ part(i) \in Int
    BY <2>2
  <2>4. ASSUME NEW i \in 1..Steps, NEW j \in 1..Steps, i <= j
        PROVE  part(i) <= part(j)
    <3>1. r * (i - 1) <= r * (j - 1)
      BY <2>2, <2>4
    <3> QED BY <2>2, <2>3, <3>1, DivMonotone
  <2>5. part(1) = 0
    <3>1. r * (1 - 1) = 0
      BY <2>2
    <3>2. 0 \div d = 0
      BY <2>2
    <3> QED BY <3>1, <3>2
  <2>6. part(Steps) = r
    <3>1. Steps - 1 = d /\ r * d \in Int /\ d * r <= r * d /\ r * d < d * r + d /\ r \in Int
      BY <2>2
    <3>2. (r * d) \div d = r
      BY <2>2, <3>1, Quotient
    <3> QED BY <3>1, <3>2
  <2>7. \A i \in 1..Steps : part(i) \in 0..r
    <3> TAKE i \in 1..Steps
    <3>1. 1 \in 1..Steps /\ Steps \in 1..Steps /\ 1 <= i /\ i <= Steps
      BY <2>2
    <3> HIDE DEF part
    <3> QED BY <2>3, <2>4, <2>5, <2>6, <3>1
  <2> HIDE DEF part
  <2> QED BY <1>1, <2>1, <2>2, <2>3, <2>4, <2>7
<1> QED BY <1>1, <1>2, <1>3 DEF RampTypes

\* The stages: to the start rate, then rung by rung, a transition and a dwell each.
LEMMA StagesAre ==
  /\ Len(Stages) = 2 * Steps + 2
  /\ \A j \in 1..(2 * Steps + 2) :
       /\ Stages[j].duration = IF j % 2 = 1 THEN Transition ELSE Dwell
       /\ Stages[j].target = IF j <= 2 THEN StartRate
                             ELSE Target(StartRate, PeakRate, Steps, (j - 1) \div 2)
<1> DEFINE first == <<[target |-> StartRate, duration |-> Transition],
                      [target |-> StartRate, duration |-> WarmUp]>>
           rungs == RampStages(StartRate, PeakRate, Steps, Dwell, Transition)
           T == [target : Nat, duration : Nat]
<1>1. RampTypes /\ 2 * Steps \in Nat
  BY TargetsAre DEF RampTypes
<1>2. first \in Seq(T) /\ Len(first) = 2
  BY <1>1 DEF RampTypes, WarmUp
<1>3. \A k \in 1..(2 * Steps) :
        /\ rungs[k].target = Target(StartRate, PeakRate, Steps, (k + 1) \div 2)
        /\ rungs[k].duration = IF k % 2 = 1 THEN Transition ELSE Dwell
  BY DEF RampStages
<1>4. rungs \in [1..(2 * Steps) -> T]
  <2>1. \A k \in 1..(2 * Steps) : Target(StartRate, PeakRate, Steps, (k + 1) \div 2) \in Nat
    <3> TAKE k \in 1..(2 * Steps)
    <3>1. (k + 1) \div 2 \in 1..Steps
      BY <1>1 DEF RampTypes
    <3> QED BY <1>1, <3>1, TargetsAre DEF RampTypes
  <2> QED BY <1>1, <2>1 DEF RampStages, RampTypes
<1>5. rungs \in Seq(T) /\ Len(rungs) = 2 * Steps
  <2> HIDE DEF rungs, T
  <2>1. rungs \in Seq(T)
    BY <1>1, <1>4, SeqDef
  <2> QED BY <1>1, <1>4, <2>1, LenProperties
<1> HIDE DEF rungs, T, first
<1>6. /\ Len(first \o rungs) = 2 + 2 * Steps
      /\ \A j \in 1..(2 + 2 * Steps) : (first \o rungs)[j] = IF j <= 2 THEN first[j] ELSE rungs[j - 2]
  <2>1. /\ Len(first \o rungs) = Len(first) + Len(rungs)
        /\ \A j \in 1..(Len(first) + Len(rungs)) :
             (first \o rungs)[j] = IF j <= Len(first) THEN first[j] ELSE rungs[j - Len(first)]
    BY <1>2, <1>5, ConcatProperties, Zenon
  <2> QED BY <1>2, <1>5, <2>1
<1>7. Stages = first \o rungs
  BY DEF Stages, first, rungs
<1>8. ASSUME NEW j \in 1..(2 * Steps + 2)
      PROVE  /\ Stages[j].duration = IF j % 2 = 1 THEN Transition ELSE Dwell
             /\ Stages[j].target = IF j <= 2 THEN StartRate
                             ELSE Target(StartRate, PeakRate, Steps, (j - 1) \div 2)
  <2>1. CASE j = 1
    <3>1. Stages[j] = first[1]
      BY <1>1, <1>6, <1>7, <2>1
    <3> QED BY <2>1, <3>1 DEF first
  <2>2. CASE j = 2
    <3>1. Stages[j] = first[2]
      BY <1>1, <1>6, <1>7, <2>2
    <3> QED BY <2>2, <3>1 DEF first, WarmUp
  <2>3. CASE j > 2
    <3>1. Stages[j] = rungs[j - 2] /\ j - 2 \in 1..(2 * Steps) /\ (j - 2) + 1 = j - 1
      BY <1>1, <1>6, <1>7, <2>3 DEF RampTypes
    <3>2. (j - 2) % 2 = j % 2
      BY <2>3
    <3> QED BY <1>3, <2>3, <3>1, <3>2
  <2> QED BY <2>1, <2>2, <2>3
<1>9. Len(Stages) = 2 * Steps + 2
  BY <1>1, <1>6, <1>7
<1> QED BY <1>8, <1>9

\* A stage begins where the one before it ends.
LEMMA StageBeginsAre ==
  /\ StageBegins(1) = 0
  /\ \A j \in 1..(2 * Steps + 2) : /\ StageBegins(j) \in Nat /\ StageBegins(j + 1) \in Nat
                                   /\ StageBegins(j + 1) = StageBegins(j) + Stages[j].duration
                                   /\ Stages[j].duration \in Nat \ {0}
  /\ RampLength = StageBegins((2 * Steps + 2) + 1)
<1>1. RampTypes
  BY TargetsAre
<1>2. StageBegins(1) = 0
  BY <1>1 DEF StageBegins, RampTypes
<1>3. RampLength = StageBegins((2 * Steps + 2) + 1)
  BY StagesAre DEF RampLength
<1>4. ASSUME NEW j \in 1..(2 * Steps + 2)
      PROVE  /\ StageBegins(j) \in Nat /\ StageBegins(j + 1) \in Nat
             /\ StageBegins(j + 1) = StageBegins(j) + Stages[j].duration
             /\ Stages[j].duration \in Nat \ {0}
  <2>1. PICK k \in Nat, b \in {0, 1} : j = 2 * k + b
    <3>1. j \in Nat
      BY <1>1 DEF RampTypes
    <3> DEFINE q == j \div 2
    <3>2. q \in Nat /\ 2 * q <= j /\ j < 2 * q + 2
      BY <3>1, Rounding
    <3> HIDE DEF q
    <3>3. j - 2 * q \in {0, 1} /\ j = 2 * q + (j - 2 * q)
      BY <3>1, <3>2
    <3> QED BY <3>2, <3>3
  <2>2. CASE b = 0
    <3>1. j \div 2 = k /\ (j - 1) \div 2 = k - 1 /\ (j + 1) \div 2 = k /\ ((j + 1) - 1) \div 2 = k /\ j % 2 = 0 /\ k - 1 \in Nat
      BY <2>1, <2>2
    <3>2. StageBegins(j) = k * Transition + (k - 1) * Dwell /\ StageBegins(j + 1) = k * Transition + k * Dwell
      BY <3>1 DEF StageBegins
    <3>3. Stages[j].duration = Dwell
      BY <3>1, StagesAre
    <3> QED BY <1>1, <3>1, <3>2, <3>3 DEF RampTypes
  <2>3. CASE b = 1
    <3>1. j \div 2 = k /\ (j - 1) \div 2 = k /\ (j + 1) \div 2 = k + 1 /\ ((j + 1) - 1) \div 2 = k /\ j % 2 = 1
      BY <2>1, <2>3
    <3>2. StageBegins(j) = k * Transition + k * Dwell /\ StageBegins(j + 1) = (k + 1) * Transition + k * Dwell
      BY <3>1 DEF StageBegins
    <3>3. Stages[j].duration = Transition
      BY <3>1, StagesAre
    <3>4. (k + 1) * Transition = k * Transition + Transition
      BY <1>1, <2>1 DEF RampTypes
    <3>5. k * Transition \in Nat /\ k * Dwell \in Nat /\ Transition \in Nat \ {0}
      BY <1>1, <2>1 DEF RampTypes
    <3> QED BY <3>2, <3>3, <3>4, <3>5
  <2> QED BY <2>1, <2>2, <2>3
<1> QED BY <1>2, <1>3, <1>4

\* The rate offered at every tick of the ramp is a natural: the tick lies in a stage.
LEMMA OfferedIs ==
  ASSUME NEW t \in 0..(RampLength - 1)
  PROVE  OfferedAt(t) \in Nat
<1> DEFINE N == 2 * Steps + 2
           within(j) == StageBegins(j) <= t /\ t < StageBegins(j + 1)
           Ahead == {j \in 1..N : t < StageBegins(j + 1)}
           j0 == CHOOSE j \in 1..Len(Stages) : StageBegins(j) <= t /\ t < StageBegins(j + 1)
<1>1. RampTypes /\ N \in Nat /\ N >= 2 /\ RampLength \in Nat
  <2>1. RampTypes /\ N \in Nat /\ N >= 2 /\ N \in 1..N
    BY TargetsAre DEF RampTypes
  <2> HIDE DEF N
  <2> QED BY <2>1, StageBeginsAre DEF N
<1>2. PICK m \in Ahead : \A j \in Ahead : m <= j
  <2>1. N \in Ahead
    <3>1. N \in 1..N /\ RampLength = StageBegins(N + 1) /\ t < RampLength
      BY <1>1, StageBeginsAre
    <3> QED BY <3>1
  <2>2. Ahead \subseteq Nat
    OBVIOUS
  <2> HIDE DEF Ahead
  <2> QED BY <2>1, <2>2, Least
<1>3. within(m)
  <2>1. CASE m = 1
    BY <1>2, <2>1, StageBeginsAre
  <2>2. CASE m # 1
    <3>1. m - 1 \in 1..N /\ m - 1 \notin Ahead /\ (m - 1) + 1 = m
      <4>1. m \in 1..N /\ m - 1 \in 1..N /\ (m - 1) + 1 = m /\ ~(m <= m - 1)
        BY <1>1, <1>2, <2>2
      <4> HIDE DEF Ahead
      <4> QED BY <1>2, <4>1
    <3>2. ~(t < StageBegins(m))
      BY <3>1
    <3>3. StageBegins(m) \in Nat
      BY <1>2, StageBeginsAre
    <3> QED BY <1>2, <3>2, <3>3
  <2> QED BY <2>1, <2>2
<1>4. j0 \in 1..N /\ within(j0)
  <2>1. Len(Stages) = N
    BY StagesAre
  <2>2. m \in 1..N
    BY <1>2
  <2>3. \E j \in 1..Len(Stages) : StageBegins(j) <= t /\ t < StageBegins(j + 1)
    BY <1>3, <2>1, <2>2
  <2> QED BY <2>1, <2>3, Zenon
<1> DEFINE prev == IF j0 = 1 THEN StartRate ELSE Stages[j0 - 1].target
           next == Stages[j0].target
           dur == Stages[j0].duration
           x == t - StageBegins(j0)
<1>5. OfferedAt(t) = prev + ((next - prev) * (2 * x + 1)) \div (2 * dur)
  BY DEF OfferedAt
<1> HIDE DEF j0, within
<1>6. prev \in Nat /\ next \in Nat /\ prev <= next
  <2>1. \A j \in 1..N : Stages[j].target = IF j <= 2 THEN StartRate
                              ELSE Target(StartRate, PeakRate, Steps, (j - 1) \div 2)
    BY StagesAre
  <2>2. \A i \in 1..Steps : /\ Target(StartRate, PeakRate, Steps, i) \in Nat
                            /\ StartRate <= Target(StartRate, PeakRate, Steps, i)
    BY TargetsAre DEF RampTypes
  <2>3. CASE j0 <= 2
    <3>1. next = StartRate /\ prev = StartRate
      <4>1. j0 = 1 \/ (j0 = 2 /\ 1 \in 1..N)
        BY <1>1, <1>4, <2>3
      <4> QED BY <1>4, <2>1, <4>1
    <3> QED BY <1>1, <3>1 DEF RampTypes
  <2>4. CASE j0 > 2
    <3>1. /\ (j0 - 1) \div 2 \in 1..Steps
          /\ j0 > 3 => (j0 - 2) \div 2 \in 1..Steps /\ (j0 - 2) \div 2 <= (j0 - 1) \div 2
          /\ j0 - 1 \in 1..N /\ j0 # 1
      BY <1>1, <1>4, <2>4 DEF RampTypes
    <3>2. next = Target(StartRate, PeakRate, Steps, (j0 - 1) \div 2)
      BY <1>4, <2>1, <2>4
    <3>3. CASE j0 = 3
      <4>1. prev = StartRate
        BY <2>1, <3>1, <3>3
      <4> QED BY <1>1, <2>2, <3>1, <3>2, <4>1 DEF RampTypes
    <3>4. CASE j0 > 3
      <4>1. prev = Target(StartRate, PeakRate, Steps, (j0 - 2) \div 2)
        <5>1. ~(j0 - 1 <= 2) /\ (j0 - 1) - 1 = j0 - 2
          BY <1>4, <3>4
        <5> QED BY <2>1, <3>1, <5>1
      <4> QED BY <2>2, <3>1, <3>2, <3>4, <4>1, TargetsAre
    <3> QED BY <1>4, <2>4, <3>3, <3>4
  <2> QED BY <1>4, <2>3, <2>4
<1>7. x \in Nat /\ dur \in Nat \ {0}
  <2>1. StageBegins(j0) \in Nat /\ dur \in Nat \ {0}
    BY <1>4, StageBeginsAre
  <2>2. t \in Nat
    BY <1>1
  <2> QED BY <1>4, <2>1, <2>2 DEF within
<1> HIDE DEF prev, next, dur, x
<1>8. (next - prev) * (2 * x + 1) \in Nat
  BY <1>6, <1>7
<1>9. ((next - prev) * (2 * x + 1)) \div (2 * dur) \in Nat
  BY <1>7, <1>8
<1> QED BY <1>5, <1>6, <1>9

\* What one tick of the generator yields.
Response == [requests : Nat, dropped : Nat, failed : Nat, latency : Nat]

\* The part of a second in which the generator runs.
LEMMA RunningIs ==
  ASSUME Begin \in Nat, End \in Nat, NEW s \in Nat
  PROVE  /\ IsFiniteSet(Running(s)) /\ Cardinality(Running(s)) <= Second
         /\ \A t \in Running(s) : /\ t \in Nat /\ Begin <= t /\ t < End
                                  /\ s * Second <= t /\ t < s * Second + Second
<1> DEFINE a == IF s * Second <= Begin THEN Begin ELSE s * Second
           b == IF s * Second + Second <= End THEN s * Second + Second ELSE End
<1>1. Second \in Nat \ {0} /\ s * Second \in Nat /\ s * Second + Second \in Nat
  BY LoadPassAssumption
<1>2. Max({s * Second, Begin}) = a /\ Min({s * Second + Second, End}) = b
  <2> DEFINE u == s * Second
             v == s * Second + Second
  <2>1. u \in Int /\ v \in Int
    BY <1>1
  <2> HIDE DEF u, v
  <2>2. Max({u, Begin}) = (IF u <= Begin THEN Begin ELSE u) /\ Min({v, End}) = (IF v <= End THEN v ELSE End)
    BY <2>1, OfTwo
  <2> QED BY <2>2 DEF u, v
<1>3. Running(s) = a..(b - 1)
  BY <1>2 DEF Running
<1>4. a \in Nat /\ b \in Nat /\ Begin <= a /\ s * Second <= a /\ b <= End /\ b <= s * Second + Second
  BY <1>1
<1> HIDE DEF a, b
<1>5. IsFiniteSet(a..(b - 1)) /\ Cardinality(a..(b - 1)) = IF a > b - 1 THEN 0 ELSE (b - 1) - a + 1
  BY <1>4, FS_Interval
<1>6. Cardinality(Running(s)) <= Second
  BY <1>1, <1>3, <1>4, <1>5
<1>7. \A t \in a..(b - 1) : /\ t \in Nat /\ Begin <= t /\ t < End
                            /\ s * Second <= t /\ t < s * Second + Second
  BY <1>1, <1>4
<1> QED BY <1>3, <1>5, <1>6, <1>7

\* What the system makes of one tick of the ramp.  Unless it has recovered by then, it does
\* not answer more than its share of the capacity, or it fails some.
LEMMA ServedIs ==
  ASSUME system \in Systems, NEW t \in 0..(RampLength - 1)
  PROVE  /\ Served(t) \in Response
         /\ t < system.until /\ system.mode # "slow" =>
              Served(t).requests <= system.capacity \div Second \/ Served(t).failed > 0
<1> DEFINE o == OfferedAt(t)
           q == o \div Second
           c == system.capacity \div Second
           over == q > c /\ t < system.until
           n == IF over /\ system.mode \in {"shed", "refuse"} THEN c ELSE q
<1>1. Served(t) = [requests |-> n,
                   dropped  |-> IF over /\ system.mode = "shed" THEN q - c ELSE 0,
                   failed   |-> IF over /\ system.mode = "fail" THEN q - c ELSE 0,
                   latency  |-> IF over /\ system.mode = "slow" THEN 4 * n ELSE n]
  BY DEF Served
<1>2. q \in Nat /\ c \in Nat
  <2>1. o \in Nat /\ Second \in Nat \ {0} /\ system.capacity \in Nat
    BY OfferedIs, LoadPassAssumption
  <2> HIDE DEF o
  <2> QED BY <2>1
<1>3. system.mode \in {"shed", "refuse", "fail", "slow"}
  BY LoadPassAssumption
<1> HIDE DEF q, c
<1> QED BY <1>1, <1>2, <1>3 DEF Response, c

\* What one bucket of the aggregator holds.
BucketType == [requests : Nat, failed : Nat, dropped : Nat, durationSum : Nat, durationN : Nat]

-----------------------------------------------------------------------------
\* The inductive invariant.

\* Every variable has its type, and a pass of either kind is one of those it may be.
Typing ==
  /\ second \in Nat
  /\ start \in 0..(Second - 1) /\ delay \in Nat /\ phase \in 0..(Second - 1)
  /\ IsFiniteSet(DOMAIN buckets) /\ DOMAIN buckets \subseteq 0..(second - 1)
  /\ \A k \in DOMAIN buckets : buckets[k] \in BucketType
  /\ total \in Tally /\ done \in BOOLEAN
  /\ sampler \in {"none", "coarse", "full"}
  /\ \/ kind = "capacity" /\ system \in Systems
     \/ /\ kind = "measured" /\ usual \in Kinds
        /\ seconds \in [0..(second - 1) -> Kinds]

\* The ticks at which the instruments may have been read.
Stamps == {k * Second + phase : k \in (-1)..(second - 1)}

\* A reading is of the counters as they were at its stamp.
Metered ==
  kind = "measured" =>
    /\ total = Counted[second]
    /\ DOMAIN scrapes = Stamps
    /\ \A t \in Stamps : scrapes[t] = Scrape(Truth(t))
    /\ DOMAIN cpu \subseteq Stamps
    /\ \A t \in DOMAIN cpu : cpu[t] = Truth(t).cpu
    /\ IF sampler = "none" THEN DOMAIN cpu = {} ELSE Missed <= MaxMissed

\* What a second of the generator may put into its bucket while a system that does not
\* queue is limited: no more than its capacity, unless something in it failed.
Throughout(k) == k * Second + Second - Begin <= system.until
Capped ==
  kind = "capacity" /\ system.mode # "slow" =>
    \A k \in DOMAIN buckets :
      Throughout(k) =>
        \/ buckets[k].failed > 0
        \/ buckets[k].requests <= Second * (system.capacity \div Second)

\* Once the pass is over nothing is produced any more, and what was read from it stays so.
Settled ==
  done =>
    /\ second > LastSecond
    /\ kind = "capacity" =>
         knee = FindKnee(StepWindows(start + Skip, Targets, Dwell, Transition),
                         RPS, Dropped, Failed, Latency)
    /\ kind = "measured" =>
         cell = [window |-> SelectWindow,
                 naive  |-> FixedWindow(WholeSeconds(RPS), NaiveDiscard),
                 cpu    |-> WindowSubject(SelectWindow),
                 server |-> WindowServer(SelectWindow)]

\* The system is limited until a second after the dwell of rung i.
LimitedPast(i) == Skip + i * (Transition + Dwell) + Second <= system.until
\* The knee is never above a rung which a system that sheds, refuses or fails is over its
\* capacity at all through the dwell, to within one in a hundred; for every system, ramp
\* and delay of the generator (Calibrate, FindKnee).  KneeNeverOverstated, which is only
\* model-checked, also allows for a recovery in the middle of a dwell.
KneeIsServed ==
  Calibrated /\ system.mode # "slow" =>
    \A i \in 1..Steps :
      Targets[i] <= knee.rate /\ LimitedPast(i) => 99 * Targets[i] <= 100 * system.capacity

\* The inductive invariant.
Inv == Typing /\ Metered /\ Capped /\ Settled

\* What the types say of the clocks of a pass.
LEMMA ClockType ==
  ASSUME Typing
  PROVE  /\ Second \in Nat \ {0} /\ Begin \in Nat /\ End \in Nat /\ Begin <= End
         /\ Begin = start + delay
         /\ kind = "capacity" => End = Begin + RampLength /\ RampLength \in Nat
         /\ kind = "measured" => End = Begin + PassSeconds * Second
         /\ LastSecond \in Int /\ LastSecond * Second <= End - 1 /\ End - 1 < LastSecond * Second + Second
         /\ second \in Nat
         /\ kind = "measured" => Clocked
<1>1. Second \in Nat \ {0} /\ PassSeconds \in Nat
  BY LoadPassAssumption
<1>2. RampLength \in Nat
  <2>1. 2 * Steps + 2 \in 1..(2 * Steps + 2)
    BY TargetsAre DEF RampTypes
  <2> QED BY <2>1, StageBeginsAre
<1>3. PassSeconds * Second \in Nat
  BY <1>1
<1>4. Begin = start + delay /\ Begin \in Nat
  BY <1>1 DEF Typing, Begin
<1>5. /\ End \in Nat /\ Begin <= End
      /\ kind = "capacity" => End = Begin + RampLength
      /\ kind = "measured" => End = Begin + PassSeconds * Second
  BY <1>2, <1>3, <1>4 DEF End, Typing
<1>6. LastSecond \in Int /\ LastSecond * Second <= End - 1 /\ End - 1 < LastSecond * Second + Second
  <2>1. End - 1 \in Int
    BY <1>5
  <2> DEFINE e == End - 1
  <2> HIDE DEF e
  <2>2. e \div Second \in Int /\ Second * (e \div Second) <= e /\ e < Second * (e \div Second) + Second
    BY <1>1, <2>1, Rounding DEF e
  <2>3. LastSecond = e \div Second
    BY DEF LastSecond, e
  <2> HIDE DEF LastSecond
  <2> QED BY <1>1, <2>2, <2>3 DEF e
<1>7. second \in Nat
  BY DEF Typing
<1>8. kind = "measured" => Clocked
  BY <1>4, <1>5, <1>7 DEF Typing, Clocked
<1> QED BY <1>1, <1>2, <1>4, <1>5, <1>6, <1>7, <1>8

\* What the aggregator keeps of the rows of one second of a ramp.
LEMMA RampBucket ==
  ASSUME NEW R, IsFiniteSet(R), NEW served \in [R -> Response]
  PROVE  LET all(f) == Sum([t \in R |-> served[t][f]])
             n == all("requests")
             b == Added([http_reqs          |-> Rows(n, n),
                      dropped_iterations |-> Rows(1, all("dropped")),
                      http_req_failed    |-> Rows(n, all("failed")),
                      http_req_duration  |-> Rows(n, all("latency"))])
         IN  /\ b \in BucketType
             /\ b.requests = SumOn([t \in R |-> served[t].requests], R)
             /\ b.failed = SumOn([t \in R |-> served[t].failed], R)
<1> DEFINE all(f) == Sum([t \in R |-> served[t][f]])
           n == all("requests")
           rows == [http_reqs          |-> Rows(n, n),
                    dropped_iterations |-> Rows(1, all("dropped")),
                    http_req_failed    |-> Rows(n, all("failed")),
                    http_req_duration  |-> Rows(n, all("latency"))]
<1>1. ASSUME NEW f \in {"requests", "dropped", "failed", "latency"}
      PROVE  all(f) \in Nat /\ all(f) = SumOn([t \in R |-> served[t][f]], R)
  <2> DEFINE g == [t \in R |-> served[t][f]]
  <2>1. \A t \in R : g[t] \in Nat
    BY DEF Response
  <2>2. DOMAIN g = R /\ all(f) = Sum(g)
    OBVIOUS
  <2> HIDE DEF g
  <2>3. R \in SUBSET R
    OBVIOUS
  <2>4. SumOn(g, R) \in Nat
    BY <2>1, <2>3, SumNonNegative
  <2> QED BY <2>2, <2>4, SumOfSeries DEF g
<1>2. n = all("requests")
  OBVIOUS
<1> DEFINE rq == all("requests") dr == all("dropped") fl == all("failed") lt == all("latency")
<1>3. rq \in Nat /\ dr \in Nat /\ fl \in Nat /\ lt \in Nat
  BY <1>1
<1>4. rows = [http_reqs |-> Rows(rq, rq), dropped_iterations |-> Rows(1, dr),
              http_req_failed |-> Rows(rq, fl), http_req_duration |-> Rows(rq, lt)]
  OBVIOUS
<1>5. rq = SumOn([t \in R |-> served[t].requests], R) /\ fl = SumOn([t \in R |-> served[t].failed], R)
  BY <1>1
<1> HIDE DEF rq, dr, fl, lt
<1>6. Added(rows) = [requests |-> rq, failed |-> fl, dropped |-> dr, durationSum |-> lt, durationN |-> rq]
  BY <1>4 DEF Added, Rows
<1> HIDE DEF rows
<1>7. Added(rows) \in BucketType /\ Added(rows).requests = rq /\ Added(rows).failed = fl
  BY <1>3, <1>6 DEF BucketType
<1> QED BY <1>5, <1>7 DEF rows

-----------------------------------------------------------------------------
\* Every step keeps it.

\* n values of at most c add up to at most n * c.
LEMMA SumBounded ==
  ASSUME NEW D, IsFiniteSet(D), NEW f, NEW c \in Int, \A x \in D : f[x] \in Int /\ f[x] <= c
  PROVE  SumOn(f, D) <= Cardinality(D) * c
<1> DEFINE h == [x \in D |-> c - f[x]]
<1>1. \A x \in D : /\ f[x] \in Int /\ f[x] \in Int
                   /\ h[x] = (-1) * f[x] + 0 * f[x] + c
  OBVIOUS
<1>2. \A x \in D : h[x] \in Nat
  OBVIOUS
<1> HIDE DEF h
<1>3. SumOn(h, D) = (-1) * SumOn(f, D) + 0 * SumOn(f, D) + c * Cardinality(D)
  BY <1>1, SumLinear
<1>4. D \in SUBSET D
  OBVIOUS
<1>5. SumOn(h, D) \in Nat
  BY <1>2, <1>4, SumNonNegative
<1>6. SumOn(f, D) \in Int /\ Cardinality(D) \in Nat
  BY <1>1, <1>4, SumIsInt, FS_CardinalityType
<1>7. c * Cardinality(D) = Cardinality(D) * c /\ c * Cardinality(D) \in Int
  BY <1>6
<1> QED BY <1>3, <1>5, <1>6, <1>7

\* The settings of a pass, and what is defined of them alone.
LEMMA SameClock ==
  ASSUME UNCHANGED setting
  PROVE  /\ kind' = kind /\ start' = start /\ delay' = delay /\ system' = system
         /\ usual' = usual /\ sampler' = sampler /\ phase' = phase
         /\ Begin' = Begin /\ End' = End /\ LastSecond' = LastSecond
BY DEF setting, Begin, End, LastSecond

\* A second of a ramp keeps the invariant: its bucket is a sum over at most Second ticks,
\* each within the capacity or with a failure.
LEMMA RampSecondKeeps ==
  ASSUME Inv, RampSecond
  PROVE  Inv'
<1>1. /\ kind = "capacity" /\ second <= LastSecond /\ second' = second + 1
      /\ UNCHANGED <<setting, seconds, total, cpu, scrapes, done, reading>>
  BY DEF RampSecond
<1>2. /\ kind' = kind /\ start' = start /\ delay' = delay /\ system' = system
      /\ usual' = usual /\ sampler' = sampler /\ phase' = phase
      /\ Begin' = Begin /\ End' = End /\ LastSecond' = LastSecond
  BY <1>1, SameClock
<1>3. Typing /\ system \in Systems
  BY <1>1 DEF Inv, Typing
<1>4. /\ Begin \in Nat /\ End \in Nat /\ second \in Nat /\ End = Begin + RampLength
      /\ Second \in Nat \ {0} /\ LastSecond \in Int
  BY <1>1, <1>3, ClockType
<1> DEFINE R == Running(second)
           served == [t \in R |-> Served(t - Begin)]
           all(f) == Sum([t \in R |-> served[t][f]])
           n == all("requests")
           b == Added([http_reqs          |-> Rows(n, n),
                       dropped_iterations |-> Rows(1, all("dropped")),
                       http_req_failed    |-> Rows(n, all("failed")),
                       http_req_duration  |-> Rows(n, all("latency"))])
<1>5. /\ IsFiniteSet(R) /\ Cardinality(R) <= Second
      /\ \A t \in R : /\ t \in Nat /\ Begin <= t /\ t < End
                      /\ second * Second <= t /\ t < second * Second + Second
  BY <1>4, RunningIs
<1>6. ASSUME NEW t \in R
      PROVE  t - Begin \in 0..(RampLength - 1)
  <2>1. RampLength \in Nat
    BY <1>1, <1>3, ClockType
  <2> HIDE DEF R
  <2> QED BY <1>4, <1>5, <2>1
<1>7. ASSUME NEW t \in R
      PROVE  /\ served[t] \in Response
             /\ t - Begin < system.until /\ system.mode # "slow" =>
                   served[t].requests <= system.capacity \div Second \/ served[t].failed > 0
  BY <1>3, <1>6, ServedIs
<1>8. /\ b \in BucketType
      /\ b.requests = SumOn([t \in R |-> served[t].requests], R)
      /\ b.failed = SumOn([t \in R |-> served[t].failed], R)
  <2>1. served \in [R -> Response]
    BY <1>7
  <2> HIDE DEF R, served
  <2> QED BY <1>5, <2>1, RampBucket
<1>9. buckets' = IF R = {} THEN buckets ELSE Put(buckets, second, b)
  <2>1. \/ R = {} /\ Consume(NoRows)
        \/ /\ R # {}
           /\ Consume([http_reqs       |-> Rows(n, n),
                       dropped_iterations |-> Rows(1, all("dropped")),
                       http_req_failed    |-> Rows(n, all("failed")),
                       http_req_duration  |-> Rows(n, all("latency"))])
    BY DEF RampSecond
  <2>2. DOMAIN NoRows = {}
    BY DEF NoRows
  <2> QED BY <2>1, <2>2 DEF Consume
<1>10. ASSUME Throughout(second), system.mode # "slow"
       PROVE  b.failed > 0 \/ b.requests <= Second * (system.capacity \div Second)
  <2> DEFINE c == system.capacity \div Second
             rq == [t \in R |-> served[t].requests]
             fl == [t \in R |-> served[t].failed]
  <2>1. c \in Nat
    <3>1. system.capacity \in Nat
      BY <1>3, LoadPassAssumption
    <3> QED BY <1>4, <3>1
  <2>2. \A t \in R : rq[t] \in Nat /\ fl[t] \in Nat
    <3> HIDE DEF R, served
    <3> QED BY <1>7 DEF Response
  <2>3. \A t \in R : rq[t] <= c \/ fl[t] > 0
    <3> TAKE t \in R
    <3>1. t - Begin < system.until
      <4>1. system.until \in Nat /\ second * Second + Second - Begin <= system.until
        BY <1>3, <1>10, LoadPassAssumption DEF Throughout
      <4>2. t \in Nat /\ t < second * Second + Second /\ second * Second \in Nat
        BY <1>4, <1>5
      <4> QED BY <1>4, <4>1, <4>2
    <3> QED BY <1>7, <1>10, <3>1
  <2>4. SumOn(rq, R) \in Nat /\ SumOn(fl, R) \in Nat
    <3>1. R \in SUBSET R
      OBVIOUS
    <3> HIDE DEF R, rq, fl
    <3> QED BY <1>5, <2>2, <3>1, SumNonNegative
  <2>5. CASE SumOn(fl, R) > 0
    BY <1>8, <2>5
  <2>6. CASE SumOn(fl, R) = 0
    <3> HIDE DEF R, c, rq, fl
    <3>1. \A t \in R : fl[t] = 0
      <4> TAKE t \in R
      <4>1. fl[t] <= SumOn(fl, R)
        BY <1>5, <2>2, MemberOfSum
      <4> QED BY <2>2, <2>6, <4>1
    <3>2. \A t \in R : rq[t] \in Int /\ rq[t] <= c
      BY <2>2, <2>3, <3>1
    <3>3. SumOn(rq, R) <= Cardinality(R) * c
      BY <1>5, <2>1, <3>2, SumBounded
    <3>4. Cardinality(R) \in Nat
      BY <1>5, FS_CardinalityType
    <3>5. Cardinality(R) * c <= Second * c
      BY <1>4, <1>5, <2>1, <3>4
    <3>6. SumOn(rq, R) <= Second * c
      BY <1>4, <2>1, <2>4, <3>3, <3>4, <3>5
    <3> QED BY <1>8, <3>6 DEF rq, c
  <2> HIDE DEF fl, rq
  <2> QED BY <2>4, <2>5, <2>6
<1> HIDE DEF R, b
<1>11. Typing'
  <2>1. /\ IsFiniteSet(DOMAIN buckets) /\ DOMAIN buckets \subseteq 0..(second - 1)
        /\ \A k \in DOMAIN buckets : buckets[k] \in BucketType
    BY <1>3 DEF Typing
  <2>2. /\ IsFiniteSet(DOMAIN buckets') /\ DOMAIN buckets' \subseteq 0..((second + 1) - 1)
        /\ \A k \in DOMAIN buckets' : buckets'[k] \in BucketType
    <3>1. CASE R = {}
      BY <1>4, <1>9, <2>1, <3>1
    <3>2. CASE R # {}
      <4>1. /\ DOMAIN buckets' = DOMAIN buckets \cup {second} /\ buckets'[second] = b
            /\ \A k \in DOMAIN buckets : k # second => buckets'[k] = buckets[k]
        BY <1>9, <3>2 DEF Put
      <4>2. IsFiniteSet(DOMAIN buckets \cup {second})
        BY <2>1, FS_AddElement
      <4> QED BY <1>4, <1>8, <2>1, <4>1, <4>2
    <3> QED BY <3>1, <3>2
  <2>3. /\ total' = total /\ done' = done
    BY <1>1
  <2> QED BY <1>1, <1>2, <1>3, <1>4, <2>2, <2>3 DEF Typing
<1>12. Metered'
  BY <1>1, <1>2 DEF Metered
<1>13. Capped'
  <2> SUFFICES ASSUME system.mode # "slow", NEW k \in DOMAIN buckets', Throughout(k)
               PROVE  \/ buckets'[k].failed > 0
                      \/ buckets'[k].requests <= Second * (system.capacity \div Second)
    BY <1>1, <1>2 DEF Capped, Throughout
  <2>1. \A i \in DOMAIN buckets : Throughout(i) => \/ buckets[i].failed > 0
                            \/ buckets[i].requests <= Second * (system.capacity \div Second)
    BY <1>1 DEF Inv, Capped
  <2>2. CASE R = {}
    BY <1>9, <2>1, <2>2
  <2>3. CASE R # {}
    <3>1. /\ DOMAIN buckets' = DOMAIN buckets \cup {second} /\ buckets'[second] = b
          /\ \A i \in DOMAIN buckets : i # second => buckets'[i] = buckets[i]
      BY <1>9, <2>3 DEF Put
    <3> QED BY <1>10, <2>1, <3>1
  <2> QED BY <2>2, <2>3
<1>14. Settled'
  <2>1. ~done
    BY <1>1, <1>4 DEF Inv, Settled
  <2> QED BY <1>1, <2>1 DEF Settled
<1> QED BY <1>11, <1>12, <1>13, <1>14 DEF Inv

\* Counted is such a history in every state.
LEMMA CountedAlways == second \in Nat => Grows(Counted, second, Gains)
BY CountedIs

\* The next second leaves what the counters were before it.
LEMMA TruthKeeps ==
  ASSUME Clocked, UNCHANGED setting, second' = second + 1,
         NEW p \in Kinds, seconds' = Put(seconds, second, p)
  PROVE  /\ Clocked'
         /\ (Counted[second])' = Plus(Counted[second], Share(p, Loaded(second * Second, second * Second + Second)))
         /\ \A t \in Int : t < second * Second => Truth(t)' = Truth(t)
         /\ \A t \in Nat : t \div Second = second =>
              Truth(t)' = Plus(Counted[second], Share(p, Loaded(second * Second, t)))
<1>1. second \in Nat /\ second' \in Nat /\ Begin \in Nat /\ End \in Int
  BY DEF Clocked
<1>2. Begin' = Begin /\ End' = End
  BY SameClock
<1>3. \A from, to : Loaded(from, to)' = Loaded(from, to)
  BY <1>2 DEF Loaded
<1>4. /\ seconds' \in [0..((second + 1) - 1) -> Kinds] /\ seconds'[second] = p
      /\ \A k \in 0..(second - 1) : seconds'[k] = seconds[k]
  BY <1>1 DEF Clocked, Put
<1>5. Clocked'
  BY <1>1, <1>2, <1>4 DEF Clocked
<1>6. Grows(Counted, second, Gains) /\ Grows(Counted', second', Gains')
  <2>1. (second \in Nat)' => Grows(Counted, second, Gains)'
    BY CountedAlways, PTL
  <2> QED BY <1>1, <2>1, CountedIs DEF Grows
<1>7. \A k \in 0..(second - 1) : Gains[k] = Gains'[k]
  <2> TAKE k \in 0..(second - 1)
  <2>1. k \in 0..(second' - 1)
    BY <1>1
  <2>2. Gains[k] = Share(seconds[k], Loaded(k * Second, k * Second + Second))
    BY DEF Gains
  <2>3. Gains'[k] = Share(seconds'[k], Loaded(k * Second, k * Second + Second)')
    BY <2>1 DEF Gains
  <2> QED BY <1>3, <1>4, <2>2, <2>3
<1>8. \A k \in 0..second : Counted'[k] = Counted[k]
  <2>1. second <= second'
    BY <1>1
  <2> QED BY <1>1, <1>6, <1>7, <2>1, GrowthAgrees
<1>9. Gains'[second] = Share(p, Loaded(second * Second, second * Second + Second))
  <2> SUFFICES ASSUME NEW k \in Nat, k = second
               PROVE  Gains'[k] = Share(p, Loaded(k * Second, k * Second + Second))
    BY <1>1
  <2>1. k \in 0..(second' - 1)
    BY <1>1
  <2>2. Gains'[k] = Share(seconds'[k], Loaded(k * Second, k * Second + Second)')
    BY <2>1 DEF Gains
  <2> QED BY <1>3, <1>4, <2>2
<1>10. Counted'[second'] = Plus(Counted[second], Share(p, Loaded(second * Second, second * Second + Second)))
  <2>1. second' \in 0..second' /\ second' # 0 /\ second' - 1 = second
    BY <1>1
  <2>2. Counted'[second'] = Plus(Counted'[second' - 1], Gains'[second' - 1])
    BY <1>6, <2>1 DEF Grows
  <2> QED BY <1>1, <1>8, <1>9, <2>1, <2>2
<1>11. ASSUME NEW t \in Int, t < second * Second
       PROVE  Truth(t)' = Truth(t)
  <2>1. CASE t < 0
    BY <2>1 DEF Truth
  <2>2. CASE t >= 0
    <3> DEFINE k == t \div Second
    <3>1. k \in Nat /\ k * Second <= t /\ t \in Nat
      BY <2>2, SecondOf
    <3>2. k < second
      <4> HIDE DEF k
      <4>1. ~(second <= k)
        <5> SUFFICES ASSUME second <= k PROVE FALSE
          OBVIOUS
        <5>1. second * Second <= k * Second
          BY <1>1, <3>1, LoadPassAssumption
        <5> QED BY <1>1, <1>11, <3>1, <5>1, LoadPassAssumption
      <4> QED BY <1>1, <3>1, <4>1
    <3>3. ~(k >= second) /\ ~(k >= second') /\ k \in 0..(second - 1) /\ k \in 0..second
      <4> HIDE DEF k
      <4> QED BY <1>1, <3>1, <3>2
    <3>4. Truth(t) = Plus(Counted[k], Share(seconds[k], Loaded(k * Second, t)))
      BY <2>2, <3>3 DEF Truth
    <3>5. Truth(t)' = Plus(Counted'[k], Share(seconds'[k], Loaded(k * Second, t)'))
      BY <2>2, <3>3 DEF Truth
    <3> HIDE DEF k
    <3> QED BY <1>3, <1>4, <1>8, <3>3, <3>4, <3>5
  <2> QED BY <2>1, <2>2
<1>12. ASSUME NEW t \in Nat, t \div Second = second
       PROVE  Truth(t)' = Plus(Counted[second], Share(p, Loaded(second * Second, t)))
  <2> SUFFICES ASSUME NEW k \in Nat, k = second
               PROVE  Truth(t)' = Plus(Counted[k], Share(p, Loaded(k * Second, t)))
    BY <1>1
  <2>1. ~(t < 0) /\ ~(k >= second') /\ t \div Second = k
    BY <1>1, <1>12
  <2>2. Truth(t)' = Plus(Counted'[k], Share(seconds'[k], Loaded(k * Second, t)'))
    BY <2>1 DEF Truth
  <2>3. k \in 0..second
    BY <1>1
  <2> QED BY <1>3, <1>4, <1>8, <2>2, <2>3
<1> QED BY <1>5, <1>10, <1>11, <1>12

\* The ticks at which the instruments are read lie before the second being produced, and
\* the next of them is in it.
LEMMA StampsAre ==
  ASSUME Typing
  PROVE  /\ IsFiniteSet(Stamps) /\ Stamps \subseteq Int
         /\ \A t \in Stamps : t < second * Second
         /\ second * Second + phase \notin Stamps
         /\ second * Second + phase \in Nat
         /\ (second * Second + phase) \div Second = second
<1>1. second \in Nat /\ Second \in Nat \ {0} /\ phase \in 0..(Second - 1) /\ second * Second \in Nat
  BY LoadPassAssumption DEF Typing
<1>2. ASSUME NEW k \in (-1)..(second - 1)
      PROVE  k * Second + phase \in Int /\ k * Second + phase < second * Second
  <2>1. k * Second \in Int /\ (second - 1) * Second = second * Second - Second
    BY <1>1
  <2>2. k * Second <= (second - 1) * Second
    BY <1>1, <1>2
  <2> QED BY <1>1, <2>1, <2>2
<1>3. Stamps \subseteq Int /\ \A t \in Stamps : t < second * Second
  BY <1>2 DEF Stamps
<1>4. IsFiniteSet(Stamps)
  <2> DEFINE K == (-1)..(second - 1)
             f == [k \in K |-> k * Second + phase]
  <2>1. IsFiniteSet(K)
    BY <1>1, FS_Interval
  <2>2. f \in Surjection(K, Stamps)
    BY DEF Surjection, Stamps
  <2> HIDE DEF f, K
  <2> QED BY <2>1, <2>2, FS_Surjection
<1>5. second * Second + phase \in Nat /\ ~(second * Second + phase < second * Second)
  BY <1>1
<1>6. (second * Second + phase) \div Second = second
  <2>1. /\ second * Second + phase \in Int /\ Second * second <= second * Second + phase
        /\ second * Second + phase < Second * second + Second
    BY <1>1
  <2> QED BY <1>1, <2>1, Quotient
<1> QED BY <1>3, <1>4, <1>5, <1>6

\* A second of a measured pass keeps the invariant: what the sampler and the scraper read
\* are the counters of that tick.
LEMMA MeasuredSecondKeeps ==
  ASSUME Inv, kind = "measured", NEW p \in {usual} \cup Disturbances, MeasuredSecond(p)
  PROVE  Inv'
<1> DEFINE now == second * Second + phase
           all == Share(p, Loaded(second * Second, second * Second + Second))
           here == CountersAt(p, now)
           n == Answered(all)
<1>1. /\ second <= LastSecond /\ second' = second + 1
      /\ seconds' = Put(seconds, second, p)
      /\ total' = Plus(total, all)
      /\ scrapes' = Put(scrapes, now, Scrape(here))
      /\ UNCHANGED <<setting, done, reading>>
  BY DEF MeasuredSecond
<1>2. /\ kind' = kind /\ start' = start /\ delay' = delay /\ system' = system
      /\ usual' = usual /\ sampler' = sampler /\ phase' = phase
      /\ Begin' = Begin /\ End' = End /\ LastSecond' = LastSecond
  BY <1>1, SameClock
<1>3. Typing /\ Clocked /\ p \in Kinds /\ Metered /\ Settled
  <2>1. usual \in Kinds /\ Disturbances \subseteq Kinds
    BY LoadPassAssumption DEF Inv, Typing
  <2> QED BY <2>1, ClockType DEF Inv
<1>4. /\ second \in Nat /\ LastSecond \in Int /\ Second \in Nat \ {0}
      /\ second * Second \in Nat /\ now \in Nat
  <2>1. second \in Nat /\ LastSecond \in Int /\ Second \in Nat \ {0}
    BY <1>3, ClockType
  <2>2. now \in Nat
    BY <1>3, StampsAre
  <2> QED BY <2>1, <2>2
<1>5. all \in Tally
  <2>1. Loaded(second * Second, second * Second + Second) \in Nat
    <3>1. Begin \in Nat /\ End \in Int /\ second * Second \in Int /\ second * Second + Second \in Int
      BY <1>3, <1>4 DEF Clocked
    <3> QED BY <3>1, LoadedType
  <2> QED BY <1>3, <2>1, ShareType
<1>6. /\ Clocked'
      /\ (Counted[second])' = Plus(Counted[second], all)
      /\ \A t \in Int : t < second * Second => Truth(t)' = Truth(t)
      /\ \A t \in Nat : t \div Second = second =>
              Truth(t)' = Plus(Counted[second], Share(p, Loaded(second * Second, t)))
  BY <1>1, <1>3, TruthKeeps
<1>7. /\ IsFiniteSet(Stamps) /\ Stamps \subseteq Int
      /\ \A t \in Stamps : t < second * Second
      /\ now \notin Stamps /\ now \div Second = second
  BY <1>3, StampsAre
<1>8. total = Counted[second] /\ total \in Tally
  BY <1>3 DEF Metered, Typing
<1>9. \A t \in Stamps \cup {now} : Truth(t)' = IF t = now THEN here ELSE Truth(t)
  <2>1. here = Plus(Counted[second], Share(p, Loaded(second * Second, now)))
    BY <1>8 DEF CountersAt
  <2>2. ASSUME NEW t \in Stamps \cup {now}, t = now
        PROVE  Truth(t)' = here
    <3> HIDE DEF now, here
    <3>1. t \in Nat /\ t \div Second = second
      BY <1>4, <1>7, <2>2
    <3> QED BY <1>6, <2>1, <2>2, <3>1
  <2>3. ASSUME NEW t \in Stamps, t # now
        PROVE  Truth(t)' = Truth(t)
    <3> HIDE DEF now, here
    <3> QED BY <1>6, <1>7, <2>3
  <2> HIDE DEF now, here
  <2> QED BY <2>2, <2>3
<1>10. Stamps' = Stamps \cup {now}
  <2>1. (-1)..(second' - 1) = ((-1)..(second - 1)) \cup {second}
    BY <1>1, <1>4
  <2>2. Stamps' = {k * Second + phase : k \in (-1)..(second' - 1)}
    BY <1>2 DEF Stamps
  <2> QED BY <2>1, <2>2 DEF Stamps
<1>11. Typing'
  <2>1. /\ IsFiniteSet(DOMAIN buckets) /\ DOMAIN buckets \subseteq 0..(second - 1)
        /\ \A k \in DOMAIN buckets : buckets[k] \in BucketType
    BY <1>3 DEF Typing
  <2> DEFINE b == Added([vus |-> Rows(1, 1), http_reqs |-> Rows(n, n), http_req_duration |-> Rows(n, n)])
  <2>2. b \in BucketType
    <3>1. n \in Nat
      <4> HIDE DEF all
      <4> QED BY <1>5 DEF Answered, Tally
    <3> HIDE DEF n
    <3> QED BY <3>1 DEF Added, Rows, BucketType
  <2>3. buckets' = buckets \/ buckets' = Put(buckets, second, b)
    <3>1. Consume(IF ~p.rows THEN NoRows
                  ELSE [vus |-> Rows(1, 1), http_reqs |-> Rows(n, n), http_req_duration |-> Rows(n, n)])
      BY DEF MeasuredSecond
    <3>2. DOMAIN NoRows = {}
      BY DEF NoRows
    <3> HIDE DEF n
    <3> QED BY <3>1, <3>2 DEF Consume
  <2> HIDE DEF b
  <2>4. /\ IsFiniteSet(DOMAIN buckets') /\ DOMAIN buckets' \subseteq 0..((second + 1) - 1)
        /\ \A k \in DOMAIN buckets' : buckets'[k] \in BucketType
    <3>1. CASE buckets' = buckets
      BY <1>4, <2>1, <3>1
    <3>2. CASE buckets' = Put(buckets, second, b)
      <4>1. /\ DOMAIN buckets' = DOMAIN buckets \cup {second} /\ buckets'[second] = b
            /\ \A k \in DOMAIN buckets : k # second => buckets'[k] = buckets[k]
        BY <3>2 DEF Put
      <4>2. IsFiniteSet(DOMAIN buckets \cup {second})
        BY <2>1, FS_AddElement
      <4> QED BY <1>4, <2>1, <2>2, <4>1, <4>2
    <3> QED BY <2>3, <3>1, <3>2
  <2>5. total' \in Tally
    <3> HIDE DEF all
    <3> QED BY <1>1, <1>5, <1>8, PlusType
  <2>6. seconds' \in [0..(second' - 1) -> Kinds]
    BY <1>6 DEF Clocked
  <2>7. done' \in BOOLEAN /\ second' \in Nat
    BY <1>1, <1>3, <1>4 DEF Typing
  <2>8. DOMAIN buckets' \subseteq 0..(second' - 1)
    BY <1>1, <1>4, <2>4
  <2>9. /\ start' \in 0..(Second - 1) /\ delay' \in Nat /\ phase' \in 0..(Second - 1)
        /\ sampler' \in {"none", "coarse", "full"} /\ kind' = "measured" /\ usual' \in Kinds
    BY <1>2, <1>3 DEF Typing
  <2> QED BY <2>4, <2>5, <2>6, <2>7, <2>8, <2>9 DEF Typing
<1>12. Metered'
  <2>1. (total = Counted[second])'
    <3> HIDE DEF all
    <3> QED BY <1>1, <1>6, <1>8
  <2>2. DOMAIN scrapes = Stamps /\ \A t \in Stamps : scrapes[t] = Scrape(Truth(t))
    BY <1>3 DEF Metered
  <2>3. DOMAIN scrapes' = Stamps' /\ \A t \in Stamps' : scrapes'[t] = Scrape(Truth(t)')
    <3> HIDE DEF now, here
    <3>1. /\ DOMAIN scrapes' = DOMAIN scrapes \cup {now} /\ scrapes'[now] = Scrape(here)
          /\ \A t \in DOMAIN scrapes : t # now => scrapes'[t] = scrapes[t]
      BY <1>1 DEF Put
    <3> QED BY <1>7, <1>9, <1>10, <2>2, <3>1
  <2>4. /\ DOMAIN cpu \subseteq Stamps
        /\ \A t \in DOMAIN cpu : cpu[t] = Truth(t).cpu
        /\ IF sampler = "none" THEN DOMAIN cpu = {} ELSE Missed <= MaxMissed
    BY <1>3 DEF Metered
  <2>5. \/ sampler = "none" /\ cpu' = cpu
        \/ sampler # "none" /\ cpu' = Put(cpu, now, here.cpu)
        \/ sampler # "none" /\ cpu' = cpu /\ Missed < MaxMissed
    BY DEF MeasuredSecond
  <2>6. IsFiniteSet(DOMAIN cpu) /\ Cardinality(DOMAIN cpu) \in Nat
    BY <1>7, <2>4, FS_Subset, FS_CardinalityType
  <2>7. MaxMissed \in Nat
    BY LoadPassAssumption
  <2>8. sampler # "none" => Missed = second + 1 - Cardinality(DOMAIN cpu)
    BY DEF Missed, Points
  <2>9. sampler # "none" => Missed' = second' + 1 - Cardinality(DOMAIN cpu')
    BY <1>2 DEF Missed, Points
  <2>10. /\ DOMAIN cpu' \subseteq Stamps'
         /\ \A t \in DOMAIN cpu' : cpu'[t] = (Truth(t)').cpu
         /\ IF sampler = "none" THEN DOMAIN cpu' = {} ELSE Missed' <= MaxMissed
    <3> HIDE DEF now, here
    <3>1. ASSUME cpu' = cpu
          PROVE  /\ DOMAIN cpu' \subseteq Stamps'
                 /\ \A t \in DOMAIN cpu' : cpu'[t] = (Truth(t)').cpu
      BY <1>7, <1>9, <1>10, <2>4, <3>1
    <3>2. CASE sampler = "none" /\ cpu' = cpu
      BY <2>4, <3>1, <3>2
    <3>3. CASE sampler # "none" /\ cpu' = Put(cpu, now, here.cpu)
      <4>1. /\ DOMAIN cpu' = DOMAIN cpu \cup {now} /\ cpu'[now] = here.cpu
            /\ \A t \in DOMAIN cpu : t # now => cpu'[t] = cpu[t]
        BY <3>3 DEF Put
      <4>2. now \notin DOMAIN cpu
        BY <1>7, <2>4
      <4>3. Cardinality(DOMAIN cpu') = Cardinality(DOMAIN cpu) + 1
        BY <2>6, <4>1, <4>2, FS_AddElement
      <4>4. Missed' <= MaxMissed
        BY <1>1, <1>4, <2>4, <2>6, <2>7, <2>8, <2>9, <3>3, <4>3
      <4>5. \A t \in DOMAIN cpu' : cpu'[t] = (Truth(t)').cpu
        BY <1>7, <1>9, <1>10, <2>4, <4>1, <4>2
      <4> QED BY <1>10, <2>4, <3>3, <4>1, <4>4, <4>5
    <3>4. CASE sampler # "none" /\ cpu' = cpu /\ Missed < MaxMissed
      <4>1. Missed' = Missed + 1 /\ Missed \in Int
        BY <1>1, <1>4, <2>6, <2>8, <2>9, <3>4
      <4> QED BY <2>7, <3>1, <3>4, <4>1
    <3> QED BY <2>5, <3>2, <3>3, <3>4
  <2> QED BY <1>2, <2>1, <2>3, <2>10 DEF Metered
<1>13. Capped'
  BY <1>2 DEF Capped
<1>14. Settled'
  <2>1. ~done
    BY <1>1, <1>3, <1>4 DEF Settled
  <2> QED BY <1>1, <2>1 DEF Settled
<1> QED BY <1>11, <1>12, <1>13, <1>14 DEF Inv

\* The invariant holds when a pass begins.
LEMMA InitHolds == Init => Inv
<1> SUFFICES ASSUME Init
             PROVE  Inv
  OBVIOUS
<1>1. Second \in Nat \ {0} /\ MaxMissed \in Nat
  BY LoadPassAssumption
<1>2. /\ second = 0 /\ total = Prior /\ done = FALSE
      /\ DOMAIN buckets = {} /\ DOMAIN seconds = {} /\ seconds = [s \in {} |-> None]
  BY DEF Init
<1>3. /\ start \in 0..(Second - 1) /\ delay \in Nat /\ phase \in 0..(Second - 1)
      /\ sampler \in {"none", "coarse", "full"}
      /\ (kind = "capacity" /\ system \in Systems) \/ (kind = "measured" /\ usual \in Kinds)
  <2>1. /\ Starts \subseteq 0..(Second - 1) /\ Phases \subseteq 0..(Second - 1) /\ Delays \subseteq Nat
        /\ Usual \subseteq Kinds /\ Samplers \subseteq {"none", "coarse", "full"}
    BY LoadPassAssumption
  <2>2. CASE /\ kind = "capacity" /\ start \in Starts /\ delay \in Delays /\ system \in Systems
             /\ sampler = "none" /\ phase = 0
    BY <1>1, <2>1, <2>2
  <2>3. CASE /\ kind = "measured" /\ start \in Starts /\ delay = 0 /\ usual \in Usual
             /\ sampler \in Samplers /\ phase \in Phases
    BY <1>1, <2>1, <2>3
  <2> QED BY <2>2, <2>3 DEF Init
<1>4. Typing
  <2>1. IsFiniteSet({})
    BY FS_EmptySet
  <2>2. seconds \in [0..(second - 1) -> Kinds]
    <3>1. 0..(second - 1) = {}
      BY <1>2
    <3> QED BY <1>2, <3>1
  <2> QED BY <1>2, <1>3, <2>1, <2>2, PriorType DEF Typing
<1>5. ASSUME kind = "measured"
      PROVE  Metered
  <2>1. Clocked
    BY <1>4, <1>5, ClockType
  <2>2. Stamps = {phase - Second}
    <3>1. (-1)..(second - 1) = {-1}
      BY <1>2
    <3>2. (-1) * Second + phase = phase - Second
      BY <1>1, <1>3
    <3> QED BY <3>1, <3>2 DEF Stamps
  <2>3. Truth(phase - Second) = Prior
    <3>1. phase - Second < 0
      BY <1>1, <1>3
    <3> QED BY <3>1 DEF Truth
  <2>4. total = Counted[second]
    BY <1>2, <2>1, CountedType
  <2>5. scrapes = [t \in {phase - Second} |-> Scrape(Prior)]
    BY <1>5 DEF Init
  <2>6. CASE sampler = "none"
    <3>1. DOMAIN cpu = {}
      BY <2>6 DEF Init
    <3> QED BY <2>2, <2>3, <2>4, <2>5, <2>6, <3>1 DEF Metered
  <2>7. CASE sampler # "none"
    <3>1. cpu = [t \in {phase - Second} |-> Prior.cpu]
      BY <2>7 DEF Init
    <3>2. Missed <= MaxMissed
      <4>1. Points(cpu) = 1
        BY <3>1, FS_Singleton DEF Points
      <4> QED BY <1>1, <1>2, <2>7, <4>1 DEF Missed
    <3> QED BY <2>2, <2>3, <2>4, <2>5, <2>7, <3>1, <3>2 DEF Metered
  <2> QED BY <2>6, <2>7
<1>6. Metered
  BY <1>5 DEF Metered
<1>7. Capped /\ Settled
  BY <1>2 DEF Capped, Settled
<1> QED BY <1>4, <1>6, <1>7 DEF Inv

\* What no reading of a pass changes.
LEMMA PassStays ==
  ASSUME Inv, UNCHANGED <<setting, second, buckets, seconds, total, cpu, scrapes>>, done' \in BOOLEAN
  PROVE  Typing' /\ Metered' /\ Capped'
<1>1. /\ kind' = kind /\ start' = start /\ delay' = delay /\ system' = system
      /\ usual' = usual /\ sampler' = sampler /\ phase' = phase
      /\ Begin' = Begin /\ End' = End /\ LastSecond' = LastSecond
  BY SameClock
<1>2. /\ second' = second /\ buckets' = buckets /\ seconds' = seconds /\ total' = total
      /\ cpu' = cpu /\ scrapes' = scrapes
  OBVIOUS
<1>3. Typing'
  BY <1>1, <1>2 DEF Inv, Typing
<1>4. Capped'
  BY <1>1, <1>2 DEF Inv, Capped, Throughout
<1>5. Counted' = Counted
  <2>1. \A from, to : Loaded(from, to)' = Loaded(from, to)
    BY <1>1 DEF Loaded
  <2> QED BY <1>2, <2>1 DEF Counted
<1>6. \A t : Truth(t)' = Truth(t)
  <2>1. \A from, to : Loaded(from, to)' = Loaded(from, to)
    BY <1>1 DEF Loaded
  <2> QED BY <1>2, <1>5, <2>1 DEF Truth
<1>7. Stamps' = Stamps /\ Missed' = Missed
  BY <1>1, <1>2 DEF Stamps, Missed
<1>8. Metered'
  <2>1. kind = "measured" =>
    /\ total = Counted[second]
    /\ DOMAIN scrapes = Stamps
    /\ \A t \in Stamps : scrapes[t] = Scrape(Truth(t))
    /\ DOMAIN cpu \subseteq Stamps
    /\ \A t \in DOMAIN cpu : cpu[t] = Truth(t).cpu
    /\ IF sampler = "none" THEN DOMAIN cpu = {} ELSE Missed <= MaxMissed
    BY DEF Inv, Metered
  <2> QED BY <1>1, <1>2, <1>5, <1>6, <1>7, <2>1 DEF Metered
<1> QED BY <1>3, <1>4, <1>8

\* What is computed of unchanged buckets, samples and scrapes does not change.
LEMMA SameSeries ==
  ASSUME buckets' = buckets, cpu' = cpu, scrapes' = scrapes, sampler' = sampler
  PROVE  /\ RPS' = RPS /\ Dropped' = Dropped /\ Failed' = Failed /\ Latency' = Latency
         /\ SelectWindow' = SelectWindow
         /\ \A w : WindowSubject(w)' = WindowSubject(w) /\ WindowServer(w)' = WindowServer(w)
<1>1. RPS' = RPS /\ Dropped' = Dropped /\ Failed' = Failed /\ Latency' = Latency
  BY DEF RPS, Dropped, Failed, Latency
<1>2. SelectWindow' = SelectWindow
  BY <1>1 DEF SelectWindow
<1>3. \A w : WindowSubject(w)' = WindowSubject(w)
  BY DEF WindowSubject
<1>4. \A a, b : Bracketing(a, b)' = Bracketing(a, b)
  BY DEF Bracketing
<1>5. \A w : WindowServer(w)' = WindowServer(w)
  BY <1>4 DEF WindowServer
<1> QED BY <1>1, <1>2, <1>3, <1>5

\* Calibrate keeps the invariant: the knee is the one of the ramp that is over.
LEMMA CalibrateKeeps ==
  ASSUME Inv, Calibrate
  PROVE  Inv'
<1>1. /\ kind = "capacity" /\ second > LastSecond /\ done' = TRUE
      /\ knee' = FindKnee(StepWindows(start + Skip, Targets, Dwell, Transition),
                          RPS, Dropped, Failed, Latency)
      /\ UNCHANGED <<setting, second, buckets, seconds, total, cpu, scrapes, cell>>
  BY DEF Calibrate
<1>2. Typing' /\ Metered' /\ Capped'
  BY <1>1, PassStays
<1>3. kind' = kind /\ start' = start /\ LastSecond' = LastSecond /\ sampler' = sampler
  BY <1>1, SameClock
<1>4. RPS' = RPS /\ Dropped' = Dropped /\ Failed' = Failed /\ Latency' = Latency
  BY <1>1, <1>3, SameSeries
<1>5. Settled'
  BY <1>1, <1>3, <1>4 DEF Settled
<1> QED BY <1>2, <1>5 DEF Inv

\* Measure keeps the invariant: the cell is read from the pass that is over.
LEMMA MeasureKeeps ==
  ASSUME Inv, Measure
  PROVE  Inv'
<1>1. /\ kind = "measured" /\ second > LastSecond /\ done' = TRUE
      /\ cell' = [window |-> SelectWindow,
                  naive  |-> FixedWindow(WholeSeconds(RPS), NaiveDiscard),
                  cpu    |-> WindowSubject(SelectWindow),
                  server |-> WindowServer(SelectWindow)]
      /\ UNCHANGED <<setting, second, buckets, seconds, total, cpu, scrapes, knee, rate>>
  BY DEF Measure
<1>2. Typing' /\ Metered' /\ Capped'
  BY <1>1, PassStays
<1>3. kind' = kind /\ LastSecond' = LastSecond /\ sampler' = sampler
  BY <1>1, SameClock
<1>4. /\ RPS' = RPS /\ SelectWindow' = SelectWindow
      /\ \A w : WindowSubject(w)' = WindowSubject(w) /\ WindowServer(w)' = WindowServer(w)
  BY <1>1, <1>3, SameSeries
<1>5. Settled'
  BY <1>1, <1>3, <1>4 DEF Settled
<1> QED BY <1>2, <1>5 DEF Inv

\* Every step keeps the invariant.
LEMMA NextKeeps == Inv /\ [Next]_vars => Inv'
<1> SUFFICES ASSUME Inv, [Next]_vars
             PROVE  Inv'
  OBVIOUS
<1>1. CASE RampSecond
  BY <1>1, RampSecondKeeps
<1>2. CASE Calibrate
  BY <1>2, CalibrateKeeps
<1>3. CASE kind = "measured" /\ \E p \in {usual} \cup Disturbances : MeasuredSecond(p)
  BY <1>3, MeasuredSecondKeeps
<1>4. CASE Measure
  BY <1>4, MeasureKeeps
<1>5. CASE UNCHANGED vars
  <2>1. /\ UNCHANGED <<setting, second, buckets, seconds, total, cpu, scrapes>>
        /\ done' = done /\ knee' = knee /\ cell' = cell
    BY <1>5 DEF vars, reading
  <2>2. Typing' /\ Metered' /\ Capped'
    BY <2>1, PassStays DEF Inv, Typing
  <2>3. kind' = kind /\ start' = start /\ LastSecond' = LastSecond /\ sampler' = sampler
    BY <2>1, SameClock
  <2>4. /\ RPS' = RPS /\ Dropped' = Dropped /\ Failed' = Failed /\ Latency' = Latency
        /\ SelectWindow' = SelectWindow
        /\ \A w : WindowSubject(w)' = WindowSubject(w) /\ WindowServer(w)' = WindowServer(w)
    BY <2>1, <2>3, SameSeries
  <2>5. Settled'
    BY <2>1, <2>3, <2>4 DEF Inv, Settled
  <2> QED BY <2>2, <2>5 DEF Inv
<1> QED BY <1>1, <1>2, <1>3, <1>4, <1>5 DEF Next

\* The invariant holds in every state of every pass: readings are true of the subject
\* at the tick they were taken, and what is concluded is of the whole pass.
THEOREM Invariant == Spec => []Inv
<1>1. Init => Inv
  BY InitHolds
<1>2. Inv /\ [Next]_vars => Inv'
  BY NextKeeps
<1> QED BY <1>1, <1>2, PTL DEF Spec

-----------------------------------------------------------------------------
\* The window of a measured pass, and what is read from it.

\* What the invariant says of the window of a measured pass that found one.
LEMMA FinalWindow ==
  ASSUME Inv, MeasuredOK
  PROVE  LET w == cell.window
             r == Window(RPS, w.from, w.to)
         IN  /\ w = SelectWindow
             /\ cell.cpu = WindowSubject(w) /\ cell.server = WindowServer(w)
             /\ w.ok /\ w.from \in Nat /\ w.to \in Nat /\ w.from <= w.to
             /\ w.to < second * Second
             /\ IsFiniteSet(DOMAIN r) /\ \A t \in DOMAIN r : r[t] \in Nat
             /\ CVAtMost(r, 5)
<1>1. /\ done /\ kind = "measured" /\ cell.window.ok
      /\ cell = [window |-> SelectWindow,
                 naive  |-> FixedWindow(WholeSeconds(RPS), NaiveDiscard),
                 cpu    |-> WindowSubject(SelectWindow),
                 server |-> WindowServer(SelectWindow)]
  BY DEF MeasuredOK, Inv, Settled
<1>2. /\ cell.window = SelectWindow /\ cell.cpu = WindowSubject(SelectWindow)
      /\ cell.server = WindowServer(SelectWindow) /\ SelectWindow.ok
  BY <1>1
<1>3. second \in Nat /\ DOMAIN buckets \subseteq 0..(second - 1) /\ Second \in Nat \ {0}
  BY LoadPassAssumption DEF Inv, Typing
<1>4. BucketsOK
  <2>1. /\ IsFiniteSet(DOMAIN buckets)
        /\ \A k \in DOMAIN buckets : buckets[k] \in BucketType
    BY DEF Inv, Typing
  <2>2. DOMAIN buckets \subseteq Nat
    BY <1>3
  <2> QED BY <2>1, <2>2 DEF BucketsOK, BucketType
<1> DEFINE w == SelectWindow
           r == Window(RPS, w.from, w.to)
<1>5. /\ w.from \in DOMAIN RPS /\ w.to \in DOMAIN RPS /\ w.from <= w.to
      /\ w.to < Last(RPS) /\ Last(RPS) \in DOMAIN RPS
      /\ IsFiniteSet(DOMAIN r) /\ \A t \in DOMAIN r : r[t] \in Nat
      /\ CVAtMost(r, 5)
  BY <1>2, <1>4, SelectedWindow
<1> HIDE DEF r
<1>6. DOMAIN RPS = SecondsOf(DOMAIN buckets) /\ DOMAIN RPS \subseteq Nat
  BY <1>4, ThroughputIs, OnSecondsType
<1>7. PICK k \in DOMAIN buckets : Last(RPS) = k * Second
  BY <1>5, <1>6 DEF SecondsOf
<1>8. k * Second <= second * Second /\ k * Second \in Nat /\ second * Second \in Nat
  BY <1>3
<1>9. w.from \in Nat /\ w.to \in Nat /\ w.to < second * Second
  BY <1>5, <1>6, <1>7, <1>8
<1> QED BY <1>2, <1>5, <1>9 DEF r

\* NoDipInside, for every pass: no second inside the window selectWindow accepts sinks far
\* below the mean.  It rests on the coefficient of variation alone, by Spread.
THEOREM WindowHasNoDip == Spec => []NoDipInside
<1>1. Inv => NoDipInside
  <2> SUFFICES ASSUME Inv, MeasuredOK
               PROVE  LET w == Window(RPS, cell.window.from, cell.window.to)
                      IN \A t \in DOMAIN w :
                           LET dip == Sum(w) - w[t] * Points(w)
                           IN /\ 400 * dip * dip <= (Points(w) - 1) * Sum(w) * Sum(w)
                              /\ Points(w) <= 17 => 5 * dip <= Sum(w)
    BY DEF NoDipInside
  <2> DEFINE w == Window(RPS, cell.window.from, cell.window.to)
  <2>1. IsFiniteSet(DOMAIN w) /\ (\A t \in DOMAIN w : w[t] \in Nat) /\ CVAtMost(w, 5)
    BY FinalWindow
  <2> HIDE DEF w
  <2>2. \A t \in DOMAIN w :
           LET dip == Sum(w) - w[t] * Points(w)
           IN /\ 400 * dip * dip <= (Points(w) - 1) * Sum(w) * Sum(w)
              /\ Points(w) <= 17 => 5 * dip <= Sum(w)
    BY <2>1, FlatHasNoDip
  <2> QED BY <2>2 DEF w
<1> QED BY <1>1, Invariant, PTL

\* The instruments may have been read once for every second and once before the pass.
LEMMA StampCount ==
  ASSUME Typing
  PROVE  Cardinality(Stamps) = second + 1
<1> DEFINE K == (-1)..(second - 1)
           f == [k \in K |-> k * Second + phase]
<1>1. second \in Nat /\ Second \in Nat \ {0} /\ phase \in Nat
  BY LoadPassAssumption DEF Typing
<1>2. IsFiniteSet(K) /\ Cardinality(K) = second + 1
  BY <1>1, FS_Interval
<1>3. f \in Surjection(K, Stamps)
  BY DEF Surjection, Stamps
<1>4. \A j, k \in K : j * Second + phase = k * Second + phase => j = k
  <2> TAKE j, k \in K
  <2>1. j \in Int /\ k \in Int
    BY <1>1
  <2>2. (j * Second) \div Second = j /\ (k * Second) \div Second = k
    BY <2>1, OfSeconds, Nat \subseteq Nat
  <2>3. j * Second \in Int /\ k * Second \in Int
    BY <1>1, <2>1
  <2> HIDE DEF K
  <2> QED BY <1>1, <2>2, <2>3
<1>5. f \in Injection(K, Stamps)
  BY <1>3, <1>4 DEF Injection, IsInjective, Surjection
<1> HIDE DEF K, f
<1> QED BY <1>2, <1>3, <1>5, FS_Surjection

\* However the missed ticks fall, there is a sample in every stretch of 1 + MaxMissed
\* seconds of the pass so far.
LEMMA SampledOften ==
  ASSUME Inv, kind = "measured", sampler # "none", NEW a \in Int,
         phase - Second <= a, a + (1 + MaxMissed) * Second < second * Second + phase
  PROVE  \E t \in DOMAIN cpu : a < t /\ t <= a + (1 + MaxMissed) * Second
<1> SUFFICES ASSUME \A t \in DOMAIN cpu : ~(a < t /\ t <= a + (1 + MaxMissed) * Second)
             PROVE  FALSE
  OBVIOUS
<1>1. second \in Nat /\ Second \in Nat \ {0} /\ phase \in Nat /\ MaxMissed \in Nat
  BY LoadPassAssumption DEF Inv, Typing
<1>2. /\ DOMAIN cpu \subseteq Stamps /\ Missed <= MaxMissed
      /\ Missed = second + 1 - Cardinality(DOMAIN cpu)
  BY DEF Inv, Metered, Missed, Points
<1> DEFINE m == (a - phase) \div Second
           absent == Stamps \ DOMAIN cpu
           I == 0..MaxMissed
           f == [i \in I |-> (m + 1 + i) * Second + phase]
<1>3. m \in Int /\ Second * m <= a - phase /\ a - phase < Second * m + Second
  BY <1>1, Rounding
<1> HIDE DEF m
<1>4. m >= -1
  <2>1. CASE m <= -2
    <3>1. Second * m <= Second * (-2)
      BY <1>1, <1>3, <2>1
    <3> QED BY <1>1, <1>3, <3>1
  <2> QED BY <1>3, <2>1
<1>5. m + 1 + MaxMissed < second
  <2>1. (m + 1 + MaxMissed) * Second = Second * m + (1 + MaxMissed) * Second
    BY <1>1, <1>3
  <2>2. (m + 1 + MaxMissed) * Second < second * Second
    BY <1>1, <1>3, <2>1
  <2>3. CASE second <= m + 1 + MaxMissed
    <3>1. second * Second <= (m + 1 + MaxMissed) * Second
      BY <1>1, <1>3, <2>3
    <3> QED BY <1>1, <1>3, <2>2, <3>1
  <2> QED BY <1>1, <1>3, <2>3
<1>6. ASSUME NEW i \in I
      PROVE  f[i] \in absent
  <2>1. i \in Nat /\ i <= MaxMissed
    BY <1>1
  <2>2. /\ (m + 1 + i) * Second = Second * m + Second + i * Second
        /\ (1 + MaxMissed) * Second = Second + MaxMissed * Second
        /\ i * Second <= MaxMissed * Second /\ i * Second \in Nat /\ MaxMissed * Second \in Nat
        /\ Second * m \in Int
    BY <1>1, <1>3, <2>1
  <2>3. a < f[i] /\ f[i] <= a + (1 + MaxMissed) * Second
    BY <1>1, <1>3, <2>2
  <2>4. m + 1 + i \in (-1)..(second - 1)
    BY <1>1, <1>3, <1>4, <1>5, <2>1
  <2>5. f[i] \in Stamps
    BY <2>4 DEF Stamps
  <2> HIDE DEF f
  <2> QED BY <2>3, <2>5
<1>7. f \in Injection(I, absent)
  <2>1. f \in [I -> absent]
    BY <1>6
  <2>2. \A i, j \in I : f[i] = f[j] => i = j
    <3> TAKE i, j \in I
    <3>1. m + 1 + i \in Int /\ m + 1 + j \in Int
      BY <1>1, <1>3
    <3>2. ((m + 1 + i) * Second) \div Second = m + 1 + i /\ ((m + 1 + j) * Second) \div Second = m + 1 + j
      BY <3>1, OfSeconds, Nat \subseteq Nat
    <3>3. (m + 1 + i) * Second \in Int /\ (m + 1 + j) * Second \in Int
      BY <1>1, <3>1
    <3>4. (m + 1 + i) * Second = (m + 1 + j) * Second => i = j
      BY <1>1, <1>3, <3>1, <3>2
    <3>5. f[i] = (m + 1 + i) * Second + phase /\ f[j] = (m + 1 + j) * Second + phase
      OBVIOUS
    <3> DEFINE x == (m + 1 + i) * Second
               y == (m + 1 + j) * Second
    <3>6. x \in Int /\ y \in Int /\ (x = y => i = j) /\ f[i] = x + phase /\ f[j] = y + phase
      BY <3>3, <3>4, <3>5
    <3> HIDE DEF f, I, x, y
    <3> QED BY <1>1, <3>6
  <2> HIDE DEF f, absent
  <2> QED BY <2>1, <2>2 DEF Injection, IsInjective
<1>8. IsFiniteSet(absent) /\ Cardinality(absent) <= MaxMissed
  <2>1. IsFiniteSet(Stamps) /\ Cardinality(Stamps) = second + 1
    BY StampsAre, StampCount DEF Inv
  <2>2. IsFiniteSet(DOMAIN cpu) /\ IsFiniteSet(absent)
    BY <1>2, <2>1, FS_Subset
  <2>3. Stamps = DOMAIN cpu \cup absent /\ DOMAIN cpu \cap absent = {}
    BY <1>2
  <2> HIDE DEF absent
  <2>4. Cardinality(Stamps) = Cardinality(DOMAIN cpu) + Cardinality(absent) - Cardinality({})
    BY <2>2, <2>3, FS_Union
  <2>5. Cardinality({}) = 0 /\ Cardinality(DOMAIN cpu) \in Nat /\ Cardinality(absent) \in Nat
    BY <2>2, FS_EmptySet, FS_CardinalityType
  <2> QED BY <1>1, <1>2, <2>1, <2>2, <2>4, <2>5
<1>9. Cardinality(I) = MaxMissed + 1
  BY <1>1, FS_Interval
<1> HIDE DEF f, I, absent
<1>10. Cardinality(I) <= Cardinality(absent)
  BY <1>7, <1>8, FS_Injection
<1>11. Cardinality(absent) \in Nat
  BY <1>8, FS_CardinalityType
<1> QED BY <1>1, <1>8, <1>9, <1>10, <1>11

\* A series with a delta has a first and a last point.
LEMMA TwoPoints ==
  ASSUME NEW s, IsFiniteSet(DOMAIN s), DOMAIN s \subseteq Int, HasDelta(s)
  PROVE  /\ First(s) \in DOMAIN s /\ Last(s) \in DOMAIN s
         /\ \A t \in DOMAIN s : First(s) <= t /\ t <= Last(s)
<1>1. DOMAIN s # {}
  <2>1. Cardinality({}) = 0
    BY FS_EmptySet
  <2>2. Cardinality(DOMAIN s) >= 2
    BY DEF HasDelta, Points
  <2> QED BY <2>1, <2>2
<1> QED BY <1>1, Extrema DEF First, Last

\* The first and the last sample in a window of at most all of the pass.
LEMMA SamplesInWindow ==
  ASSUME Inv, kind = "measured", NEW from \in Nat, NEW to \in Nat, from <= to,
         to < second * Second,
         HasDelta(Window(cpu, from, to))
  PROVE  LET f == First(Window(cpu, from, to))
             l == Last(Window(cpu, from, to))
             gap == (1 + MaxMissed) * Second
         IN /\ f \in DOMAIN cpu /\ l \in DOMAIN cpu /\ f \in Int /\ l \in Int
            /\ from <= f /\ f <= l /\ l <= to
            /\ f <= from + gap /\ to - gap <= l
            /\ Delta(Window(cpu, from, to)) = cpu[l] - cpu[f]
<1> DEFINE in == Window(cpu, from, to)
           f == First(in)
           l == Last(in)
           gap == (1 + MaxMissed) * Second
<1>1. /\ second \in Nat /\ Second \in Nat \ {0} /\ phase \in 0..(Second - 1) /\ MaxMissed \in Nat
      /\ second * Second \in Nat /\ gap \in Nat
  BY LoadPassAssumption DEF Inv, Typing
<1>2. /\ IsFiniteSet(Stamps) /\ Stamps \subseteq Int /\ DOMAIN cpu \subseteq Stamps
      /\ sampler = "none" => DOMAIN cpu = {}
      /\ \A t \in Stamps : t < second * Second /\ phase - Second <= t
  <2>1. \A t \in Stamps : phase - Second <= t
    <3> SUFFICES ASSUME NEW k \in (-1)..(second - 1) PROVE phase - Second <= k * Second + phase
      BY DEF Stamps
    <3>1. k * Second >= -Second
      BY <1>1
    <3> QED BY <1>1, <3>1
  <2> QED BY <2>1, StampsAre DEF Inv, Metered
<1>3. /\ DOMAIN in = {t \in DOMAIN cpu : from <= t /\ t <= to}
      /\ \A t \in DOMAIN in : in[t] = cpu[t]
  BY DEF Window, Restrict
<1> HIDE DEF in, gap
<1>4. IsFiniteSet(DOMAIN in) /\ DOMAIN in \subseteq Int
  BY <1>2, <1>3, FS_Subset
<1>5. HasDelta(in)
  BY DEF in
<1>6. /\ f \in DOMAIN in /\ l \in DOMAIN in
      /\ \A t \in DOMAIN in : f <= t /\ t <= l
  BY <1>4, <1>5, TwoPoints
<1>7. Delta(in) = cpu[l] - cpu[f]
  BY <1>3, <1>6 DEF Delta
<1> HIDE DEF f, l
<1>8. /\ f \in DOMAIN cpu /\ l \in DOMAIN cpu /\ f \in Int /\ l \in Int
      /\ from <= f /\ f <= l /\ l <= to /\ f < second * Second /\ phase - Second <= l
  BY <1>2, <1>3, <1>4, <1>6
<1>9. sampler # "none"
  BY <1>2, <1>8
<1>10. f <= from + gap
  <2> SUFFICES ASSUME from + gap < f PROVE FALSE
    BY <1>1, <1>8
  <2>1. phase - Second <= from /\ from + gap < second * Second + phase /\ from \in Int
    BY <1>1, <1>8
  <2>2. PICK t \in DOMAIN cpu : from < t /\ t <= from + gap
    BY <1>9, <2>1, SampledOften DEF gap
  <2>3. t \in Int
    BY <1>2
  <2>4. t \in DOMAIN in /\ t < f
    BY <1>1, <1>3, <1>8, <2>2, <2>3
  <2> QED BY <1>6, <1>8, <2>3, <2>4
<1>11. to - gap <= l
  <2> SUFFICES ASSUME l < to - gap PROVE FALSE
    BY <1>1, <1>8
  <2> DEFINE a == to - gap
  <2>1. a \in Int /\ phase - Second <= a /\ a + gap < second * Second + phase /\ l < a /\ a + gap = to
    BY <1>1, <1>8
  <2> HIDE DEF a
  <2>2. PICK t \in DOMAIN cpu : a < t /\ t <= a + gap
    BY <1>9, <2>1, SampledOften DEF gap
  <2>3. t \in Int
    BY <1>2
  <2>4. t \in DOMAIN in /\ l < t
    BY <1>1, <1>3, <1>8, <2>1, <2>2, <2>3
  <2> QED BY <1>6, <1>8, <2>3, <2>4
<1> QED BY <1>7, <1>8, <1>10, <1>11 DEF in, f, l, gap

\* CpuIsOfTheWindow, for every pass and every way the sampler misses ticks: the CPU
\* windowSubject reports was used inside the window, and little of it is left out.
THEOREM CpuBelongsToTheWindow == Spec => []CpuIsOfTheWindow
<1>1. Inv => CpuIsOfTheWindow
  <2> SUFFICES ASSUME Inv, MeasuredOK, cell.cpu.ok
               PROVE  LET w   == cell.window
                          gap == (1 + MaxMissed) * Second
                      IN /\ cell.cpu.v <= Truth(w.to).cpu - Truth(w.from).cpu
                         /\ cell.cpu.v >= Truth(w.to - gap).cpu - Truth(w.from + gap).cpu
    BY DEF CpuIsOfTheWindow
  <2> DEFINE w == cell.window
             gap == (1 + MaxMissed) * Second
             f == First(Window(cpu, w.from, w.to))
             l == Last(Window(cpu, w.from, w.to))
  <2>1. /\ cell.cpu = WindowSubject(w) /\ w.ok
        /\ w.from \in Nat /\ w.to \in Nat /\ w.from <= w.to /\ w.to < second * Second
    BY FinalWindow
  <2>2. kind = "measured" /\ Clocked /\ gap \in Nat
    BY ClockType, LoadPassAssumption DEF MeasuredOK, Inv
  <2>3. HasDelta(Window(cpu, w.from, w.to)) /\ cell.cpu.v = Delta(Window(cpu, w.from, w.to))
    BY <2>1 DEF WindowSubject
  <2>4. /\ f \in DOMAIN cpu /\ l \in DOMAIN cpu /\ f \in Int /\ l \in Int
        /\ w.from <= f /\ f <= l /\ l <= w.to
        /\ f <= w.from + gap /\ w.to - gap <= l
        /\ cell.cpu.v = cpu[l] - cpu[f]
    BY <2>1, <2>2, <2>3, SamplesInWindow
  <2> HIDE DEF gap, f, l, w
  <2>5. cpu[l] = Truth(l).cpu /\ cpu[f] = Truth(f).cpu
    BY <2>2, <2>4 DEF Inv, Metered
  <2>6. w.from \in Int /\ w.to \in Int /\ w.from + gap \in Int /\ w.to - gap \in Int
    BY <2>1, <2>2
  <2>7. /\ Truth(w.from).cpu <= Truth(f).cpu /\ Truth(f).cpu <= Truth(w.from + gap).cpu
        /\ Truth(w.to - gap).cpu <= Truth(l).cpu /\ Truth(l).cpu <= Truth(w.to).cpu
    BY <2>2, <2>4, <2>6, TruthMonotone DEF Below
  <2>8. \A t \in Int : Truth(t).cpu \in Nat
    BY <2>2, TruthType DEF Tally
  <2>9. cell.cpu.v <= Truth(w.to).cpu - Truth(w.from).cpu
    BY <2>4, <2>5, <2>6, <2>7, <2>8
  <2>10. cell.cpu.v >= Truth(w.to - gap).cpu - Truth(w.from + gap).cpu
    BY <2>4, <2>5, <2>6, <2>7, <2>8
  <2> QED BY <2>9, <2>10 DEF w, gap
<1> QED BY <1>1, Invariant, PTL

\* What the bucket Quantile names says of the observations, for any histogram.
LEMMA QuantileSays ==
  ASSUME NEW h, NEW E, IsFiniteSet(E), E \subseteq Int, E # {}, Inf \notin E,
         DOMAIN h = E \cup {Inf}, NEW percent
  PROVE  LET q == Quantile(h, percent)
             reached(le) == 100 * h[le] >= percent * h[Inf]
         IN /\ q.bound = "below"        => reached(q.edge)
            /\ q.bound = "above"        => ~reached(q.edge)
            /\ q.bound = "interpolated" => reached(q.edge) /\ ~reached(q.prev)
            /\ q.bound = "unknown"      => h[Inf] = 0
<1> DEFINE obs == Observations(h)
           edges == DOMAIN h \ {Inf}
           reached(le) == 100 * h[le] >= percent * h[Inf]
           reach == {le \in edges : 100 * h[le] >= percent * obs}
           below == {e \in edges : e < Min(reach)}
           unknown == [bound |-> "unknown", edge |-> 0, prev |-> 0]
           q == Quantile(h, percent)
<1>1. obs = h[Inf] /\ edges = E
  BY DEF Observations
<1>2. reach = {le \in E : reached(le)}
  BY <1>1
<1>3. q = IF obs = 0 \/ edges = {} THEN unknown
          ELSE IF reach = {} THEN [unknown EXCEPT !.bound = "above", !.edge = Max(edges)]
          ELSE IF below = {}
               THEN [unknown EXCEPT !.bound = "below", !.edge = Min(reach)]
               ELSE [bound |-> "interpolated", edge |-> Min(reach), prev |-> Max(below)]
  BY DEF Quantile
<1>4. below = {e \in E : e < Min(reach)}
  BY <1>1
<1> HIDE DEF q, reach, below, obs, edges, reached
<1>5. CASE obs = 0
  <2>1. q.bound = "unknown"
    BY <1>3, <1>5
  <2> QED BY <1>1, <1>5, <2>1 DEF q
<1>6. CASE obs # 0 /\ reach = {}
  <2>1. q = [bound |-> "above", edge |-> Max(E), prev |-> 0]
    BY <1>1, <1>3, <1>6
  <2>2. Max(E) \in E
    BY Extrema
  <2>3. q.bound = "above" /\ ~reached(q.edge)
    BY <1>2, <1>6, <2>1, <2>2
  <2> QED BY <2>3 DEF q, reached
<1>7. CASE obs # 0 /\ reach # {}
  <2>1. IsFiniteSet(reach) /\ reach \subseteq Int
    BY <1>2, FS_Subset
  <2>2. Min(reach) \in reach /\ \A x \in reach : Min(reach) <= x
    BY <1>7, <2>1, Extrema
  <2>3. CASE below = {}
    <3>1. q = [bound |-> "below", edge |-> Min(reach), prev |-> 0]
      BY <1>1, <1>3, <1>7, <2>3
    <3>2. q.bound = "below" /\ reached(q.edge)
      BY <1>2, <2>2, <3>1
    <3> QED BY <3>2 DEF q, reached
  <2>4. CASE below # {}
    <3>1. q = [bound |-> "interpolated", edge |-> Min(reach), prev |-> Max(below)]
      BY <1>1, <1>3, <1>7, <2>4
    <3>2. IsFiniteSet(below) /\ below \subseteq Int
      BY <1>4, FS_Subset
    <3>3. Max(below) \in below
      BY <2>4, <3>2, Extrema
    <3>4. Max(below) \in E /\ Max(below) < Min(reach) /\ Max(below) \in Int /\ Min(reach) \in Int
      BY <1>4, <2>1, <2>2, <3>2, <3>3
    <3>5. Max(below) \notin reach
      BY <2>2, <3>4
    <3>6. q.bound = "interpolated" /\ reached(q.edge) /\ ~reached(q.prev)
      BY <1>2, <2>2, <3>1, <3>4, <3>5
    <3> QED BY <3>6 DEF q, reached
  <2> QED BY <2>3, <2>4
<1> QED BY <1>5, <1>6, <1>7

\* The two scrapes around a stretch of the pass.
LEMMA BracketIs ==
  ASSUME Inv, kind = "measured", NEW from \in Nat, NEW to \in Nat, from <= to,
         Bracketing(from, to).ok
  PROVE  LET b == Bracketing(from, to)
         IN /\ b.start \in Stamps /\ b.end \in Stamps
            /\ b.start \in Int /\ b.end \in Int
            /\ b.start <= from /\ to <= b.end
<1> DEFINE before == {t \in DOMAIN scrapes : t <= from}
           after  == {t \in DOMAIN scrapes : t >= to}
           b == Bracketing(from, to)
<1>1. DOMAIN scrapes = Stamps /\ IsFiniteSet(Stamps) /\ Stamps \subseteq Int
  BY StampsAre DEF Inv, Metered
<1>2. b = IF before = {} \/ after = {} \/ Min(after) <= Max(before)
          THEN [ok |-> FALSE, start |-> 0, end |-> 0]
          ELSE [ok |-> TRUE, start |-> Max(before), end |-> Min(after)]
  BY DEF Bracketing
<1>3. b.ok
  OBVIOUS
<1>4. /\ IsFiniteSet(before) /\ before \subseteq Int /\ IsFiniteSet(after) /\ after \subseteq Int
      /\ \A t \in before : t \in Stamps /\ t <= from
      /\ \A t \in after : t \in Stamps /\ to <= t
  <2>1. before \subseteq Stamps /\ after \subseteq Stamps
    BY <1>1
  <2>2. IsFiniteSet(before) /\ IsFiniteSet(after)
    BY <1>1, <2>1, FS_Subset
  <2> QED BY <1>1, <2>1, <2>2
<1> HIDE DEF before, after, b
<1>5. before # {} /\ after # {} /\ b.start = Max(before) /\ b.end = Min(after)
  BY <1>2, <1>3
<1>6. Max(before) \in before /\ Min(after) \in after
  BY <1>4, <1>5, Extrema
<1>7. /\ b.start \in Stamps /\ b.end \in Stamps /\ b.start \in Int /\ b.end \in Int
      /\ b.start <= from /\ to <= b.end
  BY <1>4, <1>5, <1>6
<1> QED BY <1>7 DEF b

\* What two scrapes of growing counters say of the time between them.
LEMMA ScrapesSubtract ==
  ASSUME NEW A \in Tally, NEW B \in Tally, Below(A, B)
  PROVE  LET was == Scrape(A)
             is  == Scrape(B)
             flows == is.total.count - was.total.count
             h == HistogramWindow(was.bucket, is.bucket)
         IN /\ flows \in Nat
            /\ CounterDeltaByLabel(was.outcome, is.outcome)["completed"] = flows
            /\ FlowMean(was.total, is.total) =
                 IF flows > 0 THEN [ok |-> TRUE, sum |-> is.total.sum - was.total.sum, n |-> flows]
                              ELSE NoMean
            /\ h = [le \in Edges \cup {Inf} |-> is.bucket[le] - was.bucket[le]]
            /\ h[Inf] = flows
<1> DEFINE was == Scrape(A)
           is  == Scrape(B)
           cA == Answered(A)
           cB == Answered(B)
           sA == A.fast + 3 * A.mid + 5 * A.slow
           sB == B.fast + 3 * B.mid + 5 * B.slow
           at(c, n, le) == IF le = Inf THEN n ELSE IF le = Min(Edges) THEN c.fast ELSE c.fast + c.mid
<1>1. /\ cA \in Nat /\ cB \in Nat /\ cA <= cB /\ sA \in Nat /\ sB \in Nat /\ sA <= sB
      /\ A.fast \in Nat /\ B.fast \in Nat /\ A.fast <= B.fast
      /\ A.fast + A.mid \in Nat /\ B.fast + B.mid \in Nat /\ A.fast + A.mid <= B.fast + B.mid
  BY DEF Tally, Below, Answered
<1>2. /\ was.outcome = [o \in {"completed"} |-> cA] /\ is.outcome = [o \in {"completed"} |-> cB]
      /\ was.total = [sum |-> sA, count |-> cA] /\ is.total = [sum |-> sB, count |-> cB]
      /\ was.bucket = [le \in Edges \cup {Inf} |-> at(A, cA, le)]
      /\ is.bucket = [le \in Edges \cup {Inf} |-> at(B, cB, le)]
  BY DEF Scrape
<1> HIDE DEF was, is
<1>3. \A le \in Edges \cup {Inf} : /\ at(A, cA, le) \in Nat /\ at(B, cB, le) \in Nat
                                   /\ at(A, cA, le) <= at(B, cB, le)
  BY <1>1
<1>4. at(A, cA, Inf) = cA /\ at(B, cB, Inf) = cB
  OBVIOUS
<1> HIDE DEF at, cA, cB, sA, sB
<1>5. is.total.count - was.total.count = cB - cA /\ is.total.sum - was.total.sum = sB - sA
  BY <1>2
<1>6. CounterDeltaByLabel(was.outcome, is.outcome)["completed"] = cB - cA
  BY <1>1, <1>2 DEF CounterDeltaByLabel
<1>7. /\ CounterDelta(was.total, is.total, "sum") = [ok |-> TRUE, v |-> sB - sA]
      /\ CounterDelta(was.total, is.total, "count") = [ok |-> TRUE, v |-> cB - cA]
  BY <1>1, <1>2 DEF CounterDelta
<1>8. FlowMean(was.total, is.total) =
        IF cB - cA > 0 THEN [ok |-> TRUE, sum |-> sB - sA, n |-> cB - cA] ELSE NoMean
  <2> DEFINE ds == CounterDelta(was.total, is.total, "sum")
             dn == CounterDelta(was.total, is.total, "count")
  <2>1. FlowMean(was.total, is.total) =
          IF ds.ok /\ dn.ok /\ dn.v > 0 THEN [ok |-> TRUE, sum |-> ds.v, n |-> dn.v] ELSE NoMean
    BY DEF FlowMean
  <2>2. ds.ok /\ dn.ok /\ ds.v = sB - sA /\ dn.v = cB - cA
    BY <1>7
  <2> HIDE DEF ds, dn
  <2> QED BY <2>1, <2>2
<1>9. HistogramWindow(was.bucket, is.bucket) =
        [le \in Edges \cup {Inf} |-> is.bucket[le] - was.bucket[le]]
  <2>1. /\ DOMAIN was.bucket = Edges \cup {Inf} /\ DOMAIN is.bucket = Edges \cup {Inf}
        /\ \A le \in Edges \cup {Inf} : was.bucket[le] = at(A, cA, le) /\ is.bucket[le] = at(B, cB, le)
    BY <1>2
  <2>2. \A le \in Edges \cup {Inf} : Positive(is.bucket[le] - was.bucket[le]) = is.bucket[le] - was.bucket[le]
    BY <1>3, <2>1 DEF Positive
  <2> QED BY <2>1, <2>2 DEF HistogramWindow
<1>10. HistogramWindow(was.bucket, is.bucket)[Inf] = cB - cA
  BY <1>2, <1>4, <1>9
<1> DEFINE flows == is.total.count - was.total.count
<1>11. flows = cB - cA /\ flows \in Nat
  BY <1>1, <1>5
<1> HIDE DEF flows
<1>12. CounterDeltaByLabel(was.outcome, is.outcome)["completed"] = flows
  BY <1>6, <1>11
<1>13. FlowMean(was.total, is.total) =
         IF flows > 0 THEN [ok |-> TRUE, sum |-> is.total.sum - was.total.sum, n |-> flows]
                      ELSE NoMean
  BY <1>5, <1>8, <1>11
<1>14. HistogramWindow(was.bucket, is.bucket)[Inf] = flows
  BY <1>10, <1>11
<1> QED BY <1>9, <1>11, <1>12, <1>13, <1>14 DEF was, is, flows

\* QuantileIsHonest, for every pass: windowServer reports the flows which ended between two
\* scrapes around the window, their mean, and a bound of the percentile that is true.
THEOREM ServerFiguresAreHonest == Spec => []QuantileIsHonest
<1>1. Inv => QuantileIsHonest
  <2> SUFFICES ASSUME Inv, MeasuredOK, cell.server.present
               PROVE  QuantileIsHonest
    BY DEF QuantileIsHonest
  <2> DEFINE w == cell.window
             b == Bracketing(w.from, w.to)
             was == Scrape(Truth(b.start))
             is  == Scrape(Truth(b.end))
             all == [le \in Edges \cup {Inf} |-> is.bucket[le] - was.bucket[le]]
             flows == is.total.count - was.total.count
             q == Quantile(all, 95)
  <2>1. cell.server = WindowServer(w) /\ w.from \in Nat /\ w.to \in Nat /\ w.from <= w.to
    BY FinalWindow
  <2>2. kind = "measured" /\ Clocked
    BY ClockType DEF MeasuredOK, Inv
  <2>3. /\ w.ok /\ b.ok
        /\ cell.server =
             [present   |-> TRUE,
              span      |-> <<b.start, b.end>>,
              completed |-> CounterDeltaByLabel(scrapes[b.start].outcome, scrapes[b.end].outcome)["completed"],
              mean      |-> FlowMean(scrapes[b.start].total, scrapes[b.end].total),
              p95       |-> Quantile(HistogramWindow(scrapes[b.start].bucket, scrapes[b.end].bucket), 95)]
    BY <2>1 DEF WindowServer, NoServer
  <2>4. /\ b.start \in Stamps /\ b.end \in Stamps /\ b.start \in Int /\ b.end \in Int
        /\ b.start <= w.from /\ w.to <= b.end
    BY <2>1, <2>2, <2>3, BracketIs
  <2> HIDE DEF b, w
  <2>5. scrapes[b.start] = was /\ scrapes[b.end] = is
    BY <2>2, <2>4 DEF Inv, Metered
  <2>6. b.start <= b.end
    BY <2>1, <2>4
  <2>7. Truth(b.start) \in Tally /\ Truth(b.end) \in Tally /\ Below(Truth(b.start), Truth(b.end))
    BY <2>2, <2>4, <2>6, TruthType, TruthMonotone
  <2>8. /\ CounterDeltaByLabel(was.outcome, is.outcome)["completed"] = flows
        /\ FlowMean(was.total, is.total) =
             IF flows > 0 THEN [ok |-> TRUE, sum |-> is.total.sum - was.total.sum, n |-> flows]
                          ELSE NoMean
        /\ HistogramWindow(was.bucket, is.bucket) = all
        /\ all[Inf] = flows
    BY <2>7, ScrapesSubtract
  <2>9. DOMAIN all = Edges \cup {Inf}
    OBVIOUS
  <2> HIDE DEF was, is, all, flows
  <2>10. /\ q.bound = "below"        => 100 * all[q.edge] >= 95 * flows
         /\ q.bound = "above"        => ~(100 * all[q.edge] >= 95 * flows)
         /\ q.bound = "interpolated" => 100 * all[q.edge] >= 95 * flows /\ ~(100 * all[q.prev] >= 95 * flows)
         /\ q.bound = "unknown"      => flows = 0
    <3>1. IsFiniteSet(Edges) /\ Edges \subseteq Int /\ Edges # {} /\ Inf \notin Edges
      BY LoadPassAssumption
    <3>2. /\ q.bound = "below"        => 100 * all[q.edge] >= 95 * all[Inf]
          /\ q.bound = "above"        => ~(100 * all[q.edge] >= 95 * all[Inf])
          /\ q.bound = "interpolated" => /\ 100 * all[q.edge] >= 95 * all[Inf]
                                         /\ ~(100 * all[q.prev] >= 95 * all[Inf])
          /\ q.bound = "unknown"      => all[Inf] = 0
      BY <2>9, <3>1, QuantileSays
    <3> QED BY <2>8, <3>2
  <2> HIDE DEF q
  <2>11. /\ cell.server.p95 = q /\ cell.server.span[1] = b.start /\ cell.server.span[2] = b.end
         /\ cell.server.completed = flows
         /\ cell.server.mean =
              IF flows > 0 THEN [ok |-> TRUE, sum |-> is.total.sum - was.total.sum, n |-> flows]
                           ELSE NoMean
    BY <2>3, <2>5, <2>8 DEF q
  <2> QED BY <2>4, <2>10, <2>11 DEF QuantileIsHonest, was, is, all, flows, w
<1> QED BY <1>1, Invariant, PTL

-----------------------------------------------------------------------------
\* The knee of a capacity pass.

\* A rung that was held, while the system was limited all through its dwell, is one it
\* could serve.
LEMMA HeldIsServed ==
  ASSUME Inv, kind = "capacity", system.mode # "slow", NEW i \in 1..Steps, LimitedPast(i),
         NEW latency, NEW ref,
         Held(Rung([offered |-> Targets[i],
                    from |-> start + Skip + i * Transition + (i - 1) * Dwell,
                    to |-> start + Skip + i * Transition + (i - 1) * Dwell + Dwell - 1],
                   RPS, Dropped, Failed, latency), ref)
  PROVE  99 * Targets[i] <= 100 * system.capacity
<1> DEFINE from == start + Skip + i * Transition + (i - 1) * Dwell
           to == from + Dwell - 1
           step == [offered |-> Targets[i], from |-> from, to |-> to]
           r == Rung(step, RPS, Dropped, Failed, latency)
           in == Window(RPS, from, to)
           bad == Window(Failed, from, to)
           c == system.capacity
           D == DOMAIN in
<1>1. /\ r.offered = Targets[i] /\ r.seconds = Points(in) /\ r.achieved = Sum(in)
      /\ r.failed = Sum(bad)
  BY DEF Rung
<1>2. Held(r, ref)
  OBVIOUS
<1> HIDE DEF r
<1>3. /\ Points(in) > 0
      /\ Sum(bad) = 0 \/ Sum(in) = 0
      /\ 100 * Sum(in) >= 99 * Targets[i] * Points(in) /\ Targets[i] > 0
  BY <1>1, <1>2 DEF Held
<1>4. /\ Second \in Nat \ {0} /\ c \in Nat /\ Targets[i] \in Nat
      /\ start \in Nat /\ delay \in Nat /\ system.until \in Nat
      /\ Dwell \in Nat /\ Transition \in Nat /\ Steps \in Nat /\ i \in Nat /\ i >= 1
  <2>1. RampTypes /\ Target(StartRate, PeakRate, Steps, i) \in StartRate..PeakRate
    BY TargetsAre
  <2>2. Targets[i] = Target(StartRate, PeakRate, Steps, i)
    BY DEF Targets
  <2>3. system \in Systems
    BY DEF Inv, Typing
  <2> QED BY <2>1, <2>2, <2>3, LoadPassAssumption DEF RampTypes, Inv, Typing
<1>5. BucketsOK /\ \A k \in DOMAIN buckets : buckets[k] \in BucketType
  BY DEF Inv, Typing, BucketsOK, BucketType
<1>6. /\ DOMAIN RPS = SecondsOf(DOMAIN buckets)
      /\ \A k \in DOMAIN buckets : RPS[k * Second] = buckets[k].requests
  BY <1>5, ThroughputIs
<1>7. /\ DOMAIN Failed = SecondsOf(DOMAIN buckets)
      /\ \A k \in DOMAIN buckets : Failed[k * Second] = buckets[k].failed
  <2> DEFINE value == [s \in DOMAIN buckets |-> buckets[s].failed]
  <2>1. DOMAIN value = DOMAIN buckets /\ DOMAIN value \subseteq Nat /\ Failed = SeriesOf(value)
    BY <1>5 DEF BucketsOK, Failed
  <2>2. \A k \in DOMAIN buckets : value[k] = buckets[k].failed
    OBVIOUS
  <2> HIDE DEF value
  <2> QED BY <2>1, <2>2, SeriesOfIs
<1>8. /\ D = {t \in SecondsOf(DOMAIN buckets) : from <= t /\ t <= to}
      /\ DOMAIN bad = D
      /\ \A t \in D : in[t] = RPS[t] /\ bad[t] = Failed[t]
  BY <1>6, <1>7 DEF Window, Restrict
<1> HIDE DEF in, bad
<1>9. IsFiniteSet(D)
  <2>1. IsFiniteSet(SecondsOf(DOMAIN buckets))
    BY <1>5, OfSeconds DEF BucketsOK
  <2> QED BY <1>8, <2>1, FS_Subset
<1>10. ASSUME NEW t \in D
       PROVE  /\ in[t] \in Nat /\ bad[t] \in Nat
              /\ bad[t] > 0 \/ in[t] <= c
  <2>1. PICK k \in DOMAIN buckets : t = k * Second
    BY <1>8 DEF SecondsOf
  <2>2. in[t] = buckets[k].requests /\ bad[t] = buckets[k].failed
    BY <1>6, <1>7, <1>8, <2>1
  <2>3. buckets[k].requests \in Nat /\ buckets[k].failed \in Nat /\ k \in Nat
    BY <1>5 DEF BucketType, BucketsOK
  <2>4. Throughout(k)
    <3>1. t <= to /\ t \in Nat
      BY <1>4, <1>8, <2>1, <2>3
    <3>2. to = start + Skip + i * (Transition + Dwell) - 1
      <4>1. Skip \in Nat
        BY <1>4 DEF Skip, WarmUp
      <4>2. i * (Transition + Dwell) = i * Transition + i * Dwell /\ (i - 1) * Dwell = i * Dwell - Dwell
            /\ i * Transition \in Nat /\ i * Dwell \in Nat
        BY <1>4
      <4> QED BY <1>4, <4>1, <4>2
    <3>3. Skip + i * (Transition + Dwell) \in Nat /\ Skip + i * (Transition + Dwell) + Second <= system.until
      BY <1>4 DEF Skip, WarmUp, LimitedPast
    <3>4. Begin = start + delay
      BY ClockType DEF Inv
    <3> DEFINE z == Skip + i * (Transition + Dwell)
    <3>5. z \in Nat /\ z + Second <= system.until /\ t <= start + z - 1
      <4>1. start + Skip + i * (Transition + Dwell) - 1 = start + z - 1
        BY <1>4 DEF Skip, WarmUp
      <4> QED BY <3>1, <3>2, <3>3, <4>1
    <3> HIDE DEF z
    <3>6. t + Second - Begin <= system.until
      BY <1>4, <3>1, <3>4, <3>5
    <3> QED BY <2>1, <3>6 DEF Throughout
  <2>5. buckets[k].failed > 0 \/ buckets[k].requests <= Second * (c \div Second)
    BY <2>4 DEF Inv, Capped
  <2> HIDE DEF c
  <2>6. Second * (c \div Second) <= c /\ c \div Second \in Int
    <3>1. c \in Int /\ Second \in Nat \ {0}
      BY <1>4 DEF c
    <3> QED BY <3>1, Rounding
  <2>7. Second * (c \div Second) \in Int
    BY <1>4, <2>6
  <2>8. c \in Nat
    BY <1>4 DEF c
  <2> QED BY <2>8, <2>2, <2>3, <2>5, <2>6, <2>7
<1> HIDE DEF D
<1>11. Sum(in) = SumOn(in, D) /\ Sum(bad) = SumOn(bad, D) /\ Points(in) = Cardinality(D)
  BY <1>8, SumOfSeries DEF D, Points
<1>12. Cardinality(D) \in Nat /\ SumOn(in, D) \in Nat /\ SumOn(bad, D) \in Nat
  <2>1. D \in SUBSET D /\ (\A t \in D : in[t] \in Nat) /\ \A t \in D : bad[t] \in Nat
    BY <1>10
  <2> QED BY <1>9, <2>1, SumNonNegative, FS_CardinalityType
<1> DEFINE n == Cardinality(D)
           S == SumOn(in, D)
           g == Targets[i]
<1>13. n \in Nat /\ n > 0 /\ S \in Nat /\ 100 * S >= 99 * g * n /\ g \in Nat /\ g > 0
  BY <1>3, <1>4, <1>11, <1>12
<1>14. Sum(bad) = 0
  <2> SUFFICES ASSUME S = 0 PROVE FALSE
    BY <1>3, <1>11
  <2> HIDE DEF n, S, g
  <2>1. 99 * g * n > 0
    BY <1>13
  <2> QED BY <1>13, <2>1
<1>15. \A t \in D : bad[t] = 0
  <2> SUFFICES ASSUME NEW t \in D PROVE bad[t] = 0
    OBVIOUS
  <2>1. bad[t] <= SumOn(bad, D)
    BY <1>9, <1>10, MemberOfSum
  <2> QED BY <1>10, <1>11, <1>14, <2>1
<1>16. S <= n * c
  <2>1. \A t \in D : in[t] \in Int /\ in[t] <= c
    BY <1>10, <1>15
  <2>2. c \in Int
    BY <1>4
  <2> HIDE DEF c
  <2> QED BY <1>9, <2>1, <2>2, SumBounded
<1> HIDE DEF n, S, g, c
<1>17. c \in Nat
  BY <1>4 DEF c
<1>18. CASE 99 * g > 100 * c
  <2>1. 99 * g >= 100 * c + 1
    BY <1>13, <1>17, <1>18
  <2>2. (99 * g) * n >= (100 * c + 1) * n
    BY <1>13, <1>17, <2>1
  <2>3. (100 * c + 1) * n = 100 * (n * c) + n /\ n * c \in Nat
    BY <1>13, <1>17
  <2> QED BY <1>13, <1>16, <1>17, <2>2, <2>3
<1> QED BY <1>13, <1>17, <1>18 DEF g, c

\* KneeIsServed, for every ramp and every system: a rung up to the knee was served.
THEOREM KneeWasServed == Spec => []KneeIsServed
<1>1. Inv => KneeIsServed
  <2> SUFFICES ASSUME Inv, Calibrated, system.mode # "slow",
                      NEW i \in 1..Steps, Targets[i] <= knee.rate, LimitedPast(i)
               PROVE  99 * Targets[i] <= 100 * system.capacity
    BY DEF KneeIsServed
  <2> DEFINE at == start + Skip
             stage(j) == at + j * Transition + (j - 1) * Dwell
             step(j) == [offered |-> Targets[j], from |-> stage(j), to |-> stage(j) + Dwell - 1]
             steps == StepWindows(at, Targets, Dwell, Transition)
             rungs == [j \in 1..Len(steps) |-> Rung(steps[j], RPS, Dropped, Failed, Latency)]
             held(j) == Held(rungs[j], Reference(rungs, j))
             broken == {j \in 1..Len(steps) : ~held(j)}
             upto == IF broken = {} THEN Len(steps) ELSE Min(broken) - 1
  <2>1. /\ kind = "capacity"
        /\ knee = FindKnee(steps, RPS, Dropped, Failed, Latency)
    BY DEF Calibrated, Inv, Settled
  <2>2. knee.rate = IF upto = 0 THEN 0 ELSE steps[upto].offered
    BY <2>1 DEF FindKnee
  <2>3. RampTypes
    BY TargetsAre
  <2>4. /\ Len(Targets) = Steps
        /\ \A j \in 1..Steps : Targets[j] \in Nat
        /\ \A j, k \in 1..Steps : j <= k => Targets[j] <= Targets[k]
    <3>1. \A j \in 1..Steps : Targets[j] = Target(StartRate, PeakRate, Steps, j)
      BY DEF Targets
    <3>2. \A j \in 1..Steps : Target(StartRate, PeakRate, Steps, j) \in Nat
      BY <2>3, TargetsAre DEF RampTypes
    <3>3. Targets \in Seq(Nat) /\ DOMAIN Targets = 1..Steps
      BY <2>3, <3>2 DEF Targets, RampTypes
    <3>4. Len(Targets) = Steps
      BY <2>3, <3>3 DEF RampTypes
    <3> QED BY <3>1, <3>2, <3>4, TargetsAre
  <2>5. steps = [j \in 1..Steps |-> step(j)] /\ Len(steps) = Steps
    <3>1. steps = [j \in 1..Steps |-> step(j)]
      BY <2>4 DEF StepWindows
    <3> HIDE DEF steps, step
    <3>2. steps \in Seq({step(j) : j \in 1..Steps}) /\ DOMAIN steps = 1..Steps
      BY <2>3, <3>1 DEF RampTypes
    <3>3. Len(steps) = Steps
      BY <2>3, <3>2 DEF RampTypes
    <3> QED BY <3>1, <3>3
  <2>6. \A j \in 1..Steps : steps[j] = step(j) /\ steps[j].offered = Targets[j]
    BY <2>5
  <2>7. \A j \in 1..Steps : rungs[j] = Rung(step(j), RPS, Dropped, Failed, Latency)
    BY <2>5, <2>6
  <2> HIDE DEF steps, rungs
  <2>8. broken = {j \in 1..Steps : ~held(j)}
    BY <2>5
  <2> HIDE DEF held, broken
  <2>9. upto \in 0..Steps /\ \A j \in 1..upto : held(j)
    <3>1. CASE broken = {}
      <4>1. upto = Steps
        BY <2>5, <3>1
      <4>2. Steps \in 0..Steps
        BY <2>3 DEF RampTypes
      <4>3. \A j \in 1..Steps : held(j)
        BY <2>8, <3>1
      <4> HIDE DEF upto
      <4> QED BY <4>1, <4>2, <4>3
    <3>2. CASE broken # {}
      <4>1. IsFiniteSet(1..Steps) /\ broken \subseteq 1..Steps
        BY <2>3, <2>8, FS_Interval DEF RampTypes
      <4>2. IsFiniteSet(broken) /\ broken \subseteq Int
        <5>1. 1..Steps \subseteq Int
          BY <2>3 DEF RampTypes
        <5>2. IsFiniteSet(broken)
          BY <4>1, FS_Subset, Zenon
        <5> QED BY <4>1, <5>1, <5>2
      <4>3. Min(broken) \in broken /\ \A x \in broken : Min(broken) <= x
        BY <3>2, <4>2, Extrema
      <4>4. Min(broken) \in 1..Steps /\ upto = Min(broken) - 1
        BY <3>2, <4>1, <4>3
      <4>5. ASSUME NEW j \in 1..upto PROVE held(j)
        <5>1. j \in 1..Steps /\ j < Min(broken)
          BY <2>3, <4>4 DEF RampTypes
        <5> QED BY <2>8, <4>3, <4>4, <5>1
      <4> QED BY <2>3, <4>4, <4>5 DEF RampTypes
    <3> QED BY <3>1, <3>2
  <2> HIDE DEF upto
  <2>10. system.capacity \in Nat
    <3>1. system \in Systems
      BY <2>1 DEF Inv, Typing
    <3> QED BY <3>1, LoadPassAssumption
  <2>11. CASE upto = 0
    <3>1. Targets[i] <= 0 /\ Targets[i] \in Nat
      BY <2>2, <2>4, <2>11
    <3> QED BY <2>10, <3>1
  <2>12. CASE upto # 0
    <3>1. upto \in 1..Steps /\ knee.rate = Targets[upto]
      <4>1. upto \in 1..Steps
        BY <2>3, <2>9, <2>12 DEF RampTypes
      <4>2. knee.rate = steps[upto].offered
        BY <2>2, <2>12
      <4> QED BY <2>6, <4>1, <4>2
    <3> DEFINE j == IF i <= upto THEN i ELSE upto
    <3>2. j \in 1..Steps /\ j \in 1..upto /\ Targets[i] <= Targets[j] /\ j <= i
      BY <2>3, <2>4, <3>1 DEF RampTypes
    <3> HIDE DEF j
    <3>3. LimitedPast(j)
      <4>1. j * (Transition + Dwell) <= i * (Transition + Dwell)
            /\ j * (Transition + Dwell) \in Nat /\ i * (Transition + Dwell) \in Nat
        BY <2>3, <3>2 DEF RampTypes
      <4>2. Skip \in Nat /\ Second \in Nat /\ system.until \in Nat
        <5>1. system \in Systems
          BY <2>1 DEF Inv, Typing
        <5> QED BY <2>3, <5>1, LoadPassAssumption DEF RampTypes, Skip, WarmUp
      <4> DEFINE x == j * (Transition + Dwell)
                 y == i * (Transition + Dwell)
      <4>3. x <= y /\ x \in Nat /\ y \in Nat /\ Skip + y + Second <= system.until
        BY <4>1 DEF LimitedPast
      <4> HIDE DEF x, y
      <4>4. Skip + x + Second <= system.until
        BY <4>2, <4>3
      <4> QED BY <4>4 DEF LimitedPast, x
    <3>4. Held(Rung(step(j), RPS, Dropped, Failed, Latency), Reference(rungs, j))
      BY <2>7, <2>9, <3>2 DEF held
    <3>5. 99 * Targets[j] <= 100 * system.capacity
      BY <2>1, <3>2, <3>3, <3>4, HeldIsServed
    <3> QED BY <2>4, <2>10, <3>2, <3>5
  <2> QED BY <2>11, <2>12
<1> QED BY <1>1, Invariant, PTL

-----------------------------------------------------------------------------
\* A pass that nothing disturbs: a constant series is flat, and found.

\* The sum of a constant.
LEMMA SumConstant ==
  ASSUME NEW D, IsFiniteSet(D), NEW c \in Int, NEW f, \A x \in D : f[x] = c
  PROVE  SumOn(f, D) = Cardinality(D) * c
<1> DEFINE h == [x \in D |-> -c]
<1>1. \A x \in D : f[x] \in Int /\ f[x] <= c
  OBVIOUS
<1>2. \A x \in D : h[x] \in Int /\ h[x] <= -c
  OBVIOUS
<1>3. \A x \in D : f[x] \in Int /\ f[x] \in Int /\ h[x] = (-1) * f[x] + 0 * f[x] + 0
  OBVIOUS
<1>4. SumOn(f, D) \in Int /\ Cardinality(D) \in Nat
  <2>1. D \in SUBSET D
    OBVIOUS
  <2> QED BY <1>1, <2>1, SumIsInt, FS_CardinalityType
<1> HIDE DEF h
<1>5. SumOn(f, D) <= Cardinality(D) * c
  BY <1>1, SumBounded
<1>6. SumOn(h, D) <= Cardinality(D) * (-c)
  <2>1. PICK m \in Int : m = -c
    OBVIOUS
  <2>2. \A x \in D : h[x] \in Int /\ h[x] <= m
    BY <1>2, <2>1
  <2>3. SumOn(h, D) <= Cardinality(D) * m
    BY <2>1, <2>2, SumBounded
  <2> QED BY <2>1, <2>3
<1>7. SumOn(h, D) = (-1) * SumOn(f, D) + 0 * SumOn(f, D) + 0 * Cardinality(D)
  BY <1>3, SumLinear
<1> QED BY <1>4, <1>5, <1>6, <1>7

\* A series with two points a second apart has a regression line: its abscissae differ, so
\* their variance, the denominator, is not zero (Spread again).
LEMMA LineExists ==
  ASSUME NEW s, IsFiniteSet(DOMAIN s), DOMAIN s \subseteq Int,
         NEW u \in DOMAIN s, NEW v \in DOMAIN s, u + Second <= v
  PROVE  /\ Slope(s).den \in Nat \ {0}
         /\ \A t \in DOMAIN s : (t - First(s)) \div Second \in Nat
<1> DEFINE D == DOMAIN s
           x == [t \in D |-> (t - First(s)) \div Second]
           sq == [t \in D |-> x[t] * x[t]]
           n == Cardinality(D)
           X == SumOn(x, D)
           Q == SumOn(sq, D)
<1>1. Second \in Nat \ {0}
  BY LoadPassAssumption
<1>2. First(s) \in D /\ First(s) \in Int /\ \A t \in D : First(s) <= t
  BY Extrema DEF First
<1>3. \A t \in D : t - First(s) \in Nat /\ t \in Int
  BY <1>2
<1>4. \A t \in D : (t - First(s)) \div Second \in Nat
  BY <1>1, <1>3
<1>5. \A t \in D : x[t] \in Nat /\ x[t] \in Int
  BY <1>4
<1>6. x[First(s)] = 0
  <2>1. (First(s) - First(s)) \div Second = 0
    BY <1>1, <1>2
  <2> QED BY <1>2, <2>1
<1>7. x[v] >= 1
  <2>1. Second \div Second <= (v - First(s)) \div Second
    <3>1. Second \in Int /\ v - First(s) \in Int /\ Second <= v - First(s)
      BY <1>1, <1>2
    <3> QED BY <1>1, <3>1, DivMonotone
  <2>2. Second \div Second = 1
    BY <1>1
  <2>3. x[v] = (v - First(s)) \div Second
    OBVIOUS
  <2> QED BY <2>1, <2>2, <2>3
<1>8. Slope(s).den = n * Q - X * X
  <2>1. DOMAIN x = D /\ DOMAIN sq = D
    OBVIOUS
  <2>2. Squares(x) = Q /\ Sum(x) = X
    BY <2>1, SumOfSeries DEF Squares
  <2> QED BY <2>2 DEF Slope, Points
<1> HIDE DEF x
<1>9. n \in Nat /\ X \in Nat
  <2>1. D \in SUBSET D
    OBVIOUS
  <2> QED BY <1>5, <2>1, FS_CardinalityType, SumNonNegative
<1>10. Q \in Int
  <2>1. D \in SUBSET D /\ \A t \in D : sq[t] \in Int
    BY <1>5
  <2> HIDE DEF sq
  <2> QED BY <2>1, SumIsInt
<1>11. x[v] <= X
  BY <1>5, MemberOfSum
<1>18. x[v] \in Int
  BY <1>5
<1>12. (X - n * x[First(s)]) * (X - n * x[First(s)]) <= n * (n * Q - X * X)
  BY <1>2, <1>5, Spread
<1> HIDE DEF D, n, X, Q
<1>13. X * X <= n * (n * Q - X * X)
  <2>1. X - n * x[First(s)] = X
    BY <1>6, <1>9
  <2> QED BY <1>12, <2>1
<1>14. X * X >= 1
  <2>1. X >= 1
    BY <1>7, <1>9, <1>11, <1>18
  <2> QED BY <1>9, <2>1
<1> DEFINE d == n * Q - X * X
<1>15. d \in Int
  BY <1>9, <1>10
<1>16. n * d >= 1
  BY <1>9, <1>13, <1>14, <1>15
<1> HIDE DEF d
<1>17. d > 0
  <2>1. CASE d <= 0
    <3>1. n * d <= 0
      BY <1>9, <1>15, <2>1
    <3> QED BY <1>9, <1>15, <1>16, <3>1
  <2> QED BY <1>15, <2>1
<1> QED BY <1>4, <1>8, <1>15, <1>17 DEF d, D

\* A constant series passes the three criteria of DetectSteady.
LEMMA ConstantIsFlat ==
  ASSUME NEW s, IsFiniteSet(DOMAIN s), DOMAIN s \subseteq Int, Points(s) >= 3,
         NEW u \in DOMAIN s, NEW v \in DOMAIN s, u + Second <= v,
         NEW c \in Nat \ {0}, \A t \in DOMAIN s : s[t] = c
  PROVE  /\ Sum(s) = Points(s) * c
         /\ HasSlope(s) /\ CVAtMost(s, 5)
         /\ \A over, share \in Nat : DriftAtMost(s, over, share)
<1> DEFINE D == DOMAIN s
           x == [t \in D |-> (t - First(s)) \div Second]
           xy == [t \in D |-> x[t] * s[t]]
           sq == [t \in D |-> s[t] * s[t]]
           n == Cardinality(D)
           X == SumOn(x, D)
<1>1. Second \in Nat \ {0} /\ n \in Nat /\ n >= 3 /\ Points(s) = n
  BY LoadPassAssumption, FS_CardinalityType DEF Points
<1>2. Sum(s) = n * c
  BY SumConstant, SumOfSeries
<1>3. Slope(s).den \in Nat \ {0} /\ \A t \in D : x[t] \in Nat /\ x[t] \in Int
  BY LineExists
<1>4. Slope(s).num = n * SumOn(xy, D) - X * Sum(s)
  <2>1. Sum(x) = X /\ Sum(xy) = SumOn(xy, D)
    <3>1. DOMAIN x = D /\ DOMAIN xy = D
      OBVIOUS
    <3> QED BY <3>1, SumOfSeries
  <2> QED BY <2>1 DEF Slope, Points
<1>5. Squares(s) = n * (c * c)
  <2>1. \A t \in D : sq[t] = c * c
    OBVIOUS
  <2>2. c * c \in Int /\ DOMAIN sq = D
    OBVIOUS
  <2>3. SumOn(sq, D) = n * (c * c)
    <3> HIDE DEF sq
    <3> QED BY <2>1, <2>2, SumConstant
  <2> QED BY <2>2, <2>3, SumOfSeries DEF Squares
<1>6. SumOn(xy, D) = c * X
  <2>1. \A t \in D : x[t] \in Int /\ x[t] \in Int /\ xy[t] = c * x[t] + 0 * x[t] + 0
    <3> SUFFICES ASSUME NEW t \in D PROVE x[t] * s[t] = c * x[t] + 0 * x[t] + 0
      BY <1>3
    <3>1. s[t] = c /\ x[t] \in Int
      BY <1>3
    <3> HIDE DEF x
    <3> QED BY <3>1
  <2> HIDE DEF x, xy
  <2>2. SumOn(xy, D) = c * SumOn(x, D) + 0 * SumOn(x, D) + 0 * Cardinality(D)
    BY <2>1, SumLinear
  <2>3. SumOn(x, D) \in Int
    <3>1. D \in SUBSET D
      OBVIOUS
    <3> QED BY <2>1, <3>1, SumIsInt
  <2> QED BY <1>1, <2>2, <2>3
<1>7. X \in Int
  <2> HIDE DEF x
  <2>1. D \in SUBSET D
    OBVIOUS
  <2> QED BY <1>3, <2>1, SumIsInt
<1> HIDE DEF D, x, xy, X, n
<1>8. Slope(s).num = 0
  BY <1>1, <1>2, <1>4, <1>6, <1>7
<1>9. n * c \in Nat /\ n * c > 0
  BY <1>1
<1>10. CVAtMost(s, 5)
  <2>1. n * Squares(s) - Sum(s) * Sum(s) = 0
    BY <1>1, <1>2, <1>5
  <2>2. (10000 \div (5 * 5)) = 400
    OBVIOUS
  <2>3. (n - 1) * Sum(s) * Sum(s) \in Nat
    BY <1>1, <1>2, <1>9
  <2>4. (10000 \div (5 * 5)) * n * 0 = 0
    BY <1>1, <2>2
  <2> QED BY <1>1, <1>2, <1>9, <2>1, <2>3, <2>4 DEF CVAtMost
<1>11. HasSlope(s)
  BY <1>1, <1>2, <1>3, <1>9 DEF HasSlope
<1>12. ASSUME NEW over \in Nat, NEW share \in Nat
       PROVE  DriftAtMost(s, over, share)
  <2>1. Magnitude(Slope(s).num) * share * Points(s) * over = 0
    BY <1>1, <1>8 DEF Magnitude
  <2>2. Second * Slope(s).den * Sum(s) \in Nat
    <3> DEFINE d == Slope(s).den
    <3>1. d \in Nat
      BY <1>3
    <3> HIDE DEF d
    <3>2. Second * d \in Nat
      BY <1>1, <3>1
    <3>3. (Second * d) * (n * c) \in Nat
      BY <1>9, <3>2
    <3> QED BY <1>2, <3>3 DEF d
  <2> QED BY <2>1, <2>2 DEF DriftAtMost
<1> QED BY <1>1, <1>2, <1>10, <1>11, <1>12

\* A set that holds a stamp a second has as many members as seconds.
LEMMA EverySecond ==
  ASSUME NEW D, IsFiniteSet(D), NEW a \in Int, NEW m \in Nat,
         \A i \in 0..m : a + i * Second \in D
  PROVE  Cardinality(D) >= m + 1
<1> DEFINE I == 0..m
           f == [i \in I |-> a + i * Second]
<1>1. Second \in Nat \ {0}
  BY LoadPassAssumption
<1>2. \A i, j \in I : f[i] = f[j] => i = j
  <2> TAKE i, j \in I
  <2>1. i \in Int /\ j \in Int
    OBVIOUS
  <2>2. (i * Second) \div Second = i /\ (j * Second) \div Second = j
    BY <2>1, OfSeconds, Nat \subseteq Nat
  <2> DEFINE x == i * Second
             y == j * Second
  <2>3. x \in Int /\ y \in Int /\ (x = y => i = j) /\ f[i] = a + x /\ f[j] = a + y
    BY <1>1, <2>1, <2>2
  <2> HIDE DEF f, I, x, y
  <2> QED BY <2>3
<1>3. \A i \in I : f[i] \in D
  OBVIOUS
<1>4. f \in [I -> D]
  BY <1>3
<1>5. Cardinality(I) = m + 1
  BY FS_Interval
<1> HIDE DEF f, I
<1>6. f \in Injection(I, D)
  BY <1>2, <1>4 DEF Injection, IsInjective
<1>7. Cardinality(I) <= Cardinality(D)
  BY <1>6, FS_Injection
<1> QED BY <1>5, <1>7, FS_CardinalityType

\* DetectSteady over a constant series of whole seconds: the window ends with the series, and
\* begins at f at the latest, if from f on it is long enough and not contradicted.
LEMMA FlatSuffixIsFound ==
  ASSUME NEW s, OnSeconds(s), NEW a \in Nat, NEW b \in Nat, DOMAIN s = SecondsOf(a..b),
         NEW c \in Nat \ {0}, \A t \in DOMAIN s : s[t] = c,
         NEW f \in a..b, f + 2 <= b,
         NEW pass, MinDuration(pass) \in Nat, MinDuration(pass) <= (b - f) * Second,
         NEW co, NEW quantum,
         Corroborates(co, f * Second, b * Second, MinDuration(pass), quantum) # "drifting"
  PROVE  LET w == DetectSteady(s, pass, co, quantum)
             says == Corroborates(co, w.from, w.to, MinDuration(pass), quantum)
         IN /\ w.ok /\ w.to = b * Second
            /\ \E k \in a..f : w.from = k * Second
            /\ w.corroborated <=> says = "agrees"
            /\ says # "drifting"
<1> DEFINE over == MinDuration(pass)
           last == b * Second
           says(t) == Corroborates(co, t, last, over, quantum)
           good == {t \in DOMAIN s :
                 /\ Points(Window(s, t, last)) >= 3
                 /\ last - t >= over
                 /\ Flat(Window(s, t, last), over)
                 /\ says(t) # "drifting"}
           u == f * Second
           r == Window(s, u, last)
<1>1. Second \in Nat \ {0} /\ f \in Nat /\ f <= b
  BY LoadPassAssumption
<1>2. \A j, k \in Nat : j <= k => j * Second <= k * Second
  BY <1>1
<1>3. \A k \in a..b : k \in Nat /\ k * Second \in Nat /\ k * Second \in DOMAIN s /\ k * Second <= last
  <2> TAKE k \in a..b
  <2>1. k \in Nat /\ k <= b
    OBVIOUS
  <2> QED BY <1>1, <1>2, <2>1 DEF SecondsOf
<1>4. Last(s) = last
  <2>1. DOMAIN s # {} /\ last \in DOMAIN s
    BY <1>3
  <2>2. /\ Last(s) \in DOMAIN s /\ \A t \in DOMAIN s : t <= Last(s)
        /\ DOMAIN s \subseteq Nat
    BY <2>1, OnSecondsType
  <2>3. Last(s) <= last
    BY <1>3, <2>2 DEF SecondsOf
  <2>4. Last(s) \in Nat /\ last \in Nat /\ last <= Last(s)
    BY <2>1, <2>2
  <2> HIDE DEF last
  <2> QED BY <2>3, <2>4
<1>5. DetectSteady(s, pass, co, quantum)
        = IF good = {} THEN NoWindow
          ELSE [ok |-> TRUE, from |-> Min(good), to |-> last,
                corroborated |-> says(Min(good)) = "agrees"]
  BY <1>4, BucketOfSeconds DEF DetectSteady
<1>6. /\ DOMAIN r = {t \in DOMAIN s : u <= t /\ t <= last}
      /\ \A t \in DOMAIN r : r[t] = s[t]
  BY DEF Window, Restrict
<1>7. \A k \in f..b : k * Second \in DOMAIN r
  <2> TAKE k \in f..b
  <2>1. k \in a..b /\ k \in Nat /\ f <= k
    BY <1>1
  <2>2. u <= k * Second
    BY <1>1, <1>2, <2>1
  <2> QED BY <1>3, <1>6, <2>1, <2>2
<1>8. IsFiniteSet(DOMAIN r) /\ DOMAIN r \subseteq Int /\ \A t \in DOMAIN r : r[t] = c
  BY <1>6, FS_Subset, OnSecondsType DEF OnSeconds
<1>9. Points(r) >= 3
  <2>1. \A i \in 0..2 : u + i * Second \in DOMAIN r
    <3> TAKE i \in 0..2
    <3>1. f + i \in f..b /\ (f + i) * Second = u + i * Second
      BY <1>1
    <3> QED BY <1>7, <3>1
  <2>2. u \in Int /\ 2 \in Nat
    BY <1>1
  <2> HIDE DEF r, u
  <2>3. Cardinality(DOMAIN r) >= 2 + 1
    BY <1>8, <2>1, <2>2, EverySecond
  <2> QED BY <2>3 DEF Points
<1>10. Flat(r, over)
  <2>1. u \in DOMAIN r /\ (f + 1) * Second \in DOMAIN r /\ u + Second <= (f + 1) * Second
    <3>1. f \in f..b /\ f + 1 \in f..b
      BY <1>1
    <3>2. (f + 1) * Second = u + Second /\ u \in Nat
      BY <1>1
    <3> HIDE DEF r
    <3>3. u \in DOMAIN r /\ (f + 1) * Second \in DOMAIN r
      BY <1>7, <3>1
    <3>4. u + Second <= (f + 1) * Second
      <4> HIDE DEF u
      <4> QED BY <1>1, <3>2
    <3> QED BY <3>3, <3>4
  <2> DEFINE v == (f + 1) * Second
  <2>2. u \in DOMAIN r /\ v \in DOMAIN r /\ u + Second <= v
    BY <2>1
  <2> HIDE DEF r, u, v, over
  <2>3. HasSlope(r) /\ CVAtMost(r, 5) /\ \A o, share \in Nat : DriftAtMost(r, o, share)
    BY <1>8, <1>9, <2>2, ConstantIsFlat
  <2>4. over \in Nat
    BY DEF over
  <2> QED BY <2>3, <2>4 DEF Flat, MaxCVPct, DriftShare
<1>11. u \in good
  <2>1. last - u = (b - f) * Second
    BY <1>1
  <2>2. u \in DOMAIN s
    BY <1>3
  <2> QED BY <1>9, <1>10, <2>1, <2>2
<1>12. /\ Min(good) \in good /\ Min(good) <= u /\ good \subseteq DOMAIN s
  <2>1. good \subseteq DOMAIN s
    OBVIOUS
  <2> HIDE DEF good
  <2>2. IsFiniteSet(good) /\ good \subseteq Int
    BY <2>1, FS_Subset, OnSecondsType DEF OnSeconds
  <2> QED BY <1>11, <2>1, <2>2, Extrema
<1>13. \E k \in a..f : Min(good) = k * Second
  <2> HIDE DEF good
  <2>1. PICK k \in a..b : Min(good) = k * Second
    BY <1>12 DEF SecondsOf
  <2>2. k <= f
    <3>1. CASE f + 1 <= k
      <4>1. (f + 1) * Second <= k * Second
        BY <1>1, <1>2, <2>1, <3>1
      <4> QED BY <1>1, <1>12, <2>1, <4>1
    <3> QED BY <1>1, <2>1, <3>1
  <2> QED BY <1>1, <2>1, <2>2
<1>14. says(Min(good)) # "drifting"
  <2>1. \A t \in good : says(t) # "drifting"
    OBVIOUS
  <2> HIDE DEF good, says
  <2> QED BY <1>12, <2>1
<1> DEFINE w == DetectSteady(s, pass, co, quantum)
           m == Min(good)
<1>15. /\ w.ok /\ w.to = last /\ w.from = m /\ w.corroborated = (says(m) = "agrees")
  <2>1. good # {}
    <3> HIDE DEF good
    <3> QED BY <1>11
  <2> HIDE DEF good, says, last
  <2> QED BY <1>5, <2>1
<1> QED BY <1>13, <1>14, <1>15, Zenon

-----------------------------------------------------------------------------
\* What such a pass has booked.

\* What a pass with an undelayed generator has booked: a bucket for every second that had
\* rows, which holds the answers of the share of the second under load.
Booked ==
  kind = "measured" =>
    /\ delay = 0 /\ second <= LastSecond + 1
    /\ DOMAIN buckets = {k \in 0..(second - 1) : seconds[k].rows}
    /\ \A k \in DOMAIN buckets :
         buckets[k].requests
           = Answered(Share(seconds[k], Loaded(k * Second, k * Second + Second)))

\* It holds when a pass begins,
LEMMA InitBooked == Init => Booked
<1> SUFFICES ASSUME Init, kind = "measured"
             PROVE  Booked
  BY DEF Booked
<1>1. delay = 0 /\ second = 0 /\ DOMAIN buckets = {}
  BY DEF Init
<1>2. Inv /\ Typing
  BY InitHolds DEF Inv
<1>3. /\ Second \in Nat \ {0} /\ LastSecond \in Int /\ End - 1 < LastSecond * Second + Second
      /\ End = Begin + PassSeconds * Second /\ Begin \in Nat /\ PassSeconds \in Nat \ {0}
  BY <1>2, ClockType, LoadPassAssumption
<1>4. PassSeconds * Second >= 1
  BY <1>3
<1>5. 0 <= LastSecond + 1
  <2>1. CASE LastSecond + 1 < 0
    <3>1. LastSecond * Second <= (-2) * Second
      BY <1>3, <2>1
    <3> QED BY <1>3, <1>4, <3>1
  <2> QED BY <1>3, <2>1
<1>6. 0..(second - 1) = {}
  BY <1>1
<1> QED BY <1>1, <1>5, <1>6 DEF Booked

\* after a second of a measured pass,
LEMMA SecondBooked ==
  ASSUME Inv, Booked, kind = "measured", NEW p \in {usual} \cup Disturbances, MeasuredSecond(p)
  PROVE  Booked'
<1> DEFINE share(k) == Share(seconds[k], Loaded(k * Second, k * Second + Second))
           all == Share(p, Loaded(second * Second, second * Second + Second))
           n == Answered(all)
           b == Added([vus |-> Rows(1, 1), http_reqs |-> Rows(n, n), http_req_duration |-> Rows(n, n)])
<1>1. /\ second <= LastSecond /\ second' = second + 1
      /\ seconds' = Put(seconds, second, p)
      /\ UNCHANGED setting
      /\ Consume(IF ~p.rows THEN NoRows
                 ELSE [vus |-> Rows(1, 1), http_reqs |-> Rows(n, n), http_req_duration |-> Rows(n, n)])
  BY DEF MeasuredSecond
<1>2. /\ kind' = kind /\ delay' = delay /\ LastSecond' = LastSecond
      /\ \A from, to : Loaded(from, to)' = Loaded(from, to)
  BY <1>1, SameClock DEF Loaded
<1>3. second \in Nat /\ LastSecond \in Int /\ seconds \in [0..(second - 1) -> Kinds] /\ p \in Kinds
  <2>1. usual \in Kinds /\ Disturbances \subseteq Kinds
    BY LoadPassAssumption DEF Inv, Typing
  <2> QED BY <2>1, ClockType DEF Inv, Typing
<1>4. /\ delay = 0
      /\ DOMAIN buckets = {k \in 0..(second - 1) : seconds[k].rows}
      /\ \A k \in DOMAIN buckets : buckets[k].requests = Answered(share(k))
  BY DEF Booked
<1>5. b.requests = n
  <2> HIDE DEF n
  <2> QED BY DEF Added, Rows
<1>6. IF p.rows THEN buckets' = Put(buckets, second, b) ELSE buckets' = buckets
  <2>1. DOMAIN NoRows = {}
    BY DEF NoRows
  <2> HIDE DEF n
  <2> QED BY <1>1, <2>1 DEF Consume
<1> HIDE DEF b
<1>7. /\ 0..(second' - 1) = (0..(second - 1)) \cup {second}
      /\ second \notin 0..(second - 1)
      /\ seconds'[second] = p
      /\ \A k \in 0..(second - 1) : seconds'[k] = seconds[k]
  BY <1>1, <1>3 DEF Put
<1>8. DOMAIN buckets' = {k \in 0..(second' - 1) : seconds'[k].rows}
  <2>1. p.rows \in BOOLEAN
    BY <1>3 DEF Kinds
  <2>2. CASE p.rows
    <3>1. DOMAIN buckets' = DOMAIN buckets \cup {second}
      BY <1>6, <2>2 DEF Put
    <3> QED BY <1>4, <1>7, <2>2, <3>1
  <2>3. CASE ~p.rows
    <3>1. buckets' = buckets
      BY <1>6, <2>3
    <3> QED BY <1>4, <1>7, <2>3, <3>1
  <2> QED BY <2>1, <2>2, <2>3
<1>9. ASSUME NEW k \in DOMAIN buckets'
      PROVE  buckets'[k].requests
               = Answered(Share(seconds'[k], Loaded(k * Second, k * Second + Second)'))
  <2>1. CASE k \in DOMAIN buckets
    <3>1. k \in 0..(second - 1) /\ k # second
      BY <1>4, <1>7, <2>1
    <3>2. buckets'[k] = buckets[k]
      BY <1>6, <2>1, <3>1 DEF Put
    <3>3. buckets[k].requests = Answered(share(k))
      BY <1>4, <2>1
    <3> QED BY <1>2, <1>7, <3>1, <3>2, <3>3
  <2>2. CASE k \notin DOMAIN buckets
    <3>1. p.rows /\ k = second /\ buckets'[k] = b
      BY <1>6, <2>2 DEF Put
    <3>2. buckets'[k].requests = n
      BY <1>5, <3>1
    <3>3. seconds'[k] = p
      BY <1>7, <3>1
    <3>4. Loaded(k * Second, k * Second + Second)' = Loaded(k * Second, k * Second + Second)
      BY <1>2
    <3>5. n = Answered(Share(p, Loaded(k * Second, k * Second + Second)))
      BY <3>1
    <3> HIDE DEF n
    <3> QED BY <3>2, <3>3, <3>4, <3>5
  <2> QED BY <2>1, <2>2
<1>10. second' <= LastSecond' + 1 /\ delay' = 0
  BY <1>1, <1>2, <1>3, <1>4
<1> QED BY <1>8, <1>9, <1>10 DEF Booked

\* after every step,
LEMMA BookedKeeps == Inv /\ Booked /\ [Next]_vars => Booked'
<1> SUFFICES ASSUME Inv, Booked, [Next]_vars
             PROVE  Booked'
  OBVIOUS
<1>1. ASSUME UNCHANGED <<setting, second, buckets, seconds>>
      PROVE  Booked'
  <2>1. /\ kind' = kind /\ delay' = delay /\ LastSecond' = LastSecond
        /\ second' = second /\ buckets' = buckets /\ seconds' = seconds
        /\ \A from, to : Loaded(from, to)' = Loaded(from, to)
    BY <1>1, SameClock DEF Loaded
  <2> QED BY <2>1 DEF Booked
<1>2. CASE kind = "capacity" /\ kind' = kind
  BY <1>2 DEF Booked
<1>3. CASE RampSecond
  <2>1. kind = "capacity" /\ kind' = kind
    BY <1>3, SameClock DEF RampSecond
  <2> QED BY <1>2, <2>1
<1>4. CASE Calibrate
  BY <1>1, <1>4 DEF Calibrate
<1>5. CASE kind = "measured" /\ \E p \in {usual} \cup Disturbances : MeasuredSecond(p)
  BY <1>5, SecondBooked
<1>6. CASE Measure
  BY <1>1, <1>6 DEF Measure
<1>7. CASE UNCHANGED vars
  BY <1>1, <1>7 DEF vars
<1> QED BY <1>3, <1>4, <1>5, <1>6, <1>7 DEF Next

\* and therefore always.
LEMMA AllBooked == Spec => [](Inv /\ Booked)
<1>1. Init => Booked
  BY InitBooked
<1>2. Inv /\ Booked /\ [Next]_vars => Booked'
  BY BookedKeeps
<1> QED BY <1>1, <1>2, Invariant, PTL DEF Spec

\* An undisturbed pass that is over, of six seconds or more, in which something was answered.
FlatPass ==
  /\ done /\ kind = "measured" /\ Undisturbed /\ Missed = 0
  /\ PassSeconds >= 6 /\ usual.rows /\ Answered(usual) > 0

\* How much of the time before a tick was under load.
LEMMA LoadedSoFar ==
  ASSUME Begin \in Nat, End \in Int, NEW t \in Nat, t <= End
  PROVE  Loaded(0, t) = IF t <= Begin THEN 0 ELSE t - Begin
<1>1. Min({t, End}) = t
  BY OfTwo
<1>2. Max({0, Begin}) = Begin
  BY OfTwo
<1>3. PICK d \in Int : d = t - Begin
  OBVIOUS
<1>4. Max({0, d}) = IF 0 <= d THEN d ELSE 0
  BY OfTwo
<1> QED BY <1>1, <1>2, <1>3, <1>4 DEF Loaded

\* The clock of a flat pass: only its first second may be partly under load.
LEMMA FlatClock ==
  ASSUME Inv, Booked, FlatPass
  PROVE  /\ second = LastSecond + 1 /\ LastSecond \in Nat /\ LastSecond >= 5
         /\ start \in Nat /\ start < Second /\ Begin = start
         /\ LastSecond = PassSeconds - (IF start = 0 THEN 1 ELSE 0)
         /\ \A k \in 1..(LastSecond - 1), d \in 0..Second : Loaded(k * Second, k * Second + d) = d
         /\ \A d \in 0..Second : Loaded(0, d) = IF d <= start THEN 0 ELSE d - start
<1>1. /\ Second \in Nat \ {0} /\ PassSeconds \in Nat /\ PassSeconds >= 6
      /\ start \in 0..(Second - 1) /\ start \in Nat /\ delay = 0 /\ kind = "measured"
      /\ Begin = start /\ End = start + PassSeconds * Second
  <2>1. /\ Second \in Nat \ {0} /\ PassSeconds \in Nat /\ PassSeconds >= 6 /\ kind = "measured"
    BY LoadPassAssumption DEF FlatPass
  <2>2. start \in 0..(Second - 1) /\ delay = 0
    BY <2>1 DEF Inv, Typing, Booked
  <2> QED BY <2>1, <2>2 DEF Begin, End
<1>2. LastSecond = PassSeconds - (IF start = 0 THEN 1 ELSE 0)
  <2> DEFINE q == PassSeconds - (IF start = 0 THEN 1 ELSE 0)
  <2>1. q \in Int
    BY <1>1
  <2>2. PassSeconds * Second \in Nat
    BY <1>1
  <2>3. Second * q = IF start = 0 THEN PassSeconds * Second - Second ELSE PassSeconds * Second
    BY <1>1
  <2>4. End - 1 \in Int /\ Second * q <= End - 1 /\ End - 1 < Second * q + Second
    BY <1>1, <2>2, <2>3
  <2> HIDE DEF q
  <2>5. (End - 1) \div Second = q
    BY <1>1, <2>1, <2>4, Quotient
  <2> QED BY <2>5 DEF LastSecond, q
<1>3. LastSecond \in Nat /\ LastSecond >= 5
  BY <1>1, <1>2
<1>4. second = LastSecond + 1
  <2>1. second <= LastSecond + 1 /\ second > LastSecond /\ second \in Nat
    BY <1>1 DEF Booked, Inv, Settled, Typing, FlatPass
  <2> QED BY <1>3, <2>1
<1>5. LastSecond * Second <= End - 1
  BY ClockType DEF Inv
<1>6. ASSUME NEW k \in 1..(LastSecond - 1), NEW d \in 0..Second
      PROVE  Loaded(k * Second, k * Second + d) = d
  <2>1. k \in Nat /\ 1 <= k /\ k + 1 <= LastSecond
    BY <1>3
  <2>2. /\ k * Second \in Nat /\ Second <= k * Second
        /\ k * Second + Second <= LastSecond * Second
    <3>1. (k + 1) * Second <= LastSecond * Second
      BY <1>1, <1>3, <2>1
    <3>2. 1 * Second <= k * Second
      BY <1>1, <2>1
    <3> QED BY <1>1, <2>1, <3>1, <3>2
  <2> DEFINE from == k * Second
  <2>3. PassSeconds * Second \in Int /\ LastSecond * Second \in Int
    BY <1>1, <1>3
  <2>4. /\ from \in Int /\ from + d \in Int /\ from <= from + d /\ Begin \in Nat /\ End \in Int
        /\ Begin <= from /\ from + d <= End
    <3> HIDE DEF from
    <3> QED BY <1>1, <1>5, <2>2, <2>3 DEF from
  <2> HIDE DEF from
  <2>5. Loaded(from, from + d) = (from + d) - from
    BY <2>4, LoadedType
  <2> QED BY <2>4, <2>5 DEF from
<1>7. ASSUME NEW d \in 0..Second
      PROVE  Loaded(0, d) = IF d <= start THEN 0 ELSE d - start
  <2>1. PassSeconds * Second >= Second /\ PassSeconds * Second \in Int
    BY <1>1
  <2>2. Begin \in Nat /\ End \in Int /\ d \in Nat /\ d <= End
    BY <1>1, <2>1
  <2> QED BY <1>1, <2>2, LoadedSoFar
<1> QED BY <1>1, <1>2, <1>3, <1>4, <1>6, <1>7

\* A whole second adds all its answers and its CPU.
LEMMA WholeShare ==
  ASSUME NEW p \in Kinds
  PROVE  /\ Answered(Share(p, Second)) = Answered(p)
         /\ Share(p, Second).cpu = p.cpu
<1>1. p.fast \in Int /\ p.mid \in Int /\ p.slow \in Int /\ p.cpu \in Int
  BY DEF Kinds
<1>2. \A x \in Int : (x * Second) \div Second = x
  BY OfSeconds, Nat \subseteq Nat
<1> QED BY <1>1, <1>2 DEF Share, Answered

\* The throughput series of a flat pass is constant once the partial seconds are dropped.
LEMMA FlatThroughput ==
  ASSUME Inv, Booked, FlatPass
  PROVE  LET s == WholeSeconds(RPS)
         IN /\ OnSeconds(s) /\ DOMAIN s = SecondsOf(1..(LastSecond - 1))
            /\ \A t \in DOMAIN s : s[t] = Answered(usual)
<1> DEFINE L == LastSecond
           s == WholeSeconds(RPS)
<1>1. /\ second = L + 1 /\ L \in Nat /\ L >= 5 /\ Second \in Nat \ {0} /\ usual \in Kinds
      /\ \A k \in 1..(L - 1) : Loaded(k * Second, k * Second + Second) = Second
  <2>1. Second \in 0..Second /\ Second \in Nat \ {0}
    BY LoadPassAssumption
  <2>2. /\ second = L + 1 /\ L \in Nat /\ L >= 5
        /\ \A k \in 1..(L - 1), d \in 0..Second : Loaded(k * Second, k * Second + d) = d
    BY FlatClock
  <2>3. usual \in Kinds
    BY DEF Inv, Typing, FlatPass
  <2> QED BY <2>1, <2>2, <2>3
<1>2. seconds \in [0..L -> Kinds] /\ \A k \in 0..L : seconds[k] = usual
  <2>1. seconds \in [0..(second - 1) -> Kinds]
    BY DEF Inv, Typing, FlatPass
  <2>2. second - 1 = L
    BY <1>1
  <2> QED BY <2>1, <2>2 DEF FlatPass, Undisturbed
<1>3. /\ DOMAIN buckets = 0..L
      /\ \A k \in 0..L : buckets[k].requests
           = Answered(Share(usual, Loaded(k * Second, k * Second + Second)))
  <2>1. second - 1 = L /\ kind = "measured" /\ usual.rows
    BY <1>1 DEF FlatPass
  <2>2. /\ DOMAIN buckets = {k \in 0..L : seconds[k].rows}
        /\ \A k \in DOMAIN buckets : buckets[k].requests
           = Answered(Share(seconds[k], Loaded(k * Second, k * Second + Second)))
    BY <2>1 DEF Booked
  <2> QED BY <1>2, <2>1, <2>2
<1>4. BucketsOK
  <2>1. /\ IsFiniteSet(DOMAIN buckets)
        /\ \A k \in DOMAIN buckets : buckets[k] \in BucketType
    BY DEF Inv, Typing
  <2>2. DOMAIN buckets \subseteq Nat
    BY <1>1, <1>3
  <2> QED BY <2>1, <2>2 DEF BucketsOK, BucketType
<1>5. /\ OnSeconds(RPS) /\ DOMAIN RPS = SecondsOf(0..L)
      /\ \A k \in 0..L : RPS[k * Second] = buckets[k].requests
  BY <1>3, <1>4, ThroughputIs
<1>6. \A j, k \in 0..L : (j <= k => j * Second <= k * Second) /\ (j * Second = k * Second => j = k)
  <2> TAKE j, k \in 0..L
  <2>1. j \in Nat /\ k \in Nat /\ j \in Int /\ k \in Int
    BY <1>1
  <2>2. (j * Second) \div Second = j /\ (k * Second) \div Second = k
    BY <2>1, OfSeconds, Nat \subseteq Nat
  <2>3. j <= k => j * Second <= k * Second
    BY <1>1, <2>1
  <2> QED BY <2>2, <2>3
<1>7. First(RPS) = 0 * Second /\ Last(RPS) = L * Second
  <2>1. 0 \in 0..L /\ L \in 0..L
    BY <1>1
  <2>2. 0 * Second \in DOMAIN RPS /\ L * Second \in DOMAIN RPS
    BY <1>5, <2>1 DEF SecondsOf
  <2>3. /\ First(RPS) \in DOMAIN RPS /\ \A t \in DOMAIN RPS : First(RPS) <= t
        /\ Last(RPS) \in DOMAIN RPS /\ \A t \in DOMAIN RPS : t <= Last(RPS)
        /\ DOMAIN RPS \subseteq Nat
    BY <1>5, <2>2, OnSecondsType
  <2>4. PICK i \in 0..L, j \in 0..L : First(RPS) = i * Second /\ Last(RPS) = j * Second
    BY <1>5, <2>3 DEF SecondsOf
  <2>5. i * Second <= 0 * Second /\ L * Second <= j * Second
    BY <2>2, <2>3, <2>4
  <2>6. 0 * Second <= i * Second /\ j * Second <= L * Second
    BY <1>1, <1>6, <2>1
  <2>7. i * Second \in Int /\ j * Second \in Int /\ L * Second \in Int /\ 0 * Second \in Int
    BY <1>1
  <2> DEFINE z == 0 * Second
             x == i * Second
             y == j * Second
             l == L * Second
  <2>8. z <= x /\ x <= z /\ y <= l /\ l <= y /\ z \in Int /\ x \in Int /\ y \in Int /\ l \in Int
    BY <2>5, <2>6, <2>7
  <2>9. x = z /\ y = l
    <3> HIDE DEF x, y, z, l
    <3> QED BY <2>8
  <2> QED BY <2>4, <2>9
<1>8. /\ OnSeconds(s) /\ DOMAIN s = DOMAIN RPS \ {First(RPS), Last(RPS)}
      /\ \A t \in DOMAIN s : s[t] = RPS[t]
  BY <1>5, WholeSecondsIs
<1> HIDE DEF s
<1>9. DOMAIN s = SecondsOf(1..(L - 1))
  <2>1. 1..(L - 1) = (0..L) \ {0, L}
    BY <1>1
  <2>2. 0 \in 0..L /\ L \in 0..L
    BY <1>1
  <2> HIDE DEF L
  <2> QED BY <1>5, <1>6, <1>7, <1>8, <2>1, <2>2 DEF SecondsOf
<1>10. ASSUME NEW t \in DOMAIN s
       PROVE  s[t] = Answered(usual)
  <2>1. PICK k \in 1..(L - 1) : t = k * Second
    BY <1>9 DEF SecondsOf
  <2>2. k \in 0..L
    BY <1>1
  <2>3. s[t] = Answered(Share(usual, Second))
    BY <1>1, <1>3, <1>5, <1>8, <2>1, <2>2
  <2> QED BY <1>1, <2>3, WholeShare
<1> QED BY <1>8, <1>9, <1>10 DEF s

-----------------------------------------------------------------------------
\* Its samples, and what they corroborate.

\* The tick of the k-th sample.
At(k) == k * Second + phase

\* Those ticks are a second apart.
LEMMA AtIs ==
  ASSUME Second \in Nat \ {0}, phase \in 0..(Second - 1)
  PROVE  /\ \A k \in Int : At(k) \in Int /\ At(k) = At(k - 1) + Second
         /\ \A j, k \in Int : (j < k => At(j) + Second <= At(k)) /\ (At(j) = At(k) => j = k)
         /\ \A j, k \in Int : At(j) < At(k) => j < k
<1>1. \A k \in Int : At(k) \in Int /\ At(k) = At(k - 1) + Second
  BY DEF At
<1>2. ASSUME NEW j \in Int, NEW k \in Int, j < k
      PROVE  At(j) + Second <= At(k)
  <2>1. (j + 1) * Second <= k * Second
    BY <1>2
  <2>2. (j + 1) * Second = j * Second + Second /\ j * Second \in Int /\ k * Second \in Int
    OBVIOUS
  <2> QED BY <2>1, <2>2 DEF At
<1>3. ASSUME NEW j \in Int, NEW k \in Int, At(j) < At(k)
      PROVE  j < k
  <2>1. CASE j = k
    BY <1>1, <1>3, <2>1
  <2>2. CASE k < j
    BY <1>1, <1>2, <1>3, <2>2
  <2> QED BY <2>1, <2>2
<1>4. ASSUME NEW j \in Int, NEW k \in Int, At(j) = At(k)
      PROVE  j = k
  <2>1. CASE j < k
    BY <1>1, <1>2, <1>4, <2>1
  <2>2. CASE k < j
    BY <1>1, <1>2, <1>4, <2>2
  <2> QED BY <2>1, <2>2
<1> QED BY <1>1, <1>2, <1>3, <1>4

\* Nothing was missed, so that every sample is there,
LEMMA EverySample ==
  ASSUME Inv, kind = "measured", sampler # "none", Missed = 0
  PROVE  DOMAIN cpu = {At(k) : k \in (-1)..(second - 1)}
<1>1. /\ second \in Nat /\ DOMAIN cpu \subseteq Stamps /\ IsFiniteSet(Stamps)
      /\ Cardinality(Stamps) = second + 1
  BY StampsAre, StampCount DEF Inv, Metered, Typing
<1>2. second + 1 - Cardinality(DOMAIN cpu) = 0
  BY DEF Missed, Points
<1>3. Cardinality(DOMAIN cpu) \in Nat
  BY <1>1, FS_Subset, FS_CardinalityType
<1>4. Cardinality(DOMAIN cpu) = Cardinality(Stamps)
  BY <1>1, <1>2, <1>3
<1>5. DOMAIN cpu = Stamps
  BY <1>1, <1>4, FS_Subset
<1> QED BY <1>5 DEF Stamps, At

\* and the rates are the differences of successive counters.
LEMMA RateIs ==
  ASSUME Inv, kind = "measured", sampler # "none", Missed = 0
  PROVE  /\ DOMAIN Rate(cpu) = {At(k) : k \in 0..(second - 1)}
         /\ \A k \in 0..(second - 1) :
              Rate(cpu)[At(k)] = Truth(At(k)).cpu - Truth(At(k - 1)).cpu
<1> DEFINE D == DOMAIN cpu
           usable == {t \in D : t # First(cpu) /\ cpu[t] >= cpu[Before(cpu, t)]}
<1>1. /\ Second \in Nat \ {0} /\ phase \in 0..(Second - 1) /\ second \in Nat /\ Clocked
  BY ClockType DEF Inv, Typing
<1>2. /\ \A k \in Int : At(k) \in Int /\ At(k) = At(k - 1) + Second
      /\ \A j, k \in Int : (j < k => At(j) + Second <= At(k)) /\ (At(j) = At(k) => j = k)
      /\ \A j, k \in Int : At(j) < At(k) => j < k
  BY <1>1, AtIs
<1>3. D = {At(k) : k \in (-1)..(second - 1)}
  BY EverySample
<1>4. IsFiniteSet(D) /\ D \subseteq Int /\ \A t \in D : cpu[t] = Truth(t).cpu
  BY StampsAre, FS_Subset DEF Inv, Metered
<1> HIDE DEF D
<1>5. First(cpu) = At(-1)
  <2>1. -1 \in (-1)..(second - 1)
    BY <1>1
  <2>2. At(-1) \in D
    BY <1>3, <2>1
  <2>3. Min(D) \in D /\ \A t \in D : Min(D) <= t
    BY <1>4, <2>2, Extrema
  <2>4. PICK k \in (-1)..(second - 1) : Min(D) = At(k)
    BY <1>3, <2>3
  <2>5. k \in Int /\ -1 \in Int /\ ~(-1 < k)
    <3>1. k \in Int /\ -1 \in Int
      BY <1>1
    <3>2. ASSUME -1 < k PROVE FALSE
      <4>1. At(-1) + Second <= At(k) /\ At(k) <= At(-1) /\ At(k) \in Int /\ At(-1) \in Int
        BY <1>2, <2>2, <2>3, <2>4, <3>1, <3>2
      <4> QED BY <1>1, <4>1
    <3> QED BY <3>1, <3>2
  <2>6. k = -1
    BY <1>1, <2>5
  <2> QED BY <2>4, <2>6 DEF First, D
<1>6. ASSUME NEW k \in 0..(second - 1)
      PROVE  /\ At(k) \in D /\ At(k - 1) \in D /\ At(k) # First(cpu)
             /\ Before(cpu, At(k)) = At(k - 1)
  <2>1. k \in Int /\ k - 1 \in Int /\ k \in (-1)..(second - 1) /\ k - 1 \in (-1)..(second - 1) /\ -1 \in Int /\ -1 < k
    BY <1>1
  <2>2. At(k) \in D /\ At(k - 1) \in D
    BY <1>3, <2>1
  <2>3. At(k) # At(-1)
    BY <1>2, <2>1
  <2> DEFINE B == {u \in D : u < At(k)}
  <2>4. At(k - 1) \in B
    <3>1. At(k) = At(k - 1) + Second /\ At(k) \in Int /\ At(k - 1) \in Int
      BY <1>2, <2>1
    <3>2. At(k - 1) < At(k)
      BY <1>1, <3>1
    <3> QED BY <2>2, <3>2
  <2>5. IsFiniteSet(B) /\ B \subseteq Int
    BY <1>4, FS_Subset
  <2>6. Max(B) \in B /\ \A u \in B : u <= Max(B)
    BY <2>4, <2>5, Extrema
  <2>7. PICK j \in (-1)..(second - 1) : Max(B) = At(j) /\ At(j) < At(k)
    BY <1>3, <2>6
  <2>8. j \in Int /\ j < k
    <3>1. j \in Int
      BY <1>1
    <3> QED BY <1>2, <2>1, <2>7, <3>1
  <2>9. At(k - 1) <= At(j)
    BY <2>4, <2>6, <2>7
  <2>10. j = k - 1
    <3>1. CASE j < k - 1
      <4>1. At(j) + Second <= At(k - 1) /\ At(j) \in Int /\ At(k - 1) \in Int
        BY <1>2, <2>1, <2>8, <3>1
      <4> QED BY <1>1, <2>9, <4>1
    <3> QED BY <2>1, <2>8, <3>1
  <2>11. Before(cpu, At(k)) = Max(B)
    BY DEF Before, D
  <2> QED BY <1>5, <2>2, <2>3, <2>7, <2>10, <2>11
<1>7. ASSUME NEW k \in 0..(second - 1)
      PROVE  /\ cpu[At(k)] = Truth(At(k)).cpu /\ cpu[At(k - 1)] = Truth(At(k - 1)).cpu
             /\ Truth(At(k)).cpu \in Nat /\ Truth(At(k - 1)).cpu \in Nat
             /\ Truth(At(k)).cpu >= Truth(At(k - 1)).cpu
  <2>1. At(k) \in Int /\ At(k - 1) \in Int /\ At(k - 1) <= At(k)
    <3>1. k \in Int
      BY <1>1
    <3>2. At(k) \in Int /\ At(k) = At(k - 1) + Second /\ k - 1 \in Int
      BY <1>2, <3>1
    <3>3. At(k - 1) \in Int
      BY <1>2, <3>2
    <3> QED BY <1>1, <3>2, <3>3
  <2>2. Below(Truth(At(k - 1)), Truth(At(k)))
    BY <1>1, <2>1, TruthMonotone
  <2>3. Truth(At(k)) \in Tally /\ Truth(At(k - 1)) \in Tally
    BY <1>1, <2>1, TruthType
  <2> QED BY <1>4, <1>6, <2>2, <2>3 DEF Below, Tally
<1>8. usable = {At(k) : k \in 0..(second - 1)}
  <2>1. \A k \in 0..(second - 1) : At(k) \in usable
    BY <1>6, <1>7
  <2>2. ASSUME NEW t \in usable
        PROVE  \E k \in 0..(second - 1) : t = At(k)
    <3>1. PICK k \in (-1)..(second - 1) : t = At(k)
      BY <1>3
    <3>2. k # -1
      BY <1>5, <3>1
    <3>3. k \in 0..(second - 1)
      BY <1>1, <3>1, <3>2
    <3> QED BY <3>1, <3>3
  <2> HIDE DEF usable
  <2> QED BY <2>1, <2>2
<1>9. Rate(cpu) = [t \in usable |-> ((cpu[t] - cpu[Before(cpu, t)]) * Second) \div (t - Before(cpu, t))]
  BY DEF Rate, D
<1> HIDE DEF usable
<1>10. ASSUME NEW k \in 0..(second - 1)
       PROVE  Rate(cpu)[At(k)] = Truth(At(k)).cpu - Truth(At(k - 1)).cpu
  <2> DEFINE d == Truth(At(k)).cpu - Truth(At(k - 1)).cpu
  <2>1. At(k) - At(k - 1) = Second
    <3>1. k \in Int /\ k - 1 \in Int
      BY <1>1
    <3>2. At(k) = At(k - 1) + Second /\ At(k - 1) \in Int
      BY <1>2, <3>1
    <3> QED BY <1>1, <3>2
  <2>2. At(k) \in usable
    BY <1>8
  <2>3. Rate(cpu)[At(k)] = (d * Second) \div Second
    BY <1>6, <1>7, <1>9, <2>1, <2>2
  <2>4. d \in Int
    BY <1>7
  <2> HIDE DEF d
  <2>5. (d * Second) \div Second = d
    BY <2>4, OfSeconds, Nat \subseteq Nat
  <2> QED BY <2>3, <2>5 DEF d
<1> QED BY <1>8, <1>9, <1>10

\* The shares of a first second under load from tick a on, one phase apart, add up to no more
\* than a whole second.
LEMMA FirstPart ==
  ASSUME NEW x \in Nat, NEW S \in Nat \ {0}, NEW a \in 1..S, NEW f \in 0..(S - 1)
  PROVE  LET rest == IF f <= a THEN 0 ELSE f - a
             d == ((x * (S - a)) \div S) + ((x * f) \div S) - ((x * rest) \div S)
         IN 0 <= d /\ d <= x
<1> DEFINE rest == IF f <= a THEN 0 ELSE f - a
           p == (x * (S - a)) \div S
           q == (x * f) \div S
           r == (x * rest) \div S
<1>1. /\ a \in Nat /\ f \in Nat /\ S - a \in Nat /\ rest \in Nat /\ rest <= f
      /\ S - a + f - rest <= S
  OBVIOUS
<1>2. x * (S - a) \in Nat /\ x * f \in Nat /\ x * rest \in Nat /\ x * rest <= x * f /\ x * S \in Nat
  <2> HIDE DEF rest
  <2> QED BY <1>1
<1>3. /\ p \in Nat /\ S * p <= x * (S - a)
      /\ q \in Nat /\ S * q <= x * f
      /\ r \in Nat /\ x * rest < S * r + S
  <2>1. p \in Nat /\ q \in Nat /\ r \in Nat
    <3> HIDE DEF rest
    <3> QED BY <1>2
  <2>2. S * p <= x * (S - a)
    <3>1. x * (S - a) \in Int
      BY <1>2
    <3> QED BY <3>1, Rounding
  <2>3. S * q <= x * f
    <3>1. x * f \in Int
      BY <1>2
    <3> QED BY <3>1, Rounding
  <2>4. x * rest < S * r + S
    <3>1. x * rest \in Int
      BY <1>2
    <3> HIDE DEF rest
    <3> QED BY <3>1, Rounding
  <2> QED BY <2>1, <2>2, <2>3, <2>4
<1>4. r <= q
  <2>1. x * rest \in Int /\ x * f \in Int /\ x * rest <= x * f
    BY <1>2
  <2> HIDE DEF rest
  <2> QED BY <2>1, DivMonotone
<1>5. x * (S - a) + x * f - x * rest <= x * S
  <2> DEFINE m == S - a + f - rest
  <2>1. m \in Int /\ m <= S
    BY <1>1
  <2>2. x * m <= x * S
    <3> HIDE DEF m
    <3> QED BY <2>1
  <2>3. x * m = x * (S - a) + x * f - x * rest
    <3> HIDE DEF rest
    <3> QED BY <1>1
  <2> QED BY <2>2, <2>3
<1> HIDE DEF p, q, r, rest
<1>6. S * (p + q) < S * (x + r) + S
  <2>1. S * (p + q) = S * p + S * q /\ S * (x + r) = x * S + S * r
    BY <1>3
  <2>2. S * p \in Int /\ S * q \in Int /\ S * r \in Int
    BY <1>3
  <2> QED BY <1>2, <1>3, <1>5, <2>1, <2>2
<1>7. p + q <= x + r
  <2>1. CASE x + r + 1 <= p + q
    <3>1. S * (x + r + 1) <= S * (p + q)
      BY <1>3, <2>1
    <3>2. S * (x + r + 1) = S * (x + r) + S
      BY <1>3
    <3> QED BY <1>3, <1>6, <3>1, <3>2
  <2> QED BY <1>3, <2>1
<1>8. 0 <= p + q - r /\ p + q - r <= x
  BY <1>3, <1>4, <1>7
<1> QED BY <1>8 DEF p, q, r, rest

\* The CPU used at the ticks of a flat pass.
LEMMA FlatTruth ==
  ASSUME Inv, Booked, FlatPass
  PROVE  LET part(d) == (usual.cpu * d) \div Second
         IN /\ \A k \in 1..(LastSecond - 1) :
                 /\ Counted[k].cpu \in Nat
                 /\ Truth(At(k)).cpu = Counted[k].cpu + part(phase)
                 /\ Counted[k + 1].cpu = Counted[k].cpu + usual.cpu
            /\ Truth(At(0)).cpu = Prior.cpu + part(Loaded(0, phase))
            /\ Counted[1].cpu = Prior.cpu + part(Loaded(0, Second))
<1> DEFINE L == LastSecond
           part(d) == (usual.cpu * d) \div Second
<1>1. /\ second = L + 1 /\ L \in Nat /\ L >= 5
      /\ \A k \in 1..(L - 1), d \in 0..Second : Loaded(k * Second, k * Second + d) = d
  BY FlatClock
<1>2. /\ Second \in Nat \ {0} /\ phase \in 0..(Second - 1) /\ Clocked /\ usual \in Kinds /\ kind = "measured"
  <2>1. kind = "measured" /\ Typing
    BY DEF FlatPass, Inv
  <2> QED BY <2>1, ClockType DEF Typing
<1>3. \A k \in 0..L : seconds[k] = usual
  <2>2. second - 1 = L /\ DOMAIN seconds = 0..(second - 1)
    BY <1>1, <1>2 DEF Clocked
  <2> QED BY <2>2 DEF FlatPass, Undisturbed
<1>4. \A m : Share(usual, m).cpu = part(m)
  BY DEF Share
<1>5. ASSUME NEW k \in 0..L
      PROVE  /\ Truth(At(k)).cpu = Counted[k].cpu + part(Loaded(k * Second, At(k)))
             /\ Counted[k] \in Tally
             /\ Counted[k + 1].cpu = Counted[k].cpu + part(Loaded(k * Second, k * Second + Second))
  <2>1. k \in Nat /\ k < second /\ k \in 0..(second - 1) /\ k \in 0..second
    BY <1>1
  <2>2. At(k) \in Int /\ At(k) >= 0 /\ At(k) \div Second = k
    <3>1. k * Second \in Nat
      BY <1>2, <2>1
    <3>2. At(k) \in Int /\ At(k) >= 0 /\ Second * k <= At(k) /\ At(k) < Second * k + Second
      BY <1>2, <3>1, <2>1 DEF At
    <3>3. k \in Int
      BY <2>1
    <3> QED BY <1>2, <3>2, <3>3, Quotient
  <2>3. Truth(At(k)) = Plus(Counted[k], Share(seconds[k], Loaded(k * Second, At(k))))
    BY <1>2, <2>1, <2>2, TruthType
  <2>4. /\ Counted[k] \in Tally
        /\ Counted[k + 1] = Plus(Counted[k], Share(seconds[k], Loaded(k * Second, k * Second + Second)))
    BY <1>2, <2>1, CountedType
  <2>5. seconds[k] = usual
    BY <1>3
  <2> QED BY <1>4, <2>3, <2>4, <2>5 DEF Plus
<1>6. ASSUME NEW k \in 1..(L - 1)
      PROVE  /\ Counted[k].cpu \in Nat
             /\ Truth(At(k)).cpu = Counted[k].cpu + part(phase)
             /\ Counted[k + 1].cpu = Counted[k].cpu + usual.cpu
  <2>1. k \in 0..L
    BY <1>1
  <2>2. phase \in 0..Second /\ Second \in 0..Second
    BY <1>2
  <2>3. Loaded(k * Second, At(k)) = phase /\ Loaded(k * Second, k * Second + Second) = Second
    BY <1>1, <2>2 DEF At
  <2>4. part(Second) = usual.cpu
    <3>1. usual.cpu \in Int
      BY <1>2 DEF Kinds
    <3> QED BY <3>1, OfSeconds, Nat \subseteq Nat
  <2> HIDE DEF part
  <2> QED BY <1>5, <2>1, <2>3, <2>4 DEF Tally
<1>7. /\ Truth(At(0)).cpu = Prior.cpu + part(Loaded(0, phase))
      /\ Counted[1].cpu = Prior.cpu + part(Loaded(0, Second))
  <2>1. 0 \in 0..L /\ 0 * Second = 0 /\ At(0) = phase /\ 0 * Second + Second = Second /\ 0 + 1 = 1
    BY <1>1, <1>2 DEF At
  <2>2. Counted[0] = Prior
    BY <1>2, CountedType
  <2> HIDE DEF part
  <2>3. /\ Truth(At(0)).cpu = Counted[0].cpu + part(Loaded(0 * Second, At(0)))
        /\ Counted[0 + 1].cpu = Counted[0].cpu + part(Loaded(0 * Second, 0 * Second + Second))
    BY <1>5, <2>1
  <2> QED BY <2>1, <2>2, <2>3
<1> QED BY <1>6, <1>7

\* The rates of a flat pass are constant, but for the first: half of its interval may lie
\* before the pass.
LEMMA FlatRate ==
  ASSUME Inv, Booked, FlatPass, sampler # "none"
  PROVE  /\ DOMAIN Rate(cpu) = {At(k) : k \in 0..LastSecond}
         /\ \A k \in 1..(LastSecond - 1) :
              /\ Rate(cpu)[At(k)] \in 0..usual.cpu
              /\ start = 0 \/ k >= 2 => Rate(cpu)[At(k)] = usual.cpu
<1> DEFINE L == LastSecond
           part(d) == (usual.cpu * d) \div Second
           c == usual.cpu
<1>1. /\ second = L + 1 /\ L \in Nat /\ L >= 5 /\ start \in Nat /\ start < Second
      /\ \A d \in 0..Second : Loaded(0, d) = IF d <= start THEN 0 ELSE d - start
  BY FlatClock
<1>2. /\ Second \in Nat \ {0} /\ phase \in 0..(Second - 1) /\ c \in Nat /\ kind = "measured" /\ Missed = 0
  <2>1. kind = "measured" /\ Missed = 0 /\ usual \in Kinds
    BY DEF FlatPass, Inv, Typing
  <2> QED BY <2>1, LoadPassAssumption DEF Inv, Typing, Kinds
<1>3. /\ DOMAIN Rate(cpu) = {At(k) : k \in 0..(second - 1)}
      /\ \A k \in 0..(second - 1) :
              Rate(cpu)[At(k)] = Truth(At(k)).cpu - Truth(At(k - 1)).cpu
  BY <1>2, RateIs
<1>4. /\ \A k \in 1..(L - 1) :
                 /\ Counted[k].cpu \in Nat
                 /\ Truth(At(k)).cpu = Counted[k].cpu + part(phase)
                 /\ Counted[k + 1].cpu = Counted[k].cpu + c
      /\ Truth(At(0)).cpu = Prior.cpu + part(Loaded(0, phase))
      /\ Counted[1].cpu = Prior.cpu + part(Loaded(0, Second))
  BY FlatTruth
<1>5. \A d \in Nat : part(d) \in Nat
  <2> TAKE d \in Nat
  <2>1. c * d \in Nat
    BY <1>2
  <2> HIDE DEF c
  <2> QED BY <1>2, <2>1 DEF c
<1>6. second - 1 = L
  BY <1>1
<1>7. ASSUME NEW k \in 2..(L - 1)
      PROVE  Rate(cpu)[At(k)] = c
  <2>1. /\ k \in 1..(L - 1) /\ k - 1 \in 1..(L - 1) /\ k \in 0..(second - 1) /\ (k - 1) + 1 = k
    BY <1>1
  <2>2. part(phase) \in Nat
    BY <1>2, <1>5
  <2> HIDE DEF part
  <2>3. /\ Truth(At(k)).cpu = Counted[k].cpu + part(phase)
        /\ Truth(At(k - 1)).cpu = Counted[k - 1].cpu + part(phase)
        /\ Counted[k].cpu = Counted[k - 1].cpu + c /\ Counted[k - 1].cpu \in Nat
    BY <1>4, <2>1
  <2>4. Rate(cpu)[At(k)] = Truth(At(k)).cpu - Truth(At(k - 1)).cpu
    BY <1>3, <2>1
  <2> QED BY <1>2, <2>2, <2>3, <2>4
<1>8. Rate(cpu)[At(1)] = part(Loaded(0, Second)) + part(phase) - part(Loaded(0, phase))
  <2>1. 1 \in 1..(L - 1) /\ 1 \in 0..(second - 1) /\ 1 - 1 = 0
    BY <1>1
  <2>2. Loaded(0, Second) \in Nat /\ Loaded(0, phase) \in Nat
    <3>1. Second \in 0..Second /\ phase \in 0..Second
      BY <1>2
    <3> QED BY <1>1, <1>2, <3>1
  <2>3. part(Loaded(0, Second)) \in Nat /\ part(phase) \in Nat /\ part(Loaded(0, phase)) \in Nat
    BY <1>2, <1>5, <2>2
  <2>4. Prior.cpu \in Nat
    BY PriorType DEF Tally
  <2> HIDE DEF part
  <2>5. Truth(At(1)).cpu = Counted[1].cpu + part(phase)
    BY <1>4, <2>1
  <2>6. Rate(cpu)[At(1)] = Truth(At(1)).cpu - Truth(At(0)).cpu
    BY <1>3, <2>1
  <2> QED BY <1>4, <2>3, <2>4, <2>5, <2>6
<1>9. Rate(cpu)[At(1)] \in 0..c /\ (start = 0 => Rate(cpu)[At(1)] = c)
  <2>1. Second \in 0..Second /\ phase \in 0..Second
    BY <1>2
  <2>2. /\ Loaded(0, Second) = Second - start
        /\ Loaded(0, phase) = IF phase <= start THEN 0 ELSE phase - start
    BY <1>1, <1>2, <2>1
  <2>3. CASE start = 0
    <3>1. Loaded(0, Second) = Second /\ Loaded(0, phase) = phase
      BY <1>2, <2>2, <2>3
    <3>2. part(Second) = c
      <4>1. c \in Int
        BY <1>2
      <4> QED BY <4>1, OfSeconds, Nat \subseteq Nat
    <3>3. part(phase) \in Nat
      BY <1>2, <1>5
    <3> HIDE DEF part, c
    <3>4. Rate(cpu)[At(1)] = c
      BY <1>2, <1>8, <3>1, <3>2, <3>3
    <3> QED BY <1>2, <3>4
  <2>4. CASE start # 0
    <3>1. start \in 1..Second
      BY <1>1, <1>2, <2>4
    <3> DEFINE rest == IF phase <= start THEN 0 ELSE phase - start
    <3>2. /\ 0 <= part(Second - start) + part(phase) - part(rest)
          /\ part(Second - start) + part(phase) - part(rest) <= c
      BY <1>2, <3>1, FirstPart
    <3>3. Rate(cpu)[At(1)] = part(Second - start) + part(phase) - part(rest)
      BY <1>8, <2>2
    <3>4. part(Second - start) \in Nat /\ part(phase) \in Nat /\ part(rest) \in Nat
      <4>1. Second - start \in Nat /\ phase \in Nat /\ rest \in Nat
        BY <1>1, <1>2
      <4> QED BY <1>5, <4>1
    <3> HIDE DEF part, rest, c
    <3> QED BY <1>2, <2>4, <3>2, <3>3, <3>4
  <2> QED BY <2>3, <2>4
<1>10. ASSUME NEW k \in 1..(L - 1)
       PROVE  /\ Rate(cpu)[At(k)] \in 0..c
              /\ start = 0 \/ k >= 2 => Rate(cpu)[At(k)] = c
  <2>1. CASE k = 1
    BY <1>9, <2>1
  <2>2. CASE k \in 2..(L - 1)
    BY <1>2, <1>7, <2>2
  <2> QED BY <1>1, <2>1, <2>2
<1> QED BY <1>3, <1>6, <1>10

\* Corroboration by a series which falls short of n times c by at most c: it agrees only with an
\* instrument fine enough, and does agree when that is well so.
LEMMA NearlyConstant ==
  ASSUME NEW co, ~Empty(co), NEW from, NEW last, NEW over, NEW quantum \in Nat,
         NEW w, w = Window(co, from, last), NEW n \in Nat, Points(w) = n, n >= 3,
         NEW c \in Nat, NEW sum \in Int, Sum(w) = sum,
         (n - 1) * c <= sum, sum <= n * c, sum = n * c \/ n >= 4,
         Slope(w).den # 0
  PROVE  LET says == Corroborates(co, from, last, over, quantum)
         IN /\ says = "agrees" => c > 0 /\ c >= 10 * quantum
            /\ says # "drifting" /\ c > 0 /\ 3 * c >= 40 * quantum => says = "agrees"
            /\ (c > 0 => DriftAtMost(w, over, CPUDriftShare)) => says # "drifting"
<1> DEFINE says == Corroborates(co, from, last, over, quantum)
<1>1. says = IF ~HasSlope(w) THEN "no trend"
             ELSE IF TooCoarse(w, quantum) THEN "too coarse"
             ELSE IF ~DriftAtMost(w, over, CPUDriftShare) THEN "drifting" ELSE "agrees"
  BY DEF Corroborates
<1>2. (n - 1) * c \in Nat /\ n * c \in Nat /\ (n - 1) * c = n * c - c
  OBVIOUS
<1>3. HasSlope(w) <=> c > 0
  <2>1. HasSlope(w) <=> sum # 0
    BY DEF HasSlope
  <2>2. c = 0 => sum = 0
    BY <1>2
  <2>3. c > 0 => sum # 0
    <3> SUFFICES ASSUME c > 0 PROVE sum # 0
      OBVIOUS
    <3>1. (n - 1) * c >= 1
      OBVIOUS
    <3> QED BY <1>2, <3>1
  <2> QED BY <2>1, <2>2, <2>3
<1>4. TooCoarse(w, quantum) <=> quantum > 0 /\ (sum = 0 \/ 10 * quantum * n > sum)
  BY DEF TooCoarse, Mean, MaxQuantumFrac
<1>5. ASSUME c > 0, ~TooCoarse(w, quantum)
      PROVE  c >= 10 * quantum
  <2>1. CASE quantum = 0
    BY <2>1
  <2>2. CASE quantum > 0 /\ c < 10 * quantum
    <3>1. n * c < n * (10 * quantum)
      BY <2>2
    <3>2. n * (10 * quantum) = 10 * quantum * n
      OBVIOUS
    <3>3. 10 * quantum * n <= sum
      BY <1>4, <1>5, <2>2
    <3> QED BY <1>2, <3>1, <3>2, <3>3
  <2> QED BY <2>1, <2>2
<1>6. ASSUME c > 0, 3 * c >= 40 * quantum
      PROVE  ~TooCoarse(w, quantum)
  <2>1. sum # 0
    BY <1>3, <1>6 DEF HasSlope
  <2>2. 10 * quantum * n <= sum
    <3>1. CASE sum = n * c
      <4>1. 10 * quantum <= c
        BY <1>6
      <4>2. (10 * quantum) * n <= c * n
        BY <4>1
      <4> QED BY <3>1, <4>2
    <3>2. CASE n >= 4
      <4>1. n * (40 * quantum) <= n * (3 * c)
        BY <1>6
      <4>2. n * (40 * quantum) = 4 * (10 * quantum * n) /\ n * (3 * c) = 3 * (n * c)
        OBVIOUS
      <4>3. 4 * c <= n * c
        BY <3>2
      <4>4. 10 * quantum * n \in Nat
        OBVIOUS
      <4> QED BY <1>2, <4>1, <4>2, <4>3, <4>4
    <3> QED BY <3>1, <3>2
  <2> QED BY <1>4, <2>1, <2>2
<1> QED BY <1>1, <1>3, <1>5, <1>6

\* The rates inside the windows selectWindow may pick from a flat pass.
LEMMA CpuWindow ==
  ASSUME Inv, Booked, FlatPass, sampler = "full",
         NEW f \in 1..2, start = 0 => f = 1
  PROVE  LET w == Window(Rate(cpu), f * Second, (LastSecond - 1) * Second)
         IN /\ IsFiniteSet(DOMAIN w) /\ DOMAIN w \subseteq Int
            /\ \A k \in f..(LastSecond - 2) : At(k) \in DOMAIN w
            /\ \A t \in DOMAIN w : \E k \in f..(LastSecond - 1) : t = At(k) /\ w[t] = Rate(cpu)[At(k)]
<1> DEFINE L == LastSecond
           w == Window(Rate(cpu), f * Second, (L - 1) * Second)
<1>1. /\ L \in Nat /\ L >= 5 /\ second = L + 1 /\ f \in Nat
  BY FlatClock
<1>2. /\ Second \in Nat \ {0} /\ phase \in 0..(Second - 1) /\ sampler # "none"
  BY LoadPassAssumption DEF Inv, Typing
<1>3. DOMAIN Rate(cpu) = {At(k) : k \in 0..L}
  BY <1>2, FlatRate
<1>4. /\ DOMAIN w = {t \in DOMAIN Rate(cpu) : f * Second <= t /\ t <= (L - 1) * Second}
      /\ \A t \in DOMAIN w : w[t] = Rate(cpu)[t]
  BY DEF Window, Restrict
<1> HIDE DEF w
<1>5. IsFiniteSet(DOMAIN Rate(cpu)) /\ DOMAIN Rate(cpu) \subseteq Int
  <2>1. DOMAIN Rate(cpu) \subseteq DOMAIN cpu
    BY DEF Rate
  <2>2. kind = "measured"
    BY DEF FlatPass
  <2> QED BY <2>1, <2>2, StampsAre, FS_Subset DEF Inv, Metered
<1>6. IsFiniteSet(DOMAIN w) /\ DOMAIN w \subseteq Int
  BY <1>4, <1>5, FS_Subset
<1>7. ASSUME NEW k \in f..(L - 2)
      PROVE  At(k) \in DOMAIN w
  <2>1. k \in Nat /\ f <= k /\ k + 1 <= L - 1 /\ k \in 0..L
    BY <1>1
  <2>2. f * Second <= k * Second /\ (k + 1) * Second <= (L - 1) * Second
    BY <1>1, <1>2, <2>1
  <2>3. (k + 1) * Second = k * Second + Second /\ k * Second \in Nat /\ f * Second \in Nat /\ (L - 1) * Second \in Int
    BY <1>1, <1>2, <2>1
  <2>4. f * Second <= At(k) /\ At(k) <= (L - 1) * Second
    BY <1>2, <2>2, <2>3 DEF At
  <2> QED BY <1>3, <1>4, <2>1, <2>4
<1>8. ASSUME NEW t \in DOMAIN w
      PROVE  \E k \in f..(L - 1) : t = At(k) /\ w[t] = Rate(cpu)[At(k)]
  <2>1. PICK k \in 0..L : t = At(k)
    BY <1>3, <1>4
  <2>2. f * Second <= At(k) /\ At(k) <= (L - 1) * Second /\ k \in Nat
    BY <1>4, <2>1
  <2>3. f <= k
    <3>1. CASE k + 1 <= f
      <4>1. (k + 1) * Second <= f * Second
        BY <1>1, <1>2, <2>2, <3>1
      <4>2. (k + 1) * Second = k * Second + Second /\ k * Second \in Nat /\ f * Second \in Nat
        BY <1>1, <1>2, <2>2
      <4> QED BY <1>2, <2>2, <4>1, <4>2 DEF At
    <3> QED BY <1>1, <2>2, <3>1
  <2>4. k <= L - 1
    <3>1. CASE k = L
      <4>1. L * Second = (L - 1) * Second + Second /\ (L - 1) * Second \in Int
        BY <1>1, <1>2
      <4> QED BY <1>2, <2>2, <3>1, <4>1 DEF At
    <3> QED BY <1>1, <2>1, <3>1
  <2>5. k \in f..(L - 1)
    BY <1>1, <2>2, <2>3, <2>4
  <2> QED BY <1>4, <2>1, <2>5
<1> QED BY <1>6, <1>7, <1>8 DEF w

\* What the CPU says of those windows.
LEMMA FlatCorroboration ==
  ASSUME Inv, Booked, FlatPass, sampler = "full",
         NEW f \in 1..2, start = 0 => f = 1, NEW over \in Nat
  PROVE  LET says == Corroborates(Rate(cpu), f * Second, (LastSecond - 1) * Second, over, Quantum)
         IN /\ says = "agrees" => usual.cpu > 0 /\ usual.cpu >= 10 * Quantum
            /\ says # "drifting" /\ usual.cpu > 0 /\ 3 * usual.cpu >= 40 * Quantum
                 => says = "agrees"
            /\ start = 0 \/ f = 2 => says # "drifting"
<1> DEFINE L == LastSecond
           c == usual.cpu
           last == (L - 1) * Second
           w == Window(Rate(cpu), f * Second, last)
           D == DOMAIN w
           n == Cardinality(D)
<1>1. /\ L \in Nat /\ L >= 5 /\ f \in Nat /\ start \in Nat
      /\ start # 0 => L >= 6
  <2>1. /\ L \in Nat /\ L >= 5 /\ f \in Nat /\ start \in Nat /\ L = PassSeconds - (IF start = 0 THEN 1 ELSE 0)
    BY FlatClock
  <2>2. PassSeconds >= 6 /\ PassSeconds \in Nat
    BY LoadPassAssumption DEF FlatPass
  <2> QED BY <2>1, <2>2
<1>2. /\ Second \in Nat \ {0} /\ phase \in 0..(Second - 1) /\ c \in Nat /\ Quantum \in Nat
  <2>1. usual \in Kinds
    BY DEF FlatPass, Inv, Typing
  <2> QED BY <2>1, LoadPassAssumption DEF Inv, Typing, Kinds
<1>3. /\ IsFiniteSet(D) /\ D \subseteq Int
      /\ \A k \in f..(L - 2) : At(k) \in D
      /\ \A t \in D : \E k \in f..(L - 1) : t = At(k) /\ w[t] = Rate(cpu)[At(k)]
  BY CpuWindow
<1>4. \A k \in 1..(L - 1) :
        /\ Rate(cpu)[At(k)] \in 0..c
        /\ start = 0 \/ k >= 2 => Rate(cpu)[At(k)] = c
  BY FlatRate
<1>5. /\ \A k \in Int : At(k) \in Int
      /\ \A j, k \in Int : j < k => At(j) + Second <= At(k)
  BY <1>2, AtIs
<1> HIDE DEF w, D, n
<1>6. \A t \in D : w[t] \in Int /\ w[t] \in 0..c /\ (start = 0 \/ f = 2 \/ t # At(1) => w[t] = c)
  <2> TAKE t \in D
  <2>1. PICK k \in f..(L - 1) : t = At(k) /\ w[t] = Rate(cpu)[At(k)]
    BY <1>3
  <2>2. k \in 1..(L - 1) /\ k \in Nat /\ f <= k
    BY <1>1, <2>1
  <2>3. start = 0 \/ f = 2 \/ t # At(1) => start = 0 \/ k >= 2
    BY <2>1, <2>2
  <2> HIDE DEF c
  <2> QED BY <1>2, <1>4, <2>1, <2>2, <2>3
<1>7. n \in Nat /\ n >= 3 /\ Points(w) = n
  <2>1. \A i \in 0..2 : At(f) + i * Second \in D
    <3> TAKE i \in 0..2
    <3>1. f + i \in f..(L - 2)
      BY <1>1
    <3>2. At(f + i) = At(f) + i * Second
      BY <1>1, <1>2 DEF At
    <3> QED BY <1>3, <3>1, <3>2
  <2>4. At(f) \in Int /\ 2 \in Nat
    BY <1>1, <1>5
  <2>2. Cardinality(D) >= 2 + 1
    BY <1>3, <2>1, <2>4, EverySecond
  <2> QED BY <1>3, <2>2, FS_CardinalityType DEF n, Points, D
<1>8. start # 0 /\ f = 1 => n >= 4 /\ At(1) \in D
  <2> SUFFICES ASSUME start # 0, f = 1
               PROVE  n >= 4 /\ At(1) \in D
    OBVIOUS
  <2>1. \A i \in 0..3 : At(f) + i * Second \in D
    <3> TAKE i \in 0..3
    <3>1. f + i \in f..(L - 2)
      BY <1>1
    <3>2. At(f + i) = At(f) + i * Second
      BY <1>1, <1>2 DEF At
    <3> QED BY <1>3, <3>1, <3>2
  <2>4. At(f) \in Int /\ 3 \in Nat
    BY <1>1, <1>5
  <2>2. Cardinality(D) >= 3 + 1
    BY <1>3, <2>1, <2>4, EverySecond
  <2>3. 1 \in f..(L - 2)
    BY <1>1
  <2> QED BY <1>3, <2>2, <2>3 DEF n
<1>9. At(f) \in D /\ At(f + 1) \in D /\ At(f) + Second <= At(f + 1)
  <2>1. f \in f..(L - 2) /\ f + 1 \in f..(L - 2) /\ f \in Int /\ f + 1 \in Int /\ f < f + 1
    BY <1>1
  <2> QED BY <1>3, <1>5, <2>1
<1>10. Slope(w).den # 0
  <2>1. Slope(w).den \in Nat \ {0}
    BY <1>3, <1>9, LineExists DEF D
  <2> QED BY <2>1
<1>11. Sum(w) \in Int /\ (n - 1) * c <= Sum(w) /\ Sum(w) <= n * c
       /\ (start = 0 \/ f = 2 => Sum(w) = n * c)
  <2> HIDE DEF c
  <2>1. Sum(w) = SumOn(w, D)
    BY SumOfSeries DEF D
  <2>2. D \in SUBSET D /\ \A t \in D : w[t] \in Int
    BY <1>6
  <2>3. n * c \in Nat /\ (n - 1) * c = n * c - c
    BY <1>2, <1>7
  <2>4. CASE start = 0 \/ f = 2
    <3>1. \A t \in D : w[t] = c
      BY <1>6, <2>4
    <3>3. c \in Int
      BY <1>2
    <3>2. SumOn(w, D) = n * c
      BY <1>3, <3>1, <3>3, SumConstant DEF n
    <3> QED BY <1>2, <2>1, <2>3, <3>2
  <2>5. CASE start # 0 /\ f = 1
    <3> DEFINE R == D \ {At(1)}
    <3>1. At(1) \in D
      BY <1>8, <2>5
    <3>7. /\ IsFiniteSet(D) /\ \A t \in D : w[t] \in Int
          /\ D \in SUBSET D /\ At(1) \in D
      BY <1>3, <2>2, <3>1
    <3>2. SumOn(w, D) = w[At(1)] + SumOn(w, R)
      BY <3>7, SumStep
    <3>3. IsFiniteSet(R) /\ Cardinality(R) = n - 1
      BY <1>3, <3>1, FS_RemoveElement DEF n
    <3>4. \A t \in R : w[t] = c
      BY <1>6
    <3> HIDE DEF R
    <3>5. SumOn(w, R) = (n - 1) * c
      BY <1>2, <3>3, <3>4, SumConstant
    <3>6. w[At(1)] \in 0..c /\ f # 2
      BY <1>6, <2>5, <3>1
    <3> QED BY <1>2, <2>1, <2>3, <2>5, <3>2, <3>5, <3>6
  <2> QED BY <1>1, <2>4, <2>5
<1>12. ~Empty(Rate(cpu))
  <2>1. D \subseteq DOMAIN Rate(cpu)
    BY DEF D, w, Window, Restrict
  <2> QED BY <1>9, <2>1 DEF Empty
<1>13. Sum(w) = n * c \/ n >= 4
  BY <1>1, <1>8, <1>11
<1>14. start = 0 \/ f = 2 => (c > 0 => DriftAtMost(w, over, CPUDriftShare))
  <2> SUFFICES ASSUME start = 0 \/ f = 2, c > 0
               PROVE  DriftAtMost(w, over, CPUDriftShare)
    OBVIOUS
  <2>1. \A t \in D : w[t] = c
    BY <1>6
  <2>2. c \in Nat \ {0}
    BY <1>2
  <2> HIDE DEF c
  <2>3. \A o, share \in Nat : DriftAtMost(w, o, share)
    BY <1>3, <1>7, <1>9, <2>1, <2>2, ConstantIsFlat DEF D
  <2> QED BY <2>3 DEF CPUDriftShare
<1> DEFINE says == Corroborates(Rate(cpu), f * Second, last, over, Quantum)
<1>15. /\ says = "agrees" => c > 0 /\ c >= 10 * Quantum
       /\ says # "drifting" /\ c > 0 /\ 3 * c >= 40 * Quantum => says = "agrees"
       /\ (c > 0 => DriftAtMost(w, over, CPUDriftShare)) => says # "drifting"
  <2>1. w = Window(Rate(cpu), f * Second, last)
    BY DEF w
  <2> HIDE DEF c, last
  <2> QED BY <1>2, <1>7, <1>10, <1>11, <1>12, <1>13, <2>1, NearlyConstant
<1> HIDE DEF says
<1>16. start = 0 \/ f = 2 => says # "drifting"
  BY <1>14, <1>15
<1> QED BY <1>15, <1>16 DEF says

-----------------------------------------------------------------------------
\* It is measured.

\* minDuration leaves three seconds of a pass of six or more.
LEMMA ShortestWindow ==
  ASSUME PassSeconds >= 6
  PROVE  /\ MinDuration(PassSeconds * Second) \in Nat
         /\ MinDuration(PassSeconds * Second) <= (PassSeconds - 3) * Second
<1>1. Second \in Nat \ {0} /\ PassSeconds \in Nat
  BY LoadPassAssumption
<1> DEFINE pass == PassSeconds * Second
           half == pass \div 2
           two == 2 * Second
           thirty == 30 * Second
           longer == IF two <= half THEN half ELSE two
<1>2. pass \in Nat /\ half \in Nat /\ 2 * half <= pass /\ two \in Nat /\ thirty \in Nat
  BY <1>1
<1>3. pass <= 2 * ((PassSeconds - 3) * Second) /\ two <= (PassSeconds - 3) * Second
      /\ (PassSeconds - 3) * Second \in Nat
  <2>1. 6 * Second <= PassSeconds * Second /\ (PassSeconds - 3) * Second = PassSeconds * Second - 3 * Second
    BY <1>1
  <2> QED BY <1>1, <1>2, <2>1
<1> HIDE DEF pass, half, two, thirty
<1>4. Max({two, half}) = longer /\ longer \in Nat
  <2>1. two \in Int /\ half \in Int
    BY <1>2
  <2>2. Max({two, half}) = IF two <= half THEN half ELSE two
    BY <2>1, OfTwo
  <2> QED BY <1>2, <2>2 DEF longer
<1> HIDE DEF longer
<1>5. Min({thirty, longer}) = IF thirty <= longer THEN thirty ELSE longer
  <2>1. thirty \in Int /\ longer \in Int
    BY <1>2, <1>4
  <2> QED BY <2>1, OfTwo
<1>6. MinDuration(pass) = IF thirty <= longer THEN thirty ELSE longer
  BY <1>4, <1>5 DEF MinDuration, two, half, thirty
<1>7. longer <= (PassSeconds - 3) * Second
  BY <1>2, <1>3 DEF longer
<1>8. MinDuration(pass) \in Nat /\ MinDuration(pass) <= (PassSeconds - 3) * Second
  BY <1>2, <1>3, <1>4, <1>6, <1>7
<1> QED BY <1>8 DEF pass

\* FlatPassIsMeasured, for every pass of six seconds or more that nothing disturbs: selectWindow
\* finds its window, begins it at the first whole second or the one after it, and says it is
\* corroborated unless the instrument is too coarse.
THEOREM FlatPassesAreMeasured == Spec => []FlatPassIsMeasured
<1>1. Inv /\ Booked => FlatPassIsMeasured
  <2> SUFFICES ASSUME Inv, Booked, FlatPass
               PROVE  LET w == cell.window
                      IN /\ w.ok
                         /\ w.to = (LastSecond - 1) * Second
                         /\ w.from = Second \/ (w.from = 2 * Second /\ start > 0 /\ sampler = "full")
                         /\ w.corroborated => sampler = "full" /\ usual.cpu > 0 /\ usual.cpu >= 10 * Quantum
                         /\ sampler = "full" /\ usual.cpu > 0 /\ 3 * usual.cpu >= 40 * Quantum => w.corroborated
    BY DEF FlatPassIsMeasured, FlatPass
  <2> DEFINE L == LastSecond
             s == WholeSeconds(RPS)
             pass == PassSeconds * Second
             over == MinDuration(pass)
             co == IF sampler = "full" THEN Rate(cpu) ELSE [t \in {} |-> 0]
             f == IF start = 0 \/ sampler # "full" THEN 1 ELSE 2
             says(t) == Corroborates(co, t, (L - 1) * Second, over, Quantum)
             w == SelectWindow
  <2>1. /\ Second \in Nat \ {0} /\ PassSeconds \in Nat /\ PassSeconds >= 6
        /\ usual \in Kinds /\ Answered(usual) \in Nat \ {0}
    <3>1. usual \in Kinds /\ Answered(usual) > 0 /\ PassSeconds >= 6
      BY DEF FlatPass, Inv, Typing
    <3>2. Answered(usual) \in Nat
      BY <3>1 DEF Kinds, Answered
    <3> QED BY <3>1, <3>2, LoadPassAssumption
  <2>2. /\ L \in Nat /\ L >= 5 /\ start \in Nat
        /\ L = PassSeconds - (IF start = 0 THEN 1 ELSE 0)
    BY FlatClock
  <2>3. f \in 1..2 /\ f \in 1..(L - 1) /\ f + 2 <= L - 1 /\ (L - 1) - f >= PassSeconds - 3
        /\ 1 \in Nat /\ L - 1 \in Nat
    BY <2>1, <2>2
  <2>4. over \in Nat /\ over <= ((L - 1) - f) * Second
    <3>1. over \in Nat /\ over <= (PassSeconds - 3) * Second
      BY <2>1, ShortestWindow
    <3> HIDE DEF over, f, L
    <3>2. (PassSeconds - 3) * Second <= ((L - 1) - f) * Second
      BY <2>1, <2>2, <2>3
    <3>3. (PassSeconds - 3) * Second \in Int /\ ((L - 1) - f) * Second \in Int
      BY <2>1, <2>2, <2>3
    <3> QED BY <3>1, <3>2, <3>3
  <2>5. /\ OnSeconds(s) /\ DOMAIN s = SecondsOf(1..(L - 1))
        /\ \A t \in DOMAIN s : s[t] = Answered(usual)
    BY FlatThroughput
  <2>6. cell.window = w
    BY DEF Inv, Settled, FlatPass
  <2>7. w = DetectSteady(s, pass, co, Quantum)
    <3>1. 1 * Second \in DOMAIN s
      BY <2>3, <2>5 DEF SecondsOf
    <3>2. ~Empty(s)
      BY <3>1 DEF Empty
    <3> QED BY <3>2 DEF SelectWindow
  <2>8. sampler # "full" => \A t : says(t) = "not offered"
    BY DEF Corroborates, Empty
  <2>9. \A k \in 1..2 : sampler = "full" /\ (start = 0 => k = 1) =>
          /\ says(k * Second) = "agrees" => usual.cpu > 0 /\ usual.cpu >= 10 * Quantum
          /\ says(k * Second) # "drifting" /\ usual.cpu > 0 /\ 3 * usual.cpu >= 40 * Quantum
               => says(k * Second) = "agrees"
          /\ start = 0 \/ k = 2 => says(k * Second) # "drifting"
    <3> SUFFICES ASSUME NEW k \in 1..2, sampler = "full", start = 0 => k = 1
                 PROVE  /\ says(k * Second) = "agrees" => usual.cpu > 0 /\ usual.cpu >= 10 * Quantum
                        /\ says(k * Second) # "drifting" /\ usual.cpu > 0 /\ 3 * usual.cpu >= 40 * Quantum
                             => says(k * Second) = "agrees"
                        /\ start = 0 \/ k = 2 => says(k * Second) # "drifting"
      OBVIOUS
    <3>1. co = Rate(cpu)
      OBVIOUS
    <3> HIDE DEF over, co
    <3> QED BY <2>4, <3>1, FlatCorroboration
  <2> HIDE DEF co, over, s, w
  <2>10. says(f * Second) # "drifting"
    <3>1. CASE sampler = "full"
      <4>1. (start = 0 => f = 1) /\ (start = 0 \/ f = 2)
        BY <3>1
      <4> HIDE DEF says, f
      <4> QED BY <2>3, <2>9, <3>1, <4>1
    <3>2. CASE sampler # "full"
      <4>1. says(f * Second) = "not offered"
        BY <2>8, <3>2
      <4> QED BY <4>1
    <3> QED BY <3>1, <3>2
  <2>11. /\ w.ok /\ w.to = (L - 1) * Second
         /\ \E k \in 1..f : w.from = k * Second
         /\ w.corroborated <=> says(w.from) = "agrees"
         /\ says(w.from) # "drifting"
    <3> HIDE DEF f, L, pass
    <3>1. Corroborates(co, f * Second, (L - 1) * Second, MinDuration(pass), Quantum) # "drifting"
      BY <2>10 DEF over
    <3>2. MinDuration(pass) \in Nat /\ MinDuration(pass) <= ((L - 1) - f) * Second
      BY <2>4 DEF over
    <3>3. LET v == DetectSteady(s, pass, co, Quantum)
              say == Corroborates(co, v.from, v.to, MinDuration(pass), Quantum)
          IN /\ v.ok /\ v.to = (L - 1) * Second
             /\ \E k \in 1..f : v.from = k * Second
             /\ v.corroborated <=> say = "agrees"
             /\ say # "drifting"
      <4>1. PICK b \in Nat : b = L - 1
        BY <2>3
      <4>2. PICK c \in Nat \ {0} : c = Answered(usual)
        BY <2>1
      <4>3. /\ OnSeconds(s) /\ DOMAIN s = SecondsOf(1..b) /\ \A t \in DOMAIN s : s[t] = c
            /\ f \in 1..b /\ f + 2 <= b
            /\ MinDuration(pass) \in Nat /\ MinDuration(pass) <= (b - f) * Second
            /\ Corroborates(co, f * Second, b * Second, MinDuration(pass), Quantum) # "drifting"
        BY <2>3, <2>5, <3>1, <3>2, <4>1, <4>2
      <4>4. LET v == DetectSteady(s, pass, co, Quantum)
                say == Corroborates(co, v.from, v.to, MinDuration(pass), Quantum)
            IN /\ v.ok /\ v.to = b * Second
               /\ \E k \in 1..f : v.from = k * Second
               /\ v.corroborated <=> say = "agrees"
               /\ say # "drifting"
        BY <2>3, <4>3, FlatSuffixIsFound
      <4> QED BY <4>1, <4>4
    <3> QED BY <2>7, <3>3 DEF over
  <2>12. PICK k \in 1..f : w.from = k * Second
    BY <2>11
  <2>13. k \in 1..2 /\ (start = 0 => k = 1) /\ (k = 2 => start > 0 /\ sampler = "full")
    BY <2>2, <2>12
  <2>14. w.from = Second \/ (w.from = 2 * Second /\ start > 0 /\ sampler = "full")
    <3>1. k = 1 \/ k = 2
      BY <2>13
    <3>2. 1 * Second = Second
      BY <2>1
    <3> HIDE DEF f
    <3> QED BY <2>12, <2>13, <3>1, <3>2
  <2>15. w.corroborated => sampler = "full" /\ usual.cpu > 0 /\ usual.cpu >= 10 * Quantum
    <3> HIDE DEF f, says
    <3>1. CASE sampler = "full"
      BY <2>9, <2>11, <2>12, <2>13, <3>1
    <3>2. CASE sampler # "full"
      BY <2>8, <2>11, <3>2
    <3> QED BY <3>1, <3>2
  <2>16. sampler = "full" /\ usual.cpu > 0 /\ 3 * usual.cpu >= 40 * Quantum => w.corroborated
    <3> HIDE DEF f, says
    <3> QED BY <2>9, <2>11, <2>12, <2>13
  <2> QED BY <2>6, <2>11, <2>14, <2>15, <2>16
<1> QED BY <1>1, AllBooked, PTL
=============================================================================
