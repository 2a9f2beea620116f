---------------------------- MODULE SumTheorems ----------------------------
(***************************************************************************)
(* Sums over finite sets, for the proofs about the totals of the models.   *)
(* A total is MapThenSumSet of the community modules, of the values of a   *)
(* function: as data, and not as an operator, the function can be given to *)
(* a theorem.  The induction is on the finite subsets of a set, and is     *)
(* made of the well-foundedness of their ordering.                         *)
(***************************************************************************)
EXTENDS FiniteSetsExt, Integers, FiniteSetTheorems, WellFoundedInduction, TLAPS

Total(f, S) == MapThenSumSet(LAMBDA x : f[x], S)

\* The element a fold takes next, and the equation a fold of f solves.
Pick(s) == CHOOSE x \in s : TRUE

Unfolds(g, f, S) ==
  g = [s \in SUBSET S |-> IF s = {} THEN 0 ELSE f[Pick(s)] + g[s \ {Pick(s)}]]

(***************************************************************************)
(* Induction over the subsets of a finite set: Q holds them all when it    *)
(* holds each of which it holds every smaller one.                         *)
(***************************************************************************)
LEMMA SubsetInduction ==
  ASSUME NEW S, IsFiniteSet(S), NEW Q,
         \A s \in SUBSET S : (\A t \in SUBSET s : t # s => t \in Q) => s \in Q
  PROVE  SUBSET S \subseteq Q
<1> DEFINE T == (SUBSET S) \ Q
<1> SUFFICES ASSUME T # {} PROVE FALSE
  OBVIOUS
<1>1. IsWellFoundedOn(StrictSubsetOrdering(S), SUBSET S)
  <2>1. IsWellFoundedOn(StrictSubsetOrdering(S), FiniteSubsetsOf(S))
    BY FS_StrictSubsetOrderingWellFounded
  <2>2. FiniteSubsetsOf(S) = SUBSET S
    BY FS_FiniteSubsetsOfFinite
  <2> QED
    BY <2>1, <2>2, Zenon
<1>2. PICK m \in T : \A t \in T : <<t, m>> \notin StrictSubsetOrdering(S)
  <2>1. T \subseteq SUBSET S
    OBVIOUS
  <2> HIDE DEF T
  <2>2. \E m \in T : \A t \in T : ~(<<t, m>> \in StrictSubsetOrdering(S))
    BY <1>1, <2>1, WFMin
  <2> QED
    BY <2>2
<1>3. ASSUME NEW t \in SUBSET m, t # m PROVE t \in Q
  <2>1. t \in SUBSET S /\ m \in SUBSET S
    OBVIOUS
  <2>2. <<t, m>> \in StrictSubsetOrdering(S)
    BY <1>3, <2>1 DEF StrictSubsetOrdering
  <2> QED
    BY <1>2, <2>1, <2>2
<1> QED
  BY <1>3

LEMMA PickIn == \A s : s # {} => Pick(s) \in s
  BY DEF Pick

\* Two folds of one function agree wherever both are defined.
LEMMA FoldsAgree ==
  ASSUME NEW f, NEW S, NEW U, IsFiniteSet(S), NEW g, NEW h,
         Unfolds(g, f, S), Unfolds(h, f, U)
  PROVE  \A s \in SUBSET S : s \subseteq U => g[s] = h[s]
<1> DEFINE Q == { s \in SUBSET S : s \subseteq U => g[s] = h[s] }
<1>1. ASSUME NEW s \in SUBSET S, \A t \in SUBSET s : t # s => t \in Q
      PROVE  s \in Q
  <2> SUFFICES ASSUME s \subseteq U PROVE g[s] = h[s]
    OBVIOUS
  <2>1. CASE s = {}
    BY <2>1 DEF Unfolds
  <2>2. CASE s # {}
    <3> DEFINE rest == s \ {Pick(s)}
    <3>1. rest \in SUBSET s /\ rest # s /\ rest \subseteq U
      BY <2>2, PickIn
    <3>2. g[rest] = h[rest]
      BY <1>1, <3>1
    <3>3. g[s] = f[Pick(s)] + g[rest]
      BY <2>2 DEF Unfolds
    <3>4. h[s] = f[Pick(s)] + h[rest]
      BY <2>2 DEF Unfolds
    <3> QED
      BY <3>2, <3>3, <3>4
  <2> QED
    BY <2>1, <2>2
<1>2. SUBSET S \subseteq Q
  <2> HIDE DEF Q
  <2> QED
    BY <1>1, SubsetInduction
<1> QED
  BY <1>2

\* Every finite set has a fold.
LEMMA FoldExists ==
  ASSUME NEW f, NEW S, IsFiniteSet(S)
  PROVE  \E g : Unfolds(g, f, S)
<1> DEFINE Q == { s \in SUBSET S : \E g : Unfolds(g, f, s) }
<1>1. ASSUME NEW s \in SUBSET S, \A t \in SUBSET s : t # s => t \in Q
      PROVE  s \in Q
  <2> DEFINE G(t) == CHOOSE g : Unfolds(g, f, t)
             below(t) == G(t)[t]
             g0 == [t \in SUBSET s |->
                      IF t = {} THEN 0 ELSE f[Pick(t)] + below(t \ {Pick(t)})]
  <2>0. IsFiniteSet(s)
    BY FS_Subset
  <2>1. ASSUME NEW t \in SUBSET s, t # s PROVE Unfolds(G(t), f, t)
    <3>1. \E g : Unfolds(g, f, t)
      BY <1>1, <2>1
    <3> QED
      BY <3>1
  <2>2. ASSUME NEW t \in SUBSET s, t # s
        PROVE  below(t) = IF t = {} THEN 0 ELSE f[Pick(t)] + below(t \ {Pick(t)})
    <3> DEFINE rest == t \ {Pick(t)}
    <3>1. Unfolds(G(t), f, t)
      BY <2>1, <2>2
    <3>2. CASE t = {}
      BY <3>1, <3>2 DEF Unfolds
    <3>3. CASE t # {}
      <4>1. rest \in SUBSET t /\ rest \in SUBSET s /\ rest # s
        BY <2>2, <3>3, PickIn
      <4>2. Unfolds(G(rest), f, rest)
        BY <2>1, <4>1
      <4>3. IsFiniteSet(t)
        BY <2>0, FS_Subset
      <4>4. G(t)[rest] = G(rest)[rest]
        <5> HIDE DEF G
        <5> QED
          BY <3>1, <4>1, <4>2, <4>3, FoldsAgree
      <4>5. G(t)[t] = f[Pick(t)] + G(t)[rest]
        <5> HIDE DEF G
        <5> QED
          BY <3>1, <3>3 DEF Unfolds
      <4> HIDE DEF G
      <4> QED
        BY <3>3, <4>4, <4>5
    <3> QED
      BY <3>2, <3>3
  <2>3. \A t \in SUBSET s : t # s => g0[t] = below(t)
    <3> HIDE DEF below
    <3> QED
      BY <2>2
  <2>4. Unfolds(g0, f, s)
    <3>1. ASSUME NEW t \in SUBSET s, t # {}
          PROVE  g0[t \ {Pick(t)}] = below(t \ {Pick(t)})
      <4>1. t \ {Pick(t)} \in SUBSET s /\ t \ {Pick(t)} # s
        BY <3>1, PickIn
      <4> HIDE DEF below, g0
      <4> QED
        BY <2>3, <4>1
    <3>2. \A t \in SUBSET s :
            g0[t] = IF t = {} THEN 0 ELSE f[Pick(t)] + g0[t \ {Pick(t)}]
      <4>1. \A t \in SUBSET s :
              g0[t] = IF t = {} THEN 0 ELSE f[Pick(t)] + below(t \ {Pick(t)})
        <5> HIDE DEF below
        <5> QED
          OBVIOUS
      <4> HIDE DEF below, g0
      <4> QED
        BY <3>1, <4>1
    <3>3. g0 = [t \in SUBSET s |-> g0[t]]
      <4> HIDE DEF below
      <4> QED
        OBVIOUS
    <3> HIDE DEF g0
    <3> QED
      BY <3>2, <3>3 DEF Unfolds
  <2> HIDE DEF g0
  <2> QED
    BY <2>4
<1>2. SUBSET S \subseteq Q
  <2> HIDE DEF Q
  <2> QED
    BY <1>1, SubsetInduction
<1> QED
  BY <1>2

\* A total is what its fold gives to the whole set.
LEMMA TotalIsFold ==
  ASSUME NEW f, NEW S, IsFiniteSet(S)
  PROVE  \E g : Unfolds(g, f, S) /\ Total(f, S) = g[S]
<1> DEFINE g == CHOOSE h : Unfolds(h, f, S)
<1>1. Total(f, S) = g[S]
  BY DEF Total, MapThenSumSet, MapThenFoldSet, Unfolds, Pick
<1>2. Unfolds(g, f, S)
  BY FoldExists
<1> HIDE DEF g
<1> QED
  BY <1>1, <1>2

LEMMA TotalEmpty == \A f : Total(f, {}) = 0
<1> SUFFICES ASSUME NEW f PROVE Total(f, {}) = 0
  OBVIOUS
<1>1. IsFiniteSet({})
  BY FS_EmptySet
<1> QED
  BY <1>1, TotalIsFold DEF Unfolds

LEMMA TotalPick ==
  ASSUME NEW f, NEW S, IsFiniteSet(S), S # {}
  PROVE  Total(f, S) = f[Pick(S)] + Total(f, S \ {Pick(S)})
<1> DEFINE rest == S \ {Pick(S)}
<1>1. IsFiniteSet(rest)
  BY FS_Subset
<1>2. PICK g : Unfolds(g, f, S) /\ Total(f, S) = g[S]
  BY TotalIsFold
<1>3. PICK h : Unfolds(h, f, rest) /\ Total(f, rest) = h[rest]
  BY <1>1, TotalIsFold
<1>4. g[rest] = h[rest]
  BY <1>2, <1>3, FoldsAgree
<1>5. g[S] = f[Pick(S)] + g[rest]
  BY <1>2 DEF Unfolds
<1> QED
  BY <1>2, <1>3, <1>4, <1>5

(***************************************************************************)
(* A total of integers is an integer, and any element can be taken out of  *)
(* it first.                                                               *)
(***************************************************************************)
LEMMA TotalRemove ==
  ASSUME NEW f, NEW S, IsFiniteSet(S), \A x \in S : f[x] \in Int
  PROVE  /\ Total(f, S) \in Int
         /\ \A x \in S : Total(f, S) = f[x] + Total(f, S \ {x})
<1> DEFINE Q == { s \in SUBSET S :
                    /\ Total(f, s) \in Int
                    /\ \A x \in s : Total(f, s) = f[x] + Total(f, s \ {x}) }
<1>1. ASSUME NEW s \in SUBSET S, \A t \in SUBSET s : t # s => t \in Q
      PROVE  s \in Q
  <2>1. CASE s = {}
    BY <2>1, TotalEmpty
  <2>2. CASE s # {}
    <3> DEFINE p == Pick(s)
               rest == s \ {p}
    <3>1. p \in s /\ rest \in SUBSET s /\ rest # s
      BY <2>2, PickIn
    <3>2. rest \in Q
      BY <1>1, <3>1
    <3>3. IsFiniteSet(s)
      BY FS_Subset
    <3>4. Total(f, s) = f[p] + Total(f, rest)
      BY <2>2, <3>3, TotalPick
    <3>5. Total(f, s) \in Int
      BY <3>1, <3>2, <3>4
    <3>6. ASSUME NEW x \in s PROVE Total(f, s) = f[x] + Total(f, s \ {x})
      <4>1. CASE x = p
        BY <3>4, <4>1
      <4>2. CASE x # p
        <5> DEFINE less == s \ {x}
        <5>1. x \in rest /\ p \in less /\ less \in SUBSET s /\ less # s
          BY <3>1, <4>2
        <5>2. less \in Q
          BY <1>1, <5>1
        <5>3. Total(f, rest) = f[x] + Total(f, rest \ {x})
          BY <3>2, <5>1
        <5>4. Total(f, less) = f[p] + Total(f, less \ {p})
          BY <5>1, <5>2
        <5>5. rest \ {x} = less \ {p}
          OBVIOUS
        <5>6. rest \ {x} \in Q
          <6>1. rest \ {x} \in SUBSET s /\ rest \ {x} # s
            BY <3>1
          <6> HIDE DEF Q, rest
          <6> QED
            BY <1>1, <6>1
        <5>7. /\ Total(f, rest \ {x}) \in Int /\ Total(f, rest) \in Int
              /\ Total(f, less) \in Int /\ f[x] \in Int /\ f[p] \in Int
          BY <3>1, <3>2, <5>2, <5>6
        <5> HIDE DEF Q, rest, less, p
        <5>8. Total(f, s) = f[x] + (f[p] + Total(f, rest \ {x}))
          BY <3>4, <5>3, <5>7
        <5> QED
          BY <5>4, <5>5, <5>8 DEF less
      <4> QED
        BY <4>1, <4>2
    <3> QED
      BY <3>5, <3>6
  <2> QED
    BY <2>1, <2>2
<1>2. SUBSET S \subseteq Q
  <2> HIDE DEF Q
  <2> QED
    BY <1>1, SubsetInduction
<1> QED
  BY <1>2

LEMMA TotalInt ==
  ASSUME NEW f, NEW S, IsFiniteSet(S), \A x \in S : f[x] \in Int
  PROVE  Total(f, S) \in Int
  BY TotalRemove

\* Another element adds its value.
LEMMA TotalAdd ==
  ASSUME NEW f, NEW S, IsFiniteSet(S), \A x \in S : f[x] \in Int,
         NEW y, y \notin S, f[y] \in Int
  PROVE  Total(f, S \cup {y}) = Total(f, S) + f[y]
<1> DEFINE U == S \cup {y}
<1>1. IsFiniteSet(U) /\ U \ {y} = S
  BY FS_AddElement
<1>2. \A x \in U : f[x] \in Int
  OBVIOUS
<1>3. y \in U
  OBVIOUS
<1>4. Total(f, S) \in Int
  BY TotalInt
<1>5. Total(f, U) = f[y] + Total(f, S)
  <2> HIDE DEF U
  <2> QED
    BY <1>1, <1>2, <1>3, TotalRemove
<1> QED
  BY <1>4, <1>5

\* A total is made of the values alone.
LEMMA TotalOrdered ==
  ASSUME NEW f, NEW g, NEW S, IsFiniteSet(S),
         \A x \in S : f[x] \in Int /\ g[x] \in Int /\ f[x] <= g[x]
  PROVE  Total(f, S) <= Total(g, S)
<1> DEFINE Q == { s \in SUBSET S : Total(f, s) <= Total(g, s) }
<1>1. ASSUME NEW s \in SUBSET S, \A t \in SUBSET s : t # s => t \in Q
      PROVE  s \in Q
  <2>1. CASE s = {}
    <3>1. Total(f, {}) = 0 /\ Total(g, {}) = 0
      BY TotalEmpty
    <3> QED
      BY <2>1, <3>1
  <2>2. CASE s # {}
    <3> DEFINE p == Pick(s)
               rest == s \ {p}
    <3>1. p \in s /\ rest \in SUBSET s /\ rest # s
      BY <2>2, PickIn
    <3>2. Total(f, rest) <= Total(g, rest)
      BY <1>1, <3>1
    <3>3. IsFiniteSet(s) /\ IsFiniteSet(rest)
      BY FS_Subset
    <3>4. Total(f, s) = f[p] + Total(f, rest) /\ Total(g, s) = g[p] + Total(g, rest)
      BY <2>2, <3>3, TotalPick
    <3>5. Total(f, rest) \in Int /\ Total(g, rest) \in Int
      BY <3>3, TotalInt
    <3> HIDE DEF rest, p
    <3> QED
      BY <3>1, <3>2, <3>4, <3>5
  <2> QED
    BY <2>1, <2>2
<1>2. SUBSET S \subseteq Q
  <2> HIDE DEF Q
  <2> QED
    BY <1>1, SubsetInduction
<1> QED
  BY <1>2

LEMMA TotalEqual ==
  ASSUME NEW f, NEW g, NEW S, IsFiniteSet(S),
         \A x \in S : f[x] \in Int /\ f[x] = g[x]
  PROVE  Total(f, S) = Total(g, S)
<1>1. Total(f, S) <= Total(g, S)
  BY TotalOrdered
<1>2. Total(g, S) <= Total(f, S)
  BY TotalOrdered
<1>3. Total(f, S) \in Int /\ Total(g, S) \in Int
  BY TotalInt
<1> QED
  BY <1>1, <1>2, <1>3

\* What is added to a part without a negative value makes it no smaller.
LEMMA TotalGrows ==
  ASSUME NEW f, NEW S, IsFiniteSet(S), \A x \in S : f[x] \in Int,
         NEW t \in SUBSET S, \A x \in S \ t : f[x] >= 0
  PROVE  Total(f, t) <= Total(f, S)
<1> DEFINE Q == { s \in SUBSET S : t \subseteq s => Total(f, t) <= Total(f, s) }
<1>1. ASSUME NEW s \in SUBSET S, \A u \in SUBSET s : u # s => u \in Q
      PROVE  s \in Q
  <2> SUFFICES ASSUME t \subseteq s PROVE Total(f, t) <= Total(f, s)
    OBVIOUS
  <2>1. IsFiniteSet(s) /\ IsFiniteSet(t)
    BY FS_Subset
  <2>2. Total(f, s) \in Int /\ Total(f, t) \in Int
    BY <2>1, TotalInt
  <2>3. CASE t = s
    BY <2>2, <2>3
  <2>4. CASE t # s
    <3>1. PICK x \in s : x \notin t
      BY <2>4
    <3> DEFINE rest == s \ {x}
    <3>2. rest \in SUBSET s /\ rest # s /\ t \subseteq rest
      BY <3>1
    <3>3. Total(f, t) <= Total(f, rest)
      BY <1>1, <3>2
    <3>4. Total(f, s) = f[x] + Total(f, rest)
      BY <2>1, TotalRemove
    <3>5. IsFiniteSet(rest)
      BY <2>1, FS_Subset
    <3>6. Total(f, rest) \in Int
      BY <3>5, TotalInt
    <3>7. f[x] \in Int /\ f[x] >= 0
      BY <3>1
    <3> HIDE DEF rest, Q
    <3> QED
      BY <2>2, <3>3, <3>4, <3>6, <3>7
  <2> QED
    BY <2>3, <2>4
<1>2. SUBSET S \subseteq Q
  <2> HIDE DEF Q
  <2> QED
    BY <1>1, SubsetInduction
<1>3. S \in Q
  BY <1>2
<1> QED
  BY <1>3

\* What is added to a part without a positive value makes it no larger.
LEMMA TotalShrinks ==
  ASSUME NEW f, NEW S, IsFiniteSet(S), \A x \in S : f[x] \in Int,
         NEW t \in SUBSET S, \A x \in S \ t : f[x] <= 0
  PROVE  Total(f, S) <= Total(f, t)
<1> DEFINE Q == { s \in SUBSET S : t \subseteq s => Total(f, s) <= Total(f, t) }
<1>1. ASSUME NEW s \in SUBSET S, \A u \in SUBSET s : u # s => u \in Q
      PROVE  s \in Q
  <2> SUFFICES ASSUME t \subseteq s PROVE Total(f, s) <= Total(f, t)
    OBVIOUS
  <2>1. IsFiniteSet(s) /\ IsFiniteSet(t)
    BY FS_Subset
  <2>2. Total(f, s) \in Int /\ Total(f, t) \in Int
    BY <2>1, TotalInt
  <2>3. CASE t = s
    BY <2>2, <2>3
  <2>4. CASE t # s
    <3>1. PICK x \in s : x \notin t
      BY <2>4
    <3> DEFINE rest == s \ {x}
    <3>2. rest \in SUBSET s /\ rest # s /\ t \subseteq rest
      BY <3>1
    <3>3. Total(f, rest) <= Total(f, t)
      BY <1>1, <3>2
    <3>4. Total(f, s) = f[x] + Total(f, rest)
      BY <2>1, TotalRemove
    <3>5. IsFiniteSet(rest)
      BY <2>1, FS_Subset
    <3>6. Total(f, rest) \in Int
      BY <3>5, TotalInt
    <3>7. f[x] \in Int /\ f[x] <= 0
      BY <3>1
    <3> HIDE DEF rest, Q
    <3> QED
      BY <2>2, <3>3, <3>4, <3>6, <3>7
  <2> QED
    BY <2>3, <2>4
<1>2. SUBSET S \subseteq Q
  <2> HIDE DEF Q
  <2> QED
    BY <1>1, SubsetInduction
<1>3. S \in Q
  BY <1>2
<1> QED
  BY <1>3

\* A total is the total of a part and of what is left.
LEMMA TotalSplit ==
  ASSUME NEW f, NEW S, IsFiniteSet(S), \A x \in S : f[x] \in Int, NEW t \in SUBSET S
  PROVE  Total(f, S) = Total(f, t) + Total(f, S \ t)
<1> DEFINE Q == { s \in SUBSET S : t \subseteq s => Total(f, s) = Total(f, t) + Total(f, s \ t) }
<1>1. ASSUME NEW s \in SUBSET S, \A u \in SUBSET s : u # s => u \in Q
      PROVE  s \in Q
  <2> SUFFICES ASSUME t \subseteq s PROVE Total(f, s) = Total(f, t) + Total(f, s \ t)
    OBVIOUS
  <2>1. IsFiniteSet(s) /\ IsFiniteSet(t) /\ IsFiniteSet(s \ t)
    BY FS_Subset
  <2>2. Total(f, s) \in Int /\ Total(f, t) \in Int
    BY <2>1, TotalInt
  <2>3. CASE t = s
    <3>1. s \ t = {}
      BY <2>3
    <3> QED
      BY <2>2, <2>3, <3>1, TotalEmpty
  <2>4. CASE t # s
    <3>1. PICK x \in s : x \notin t
      BY <2>4
    <3> DEFINE rest == s \ {x}
    <3>2. rest \in SUBSET s /\ rest # s /\ t \subseteq rest
      BY <3>1
    <3>3. Total(f, rest) = Total(f, t) + Total(f, rest \ t)
      BY <1>1, <3>2
    <3>4. Total(f, s) = f[x] + Total(f, rest)
      BY <2>1, TotalRemove
    <3>5. Total(f, s \ t) = f[x] + Total(f, rest \ t)
      <4>1. (s \ t) \ {x} = rest \ t /\ x \in s \ t
        BY <3>1
      <4>2. Total(f, s \ t) = f[x] + Total(f, (s \ t) \ {x})
        BY <2>1, <4>1, TotalRemove
      <4> QED
        BY <4>1, <4>2
    <3>6. IsFiniteSet(rest) /\ IsFiniteSet(rest \ t)
      BY <2>1, FS_Subset
    <3>7. Total(f, rest) \in Int /\ Total(f, rest \ t) \in Int
      BY <3>6, TotalInt
    <3>8. f[x] \in Int
      BY <3>1
    <3> HIDE DEF rest, Q
    <3> QED
      BY <2>2, <3>3, <3>4, <3>5, <3>7, <3>8
  <2> QED
    BY <2>3, <2>4
<1>2. SUBSET S \subseteq Q
  <2> HIDE DEF Q
  <2> QED
    BY <1>1, SubsetInduction
<1>3. S \in Q
  BY <1>2
<1> QED
  BY <1>3

\* Where no value is negative, a part is at most the whole.
LEMMA TotalPart ==
  ASSUME NEW f, NEW S, IsFiniteSet(S), \A x \in S : f[x] \in Int /\ f[x] >= 0
  PROVE  \A t \in SUBSET S : Total(f, t) >= 0 /\ Total(f, t) <= Total(f, S)
<1> SUFFICES ASSUME NEW t \in SUBSET S
             PROVE  Total(f, t) >= 0 /\ Total(f, t) <= Total(f, S)
  OBVIOUS
<1>1. IsFiniteSet(t)
  BY FS_Subset
<1>2. Total(f, {}) <= Total(f, t)
  BY <1>1, TotalGrows
<1>3. Total(f, {}) = 0 /\ Total(f, t) \in Int
  BY <1>1, TotalEmpty, TotalInt
<1>4. Total(f, t) <= Total(f, S)
  BY TotalGrows
<1> QED
  BY <1>2, <1>3, <1>4

LEMMA TotalMember ==
  ASSUME NEW f, NEW S, IsFiniteSet(S), \A x \in S : f[x] \in Int /\ f[x] >= 0,
         NEW y \in S
  PROVE  f[y] <= Total(f, S)
<1>1. Total(f, S) = f[y] + Total(f, S \ {y})
  BY TotalRemove
<1>2. Total(f, S \ {y}) >= 0
  BY TotalPart
<1>3. IsFiniteSet(S \ {y})
  BY FS_Subset
<1>4. Total(f, S \ {y}) \in Int
  BY <1>3, TotalInt
<1> QED
  BY <1>1, <1>2, <1>4
=============================================================================
