----------------------------- MODULE CoinProofs -----------------------------
(***************************************************************************)
(* The coin of a set of outputs: what CoinOf, a fold over the set, adds up *)
(* to.  The fold unfolds to a function that picks one output after the     *)
(* other; that there is such a function for a finite set, and that it does *)
(* not matter which it picks, takes induction.                             *)
(*                                                                         *)
(* The induction is over a set, of numbers or of outputs, in place of an   *)
(* operator, which no prover could instantiate: a set of natural numbers   *)
(* that are not in it has a least element.                                 *)
(***************************************************************************)
EXTENDS Ledger, FiniteSetTheorems, TLAPS

(* Induction over the natural numbers, for a set.                          *)
LEMMA InductionOverNat ==
  ASSUME NEW T, 0 \in T, \A n \in Nat : n \in T => n + 1 \in T
  PROVE  Nat \subseteq T
<1> SUFFICES ASSUME Nat \ T # {} PROVE FALSE
  OBVIOUS
<1>1. PICK n \in Nat \ T : \A m \in Nat \ T : <<m, n>> \notin OpToRel(<, Nat)
  <2> HIDE DEF OpToRel
  <2>1. Nat \ T \subseteq Nat
    OBVIOUS
  <2> QED
    BY <2>1, NatLessThanWellFounded, WFMin
<1>2. \A m \in Nat \ T : ~(m < n)
  BY <1>1 DEF OpToRel
<1>3. n # 0 /\ n - 1 \in Nat
  OBVIOUS
<1>4. n - 1 \in T
  BY <1>2, <1>3
<1> QED
  BY <1>3, <1>4

(* Induction over the subsets of a finite set, for a set of them.          *)
LEMMA InductionOverSets ==
  ASSUME NEW S, IsFiniteSet(S), NEW T, {} \in T,
         \A U \in SUBSET S : \A x \in S \ U : U \in T => U \cup {x} \in T
  PROVE  S \in T
<1> SUFFICES ASSUME S \notin T PROVE FALSE
  OBVIOUS
<1> DEFINE Bad == (SUBSET S) \ T
<1>1. PICK U \in Bad : \A V \in Bad : <<V, U>> \notin StrictSubsetOrdering(S)
  <2>1. Bad \subseteq FiniteSubsetsOf(S) /\ Bad # {}
    BY FS_FiniteSubsetsOfFinite
  <2> QED
    BY <2>1, FS_StrictSubsetOrderingWellFounded, WFMin
<1>2. \A V \in Bad : ~(V \subseteq U /\ V # U)
  BY <1>1 DEF StrictSubsetOrdering
<1>3. PICK x \in U : TRUE
  OBVIOUS
<1>4. U \ {x} \in T
  BY <1>2, <1>3
<1>5. (U \ {x}) \cup {x} = U
  BY <1>3
<1> QED
  BY <1>3, <1>4, <1>5

-----------------------------------------------------------------------------

(* Outputs hold whole numbers of coin.                                     *)
Coins(S) == \A u \in S : u.coin \in Int

(* The element that the fold takes first.                                  *)
Pick(s) == CHOOSE x \in s : TRUE

(* The recursion that CoinOf unfolds to.                                   *)
IsSum(f, S) ==
  f = [s \in SUBSET S |-> IF s = {} THEN 0 ELSE Pick(s).coin + f[s \ {Pick(s)}]]

(* That is what CoinOf is.                                                 *)
LEMMA CoinOfUnfolded ==
  ASSUME NEW S
  PROVE  CoinOf(S) = (CHOOSE f : IsSum(f, S))[S]
BY Zenon DEF CoinOf, MapThenSumSet, MapThenFoldSet, IsSum, Pick

(* The recursion as far as to sets of n elements.                          *)
IsSumTo(f, S, n) ==
  /\ f = [s \in SUBSET S |-> f[s]]
  /\ \A s \in SUBSET S : Cardinality(s) <= n =>
       f[s] = IF s = {} THEN 0 ELSE Pick(s).coin + f[s \ {Pick(s)}]

(* What is picked is there.                                                *)
LEMMA PickIn ==
  ASSUME NEW s, s # {}
  PROVE  Pick(s) \in s
BY DEF Pick

(* The recursion goes on from sets of n elements to those of one more.     *)
LEMMA SumsGoOn ==
  ASSUME NEW S, IsFiniteSet(S), NEW n \in Nat, NEW f, IsSumTo(f, S, n)
  PROVE  \E g : IsSumTo(g, S, n + 1)
<1> DEFINE g == [s \in SUBSET S |-> IF Cardinality(s) <= n THEN f[s]
                                    ELSE Pick(s).coin + f[s \ {Pick(s)}]]
<1>1. \A s \in SUBSET S : IsFiniteSet(s) /\ Cardinality(s) \in Nat
  BY FS_Subset, FS_CardinalityType
<1>2. ASSUME NEW s \in SUBSET S, Cardinality(s) <= n + 1
      PROVE  g[s] = IF s = {} THEN 0 ELSE Pick(s).coin + g[s \ {Pick(s)}]
  <2>1. CASE s = {}
    <3>1. Cardinality(s) = 0
      BY <2>1, FS_EmptySet
    <3>2. Cardinality(s) <= n
      BY <3>1
    <3>3. g[s] = f[s]
      BY <3>2
    <3>4. f[s] = 0
      BY <2>1, <3>2 DEF IsSumTo
    <3> QED
      BY <2>1, <3>3, <3>4
  <2>2. CASE s # {}
    <3> DEFINE r == s \ {Pick(s)}
    <3>1. r \in SUBSET S /\ Cardinality(r) = Cardinality(s) - 1
      <4>1. IsFiniteSet(s) /\ Pick(s) \in s
        BY <1>1, <2>2, PickIn
      <4> HIDE DEF Pick
      <4> QED
        BY <4>1, FS_RemoveElement
    <3>2. Cardinality(r) <= n
      BY <1>1, <1>2, <3>1
    <3>3. g[r] = f[r]
      BY <3>1, <3>2
    <3>4. g[s] = Pick(s).coin + f[r]
      <4>1. Cardinality(s) <= n => f[s] = Pick(s).coin + f[r]
        BY <2>2 DEF IsSumTo
      <4> QED
        BY <4>1
    <3> QED
      BY <2>2, <3>3, <3>4
  <2> QED
    BY <2>1, <2>2
<1>3. g = [s \in SUBSET S |-> g[s]]
  OBVIOUS
<1> QED
  BY <1>2, <1>3 DEF IsSumTo

(* So there is a function that solves it for all subsets.                  *)
LEMMA SumExists ==
  ASSUME NEW S, IsFiniteSet(S)
  PROVE  \E f : IsSum(f, S)
<1> DEFINE T == {n \in Nat : \E f : IsSumTo(f, S, n)}
<1>1. 0 \in T
  <2> DEFINE f == [s \in SUBSET S |-> 0]
  <2>1. ASSUME NEW s \in SUBSET S, Cardinality(s) <= 0
        PROVE  s = {}
    BY <2>1, FS_Subset, FS_CardinalityType, FS_EmptySet
  <2>2. IsSumTo(f, S, 0)
    BY <2>1 DEF IsSumTo
  <2> QED
    BY <2>2
<1>2. \A n \in Nat : n \in T => n + 1 \in T
  BY SumsGoOn
<1>3. Cardinality(S) \in Nat
  BY FS_CardinalityType
<1> HIDE DEF T
<1>4. Cardinality(S) \in T
  BY <1>1, <1>2, <1>3, InductionOverNat
<1>5. PICK f : IsSumTo(f, S, Cardinality(S))
  BY <1>4 DEF T
<1>6. \A s \in SUBSET S : Cardinality(s) <= Cardinality(S)
  BY FS_Subset
<1>7. \A s \in SUBSET S : f[s] = IF s = {} THEN 0 ELSE Pick(s).coin + f[s \ {Pick(s)}]
  BY <1>5, <1>6 DEF IsSumTo
<1>8. f = [s \in SUBSET S |-> f[s]]
  BY <1>5 DEF IsSumTo
<1>9. IsSum(f, S)
  BY <1>7, <1>8 DEF IsSum
<1> QED
  BY <1>9

(* ... and CoinOf is the value of one.                                     *)
LEMMA CoinOfFolds ==
  ASSUME NEW S, IsFiniteSet(S)
  PROVE  \E f : IsSum(f, S) /\ CoinOf(S) = f[S]
BY SumExists, CoinOfUnfolded

(* Two such functions agree where they are both defined.                   *)
LEMMA SumsAgree ==
  ASSUME NEW S, IsFiniteSet(S), NEW f, IsSum(f, S),
         NEW R, R \subseteq S, NEW g, IsSum(g, R)
  PROVE  f[R] = g[R]
<1> DEFINE T == {n \in Nat : \A s \in SUBSET R : Cardinality(s) <= n => f[s] = g[s]}
<1>1. \A s \in SUBSET R : IsFiniteSet(s) /\ Cardinality(s) \in Nat
  BY FS_Subset, FS_CardinalityType
<1>2. \A s \in SUBSET R : f[s] = IF s = {} THEN 0 ELSE Pick(s).coin + f[s \ {Pick(s)}]
  BY DEF IsSum
<1>3. \A s \in SUBSET R : g[s] = IF s = {} THEN 0 ELSE Pick(s).coin + g[s \ {Pick(s)}]
  BY DEF IsSum
<1>4. ASSUME NEW n \in Nat, NEW s \in SUBSET R, Cardinality(s) <= n,
             n = 0 \/ n - 1 \in T
      PROVE  f[s] = g[s]
  <2>1. CASE s = {}
    BY <1>2, <1>3, <2>1
  <2>2. CASE s # {}
    <3> DEFINE r == s \ {Pick(s)}
    <3>1. IsFiniteSet(s) /\ Pick(s) \in s
      BY <1>1, <2>2, PickIn
    <3> HIDE DEF Pick
    <3>2. r \in SUBSET R /\ Cardinality(r) = Cardinality(s) - 1
      BY <3>1, FS_RemoveElement
    <3>3. Cardinality(s) # 0
      BY <1>1, <2>2, FS_EmptySet
    <3>4. n - 1 \in T /\ Cardinality(r) <= n - 1
      BY <1>1, <1>4, <3>2, <3>3
    <3>5. f[r] = g[r]
      BY <3>2, <3>4
    <3> QED
      BY <1>2, <1>3, <2>2, <3>5
  <2> QED
    BY <2>1, <2>2
<1>5. 0 \in T
  BY <1>4
<1>6. \A n \in Nat : n \in T => n + 1 \in T
  <2> SUFFICES ASSUME NEW n \in Nat, n \in T
               PROVE  n + 1 \in T
    OBVIOUS
  <2>1. (n + 1) - 1 \in T
    OBVIOUS
  <2> QED
    BY <1>4, <2>1
<1> HIDE DEF T
<1>7. Cardinality(R) \in T
  BY <1>1, <1>5, <1>6, InductionOverNat
<1> QED
  BY <1>1, <1>7 DEF T

(* The part of such a function below a subset is one.                      *)
LEMMA CoinOfPart ==
  ASSUME NEW S, IsFiniteSet(S), NEW f, IsSum(f, S), NEW R \in SUBSET S
  PROVE  CoinOf(R) = f[R]
<1>1. IsFiniteSet(R)
  BY FS_Subset
<1>2. PICK g : IsSum(g, R) /\ CoinOf(R) = g[R]
  BY <1>1, CoinOfFolds
<1> QED
  BY <1>2, SumsAgree

(* CoinOf adds what is picked to the coin of the rest.                     *)
LEMMA CoinOfPick ==
  ASSUME NEW S, IsFiniteSet(S), S # {}
  PROVE  Pick(S) \in S /\ CoinOf(S) = Pick(S).coin + CoinOf(S \ {Pick(S)})
<1>1. PICK f : IsSum(f, S) /\ CoinOf(S) = f[S]
  BY CoinOfFolds
<1>2. f[S] = Pick(S).coin + f[S \ {Pick(S)}]
  BY <1>1 DEF IsSum
<1> QED
  BY <1>1, <1>2, CoinOfPart, PickIn

(* No outputs, no coin.                                                    *)
LEMMA CoinOfNone == CoinOf({}) = 0
<1>1. PICK f : IsSum(f, {}) /\ CoinOf({}) = f[{}]
  BY CoinOfFolds, FS_EmptySet
<1> QED
  BY <1>1 DEF IsSum

(* The coin of a finite set is a number.                                   *)
LEMMA CoinOfType ==
  ASSUME NEW S, IsFiniteSet(S), Coins(S)
  PROVE  CoinOf(S) \in Int
<1> DEFINE T == {n \in Nat : \A R \in SUBSET S : Cardinality(R) <= n => CoinOf(R) \in Int}
<1>1. \A R \in SUBSET S : IsFiniteSet(R) /\ Cardinality(R) \in Nat
  BY FS_Subset, FS_CardinalityType
<1>2. 0 \in T
  <2>1. \A R \in SUBSET S : Cardinality(R) <= 0 => R = {}
    BY <1>1, FS_EmptySet
  <2> QED
    BY <2>1, CoinOfNone
<1>3. \A n \in Nat : n \in T => n + 1 \in T
  <2> SUFFICES ASSUME NEW n \in T, NEW R \in SUBSET S, Cardinality(R) <= n + 1, R # {}
               PROVE  CoinOf(R) \in Int
    BY CoinOfNone
  <2> DEFINE Q == R \ {Pick(R)}
  <2>1. Pick(R) \in R /\ CoinOf(R) = Pick(R).coin + CoinOf(Q)
    BY <1>1, CoinOfPick
  <2> HIDE DEF Pick
  <2>2. Q \in SUBSET S /\ Cardinality(Q) = Cardinality(R) - 1
    BY <1>1, <2>1, FS_RemoveElement
  <2>3. Cardinality(Q) <= n
    BY <1>1, <2>2
  <2>4. CoinOf(Q) \in Int /\ Pick(R).coin \in Int
    BY <2>1, <2>2, <2>3 DEF Coins
  <2> QED
    BY <2>1, <2>4
<1> HIDE DEF T
<1>4. Cardinality(S) \in T
  BY <1>1, <1>2, <1>3, InductionOverNat
<1> QED
  BY <1>1, <1>4 DEF T

(* The order does not matter: any element may be taken first.              *)
LEMMA CoinOfTake ==
  ASSUME NEW S, IsFiniteSet(S), Coins(S), NEW x \in S
  PROVE  CoinOf(S) = x.coin + CoinOf(S \ {x})
<1> DEFINE Takes(R, y) == CoinOf(R) = y.coin + CoinOf(R \ {y})
<1> DEFINE T == {n \in Nat : \A R \in SUBSET S : \A y \in R :
                   Cardinality(R) <= n => Takes(R, y)}
<1>1. \A R \in SUBSET S : /\ IsFiniteSet(R) /\ Cardinality(R) \in Nat
                           /\ CoinOf(R) \in Int
  BY FS_Subset, FS_CardinalityType, CoinOfType DEF Coins
<1>2. 0 \in T
  BY <1>1, FS_EmptySet
<1>3. \A n \in Nat : n \in T => n + 1 \in T
  <2> SUFFICES ASSUME NEW n \in T, NEW R \in SUBSET S, NEW y \in R,
                      Cardinality(R) <= n + 1
               PROVE  Takes(R, y)
    OBVIOUS
  <2> DEFINE p == Pick(R)
  <2>1. p \in R /\ Takes(R, p)
    BY <1>1, CoinOfPick
  <2> HIDE DEF p
  <2>2. \A q \in R : Cardinality(R \ {q}) <= n
    BY <1>1, FS_RemoveElement
  <2>3. CASE y = p
    BY <2>1, <2>3
  <2>4. CASE y # p
    <3>1. Takes(R \ {p}, y) /\ Takes(R \ {y}, p)
      BY <2>1, <2>2, <2>4
    <3>2. (R \ {p}) \ {y} = (R \ {y}) \ {p}
      OBVIOUS
    <3>3. CoinOf((R \ {p}) \ {y}) \in Int /\ p.coin \in Int /\ y.coin \in Int
      BY <1>1, <2>1 DEF Coins
    <3> QED
      BY <2>1, <3>1, <3>2, <3>3
  <2> QED
    BY <2>3, <2>4
<1> HIDE DEF T
<1>4. Cardinality(S) \in T
  BY <1>1, <1>2, <1>3, InductionOverNat
<1> QED
  BY <1>1, <1>4 DEF T

(* One more output adds its coin.                                          *)
LEMMA CoinOfAdd ==
  ASSUME NEW S, IsFiniteSet(S), Coins(S), NEW x, x \notin S, x.coin \in Int
  PROVE  CoinOf(S \cup {x}) = CoinOf(S) + x.coin
<1>1. IsFiniteSet(S \cup {x}) /\ Coins(S \cup {x})
  BY FS_AddElement DEF Coins
<1>2. (S \cup {x}) \ {x} = S
  OBVIOUS
<1>3. CoinOf(S \cup {x}) = x.coin + CoinOf(S)
  BY <1>1, <1>2, CoinOfTake
<1>4. CoinOf(S) \in Int
  BY CoinOfType
<1> QED
  BY <1>3, <1>4

(* The coin of one output.                                                 *)
LEMMA CoinOfOne ==
  ASSUME NEW x, x.coin \in Int
  PROVE  CoinOf({x}) = x.coin
<1>1. CoinOf({} \cup {x}) = CoinOf({}) + x.coin
  BY FS_EmptySet, CoinOfAdd DEF Coins
<1>2. {} \cup {x} = {x}
  OBVIOUS
<1> QED
  BY <1>1, <1>2, CoinOfNone

(* The coin of two sets of outputs together.                               *)
LEMMA CoinOfUnion ==
  ASSUME NEW R, IsFiniteSet(R), Coins(R), NEW S, IsFiniteSet(S), Coins(S),
         R \cap S = {}
  PROVE  CoinOf(R \cup S) = CoinOf(R) + CoinOf(S)
<1> DEFINE T == {U \in SUBSET S : CoinOf(R \cup U) = CoinOf(R) + CoinOf(U)}
<1>1. {} \in T
  <2>1. R \cup {} = R /\ CoinOf(R) \in Int
    BY CoinOfType
  <2> QED
    BY <2>1, CoinOfNone
<1>2. ASSUME NEW U \in SUBSET S, NEW x \in S \ U, U \in T
      PROVE  U \cup {x} \in T
  <2>1. /\ IsFiniteSet(U) /\ Coins(U) /\ x.coin \in Int
        /\ IsFiniteSet(R \cup U) /\ Coins(R \cup U) /\ x \notin R \cup U
    BY FS_Subset, FS_Union DEF Coins
  <2>2. R \cup (U \cup {x}) = (R \cup U) \cup {x}
    OBVIOUS
  <2>3. CoinOf(R \cup (U \cup {x})) = CoinOf(R \cup U) + x.coin
    BY <2>1, <2>2, CoinOfAdd
  <2>4. CoinOf(U \cup {x}) = CoinOf(U) + x.coin
    BY <2>1, CoinOfAdd
  <2>5. CoinOf(R) \in Int /\ CoinOf(U) \in Int
    BY <2>1, CoinOfType
  <2> QED
    BY <1>2, <2>1, <2>3, <2>4, <2>5
<1> HIDE DEF T
<1>3. S \in T
  BY <1>1, <1>2, InductionOverSets
<1> QED
  BY <1>3 DEF T

(* Coin that is not negative adds up to as much.                           *)
LEMMA CoinOfNat ==
  ASSUME NEW S, IsFiniteSet(S), \A u \in S : u.coin \in Nat
  PROVE  CoinOf(S) \in Nat
<1> DEFINE T == {U \in SUBSET S : CoinOf(U) \in Nat}
<1>1. {} \in T
  BY CoinOfNone
<1>2. ASSUME NEW U \in SUBSET S, NEW x \in S \ U, U \in T
      PROVE  U \cup {x} \in T
  <2>1. IsFiniteSet(U) /\ Coins(U) /\ x.coin \in Nat
    BY FS_Subset DEF Coins
  <2>2. CoinOf(U \cup {x}) = CoinOf(U) + x.coin
    BY <2>1, CoinOfAdd
  <2> QED
    BY <1>2, <2>1, <2>2
<1> HIDE DEF T
<1>3. S \in T
  BY <1>1, <1>2, InductionOverSets
<1> QED
  BY <1>3 DEF T

(* A part of some outputs has no more coin than all of them.               *)
LEMMA CoinOfLess ==
  ASSUME NEW S, IsFiniteSet(S), \A u \in S : u.coin \in Nat, NEW R \in SUBSET S
  PROVE  CoinOf(R) <= CoinOf(S)
<1> DEFINE Q == S \ R
<1>1. /\ IsFiniteSet(R) /\ IsFiniteSet(Q) /\ R \cap Q = {} /\ R \cup Q = S
      /\ Coins(R) /\ Coins(Q)
  BY FS_Subset DEF Coins
<1>2. CoinOf(R) \in Nat /\ CoinOf(Q) \in Nat
  BY <1>1, CoinOfNat
<1> HIDE DEF Q
<1>3. CoinOf(S) = CoinOf(R) + CoinOf(Q)
  BY <1>1, CoinOfUnion
<1> QED
  BY <1>2, <1>3

(* ... and neither has one of them.                                        *)
LEMMA CoinOfMember ==
  ASSUME NEW S, IsFiniteSet(S), \A u \in S : u.coin \in Nat, NEW x \in S
  PROVE  x.coin <= CoinOf(S)
<1>1. CoinOf({x}) = x.coin
  BY CoinOfOne
<1> QED
  BY <1>1, CoinOfLess
-----------------------------------------------------------------------------

(* The least of two numbers.                                               *)
LEMMA MinOfTwo ==
  ASSUME NEW m \in Int, NEW n \in Int
  PROVE  Min({m, n}) \in {m, n} /\ Min({m, n}) <= m /\ Min({m, n}) <= n
<1>1. CASE m <= n
  BY <1>1 DEF Min
<1>2. CASE n <= m
  BY <1>2 DEF Min
<1> QED
  BY <1>1, <1>2

(* The greatest of two numbers.                                            *)
LEMMA MaxOfTwo ==
  ASSUME NEW m \in Int, NEW n \in Int
  PROVE  Max({m, n}) \in {m, n} /\ Max({m, n}) >= m /\ Max({m, n}) >= n
<1>1. CASE m >= n
  BY <1>1 DEF Max
<1>2. CASE n >= m
  BY <1>2 DEF Max
<1> QED
  BY <1>1, <1>2

(* What is not negative of a number, and of it no more than m.             *)
LEMMA Capped ==
  ASSUME NEW m \in Nat, NEW c \in Int
  PROVE  /\ Max({0, c}) \in Nat /\ c <= Max({0, c}) /\ Max({0, c}) \in {0, c}
         /\ Max({0, Min({m, c})}) \in Nat
         /\ Max({0, Min({m, c})}) <= m
         /\ Max({0, Min({m, c})}) <= Max({0, c})
         /\ c <= m => Max({0, Min({m, c})}) = Max({0, c})
<1> DEFINE least == Min({m, c})
<1>1. 0 \in Int /\ m \in Int
  OBVIOUS
<1>2. least \in {m, c} /\ least <= m /\ least <= c
  BY <1>1, MinOfTwo, Zenon
<1> HIDE DEF least
<1>3. least \in Int
  BY <1>2
<1>4. Max({0, least}) \in {0, least} /\ Max({0, least}) >= 0 /\ Max({0, least}) >= least
  BY <1>1, <1>3, MaxOfTwo, Zenon
<1>5. Max({0, c}) \in {0, c} /\ Max({0, c}) >= 0 /\ Max({0, c}) >= c
  BY <1>1, MaxOfTwo, Zenon
<1>6. c <= m => least = c
  BY <1>2
<1> HIDE DEF least
<1>7. Max({0, least}) <= m /\ Max({0, least}) \in Nat
  BY <1>2, <1>3, <1>4
<1>8. Max({0, least}) <= Max({0, c}) /\ Max({0, c}) \in Nat
  BY <1>2, <1>3, <1>4, <1>5
<1> QED
  BY <1>5, <1>6, <1>7, <1>8 DEF least

(* The more the number, the more is left of it.                            *)
LEMMA CappedGrows ==
  ASSUME NEW m \in Nat, NEW c \in Int, NEW d \in Int, c <= m, c <= d
  PROVE  Max({0, c}) <= Max({0, Min({m, d})})
<1> DEFINE least == Min({m, d})
<1>1. 0 \in Int /\ m \in Int
  OBVIOUS
<1>2. least \in {m, d}
  BY <1>1, MinOfTwo, Zenon
<1> HIDE DEF least
<1>3. least \in Int /\ c <= least
  BY <1>2
<1>4. Max({0, least}) \in {0, least} /\ Max({0, least}) >= 0 /\ Max({0, least}) >= least
  BY <1>1, <1>3, MaxOfTwo, Zenon
<1>5. Max({0, c}) \in {0, c}
  BY <1>1, MaxOfTwo, Zenon
<1>6. Max({0, c}) <= Max({0, least})
  BY <1>3, <1>4, <1>5
<1> QED
  BY <1>6 DEF least
=============================================================================
