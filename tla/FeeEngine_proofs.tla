-------------------------- MODULE FeeEngine_proofs --------------------------
(***************************************************************************)
(* The fee engine, for any number of participants, any amounts, sizes and  *)
(* rates: the shares add up to the fee, nobody who can be given change     *)
(* back loses more than dust, the transaction never collects more than the *)
(* shares, folded change and dust, lacks a sat at most, and is short of    *)
(* its rate by an output per payer at most.                                *)
(*                                                                         *)
(* The invariant FeeInv says what each step from the shares to the         *)
(* transaction relies on; what carries it are facts about sums over any    *)
(* finite set of participants.                                             *)
(***************************************************************************)
EXTENDS FeeEngine, FiniteSetTheorems, WellFoundedInduction, TLAPS

-----------------------------------------------------------------------------
(***************************************************************************)
(* Arithmetic, in the form the proofs need.                                *)
(***************************************************************************)

\* Products distribute, and keep the order.
LEMMA Arithmetic ==
  ASSUME NEW a \in Int, NEW b \in Int, NEW c \in Int
  PROVE  /\ a * b \in Int /\ a * b = b * a
         /\ a * (b + c) = a * b + a * c
         /\ a * (b - c) = a * b - a * c
         /\ a * (b - 1) = a * b - a
         /\ a >= 0 /\ b <= c => a * b <= a * c
         /\ a > 0 /\ a * b <= a * c => b <= c
         /\ a >= 0 /\ b >= 0 => a * b >= 0
  OBVIOUS

\* Division with remainder.
LEMMA Division ==
  ASSUME NEW a \in Nat, NEW b \in Nat \ {0}
  PROVE  /\ a \div b \in Nat
         /\ (a \div b) * b <= a
         /\ a < (a \div b) * b + b
  OBVIOUS

-----------------------------------------------------------------------------
(***************************************************************************)
(* Sums over finite sets.  SumFunctionOnSet folds along a CHOOSE; that it  *)
(* is the sum, in whatever order, takes inductions, and the induction      *)
(* theorems of the library have an operator as a parameter.  SetInduction  *)
(* is one with a set in its place, from the well-foundedness of strict     *)
(* inclusion, so that what follows can be cited for any function and set.  *)
(***************************************************************************)

\* What passes from all smaller sets to a set holds of every subset.
LEMMA SetInduction ==
  ASSUME NEW S, IsFiniteSet(S), NEW T \in SUBSET (SUBSET S),
         \A s \in SUBSET S : (\A u \in SUBSET s : u # s => u \in T) => s \in T
  PROVE  T = SUBSET S
<1>1. IsWellFoundedOn(StrictSubsetOrdering(S), SUBSET S)
  BY FS_StrictSubsetOrderingWellFounded, FS_FiniteSubsetsOfFinite
<1> DEFINE R == StrictSubsetOrdering(S)
           W == SUBSET S
           Bad == W \ T
<1> SUFFICES ASSUME Bad # {} PROVE FALSE
  OBVIOUS
<1>2. \E x \in Bad : \A y \in Bad : ~(<<y, x>> \in R)
  <2>1. IsWellFoundedOn(R, W) /\ Bad \subseteq W
    BY <1>1
  <2> HIDE DEF Bad, R, W
  <2> QED
    BY <2>1, WFMin
<1>3. PICK x \in Bad : \A y \in Bad : <<y, x>> \notin R
  BY <1>2
<1>4. \A u \in SUBSET x : u # x => u \in T
  BY <1>3 DEF StrictSubsetOrdering
<1> QED
  BY <1>3, <1>4

\* The element the fold takes first.
Pick(s) == CHOOSE x \in s : TRUE

\* It is one of them.
LEMMA PickIn ==
  ASSUME NEW s, s # {}
  PROVE  Pick(s) \in s
  BY DEF Pick

\* The recursive function inside MapThenFoldSet, for the sum of f over S.
IsFold(f, S, g) ==
  g = [t \in SUBSET S |-> IF t = {} THEN 0 ELSE f[Pick(t)] + g[t \ {Pick(t)}]]
FoldOf(f, S) == CHOOSE g : IsFold(f, S, g)

\* The sum is the fold's value on the whole set.
LEMMA SumIsFold ==
  ASSUME NEW f, NEW S
  PROVE  SumFunctionOnSet(f, S) = FoldOf(f, S)[S]
  BY Zenon DEF SumFunctionOnSet, FoldFunctionOnSet, MapThenFoldSet, FoldOf, IsFold, Pick

\* Folds agree where both are defined.
LEMMA FoldUnique ==
  ASSUME NEW f, NEW S, IsFiniteSet(S), NEW U, S \subseteq U,
         NEW g, NEW h, IsFold(f, S, g), IsFold(f, U, h)
  PROVE  \A s \in SUBSET S : g[s] = h[s]
<1> DEFINE T == {s \in SUBSET S : g[s] = h[s]}
<1>1. ASSUME NEW s \in SUBSET S, \A u \in SUBSET s : u # s => u \in T
      PROVE  s \in T
  <2>1. g[s] = (IF s = {} THEN 0 ELSE f[Pick(s)] + g[s \ {Pick(s)}])
    BY DEF IsFold
  <2>2. h[s] = (IF s = {} THEN 0 ELSE f[Pick(s)] + h[s \ {Pick(s)}])
    BY DEF IsFold
  <2>3. s # {} => s \ {Pick(s)} \in T
    BY <1>1, PickIn
  <2> QED
    BY <2>1, <2>2, <2>3
<1>2. T = SUBSET S
  <2>1. T \in SUBSET (SUBSET S)
    OBVIOUS
  <2> HIDE DEF T
  <2> QED
    BY <1>1, <2>1, SetInduction
<1> QED
  BY <1>2

\* There is a fold on every finite set.
LEMMA FoldExists ==
  ASSUME NEW f, NEW S, IsFiniteSet(S)
  PROVE  \A s \in SUBSET S : IsFold(f, s, FoldOf(f, s))
<1> DEFINE T == {s \in SUBSET S : IsFold(f, s, FoldOf(f, s))}
<1>1. ASSUME NEW s \in SUBSET S, \A u \in SUBSET s : u # s => u \in T
      PROVE  s \in T
  <2> DEFINE g == [t \in SUBSET s |-> IF t = {} THEN 0
                     ELSE f[Pick(t)] + FoldOf(f, t \ {Pick(t)})[t \ {Pick(t)}]]
  <2>1. ASSUME NEW t \in SUBSET s, t # {}
        PROVE  g[t \ {Pick(t)}] = FoldOf(f, t \ {Pick(t)})[t \ {Pick(t)}]
    <3> DEFINE u == t \ {Pick(t)}
               v == u \ {Pick(u)}
    <3>1. u \in T /\ u \in SUBSET s /\ u # s
      BY <1>1, <2>1, PickIn
    <3>2. IsFold(f, u, FoldOf(f, u))
      BY <3>1
    <3>3. FoldOf(f, u)[u] = IF u = {} THEN 0 ELSE f[Pick(u)] + FoldOf(f, u)[v]
      BY <3>2 DEF IsFold
    <3>4. g[u] = IF u = {} THEN 0 ELSE f[Pick(u)] + FoldOf(f, v)[v]
      BY <3>1
    <3>5. ASSUME u # {} PROVE FoldOf(f, u)[v] = FoldOf(f, v)[v]
      <4>1. v \in SUBSET s /\ v # s /\ v \subseteq u
        BY <3>1
      <4>2. IsFold(f, v, FoldOf(f, v))
        BY <4>1, <1>1
      <4>3. IsFiniteSet(v)
        BY <4>1, FS_Subset
      <4> HIDE DEF u, v
      <4>4. \A w \in SUBSET v : FoldOf(f, v)[w] = FoldOf(f, u)[w]
        BY <4>1, <4>2, <4>3, <3>2, FoldUnique
      <4> QED
        BY <4>4
    <3> QED
      BY <3>3, <3>4, <3>5
  <2>2. \A t \in SUBSET s : g[t] = IF t = {} THEN 0 ELSE f[Pick(t)] + g[t \ {Pick(t)}]
    BY <2>1
  <2>3. IsFold(f, s, g)
    BY <2>2, Zenon DEF IsFold
  <2> HIDE DEF g
  <2>4. IsFold(f, s, FoldOf(f, s))
    BY <2>3, Zenon DEF FoldOf
  <2> QED
    BY <2>4
<1>2. T = SUBSET S
  <2>1. T \in SUBSET (SUBSET S)
    OBVIOUS
  <2> HIDE DEF T
  <2> QED
    BY <1>1, <2>1, SetInduction
<1> QED
  BY <1>2

\* The equation of a sum: nothing is nothing, and one element comes first.
LEMMA SumEquation ==
  ASSUME NEW f, NEW S, IsFiniteSet(S)
  PROVE  /\ S = {} => SumFunctionOnSet(f, S) = 0
         /\ S # {} => SumFunctionOnSet(f, S) = f[Pick(S)] + SumFunctionOnSet(f, S \ {Pick(S)})
<1> DEFINE U == S \ {Pick(S)}
<1>1. U \in SUBSET S /\ S \in SUBSET S /\ IsFiniteSet(U)
  BY FS_Subset
<1>2. \A s \in SUBSET S : IsFold(f, s, FoldOf(f, s))
  BY FoldExists
<1>3. FoldOf(f, S)[S] = IF S = {} THEN 0 ELSE f[Pick(S)] + FoldOf(f, S)[U]
  <2>1. IsFold(f, S, FoldOf(f, S))
    BY <1>1, <1>2
  <2> QED
    BY <2>1 DEF IsFold
<1>4. FoldOf(f, U)[U] = FoldOf(f, S)[U]
  <2> HIDE DEF U
  <2>1. IsFiniteSet(U)
    BY <1>1
  <2>2. U \subseteq S
    BY <1>1
  <2>3. IsFold(f, U, FoldOf(f, U))
    BY <1>1, <1>2
  <2>4. IsFold(f, S, FoldOf(f, S))
    BY <1>1, <1>2
  <2> DEFINE g == FoldOf(f, U)
             h == FoldOf(f, S)
  <2> HIDE DEF g, h
  <2>5. IsFold(f, U, g) /\ IsFold(f, S, h)
    BY <2>3, <2>4 DEF g, h
  <2>6. \A w \in SUBSET U : g[w] = h[w]
    BY <2>1, <2>2, <2>5, FoldUnique
  <2> QED
    BY <2>6 DEF g, h
<1>5. /\ SumFunctionOnSet(f, S) = FoldOf(f, S)[S]
      /\ SumFunctionOnSet(f, U) = FoldOf(f, U)[U]
  BY SumIsFold
<1> HIDE DEF U
<1>6. S = {} => SumFunctionOnSet(f, S) = 0
  BY <1>3, <1>5
<1>7. S # {} => SumFunctionOnSet(f, S) = f[Pick(S)] + SumFunctionOnSet(f, U)
  BY <1>3, <1>4, <1>5
<1> QED
  BY <1>6, <1>7 DEF U

\* The sum of nothing is zero.
LEMMA SumEmpty ==
  ASSUME NEW f
  PROVE  SumFunctionOnSet(f, {}) = 0
  BY SumEquation, FS_EmptySet

\* Any element may come first; the sum of integers is one.
LEMMA SumTakes ==
  ASSUME NEW f, NEW S, IsFiniteSet(S), \A i \in S : f[i] \in Int
  PROVE  /\ SumFunctionOnSet(f, S) \in Int
         /\ \A x \in S : SumFunctionOnSet(f, S) = f[x] + SumFunctionOnSet(f, S \ {x})
<1> DEFINE Takes(s) == /\ SumFunctionOnSet(f, s) \in Int
                       /\ \A x \in s : SumFunctionOnSet(f, s) = f[x] + SumFunctionOnSet(f, s \ {x})
           T == {s \in SUBSET S : Takes(s)}
<1>1. ASSUME NEW s \in SUBSET S, \A u \in SUBSET s : u # s => u \in T
      PROVE  s \in T
  <2>0. IsFiniteSet(s)
    BY FS_Subset
  <2>1. CASE s = {}
    BY <2>1, SumEmpty
  <2>2. CASE s # {}
    <3> DEFINE c == Pick(s)
    <3>1. c \in s /\ f[c] \in Int
      BY <2>2, PickIn
    <3>2. SumFunctionOnSet(f, s) = f[c] + SumFunctionOnSet(f, s \ {c})
      BY <2>0, <2>2, SumEquation
    <3> HIDE DEF c
    <3>3. Takes(s \ {c})
      BY <3>1, <1>1
    <3>4. ASSUME NEW x \in s, x # c
          PROVE  SumFunctionOnSet(f, s) = f[x] + SumFunctionOnSet(f, s \ {x})
      <4>1. Takes(s \ {x}) /\ Takes((s \ {c}) \ {x})
        BY <1>1, <3>1, <3>4
      <4>2. (s \ {c}) \ {x} = (s \ {x}) \ {c}
        OBVIOUS
      <4>3. SumFunctionOnSet(f, s \ {c}) = f[x] + SumFunctionOnSet(f, (s \ {c}) \ {x})
        BY <3>3, <3>4
      <4>4. SumFunctionOnSet(f, s \ {x}) = f[c] + SumFunctionOnSet(f, (s \ {c}) \ {x})
        BY <4>1, <4>2, <3>1, <3>4
      <4>5. f[x] \in Int /\ SumFunctionOnSet(f, (s \ {c}) \ {x}) \in Int
        BY <3>4, <4>1
      <4> QED
        BY <3>1, <3>2, <4>3, <4>4, <4>5
    <3>5. SumFunctionOnSet(f, s) \in Int
      BY <3>1, <3>2, <3>3
    <3> QED
      BY <3>2, <3>4, <3>5
  <2> QED
    BY <2>1, <2>2
<1>2. T = SUBSET S
  <2>1. T \in SUBSET (SUBSET S)
    OBVIOUS
  <2> HIDE DEF T
  <2> QED
    BY <1>1, <2>1, SetInduction
<1> QED
  BY <1>2

\* The sum is linear.
LEMMA SumLinear ==
  ASSUME NEW f, NEW g, NEW h, NEW a \in Int, NEW b \in Int, NEW S, IsFiniteSet(S),
         \A i \in S : f[i] \in Int /\ g[i] \in Int,
         \A i \in S : h[i] = a * f[i] + b * g[i]
  PROVE  SumFunctionOnSet(h, S) = a * SumFunctionOnSet(f, S) + b * SumFunctionOnSet(g, S)
<1> DEFINE T == {s \in SUBSET S : SumFunctionOnSet(h, s)
                  = a * SumFunctionOnSet(f, s) + b * SumFunctionOnSet(g, s)}
<1>1. ASSUME NEW s \in SUBSET S, \A u \in SUBSET s : u # s => u \in T
      PROVE  s \in T
  <2>0. IsFiniteSet(s) /\ \A i \in s : h[i] \in Int
    BY FS_Subset
  <2>1. CASE s = {}
    BY <2>1, SumEmpty
  <2>2. CASE s # {}
    <3>1. PICK x \in s : TRUE
      BY <2>2
    <3>2. s \ {x} \in T
      BY <3>1, <1>1
    <3>3. /\ SumFunctionOnSet(f, s) = f[x] + SumFunctionOnSet(f, s \ {x})
          /\ SumFunctionOnSet(g, s) = g[x] + SumFunctionOnSet(g, s \ {x})
          /\ SumFunctionOnSet(h, s) = h[x] + SumFunctionOnSet(h, s \ {x})
      BY <2>0, <3>1, SumTakes
    <3>4. /\ SumFunctionOnSet(f, s \ {x}) \in Int /\ SumFunctionOnSet(g, s \ {x}) \in Int
          /\ f[x] \in Int /\ g[x] \in Int
      <4>1. IsFiniteSet(s \ {x})
        BY <2>0, FS_Subset
      <4> QED
        BY <4>1, <3>1, SumTakes
    <3>5. /\ a * (f[x] + SumFunctionOnSet(f, s \ {x})) = a * f[x] + a * SumFunctionOnSet(f, s \ {x})
          /\ b * (g[x] + SumFunctionOnSet(g, s \ {x})) = b * g[x] + b * SumFunctionOnSet(g, s \ {x})
      BY <3>4
    <3>6. SumFunctionOnSet(h, s \ {x})
            = a * SumFunctionOnSet(f, s \ {x}) + b * SumFunctionOnSet(g, s \ {x})
      BY <3>2
    <3>7. h[x] = a * f[x] + b * g[x]
      BY <3>1
    <3>8. SumFunctionOnSet(h, s) = a * SumFunctionOnSet(f, s) + b * SumFunctionOnSet(g, s)
      BY <3>3, <3>4, <3>5, <3>6, <3>7
    <3> QED
      BY <3>8
  <2> QED
    BY <2>1, <2>2
<1>2. T = SUBSET S
  <2>1. T \in SUBSET (SUBSET S)
    OBVIOUS
  <2> HIDE DEF T
  <2> QED
    BY <1>1, <2>1, SetInduction
<1> QED
  BY <1>2

\* A sum of larger terms is no smaller.
LEMMA SumLeq ==
  ASSUME NEW f, NEW g, NEW S, IsFiniteSet(S),
         \A i \in S : f[i] \in Int /\ g[i] \in Int /\ f[i] <= g[i]
  PROVE  SumFunctionOnSet(f, S) <= SumFunctionOnSet(g, S)
<1> DEFINE T == {s \in SUBSET S : SumFunctionOnSet(f, s) <= SumFunctionOnSet(g, s)}
<1>1. ASSUME NEW s \in SUBSET S, \A u \in SUBSET s : u # s => u \in T
      PROVE  s \in T
  <2>0. IsFiniteSet(s)
    BY FS_Subset
  <2>1. CASE s = {}
    BY <2>1, SumEmpty
  <2>2. CASE s # {}
    <3>1. PICK x \in s : TRUE
      BY <2>2
    <3>2. s \ {x} \in T /\ IsFiniteSet(s \ {x})
      BY <2>0, <3>1, <1>1, FS_Subset
    <3>3. /\ SumFunctionOnSet(f, s) = f[x] + SumFunctionOnSet(f, s \ {x})
          /\ SumFunctionOnSet(g, s) = g[x] + SumFunctionOnSet(g, s \ {x})
      BY <2>0, <3>1, SumTakes
    <3>4. /\ SumFunctionOnSet(f, s \ {x}) \in Int /\ SumFunctionOnSet(g, s \ {x}) \in Int
          /\ f[x] \in Int /\ g[x] \in Int /\ f[x] <= g[x]
      BY <3>1, <3>2, SumTakes
    <3> QED
      BY <3>2, <3>3, <3>4
  <2> QED
    BY <2>1, <2>2
<1>2. T = SUBSET S
  <2>1. T \in SUBSET (SUBSET S)
    OBVIOUS
  <2> HIDE DEF T
  <2> QED
    BY <1>1, <2>1, SetInduction
<1> QED
  BY <1>2

\* Sums that agree term by term agree.
LEMMA SumSame ==
  ASSUME NEW f, NEW g, NEW S, IsFiniteSet(S), \A i \in S : f[i] \in Int /\ f[i] = g[i]
  PROVE  SumFunctionOnSet(f, S) = SumFunctionOnSet(g, S)
<1>1. /\ SumFunctionOnSet(f, S) \in Int /\ SumFunctionOnSet(g, S) \in Int
      /\ SumFunctionOnSet(f, S) <= SumFunctionOnSet(g, S)
      /\ SumFunctionOnSet(g, S) <= SumFunctionOnSet(f, S)
  BY SumTakes, SumLeq
<1> QED
  BY <1>1

\* Equal terms are counted.
LEMMA SumConstant ==
  ASSUME NEW f, NEW c \in Int, NEW S, IsFiniteSet(S), \A i \in S : f[i] = c
  PROVE  SumFunctionOnSet(f, S) = c * Cardinality(S)
<1> DEFINE T == {s \in SUBSET S : SumFunctionOnSet(f, s) = c * Cardinality(s)}
<1>1. ASSUME NEW s \in SUBSET S, \A u \in SUBSET s : u # s => u \in T
      PROVE  s \in T
  <2>0. IsFiniteSet(s)
    BY FS_Subset
  <2>1. CASE s = {}
    BY <2>1, SumEmpty, FS_EmptySet
  <2>2. CASE s # {}
    <3>1. PICK x \in s : TRUE
      BY <2>2
    <3>2. s \ {x} \in T
      BY <3>1, <1>1
    <3>3. SumFunctionOnSet(f, s) = c + SumFunctionOnSet(f, s \ {x})
      BY <2>0, <3>1, SumTakes
    <3>4. /\ Cardinality(s \ {x}) = Cardinality(s) - 1
          /\ Cardinality(s) \in Nat
      BY <2>0, <3>1, FS_RemoveElement, FS_CardinalityType
    <3> DEFINE n == Cardinality(s)
    <3>5. n \in Int /\ SumFunctionOnSet(f, s \ {x}) = c * (n - 1)
      BY <3>2, <3>4
    <3> HIDE DEF n
    <3>6. c * (n - 1) = c * n - c /\ c * n \in Int
      BY <3>5, Arithmetic
    <3>7. SumFunctionOnSet(f, s) = c * n
      BY <3>3, <3>5, <3>6
    <3> QED
      BY <3>7 DEF n
  <2> QED
    BY <2>1, <2>2
<1>2. T = SUBSET S
  <2>1. T \in SUBSET (SUBSET S)
    OBVIOUS
  <2> HIDE DEF T
  <2> QED
    BY <1>1, <2>1, SetInduction
<1> QED
  BY <1>2

\* The sum of natural numbers is one.
LEMMA SumNat ==
  ASSUME NEW f, NEW S, IsFiniteSet(S), \A i \in S : f[i] \in Nat
  PROVE  SumFunctionOnSet(f, S) \in Nat
<1> DEFINE z == [i \in S |-> 0]
<1>1. SumFunctionOnSet(z, S) = 0 * Cardinality(S)
  BY SumConstant
<1>2. SumFunctionOnSet(z, S) <= SumFunctionOnSet(f, S)
  BY SumLeq
<1>3. SumFunctionOnSet(f, S) \in Int /\ Cardinality(S) \in Nat
  BY SumTakes, FS_CardinalityType
<1> HIDE DEF z
<1> QED
  BY <1>1, <1>2, <1>3

\* Terms that are zero may be left out.
LEMMA SumOfSome ==
  ASSUME NEW f, NEW S, IsFiniteSet(S), NEW A \in SUBSET S,
         \A i \in S : f[i] \in Int, \A i \in S \ A : f[i] = 0
  PROVE  SumFunctionOnSet(f, S) = SumFunctionOnSet(f, A)
<1> DEFINE T == {s \in SUBSET S : SumFunctionOnSet(f, s) = SumFunctionOnSet(f, s \cap A)}
<1>1. ASSUME NEW s \in SUBSET S, \A u \in SUBSET s : u # s => u \in T
      PROVE  s \in T
  <2>0. IsFiniteSet(s) /\ IsFiniteSet(s \cap A)
    BY FS_Subset
  <2>1. CASE s \subseteq A
    <3>1. s \cap A = s
      BY <2>1
    <3> QED
      BY <3>1
  <2>2. CASE ~(s \subseteq A)
    <3>1. PICK x \in s : x \notin A
      BY <2>2
    <3>2. SumFunctionOnSet(f, s \ {x}) = SumFunctionOnSet(f, s \cap A)
      <4>1. s \ {x} \in T /\ (s \ {x}) \cap A = s \cap A
        BY <3>1, <1>1
      <4> QED
        BY <4>1
    <3>3. SumFunctionOnSet(f, s) = 0 + SumFunctionOnSet(f, s \ {x})
      BY <2>0, <3>1, SumTakes
    <3>4. SumFunctionOnSet(f, s \ {x}) \in Int
      BY <2>0, <3>1, SumTakes, FS_Subset
    <3>5. SumFunctionOnSet(f, s) = SumFunctionOnSet(f, s \cap A)
      BY <3>2, <3>3, <3>4
    <3> QED
      BY <3>5
  <2> QED
    BY <2>1, <2>2
<1>2. T = SUBSET S
  <2>1. T \in SUBSET (SUBSET S)
    OBVIOUS
  <2> HIDE DEF T
  <2> QED
    BY <1>1, <2>1, SetInduction
<1> QED
  <2>1. S \in T /\ S \cap A = A
    BY <1>2
  <2> QED
    BY <2>1

\* The sum of sums is the sum of the terms' sums.
LEMMA SumPlus ==
  ASSUME NEW f, NEW g, NEW h, NEW S, IsFiniteSet(S),
         \A i \in S : f[i] \in Int /\ g[i] \in Int /\ h[i] = f[i] + g[i]
  PROVE  SumFunctionOnSet(h, S) = SumFunctionOnSet(f, S) + SumFunctionOnSet(g, S)
<1>1. PICK a \in Int : a = 1
  OBVIOUS
<1>2. \A i \in S : f[i] \in Int /\ g[i] \in Int
  OBVIOUS
<1>3. \A i \in S : h[i] = a * f[i] + a * g[i]
  BY <1>1
<1>4. SumFunctionOnSet(h, S) = a * SumFunctionOnSet(f, S) + a * SumFunctionOnSet(g, S)
  BY <1>2, <1>3, SumLinear
<1>5. SumFunctionOnSet(f, S) \in Int /\ SumFunctionOnSet(g, S) \in Int
  BY <1>2, SumTakes
<1> QED
  BY <1>1, <1>4, <1>5

\* A common factor comes out of the sum.
LEMMA SumScale ==
  ASSUME NEW f, NEW h, NEW a \in Int, NEW S, IsFiniteSet(S),
         \A i \in S : f[i] \in Int /\ h[i] = a * f[i]
  PROVE  SumFunctionOnSet(h, S) = a * SumFunctionOnSet(f, S)
<1>1. PICK b \in Int : b = 0
  OBVIOUS
<1>2. \A i \in S : f[i] \in Int /\ f[i] \in Int
  OBVIOUS
<1>3. \A i \in S : h[i] = a * f[i] + b * f[i]
  <2>1. ASSUME NEW i \in S PROVE h[i] = a * f[i] + b * f[i]
    <3>1. h[i] = a * f[i] /\ f[i] \in Int
      BY <2>1
    <3>2. a * f[i] \in Int
      BY <3>1, Arithmetic
    <3>3. b * f[i] = 0
      BY <1>1, <3>1
    <3> QED
      BY <3>1, <3>2, <3>3
  <2> QED
    BY <2>1
<1>4. SumFunctionOnSet(h, S) = a * SumFunctionOnSet(f, S) + b * SumFunctionOnSet(f, S)
  BY <1>2, <1>3, SumLinear
<1>5. SumFunctionOnSet(f, S) \in Int
  BY <1>2, SumTakes
<1>6. a * SumFunctionOnSet(f, S) \in Int /\ b * SumFunctionOnSet(f, S) = 0
  BY <1>1, <1>5, Arithmetic
<1> QED
  BY <1>4, <1>6

-----------------------------------------------------------------------------
(***************************************************************************)
(* nc_output_plan, fees and weights.                                       *)
(***************************************************************************)

\* "NEVER burn an above-dust leftover when the participant gave us somewhere to
\* send it" (nc_output_plan): unless there is nothing at all, the outputs and the
\* share stay within the funds, fall short of them by less than dust, count a
\* mixed one, have no dust among them, and fit the addresses, but for change on
\* a single one.
THEOREM PlanSound ==
  ASSUME NEW nc \in Nat, NEW addrs \in Nat, NEW cost \in Nat,
         NEW plan, plan = Plan(nc, addrs, cost), plan # Nothing
  PROVE  /\ plan \in Layouts
         /\ plan.equal >= 1 /\ plan.equal <= addrs
         /\ plan.equal * Size + plan.sats + cost <= nc
         /\ nc < plan.equal * Size + plan.sats + cost + Dust
         /\ IF plan.change = 1 THEN plan.sats >= Dust ELSE plan.sats = 0
         /\ addrs >= 2 => plan.equal + plan.change <= addrs
<1> DEFINE left == nc - cost
           most == left \div Size
           equal == IF most < addrs THEN most ELSE addrs
           over == left - equal * Size
<1>s. Size \in Nat \ {0} /\ Dust \in Nat \ {0}
  BY FeeAssumption
<1>1. left > 0 /\ addrs > 0 /\ equal # 0
  BY DEF Plan
<1>2. left \in Nat /\ left = nc - cost
  BY <1>1
<1> HIDE DEF left
<1>3. most \in Nat /\ most * Size <= left /\ left < most * Size + Size
  BY <1>s, <1>2, Division
<1> HIDE DEF most
<1>4. equal \in Nat \ {0} /\ equal <= addrs
  BY <1>1, <1>3
<1>5. equal * Size <= left
  <2>1. equal <= most
    BY <1>3
  <2>2. Size * equal <= Size * most /\ Size * equal = equal * Size /\ Size * most = most * Size
    BY <2>1, <1>3, <1>4, <1>s, Arithmetic
  <2>3. equal * Size \in Int /\ most * Size \in Int
    BY <1>3, <1>4, <1>s, Arithmetic
  <2> QED
    BY <2>2, <2>3, <1>2, <1>3
<1>6. plan = IF over < Dust THEN [equal |-> equal, change |-> 0, sats |-> 0]
             ELSE IF equal = addrs /\ addrs >= 2
             THEN [equal |-> equal - 1, change |-> 1, sats |-> over + Size]
             ELSE [equal |-> equal, change |-> 1, sats |-> over]
  BY <1>1 DEF Plan, left, most
<1> HIDE DEF equal
<1>7. equal * Size \in Nat /\ (equal - 1) * Size = equal * Size - Size
  BY <1>4, <1>s, Arithmetic
<1>8. over \in Nat /\ over = left - equal * Size
  BY <1>2, <1>5, <1>7
<1> HIDE DEF over
<1>9. CASE over < Dust
  <2>1. plan = [equal |-> equal, change |-> 0, sats |-> 0]
    BY <1>6, <1>9
  <2> QED
    BY <2>1, <1>2, <1>4, <1>5, <1>7, <1>8, <1>9, <1>s DEF Layouts
<1>10. CASE over >= Dust /\ equal = addrs /\ addrs >= 2
  <2>1. plan = [equal |-> equal - 1, change |-> 1, sats |-> over + Size]
    BY <1>6, <1>8, <1>10, <1>s
  <2> QED
    BY <2>1, <1>2, <1>4, <1>5, <1>7, <1>8, <1>10, <1>s DEF Layouts
<1>11. CASE over >= Dust /\ ~(equal = addrs /\ addrs >= 2)
  <2>1. plan = [equal |-> equal, change |-> 1, sats |-> over]
    BY <1>6, <1>8, <1>11, <1>s
  <2> QED
    BY <2>1, <1>2, <1>4, <1>5, <1>7, <1>8, <1>11, <1>s DEF Layouts
<1> QED
  BY <1>8, <1>9, <1>10, <1>11, <1>s

\* Splitting a transaction in two for its fee loses a sat at most.
LEMMA FeeSplit ==
  ASSUME NEW v \in Nat, NEW w \in Nat, NEW r \in Nat
  PROVE  /\ Fee(v, r) \in Nat
         /\ Fee(v + w, r) <= Fee(v, r) + Fee(w, r) + 1
<1> DEFINE a == v * r
           b == w * r
           x == a \div RateUnit
           y == b \div RateUnit
           z == (a + b) \div RateUnit
           u == RateUnit
<1>1. u \in Nat \ {0}
  BY FeeAssumption
<1>2. a \in Nat /\ b \in Nat /\ (v + w) * r = a + b
  BY Arithmetic
<1>3. Fee(v, r) = x /\ Fee(w, r) = y /\ Fee(v + w, r) = z
  BY <1>2 DEF Fee
<1> HIDE DEF a, b
<1>4. /\ x \in Nat /\ y \in Nat /\ z \in Nat
      /\ a < x * u + u /\ b < y * u + u /\ z * u <= a + b
  BY <1>1, <1>2, Division
<1> HIDE DEF x, y, z, u
<1>5. z <= x + y + 1
  <2> SUFFICES ASSUME z >= x + y + 2 PROVE FALSE
    BY <1>4
  <2>1. /\ u * (x + y + 2) = x * u + y * u + u + u /\ z * u = u * z
        /\ x * u \in Int /\ y * u \in Int /\ z * u \in Int
    BY <1>1, <1>4
  <2>2. u * (x + y + 2) <= u * z
    BY <1>1, <1>4, Arithmetic
  <2> QED
    BY <1>1, <1>2, <1>4, <2>1, <2>2
<1> QED
  BY <1>3, <1>4, <1>5

\* A higher rate is no cheaper.
LEMMA FeeRises ==
  ASSUME NEW v \in Nat, NEW q \in Nat, NEW r \in Nat, q <= r
  PROVE  Fee(v, q) <= Fee(v, r)
<1> DEFINE a == v * q
           b == v * r
           x == a \div RateUnit
           y == b \div RateUnit
           u == RateUnit
<1>1. u \in Nat \ {0}
  BY FeeAssumption
<1>2. a \in Nat /\ b \in Nat /\ a <= b
  BY Arithmetic
<1>3. Fee(v, q) = x /\ Fee(v, r) = y
  BY DEF Fee
<1> HIDE DEF a, b
<1>4. /\ x \in Nat /\ y \in Nat
      /\ x * u <= a /\ b < y * u + u
  BY <1>1, <1>2, Division
<1> HIDE DEF x, y, u
<1>5. x <= y
  <2> SUFFICES ASSUME x >= y + 1 PROVE FALSE
    BY <1>4
  <2>1. u * (y + 1) = y * u + u /\ u * x = x * u /\ x * u \in Int /\ y * u \in Int
    BY <1>1, <1>4
  <2>2. u * (y + 1) <= u * x
    BY <1>1, <1>4, Arithmetic
  <2> QED
    BY <1>1, <1>2, <1>4, <2>1, <2>2
<1> QED
  BY <1>3, <1>5

\* What is split by weight, rounded down, does not exceed what there was.
LEMMA SplitByWeight ==
  ASSUME NEW S, IsFiniteSet(S), NEW w, \A i \in S : w[i] \in Nat,
         NEW total, total = SumFunctionOnSet(w, S), total > 0,
         NEW c \in Nat, NEW own, \A i \in S : own[i] = (c * w[i]) \div total
  PROVE  /\ \A i \in S : own[i] \in Nat
         /\ SumFunctionOnSet(own, S) \in Nat
         /\ SumFunctionOnSet(own, S) <= c
<1> DEFINE cw == [i \in S |-> c * w[i]]
           to == [i \in S |-> total * own[i]]
<1>0. total \in Nat \ {0}
  BY SumNat
<1>1. ASSUME NEW i \in S
      PROVE  own[i] \in Nat /\ c * w[i] \in Nat /\ total * own[i] <= c * w[i] /\ total * own[i] \in Int
  <2>1. c * w[i] \in Nat
    BY Arithmetic
  <2> DEFINE cwi == c * w[i]
  <2>2. cwi \in Nat /\ own[i] = cwi \div total
    BY <2>1
  <2> HIDE DEF cwi
  <2>3. own[i] \in Nat /\ own[i] * total <= cwi
    BY <2>2, <1>0, Division
  <2>4. total * own[i] = own[i] * total /\ total * own[i] \in Int
    BY <2>3, <1>0, Arithmetic
  <2> QED
    BY <2>1, <2>3, <2>4 DEF cwi
<1>2. SumFunctionOnSet(own, S) \in Nat
  BY <1>1, SumNat
<1>3. SumFunctionOnSet(to, S) <= SumFunctionOnSet(cw, S)
  BY <1>1, SumLeq
<1>4. SumFunctionOnSet(to, S) = total * SumFunctionOnSet(own, S)
  <2>1. \A i \in S : own[i] \in Int /\ to[i] = total * own[i]
    BY <1>0, <1>1
  <2>2. total \in Int
    BY <1>0
  <2> HIDE DEF to
  <2> QED
    BY <2>1, <2>2, SumScale
<1>5. SumFunctionOnSet(cw, S) = c * total
  <2>1. \A i \in S : w[i] \in Int /\ cw[i] = c * w[i]
    OBVIOUS
  <2>2. c \in Int
    OBVIOUS
  <2> HIDE DEF cw
  <2> QED
    BY <2>1, <2>2, SumScale
<1> DEFINE all == SumFunctionOnSet(own, S)
<1>6. all \in Nat /\ total * all <= c * total
  BY <1>2, <1>3, <1>4, <1>5
<1> HIDE DEF all, to, cw
<1>7. total * all <= total * c
  BY <1>6, <1>0, Arithmetic
<1>8. all <= c
  BY <1>0, <1>6, <1>7, Arithmetic
<1> QED
  BY <1>1, <1>2, <1>8 DEF all

-----------------------------------------------------------------------------
(***************************************************************************)
(* One participant.                                                        *)
(***************************************************************************)

\* Nobody is short of addresses when the shares are computed.
Stocked ==
  \A i \in 1..N : file[i].addrs >= file[i].conf + (IF file[i].ins > 0 THEN 1 ELSE 0)

\* The constants, in the form the proofs cite.
LEMMA Constants ==
  /\ Size \in Nat \ {0} /\ Dust \in Nat \ {0} /\ InV \in Nat \ {0} /\ OutV \in Nat
  /\ Overhead \in Nat /\ N \in Nat \ {0} /\ Required \in Nat \ {0}
  /\ RateUnit \in Nat \ {0} /\ MinRate \in Nat \ {0} /\ Donation \in BOOLEAN
  /\ Rates \subseteq {r \in Nat : r >= MinRate}
  BY FeeAssumption

\* What a participant brings is counted, and every coin that pays the fee has a value.
LEMMA FileType ==
  ASSUME TypeOK, NEW i \in 1..N
  PROVE  /\ file[i].nc \in Nat /\ file[i].ins \in Nat
         /\ file[i].conf \in Nat /\ file[i].addrs \in Nat
         /\ file[i].ins = 0 <=> file[i].nc = 0
         /\ Spare(i) \in Nat
<1>1. file[i] \in Coins
  BY DEF TypeOK
<1>2. file[i] \in Files /\ (file[i].ins = 0 <=> file[i].nc = 0)
  BY <1>1, FeeAssumption
<1> QED
  BY <1>2 DEF Files, Spare

\* The people of the mix are finitely many.
LEMMA PeopleType ==
  ASSUME TypeOK
  PROVE  /\ IsFiniteSet(active) /\ IsFiniteSet(Payers)
         /\ Payers \subseteq active /\ active \subseteq 1..N
         /\ Cardinality(active) \in Nat /\ Cardinality(Payers) \in Nat
<1>1. active \subseteq 1..N /\ Payers \subseteq active
  BY DEF TypeOK, Payers
<1>2. IsFiniteSet(1..N)
  BY Constants, FS_Interval
<1>3. IsFiniteSet(active)
  BY <1>1, <1>2, FS_Subset
<1> QED
  BY <1>1, <1>3, FS_Subset, FS_CardinalityType

\* Every participant has a layout, Nothing for who has no coin to pay with.
LEMMA LayoutType ==
  ASSUME TypeOK, NEW i \in 1..N
  PROVE  Layout(i) \in Layouts
<1>1. Nothing \in Layouts
  BY DEF Nothing, Layouts
<1>2. share[i] \in Nat
  BY DEF TypeOK
<1> QED
  BY <1>1, <1>2, FileType, PlanSound DEF Layout

\* Min of the community modules on two numbers.
LEMMA MinOfTwo ==
  ASSUME NEW a \in Int, NEW b \in Int
  PROVE  Min({a, b}) = IF a <= b THEN a ELSE b
  BY DEF Min

\* Who is funded gets back everything but the share, dust at most, and what is left
\* to the miner for want of an address, which two addresses prevent; who brings only
\* coins that pass through gets them back.
LEMMA Balance ==
  ASSUME TypeOK, Stocked, NEW i \in active,
         IF i \in Payers THEN Layout(i).equal # 0 ELSE share[i] = 0
  PROVE  /\ Brought(i) - Returned(i) \in Int /\ Folded(i) \in Nat /\ share[i] \in Nat
         /\ share[i] + Folded(i) <= Brought(i) - Returned(i)
         /\ Brought(i) - Returned(i) < share[i] + Folded(i) + Dust
         /\ Spare(i) # 1 \/ Donation => Folded(i) = 0
<1> DEFINE f == file[i]
           lay == Layout(i)
           sent == IF ChangeSent(i) THEN lay.sats ELSE 0
<1>1. i \in 1..N /\ share[i] \in Nat
  BY DEF TypeOK
<1>2. /\ f.nc \in Nat /\ f.ins \in Nat /\ f.conf \in Nat /\ f.addrs \in Nat
      /\ f.ins = 0 <=> f.nc = 0
      /\ f.addrs >= f.conf + (IF f.ins > 0 THEN 1 ELSE 0)
      /\ Spare(i) = f.addrs - f.conf
  BY <1>1, FileType DEF Stocked, Spare
<1>3. lay.equal \in Nat /\ lay.change \in {0, 1} /\ lay.sats \in Nat
  BY <1>1, LayoutType DEF Layouts
<1>4. i \in Payers <=> f.ins > 0
  BY DEF Payers
<1>5. Placed(i) = f.conf + lay.equal /\ (lay.change = 1 /\ Spare(i) # 1 => Placed(i) < f.addrs)
      /\ lay.equal * Size + lay.sats + share[i] <= f.nc
      /\ f.nc < lay.equal * Size + lay.sats + share[i] + Dust
      /\ (lay.change = 0 => lay.sats = 0)
  <2>1. Placed(i) = IF f.conf + lay.equal <= f.addrs THEN f.conf + lay.equal ELSE f.addrs
    BY <1>2, <1>3, MinOfTwo DEF Placed
  <2>2. CASE i \in Payers
    <3>1. lay = Plan(f.nc, Spare(i), share[i]) /\ lay # Nothing
      BY <2>2 DEF Layout, Nothing
    <3>2. Spare(i) \in Nat /\ Spare(i) >= 1
      BY <1>2, <1>4, <2>2
    <3> HIDE DEF lay, f
    <3>3. /\ lay.equal <= Spare(i)
          /\ lay.equal * Size + lay.sats + share[i] <= f.nc
          /\ f.nc < lay.equal * Size + lay.sats + share[i] + Dust
          /\ IF lay.change = 1 THEN lay.sats >= Dust ELSE lay.sats = 0
          /\ Spare(i) >= 2 => lay.equal + lay.change <= Spare(i)
      BY <3>1, <3>2, <1>1, <1>2, PlanSound
    <3>4. Placed(i) = f.conf + lay.equal
      BY <2>1, <3>2, <3>3, <1>2, <1>3 DEF lay, f
    <3> QED
      BY <3>2, <3>3, <3>4, <1>2, <1>3
  <2>3. CASE i \notin Payers
    <3>1. lay.equal = 0 /\ lay.change = 0 /\ lay.sats = 0
      BY <2>3 DEF Layout, Nothing
    <3>2. f.nc = 0 /\ share[i] = 0
      BY <2>3, <1>2, <1>4
    <3>3. lay.equal * Size = 0
      BY <3>1, Constants
    <3> QED
      BY <2>1, <3>1, <3>2, <3>3, <1>2, Constants
  <2> QED
    BY <2>2, <2>3
<1> DEFINE eq == lay.equal * Size
           cf == f.conf * Size
<1>6. eq \in Nat /\ cf \in Nat
  BY <1>2, <1>3, Constants, Arithmetic
<1>7. Placed(i) * Size = cf + eq
  BY <1>2, <1>3, <1>5, Constants
<1>8. Brought(i) = f.nc + cf /\ Returned(i) = cf + eq + sent
  BY <1>7 DEF Brought, Returned
<1>9. Folded(i) = lay.sats - sent
  BY <1>3, <1>5 DEF Folded, ChangeSent
<1>10. sent \in {0, lay.sats} /\ (Spare(i) # 1 \/ Donation => sent = lay.sats)
  <2>1. lay.change = 1 /\ (Spare(i) # 1 \/ Donation) => ChangeSent(i)
    BY <1>5 DEF ChangeSent
  <2> QED
    BY <2>1, <1>3, <1>5
<1> HIDE DEF eq, cf, sent, lay, f
<1> QED
  BY <1>1, <1>2, <1>3, <1>5, <1>6, <1>8, <1>9, <1>10, Constants DEF eq

-----------------------------------------------------------------------------
(***************************************************************************)
(* The shares of one pass.                                                 *)
(***************************************************************************)

\* Everybody who pays weighs something.
LEMMA WeightsType ==
  ASSUME TypeOK
  PROVE  /\ \A i \in Payers : Weight(i) \in Nat \ {0}
         /\ NcVsize \in Nat /\ (Payers # {} => NcVsize > 0)
         /\ NcVsize = SumFunctionOnSet([i \in Payers |-> Weight(i)], Payers)
<1> DEFINE w == [i \in Payers |-> Weight(i)]
<1>1. ASSUME NEW i \in Payers
      PROVE  Weight(i) \in Nat \ {0}
  <2>1. i \in 1..N /\ file[i].ins > 0
    BY DEF Payers, TypeOK
  <2> DEFINE ins == file[i].ins
             outs == Layout(i).equal + Layout(i).change
  <2>2. ins \in Nat \ {0} /\ outs \in Nat
    BY <2>1, FileType, LayoutType DEF Layouts
  <2>3. Weight(i) = ins * InV + outs * OutV
    BY DEF Weight
  <2> HIDE DEF ins, outs
  <2>4. InV * 1 <= InV * ins /\ InV * ins = ins * InV /\ ins * InV \in Int
    BY <2>2, Constants, Arithmetic
  <2>5. outs * OutV \in Nat
    BY <2>2, Constants, Arithmetic
  <2> QED
    BY <2>3, <2>4, <2>5, Constants
<1>2. NcVsize = SumFunctionOnSet(w, Payers)
  BY DEF NcVsize, SumFunction
<1>3. IsFiniteSet(Payers)
  BY PeopleType
<1>4. \A i \in Payers : w[i] \in Nat \ {0}
  BY <1>1
<1>5. SumFunctionOnSet(w, Payers) \in Nat
  <2> HIDE DEF w
  <2> QED
    BY <1>3, <1>4, SumNat
<1>6. ASSUME NEW i \in Payers PROVE NcVsize > 0
  <2> HIDE DEF w
  <2>1. SumFunctionOnSet(w, Payers) = w[i] + SumFunctionOnSet(w, Payers \ {i})
    BY <1>3, <1>4, SumTakes
  <2>2. SumFunctionOnSet(w, Payers \ {i}) \in Nat
    <3>1. IsFiniteSet(Payers \ {i})
      BY <1>3, FS_Subset
    <3> QED
      BY <3>1, <1>4, SumNat
  <2> QED
    BY <2>1, <2>2, <1>2, <1>4
<1> QED
  BY <1>1, <1>2, <1>5, <1>6

\* The coins that pass through take a natural number of vbytes.
LEMMA ConfType ==
  ASSUME TypeOK
  PROVE  ConfVsize \in Nat
<1> DEFINE c == [i \in active |-> file[i].conf]
           n == SumFunctionOnSet(c, active)
<1>1. IsFiniteSet(active) /\ \A i \in active : c[i] \in Nat
  BY PeopleType, FileType
<1>2. n \in Nat
  <2> HIDE DEF c
  <2> QED
    BY <1>1, SumNat
<1>3. ConfVsize = n * (InV + OutV)
  BY DEF ConfVsize, SumFunction
<1> HIDE DEF n
<1> QED
  BY <1>2, <1>3, Constants, Arithmetic

\* Somebody comes last among those who pay.
LEMMA MaxIn ==
  ASSUME TypeOK, Payers # {}
  PROVE  Max(Payers) \in Payers
<1>1. Payers \subseteq 1..N /\ N \in Nat \ {0}
  BY PeopleType, Constants
<1>2. \E m \in Payers : \A j \in Payers : m >= j
  <2> SUFFICES ASSUME \A m \in Payers : \E j \in Payers : ~(m >= j)
               PROVE  FALSE
    OBVIOUS
  <2> DEFINE R == StrictSubsetOrdering(1..N)
             Up(m) == {j \in 1..N : j > m}
             T == {Up(m) : m \in Payers}
  <2>1. IsWellFoundedOn(StrictSubsetOrdering(1..N), SUBSET (1..N))
    <3>1. IsFiniteSet(1..N)
      BY <1>1, FS_Interval
    <3> QED
      BY <3>1, FS_StrictSubsetOrderingWellFounded, FS_FiniteSubsetsOfFinite
  <2> DEFINE W == SUBSET (1..N)
  <2>2. IsWellFoundedOn(R, W) /\ T \subseteq W /\ T # {}
    BY <2>1
  <2>3. \E x \in T : \A y \in T : ~(<<y, x>> \in R)
    <3> HIDE DEF R, T, W
    <3> QED
      BY <2>2, WFMin
  <2>4. PICK m \in Payers : \A j \in Payers : <<Up(j), Up(m)>> \notin R
    BY <2>3
  <2>5. PICK j \in Payers : ~(m >= j)
    OBVIOUS
  <2>6. m \in Int /\ j \in Int /\ j > m
    BY <1>1, <2>5
  <2>7. Up(j) \subseteq Up(m) /\ j \in Up(m) /\ j \notin Up(j)
    BY <1>1, <2>6
  <2>8. <<Up(j), Up(m)>> \in R
    <3>1. Up(j) \in SUBSET (1..N) /\ Up(m) \in SUBSET (1..N) /\ Up(j) # Up(m)
      BY <2>7
    <3> HIDE DEF Up
    <3> QED
      BY <2>7, <3>1 DEF StrictSubsetOrdering
  <2> QED
    BY <2>4, <2>8
<1> QED
  BY <1>2 DEF Max

\* The last one makes up for the rounding of the others, exactly, and for a
\* non-negative amount.
LEMMA SharesOfPass ==
  ASSUME TypeOK, Payers # {}
  PROVE  /\ NewShares \in [1..N -> Nat]
         /\ \A i \in (1..N) \ Payers : NewShares[i] = 0
         /\ SumFunctionOnSet(NewShares, Payers)
              = Fee(Overhead + NcVsize, rate) + Fee(ConfVsize, rate)
<1> DEFINE nc == Fee(Overhead + NcVsize, rate)
           conforming == Fee(ConfVsize, rate)
           own(i) == (nc * Weight(i)) \div NcVsize
           k == Cardinality(Payers)
           even == conforming \div k
           last == Max(Payers)
           others == Payers \ {last}
           owns == [j \in others |-> own(j)]
           all == [j \in Payers |-> own(j)]
           w == [i \in Payers |-> Weight(i)]
           rest == Cardinality(others)
           S == SumFunctionOnSet(owns, others)
<1>1. IsFiniteSet(Payers) /\ Payers \subseteq 1..N
  BY PeopleType
<1>2. last \in Payers
  BY MaxIn
<1>3. k \in Nat \ {0} /\ rest = k - 1 /\ IsFiniteSet(others)
  BY <1>1, <1>2, FS_RemoveElement, FS_CardinalityType, FS_EmptySet
<1>4. nc \in Nat /\ conforming \in Nat
  <2>1. rate \in Nat /\ ConfVsize \in Nat /\ Overhead + NcVsize \in Nat
    BY Constants, WeightsType, ConfType DEF TypeOK
  <2> QED
    BY <2>1, FeeSplit
<1>5. even \in Nat /\ conforming - even * rest \in Nat
  <2> HIDE DEF conforming, k, rest
  <2>1. even \in Nat /\ even * k <= conforming
    BY <1>3, <1>4, Division
  <2>2. even * rest <= even * k /\ even * rest \in Int /\ even * k \in Int
    <3> HIDE DEF even
    <3> QED
      BY <2>1, <1>3, Arithmetic
  <2> QED
    BY <2>1, <2>2, <1>4
<1>6. /\ \A i \in Payers : own(i) \in Nat
      /\ S \in Nat /\ S <= nc
  <2>1. NcVsize > 0 /\ NcVsize = SumFunctionOnSet(w, Payers) /\ \A i \in Payers : w[i] \in Nat
    BY WeightsType
  <2>2. \A i \in Payers : all[i] = (nc * w[i]) \div NcVsize
    OBVIOUS
  <2>3. /\ \A i \in Payers : all[i] \in Nat
        /\ SumFunctionOnSet(all, Payers) \in Nat
        /\ SumFunctionOnSet(all, Payers) <= nc
    <3> HIDE DEF all, w, nc
    <3> QED
      BY <1>1, <1>4, <2>1, <2>2, SplitByWeight
  <2>4. \A i \in Payers : own(i) \in Nat
    BY <2>3
  <2>5. SumFunctionOnSet(all, Payers) = all[last] + SumFunctionOnSet(all, others)
    <3>1. \A i \in Payers : all[i] \in Int
      BY <2>3
    <3> HIDE DEF all
    <3>2. \A x \in Payers : SumFunctionOnSet(all, Payers) = all[x] + SumFunctionOnSet(all, Payers \ {x})
      BY <1>1, <3>1, SumTakes
    <3> QED
      BY <3>2, <1>2
  <2>6. SumFunctionOnSet(owns, others) = SumFunctionOnSet(all, others)
    <3>1. \A i \in others : owns[i] \in Int /\ owns[i] = all[i]
      BY <2>3
    <3> HIDE DEF owns, all, others
    <3> QED
      BY <3>1, <1>3, SumSame
  <2>7. S \in Nat
    <3>1. \A i \in others : owns[i] \in Nat
      BY <2>4
    <3> HIDE DEF owns, others
    <3> QED
      BY <3>1, <1>3, SumNat
  <2>8. all[last] \in Nat
    BY <2>3, <1>2
  <2> HIDE DEF all, owns, others, last, nc, own
  <2> QED
    BY <2>3, <2>4, <2>5, <2>6, <2>7, <2>8, <1>4
<1>7. \A i \in others : NewShares[i] = own(i) + even
  <2>1. \A i \in others : i \in 1..N /\ i \in Payers /\ own(i) \in Nat
    BY <1>1, <1>6
  <2> QED
    BY <2>1, <1>5 DEF NewShares, AtLeastZero
<1>8. NewShares[last] = (nc - S) + (conforming - even * rest)
  <2>1. NewShares[last] = AtLeastZero(nc - S) + AtLeastZero(conforming - even * rest)
    BY <1>1, <1>2 DEF NewShares, SumFunction
  <2> HIDE DEF nc, S, conforming, even, rest
  <2> QED
    BY <2>1, <1>4, <1>5, <1>6 DEF AtLeastZero
<1>9. \A i \in (1..N) \ Payers : NewShares[i] = 0
  BY DEF NewShares
<1>10. NewShares \in [1..N -> Nat]
  <2>1. ASSUME NEW i \in 1..N PROVE NewShares[i] \in Nat
    <3>1. CASE i \in others
      <4>1. own(i) \in Nat /\ even \in Nat
        BY <3>1, <1>5, <1>6
      <4> HIDE DEF own, even, others
      <4> QED
        BY <4>1, <3>1, <1>7
    <3>2. CASE i = last
      <4> HIDE DEF nc, S, conforming, even, rest, last
      <4> QED
        BY <3>2, <1>4, <1>5, <1>6, <1>8
    <3> QED
      BY <3>1, <3>2, <1>9
  <2>2. NewShares = [i \in 1..N |-> NewShares[i]]
    BY DEF NewShares
  <2> QED
    BY <2>1, <2>2
<1>11. SumFunctionOnSet(NewShares, others) = S + even * rest
  <2> DEFINE ev == [i \in others |-> even]
  <2>1. SumFunctionOnSet(ev, others) = even * rest
    <3>1. \A i \in others : ev[i] = even
      OBVIOUS
    <3> HIDE DEF ev, others, even
    <3> QED
      BY <3>1, <1>3, <1>5, SumConstant
  <2>2. \A i \in others : owns[i] \in Int /\ ev[i] \in Int /\ NewShares[i] = owns[i] + ev[i]
    <3>1. ASSUME NEW i \in others
          PROVE  owns[i] = own(i) /\ own(i) \in Nat /\ ev[i] = even /\ even \in Nat
      BY <1>5, <1>6
    <3> HIDE DEF owns, own, ev, even, others
    <3> QED
      BY <3>1, <1>7
  <2>3. SumFunctionOnSet(NewShares, others)
          = SumFunctionOnSet(owns, others) + SumFunctionOnSet(ev, others)
    <3> HIDE DEF owns, own, ev, even, others
    <3> QED
      BY <2>2, <1>3, SumPlus
  <2>4. even * rest \in Int
    BY <1>3, <1>5, Arithmetic
  <2> HIDE DEF owns, ev, even, rest, others
  <2> QED
    BY <2>1, <2>3, <2>4, <1>6
<1>12. SumFunctionOnSet(NewShares, Payers) = NewShares[last] + SumFunctionOnSet(NewShares, others)
  <2>1. \A i \in Payers : NewShares[i] \in Int
    BY <1>1, <1>10
  <2>2. IsFiniteSet(Payers)
    BY <1>1
  <2> DEFINE new == NewShares
  <2>3. \A i \in Payers : new[i] \in Int
    BY <2>1
  <2> HIDE DEF new
  <2>4. \A x \in Payers :
          SumFunctionOnSet(new, Payers) = new[x] + SumFunctionOnSet(new, Payers \ {x})
    BY <2>2, <2>3, SumTakes
  <2> QED
    BY <1>2, <2>4 DEF new
<1> HIDE DEF nc, S, conforming, even, rest, last, others
<1>13. even * rest \in Int
  BY <1>3, <1>5, Arithmetic
<1> QED
  BY <1>4, <1>5, <1>6, <1>8, <1>9, <1>10, <1>11, <1>12, <1>13 DEF nc, conforming

-----------------------------------------------------------------------------
(***************************************************************************)
(* The invariant: what each of the steps from shares to transaction may    *)
(* rely on.                                                                *)
(***************************************************************************)

\* What the participants bring beyond what they get back.
Collected == SumFunction([i \in active |-> Brought(i) - Returned(i)])

FeeInv ==
  /\ TypeOK /\ Stocked
  /\ pc = "share" => pass < 3
  /\ pc # "few" => Payers # {}
  /\ \A i \in (1..N) \ Payers : share[i] = 0
  /\ pc \in {"check", "build", "sent", "under", "over"} =>
       SumFunctionOnSet(share, Payers) = TotalFee
  /\ pc \in {"build", "sent", "under", "over"} => Underfunded = {}
  /\ pc \in {"sent", "under", "over"} => fee = Collected
  /\ pc = "under" => fee < MinRequired
  /\ pc # "over"

\* Balance, of everybody at once when nobody is underfunded.
LEMMA FundedBalance ==
  ASSUME FeeInv, Underfunded = {}, NEW i \in active
  PROVE  /\ Brought(i) - Returned(i) \in Int /\ Folded(i) \in Nat /\ share[i] \in Nat
         /\ share[i] + Folded(i) <= Brought(i) - Returned(i)
         /\ Brought(i) - Returned(i) < share[i] + Folded(i) + Dust
         /\ Spare(i) # 1 \/ Donation => Folded(i) = 0
<1>1. IF i \in Payers THEN Layout(i).equal # 0 ELSE share[i] = 0
  BY DEF FeeInv, Underfunded, TypeOK
<1> QED
  BY <1>1, Balance DEF FeeInv

\* Added up: nothing is collected but the shares, folded change and dust.
LEMMA CollectedBounds ==
  ASSUME FeeInv, Underfunded = {}, SumFunctionOnSet(share, Payers) = TotalFee
  PROVE  /\ Collected \in Nat
         /\ TotalFee <= Collected
         /\ MaxExpected \in Int /\ Collected <= MaxExpected
<1> DEFINE c == [i \in active |-> Brought(i) - Returned(i)]
           folded == [i \in active |-> Folded(i)]
           dust == [i \in active |-> Dust]
           sf == [i \in active |-> share[i] + folded[i]]
           most == [i \in active |-> sf[i] + dust[i]]
<1>1. IsFiniteSet(active) /\ Payers \subseteq active /\ active \subseteq 1..N
  BY PeopleType DEF FeeInv
<1>2. ASSUME NEW i \in active
      PROVE  /\ c[i] \in Int /\ folded[i] \in Nat /\ share[i] \in Nat /\ dust[i] = Dust
             /\ sf[i] \in Int /\ dust[i] \in Int /\ most[i] \in Int
             /\ share[i] <= c[i] /\ c[i] <= most[i]
             /\ sf[i] = share[i] + folded[i]
             /\ most[i] = sf[i] + dust[i]
  <2>1. /\ c[i] \in Int /\ folded[i] \in Nat /\ share[i] \in Nat /\ Dust \in Nat
        /\ share[i] <= c[i] /\ c[i] < share[i] + folded[i] + Dust
    BY FundedBalance, Constants
  <2>2. dust[i] = Dust /\ sf[i] = share[i] + folded[i] /\ most[i] = sf[i] + dust[i]
    OBVIOUS
  <2> HIDE DEF c, folded, dust, sf, most
  <2> QED
    BY <2>1, <2>2
<1>3. Collected = SumFunctionOnSet(c, active)
  BY DEF Collected, SumFunction
<1>4. MaxExpected = TotalFee + SumFunctionOnSet(folded, active) + Cardinality(active) * Dust
  BY DEF MaxExpected, SumFunction
<1> HIDE DEF c, folded, dust, sf, most
<1>5. SumFunctionOnSet(share, active) = TotalFee
  <2>1. \A i \in active \ Payers : share[i] = 0
    BY <1>1 DEF FeeInv
  <2>2. \A i \in active : share[i] \in Int
    BY <1>2
  <2>3. SumFunctionOnSet(share, active) = SumFunctionOnSet(share, Payers)
    BY <2>1, <2>2, <1>1, SumOfSome
  <2> QED
    BY <2>3
<1>6. /\ SumFunctionOnSet(share, active) <= SumFunctionOnSet(c, active)
      /\ SumFunctionOnSet(c, active) <= SumFunctionOnSet(most, active)
  <2>1. /\ \A i \in active : share[i] \in Int /\ c[i] \in Int /\ share[i] <= c[i]
        /\ \A i \in active : c[i] \in Int /\ most[i] \in Int /\ c[i] <= most[i]
    BY <1>2
  <2> QED
    BY <2>1, <1>1, SumLeq
<1>7. SumFunctionOnSet(most, active)
        = SumFunctionOnSet(sf, active) + SumFunctionOnSet(dust, active)
  <2>1. \A i \in active : sf[i] \in Int /\ dust[i] \in Int /\ most[i] = sf[i] + dust[i]
    BY <1>2
  <2>2. IsFiniteSet(active)
    BY <1>1
  <2> HIDE <1>1
  <2> QED
    BY <2>1, <2>2, SumPlus
<1>8. SumFunctionOnSet(sf, active)
        = SumFunctionOnSet(share, active) + SumFunctionOnSet(folded, active)
  <2>1. \A i \in active : share[i] \in Int /\ folded[i] \in Int /\ sf[i] = share[i] + folded[i]
    BY <1>2
  <2>2. IsFiniteSet(active)
    BY <1>1
  <2> HIDE <1>1
  <2> QED
    BY <2>1, <2>2, SumPlus
<1>9. SumFunctionOnSet(dust, active) = Dust * Cardinality(active)
  <2>1. Dust \in Int /\ \A i \in active : dust[i] = Dust
    BY <1>2, Constants
  <2> QED
    BY <2>1, <1>1, SumConstant
<1>10. SumFunctionOnSet(share, active) \in Nat /\ SumFunctionOnSet(folded, active) \in Nat
  <2>1. /\ \A i \in active : share[i] \in Nat
        /\ \A i \in active : folded[i] \in Nat
    BY <1>2
  <2> QED
    BY <2>1, <1>1, SumNat
<1>11. /\ SumFunctionOnSet(c, active) \in Int /\ SumFunctionOnSet(sf, active) \in Int
       /\ SumFunctionOnSet(most, active) \in Int
  <2>1. /\ \A i \in active : c[i] \in Int
        /\ \A i \in active : sf[i] \in Int
        /\ \A i \in active : most[i] \in Int
    BY <1>2
  <2> QED
    BY <2>1, <1>1, SumTakes
<1>12. /\ Cardinality(active) * Dust = Dust * Cardinality(active)
       /\ Cardinality(active) * Dust \in Int
  <2>1. Cardinality(active) \in Nat /\ Dust \in Nat
    BY PeopleType, Constants DEF FeeInv
  <2> QED
    BY <2>1, Arithmetic
<1> QED
  BY <1>3, <1>4, <1>5, <1>6, <1>7, <1>8, <1>9, <1>10, <1>11, <1>12

\* A fee computed in two parts at the rate is at most a sat below the least.
LEMMA LeastFee ==
  ASSUME TypeOK
  PROVE  /\ TotalFee \in Nat /\ MinRequired \in Nat
         /\ MinRequired <= TotalFee + 1
<1>1. /\ rate \in Nat /\ MinRate \in Nat /\ MinRate <= rate
      /\ portion \in Nat /\ ConfVsize \in Nat
  BY Constants, ConfType DEF TypeOK
<1>2. /\ Fee(portion, MinRate) <= Fee(portion, rate)
      /\ Fee(ConfVsize, MinRate) <= Fee(ConfVsize, rate)
  BY <1>1, FeeRises
<1>3. /\ Fee(portion, MinRate) \in Nat /\ Fee(portion, rate) \in Nat
      /\ Fee(ConfVsize, MinRate) \in Nat /\ Fee(ConfVsize, rate) \in Nat
      /\ Fee(portion + ConfVsize, MinRate) \in Nat
  <2>1. portion + ConfVsize \in Nat
    BY <1>1
  <2> QED
    BY <1>1, <2>1, FeeSplit
<1>4. Fee(portion + ConfVsize, MinRate) <= Fee(portion, MinRate) + Fee(ConfVsize, MinRate) + 1
  BY <1>1, FeeSplit
<1> QED
  BY <1>2, <1>3, <1>4 DEF TotalFee, MinRequired, TotalVsize

\* A transaction is attempted only if somebody pays for it.
LEMMA EnoughPay ==
  ASSUME Enough(active), active \subseteq 1..N
  PROVE  Payers # {}
<1>1. Cardinality({i \in active : file[i].ins > 0}) # 0
  <2>1. IsFiniteSet(1..N)
    BY Constants, FS_Interval
  <2>2. Cardinality({i \in active : file[i].ins > 0}) \in Nat
    BY <2>1, FS_Subset, FS_CardinalityType
  <2> QED
    BY <2>2, Constants DEF Enough
<1> QED
  BY <1>1, FS_EmptySet DEF Payers

\* At the start nothing is laid out and somebody pays.
LEMMA FeeInit == Init => FeeInv
<1> SUFFICES ASSUME Init PROVE FeeInv
  OBVIOUS
<1>1. file \in [1..N -> Coins] /\ Stocked
  BY DEF Init, Stocked
<1>t. /\ active \subseteq 1..N /\ share \in [1..N -> Nat] /\ portion \in Nat
      /\ pass \in 0..3 /\ fee \in Nat /\ \A i \in 1..N : share[i] = 0
  BY Constants DEF Init
<1>p. pc = "share" /\ rate \in Rates /\ pass < 3
  BY DEF Init
<1>d. dropped \in BOOLEAN
  BY DEF Init
<1>2. Payers # {}
  BY EnoughPay DEF Init
<1> QED
  BY <1>1, <1>t, <1>p, <1>d, <1>2 DEF FeeInv, TypeOK

\* Every step of the engine keeps the invariant.
LEMMA FeeStep == FeeInv /\ [Next]_vars => FeeInv'
<1> SUFFICES ASSUME FeeInv, [Next]_vars
             PROVE  FeeInv'
  OBVIOUS
<1>1. CASE Pass
  <2>1. Payers # {} /\ pc' \in {"share", "check"}
    BY <1>1 DEF Pass, FeeInv
  <2>2. /\ NewShares \in [1..N -> Nat]
        /\ \A i \in (1..N) \ Payers : NewShares[i] = 0
        /\ SumFunctionOnSet(NewShares, Payers)
             = Fee(Overhead + NcVsize, rate) + Fee(ConfVsize, rate)
        /\ Overhead + NcVsize \in Nat
    BY <2>1, SharesOfPass, WeightsType, Constants DEF FeeInv
  <2>3. Payers' = Payers /\ ConfVsize' = ConfVsize /\ rate' = rate
    BY <1>1 DEF Pass, Payers, ConfVsize
  <2>4. TypeOK' /\ Stocked' /\ (pc' = "share" => pass' < 3)
    <3>1. /\ pass \in 0..3 /\ pass < 3 /\ pass' = pass + 1
          /\ pc' = IF share' = share \/ pass' = 3 THEN "check" ELSE "share"
      BY <1>1 DEF Pass, FeeInv, TypeOK
    <3>2. pass' \in 0..3 /\ (pc' = "share" => pass' < 3)
      BY <3>1
    <3>3. share' \in [1..N -> Nat] /\ portion' \in Nat
      BY <1>1, <2>2 DEF Pass
    <3>4. UNCHANGED <<file, rate, active, dropped, fee>>
      BY <1>1 DEF Pass
    <3> QED
      BY <2>1, <3>2, <3>3, <3>4 DEF FeeInv, TypeOK, Stocked
  <2>5. SumFunctionOnSet(share', Payers') = TotalFee'
    BY <1>1, <2>2, <2>3 DEF Pass, TotalFee
  <2>6. \A i \in (1..N) \ Payers' : share'[i] = 0
    BY <1>1, <2>2, <2>3 DEF Pass
  <2> QED
    BY <2>1, <2>3, <2>4, <2>5, <2>6 DEF FeeInv
<1>2. CASE Proceed
  <2>1. /\ Payers' = Payers /\ TotalFee' = TotalFee /\ Underfunded' = Underfunded
        /\ share' = share /\ pc = "check" /\ pc' = "build" /\ Underfunded = {}
    BY <1>2 DEF Proceed, Payers, TotalFee, ConfVsize, Underfunded, Layout, Spare
  <2>2. TypeOK' /\ Stocked'
    BY <1>2 DEF Proceed, FeeInv, TypeOK, Stocked
  <2> QED
    BY <2>1, <2>2 DEF FeeInv
<1>3. CASE DropUnderfunded
  <2>1. TypeOK' /\ Stocked' /\ pass' < 3
    <3>1. /\ active' \subseteq active /\ dropped' \in BOOLEAN /\ pass' \in 0..3 /\ pass' < 3
          /\ pc' \in {"share", "few"} /\ UNCHANGED <<file, rate, portion, fee>>
      BY <1>3 DEF DropUnderfunded
    <3>2. share' \in [1..N -> Nat]
      BY <1>3 DEF DropUnderfunded
    <3> QED
      BY <3>1, <3>2 DEF FeeInv, TypeOK, Stocked
  <2>2. pc' \in {"share", "few"} /\ (pc' = "share" => Enough(active)')
    BY <1>3 DEF DropUnderfunded, Enough
  <2>3. pc' = "share" => Payers' # {}
    <3> SUFFICES ASSUME pc' = "share" PROVE Payers' # {}
      OBVIOUS
    <3>1. Enough(active)' /\ active' \subseteq 1..N
      BY <2>1, <2>2 DEF TypeOK
    <3>2. Cardinality({i \in active' : file'[i].ins > 0}) # 0
      <4>1. IsFiniteSet(1..N)
        BY Constants, FS_Interval
      <4>2. Cardinality({i \in active' : file'[i].ins > 0}) \in Nat
        BY <3>1, <4>1, FS_Subset, FS_CardinalityType
      <4> QED
        BY <3>1, <4>2, Constants DEF Enough
    <3> QED
      BY <3>2, FS_EmptySet DEF Payers
  <2>4. \A i \in (1..N) \ Payers' : share'[i] = 0
    BY <1>3 DEF DropUnderfunded
  <2> QED
    BY <2>1, <2>2, <2>3, <2>4 DEF FeeInv
<1>4. CASE GiveUp
  <2>1. pc' = "few" /\ Payers' = Payers /\ share' = share
    BY <1>4 DEF GiveUp, Payers
  <2>2. TypeOK' /\ Stocked'
    BY <1>4 DEF GiveUp, FeeInv, TypeOK, Stocked
  <2> QED
    BY <2>1, <2>2 DEF FeeInv
<1>5. CASE Build
  <2>1. pc = "build" /\ Underfunded = {} /\ SumFunctionOnSet(share, Payers) = TotalFee
    BY <1>5 DEF Build, FeeInv
  <2>2. /\ Collected \in Nat /\ TotalFee <= Collected
        /\ MaxExpected \in Int /\ Collected <= MaxExpected
    BY <2>1, CollectedBounds
  <2>3. /\ Payers' = Payers /\ TotalFee' = TotalFee /\ Underfunded' = Underfunded
        /\ Collected' = Collected /\ MinRequired' = MinRequired /\ share' = share
    BY <1>5 DEF Build, Payers, TotalFee, TotalVsize, ConfVsize, Underfunded, Layout, Spare,
       Collected, Brought, Returned, Placed, ChangeSent, MinRequired
  <2>4. fee' = Collected
    BY <1>5 DEF Build, Collected
  <2>5. /\ MinRequired \in Nat
        /\ pc' = IF Collected < MinRequired THEN "under" ELSE "sent"
    <3>1. MinRequired \in Nat /\ TotalFee \in Nat
      BY LeastFee DEF FeeInv
    <3>2. ~(Collected > MaxExpected)
      BY <2>2
    <3> QED
      <4>1. pc' = IF fee' < MinRequired THEN "under"
                  ELSE IF fee' > MaxExpected THEN "over" ELSE "sent"
        BY <1>5 DEF Build
      <4> QED
        BY <4>1, <2>4, <3>1, <3>2
  <2>6. TypeOK' /\ Stocked'
    BY <1>5, <2>2, <2>4, <2>5 DEF Build, FeeInv, TypeOK, Stocked
  <2> QED
    BY <2>1, <2>3, <2>4, <2>5, <2>6 DEF FeeInv
<1>6. CASE UNCHANGED vars
  BY <1>6 DEF vars, FeeInv, TypeOK, Stocked, Payers, TotalFee, TotalVsize, ConfVsize,
     Underfunded, Layout, Spare, Collected, Brought, Returned, Placed, ChangeSent, MinRequired
<1> QED
  BY <1>1, <1>2, <1>3, <1>4, <1>5, <1>6 DEF Next, Over

\* The invariant holds in every state.
THEOREM FeeInvariant == Spec => []FeeInv
  BY FeeInit, FeeStep, PTL DEF Spec

\* Amounts and shares are natural numbers, and the passes at most three, whoever is
\* dropped: no share and no fee is ever negative.
THEOREM TypeCorrect == Spec => []TypeOK
<1>1. FeeInv => TypeOK
  BY DEF FeeInv
<1> QED
  BY <1>1, FeeInvariant, PTL

\* "So the shares sum exactly to total_miner_fee" (calculate_all_fees), for any
\* number of participants and whether or not the loop has converged.
THEOREM SharesSumUp == Spec => []SharesSum
<1>1. FeeInv => SharesSum
  <2> SUFFICES ASSUME FeeInv, pc \in {"check", "build", "sent"}
               PROVE  SumFunctionOnSet(share, Payers) = TotalFee
    BY DEF SharesSum
  <2> QED
    BY DEF FeeInv
<1> QED
  BY <1>1, FeeInvariant, PTL

\* Who has two addresses to spare, or a donation address, pays dust at most beyond the
\* share.
THEOREM LeftoversReturned == Spec => []LeftoverReturned
<1>1. FeeInv => LeftoverReturned
  <2> SUFFICES ASSUME FeeInv, pc = "sent", NEW i \in active, Spare(i) # 1 \/ Donation
               PROVE  Brought(i) - Returned(i) - share[i] \in 0..(Dust - 1)
    BY DEF LeftoverReturned
  <2>1. Underfunded = {}
    BY DEF FeeInv
  <2> QED
    BY <2>1, FundedBalance, Constants
<1> QED
  BY <1>1, FeeInvariant, PTL

\* The test against a forgotten output never fires on the engine's own results.
THEOREM EngineNeverOvercollects == Spec => []NeverOvercollects
<1>1. FeeInv => NeverOvercollects
  BY DEF FeeInv, NeverOvercollects
<1> QED
  BY <1>1, FeeInvariant, PTL

\* When the fee is found to be too low, a sat lost to rounding is all it lacks.
THEOREM ShortByASat == Spec => []RoundingOnly
<1>1. FeeInv => RoundingOnly
  <2> SUFFICES ASSUME FeeInv, pc = "under"
               PROVE  fee = MinRequired - 1
    BY DEF RoundingOnly
  <2>1. /\ Underfunded = {} /\ SumFunctionOnSet(share, Payers) = TotalFee
        /\ fee = Collected /\ fee < MinRequired
    BY DEF FeeInv
  <2>2. Collected \in Nat /\ TotalFee <= Collected
    BY <2>1, CollectedBounds
  <2>3. TotalFee \in Nat /\ MinRequired \in Nat /\ MinRequired <= TotalFee + 1
    BY LeastFee DEF FeeInv
  <2> QED
    BY <2>1, <2>2, <2>3
<1> QED
  BY <1>1, FeeInvariant, PTL

-----------------------------------------------------------------------------
(***************************************************************************)
(* The rate of the transaction as laid out.                                *)
(***************************************************************************)

\* By how much the layout is ahead of the one the fee was computed for: nothing if
\* the last pass changed nothing.
Lag == Overhead + NcVsize - portion

\* More vsize is no cheaper.
LEMMA FeeGrows ==
  ASSUME NEW v \in Int, NEW w \in Int, v <= w, NEW r \in Nat
  PROVE  Fee(v, r) \in Int /\ Fee(w, r) \in Int /\ Fee(v, r) <= Fee(w, r)
<1> DEFINE a == v * r
           b == w * r
           x == a \div RateUnit
           y == b \div RateUnit
           u == RateUnit
<1>1. u \in Nat \ {0}
  BY FeeAssumption
<1>2. a \in Int /\ b \in Int /\ a <= b
  <2>1. r * v <= r * w /\ r * v = v * r /\ r * w = w * r /\ v * r \in Int /\ w * r \in Int
    BY Arithmetic
  <2> QED
    BY <2>1
<1>3. Fee(v, r) = x /\ Fee(w, r) = y
  BY DEF Fee
<1> HIDE DEF a, b
<1>4. /\ x \in Int /\ y \in Int
      /\ x * u <= a /\ b < y * u + u
  BY <1>1, <1>2
<1> HIDE DEF x, y, u
<1>5. x <= y
  <2> SUFFICES ASSUME x >= y + 1 PROVE FALSE
    BY <1>4
  <2>1. u * (y + 1) = y * u + u /\ u * x = x * u /\ x * u \in Int /\ y * u \in Int
    BY <1>1, <1>4
  <2>2. u * (y + 1) <= u * x
    BY <1>1, <1>4, Arithmetic
  <2> QED
    BY <1>1, <1>2, <1>4, <2>1, <2>2
<1> QED
  BY <1>3, <1>4, <1>5

\* The transaction has no output that was not laid out.
LEMMA ActualSize ==
  ASSUME TypeOK, Stocked
  PROVE  ActualVsize \in Int /\ ActualVsize <= Overhead + NcVsize + ConfVsize
<1> DEFINE act == [i \in active |->
                    (file[i].ins + file[i].conf) * InV
                      + (Placed(i) + (IF ChangeSent(i) THEN 1 ELSE 0)) * OutV]
           own == [i \in active |-> file[i].ins * InV + (Layout(i).equal + Layout(i).change) * OutV]
           conf == [i \in active |-> file[i].conf]
           through == [i \in active |-> (InV + OutV) * conf[i]]
           both == [i \in active |-> own[i] + through[i]]
           w == [i \in Payers |-> Weight(i)]
<1>1. IsFiniteSet(active) /\ IsFiniteSet(Payers) /\ Payers \subseteq active /\ active \subseteq 1..N
  BY PeopleType
<1>2. ASSUME NEW i \in active
      PROVE  /\ act[i] \in Int /\ own[i] \in Int /\ conf[i] \in Int /\ through[i] \in Int
             /\ both[i] \in Int /\ act[i] <= both[i]
             /\ both[i] = own[i] + through[i] /\ through[i] = (InV + OutV) * conf[i]
             /\ i \in Payers => own[i] = w[i]
             /\ i \notin Payers => own[i] = 0
  <2> DEFINE n == file[i].ins
             c == file[i].conf
             e == Layout(i).equal
             h == Layout(i).change
             s == IF ChangeSent(i) THEN 1 ELSE 0
             p == Placed(i)
  <2>1. n \in Nat /\ c \in Nat /\ file[i].addrs \in Nat /\ e \in Nat /\ h \in {0, 1}
    <3>1. i \in 1..N
      BY <1>1
    <3> QED
      BY <3>1, FileType, LayoutType DEF Layouts
  <2>2. p \in Int /\ p <= c + e /\ p >= 0
    BY <2>1, MinOfTwo DEF Placed
  <2>3. s \in {0, 1} /\ s <= h
    BY <2>1 DEF ChangeSent
  <2>4. act[i] = (n + c) * InV + (p + s) * OutV
    OBVIOUS
  <2>5. own[i] = n * InV + (e + h) * OutV /\ through[i] = (InV + OutV) * c /\ conf[i] = c
    OBVIOUS
  <2>6. both[i] = own[i] + through[i] /\ through[i] = (InV + OutV) * conf[i]
    OBVIOUS
  <2>7. i \in Payers => own[i] = w[i]
    BY DEF Weight
  <2>8. i \notin Payers => n = 0 /\ e = 0 /\ h = 0
    BY <2>1 DEF Payers, Layout, Nothing
  <2> HIDE DEF n, c, e, h, s, p, act, own, conf, through, both, w
  <2>9. OutV * (p + s) <= OutV * (c + e + h)
    <3> DEFINE some == p + s
               all == c + e + h
    <3>1. some \in Int /\ all \in Int /\ some <= all
      BY <2>1, <2>2, <2>3
    <3>2. OutV \in Int /\ OutV >= 0
      BY Constants
    <3> HIDE DEF some, all
    <3>3. OutV * some <= OutV * all
      BY <3>1, <3>2, Arithmetic
    <3> QED
      BY <3>3 DEF some, all
  <2>10. /\ OutV * (p + s) = (p + s) * OutV /\ OutV * (c + e + h) = c * OutV + (e + h) * OutV
         /\ (n + c) * InV = n * InV + c * InV /\ (InV + OutV) * c = c * InV + c * OutV
         /\ n * InV \in Int /\ c * InV \in Int /\ c * OutV \in Int /\ (e + h) * OutV \in Int
         /\ (p + s) * OutV \in Int
    BY <2>1, <2>2, <2>3, Constants
  <2>11. own[i] \in Int /\ through[i] \in Int /\ both[i] \in Int /\ act[i] \in Int /\ act[i] <= both[i]
    BY <2>4, <2>5, <2>6, <2>9, <2>10
  <2>12. i \notin Payers => own[i] = 0
    BY <2>5, <2>8, Constants
  <2> QED
    BY <2>1, <2>5, <2>6, <2>7, <2>11, <2>12
<1>3. ActualVsize = Overhead + SumFunctionOnSet(act, active)
  BY DEF ActualVsize, SumFunction
<1>4. /\ NcVsize = SumFunctionOnSet(w, Payers) /\ NcVsize \in Nat /\ ConfVsize \in Nat
      /\ ConfVsize = SumFunctionOnSet(conf, active) * (InV + OutV)
  BY WeightsType, ConfType DEF ConfVsize, SumFunction
<1> HIDE DEF act, own, conf, through, both, w
<1>5. /\ SumFunctionOnSet(act, active) <= SumFunctionOnSet(both, active)
      /\ SumFunctionOnSet(act, active) \in Int
  <2>1. \A i \in active : act[i] \in Int /\ both[i] \in Int /\ act[i] <= both[i]
    BY <1>2
  <2>2. \A i \in active : act[i] \in Int
    BY <1>2
  <2> QED
    BY <2>1, <2>2, <1>1, SumLeq, SumTakes
<1>6. SumFunctionOnSet(both, active)
        = SumFunctionOnSet(own, active) + SumFunctionOnSet(through, active)
  <2>1. \A i \in active : own[i] \in Int /\ through[i] \in Int /\ both[i] = own[i] + through[i]
    BY <1>2
  <2>2. IsFiniteSet(active)
    BY <1>1
  <2> QED
    BY <2>1, <2>2, SumPlus
<1>7. SumFunctionOnSet(own, active) = NcVsize
  <2>1. \A i \in active : own[i] \in Int
    BY <1>2
  <2>2. \A i \in active \ Payers : own[i] = 0
    BY <1>2
  <2>3. SumFunctionOnSet(own, active) = SumFunctionOnSet(own, Payers)
    BY <2>1, <2>2, <1>1, SumOfSome
  <2>4. \A i \in Payers : own[i] \in Int /\ own[i] = w[i]
    BY <1>1, <1>2
  <2>5. SumFunctionOnSet(own, Payers) = SumFunctionOnSet(w, Payers)
    BY <2>4, <1>1, SumSame
  <2> QED
    BY <2>3, <2>5, <1>4
<1>8. SumFunctionOnSet(through, active) = ConfVsize
  <2> DEFINE k == InV + OutV
             sum == SumFunctionOnSet(conf, active)
  <2>1. \A i \in active : conf[i] \in Int /\ through[i] = k * conf[i]
    BY <1>2
  <2>2. k \in Int
    BY Constants
  <2>3. IsFiniteSet(active)
    BY <1>1
  <2> HIDE DEF k
  <2>4. SumFunctionOnSet(through, active) = k * SumFunctionOnSet(conf, active)
    BY <2>1, <2>2, <2>3, SumScale
  <2>5. \A i \in active : conf[i] \in Int
    BY <2>1
  <2>6. sum \in Int
    BY <2>5, <2>3, SumTakes
  <2>7. SumFunctionOnSet(through, active) = k * sum /\ ConfVsize = sum * k
    BY <2>4, <1>4 DEF k
  <2> HIDE DEF sum
  <2> QED
    BY <2>2, <2>6, <2>7, Arithmetic
<1> QED
  BY <1>3, <1>4, <1>5, <1>6, <1>7, <1>8, Constants

\* "So the total fee matches the real tx vsize at the target rate": what is sent pays
\* for its vsize, for all of it if the last pass changed nothing, but for a sat lost by
\* computing the fee in two parts.
THEOREM RateKept == Spec => [](pc = "sent" => fee >= Fee(ActualVsize - Lag, rate) - 1)
<1>1. FeeInv => (pc = "sent" => fee >= Fee(ActualVsize - Lag, rate) - 1)
  <2> SUFFICES ASSUME FeeInv, pc = "sent"
               PROVE  fee >= Fee(ActualVsize - Lag, rate) - 1
    OBVIOUS
  <2>1. /\ Underfunded = {} /\ SumFunctionOnSet(share, Payers) = TotalFee
        /\ fee = Collected /\ TypeOK /\ Stocked
    BY DEF FeeInv
  <2>2. Collected \in Nat /\ TotalFee <= Collected
    BY <2>1, CollectedBounds
  <2>3. /\ ActualVsize \in Int /\ ActualVsize <= Overhead + NcVsize + ConfVsize
        /\ NcVsize \in Nat /\ ConfVsize \in Nat /\ portion \in Nat /\ rate \in Nat
    BY <2>1, ActualSize, WeightsType, ConfType, Constants DEF TypeOK
  <2>4. ActualVsize - Lag \in Int /\ ActualVsize - Lag <= portion + ConfVsize
    BY <2>3, Constants DEF Lag
  <2>5. /\ Fee(ActualVsize - Lag, rate) <= Fee(portion + ConfVsize, rate)
        /\ Fee(ActualVsize - Lag, rate) \in Int /\ Fee(portion + ConfVsize, rate) \in Int
    BY <2>3, <2>4, FeeGrows
  <2>6. /\ Fee(portion + ConfVsize, rate) <= Fee(portion, rate) + Fee(ConfVsize, rate) + 1
        /\ Fee(portion, rate) \in Nat /\ Fee(ConfVsize, rate) \in Nat
    BY <2>3, FeeSplit
  <2> QED
    BY <2>1, <2>2, <2>5, <2>6 DEF TotalFee
<1> QED
  BY <1>1, FeeInvariant, PTL

-----------------------------------------------------------------------------
(***************************************************************************)
(* How far the layout may run ahead of the fee when three passes do not    *)
(* settle.  A share falls from one pass to the next by the overhead and    *)
(* some rounding, as long as the layout it pays for does not shrink; and   *)
(* where that is less than dust, it makes room for one more output.        *)
(***************************************************************************)

\* How many outputs a participant has at some cost.
Outs(nc, addrs, cost) == Plan(nc, addrs, cost).equal + Plan(nc, addrs, cost).change

\* Whole outputs and addresses against the funds.
LEMMA Room ==
  ASSUME NEW left \in Int, NEW addrs \in Nat, NEW most \in Int,
         NEW ms, ms = most * Size, NEW as, as = addrs * Size,
         ms <= left, left < ms + Size
  PROVE  /\ ms \in Int /\ as \in Int
         /\ left < Size => most <= 0
         /\ left >= Size => most >= 1
         /\ left > 0 => most >= 0
         /\ most >= 2 => ms >= 2 * Size
         /\ most > addrs => left - as >= Size
         /\ most = addrs => ms = as
         /\ most = 1 => ms = Size
         /\ addrs = 1 => as = Size
<1>s. Size \in Nat \ {0}
  BY Constants
<1>1. Size * most = ms /\ Size * addrs = as /\ ms \in Int /\ as \in Int
  BY <1>s, Arithmetic
<1>2. \A a, b \in Int : a <= b => Size * a <= Size * b
  BY <1>s, Arithmetic
<1>3. /\ Size * 1 = Size /\ Size * 2 = 2 * Size /\ Size * 0 = 0 /\ Size * (-1) = -Size
      /\ Size * (addrs + 1) = Size * addrs + Size
  BY <1>s, Arithmetic
<1>4. /\ 1 <= most => Size * 1 <= Size * most
      /\ most <= 0 => Size * most <= Size * 0
      /\ 2 <= most => Size * 2 <= Size * most
      /\ addrs + 1 <= most => Size * (addrs + 1) <= Size * most
      /\ most <= -1 => Size * most <= Size * (-1)
  BY <1>2
<1>5. /\ 1 <= most => Size <= ms
      /\ most <= 0 => ms <= 0
      /\ 2 <= most => 2 * Size <= ms
      /\ addrs + 1 <= most => as + Size <= ms
      /\ most <= -1 => ms <= -Size
  BY <1>1, <1>3, <1>4
<1>6. (most = addrs => ms = as) /\ (most = 1 => ms = Size) /\ (addrs = 1 => as = Size)
  BY <1>s
<1>7. (most >= 1 \/ most <= 0) /\ (most >= 0 \/ most <= -1)
  OBVIOUS
<1>8. most > addrs => addrs + 1 <= most
  OBVIOUS
<1> QED
  BY <1>s, <1>1, <1>5, <1>6, <1>7, <1>8

\* The whole outputs in what is left after the cost.
Whole(nc, cost) == (nc - cost) \div Size

\* It is a matter of what is left: an output for each whole Size of it and one for
\* a rest that is not dust, as far as the addresses go; none below one Size.
LEMMA OutsCount ==
  ASSUME Dust <= Size, NEW nc \in Nat, NEW addrs \in Nat, NEW cost \in Nat
  PROVE  /\ Whole(nc, cost) \in Int /\ Whole(nc, cost) * Size \in Int
         /\ Whole(nc, cost) * Size <= nc - cost
         /\ nc - cost < Whole(nc, cost) * Size + Size
         /\ Outs(nc, addrs, cost) =
              IF nc - cost < Size \/ addrs = 0 THEN 0
              ELSE IF addrs = 1 THEN (IF nc - cost < Size + Dust THEN 1 ELSE 2)
              ELSE IF Whole(nc, cost) >= addrs THEN addrs
              ELSE IF nc - cost < Whole(nc, cost) * Size + Dust THEN Whole(nc, cost)
              ELSE Whole(nc, cost) + 1
<1> DEFINE left == nc - cost
           most == Whole(nc, cost)
           equal == IF most < addrs THEN most ELSE addrs
           over == left - equal * Size
           plan == Plan(nc, addrs, cost)
           ms == most * Size
           as == addrs * Size
<1>s. Size \in Nat \ {0} /\ Dust \in Nat \ {0}
  BY Constants
<1>1. left \in Int
  OBVIOUS
<1>2. most \in Int /\ ms <= left /\ left < ms + Size
  BY <1>s, <1>1 DEF Whole
<1>3. plan = IF left <= 0 \/ addrs <= 0 \/ equal = 0 THEN Nothing
             ELSE IF over < Dust THEN [equal |-> equal, change |-> 0, sats |-> 0]
             ELSE IF equal = addrs /\ addrs >= 2
             THEN [equal |-> equal - 1, change |-> 1, sats |-> over + Size]
             ELSE [equal |-> equal, change |-> 1, sats |-> over]
  BY DEF Plan, Whole
<1>4. /\ ms \in Int /\ as \in Int
      /\ left < Size => most <= 0
      /\ left >= Size => most >= 1
      /\ left > 0 => most >= 0
      /\ most >= 2 => ms >= 2 * Size
      /\ most > addrs => left - as >= Size
      /\ most = addrs => ms = as
      /\ most = 1 => ms = Size
      /\ addrs = 1 => as = Size
  BY <1>1, <1>2, Room
<1>5. over = IF most < addrs THEN left - ms ELSE left - as
  OBVIOUS
<1>6. equal = IF most < addrs THEN most ELSE addrs
  OBVIOUS
<1> HIDE DEF left, most, equal, over, plan, ms, as
<1>7. plan.equal + plan.change =
              IF left < Size \/ addrs = 0 THEN 0
              ELSE IF addrs = 1 THEN (IF left < Size + Dust THEN 1 ELSE 2)
              ELSE IF most >= addrs THEN addrs
              ELSE IF left < ms + Dust THEN most ELSE most + 1
  <2>1. CASE left < Size \/ addrs = 0
    <3>0. left <= 0 \/ addrs <= 0 \/ equal = 0
      BY <1>1, <1>2, <1>4, <1>6, <2>1, <1>s
    <3>1. plan = Nothing
      BY <1>3, <3>0
    <3>2. plan.equal + plan.change = 0
      BY <3>1 DEF Nothing
    <3> QED
      BY <2>1, <3>2
  <2>2. CASE left >= Size /\ addrs >= 1 /\ most < addrs
    <3>1. /\ equal = most /\ over = left - ms /\ equal # 0 /\ equal # addrs
          /\ ~(left <= 0) /\ ~(addrs <= 0)
      BY <1>1, <1>2, <1>4, <1>5, <1>6, <2>2, <1>s
    <3>2. plan = IF left - ms < Dust THEN [equal |-> most, change |-> 0, sats |-> 0]
                 ELSE [equal |-> most, change |-> 1, sats |-> over]
      BY <1>3, <3>1, Zenon
    <3>3. plan.equal + plan.change = IF left - ms < Dust THEN most ELSE most + 1
      BY <3>2, <1>2
    <3>4. addrs # 1
      BY <1>2, <1>4, <2>2
    <3> QED
      BY <1>1, <1>2, <1>4, <2>2, <3>3, <3>4, <1>s
  <2>3. CASE left >= Size /\ addrs >= 1 /\ most >= addrs
    <3>0. ~(most < addrs) /\ left > 0 /\ addrs # 0
      BY <1>1, <1>2, <2>3, <1>s
    <3>1. equal = addrs /\ over = left - as /\ equal # 0 /\ ~(left <= 0) /\ ~(addrs <= 0)
      BY <1>1, <1>5, <1>6, <2>3, <3>0
    <3>2. plan = IF left - as < Dust THEN [equal |-> addrs, change |-> 0, sats |-> 0]
                 ELSE IF addrs >= 2
                 THEN [equal |-> addrs - 1, change |-> 1, sats |-> over + Size]
                 ELSE [equal |-> addrs, change |-> 1, sats |-> over]
      BY <1>3, <3>1, Zenon
    <3>3. plan.equal + plan.change = IF left - as < Dust THEN addrs
                                     ELSE IF addrs >= 2 THEN addrs ELSE addrs + 1
      BY <3>2
    <3>4. addrs = 1 => (left - as < Dust <=> left < Size + Dust)
      BY <1>1, <1>4, <1>s
    <3>6. ~(left < Size) /\ addrs # 0
      BY <1>1, <2>3, <1>s
    <3> DEFINE sum == plan.equal + plan.change
    <3>5. sum = IF left - as < Dust THEN addrs ELSE IF addrs >= 2 THEN addrs ELSE addrs + 1
      BY <3>3
    <3> HIDE DEF sum
    <3>7. sum = IF addrs = 1 THEN (IF left < Size + Dust THEN 1 ELSE 2) ELSE addrs
      <4>1. CASE addrs = 1
        <5>1. sum = IF left - as < Dust THEN 1 ELSE 2
          BY <3>5, <4>1
        <5>2. left - as < Dust <=> left < Size + Dust
          BY <3>4, <4>1
        <5> QED
          BY <4>1, <5>1, <5>2, Zenon
      <4>2. CASE addrs >= 2
        BY <3>5, <4>2
      <4> QED
        BY <2>3, <4>1, <4>2
    <3>8. sum = IF left < Size \/ addrs = 0 THEN 0
                ELSE IF addrs = 1 THEN (IF left < Size + Dust THEN 1 ELSE 2)
                ELSE IF most >= addrs THEN addrs
                ELSE IF left < ms + Dust THEN most ELSE most + 1
      BY <2>3, <3>6, <3>7
    <3> QED
      BY <3>8 DEF sum
  <2> QED
    BY <1>1, <1>2, <2>1, <2>2, <2>3, <1>s
<1> QED
  BY <1>2, <1>4, <1>7 DEF left, most, plan, ms, Outs

\* Paying more never gives more outputs, and dust saved gives one more at most.
LEMMA OutsStep ==
  ASSUME Dust <= Size, NEW nc \in Nat, NEW addrs \in Nat, NEW c \in Nat, NEW d \in Nat
  PROVE  /\ Outs(nc, addrs, c) \in Nat
         /\ c <= d => Outs(nc, addrs, d) <= Outs(nc, addrs, c)
         /\ c <= d /\ d <= c + Dust => Outs(nc, addrs, c) <= Outs(nc, addrs, d) + 1
<1> DEFINE l == nc - c
           m == nc - d
           j == Whole(nc, c)
           k == Whole(nc, d)
           oc == Outs(nc, addrs, c)
           od == Outs(nc, addrs, d)
           js == j * Size
           ks == k * Size
<1>s. Size \in Nat \ {0} /\ Dust \in Nat \ {0}
  BY Constants
<1>1. /\ l \in Int /\ j \in Int /\ js \in Int /\ js <= l /\ l < js + Size
      /\ oc = IF l < Size \/ addrs = 0 THEN 0
              ELSE IF addrs = 1 THEN (IF l < Size + Dust THEN 1 ELSE 2)
              ELSE IF j >= addrs THEN addrs
              ELSE IF l < js + Dust THEN j ELSE j + 1
  BY OutsCount
<1>2. /\ m \in Int /\ k \in Int /\ ks \in Int /\ ks <= m /\ m < ks + Size
      /\ od = IF m < Size \/ addrs = 0 THEN 0
              ELSE IF addrs = 1 THEN (IF m < Size + Dust THEN 1 ELSE 2)
              ELSE IF k >= addrs THEN addrs
              ELSE IF m < ks + Dust THEN k ELSE k + 1
  BY OutsCount
<1>3. /\ Size * j = js /\ Size * k = ks
      /\ Size * (j + 1) = js + Size /\ Size * (k + 1) = ks + Size /\ Size * (k + 2) = ks + 2 * Size
      /\ Size * 1 = Size
      /\ \A a, b \in Int : a <= b => Size * a <= Size * b
  BY <1>s, <1>1, <1>2, Arithmetic
<1>4. c <= d => m <= l
  OBVIOUS
<1>5. c <= d /\ d <= c + Dust => l <= m + Dust
  BY <1>s
<1> DEFINE js1 == Size * j
           ks1 == Size * k
<1>6. /\ j <= k => js <= ks
      /\ j < k => js + Size <= ks
      /\ k < j => ks + Size <= js
      /\ k + 2 <= j => ks + 2 * Size <= js
      /\ j <= 0 \/ js >= Size
      /\ k <= 0 \/ ks >= Size
  <2>1. (j <= k => Size * j <= Size * k) /\ (j + 1 <= k => Size * (j + 1) <= Size * k)
    BY <1>1, <1>2, <1>3
  <2>2. (k + 1 <= j => Size * (k + 1) <= Size * j) /\ (k + 2 <= j => Size * (k + 2) <= Size * j)
    BY <1>1, <1>2, <1>3
  <2>3. (1 <= j => Size * 1 <= Size * j) /\ (1 <= k => Size * 1 <= Size * k)
    BY <1>1, <1>2, <1>3
  <2>4. j \in Int /\ k \in Int
    BY <1>1, <1>2
  <2> HIDE DEF j, k, js, ks
  <2> QED
    BY <1>3, <2>1, <2>2, <2>3, <2>4
<1>7. (l >= Size => j >= 1) /\ (m >= Size => k >= 1)
  <2>1. (j <= 0 => Size * j <= Size * 0) /\ (k <= 0 => Size * k <= Size * 0) /\ Size * 0 = 0
    BY <1>1, <1>2, <1>3, <1>s
  <2> HIDE DEF j, k, js, ks, l, m
  <2> QED
    BY <1>1, <1>2, <1>3, <1>s, <2>1
<1> HIDE DEF l, m, j, k, oc, od, js, ks
<1>8. oc \in Nat
  BY <1>1, <1>7, <1>s
<1>9. ASSUME m <= l PROVE od <= oc
  <2>1. k <= j
    BY <1>1, <1>2, <1>6, <1>9, <1>s
  <2>2. k = j => ks = js
    BY <1>3
  <2>3. CASE m < Size \/ addrs = 0
    BY <1>2, <1>8, <2>3
  <2>4. CASE m >= Size /\ addrs # 0
    BY <1>1, <1>2, <1>7, <1>9, <2>1, <2>2, <2>4, <1>s
  <2> QED
    BY <2>3, <2>4, <1>2, <1>s
<1>10. ASSUME m <= l, l <= m + Dust PROVE oc <= od + 1
  <2>1. k <= j /\ j <= k + 1
    BY <1>1, <1>2, <1>6, <1>10, <1>s
  <2>2. (k = j => ks = js) /\ (j = k + 1 => js = ks + Size)
    BY <1>3, <1>2
  <2>3. CASE l < Size \/ addrs = 0
    BY <1>1, <1>2, <1>7, <1>10, <2>3, <1>s
  <2>4. CASE m < Size /\ l >= Size /\ addrs # 0
    <3>1. l < Size + Dust
      BY <1>1, <1>2, <1>10, <2>4, <1>s
    <3>2. j = 1 /\ js = Size
      <4>1. j >= 1
        BY <1>7, <2>4
      <4>2. j < 2
        <5>1. Size * 2 = 2 * Size /\ (2 <= j => Size * 2 <= Size * j)
          BY <1>1, <1>3, <1>s
        <5> QED
          BY <5>1, <3>1, <1>1, <1>3, <1>s
      <4> QED
        BY <4>1, <4>2, <1>1, <1>3
    <3> QED
      BY <1>1, <1>2, <2>4, <3>1, <3>2, <1>s
  <2>5. CASE m >= Size /\ addrs # 0
    <3>1. l >= Size
      BY <1>1, <1>2, <1>10, <2>5, <1>s
    <3>2. CASE addrs = 1
      BY <1>1, <1>2, <2>5, <3>1, <3>2, <1>s
    <3>3. CASE addrs # 1
      BY <1>1, <1>2, <1>10, <2>1, <2>2, <2>5, <3>1, <3>3, <1>s
    <3> QED
      BY <3>2, <3>3
  <2> QED
    BY <2>3, <2>4, <2>5, <1>1, <1>2, <1>s
<1> QED
  BY <1>4, <1>5, <1>8, <1>9, <1>10 DEF oc, od

\* Two halves cost no more than the whole.
LEMMA FeeAdds ==
  ASSUME NEW v \in Nat, NEW w \in Nat, NEW r \in Nat
  PROVE  Fee(v, r) + Fee(w, r) <= Fee(v + w, r)
<1> DEFINE a == v * r
           b == w * r
           x == a \div RateUnit
           y == b \div RateUnit
           z == (a + b) \div RateUnit
           u == RateUnit
<1>1. u \in Nat \ {0}
  BY FeeAssumption
<1>2. a \in Nat /\ b \in Nat /\ (v + w) * r = a + b
  BY Arithmetic
<1>3. Fee(v, r) = x /\ Fee(w, r) = y /\ Fee(v + w, r) = z
  BY <1>2 DEF Fee
<1> HIDE DEF a, b
<1>4. /\ x \in Nat /\ y \in Nat /\ z \in Nat
      /\ x * u <= a /\ y * u <= b /\ a + b < z * u + u
  BY <1>1, <1>2, Division
<1> HIDE DEF x, y, z, u
<1>5. x + y <= z
  <2> SUFFICES ASSUME x + y >= z + 1 PROVE FALSE
    BY <1>4
  <2>1. /\ u * (x + y) = x * u + y * u /\ u * (z + 1) = z * u + u
        /\ x * u \in Int /\ y * u \in Int /\ z * u \in Int
    BY <1>1, <1>4
  <2>2. u * (z + 1) <= u * (x + y)
    BY <1>1, <1>4, Arithmetic
  <2> QED
    BY <1>1, <1>2, <1>4, <2>1, <2>2
<1> QED
  BY <1>3, <1>5

\* A fee between the fees of the weights alone and of the weights with an overhead
\* gives everybody a part between the same.
LEMMA ShareFloor ==
  ASSUME NEW v \in Nat \ {0}, NEW w \in Nat, w <= v, NEW r \in Nat,
         NEW f \in Nat, Fee(v, r) <= f
  PROVE  (f * w) \div v \in Nat /\ Fee(w, r) - 1 <= (f * w) \div v
<1> DEFINE u == RateUnit
           vr == v * r
           wr == w * r
           x == vr \div u
           y == wr \div u
           p == f * w
           q == p \div v
<1>1. u \in Nat \ {0} /\ vr \in Nat /\ wr \in Nat /\ p \in Nat
  BY FeeAssumption, Arithmetic
<1>2. Fee(v, r) = x /\ Fee(w, r) = y
  BY DEF Fee
<1> HIDE DEF vr, wr, p, u
<1>3. /\ x \in Nat /\ vr < x * u + u
      /\ y \in Nat /\ y * u <= wr
      /\ q \in Nat /\ p < q * v + v
  BY <1>1, Division
<1>4. x <= f
  BY <1>2
<1> HIDE DEF x, y, q
<1>5. y - 1 <= q
  <2> SUFFICES ASSUME q + 2 <= y PROVE FALSE
    BY <1>3
  <2> DEFINE xu == x * u
             yu == y * u
             xw == x * w
             qv == q * v
             yv == y * v
  <2>1. xu \in Nat /\ yu \in Nat /\ xw \in Nat /\ qv \in Nat /\ yv \in Nat
    BY <1>1, <1>3, Arithmetic
  <2>2. xw <= p
    <3>1. w * x <= w * f /\ w * x = x * w /\ w * f = f * w
      BY <1>3, <1>4, Arithmetic
    <3> QED
      BY <3>1 DEF p
  <2>3. qv + v <= yv - v
    <3>1. v * (q + 2) <= v * y
      BY <1>3, Arithmetic
    <3>2. v * y = yv /\ v * (q + 2) = qv + 2 * v
      BY <1>3
    <3> HIDE DEF qv, yv
    <3> QED
      BY <2>1, <3>1, <3>2
  <2>4. xw + 1 <= yv - v
    <3> HIDE DEF qv, yv, xw
    <3>1. p < qv + v
      BY <1>3 DEF qv
    <3> QED
      BY <1>1, <2>1, <2>2, <2>3, <3>1
  <2>5. u * xw < u * (yv - v)
    <3> HIDE DEF yv, xw
    <3>1. u * (xw + 1) <= u * (yv - v) /\ u * (xw + 1) = u * xw + u * 1 /\ u * xw \in Int
          /\ u * (yv - v) \in Int
      BY <1>1, <2>1, <2>4, Arithmetic
    <3> QED
      BY <1>1, <3>1
  <2>6. w * (vr - u) <= w * xu
    <3>1. vr - u <= xu
      BY <1>1, <1>3
    <3> HIDE DEF xu
    <3> QED
      BY <1>1, <2>1, <3>1, Arithmetic
  <2>7. v * yu <= v * wr
    <3>1. yu <= wr
      BY <1>3
    <3> HIDE DEF yu
    <3> QED
      BY <1>1, <2>1, <3>1, Arithmetic
  <2>8. u * w <= u * v
    BY <1>1, Arithmetic
  <2>9. /\ w * xu = u * xw
        /\ v * yu = u * yv
        /\ u * (yv - v) = u * yv - u * v
        /\ w * (vr - u) = w * vr - u * w
    BY <1>1, <1>3, <2>1
  <2>10. w * vr = v * wr
    BY DEF vr, wr
  <2>11. /\ w * vr \in Int /\ v * wr \in Int /\ u * w \in Int /\ u * v \in Int
         /\ u * xw \in Int /\ u * yv \in Int
    BY <1>1, <2>1, Arithmetic
  <2> HIDE DEF xu, yu, xw, qv, yv
  <2> QED
    BY <2>5, <2>6, <2>7, <2>8, <2>9, <2>10, <2>11
<1> QED
  BY <1>2, <1>3, <1>5 DEF q, p

\* With the overhead on top of the weight alone, it covers the part too.
LEMMA ShareCeiling ==
  ASSUME NEW v \in Nat \ {0}, NEW w \in Nat, w <= v, NEW r \in Nat, NEW o \in Nat,
         NEW f \in Nat, f <= Fee(v + o, r)
  PROVE  (f * w) \div v \in Nat /\ (f * w) \div v <= Fee(w + o, r)
<1> DEFINE u == RateUnit
           vor == (v + o) * r
           wor == (w + o) * r
           x == vor \div u
           y == wor \div u
           p == f * w
           q == p \div v
<1>1. u \in Nat \ {0} /\ vor \in Nat /\ wor \in Nat /\ p \in Nat
  <2>1. v + o \in Nat /\ w + o \in Nat
    OBVIOUS
  <2> QED
    BY <2>1, FeeAssumption, Arithmetic
<1>2. Fee(v + o, r) = x /\ Fee(w + o, r) = y
  BY DEF Fee
<1> HIDE DEF vor, wor, p, u
<1>3. /\ x \in Nat /\ x * u <= vor
      /\ y \in Nat /\ wor < y * u + u
      /\ q \in Nat /\ q * v <= p
  BY <1>1, Division
<1>4. f <= x
  BY <1>2
<1> HIDE DEF x, y, q
<1>5. q <= y
  <2> SUFFICES ASSUME y + 1 <= q PROVE FALSE
    BY <1>3
  <2> DEFINE xu == x * u
             qu == q * u
             fu == f * u
             qv == q * v
             or == o * r
  <2>1. xu \in Nat /\ qu \in Nat /\ fu \in Nat /\ qv \in Nat /\ or \in Nat
    BY <1>1, <1>3, Arithmetic
  <2>2. wor + 1 <= qu
    <3>1. u * (y + 1) <= u * q /\ u * (y + 1) = y * u + u /\ u * q = q * u /\ y * u \in Int
      BY <1>1, <1>3, Arithmetic
    <3> QED
      BY <1>1, <1>3, <3>1
  <2>3. fu <= vor
    <3>1. u * f <= u * x /\ u * f = f * u /\ u * x = x * u
      BY <1>1, <1>3, <1>4, Arithmetic
    <3> HIDE DEF xu
    <3> QED
      BY <1>1, <1>3, <2>1, <3>1 DEF xu
  <2>4. v * wor < v * qu
    <3> HIDE DEF qu
    <3>1. v * (wor + 1) <= v * qu /\ v * (wor + 1) = v * wor + v * 1 /\ v * wor \in Int
          /\ v * qu \in Int
      BY <1>1, <2>1, <2>2, Arithmetic
    <3> QED
      BY <3>1
  <2>5. u * qv <= u * p
    <3>1. qv <= p
      BY <1>3
    <3> HIDE DEF qv
    <3> QED
      BY <1>1, <2>1, <3>1, Arithmetic
  <2>6. w * fu <= w * vor
    <3> HIDE DEF fu
    <3> QED
      BY <1>1, <2>1, <2>3, Arithmetic
  <2>7. or * w <= or * v
    <3> HIDE DEF or
    <3> QED
      BY <2>1, Arithmetic
  <2>8. v * qu = u * qv
    BY <1>1, <1>3
  <2>9. u * p = w * fu
    BY <1>1 DEF p
  <2>10. /\ v * wor = v * (w * r) + or * v
         /\ w * vor = v * (w * r) + or * w
    BY DEF wor, vor
  <2>11. /\ v * wor \in Int /\ w * vor \in Int /\ u * p \in Int /\ u * qv \in Int
         /\ or * w \in Int /\ or * v \in Int /\ v * (w * r) \in Int
    BY <1>1, <2>1, Arithmetic
  <2> HIDE DEF xu, qu, fu, qv, or
  <2> QED
    BY <2>4, <2>5, <2>6, <2>7, <2>8, <2>9, <2>10, <2>11
<1> QED
  BY <1>2, <1>3, <1>5 DEF q, p

\* What is split by weight loses less than a sat a head to rounding.
LEMMA SplitLoses ==
  ASSUME NEW S, IsFiniteSet(S), NEW w, \A i \in S : w[i] \in Nat,
         NEW total, total = SumFunctionOnSet(w, S), total > 0,
         NEW c \in Nat, NEW own, \A i \in S : own[i] = (c * w[i]) \div total
  PROVE  c <= SumFunctionOnSet(own, S) + Cardinality(S)
<1> DEFINE one == [i \in S |-> 1]
           up == [i \in S |-> own[i] + 1]
           cw == [i \in S |-> c * w[i]]
           to == [i \in S |-> total * up[i]]
<1>0. total \in Nat \ {0}
  BY SumNat
<1>1. ASSUME NEW i \in S
      PROVE  /\ own[i] \in Int /\ one[i] = 1 /\ up[i] = own[i] + one[i] /\ up[i] \in Int
             /\ cw[i] = c * w[i] /\ cw[i] \in Int
             /\ to[i] = total * up[i] /\ to[i] \in Int /\ cw[i] <= to[i]
  <2> DEFINE cwi == c * w[i]
             up1 == own[i] + 1
  <2>1. cwi \in Nat
    BY Arithmetic
  <2>2. own[i] = cwi \div total
    OBVIOUS
  <2>3. cw[i] = cwi /\ up[i] = up1 /\ to[i] = total * up1 /\ one[i] = 1
    OBVIOUS
  <2> HIDE DEF cwi, cw, to, up, one
  <2>4. own[i] \in Nat /\ cwi < own[i] * total + total
    BY <2>1, <2>2, <1>0, Division
  <2>5. total * (own[i] + 1) = own[i] * total + total /\ own[i] * total \in Int
    BY <2>4, <1>0
  <2> QED
    BY <2>1, <2>3, <2>4, <2>5, <1>0 DEF cwi
<1> HIDE DEF one, up, cw, to
<1>2. SumFunctionOnSet(cw, S) <= SumFunctionOnSet(to, S)
  BY <1>1, SumLeq
<1>3. SumFunctionOnSet(cw, S) = c * total
  <2>1. c \in Int /\ \A i \in S : w[i] \in Int /\ cw[i] = c * w[i]
    BY <1>1
  <2>2. SumFunctionOnSet(cw, S) = c * SumFunctionOnSet(w, S)
    BY <2>1, SumScale
  <2> QED
    BY <2>2
<1>4. SumFunctionOnSet(to, S) = total * SumFunctionOnSet(up, S)
  <2>1. PICK a \in Int : a = total
    BY <1>0
  <2>2. \A i \in S : up[i] \in Int /\ to[i] = a * up[i]
    BY <1>1, <2>1
  <2>3. SumFunctionOnSet(to, S) = a * SumFunctionOnSet(up, S)
    BY <2>2, SumScale
  <2> QED
    BY <2>1, <2>3
<1>5. SumFunctionOnSet(one, S) = 1 * Cardinality(S)
  <2>1. \A i \in S : one[i] = 1
    BY <1>1
  <2> QED
    BY <2>1, SumConstant
<1>6. SumFunctionOnSet(up, S) = SumFunctionOnSet(own, S) + SumFunctionOnSet(one, S)
  <2>1. \A i \in S : own[i] \in Int /\ one[i] \in Int /\ up[i] = own[i] + one[i]
    BY <1>1
  <2> QED
    BY <2>1, SumPlus
<1> DEFINE all == SumFunctionOnSet(up, S)
<1>7. all \in Int
  BY <1>1, SumTakes
<1>8. total * c <= total * all
  BY <1>0, <1>2, <1>3, <1>4
<1> HIDE DEF all
<1>9. c <= all
  BY <1>0, <1>7, <1>8, Arithmetic
<1>10. Cardinality(S) \in Nat
  BY FS_CardinalityType
<1> QED
  BY <1>5, <1>6, <1>9, <1>10 DEF all

\* What is split by weight in a pass, and the part of one payer before the last makes
\* up for the rounding.
MinerFee == Fee(Overhead + NcVsize, rate)
Own(i) == (MinerFee * Weight(i)) \div NcVsize

\* What a payer pays for the coins that pass through: the same in every pass.
Burden(i) ==
  LET conforming == Fee(ConfVsize, rate)
      even == conforming \div Cardinality(Payers)
  IN  IF i = Max(Payers) THEN conforming - even * (Cardinality(Payers) - 1) ELSE even

\* Those are the shares, but for the rounding that the last payer makes up for.
LEMMA SharesSplit ==
  ASSUME TypeOK, Payers # {}
  PROVE  /\ MinerFee \in Nat
         /\ \A i \in Payers : /\ Own(i) \in Nat /\ Burden(i) \in Nat
                              /\ Own(i) + Burden(i) <= NewShares[i]
                              /\ NewShares[i] <= Own(i) + Burden(i) + N
<1> DEFINE conforming == Fee(ConfVsize, rate)
           k == Cardinality(Payers)
           even == conforming \div k
           last == Max(Payers)
           others == Payers \ {last}
           own == [i \in Payers |-> Own(i)]
           w == [i \in Payers |-> Weight(i)]
           ev == [i \in others |-> even]
           new == NewShares
           rest == k - 1
<1>1. IsFiniteSet(Payers) /\ Payers \subseteq 1..N
  BY PeopleType
<1>2. last \in Payers
  BY MaxIn
<1>3. /\ k \in Nat \ {0} /\ rest \in Nat /\ Cardinality(others) = rest /\ IsFiniteSet(others)
      /\ k <= N
  <2>1. k \in Nat \ {0} /\ Cardinality(others) = rest /\ IsFiniteSet(others)
    BY <1>1, <1>2, FS_RemoveElement, FS_CardinalityType, FS_EmptySet
  <2>2. IsFiniteSet(1..N) /\ Cardinality(1..N) = N
    BY Constants, FS_Interval
  <2>3. k <= N
    BY <1>1, <2>2, FS_Subset
  <2> QED
    BY <2>1, <2>3
<1>4. MinerFee \in Nat /\ conforming \in Nat
  <2>1. rate \in Nat /\ ConfVsize \in Nat /\ Overhead + NcVsize \in Nat
    BY Constants, WeightsType, ConfType DEF TypeOK
  <2> QED
    BY <2>1, FeeSplit DEF MinerFee
<1>5. even \in Nat /\ even * rest \in Nat /\ even * rest <= conforming
  <2> HIDE DEF conforming, k
  <2>1. even \in Nat /\ even * k <= conforming
    BY <1>3, <1>4, Division
  <2> HIDE DEF even
  <2>2. even * rest = even * k - even /\ even * k \in Int
    BY <2>1, <1>3, Arithmetic
  <2>3. even * rest >= 0
    <3>1. rest \in Nat
      BY <1>3
    <3> HIDE DEF rest
    <3> QED
      BY <2>1, <3>1, Arithmetic
  <2> HIDE DEF rest
  <2> QED
    BY <2>1, <2>2, <2>3, <1>4
<1>6. /\ \A i \in Payers : own[i] \in Nat
      /\ SumFunctionOnSet(own, Payers) \in Nat
      /\ SumFunctionOnSet(own, Payers) <= MinerFee
      /\ MinerFee <= SumFunctionOnSet(own, Payers) + k
  <2>1. NcVsize > 0 /\ NcVsize = SumFunctionOnSet(w, Payers) /\ \A i \in Payers : w[i] \in Nat
    BY WeightsType
  <2>2. \A i \in Payers : own[i] = (MinerFee * w[i]) \div NcVsize
    BY DEF Own
  <2> HIDE DEF own, w
  <2>3. /\ \A i \in Payers : own[i] \in Nat
        /\ SumFunctionOnSet(own, Payers) \in Nat
        /\ SumFunctionOnSet(own, Payers) <= MinerFee
    BY <1>1, <1>4, <2>1, <2>2, SplitByWeight
  <2>4. MinerFee <= SumFunctionOnSet(own, Payers) + Cardinality(Payers)
    BY <1>1, <1>4, <2>1, <2>2, SplitLoses
  <2> QED
    BY <2>3, <2>4
<1>7. \A i \in others : new[i] = own[i] + even
  <2>1. ASSUME NEW i \in others PROVE new[i] = own[i] + even
    <3>1. i \in 1..N /\ i \in Payers /\ own[i] \in Nat /\ own[i] = Own(i)
      BY <1>1, <1>6
    <3>2. new[i] = AtLeastZero((MinerFee * Weight(i)) \div NcVsize) + AtLeastZero(even)
      BY <3>1 DEF NewShares, MinerFee
    <3>3. new[i] = AtLeastZero(own[i]) + AtLeastZero(even)
      BY <3>1, <3>2 DEF Own
    <3> HIDE DEF new, own, even
    <3> QED
      BY <3>1, <3>3, <1>5 DEF AtLeastZero
  <2> QED
    BY <2>1
<1>8. /\ \A i \in Payers : new[i] \in Nat
      /\ SumFunctionOnSet(new, Payers) = MinerFee + conforming
  BY <1>1, SharesOfPass DEF MinerFee
<1>b. \A i \in Payers : Burden(i) = IF i = last THEN conforming - even * rest ELSE even
  BY DEF Burden
<1>o. \A i \in Payers : own[i] = Own(i)
  OBVIOUS
<1>e. \A i \in others : ev[i] = even
  OBVIOUS
<1>t. last \in Payers /\ others = Payers \ {last}
  BY <1>2
<1> HIDE DEF own, new, ev, conforming, even, k, last, others, w
<1>9. SumFunctionOnSet(new, others) = SumFunctionOnSet(own, others) + even * rest
  <2>1. \A i \in others : own[i] \in Int /\ ev[i] \in Int /\ new[i] = own[i] + ev[i]
    BY <1>5, <1>6, <1>7, <1>e, <1>t
  <2>2. SumFunctionOnSet(new, others) = SumFunctionOnSet(own, others) + SumFunctionOnSet(ev, others)
    BY <2>1, <1>3, SumPlus
  <2>3. SumFunctionOnSet(ev, others) = even * Cardinality(others)
    <3>1. even \in Int
      BY <1>5
    <3> QED
      BY <3>1, <1>e, <1>3, SumConstant
  <2> QED
    BY <2>2, <2>3, <1>3
<1>10. /\ SumFunctionOnSet(new, Payers) = new[last] + SumFunctionOnSet(new, others)
       /\ SumFunctionOnSet(own, Payers) = own[last] + SumFunctionOnSet(own, others)
  <2>1. IsFiniteSet(Payers)
    BY <1>1
  <2>2. \A i \in Payers : new[i] \in Int
    BY <1>8
  <2>3. \A i \in Payers : own[i] \in Int
    BY <1>6
  <2>4. \A x \in Payers : SumFunctionOnSet(new, Payers) = new[x] + SumFunctionOnSet(new, Payers \ {x})
    BY <2>1, <2>2, SumTakes
  <2>5. \A x \in Payers : SumFunctionOnSet(own, Payers) = own[x] + SumFunctionOnSet(own, Payers \ {x})
    BY <2>1, <2>3, SumTakes
  <2> QED
    BY <2>4, <2>5, <1>t
<1>11. SumFunctionOnSet(own, others) \in Nat
  BY <1>3, <1>6, <1>t, SumNat
<1>12. /\ own[last] + (conforming - even * rest) <= new[last]
       /\ new[last] <= own[last] + (conforming - even * rest) + N
       /\ conforming - even * rest \in Nat
  <2>1. own[last] \in Nat /\ new[last] \in Nat /\ N \in Nat
    BY <1>6, <1>8, <1>t, Constants
  <2> DEFINE er == even * rest
             so == SumFunctionOnSet(own, others)
             sn == SumFunctionOnSet(new, others)
             sp == SumFunctionOnSet(own, Payers)
             mf == MinerFee
  <2>2. /\ er \in Nat /\ er <= conforming /\ sn = so + er /\ mf + conforming = new[last] + sn
        /\ sp = own[last] + so /\ sp <= mf /\ mf <= sp + k /\ k <= N /\ k \in Nat
        /\ so \in Nat /\ sp \in Nat /\ mf \in Nat /\ conforming \in Nat
    BY <1>3, <1>4, <1>5, <1>6, <1>8, <1>9, <1>10, <1>11
  <2> HIDE DEF er, so, sn, sp, mf
  <2> QED
    BY <2>1, <2>2 DEF er
<1>13. ASSUME NEW i \in Payers
       PROVE  /\ Own(i) \in Nat /\ Burden(i) \in Nat
              /\ Own(i) + Burden(i) <= NewShares[i]
              /\ NewShares[i] <= Own(i) + Burden(i) + N
  <2>1. Own(i) = own[i] /\ own[i] \in Nat /\ NewShares = new
    BY <1>o, <1>6 DEF new
  <2>2. CASE i = last
    <3>1. Burden(i) = conforming - even * rest
      BY <1>b, <2>2
    <3> HIDE DEF rest
    <3> QED
      BY <2>1, <2>2, <3>1, <1>12
  <2>3. CASE i # last
    <3>1. Burden(i) = even /\ i \in others
      BY <1>b, <1>t, <2>3
    <3>2. new[i] = own[i] + even
      BY <3>1, <1>7
    <3> HIDE DEF rest
    <3> QED
      BY <2>1, <3>1, <3>2, <1>5, Constants
  <2> QED
    BY <2>2, <2>3
<1> QED
  BY <1>4, <1>13

\* What a payer of that weight may be charged in a pass.
Pays(cost, vsize, r, burden) ==
  /\ Fee(vsize, r) - 1 + burden <= cost
  /\ cost <= Fee(vsize + Overhead, r) + N + burden

\* Who does not weigh less pays no less, but for what an overhead costs and rounding;
\* that is less than dust.
LEMMA PaysNoLess ==
  ASSUME Damped, NEW r \in Rates, NEW v \in Nat, NEW w \in Nat, v <= w, NEW b \in Nat,
         NEW c \in Nat, NEW d \in Nat, Pays(c, v, r, b), Pays(d, w, r, b)
  PROVE  c <= d + Dust
<1>1. r \in Nat /\ Overhead \in Nat /\ N \in Nat /\ Dust \in Nat /\ v + Overhead \in Nat
  BY Constants
<1>2. Fee(Overhead, r) + N + 2 <= Dust
  BY DEF Damped
<1>3. Fee(v + Overhead, r) <= Fee(v, r) + Fee(Overhead, r) + 1
  BY <1>1, FeeSplit
<1>4. Fee(v, r) <= Fee(w, r)
  BY <1>1, FeeGrows
<1>5. /\ Fee(v, r) \in Nat /\ Fee(w, r) \in Nat /\ Fee(Overhead, r) \in Nat
      /\ Fee(v + Overhead, r) \in Nat
  BY <1>1, FeeSplit
<1>6. c <= Fee(v + Overhead, r) + N + b /\ Fee(w, r) - 1 + b <= d
  BY DEF Pays
<1> DEFINE fv == Fee(v, r)
           fw == Fee(w, r)
           fo == Fee(Overhead, r)
           fvo == Fee(v + Overhead, r)
<1>7. /\ fo + N + 2 <= Dust /\ fvo <= fv + fo + 1 /\ fv <= fw
      /\ c <= fvo + N + b /\ fw - 1 + b <= d
      /\ fv \in Nat /\ fw \in Nat /\ fo \in Nat /\ fvo \in Nat /\ N \in Nat /\ Dust \in Nat
  BY <1>1, <1>2, <1>3, <1>4, <1>5, <1>6
<1> HIDE DEF fv, fw, fo, fvo
<1> QED
  BY <1>7

\* An output more costs more than an overhead and rounding.
LEMMA PaysMore ==
  ASSUME Damped, NEW r \in Rates, NEW v \in Nat, NEW w \in Nat, v + OutV <= w, NEW b \in Nat,
         NEW c \in Nat, NEW d \in Nat, Pays(c, v, r, b), Pays(d, w, r, b)
  PROVE  c <= d
<1> DEFINE vo == v + Overhead
           more == OutV - Overhead
<1>1. /\ r \in Nat /\ N \in Nat /\ vo \in Nat /\ more \in Nat /\ vo + more <= w
      /\ vo + more \in Nat
  BY Constants DEF Damped
<1>2. Fee(more, r) > N
  BY DEF Damped
<1>6. c <= Fee(vo, r) + N + b /\ Fee(w, r) - 1 + b <= d
  BY DEF Pays
<1> HIDE DEF vo, more
<1>3. Fee(vo, r) + Fee(more, r) <= Fee(vo + more, r)
  BY <1>1, FeeAdds
<1>4. Fee(vo + more, r) <= Fee(w, r)
  BY <1>1, FeeGrows
<1>5. Fee(vo, r) \in Nat /\ Fee(more, r) \in Nat /\ Fee(vo + more, r) \in Nat /\ Fee(w, r) \in Nat
  BY <1>1, FeeSplit
<1> QED
  BY <1>1, <1>2, <1>3, <1>4, <1>5, <1>6

\* Three passes leave a payer's layout an output ahead of the fee at most.
LEMMA OneOutputAhead ==
  ASSUME Damped, NEW r \in Rates, NEW nc \in Nat, NEW addrs \in Nat, NEW ins \in Nat, NEW b \in Nat,
         NEW s \in Nat, NEW t \in Nat, NEW u \in Nat,
         Pays(s, ins + Outs(nc, addrs, 0) * OutV, r, b),
         Pays(t, ins + Outs(nc, addrs, s) * OutV, r, b),
         Pays(u, ins + Outs(nc, addrs, t) * OutV, r, b)
  PROVE  Outs(nc, addrs, u) <= Outs(nc, addrs, t) + 1
<1> DEFINE o(c) == Outs(nc, addrs, c)
           W(c) == ins + o(c) * OutV
<1>d. Dust <= Size
  BY DEF Damped
<1>1. ASSUME NEW c \in Nat, NEW e \in Nat
      PROVE  /\ o(c) \in Nat
             /\ c <= e => o(e) <= o(c)
             /\ c <= e /\ e <= c + Dust => o(c) <= o(e) + 1
  BY <1>d, OutsStep
<1>2. ASSUME NEW c \in Nat, NEW e \in Nat
      PROVE  /\ W(c) \in Nat
             /\ o(c) <= o(e) => W(c) <= W(e)
             /\ o(c) < o(e) => W(c) + OutV <= W(e)
  <2> DEFINE x == o(c)
             y == o(e)
             xo == x * OutV
             yo == y * OutV
  <2>1. x \in Nat /\ y \in Nat /\ OutV \in Nat
    BY <1>1, Constants
  <2>2. W(c) = ins + xo /\ W(e) = ins + yo
    OBVIOUS
  <2> HIDE DEF x, y, W
  <2>3. /\ OutV * x = xo /\ OutV * y = yo /\ OutV * (x + 1) = xo + OutV
        /\ xo \in Nat /\ yo \in Nat
    BY <2>1, Arithmetic
  <2>4. (x <= y => OutV * x <= OutV * y) /\ (x + 1 <= y => OutV * (x + 1) <= OutV * y)
    BY <2>1, Arithmetic
  <2> HIDE DEF xo, yo
  <2>5. (x <= y => xo <= yo) /\ (x < y => xo + OutV <= yo)
    BY <2>1, <2>3, <2>4
  <2> QED
    BY <2>1, <2>2, <2>3, <2>5 DEF x, y
<1>3. Pays(s, W(0), r, b) /\ Pays(t, W(s), r, b) /\ Pays(u, W(t), r, b)
  OBVIOUS
<1> HIDE DEF W, o
<1>4. /\ W(0) \in Nat /\ W(s) \in Nat /\ W(t) \in Nat
      /\ o(0) \in Nat /\ o(s) \in Nat /\ o(t) \in Nat /\ o(u) \in Nat /\ Dust \in Nat
  BY <1>1, <1>2, Constants
<1>5. CASE o(s) <= o(t)
  <2>1. W(s) <= W(t)
    BY <1>2, <1>5
  <2>2. t <= u + Dust
    BY <2>1, <1>3, <1>4, PaysNoLess
  <2>3. CASE t <= u
    <3>1. o(u) <= o(t)
      BY <2>3, <1>1
    <3> QED
      BY <3>1, <1>4 DEF o
  <2>4. CASE u <= t
    BY <2>2, <2>4, <1>1 DEF o
  <2> QED
    BY <2>3, <2>4
<1>6. CASE o(t) < o(s)
  <2>1. s <= t
    <3>1. t <= s => o(s) <= o(t)
      BY <1>1
    <3> QED
      BY <3>1, <1>4, <1>6
  <2>2. o(s) <= o(0) /\ o(u) <= o(0)
    BY <1>1
  <2>3. ~(o(s) < o(0))
    <3> SUFFICES ASSUME o(s) < o(0) PROVE FALSE
      OBVIOUS
    <3>1. W(s) + OutV <= W(0)
      BY <1>2
    <3>2. t <= s
      BY <3>1, <1>3, <1>4, PaysMore
    <3>3. s = t
      BY <2>1, <3>2
    <3>4. o(s) = o(t)
      BY <3>3
    <3> QED
      BY <3>4, <1>6, <1>4
  <2>4. o(s) = o(0)
    BY <2>2, <2>3, <1>4
  <2>5. W(s) <= W(0)
    BY <2>2, <1>2
  <2>6. t <= s + Dust
    BY <2>5, <1>3, <1>4, PaysNoLess
  <2>7. o(s) <= o(t) + 1
    BY <2>1, <2>6, <1>1
  <2> QED
    BY <2>2, <2>4, <2>7, <1>4 DEF o
<1> QED
  BY <1>4, <1>5, <1>6 DEF o

\* Weights and vsize as laid out for some shares, and what the pass that starts from
\* them charges.
WeightAt(s, i) == file[i].ins * InV + Outs(file[i].nc, Spare(i), s[i]) * OutV
VsizeAt(s) == SumFunctionOnSet([i \in Payers |-> WeightAt(s, i)], Payers)
Charges(s, t) == \A i \in Payers : Pays(t[i], WeightAt(s, i), rate, Burden(i))
Free == [i \in 1..N |-> 0]

\* A pass charges for the layout it started from.
LEMMA PassCharges ==
  ASSUME TypeOK, Payers # {}
  PROVE  Charges(share, NewShares) /\ NcVsize = VsizeAt(share)
<1> DEFINE w == [i \in Payers |-> Weight(i)]
<1>1. \A i \in Payers : Weight(i) = WeightAt(share, i)
  BY DEF Weight, WeightAt, Layout, Outs
<1>2. /\ NcVsize = SumFunctionOnSet(w, Payers) /\ NcVsize \in Nat \ {0}
      /\ \A i \in Payers : Weight(i) \in Nat
  BY WeightsType
<1>3. w = [i \in Payers |-> WeightAt(share, i)]
  BY <1>1
<1>4. ASSUME NEW i \in Payers
      PROVE  Pays(NewShares[i], WeightAt(share, i), rate, Burden(i))
  <2>1. Weight(i) <= NcVsize
    <3>1. \A j \in Payers : w[j] \in Nat
      BY <1>2
    <3>2. IsFiniteSet(Payers) /\ IsFiniteSet(Payers \ {i})
      BY PeopleType, FS_Subset
    <3>3. w[i] = Weight(i)
      OBVIOUS
    <3> HIDE DEF w
    <3>4. \A j \in Payers : w[j] \in Int
      BY <3>1
    <3>5. \A j \in Payers :
            SumFunctionOnSet(w, Payers) = w[j] + SumFunctionOnSet(w, Payers \ {j})
      BY <3>2, <3>4, SumTakes
    <3>6. SumFunctionOnSet(w, Payers \ {i}) \in Nat
      BY <3>1, <3>2, SumNat
    <3> QED
      BY <3>1, <3>3, <3>5, <3>6, <1>2
  <2>2. /\ MinerFee \in Nat /\ Own(i) \in Nat /\ Burden(i) \in Nat
        /\ Own(i) + Burden(i) <= NewShares[i]
        /\ NewShares[i] <= Own(i) + Burden(i) + N
    BY SharesSplit
  <2>3. NewShares[i] \in Nat
    BY SharesOfPass, PeopleType
  <2>4. rate \in Nat /\ Overhead \in Nat /\ Weight(i) \in Nat /\ N \in Nat
    BY <1>2, Constants DEF TypeOK
  <2>5. Fee(NcVsize, rate) <= MinerFee /\ MinerFee = Fee(NcVsize + Overhead, rate)
    <3>1. Overhead + NcVsize = NcVsize + Overhead
      BY <1>2, <2>4
    <3>2. MinerFee = Fee(NcVsize + Overhead, rate)
      BY <3>1 DEF MinerFee
    <3> QED
      BY <3>2, <2>4, <1>2, FeeGrows
  <2>6. Fee(Weight(i), rate) - 1 <= Own(i)
    <3> DEFINE v == NcVsize
               wi == Weight(i)
               f == MinerFee
    <3>1. v \in Nat \ {0} /\ wi \in Nat /\ wi <= v /\ f \in Nat /\ Fee(v, rate) <= f
      BY <1>2, <2>1, <2>2, <2>4, <2>5
    <3>2. Own(i) = (f * wi) \div v
      BY DEF Own
    <3> HIDE DEF v, wi, f
    <3>3. Fee(wi, rate) - 1 <= (f * wi) \div v
      BY <3>1, <2>4, ShareFloor
    <3> QED
      BY <3>2, <3>3 DEF wi
  <2>7. Own(i) <= Fee(Weight(i) + Overhead, rate)
    <3> DEFINE v == NcVsize
               wi == Weight(i)
               f == MinerFee
    <3>1. v \in Nat \ {0} /\ wi \in Nat /\ wi <= v /\ f \in Nat /\ f <= Fee(v + Overhead, rate)
      BY <1>2, <2>1, <2>2, <2>4, <2>5
    <3>2. Own(i) = (f * wi) \div v
      BY DEF Own
    <3> HIDE DEF v, wi, f
    <3>3. (f * wi) \div v <= Fee(wi + Overhead, rate)
      BY <3>1, <2>4, ShareCeiling
    <3> QED
      BY <3>2, <3>3 DEF wi
  <2>8. Fee(Weight(i), rate) \in Nat /\ Fee(Weight(i) + Overhead, rate) \in Nat
    <3>1. Weight(i) + Overhead \in Nat
      BY <2>4
    <3> QED
      BY <3>1, <2>4, FeeSplit
  <2>9. Pays(NewShares[i], Weight(i), rate, Burden(i))
    <3> DEFINE lo == Fee(Weight(i), rate)
               hi == Fee(Weight(i) + Overhead, rate)
    <3>1. lo \in Nat /\ hi \in Nat /\ lo - 1 <= Own(i) /\ Own(i) <= hi
      BY <2>6, <2>7, <2>8
    <3> HIDE DEF lo, hi
    <3>2. lo - 1 + Burden(i) <= NewShares[i] /\ NewShares[i] <= hi + N + Burden(i)
      BY <3>1, <2>2, <2>3, <2>4
    <3> QED
      BY <3>2 DEF Pays, lo, hi
  <2> QED
    BY <2>9, <1>1
<1>5. Charges(share, NewShares)
  BY <1>4 DEF Charges
<1>6. NcVsize = VsizeAt(share)
  BY <1>2, <1>3 DEF VsizeAt
<1> QED
  BY <1>5, <1>6

\* How the shares came about.
History ==
  /\ pass = 0 => share = Free
  /\ pass = 1 => Charges(Free, share) /\ portion = Overhead + VsizeAt(Free)
  /\ pass = 2 => \E s \in [1..N -> Nat] :
       Charges(Free, s) /\ Charges(s, share) /\ portion = Overhead + VsizeAt(s)
  /\ pass = 3 => \E s, t \in [1..N -> Nat] :
       /\ Charges(Free, s) /\ Charges(s, t) /\ Charges(t, share)
       /\ portion = Overhead + VsizeAt(t)
  /\ pc \in {"check", "build", "sent"} /\ pass < 3 => Lag = 0

\* At the start there is none.
LEMMA HistoryInit == Init => History
  BY DEF Init, History, Free

\* Every pass adds to it, and a drop wipes it.
LEMMA HistoryStep == FeeInv /\ History /\ [Next]_vars => History'
<1> SUFFICES ASSUME FeeInv, History, [Next]_vars
             PROVE  History'
  OBVIOUS
<1>u. ASSUME UNCHANGED <<file, rate, active>>, NEW s, NEW t
      PROVE  /\ Charges(s, t)' = Charges(s, t)
             /\ VsizeAt(s)' = VsizeAt(s)
  BY <1>u DEF Charges, VsizeAt, WeightAt, Payers, Spare, Burden, ConfVsize
<1>t. TypeOK
  BY DEF FeeInv
<1>1. CASE Pass
  <2>0. Payers # {} /\ UNCHANGED <<file, rate, active>> /\ pass' = pass + 1 /\ pass \in 0..2
    BY <1>1 DEF Pass, FeeInv, TypeOK
  <2>1. PICK b \in [1..N -> Nat] : b = share
    BY <1>t DEF TypeOK
  <2>2. NewShares \in [1..N -> Nat]
    BY <1>t, <2>0, SharesOfPass
  <2>3. PICK c \in [1..N -> Nat] : c = NewShares
    BY <2>2
  <2>4. Charges(b, c) /\ NcVsize = VsizeAt(b)
    BY <1>t, <2>0, <2>1, <2>3, PassCharges
  <2>5. share' = c /\ portion' = Overhead + VsizeAt(b)
    BY <1>1, <2>3, <2>4 DEF Pass
  <2>6. /\ Charges(b, c)' = Charges(b, c) /\ VsizeAt(b)' = VsizeAt(b)
    BY <1>u, <2>0
  <2>7. Charges(b, share)' /\ (portion = Overhead + VsizeAt(b))'
    BY <2>4, <2>5, <2>6 DEF Charges
  <2>8. (pc' \in {"check", "build", "sent"} /\ pass' < 3) => Lag' = 0
    <3> SUFFICES ASSUME pc' \in {"check", "build", "sent"}, pass' < 3
                 PROVE  Lag' = 0
      OBVIOUS
    <3>1. share' = share
      BY <1>1 DEF Pass
    <3>2. NcVsize' = NcVsize
      BY <3>1, <2>0 DEF NcVsize, Payers, Weight, Layout, Spare
    <3>3. portion' = Overhead + NcVsize /\ Overhead \in Nat /\ NcVsize \in Nat
      BY <1>1, <1>t, WeightsType, Constants DEF Pass
    <3>4. Lag' = Overhead + NcVsize - (Overhead + NcVsize)
      BY <3>2, <3>3 DEF Lag
    <3> QED
      BY <3>3, <3>4
  <2>9. CASE pass = 0
    <3>1. b = Free /\ pass' = 1
      BY <2>0, <2>1, <2>9 DEF History
    <3>2. Charges(Free, share)' /\ (portion = Overhead + VsizeAt(Free))'
      BY <3>1, <2>7
    <3> QED
      BY <3>1, <3>2, <2>8 DEF History
  <2>10. CASE pass = 1
    <3>1. pass' = 2 /\ Charges(Free, b)
      BY <2>0, <2>1, <2>10 DEF History
    <3>2. Charges(Free, b)'
      BY <3>1, <1>u, <2>0
    <3>3. \E q \in [1..N -> Nat] :
            Charges(Free, q)' /\ Charges(q, share)' /\ (portion = Overhead + VsizeAt(q))'
      BY <3>2, <2>7
    <3> QED
      BY <3>1, <3>3, <2>8 DEF History
  <2>11. CASE pass = 2
    <3>1. pass' = 3
      BY <2>0, <2>11
    <3>2. PICK a \in [1..N -> Nat] : Charges(Free, a) /\ Charges(a, b)
      BY <2>1, <2>11 DEF History
    <3>3. Charges(Free, a)' /\ Charges(a, b)'
      BY <3>2, <1>u, <2>0
    <3>4. \E q, p \in [1..N -> Nat] :
            /\ Charges(Free, q)' /\ Charges(q, p)' /\ Charges(p, share)'
            /\ (portion = Overhead + VsizeAt(p))'
      BY <3>3, <2>7
    <3> QED
      BY <3>1, <3>4, <2>8 DEF History
  <2> QED
    BY <2>0, <2>9, <2>10, <2>11
<1>2. ASSUME UNCHANGED <<file, rate, active, pass, share, portion>>,
             pc' \in {"check", "build", "sent"} => pc \in {"check", "build", "sent"}
      PROVE  History'
  <2>1. (pc' \in {"check", "build", "sent"} /\ pass' < 3) => Lag' = 0
    <3>1. Lag' = Lag
      BY <1>2 DEF Lag, NcVsize, Payers, Weight, Layout, Spare
    <3> QED
      BY <3>1, <1>2 DEF History
  <2>2. \A q, p : Charges(q, p)' = Charges(q, p) /\ VsizeAt(q)' = VsizeAt(q)
    BY <1>u, <1>2
  <2>3. \A q : Charges(q, share)' = Charges(q, share)
    BY <1>2 DEF Charges, WeightAt, Payers, Spare, Burden, ConfVsize
  <2>4. pass' = pass /\ share' = share /\ portion' = portion
    BY <1>2
  <2>5. pass' = 0 => share' = Free
    BY <2>4 DEF History
  <2>6. pass' = 1 => Charges(Free, share)' /\ (portion = Overhead + VsizeAt(Free))'
    <3>1. VsizeAt(Free)' = VsizeAt(Free) /\ Charges(Free, share)' = Charges(Free, share)
      BY <2>2, <2>3
    <3> QED
      BY <3>1, <2>4 DEF History
  <2>7. ASSUME pass' = 2
        PROVE  \E q \in [1..N -> Nat] :
                 Charges(Free, q)' /\ Charges(q, share)' /\ (portion = Overhead + VsizeAt(q))'
    <3>1. PICK q \in [1..N -> Nat] :
            Charges(Free, q) /\ Charges(q, share) /\ portion = Overhead + VsizeAt(q)
      BY <2>4, <2>7 DEF History
    <3>2. Charges(Free, q)' /\ Charges(q, share)' /\ VsizeAt(q)' = VsizeAt(q)
      BY <3>1, <2>2, <2>3
    <3> QED
      BY <3>1, <3>2, <2>4
  <2>8. ASSUME pass' = 3
        PROVE  \E q, p \in [1..N -> Nat] :
                 /\ Charges(Free, q)' /\ Charges(q, p)' /\ Charges(p, share)'
                 /\ (portion = Overhead + VsizeAt(p))'
    <3>1. PICK q \in [1..N -> Nat], p \in [1..N -> Nat] :
            /\ Charges(Free, q) /\ Charges(q, p) /\ Charges(p, share)
            /\ portion = Overhead + VsizeAt(p)
      BY <2>4, <2>8 DEF History
    <3>2. /\ Charges(Free, q)' /\ Charges(q, p)' /\ Charges(p, share)'
          /\ VsizeAt(p)' = VsizeAt(p)
      BY <3>1, <2>2, <2>3
    <3> QED
      BY <3>1, <3>2, <2>4
  <2> QED
    BY <2>1, <2>5, <2>6, <2>7, <2>8 DEF History
<1>3. CASE Proceed
  BY <1>2, <1>3 DEF Proceed
<1>4. CASE DropUnderfunded
  <2>1. pass' = 0 /\ share' = Free /\ pc' \in {"share", "few"}
    BY <1>4 DEF DropUnderfunded, Free
  <2> QED
    BY <2>1 DEF History
<1>5. CASE GiveUp
  BY <1>2, <1>5 DEF GiveUp
<1>6. CASE Build
  BY <1>2, <1>6 DEF Build
<1>7. CASE UNCHANGED vars
  BY <1>2, <1>7 DEF vars
<1> QED
  BY <1>1, <1>3, <1>4, <1>5, <1>6, <1>7 DEF Next, Over

\* So the layout of what is sent is ahead of its fee by one output per payer at most.
LEMMA LagBounded ==
  ASSUME Damped, FeeInv, History, pc = "sent"
  PROVE  Lag \in Int /\ Lag <= OutV * Cardinality(Payers)
<1>t. TypeOK /\ Payers # {}
  BY DEF FeeInv
<1>c. /\ Cardinality(Payers) \in Nat /\ OutV * Cardinality(Payers) \in Nat
      /\ IsFiniteSet(Payers) /\ Payers \subseteq 1..N
  <2>1. Cardinality(Payers) \in Nat /\ OutV \in Nat
    BY <1>t, PeopleType, Constants
  <2> DEFINE k == Cardinality(Payers)
  <2> HIDE DEF k
  <2>2. OutV * k \in Nat
    BY <2>1, Arithmetic DEF k
  <2> QED
    BY <1>t, <2>1, <2>2, PeopleType DEF k
<1>1. CASE pass < 3
  <2>1. Lag = 0
    BY <1>1 DEF History
  <2> QED
    BY <2>1, <1>c
<1>2. CASE pass = 3
  <2>1. PICK s \in [1..N -> Nat], t \in [1..N -> Nat] :
          /\ Charges(Free, s) /\ Charges(s, t) /\ Charges(t, share)
          /\ portion = Overhead + VsizeAt(t)
    BY <1>2 DEF History
  <2> DEFINE now == [i \in Payers |-> WeightAt(share, i)]
             before == [i \in Payers |-> WeightAt(t, i)]
             out == [i \in Payers |-> OutV]
             more == [i \in Payers |-> before[i] + out[i]]
  <2>2. ASSUME NEW i \in Payers
        PROVE  /\ now[i] \in Int /\ before[i] \in Int /\ out[i] \in Int /\ out[i] = OutV
               /\ more[i] \in Int /\ more[i] = before[i] + out[i] /\ now[i] <= more[i]
    <3> DEFINE nc == file[i].nc
               addrs == Spare(i)
               ins == file[i].ins * InV
               si == s[i]
               ti == t[i]
               ui == share[i]
               b == Burden(i)
               r == rate
               ot == Outs(nc, addrs, ti)
               ou == Outs(nc, addrs, ui)
    <3>1. /\ nc \in Nat /\ addrs \in Nat /\ ins \in Nat
          /\ si \in Nat /\ ti \in Nat /\ ui \in Nat /\ b \in Nat /\ r \in Rates
      <4>1. i \in 1..N
        BY <1>c
      <4>2. nc \in Nat /\ addrs \in Nat /\ file[i].ins \in Nat /\ InV \in Nat
        BY <4>1, <1>t, FileType, Constants
      <4>3. ins \in Nat
        <5> DEFINE x == file[i].ins
        <5>1. x \in Nat /\ InV \in Nat
          BY <4>2
        <5> HIDE DEF x
        <5>2. x * InV \in Nat
          BY <5>1, Arithmetic
        <5> QED
          BY <5>2 DEF x
      <4>4. b \in Nat
        BY <1>t, SharesSplit
      <4>5. si \in Nat /\ ti \in Nat /\ ui \in Nat /\ r \in Rates
        BY <4>1, <1>t DEF TypeOK
      <4> QED
        BY <4>2, <4>3, <4>4, <4>5
    <3>2. /\ Pays(si, ins + Outs(nc, addrs, 0) * OutV, r, b)
          /\ Pays(ti, ins + Outs(nc, addrs, si) * OutV, r, b)
          /\ Pays(ui, ins + Outs(nc, addrs, ti) * OutV, r, b)
      <4>1. Free[i] = 0
        BY <1>c DEF Free
      <4> QED
        BY <4>1, <2>1 DEF Charges, WeightAt
    <3>3. now[i] = ins + ou * OutV /\ before[i] = ins + ot * OutV
      BY DEF WeightAt
    <3>4. more[i] = before[i] + out[i] /\ out[i] = OutV /\ OutV \in Nat
      BY Constants
    <3>5. ou <= ot + 1 /\ ou \in Nat /\ ot \in Nat
      <4> HIDE DEF nc, addrs, ins, si, ti, ui, b, r
      <4>1. Dust <= Size
        BY DEF Damped
      <4>2. ou \in Nat /\ ot \in Nat
        BY <3>1, <4>1, OutsStep
      <4>3. ou <= ot + 1
        BY <3>1, <3>2, OneOutputAhead
      <4> QED
        BY <4>2, <4>3
    <3> HIDE DEF now, before, out, more, ou, ot, ins
    <3>6. OutV * ou <= OutV * (ot + 1)
      <4>1. OutV \in Int /\ OutV >= 0 /\ ou \in Int /\ ot + 1 \in Int /\ ou <= ot + 1
        BY <3>4, <3>5
      <4> QED
        BY <4>1, Arithmetic
    <3>7. /\ OutV * (ot + 1) = ot * OutV + OutV /\ OutV * ou = ou * OutV
          /\ ou * OutV \in Int /\ ot * OutV \in Int
      BY <3>4, <3>5
    <3> DEFINE oo == ou * OutV
               to == ot * OutV
    <3>8. oo <= to + OutV /\ oo \in Int /\ to \in Int
      BY <3>6, <3>7
    <3>9. now[i] = ins + oo /\ before[i] = ins + to
      BY <3>3
    <3> HIDE DEF oo, to
    <3> QED
      BY <3>1, <3>4, <3>8, <3>9
  <2>3. NcVsize = SumFunctionOnSet(now, Payers) /\ VsizeAt(t) = SumFunctionOnSet(before, Payers)
    BY <1>t, PassCharges DEF VsizeAt
  <2> HIDE DEF now, before, out, more
  <2>4. SumFunctionOnSet(now, Payers) <= SumFunctionOnSet(more, Payers)
    <3>1. \A i \in Payers : now[i] \in Int /\ more[i] \in Int /\ now[i] <= more[i]
      BY <2>2
    <3> QED
      BY <3>1, <1>c, SumLeq
  <2>5. SumFunctionOnSet(more, Payers)
          = SumFunctionOnSet(before, Payers) + SumFunctionOnSet(out, Payers)
    <3>1. \A i \in Payers : before[i] \in Int /\ out[i] \in Int /\ more[i] = before[i] + out[i]
      BY <2>2
    <3>2. IsFiniteSet(Payers)
      BY <1>c
    <3> QED
      BY <3>1, <3>2, SumPlus
  <2>6. SumFunctionOnSet(out, Payers) = OutV * Cardinality(Payers)
    <3>1. OutV \in Int /\ \A i \in Payers : out[i] = OutV
      BY <2>2, Constants
    <3> QED
      BY <3>1, <1>c, SumConstant
  <2>7. SumFunctionOnSet(now, Payers) \in Int /\ SumFunctionOnSet(before, Payers) \in Int
    <3>1. (\A i \in Payers : now[i] \in Int) /\ (\A i \in Payers : before[i] \in Int)
      BY <2>2
    <3> QED
      BY <3>1, <1>c, SumTakes
  <2> DEFINE n == SumFunctionOnSet(now, Payers)
             m == SumFunctionOnSet(before, Payers)
             most == OutV * Cardinality(Payers)
  <2>8. n \in Int /\ m \in Int /\ most \in Nat /\ n <= m + most /\ Overhead \in Nat
    BY <1>c, <2>4, <2>5, <2>6, <2>7, Constants
  <2>9. Lag = Overhead + n - (Overhead + m)
    BY <2>1, <2>3 DEF Lag
  <2> HIDE DEF n, m, most
  <2> QED
    BY <2>8, <2>9 DEF most
<1> QED
  BY <1>t, <1>1, <1>2 DEF TypeOK

\* The transaction as sent is short of its rate by one output per payer at most, even
\* when three passes have not settled the shares: where an equal output is not dust, an
\* output pays for more than an overhead and the rounding, and an overhead and the
\* rounding cost less than dust.
THEOREM ShortfallIsBounded ==
  ASSUME Damped
  PROVE  Spec => []ShortfallBounded
<1>1. Spec => [](FeeInv /\ History)
  <2>1. Init => FeeInv /\ History
    BY FeeInit, HistoryInit
  <2>2. (FeeInv /\ History) /\ [Next]_vars => (FeeInv /\ History)'
    BY FeeStep, HistoryStep
  <2> QED
    BY <2>1, <2>2, PTL DEF Spec
<1>2. /\ FeeInv /\ History
      /\ pc = "sent" => fee >= Fee(ActualVsize - Lag, rate) - 1
      => ShortfallBounded
  <2> SUFFICES ASSUME FeeInv, History, pc = "sent", fee >= Fee(ActualVsize - Lag, rate) - 1
               PROVE  fee >= Fee(ActualVsize - OutV * Cardinality(Payers), rate) - 1
    BY DEF ShortfallBounded
  <2> DEFINE most == OutV * Cardinality(Payers)
             v == ActualVsize - most
             w == ActualVsize - Lag
  <2>1. Lag \in Int /\ Lag <= most
    BY LagBounded
  <2>2. ActualVsize \in Int
    BY ActualSize DEF FeeInv
  <2>3. most \in Int
    <3>1. OutV \in Int /\ Cardinality(Payers) \in Int
      BY PeopleType, Constants DEF FeeInv
    <3> QED
      BY <3>1, Arithmetic
  <2>4. v \in Int /\ w \in Int /\ v <= w
    <3> HIDE DEF most
    <3> QED
      BY <2>1, <2>2, <2>3
  <2>5. rate \in Nat /\ fee \in Nat
    BY Constants DEF FeeInv, TypeOK
  <2>6. fee >= Fee(w, rate) - 1
    OBVIOUS
  <2> HIDE DEF v, w
  <2>7. Fee(v, rate) \in Int /\ Fee(w, rate) \in Int /\ Fee(v, rate) <= Fee(w, rate)
    BY <2>4, <2>5, FeeGrows
  <2>8. fee >= Fee(v, rate) - 1
    BY <2>5, <2>6, <2>7
  <2> QED
    BY <2>8 DEF v
<1> QED
  BY <1>1, <1>2, RateKept, PTL
=============================================================================
