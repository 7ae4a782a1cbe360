------------------------------ MODULE SumLemmas ------------------------------
(***************************************************************************)
(* Facts about sums over finite sets, for the proofs about money: the sum   *)
(* of the held amounts, of a ledger, of the balances.                       *)
(*                                                                          *)
(* SumFunctionOnSet of the community modules is a recursion over subsets.   *)
(* Its value is found here by counting: one unit for each dinar a value is  *)
(* above zero, one debit for each dinar it is below.  The difference of the *)
(* two counts satisfies the recursion, and a smallest set on which the two  *)
(* differed would contradict it.                                            *)
(***************************************************************************)
EXTENDS Functions, FiniteSetTheorems, WellFoundedInduction, TLAPS

\* what the values of f above zero, and those below, amount to on S
Units(f, S) == {u \in S \X Nat : 1 <= u[2] /\ u[2] <= f[u[1]]}
Debits(f, S) == {u \in S \X Nat : 1 <= u[2] /\ u[2] <= -f[u[1]]}
Count(f, S) == Cardinality(Units(f, S)) - Cardinality(Debits(f, S))

(* A value n above zero has n units.                                        *)
LEMMA RowOfUnits ==
  ASSUME NEW x, NEW n \in Int
  PROVE  /\ IsFiniteSet({x} \X (1 .. n))
         /\ Cardinality({x} \X (1 .. n)) = IF n > 0 THEN n ELSE 0
<1>1. /\ IsFiniteSet(1 .. n)
      /\ Cardinality(1 .. n) = IF n > 0 THEN n ELSE 0
  <2>1. /\ IsFiniteSet(1 .. n)
        /\ Cardinality(1 .. n) = IF 1 > n THEN 0 ELSE n - 1 + 1
    <3>1. 1 \in Int
      OBVIOUS
    <3> QED BY <3>1, FS_Interval
  <2> QED BY <2>1
<1>2. IsFiniteSet({x}) /\ Cardinality({x}) = 1
  BY FS_Singleton
<1>3. /\ IsFiniteSet({x} \X (1 .. n))
      /\ Cardinality({x} \X (1 .. n)) = Cardinality({x}) * Cardinality(1 .. n)
  BY <1>1, <1>2, FS_Product
<1>4. Cardinality(1 .. n) \in Nat
  BY <1>1, FS_CardinalityType
<1>5. Cardinality({x} \X (1 .. n)) = Cardinality(1 .. n)
  <2> DEFINE c == Cardinality(1 .. n)
             d == Cardinality({x} \X (1 .. n))
  <2>1. d = 1 * c /\ c \in Nat
    BY <1>2, <1>3, <1>4
  <2> HIDE DEF c, d
  <2>2. d = c
    BY <2>1
  <2> QED BY <2>2 DEF c, d
<1>. QED  BY <1>1, <1>3, <1>5

(* The units of one element.                                                *)
LEMMA UnitsOfOne ==
  ASSUME NEW f, NEW x, f[x] \in Int
  PROVE  /\ IsFiniteSet(Units(f, {x}))
         /\ Cardinality(Units(f, {x})) = IF f[x] > 0 THEN f[x] ELSE 0
<1>1. Units(f, {x}) = {x} \X (1 .. f[x])
  BY DEF Units
<1>. QED  BY <1>1, RowOfUnits

(* The debits of one element.                                               *)
LEMMA DebitsOfOne ==
  ASSUME NEW f, NEW x, f[x] \in Int
  PROVE  /\ IsFiniteSet(Debits(f, {x}))
         /\ Cardinality(Debits(f, {x})) = IF f[x] < 0 THEN -f[x] ELSE 0
<1>1. Debits(f, {x}) = {x} \X (1 .. -f[x])
  BY DEF Debits
<1>2. -f[x] \in Int /\ (-f[x] > 0 <=> f[x] < 0)
  OBVIOUS
<1>. QED  BY <1>1, <1>2, RowOfUnits

(* A finite set has finitely many units and debits: they are the union of   *)
(* those of its elements.                                                   *)
LEMMA FiniteUnits ==
  ASSUME NEW f, NEW S, IsFiniteSet(S), \A x \in S : f[x] \in Int
  PROVE  IsFiniteSet(Units(f, S)) /\ IsFiniteSet(Debits(f, S))
<1>1. IsFiniteSet(Units(f, S))
  <2> DEFINE g == [x \in S |-> Units(f, {x})]
             T == {g[x] : x \in S}
  <2>1. g \in Surjection(S, T)
    BY DEF Surjection
  <2>2. IsFiniteSet(T)
    BY <2>1, FS_Surjection
  <2>3. \A t \in T : IsFiniteSet(t)
    BY UnitsOfOne
  <2>4. IsFiniteSet(UNION T)
    <3> HIDE DEF T
    <3> QED BY <2>2, <2>3, FS_UNION
  <2>5. Units(f, S) = UNION T
    BY DEF Units
  <2> QED BY <2>4, <2>5
<1>2. IsFiniteSet(Debits(f, S))
  <2> DEFINE g == [x \in S |-> Debits(f, {x})]
             T == {g[x] : x \in S}
  <2>1. g \in Surjection(S, T)
    BY DEF Surjection
  <2>2. IsFiniteSet(T)
    BY <2>1, FS_Surjection
  <2>3. \A t \in T : IsFiniteSet(t)
    BY DebitsOfOne
  <2>4. IsFiniteSet(UNION T)
    <3> HIDE DEF T
    <3> QED BY <2>2, <2>3, FS_UNION
  <2>5. Debits(f, S) = UNION T
    BY DEF Debits
  <2> QED BY <2>4, <2>5
<1> QED BY <1>1, <1>2

(* The size of a union of two finite sets with nothing in common.           *)
LEMMA DisjointUnion ==
  ASSUME NEW A, NEW B, IsFiniteSet(A), IsFiniteSet(B), A \cap B = {}
  PROVE  /\ Cardinality(A) \in Nat /\ Cardinality(B) \in Nat
         /\ Cardinality(A \cup B) = Cardinality(A) + Cardinality(B)
<1>1. Cardinality(A) \in Nat /\ Cardinality(B) \in Nat
  BY FS_CardinalityType
<1>2. Cardinality(A \cup B) = Cardinality(A) + Cardinality(B) - Cardinality(A \cap B)
  BY FS_Union
<1>3. Cardinality(A \cap B) = 0
  BY FS_EmptySet
<1> QED  BY <1>1, <1>2, <1>3

(* One element counts for its value.                                        *)
LEMMA CountSplits ==
  ASSUME NEW f, NEW S, IsFiniteSet(S), \A x \in S : f[x] \in Int, NEW x \in S
  PROVE  Count(f, S) = f[x] + Count(f, S \ {x})
<1> DEFINE R == S \ {x}
<1>1. IsFiniteSet(R)
  BY FS_RemoveElement
<1>2. /\ IsFiniteSet(Units(f, R)) /\ IsFiniteSet(Debits(f, R))
      /\ IsFiniteSet(Units(f, {x})) /\ IsFiniteSet(Debits(f, {x}))
  BY <1>1, FiniteUnits, UnitsOfOne, DebitsOfOne
<1>3. /\ Units(f, S) = Units(f, {x}) \cup Units(f, R)
      /\ Units(f, {x}) \cap Units(f, R) = {}
      /\ Debits(f, S) = Debits(f, {x}) \cup Debits(f, R)
      /\ Debits(f, {x}) \cap Debits(f, R) = {}
  BY DEF Units, Debits
<1>4. /\ Cardinality(Units(f, R)) \in Nat
      /\ Cardinality(Units(f, S)) = Cardinality(Units(f, {x})) + Cardinality(Units(f, R))
  BY <1>2, <1>3, DisjointUnion
<1>5. /\ Cardinality(Debits(f, R)) \in Nat
      /\ Cardinality(Debits(f, S)) = Cardinality(Debits(f, {x})) + Cardinality(Debits(f, R))
  BY <1>2, <1>3, DisjointUnion
<1>6. /\ f[x] \in Int
      /\ Cardinality(Units(f, {x})) = IF f[x] > 0 THEN f[x] ELSE 0
      /\ Cardinality(Debits(f, {x})) = IF f[x] < 0 THEN -f[x] ELSE 0
  BY UnitsOfOne, DebitsOfOne
<1> HIDE DEF R
<1>7. Count(f, S) = f[x] + Count(f, R)
  BY <1>4, <1>5, <1>6 DEF Count
<1> QED  BY <1>7 DEF R

(* The empty set counts for nothing.                                        *)
LEMMA CountOfNothing == ASSUME NEW f PROVE Count(f, {}) = 0
<1>1. Units(f, {}) = {} /\ Debits(f, {}) = {}
  BY DEF Units, Debits
<1> QED  BY <1>1, FS_EmptySet DEF Count

(* The sum of f over a finite set is the difference of the two counts, for  *)
(* any integer values of f.                                                 *)
THEOREM SumIsCount ==
  ASSUME NEW f, NEW S, IsFiniteSet(S), \A x \in S : f[x] \in Int
  PROVE  SumFunctionOnSet(f, S) = Count(f, S)
<1> DEFINE Step(g, s) == IF s = {} THEN 0
                        ELSE f[CHOOSE x \in s : TRUE]
                             + g[s \ {CHOOSE x \in s : TRUE}]
           Eq(g) == g = [s \in SUBSET S |-> Step(g, s)]
<1>1. ASSUME NEW T \in SUBSET S
      PROVE  Count(f, T) = IF T = {} THEN 0
                           ELSE f[CHOOSE x \in T : TRUE]
                                + Count(f, T \ {CHOOSE x \in T : TRUE})
  <2>1. CASE T = {}
    BY <2>1, CountOfNothing
  <2>2. CASE T # {}
    <3> DEFINE x == CHOOSE x \in T : TRUE
    <3>1. x \in T
      BY <2>2
    <3>2. IsFiniteSet(T) /\ \A y \in T : f[y] \in Int
      BY FS_Subset
    <3> HIDE DEF x
    <3>3. Count(f, T) = f[x] + Count(f, T \ {x})
      BY <3>1, <3>2, CountSplits
    <3> QED  BY <2>2, <3>3 DEF x
  <2> QED  BY <2>1, <2>2
<1>2. \E g : Eq(g)
  <2> DEFINE c == [s \in SUBSET S |-> Count(f, s)]
  <2>1. \A s \in SUBSET S : c[s] = Step(c, s)
    BY <1>1
  <2>2. Eq(c)
    <3> HIDE DEF Step
    <3> QED BY <2>1
  <2> HIDE DEF Eq, c
  <2> QED BY <2>2
<1>3. ASSUME NEW g, Eq(g)
      PROVE  g[S] = Count(f, S)
  <2> DEFINE Wrong == {s \in SUBSET S : g[s] # Count(f, s)}
  <2>1. SUFFICES ASSUME Wrong # {} PROVE FALSE
    OBVIOUS
  <2>2. IsWellFoundedOn(StrictSubsetOrdering(S), SUBSET S)
    BY FS_StrictSubsetOrderingWellFounded, FS_FiniteSubsetsOfFinite
  <2>3. Wrong \subseteq SUBSET S
    OBVIOUS
  <2>4. PICK s \in Wrong : \A t \in Wrong : ~ (<<t, s>> \in StrictSubsetOrdering(S))
    <3> HIDE DEF Wrong
    <3> QED BY <2>1, <2>2, <2>3, WFMin
  <2>5. \A s1 \in SUBSET S : g[s1] = Step(g, s1)
    <3> HIDE DEF Step
    <3> QED BY <1>3
  <2>6. s # {}
    BY <2>5, CountOfNothing
  <2> DEFINE x == CHOOSE y \in s : TRUE
  <2>7. x \in s
    BY <2>6
  <2>8. g[s \ {x}] = Count(f, s \ {x})
    <3>1. <<s \ {x}, s>> \in StrictSubsetOrdering(S)
      BY <2>7 DEF StrictSubsetOrdering
    <3> QED BY <3>1, <2>4
  <2> QED  BY <1>1, <2>5, <2>6, <2>8
<1>4. SumFunctionOnSet(f, S) = (CHOOSE g : Eq(g))[S]
  BY DEF SumFunctionOnSet, FoldFunctionOnSet, MapThenFoldSet
<1> HIDE DEF Eq
<1> QED  BY <1>2, <1>3, <1>4

(* Nothing adds up to 0.                                                    *)
LEMMA SumEmpty == ASSUME NEW f PROVE SumFunctionOnSet(f, {}) = 0
<1>1. IsFiniteSet({})
  BY FS_EmptySet
<1> QED  BY <1>1, SumIsCount, CountOfNothing

(* A sum of integers is an integer.                                         *)
LEMMA SumType ==
  ASSUME NEW f, NEW S, IsFiniteSet(S), \A x \in S : f[x] \in Int
  PROVE  SumFunctionOnSet(f, S) \in Int
<1>1. Cardinality(Units(f, S)) \in Nat /\ Cardinality(Debits(f, S)) \in Nat
  BY FiniteUnits, FS_CardinalityType
<1> QED  BY <1>1, SumIsCount DEF Count

(* One element taken out of a sum.                                          *)
LEMMA SumRemove ==
  ASSUME NEW f, NEW S, IsFiniteSet(S), \A y \in S : f[y] \in Int, NEW x \in S
  PROVE  SumFunctionOnSet(f, S) = f[x] + SumFunctionOnSet(f, S \ {x})
<1>1. IsFiniteSet(S \ {x})
  BY FS_RemoveElement
<1> QED  BY <1>1, SumIsCount, CountSplits

(* One element put into a sum.                                              *)
LEMMA SumAdd ==
  ASSUME NEW f, NEW S, IsFiniteSet(S), NEW x, x \notin S,
         \A y \in S \cup {x} : f[y] \in Int
  PROVE  SumFunctionOnSet(f, S \cup {x}) = f[x] + SumFunctionOnSet(f, S)
<1>1. IsFiniteSet(S \cup {x})
  BY FS_AddElement
<1>2. (S \cup {x}) \ {x} = S
  OBVIOUS
<1>3. SumFunctionOnSet(f, S \cup {x})
        = f[x] + SumFunctionOnSet(f, (S \cup {x}) \ {x})
  BY <1>1, SumRemove
<1> QED  BY <1>2, <1>3

(* A sum depends only on the values on its set.                             *)
LEMMA SumAgrees ==
  ASSUME NEW f, NEW g, NEW S, IsFiniteSet(S),
         \A x \in S : f[x] \in Int /\ g[x] = f[x]
  PROVE  SumFunctionOnSet(g, S) = SumFunctionOnSet(f, S)
<1>1. Units(g, S) = Units(f, S) /\ Debits(g, S) = Debits(f, S)
  BY DEF Units, Debits
<1> QED  BY <1>1, SumIsCount DEF Count

(* When one value changes, the sum changes by the difference.               *)
LEMMA SumUpdate ==
  ASSUME NEW f, NEW g, NEW S, IsFiniteSet(S), NEW x \in S,
         \A y \in S : f[y] \in Int /\ g[y] \in Int,
         \A y \in S \ {x} : g[y] = f[y]
  PROVE  SumFunctionOnSet(g, S) = SumFunctionOnSet(f, S) + g[x] - f[x]
<1> DEFINE R == S \ {x}
<1>1. IsFiniteSet(R)
  BY FS_RemoveElement
<1>2. SumFunctionOnSet(g, R) = SumFunctionOnSet(f, R)
  BY <1>1, SumAgrees
<1>3. SumFunctionOnSet(f, R) \in Int
  BY <1>1, SumType
<1>4. /\ SumFunctionOnSet(f, S) = f[x] + SumFunctionOnSet(f, R)
      /\ SumFunctionOnSet(g, S) = g[x] + SumFunctionOnSet(g, R)
  BY SumRemove
<1> HIDE DEF R
<1> QED  BY <1>2, <1>3, <1>4

(* A sum of natural numbers is one.                                         *)
LEMMA SumNat ==
  ASSUME NEW f, NEW S, IsFiniteSet(S), \A x \in S : f[x] \in Nat
  PROVE  SumFunctionOnSet(f, S) \in Nat
<1>1. Debits(f, S) = {}
  BY DEF Debits
<1>2. \A x \in S : f[x] \in Int
  OBVIOUS
<1>3. Cardinality(Units(f, S)) \in Nat
  BY <1>2, FiniteUnits, FS_CardinalityType
<1>4. SumFunctionOnSet(f, S) = Count(f, S)
  BY <1>2, SumIsCount
<1>5. Cardinality(Debits(f, S)) = 0
  BY <1>1, FS_EmptySet
<1> QED  BY <1>3, <1>4, <1>5 DEF Count

(* A sum of natural numbers is at least each of them.                       *)
LEMMA SumCoversEach ==
  ASSUME NEW f, NEW S, IsFiniteSet(S), \A y \in S : f[y] \in Nat, NEW x \in S
  PROVE  f[x] <= SumFunctionOnSet(f, S)
<1>1. IsFiniteSet(S \ {x})
  BY FS_RemoveElement
<1>2. SumFunctionOnSet(f, S \ {x}) \in Nat
  BY <1>1, SumNat
<1>3. \A y \in S : f[y] \in Int
  OBVIOUS
<1>4. SumFunctionOnSet(f, S) = f[x] + SumFunctionOnSet(f, S \ {x})
  BY <1>3, SumRemove
<1> QED  BY <1>2, <1>4

(* What is 0 may be left out of a sum.                                      *)
LEMMA SumIgnoresZeros ==
  ASSUME NEW f, NEW S, IsFiniteSet(S), \A x \in S : f[x] \in Int,
         NEW T \in SUBSET S, \A x \in S \ T : f[x] = 0
  PROVE  SumFunctionOnSet(f, S) = SumFunctionOnSet(f, T)
<1>1. IsFiniteSet(T)
  BY FS_Subset
<1>2. Units(f, S) = Units(f, T) /\ Debits(f, S) = Debits(f, T)
  BY DEF Units, Debits
<1> QED  BY <1>1, <1>2, SumIsCount DEF Count

=============================================================================
