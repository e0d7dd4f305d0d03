----------------------------- MODULE SumProofs ------------------------------
(***************************************************************************)
(* What the sums of the models add up to, for every finite set of indices. *)
(* SumFunctionOnSet takes the indices in an order that CHOOSE gives; the   *)
(* lemmas show that the sum is there, that the order does not matter, and  *)
(* how it changes with the set and with the function.  Induction is by a   *)
(* smallest counterexample among the subsets of a finite set.              *)
(***************************************************************************)
EXTENDS Integers, FiniteSetsExt, Functions, FiniteSetTheorems, WellFoundedInduction, TLAPS

\* A family of subsets of a finite set that is not empty has a smallest member.
LEMMA SmallestSubset ==
  ASSUME NEW S, IsFiniteSet(S), NEW T, T \subseteq SUBSET S, T # {}
  PROVE  \E x \in T : \A y \in T : ~(y \subseteq x /\ y # x)
<1>1. IsWellFoundedOn(StrictSubsetOrdering(S), SUBSET S)
  BY FS_StrictSubsetOrderingWellFounded, FS_FiniteSubsetsOfFinite
<1>2. \E x \in T : \A y \in T : ~ (<<y, x>> \in StrictSubsetOrdering(S))
  BY <1>1, WFMin
<1> QED BY <1>2 DEF StrictSubsetOrdering

-----------------------------------------------------------------------------
(* The function that SumFunctionOnSet computes by recursion.               *)
FirstOf(s) == CHOOSE x \in s : TRUE
Summing(g, f, S) == g = [s \in SUBSET S |-> IF s = {} THEN 0 ELSE f[FirstOf(s)] + g[s \ {FirstOf(s)}]]
TheSums(f, S) == CHOOSE g : Summing(g, f, S)

LEMMA SumIsTheSums ==
  ASSUME NEW f, NEW S
  PROVE  SumFunctionOnSet(f, S) = TheSums(f, S)[S]
  BY DEF SumFunctionOnSet, FoldFunctionOnSet, MapThenFoldSet, TheSums, Summing, FirstOf

LEMMA AnyIsIn ==
  ASSUME NEW s, s # {}
  PROVE  FirstOf(s) \in s
  BY DEF FirstOf

LEMMA SummingStep ==
  ASSUME NEW g, NEW f, NEW S, Summing(g, f, S), NEW s \in SUBSET S
  PROVE  /\ s = {} => g[s] = 0
         /\ s # {} => g[s] = f[FirstOf(s)] + g[s \ {FirstOf(s)}]
  BY DEF Summing

LEMMA SummingUnique ==
  ASSUME NEW f, NEW S, NEW T, IsFiniteSet(S), NEW g, NEW h, Summing(g, f, S), Summing(h, f, T),
         NEW U, U \subseteq S, U \subseteq T
  PROVE  g[U] = h[U]
<1> DEFINE Bad == {s \in SUBSET S : s \subseteq T /\ g[s] # h[s]}
<1> SUFFICES ASSUME Bad # {} PROVE FALSE
  OBVIOUS
<1>1. PICK s \in Bad : \A y \in Bad : ~(y \subseteq s /\ y # s)
  <2>1. Bad \subseteq SUBSET S
    OBVIOUS
  <2> HIDE DEF Bad
  <2> QED BY <2>1, SmallestSubset
<1>2. s \in SUBSET S /\ s \in SUBSET T /\ g[s] # h[s]
  OBVIOUS
<1>3. s # {}
  BY <1>2, SummingStep
<1> DEFINE a == FirstOf(s)
<1>4. a \in s
  BY <1>3, AnyIsIn
<1>5. g[s \ {a}] = h[s \ {a}]
  BY <1>1, <1>2, <1>4
<1> QED BY <1>2, <1>3, <1>5, SummingStep

LEMMA SummingExists ==
  ASSUME NEW f, NEW S, IsFiniteSet(S)
  PROVE  \E g : Summing(g, f, S)
<1> DEFINE Bad == {s \in SUBSET S : ~\E g : Summing(g, f, s)}
<1> SUFFICES ASSUME Bad # {} PROVE FALSE
  OBVIOUS
<1>1. PICK s \in Bad : \A y \in Bad : ~(y \subseteq s /\ y # s)
  <2>1. Bad \subseteq SUBSET S
    OBVIOUS
  <2> HIDE DEF Bad
  <2> QED BY <2>1, SmallestSubset
<1>2. s \in SUBSET S /\ ~\E g : Summing(g, f, s)
  OBVIOUS
<1>3. \A t \in SUBSET s : t # s => \E g : Summing(g, f, t)
  BY <1>1, <1>2
<1> HIDE DEF Bad
<1> DEFINE G(t) == TheSums(f, t)
           value(t) == IF t = {} THEN 0 ELSE f[FirstOf(t)] + G(t \ {FirstOf(t)})[t \ {FirstOf(t)}]
           h == [t \in SUBSET s |-> value(t)]
<1>4. \A t \in SUBSET s : t # s => Summing(G(t), f, t)
  BY <1>3 DEF TheSums
<1>5. ASSUME NEW t \in SUBSET s, t # s
      PROVE  h[t] = G(t)[t]
  <2> DEFINE a == FirstOf(t)
  <2>1. Summing(G(t), f, t)
    BY <1>4, <1>5
  <2>2. CASE t = {}
    <3>1. G(t)[t] = 0
      BY <2>1, <2>2, SummingStep
    <3> QED BY <2>2, <3>1
  <2>3. CASE t # {}
    <3>1. a \in t
      BY <2>3, AnyIsIn
    <3>2. t \ {a} \in SUBSET s /\ t \ {a} # s /\ t \ {a} \subseteq t
      BY <3>1
    <3>3. Summing(G(t \ {a}), f, t \ {a})
      BY <1>4, <3>2
    <3>4. IsFiniteSet(t)
      BY <1>2, FS_Subset
    <3>5. G(t)[t \ {a}] = G(t \ {a})[t \ {a}]
      <4> DEFINE u == t \ {a}
                 g == G(t)
                 smaller == G(u)
      <4>1. Summing(g, f, t) /\ Summing(smaller, f, u) /\ u \subseteq t
        BY <2>1, <3>2, <3>3
      <4> HIDE DEF u, g, smaller
      <4>2. g[u] = smaller[u]
        BY <3>4, <4>1, SummingUnique
      <4> QED BY <4>2 DEF u, g, smaller
    <3>6. G(t)[t] = f[a] + G(t)[t \ {a}]
      BY <2>1, <2>3, SummingStep
    <3>7. h[t] = f[a] + G(t \ {a})[t \ {a}]
      BY <2>3
    <3> QED BY <3>5, <3>6, <3>7
  <2> QED BY <2>2, <2>3
<1>6. Summing(h, f, s)
  <2>1. ASSUME NEW t \in SUBSET s, t # {}
        PROVE  value(t) = f[FirstOf(t)] + h[t \ {FirstOf(t)}]
    <3>1. FirstOf(t) \in t
      BY <2>1, AnyIsIn
    <3>2. t \ {FirstOf(t)} \in SUBSET s /\ t \ {FirstOf(t)} # s
      BY <3>1
    <3>3. h[t \ {FirstOf(t)}] = G(t \ {FirstOf(t)})[t \ {FirstOf(t)}]
      BY <1>5, <3>2
    <3> QED BY <2>1, <3>3
  <2>2. \A t \in SUBSET s : value(t) = IF t = {} THEN 0 ELSE f[FirstOf(t)] + h[t \ {FirstOf(t)}]
    BY <2>1
  <2> QED BY <2>2 DEF Summing
<1> QED BY <1>2, <1>6

LEMMA TheSumsSum ==
  ASSUME NEW f, NEW S, IsFiniteSet(S)
  PROVE  Summing(TheSums(f, S), f, S)
  BY SummingExists DEF TheSums

LEMMA SumEmpty ==
  ASSUME NEW f
  PROVE  SumFunctionOnSet(f, {}) = 0
  BY SumIsTheSums, TheSumsSum, SummingStep, FS_EmptySet

LEMMA SumAny ==
  ASSUME NEW f, NEW S, IsFiniteSet(S), S # {}
  PROVE  FirstOf(S) \in S /\ SumFunctionOnSet(f, S) = f[FirstOf(S)] + SumFunctionOnSet(f, S \ {FirstOf(S)})
<1> DEFINE a == FirstOf(S)
<1>1. a \in S
  BY AnyIsIn
<1>2. IsFiniteSet(S \ {a}) /\ S \ {a} \subseteq S
  BY FS_RemoveElement
<1>3. Summing(TheSums(f, S), f, S) /\ Summing(TheSums(f, S \ {a}), f, S \ {a})
  BY <1>2, TheSumsSum
<1>4. TheSums(f, S)[S \ {a}] = TheSums(f, S \ {a})[S \ {a}]
  BY <1>2, <1>3, SummingUnique
<1>5. TheSums(f, S)[S] = f[a] + TheSums(f, S)[S \ {a}]
  BY <1>3, SummingStep
<1> QED BY <1>1, <1>4, <1>5, SumIsTheSums

-----------------------------------------------------------------------------
LEMMA SumType ==
  ASSUME NEW f, NEW S, IsFiniteSet(S), \A x \in S : f[x] \in Int
  PROVE  SumFunctionOnSet(f, S) \in Int
<1> DEFINE Bad == {s \in SUBSET S : SumFunctionOnSet(f, s) \notin Int}
<1> SUFFICES ASSUME Bad # {} PROVE FALSE
  OBVIOUS
<1>1. PICK s \in Bad : \A y \in Bad : ~(y \subseteq s /\ y # s)
  <2>1. Bad \subseteq SUBSET S
    OBVIOUS
  <2> HIDE DEF Bad
  <2> QED BY <2>1, SmallestSubset
<1>2. s # {} /\ s \in SUBSET S /\ IsFiniteSet(s)
  <2>1. s \in SUBSET S /\ SumFunctionOnSet(f, s) \notin Int
    OBVIOUS
  <2>2. IsFiniteSet(s)
    BY <2>1, FS_Subset
  <2>3. s # {}
    BY <2>1, SumEmpty
  <2> QED BY <2>1, <2>2, <2>3
<1>3. FirstOf(s) \in s /\ SumFunctionOnSet(f, s) = f[FirstOf(s)] + SumFunctionOnSet(f, s \ {FirstOf(s)})
  BY <1>2, SumAny
<1>4. SumFunctionOnSet(f, s \ {FirstOf(s)}) \in Int
  BY <1>1, <1>2, <1>3
<1> QED BY <1>2, <1>3, <1>4

\* The order does not matter: any index may be taken out first.
LEMMA SumTake ==
  ASSUME NEW f, NEW S, IsFiniteSet(S), \A x \in S : f[x] \in Int, NEW x \in S
  PROVE  SumFunctionOnSet(f, S) = f[x] + SumFunctionOnSet(f, S \ {x})
<1> DEFINE Takes(s) == \A y \in s : SumFunctionOnSet(f, s) = f[y] + SumFunctionOnSet(f, s \ {y})
           Bad == {s \in SUBSET S : ~Takes(s)}
<1> SUFFICES ASSUME Bad # {} PROVE FALSE
  OBVIOUS
<1>1. PICK s \in Bad : \A t \in Bad : ~(t \subseteq s /\ t # s)
  <2>1. Bad \subseteq SUBSET S
    OBVIOUS
  <2> HIDE DEF Bad
  <2> QED BY <2>1, SmallestSubset
<1>2. PICK y \in s : SumFunctionOnSet(f, s) # f[y] + SumFunctionOnSet(f, s \ {y})
  BY <1>1
<1> DEFINE a == FirstOf(s)
           rest == s \ {a, y}
<1>3. s \in SUBSET S /\ IsFiniteSet(s) /\ s # {}
  BY <1>2, FS_Subset
<1>4. a \in s /\ SumFunctionOnSet(f, s) = f[a] + SumFunctionOnSet(f, s \ {a})
  BY <1>3, SumAny
<1>5. a # y
  BY <1>2, <1>4
<1>6. Takes(s \ {a}) /\ Takes(s \ {y})
  BY <1>1, <1>2, <1>3, <1>4
<1>7. SumFunctionOnSet(f, s \ {a}) = f[y] + SumFunctionOnSet(f, rest)
  <2>1. (s \ {a}) \ {y} = rest /\ y \in s \ {a}
    BY <1>5
  <2> QED BY <1>6, <2>1
<1>8. SumFunctionOnSet(f, s \ {y}) = f[a] + SumFunctionOnSet(f, rest)
  <2>1. (s \ {y}) \ {a} = rest /\ a \in s \ {y}
    BY <1>4, <1>5
  <2> QED BY <1>6, <2>1
<1>9. SumFunctionOnSet(f, rest) \in Int /\ f[a] \in Int /\ f[y] \in Int
  <2>1. rest \subseteq S /\ IsFiniteSet(rest)
    BY <1>3, FS_Subset
  <2> QED BY <1>3, <1>4, <2>1, SumType
<1> QED BY <1>2, <1>4, <1>7, <1>8, <1>9

LEMMA SumAdd ==
  ASSUME NEW f, NEW S, IsFiniteSet(S), \A x \in S : f[x] \in Int, NEW x, x \notin S, f[x] \in Int
  PROVE  SumFunctionOnSet(f, S \cup {x}) = f[x] + SumFunctionOnSet(f, S)
<1>1. IsFiniteSet(S \cup {x}) /\ (S \cup {x}) \ {x} = S /\ \A y \in S \cup {x} : f[y] \in Int
  BY FS_AddElement
<1>2. SumFunctionOnSet(f, S \cup {x}) = f[x] + SumFunctionOnSet(f, (S \cup {x}) \ {x})
  BY <1>1, SumTake
<1> QED BY <1>1, <1>2

\* A function that is nowhere greater has no greater sum.
LEMMA SumMonotone ==
  ASSUME NEW f, NEW g, NEW S, IsFiniteSet(S), \A x \in S : f[x] \in Int /\ g[x] \in Int /\ f[x] <= g[x]
  PROVE  SumFunctionOnSet(f, S) <= SumFunctionOnSet(g, S)
<1> DEFINE Below(s) == SumFunctionOnSet(f, s) <= SumFunctionOnSet(g, s)
           Bad == {s \in SUBSET S : ~Below(s)}
<1> SUFFICES ASSUME Bad # {} PROVE FALSE
  OBVIOUS
<1>1. PICK s \in Bad : \A t \in Bad : ~(t \subseteq s /\ t # s)
  <2>1. Bad \subseteq SUBSET S
    OBVIOUS
  <2> HIDE DEF Bad
  <2> QED BY <2>1, SmallestSubset
<1>2. s \in SUBSET S /\ IsFiniteSet(s) /\ ~Below(s)
  BY FS_Subset
<1>3. s # {}
  BY <1>2, SumEmpty
<1> DEFINE a == FirstOf(s)
           rest == s \ {a}
<1>4. /\ a \in s /\ SumFunctionOnSet(f, s) = f[a] + SumFunctionOnSet(f, rest)
      /\ SumFunctionOnSet(g, s) = g[a] + SumFunctionOnSet(g, rest)
  BY <1>2, <1>3, SumAny
<1>5. Below(rest)
  BY <1>1, <1>2, <1>4
<1>6. SumFunctionOnSet(f, rest) \in Int /\ SumFunctionOnSet(g, rest) \in Int
  <2>1. rest \subseteq S /\ IsFiniteSet(rest)
    BY <1>2, FS_Subset
  <2> QED BY <2>1, SumType
<1> QED BY <1>2, <1>4, <1>5, <1>6

LEMMA SumSame ==
  ASSUME NEW f, NEW g, NEW S, IsFiniteSet(S), \A x \in S : f[x] \in Int /\ f[x] = g[x]
  PROVE  SumFunctionOnSet(f, S) = SumFunctionOnSet(g, S)
<1>1. SumFunctionOnSet(f, S) <= SumFunctionOnSet(g, S) /\ SumFunctionOnSet(g, S) <= SumFunctionOnSet(f, S)
  BY SumMonotone
<1> QED BY <1>1, SumType

LEMMA SumNat ==
  ASSUME NEW f, NEW S, IsFiniteSet(S), \A x \in S : f[x] \in Nat
  PROVE  SumFunctionOnSet(f, S) \in Nat
<1> DEFINE Bad == {s \in SUBSET S : SumFunctionOnSet(f, s) \notin Nat}
<1> SUFFICES ASSUME Bad # {} PROVE FALSE
  OBVIOUS
<1>1. PICK s \in Bad : \A y \in Bad : ~(y \subseteq s /\ y # s)
  <2>1. Bad \subseteq SUBSET S
    OBVIOUS
  <2> HIDE DEF Bad
  <2> QED BY <2>1, SmallestSubset
<1>2. s # {} /\ s \in SUBSET S /\ IsFiniteSet(s)
  <2>1. s \in SUBSET S /\ SumFunctionOnSet(f, s) \notin Nat
    OBVIOUS
  <2>2. IsFiniteSet(s)
    BY <2>1, FS_Subset
  <2>3. s # {}
    BY <2>1, SumEmpty
  <2> QED BY <2>1, <2>2, <2>3
<1>3. FirstOf(s) \in s /\ SumFunctionOnSet(f, s) = f[FirstOf(s)] + SumFunctionOnSet(f, s \ {FirstOf(s)})
  BY <1>2, SumAny
<1>4. SumFunctionOnSet(f, s \ {FirstOf(s)}) \in Nat
  BY <1>1, <1>2, <1>3
<1> QED BY <1>2, <1>3, <1>4

\* A part of what is not negative has no greater sum.
LEMMA SumSubset ==
  ASSUME NEW f, NEW S, IsFiniteSet(S), \A x \in S : f[x] \in Nat, NEW T \in SUBSET S
  PROVE  SumFunctionOnSet(f, T) <= SumFunctionOnSet(f, S)
<1> DEFINE Over(s) == T \subseteq s => SumFunctionOnSet(f, T) <= SumFunctionOnSet(f, s)
           Bad == {s \in SUBSET S : ~Over(s)}
<1> SUFFICES ASSUME Bad # {} PROVE FALSE
  OBVIOUS
<1>1. PICK s \in Bad : \A t \in Bad : ~(t \subseteq s /\ t # s)
  <2>1. Bad \subseteq SUBSET S
    OBVIOUS
  <2> HIDE DEF Bad
  <2> QED BY <2>1, SmallestSubset
<1>2. s \in SUBSET S /\ IsFiniteSet(s) /\ T \subseteq s /\ ~Over(s) /\ IsFiniteSet(T)
  BY FS_Subset
<1>3. PICK x \in s : x \notin T
  <2>1. SumFunctionOnSet(f, T) \in Nat
    BY <1>2, SumNat
  <2> QED BY <1>2, <2>1
<1>4. SumFunctionOnSet(f, s) = f[x] + SumFunctionOnSet(f, s \ {x})
  BY <1>2, SumTake
<1>5. Over(s \ {x}) /\ T \subseteq s \ {x}
  BY <1>1, <1>2, <1>3
<1>6. SumFunctionOnSet(f, T) \in Nat /\ SumFunctionOnSet(f, s \ {x}) \in Nat /\ f[x] \in Nat
  <2>1. s \ {x} \subseteq S /\ IsFiniteSet(s \ {x})
    BY <1>2, FS_Subset
  <2> QED BY <1>2, <2>1, SumNat
<1> QED BY <1>2, <1>4, <1>5, <1>6

\* One value changes.
LEMMA SumChange ==
  ASSUME NEW f, NEW g, NEW S, IsFiniteSet(S), NEW x \in S,
         \A y \in S : f[y] \in Int /\ g[y] \in Int, \A y \in S \ {x} : g[y] = f[y]
  PROVE  SumFunctionOnSet(g, S) = SumFunctionOnSet(f, S) - f[x] + g[x]
<1>1. IsFiniteSet(S \ {x})
  BY FS_RemoveElement
<1>2. SumFunctionOnSet(f, S \ {x}) = SumFunctionOnSet(g, S \ {x}) /\ SumFunctionOnSet(f, S \ {x}) \in Int
  BY <1>1, SumSame, SumType
<1>3. /\ SumFunctionOnSet(f, S) = f[x] + SumFunctionOnSet(f, S \ {x})
      /\ SumFunctionOnSet(g, S) = g[x] + SumFunctionOnSet(g, S \ {x})
  BY SumTake
<1> QED BY <1>2, <1>3

LEMMA TimesOneMore ==
  ASSUME NEW n \in Nat, NEW m \in Nat
  PROVE  n * m \in Nat /\ (n + 1) * m = n * m + m
  OBVIOUS

\* A sum is at most the greatest value times their number.
LEMMA SumAtMost ==
  ASSUME NEW f, NEW S, IsFiniteSet(S), NEW m \in Nat, \A x \in S : f[x] \in Nat /\ f[x] <= m
  PROVE  SumFunctionOnSet(f, S) <= Cardinality(S) * m
<1> DEFINE Bad == {s \in SUBSET S : ~(SumFunctionOnSet(f, s) <= Cardinality(s) * m)}
<1> SUFFICES ASSUME Bad # {} PROVE FALSE
  OBVIOUS
<1>1. PICK s \in Bad : \A t \in Bad : ~(t \subseteq s /\ t # s)
  <2>1. Bad \subseteq SUBSET S
    OBVIOUS
  <2> HIDE DEF Bad
  <2> QED BY <2>1, SmallestSubset
<1>2. s \in SUBSET S /\ IsFiniteSet(s) /\ ~(SumFunctionOnSet(f, s) <= Cardinality(s) * m)
  BY FS_Subset
<1>3. s # {}
  <2>1. SumFunctionOnSet(f, {}) = 0 /\ Cardinality({}) = 0
    BY SumEmpty, FS_EmptySet
  <2> QED BY <1>2, <2>1
<1> DEFINE a == FirstOf(s)
           rest == s \ {a}
<1>4. a \in s /\ SumFunctionOnSet(f, s) = f[a] + SumFunctionOnSet(f, rest)
  BY <1>2, <1>3, SumAny
<1>5. SumFunctionOnSet(f, rest) <= Cardinality(rest) * m
  <2>1. rest \in SUBSET S /\ rest \subseteq s /\ rest # s
    BY <1>2, <1>4
  <2> HIDE DEF rest
  <2>2. rest \notin Bad
    BY <1>1, <2>1
  <2> QED BY <2>1, <2>2
<1>6. rest \subseteq S /\ IsFiniteSet(rest) /\ Cardinality(s) = Cardinality(rest) + 1
      /\ Cardinality(rest) \in Nat
  <2>1. IsFiniteSet(rest) /\ Cardinality(rest) = Cardinality(s) - 1
    BY <1>2, <1>4, FS_RemoveElement
  <2>2. Cardinality(rest) \in Nat /\ Cardinality(s) \in Nat
    BY <1>2, <2>1, FS_CardinalityType
  <2> QED BY <1>2, <2>1, <2>2
<1>7. SumFunctionOnSet(f, rest) \in Nat
  BY <1>6, SumNat
<1>8. Cardinality(s) * m = Cardinality(rest) * m + m /\ Cardinality(rest) * m \in Nat
  BY <1>6, TimesOneMore
<1>9. f[a] \in Nat /\ f[a] <= m
  BY <1>2, <1>4
<1> HIDE DEF a, rest
<1> QED BY <1>2, <1>4, <1>5, <1>7, <1>8, <1>9

\* A finite set of numbers that is not empty has a greatest member.
LEMMA TopIsThere ==
  ASSUME NEW S, IsFiniteSet(S), S \subseteq Int, S # {}
  PROVE  \E x \in S : \A y \in S : x >= y
<1> DEFINE Topped(s) == \E x \in s : \A y \in s : x >= y
           Bad == {s \in SUBSET S : s # {} /\ ~Topped(s)}
<1> SUFFICES ASSUME Bad # {} PROVE FALSE
  OBVIOUS
<1>1. PICK s \in Bad : \A t \in Bad : ~(t \subseteq s /\ t # s)
  <2>1. Bad \subseteq SUBSET S
    OBVIOUS
  <2> HIDE DEF Bad
  <2>2. IsFiniteSet(S) /\ Bad # {}
    OBVIOUS
  <2> QED BY ONLY <2>1, <2>2, SmallestSubset
<1>2. s \in SUBSET S /\ s # {} /\ ~Topped(s)
  OBVIOUS
<1>3. PICK a : a \in s
  BY <1>2
<1>4. CASE s \ {a} = {}
  <2>1. s = {a} /\ a \in Int
    BY <1>2, <1>3, <1>4
  <2> QED BY <1>2, <2>1
<1>5. CASE s \ {a} # {}
  <2>1. Topped(s \ {a})
    <3> DEFINE rest == s \ {a}
    <3>1. rest \in SUBSET S /\ rest \subseteq s /\ rest # s /\ rest # {}
      BY <1>2, <1>3, <1>5
    <3> HIDE DEF rest
    <3>2. rest \notin Bad
      BY <1>1, <3>1
    <3>3. Topped(rest)
      BY <3>1, <3>2
    <3> QED BY <3>3 DEF rest
  <2>2. PICK x \in s \ {a} : \A y \in s \ {a} : x >= y
    BY <2>1
  <2>3. x \in Int /\ a \in Int /\ s \subseteq Int
    BY <1>2, <1>3
  <2>4. CASE x >= a
    BY <1>2, <2>2, <2>3, <2>4
  <2>5. CASE a >= x
    <3>1. \A y \in s : a >= y
      BY <2>2, <2>3, <2>5
    <3> QED BY <1>2, <1>3, <3>1
  <2> QED BY <2>3, <2>4, <2>5
<1> QED BY <1>4, <1>5

LEMMA MaxIsThere ==
  ASSUME NEW S, IsFiniteSet(S), S \subseteq Int, S # {}
  PROVE  Max(S) \in S /\ \A x \in S : x <= Max(S)
<1>1. \E x \in S : \A y \in S : x >= y
  BY TopIsThere
<1>2. Max(S) \in S /\ \A y \in S : Max(S) >= y
  BY <1>1 DEF Max
<1>3. Max(S) \in Int
  BY <1>2
<1> QED BY <1>2, <1>3
=============================================================================
