---------------------------------- MODULE Sums ----------------------------------
(***************************************************************************)
(* Sums over finite sets.  The models add up amounts with the community    *)
(* modules' SumFunction and SumFunctionOnSet, which fold the set in an     *)
(* order that CHOOSE picks.  These lemmas say what such a sum is, whatever *)
(* the order: 0 over nothing, one term more over one element more, and     *)
(* what follows from the two by induction over the subsets of a finite     *)
(* set.                                                                    *)
(***************************************************************************)
EXTENDS Integers, FiniteSets, Functions, FiniteSetTheorems, WellFoundedInduction, TLAPS

\* Induction over the natural numbers, for a set rather than an operator: no
\* smallest number is outside a set that holds 0 and every successor.
LEMMA NatSetInduction ==
    ASSUME NEW N \in SUBSET Nat, 0 \in N, \A n \in N : n + 1 \in N
    PROVE  N = Nat
<1> SUFFICES ASSUME N # Nat PROVE FALSE
  OBVIOUS
<1> DEFINE R == OpToRel(<, Nat)
<1> DEFINE T == Nat \ N
<1>1. IsWellFoundedOn(R, Nat)
  BY NatLessThanWellFounded
<1>2. T \subseteq Nat /\ T # {}
  OBVIOUS
<1>3. PICK x \in T : \A y \in T : <<y, x>> \notin R
  <2> HIDE DEF R, T
  <2> QED BY <1>1, <1>2, WFMin
<1>4. x # 0 /\ x - 1 \in T
  <2> HIDE DEF R
  <2>1. x \in Nat /\ x \notin N
    BY <1>3
  <2>2. x # 0
    BY <2>1
  <2>3. x - 1 \in Nat /\ x - 1 \notin N
    BY <2>1, <2>2
  <2> QED BY <2>2, <2>3
<1>5. <<x - 1, x>> \in R
  BY <1>4, x \in Nat DEF OpToRel
<1> QED
  <2> HIDE DEF R, T
  <2> QED BY <1>3, <1>4, <1>5

\* Induction over the subsets of a finite set.
LEMMA SubsetInduction ==
    ASSUME NEW S, IsFiniteSet(S), NEW Good, {} \in Good,
           \A T \in SUBSET S : T # {} /\ (\A x \in T : T \ {x} \in Good) => T \in Good
    PROVE  S \in Good
<1> DEFINE N == {n \in Nat : \A T \in SUBSET S : Cardinality(T) = n => T \in Good}
<1>0. \A s \in SUBSET S : IsFiniteSet(s) /\ Cardinality(s) \in Nat
  BY FS_Subset, FS_CardinalityType
<1>1. 0 \in N
  BY <1>0, FS_EmptySet
<1>2. ASSUME NEW n \in N PROVE n + 1 \in N
  <2> SUFFICES ASSUME NEW T \in SUBSET S, Cardinality(T) = n + 1 PROVE T \in Good
    OBVIOUS
  <2>0. n \in Nat /\ \A U \in SUBSET S : Cardinality(U) = n => U \in Good
    OBVIOUS
  <2>1. T # {}
    <3>1. Cardinality({}) = 0
      BY FS_EmptySet
    <3>2. T = {} => Cardinality(T) = 0
      BY <3>1
    <3>3. Cardinality(T) # 0
      BY <2>0
    <3> QED BY <3>2, <3>3
  <2>2. ASSUME NEW x \in T PROVE T \ {x} \in Good
    <3>1. Cardinality(T \ {x}) = n
      BY <1>0, <2>0, FS_RemoveElement
    <3> HIDE DEF N
    <3> QED BY <2>0, <3>1
  <2> QED BY <2>1, <2>2
<1>3. N = Nat
  <2> HIDE DEF N
  <2>1. N \in SUBSET Nat
    BY DEF N
  <2> QED BY <1>1, <1>2, <2>1, NatSetInduction
<1> QED
  BY <1>0, <1>3

Chosen(s) == CHOOSE x \in s : TRUE
Step(f, g, s) == IF s = {} THEN 0 ELSE f[Chosen(s)] + g[s \ {Chosen(s)}]
Iter(f, S) == CHOOSE g : g = [s \in SUBSET S |-> Step(f, g, s)]

\* The library's sum is the last value of the recursion Iter over subsets.
LEMMA SumIsIter == ASSUME NEW f, NEW S PROVE SumFunctionOnSet(f, S) = Iter(f, S)[S]
  BY DEF SumFunctionOnSet, FoldFunctionOnSet, MapThenFoldSet, Iter, Step, Chosen

\* The recursion has a solution on the subsets of a finite set: it is built up
\* by the size of the subset, then read off.
LEMMA IterExists ==
    ASSUME NEW f, NEW S, IsFiniteSet(S)
    PROVE  \A s \in SUBSET S : Iter(f, S)[s] = Step(f, Iter(f, S), s)
<1> DEFINE D(n) == {s \in SUBSET S : Cardinality(s) <= n}
<1> DEFINE N == {n \in Nat : \E g : g = [s \in D(n) |-> Step(f, g, s)]}
<1>0. \A s \in SUBSET S : IsFiniteSet(s) /\ Cardinality(s) \in Nat /\ Cardinality(s) <= Cardinality(S)
  BY FS_Subset, FS_CardinalityType
<1>a. \A s \in SUBSET S : s # {} => Chosen(s) \in s
  BY DEF Chosen
<1>1. 0 \in N
  <2> DEFINE g == [s \in D(0) |-> 0]
  <2>1. \A s \in D(0) : s = {}
    BY <1>0, FS_EmptySet
  <2>2. g = [s \in D(0) |-> Step(f, g, s)]
    BY <2>1 DEF Step
  <2> QED BY <2>2
<1>2. ASSUME NEW n \in N PROVE n + 1 \in N
  <2>1. PICK g : g = [s \in D(n) |-> Step(f, g, s)]
    OBVIOUS
  <2> DEFINE h == [s \in D(n + 1) |-> Step(f, g, s)]
  <2>2. ASSUME NEW s \in D(n + 1) PROVE Step(f, g, s) = Step(f, h, s)
    <3>1. CASE s = {}
      BY <3>1 DEF Step
    <3>2. CASE s # {}
      <4> DEFINE t == s \ {Chosen(s)}
      <4>1. t \in SUBSET S /\ Cardinality(t) = Cardinality(s) - 1
        BY <1>0, <1>a, <3>2, FS_RemoveElement
      <4>2. t \in D(n) /\ t \in D(n + 1)
        BY <4>1, <1>0
      <4>3. g[t] = Step(f, g, t) /\ h[t] = Step(f, g, t)
        <5> HIDE DEF D, t
        <5> QED BY <4>2, <2>1
      <4> QED BY <4>3, <3>2 DEF Step
    <3> QED BY <3>1, <3>2
  <2>3. h = [s \in D(n + 1) |-> Step(f, h, s)]
    <3> HIDE DEF D
    <3> QED BY <2>2
  <2>4. n + 1 \in Nat
    OBVIOUS
  <2> QED BY <2>3, <2>4
<1>3. N = Nat
  <2> HIDE DEF N
  <2>1. N \in SUBSET Nat
    BY DEF N
  <2> QED BY <1>1, <1>2, <2>1, NatSetInduction
<1>4. Cardinality(S) \in N
  BY <1>3, FS_CardinalityType
<1>5. D(Cardinality(S)) = SUBSET S
  BY <1>0
<1>6. \E g : g = [s \in SUBSET S |-> Step(f, g, s)]
  <2> HIDE DEF D
  <2> QED BY <1>4, <1>5
<1> DEFINE h == Iter(f, S)
<1>7. h = [s \in SUBSET S |-> Step(f, h, s)]
  BY <1>6 DEF Iter
<1> HIDE DEF h
<1>8. \A s \in SUBSET S : h[s] = Step(f, h, s)
  BY <1>7
<1> QED
  BY <1>8 DEF h

\* The element a step takes off is one of the set.
LEMMA ChosenIn == \A s : s # {} => Chosen(s) \in s
  BY DEF Chosen

\* The recursion of a sum over S also gives the sums over its subsets.
LEMMA IterOnSubset ==
    ASSUME NEW f, NEW S, IsFiniteSet(S), NEW T \in SUBSET S
    PROVE  Iter(f, S)[T] = Iter(f, T)[T]
<1> DEFINE g == Iter(f, S)
<1> DEFINE h == Iter(f, T)
<1> DEFINE Good == {U \in SUBSET T : g[U] = h[U]}
<1>0. IsFiniteSet(T)
  BY FS_Subset
<1>1. ASSUME NEW U \in SUBSET T PROVE g[U] = Step(f, g, U) /\ h[U] = Step(f, h, U)
  BY <1>0, IterExists
<1> HIDE DEF g, h
<1>2. {} \in Good
  BY <1>1 DEF Step
<1>3. ASSUME NEW U \in SUBSET T, U # {}, \A x \in U : U \ {x} \in Good PROVE U \in Good
  BY <1>1, <1>3, ChosenIn DEF Step
<1>4. T \in Good
  <2> HIDE DEF Good
  <2> QED BY <1>0, <1>2, <1>3, SubsetInduction
<1> QED
  BY <1>4 DEF g, h

\* The recursion unfolds at the whole set.
LEMMA IterStep ==
    ASSUME NEW f, NEW S, IsFiniteSet(S)
    PROVE  Iter(f, S)[S] = Step(f, Iter(f, S), S)
  BY IterExists

\* Nothing sums to 0.
LEMMA SumEmpty == ASSUME NEW f PROVE SumFunctionOnSet(f, {}) = 0
<1>1. IsFiniteSet({})
  BY FS_EmptySet
<1>2. Iter(f, {})[{}] = Step(f, Iter(f, {}), {})
  BY <1>1, IterStep
<1> QED
  BY <1>2, SumIsIter DEF Step

\* One element can be taken first, whatever is summed.
LEMMA SumStep ==
    ASSUME NEW S, IsFiniteSet(S), S # {}
    PROVE  \E c \in S : \A f : SumFunctionOnSet(f, S) = f[c] + SumFunctionOnSet(f, S \ {c})
<1> DEFINE c == Chosen(S)
<1>1. c \in S
  BY DEF Chosen
<1>2. ASSUME NEW f PROVE SumFunctionOnSet(f, S) = f[c] + SumFunctionOnSet(f, S \ {c})
  <2>1. Iter(f, S)[S] = f[c] + Iter(f, S)[S \ {c}]
    BY IterStep DEF Step
  <2>2. Iter(f, S)[S \ {c}] = Iter(f, S \ {c})[S \ {c}]
    BY IterOnSubset
  <2> QED BY <2>1, <2>2, SumIsIter
<1> HIDE DEF c
<1> QED
  BY <1>1, <1>2

\* A sum of integers is an integer.
LEMMA SumInt ==
    ASSUME NEW S, IsFiniteSet(S), NEW f, \A x \in S : f[x] \in Int
    PROVE  SumFunctionOnSet(f, S) \in Int
<1> DEFINE Good == {T \in SUBSET S : SumFunctionOnSet(f, T) \in Int}
<1>1. {} \in Good
  BY SumEmpty
<1>2. ASSUME NEW T \in SUBSET S, T # {}, \A x \in T : T \ {x} \in Good PROVE T \in Good
  <2>1. PICK c \in T : SumFunctionOnSet(f, T) = f[c] + SumFunctionOnSet(f, T \ {c})
    BY <1>2, FS_Subset, SumStep
  <2> QED BY <1>2, <2>1
<1>3. S \in Good
  <2> HIDE DEF Good
  <2> QED BY <1>1, <1>2, SubsetInduction
<1> QED
  BY <1>3

\* A sum of natural numbers is a natural number.
LEMMA SumNat ==
    ASSUME NEW S, IsFiniteSet(S), NEW f, \A x \in S : f[x] \in Nat
    PROVE  SumFunctionOnSet(f, S) \in Nat
<1> DEFINE Good == {T \in SUBSET S : SumFunctionOnSet(f, T) \in Nat}
<1>1. {} \in Good
  BY SumEmpty
<1>2. ASSUME NEW T \in SUBSET S, T # {}, \A x \in T : T \ {x} \in Good PROVE T \in Good
  <2>1. PICK c \in T : SumFunctionOnSet(f, T) = f[c] + SumFunctionOnSet(f, T \ {c})
    BY <1>2, FS_Subset, SumStep
  <2> QED BY <1>2, <2>1
<1>3. S \in Good
  <2> HIDE DEF Good
  <2> QED BY <1>1, <1>2, SubsetInduction
<1> QED
  BY <1>3

\* One element more or less changes a sum by its value.
LEMMA SumRemove ==
    ASSUME NEW S, IsFiniteSet(S), NEW f, \A x \in S : f[x] \in Int, NEW x \in S
    PROVE  SumFunctionOnSet(f, S) = f[x] + SumFunctionOnSet(f, S \ {x})
<1> DEFINE sum(T) == SumFunctionOnSet(f, T)
<1> DEFINE Good == {T \in SUBSET S : \A y \in T : sum(T) = f[y] + sum(T \ {y})}
<1>0. \A T \in SUBSET S : sum(T) \in Int /\ IsFiniteSet(T)
  BY FS_Subset, SumInt
<1>a. \A T \in SUBSET S : T # {} => \E c \in T : sum(T) = f[c] + sum(T \ {c})
  BY <1>0, SumStep
<1> HIDE DEF sum
<1>1. {} \in Good
  OBVIOUS
<1>2. ASSUME NEW T \in SUBSET S, T # {}, \A y \in T : T \ {y} \in Good PROVE T \in Good
  <2> SUFFICES ASSUME NEW y \in T PROVE sum(T) = f[y] + sum(T \ {y})
    OBVIOUS
  <2>1. PICK c \in T : sum(T) = f[c] + sum(T \ {c})
    BY <1>2, <1>a
  <2>2. CASE y = c
    BY <2>1, <2>2
  <2>3. CASE y # c
    <3>1. sum(T \ {c}) = f[y] + sum((T \ {c}) \ {y})
      BY <1>2, <2>3
    <3>2. sum(T \ {y}) = f[c] + sum((T \ {y}) \ {c})
      BY <1>2, <2>3
    <3>3. (T \ {y}) \ {c} = (T \ {c}) \ {y}
      OBVIOUS
    <3> DEFINE rest == sum((T \ {c}) \ {y})
    <3>4. f[y] \in Int /\ f[c] \in Int /\ rest \in Int
      BY <1>0
    <3>5. sum(T) = f[c] + (f[y] + rest)
      BY <2>1, <3>1
    <3>6. f[y] + sum(T \ {y}) = f[y] + (f[c] + rest)
      BY <3>2, <3>3
    <3> HIDE DEF rest
    <3> QED BY <3>4, <3>5, <3>6
  <2> QED BY <2>2, <2>3
<1>3. S \in Good
  <2> HIDE DEF Good
  <2> QED BY <1>1, <1>2, SubsetInduction
<1> QED
  BY <1>3 DEF sum

\* A sum over one element more.
LEMMA SumAdd ==
    ASSUME NEW S, IsFiniteSet(S), NEW f, \A y \in S : f[y] \in Int, NEW x, x \notin S, f[x] \in Int
    PROVE  SumFunctionOnSet(f, S \cup {x}) = SumFunctionOnSet(f, S) + f[x]
<1>1. IsFiniteSet(S \cup {x}) /\ (S \cup {x}) \ {x} = S
  BY FS_AddElement
<1>2. SumFunctionOnSet(f, S) \in Int
  BY SumInt
<1>3. SumFunctionOnSet(f, S \cup {x}) = f[x] + SumFunctionOnSet(f, (S \cup {x}) \ {x})
  <2>1. \A y \in S \cup {x} : f[y] \in Int
    OBVIOUS
  <2>2. x \in S \cup {x}
    OBVIOUS
  <2> QED BY <1>1, <2>1, <2>2, SumRemove
<1>4. SumFunctionOnSet(f, S \cup {x}) = f[x] + SumFunctionOnSet(f, S)
  BY <1>1, <1>3
<1> QED
  BY <1>2, <1>4

\* A sum depends only on the values it sums.
LEMMA SumSame ==
    ASSUME NEW S, IsFiniteSet(S), NEW f, NEW g, \A x \in S : f[x] = g[x]
    PROVE  SumFunctionOnSet(f, S) = SumFunctionOnSet(g, S)
<1> DEFINE Good == {T \in SUBSET S : SumFunctionOnSet(f, T) = SumFunctionOnSet(g, T)}
<1>1. {} \in Good
  BY SumEmpty
<1>2. ASSUME NEW T \in SUBSET S, T # {}, \A x \in T : T \ {x} \in Good PROVE T \in Good
  <2>1. PICK c \in T : \A k : SumFunctionOnSet(k, T) = k[c] + SumFunctionOnSet(k, T \ {c})
    BY <1>2, FS_Subset, SumStep
  <2>2. SumFunctionOnSet(f, T \ {c}) = SumFunctionOnSet(g, T \ {c})
    BY <1>2
  <2> QED BY <2>1, <2>2
<1>3. S \in Good
  <2> HIDE DEF Good
  <2> QED BY <1>1, <1>2, SubsetInduction
<1> QED
  BY <1>3

\* The sum of sums, and of differences.
LEMMA SumPlus ==
    ASSUME NEW S, IsFiniteSet(S), NEW f, NEW g, NEW h,
           \A x \in S : f[x] \in Int /\ g[x] \in Int /\ h[x] = f[x] + g[x]
    PROVE  SumFunctionOnSet(h, S) = SumFunctionOnSet(f, S) + SumFunctionOnSet(g, S)
<1> DEFINE Good == {T \in SUBSET S : SumFunctionOnSet(h, T) = SumFunctionOnSet(f, T) + SumFunctionOnSet(g, T)}
<1>1. {} \in Good
  BY SumEmpty
<1>2. ASSUME NEW T \in SUBSET S, T # {}, \A x \in T : T \ {x} \in Good PROVE T \in Good
  <2>1. IsFiniteSet(T)
    BY FS_Subset
  <2>2. PICK c \in T : \A k : SumFunctionOnSet(k, T) = k[c] + SumFunctionOnSet(k, T \ {c})
    BY <1>2, <2>1, SumStep
  <2> DEFINE U == T \ {c}
  <2>3. /\ SumFunctionOnSet(h, T) = h[c] + SumFunctionOnSet(h, U)
        /\ SumFunctionOnSet(f, T) = f[c] + SumFunctionOnSet(f, U)
        /\ SumFunctionOnSet(g, T) = g[c] + SumFunctionOnSet(g, U)
    BY <2>2
  <2>4. SumFunctionOnSet(h, U) = SumFunctionOnSet(f, U) + SumFunctionOnSet(g, U)
    BY <1>2, <2>2
  <2>5. SumFunctionOnSet(f, U) \in Int /\ SumFunctionOnSet(g, U) \in Int
    <3>1. IsFiniteSet(U)
      BY <2>1, FS_Subset
    <3> QED BY <3>1, SumInt
  <2>6. f[c] \in Int /\ g[c] \in Int /\ h[c] = f[c] + g[c]
    BY <2>2
  <2> HIDE DEF U
  <2> QED BY <2>3, <2>4, <2>5, <2>6
<1>3. S \in Good
  <2> HIDE DEF Good
  <2> QED BY <1>1, <1>2, SubsetInduction
<1> QED
  BY <1>3

\* Changing one value changes the sum by as much.
LEMMA SumChange ==
    ASSUME NEW S, IsFiniteSet(S), NEW f, NEW g, NEW x \in S,
           \A y \in S : f[y] \in Int /\ g[y] \in Int, \A y \in S \ {x} : f[y] = g[y]
    PROVE  SumFunctionOnSet(g, S) = SumFunctionOnSet(f, S) + g[x] - f[x]
<1> DEFINE T == S \ {x}
<1>1. IsFiniteSet(T)
  BY FS_Subset
<1>2. SumFunctionOnSet(f, T) = SumFunctionOnSet(g, T) /\ SumFunctionOnSet(f, T) \in Int
  BY <1>1, SumSame, SumInt
<1>3. /\ SumFunctionOnSet(f, S) = f[x] + SumFunctionOnSet(f, T)
      /\ SumFunctionOnSet(g, S) = g[x] + SumFunctionOnSet(g, T)
  BY SumRemove
<1> HIDE DEF T
<1> QED
  BY <1>2, <1>3

\* Sums over disjoint sets add up.
LEMMA SumUnion ==
    ASSUME NEW S, NEW T, IsFiniteSet(S), IsFiniteSet(T), S \cap T = {},
           NEW f, \A x \in S \cup T : f[x] \in Int
    PROVE  SumFunctionOnSet(f, S \cup T) = SumFunctionOnSet(f, S) + SumFunctionOnSet(f, T)
<1> DEFINE Good == {U \in SUBSET T : SumFunctionOnSet(f, S \cup U) = SumFunctionOnSet(f, S) + SumFunctionOnSet(f, U)}
<1>1. {} \in Good
  <2>1. SumFunctionOnSet(f, S) \in Int /\ S \cup {} = S
    BY SumInt
  <2> QED BY <2>1, SumEmpty
<1>2. ASSUME NEW U \in SUBSET T, U # {}, \A x \in U : U \ {x} \in Good PROVE U \in Good
  <2>1. PICK x \in U : TRUE
    BY <1>2
  <2> DEFINE V == U \ {x}
  <2>2. IsFiniteSet(U) /\ IsFiniteSet(V) /\ IsFiniteSet(S \cup U)
    BY FS_Subset, FS_Union
  <2>3. SumFunctionOnSet(f, U) = f[x] + SumFunctionOnSet(f, V)
    BY <2>2, SumRemove
  <2>4. SumFunctionOnSet(f, S \cup U) = f[x] + SumFunctionOnSet(f, S \cup V)
    <3>1. (S \cup U) \ {x} = S \cup V /\ x \in S \cup U
      OBVIOUS
    <3>2. \A y \in S \cup U : f[y] \in Int
      OBVIOUS
    <3> QED BY <2>2, <3>1, <3>2, SumRemove
  <2>5. SumFunctionOnSet(f, S \cup V) = SumFunctionOnSet(f, S) + SumFunctionOnSet(f, V)
    BY <1>2
  <2>6. f[x] \in Int /\ SumFunctionOnSet(f, S) \in Int /\ SumFunctionOnSet(f, V) \in Int
    BY <2>2, SumInt
  <2> HIDE DEF V
  <2> QED BY <2>3, <2>4, <2>5, <2>6
<1>3. T \in Good
  <2> HIDE DEF Good
  <2> QED BY <1>1, <1>2, SubsetInduction
<1> QED
  BY <1>3

\* Less everywhere is less in all.
LEMMA SumMonotonic ==
    ASSUME NEW S, IsFiniteSet(S), NEW f, NEW g,
           \A x \in S : f[x] \in Int /\ g[x] \in Int /\ f[x] <= g[x]
    PROVE  SumFunctionOnSet(f, S) <= SumFunctionOnSet(g, S)
<1> DEFINE d == [x \in S |-> g[x] - f[x]]
<1>1. SumFunctionOnSet(d, S) \in Nat
  BY SumNat
<1>2. SumFunctionOnSet(g, S) = SumFunctionOnSet(f, S) + SumFunctionOnSet(d, S)
  <2>1. \A x \in S : f[x] \in Int /\ d[x] \in Int /\ g[x] = f[x] + d[x]
    OBVIOUS
  <2> QED BY <2>1, SumPlus
<1>3. SumFunctionOnSet(f, S) \in Int
  BY SumInt
<1> QED
  BY <1>1, <1>2, <1>3

\* A sum of naturals vanishes only if each of them does, and bounds each.
LEMMA SumBounds ==
    ASSUME NEW S, IsFiniteSet(S), NEW f, \A x \in S : f[x] \in Nat, NEW x \in S
    PROVE  f[x] <= SumFunctionOnSet(f, S)
<1>1. SumFunctionOnSet(f, S) = f[x] + SumFunctionOnSet(f, S \ {x})
  BY SumRemove
<1>2. SumFunctionOnSet(f, S \ {x}) \in Nat
  <2>1. IsFiniteSet(S \ {x})
    BY FS_Subset
  <2> QED BY <2>1, SumNat
<1> QED
  BY <1>1, <1>2

\* The sum of one term more.
LEMMA SumNext ==
    ASSUME NEW k \in Nat, NEW f, \A n \in 1..(k + 1) : f[n] \in Int
    PROVE  SumFunctionOnSet(f, 1..(k + 1)) = SumFunctionOnSet(f, 1..k) + f[k + 1]
<1> DEFINE S == 1..k
           x == k + 1
<1>1. IsFiniteSet(S)
  BY FS_Interval
<1>2. x \notin S /\ 1..(k + 1) = S \cup {x} /\ (\A n \in S : f[n] \in Int) /\ f[x] \in Int
  OBVIOUS
<1> HIDE DEF S, x
<1>3. SumFunctionOnSet(f, S \cup {x}) = SumFunctionOnSet(f, S) + f[x]
  BY <1>1, <1>2, SumAdd
<1> QED
  BY <1>2, <1>3 DEF S, x

\* A sum of zeros is zero.
LEMMA SumZero ==
    ASSUME NEW S, IsFiniteSet(S), NEW f, \A x \in S : f[x] = 0
    PROVE  SumFunctionOnSet(f, S) = 0
<1>1. \A x \in S : f[x] \in Int /\ f[x] = f[x] + f[x]
  OBVIOUS
<1>2. SumFunctionOnSet(f, S) = SumFunctionOnSet(f, S) + SumFunctionOnSet(f, S)
  BY <1>1, SumPlus
<1>3. SumFunctionOnSet(f, S) \in Int
  BY <1>1, SumInt
<1> QED
  BY <1>2, <1>3

\* A function with one more point, as a sum.
LEMMA SumGrows ==
    ASSUME NEW S, IsFiniteSet(S), NEW k, k \notin S, NEW v, NEW w,
           \A i \in S : v[i] \in Int /\ w[i] = v[i], w[k] \in Int
    PROVE  SumFunctionOnSet(w, S \cup {k}) = SumFunctionOnSet(v, S) + w[k]
<1>1. SumFunctionOnSet(w, S) = SumFunctionOnSet(v, S)
  BY SumSame
<1>2. \A i \in S : w[i] \in Int
  OBVIOUS
<1>3. SumFunctionOnSet(w, S \cup {k}) = SumFunctionOnSet(w, S) + w[k]
  BY <1>2, SumAdd
<1> QED
  BY <1>1, <1>3

\* A function with one point less, as a sum.
LEMMA SumShrinks ==
    ASSUME NEW S, IsFiniteSet(S), NEW k \in S, NEW v, NEW w,
           \A i \in S : v[i] \in Int, \A i \in S \ {k} : w[i] = v[i]
    PROVE  SumFunctionOnSet(w, S \ {k}) = SumFunctionOnSet(v, S) - v[k]
<1>1. IsFiniteSet(S \ {k})
  BY FS_Subset
<1>2. SumFunctionOnSet(w, S \ {k}) = SumFunctionOnSet(v, S \ {k}) /\ SumFunctionOnSet(v, S \ {k}) \in Int
  BY <1>1, SumSame, SumInt
<1>3. SumFunctionOnSet(v, S) = v[k] + SumFunctionOnSet(v, S \ {k})
  BY SumRemove
<1> QED
  BY <1>2, <1>3
===============================================================================
