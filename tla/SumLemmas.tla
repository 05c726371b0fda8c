------------------------------ MODULE SumLemmas ------------------------------
(* Sums over finite sets, as SumFunctionOnSet of the community module        *)
(* Functions takes them, for the proofs about books that add up.             *)
(*                                                                           *)
(* The library's theorems of induction take an operator as a parameter,      *)
(* which none of the provers can instantiate.  The lemmas below argue with   *)
(* a smallest counterexample instead: the family of subsets for which the    *)
(* claim fails is a set, and FiniteMinimum gives a minimal member of it.     *)
EXTENDS Functions, FiniteSetTheorems, WellFoundedInduction, TLAPS

\* A nonempty family of subsets of a finite set has a member none of whose
\* proper subsets belongs to the family.
LEMMA FiniteMinimum ==
  ASSUME NEW S, IsFiniteSet(S), NEW B, B \subseteq SUBSET S, B # {}
  PROVE  \E T \in B : /\ T \subseteq S /\ IsFiniteSet(T)
                      /\ \A U : U \subseteq T /\ U # T => U \notin B
<1>1. IsWellFoundedOn(StrictSubsetOrdering(S), FiniteSubsetsOf(S))
  BY FS_StrictSubsetOrderingWellFounded, Zenon
<1>2. B \subseteq FiniteSubsetsOf(S)
  BY FS_FiniteSubsetsOfFinite, Zenon
<1>3. PICK T \in B : \A U \in B : <<U, T>> \notin StrictSubsetOrdering(S)
  BY <1>1, <1>2, WFMin, Zenon
<1>4. \A U : U \subseteq T /\ U # T => U \notin B
  <2> SUFFICES ASSUME NEW U, U \subseteq T, U # T, U \in B PROVE FALSE
    OBVIOUS
  <2>1. <<U, T>> \in StrictSubsetOrdering(S)
    BY DEF StrictSubsetOrdering
  <2> QED
    BY <2>1, <1>3
<1>5. IsFiniteSet(T)
  BY FS_Subset, T \subseteq S
<1> QED
  BY <1>4, <1>5

------------------------------------------------------------------------------
(* The recursive function behind the sum has a solution, and it is the sum.  *)

\* The member of s the sum takes out first, and the equation of the rest.
Picked(s) == CHOOSE x \in s : TRUE
SumStep(f, g, s) == IF s = {} THEN 0 ELSE f[Picked(s)] + g[s \ {Picked(s)}]
SolvesSum(f, g, S) == g = [s \in SUBSET S |-> SumStep(f, g, s)]
SumSolution(f, S) == CHOOSE g : SolvesSum(f, g, S)

\* The member a sum takes out first belongs to the set.
LEMMA PickMember ==
  ASSUME NEW s, s # {}
  PROVE  Picked(s) \in s
  BY DEF Picked

\* The sum is the value, at the whole set, of the recursive function behind it.
LEMMA SumIsSolution ==
  ASSUME NEW f, NEW S
  PROVE  SumFunctionOnSet(f, S) = SumSolution(f, S)[S]
  BY Zenon DEF SumFunctionOnSet, FoldFunctionOnSet, MapThenFoldSet, SumSolution, SolvesSum,
               SumStep, Picked

\* A solution satisfies the recursive equation at every subset.
LEMMA SolutionStep ==
  ASSUME NEW f, NEW g, NEW S, SolvesSum(f, g, S), NEW s, s \subseteq S
  PROVE  g[s] = SumStep(f, g, s)
<1> DEFINE h == [t \in SUBSET S |-> SumStep(f, g, t)]
<1>1. g = h
  BY Zenon DEF SolvesSum
<1>2. h[s] = SumStep(f, g, s)
  BY Zenon
<1> QED
  BY <1>1, <1>2, Zenon

\* Two solutions, for whatever sets, agree where both are defined.
LEMMA SolutionsAgree ==
  ASSUME NEW f, NEW g, NEW h, NEW S, NEW T, SolvesSum(f, g, S), SolvesSum(f, h, T),
         NEW s, IsFiniteSet(s), s \subseteq S, s \subseteq T
  PROVE  g[s] = h[s]
<1> DEFINE B == {t \in SUBSET s : g[t] # h[t]}
<1>1. SUFFICES ASSUME B # {} PROVE FALSE
  BY Zenon
<1>b. B \subseteq SUBSET s
  OBVIOUS
<1> HIDE DEF B
<1>2. PICK t \in B : t \subseteq s /\ \A u : u \subseteq t /\ u # t => u \notin B
  BY <1>1, <1>b, FiniteMinimum
<1>3. g[t] = SumStep(f, g, t) /\ h[t] = SumStep(f, h, t)
  BY <1>2, SolutionStep, t \subseteq S, t \subseteq T
<1>4. CASE t = {}
  BY <1>3, <1>4 DEF SumStep, B
<1>5. CASE t # {}
  <2> DEFINE u == t \ {Picked(t)}
  <2>1. u \subseteq t /\ u # t
    BY <1>5, PickMember
  <2>2. g[u] = h[u]
    BY <2>1, <1>2 DEF B
  <2> QED
    BY <1>3, <1>5, <2>2 DEF SumStep, B
<1> QED
  BY <1>4, <1>5

\* The recursive equation has a solution over a finite set.
LEMMA SolutionExists ==
  ASSUME NEW f, NEW S, IsFiniteSet(S)
  PROVE  SolvesSum(f, SumSolution(f, S), S)
<1> DEFINE B == {T \in SUBSET S : ~ \E g : SolvesSum(f, g, T)}
<1>1. SUFFICES ASSUME B # {} PROVE FALSE
  <2>1. \E g : SolvesSum(f, g, S)
    BY <1>1, Zenon
  <2> QED
    BY <2>1, Zenon DEF SumSolution
<1>b. B \subseteq SUBSET S
  OBVIOUS
<1>2. PICK T \in B : /\ T \subseteq S /\ IsFiniteSet(T)
                     /\ \A U : U \subseteq T /\ U # T => U \notin B
  <2> HIDE DEF B
  <2> QED
    BY <1>1, <1>b, FiniteMinimum
<1>3. ~ \E g : SolvesSum(f, g, T)
  BY Zenon
<1>4. \A U : U \subseteq T /\ U # T => IsFiniteSet(U) /\ SolvesSum(f, SumSolution(f, U), U)
  <2> SUFFICES ASSUME NEW U, U \subseteq T, U # T
               PROVE  IsFiniteSet(U) /\ SolvesSum(f, SumSolution(f, U), U)
    BY Zenon
  <2>1. U \in SUBSET S /\ U \notin B
    BY <1>2
  <2>2. \E g : SolvesSum(f, g, U)
    BY <2>1, Zenon
  <2> QED
    BY <2>2, <1>2, FS_Subset, Zenon DEF SumSolution
<1> HIDE DEF B
<1> DEFINE Sum(U) == SumSolution(f, U)[U]
           h == [s \in SUBSET T |-> IF s = {} THEN 0 ELSE f[Picked(s)] + Sum(s \ {Picked(s)})]
<1>5. \A U : U \subseteq T /\ U # T => h[U] = Sum(U)
  <2> SUFFICES ASSUME NEW U, U \subseteq T, U # T PROVE h[U] = Sum(U)
    BY Zenon
  <2>1. IsFiniteSet(U) /\ SolvesSum(f, SumSolution(f, U), U)
    BY <1>4
  <2>2. Sum(U) = SumStep(f, SumSolution(f, U), U)
    BY <2>1, SolutionStep
  <2>3. CASE U = {}
    BY <2>2, <2>3 DEF SumStep
  <2>4. CASE U # {}
    <3> DEFINE V == U \ {Picked(U)}
    <3>1. V \subseteq U /\ V \subseteq T /\ V # T
      BY <2>4, PickMember
    <3>2. IsFiniteSet(V) /\ SolvesSum(f, SumSolution(f, V), V)
      BY <3>1, <1>4
    <3>3. SumSolution(f, U)[V] = SumSolution(f, V)[V]
      BY <2>1, <3>1, <3>2, SolutionsAgree
    <3>4. Sum(U) = f[Picked(U)] + Sum(V)
      BY <2>2, <2>4, <3>3 DEF SumStep
    <3> QED
      BY <2>4, <3>4
  <2> QED
    BY <2>3, <2>4
<1>6. \A s \in SUBSET T : h[s] = SumStep(f, h, s)
  <2> SUFFICES ASSUME NEW s \in SUBSET T, s # {} PROVE h[s] = SumStep(f, h, s)
    BY DEF SumStep
  <2> DEFINE V == s \ {Picked(s)}
  <2>1. V \subseteq T /\ V # T
    BY PickMember
  <2>2. h[V] = Sum(V)
    BY <2>1, <1>5
  <2>3. h[s] = f[Picked(s)] + Sum(V)
    OBVIOUS
  <2> QED
    BY <2>2, <2>3 DEF SumStep
<1>7. SolvesSum(f, h, T)
  <2> DEFINE k == [s \in SUBSET T |-> SumStep(f, h, s)]
  <2>1. \A s \in SUBSET T : h[s] = k[s]
    BY <1>6
  <2>2. h = k
    BY <2>1
  <2> QED
    BY <2>2 DEF SolvesSum
<1> QED
  BY <1>3, <1>7

------------------------------------------------------------------------------
(* What a sum is.                                                            *)

\* Nothing adds up to zero.
LEMMA SumEmpty ==
  ASSUME NEW f
  PROVE  SumFunctionOnSet(f, {}) = 0
<1>1. SolvesSum(f, SumSolution(f, {}), {})
  BY SolutionExists, FS_EmptySet
<1> QED
  BY <1>1, SumIsSolution, SolutionStep DEF SumStep

\* A sum is the value of the member taken out first, and the rest.
LEMMA SumPick ==
  ASSUME NEW f, NEW S, IsFiniteSet(S), S # {}
  PROVE  /\ Picked(S) \in S
         /\ SumFunctionOnSet(f, S) = f[Picked(S)] + SumFunctionOnSet(f, S \ {Picked(S)})
<1> DEFINE U == S \ {Picked(S)}
<1>1. IsFiniteSet(U)
  BY FS_RemoveElement
<1>2. SolvesSum(f, SumSolution(f, S), S) /\ SolvesSum(f, SumSolution(f, U), U)
  BY <1>1, SolutionExists
<1>3. SumSolution(f, S)[S] = f[Picked(S)] + SumSolution(f, S)[U]
  BY <1>2, SolutionStep DEF SumStep
<1>4. SumSolution(f, S)[U] = SumSolution(f, U)[U]
  BY <1>1, <1>2, SolutionsAgree
<1> QED
  BY <1>3, <1>4, SumIsSolution, PickMember

\* Integers add up to an integer.
LEMMA SumInt ==
  ASSUME NEW f, NEW S, IsFiniteSet(S), \A x \in S : f[x] \in Int
  PROVE  SumFunctionOnSet(f, S) \in Int
<1> DEFINE B == {T \in SUBSET S : SumFunctionOnSet(f, T) \notin Int}
<1>1. SUFFICES ASSUME B # {} PROVE FALSE
  OBVIOUS
<1>b. B \subseteq SUBSET S
  OBVIOUS
<1>2. PICK T \in B : /\ T \subseteq S /\ IsFiniteSet(T)
                     /\ \A U : U \subseteq T /\ U # T => U \notin B
  <2> HIDE DEF B
  <2> QED
    BY <1>1, <1>b, FiniteMinimum
<1>3. CASE T = {}
  BY <1>3, SumEmpty
<1>4. CASE T # {}
  <2>1. Picked(T) \in T /\ SumFunctionOnSet(f, T) = f[Picked(T)] + SumFunctionOnSet(f, T \ {Picked(T)})
    BY <1>2, <1>4, SumPick
  <2>2. T \ {Picked(T)} \in SUBSET S /\ T \ {Picked(T)} \notin B
    BY <1>2, <2>1
  <2>3. SumFunctionOnSet(f, T \ {Picked(T)}) \in Int
    BY <2>2
  <2> QED
    BY <2>1, <2>3
<1> QED
  BY <1>3, <1>4

\* Any member may be taken out first.
LEMMA SumRemove ==
  ASSUME NEW f, NEW S, IsFiniteSet(S), \A y \in S : f[y] \in Int, NEW x \in S
  PROVE  /\ SumFunctionOnSet(f, S) = f[x] + SumFunctionOnSet(f, S \ {x})
         /\ SumFunctionOnSet(f, S \ {x}) \in Int
<1> DEFINE Sum(T) == SumFunctionOnSet(f, T)
           B == {T \in SUBSET S : \E y \in T : Sum(T) # f[y] + Sum(T \ {y})}
<1>0. \A T \in SUBSET S : IsFiniteSet(T) /\ Sum(T) \in Int
  BY SumInt, FS_Subset
<1>1. SUFFICES ASSUME B # {} PROVE FALSE
  <2>1. \A y \in S : Sum(S) = f[y] + Sum(S \ {y})
    BY <1>1
  <2> QED
    BY <2>1, <1>0
<1>b. B \subseteq SUBSET S
  OBVIOUS
<1>2. PICK T \in B : /\ T \subseteq S /\ IsFiniteSet(T)
                     /\ \A U : U \subseteq T /\ U # T => U \notin B
  <2> HIDE DEF B
  <2> QED
    BY <1>1, <1>b, FiniteMinimum
<1>3. PICK y \in T : Sum(T) # f[y] + Sum(T \ {y})
  BY <1>2
<1> DEFINE p == Picked(T)
           U == T \ {p}
<1>4. p \in T /\ Sum(T) = f[p] + Sum(U)
  BY <1>2, <1>3, SumPick
<1>5. y # p
  BY <1>3, <1>4
<1>6. Sum(U) = f[y] + Sum(U \ {y})
  <2>1. U \in SUBSET S /\ U \notin B /\ y \in U
    BY <1>2, <1>4, <1>5
  <2> QED
    BY <2>1
<1>7. Sum(T \ {y}) = f[p] + Sum((T \ {y}) \ {p})
  <2>1. T \ {y} \in SUBSET S /\ T \ {y} \notin B /\ p \in T \ {y}
    BY <1>2, <1>4, <1>5
  <2> QED
    BY <2>1
<1>8. (T \ {y}) \ {p} = U \ {y} /\ U \ {y} \in SUBSET S
  BY <1>2
<1>9. f[p] \in Int /\ f[y] \in Int /\ Sum(U \ {y}) \in Int
  BY <1>0, <1>2, <1>4, <1>8
<1>10. \A i, j, k \in Int : i + (j + k) = j + (i + k)
  OBVIOUS
<1>11. Sum(T) = f[p] + (f[y] + Sum(U \ {y}))
  BY <1>4, <1>6, Zenon
<1>12. f[y] + Sum(T \ {y}) = f[y] + (f[p] + Sum(U \ {y}))
  BY <1>7, <1>8, Zenon
<1>13. Sum(T) = f[y] + Sum(T \ {y})
  BY <1>9, <1>10, <1>11, <1>12, Zenon
<1> QED
  BY <1>3, <1>13

\* A new member adds its value.
LEMMA SumAdd ==
  ASSUME NEW f, NEW S, IsFiniteSet(S), NEW x, x \notin S, \A y \in S \cup {x} : f[y] \in Int
  PROVE  SumFunctionOnSet(f, S \cup {x}) = f[x] + SumFunctionOnSet(f, S)
<1>1. IsFiniteSet(S \cup {x}) /\ (S \cup {x}) \ {x} = S
  BY FS_AddElement
<1> QED
  BY <1>1, SumRemove

\* Only the values over the set matter.
LEMMA SumSame ==
  ASSUME NEW f, NEW g, NEW S, IsFiniteSet(S), \A x \in S : f[x] = g[x]
  PROVE  SumFunctionOnSet(f, S) = SumFunctionOnSet(g, S)
<1> DEFINE B == {T \in SUBSET S : SumFunctionOnSet(f, T) # SumFunctionOnSet(g, T)}
<1>1. SUFFICES ASSUME B # {} PROVE FALSE
  OBVIOUS
<1>b. B \subseteq SUBSET S
  OBVIOUS
<1>2. PICK T \in B : /\ T \subseteq S /\ IsFiniteSet(T)
                     /\ \A U : U \subseteq T /\ U # T => U \notin B
  <2> HIDE DEF B
  <2> QED
    BY <1>1, <1>b, FiniteMinimum
<1>3. CASE T = {}
  BY <1>3, SumEmpty
<1>4. CASE T # {}
  <2>1. /\ Picked(T) \in T
        /\ SumFunctionOnSet(f, T) = f[Picked(T)] + SumFunctionOnSet(f, T \ {Picked(T)})
        /\ SumFunctionOnSet(g, T) = g[Picked(T)] + SumFunctionOnSet(g, T \ {Picked(T)})
    BY <1>2, <1>4, SumPick
  <2>2. T \ {Picked(T)} \in SUBSET S /\ T \ {Picked(T)} \notin B
    BY <1>2, <2>1
  <2>3. SumFunctionOnSet(f, T \ {Picked(T)}) = SumFunctionOnSet(g, T \ {Picked(T)})
    BY <2>2
  <2> QED
    BY <1>2, <2>1, <2>3
<1> QED
  BY <1>3, <1>4

\* One value changes.
LEMMA SumChange ==
  ASSUME NEW f, NEW g, NEW S, IsFiniteSet(S), NEW x \in S,
         \A y \in S : f[y] \in Int /\ g[y] \in Int,
         \A y \in S \ {x} : f[y] = g[y]
  PROVE  SumFunctionOnSet(g, S) = SumFunctionOnSet(f, S) - f[x] + g[x]
<1>1. IsFiniteSet(S \ {x})
  BY FS_RemoveElement
<1>2. SumFunctionOnSet(f, S \ {x}) = SumFunctionOnSet(g, S \ {x})
  BY <1>1, SumSame
<1>3. /\ SumFunctionOnSet(f, S) = f[x] + SumFunctionOnSet(f, S \ {x})
      /\ SumFunctionOnSet(g, S) = g[x] + SumFunctionOnSet(g, S \ {x})
      /\ SumFunctionOnSet(f, S \ {x}) \in Int
  <2>1. /\ SumFunctionOnSet(f, S) = f[x] + SumFunctionOnSet(f, S \ {x})
        /\ SumFunctionOnSet(f, S \ {x}) \in Int
    BY SumRemove
  <2>2. SumFunctionOnSet(g, S) = g[x] + SumFunctionOnSet(g, S \ {x})
    BY SumRemove
  <2> QED
    BY <2>1, <2>2
<1> QED
  BY <1>2, <1>3

\* A sum of sums.
LEMMA SumPlus ==
  ASSUME NEW f, NEW g, NEW h, NEW S, IsFiniteSet(S),
         \A x \in S : f[x] \in Int /\ g[x] \in Int /\ h[x] = f[x] + g[x]
  PROVE  SumFunctionOnSet(h, S) = SumFunctionOnSet(f, S) + SumFunctionOnSet(g, S)
<1> DEFINE B == {T \in SUBSET S : SumFunctionOnSet(h, T)
                                 # SumFunctionOnSet(f, T) + SumFunctionOnSet(g, T)}
<1>1. SUFFICES ASSUME B # {} PROVE FALSE
  OBVIOUS
<1>b. B \subseteq SUBSET S
  OBVIOUS
<1>2. PICK T \in B : /\ T \subseteq S /\ IsFiniteSet(T)
                     /\ \A U : U \subseteq T /\ U # T => U \notin B
  <2> HIDE DEF B
  <2> QED
    BY <1>1, <1>b, FiniteMinimum
<1>3. CASE T = {}
  BY <1>3, SumEmpty
<1>4. CASE T # {}
  <2> DEFINE p == Picked(T)
             U == T \ {p}
  <2>1. /\ p \in T
        /\ SumFunctionOnSet(f, T) = f[p] + SumFunctionOnSet(f, U)
        /\ SumFunctionOnSet(g, T) = g[p] + SumFunctionOnSet(g, U)
        /\ SumFunctionOnSet(h, T) = h[p] + SumFunctionOnSet(h, U)
    BY <1>2, <1>4, SumPick
  <2>2. U \in SUBSET S /\ U \notin B /\ IsFiniteSet(U)
    BY <1>2, <2>1, FS_RemoveElement
  <2>3. SumFunctionOnSet(h, U) = SumFunctionOnSet(f, U) + SumFunctionOnSet(g, U)
    BY <2>2
  <2>4. SumFunctionOnSet(f, U) \in Int /\ SumFunctionOnSet(g, U) \in Int
    BY <2>2, SumInt
  <2>5. f[p] \in Int /\ g[p] \in Int /\ h[p] = f[p] + g[p]
    BY <1>2, <2>1
  <2>6. SumFunctionOnSet(h, T) # SumFunctionOnSet(f, T) + SumFunctionOnSet(g, T)
    BY <1>2
  <2> HIDE DEF U, p
  <2> QED
    BY <2>1, <2>3, <2>4, <2>5, <2>6
<1> QED
  BY <1>3, <1>4

\* Natural numbers add up to a natural number.
LEMMA SumNat ==
  ASSUME NEW f, NEW S, IsFiniteSet(S), \A x \in S : f[x] \in Nat
  PROVE  SumFunctionOnSet(f, S) \in Nat
<1> DEFINE B == {T \in SUBSET S : SumFunctionOnSet(f, T) \notin Nat}
<1>1. SUFFICES ASSUME B # {} PROVE FALSE
  OBVIOUS
<1>b. B \subseteq SUBSET S
  OBVIOUS
<1>2. PICK T \in B : /\ T \subseteq S /\ IsFiniteSet(T)
                     /\ \A U : U \subseteq T /\ U # T => U \notin B
  <2> HIDE DEF B
  <2> QED
    BY <1>1, <1>b, FiniteMinimum
<1>3. CASE T = {}
  BY <1>3, SumEmpty
<1>4. CASE T # {}
  <2>1. Picked(T) \in T /\ SumFunctionOnSet(f, T) = f[Picked(T)] + SumFunctionOnSet(f, T \ {Picked(T)})
    BY <1>2, <1>4, SumPick
  <2>2. T \ {Picked(T)} \in SUBSET S /\ T \ {Picked(T)} \notin B
    BY <1>2, <2>1
  <2>3. SumFunctionOnSet(f, T \ {Picked(T)}) \in Nat
    BY <2>2
  <2> QED
    BY <2>1, <2>3
<1> QED
  BY <1>3, <1>4

\* Zeros add up to zero.
LEMMA SumZero ==
  ASSUME NEW f, NEW S, IsFiniteSet(S), \A x \in S : f[x] = 0
  PROVE  SumFunctionOnSet(f, S) = 0
<1> DEFINE z == [x \in S |-> 0]
<1>1. SumFunctionOnSet(f, S) = SumFunctionOnSet(z, S)
  BY SumSame
<1>2. SumFunctionOnSet(z, S) = SumFunctionOnSet(z, S) + SumFunctionOnSet(z, S)
  BY SumPlus
<1>3. SumFunctionOnSet(z, S) \in Int
  BY SumInt
<1>4. \A n \in Int : n = n + n => n = 0
  OBVIOUS
<1> HIDE DEF z
<1> QED
  BY <1>1, <1>2, <1>3, <1>4, Zenon

\* What is pointwise at most another sums up to at most the other.
LEMMA SumAtMost ==
  ASSUME NEW f, NEW g, NEW S, IsFiniteSet(S),
         \A x \in S : f[x] \in Int /\ g[x] \in Int /\ f[x] <= g[x]
  PROVE  SumFunctionOnSet(f, S) <= SumFunctionOnSet(g, S)
<1> DEFINE d == [x \in S |-> g[x] - f[x]]
<1>1. SumFunctionOnSet(d, S) \in Nat
  BY SumNat
<1>2. SumFunctionOnSet(g, S) = SumFunctionOnSet(d, S) + SumFunctionOnSet(f, S)
  <2>1. \A x \in S : d[x] \in Int /\ f[x] \in Int /\ g[x] = d[x] + f[x]
    OBVIOUS
  <2> HIDE DEF d
  <2> QED
    BY <2>1, SumPlus
<1>3. SumFunctionOnSet(f, S) \in Int
  BY SumInt
<1> HIDE DEF d
<1> QED
  BY <1>1, <1>2, <1>3

\* What x adds to a sum over S.
Worth(f, S, x) == IF x \in S THEN f[x] ELSE 0

\* One member changes: its value, and whether it counts.
LEMMA SumMove ==
  ASSUME NEW f, NEW g, NEW S, NEW T, NEW x,
         IsFiniteSet(S), \A y \in S : f[y] \in Int,
         S \ {x} = T \ {x},
         \A y \in S \ {x} : g[y] = f[y],
         x \in T => g[x] \in Int
  PROVE  SumFunctionOnSet(g, T) = SumFunctionOnSet(f, S) - Worth(f, S, x) + Worth(g, T, x)
<1> DEFINE R == S \ {x}
<1>1. IsFiniteSet(R) /\ IsFiniteSet(T)
  <2>1. IsFiniteSet(R)
    BY FS_Subset, R \subseteq S, Zenon
  <2>2. IsFiniteSet(R \cup {x})
    BY <2>1, FS_AddElement
  <2>3. T \subseteq R \cup {x}
    OBVIOUS
  <2> QED
    BY <2>1, <2>2, <2>3, FS_Subset, Zenon
<1>2. SumFunctionOnSet(f, R) = SumFunctionOnSet(g, R)
  BY <1>1, SumSame
<1>3. SumFunctionOnSet(f, R) \in Int
  BY <1>1, SumInt
<1>4. SumFunctionOnSet(f, S) = (IF x \in S THEN f[x] ELSE 0) + SumFunctionOnSet(f, R)
  <2>1. CASE x \in S
    BY <2>1, SumRemove
  <2>2. CASE x \notin S
    <3>1. SumFunctionOnSet(f, S) = SumFunctionOnSet(f, R)
      BY <2>2, S = R, Zenon
    <3> QED
      BY <2>2, <1>3, <3>1
  <2> QED
    BY <2>1, <2>2
<1>5. SumFunctionOnSet(g, T) = (IF x \in T THEN g[x] ELSE 0) + SumFunctionOnSet(g, R)
  <2>1. CASE x \in T
    <3>1. \A y \in T : g[y] \in Int
      BY <2>1
    <3>2. T \ {x} = R
      OBVIOUS
    <3> QED
      BY <2>1, <3>1, <3>2, <1>1, SumRemove
  <2>2. CASE x \notin T
    <3>1. SumFunctionOnSet(g, T) = SumFunctionOnSet(g, R)
      BY <2>2, T = R, Zenon
    <3> QED
      BY <2>2, <1>2, <1>3, <3>1
  <2> QED
    BY <2>1, <2>2
<1>6. (IF x \in S THEN f[x] ELSE 0) \in Int /\ (IF x \in T THEN g[x] ELSE 0) \in Int
  OBVIOUS
<1> QED
  BY <1>2, <1>3, <1>4, <1>5, <1>6 DEF Worth

\* Members that are worth nothing may be left out.
LEMMA SumSupport ==
  ASSUME NEW f, NEW S, IsFiniteSet(S), NEW T, T \subseteq S,
         \A x \in T : f[x] \in Int, \A x \in S \ T : f[x] = 0
  PROVE  SumFunctionOnSet(f, T) = SumFunctionOnSet(f, S)
<1> DEFINE B == {U \in SUBSET (S \ T) : SumFunctionOnSet(f, T) # SumFunctionOnSet(f, T \cup U)}
<1>1. SUFFICES ASSUME B # {} PROVE FALSE
  <2>1. S \ T \notin B /\ T \cup (S \ T) = S
    BY <1>1
  <2> QED
    BY <2>1
<1>b. B \subseteq SUBSET (S \ T)
  OBVIOUS
<1>2. PICK U \in B : /\ U \subseteq S \ T /\ IsFiniteSet(U)
                     /\ \A V : V \subseteq U /\ V # U => V \notin B
  <2> HIDE DEF B
  <2>1. IsFiniteSet(S \ T)
    BY FS_Difference, FS_Subset
  <2> QED
    BY <1>1, <1>b, <2>1, FiniteMinimum
<1>3. U # {}
  <2>1. T \cup {} = T
    OBVIOUS
  <2> QED
    BY <2>1, <1>2
<1>4. PICK x \in U : TRUE
  BY <1>3
<1> DEFINE V == U \ {x}
<1>5. SumFunctionOnSet(f, T) = SumFunctionOnSet(f, T \cup V)
  <2>1. V \in SUBSET (S \ T) /\ V \notin B
    BY <1>2
  <2> QED
    BY <2>1
<1>6. SumFunctionOnSet(f, T \cup U) = f[x] + SumFunctionOnSet(f, T \cup V)
  <2> DEFINE W == T \cup V
  <2>1. IsFiniteSet(W) /\ x \notin W /\ \A y \in W \cup {x} : f[y] \in Int
    BY <1>2, FS_Subset, W \subseteq S
  <2>2. T \cup U = W \cup {x}
    BY <1>2
  <2> HIDE DEF W
  <2>3. SumFunctionOnSet(f, W \cup {x}) = f[x] + SumFunctionOnSet(f, W)
    BY <2>1, SumAdd
  <2> QED
    BY <2>2, <2>3, Zenon DEF W
<1>7. f[x] = 0 /\ SumFunctionOnSet(f, T \cup V) \in Int
  <2>1. IsFiniteSet(T \cup V) /\ \A y \in T \cup V : f[y] \in Int
    BY <1>2, FS_Subset, T \cup V \subseteq S
  <2>2. f[x] = 0
    BY <1>2
  <2> QED
    BY <2>1, <2>2, SumInt
<1>8. SumFunctionOnSet(f, T) # SumFunctionOnSet(f, T \cup U)
  BY <1>2
<1> HIDE DEF V, B
<1> QED
  BY <1>5, <1>6, <1>7, <1>8

\* A common factor.
LEMMA SumScale ==
  ASSUME NEW f, NEW g, NEW S, IsFiniteSet(S), NEW c \in Int,
         \A x \in S : f[x] \in Int /\ g[x] = c * f[x]
  PROVE  SumFunctionOnSet(g, S) = c * SumFunctionOnSet(f, S)
<1> DEFINE B == {T \in SUBSET S : SumFunctionOnSet(g, T) # c * SumFunctionOnSet(f, T)}
<1>1. SUFFICES ASSUME B # {} PROVE FALSE
  OBVIOUS
<1>b. B \subseteq SUBSET S
  OBVIOUS
<1>2. PICK T \in B : /\ T \subseteq S /\ IsFiniteSet(T)
                     /\ \A U : U \subseteq T /\ U # T => U \notin B
  <2> HIDE DEF B
  <2> QED
    BY <1>1, <1>b, FiniteMinimum
<1>3. CASE T = {}
  <2>1. SumFunctionOnSet(g, T) # c * SumFunctionOnSet(f, T)
    BY <1>2
  <2>2. SumFunctionOnSet(g, T) = 0 /\ SumFunctionOnSet(f, T) = 0 /\ c * 0 = 0
    BY <1>3, SumEmpty
  <2> QED
    BY <2>1, <2>2, Zenon
<1>4. CASE T # {}
  <2> DEFINE p == Picked(T)
             U == T \ {p}
  <2>1. /\ p \in T
        /\ SumFunctionOnSet(f, T) = f[p] + SumFunctionOnSet(f, U)
        /\ SumFunctionOnSet(g, T) = g[p] + SumFunctionOnSet(g, U)
    BY <1>2, <1>4, SumPick
  <2>2. U \in SUBSET S /\ U \notin B /\ IsFiniteSet(U)
    BY <1>2, <2>1, FS_RemoveElement
  <2>3. SumFunctionOnSet(g, U) = c * SumFunctionOnSet(f, U)
    BY <2>2
  <2>4. SumFunctionOnSet(f, U) \in Int
    BY <2>2, SumInt
  <2>5. f[p] \in Int /\ g[p] = c * f[p]
    BY <1>2, <2>1
  <2>6. SumFunctionOnSet(g, T) # c * SumFunctionOnSet(f, T)
    BY <1>2
  <2>7. \A i, j \in Int : c * (i + j) = c * i + c * j
    OBVIOUS
  <2>8. c * SumFunctionOnSet(f, T) = c * f[p] + c * SumFunctionOnSet(f, U)
    BY <2>1, <2>4, <2>5, <2>7, Zenon
  <2> HIDE DEF U, p
  <2> QED
    BY <2>1, <2>3, <2>5, <2>6, <2>8, Zenon
<1> QED
  BY <1>3, <1>4

\* row holds the sums of the rows of the table F of integers.
RowSums(row, F, S, T) ==
  \A x \in S : row[x] = SumFunctionOnSet(F[x], T) /\ \A y \in T : F[x][y] \in Int

\* Rows first or columns first: a table has one sum.
LEMMA SumExchange ==
  ASSUME NEW F, NEW G, NEW S, NEW T, IsFiniteSet(S), IsFiniteSet(T), NEW row, NEW column,
         RowSums(row, F, S, T), RowSums(column, G, T, S),
         \A x \in S, y \in T : G[y][x] = F[x][y]
  PROVE  SumFunctionOnSet(row, S) = SumFunctionOnSet(column, T)
<1>c. \A y \in T : column[y] = SumFunctionOnSet([x \in S |-> F[x][y]], S)
  <2> SUFFICES ASSUME NEW y \in T
               PROVE  column[y] = SumFunctionOnSet([x \in S |-> F[x][y]], S)
    OBVIOUS
  <2> DEFINE f == G[y]
             g == [x \in S |-> F[x][y]]
  <2>1. \A x \in S : f[x] = g[x]
    OBVIOUS
  <2>2. column[y] = SumFunctionOnSet(f, S)
    BY DEF RowSums
  <2> HIDE DEF f, g
  <2>3. SumFunctionOnSet(f, S) = SumFunctionOnSet(g, S)
    BY <2>1, SumSame
  <2> QED
    BY <2>2, <2>3 DEF g
<1>r. (\A x \in S, y \in T : F[x][y] \in Int) /\ \A x \in S : row[x] = SumFunctionOnSet(F[x], T)
  BY DEF RowSums
<1> DEFINE Of(U) == [y \in T |-> SumFunctionOnSet([x \in S |-> F[x][y]], U)]
           B == {U \in SUBSET S : SumFunctionOnSet(row, U) # SumFunctionOnSet(Of(U), T)}
<1>0. \A x \in S : row[x] \in Int
  BY <1>r, SumInt
<1>1. SUFFICES ASSUME B # {} PROVE FALSE
  <2>1. SumFunctionOnSet(row, S) = SumFunctionOnSet(Of(S), T)
    BY <1>1
  <2>2. \A y \in T : column[y] = Of(S)[y]
    BY <1>c
  <2> HIDE DEF Of
  <2>3. SumFunctionOnSet(column, T) = SumFunctionOnSet(Of(S), T)
    BY <2>2, SumSame
  <2> QED
    BY <2>1, <2>3
<1>b. B \subseteq SUBSET S
  OBVIOUS
<1>2. PICK U \in B : /\ U \subseteq S /\ IsFiniteSet(U)
                     /\ \A V : V \subseteq U /\ V # U => V \notin B
  <2> HIDE DEF B
  <2> QED
    BY <1>1, <1>b, FiniteMinimum
<1>n. SumFunctionOnSet(row, U) # SumFunctionOnSet(Of(U), T)
  BY <1>2
<1>3. CASE U = {}
  <2>1. \A y \in T : Of(U)[y] = 0
    BY <1>3, SumEmpty
  <2> HIDE DEF Of
  <2>2. SumFunctionOnSet(Of(U), T) = 0
    BY <2>1, SumZero
  <2> QED
    BY <1>3, <1>n, <2>2, SumEmpty
<1>4. CASE U # {}
  <2>1. PICK x \in U : TRUE
    BY <1>4
  <2> DEFINE V == U \ {x}
  <2>2. V \in SUBSET S /\ V \notin B /\ IsFiniteSet(V) /\ x \in S
    BY <1>2, <2>1, FS_RemoveElement
  <2>3. SumFunctionOnSet(row, V) = SumFunctionOnSet(Of(V), T)
    BY <2>2
  <2>4. SumFunctionOnSet(row, U) = row[x] + SumFunctionOnSet(row, V)
    <3>1. \A y \in U : row[y] \in Int
      BY <1>0, <1>2
    <3> QED
      BY <1>2, <2>1, <3>1, SumRemove
  <2>5. \A y \in T : F[x][y] \in Int /\ Of(V)[y] \in Int /\ Of(U)[y] = F[x][y] + Of(V)[y]
    <3> SUFFICES ASSUME NEW y \in T
                 PROVE  F[x][y] \in Int /\ Of(V)[y] \in Int /\ Of(U)[y] = F[x][y] + Of(V)[y]
      OBVIOUS
    <3> DEFINE f == [z \in S |-> F[z][y]]
    <3>1. f[x] = F[x][y] /\ F[x][y] \in Int /\ \A z \in U : f[z] \in Int
      BY <1>2, <1>r, <2>2
    <3>2. Of(U)[y] = SumFunctionOnSet(f, U) /\ Of(V)[y] = SumFunctionOnSet(f, V)
      OBVIOUS
    <3> HIDE DEF f, Of
    <3>3. SumFunctionOnSet(f, U) = f[x] + SumFunctionOnSet(f, V) /\ SumFunctionOnSet(f, V) \in Int
      BY <1>2, <2>1, <3>1, SumRemove
    <3> QED
      BY <3>1, <3>2, <3>3
  <2> DEFINE f == F[x]
             g == Of(V)
             h == Of(U)
  <2>6. SumFunctionOnSet(h, T) = SumFunctionOnSet(f, T) + SumFunctionOnSet(g, T)
    <3>1. \A y \in T : f[y] \in Int /\ g[y] \in Int /\ h[y] = f[y] + g[y]
      BY <2>5
    <3> HIDE DEF f, g, h
    <3> QED
      BY <3>1, SumPlus
  <2> HIDE DEF Of, B
  <2> QED
    BY <1>n, <1>r, <2>2, <2>3, <2>4, <2>6
<1> QED
  BY <1>3, <1>4

\* Two sets with nothing in common are added one after the other.
LEMMA SumUnion ==
  ASSUME NEW f, NEW S, NEW T, IsFiniteSet(S), IsFiniteSet(T), S \cap T = {},
         \A x \in S \cup T : f[x] \in Int
  PROVE  SumFunctionOnSet(f, S \cup T) = SumFunctionOnSet(f, S) + SumFunctionOnSet(f, T)
<1> DEFINE U == S \cup T
           g == [x \in U |-> IF x \in S THEN f[x] ELSE 0]
           h == [x \in U |-> IF x \in T THEN f[x] ELSE 0]
<1>1. IsFiniteSet(U) /\ S \subseteq U /\ T \subseteq U
  BY FS_Union
<1>2. \A x \in U : g[x] \in Int /\ h[x] \in Int /\ f[x] = g[x] + h[x]
  OBVIOUS
<1>3. /\ \A x \in S : f[x] = g[x] /\ g[x] \in Int
      /\ \A x \in T : f[x] = h[x] /\ h[x] \in Int
      /\ \A x \in U \ S : g[x] = 0
      /\ \A x \in U \ T : h[x] = 0
  OBVIOUS
<1> HIDE DEF U, g, h
<1>4. SumFunctionOnSet(f, U) = SumFunctionOnSet(g, U) + SumFunctionOnSet(h, U)
  BY <1>1, <1>2, SumPlus
<1>5. SumFunctionOnSet(g, S) = SumFunctionOnSet(g, U) /\ SumFunctionOnSet(h, T) = SumFunctionOnSet(h, U)
  BY <1>1, <1>3, SumSupport
<1>6. SumFunctionOnSet(f, S) = SumFunctionOnSet(g, S) /\ SumFunctionOnSet(f, T) = SumFunctionOnSet(h, T)
  BY <1>3, SumSame
<1> QED
  BY <1>4, <1>5, <1>6 DEF U

\* Part of a sum of natural numbers is at most the whole.
LEMMA SumPart ==
  ASSUME NEW f, NEW S, NEW T, IsFiniteSet(T), S \subseteq T, \A x \in T : f[x] \in Nat
  PROVE  SumFunctionOnSet(f, S) <= SumFunctionOnSet(f, T)
<1> DEFINE R == T \ S
<1>1. IsFiniteSet(S) /\ IsFiniteSet(R) /\ S \cap R = {} /\ S \cup R = T /\ R \subseteq T
  BY FS_Subset, FS_Difference
<1> HIDE DEF R
<1>2. SumFunctionOnSet(f, T) = SumFunctionOnSet(f, S) + SumFunctionOnSet(f, R)
  <2>1. \A x \in S \cup R : f[x] \in Int
    BY <1>1
  <2> QED
    BY <1>1, <2>1, SumUnion
<1>3. SumFunctionOnSet(f, S) \in Nat /\ SumFunctionOnSet(f, R) \in Nat
  BY <1>1, SumNat
<1> QED
  BY <1>2, <1>3

\* A set of numbers up to n has a greatest one.
LEMMA GreatestMember ==
  ASSUME NEW n \in Nat, NEW S, S \subseteq 1 .. n, S # {}
  PROVE  \E m \in S : \A j \in S : j <= m
<1> DEFINE Above(m) == {j \in S : j >= m}
           B == {Above(m) : m \in S}
<1>0. \A j \in S : j \in Int /\ j \in 1 .. n
  OBVIOUS
<1>1. IsFiniteSet(S)
  <2>1. IsFiniteSet(1 .. n)
    BY FS_Interval
  <2> QED
    BY <2>1, FS_Subset, Zenon
<1>2. B \subseteq SUBSET S /\ B # {}
  OBVIOUS
<1>3. PICK T \in B : /\ T \subseteq S /\ IsFiniteSet(T)
                     /\ \A U : U \subseteq T /\ U # T => U \notin B
  <2> HIDE DEF B
  <2>1. B \subseteq SUBSET S
    BY <1>2
  <2>2. B # {}
    BY <1>2
  <2> QED
    BY ONLY <1>1, <2>1, <2>2, FiniteMinimum
<1>4. PICK m \in S : T = Above(m)
  OBVIOUS
<1>5. ASSUME NEW k \in S, ~(k <= m) PROVE FALSE
  <2>1. k \in Int /\ m \in Int /\ k > m
    BY <1>0, <1>5
  <2>2. m \in Above(m) /\ m \notin Above(k)
    BY <2>1
  <2>3. Above(k) \subseteq Above(m)
    <3>1. ASSUME NEW i \in S, i >= k PROVE i >= m
      BY <1>0, <2>1, <3>1
    <3> QED
      BY <3>1
  <2>4. Above(k) \in B
    OBVIOUS
  <2>5. Above(k) # T
    BY <1>4, <2>2, Zenon
  <2> HIDE DEF B, Above
  <2> QED
    BY <1>3, <1>4, <2>3, <2>4, <2>5, Zenon
<1> QED
  BY <1>5

\* The members of S with label k.
Labelled(S, label, k) == {x \in S : label[x] = k}

\* A sum is the sum of its parts, one part for each label in K.
LEMMA SumParts ==
  ASSUME NEW f, NEW S, IsFiniteSet(S), \A x \in S : f[x] \in Int,
         NEW K, IsFiniteSet(K), NEW label, \A x \in S : label[x] \in K,
         NEW part, \A k \in K : part[k] = SumFunctionOnSet(f, Labelled(S, label, k))
  PROVE  SumFunctionOnSet(f, S) = SumFunctionOnSet(part, K)
<1> DEFINE F == [x \in S |-> [k \in K |-> IF label[x] = k THEN f[x] ELSE 0]]
           G == [k \in K |-> [x \in S |-> IF label[x] = k THEN f[x] ELSE 0]]
<1>1. RowSums(f, F, S, K)
  <2> SUFFICES ASSUME NEW x \in S
               PROVE  f[x] = SumFunctionOnSet(F[x], K) /\ \A k \in K : F[x][k] \in Int
    BY DEF RowSums
  <2> DEFINE r == F[x]
             l == label[x]
  <2>1. /\ l \in K /\ r[l] = f[x] /\ f[x] \in Int
        /\ \A k \in K \ {l} : r[k] = 0
        /\ \A k \in K : r[k] \in Int
    OBVIOUS
  <2> HIDE DEF r, l
  <2>2. IsFiniteSet(K \ {l})
    BY FS_RemoveElement
  <2>3. SumFunctionOnSet(r, K) = r[l] + SumFunctionOnSet(r, K \ {l})
    BY <2>1, SumRemove
  <2>4. SumFunctionOnSet(r, K \ {l}) = 0
    BY <2>1, <2>2, SumZero
  <2>5. SumFunctionOnSet(r, K) = f[x]
    BY <2>1, <2>3, <2>4
  <2> QED
    BY <2>1, <2>5 DEF r
<1>2. RowSums(part, G, K, S)
  <2> SUFFICES ASSUME NEW k \in K
               PROVE  part[k] = SumFunctionOnSet(G[k], S) /\ \A x \in S : G[k][x] \in Int
    BY DEF RowSums
  <2> DEFINE c == G[k]
             T == {x \in S : label[x] = k}
  <2>1. /\ T \subseteq S /\ (\A x \in T : c[x] = f[x] /\ c[x] \in Int)
        /\ (\A x \in S \ T : c[x] = 0) /\ (\A x \in S : c[x] \in Int)
    OBVIOUS
  <2>2. part[k] = SumFunctionOnSet(f, T)
    BY DEF Labelled
  <2> HIDE DEF c, T
  <2>3. IsFiniteSet(T)
    BY <2>1, FS_Subset
  <2>4. SumFunctionOnSet(c, T) = SumFunctionOnSet(c, S)
    BY <2>1, SumSupport
  <2>5. SumFunctionOnSet(c, T) = SumFunctionOnSet(f, T)
    BY <2>1, <2>3, SumSame
  <2>6. part[k] = SumFunctionOnSet(c, S)
    BY <2>2, <2>4, <2>5
  <2> QED
    BY <2>1, <2>6 DEF c
<1>3. \A x \in S, k \in K : G[k][x] = F[x][k]
  OBVIOUS
<1> HIDE DEF F, G
<1> QED
  BY <1>1, <1>2, <1>3, SumExchange
=============================================================================
