----------------------------- MODULE ReportsProofs -----------------------------
(***************************************************************************)
(* Proofs about Reports and Snapshots: the sums of the community modules   *)
(* over finite sets; the books that are well formed in every state; what   *)
(* the panels say of commissions and of what customers owe; the tables of  *)
(* snapshots, of which every day is of one rebuild; the answers that are   *)
(* made of them; and the reports of sales, which account for all of them.  *)
(***************************************************************************)
EXTENDS Snapshots, FiniteSetTheorems, WellFoundedInduction, TLAPS

(***************************************************************************)
(* Finite sums.  Sum(f) is the value of a function that is chosen because  *)
(* it adds up every subset of the domain of f, an element at a time: such  *)
(* a function exists when the domain is finite, and all of them agree.     *)
(***************************************************************************)
Picked(s) == CHOOSE x \in s : TRUE
Adds(f, S, g) ==
    g = [s \in SUBSET S |-> IF s = {} THEN 0 ELSE f[Picked(s)] + g[s \ {Picked(s)}]]
TheSum(f, S) == (CHOOSE h : Adds(f, S, h))[S]
SumOver(f, S) == Sum([x \in S |-> f[x]])

\* The sum of a function, by the definitions of the community modules.
LEMMA Unfold == ASSUME NEW f PROVE Sum(f) = TheSum(f, DOMAIN f)
BY
   DEF Sum, SumFunction, SumFunctionOnSet, FoldFunctionOnSet, MapThenFoldSet, Adds,
       Picked, TheSum

\* A set G of subsets that has a subset whenever it has all its strict subsets has all of
\* them: otherwise one that is not in G would be smallest.
LEMMA SubsetInduction ==
    ASSUME NEW S, IsFiniteSet(S), NEW G,
           \A T \in SUBSET S : (\A U \in SUBSET T : U # T => U \in G) => T \in G
    PROVE  \A T \in SUBSET S : T \in G
<1> DEFINE R == StrictSubsetOrdering(S)
           B == (SUBSET S) \ G
<1>1. IsWellFoundedOn(R, SUBSET S)
  BY FS_StrictSubsetOrderingWellFounded, FS_FiniteSubsetsOfFinite
<1>2. SUFFICES ASSUME B # {} PROVE FALSE
  OBVIOUS
<1>3. B \subseteq SUBSET S
  OBVIOUS
<1>4. PICK T \in B : \A U \in B : <<U, T>> \notin R
  <2> HIDE DEF R, B
  <2> QED BY <1>1, <1>2, <1>3, WFMin
<1>5. \A U \in SUBSET T : U # T => U \in G
  <2>1. SUFFICES ASSUME NEW U \in SUBSET T, U # T, U \notin G PROVE FALSE
    OBVIOUS
  <2>2. U \in B
    BY <2>1
  <2>3. <<U, T>> \in R
    BY <2>1 DEF StrictSubsetOrdering
  <2> QED BY <2>2, <2>3, <1>4
<1>6. T \in SUBSET S /\ T \notin G
  OBVIOUS
<1>7. T \in G
  <2> HIDE DEF R, B
  <2> QED BY <1>5, <1>6
<1> QED BY <1>6, <1>7

\* The same, an element at a time.
LEMMA ElementInduction ==
    ASSUME NEW S, IsFiniteSet(S), NEW G, {} \in G,
           \A T \in SUBSET S : \A x \in T : T \ {x} \in G => T \in G
    PROVE  \A T \in SUBSET S : T \in G
<1>1. ASSUME NEW T \in SUBSET S, \A U \in SUBSET T : U # T => U \in G
      PROVE  T \in G
  <2>1. CASE T = {}
    BY <2>1
  <2>2. CASE T # {}
    <3>1. PICK x \in T : TRUE
      BY <2>2
    <3>2. T \ {x} \in G
      BY <1>1, <3>1
    <3> QED BY <3>2, <3>1
  <2> QED BY <2>1, <2>2
<1> QED BY <1>1, SubsetInduction

\* The element that is added first is one of the set.
LEMMA PickedIn == ASSUME NEW s, s # {} PROVE Picked(s) \in s
BY DEF Picked

\* The sum of nothing.
LEMMA AddsNothing == ASSUME NEW f, NEW S, NEW g, Adds(f, S, g) PROVE g[{}] = 0
BY {} \in SUBSET S DEF Adds

\* A sum without the element that is added first.
LEMMA AddsPicked ==
    ASSUME NEW f, NEW S, NEW g, Adds(f, S, g), NEW s \in SUBSET S, s # {}
    PROVE  g[s] = f[Picked(s)] + g[s \ {Picked(s)}]
BY DEF Adds

\* Two functions that add agree where both are defined.
LEMMA AddsUnique ==
    ASSUME NEW f, NEW h, NEW A, NEW B, NEW g, NEW k, Adds(f, A, g), Adds(h, B, k),
           NEW S, IsFiniteSet(S), S \subseteq A, S \subseteq B, \A x \in S : f[x] = h[x]
    PROVE  g[S] = k[S]
<1> DEFINE G == {T \in SUBSET S : g[T] = k[T]}
<1>1. ASSUME NEW T \in SUBSET S, \A U \in SUBSET T : U # T => U \in G
      PROVE  T \in G
  <2>1. CASE T = {}
    <3>1. g[{}] = 0 BY AddsNothing
    <3>2. k[{}] = 0
      BY AddsNothing
    <3> QED BY <2>1, <3>1, <3>2
  <2>2. CASE T # {}
    <3>1. Picked(T) \in T
      BY <2>2, PickedIn
    <3>2. T \ {Picked(T)} \in G
      BY <1>1, <3>1
    <3>3. g[T] = f[Picked(T)] + g[T \ {Picked(T)}]
      BY <2>2, T \in SUBSET A DEF Adds
    <3>4. k[T] = h[Picked(T)] + k[T \ {Picked(T)}]
      BY <2>2, T \in SUBSET B DEF Adds
    <3> QED BY <3>1, <3>2, <3>3, <3>4
  <2> QED BY <2>1, <2>2
<1>2. S \in G
  <2> HIDE DEF G
  <2> QED BY <1>1, SubsetInduction
<1> QED BY <1>2

\* A finite set has a function that adds up its subsets.
LEMMA AddsExists ==
    ASSUME NEW f, NEW S, IsFiniteSet(S)
    PROVE  \E h : Adds(f, S, h)
<1> DEFINE G == {T \in SUBSET S : \E h : Adds(f, T, h)}
           F(T) == CHOOSE h : Adds(f, T, h)
<1>1. ASSUME NEW T \in SUBSET S, \A U \in SUBSET T : U # T => U \in G
      PROVE  T \in G
  <2> DEFINE p == Picked(T)
             last == IF T = {} THEN 0 ELSE f[p] + F(T \ {p})[T \ {p}]
             g == [U \in SUBSET T |-> IF U = T THEN last ELSE F(U)[U]]
  <2>1. \A U \in SUBSET T : U # T => Adds(f, U, F(U))
    BY <1>1
  <2>2. ASSUME NEW U \in SUBSET T
        PROVE  g[U] = IF U = {} THEN 0 ELSE f[Picked(U)] + g[U \ {Picked(U)}]
    <3>1. CASE U = {} /\ U = T
      BY <3>1
    <3>2. CASE U = {} /\ U # T
      <4>1. Adds(f, U, F(U)) BY <2>1, <3>2
      <4> HIDE DEF F
      <4>2. F(U)[{}] = 0 BY <4>1, AddsNothing
      <4> QED BY <4>2, <3>2
    <3>3. CASE U # {} /\ U = T
      <4>1. p \in T BY <3>3, PickedIn
      <4>2. U \ {p} # T /\ U \ {p} \in SUBSET T BY <4>1
      <4> HIDE DEF F
      <4> QED BY <3>3, <4>1, <4>2
    <3>4. CASE U # {} /\ U # T
      <4> DEFINE q == Picked(U)
                 V == U \ {q}
      <4>1. q \in U BY <3>4, PickedIn
      <4>2. V # T /\ V \in SUBSET T /\ V \in SUBSET U BY <4>1
      <4>3. Adds(f, U, F(U)) /\ Adds(f, V, F(V)) BY <2>1, <3>4, <4>2
      <4>4. IsFiniteSet(V) BY FS_Subset, V \in SUBSET S, <4>2
      <4> HIDE DEF F
      <4>5. F(U)[V] = F(V)[V]
        <5> HIDE DEF V
        <5> QED BY <4>2, <4>3, <4>4, AddsUnique
      <4>6. F(U)[U] = f[q] + F(U)[V]
        BY <3>4, <4>3, AddsPicked
      <4> QED BY <3>4, <4>2, <4>5, <4>6
    <3> QED BY <3>1, <3>2, <3>3, <3>4
  <2>3. Adds(f, T, g)
    <3>1. g = [U \in SUBSET T |-> g[U]]
      OBVIOUS
    <3> HIDE DEF g
    <3>2. [U \in SUBSET T |-> g[U]]
            = [U \in SUBSET T |-> IF U = {} THEN 0 ELSE f[Picked(U)] + g[U \ {Picked(U)}]]
      BY <2>2, Zenon
    <3> QED BY <3>1, <3>2 DEF Adds
  <2> QED BY <2>3
<1>2. S \in G
  <2> HIDE DEF G
  <2> QED BY <1>1, SubsetInduction
<1> QED BY <1>2

\* So the function that is chosen adds.
LEMMA TheSumAdds ==
    ASSUME NEW f, NEW S, IsFiniteSet(S)
    PROVE  Adds(f, S, CHOOSE h : Adds(f, S, h))
BY AddsExists

\* The sum over a subset, of a function that may be defined on more.
LEMMA SumIsTheSum ==
    ASSUME NEW f, NEW S, IsFiniteSet(S), NEW T \in SUBSET S
    PROVE  SumOver(f, T) = (CHOOSE h : Adds(f, S, h))[T]
<1> DEFINE e == [x \in T |-> f[x]]
           g == CHOOSE h : Adds(e, T, h)
           k == CHOOSE h : Adds(f, S, h)
<1>1. IsFiniteSet(T) BY FS_Subset
<1>2. Adds(e, T, g) /\ Adds(f, S, k)
  BY <1>1, TheSumAdds
<1>3. \A x \in T : e[x] = f[x] OBVIOUS
<1>4. SumOver(f, T) = g[T]
  BY Unfold DEF SumOver, TheSum
<1> HIDE DEF e, g, k
<1>5. g[T] = k[T] BY <1>1, <1>2, <1>3, AddsUnique
<1> QED BY <1>4, <1>5 DEF k

\* Nothing adds up to 0.
LEMMA SumNone == ASSUME NEW f PROVE SumOver(f, {}) = 0
<1> DEFINE k == CHOOSE h : Adds(f, {}, h)
<1>1. IsFiniteSet({}) BY FS_EmptySet
<1>2. Adds(f, {}, k) BY <1>1, TheSumAdds
<1>3. SumOver(f, {}) = k[{}]
  BY <1>1, SumIsTheSum, {} \in SUBSET {}
<1> HIDE DEF k
<1>4. k[{}] = 0 BY <1>2, AddsNothing
<1> QED BY <1>3, <1>4

\* The element that is added first, and the rest.
LEMMA SumPicked ==
    ASSUME NEW f, NEW S, IsFiniteSet(S), S # {}
    PROVE  SumOver(f, S) = f[Picked(S)] + SumOver(f, S \ {Picked(S)})
<1> DEFINE k == CHOOSE h : Adds(f, S, h)
           V == S \ {Picked(S)}
<1>1. Adds(f, S, k) BY TheSumAdds
<1>2. SumOver(f, S) = k[S] /\ SumOver(f, V) = k[V]
  <2>1. S \in SUBSET S /\ V \in SUBSET S OBVIOUS
  <2> HIDE DEF V
  <2> QED BY <2>1, SumIsTheSum
<1> HIDE DEF k
<1>3. k[S] = f[Picked(S)] + k[V] BY <1>1, S \in SUBSET S DEF Adds
<1> QED BY <1>2, <1>3

\* A sum of integers is one.
LEMMA SumOverType ==
    ASSUME NEW f, NEW S, IsFiniteSet(S), \A x \in S : f[x] \in Int
    PROVE  SumOver(f, S) \in Int
<1> DEFINE G == {T \in SUBSET S : SumOver(f, T) \in Int}
<1>1. ASSUME NEW T \in SUBSET S, \A U \in SUBSET T : U # T => U \in G
      PROVE  T \in G
  <2>1. CASE T = {}
    BY <2>1, SumNone
  <2>2. CASE T # {}
    <3>1. Picked(T) \in T
      BY <2>2, PickedIn
    <3>2. T \ {Picked(T)} \in G
      BY <1>1, <3>1
    <3>3. IsFiniteSet(T) BY FS_Subset
    <3>4. SumOver(f, T) = f[Picked(T)] + SumOver(f, T \ {Picked(T)})
      BY <2>2, <3>3, SumPicked
    <3> QED BY <3>1, <3>2, <3>4
  <2> QED BY <2>1, <2>2
<1>2. S \in G
  <2> HIDE DEF G
  <2> QED BY <1>1, SubsetInduction
<1> QED BY <1>2

\* It does not matter which element is taken first.
LEMMA SumOverStep ==
    ASSUME NEW f, NEW S, IsFiniteSet(S), \A x \in S : f[x] \in Int, NEW x \in S
    PROVE  SumOver(f, S) = f[x] + SumOver(f, S \ {x})
<1> DEFINE G == {T \in SUBSET S : \A y \in T : SumOver(f, T) = f[y] + SumOver(f, T \ {y})}
<1>1. ASSUME NEW T \in SUBSET S, \A U \in SUBSET T : U # T => U \in G
      PROVE  T \in G
  <2>1. SUFFICES ASSUME NEW y \in T PROVE SumOver(f, T) = f[y] + SumOver(f, T \ {y})
    OBVIOUS
  <2> DEFINE p == Picked(T)
  <2>2. p \in T BY PickedIn
  <2>3. IsFiniteSet(T) BY FS_Subset
  <2>4. SumOver(f, T) = f[p] + SumOver(f, T \ {p})
    BY <2>3, SumPicked
  <2>5. CASE y = p BY <2>4, <2>5
  <2>6. CASE y # p
    <3>1. T \ {p} \in G /\ T \ {y} \in G
      BY <1>1, <2>2
    <3> HIDE DEF p
    <3>2. SumOver(f, T \ {p}) = f[y] + SumOver(f, (T \ {p}) \ {y})
      BY <3>1, <2>6
    <3>3. SumOver(f, T \ {y}) = f[p] + SumOver(f, (T \ {y}) \ {p})
      BY <3>1, <2>2, <2>6
    <3>4. (T \ {p}) \ {y} = (T \ {y}) \ {p} OBVIOUS
    <3> DEFINE V == (T \ {y}) \ {p}
    <3>5. SumOver(f, V) \in Int
      <4>1. V \in SUBSET S OBVIOUS
      <4>2. IsFiniteSet(V) BY <4>1, FS_Subset
      <4>3. \A z \in V : f[z] \in Int BY <4>1
      <4> HIDE DEF V
      <4> QED BY <4>2, <4>3, SumOverType
    <3>6. f[p] \in Int /\ f[y] \in Int BY <2>2
    <3>7. SumOver(f, T \ {p}) = f[y] + SumOver(f, V) BY <3>2, <3>4
    <3>8. SumOver(f, T \ {y}) = f[p] + SumOver(f, V) BY <3>3
    <3> HIDE DEF V
    <3> QED BY <2>4, <3>5, <3>6, <3>7, <3>8
  <2> QED BY <2>5, <2>6
<1>2. S \in G
  <2> HIDE DEF G
  <2> QED BY <1>1, SubsetInduction
<1> QED BY <1>2

\* A function that is known on its domain.
LEMMA SumIs ==
    ASSUME NEW f, NEW T, NEW g, g = [x \in T |-> g[x]], \A x \in T : g[x] = f[x]
    PROVE  Sum(g) = SumOver(f, T)
<1>1. g = [x \in T |-> f[x]]
  OBVIOUS
<1> QED BY <1>1 DEF SumOver

\* Sums of equal terms.
LEMMA SumOverSame ==
    ASSUME NEW f, NEW g, NEW S, \A x \in S : f[x] = g[x]
    PROVE  SumOver(f, S) = SumOver(g, S)
<1>1. [x \in S |-> f[x]] = [x \in S |-> g[x]] OBVIOUS
<1> QED BY <1>1 DEF SumOver

\* A sum of naturals is one.
LEMMA SumOverNat ==
    ASSUME NEW f, NEW S, IsFiniteSet(S), \A x \in S : f[x] \in Nat
    PROVE  SumOver(f, S) \in Nat
<1> DEFINE G == {T \in SUBSET S : SumOver(f, T) \in Nat}
<1>1. ASSUME NEW T \in SUBSET S, NEW x \in T, T \ {x} \in G
      PROVE  T \in G
  <2>1. IsFiniteSet(T) BY FS_Subset
  <2>2. \A y \in T : f[y] \in Int OBVIOUS
  <2>3. SumOver(f, T) = f[x] + SumOver(f, T \ {x}) BY <2>1, <2>2, SumOverStep
  <2>4. f[x] \in Nat OBVIOUS
  <2> QED BY <1>1, <2>3, <2>4
<1>2. {} \in G BY SumNone
<1>3. S \in G
  <2> HIDE DEF G
  <2> QED BY <1>1, <1>2, ElementInduction
<1> QED BY <1>3

\* A sum of one term.
LEMMA SumOverSingle ==
    ASSUME NEW f, NEW x, f[x] \in Int PROVE SumOver(f, {x}) = f[x]
<1>1. IsFiniteSet({x}) BY FS_Singleton
<1>2. SumOver(f, {x}) = f[x] + SumOver(f, {x} \ {x})
  <2>1. \A y \in {x} : f[y] \in Int OBVIOUS
  <2>2. x \in {x} OBVIOUS
  <2> QED BY <1>1, <2>1, <2>2, SumOverStep
<1>3. {x} \ {x} = {} OBVIOUS
<1> QED BY <1>2, <1>3, SumNone

\* The sum over two disjoint sets.
LEMMA SumOverUnion ==
    ASSUME NEW f, NEW S, NEW T, IsFiniteSet(S), IsFiniteSet(T), S \cap T = {},
           \A x \in S \cup T : f[x] \in Int
    PROVE  SumOver(f, S \cup T) = SumOver(f, S) + SumOver(f, T)
<1> DEFINE G == {U \in SUBSET S : SumOver(f, U \cup T) = SumOver(f, U) + SumOver(f, T)}
<1>1. ASSUME NEW U \in SUBSET S, NEW x \in U, U \ {x} \in G
      PROVE  U \in G
  <2> DEFINE V == U \ {x}
  <2>1. IsFiniteSet(U) /\ IsFiniteSet(V) /\ IsFiniteSet(U \cup T)
    BY FS_Subset, FS_Union
  <2>2. (U \cup T) \ {x} = V \cup T OBVIOUS
  <2>3. \A y \in U : f[y] \in Int OBVIOUS
  <2>4. \A y \in U \cup T : f[y] \in Int OBVIOUS
  <2>5. SumOver(f, U) = f[x] + SumOver(f, V) BY <2>1, <2>3, SumOverStep
  <2>6. SumOver(f, U \cup T) = f[x] + SumOver(f, (U \cup T) \ {x})
    <3> DEFINE W == U \cup T
    <3>1. x \in W OBVIOUS
    <3> HIDE DEF W
    <3> QED BY <3>1, <2>1, <2>4, SumOverStep DEF W
  <2>7. SumOver(f, V \cup T) = SumOver(f, V) + SumOver(f, T) BY <1>1
  <2>8. SumOver(f, V) \in Int /\ SumOver(f, T) \in Int /\ f[x] \in Int
    <3>1. \A y \in V : f[y] \in Int OBVIOUS
    <3>2. \A y \in T : f[y] \in Int OBVIOUS
    <3> QED BY <2>1, <3>1, <3>2, SumOverType
  <2>9. SumOver(f, U \cup T) = f[x] + SumOver(f, V \cup T) BY <2>2, <2>6
  <2>10. SumOver(f, U \cup T) = SumOver(f, U) + SumOver(f, T)
    <3> HIDE DEF V
    <3> QED BY <2>5, <2>7, <2>8, <2>9
  <2> QED BY <2>10
<1>2. {} \in G
  <2>1. {} \cup T = T OBVIOUS
  <2>2. \A y \in T : f[y] \in Int OBVIOUS
  <2>3. SumOver(f, T) \in Int BY <2>2, SumOverType
  <2> QED BY <2>1, <2>3, SumNone
<1>3. S \in G
  <2>1. \A U \in SUBSET S : \A x \in U : U \ {x} \in G => U \in G
    BY <1>1
  <2> HIDE DEF G
  <2>2. \A W \in SUBSET S : W \in G BY <2>1, <1>2, ElementInduction
  <2> QED BY <2>2
<1> QED BY <1>3

\* Fewer terms that are not negative sum to no more.
LEMMA SumOverSubset ==
    ASSUME NEW f, NEW S, IsFiniteSet(S), NEW T \in SUBSET S, \A x \in S : f[x] \in Nat
    PROVE  SumOver(f, T) <= SumOver(f, S)
<1> DEFINE R == S \ T
<1>1. IsFiniteSet(T) /\ IsFiniteSet(R) BY FS_Subset
<1>2. T \cap R = {} /\ T \cup R = S OBVIOUS
<1>3. \A x \in T \cup R : f[x] \in Int OBVIOUS
<1>4. (\A x \in T : f[x] \in Nat) /\ (\A x \in R : f[x] \in Nat) OBVIOUS
<1> HIDE DEF R
<1>5. SumOver(f, T \cup R) = SumOver(f, T) + SumOver(f, R) BY <1>1, <1>2, <1>3, SumOverUnion
<1>6. SumOver(f, T) \in Nat BY <1>1, <1>4, SumOverNat
<1>7. SumOver(f, R) \in Nat BY <1>1, <1>4, SumOverNat
<1>8. SumOver(f, T \cup R) = SumOver(f, S) BY <1>2
<1> QED BY <1>5, <1>6, <1>7, <1>8

\* Smaller terms sum to no more.
LEMMA SumOverLeq ==
    ASSUME NEW f, NEW g, NEW S, IsFiniteSet(S),
           \A x \in S : f[x] \in Int /\ g[x] \in Int /\ f[x] <= g[x]
    PROVE  SumOver(f, S) <= SumOver(g, S)
<1> DEFINE G == {T \in SUBSET S : SumOver(f, T) <= SumOver(g, T)}
<1>1. ASSUME NEW T \in SUBSET S, NEW x \in T, T \ {x} \in G
      PROVE  T \in G
  <2> DEFINE V == T \ {x}
  <2>1. IsFiniteSet(T) /\ IsFiniteSet(V) BY FS_Subset
  <2>2. (\A y \in T : f[y] \in Int) /\ (\A y \in T : g[y] \in Int)
    OBVIOUS
  <2>3. SumOver(f, T) = f[x] + SumOver(f, V) BY <2>1, <2>2, SumOverStep
  <2>4. SumOver(g, T) = g[x] + SumOver(g, V) BY <2>1, <2>2, SumOverStep
  <2>5. SumOver(f, V) \in Int /\ SumOver(g, V) \in Int
    <3>1. (\A y \in V : f[y] \in Int) /\ (\A y \in V : g[y] \in Int)
      OBVIOUS
    <3> HIDE DEF V
    <3> QED BY <2>1, <3>1, SumOverType
  <2>6. f[x] \in Int /\ g[x] \in Int /\ f[x] <= g[x] OBVIOUS
  <2>7. SumOver(f, V) <= SumOver(g, V) BY <1>1
  <2> HIDE DEF V
  <2> QED BY <2>3, <2>4, <2>5, <2>6, <2>7
<1>2. {} \in G BY SumNone
<1>3. S \in G
  <2> HIDE DEF G
  <2> QED BY <1>1, <1>2, ElementInduction
<1> QED BY <1>3

\* The sum of sums.
LEMMA SumOverPlus ==
    ASSUME NEW f, NEW g, NEW h, NEW S, IsFiniteSet(S),
           \A x \in S : f[x] \in Int /\ g[x] \in Int /\ h[x] = f[x] + g[x]
    PROVE  SumOver(h, S) = SumOver(f, S) + SumOver(g, S)
<1> DEFINE G == {T \in SUBSET S : SumOver(h, T) = SumOver(f, T) + SumOver(g, T)}
<1>1. ASSUME NEW T \in SUBSET S, NEW x \in T, T \ {x} \in G
      PROVE  T \in G
  <2> DEFINE V == T \ {x}
  <2>1. IsFiniteSet(T) /\ IsFiniteSet(V) BY FS_Subset
  <2>2. (\A y \in T : f[y] \in Int) /\ (\A y \in T : g[y] \in Int) /\ (\A y \in T : h[y] \in Int)
    OBVIOUS
  <2>3. SumOver(f, T) = f[x] + SumOver(f, V) BY <2>1, <2>2, SumOverStep
  <2>4. SumOver(g, T) = g[x] + SumOver(g, V) BY <2>1, <2>2, SumOverStep
  <2>9. SumOver(h, T) = h[x] + SumOver(h, V) BY <2>1, <2>2, SumOverStep
  <2>5. SumOver(f, V) \in Int /\ SumOver(g, V) \in Int
    <3>1. (\A y \in V : f[y] \in Int) /\ (\A y \in V : g[y] \in Int)
      OBVIOUS
    <3> HIDE DEF V
    <3> QED BY <2>1, <3>1, SumOverType
  <2>6. f[x] \in Int /\ g[x] \in Int /\ h[x] = f[x] + g[x] OBVIOUS
  <2>7. SumOver(h, V) = SumOver(f, V) + SumOver(g, V) BY <1>1
  <2> HIDE DEF V
  <2> QED BY <2>3, <2>4, <2>5, <2>6, <2>7, <2>9
<1>2. {} \in G BY SumNone
<1>3. S \in G
  <2> HIDE DEF G
  <2> QED BY <1>1, <1>2, ElementInduction
<1> QED BY <1>3

\* A common factor.
LEMMA SumOverTimes ==
    ASSUME NEW f, NEW h, NEW S, IsFiniteSet(S), NEW m \in Int,
           \A x \in S : f[x] \in Int /\ h[x] = m * f[x]
    PROVE  SumOver(h, S) = m * SumOver(f, S)
<1> DEFINE G == {T \in SUBSET S : SumOver(h, T) = m * SumOver(f, T)}
<1>1. ASSUME NEW T \in SUBSET S, NEW x \in T, T \ {x} \in G
      PROVE  T \in G
  <2> DEFINE V == T \ {x}
  <2>1. IsFiniteSet(T) /\ IsFiniteSet(V) BY FS_Subset
  <2>2. (\A y \in T : f[y] \in Int) /\ (\A y \in T : h[y] \in Int)
    OBVIOUS
  <2>3. SumOver(f, T) = f[x] + SumOver(f, V) BY <2>1, <2>2, SumOverStep
  <2>4. SumOver(h, T) = h[x] + SumOver(h, V) BY <2>1, <2>2, SumOverStep
  <2>5. SumOver(f, V) \in Int
    <3>1. \A y \in V : f[y] \in Int
      OBVIOUS
    <3> HIDE DEF V
    <3> QED BY <2>1, <3>1, SumOverType
  <2>6. f[x] \in Int /\ h[x] = m * f[x] OBVIOUS
  <2>7. SumOver(h, V) = m * SumOver(f, V) BY <1>1
  <2>8. \A a, b \in Int : m * (a + b) = m * a + m * b OBVIOUS
  <2> HIDE DEF V
  <2> QED BY <2>3, <2>4, <2>5, <2>6, <2>7, <2>8
<1>2. {} \in G BY SumNone
<1>3. S \in G
  <2> HIDE DEF G
  <2> QED BY <1>1, <1>2, ElementInduction
<1> QED BY <1>3

\* Ones count the set.
LEMMA SumOverOnes ==
    ASSUME NEW f, NEW S, IsFiniteSet(S), \A x \in S : f[x] = 1
    PROVE  SumOver(f, S) = Cardinality(S)
<1> DEFINE G == {T \in SUBSET S : SumOver(f, T) = Cardinality(T)}
<1>1. ASSUME NEW T \in SUBSET S, NEW x \in T, T \ {x} \in G
      PROVE  T \in G
  <2>1. IsFiniteSet(T) BY FS_Subset
  <2>2. \A y \in T : f[y] \in Int OBVIOUS
  <2>3. SumOver(f, T) = f[x] + SumOver(f, T \ {x}) BY <2>1, <2>2, SumOverStep
  <2>4. Cardinality(T \ {x}) = Cardinality(T) - 1 /\ Cardinality(T) \in Nat
    BY <2>1, FS_RemoveElement, FS_CardinalityType
  <2> QED BY <1>1, <2>3, <2>4
<1>2. {} \in G BY SumNone, FS_EmptySet
<1>3. S \in G
  <2>1. \A T \in SUBSET S : \A x \in T : T \ {x} \in G => T \in G
    BY <1>1
  <2> HIDE DEF G
  <2>2. \A W \in SUBSET S : W \in G BY <2>1, <1>2, ElementInduction
  <2> QED BY <2>2
<1> QED BY <1>3

\* Zeros sum to 0.
LEMMA SumOverZero ==
    ASSUME NEW f, NEW S, IsFiniteSet(S), \A x \in S : f[x] = 0
    PROVE  SumOver(f, S) = 0
<1>1. \A x \in S : f[x] \in Int /\ f[x] = 0 * f[x] OBVIOUS
<1>2. SumOver(f, S) = 0 * SumOver(f, S) BY <1>1, 0 \in Int, SumOverTimes
<1>3. SumOver(f, S) \in Int BY <1>1, SumOverType
<1> QED BY <1>2, <1>3

\* The elements of S of a key.
Having(S, k, y) == {x \in S : k[x] = y}

\* A sum by the keys of its terms: what is summed by groups is summed.
LEMMA SumOverKeys ==
    ASSUME NEW f, NEW S, NEW k, NEW K, NEW g, IsFiniteSet(S), IsFiniteSet(K),
           \A x \in S : f[x] \in Int /\ k[x] \in K,
           \A y \in K : g[y] = SumOver(f, Having(S, k, y))
    PROVE  SumOver(f, S) = SumOver(g, K)
<1> USE DEF Having
<1> DEFINE Of(L) == {x \in S : k[x] \in L}
           G == {L \in SUBSET K : SumOver(f, Of(L)) = SumOver(g, L)}
<1>0. \A y \in K : g[y] \in Int
  <2> TAKE y \in K
  <2> DEFINE T == {x \in S : k[x] = y}
  <2>1. IsFiniteSet(T) BY FS_Subset
  <2>2. \A x \in T : f[x] \in Int OBVIOUS
  <2>3. g[y] = SumOver(f, T) OBVIOUS
  <2> HIDE DEF T
  <2> QED BY <2>1, <2>2, <2>3, SumOverType
<1>1. ASSUME NEW L \in SUBSET K, NEW y \in L, L \ {y} \in G
      PROVE  L \in G
  <2> DEFINE M == L \ {y}
             T == {x \in S : k[x] = y}
             O == Of(M)
  <2>1. Of(L) = T \cup O /\ T \cap O = {} OBVIOUS
  <2>2. IsFiniteSet(T) /\ IsFiniteSet(O) /\ IsFiniteSet(L) BY FS_Subset
  <2>3. \A x \in T \cup O : f[x] \in Int OBVIOUS
  <2>4. SumOver(f, T) = g[y] OBVIOUS
  <2>5. SumOver(f, O) = SumOver(g, M) BY <1>1
  <2>6. SumOver(f, T \cup O) = SumOver(f, T) + SumOver(f, O)
    <3> HIDE DEF T, O
    <3> QED BY <2>1, <2>2, <2>3, SumOverUnion
  <2>7. SumOver(g, L) = g[y] + SumOver(g, M)
    <3>1. \A z \in L : g[z] \in Int BY <1>0
    <3> QED BY <2>2, <3>1, SumOverStep
  <2> QED BY <2>1, <2>4, <2>5, <2>6, <2>7
<1>2. {} \in G
  <2>1. Of({}) = {} OBVIOUS
  <2> QED BY <2>1, SumNone
<1>3. K \in G
  <2> HIDE DEF G
  <2> QED BY <1>1, <1>2, ElementInduction
<1>4. Of(K) = S OBVIOUS
<1> QED BY <1>3, <1>4

\* A sum by other names.
LEMMA SumOverRenamed ==
    ASSUME NEW f, NEW S, NEW T, NEW b, NEW g, IsFiniteSet(S), IsFiniteSet(T),
           \A x \in S : f[x] \in Int,
           \A t \in T : b[t] \in S /\ g[t] = f[b[t]],
           \A x \in S : \E t \in T : b[t] = x,
           \A t, u \in T : b[t] = b[u] => t = u
    PROVE  SumOver(g, T) = SumOver(f, S)
<1>1. \A t \in T : g[t] \in Int /\ b[t] \in S OBVIOUS
<1>2. \A x \in S : f[x] = SumOver(g, Having(T, b, x))
  <2> TAKE x \in S
  <2>1. PICK t \in T : b[t] = x OBVIOUS
  <2>2. Having(T, b, x) = {t} BY <2>1 DEF Having
  <2>3. g[t] = f[x] /\ g[t] \in Int BY <2>1, <1>1
  <2>4. SumOver(g, {t}) = g[t] BY <2>3, SumOverSingle
  <2> QED BY <2>2, <2>3, <2>4
<1>3. SumOver(g, T) = SumOver(f, S)
  <2>1. \A t \in T : g[t] \in Int /\ b[t] \in S BY <1>1
  <2>2. \A x \in S : f[x] = SumOver(g, Having(T, b, x)) BY <1>2
  <2> QED BY <2>1, <2>2, SumOverKeys, SMTT(30)
<1> QED BY <1>3

(***************************************************************************)
(* The books.                                                              *)
(***************************************************************************)
\* Days are numbers and there is a first.
LEMMA DaysAreNumbers == Days \subseteq Nat /\ 1 \in Days /\ LastDay \in Nat
BY ReportsAssumption DEF Days

\* What a form holds.
LEMMA FormTyped ==
    ASSUME NEW f \in Forms
    PROVE  /\ f.customer \in Customers \cup {Nothing} /\ f.author \in Users \cup {Nothing}
           /\ f.session \in Sessions \cup {Nothing} /\ f.order \in Orders \cup {Nothing}
           /\ f.total \in Nat /\ f.cost \in Nat /\ IsFiniteSet(DOMAIN f.items)
           /\ \A i \in DOMAIN f.items : f.items[i] \in Items
BY ReportsAssumption

\* Nothing is not a row nor a reference to one.
LEMMA NothingIsNoRow ==
    /\ Nothing \notin Forms /\ Nothing \notin Sessions /\ Nothing \notin Orders
    /\ Nothing \notin PaymentRows /\ Nothing \notin EntryRows
    /\ Nothing \notin OrderRows /\ Nothing \notin SessionRows
    /\ Nothing \notin Users /\ Nothing \notin Customers /\ Nothing \notin Products
BY ReportsAssumption

\* Empty books are well formed.
LEMMA BooksInitOK == ASSUME BooksInit PROVE BooksOK
<1> USE DaysAreNumbers
<1>1. today \in Days /\ sale \in [Sales -> SaleRows]
  BY DEF BooksInit, Unsold, SaleRows
<1>2. \A s \in Sales : sale[s].status = "none" /\ sale[s].form = Nothing
  BY DEF BooksInit, Unsold
<1>3. SettingsTyped
  BY DEF BooksInit, Types, Bases, SettingsTyped, SettingRows
<1>4. \A p \in Payments : payment[p] = Nothing
  BY DEF BooksInit
<1>5. /\ payment \in [Payments -> PaymentRows \cup {Nothing}]
      /\ entry \in [Entries -> EntryRows \cup {Nothing}]
      /\ order \in [Orders -> OrderRows \cup {Nothing}]
      /\ session \in [Sessions -> SessionRows \cup {Nothing}]
  BY DEF BooksInit
<1> QED BY <1>1, <1>2, <1>3, <1>4, <1>5 DEF BooksOK, RowsTyped, SaleLinked, Exists

\* What is known of a sale in books that are well formed.
LEMMA SaleTyped ==
    ASSUME BooksOK, NEW s \in Sales
    PROVE  /\ sale[s] \in SaleRows /\ sale[s].form \in Forms \cup {Nothing}
           /\ sale[s].day \in Days
           /\ sale[s].status \in {"none", "active", "refunded", "canceled"}
           /\ Exists(s) => sale[s].form \in Forms
           /\ SaleLinked(s)
<1>1. sale[s] \in SaleRows /\ SaleLinked(s) BY DEF BooksOK, RowsTyped
<1> QED BY <1>1 DEF SaleRows, SaleLinked

\* And of an order.
LEMMA OrderTyped ==
    ASSUME BooksOK, NEW o \in Orders, order[o] # Nothing
    PROVE  /\ order[o] \in OrderRows /\ order[o].form \in OrderForms
           /\ order[o].day \in Days
<1>1. order[o] \in OrderRows BY DEF BooksOK, RowsTyped
<1> QED BY <1>1 DEF OrderRows

\* And of a payment: it is for a sale that exists.
LEMMA PaymentTyped ==
    ASSUME BooksOK, NEW p \in Payments, payment[p] # Nothing
    PROVE  /\ payment[p] \in PaymentRows /\ payment[p].sale \in Sales
           /\ payment[p].amount \in Amounts /\ payment[p].day \in Days
           /\ Exists(payment[p].sale)
<1>1. payment[p] \in PaymentRows /\ Exists(payment[p].sale) BY DEF BooksOK, RowsTyped
<1> QED BY <1>1 DEF PaymentRows

\* A sale is recorded: its order is converted with it.
LEMMA RecordSaleOK ==
    ASSUME BooksOK, NEW s \in Sales, NEW f \in Forms, NEW d \in Days, RecordSale(s, f, d)
    PROVE  BooksOK'
<1> USE DaysAreNumbers, NothingIsNoRow
<1>1. /\ ~Exists(s) /\ d \in 1..today
      /\ f.session # Nothing => session[f.session] # Nothing
      /\ f.order # Nothing => order[f.order] # Nothing /\ order[f.order].status = "open"
      /\ sale' = [sale EXCEPT ![s] = [status |-> "active", day |-> d, form |-> f]]
      /\ order' = [o \in Orders |-> IF o # f.order THEN order[o]
                                    ELSE [order[o] EXCEPT !.status = "converted", !.day = today]]
      /\ UNCHANGED <<today, payment, entry, session, settings>>
  BY DEF RecordSale
<1>2. f # Nothing /\ f.order \in Orders \cup {Nothing} /\ f.session \in Sessions \cup {Nothing}
  BY FormTyped
<1>3. [status |-> "active", day |-> d, form |-> f] \in SaleRows
  BY DEF SaleRows
<1>0. sale \in [Sales -> SaleRows] /\ order \in [Orders -> OrderRows \cup {Nothing}]
      /\ today \in Days
  BY DEF BooksOK, RowsTyped
<1>4. sale' \in [Sales -> SaleRows]
  BY <1>1, <1>3, <1>0
<1>5. ASSUME f.order # Nothing
      PROVE  /\ [order[f.order] EXCEPT !.status = "converted", !.day = today] \in OrderRows
             /\ [order[f.order] EXCEPT !.status = "converted", !.day = today].status = "converted"
  <2>1. order[f.order] \in OrderRows BY <1>1, <1>2, <1>5, OrderTyped
  <2> QED BY <2>1, <1>0 DEF OrderRows
<1>6. order' \in [Orders -> OrderRows \cup {Nothing}]
  BY <1>1, <1>5, <1>0
<1>8. f.order # Nothing => order'[f.order] # Nothing /\ order'[f.order].status = "converted"
  BY <1>1, <1>2, <1>5
<1>7. \A o \in Orders : order[o] # Nothing => order'[o] # Nothing
                          /\ (order[o].status = "converted" => order'[o].status = "converted")
  BY <1>1, <1>8
<1>9. /\ sale'[s].status = "active" /\ sale'[s].form = f
      /\ \A t \in Sales : t # s => sale'[t] = sale[t]
  BY <1>1, <1>0
<1>10. ASSUME NEW t \in Sales PROVE SaleLinked(t)'
  <2>1. CASE t = s BY <2>1, <1>1, <1>2, <1>8, <1>9 DEF SaleLinked, Exists, HasOrder
  <2>2. CASE t # s
    <3>1. sale'[t] = sale[t] BY <2>2, <1>9
    <3>2. SaleLinked(t) /\ (Exists(t) => sale[t].form \in Forms) BY SaleTyped
    <3>3. Exists(t) => sale[t].form.order \in Orders \cup {Nothing}
      BY <3>2, FormTyped
    <3> QED BY <3>1, <3>2, <3>3, <1>1, <1>7 DEF SaleLinked, Exists, HasOrder
  <2> QED BY <2>1, <2>2
<1>12. ASSUME NEW p \in Payments, payment'[p] # Nothing
      PROVE  sale'[payment'[p].sale].status # "none"
  <2>1. payment[p].sale \in Sales /\ Exists(payment[p].sale) BY <1>1, <1>12, PaymentTyped
  <2> QED BY <2>1, <1>1, <1>9 DEF Exists
<1>13. RowsTyped'
  <2>1. RowsTyped BY DEF BooksOK
  <2>2. UNCHANGED <<today, payment, entry, session>> BY <1>1
  <2> QED BY <2>1, <2>2, <1>4, <1>6 DEF RowsTyped
<1>14. SettingsTyped' BY <1>1 DEF BooksOK, SettingsTyped
<1> QED BY <1>10, <1>12, <1>13, <1>14 DEF BooksOK, Exists

\* What a write leaves: the sales keep their forms, the orders and the sessions stay.
LEMMA KeptOK ==
    ASSUME BooksOK, RowsTyped', SettingsTyped',
           \A s \in Sales : sale'[s].form = sale[s].form /\ (Exists(s)' <=> Exists(s)),
           \A o \in Orders : order[o] # Nothing /\ order[o].status = "converted" =>
                                 order'[o] # Nothing /\ order'[o].status = "converted",
           \A c \in Sessions : session[c] # Nothing => session'[c] # Nothing,
           \A p \in Payments : payment'[p] # Nothing => Exists(payment'[p].sale)
    PROVE  BooksOK'
<1>1. ASSUME NEW s \in Sales PROVE SaleLinked(s)'
  <2>1. SaleLinked(s) /\ (Exists(s) => sale[s].form \in Forms) BY SaleTyped
  <2>2. Exists(s) => /\ sale[s].form.order \in Orders \cup {Nothing}
                     /\ sale[s].form.session \in Sessions \cup {Nothing}
    BY <2>1, FormTyped
  <2>3. sale'[s].form = sale[s].form /\ (Exists(s)' <=> Exists(s)) OBVIOUS
  <2> QED BY <2>1, <2>2, <2>3 DEF SaleLinked, HasOrder
<1>2. ASSUME NEW p \in Payments, payment'[p] # Nothing
      PROVE  sale'[payment'[p].sale].status # "none"
  <2>1. payment'[p] \in PaymentRows BY <1>2 DEF RowsTyped
  <2>2. payment'[p].sale \in Sales BY <2>1 DEF PaymentRows
  <2>3. Exists(payment'[p].sale) BY <1>2
  <2> QED BY <2>2, <2>3 DEF Exists
<1> QED BY <1>1, <1>2 DEF BooksOK, Exists

\* A sale that is cancelled or refunded keeps its form.
LEMMA CancelSaleOK == ASSUME BooksOK, NEW s \in Sales, CancelSale(s) \/ RefundSale(s)
    PROVE  BooksOK'
<1>1. PICK st \in {"canceled", "refunded"} :
         /\ sale' = [sale EXCEPT ![s].status = st]
         /\ sale[s].status # "none"
         /\ UNCHANGED <<today, payment, entry, order, session, settings>>
  BY DEF CancelSale, RefundSale
<1>2. RowsTyped /\ SettingsTyped BY DEF BooksOK
<1>3. sale \in [Sales -> SaleRows] BY <1>2 DEF RowsTyped
<1>4. \A t \in Sales : sale'[t] \in SaleRows
  BY <1>1, <1>3 DEF SaleRows
<1>5. sale' \in [Sales -> SaleRows] BY <1>1, <1>3, <1>4
<1>6. \A t \in Sales : sale'[t].form = sale[t].form /\ (Exists(t)' <=> Exists(t))
  BY <1>1, <1>3 DEF SaleRows, Exists
<1>7. \A p \in Payments : payment'[p] # Nothing => Exists(payment'[p].sale)
  BY <1>1 DEF BooksOK
<1>8. RowsTyped' /\ SettingsTyped' BY <1>1, <1>2, <1>5 DEF RowsTyped, SettingsTyped
<1> QED BY <1>1, <1>6, <1>7, <1>8, KeptOK

\* A payment is for a sale that exists.
LEMMA PayFiadoOK ==
    ASSUME BooksOK, NEW p \in Payments, NEW s \in Sales, NEW a \in Amounts, NEW d \in Days,
           PayFiado(p, s, a, d)
    PROVE  BooksOK'
<1>1. /\ payment' = [payment EXCEPT ![p] = [sale |-> s, amount |-> a, day |-> d]]
      /\ Exists(s) /\ UNCHANGED <<today, sale, entry, order, session, settings>>
  BY DEF PayFiado
<1>2. RowsTyped /\ SettingsTyped BY DEF BooksOK
<1>3. payment \in [Payments -> PaymentRows \cup {Nothing}] BY <1>2 DEF RowsTyped
<1>4. [sale |-> s, amount |-> a, day |-> d] \in PaymentRows BY DEF PaymentRows
<1>5. payment' \in [Payments -> PaymentRows \cup {Nothing}] BY <1>1, <1>3, <1>4
<1>6. \A q \in Payments : payment'[q] # Nothing => Exists(payment'[q].sale)
  BY <1>1, <1>3 DEF BooksOK
<1>7. \A t \in Sales : sale'[t].form = sale[t].form /\ (Exists(t)' <=> Exists(t))
  BY <1>1 DEF Exists
<1>8. RowsTyped' /\ SettingsTyped' BY <1>1, <1>2, <1>5 DEF RowsTyped, SettingsTyped
<1> QED BY <1>1, <1>6, <1>7, <1>8, KeptOK

\* An entry is recorded or cancelled.
LEMMA EntryOK ==
    ASSUME BooksOK, NEW e \in Entries,
           (\E f \in EntryForms, d \in Days : RecordEntry(e, f, d)) \/ CancelPurchase(e)
    PROVE  BooksOK'
<1>2. RowsTyped /\ SettingsTyped BY DEF BooksOK
<1>3. entry \in [Entries -> EntryRows \cup {Nothing}] BY <1>2 DEF RowsTyped
<1>1. /\ entry' \in [Entries -> EntryRows \cup {Nothing}]
      /\ UNCHANGED <<today, sale, payment, order, session, settings>>
  <2>1. CASE CancelPurchase(e)
    <3>1. entry[e] \in EntryRows BY <2>1, <1>3 DEF CancelPurchase
    <3>2. [entry[e] EXCEPT !.cancelled = TRUE] \in EntryRows BY <3>1 DEF EntryRows
    <3>3. entry' = [entry EXCEPT ![e] = [entry[e] EXCEPT !.cancelled = TRUE]]
      BY <2>1 DEF CancelPurchase
    <3>4. entry' \in [Entries -> EntryRows \cup {Nothing}] BY <1>3, <3>2, <3>3
    <3> QED BY <2>1, <3>4 DEF CancelPurchase
  <2>2. CASE \E f \in EntryForms, d \in Days : RecordEntry(e, f, d)
    <3>1. PICK f \in EntryForms, d \in Days : RecordEntry(e, f, d) BY <2>2
    <3>2. f \in [kind: Kinds, amount: Nat, author: Users \cup {Nothing}]
      BY ReportsAssumption
    <3>3. [kind |-> f.kind, amount |-> f.amount, day |-> d, author |-> f.author,
           cancelled |-> FALSE] \in EntryRows
      BY <3>2 DEF EntryRows
    <3>4. /\ entry' = [entry EXCEPT ![e] = [kind |-> f.kind, amount |-> f.amount, day |-> d,
                                            author |-> f.author, cancelled |-> FALSE]]
          /\ UNCHANGED <<today, sale, payment, order, session, settings>>
      BY <3>1 DEF RecordEntry
    <3> QED BY <1>3, <3>3, <3>4
  <2> QED BY <2>1, <2>2
<1>7. \A t \in Sales : sale'[t].form = sale[t].form /\ (Exists(t)' <=> Exists(t))
  BY <1>1 DEF Exists
<1>6. \A q \in Payments : payment'[q] # Nothing => Exists(payment'[q].sale)
  BY <1>1 DEF BooksOK
<1>8. RowsTyped' /\ SettingsTyped' BY <1>1, <1>2 DEF RowsTyped, SettingsTyped
<1> QED BY <1>1, <1>6, <1>7, <1>8, KeptOK

\* An order is written: one that was converted stays converted.
LEMMA OrderOK ==
    ASSUME BooksOK, NEW o \in Orders,
           (\E f \in OrderForms : SaveOrder(o, f)) \/ CancelOrder(o)
    PROVE  BooksOK'
<1>2. RowsTyped /\ SettingsTyped BY DEF BooksOK
<1>3. order \in [Orders -> OrderRows \cup {Nothing}] /\ today \in Days BY <1>2 DEF RowsTyped
<1>1. /\ order' \in [Orders -> OrderRows \cup {Nothing}]
      /\ \A q \in Orders : order[q] # Nothing /\ order[q].status = "converted"
                              => order'[q] = order[q]
      /\ UNCHANGED <<today, sale, payment, entry, session, settings>>
  <2>1. CASE CancelOrder(o)
    <3>1. order[o] \in OrderRows /\ order[o].status = "open" BY <2>1, <1>3 DEF CancelOrder
    <3>2. [order[o] EXCEPT !.status = "cancelled", !.day = today] \in OrderRows
      BY <3>1, <1>3 DEF OrderRows
    <3>3. order' = [order EXCEPT ![o] = [order[o] EXCEPT !.status = "cancelled", !.day = today]]
      BY <2>1, <1>3 DEF CancelOrder
    <3>4. order' \in [Orders -> OrderRows \cup {Nothing}] BY <1>3, <3>2, <3>3
    <3>5. UNCHANGED <<today, sale, payment, entry, session, settings>>
      BY <2>1 DEF CancelOrder
    <3> QED BY <1>3, <3>1, <3>3, <3>4, <3>5
  <2>2. CASE \E f \in OrderForms : SaveOrder(o, f)
    <3>1. PICK f \in OrderForms : SaveOrder(o, f) BY <2>2
    <3>3. [status |-> "open", day |-> today, form |-> f] \in OrderRows
      BY <1>3 DEF OrderRows
    <3>4. /\ order' = [order EXCEPT ![o] = [status |-> "open", day |-> today, form |-> f]]
          /\ order[o] = Nothing
          /\ UNCHANGED <<today, sale, payment, entry, session, settings>>
      BY <3>1 DEF SaveOrder
    <3> QED BY <1>3, <3>3, <3>4
  <2> QED BY <2>1, <2>2
<1>7. \A t \in Sales : sale'[t].form = sale[t].form /\ (Exists(t)' <=> Exists(t))
  BY <1>1 DEF Exists
<1>6. \A q \in Payments : payment'[q] # Nothing => Exists(payment'[q].sale)
  BY <1>1 DEF BooksOK
<1>8. RowsTyped' /\ SettingsTyped' BY <1>1, <1>2 DEF RowsTyped, SettingsTyped
<1> QED BY <1>1, <1>6, <1>7, <1>8, KeptOK

\* A cash session is opened or closed and never removed.
LEMMA SessionOK ==
    ASSUME BooksOK, NEW c \in Sessions,
           \/ \E u \in Users \cup {Nothing} : OpenSession(c, u)
           \/ \E difference \in Differences : CloseSession(c, difference)
    PROVE  BooksOK'
<1>2. RowsTyped /\ SettingsTyped BY DEF BooksOK
<1>3. session \in [Sessions -> SessionRows \cup {Nothing}] /\ today \in Days
  BY <1>2 DEF RowsTyped
<1>1. /\ session' \in [Sessions -> SessionRows \cup {Nothing}]
      /\ \A q \in Sessions : session[q] # Nothing => session'[q] # Nothing
      /\ UNCHANGED <<today, sale, payment, entry, order, settings>>
  <2>1. CASE \E difference \in Differences : CloseSession(c, difference)
    <3>0. PICK difference \in Differences : CloseSession(c, difference) BY <2>1
    <3>1. session[c] \in SessionRows BY <3>0, <1>3 DEF CloseSession
    <3> DEFINE row == [session[c] EXCEPT !.closed = today, !.difference = difference]
    <3>2. row \in SessionRows
      BY <3>1, <1>3 DEF SessionRows
    <3>3. session' = [session EXCEPT ![c] = row]
      BY <3>0, <1>3 DEF CloseSession
    <3> HIDE DEF row
    <3>4. session' \in [Sessions -> SessionRows \cup {Nothing}] BY <1>3, <3>2, <3>3
    <3>5. UNCHANGED <<today, sale, payment, entry, order, settings>>
      BY <3>0 DEF CloseSession
    <3> QED BY <1>3, <3>2, <3>3, <3>4, <3>5, NothingIsNoRow
  <2>2. CASE \E u \in Users \cup {Nothing} : OpenSession(c, u)
    <3>1. PICK u \in Users \cup {Nothing} : OpenSession(c, u) BY <2>2
    <3>3. [user |-> u, opened |-> today, closed |-> 0, difference |-> 0] \in SessionRows
      BY <1>3 DEF SessionRows
    <3>4. /\ session' = [session EXCEPT ![c] = [user |-> u, opened |-> today, closed |-> 0,
                                                difference |-> 0]]
          /\ session[c] = Nothing
          /\ UNCHANGED <<today, sale, payment, entry, order, settings>>
      BY <3>1 DEF OpenSession
    <3> QED BY <1>3, <3>3, <3>4
  <2> QED BY <2>1, <2>2
<1>7. \A t \in Sales : sale'[t].form = sale[t].form /\ (Exists(t)' <=> Exists(t))
  BY <1>1 DEF Exists
<1>6. \A q \in Payments : payment'[q] # Nothing => Exists(payment'[q].sale)
  BY <1>1 DEF BooksOK
<1>8. RowsTyped' /\ SettingsTyped' BY <1>1, <1>2 DEF RowsTyped, SettingsTyped
<1> QED BY <1>1, <1>6, <1>7, <1>8, KeptOK

\* The settings of an employee are written whole.
LEMMA SettingsOK ==
    ASSUME BooksOK, NEW e \in Employees, NEW input \in Settings, UpdateSettings(e, input)
    PROVE  BooksOK'
<1> DEFINE type == IF input.enabled THEN input.type ELSE "NONE"
           row == [enabled |-> input.enabled, type |-> type, base |-> input.base,
                   rate |-> IF type = "PERCENTAGE" THEN input.rate ELSE 0,
                   fixed |-> IF type = "FIXED_PER_SALE" THEN input.fixed ELSE 0]
<1>1. /\ settings' = [settings EXCEPT ![e] = row]
      /\ UNCHANGED <<today, sale, payment, entry, order, session>>
  BY DEF UpdateSettings
<1>2. input \in SettingRows BY ReportsAssumption
<1>3. type \in Types BY <1>2 DEF Types, SettingRows
<1> HIDE DEF type
<1>4. row \in SettingRows BY <1>2, <1>3 DEF SettingRows
<1>5. RowsTyped /\ SettingsTyped BY DEF BooksOK
<1> HIDE DEF row
<1>6. SettingsTyped' BY <1>1, <1>4, <1>5 DEF SettingsTyped
<1>8. RowsTyped' BY <1>1, <1>5 DEF RowsTyped
<1>7. \A t \in Sales : sale'[t].form = sale[t].form /\ (Exists(t)' <=> Exists(t))
  BY <1>1 DEF Exists
<1>9. \A q \in Payments : payment'[q] # Nothing => Exists(payment'[q].sale)
  BY <1>1 DEF BooksOK
<1> QED BY <1>1, <1>6, <1>7, <1>8, <1>9, KeptOK

\* Every write of the books.
LEMMA WriteOK == ASSUME BooksOK, Write PROVE BooksOK'
<1>1. CASE \E s \in Sales, f \in Forms, d \in Days : RecordSale(s, f, d)
  BY <1>1, RecordSaleOK
<1>2. CASE \E s \in Sales : CancelSale(s) \/ RefundSale(s)
  BY <1>2, CancelSaleOK
<1>3. CASE \E p \in Payments, s \in Sales, a \in Amounts, d \in Days : PayFiado(p, s, a, d)
  BY <1>3, PayFiadoOK
<1>4. CASE \/ \E e \in Entries, f \in EntryForms, d \in Days : RecordEntry(e, f, d)
           \/ \E e \in Entries : CancelPurchase(e)
  BY <1>4, EntryOK
<1>5. CASE \E o \in Orders : (\E f \in OrderForms : SaveOrder(o, f)) \/ CancelOrder(o)
  BY <1>5, OrderOK
<1>6. CASE \/ \E c \in Sessions, u \in Users \cup {Nothing} : OpenSession(c, u)
           \/ \E c \in Sessions, difference \in Differences : CloseSession(c, difference)
  BY <1>6, SessionOK
<1>7. CASE \E e \in Employees, input \in Settings : UpdateSettings(e, input)
  BY <1>7, SettingsOK
<1> QED BY <1>1, <1>2, <1>3, <1>4, <1>5, <1>6, <1>7 DEF Write

\* A day passes.
LEMMA NextDayOK == ASSUME BooksOK, NextDay PROVE BooksOK'
<1>0. today \in Days BY DEF BooksOK, RowsTyped
<1>1. today' \in Days
  <2>1. today < LastDay /\ today' = today + 1 BY DEF NextDay
  <2> QED BY <1>0, <2>1, DaysAreNumbers DEF Days
<1>2. UNCHANGED <<sale, payment, entry, order, session, settings>> BY DEF NextDay, books
<1>3. RowsTyped /\ SettingsTyped BY DEF BooksOK
<1>8. RowsTyped' /\ SettingsTyped' BY <1>1, <1>2, <1>3 DEF RowsTyped, SettingsTyped
<1>7. \A t \in Sales : sale'[t].form = sale[t].form /\ (Exists(t)' <=> Exists(t))
  BY <1>2 DEF Exists
<1>9. \A q \in Payments : payment'[q] # Nothing => Exists(payment'[q].sale)
  BY <1>2 DEF BooksOK
<1> QED BY <1>2, <1>7, <1>8, <1>9, KeptOK

\* A step that leaves the books alone.
LEMMA BooksUnchangedOK == ASSUME BooksOK, UNCHANGED <<today, books>> PROVE BooksOK'
BY DEF BooksOK, books, RowsTyped, SettingsTyped, SaleLinked, Exists, HasOrder

(***************************************************************************)
(* Commissions.                                                            *)
(***************************************************************************)
LEMMA AmountsTyped ==
    ASSUME BooksOK, NEW s \in Sales, Exists(s)
    PROVE  /\ Total(s) \in Nat /\ NetAmount(s) \in Nat /\ GrossAmount(s) \in Nat
           /\ IsFiniteSet(DOMAIN Lines(s)) /\ \A i \in DOMAIN Lines(s) : Lines(s)[i] \in Items
<1>1. sale[s].form \in Forms /\ SaleLinked(s) BY SaleTyped
<1>2. /\ sale[s].form.total \in Nat /\ IsFiniteSet(DOMAIN sale[s].form.items)
      /\ \A i \in DOMAIN sale[s].form.items : sale[s].form.items[i] \in Items
      /\ sale[s].form.order \in Orders \cup {Nothing}
  BY <1>1, FormTyped
<1>3. HasOrder(s) => OrderOf(s) \in OrderForms
  BY <1>1, <1>2, OrderTyped DEF SaleLinked, HasOrder, OrderOf
<1>4. HasOrder(s) => OrderOf(s).subtotal \in Nat /\ OrderOf(s).total \in Nat
  BY <1>3, ReportsAssumption
<1> QED BY <1>2, <1>4 DEF Total, NetAmount, GrossAmount, Lines

\* A share rounded down.
LEMMA Share ==
    ASSUME NEW p \in Nat, NEW a \in Nat, NEW n \in Nat, n < a
    PROVE  (p * n) \div a \in Nat /\ a * ((p * n) \div a) <= n * p
<1> DEFINE m == p * n
<1>1. m \in Nat /\ n * p = m OBVIOUS
<1> HIDE DEF m
<1>2. m \div a \in Nat /\ a * (m \div a) <= m
  BY <1>1
<1> QED BY <1>1, <1>2 DEF m

\* The shares of the items are not more than what they are shares of.
LEMMA SharesFit ==
    ASSUME NEW I, IsFiniteSet(I), NEW price \in [I -> Nat], NEW net \in Nat, NEW share,
           \A i \in I : share[i] = ProportionalItemNetAmount(price[i], SumOver(price, I), net)
    PROVE  (\A i \in I : share[i] \in Nat) /\ SumOver(share, I) <= net
<1> DEFINE all == SumOver(price, I)
<1>1. all \in Nat BY SumOverNat
<1>2. CASE net >= all
  <2>1. \A i \in I : share[i] = price[i] BY <1>2 DEF ProportionalItemNetAmount
  <2>2. SumOver(share, I) = all BY <2>1, SumOverSame
  <2> QED BY <1>1, <1>2, <2>1, <2>2
<1>3. CASE net < all
  <2> HIDE DEF all
  <2>1. \A i \in I : share[i] = (price[i] * net) \div all
    BY <1>1, <1>3 DEF ProportionalItemNetAmount, all
  <2>2. \A i \in I : share[i] \in Nat /\ all * share[i] <= net * price[i]
    BY <2>1, <1>1, <1>3, Share
  <2> DEFINE L == [i \in I |-> all * share[i]]
             R == [i \in I |-> net * price[i]]
  <2>3. SumOver(L, I) = all * SumOver(share, I) BY <1>1, <2>2, SumOverTimes
  <2>4. SumOver(R, I) = net * all BY SumOverTimes DEF all
  <2>5. \A i \in I : L[i] \in Int /\ R[i] \in Int /\ L[i] <= R[i] BY <1>1, <2>2
  <2> HIDE DEF L, R
  <2>6. SumOver(L, I) <= SumOver(R, I) BY <2>5, SumOverLeq
  <2>7. SumOver(share, I) \in Nat BY <2>2, SumOverNat
  <2>8. \A x, y, z \in Nat : x > 0 /\ x * y <= z * x => y <= z OBVIOUS
  <2> QED BY <1>1, <1>3, <2>2, <2>3, <2>4, <2>6, <2>7, <2>8
<1> QED BY <1>1, <1>2, <1>3

\* The cost of an item.
LEMMA CostTyped ==
    ASSUME NEW item \in Items PROVE ReliableItemCost(item) \in Nat
BY DEF Items, ReliableItemCost

\* The profit of a sale is not negative and not more than what was charged.
LEMMA GrossProfitFits ==
    ASSUME BooksOK, NEW s \in Sales, Exists(s)
    PROVE  GrossProfit(s) \in Nat /\ GrossProfit(s) <= NetAmount(s)
<1> DEFINE I == DOMAIN Lines(s)
           price == [i \in I |-> Lines(s)[i].price]
           share == [i \in I |-> ProportionalItemNetAmount(price[i], SumOver(price, I),
                                                           NetAmount(s))]
           profit == [i \in I |-> Larger(share[i] - ReliableItemCost(Lines(s)[i]), 0)]
           known == {i \in I : IsCostReliable(Lines(s)[i])}
<1>1. /\ IsFiniteSet(I) /\ NetAmount(s) \in Nat
      /\ \A i \in I : Lines(s)[i] \in Items
  BY AmountsTyped
<1>2. price \in [I -> Nat] BY <1>1 DEF Items
<1>3. IsFiniteSet(known) BY <1>1, FS_Subset
<1>4. (\A i \in I : share[i] \in Nat) /\ SumOver(share, I) <= NetAmount(s)
  <2>1. \A i \in I : share[i] = ProportionalItemNetAmount(price[i], SumOver(price, I),
                                                          NetAmount(s))
    OBVIOUS
  <2> HIDE DEF share, price, I
  <2> QED BY <1>1, <1>2, <2>1, SharesFit
<1>5. GrossProfit(s) = SumOver(profit, known)
  <2>1. Sum(price) = SumOver(price, I) BY SumIs
  <2>2. Sum([i \in I |-> Lines(s)[i].price]) = SumOver(price, I) BY <2>1
  <2> DEFINE term == [i \in known |->
                        Larger(ProportionalItemNetAmount(Lines(s)[i].price, SumOver(price, I),
                                                         NetAmount(s))
                                 - ReliableItemCost(Lines(s)[i]), 0)]
  <2>3. GrossProfit(s) = Sum(term) BY <2>2 DEF GrossProfit
  <2>4. \A i \in known : term[i] = profit[i] OBVIOUS
  <2>5. term = [i \in known |-> term[i]] OBVIOUS
  <2> HIDE DEF term, profit, known
  <2> QED BY <2>3, <2>4, <2>5, SumIs
<1>6. \A i \in I : profit[i] \in Nat /\ profit[i] <= share[i]
  <2> TAKE i \in I
  <2>1. ReliableItemCost(Lines(s)[i]) \in Nat BY <1>1, CostTyped
  <2>2. share[i] \in Nat BY <1>4
  <2>3. profit[i] = Larger(share[i] - ReliableItemCost(Lines(s)[i]), 0) OBVIOUS
  <2> HIDE DEF profit, share
  <2> QED BY <2>1, <2>2, <2>3 DEF Larger
<1>7. \A i \in known : i \in I OBVIOUS
<1> HIDE DEF share, profit, price, known, I
<1>8. SumOver(profit, known) \in Nat BY <1>3, <1>6, <1>7, SumOverNat
<1>9. SumOver(profit, known) <= SumOver(share, known)
  BY <1>3, <1>4, <1>6, <1>7, SumOverLeq
<1>10. SumOver(share, known) <= SumOver(share, I)
  BY <1>1, <1>4, <1>7, SumOverSubset
<1>11. SumOver(share, known) \in Nat /\ SumOver(share, I) \in Nat
  BY <1>1, <1>3, <1>4, <1>7, SumOverNat
<1> QED BY <1>1, <1>4, <1>5, <1>8, <1>9, <1>10, <1>11

\* What the settings of an employee hold.
LEMMA RateTyped ==
    ASSUME NEW set \in SettingRows
    PROVE  set.rate \in 0..10000 /\ set.fixed \in Nat /\ set.base \in Bases
BY DEF SettingRows

\* A part of b, in hundredths of a percent.
PartOf(b, r) == (b * r) \div 10000
Rates == 0..10000

\* A part is not more than what it is a part of.
LEMMA Rated ==
    ASSUME NEW b \in Nat, NEW r \in Rates
    PROVE  PartOf(b, r) \in Nat /\ PartOf(b, r) <= b /\ (b = 0 => PartOf(b, r) = 0)
<1> DEFINE m == b * r
<1>1. r \in Nat /\ r <= 10000 BY DEF Rates
<1>2. m \in Nat /\ m <= 10000 * b /\ (b = 0 => m = 0) BY <1>1
<1>3. PartOf(b, r) = m \div 10000 BY DEF PartOf
<1> HIDE DEF m
<1>4. m \div 10000 \in Nat /\ m \div 10000 <= b /\ (b = 0 => m \div 10000 = 0) BY <1>2
<1> QED BY <1>3, <1>4

\* The same of all.
LEMMA AllRated ==
    \A b \in Nat, r \in Rates :
        PartOf(b, r) \in Nat /\ PartOf(b, r) <= b /\ (b = 0 => PartOf(b, r) = 0)
BY Rated

\* The rate of an employee.
LEMMA RateIsOne == ASSUME NEW set \in SettingRows PROVE set.rate \in Rates
BY RateTyped DEF Rates

\* What a sale yields: nothing when it is not eligible, and a percentage of no more than what
\* it was sold for, unless it is on gross sales.
LEMMA CommissionOfSale ==
    ASSUME BooksOK, NEW set \in SettingRows, NEW s \in Sales, Exists(s),
           NEW c, c = CommissionForSale(s, set)
    PROVE  /\ c.amount \in Nat /\ c.base \in Nat
           /\ ~c.eligible => c.amount = 0
           /\ c.eligible => ~IsCanceled(s)
           /\ set.base # "GROSS_SALES" => c.base <= NetAmount(s)
           /\ set.base # "GROSS_SALES" /\ set.type = "PERCENTAGE"
                 => c.amount <= NetAmount(s)
<1> DEFINE base == BaseAmount(s, set.base)
<1>1. set.rate \in 0..10000 /\ set.fixed \in Nat /\ set.base \in Bases BY RateTyped
<1>2. NetAmount(s) \in Nat /\ GrossAmount(s) \in Nat BY AmountsTyped
<1>3. GrossProfit(s) \in Nat /\ GrossProfit(s) <= NetAmount(s) BY GrossProfitFits
<1>4. base \in Nat /\ (set.base # "GROSS_SALES" => base <= NetAmount(s))
      /\ (set.base = "GROSS_PROFIT" => base = GrossProfit(s))
  BY <1>1, <1>2, <1>3 DEF BaseAmount, Bases
<1>5. CASE IsCanceled(s) \/ ~set.enabled \/ set.type = "NONE"
  <2>1. c = [eligible |-> FALSE, base |-> 0, amount |-> 0]
    BY <1>5 DEF CommissionForSale, NoCommission
  <2>2. c.eligible = FALSE /\ c.base = 0 /\ c.amount = 0
    BY <2>1
  <2>3. c.amount \in Nat /\ c.base \in Nat /\ c.base <= NetAmount(s) /\ c.amount <= NetAmount(s)
    BY <2>2, <1>2
  <2>4. ~c.eligible BY <2>2, Zenon
  <2> QED BY <2>2, <2>3, <2>4, Zenon
<1>6. CASE ~(IsCanceled(s) \/ ~set.enabled \/ set.type = "NONE") /\ set.type = "FIXED_PER_SALE"
  <2>1. c = [eligible |-> TRUE, base |-> NetAmount(s), amount |-> set.fixed]
    BY <1>6 DEF CommissionForSale
  <2>2. c.eligible = TRUE /\ c.base = NetAmount(s) /\ c.amount = set.fixed
    BY <2>1
  <2>3. c.amount \in Nat /\ c.base \in Nat /\ c.base <= NetAmount(s)
    BY <2>2, <1>1, <1>2
  <2>4. c.eligible BY <2>2, Zenon
  <2>5. set.type # "PERCENTAGE" BY <1>6
  <2> QED BY <2>3, <2>4, <2>5, <1>6, Zenon
<1>7. CASE ~(IsCanceled(s) \/ ~set.enabled \/ set.type = "NONE") /\ set.type # "FIXED_PER_SALE"
  <2> DEFINE eligible == (set.base = "GROSS_PROFIT" /\ ~HasReliableCost(s)) => GrossProfit(s) > 0
  <2>1. c = [eligible |-> eligible, base |-> base, amount |-> PartOf(base, set.rate)]
    BY <1>7 DEF CommissionForSale, PartOf
  <2>2. /\ PartOf(base, set.rate) \in Nat /\ PartOf(base, set.rate) <= base
        /\ base = 0 => PartOf(base, set.rate) = 0
    <3>1. set.rate \in Rates BY RateIsOne
    <3>2. base \in Nat BY <1>4
    <3> HIDE DEF base
    <3> QED BY <3>1, <3>2, AllRated, Zenon
  <2>3. ~eligible => base = 0
    BY <1>3, <1>4
  <2>6. c.eligible = eligible /\ c.base = base /\ c.amount = PartOf(base, set.rate)
    <3> HIDE DEF eligible, base
    <3> QED BY <2>1
  <2> HIDE DEF base, eligible
  <2>7. c.amount \in Nat /\ c.base \in Nat /\ c.amount <= c.base
    BY <2>2, <2>6, <1>4
  <2>8. set.base # "GROSS_SALES" => c.base <= NetAmount(s) /\ c.amount <= NetAmount(s)
    BY <2>6, <2>7, <1>2, <1>4
  <2>9. ~c.eligible => c.amount = 0
    <3>1. SUFFICES ASSUME ~c.eligible PROVE c.amount = 0 OBVIOUS
    <3>2. ~eligible BY <3>1, <2>6, Zenon
    <3>3. c.amount = PartOf(base, set.rate) BY <2>6, Zenon
    <3>4. base = 0 BY <3>2, <2>3, Zenon
    <3>5. PartOf(base, set.rate) = 0 BY <3>4, <2>2, Zenon
    <3> QED BY <3>3, <3>5, Zenon
  <2> QED BY <2>7, <2>8, <2>9, <1>7, Zenon
<1> QED BY <1>5, <1>6, <1>7

\* The sales of an employee are finitely many, and they exist.
LEMMA SoldByFinite ==
    ASSUME NEW range, NEW e
    PROVE  /\ IsFiniteSet(SoldBy(range, e)) /\ SoldBy(range, e) \subseteq Sales
           /\ \A s \in SoldBy(range, e) : Exists(s)
<1>1. SoldBy(range, e) \subseteq Sales /\ \A s \in SoldBy(range, e) : Exists(s)
  BY DEF SoldBy, SoldIn
<1>2. IsFiniteSet(Sales) BY ReportsAssumption
<1> QED BY <1>1, <1>2, FS_Subset

\* In books that are well formed, commissions add up.
LEMMA CommissionHolds == ASSUME BooksOK PROVE CommissionAddsUp
<1> SUFFICES ASSUME NEW e \in Employees
             PROVE  LET row == CommissionRow(Days, e)
                        detail == CommissionDetail(Days, e)
                    IN /\ Sum([s \in DOMAIN detail |-> detail[s].amount]) = row.commission
                       /\ \A s \in DOMAIN detail : GrossProfit(s) <= NetAmount(s)
                       /\ settings[e].base # "GROSS_SALES" => row.base <= row.sold
                       /\ settings[e].type = "PERCENTAGE" /\ settings[e].base # "GROSS_SALES"
                             => row.commission <= row.sold
  BY DEF CommissionAddsUp
<1> DEFINE set == settings[e]
           own == SoldBy(Days, e)
           detail == CommissionDetail(Days, e)
           row == CommissionRow(Days, e)
           counted == {s \in own : ~IsCanceled(s)}
           eligible == {s \in counted : CommissionForSale(s, set).eligible}
           amount == [s \in own |-> CommissionForSale(s, set).amount]
           base == [s \in own |-> CommissionForSale(s, set).base]
           net == [s \in own |-> NetAmount(s)]
<1>1. set \in SettingRows BY DEF BooksOK, SettingsTyped
<1>2. IsFiniteSet(own) /\ own \subseteq Sales /\ \A s \in own : Exists(s)
  BY SoldByFinite
<1>3. /\ counted \subseteq own /\ eligible \subseteq counted
      /\ IsFiniteSet(counted) /\ IsFiniteSet(eligible)
  <2>1. counted \in SUBSET own /\ eligible \in SUBSET counted OBVIOUS
  <2> HIDE DEF counted, eligible, own
  <2> QED BY <2>1, <1>2, FS_Subset
<1>4. \A s \in own : /\ amount[s] \in Nat /\ base[s] \in Nat /\ net[s] \in Nat
                     /\ s \notin eligible => amount[s] = 0
                     /\ set.base # "GROSS_SALES" => base[s] <= net[s]
                     /\ set.type = "PERCENTAGE" /\ set.base # "GROSS_SALES"
                           => amount[s] <= net[s]
  <2> TAKE s \in own
  <2> DEFINE c == CommissionForSale(s, set)
  <2>1. s \in Sales /\ Exists(s) BY <1>2
  <2>2. /\ c.amount \in Nat /\ c.base \in Nat
        /\ ~c.eligible => c.amount = 0
        /\ c.eligible => ~IsCanceled(s)
        /\ set.base # "GROSS_SALES" => c.base <= NetAmount(s)
        /\ set.base # "GROSS_SALES" /\ set.type = "PERCENTAGE" => c.amount <= NetAmount(s)
    <3>1. c = CommissionForSale(s, set) OBVIOUS
    <3> HIDE DEF set, c
    <3> QED BY <2>1, <3>1, <1>1, CommissionOfSale, Zenon
  <2>3. NetAmount(s) \in Nat BY <2>1, AmountsTyped
  <2>4. amount[s] = c.amount /\ base[s] = c.base /\ net[s] = NetAmount(s) OBVIOUS
  <2>5. s \notin eligible => c.amount = 0
    <3>1. c.eligible => s \in eligible BY <2>2
    <3> HIDE DEF c, eligible
    <3> QED BY <3>1, <2>2
  <2> HIDE DEF c, amount, base, net, eligible
  <2> QED BY <2>2, <2>3, <2>4, <2>5
<1>5. row.commission = SumOver(amount, eligible) /\ row.base = SumOver(base, eligible)
      /\ row.sold = SumOver(net, counted)
  <2> DEFINE A == [s \in eligible |-> CommissionForSale(s, set).amount]
             B == [s \in eligible |-> CommissionForSale(s, set).base]
             N == [s \in counted |-> NetAmount(s)]
  <2>1. row.commission = Sum(A) /\ row.base = Sum(B) /\ row.sold = Sum(N)
    BY DEF CommissionRow
  <2>2. /\ \A s \in eligible : A[s] = amount[s] /\ B[s] = base[s]
        /\ \A s \in counted : N[s] = net[s]
    OBVIOUS
  <2>3. A = [s \in eligible |-> A[s]] /\ B = [s \in eligible |-> B[s]]
      /\ N = [s \in counted |-> N[s]]
    OBVIOUS
  <2> HIDE DEF A, B, N, amount, base, net, eligible, counted, row
  <2> QED BY <2>1, <2>2, <2>3, SumIs
<1>6. DOMAIN detail = own
      /\ Sum([s \in DOMAIN detail |-> detail[s].amount]) = SumOver(amount, own)
  <2>1. detail = [s \in own |-> CommissionForSale(s, set)] BY DEF CommissionDetail
  <2>2. [s \in DOMAIN detail |-> detail[s].amount] = amount BY <2>1
  <2>3. amount = [s \in own |-> amount[s]] OBVIOUS
  <2> HIDE DEF amount, detail, own
  <2>4. Sum(amount) = SumOver(amount, own) BY <2>3, SumIs
  <2> QED BY <2>1, <2>2, <2>4
<1> DEFINE rest == own \ eligible
<1>7. own = eligible \cup rest /\ eligible \cap rest = {} /\ IsFiniteSet(rest)
  <2>1. rest \in SUBSET own OBVIOUS
  <2>2. IsFiniteSet(rest) BY <2>1, <1>2, FS_Subset
  <2> HIDE DEF own, eligible
  <2> QED BY <2>2, <1>3
<1> HIDE DEF set, own, detail, row, counted, eligible, amount, base, net
<1>8. SumOver(amount, own) = SumOver(amount, eligible) + SumOver(amount, rest)
  <2>1. \A s \in eligible \cup rest : amount[s] \in Int BY <1>4, <1>7
  <2> HIDE DEF rest
  <2> QED BY <2>1, <1>3, <1>7, SumOverUnion
<1>9. SumOver(amount, rest) = 0
  <2>1. \A s \in rest : amount[s] = 0 BY <1>4
  <2> HIDE DEF rest
  <2> QED BY <2>1, <1>7, SumOverZero
<1>10. SumOver(amount, eligible) \in Nat /\ SumOver(base, eligible) \in Nat
       /\ SumOver(net, eligible) \in Nat /\ SumOver(net, counted) \in Nat
       /\ SumOver(net, eligible) <= SumOver(net, counted)
  <2>1. \A s \in counted : amount[s] \in Nat /\ base[s] \in Nat /\ net[s] \in Nat
    BY <1>3, <1>4
  <2>2. \A s \in eligible : amount[s] \in Nat /\ base[s] \in Nat /\ net[s] \in Nat
    BY <1>3, <1>4
  <2>3. SumOver(net, eligible) <= SumOver(net, counted)
    <3>1. eligible \in SUBSET counted /\ \A s \in counted : net[s] \in Nat BY <1>3, <2>1
    <3> QED BY <3>1, <1>3, SumOverSubset
  <2>4. SumOver(amount, eligible) \in Nat /\ SumOver(base, eligible) \in Nat
    BY <2>2, <1>3, SumOverNat
  <2>5. SumOver(net, eligible) \in Nat /\ SumOver(net, counted) \in Nat
    BY <2>1, <2>2, <1>3, SumOverNat
  <2> QED BY <2>3, <2>4, <2>5
<1>11. Sum([s \in DOMAIN detail |-> detail[s].amount]) = row.commission
  BY <1>5, <1>6, <1>8, <1>9, <1>10
<1>12. \A s \in DOMAIN detail : GrossProfit(s) <= NetAmount(s)
  BY <1>2, <1>6, GrossProfitFits
<1>13. set.base # "GROSS_SALES" => row.base <= row.sold
  <2> SUFFICES ASSUME set.base # "GROSS_SALES" PROVE row.base <= row.sold OBVIOUS
  <2>1. \A s \in eligible : base[s] \in Int /\ net[s] \in Int /\ base[s] <= net[s]
    BY <1>3, <1>4
  <2>2. SumOver(base, eligible) <= SumOver(net, eligible) BY <1>3, <2>1, SumOverLeq
  <2> QED BY <2>2, <1>5, <1>10
<1>14. set.type = "PERCENTAGE" /\ set.base # "GROSS_SALES" => row.commission <= row.sold
  <2> SUFFICES ASSUME set.type = "PERCENTAGE", set.base # "GROSS_SALES"
               PROVE row.commission <= row.sold
    OBVIOUS
  <2>1. \A s \in eligible : amount[s] \in Int /\ net[s] \in Int /\ amount[s] <= net[s]
    BY <1>3, <1>4
  <2>2. SumOver(amount, eligible) <= SumOver(net, eligible) BY <1>3, <2>1, SumOverLeq
  <2> QED BY <2>2, <1>5, <1>10
<1> QED BY <1>11, <1>12, <1>13, <1>14 DEF set, row, detail

(***************************************************************************)
(* What customers owe.                                                     *)
(***************************************************************************)
\* By sale: what was paid, what is open of it, what is paid of it and what exceeds it.
TotalOf == [s \in Sales |-> Total(s)]
PaidOf == [s \in Sales |-> Paid({s})]
OpenOf == [s \in Sales |-> Larger(Total(s) - Paid({s}), 0)]
SettledOf == [s \in Sales |-> Smaller(Paid({s}), Total(s))]
ExcessOf == [s \in Sales |-> Larger(Paid({s}) - Total(s), 0)]
AmountPaid == [p \in Payments |-> payment[p].amount]
Credit(c) == {s \in FiadoSales : Customer(s) = c}
Debtors == {Customer(s) : s \in FiadoSales}

\* The sum of the elements of S, by the parts that have the same key.
LEMMA SumOverParts ==
    ASSUME NEW f, NEW S, NEW k, NEW K, NEW g, NEW part, IsFiniteSet(S), IsFiniteSet(K),
           \A x \in S : f[x] \in Int /\ k[x] \in K,
           \A y \in K : \A x : x \in part[y] <=> (x \in S /\ k[x] = y),
           \A y \in K : g[y] = SumOver(f, part[y])
    PROVE  SumOver(f, S) = SumOver(g, K)
<1>1. \A y \in K : part[y] = Having(S, k, y) BY DEF Having
<1>2. \A y \in K : g[y] = SumOver(f, Having(S, k, y)) BY <1>1
<1> QED BY <1>2, SumOverKeys

\* The ids of the rows are finitely many.
LEMMA RowsFinite ==
    /\ IsFiniteSet(Sales) /\ IsFiniteSet(Payments) /\ IsFiniteSet(Entries)
    /\ IsFiniteSet(Employees) /\ IsFiniteSet(Customers) /\ IsFiniteSet(Products)
    /\ IsFiniteSet(Sessions) /\ IsFiniteSet(Orders)
BY ReportsAssumption

\* Part of a finite set.
LEMMA SubsetFinite ==
    ASSUME NEW S, IsFiniteSet(S), NEW T, \A x \in T : x \in S
    PROVE  IsFiniteSet(T) /\ Cardinality(T) <= Cardinality(S)
           /\ Cardinality(T) \in Nat
<1>1. T \in SUBSET S OBVIOUS
<1>2. IsFiniteSet(T) /\ Cardinality(T) <= Cardinality(S) BY <1>1, FS_Subset
<1> QED BY <1>2, FS_CardinalityType

\* A set in two parts.
LEMMA PartsCounted ==
    ASSUME NEW S, IsFiniteSet(S), NEW A, NEW B, S = A \cup B, A \cap B = {}
    PROVE  /\ IsFiniteSet(A) /\ IsFiniteSet(B)
           /\ Cardinality(A) \in Nat /\ Cardinality(B) \in Nat
           /\ Cardinality(S) = Cardinality(A) + Cardinality(B)
<1>1. IsFiniteSet(A) /\ IsFiniteSet(B) BY SubsetFinite
<1>2. Cardinality(A) \in Nat /\ Cardinality(B) \in Nat BY <1>1, FS_CardinalityType
<1>3. Cardinality(S) = Cardinality(A) + Cardinality(B) - Cardinality(A \cap B)
  BY <1>1, FS_Union
<1>4. Cardinality(A \cap B) = 0 BY FS_EmptySet
<1> QED BY <1>1, <1>2, <1>3, <1>4

\* The sales that are active.
LEMMA ActiveTyped ==
    ASSUME BooksOK, NEW range
    PROVE  /\ IsFiniteSet(ActiveIn(range)) /\ IsFiniteSet(SoldIn(range))
           /\ ActiveIn(range) \subseteq SoldIn(range) /\ SoldIn(range) \subseteq Sales
           /\ \A s \in SoldIn(range) : /\ Exists(s) /\ Total(s) \in Nat
                                       /\ Customer(s) \in Customers \cup {Nothing}
                                       /\ sale[s].form.cost \in Nat
<1>1. ActiveIn(range) \subseteq SoldIn(range) /\ SoldIn(range) \subseteq Sales
      /\ \A s \in SoldIn(range) : Exists(s)
  BY DEF ActiveIn, SoldIn
<1>2. \A s \in SoldIn(range) : Total(s) \in Nat BY <1>1, AmountsTyped
<1>3. \A s \in SoldIn(range) : sale[s].form \in Forms BY <1>1, SaleTyped
<1>4. \A s \in SoldIn(range) : Customer(s) \in Customers \cup {Nothing}
                               /\ sale[s].form.cost \in Nat
  BY <1>3, FormTyped DEF Customer
<1>5. IsFiniteSet(SoldIn(range)) /\ IsFiniteSet(ActiveIn(range))
  BY <1>1, RowsFinite, SubsetFinite
<1> QED BY <1>1, <1>2, <1>4, <1>5

\* The payments for some sales.
LEMMA PaymentsTyped ==
    ASSUME BooksOK, NEW S
    PROVE  /\ IsFiniteSet(PaymentsOf(S)) /\ PaymentsOf(S) \subseteq Payments
           /\ \A p \in PaymentsOf(S) : /\ payment[p] # Nothing /\ payment[p].sale \in S
                                       /\ payment[p].sale \in Sales
                                       /\ AmountPaid[p] = payment[p].amount
                                       /\ AmountPaid[p] \in Nat
           /\ Paid(S) = SumOver(AmountPaid, PaymentsOf(S)) /\ Paid(S) \in Nat
<1>1. PaymentsOf(S) \subseteq Payments
      /\ \A p \in PaymentsOf(S) : payment[p] # Nothing /\ payment[p].sale \in S
  BY DEF PaymentsOf
<1>2. \A p \in PaymentsOf(S) : payment[p].sale \in Sales /\ payment[p].amount \in Amounts
  BY <1>1, PaymentTyped
<1>3. \A p \in PaymentsOf(S) : AmountPaid[p] = payment[p].amount /\ AmountPaid[p] \in Nat
  BY <1>1, <1>2, ReportsAssumption DEF AmountPaid
<1>4. IsFiniteSet(PaymentsOf(S)) BY <1>1, RowsFinite, SubsetFinite
<1>5. Paid(S) = SumOver(AmountPaid, PaymentsOf(S))
  <2> DEFINE g == [p \in PaymentsOf(S) |-> payment[p].amount]
  <2>1. Paid(S) = Sum(g) BY DEF Paid
  <2>2. g = [p \in PaymentsOf(S) |-> g[p]] /\ \A p \in PaymentsOf(S) : g[p] = AmountPaid[p]
    BY <1>3
  <2> HIDE DEF g
  <2> QED BY <2>1, <2>2, SumIs
<1>6. Paid(S) \in Nat BY <1>3, <1>4, <1>5, SumOverNat
<1> QED BY <1>1, <1>2, <1>3, <1>4, <1>5, <1>6

\* What was paid for sales is what was paid for each of them.
LEMMA PaidBySale ==
    ASSUME BooksOK, NEW S \in SUBSET Sales
    PROVE  Paid(S) = SumOver(PaidOf, S)
<1> DEFINE P == PaymentsOf(S)
           of == [p \in Payments |-> payment[p].sale]
<1>1. IsFiniteSet(S) BY RowsFinite, SubsetFinite
<1>2. IsFiniteSet(P) /\ \A p \in P : AmountPaid[p] \in Int /\ of[p] \in S
  BY PaymentsTyped
<1> DEFINE part == [s \in S |-> PaymentsOf({s})]
<1>3. /\ \A s \in S : \A p : p \in part[s] <=> (p \in P /\ of[p] = s)
      /\ \A s \in S : PaidOf[s] = SumOver(AmountPaid, part[s])
  <2>1. \A s \in S : \A p : p \in part[s] <=> (p \in P /\ of[p] = s) BY DEF PaymentsOf
  <2>2. \A s \in S : PaidOf[s] = Paid({s}) /\ part[s] = PaymentsOf({s}) BY DEF PaidOf
  <2>3. \A s \in S : Paid({s}) = SumOver(AmountPaid, PaymentsOf({s})) BY PaymentsTyped
  <2> HIDE DEF P, of, part
  <2> QED BY <2>1, <2>2, <2>3
<1>4. Paid(S) = SumOver(AmountPaid, P) BY PaymentsTyped
<1> HIDE DEF P, of, part
<1> QED BY <1>1, <1>2, <1>3, <1>4, SumOverParts, SMTT(30)

\* By sale the amounts are numbers, and what is open and settled add up to the total.
LEMMA OpenBySale ==
    ASSUME BooksOK, NEW s \in Sales, Exists(s)
    PROVE  /\ TotalOf[s] = Total(s) /\ TotalOf[s] \in Nat /\ PaidOf[s] \in Nat
           /\ OpenOf[s] = Larger(Total(s) - Paid({s}), 0)
           /\ SettledOf[s] = Smaller(Paid({s}), Total(s))
           /\ ExcessOf[s] = Larger(Paid({s}) - Total(s), 0)
           /\ OpenOf[s] \in Nat /\ SettledOf[s] \in Nat /\ ExcessOf[s] \in Nat
           /\ SettledOf[s] <= PaidOf[s]
           /\ OpenOf[s] = TotalOf[s] - PaidOf[s] + ExcessOf[s]
<1>1. Total(s) \in Nat BY AmountsTyped
<1>2. Paid({s}) \in Nat BY PaymentsTyped
<1>3. /\ TotalOf[s] = Total(s) /\ PaidOf[s] = Paid({s})
      /\ OpenOf[s] = Larger(Total(s) - Paid({s}), 0)
      /\ SettledOf[s] = Smaller(Paid({s}), Total(s))
      /\ ExcessOf[s] = Larger(Paid({s}) - Total(s), 0)
  BY DEF TotalOf, PaidOf, OpenOf, SettledOf, ExcessOf
<1> QED BY <1>1, <1>2, <1>3 DEF Larger, Smaller

\* The sales on credit, of all customers and of one.
LEMMA CreditTyped ==
    ASSUME BooksOK, NEW c
    PROVE  /\ IsFiniteSet(Credit(c)) /\ Credit(c) \subseteq FiadoSales
           /\ FiadoSales \subseteq ActiveIn(Days) /\ FiadoSales \subseteq Sales
           /\ IsFiniteSet(FiadoSales)
           /\ \A s \in FiadoSales : Exists(s)
           /\ c \in Debtors <=> Credit(c) # {}
           /\ Debtors \subseteq Customers \cup {Nothing} /\ IsFiniteSet(Debtors)
<1>1. /\ Credit(c) \subseteq FiadoSales /\ FiadoSales \subseteq ActiveIn(Days)
      /\ c \in Debtors <=> Credit(c) # {}
  BY DEF Credit, FiadoSales, Debtors
<1>2. /\ ActiveIn(Days) \subseteq SoldIn(Days) /\ SoldIn(Days) \subseteq Sales
      /\ \A s \in SoldIn(Days) : Exists(s) /\ Customer(s) \in Customers \cup {Nothing}
      /\ IsFiniteSet(ActiveIn(Days))
  BY ActiveTyped
<1>3. Debtors \subseteq Customers \cup {Nothing} BY <1>1, <1>2 DEF Debtors
<1>4. IsFiniteSet(Customers \cup {Nothing}) BY RowsFinite, FS_Singleton, FS_Union
<1>5. IsFiniteSet(Debtors) BY <1>3, <1>4, SubsetFinite
<1>6. IsFiniteSet(FiadoSales) BY <1>1, <1>2, SubsetFinite
<1>7. IsFiniteSet(Credit(c)) BY <1>1, <1>6, SubsetFinite
<1> QED BY <1>1, <1>2, <1>3, <1>5, <1>6, <1>7

\* The receivables of a customer, as sums over the sales on credit.
LEMMA ItemsAreSums ==
    ASSUME BooksOK
    PROVE  /\ DOMAIN BuildReceivableItems = Debtors
           /\ \A c \in Debtors :
                 /\ BuildReceivableItems[c].open = SumOver(OpenOf, Credit(c))
                 /\ BuildReceivableItems[c].paid = SumOver(SettledOf, Credit(c))
                 /\ BuildReceivableItems[c].open \in Nat
<1>1. DOMAIN BuildReceivableItems = Debtors BY DEF BuildReceivableItems, Debtors
<1>2. ASSUME NEW c \in Debtors
      PROVE  /\ BuildReceivableItems[c].open = SumOver(OpenOf, Credit(c))
             /\ BuildReceivableItems[c].paid = SumOver(SettledOf, Credit(c))
             /\ BuildReceivableItems[c].open \in Nat
  <2> DEFINE g == [s \in Credit(c) |-> Larger(Total(s) - Paid({s}), 0)]
             h == [s \in Credit(c) |-> Smaller(Paid({s}), Total(s))]
  <2>1. BuildReceivableItems[c].open = Sum(g) /\ BuildReceivableItems[c].paid = Sum(h)
    BY <1>2 DEF BuildReceivableItems, Debtors, Credit
  <2>2. IsFiniteSet(Credit(c)) /\ \A s \in Credit(c) : s \in Sales /\ Exists(s)
    BY CreditTyped
  <2>3. \A s \in Credit(c) : g[s] = OpenOf[s] /\ h[s] = SettledOf[s] /\ OpenOf[s] \in Nat
    BY <2>2, OpenBySale
  <2>4. g = [s \in Credit(c) |-> g[s]] /\ h = [s \in Credit(c) |-> h[s]] OBVIOUS
  <2> HIDE DEF g, h
  <2>5. Sum(g) = SumOver(OpenOf, Credit(c)) /\ Sum(h) = SumOver(SettledOf, Credit(c))
    BY <2>3, <2>4, SumIs
  <2>6. SumOver(OpenOf, Credit(c)) \in Nat BY <2>2, <2>3, SumOverNat
  <2> QED BY <2>1, <2>5, <2>6
<1> QED BY <1>1, <1>2

\* What is open by sale is what is open in all, and what exceeds some of the sales.
LEMMA OpenAndExcess ==
    ASSUME BooksOK, NEW c
    PROVE  /\ SumOver(TotalOf, Credit(c)) \in Nat /\ SumOver(PaidOf, Credit(c)) \in Nat
           /\ SumOver(OpenOf, Credit(c)) \in Nat /\ SumOver(ExcessOf, Credit(c)) \in Nat
           /\ SumOver(SettledOf, Credit(c)) \in Nat
           /\ SumOver(SettledOf, Credit(c)) <= SumOver(PaidOf, Credit(c))
           /\ SumOver(OpenOf, Credit(c)) + SumOver(PaidOf, Credit(c))
                 = SumOver(TotalOf, Credit(c)) + SumOver(ExcessOf, Credit(c))
<1> DEFINE C == Credit(c)
           h == [s \in C |-> OpenOf[s] + PaidOf[s]]
<1>1. IsFiniteSet(C) /\ \A s \in C : s \in Sales /\ Exists(s) BY CreditTyped
<1>2. \A s \in C : /\ TotalOf[s] \in Nat /\ PaidOf[s] \in Nat /\ OpenOf[s] \in Nat
                   /\ ExcessOf[s] \in Nat /\ SettledOf[s] \in Nat /\ SettledOf[s] <= PaidOf[s]
                   /\ OpenOf[s] = TotalOf[s] - PaidOf[s] + ExcessOf[s]
  BY <1>1, OpenBySale
<1>3. \A s \in C : h[s] = OpenOf[s] + PaidOf[s] OBVIOUS
<1> HIDE DEF C, h
<1>4. \A s \in C : h[s] = TotalOf[s] + ExcessOf[s] BY <1>2, <1>3
<1>5. SumOver(h, C) = SumOver(OpenOf, C) + SumOver(PaidOf, C)
  BY <1>1, <1>2, <1>3, SumOverPlus
<1>6. SumOver(h, C) = SumOver(TotalOf, C) + SumOver(ExcessOf, C)
  BY <1>1, <1>2, <1>4, SumOverPlus
<1>7. /\ SumOver(TotalOf, C) \in Nat /\ SumOver(PaidOf, C) \in Nat
      /\ SumOver(OpenOf, C) \in Nat
  BY <1>1, <1>2, SumOverNat
<1>8. SumOver(ExcessOf, C) \in Nat /\ SumOver(SettledOf, C) \in Nat
  BY <1>1, <1>2, SumOverNat
<1>9. SumOver(SettledOf, C) <= SumOver(PaidOf, C)
  BY <1>1, <1>2, SumOverLeq
<1> QED BY <1>5, <1>6, <1>7, <1>8, <1>9 DEF C

\* The card of a customer takes what was paid off the total of what was bought on credit.
LEMMA CardIsSums ==
    ASSUME BooksOK, NEW c \in Customers
    PROVE  /\ LoadCustomerCards[c] = BuildCustomerSummary(c)
           /\ BuildCustomerSummary(c).open
                 = Larger(SumOver(TotalOf, Credit(c)) - SumOver(PaidOf, Credit(c)), 0)
<1> DEFINE own == {s \in ActiveIn(Days) : Customer(s) = c}
           fiado == own \cap FiadoSales
           g == [s \in fiado |-> Total(s)]
<1>1. LoadCustomerCards[c] = BuildCustomerSummary(c) BY DEF LoadCustomerCards
<1>2. fiado = Credit(c) BY DEF Credit, FiadoSales
<1>3. BuildCustomerSummary(c).open = Larger(Sum(g) - Paid(fiado), 0)
  BY DEF BuildCustomerSummary
<1>4. g = [s \in fiado |-> g[s]] OBVIOUS
<1>5. \A s \in Credit(c) : s \in Sales BY CreditTyped
<1>6. \A s \in fiado : g[s] = TotalOf[s] BY <1>2, <1>5 DEF TotalOf
<1> HIDE DEF g, fiado
<1>7. Sum(g) = SumOver(TotalOf, fiado) BY <1>4, <1>6, SumIs
<1>8. Credit(c) \in SUBSET Sales BY <1>5
<1>9. Paid(fiado) = SumOver(PaidOf, Credit(c)) BY <1>2, <1>8, PaidBySale
<1> QED BY <1>1, <1>2, <1>3, <1>7, <1>9

\* What a customer owes by the page is the sum over the sales, whether or not there are some.
LEMMA OwedIsSum ==
    ASSUME BooksOK, NEW c \in Customers
    PROVE  GetCrmCustomerDetail(c).receivables.open = SumOver(OpenOf, Credit(c))
<1> DEFINE items == BuildReceivableItems
           only == [x \in DOMAIN items \cap {c} |-> items[x]]
           g == [x \in DOMAIN only |-> only[x].open]
<1>1. GetCrmCustomerDetail(c).receivables.open = Sum(g)
  BY DEF GetCrmCustomerDetail, SummarizeReceivableItems
<1>2. DOMAIN items = Debtors BY ItemsAreSums
<1>3. CASE c \in Debtors
  <2>1. DOMAIN only = {c} /\ only[c] = items[c] BY <1>2, <1>3
  <2>2. items[c].open = SumOver(OpenOf, Credit(c)) /\ items[c].open \in Nat
    BY <1>3, ItemsAreSums
  <2>3. g = [x \in {c} |-> g[x]] /\ g[c] = items[c].open BY <2>1
  <2>4. g[c] \in Int BY <2>2, <2>3
  <2> HIDE DEF g, items
  <2>5. Sum(g) = SumOver(g, {c}) BY <2>3, SumIs
  <2>6. SumOver(g, {c}) = g[c] BY <2>4, SumOverSingle
  <2> QED BY <1>1, <2>2, <2>3, <2>5, <2>6
<1>4. CASE c \notin Debtors
  <2>1. DOMAIN only = {} BY <1>2, <1>4
  <2>2. g = [x \in {} |-> g[x]] BY <2>1
  <2> HIDE DEF g, items
  <2>3. Sum(g) = SumOver(g, {}) BY <2>2, SumIs
  <2>4. SumOver(g, {}) = 0 BY SumNone
  <2>5. Credit(c) = {} BY <1>4, CreditTyped
  <2>6. SumOver(OpenOf, Credit(c)) = 0 BY <2>5, SumNone
  <2> QED BY <1>1, <2>3, <2>4, <2>6
<1> QED BY <1>3, <1>4

\* What a debtor owes.
OpenBy == [c \in Debtors |-> SumOver(OpenOf, Credit(c))]

\* What is owed in all is what each debtor owes.
LEMMA AllOwed ==
    ASSUME BooksOK
    PROVE  /\ BuildReceivablesSummary.open = SumOver(OpenBy, Debtors)
           /\ \A c \in Debtors : OpenBy[c] = BuildReceivableItems[c].open /\ OpenBy[c] \in Nat
<1> DEFINE items == BuildReceivableItems
           g == [c \in DOMAIN items |-> items[c].open]
<1>1. BuildReceivablesSummary.open = Sum(g)
  BY DEF BuildReceivablesSummary, SummarizeReceivableItems
<1>2. DOMAIN items = Debtors /\ \A c \in Debtors : OpenBy[c] = items[c].open /\ OpenBy[c] \in Nat
  BY ItemsAreSums DEF OpenBy
<1>3. g = [c \in Debtors |-> g[c]] /\ \A c \in Debtors : g[c] = OpenBy[c] BY <1>2
<1> HIDE DEF g
<1>4. Sum(g) = SumOver(OpenBy, Debtors) BY <1>3, SumIs
<1> QED BY <1>1, <1>2, <1>4

\* A card shows no more than is owed in detail, and what it leaves out is what was paid in
\* excess of a sale.
LEMMA CardAgrees ==
    ASSUME BooksOK, NEW c \in Customers
    PROVE  LET card == LoadCustomerCards[c]
               owed == GetCrmCustomerDetail(c).receivables.open
               excess == Sum([s \in {s \in FiadoSales : Customer(s) = c} |->
                                 Larger(Paid({s}) - Total(s), 0)])
           IN /\ card.open <= owed /\ owed <= card.open + excess
              /\ owed <= BuildReceivablesSummary.open
              /\ card.open \in Nat
              /\ card.open > 0 => c \in Debtors /\ OpenBy[c] > 0
<1> DEFINE card == LoadCustomerCards[c]
           owed == GetCrmCustomerDetail(c).receivables.open
           g == [s \in {s \in FiadoSales : Customer(s) = c} |-> Larger(Paid({s}) - Total(s), 0)]
           O == SumOver(OpenOf, Credit(c))
           T == SumOver(TotalOf, Credit(c))
           P == SumOver(PaidOf, Credit(c))
           X == SumOver(ExcessOf, Credit(c))
<1>1. T \in Nat /\ P \in Nat /\ O \in Nat /\ X \in Nat /\ O + P = T + X BY OpenAndExcess
<1>2. card.open = Larger(T - P, 0) BY CardIsSums
<1>3. owed = O BY OwedIsSum
<1>4. Sum(g) = X
  <2>1. g = [s \in Credit(c) |-> g[s]] BY DEF Credit
  <2>2. \A s \in Credit(c) : s \in Sales BY CreditTyped
  <2>3. \A s \in Credit(c) : g[s] = ExcessOf[s] BY <2>2 DEF Credit, ExcessOf
  <2> HIDE DEF g
  <2> QED BY <2>1, <2>3, SumIs
<1>5. c \notin Debtors => O = 0 BY CreditTyped, SumNone
<1>6. c \in Debtors => OpenBy[c] = O BY DEF OpenBy
<1>7. O <= BuildReceivablesSummary.open
  <2>1. /\ BuildReceivablesSummary.open = SumOver(OpenBy, Debtors) /\ IsFiniteSet(Debtors)
        /\ \A d \in Debtors : OpenBy[d] \in Nat
    BY AllOwed, CreditTyped
  <2>2. CASE c \in Debtors
    <3>1. {c} \in SUBSET Debtors /\ OpenBy[c] \in Nat BY <2>1, <2>2
    <3>2. SumOver(OpenBy, {c}) <= SumOver(OpenBy, Debtors)
      BY <2>1, <3>1, SumOverSubset
    <3>3. SumOver(OpenBy, {c}) = OpenBy[c] BY <3>1, SumOverSingle
    <3> QED BY <2>1, <2>2, <3>2, <3>3, <1>6
  <2>3. SumOver(OpenBy, Debtors) \in Nat BY <2>1, SumOverNat
  <2> QED BY <2>1, <2>2, <2>3, <1>5
<1> HIDE DEF card, owed, g, O, T, P, X
<1>8. /\ card.open <= owed /\ owed <= card.open + X /\ card.open \in Nat
      /\ card.open > 0 => O > 0
  BY <1>1, <1>2, <1>3 DEF Larger
<1>9. card.open > 0 => c \in Debtors /\ OpenBy[c] > 0 BY <1>5, <1>6, <1>8
<1> QED BY <1>3, <1>4, <1>7, <1>8, <1>9 DEF card, owed, g

-----------------------------------------------------------------------------
(* Lines of sales.                                                         *)

\* A set of values of a function is finite with its arguments.
LEMMA ImageFinite ==
    ASSUME NEW S, IsFiniteSet(S), NEW f, NEW T, \A y \in T : \E x \in S : f[x] = y
    PROVE  IsFiniteSet(T)
<1>1. CASE T = {} BY <1>1, FS_EmptySet
<1>2. CASE T # {}
  <2>1. PICK t : t \in T BY <1>2
  <2> DEFINE g == [x \in S |-> IF f[x] \in T THEN f[x] ELSE t]
  <2>2. g \in Surjection(S, T) BY <2>1 DEF Surjection
  <2> QED BY <2>2, FS_Surjection
<1> QED BY <1>1, <1>2

\* What a line says.
LinePrice == [l \in LinesIn(Days) |-> Lines(l[1])[l[2]].price]
LineQuantity == [l \in LinesIn(Days) |-> Lines(l[1])[l[2]].quantity]
LineProduct == [l \in LinesIn(Days) |-> Lines(l[1])[l[2]].product]

\* The lines of the sales of a range.
LEMMA LinesTyped ==
    ASSUME BooksOK, NEW range \in SUBSET Days
    PROVE  /\ IsFiniteSet(LinesIn(range)) /\ LinesIn(range) \subseteq LinesIn(Days)
           /\ \A l \in LinesIn(range) :
                 /\ l[1] \in ActiveIn(range) /\ l[2] \in DOMAIN Lines(l[1]) /\ l = <<l[1], l[2]>>
                 /\ LinePrice[l] = Lines(l[1])[l[2]].price /\ LinePrice[l] \in Nat
                 /\ LineQuantity[l] = Lines(l[1])[l[2]].quantity /\ LineQuantity[l] \in Nat
                 /\ LineProduct[l] = Lines(l[1])[l[2]].product /\ LineProduct[l] \in Products
<1>1. \A l \in LinesIn(range) :
         l[1] \in ActiveIn(range) /\ l[2] \in DOMAIN Lines(l[1]) /\ l = <<l[1], l[2]>>
  BY DEF LinesIn
<1>2. LinesIn(range) \subseteq LinesIn(Days)
  <2>1. ActiveIn(range) \subseteq ActiveIn(Days) BY DEF ActiveIn, SoldIn
  <2> QED BY <2>1 DEF LinesIn
<1>3. \A l \in LinesIn(range) : Lines(l[1])[l[2]] \in Items
  <2> TAKE l \in LinesIn(range)
  <2>1. l[1] \in ActiveIn(range) /\ l[2] \in DOMAIN Lines(l[1]) BY <1>1
  <2>2. l[1] \in Sales /\ Exists(l[1]) BY <2>1, ActiveTyped
  <2> QED BY <2>1, <2>2, AmountsTyped
<1>4. \A l \in LinesIn(range) :
         /\ LinePrice[l] = Lines(l[1])[l[2]].price /\ LinePrice[l] \in Nat
         /\ LineQuantity[l] = Lines(l[1])[l[2]].quantity /\ LineQuantity[l] \in Nat
         /\ LineProduct[l] = Lines(l[1])[l[2]].product /\ LineProduct[l] \in Products
  BY <1>2, <1>3 DEF LinePrice, LineQuantity, LineProduct, Items
<1>5. IsFiniteSet(LinesIn(range))
  <2> DEFINE of == [s \in ActiveIn(range) |-> {<<s, i>> : i \in DOMAIN Lines(s)}]
             parts == {of[s] : s \in ActiveIn(range)}
  <2>1. LinesIn(range) = UNION parts BY DEF LinesIn
  <2>2. IsFiniteSet(parts)
    <3>1. IsFiniteSet(ActiveIn(range)) BY ActiveTyped
    <3>2. \A y \in parts : \E s \in ActiveIn(range) : of[s] = y OBVIOUS
    <3> HIDE DEF of, parts
    <3> QED BY <3>1, <3>2, ImageFinite
  <2>3. \A p \in parts : IsFiniteSet(p)
    <3>1. SUFFICES ASSUME NEW s \in ActiveIn(range) PROVE IsFiniteSet(of[s]) OBVIOUS
    <3>2. IsFiniteSet(DOMAIN Lines(s)) BY ActiveTyped, AmountsTyped
    <3> DEFINE pair == [i \in DOMAIN Lines(s) |-> <<s, i>>]
    <3>3. \A y \in of[s] : \E i \in DOMAIN Lines(s) : pair[i] = y OBVIOUS
    <3> HIDE DEF of, pair
    <3> QED BY <3>2, <3>3, ImageFinite
  <2> HIDE DEF parts
  <2> QED BY <2>1, <2>2, <2>3, FS_UNION
<1> QED BY <1>1, <1>2, <1>4, <1>5

\* What a group of lines amounts to.
LEMMA GroupIsSums ==
    ASSUME BooksOK, NEW L \in SUBSET LinesIn(Days)
    PROVE  /\ GroupLines(L).count = Cardinality(L) /\ IsFiniteSet(L)
           /\ GroupLines(L).quantity = SumOver(LineQuantity, L)
           /\ GroupLines(L).amount = SumOver(LinePrice, L)
           /\ GroupLines(L).count \in Nat /\ GroupLines(L).amount \in Nat
           /\ GroupLines(L).quantity \in Nat
<1> DEFINE q == [l \in L |-> Lines(l[1])[l[2]].quantity]
           a == [l \in L |-> Lines(l[1])[l[2]].price]
<1>1. /\ GroupLines(L).count = Cardinality(L) /\ GroupLines(L).quantity = Sum(q)
      /\ GroupLines(L).amount = Sum(a)
  BY DEF GroupLines
<1>2. IsFiniteSet(LinesIn(Days))
      /\ \A l \in L : /\ LinePrice[l] \in Nat /\ LineQuantity[l] \in Nat
                      /\ LinePrice[l] = Lines(l[1])[l[2]].price
                      /\ LineQuantity[l] = Lines(l[1])[l[2]].quantity
  BY LinesTyped
<1>3. IsFiniteSet(L) /\ Cardinality(L) \in Nat BY <1>2, SubsetFinite
<1>4. /\ q = [l \in L |-> q[l]] /\ a = [l \in L |-> a[l]]
      /\ \A l \in L : q[l] = LineQuantity[l] /\ a[l] = LinePrice[l]
  BY <1>2
<1> HIDE DEF q, a
<1>5. Sum(q) = SumOver(LineQuantity, L) /\ Sum(a) = SumOver(LinePrice, L) BY <1>4, SumIs
<1>6. SumOver(LineQuantity, L) \in Nat /\ SumOver(LinePrice, L) \in Nat
  BY <1>2, <1>3, SumOverNat
<1> QED BY <1>1, <1>3, <1>5, <1>6

\* What a customer bought of a product is part of what was sold of it.
LEMMA ProductsAgree ==
    ASSUME BooksOK, NEW c \in Customers, NEW p \in DOMAIN GetCrmCustomerDetail(c).products
    PROVE  GetCrmCustomerDetail(c).products[p].amount <= TopSellingProducts(Days)[p].amount
<1> DEFINE mine == {l \in LinesIn(Days) : Customer(l[1]) = c}
           own == {l \in mine : Lines(l[1])[l[2]].product = p}
           all == LinesOf(Days, {p})
<1>1. GetCrmCustomerDetail(c).products = AggregateSaleItemsByProduct(mine)
  BY DEF GetCrmCustomerDetail
<1>2. /\ p \in {Lines(l[1])[l[2]].product : l \in mine}
      /\ GetCrmCustomerDetail(c).products[p] = GroupLines(own)
  BY <1>1 DEF AggregateSaleItemsByProduct
<1>3. TopSellingProducts(Days)[p] = GroupLines(all)
  BY <1>2 DEF TopSellingProducts
<1>4. own \in SUBSET all /\ all \in SUBSET LinesIn(Days) /\ own \in SUBSET LinesIn(Days)
  BY DEF LinesOf
<1> HIDE DEF own, all
<1>5. /\ GroupLines(own).amount = SumOver(LinePrice, own)
      /\ GroupLines(all).amount = SumOver(LinePrice, all) /\ IsFiniteSet(all)
  BY <1>4, GroupIsSums
<1>6. \A l \in all : LinePrice[l] \in Nat BY <1>4, LinesTyped
<1>7. SumOver(LinePrice, own) <= SumOver(LinePrice, all) BY <1>4, <1>5, <1>6, SumOverSubset
<1> QED BY <1>2, <1>3, <1>5, <1>7

-----------------------------------------------------------------------------
(* A customer's page and timeline.                                         *)

SalesTo(c) == {s \in ActiveIn(Days) : Customer(s) = c}

\* The page shows what is counted and what was given back whole.
LEMMA ShownAgree ==
    ASSUME BooksOK, NEW c \in Customers
    PROVE  LET purchases == GetCrmCustomerDetail(c).purchases
               shown == {s \in DOMAIN purchases : purchases[s] = "active"}
           IN Cardinality(shown) = LoadCustomerCards[c].count
                 + Cardinality({s \in shown : sale[s].status = "refunded"})
<1> DEFINE purchases == GetCrmCustomerDetail(c).purchases
           shown == {s \in DOMAIN purchases : purchases[s] = "active"}
           back == {s \in shown : sale[s].status = "refunded"}
           own == SalesTo(c)
<1>1. /\ DOMAIN purchases = {s \in SoldIn(Days) : Customer(s) = c}
      /\ \A s \in DOMAIN purchases : purchases[s] = IF sale[s].status = "canceled" THEN "canceled"
                                                    ELSE "active"
  BY DEF GetCrmCustomerDetail
<1>2. shown = {s \in SoldIn(Days) : Customer(s) = c /\ sale[s].status # "canceled"}
  <2> HIDE DEF purchases
  <2> QED BY <1>1
<1>3. shown = own \cup back /\ own \cap back = {}
  <2>1. \A s \in SoldIn(Days) : sale[s].status \in {"active", "refunded", "canceled"}
    <3> TAKE s \in SoldIn(Days)
    <3>1. s \in Sales /\ Exists(s) BY ActiveTyped
    <3> QED BY <3>1, SaleTyped DEF Exists
  <2> QED BY <1>2, <2>1 DEF SalesTo, ActiveIn
<1>4. IsFiniteSet(shown)
  <2>1. IsFiniteSet(SoldIn(Days)) BY ActiveTyped
  <2> QED BY <1>2, <2>1, SubsetFinite
<1>5. LoadCustomerCards[c].count = Cardinality(own)
  BY DEF LoadCustomerCards, BuildCustomerSummary, SalesTo
<1> HIDE DEF shown, own, back, purchases
<1>6. Cardinality(shown) = Cardinality(own) + Cardinality(back) BY <1>3, <1>4, PartsCounted
<1> QED BY <1>5, <1>6 DEF shown, back, purchases

\* The card and the commercial context count the same.
LEMMA ContextAgrees ==
    ASSUME BooksOK, NEW c \in Customers
    PROVE  /\ LoadCustomerCards[c].count = ListCustomersWithCommercialContext[c].count
           /\ LoadCustomerCards[c].purchased = ListCustomersWithCommercialContext[c].revenue
           /\ LoadCustomerCards[c].count = Cardinality(SalesTo(c))
           /\ ListCustomersWithCommercialContext[c].revenue = SumOver(TotalOf, SalesTo(c))
           /\ ListCustomersWithCommercialContext[c].paid
                 = SumOver(AmountPaid, PaymentsOf({s \in SoldIn(Days) : Customer(s) = c}))
<1> DEFINE g == [s \in SalesTo(c) |-> Total(s)]
<1>1. /\ LoadCustomerCards[c].count = Cardinality(SalesTo(c))
      /\ LoadCustomerCards[c].purchased = Sum(g)
  BY DEF LoadCustomerCards, BuildCustomerSummary, SalesTo
<1>2. /\ ListCustomersWithCommercialContext[c].count = Cardinality(SalesTo(c))
      /\ ListCustomersWithCommercialContext[c].revenue = Sum(g)
      /\ ListCustomersWithCommercialContext[c].paid = Paid({s \in SoldIn(Days) : Customer(s) = c})
  BY DEF ListCustomersWithCommercialContext, BuildCommercialContext, SalesTo
<1>3. g = [s \in SalesTo(c) |-> g[s]] OBVIOUS
<1>4. \A s \in SalesTo(c) : g[s] = TotalOf[s]
  BY ActiveTyped DEF SalesTo, TotalOf
<1> HIDE DEF g
<1>5. Sum(g) = SumOver(TotalOf, SalesTo(c)) BY <1>3, <1>4, SumIs
<1> QED BY <1>1, <1>2, <1>5, PaymentsTyped

\* The timeline has every sale that is counted and every payment, once.
LEMMA TimelineAgrees ==
    ASSUME BooksOK, NEW c \in Customers
    PROVE  Sum([i \in GetCustomerTimeline(c) |-> i.amount])
             = ListCustomersWithCommercialContext[c].revenue
                 + ListCustomersWithCommercialContext[c].paid
<1> DEFINE own == SalesTo(c)
           P == PaymentsOf({s \in SoldIn(Days) : Customer(s) = c})
           sold == [s \in own |-> [kind |-> "sale_recorded", id |-> s, amount |-> Total(s)]]
           paid == [p \in P |-> [kind |-> "fiado_payment_received", id |-> p,
                                 amount |-> payment[p].amount]]
           A == {sold[s] : s \in own}
           B == {paid[p] : p \in P}
           f == [i \in GetCustomerTimeline(c) |-> i.amount]
<1>1. GetCustomerTimeline(c) = A \cup B BY DEF GetCustomerTimeline, SalesTo
<1>2. A \cap B = {}
  <2>1. \A i \in A : i.kind = "sale_recorded" OBVIOUS
  <2>2. \A i \in B : i.kind = "fiado_payment_received"
    <3> SUFFICES ASSUME NEW p \in P PROVE paid[p].kind = "fiado_payment_received" OBVIOUS
    <3> HIDE DEF P
    <3> QED OBVIOUS
  <2> HIDE DEF A, B
  <2>3. "sale_recorded" # "fiado_payment_received" OBVIOUS
  <2> QED BY <2>1, <2>2, <2>3
<1>3. IsFiniteSet(own) /\ \A s \in own : TotalOf[s] = Total(s) /\ TotalOf[s] \in Nat
  <2>1. own \subseteq ActiveIn(Days) BY DEF SalesTo
  <2>2. IsFiniteSet(ActiveIn(Days)) /\ \A s \in own : s \in Sales /\ Total(s) \in Nat
    BY <2>1, ActiveTyped
  <2>3. IsFiniteSet(own) BY <2>1, <2>2, SubsetFinite
  <2> QED BY <2>2, <2>3 DEF TotalOf
<1>4. IsFiniteSet(P) /\ \A p \in P : AmountPaid[p] = payment[p].amount /\ AmountPaid[p] \in Nat
  BY PaymentsTyped
<1>5. /\ \A s \in own : sold[s] \in A /\ sold[s].amount = TotalOf[s] /\ sold[s].id = s
      /\ \A i \in A : \E s \in own : sold[s] = i
  BY <1>3
<1>6. /\ \A p \in P : paid[p] \in B /\ paid[p].amount = AmountPaid[p] /\ paid[p].id = p
      /\ \A i \in B : \E p \in P : paid[p] = i
  BY <1>4
<1>7. \A i \in A \cup B : f[i] = i.amount BY <1>1
<1> HIDE DEF own, P, sold, paid, A, B
<1>8. f = [i \in A \cup B |-> f[i]] BY <1>1
<1> HIDE DEF f
<1>9. IsFiniteSet(A) /\ IsFiniteSet(B) BY <1>3, <1>4, <1>5, <1>6, ImageFinite
<1>10. (\A i \in A : f[i] \in Int) /\ (\A i \in B : f[i] \in Int)
  BY <1>3, <1>4, <1>5, <1>6, <1>7
<1>11. SumOver(TotalOf, own) = SumOver(f, A)
  <2>1. \A s \in own : sold[s] \in A /\ TotalOf[s] = f[sold[s]] BY <1>5, <1>7
  <2>2. \A s, t \in own : sold[s] = sold[t] => s = t BY <1>5
  <2> QED BY <1>3, <1>5, <1>9, <1>10, <2>1, <2>2, SumOverRenamed
<1>12. SumOver(AmountPaid, P) = SumOver(f, B)
  <2>1. \A p \in P : paid[p] \in B /\ AmountPaid[p] = f[paid[p]] BY <1>6, <1>7
  <2>2. \A p, q \in P : paid[p] = paid[q] => p = q BY <1>6
  <2> QED BY <1>4, <1>6, <1>9, <1>10, <2>1, <2>2, SumOverRenamed
<1>13. SumOver(f, A \cup B) = SumOver(f, A) + SumOver(f, B)
  BY <1>2, <1>9, <1>10, SumOverUnion
<1>14. Sum(f) = SumOver(f, A \cup B)
  <2> QED BY <1>8, SumIs
<1>15. /\ ListCustomersWithCommercialContext[c].revenue = SumOver(TotalOf, own)
       /\ ListCustomersWithCommercialContext[c].paid = SumOver(AmountPaid, P)
  BY ContextAgrees DEF own, P
<1> QED BY <1>11, <1>12, <1>13, <1>14, <1>15 DEF f

-----------------------------------------------------------------------------
(* The lists of those who owe.                                             *)

\* Those who owe are the debtors of the open list, and a debtor is active.
LEMMA ListsAgree ==
    ASSUME BooksOK
    PROVE  LET items == BuildReceivableItems
               open == ListReceivables("open")
           IN /\ ListCrmCustomers("with_receivables") \subseteq open.items
              /\ open.items \ {Nothing} \subseteq ListCrmCustomers("active")
              /\ open.summary.openCount = Cardinality(open.items)
              /\ open.summary.paidCount = Cardinality(ListReceivables("paid").items)
              /\ Cardinality(GetCrmSummary.owing) <= BuildReceivablesSummary.openCount
<1> DEFINE items == BuildReceivableItems
           owing == {c \in Debtors : OpenBy[c] > 0}
           settled == {c \in Debtors : OpenBy[c] = 0}
<1>1. /\ DOMAIN items = Debtors /\ Debtors \subseteq Customers \cup {Nothing}
      /\ IsFiniteSet(Debtors)
      /\ \A c \in Debtors : items[c].open = OpenBy[c] /\ OpenBy[c] \in Nat
  BY ItemsAreSums, CreditTyped, AllOwed
<1>2. ListReceivables("open").items = owing /\ ListReceivables("paid").items = settled
  BY <1>1 DEF ListReceivables
<1>3. /\ ListReceivables("open").summary.openCount = Cardinality(owing)
      /\ ListReceivables("open").summary.paidCount = Cardinality(settled)
      /\ BuildReceivablesSummary.openCount = Cardinality(owing)
  <2>1. {c \in DOMAIN items : items[c].open > 0} = owing
        /\ {c \in DOMAIN items : items[c].open = 0} = settled
    BY <1>1
  <2>2. /\ ListReceivables("open").summary = SummarizeReceivableItems(items)
        /\ BuildReceivablesSummary = SummarizeReceivableItems(items)
    BY DEF ListReceivables, BuildReceivablesSummary
  <2>3. /\ SummarizeReceivableItems(items).openCount = Cardinality(owing)
        /\ SummarizeReceivableItems(items).paidCount = Cardinality(settled)
    <3> HIDE DEF items, owing, settled
    <3> QED BY <2>1 DEF SummarizeReceivableItems
  <2> QED BY <2>2, <2>3
<1>4. \A c \in Customers : LoadCustomerCards[c].open > 0 => c \in owing
  BY CardAgrees
<1>5. ListCrmCustomers("with_receivables") = {c \in Customers : LoadCustomerCards[c].open > 0}
  BY DEF ListCrmCustomers
<1>6. ListCrmCustomers("active") = {c \in Customers : LoadCustomerCards[c].count > 0}
  BY DEF ListCrmCustomers, IsCustomerActive
<1>7. \A c \in Customers : c \in Debtors => LoadCustomerCards[c].count > 0
  <2> SUFFICES ASSUME NEW c \in Customers, c \in Debtors
               PROVE  LoadCustomerCards[c].count > 0
    OBVIOUS
  <2>1. PICK s \in FiadoSales : Customer(s) = c BY DEF Debtors
  <2>2. s \in SalesTo(c) BY <2>1 DEF FiadoSales, SalesTo
  <2>3. IsFiniteSet(SalesTo(c))
    <3>1. IsFiniteSet(ActiveIn(Days)) BY ActiveTyped
    <3> QED BY <3>1, SubsetFinite DEF SalesTo
  <2>4. Cardinality(SalesTo(c)) # 0 /\ Cardinality(SalesTo(c)) \in Nat
    BY <2>2, <2>3, FS_EmptySet, FS_CardinalityType
  <2>5. LoadCustomerCards[c].count = Cardinality(SalesTo(c)) BY ContextAgrees
  <2> QED BY <2>4, <2>5, SMT
<1>8. GetCrmSummary.owing = {c \in Customers : LoadCustomerCards[c].open > 0}
  BY DEF GetCrmSummary
<1>9. Cardinality(GetCrmSummary.owing) <= Cardinality(owing)
  <2>1. IsFiniteSet(owing) BY <1>1, SubsetFinite
  <2>2. \A c \in GetCrmSummary.owing : c \in owing BY <1>4, <1>8
  <2> HIDE DEF owing
  <2> QED BY <2>1, <2>2, SubsetFinite
<1> QED BY <1>1, <1>2, <1>3, <1>4, <1>5, <1>6, <1>7, <1>9

\* What was paid of the sales on credit that are active was received.
LEMMA ReceivedAgrees ==
    ASSUME BooksOK
    PROVE  LET items == BuildReceivableItems
           IN Sum([c \in DOMAIN items |-> items[c].paid]) <= ListReceivables("open").received
<1> DEFINE items == BuildReceivableItems
           g == [c \in DOMAIN items |-> items[c].paid]
           paidBy == [c \in Debtors |-> SumOver(PaidOf, Credit(c))]
           late == {p \in Payments : payment[p] # Nothing /\ payment[p].day >= 1}
           h == [p \in late |-> payment[p].amount]
<1>1. DOMAIN items = Debtors /\ IsFiniteSet(Debtors)
      /\ \A c \in Debtors : items[c].paid = SumOver(SettledOf, Credit(c))
  BY ItemsAreSums, CreditTyped
<1>2. g = [c \in Debtors |-> g[c]] /\ \A c \in Debtors : g[c] = SumOver(SettledOf, Credit(c))
  BY <1>1
<1>3. \A c \in Debtors : g[c] \in Int /\ paidBy[c] \in Int /\ g[c] <= paidBy[c]
  <2> TAKE c \in Debtors
  <2>1. /\ SumOver(SettledOf, Credit(c)) \in Nat /\ SumOver(PaidOf, Credit(c)) \in Nat
        /\ SumOver(SettledOf, Credit(c)) <= SumOver(PaidOf, Credit(c))
    BY OpenAndExcess
  <2>2. g[c] = SumOver(SettledOf, Credit(c)) /\ paidBy[c] = SumOver(PaidOf, Credit(c)) BY <1>2
  <2> QED BY <2>1, <2>2
<1>4. SumOver(PaidOf, FiadoSales) = SumOver(paidBy, Debtors)
  <2> DEFINE of == [s \in Sales |-> Customer(s)]
             part == [c \in Debtors |-> Credit(c)]
  <2>1. IsFiniteSet(FiadoSales) /\ FiadoSales \subseteq Sales BY CreditTyped
  <2>2. \A s \in FiadoSales : PaidOf[s] \in Int /\ of[s] \in Debtors
    <3>1. \A s \in FiadoSales : s \in Sales /\ Exists(s) BY CreditTyped
    <3>2. \A s \in FiadoSales : PaidOf[s] \in Nat BY <3>1, OpenBySale
    <3>3. \A s \in FiadoSales : of[s] \in Debtors BY <3>1 DEF Debtors
    <3> QED BY <3>2, <3>3
  <2>3. \A c \in Debtors : \A s : s \in part[c] <=> (s \in FiadoSales /\ of[s] = c)
    BY <2>1 DEF Credit
  <2>4. \A c \in Debtors : paidBy[c] = SumOver(PaidOf, part[c]) OBVIOUS
  <2> HIDE DEF of, part, paidBy
  <2>5. IsFiniteSet(Debtors) BY <1>1
  <2> QED BY <2>1, <2>2, <2>3, <2>4, <2>5, SumOverParts, SMTT(30)
<1>5. SumOver(PaidOf, FiadoSales) = SumOver(AmountPaid, PaymentsOf(FiadoSales))
  <2>1. FiadoSales \in SUBSET Sales BY CreditTyped
  <2> QED BY <2>1, PaidBySale, PaymentsTyped
<1>6. /\ IsFiniteSet(late) /\ PaymentsOf(FiadoSales) \in SUBSET late
      /\ \A p \in late : h[p] = AmountPaid[p] /\ AmountPaid[p] \in Nat
  <2>1. late = PaymentsOf(Sales)
    <3>1. \A p \in Payments : payment[p] # Nothing =>
             payment[p].day >= 1 /\ payment[p].sale \in Sales
      <4> SUFFICES ASSUME NEW p \in Payments, payment[p] # Nothing
                   PROVE  payment[p].day >= 1 /\ payment[p].sale \in Sales
        OBVIOUS
      <4>1. payment[p].day \in Days /\ payment[p].sale \in Sales BY PaymentTyped
      <4> QED BY <4>1, ReportsAssumption DEF Days
    <3> QED BY <3>1 DEF PaymentsOf
  <2>2. PaymentsOf(FiadoSales) \in SUBSET PaymentsOf(Sales)
    <3>1. FiadoSales \subseteq Sales BY CreditTyped
    <3> QED BY <3>1 DEF PaymentsOf
  <2>3. IsFiniteSet(PaymentsOf(Sales))
        /\ \A p \in PaymentsOf(Sales) : AmountPaid[p] = payment[p].amount /\ AmountPaid[p] \in Nat
    BY PaymentsTyped
  <2> QED BY <2>1, <2>2, <2>3
<1>7. ListReceivables("open").received = Sum(h)
  BY DEF ListReceivables, SumFiadoPaymentsSince
<1>8. h = [p \in late |-> h[p]] OBVIOUS
<1> HIDE DEF g, h, late, paidBy, items
<1>9. Sum(g) = SumOver(g, Debtors) BY <1>2, SumIs
<1>10. SumOver(g, Debtors) <= SumOver(paidBy, Debtors) BY <1>1, <1>3, SumOverLeq
<1>11. Sum(h) = SumOver(AmountPaid, late) BY <1>6, <1>8, SumIs
<1>12. SumOver(AmountPaid, PaymentsOf(FiadoSales)) <= SumOver(AmountPaid, late)
  BY <1>6, SumOverSubset
<1>13. SumOver(g, Debtors) \in Int /\ SumOver(paidBy, Debtors) \in Int
  BY <1>1, <1>3, SumOverType
<1>14. SumOver(AmountPaid, late) \in Nat BY <1>6, SumOverNat
<1> QED BY <1>4, <1>5, <1>7, <1>9, <1>10, <1>11, <1>12, <1>13, <1>14 DEF g, items

\* In books that are well formed, the panels agree.
LEMMA ReceivablesHold == ASSUME BooksOK PROVE ReceivablesAgree
<1>1. ASSUME NEW c \in Customers
      PROVE  LET card == LoadCustomerCards[c]
                 context == ListCustomersWithCommercialContext[c]
                 detail == GetCrmCustomerDetail(c)
                 shown == {s \in DOMAIN detail.purchases : detail.purchases[s] = "active"}
                 timeline == GetCustomerTimeline(c)
                 owed == detail.receivables.open
                 excess == Sum([s \in {s \in FiadoSales : Customer(s) = c} |->
                                   Larger(Paid({s}) - Total(s), 0)])
             IN /\ card.open <= owed /\ owed <= card.open + excess
                /\ card.count = context.count /\ card.purchased = context.revenue
                /\ owed <= BuildReceivablesSummary.open
                /\ Cardinality(shown)
                      = card.count + Cardinality({s \in shown : sale[s].status = "refunded"})
                /\ Sum([i \in timeline |-> i.amount]) = context.revenue + context.paid
                /\ \A p \in DOMAIN detail.products :
                      detail.products[p].amount <= TopSellingProducts(Days)[p].amount
  BY CardAgrees, ContextAgrees, ShownAgree, TimelineAgrees, ProductsAgree
<1> QED BY <1>1, ListsAgree, ReceivedAgrees DEF ReceivablesAgree

-----------------------------------------------------------------------------
(* The books are well formed in every state: a request does not write them. *)

\* A step keeps the books well formed.
LEMMA BooksKept == ASSUME BooksOK, [Next]_vars PROVE BooksOK'
<1>1. CASE Write BY <1>1, WriteOK
<1>2. CASE NextDay BY <1>2, NextDayOK
<1>3. CASE UNCHANGED vars
  <2>1. UNCHANGED <<today, books>> BY <1>3 DEF vars
  <2> QED BY <2>1, BooksUnchangedOK
<1>4. ASSUME NEW r \in Requests,
             \/ \E first, last \in Days, force \in BOOLEAN :
                   MaterializeCompanyRange(r, first, last, force)
             \/ ReadSales(r) \/ ReadRest(r) \/ ClearAsked(r) \/ UpsertRows(r) \/ Abort(r)
             \/ LoadCompanyRows(r) \/ LoadOtherRows(r) \/ Forget(r)
      PROVE  BooksOK'
  <2>1. UNCHANGED <<today, books>>
    BY <1>4
       DEF MaterializeCompanyRange, ReadSales, ReadRest, ClearAsked, UpsertRows, Abort,
       LoadCompanyRows, LoadOtherRows, Forget
  <2> QED BY <2>1, BooksUnchangedOK
<1>5. CASE Age
  <2>1. UNCHANGED <<today, books>> BY <1>5 DEF Age
  <2> QED BY <2>1, BooksUnchangedOK
<1> QED BY <1>1, <1>2, <1>3, <1>4, <1>5 DEF Next

\* So they always are.
LEMMA BooksAlwaysOK == Spec => []BooksOK
<1>1. Init => BooksOK BY BooksInitOK DEF Init
<1>2. BooksOK /\ [Next]_vars => BooksOK' BY BooksKept
<1> QED BY <1>1, <1>2, PTL DEF Spec

(* What an employee is shown adds up to the commission of the period, and a  *)
(* percentage never exceeds what was sold, whatever the sales, the discounts *)
(* and the settings (employee-commission.service.ts).                        *)
THEOREM CommissionIsExact == Spec => []CommissionAddsUp
<1>1. BooksOK => CommissionAddsUp BY CommissionHolds
<1> QED BY <1>1, BooksAlwaysOK, PTL

(* What the panels show of what customers owe agrees: a card with what is owed *)
(* in detail, an open list with the debtors, a timeline with what was bought   *)
(* and paid, products with the best sellers (receivables.service.ts,           *)
(* crm.service.ts).                                                            *)
THEOREM ReceivablesAreExact == Spec => []ReceivablesAgree
<1>1. BooksOK => ReceivablesAgree BY ReceivablesHold
<1> QED BY <1>1, BooksAlwaysOK, PTL

(***************************************************************************)
(* The snapshots.                                                          *)
(***************************************************************************)
\* The books as they are.
Now == [sale |-> sale, payment |-> payment, entry |-> entry]

\* What a request has read of the sales, and of the rest, was in the books.
SalesRead(v) ==
    /\ v.sale \in [Sales -> SaleRows]
    /\ \A s \in Sales : v.sale[s].status # "none" => v.sale[s].form # Nothing
RestRead(v) ==
    /\ v.payment \in [Payments -> PaymentRows \cup {Nothing}]
    /\ \A p \in Payments : v.payment[p] # Nothing => Exists(v.payment[p].sale)

\* The rows of a day are those of a view, and there are no others.
Sells(v, d, p) == \E l \in LinesCounted(v, d) : LineOf(v, l).product = p
Meets(v, d, c) == BoughtBy(v, d, c) \cup PaidBy(v, d, c) # {}
ProductsFrom(v, d, rows) ==
    \A p \in Products :
        /\ <<d, p>> \in DOMAIN rows <=> Sells(v, d, p)
        /\ Sells(v, d, p) => rows[<<d, p>>] = BuildProductRow(v, d, p)
CustomersFrom(v, d, rows) ==
    \A c \in Customers :
        /\ <<d, c>> \in DOMAIN rows <=> Meets(v, d, c)
        /\ Meets(v, d, c) => rows[<<d, c>>] = BuildCustomerRow(v, d, c)
BuiltFrom(v, d) ==
    /\ companyRow[d] = BuildCompanyRow(v, d)
    /\ ProductsFrom(v, d, productRow) /\ CustomersFrom(v, d, customerRow)

TablesBuilt ==
    \A d \in DOMAIN companyRow \ mixed : \E v : SalesRead(v) /\ RestRead(v) /\ BuiltFrom(v, d)

\* The view of a request is what the books were at some moment, of the sales and of the rest;
\* when it was not disturbed, what they are.
ViewOK(j) ==
    /\ j.at \in {"clear", "write"} => {"sale", "payment", "entry"} \subseteq DOMAIN j.view
    /\ "entry" \in DOMAIN j.view => "payment" \in DOMAIN j.view
    /\ "sale" \in DOMAIN j.view =>
          SalesRead(j.view) /\ (j.quiet => j.view.sale = sale)
    /\ "entry" \in DOMAIN j.view =>
          RestRead(j.view) /\ (j.quiet => j.view.payment = payment /\ j.view.entry = entry)
\* A request that was not disturbed deletes all rows of its days, and what it wrote stays.
RowsOK(j) ==
    /\ j.at \in {"load", "rest", "answered"} => j.first..j.last \subseteq DOMAIN companyRow
    /\ j.quiet /\ j.at = "write" => (j.first..j.last) \cap DOMAIN companyRow \subseteq j.cleared
    /\ j.quiet /\ j.rebuilt => \A d \in j.first..j.last :
          /\ j.at \in {"load", "rest"} => BuiltFrom(Now, d)
          /\ j.at \in {"rest", "answered"} => j.company[d] = BuildCompanyRow(Now, d)
          /\ j.at = "answered" => ProductsFrom(Now, d, j.product)
                                     /\ CustomersFrom(Now, d, j.customer)
JobOK(j) == ViewOK(j) /\ RowsOK(j)
JobsOK == \A r \in Requests : job[r] # Nothing => JobOK(job[r])
SnapshotsOK == TypeOK /\ TablesBuilt /\ JobsOK

\* The rows that are written, over those that are there.
LEMMA OverIs ==
    ASSUME NEW n, NEW o
    PROVE  /\ DOMAIN Over(n, o) = DOMAIN n \cup DOMAIN o
           /\ \A k \in DOMAIN n : Over(n, o)[k] = n[k]
           /\ \A k \in DOMAIN o : k \notin DOMAIN n => Over(n, o)[k] = o[k]
BY DEF Over
\* A row that is written is the one that is read after it, another stays.
LEMMA OverAt == ASSUME NEW n, NEW o, NEW k \in DOMAIN n PROVE Over(n, o)[k] = n[k]
BY DEF Over
\* A row that is not written stays.
LEMMA OverElse ==
    ASSUME NEW n, NEW o, NEW k \in DOMAIN o, k \notin DOMAIN n PROVE Over(n, o)[k] = o[k]
BY DEF Over

\* The rows of the other days.
LEMMA WithoutIs ==
    ASSUME NEW rows, NEW days
    PROVE  /\ \A k : k \in DOMAIN Without(rows, days) <=> k \in DOMAIN rows /\ k[1] \notin days
           /\ \A k \in DOMAIN Without(rows, days) : Without(rows, days)[k] = rows[k]
BY DEF Without

\* The sales of a view that are counted have a form.
LEMMA CountedTyped ==
    ASSUME NEW v, SalesRead(v), NEW d, NEW s \in SalesCounted(v, d)
    PROVE  s \in Sales /\ v.sale[s].form \in Forms /\ v.sale[s].day = d
<1>1. s \in Sales /\ v.sale[s] \in SaleRows /\ v.sale[s].status = "active" /\ v.sale[s].day = d
  BY DEF SalesCounted, SalesRead
<1>2. v.sale[s].form # Nothing BY <1>1 DEF SalesRead
<1> QED BY <1>1, <1>2 DEF SaleRows

\* The products and customers that a day has a row of.
LEMMA KeysAre ==
    ASSUME NEW v, SalesRead(v), NEW R
    PROVE  /\ ProductKeys(v, R) \subseteq R \X Products
           /\ CustomerKeys(v, R) \subseteq R \X Customers
           /\ \A d \in R : /\ \A p \in Products : <<d, p>> \in ProductKeys(v, R) <=> Sells(v, d, p)
                           /\ \A c \in Customers : <<d, c>> \in CustomerKeys(v, R) <=> Meets(v, d, c)
<1>1. \A d : \A l \in LinesCounted(v, d) : LineOf(v, l).product \in Products
  <2> TAKE d
  <2> TAKE l \in LinesCounted(v, d)
  <2>1. PICK s \in SalesCounted(v, d) : \E i \in DOMAIN v.sale[s].form.items : l = <<s, i>>
    BY DEF LinesCounted
  <2>0. PICK i \in DOMAIN v.sale[s].form.items : l = <<s, i>> BY <2>1
  <2>2. v.sale[s].form \in Forms BY CountedTyped
  <2>3. v.sale[s].form.items[i] \in Items BY <2>2, FormTyped
  <2>4. LineOf(v, l) = v.sale[s].form.items[i] BY <2>0 DEF LineOf
  <2> QED BY <2>3, <2>4 DEF Items
<1>2. ProductKeys(v, R) \subseteq R \X Products BY <1>1 DEF ProductKeys
<1>3. CustomerKeys(v, R) \subseteq R \X Customers BY DEF CustomerKeys
<1>4. \A d \in R : \A p \in Products : <<d, p>> \in ProductKeys(v, R) <=> Sells(v, d, p)
  BY DEF ProductKeys, Sells
<1>5. \A d \in R : \A c \in Customers : <<d, c>> \in CustomerKeys(v, R) <=> Meets(v, d, c)
  BY DEF CustomerKeys, Meets
<1> QED BY <1>2, <1>3, <1>4, <1>5

\* What is read of the books is well formed.
LEMMA NowRead == ASSUME BooksOK PROVE SalesRead(Now) /\ RestRead(Now)
<1>1. Now.sale = sale /\ Now.payment = payment BY DEF Now
<1>2. \A s \in Sales : sale[s].status # "none" => sale[s].form # Nothing
  BY SaleTyped DEF SaleLinked, Exists
<1> QED BY <1>1, <1>2 DEF SalesRead, RestRead, BooksOK, RowsTyped

\* A sale that was recorded stays, and keeps its form.
SalesStay == \A s \in Sales : Exists(s) => Exists(s)' /\ sale'[s].form = sale[s].form
\* No write of the books forgets a sale or rewrites its form.
LEMMA WriteStays == ASSUME BooksOK, Write PROVE SalesStay
<1>0. sale \in [Sales -> SaleRows] BY DEF BooksOK, RowsTyped
<1>1. CASE UNCHANGED sale BY <1>1 DEF SalesStay, Exists
<1>2. ASSUME NEW s \in Sales, NEW f \in Forms, NEW d \in Days, RecordSale(s, f, d)
      PROVE  SalesStay
  <2>1. ~Exists(s) /\ sale' = [sale EXCEPT ![s] = [status |-> "active", day |-> d, form |-> f]]
    BY <1>2 DEF RecordSale
  <2> QED BY <1>0, <2>1 DEF SalesStay, Exists
<1>3. ASSUME NEW s \in Sales, NEW st \in {"canceled", "refunded"},
             sale' = [sale EXCEPT ![s].status = st]
      PROVE  SalesStay
  <2>1. sale[s] \in SaleRows BY <1>0
  <2>2. sale'[s].form = sale[s].form /\ sale'[s].status = st BY <1>0, <1>3, <2>1 DEF SaleRows
  <2>3. \A t \in Sales \ {s} : sale'[t] = sale[t] BY <1>0, <1>3
  <2>4. st # "none" BY <1>3
  <2> QED BY <2>2, <2>3, <2>4 DEF SalesStay, Exists
<1>4. CASE \E s \in Sales, f \in Forms, d \in Days : RecordSale(s, f, d) BY <1>2, <1>4
<1>5. CASE \E s \in Sales : CancelSale(s) \/ RefundSale(s)
  BY <1>3, <1>5 DEF CancelSale, RefundSale
<1> QED BY <1>1, <1>4, <1>5
        DEF Write, PayFiado, RecordEntry, CancelPurchase, SaveOrder, CancelOrder, OpenSession,
            CloseSession, UpdateSettings

\* Who paid stays known.
LEMMA PaidByStays ==
    ASSUME NEW v, RestRead(v), SalesStay, NEW d, NEW c
    PROVE  PaidBy(v, d, c)' = PaidBy(v, d, c)
<1>1. PaymentsMade(v, d)' = PaymentsMade(v, d) BY DEF PaymentsMade
<1>2. \A p \in PaymentsMade(v, d) : Customer(v.payment[p].sale)' = Customer(v.payment[p].sale)
  <2> TAKE p \in PaymentsMade(v, d)
  <2>1. p \in Payments /\ v.payment[p] # Nothing BY DEF PaymentsMade
  <2>2. v.payment[p].sale \in Sales /\ Exists(v.payment[p].sale)
    BY <2>1 DEF RestRead, PaymentRows
  <2> QED BY <2>2 DEF SalesStay, Customer
<1> QED BY <1>1, <1>2 DEF PaidBy

\* So the rows of a day stay those of the view they were built from.
LEMMA RowsStay ==
    ASSUME NEW v, RestRead(v), SalesStay, NEW d, NEW rows, CustomersFrom(v, d, rows)
    PROVE  CustomersFrom(v, d, rows)'
<1>1. \A c \in Customers : PaidBy(v, d, c)' = PaidBy(v, d, c) BY PaidByStays
<1>2. \A c \in Customers : /\ Meets(v, d, c)' <=> Meets(v, d, c)
                           /\ BuildCustomerRow(v, d, c)' = BuildCustomerRow(v, d, c)
  BY <1>1 DEF Meets, BuildCustomerRow
<1> QED BY <1>2 DEF CustomersFrom

\* What was read of the rest stays well formed.
LEMMA RestReadStays == ASSUME NEW v, RestRead(v), SalesStay PROVE RestRead(v)'
BY DEF RestRead, SalesStay, PaymentRows

\* The rows of a day stay.
SameRows(d) ==
    /\ d \in DOMAIN companyRow' <=> d \in DOMAIN companyRow
    /\ d \in DOMAIN companyRow => companyRow'[d] = companyRow[d]
    /\ \A p \in Products :
          /\ <<d, p>> \in DOMAIN productRow' <=> <<d, p>> \in DOMAIN productRow
          /\ <<d, p>> \in DOMAIN productRow => productRow'[<<d, p>>] = productRow[<<d, p>>]
    /\ \A c \in Customers :
          /\ <<d, c>> \in DOMAIN customerRow' <=> <<d, c>> \in DOMAIN customerRow
          /\ <<d, c>> \in DOMAIN customerRow => customerRow'[<<d, c>>] = customerRow[<<d, c>>]
\* A day whose rows stay is built from the same view.
LEMMA BuiltStays ==
    ASSUME NEW v, RestRead(v), SalesStay, NEW d \in DOMAIN companyRow, BuiltFrom(v, d), SameRows(d)
    PROVE  BuiltFrom(v, d)'
<1> USE DEF SameRows
<1>1. ProductsFrom(v, d, productRow)' BY DEF BuiltFrom, ProductsFrom
<1>2. CustomersFrom(v, d, customerRow)'
  <2>1. PICK rows : rows = customerRow OBVIOUS
  <2>2. CustomersFrom(v, d, rows)' BY <2>1, RowsStay DEF BuiltFrom
  <2> QED BY <2>1, <2>2 DEF CustomersFrom
<1>3. (companyRow[d] = BuildCompanyRow(v, d))' BY DEF BuiltFrom
<1> QED BY <1>1, <1>2, <1>3 DEF BuiltFrom

\* A transaction deletes the rows it found and writes those of its view: what another put on a
\* day that had none stays only where the day is marked.
Other(v, R) == (DOMAIN productRow \ ProductKeys(v, R)) \cup (DOMAIN customerRow \ CustomerKeys(v, R))
Upserted(v, R, cleared) ==
    /\ companyRow' = Over([e \in R |-> BuildCompanyRow(v, e)], companyRow)
    /\ productRow' = Over([k \in ProductKeys(v, R) |-> BuildProductRow(v, k[1], k[2])],
                          Without(productRow, cleared))
    /\ customerRow' = Over([k \in CustomerKeys(v, R) |-> BuildCustomerRow(v, k[1], k[2])],
                           Without(customerRow, cleared))
    /\ mixed' = (mixed \ cleared) \cup ({k[1] : k \in Other(v, R)} \cap (R \ cleared))
    /\ fresh' = fresh \cup R
    /\ UNCHANGED <<today, books>>
\* The transaction that writes the rows, in these words.
LEMMA UpsertIs ==
    ASSUME NEW r \in Requests, UpsertRows(r)
    PROVE  /\ Upserted(job[r].view, Asked(r), job[r].cleared)
           /\ job' = [Disturbed(job, Asked(r)) EXCEPT
                         ![r] = [To(r, "load") EXCEPT !.rebuilt = TRUE, !.view = Empty,
                                                      !.cleared = {}]]
BY DEF UpsertRows, Other, Upserted

\* A day that the transaction cleared, or where nobody else wrote, is of one view.
LEMMA UpsertBuilds ==
    ASSUME TypeOK, NEW v, SalesRead(v), RestRead(v), NEW R, NEW cleared, NEW d \in R,
           d \in cleared \/ d \notin {k[1] : k \in Other(v, R)},
           Upserted(v, R, cleared)
    PROVE  BuiltFrom(v, d)'
<1> USE DEF Upserted, books
<1> DEFINE company == [e \in R |-> BuildCompanyRow(v, e)]
           product == [k \in ProductKeys(v, R) |-> BuildProductRow(v, k[1], k[2])]
           customer == [k \in CustomerKeys(v, R) |-> BuildCustomerRow(v, k[1], k[2])]
<1>1. companyRow'[d] = BuildCompanyRow(v, d)
  <2>1. d \in DOMAIN company /\ company[d] = BuildCompanyRow(v, d) OBVIOUS
  <2>2. companyRow' = Over(company, companyRow) OBVIOUS
  <2> HIDE DEF company
  <2>3. Over(company, companyRow)[d] = company[d] BY <2>1, OverAt
  <2> QED BY <2>1, <2>2, <2>3
<1>2. ASSUME NEW p \in Products
      PROVE  /\ <<d, p>> \in DOMAIN productRow' <=> Sells(v, d, p)
             /\ Sells(v, d, p) => productRow'[<<d, p>>] = BuildProductRow(v, d, p)
  <2> DEFINE k == <<d, p>>
  <2>1. k \in ProductKeys(v, R) <=> Sells(v, d, p) BY KeysAre
  <2>2. k \in DOMAIN product <=> Sells(v, d, p) BY <2>1
  <2>3. Sells(v, d, p) => product[k] = BuildProductRow(v, d, p) BY <2>1
  <2>4. k \in DOMAIN Without(productRow, cleared) => Sells(v, d, p)
    <3> SUFFICES ASSUME k \in DOMAIN Without(productRow, cleared), ~Sells(v, d, p) PROVE FALSE
      OBVIOUS
    <3>1. k \in DOMAIN productRow /\ d \notin cleared BY WithoutIs, k[1] = d
    <3>2. k \in Other(v, R) BY <3>1, <2>1 DEF Other
    <3>3. k[1] = d OBVIOUS
    <3> QED BY <3>1, <3>2, <3>3
  <2> DEFINE old == Without(productRow, cleared)
  <2>7. productRow' = Over(product, old) OBVIOUS
  <2> HIDE DEF k, product, old
  <2>5. DOMAIN productRow' = DOMAIN product \cup DOMAIN old BY <2>7, OverIs
  <2>8. k \in DOMAIN product => productRow'[k] = product[k] BY <2>7, OverAt
  <2>6. (k \in DOMAIN productRow' <=> Sells(v, d, p))
        /\ (Sells(v, d, p) => productRow'[k] = BuildProductRow(v, d, p))
    BY <2>2, <2>3, <2>4, <2>5, <2>8 DEF old
  <2> QED BY <2>6 DEF k
<1>3. ASSUME NEW c \in Customers
      PROVE  /\ <<d, c>> \in DOMAIN customerRow' <=> Meets(v, d, c)
             /\ Meets(v, d, c) => customerRow'[<<d, c>>] = BuildCustomerRow(v, d, c)
  <2> DEFINE k == <<d, c>>
  <2>1. k \in CustomerKeys(v, R) <=> Meets(v, d, c) BY KeysAre
  <2>2. k \in DOMAIN customer <=> Meets(v, d, c) BY <2>1
  <2>3. Meets(v, d, c) => customer[k] = BuildCustomerRow(v, d, c) BY <2>1
  <2>4. k \in DOMAIN Without(customerRow, cleared) => Meets(v, d, c)
    <3> SUFFICES ASSUME k \in DOMAIN Without(customerRow, cleared), ~Meets(v, d, c) PROVE FALSE
      OBVIOUS
    <3>1. k \in DOMAIN customerRow /\ d \notin cleared BY WithoutIs, k[1] = d
    <3>2. k \in Other(v, R) BY <3>1, <2>1 DEF Other
    <3>3. k[1] = d OBVIOUS
    <3> QED BY <3>1, <3>2, <3>3
  <2> DEFINE old == Without(customerRow, cleared)
  <2>7. customerRow' = Over(customer, old) OBVIOUS
  <2> HIDE DEF k, customer, old
  <2>5. DOMAIN customerRow' = DOMAIN customer \cup DOMAIN old BY <2>7, OverIs
  <2>8. k \in DOMAIN customer => customerRow'[k] = customer[k] BY <2>7, OverAt
  <2>6. (k \in DOMAIN customerRow' <=> Meets(v, d, c))
        /\ (Meets(v, d, c) => customerRow'[k] = BuildCustomerRow(v, d, c))
    BY <2>2, <2>3, <2>4, <2>5, <2>8 DEF old
  <2> QED BY <2>6 DEF k
<1>4. ProductsFrom(v, d, productRow)' BY <1>2 DEF ProductsFrom
<1>5. CustomersFrom(v, d, customerRow)'
  <2>1. \A c \in Customers : /\ Meets(v, d, c)' <=> Meets(v, d, c)
                             /\ BuildCustomerRow(v, d, c)' = BuildCustomerRow(v, d, c)
    BY DEF Meets, BuildCustomerRow, PaidBy, Customer
  <2> QED BY <1>3, <2>1 DEF CustomersFrom
<1>6. (companyRow[d] = BuildCompanyRow(v, d))' BY <1>1
<1> QED BY <1>4, <1>5, <1>6 DEF BuiltFrom

\* The tables have rows of the days that the company has, before and after.
LEMMA UpsertTyped ==
    ASSUME TablesTyped, NEW v, SalesRead(v), NEW R \in SUBSET Days, NEW cleared \in SUBSET R,
           Upserted(v, R, cleared)
    PROVE  TablesTyped' /\ DOMAIN companyRow' = R \cup DOMAIN companyRow
<1> USE DEF Upserted
<1> DEFINE company == [e \in R |-> BuildCompanyRow(v, e)]
           product == [k \in ProductKeys(v, R) |-> BuildProductRow(v, k[1], k[2])]
           customer == [k \in CustomerKeys(v, R) |-> BuildCustomerRow(v, k[1], k[2])]
<1>1. DOMAIN companyRow' = R \cup DOMAIN companyRow
  <2>1. DOMAIN company = R OBVIOUS
  <2> HIDE DEF company
  <2> QED BY <2>1, OverIs DEF company
<1>2. DOMAIN productRow' = ProductKeys(v, R) \cup DOMAIN Without(productRow, cleared)
  <2>1. DOMAIN product = ProductKeys(v, R) OBVIOUS
  <2> HIDE DEF product
  <2> QED BY <2>1, OverIs DEF product
<1>3. DOMAIN customerRow' = CustomerKeys(v, R) \cup DOMAIN Without(customerRow, cleared)
  <2>1. DOMAIN customer = CustomerKeys(v, R) OBVIOUS
  <2> HIDE DEF customer
  <2> QED BY <2>1, OverIs DEF customer
<1>4. /\ DOMAIN Without(productRow, cleared) \subseteq DOMAIN productRow
      /\ DOMAIN Without(customerRow, cleared) \subseteq DOMAIN customerRow
  BY WithoutIs
<1>5. ProductKeys(v, R) \subseteq R \X Products /\ CustomerKeys(v, R) \subseteq R \X Customers
  BY KeysAre
<1>6. mixed' \subseteq DOMAIN companyRow' /\ fresh' \subseteq DOMAIN companyRow'
      /\ DOMAIN companyRow' \subseteq Days
  BY <1>1 DEF TablesTyped
<1>7. DOMAIN productRow' \subseteq (DOMAIN companyRow') \X Products
  BY <1>1, <1>2, <1>4, <1>5 DEF TablesTyped
<1>8. DOMAIN customerRow' \subseteq (DOMAIN companyRow') \X Customers
  BY <1>1, <1>3, <1>4, <1>5 DEF TablesTyped
<1> QED BY <1>1, <1>6, <1>7, <1>8 DEF TablesTyped

\* The rows of the other days stay.
LEMMA UpsertLeaves ==
    ASSUME NEW v, SalesRead(v), NEW R, NEW cleared \in SUBSET R, NEW d, d \notin R,
           Upserted(v, R, cleared)
    PROVE  SameRows(d)
<1> USE DEF Upserted
<1> DEFINE company == [e \in R |-> BuildCompanyRow(v, e)]
           product == [k \in ProductKeys(v, R) |-> BuildProductRow(v, k[1], k[2])]
           customer == [k \in CustomerKeys(v, R) |-> BuildCustomerRow(v, k[1], k[2])]
<1>1. ASSUME NEW new, NEW old, NEW k, k \notin DOMAIN new
      PROVE  /\ k \in DOMAIN Over(new, old) <=> k \in DOMAIN old
             /\ k \in DOMAIN old => Over(new, old)[k] = old[k]
  BY <1>1 DEF Over
<1>2. ASSUME NEW rows, NEW k, k[1] \notin cleared
      PROVE  /\ k \in DOMAIN Without(rows, cleared) <=> k \in DOMAIN rows
             /\ k \in DOMAIN rows => Without(rows, cleared)[k] = rows[k]
  BY <1>2 DEF Without
<1>3. d \notin DOMAIN company /\ companyRow' = Over(company, companyRow) OBVIOUS
<1>4. /\ d \in DOMAIN companyRow' <=> d \in DOMAIN companyRow
      /\ d \in DOMAIN companyRow => companyRow'[d] = companyRow[d]
  <2> HIDE DEF company
  <2> QED BY <1>1, <1>3
<1>5. ProductKeys(v, R) \subseteq R \X Products /\ CustomerKeys(v, R) \subseteq R \X Customers
  BY KeysAre
<1>6. ASSUME NEW p \in Products
      PROVE  /\ <<d, p>> \in DOMAIN productRow' <=> <<d, p>> \in DOMAIN productRow
             /\ <<d, p>> \in DOMAIN productRow => productRow'[<<d, p>>] = productRow[<<d, p>>]
  <2> DEFINE k == <<d, p>>
             old == Without(productRow, cleared)
  <2>1. k \notin DOMAIN product /\ k[1] \notin cleared BY <1>5
  <2>2. productRow' = Over(product, old) OBVIOUS
  <2> HIDE DEF product, k
  <2>3. (k \in DOMAIN old <=> k \in DOMAIN productRow)
        /\ (k \in DOMAIN productRow => old[k] = productRow[k])
    BY <2>1, <1>2
  <2> HIDE DEF old
  <2>4. (k \in DOMAIN productRow' <=> k \in DOMAIN old)
        /\ (k \in DOMAIN old => productRow'[k] = old[k])
    BY <2>1, <2>2, <1>1
  <2> QED BY <2>3, <2>4 DEF k
<1>7. ASSUME NEW c \in Customers
      PROVE  /\ <<d, c>> \in DOMAIN customerRow' <=> <<d, c>> \in DOMAIN customerRow
             /\ <<d, c>> \in DOMAIN customerRow =>
                   customerRow'[<<d, c>>] = customerRow[<<d, c>>]
  <2> DEFINE k == <<d, c>>
             old == Without(customerRow, cleared)
  <2>1. k \notin DOMAIN customer /\ k[1] \notin cleared BY <1>5
  <2>2. customerRow' = Over(customer, old) OBVIOUS
  <2> HIDE DEF customer, k
  <2>3. (k \in DOMAIN old <=> k \in DOMAIN customerRow)
        /\ (k \in DOMAIN customerRow => old[k] = customerRow[k])
    BY <2>1, <1>2
  <2> HIDE DEF old
  <2>4. (k \in DOMAIN customerRow' <=> k \in DOMAIN old)
        /\ (k \in DOMAIN old => customerRow'[k] = old[k])
    BY <2>1, <2>2, <1>1
  <2> QED BY <2>3, <2>4 DEF k
<1> QED BY <1>4, <1>6, <1>7 DEF SameRows

\* What is known of a request that is about to write.
LEMMA WriterKnown ==
    ASSUME SnapshotsOK, NEW r \in Requests, At(r, "write"),
           NEW v, v = job[r].view, NEW R, R = Asked(r), NEW cleared, cleared = job[r].cleared
    PROVE  /\ SalesRead(v) /\ RestRead(v) /\ R \in SUBSET Days /\ cleared \in SUBSET R
           /\ job[r].quiet => /\ v.sale = sale /\ v.payment = payment /\ v.entry = entry
                              /\ R \cap DOMAIN companyRow \subseteq cleared
           /\ JobTyped(job[r]) /\ JobOK(job[r])
<1>1. job[r] # Nothing /\ job[r].at = "write" BY DEF At
<1>2. JobTyped(job[r]) /\ JobOK(job[r]) BY <1>1 DEF SnapshotsOK, TypeOK, JobsOK
<1>3. ViewOK(job[r]) /\ RowsOK(job[r]) BY <1>2 DEF JobOK
<1>4. R = job[r].first..job[r].last BY DEF Asked
<1>5. R \in SUBSET Days
  <2>1. job[r].first \in Days /\ job[r].last \in Days BY <1>2 DEF JobTyped
  <2> QED BY <1>4, <2>1, DaysAreNumbers DEF Days
<1>6. cleared \in SUBSET R BY <1>2, <1>4 DEF JobTyped
<1>7. SalesRead(v) /\ RestRead(v)
      /\ (job[r].quiet => v.sale = sale /\ v.payment = payment /\ v.entry = entry)
  BY <1>1, <1>3 DEF ViewOK
<1>8. job[r].quiet => R \cap DOMAIN companyRow \subseteq cleared
  BY <1>1, <1>3, <1>4 DEF RowsOK
<1> QED BY <1>2, <1>5, <1>6, <1>7, <1>8

\* After the transaction, every day that is not marked is of one rebuild.
LEMMA UpsertTables ==
    ASSUME SnapshotsOK, NEW r \in Requests, UpsertRows(r)
    PROVE  TablesTyped' /\ TablesBuilt' /\ DOMAIN companyRow' = Asked(r) \cup DOMAIN companyRow
<1>1. PICK v : v = job[r].view OBVIOUS
<1>2. PICK R : R = Asked(r) OBVIOUS
<1>3. PICK cleared : cleared = job[r].cleared OBVIOUS
<1>4. At(r, "write") BY DEF UpsertRows
<1>5. SalesRead(v) /\ RestRead(v) /\ R \in SUBSET Days /\ cleared \in SUBSET R
  BY <1>1, <1>2, <1>3, <1>4, WriterKnown
<1>6. Upserted(v, R, cleared) BY <1>1, <1>2, <1>3, UpsertIs
<1>7. TypeOK /\ TablesTyped /\ TablesBuilt /\ BooksOK BY DEF SnapshotsOK, TypeOK
<1>8. TablesTyped' /\ DOMAIN companyRow' = R \cup DOMAIN companyRow
  BY <1>5, <1>6, <1>7, UpsertTyped
<1>9. SalesStay /\ UNCHANGED sale BY <1>6 DEF Upserted, books, SalesStay, Exists
<1>10. ASSUME NEW d \in DOMAIN companyRow', d \notin mixed'
       PROVE  \E w : SalesRead(w)' /\ RestRead(w)' /\ BuiltFrom(w, d)'
  <2>1. CASE d \in R
    <3>1. d \in cleared \/ d \notin {k[1] : k \in Other(v, R)}
      BY <2>1, <1>6, <1>10 DEF Upserted
    <3>2. BuiltFrom(v, d)' BY <2>1, <3>1, <1>5, <1>6, <1>7, <1>9, UpsertBuilds
    <3>3. SalesRead(v)' BY <1>5 DEF SalesRead
    <3>4. RestRead(v)' BY <1>5, <1>9, RestReadStays
    <3> QED BY <3>2, <3>3, <3>4
  <2>2. CASE d \notin R
    <3>1. d \in DOMAIN companyRow \ mixed BY <1>5, <1>6, <1>8, <1>10, <2>2 DEF Upserted
    <3>2. PICK w : SalesRead(w) /\ RestRead(w) /\ BuiltFrom(w, d)
      BY <3>1, <1>7 DEF TablesBuilt
    <3>6. SameRows(d) BY <2>2, <1>5, <1>6, UpsertLeaves
    <3>3. BuiltFrom(w, d)' BY <3>1, <3>2, <3>6, <1>9, BuiltStays
    <3>4. SalesRead(w)' BY <3>2 DEF SalesRead
    <3>5. RestRead(w)' BY <3>2, <1>9, RestReadStays
    <3> QED BY <3>3, <3>4, <3>5
  <2> QED BY <2>1, <2>2
<1>11. TablesBuilt' BY <1>10 DEF TablesBuilt
<1> QED BY <1>2, <1>8, <1>11

(* Requests.                                                               *)

\* A request whose days and books nobody wrote.
LEMMA JobStays ==
    ASSUME BooksOK, NEW j, JobTyped(j), JobOK(j), SalesStay, UNCHANGED <<sale, payment, entry>>,
           \A d \in j.first..j.last : SameRows(d)
    PROVE  JobOK(j)'
<1> DEFINE R == j.first..j.last
<1>1. ViewOK(j)'
  <2>1. SalesRead(j.view)' = SalesRead(j.view) BY DEF SalesRead
  <2>2. RestRead(j.view) => RestRead(j.view)'
    <3>1. PICK v : v = j.view OBVIOUS
    <3>2. RestRead(v) => RestRead(v)' BY RestReadStays
    <3> QED BY <3>1, <3>2
  <2> QED BY <2>1, <2>2 DEF JobOK, ViewOK
<1>2. \A d \in R : d \in DOMAIN companyRow' <=> d \in DOMAIN companyRow BY DEF SameRows
<1>3. \A v, d, rows : (ProductsFrom(v, d, rows)' <=> ProductsFrom(v, d, rows))
                      /\ (CustomersFrom(v, d, rows)' <=> CustomersFrom(v, d, rows))
  BY DEF ProductsFrom, CustomersFrom, Meets, BuildCustomerRow, PaidBy, Customer
<1>4. PICK now : now = Now /\ now = Now' BY DEF Now
<1>5. ASSUME NEW d \in R, d \in DOMAIN companyRow, BuiltFrom(Now, d)
      PROVE  BuiltFrom(Now, d)'
  <2>1. RestRead(now) BY <1>4, <1>5, NowRead
  <2>2. BuiltFrom(now, d) BY <1>4, <1>5
  <2>3. BuiltFrom(now, d)' BY <2>1, <2>2, <1>5, BuiltStays
  <2> QED BY <2>3, <1>4 DEF BuiltFrom
<1>6. j.at \in {"load", "rest", "answered"} => R \subseteq DOMAIN companyRow
  BY DEF JobOK, RowsOK
<1>7. j.quiet /\ j.at = "write" => (R \cap DOMAIN companyRow)' \subseteq j.cleared
  BY <1>2 DEF JobOK, RowsOK
<1>8. ASSUME j.quiet, j.rebuilt, NEW d \in R
      PROVE  /\ j.at \in {"load", "rest"} => BuiltFrom(Now, d)'
             /\ j.at \in {"rest", "answered"} => j.company[d] = BuildCompanyRow(Now, d)'
             /\ j.at = "answered" => ProductsFrom(Now, d, j.product)'
                                        /\ CustomersFrom(Now, d, j.customer)'
  <2>1. /\ j.at \in {"load", "rest"} => BuiltFrom(Now, d)
        /\ j.at \in {"rest", "answered"} => j.company[d] = BuildCompanyRow(now, d)
        /\ j.at = "answered" => ProductsFrom(now, d, j.product)
                                   /\ CustomersFrom(now, d, j.customer)
    BY <1>4, <1>8 DEF JobOK, RowsOK
  <2>2. j.at \in {"load", "rest"} => BuiltFrom(Now, d)' BY <2>1, <1>5, <1>6
  <2>3. j.at = "answered" => ProductsFrom(now, d, j.product)'
                               /\ CustomersFrom(now, d, j.customer)'
    <3>1. PICK products, customers : products = j.product /\ customers = j.customer OBVIOUS
    <3> QED BY <2>1, <3>1, <1>3
  <2>4. j.at \in {"rest", "answered"} => j.company[d] = BuildCompanyRow(now, d)' BY <2>1
  <2>5. now = Now' BY <1>4
  <2> QED BY <2>2, <2>3, <2>4, <2>5
<1>9. RowsOK(j)'
  <2>1. R \subseteq DOMAIN companyRow => (R \subseteq DOMAIN companyRow)' BY <1>2
  <2> QED BY <2>1, <1>6, <1>7, <1>8 DEF RowsOK
<1> QED BY <1>1, <1>9 DEF JobOK

\* A request that is disturbed keeps what it has read.
Left(j, k) ==
    /\ DOMAIN k = DOMAIN j /\ k.quiet = FALSE
    /\ k.at = j.at /\ k.first = j.first /\ k.last = j.last /\ k.rebuilt = j.rebuilt
    /\ k.view = j.view /\ k.cleared = j.cleared
    /\ k.company = j.company /\ k.product = j.product /\ k.customer = j.customer
\* A request that is disturbed stays well formed.
LEMMA JobLeft ==
    ASSUME NEW j, JobTyped(j), JobOK(j), SalesStay, DOMAIN companyRow \subseteq DOMAIN companyRow',
           NEW k, Left(j, k)
    PROVE  JobTyped(k) /\ JobOK(k)'
<1> USE DEF Left
<1>1. JobTyped(k) BY DEF JobTyped
<1>2. ViewOK(k)'
  <2>1. SalesRead(j.view)' = SalesRead(j.view) BY DEF SalesRead
  <2>2. RestRead(j.view) => RestRead(j.view)'
    <3>1. PICK v : v = j.view OBVIOUS
    <3>2. RestRead(v) => RestRead(v)' BY RestReadStays
    <3> QED BY <3>1, <3>2
  <2>3. ViewOK(j) BY DEF JobOK
  <2> QED BY <2>1, <2>2, <2>3 DEF ViewOK
<1>3. RowsOK(k)'
  <2>1. RowsOK(j) BY DEF JobOK
  <2>2. k.at \in {"load", "rest", "answered"} => (k.first..k.last \subseteq DOMAIN companyRow)'
    BY <2>1 DEF RowsOK
  <2> QED BY <2>2 DEF RowsOK
<1> QED BY <1>1, <1>2, <1>3 DEF JobOK

\* A request that starts.
LEMMA StartOK ==
    ASSUME SnapshotsOK, NEW first \in Days, NEW last \in Days, NEW force \in BOOLEAN, first <= last,
           NEW k, k = [at |-> IF ShouldRebuildRange(first..last, force) THEN "read" ELSE "load",
                       first |-> first, last |-> last, rebuilt |-> FALSE, quiet |-> TRUE,
                       view |-> Empty, cleared |-> {},
                       company |-> Empty, product |-> Empty, customer |-> Empty]
    PROVE  JobTyped(k) /\ JobOK(k)
<1>1. DOMAIN k = {"at", "first", "last", "rebuilt", "quiet", "view", "cleared",
                  "company", "product", "customer"}
  BY SMT
<1>2. /\ k.first = first /\ k.last = last /\ k.rebuilt = FALSE /\ k.quiet = TRUE
      /\ k.view = Empty /\ k.cleared = {}
  OBVIOUS
<1>3. k.at \in {"read", "load"}
      /\ (k.at = "load" => first..last \subseteq DOMAIN companyRow)
  BY DEF ShouldRebuildRange
<1>4. JobTyped(k) BY <1>1, <1>2, <1>3 DEF JobTyped, Steps
<1>5. ViewOK(k)
  <2>1. DOMAIN k.view = {} BY <1>2 DEF Empty
  <2> QED BY <1>3, <2>1 DEF ViewOK
<1>6. RowsOK(k) BY <1>2, <1>3 DEF RowsOK
<1> QED BY <1>4, <1>5, <1>6 DEF JobOK

\* The sales are read, before or after the rest.
LEMMA ReadSalesOK ==
    ASSUME SnapshotsOK, NEW j, JobTyped(j), JobOK(j), j.at = "read", "sale" \notin DOMAIN j.view,
           NEW new, DOMAIN new = {"sale"}, new.sale = sale,
           NEW k, DOMAIN k = DOMAIN j, k.quiet = j.quiet,
           k.at = IF "entry" \in DOMAIN j.view THEN "clear" ELSE "read",
           k.first = j.first, k.last = j.last, k.rebuilt = j.rebuilt,
           k.view = Over(new, j.view), k.cleared = j.cleared
    PROVE  JobTyped(k) /\ JobOK(k)
<1>1. PICK old : old = j.view OBVIOUS
<1>2. PICK view : view = Over(new, old) OBVIOUS
<1>3. DOMAIN view = {"sale"} \cup DOMAIN old
  <2>1. DOMAIN Over(new, old) = DOMAIN new \cup DOMAIN old BY OverIs
  <2> QED BY <2>1, <1>2
<1>4. view.sale = sale
  <2>1. "sale" \in DOMAIN new OBVIOUS
  <2>2. Over(new, old)["sale"] = new["sale"] BY <2>1, OverAt
  <2> QED BY <2>2, <1>2
<1>5. ASSUME NEW key \in DOMAIN old, key # "sale" PROVE view[key] = old[key]
  BY <1>2, <1>5, OverElse
<1>6. /\ "payment" \in DOMAIN old => view.payment = old.payment
      /\ "entry" \in DOMAIN old => view.entry = old.entry
  BY <1>5
<1>7. SalesRead(view)
  <2>1. BooksOK BY DEF SnapshotsOK, TypeOK
  <2>2. SalesRead(Now) /\ Now.sale = sale BY <2>1, NowRead DEF Now
  <2> QED BY <2>2, <1>4 DEF SalesRead
<1>8. ViewOK(j) /\ RowsOK(j) BY DEF JobOK
<1>9. "entry" \in DOMAIN old =>
         /\ "payment" \in DOMAIN old /\ RestRead(old)
         /\ j.quiet => old.payment = payment /\ old.entry = entry
  BY <1>1, <1>8 DEF ViewOK
<1>10. "entry" \in DOMAIN old => RestRead(view) BY <1>6, <1>9 DEF RestRead
<1>11. k.view = view BY <1>1, <1>2
<1>12. ViewOK(k) BY <1>3, <1>4, <1>6, <1>7, <1>9, <1>10, <1>11, <1>1 DEF ViewOK
<1>13. RowsOK(k) BY <1>8 DEF RowsOK
<1>14. JobTyped(k) BY DEF JobTyped, Steps
<1> QED BY <1>12, <1>13, <1>14 DEF JobOK

\* And so is the rest.
LEMMA ReadRestOK ==
    ASSUME SnapshotsOK, NEW j, JobTyped(j), JobOK(j), j.at = "read", "entry" \notin DOMAIN j.view,
           NEW new, DOMAIN new = {"payment", "entry"}, new.payment = payment, new.entry = entry,
           NEW k, DOMAIN k = DOMAIN j, k.quiet = j.quiet,
           k.at = IF "sale" \in DOMAIN j.view THEN "clear" ELSE "read",
           k.first = j.first, k.last = j.last, k.rebuilt = j.rebuilt,
           k.view = Over(new, j.view), k.cleared = j.cleared
    PROVE  JobTyped(k) /\ JobOK(k)
<1>1. PICK old : old = j.view OBVIOUS
<1>2. PICK view : view = Over(new, old) OBVIOUS
<1>3. DOMAIN view = {"payment", "entry"} \cup DOMAIN old
  <2>1. DOMAIN Over(new, old) = DOMAIN new \cup DOMAIN old BY OverIs
  <2> QED BY <2>1, <1>2
<1>4. view.payment = payment /\ view.entry = entry
  <2>1. "payment" \in DOMAIN new /\ "entry" \in DOMAIN new OBVIOUS
  <2>2. Over(new, old)["payment"] = new["payment"] BY <2>1, OverAt
  <2>3. Over(new, old)["entry"] = new["entry"] BY <2>1, OverAt
  <2> QED BY <2>2, <2>3, <1>2
<1>5. ASSUME NEW key \in DOMAIN old, key \notin {"payment", "entry"} PROVE view[key] = old[key]
  BY <1>2, <1>5, OverElse
<1>6. "sale" \in DOMAIN old => view.sale = old.sale BY <1>5
<1>7. RestRead(view)
  <2>1. BooksOK BY DEF SnapshotsOK, TypeOK
  <2>2. RestRead(Now) /\ Now.payment = payment BY <2>1, NowRead DEF Now
  <2> QED BY <2>2, <1>4 DEF RestRead
<1>8. ViewOK(j) /\ RowsOK(j) BY DEF JobOK
<1>9. "sale" \in DOMAIN old => SalesRead(old) /\ (j.quiet => old.sale = sale)
  BY <1>1, <1>8 DEF ViewOK
<1>10. "sale" \in DOMAIN old => SalesRead(view) BY <1>6, <1>9 DEF SalesRead
<1>11. k.view = view BY <1>1, <1>2
<1>12. ViewOK(k) BY <1>3, <1>4, <1>6, <1>7, <1>9, <1>10, <1>11, <1>1 DEF ViewOK
<1>13. RowsOK(k) BY <1>8 DEF RowsOK
<1>14. JobTyped(k) BY DEF JobTyped, Steps
<1> QED BY <1>12, <1>13, <1>14 DEF JobOK

\* What is deleted is what is there.
LEMMA ClearOK ==
    ASSUME SnapshotsOK, NEW j, JobTyped(j), JobOK(j), j.at = "clear",
           NEW k, DOMAIN k = DOMAIN j, k.quiet = j.quiet, k.at = "write",
           k.first = j.first, k.last = j.last, k.rebuilt = j.rebuilt,
           k.view = j.view, k.cleared = (j.first..j.last) \cap DOMAIN companyRow
    PROVE  JobTyped(k) /\ JobOK(k)
<1>1. ViewOK(j) /\ RowsOK(j) BY DEF JobOK
<1>2. ViewOK(k) BY <1>1 DEF ViewOK
<1>3. RowsOK(k) BY DEF RowsOK
<1>4. JobTyped(k) BY DEF JobTyped, Steps
<1> QED BY <1>2, <1>3, <1>4 DEF JobOK

\* Rows are built of the three parts of a view.
LEMMA SameView ==
    ASSUME NEW v, NEW w, w.sale = v.sale, w.payment = v.payment, w.entry = v.entry,
           NEW d, BuiltFrom(v, d)'
    PROVE  BuiltFrom(w, d)'
<1> USE DEF SalesCounted, PaymentsMade, EntriesMade
<1>1. BuildCompanyRow(w, d) = BuildCompanyRow(v, d)
  BY DEF BuildCompanyRow, SaleAmounts, Received, PurchasesMade, AmountOf, CashInflow,
         CashOutflow, FinancialAdjustments
<1>2. LinesCounted(w, d) = LinesCounted(v, d) BY DEF LinesCounted
<1>3. \A p : Sells(w, d, p) <=> Sells(v, d, p) BY <1>2 DEF Sells, LineOf
<1>4. \A p : BuildProductRow(w, d, p) = BuildProductRow(v, d, p)
  BY <1>2 DEF BuildProductRow, LineOf
<1>5. \A c : BoughtBy(w, d, c) = BoughtBy(v, d, c) BY DEF BoughtBy
<1>6. \A c : (PaidBy(w, d, c) = PaidBy(v, d, c))' BY DEF PaidBy
<1>7. \A c : (Meets(w, d, c) <=> Meets(v, d, c))' BY <1>5, <1>6 DEF Meets
<1>8. \A c : (BuildCustomerRow(w, d, c) = BuildCustomerRow(v, d, c))'
  BY <1>5, <1>6 DEF BuildCustomerRow, SaleAmounts, Received
<1>9. ProductsFrom(w, d, productRow)' BY <1>3, <1>4 DEF BuiltFrom, ProductsFrom
<1>10. CustomersFrom(w, d, customerRow)' BY <1>7, <1>8 DEF BuiltFrom, CustomersFrom
<1> QED BY <1>1, <1>9, <1>10 DEF BuiltFrom

\* A transaction that was not disturbed has deleted all rows of its days.
LEMMA UpsertOK ==
    ASSUME SnapshotsOK, NEW r \in Requests, UpsertRows(r),
           NEW k, DOMAIN k = DOMAIN job[r], k.quiet = job[r].quiet, k.at = "load",
           k.first = job[r].first, k.last = job[r].last, k.rebuilt = TRUE,
           k.view = Empty, k.cleared = {}
    PROVE  JobTyped(k) /\ JobOK(k)'
<1>1. PICK v : v = job[r].view OBVIOUS
<1>2. PICK R : R = Asked(r) OBVIOUS
<1>3. PICK cleared : cleared = job[r].cleared OBVIOUS
<1>4. At(r, "write") BY DEF UpsertRows
<1>5. /\ SalesRead(v) /\ RestRead(v) /\ R \in SUBSET Days /\ cleared \in SUBSET R
      /\ job[r].quiet => /\ v.sale = sale /\ v.payment = payment /\ v.entry = entry
                         /\ R \cap DOMAIN companyRow \subseteq cleared
      /\ JobTyped(job[r])
  BY <1>1, <1>2, <1>3, <1>4, WriterKnown
<1>6. Upserted(v, R, cleared) BY <1>1, <1>2, <1>3, UpsertIs
<1>7. TypeOK /\ TablesTyped /\ BooksOK BY DEF SnapshotsOK, TypeOK
<1>8. DOMAIN companyRow' = R \cup DOMAIN companyRow BY <1>5, <1>6, <1>7, UpsertTyped
<1>9. R = k.first..k.last BY <1>2 DEF Asked
<1>10. JobTyped(k) BY <1>5 DEF JobTyped, Steps
<1>11. ViewOK(k)'
  <2>1. DOMAIN k.view = {} BY DEF Empty
  <2> QED BY <2>1 DEF ViewOK
<1>12. ASSUME k.quiet, NEW d \in R PROVE BuiltFrom(Now, d)'
  <2>1. PICK now : now = Now /\ now = Now' BY <1>6 DEF Now, Upserted, books
  <2>2. d \in cleared \/ d \notin {key[1] : key \in Other(v, R)}
    <3>1. SUFFICES ASSUME d \notin cleared, NEW key \in Other(v, R), key[1] = d PROVE FALSE
      OBVIOUS
    <3>2. key[1] \in DOMAIN companyRow BY <3>1, <1>7 DEF Other, TablesTyped
    <3> QED BY <3>1, <3>2, <1>5, <1>12
  <2>3. BuiltFrom(v, d)' BY <2>2, <1>5, <1>6, <1>7, UpsertBuilds
  <2>4. now.sale = v.sale /\ now.payment = v.payment /\ now.entry = v.entry
    BY <2>1, <1>5, <1>12 DEF Now
  <2>5. BuiltFrom(now, d)' BY <2>3, <2>4, SameView
  <2> QED BY <2>1, <2>5 DEF BuiltFrom
<1>13. RowsOK(k)' BY <1>8, <1>9, <1>12 DEF RowsOK
<1> QED BY <1>10, <1>11, <1>13 DEF JobOK

\* The rows of the company are loaded.
LEMMA LoadCompanyOK ==
    ASSUME SnapshotsOK, NEW j, JobTyped(j), JobOK(j), j.at = "load",
           NEW k, DOMAIN k = DOMAIN j, k.quiet = j.quiet, k.at = "rest",
           k.first = j.first, k.last = j.last, k.rebuilt = j.rebuilt,
           k.view = j.view, k.cleared = j.cleared,
           k.company = [d \in (j.first..j.last) \cap DOMAIN companyRow |-> companyRow[d]]
    PROVE  JobTyped(k) /\ JobOK(k)
<1>1. ViewOK(j) /\ RowsOK(j) BY DEF JobOK
<1>2. ViewOK(k) BY <1>1 DEF ViewOK
<1>3. j.first..j.last \subseteq DOMAIN companyRow BY <1>1 DEF RowsOK
<1>4. PICK company : company = k.company OBVIOUS
<1>5. DOMAIN company = j.first..j.last /\ \A d \in j.first..j.last : company[d] = companyRow[d]
  BY <1>3, <1>4
<1>6. ASSUME k.quiet, k.rebuilt, NEW d \in k.first..k.last
      PROVE  BuiltFrom(Now, d) /\ company[d] = BuildCompanyRow(Now, d)
  <2>1. BuiltFrom(Now, d) BY <1>1, <1>6 DEF RowsOK
  <2> QED BY <2>1, <1>5, <1>6 DEF BuiltFrom
<1>7. RowsOK(k) BY <1>3, <1>4, <1>6 DEF RowsOK
<1>8. JobTyped(k) BY <1>4, <1>5 DEF JobTyped, Steps
<1> QED BY <1>2, <1>7, <1>8 DEF JobOK

\* And so are the others.
LEMMA LoadOthersOK ==
    ASSUME SnapshotsOK, NEW j, JobTyped(j), JobOK(j), j.at = "rest",
           NEW k, DOMAIN k = DOMAIN j, k.quiet = j.quiet, k.at = "answered",
           k.first = j.first, k.last = j.last, k.rebuilt = j.rebuilt,
           k.view = j.view, k.cleared = j.cleared, k.company = j.company,
           k.product = Without(productRow, Days \ (j.first..j.last)),
           k.customer = Without(customerRow, Days \ (j.first..j.last))
    PROVE  JobTyped(k) /\ JobOK(k)
<1> DEFINE R == j.first..j.last
<1>1. ViewOK(j) /\ RowsOK(j) BY DEF JobOK
<1>2. ViewOK(k) BY <1>1 DEF ViewOK
<1>3. R \subseteq DOMAIN companyRow BY <1>1 DEF RowsOK
<1>4. PICK products : products = Without(productRow, Days \ R) OBVIOUS
<1>5. PICK customers : customers = Without(customerRow, Days \ R) OBVIOUS
<1>6. TablesTyped BY DEF SnapshotsOK, TypeOK
<1>7. DOMAIN products \subseteq R \X Products /\ DOMAIN customers \subseteq R \X Customers
  <2>1. /\ \A x : x \in DOMAIN products <=> x \in DOMAIN productRow /\ x[1] \notin Days \ R
        /\ \A x : x \in DOMAIN customers <=> x \in DOMAIN customerRow /\ x[1] \notin Days \ R
    BY <1>4, <1>5, WithoutIs
  <2> QED BY <2>1, <1>6 DEF TablesTyped
<1>8. ASSUME k.quiet, k.rebuilt, NEW d \in R
      PROVE  /\ k.company[d] = BuildCompanyRow(Now, d)
             /\ ProductsFrom(Now, d, products) /\ CustomersFrom(Now, d, customers)
  <2>1. BuiltFrom(Now, d) /\ k.company[d] = BuildCompanyRow(Now, d) BY <1>1, <1>8 DEF RowsOK
  <2>2. ProductsFrom(Now, d, productRow) /\ CustomersFrom(Now, d, customerRow)
    BY <2>1 DEF BuiltFrom
  <2>3. ASSUME NEW rows, NEW x
        PROVE  /\ <<d, x>> \in DOMAIN Without(rows, Days \ R) <=> <<d, x>> \in DOMAIN rows
               /\ <<d, x>> \in DOMAIN rows => Without(rows, Days \ R)[<<d, x>>] = rows[<<d, x>>]
    BY <<d, x>>[1] = d, WithoutIs
  <2>4. ProductsFrom(Now, d, products) BY <2>2, <2>3, <1>4 DEF ProductsFrom
  <2>5. CustomersFrom(Now, d, customers) BY <2>2, <2>3, <1>5 DEF CustomersFrom
  <2> QED BY <2>1, <2>4, <2>5
<1>9. RowsOK(k) BY <1>3, <1>4, <1>5, <1>8 DEF RowsOK
<1>10. JobTyped(k)
  <2>1. DOMAIN j.company = R BY DEF JobTyped
  <2> QED BY <2>1, <1>4, <1>5, <1>7 DEF JobTyped, Steps
<1> QED BY <1>2, <1>9, <1>10 DEF JobOK

(***************************************************************************)
(* Every step.                                                             *)
(***************************************************************************)
\* What is true of the request that runs is true of the one that is kept.
LEMMA JobsAre ==
    ASSUME \A r \in Requests : \A j : j = job'[r] /\ j # Nothing => JobTyped(j) /\ JobOK(j)'
    PROVE  /\ JobsOK'
           /\ \A r \in Requests : job'[r] # Nothing => JobTyped(job'[r])
<1>1. ASSUME NEW r \in Requests, job'[r] # Nothing
      PROVE  JobTyped(job'[r]) /\ (JobOK(job[r]))'
  <2>1. PICK j : j = job'[r] OBVIOUS
  <2>2. JobTyped(j) /\ JobOK(j)' BY <1>1, <2>1
  <2>3. ViewOK(j)' /\ RowsOK(j)' BY <2>2 DEF JobOK
  <2>4. ViewOK(job[r])' BY <2>1, <2>3 DEF ViewOK
  <2>5. RowsOK(job[r])' BY <2>1, <2>3 DEF RowsOK
  <2> QED BY <2>1, <2>2, <2>4, <2>5 DEF JobOK
<1> QED BY <1>1 DEF JobsOK

\* The tables, when nobody writes them and the books keep what they had.
LEMMA TablesStay ==
    ASSUME SnapshotsOK, SalesStay, UNCHANGED <<companyRow, productRow, customerRow, mixed>>
    PROVE  TablesBuilt' /\ \A d : SameRows(d)
<1>1. ASSUME NEW d PROVE SameRows(d) BY DEF SameRows
<1>2. ASSUME NEW d \in DOMAIN companyRow, d \notin mixed
      PROVE  \E w : SalesRead(w)' /\ RestRead(w)' /\ BuiltFrom(w, d)'
  <2>1. PICK w : SalesRead(w) /\ RestRead(w) /\ BuiltFrom(w, d)
    BY <1>2 DEF SnapshotsOK, TablesBuilt
  <2>2. BuiltFrom(w, d)' BY <2>1, <1>1, <1>2, BuiltStays
  <2>3. SalesRead(w)' BY <2>1 DEF SalesRead
  <2>4. RestRead(w)' BY <2>1, RestReadStays
  <2> QED BY <2>2, <2>3, <2>4
<1> QED BY <1>1, <1>2 DEF TablesBuilt

\* A step of one request that writes no table.
LEMMA RequestStep ==
    ASSUME SnapshotsOK, UNCHANGED <<today, books, companyRow, productRow, customerRow, mixed>>,
           fresh' \subseteq fresh,
           NEW r \in Requests, NEW k, k # Nothing => JobTyped(k) /\ JobOK(k),
           job' = [job EXCEPT ![r] = k]
    PROVE  SnapshotsOK'
<1>1. BooksOK /\ TablesTyped /\ job = [q \in Requests |-> job[q]] BY DEF SnapshotsOK, TypeOK
<1>2. BooksOK' BY <1>1, BooksUnchangedOK
<1>3. TablesTyped' BY <1>1 DEF TablesTyped
<1>4. SalesStay /\ UNCHANGED <<sale, payment, entry>> BY DEF SalesStay, Exists, books
<1>5. TablesBuilt' /\ \A d : SameRows(d) BY <1>4, TablesStay
<1>6. job' = [q \in Requests |-> job'[q]] BY <1>1
<1>7. ASSUME NEW q \in Requests, NEW j, j = job'[q], j # Nothing
      PROVE  JobTyped(j) /\ JobOK(j)'
  <2>1. j = IF q = r THEN k ELSE job[q] BY <1>1, <1>7
  <2>2. JobTyped(j) /\ JobOK(j)
    <3>1. PICK i : i = job[q] OBVIOUS
    <3>2. i # Nothing => JobTyped(i) /\ JobOK(i) BY <3>1 DEF SnapshotsOK, TypeOK, JobsOK
    <3> QED BY <2>1, <3>1, <3>2, <1>7
  <2> QED BY <2>2, <1>1, <1>4, <1>5, JobStays
<1>8. JobsOK' /\ \A q \in Requests : job'[q] # Nothing => JobTyped(job'[q])
  BY <1>7, JobsAre
<1> QED BY <1>2, <1>3, <1>5, <1>6, <1>8 DEF SnapshotsOK, TypeOK

\* The fields of a request that is disturbed.
Untouched(j, k, range) == k = j /\ (j # Nothing => (j.first..j.last) \cap range = {})
\* A write leaves a request alone or disturbs it.
LEMMA DisturbedIs ==
    ASSUME NEW range, NEW r \in Requests, NEW j, j = job[r], j # Nothing => JobTyped(j)
    PROVE  LET k == Disturbed(job, range)[r]
           IN Untouched(j, k, range) \/ (j # Nothing /\ Left(j, k))
<1>0. PICK k : k = Disturbed(job, range)[r] OBVIOUS
<1>1. CASE j # Nothing /\ (j.first..j.last) \cap range # {}
  <2>1. k = [j EXCEPT !.quiet = FALSE] BY <1>0, <1>1 DEF Disturbed, Asked
  <2>2. Left(j, k) BY <1>1, <2>1 DEF JobTyped, Left
  <2> QED BY <1>0, <1>1, <2>2
<1>2. CASE ~(j # Nothing /\ (j.first..j.last) \cap range # {})
  <2>1. k = j BY <1>0, <1>2 DEF Disturbed, Asked
  <2>2. Untouched(j, k, range) BY <1>2, <2>1 DEF Untouched
  <2> QED BY <1>0, <2>2
<1> QED BY <1>1, <1>2

\* The books change, or the day: every request is disturbed.
LEMMA BooksStep ==
    ASSUME SnapshotsOK, Write \/ NextDay, job' = Disturbed(job, Days), UNCHANGED <<tables, mixed>>
    PROVE  SnapshotsOK'
<1>1. BooksOK /\ TablesTyped /\ job = [q \in Requests |-> job[q]] BY DEF SnapshotsOK, TypeOK
<1>2. BooksOK' BY <1>1, WriteOK, NextDayOK
<1>3. UNCHANGED <<companyRow, productRow, customerRow, fresh, mixed>> BY DEF tables
<1>4. TablesTyped' BY <1>1, <1>3 DEF TablesTyped
<1>5. SalesStay
  <2>1. CASE Write BY <1>1, <2>1, WriteStays
  <2>2. CASE NextDay BY <2>2 DEF NextDay, books, SalesStay, Exists
  <2> QED BY <2>1, <2>2
<1>6. TablesBuilt' BY <1>3, <1>5, TablesStay
<1>7. job' = [q \in Requests |-> job'[q]] BY DEF Disturbed
<1>8. ASSUME NEW q \in Requests, NEW k, k = job'[q], k # Nothing
      PROVE  JobTyped(k) /\ JobOK(k)'
  <2>1. PICK j : j = job[q] OBVIOUS
  <2>2. j # Nothing => JobTyped(j) /\ JobOK(j) BY <2>1 DEF SnapshotsOK, TypeOK, JobsOK
  <2>3. Untouched(j, k, Days) \/ (j # Nothing /\ Left(j, k))
    <3>1. k = Disturbed(job, Days)[q] BY <1>8
    <3> QED BY <2>1, <2>2, <3>1, DisturbedIs
  <2>4. ~Untouched(j, k, Days)
    <3>1. SUFFICES ASSUME k = j, (j.first..j.last) \cap Days = {} PROVE FALSE
      BY <1>8 DEF Untouched
    <3>2. j.first \in Days /\ j.last \in Days /\ j.first <= j.last
      BY <1>8, <2>2, <3>1 DEF JobTyped
    <3>3. \A m, n \in Nat : m <= n => m \in m..n OBVIOUS
    <3>4. j.first \in j.first..j.last BY <3>2, <3>3, DaysAreNumbers
    <3> QED BY <3>1, <3>2, <3>4
  <2> QED BY <2>2, <2>3, <2>4, <1>3, <1>5, JobLeft
<1>9. JobsOK' /\ \A q \in Requests : job'[q] # Nothing => JobTyped(job'[q])
  BY <1>8, JobsAre
<1> QED BY <1>2, <1>4, <1>6, <1>7, <1>9 DEF SnapshotsOK, TypeOK

\* A transaction ends: requests of other days go on, those of common days are disturbed.
LEMMA UpsertStep ==
    ASSUME SnapshotsOK, NEW r \in Requests, UpsertRows(r)
    PROVE  SnapshotsOK'
<1>1. BooksOK /\ TablesTyped /\ job = [q \in Requests |-> job[q]] BY DEF SnapshotsOK, TypeOK
<1>2. UNCHANGED <<today, books>> BY DEF UpsertRows
<1>3. BooksOK' BY <1>1, <1>2, BooksUnchangedOK
<1>4. TablesTyped' /\ TablesBuilt' /\ DOMAIN companyRow' = Asked(r) \cup DOMAIN companyRow
  BY UpsertTables
<1>5. SalesStay /\ UNCHANGED <<sale, payment, entry>> BY <1>2 DEF SalesStay, Exists, books
<1>6. PICK R : R = Asked(r) OBVIOUS
<1>7. PICK v : v = job[r].view OBVIOUS
<1>8. PICK cleared : cleared = job[r].cleared OBVIOUS
<1>9. At(r, "write") BY DEF UpsertRows
<1>10. SalesRead(v) /\ cleared \in SUBSET R /\ JobTyped(job[r])
  BY <1>6, <1>7, <1>8, <1>9, WriterKnown
<1>11. Upserted(v, R, cleared) BY <1>6, <1>7, <1>8, UpsertIs
<1>12. PICK own : own = [To(r, "load") EXCEPT !.rebuilt = TRUE, !.view = Empty, !.cleared = {}]
  OBVIOUS
<1>13. PICK others : others = Disturbed(job, R) OBVIOUS
<1>14. job' = [others EXCEPT ![r] = own] BY <1>6, <1>12, <1>13, UpsertIs
<1>15. DOMAIN others = Requests BY <1>13 DEF Disturbed
<1>16. job' = [q \in Requests |-> job'[q]] BY <1>14, <1>15
<1>17. ASSUME NEW q \in Requests, NEW k, k = job'[q], k # Nothing
       PROVE  JobTyped(k) /\ JobOK(k)'
  <2>1. PICK j : j = job[q] OBVIOUS
  <2>2. j # Nothing => JobTyped(j) /\ JobOK(j) BY <2>1 DEF SnapshotsOK, TypeOK, JobsOK
  <2>3. CASE q = r
    <3>1. k = own BY <2>3, <1>14, <1>15, <1>17
    <3>2. /\ DOMAIN own = DOMAIN job[r] /\ own.quiet = job[r].quiet /\ own.at = "load"
          /\ own.first = job[r].first /\ own.last = job[r].last /\ own.rebuilt = TRUE
          /\ own.view = Empty /\ own.cleared = {}
      BY <1>10, <1>12 DEF To, JobTyped
    <3> QED BY <3>1, <3>2, UpsertOK
  <2>4. CASE q # r
    <3>1. k = others[q] BY <2>4, <1>14, <1>15, <1>17
    <3>2. k = Disturbed(job, R)[q] BY <3>1, <1>13
    <3>3. Untouched(j, k, R) \/ (j # Nothing /\ Left(j, k))
      BY <3>2, <2>1, <2>2, DisturbedIs
    <3>4. CASE Untouched(j, k, R)
      <4>1. JobTyped(j) /\ JobOK(j) /\ (j.first..j.last) \cap R = {} /\ k = j
        BY <3>4, <2>2, <1>17 DEF Untouched
      <4>2. ASSUME NEW d \in j.first..j.last PROVE SameRows(d)
        <5>1. d \notin R BY <4>1
        <5> QED BY <5>1, <1>10, <1>11, UpsertLeaves
      <4> QED BY <4>1, <4>2, <1>1, <1>5, JobStays
    <3>5. CASE j # Nothing /\ Left(j, k) BY <3>5, <2>2, <1>4, <1>5, JobLeft
    <3> QED BY <3>3, <3>4, <3>5
  <2> QED BY <2>3, <2>4
<1>18. JobsOK' /\ \A q \in Requests : job'[q] # Nothing => JobTyped(job'[q])
  BY <1>17, JobsAre
<1> QED BY <1>3, <1>4, <1>16, <1>18 DEF SnapshotsOK, TypeOK

\* A request starts.
LEMMA MaterializeStep ==
    ASSUME SnapshotsOK, NEW r \in Requests, NEW first \in Days, NEW last \in Days,
           NEW force \in BOOLEAN, MaterializeCompanyRange(r, first, last, force)
    PROVE  SnapshotsOK'
<1> DEFINE new == [at |-> IF ShouldRebuildRange(first..last, force) THEN "read" ELSE "load",
                   first |-> first, last |-> last, rebuilt |-> FALSE, quiet |-> TRUE,
                   view |-> Empty, cleared |-> {},
                   company |-> Empty, product |-> Empty, customer |-> Empty]
<1>1. PICK k : k = new OBVIOUS
<1>2. first <= last /\ job' = [job EXCEPT ![r] = k]
      /\ UNCHANGED <<today, books, companyRow, productRow, customerRow, fresh, mixed>>
  BY <1>1 DEF MaterializeCompanyRange, tables
<1>3. JobTyped(k) /\ JobOK(k) BY <1>1, <1>2, StartOK
<1> QED BY <1>2, <1>3, RequestStep

\* A request reads, deletes or loads.
LEMMA ReadStep ==
    ASSUME SnapshotsOK, NEW r \in Requests,
           ReadSales(r) \/ ReadRest(r) \/ ClearAsked(r) \/ LoadCompanyRows(r) \/ LoadOtherRows(r)
    PROVE  SnapshotsOK'
<1>1. PICK j : j = job[r] OBVIOUS
<1>2. j # Nothing
      /\ UNCHANGED <<today, books, companyRow, productRow, customerRow, fresh, mixed>>
  BY <1>1 DEF ReadSales, ReadRest, ClearAsked, LoadCompanyRows, LoadOtherRows, At, tables
<1>3. JobTyped(j) /\ JobOK(j) BY <1>1, <1>2 DEF SnapshotsOK, TypeOK, JobsOK
<1>4. CASE ReadSales(r)
  <2>1. PICK new : new = [sale |-> sale] OBVIOUS
  <2>2. DOMAIN new = {"sale"} /\ new.sale = sale BY <2>1, SMT
  <2>3. PICK k : k = [[j EXCEPT !.at = IF "entry" \in DOMAIN j.view THEN "clear" ELSE "read"]
                         EXCEPT !.view = Over(new, @)]
    OBVIOUS
  <2>4. j.at = "read" /\ "sale" \notin DOMAIN j.view /\ job' = [job EXCEPT ![r] = k]
    BY <1>1, <1>4, <2>1, <2>3 DEF ReadSales, At, Seen, To
  <2>5. /\ DOMAIN k = DOMAIN j /\ k.quiet = j.quiet
        /\ k.at = (IF "entry" \in DOMAIN j.view THEN "clear" ELSE "read")
        /\ k.first = j.first /\ k.last = j.last /\ k.rebuilt = j.rebuilt
        /\ k.view = Over(new, j.view) /\ k.cleared = j.cleared
    BY <1>3, <2>3 DEF JobTyped
  <2>6. JobTyped(k) /\ JobOK(k) BY <1>3, <2>2, <2>4, <2>5, ReadSalesOK
  <2> QED BY <1>2, <2>4, <2>6, RequestStep
<1>5. CASE ReadRest(r)
  <2>1. PICK new : new = [payment |-> payment, entry |-> entry] OBVIOUS
  <2>2. DOMAIN new = {"payment", "entry"} /\ new.payment = payment /\ new.entry = entry
    BY <2>1, SMT
  <2>3. PICK k : k = [[j EXCEPT !.at = IF "sale" \in DOMAIN j.view THEN "clear" ELSE "read"]
                         EXCEPT !.view = Over(new, @)]
    OBVIOUS
  <2>4. j.at = "read" /\ "entry" \notin DOMAIN j.view /\ job' = [job EXCEPT ![r] = k]
    BY <1>1, <1>5, <2>1, <2>3 DEF ReadRest, At, Seen, To
  <2>5. /\ DOMAIN k = DOMAIN j /\ k.quiet = j.quiet
        /\ k.at = (IF "sale" \in DOMAIN j.view THEN "clear" ELSE "read")
        /\ k.first = j.first /\ k.last = j.last /\ k.rebuilt = j.rebuilt
        /\ k.view = Over(new, j.view) /\ k.cleared = j.cleared
    BY <1>3, <2>3 DEF JobTyped
  <2>6. JobTyped(k) /\ JobOK(k) BY <1>3, <2>2, <2>4, <2>5, ReadRestOK
  <2> QED BY <1>2, <2>4, <2>6, RequestStep
<1>6. CASE ClearAsked(r)
  <2>1. PICK k : k = [[j EXCEPT !.at = "write"]
                         EXCEPT !.cleared = (j.first..j.last) \cap DOMAIN companyRow]
    OBVIOUS
  <2>2. j.at = "clear" /\ job' = [job EXCEPT ![r] = k]
    BY <1>1, <1>6, <2>1 DEF ClearAsked, At, To, Asked
  <2>3. /\ DOMAIN k = DOMAIN j /\ k.quiet = j.quiet /\ k.at = "write"
        /\ k.first = j.first /\ k.last = j.last /\ k.rebuilt = j.rebuilt
        /\ k.view = j.view /\ k.cleared = (j.first..j.last) \cap DOMAIN companyRow
    BY <1>3, <2>1 DEF JobTyped
  <2>4. JobTyped(k) /\ JobOK(k) BY <1>3, <2>2, <2>3, ClearOK
  <2> QED BY <1>2, <2>2, <2>4, RequestStep
<1>7. CASE LoadCompanyRows(r)
  <2>1. PICK k : k = [[j EXCEPT !.at = "rest"]
            EXCEPT !.company = [d \in (j.first..j.last) \cap DOMAIN companyRow |-> companyRow[d]]]
    OBVIOUS
  <2>2. j.at = "load" /\ job' = [job EXCEPT ![r] = k]
    BY <1>1, <1>7, <2>1 DEF LoadCompanyRows, At, To, Asked
  <2>3. /\ DOMAIN k = DOMAIN j /\ k.quiet = j.quiet /\ k.at = "rest"
        /\ k.first = j.first /\ k.last = j.last /\ k.rebuilt = j.rebuilt
        /\ k.view = j.view /\ k.cleared = j.cleared
        /\ k.company = [d \in (j.first..j.last) \cap DOMAIN companyRow |-> companyRow[d]]
    BY <1>3, <2>1 DEF JobTyped
  <2>4. JobTyped(k) /\ JobOK(k) BY <1>3, <2>2, <2>3, LoadCompanyOK
  <2> QED BY <1>2, <2>2, <2>4, RequestStep
<1>8. CASE LoadOtherRows(r)
  <2>1. PICK k : k = [[j EXCEPT !.at = "answered"]
                         EXCEPT !.product = Without(productRow, Days \ (j.first..j.last)),
                                !.customer = Without(customerRow, Days \ (j.first..j.last))]
    OBVIOUS
  <2>2. j.at = "rest" /\ job' = [job EXCEPT ![r] = k]
    BY <1>1, <1>8, <2>1 DEF LoadOtherRows, At, To, Asked
  <2>3. /\ DOMAIN k = DOMAIN j /\ k.quiet = j.quiet /\ k.at = "answered"
        /\ k.first = j.first /\ k.last = j.last /\ k.rebuilt = j.rebuilt
        /\ k.view = j.view /\ k.cleared = j.cleared /\ k.company = j.company
        /\ k.product = Without(productRow, Days \ (j.first..j.last))
        /\ k.customer = Without(customerRow, Days \ (j.first..j.last))
    BY <1>3, <2>1 DEF JobTyped
  <2>4. JobTyped(k) /\ JobOK(k) BY <1>3, <2>2, <2>3, LoadOthersOK
  <2> QED BY <1>2, <2>2, <2>4, RequestStep
<1> QED BY <1>4, <1>5, <1>6, <1>7, <1>8

\* A request ends, with its answer or without.
LEMMA EndStep ==
    ASSUME SnapshotsOK, NEW r \in Requests, Abort(r) \/ Forget(r)
    PROVE  SnapshotsOK'
<1>1. job' = [job EXCEPT ![r] = Nothing]
      /\ UNCHANGED <<today, books, companyRow, productRow, customerRow, fresh, mixed>>
  BY DEF Abort, Forget, tables
<1> QED BY <1>1, RequestStep

\* Rows grow old.
LEMMA AgeStep == ASSUME SnapshotsOK, Age PROVE SnapshotsOK'
<1>1. /\ \A r \in Requests : job[r] = Nothing
      /\ fresh' = {} /\ UNCHANGED <<today, books, companyRow, productRow, customerRow, job, mixed>>
  BY DEF Age
<1>2. BooksOK /\ TablesTyped /\ job = [q \in Requests |-> job[q]] BY DEF SnapshotsOK, TypeOK
<1>3. BooksOK' BY <1>1, <1>2, BooksUnchangedOK
<1>4. TablesTyped' BY <1>1, <1>2 DEF TablesTyped
<1>5. SalesStay BY <1>1 DEF SalesStay, Exists, books
<1>6. TablesBuilt' BY <1>1, <1>5, TablesStay
<1>7. job' = [q \in Requests |-> job'[q]] /\ \A q \in Requests : job'[q] = Nothing BY <1>1, <1>2
<1>8. JobsOK' BY <1>7 DEF JobsOK
<1> QED BY <1>3, <1>4, <1>6, <1>7, <1>8 DEF SnapshotsOK, TypeOK

\* A step that changes nothing.
LEMMA StutterStep == ASSUME SnapshotsOK, UNCHANGED vars PROVE SnapshotsOK'
<1>1. UNCHANGED <<today, books, companyRow, productRow, customerRow, fresh, job, mixed>>
  BY DEF vars, tables
<1>2. BooksOK /\ TablesTyped /\ TypeOK BY DEF SnapshotsOK, TypeOK
<1>3. BooksOK' BY <1>1, <1>2, BooksUnchangedOK
<1>4. TablesTyped' BY <1>1, <1>2 DEF TablesTyped
<1>5. TypeOK' BY <1>1, <1>2, <1>3, <1>4 DEF TypeOK
<1>6. SalesStay /\ UNCHANGED <<sale, payment, entry>> BY <1>1 DEF SalesStay, Exists, books
<1>7. TablesBuilt' /\ \A d : SameRows(d) BY <1>1, <1>6, TablesStay
<1>8. ASSUME NEW q \in Requests, NEW j, j = job'[q], j # Nothing
      PROVE  JobTyped(j) /\ JobOK(j)'
  <2>1. j = job[q] BY <1>1, <1>8
  <2>2. JobTyped(j) /\ JobOK(j) BY <2>1, <1>8 DEF SnapshotsOK, TypeOK, JobsOK
  <2> QED BY <2>2, <1>2, <1>6, <1>7, JobStays
<1>9. JobsOK' BY <1>8, JobsAre
<1> QED BY <1>5, <1>7, <1>9 DEF SnapshotsOK

\* The invariant of the snapshots holds at first.
LEMMA SnapshotsInit == ASSUME Init PROVE SnapshotsOK
<1>1. BooksOK BY BooksInitOK DEF Init
<1>2. /\ DOMAIN companyRow = {} /\ DOMAIN productRow = {} /\ DOMAIN customerRow = {}
      /\ fresh = {} /\ mixed = {} /\ job = [r \in Requests |-> Nothing]
  BY DEF Init, Empty
<1>3. TypeOK BY <1>1, <1>2 DEF TypeOK, TablesTyped
<1>4. TablesBuilt /\ JobsOK BY <1>2 DEF TablesBuilt, JobsOK
<1> QED BY <1>3, <1>4 DEF SnapshotsOK

\* Every step keeps the invariant of the snapshots.
LEMMA SnapshotsKept == ASSUME SnapshotsOK, [Next]_vars PROVE SnapshotsOK'
<1>1. CASE (Write \/ NextDay) /\ job' = Disturbed(job, Days) /\ UNCHANGED <<tables, mixed>>
  BY <1>1, BooksStep
<1>2. ASSUME NEW r \in Requests,
             \E first, last \in Days, force \in BOOLEAN :
                MaterializeCompanyRange(r, first, last, force)
      PROVE  SnapshotsOK'
  BY <1>2, MaterializeStep
<1>3. ASSUME NEW r \in Requests,
             ReadSales(r) \/ ReadRest(r) \/ ClearAsked(r) \/ LoadCompanyRows(r) \/ LoadOtherRows(r)
      PROVE  SnapshotsOK'
  BY <1>3, ReadStep
<1>4. ASSUME NEW r \in Requests, UpsertRows(r) PROVE SnapshotsOK' BY <1>4, UpsertStep
<1>5. ASSUME NEW r \in Requests, Abort(r) \/ Forget(r) PROVE SnapshotsOK' BY <1>5, EndStep
<1>6. CASE Age BY <1>6, AgeStep
<1>7. CASE UNCHANGED vars BY <1>7, StutterStep
<1> QED BY <1>1, <1>2, <1>3, <1>4, <1>5, <1>6, <1>7 DEF Next

\* So it always holds.
LEMMA SnapshotsAlwaysOK == Spec => []SnapshotsOK
<1>1. Init => SnapshotsOK BY SnapshotsInit
<1>2. SnapshotsOK /\ [Next]_vars => SnapshotsOK' BY SnapshotsKept
<1> QED BY <1>1, <1>2, PTL DEF Spec

(***************************************************************************)
(* The tables agree.                                                       *)
(***************************************************************************)
\* What a view says of each sale and payment.
SaleSeen(v) == [s \in Sales |-> v.sale[s].form.total]
CostSeen(v) == [s \in Sales |-> v.sale[s].form.cost]
BuyerSeen(v) == [s \in Sales |-> v.sale[s].form.customer]
PaymentSeen(v) == [p \in Payments |-> v.payment[p].amount]

\* As many elements under other names.
LEMMA CountedOnce ==
    ASSUME NEW S, IsFiniteSet(S), NEW T, NEW f, \A x \in S : f[x] \in T,
           \A y \in T : \E x \in S : f[x] = y, \A x, y \in S : f[x] = f[y] => x = y
    PROVE  IsFiniteSet(T) /\ Cardinality(T) = Cardinality(S)
<1> DEFINE g == [x \in S |-> f[x]]
<1>1. g \in Bijection(S, T) BY DEF Bijection, Injection, Surjection, IsInjective
<1>2. ExistsBijection(S, T) BY <1>1 DEF ExistsBijection
<1> QED BY <1>2, FS_Bijection

\* Sales of a view that are counted, and what they amount to.
LEMMA SaleAmountsAre ==
    ASSUME NEW v, SalesRead(v), NEW S, \A s \in S : \E d : s \in SalesCounted(v, d)
    PROVE  /\ SaleAmounts(v, S).count = Cardinality(S)
           /\ SaleAmounts(v, S).amount = SumOver(SaleSeen(v), S)
           /\ SaleAmounts(v, S).cost = SumOver(CostSeen(v), S)
           /\ \A s \in S : /\ s \in Sales /\ v.sale[s].form \in Forms
                           /\ SaleSeen(v)[s] \in Nat /\ CostSeen(v)[s] \in Nat
                           /\ BuyerSeen(v)[s] = v.sale[s].form.customer
                           /\ BuyerSeen(v)[s] \in Customers \cup {Nothing}
           /\ IsFiniteSet(S) /\ Cardinality(S) \in Nat
           /\ SumOver(SaleSeen(v), S) \in Nat /\ SumOver(CostSeen(v), S) \in Nat
<1> DEFINE f == [s \in S |-> v.sale[s].form.total]
           g == [s \in S |-> v.sale[s].form.cost]
<1>1. /\ SaleAmounts(v, S).count = Cardinality(S)
      /\ SaleAmounts(v, S).amount = Sum(f) /\ SaleAmounts(v, S).cost = Sum(g)
  BY DEF SaleAmounts
<1>2. \A s \in S : s \in Sales /\ v.sale[s].form \in Forms BY CountedTyped
<1>3. \A s \in S : /\ SaleSeen(v)[s] = v.sale[s].form.total
                   /\ CostSeen(v)[s] = v.sale[s].form.cost
                   /\ BuyerSeen(v)[s] = v.sale[s].form.customer
  BY <1>2 DEF SaleSeen, CostSeen, BuyerSeen
<1>4. \A s \in S : /\ SaleSeen(v)[s] \in Nat /\ CostSeen(v)[s] \in Nat
                   /\ BuyerSeen(v)[s] \in Customers \cup {Nothing}
  BY <1>2, <1>3, FormTyped
<1>5. IsFiniteSet(S) /\ Cardinality(S) \in Nat BY <1>2, RowsFinite, SubsetFinite
<1>6. /\ f = [s \in S |-> f[s]] /\ \A s \in S : f[s] = SaleSeen(v)[s]
      /\ g = [s \in S |-> g[s]] /\ \A s \in S : g[s] = CostSeen(v)[s]
  BY <1>3
<1> HIDE DEF f, g
<1>7. Sum(f) = SumOver(SaleSeen(v), S) BY <1>6, SumIs
<1>8. Sum(g) = SumOver(CostSeen(v), S) BY <1>6, SumIs
<1>9. SumOver(SaleSeen(v), S) \in Nat BY <1>4, <1>5, SumOverNat
<1>10. SumOver(CostSeen(v), S) \in Nat BY <1>4, <1>5, SumOverNat
<1> QED BY <1>1, <1>2, <1>3, <1>4, <1>5, <1>7, <1>8, <1>9, <1>10

\* And payments.
LEMMA ReceivedIs ==
    ASSUME NEW v, RestRead(v), NEW S, \A p \in S : \E d : p \in PaymentsMade(v, d)
    PROVE  /\ Received(v, S) = SumOver(PaymentSeen(v), S)
           /\ \A p \in S : p \in Payments /\ PaymentSeen(v)[p] \in Nat
           /\ IsFiniteSet(S) /\ SumOver(PaymentSeen(v), S) \in Nat
<1> DEFINE f == [p \in S |-> v.payment[p].amount]
<1>1. Received(v, S) = Sum(f) BY DEF Received
<1>2. \A p \in S : p \in Payments /\ v.payment[p] # Nothing BY DEF PaymentsMade
<1>3. \A p \in S : v.payment[p] \in PaymentRows BY <1>2 DEF RestRead
<1>4. Amounts \subseteq Nat BY ReportsAssumption
<1>5. \A p \in S : PaymentSeen(v)[p] = v.payment[p].amount /\ PaymentSeen(v)[p] \in Nat
  BY <1>2, <1>3, <1>4 DEF PaymentSeen, PaymentRows
<1>6. IsFiniteSet(S) BY <1>2, RowsFinite, SubsetFinite
<1>7. f = [p \in S |-> f[p]] /\ \A p \in S : f[p] = PaymentSeen(v)[p] BY <1>5
<1> HIDE DEF f
<1>8. Sum(f) = SumOver(PaymentSeen(v), S) BY <1>7, SumIs
<1>9. SumOver(PaymentSeen(v), S) \in Nat BY <1>5, <1>6, SumOverNat
<1> QED BY <1>1, <1>2, <1>5, <1>6, <1>8, <1>9

\* The rows of customers of a day that was built of a view.
LEMMA RowsOfDay ==
    ASSUME NEW v, NEW d, NEW rows, CustomersFrom(v, d, rows),
           \A k \in DOMAIN rows : \E e : \E c \in Customers : k = <<e, c>>
    PROVE  \A k : k \in DOMAIN rows /\ k[1] = d <=>
                     \E c \in Customers : k = <<d, c>> /\ Meets(v, d, c)
BY DEF CustomersFrom

\* A day that was built of one view: its rows agree.
LEMMA DayAgrees ==
    ASSUME SnapshotsOK, NEW d \in DOMAIN companyRow, NEW v, SalesRead(v), RestRead(v),
           BuiltFrom(v, d)
    PROVE  LET customers == {k \in DOMAIN customerRow : k[1] = d}
               buyers == {k \in customers : customerRow[k].sales.count > 0}
               products == {k \in DOMAIN productRow : k[1] = d}
           IN /\ Cardinality(buyers) = companyRow[d].customers
              /\ Sum([k \in customers |-> customerRow[k].sales.amount])
                    <= companyRow[d].sales.amount
              /\ Sum([k \in customers |-> customerRow[k].received]) <= companyRow[d].received
              /\ \A k \in products : productRow[k].count \in 1..companyRow[d].sales.count
<1> DEFINE customers == {k \in DOMAIN customerRow : k[1] = d}
           buyers == {k \in customers : customerRow[k].sales.count > 0}
           products == {k \in DOMAIN productRow : k[1] = d}
           counted == SalesCounted(v, d)
           made == PaymentsMade(v, d)
<1>1. TablesTyped BY DEF SnapshotsOK, TypeOK
<1>2. /\ companyRow[d] = BuildCompanyRow(v, d)
      /\ ProductsFrom(v, d, productRow) /\ CustomersFrom(v, d, customerRow)
  BY DEF BuiltFrom
<1>3. /\ companyRow[d].sales = SaleAmounts(v, counted)
      /\ companyRow[d].customers
            = Cardinality({v.sale[s].form.customer : s \in counted} \ {Nothing})
      /\ companyRow[d].received = Received(v, made)
  BY <1>2 DEF BuildCompanyRow
<1>4. /\ SaleAmounts(v, counted).count = Cardinality(counted)
      /\ SaleAmounts(v, counted).amount = SumOver(SaleSeen(v), counted)
      /\ \A s \in counted : /\ s \in Sales /\ v.sale[s].form \in Forms
                            /\ SaleSeen(v)[s] \in Nat
                            /\ BuyerSeen(v)[s] = v.sale[s].form.customer
                            /\ BuyerSeen(v)[s] \in Customers \cup {Nothing}
      /\ IsFiniteSet(counted) /\ Cardinality(counted) \in Nat
  BY SaleAmountsAre
<1>5. /\ Received(v, made) = SumOver(PaymentSeen(v), made)
      /\ \A p \in made : p \in Payments /\ PaymentSeen(v)[p] \in Nat
      /\ IsFiniteSet(made)
  BY ReceivedIs
<1>6. /\ \A k : k \in customers <=> \E c \in Customers : k = <<d, c>> /\ Meets(v, d, c)
      /\ \A c \in Customers : Meets(v, d, c) =>
            customerRow[<<d, c>>] = BuildCustomerRow(v, d, c)
  <2>1. \A k \in DOMAIN customerRow : \E e : \E c \in Customers : k = <<e, c>>
    BY <1>1 DEF TablesTyped
  <2> QED BY <2>1, <1>2, RowsOfDay DEF CustomersFrom
<1>7. ASSUME NEW c \in Customers, Meets(v, d, c)
      PROVE  /\ customerRow[<<d, c>>].sales.count = Cardinality(BoughtBy(v, d, c))
             /\ customerRow[<<d, c>>].sales.amount = SumOver(SaleSeen(v), BoughtBy(v, d, c))
             /\ customerRow[<<d, c>>].received = SumOver(PaymentSeen(v), PaidBy(v, d, c))
             /\ IsFiniteSet(BoughtBy(v, d, c)) /\ Cardinality(BoughtBy(v, d, c)) \in Nat
  <2>1. customerRow[<<d, c>>] = BuildCustomerRow(v, d, c) BY <1>6, <1>7
  <2>2. /\ customerRow[<<d, c>>].sales = SaleAmounts(v, BoughtBy(v, d, c))
        /\ customerRow[<<d, c>>].received = Received(v, PaidBy(v, d, c))
    BY <2>1 DEF BuildCustomerRow
  <2>3. \A s \in BoughtBy(v, d, c) : \E e : s \in SalesCounted(v, e) BY DEF BoughtBy
  <2>4. \A p \in PaidBy(v, d, c) : \E e : p \in PaymentsMade(v, e) BY DEF PaidBy
  <2>5. Received(v, PaidBy(v, d, c)) = SumOver(PaymentSeen(v), PaidBy(v, d, c))
    BY <2>4, ReceivedIs
  <2> QED BY <2>2, <2>3, <2>5, SaleAmountsAre
<1>8. IsFiniteSet(customers)
  <2> DEFINE row == [c \in Customers |-> <<d, c>>]
  <2>1. \A k \in customers : \E c \in Customers : row[c] = k BY <1>6
  <2> HIDE DEF customers, row
  <2> QED BY <2>1, RowsFinite, ImageFinite
<1> HIDE DEF customers
<1>9. Cardinality(buyers) = companyRow[d].customers
  <2> DEFINE names == {v.sale[s].form.customer : s \in counted} \ {Nothing}
             row == [c \in Customers |-> <<d, c>>]
  <2>1. \A c : c \in names <=> c \in Customers /\ BoughtBy(v, d, c) # {}
    <3>1. \A c : c \in names => c \in Customers BY <1>4
    <3>2. \A c \in Customers : c # Nothing BY ReportsAssumption
    <3> QED BY <3>1, <3>2 DEF BoughtBy
  <2>2. IsFiniteSet(names) BY <2>1, RowsFinite, SubsetFinite
  <2>3. \A c \in Customers : Meets(v, d, c) =>
           (customerRow[<<d, c>>].sales.count > 0 <=> BoughtBy(v, d, c) # {})
    <3> TAKE c \in Customers
    <3> HAVE Meets(v, d, c)
    <3>1. Cardinality(BoughtBy(v, d, c)) = 0 <=> BoughtBy(v, d, c) = {} BY <1>7, FS_EmptySet
    <3> QED BY <3>1, <1>7
  <2>4. \A c \in Customers : BoughtBy(v, d, c) # {} => Meets(v, d, c) BY DEF Meets
  <2>5. \A k : k \in buyers <=> \E c \in names : k = row[c]
    BY <2>1, <2>3, <2>4, <1>6
  <2>6. \A c \in names : row[c] = <<d, c>> BY <2>1
  <2> HIDE DEF names, row, buyers
  <2>7. \A c \in names : row[c] \in buyers BY <2>5
  <2>8. \A k \in buyers : \E c \in names : row[c] = k BY <2>5
  <2>9. \A b, c \in names : row[b] = row[c] => b = c BY <2>6
  <2>10. Cardinality(buyers) = Cardinality(names) BY <2>2, <2>7, <2>8, <2>9, CountedOnce
  <2> QED BY <2>10, <1>3 DEF names
<1>10. Sum([k \in customers |-> customerRow[k].sales.amount]) <= companyRow[d].sales.amount
  <2> DEFINE g == [k \in customers |-> customerRow[k].sales.amount]
             known == {s \in counted : BuyerSeen(v)[s] # Nothing}
             key == [s \in Sales |-> <<d, BuyerSeen(v)[s]>>]
             part == [k \in customers |-> BoughtBy(v, d, k[2])]
  <2>1. \A s \in known : SaleSeen(v)[s] \in Int /\ key[s] \in customers
    <3> TAKE s \in known
    <3>1. s \in Sales /\ BuyerSeen(v)[s] \in Customers /\ SaleSeen(v)[s] \in Nat
          /\ BuyerSeen(v)[s] = v.sale[s].form.customer
      BY <1>4
    <3>2. s \in BoughtBy(v, d, BuyerSeen(v)[s]) BY <3>1 DEF BoughtBy
    <3>3. Meets(v, d, BuyerSeen(v)[s]) BY <3>2 DEF Meets
    <3> QED BY <3>1, <3>3, <1>6
  <2>2. \A k \in customers : \A s : s \in part[k] <=> s \in known /\ key[s] = k
    <3> TAKE k \in customers
    <3>1. PICK c \in Customers : k = <<d, c>> BY <1>6
    <3>2. c # Nothing BY ReportsAssumption
    <3>3. part[k] = BoughtBy(v, d, c) BY <3>1
    <3>4. \A s : s \in BoughtBy(v, d, c) <=> s \in counted /\ BuyerSeen(v)[s] = c
      BY <1>4 DEF BoughtBy
    <3>5. \A s \in counted : key[s] = k <=> BuyerSeen(v)[s] = c BY <3>1, <1>4
    <3> QED BY <3>2, <3>3, <3>4, <3>5
  <2>3. \A k \in customers : g[k] = SumOver(SaleSeen(v), part[k])
    <3> TAKE k \in customers
    <3>1. PICK c \in Customers : k = <<d, c>> /\ Meets(v, d, c) BY <1>6
    <3>2. part[k] = BoughtBy(v, d, c) /\ g[k] = customerRow[<<d, c>>].sales.amount BY <3>1
    <3> QED BY <3>1, <3>2, <1>7
  <2>4. known \in SUBSET counted OBVIOUS
  <2>5. IsFiniteSet(known) BY <2>4, <1>4, SubsetFinite
  <2>6. g = [k \in customers |-> g[k]] OBVIOUS
  <2> HIDE DEF g, known, key, part, counted
  <2>7. SumOver(SaleSeen(v), known) = SumOver(g, customers)
    BY <1>8, <2>1, <2>2, <2>3, <2>5, SumOverParts, SMTT(30)
  <2>8. SumOver(SaleSeen(v), known) <= SumOver(SaleSeen(v), counted)
    BY <1>4, <2>4, SumOverSubset
  <2>9. Sum(g) = SumOver(g, customers) BY <2>6, SumIs
  <2> QED BY <2>7, <2>8, <2>9, <1>3, <1>4 DEF g, counted
<1>11. Sum([k \in customers |-> customerRow[k].received]) <= companyRow[d].received
  <2> DEFINE g == [k \in customers |-> customerRow[k].received]
             payer == [p \in Payments |-> Customer(v.payment[p].sale)]
             known == {p \in made : payer[p] \in Customers}
             key == [p \in Payments |-> <<d, payer[p]>>]
             part == [k \in customers |-> PaidBy(v, d, k[2])]
  <2>1. \A p \in known : PaymentSeen(v)[p] \in Int /\ key[p] \in customers
    <3> TAKE p \in known
    <3>1. p \in Payments /\ payer[p] \in Customers /\ PaymentSeen(v)[p] \in Nat
          /\ payer[p] = Customer(v.payment[p].sale)
      BY <1>5
    <3>2. p \in PaidBy(v, d, payer[p]) BY <3>1 DEF PaidBy
    <3>3. Meets(v, d, payer[p]) BY <3>2 DEF Meets
    <3> QED BY <3>1, <3>3, <1>6
  <2>2. \A k \in customers : \A p : p \in part[k] <=> p \in known /\ key[p] = k
    <3> TAKE k \in customers
    <3>1. PICK c \in Customers : k = <<d, c>> BY <1>6
    <3>2. part[k] = PaidBy(v, d, c) BY <3>1
    <3>3. \A p : p \in PaidBy(v, d, c) <=> p \in made /\ payer[p] = c
      BY <1>5 DEF PaidBy
    <3>4. \A p \in made : key[p] = k <=> payer[p] = c BY <3>1, <1>5
    <3> QED BY <3>1, <3>2, <3>3, <3>4
  <2>3. \A k \in customers : g[k] = SumOver(PaymentSeen(v), part[k])
    <3> TAKE k \in customers
    <3>1. PICK c \in Customers : k = <<d, c>> /\ Meets(v, d, c) BY <1>6
    <3>2. part[k] = PaidBy(v, d, c) /\ g[k] = customerRow[<<d, c>>].received BY <3>1
    <3> QED BY <3>1, <3>2, <1>7
  <2>4. known \in SUBSET made OBVIOUS
  <2>5. IsFiniteSet(known) BY <2>4, <1>5, SubsetFinite
  <2>6. g = [k \in customers |-> g[k]] OBVIOUS
  <2> HIDE DEF g, known, key, part, made
  <2>7. SumOver(PaymentSeen(v), known) = SumOver(g, customers)
    BY <1>8, <2>1, <2>2, <2>3, <2>5, SumOverParts, SMTT(30)
  <2>8. SumOver(PaymentSeen(v), known) <= SumOver(PaymentSeen(v), made)
    BY <1>5, <2>4, SumOverSubset
  <2>9. Sum(g) = SumOver(g, customers) BY <2>6, SumIs
  <2> QED BY <2>7, <2>8, <2>9, <1>3, <1>5 DEF g, made
<1>12. ASSUME NEW k \in products PROVE productRow[k].count \in 1..companyRow[d].sales.count
  <2>1. PICK p \in Products : k = <<d, p>> BY <1>1 DEF TablesTyped
  <2>2. Sells(v, d, p) /\ productRow[k] = BuildProductRow(v, d, p)
    BY <2>1, <1>2 DEF ProductsFrom
  <2> DEFINE lines == {l \in LinesCounted(v, d) : LineOf(v, l).product = p}
             sold == {l[1] : l \in lines}
  <2>3. productRow[k].count = Cardinality(sold) BY <2>2 DEF BuildProductRow
  <2>4. sold # {} BY <2>2 DEF Sells
  <2>5. \A s \in sold : s \in counted BY DEF LinesCounted
  <2>6. /\ IsFiniteSet(sold) /\ Cardinality(sold) \in Nat
        /\ Cardinality(sold) <= Cardinality(counted)
    BY <2>5, <1>4, SubsetFinite
  <2>7. Cardinality(sold) # 0 BY <2>4, <2>6, FS_EmptySet
  <2> QED BY <2>3, <2>6, <2>7, <1>3, <1>4
<1> QED BY <1>9, <1>10, <1>11, <1>12 DEF customers

(* The rows of a day that no two rebuilds share tell of the same sales and   *)
(* payments in the three tables, however requests and writes interleave      *)
(* (analytics-snapshots.service.ts rebuildRange).                            *)
THEOREM TablesAreOfOneRebuild == Spec => []TablesAgree
<1>1. SnapshotsOK => TablesAgree
  <2> SUFFICES ASSUME SnapshotsOK, NEW d \in DOMAIN companyRow \ mixed
               PROVE  LET customers == {k \in DOMAIN customerRow : k[1] = d}
                          buyers == {k \in customers : customerRow[k].sales.count > 0}
                          products == {k \in DOMAIN productRow : k[1] = d}
                      IN /\ Cardinality(buyers) = companyRow[d].customers
                         /\ Sum([k \in customers |-> customerRow[k].sales.amount])
                               <= companyRow[d].sales.amount
                         /\ Sum([k \in customers |-> customerRow[k].received])
                               <= companyRow[d].received
                         /\ \A k \in products :
                               productRow[k].count \in 1..companyRow[d].sales.count
    BY DEF TablesAgree
  <2>1. PICK v : SalesRead(v) /\ RestRead(v) /\ BuiltFrom(v, d) BY DEF SnapshotsOK, TablesBuilt
  <2> QED BY <2>1, DayAgrees
<1> QED BY <1>1, SnapshotsAlwaysOK, PTL

\* The type invariant of the tables and of the requests.
THEOREM SnapshotsTyped == Spec => []TypeOK
<1>1. SnapshotsOK => TypeOK BY DEF SnapshotsOK
<1> QED BY <1>1, SnapshotsAlwaysOK, PTL

(***************************************************************************)
(* The answers are true.                                                   *)
(***************************************************************************)
\* An answer of which every row is that of the books as they are.
Told(a, R) ==
    /\ R \in SUBSET Days /\ DOMAIN a.company = R
    /\ DOMAIN a.product \subseteq R \X Products /\ DOMAIN a.customer \subseteq R \X Customers
    /\ \A d \in R : /\ a.company[d] = BuildCompanyRow(Now, d)
                    /\ ProductsFrom(Now, d, a.product) /\ CustomersFrom(Now, d, a.customer)

\* An answer that nothing disturbed has the rows of the books as they are.
LEMMA AnswerTold ==
    ASSUME SnapshotsOK, NEW r \in Requests, At(r, "answered")
    PROVE  /\ DOMAIN job[r].company = Asked(r)
           /\ job[r].quiet /\ job[r].rebuilt => Told(job[r], Asked(r))
<1>1. job[r] # Nothing /\ job[r].at = "answered" BY DEF At
<1>2. JobTyped(job[r]) /\ JobOK(job[r]) BY <1>1 DEF SnapshotsOK, TypeOK, JobsOK
<1>3. RowsOK(job[r]) BY <1>2 DEF JobOK
<1>4. Asked(r) = job[r].first..job[r].last BY DEF Asked
<1>5. /\ DOMAIN job[r].company = Asked(r)
      /\ DOMAIN job[r].product \subseteq Asked(r) \X Products
      /\ DOMAIN job[r].customer \subseteq Asked(r) \X Customers
  BY <1>1, <1>2, <1>4 DEF JobTyped
<1>6. Asked(r) \in SUBSET Days
  <2>1. job[r].first \in Days /\ job[r].last \in Days BY <1>2 DEF JobTyped
  <2> QED BY <1>4, <2>1, DaysAreNumbers DEF Days
<1>7. job[r].quiet /\ job[r].rebuilt => \A d \in Asked(r) :
         /\ job[r].company[d] = BuildCompanyRow(Now, d)
         /\ ProductsFrom(Now, d, job[r].product) /\ CustomersFrom(Now, d, job[r].customer)
  BY <1>1, <1>3, <1>4 DEF RowsOK
<1> QED BY <1>5, <1>6, <1>7 DEF Told

\* What counts of the books, by sale, payment and entry.
OnesOf == [s \in Sales |-> 1]
CostOf == [s \in Sales |-> sale[s].form.cost]
ProfitOf == [s \in Sales |-> Total(s) - sale[s].form.cost]
DayOf == [s \in Sales |-> sale[s].day]
AmountEntered == [e \in Entries |-> entry[e].amount]
SoldTo(R, c) == {s \in ActiveIn(R) : Customer(s) = c}
PaidIn(R) == {p \in Payments : payment[p] # Nothing /\ payment[p].day \in R}
PaidInBy(R, c) == {p \in PaidIn(R) : Customer(payment[p].sale) = c}

\* The books seen as a view.
LEMMA NowIs ==
    /\ SaleSeen(Now) = TotalOf /\ CostSeen(Now) = CostOf /\ PaymentSeen(Now) = AmountPaid
    /\ \A d : /\ SalesCounted(Now, d) = ActiveIn({d})
              /\ LinesCounted(Now, d) = LinesIn({d})
              /\ PaymentsMade(Now, d) = PaidIn({d})
    /\ \A l : LineOf(Now, l) = Lines(l[1])[l[2]]
    /\ \A d, c : BoughtBy(Now, d, c) = SoldTo({d}, c) /\ PaidBy(Now, d, c) = PaidInBy({d}, c)
<1>1. Now.sale = sale /\ Now.payment = payment BY DEF Now
<1>2. SaleSeen(Now) = TotalOf /\ CostSeen(Now) = CostOf /\ PaymentSeen(Now) = AmountPaid
  BY <1>1 DEF SaleSeen, CostSeen, PaymentSeen, TotalOf, CostOf, AmountPaid, Total
<1>3. ASSUME NEW d
      PROVE  SalesCounted(Now, d) = ActiveIn({d}) /\ PaymentsMade(Now, d) = PaidIn({d})
  BY <1>1 DEF SalesCounted, ActiveIn, SoldIn, Exists, PaymentsMade, PaidIn
<1>4. ASSUME NEW d PROVE LinesCounted(Now, d) = LinesIn({d})
  BY <1>1, <1>3 DEF LinesCounted, LinesIn, Lines
<1>5. ASSUME NEW l PROVE LineOf(Now, l) = Lines(l[1])[l[2]] BY <1>1 DEF LineOf, Lines
<1>6. ASSUME NEW d, NEW c
      PROVE  BoughtBy(Now, d, c) = SoldTo({d}, c) /\ PaidBy(Now, d, c) = PaidInBy({d}, c)
  BY <1>1, <1>3 DEF BoughtBy, PaidBy, SoldTo, PaidInBy, Customer
<1> QED BY <1>2, <1>3, <1>4, <1>5, <1>6

\* The sales and the lines of a range are those of its days.
LEMMA DaysApart ==
    ASSUME BooksOK, NEW R \in SUBSET Days
    PROVE  /\ IsFiniteSet(R)
           /\ \A s \in ActiveIn(R) : DayOf[s] \in R /\ DayOf[s] = sale[s].day /\ s \in Sales
           /\ \A d \in R : \A s : s \in ActiveIn({d}) <=> s \in ActiveIn(R) /\ DayOf[s] = d
           /\ \A d \in R : \A l : l \in LinesIn({d}) <=> l \in LinesIn(R) /\ DayOf[l[1]] = d
<1>1. IsFiniteSet(R)
  <2>1. IsFiniteSet(1..LastDay) BY ReportsAssumption, FS_Interval
  <2> QED BY <2>1, FS_Subset DEF Days
<1>2. \A s \in ActiveIn(R) : DayOf[s] \in R /\ DayOf[s] = sale[s].day /\ s \in Sales
  BY DEF ActiveIn, SoldIn, DayOf
<1>3. \A d \in R : \A s : s \in ActiveIn({d}) <=> s \in ActiveIn(R) /\ DayOf[s] = d
  BY DEF ActiveIn, SoldIn, DayOf
<1>4. ASSUME NEW d \in R, NEW l
      PROVE  l \in LinesIn({d}) <=> l \in LinesIn(R) /\ DayOf[l[1]] = d
  <2>1. l \in LinesIn({d}) <=> \E s \in ActiveIn({d}) : \E i \in DOMAIN Lines(s) : l = <<s, i>>
    BY DEF LinesIn
  <2>2. l \in LinesIn(R) <=> \E s \in ActiveIn(R) : \E i \in DOMAIN Lines(s) : l = <<s, i>>
    BY DEF LinesIn
  <2> QED BY <2>1, <2>2, <1>3
<1> QED BY <1>1, <1>2, <1>3, <1>4

\* A sum over the sales of a range, by day.
LEMMA SumByDay ==
    ASSUME BooksOK, NEW R \in SUBSET Days, NEW f, \A s \in ActiveIn(R) : f[s] \in Int,
           NEW g, \A d \in R : g[d] = SumOver(f, ActiveIn({d}))
    PROVE  SumOver(f, ActiveIn(R)) = SumOver(g, R)
<1> DEFINE part == [d \in R |-> ActiveIn({d})]
           S == ActiveIn(R)
<1>1. IsFiniteSet(S) BY ActiveTyped
<1>2. IsFiniteSet(R) /\ \A s \in S : DayOf[s] \in R BY DaysApart
<1>3. \A d \in R : \A s : s \in part[d] <=> s \in S /\ DayOf[s] = d
  <2> TAKE d \in R
  <2>1. part[d] = ActiveIn({d}) OBVIOUS
  <2>2. \A s : s \in ActiveIn({d}) <=> s \in S /\ DayOf[s] = d BY DaysApart
  <2> HIDE DEF part, S
  <2> QED BY <2>1, <2>2
<1>4. \A d \in R : g[d] = SumOver(f, part[d]) OBVIOUS
<1>5. \A s \in S : f[s] \in Int OBVIOUS
<1> HIDE DEF part, S
<1>6. SumOver(f, S) = SumOver(g, R) BY <1>1, <1>2, <1>3, <1>4, <1>5, SumOverParts, SMTT(30)
<1> QED BY <1>6 DEF S

\* The sales of a range that are active, as sums.
LEMMA SalesAreSums ==
    ASSUME BooksOK, NEW R
    PROVE  /\ AggregateSales(R).count = SumOver(OnesOf, ActiveIn(R))
           /\ AggregateSales(R).amount = SumOver(TotalOf, ActiveIn(R))
           /\ AggregateSales(R).count = Cardinality(ActiveIn(R))
           /\ AggregateSales(R).count \in Nat /\ AggregateSales(R).amount \in Nat
           /\ \A s \in ActiveIn(R) : /\ s \in Sales /\ OnesOf[s] \in Int /\ OnesOf[s] = 1
                                     /\ TotalOf[s] = Total(s) /\ TotalOf[s] \in Nat
                                     /\ CostOf[s] = sale[s].form.cost /\ CostOf[s] \in Nat
                                     /\ ProfitOf[s] = TotalOf[s] - CostOf[s]
                                     /\ ProfitOf[s] \in Int
<1> DEFINE S == ActiveIn(R)
           f == [s \in S |-> Total(s)]
<1>1. AggregateSales(R).count = Cardinality(S) /\ AggregateSales(R).amount = Sum(f)
  BY DEF AggregateSales
<1>2. IsFiniteSet(S) /\ \A s \in S : s \in Sales /\ Total(s) \in Nat /\ sale[s].form.cost \in Nat
  BY ActiveTyped
<1>3. \A s \in S : /\ OnesOf[s] = 1 /\ TotalOf[s] = Total(s) /\ CostOf[s] = sale[s].form.cost
                   /\ ProfitOf[s] = Total(s) - sale[s].form.cost
  BY <1>2 DEF OnesOf, TotalOf, CostOf, ProfitOf
<1>4. f = [s \in S |-> f[s]] /\ \A s \in S : f[s] = TotalOf[s] BY <1>3
<1> HIDE DEF S, f
<1>5. Sum(f) = SumOver(TotalOf, S) BY <1>4, SumIs
<1>6. SumOver(OnesOf, S) = Cardinality(S) BY <1>2, <1>3, SumOverOnes
<1>7. \A s \in S : TotalOf[s] \in Nat BY <1>2, <1>3
<1>8. SumOver(TotalOf, S) \in Nat BY <1>2, <1>7, SumOverNat
<1>9. Cardinality(S) \in Nat BY <1>2, FS_CardinalityType
<1>10. \A s \in S : OnesOf[s] \in Int /\ CostOf[s] \in Nat /\ ProfitOf[s] = TotalOf[s] - CostOf[s]
                    /\ ProfitOf[s] \in Int
  BY <1>2, <1>3
<1> QED BY <1>1, <1>2, <1>3, <1>5, <1>6, <1>7, <1>8, <1>9, <1>10 DEF S

\* What the company's rows say of a day.
LEMMA CompanyRows ==
    ASSUME BooksOK, NEW a, NEW R, Told(a, R), NEW d \in R
    PROVE  /\ a.company[d].sales.count = AggregateSales({d}).count
           /\ a.company[d].sales.amount = AggregateSales({d}).amount
           /\ a.company[d].received = SumOver(AmountPaid, PaidIn({d}))
           /\ a.company[d].purchased = AmountOf(Now, PurchasesMade(Now, d))
<1>1. a.company[d] = BuildCompanyRow(Now, d) BY DEF Told
<1>2. /\ a.company[d].sales = SaleAmounts(Now, SalesCounted(Now, d))
      /\ a.company[d].received = Received(Now, PaymentsMade(Now, d))
      /\ a.company[d].purchased = AmountOf(Now, PurchasesMade(Now, d))
  BY <1>1 DEF BuildCompanyRow
<1>3. SalesRead(Now) /\ RestRead(Now) BY NowRead
<1>4. SalesCounted(Now, d) = ActiveIn({d}) /\ PaymentsMade(Now, d) = PaidIn({d})
      /\ SaleSeen(Now) = TotalOf /\ PaymentSeen(Now) = AmountPaid
  BY NowIs
<1>5. /\ SaleAmounts(Now, SalesCounted(Now, d)).count = Cardinality(SalesCounted(Now, d))
      /\ SaleAmounts(Now, SalesCounted(Now, d)).amount
            = SumOver(SaleSeen(Now), SalesCounted(Now, d))
  BY <1>3, SaleAmountsAre
<1>6. Received(Now, PaymentsMade(Now, d)) = SumOver(PaymentSeen(Now), PaymentsMade(Now, d))
  BY <1>3, ReceivedIs
<1>7. AggregateSales({d}).count = Cardinality(ActiveIn({d}))
      /\ AggregateSales({d}).amount = SumOver(TotalOf, ActiveIn({d}))
  BY SalesAreSums
<1> QED BY <1>2, <1>4, <1>5, <1>6, <1>7

\* What was sold, by day, is what was sold.
LEMMA SalesTold ==
    ASSUME BooksOK, NEW a, NEW R, Told(a, R)
    PROVE  /\ GetSalesByDay(a).count = AggregateSales(R).count
           /\ GetSalesByDay(a).amount = AggregateSales(R).amount
           /\ GetDashboard(a).sales = AggregateSales(R)
           /\ \A d \in DOMAIN GroupSalesSeries(R) :
                 a.company[d].sales.amount = GetSalesSummary(R).series[d].amount
<1> DEFINE f == [d \in DOMAIN a.company |-> a.company[d].sales.count]
           g == [d \in DOMAIN a.company |-> a.company[d].sales.amount]
<1>0. DOMAIN a.company = R /\ R \in SUBSET Days BY DEF Told
<1>1. GetSalesByDay(a) = [count |-> Sum(f), amount |-> Sum(g)] BY DEF GetSalesByDay
<1>2. \A d \in R : f[d] = AggregateSales({d}).count /\ g[d] = AggregateSales({d}).amount
  BY <1>0, CompanyRows
<1>3. f = [d \in R |-> f[d]] /\ g = [d \in R |-> g[d]] BY <1>0
<1> HIDE DEF f, g
<1>4. \A d \in R : f[d] = SumOver(OnesOf, ActiveIn({d})) BY <1>2, SalesAreSums
<1>5. \A d \in R : g[d] = SumOver(TotalOf, ActiveIn({d})) BY <1>2, SalesAreSums
<1>6. SumOver(OnesOf, ActiveIn(R)) = SumOver(f, R)
  <2>1. \A s \in ActiveIn(R) : OnesOf[s] \in Int BY SalesAreSums
  <2> QED BY <1>0, <1>4, <2>1, SumByDay
<1>7. SumOver(TotalOf, ActiveIn(R)) = SumOver(g, R)
  <2>1. \A s \in ActiveIn(R) : TotalOf[s] \in Int BY SalesAreSums
  <2> QED BY <1>0, <1>5, <2>1, SumByDay
<1>8. Sum(f) = SumOver(f, R) /\ Sum(g) = SumOver(g, R) BY <1>3, SumIs
<1>9. AggregateSales(R) = [count |-> Cardinality(ActiveIn(R)),
                           amount |-> Sum([s \in ActiveIn(R) |-> Total(s)])]
  BY DEF AggregateSales
<1>10. /\ GetSalesByDay(a).count = AggregateSales(R).count
       /\ GetSalesByDay(a).amount = AggregateSales(R).amount
  BY <1>1, <1>6, <1>7, <1>8, SalesAreSums
<1>11. GetDashboard(a).sales = GetSalesByDay(a) BY DEF GetDashboard
<1>12. GetSalesByDay(a) = AggregateSales(R)
  <2>1. Sum(f) = Cardinality(ActiveIn(R)) BY <1>1, <1>9, <1>10
  <2>2. Sum(g) = Sum([s \in ActiveIn(R) |-> Total(s)]) BY <1>1, <1>9, <1>10
  <2> QED BY <2>1, <2>2, <1>1, <1>9
<1>13. ASSUME NEW d \in DOMAIN GroupSalesSeries(R)
       PROVE  a.company[d].sales.amount = GetSalesSummary(R).series[d].amount
  <2>1. d \in {sale[s].day : s \in ActiveIn(R)} BY DEF GroupSalesSeries
  <2>2. d \in R BY <2>1 DEF ActiveIn, SoldIn
  <2>3. GetSalesSummary(R).series[d] = AggregateSales({d})
    BY <2>1 DEF GetSalesSummary, GroupSalesSeries
  <2> QED BY <2>2, <2>3, CompanyRows
<1> QED BY <1>10, <1>11, <1>12, <1>13

\* The lines of a product: of a range and of a day.
LinesFor(R, p) == LinesOf(R, {p})
LinesAt(d, p) == LinesOf({d}, {p})

\* What the rows of products say: of a day and a product, what its lines amount to.
LEMMA ProductRows ==
    ASSUME BooksOK, NEW a, NEW R, Told(a, R)
    PROVE  /\ IsFiniteSet(DOMAIN a.product)
           /\ \A k : k \in DOMAIN a.product <=>
                 \E d \in R : \E p \in Products : k = <<d, p>> /\ LinesAt(d, p) # {}
           /\ \A k \in DOMAIN a.product :
                 /\ a.product[k].quantity = SumOver(LineQuantity, LinesAt(k[1], k[2]))
                 /\ a.product[k].revenue = SumOver(LinePrice, LinesAt(k[1], k[2]))
<1> DEFINE rows == a.product
<1>1. R \in SUBSET Days /\ DOMAIN rows \subseteq R \X Products
      /\ \A d \in R : ProductsFrom(Now, d, rows)
  BY DEF Told
<1>2. IsFiniteSet(DOMAIN rows)
  <2>1. IsFiniteSet(R) BY <1>1, DaysApart
  <2>2. IsFiniteSet(R \X Products) BY <2>1, RowsFinite, FS_Product
  <2> QED BY <2>2, <1>1, FS_Subset
<1>3. ASSUME NEW d \in R, NEW p \in Products
      PROVE  /\ Sells(Now, d, p) <=> LinesAt(d, p) # {}
             /\ BuildProductRow(Now, d, p).quantity = GroupLines(LinesAt(d, p)).quantity
             /\ BuildProductRow(Now, d, p).revenue = GroupLines(LinesAt(d, p)).amount
  <2>1. LinesCounted(Now, d) = LinesIn({d}) /\ \A l : LineOf(Now, l) = Lines(l[1])[l[2]]
    BY NowIs
  <2>2. {l \in LinesCounted(Now, d) : LineOf(Now, l).product = p} = LinesAt(d, p)
    BY <2>1 DEF LinesOf, LinesAt
  <2>3. Sells(Now, d, p) <=> LinesAt(d, p) # {} BY <2>2 DEF Sells
  <2> QED BY <2>1, <2>2, <2>3 DEF BuildProductRow, GroupLines
<1>4. \A k : k \in DOMAIN rows <=>
         \E d \in R : \E p \in Products : k = <<d, p>> /\ LinesAt(d, p) # {}
  <2>1. ASSUME NEW k \in DOMAIN rows
        PROVE  \E d \in R : \E p \in Products : k = <<d, p>> /\ LinesAt(d, p) # {}
    <3>1. PICK d \in R : \E p \in Products : k = <<d, p>> BY <1>1
    <3>2. PICK p \in Products : k = <<d, p>> BY <3>1
    <3> HIDE DEF rows
    <3> QED BY <3>2, <1>1, <1>3 DEF ProductsFrom
  <2>2. ASSUME NEW d \in R, NEW p \in Products, LinesAt(d, p) # {}
        PROVE  <<d, p>> \in DOMAIN rows
    <3> HIDE DEF rows
    <3> QED BY <2>2, <1>1, <1>3 DEF ProductsFrom
  <2> QED BY <2>1, <2>2
<1>5. ASSUME NEW k \in DOMAIN rows
      PROVE  /\ rows[k].quantity = SumOver(LineQuantity, LinesAt(k[1], k[2]))
             /\ rows[k].revenue = SumOver(LinePrice, LinesAt(k[1], k[2]))
  <2>1. PICK d \in R : \E p \in Products : k = <<d, p>> /\ LinesAt(d, p) # {} BY <1>4
  <2>2. PICK p \in Products : k = <<d, p>> /\ LinesAt(d, p) # {} BY <2>1
  <2>3. rows[k] = BuildProductRow(Now, d, p)
    <3> HIDE DEF rows
    <3> QED BY <2>2, <1>1, <1>3 DEF ProductsFrom
  <2>4. k[1] = d /\ k[2] = p BY <2>2
  <2>5. LinesAt(d, p) \in SUBSET LinesIn(Days)
    <3>1. {d} \in SUBSET Days BY <1>1
    <3> QED BY <3>1, LinesTyped DEF LinesOf, LinesAt
  <2> QED BY <2>3, <2>4, <2>5, <1>3, GroupIsSums
<1> QED BY <1>2, <1>4, <1>5

\* Lines of a range, by product.
LEMMA LinesOfTyped ==
    ASSUME BooksOK, NEW R \in SUBSET Days, NEW P
    PROVE  /\ LinesOf(R, P) \in SUBSET LinesIn(Days) /\ IsFiniteSet(LinesOf(R, P))
           /\ \A l : l \in LinesOf(R, P) <=> l \in LinesIn(R) /\ LineProduct[l] \in P
           /\ \A l \in LinesIn(R) : /\ LineProduct[l] \in Products /\ DayOf[l[1]] \in R
                                    /\ LinePrice[l] \in Int /\ LineQuantity[l] \in Int
<1>1. /\ LinesIn(R) \subseteq LinesIn(Days) /\ IsFiniteSet(LinesIn(R))
      /\ \A l \in LinesIn(R) : /\ l[1] \in ActiveIn(R)
                               /\ LineProduct[l] = Lines(l[1])[l[2]].product
                               /\ LineProduct[l] \in Products
                               /\ LinePrice[l] \in Nat /\ LineQuantity[l] \in Nat
  BY LinesTyped
<1>2. \A l : l \in LinesOf(R, P) <=> l \in LinesIn(R) /\ LineProduct[l] \in P
  BY <1>1 DEF LinesOf
<1>3. IsFiniteSet(LinesOf(R, P)) BY <1>1, <1>2, SubsetFinite
<1>4. \A l \in LinesIn(R) : DayOf[l[1]] \in R BY <1>1, DaysApart
<1> QED BY <1>1, <1>2, <1>3, <1>4

\* The lines of a product, by day.
LEMMA LinesForTyped ==
    ASSUME BooksOK, NEW R \in SUBSET Days, NEW p
    PROVE  /\ LinesFor(R, p) \in SUBSET LinesIn(Days) /\ IsFiniteSet(LinesFor(R, p))
           /\ \A l : l \in LinesFor(R, p) <=> l \in LinesIn(R) /\ LineProduct[l] = p
           /\ \A d \in R : \A l :
                 l \in LinesAt(d, p) <=> l \in LinesFor(R, p) /\ DayOf[l[1]] = d
           /\ \A l \in LinesFor(R, p) : l \in LinesAt(DayOf[l[1]], p)
<1>1. /\ LinesFor(R, p) \in SUBSET LinesIn(Days) /\ IsFiniteSet(LinesFor(R, p))
      /\ \A l : l \in LinesFor(R, p) <=> l \in LinesIn(R) /\ LineProduct[l] \in {p}
      /\ \A l \in LinesIn(R) : DayOf[l[1]] \in R
  BY LinesOfTyped DEF LinesFor
<1>2. ASSUME NEW d \in R, NEW l
      PROVE  l \in LinesAt(d, p) <=> l \in LinesFor(R, p) /\ DayOf[l[1]] = d
  <2>1. {d} \in SUBSET Days OBVIOUS
  <2>2. l \in LinesAt(d, p) <=> l \in LinesIn({d}) /\ LineProduct[l] \in {p}
    BY <2>1, LinesOfTyped DEF LinesAt
  <2>3. l \in LinesIn({d}) <=> l \in LinesIn(R) /\ DayOf[l[1]] = d BY DaysApart
  <2> QED BY <2>2, <2>3, <1>1
<1> QED BY <1>1, <1>2

\* The rows of a product or a customer, and what the lines of a row measure.
RowsOf(rows, x) == {k \in DOMAIN rows : k[2] = x}
Measured(m, k) == SumOver(m, LinesAt(k[1], k[2]))

\* What the rows of a product measure is what its lines in the range measure.
LEMMA ProductSum ==
    ASSUME BooksOK, NEW a, NEW R, Told(a, R), NEW p, NEW m,
           \A l \in LinesIn(R) : m[l] \in Int,
           NEW own, own = RowsOf(a.product, p), NEW g, \A k \in own : g[k] = Measured(m, k)
    PROVE  SumOver(g, own) = SumOver(m, LinesFor(R, p))
<1> DEFINE S == LinesFor(R, p)
           key == [l \in LinesIn(Days) |-> <<DayOf[l[1]], p>>]
           part == [k \in own |-> LinesAt(k[1], k[2])]
<1>0. R \in SUBSET Days BY DEF Told
<1>1. /\ IsFiniteSet(S) /\ S \in SUBSET LinesIn(Days)
      /\ \A l : l \in S <=> l \in LinesIn(R) /\ LineProduct[l] = p
      /\ \A l \in LinesIn(R) : LineProduct[l] \in Products /\ DayOf[l[1]] \in R
  <2>1. \A l \in LinesIn(R) : LineProduct[l] \in Products /\ DayOf[l[1]] \in R
    BY <1>0, LinesOfTyped
  <2> QED BY <2>1, <1>0, LinesForTyped
<1>2. \A k : k \in own <=>
         \E d \in R : k = <<d, p>> /\ p \in Products /\ LinesAt(d, p) # {}
  <2> TAKE k
  <2>1. k \in DOMAIN a.product <=>
           \E d \in R : \E q \in Products : k = <<d, q>> /\ LinesAt(d, q) # {}
    BY ProductRows
  <2>2. \A d, q : k = <<d, q>> => k[2] = q OBVIOUS
  <2>3. k \in own <=> k \in DOMAIN a.product /\ k[2] = p BY DEF RowsOf
  <2>4. CASE k \in own
    <3>1. PICK d \in R : \E q \in Products : k = <<d, q>> /\ LinesAt(d, q) # {}
      BY <2>1, <2>3, <2>4
    <3>2. PICK q \in Products : k = <<d, q>> /\ LinesAt(d, q) # {} BY <3>1
    <3>3. q = p BY <2>3, <2>4, <3>2
    <3> QED BY <3>2, <3>3, <2>4
  <2>5. ASSUME NEW d \in R, k = <<d, p>>, p \in Products, LinesAt(d, p) # {}
        PROVE  k \in own
    <3>1. k[2] = p BY <2>5
    <3> QED BY <2>1, <2>3, <2>5, <3>1
  <2> QED BY <2>4, <2>5
<1>3. IsFiniteSet(own)
  <2>1. IsFiniteSet(DOMAIN a.product) BY ProductRows
  <2>2. \A k \in own : k \in DOMAIN a.product BY DEF RowsOf
  <2> QED BY <2>1, <2>2, SubsetFinite
<1>4. \A d \in R : \A l : l \in LinesAt(d, p) <=> l \in S /\ DayOf[l[1]] = d
  BY <1>0, LinesForTyped
<1> HIDE DEF S
<1>5. \A l \in S : m[l] \in Int BY <1>1
<1>6. \A l \in S : key[l] \in own
  <2> TAKE l \in S
  <2>1. l \in LinesIn(Days) /\ DayOf[l[1]] \in R /\ p \in Products BY <1>1
  <2>2. l \in LinesAt(DayOf[l[1]], p) BY <2>1, <1>4
  <2>3. key[l] = <<DayOf[l[1]], p>> BY <2>1
  <2> QED BY <2>1, <2>2, <2>3, <1>2
<1>7. \A k \in own : \A l : l \in part[k] <=> l \in S /\ key[l] = k
  <2> TAKE k \in own
  <2>1. PICK d \in R : k = <<d, p>> BY <1>2
  <2>2. part[k] = LinesAt(d, p) BY <2>1
  <2>3. \A l \in S : key[l] = <<DayOf[l[1]], p>> BY <1>1
  <2>4. \A l \in S : key[l] = k <=> DayOf[l[1]] = d BY <2>1, <2>3
  <2> QED BY <2>2, <2>4, <2>1, <1>4
<1>8. \A k \in own : g[k] = SumOver(m, part[k]) BY DEF Measured
<1> HIDE DEF key, part
<1>9. \A l \in S : m[l] \in Int /\ key[l] \in own BY <1>5, <1>6
<1>10. IsFiniteSet(S) BY <1>1
<1>11. PICK T : T = own OBVIOUS
<1>12. IsFiniteSet(T) /\ (\A l \in S : m[l] \in Int /\ key[l] \in T)
  BY <1>3, <1>9, <1>11
<1>13. \A k \in T : g[k] = SumOver(m, Having(S, key, k))
  <2> TAKE k \in T
  <2>1. part[k] = Having(S, key, k) BY <1>7, <1>11 DEF Having
  <2> QED BY <2>1, <1>8, <1>11
<1>14. SumOver(m, S) = SumOver(g, T) BY <1>10, <1>12, <1>13, SumOverKeys
<1> QED BY <1>11, <1>14 DEF S

\* What was sold of each product is what the best sellers say.
LEMMA ProductsTold ==
    ASSUME BooksOK, NEW a, NEW R, Told(a, R)
    PROVE  LET product == GetSalesByProduct(a).items
               top == TopSellingProducts(R)
           IN /\ product = AggregateProducts(a) /\ DOMAIN product = DOMAIN top
              /\ DOMAIN top \subseteq Products
              /\ \A p : p \in DOMAIN top <=> \E l \in LinesIn(R) : LineProduct[l] = p
              /\ \A p \in DOMAIN top :
                    /\ product[p].quantity = top[p].quantity
                    /\ product[p].revenue = top[p].amount
                    /\ product[p].quantity = SumOver(LineQuantity, LinesFor(R, p))
                    /\ product[p].revenue = SumOver(LinePrice, LinesFor(R, p))
<1> DEFINE product == AggregateProducts(a)
           top == TopSellingProducts(R)
<1>0. R \in SUBSET Days BY DEF Told
<1>1. GetSalesByProduct(a).items = product BY DEF GetSalesByProduct
<1>2. \A l \in LinesIn(R) : LineProduct[l] = Lines(l[1])[l[2]].product /\ LineProduct[l] \in Products
  BY <1>0, LinesTyped
<1>3. \A p : p \in DOMAIN top <=> \E l \in LinesIn(R) : LineProduct[l] = p
  BY <1>2 DEF TopSellingProducts
<1>4. DOMAIN product = {k[2] : k \in DOMAIN a.product} BY DEF AggregateProducts
<1>5. DOMAIN product = DOMAIN top
  <2>1. ASSUME NEW p \in DOMAIN product PROVE p \in DOMAIN top
    <3>1. PICK k \in DOMAIN a.product : k[2] = p BY <1>4
    <3>0. \A x : x \in DOMAIN a.product <=>
             \E d \in R : \E q \in Products : x = <<d, q>> /\ LinesAt(d, q) # {}
      BY ProductRows
    <3>2. PICK d \in R : \E q \in Products : k = <<d, q>> /\ LinesAt(d, q) # {}
      BY <3>0
    <3>3. LinesAt(d, p) # {} BY <3>1, <3>2
    <3>4. PICK l : l \in LinesAt(d, p) BY <3>3
    <3>5. l \in LinesIn(R) /\ LineProduct[l] = p BY <3>2, <3>4, <1>0, LinesForTyped
    <3> QED BY <3>5, <1>3
  <2>2. ASSUME NEW p \in DOMAIN top PROVE p \in DOMAIN product
    <3>1. PICK l \in LinesIn(R) : LineProduct[l] = p BY <1>3
    <3> DEFINE d == DayOf[l[1]]
    <3>2. d \in R /\ p \in Products BY <3>1, <1>0, LinesOfTyped
    <3>5. l \in LinesAt(d, p) BY <3>1, <1>0, LinesForTyped
    <3> HIDE DEF d
    <3>6. <<d, p>> \in DOMAIN a.product BY <3>2, <3>5, ProductRows
    <3>7. <<d, p>>[2] = p OBVIOUS
    <3> QED BY <3>6, <3>7, <1>4
  <2> QED BY <2>1, <2>2
<1>6. ASSUME NEW p \in DOMAIN top
      PROVE  /\ product[p].quantity = SumOver(LineQuantity, LinesFor(R, p))
             /\ product[p].revenue = SumOver(LinePrice, LinesFor(R, p))
  <2> DEFINE own == RowsOf(a.product, p)
             q == [k \in own |-> a.product[k].quantity]
             v == [k \in own |-> a.product[k].revenue]
  <2>1. product[p].quantity = Sum(q) /\ product[p].revenue = Sum(v)
    BY <1>4, <1>5 DEF AggregateProducts, RowsOf
  <2>2. \A k \in own : q[k] = Measured(LineQuantity, k) /\ v[k] = Measured(LinePrice, k)
    BY ProductRows DEF Measured, RowsOf
  <2>3. q = [k \in own |-> q[k]] /\ v = [k \in own |-> v[k]] OBVIOUS
  <2>4. own = RowsOf(a.product, p) OBVIOUS
  <2> HIDE DEF own, q, v
  <2>7. SumOver(q, own) = SumOver(LineQuantity, LinesFor(R, p))
    <3>1. \A l \in LinesIn(R) : LineQuantity[l] \in Int BY <1>0, LinesOfTyped
    <3>2. \A k \in own : q[k] = Measured(LineQuantity, k) BY <2>2
    <3> QED BY <2>4, <3>1, <3>2, ProductSum
  <2>8. SumOver(v, own) = SumOver(LinePrice, LinesFor(R, p))
    <3>1. \A l \in LinesIn(R) : LinePrice[l] \in Int BY <1>0, LinesOfTyped
    <3>2. \A k \in own : v[k] = Measured(LinePrice, k) BY <2>2
    <3> QED BY <2>4, <3>1, <3>2, ProductSum
  <2>9. Sum(q) = SumOver(q, own) /\ Sum(v) = SumOver(v, own) BY <2>3, SumIs
  <2> QED BY <2>1, <2>7, <2>8, <2>9
<1>7. ASSUME NEW p \in DOMAIN top
      PROVE  /\ top[p].quantity = SumOver(LineQuantity, LinesFor(R, p))
             /\ top[p].amount = SumOver(LinePrice, LinesFor(R, p))
  <2>1. top[p] = GroupLines(LinesFor(R, p)) BY DEF TopSellingProducts, LinesFor
  <2>2. LinesFor(R, p) \in SUBSET LinesIn(Days) BY <1>0, LinesForTyped
  <2> QED BY <2>1, <2>2, GroupIsSums
<1>8. DOMAIN top \subseteq Products BY <1>2, <1>3
<1> HIDE DEF product, top
<1>9. \A p \in DOMAIN top : product[p].quantity = top[p].quantity
                            /\ product[p].revenue = top[p].amount
  BY <1>6, <1>7
<1> QED BY <1>1, <1>3, <1>5, <1>6, <1>8, <1>9 DEF product, top

\* The total of some products.
LEMMA ItemsTold ==
    ASSUME BooksOK, NEW a, NEW R, Told(a, R), NEW P \in SUBSET DOMAIN TopSellingProducts(R),
           NEW items, items = [p \in P |-> AggregateProducts(a)[p]]
    PROVE  /\ SumProductItems(items).quantity = SumOver(LineQuantity, LinesOf(R, P))
           /\ SumProductItems(items).revenue = SumOver(LinePrice, LinesOf(R, P))
           /\ SumProductItems(items)
                 = [quantity |-> SumProductItems(items).quantity,
                    revenue |-> SumProductItems(items).revenue]
<1> DEFINE top == TopSellingProducts(R)
           product == AggregateProducts(a)
           q == [p \in DOMAIN items |-> items[p].quantity]
           v == [p \in DOMAIN items |-> items[p].revenue]
           S == LinesOf(R, P)
<1>0. R \in SUBSET Days BY DEF Told
<1>1. SumProductItems(items) = [quantity |-> Sum(q), revenue |-> Sum(v)] BY DEF SumProductItems
<1>2. /\ DOMAIN top \subseteq Products
      /\ \A p \in DOMAIN top :
            /\ product[p].quantity = SumOver(LineQuantity, LinesFor(R, p))
            /\ product[p].revenue = SumOver(LinePrice, LinesFor(R, p))
  BY ProductsTold
<1>3. q = [p \in P |-> q[p]] /\ v = [p \in P |-> v[p]] OBVIOUS
<1>4. \A p \in P : /\ q[p] = SumOver(LineQuantity, LinesFor(R, p))
                   /\ v[p] = SumOver(LinePrice, LinesFor(R, p))
  <2> TAKE p \in P
  <2>1. q[p] = product[p].quantity /\ v[p] = product[p].revenue OBVIOUS
  <2>2. p \in DOMAIN top OBVIOUS
  <2> HIDE DEF q, v, top, product
  <2> QED BY <2>1, <2>2, <1>2
<1>5. IsFiniteSet(P)
  <2>1. \A p \in P : p \in Products BY <1>2
  <2> QED BY <2>1, RowsFinite, SubsetFinite
<1>6. /\ IsFiniteSet(S)
      /\ \A l : l \in S <=> l \in LinesIn(R) /\ LineProduct[l] \in P
      /\ \A l \in S : LineQuantity[l] \in Int /\ LinePrice[l] \in Int
  BY <1>0, LinesOfTyped
<1>7. \A p \in P : LinesFor(R, p) = Having(S, LineProduct, p)
  <2> TAKE p \in P
  <2>1. \A l : l \in LinesFor(R, p) <=> l \in LinesIn(R) /\ LineProduct[l] = p
    BY <1>0, LinesForTyped
  <2> HIDE DEF S
  <2> QED BY <2>1, <1>6 DEF Having
<1> HIDE DEF q, v, S
<1>8. SumOver(LineQuantity, S) = SumOver(q, P)
  <2>1. \A p \in P : q[p] = SumOver(LineQuantity, Having(S, LineProduct, p)) BY <1>4, <1>7
  <2>2. IsFiniteSet(S) /\ (\A l \in S : LineQuantity[l] \in Int /\ LineProduct[l] \in P) BY <1>6
  <2> QED BY <2>1, <2>2, <1>5, SumOverKeys
<1>9. SumOver(LinePrice, S) = SumOver(v, P)
  <2>1. \A p \in P : v[p] = SumOver(LinePrice, Having(S, LineProduct, p)) BY <1>4, <1>7
  <2>2. IsFiniteSet(S) /\ (\A l \in S : LinePrice[l] \in Int /\ LineProduct[l] \in P) BY <1>6
  <2> QED BY <2>1, <2>2, <1>5, SumOverKeys
<1>10. Sum(q) = SumOver(q, P) /\ Sum(v) = SumOver(v, P) BY <1>3, SumIs
<1> QED BY <1>1, <1>8, <1>9, <1>10 DEF S

\* The products of a category, and what was sold of them.
OfCategory(k) == {p \in Products : Category[p] = k}
\* The report by category is of the lines of its products.
LEMMA CategoriesAre ==
    ASSUME BooksOK, NEW R \in SUBSET Days
    PROVE  LET category == ProductSalesByCategory(R)
           IN /\ \A k : k \in DOMAIN category <=>
                     \E l \in LinesIn(R) : Category[LineProduct[l]] = k
              /\ IsFiniteSet(DOMAIN category)
              /\ \A k \in DOMAIN category :
                    /\ category[k].quantity = SumOver(LineQuantity, LinesOf(R, OfCategory(k)))
                    /\ category[k].amount = SumOver(LinePrice, LinesOf(R, OfCategory(k)))
                    /\ category[k].count = Cardinality(LinesOf(R, OfCategory(k)))
              /\ Sum([k \in DOMAIN category |-> category[k].amount])
                    = SumOver(LinePrice, LinesIn(R))
<1> DEFINE category == ProductSalesByCategory(R)
           D == DOMAIN category
           top == TopSellingProducts(R)
<1>1. \A l \in LinesIn(R) : LineProduct[l] = Lines(l[1])[l[2]].product /\ LineProduct[l] \in Products
      /\ LinePrice[l] \in Int /\ l \in LinesIn(Days)
  BY LinesTyped
<1>2. \A p : p \in DOMAIN top <=> \E l \in LinesIn(R) : LineProduct[l] = p
  BY <1>1 DEF TopSellingProducts
<1>3. \A k : k \in D <=> \E l \in LinesIn(R) : Category[LineProduct[l]] = k
  <2>1. D = {Category[p] : p \in DOMAIN top} BY DEF ProductSalesByCategory
  <2> QED BY <2>1, <1>2
<1>4. IsFiniteSet(D)
  <2> DEFINE of == [p \in Products |-> Category[p]]
  <2>1. \A k \in D : \E p \in Products : of[p] = k BY <1>1, <1>3
  <2> HIDE DEF D, of
  <2> QED BY <2>1, RowsFinite, ImageFinite
<1>5. \A k \in D : /\ category[k].quantity = SumOver(LineQuantity, LinesOf(R, OfCategory(k)))
                   /\ category[k].amount = SumOver(LinePrice, LinesOf(R, OfCategory(k)))
                   /\ category[k].count = Cardinality(LinesOf(R, OfCategory(k)))
  <2> TAKE k \in D
  <2>1. category[k] = GroupLines(LinesOf(R, OfCategory(k)))
    BY DEF ProductSalesByCategory, OfCategory
  <2>2. LinesOf(R, OfCategory(k)) \in SUBSET LinesIn(Days) BY LinesOfTyped
  <2> QED BY <2>1, <2>2, GroupIsSums
<1>6. Sum([k \in D |-> category[k].amount]) = SumOver(LinePrice, LinesIn(R))
  <2> DEFINE g == [k \in D |-> category[k].amount]
             key == [l \in LinesIn(Days) |-> Category[LineProduct[l]]]
             S == LinesIn(R)
  <2>1. g = [k \in D |-> g[k]] OBVIOUS
  <2>2. \A l \in S : key[l] = Category[LineProduct[l]] /\ key[l] \in D /\ LinePrice[l] \in Int
    BY <1>1, <1>3
  <2>3. \A k \in D : LinesOf(R, OfCategory(k)) = Having(S, key, k)
    <3> TAKE k \in D
    <3>1. \A l : l \in LinesOf(R, OfCategory(k)) <=> l \in S /\ LineProduct[l] \in OfCategory(k)
      BY LinesOfTyped
    <3>2. \A l \in S : LineProduct[l] \in OfCategory(k) <=> key[l] = k
      BY <1>1, <2>2 DEF OfCategory
    <3> HIDE DEF S, key
    <3> QED BY <3>1, <3>2 DEF Having
  <2>4. \A k \in D : g[k] = SumOver(LinePrice, LinesOf(R, OfCategory(k))) BY <1>5
  <2>5. IsFiniteSet(S) BY LinesTyped
  <2> HIDE DEF g, key, S, D
  <2>6. \A k \in D : g[k] = SumOver(LinePrice, Having(S, key, k)) BY <2>3, <2>4
  <2>7. \A l \in S : LinePrice[l] \in Int /\ key[l] \in D BY <2>2
  <2>8. SumOver(LinePrice, S) = SumOver(g, D) BY <1>4, <2>5, <2>6, <2>7, SumOverKeys
  <2>9. Sum(g) = SumOver(g, D) BY <2>1, SumIs
  <2> QED BY <2>8, <2>9 DEF g, S
<1> QED BY <1>3, <1>4, <1>5, <1>6

\* What an answer says of categories and of all products.
LEMMA CategoriesTold ==
    ASSUME BooksOK, NEW a, NEW R, Told(a, R)
    PROVE  LET category == ProductSalesByCategory(R)
           IN /\ \A k \in DOMAIN category :
                    GetSalesByProductForTenant(a, k).totals
                       = [quantity |-> category[k].quantity, revenue |-> category[k].amount]
              /\ GetSalesByProduct(a).totals.revenue
                    = Sum([k \in DOMAIN category |-> category[k].amount])
<1> DEFINE category == ProductSalesByCategory(R)
           product == AggregateProducts(a)
           top == TopSellingProducts(R)
<1>0. R \in SUBSET Days BY DEF Told
<1>1. /\ GetSalesByProduct(a).items = product /\ DOMAIN product = DOMAIN top
      /\ DOMAIN top \subseteq Products
      /\ \A p : p \in DOMAIN top <=> \E l \in LinesIn(R) : LineProduct[l] = p
  BY ProductsTold
<1>2. ASSUME NEW k \in DOMAIN category
      PROVE  GetSalesByProductForTenant(a, k).totals
                = [quantity |-> category[k].quantity, revenue |-> category[k].amount]
  <2> DEFINE P == {p \in DOMAIN top : Category[p] = k}
             items == [p \in P |-> product[p]]
  <2>1. GetSalesByProductForTenant(a, k).totals = SumProductItems(items)
    BY <1>1 DEF GetSalesByProductForTenant
  <2>2. LinesOf(R, P) = LinesOf(R, OfCategory(k))
    <3>1. \A l : l \in LinesOf(R, P) <=> l \in LinesIn(R) /\ LineProduct[l] \in P
      BY <1>0, LinesOfTyped
    <3>2. \A l : l \in LinesOf(R, OfCategory(k)) <=>
             l \in LinesIn(R) /\ LineProduct[l] \in OfCategory(k)
      BY <1>0, LinesOfTyped
    <3>3. \A l \in LinesIn(R) : LineProduct[l] \in P <=> LineProduct[l] \in OfCategory(k)
      BY <1>1 DEF OfCategory
    <3> HIDE DEF P
    <3> QED BY <3>1, <3>2, <3>3
  <2>3. P \in SUBSET DOMAIN top OBVIOUS
  <2>4. items = [p \in P |-> product[p]] OBVIOUS
  <2> HIDE DEF P, items
  <2>5. /\ SumProductItems(items).quantity = SumOver(LineQuantity, LinesOf(R, P))
        /\ SumProductItems(items).revenue = SumOver(LinePrice, LinesOf(R, P))
        /\ SumProductItems(items) = [quantity |-> SumProductItems(items).quantity,
                                     revenue |-> SumProductItems(items).revenue]
    BY <2>3, <2>4, ItemsTold
  <2>6. /\ category[k].quantity = SumOver(LineQuantity, LinesOf(R, OfCategory(k)))
        /\ category[k].amount = SumOver(LinePrice, LinesOf(R, OfCategory(k)))
    BY <1>0, CategoriesAre
  <2> HIDE DEF category
  <2> QED BY <2>1, <2>2, <2>5, <2>6
<1>3. GetSalesByProduct(a).totals.revenue = SumOver(LinePrice, LinesIn(R))
  <2>1. GetSalesByProduct(a).totals = SumProductItems(product) BY DEF GetSalesByProduct
  <2>2. product = [p \in DOMAIN top |-> product[p]]
    <3>1. product = [p \in DOMAIN product |-> product[p]] BY DEF AggregateProducts
    <3> HIDE DEF product, top
    <3> QED BY <3>1, <1>1
  <2>3. LinesOf(R, DOMAIN top) = LinesIn(R)
    <3>1. \A l : l \in LinesOf(R, DOMAIN top) <=> l \in LinesIn(R) /\ LineProduct[l] \in DOMAIN top
      BY <1>0, LinesOfTyped
    <3> QED BY <3>1, <1>1
  <2>4. DOMAIN top \in SUBSET DOMAIN top OBVIOUS
  <2>5. SumProductItems(product).revenue = SumOver(LinePrice, LinesOf(R, DOMAIN top))
    BY <2>2, <2>4, ItemsTold
  <2> QED BY <2>1, <2>3, <2>5
<1>4. Sum([k \in DOMAIN category |-> category[k].amount]) = SumOver(LinePrice, LinesIn(R))
  BY <1>0, CategoriesAre
<1> QED BY <1>2, <1>3, <1>4

\* The sales to a customer and the payments of one, on a day.
SoldAt(d, c) == SoldTo({d}, c)
PaidAt(d, c) == PaidInBy({d}, c)
BuyerOf == [s \in Sales |-> Customer(s)]
PayerOf == [p \in Payments |-> Customer(payment[p].sale)]
PaidOn == [p \in Payments |-> payment[p].day]

\* The sales to a customer in a range, by day.
LEMMA SoldToTyped ==
    ASSUME BooksOK, NEW R \in SUBSET Days, NEW c
    PROVE  /\ IsFiniteSet(SoldTo(R, c)) /\ SoldTo(R, c) \subseteq ActiveIn(R)
           /\ SoldTo(R, c) = Having(ActiveIn(R), BuyerOf, c)
           /\ \A d \in R : \A s : s \in SoldAt(d, c) <=> s \in SoldTo(R, c) /\ DayOf[s] = d
           /\ \A s \in SoldTo(R, c) : /\ s \in Sales /\ DayOf[s] \in R /\ Customer(s) = c
                                      /\ s \in SoldAt(DayOf[s], c)
<1>1. IsFiniteSet(ActiveIn(R)) /\ \A s \in ActiveIn(R) : s \in Sales BY ActiveTyped
<1>2. SoldTo(R, c) \subseteq ActiveIn(R) BY DEF SoldTo
<1>3. SoldTo(R, c) = Having(ActiveIn(R), BuyerOf, c)
  <2>1. \A s \in ActiveIn(R) : BuyerOf[s] = Customer(s) BY <1>1 DEF BuyerOf
  <2> QED BY <2>1 DEF SoldTo, Having
<1>4. IsFiniteSet(SoldTo(R, c)) BY <1>1, <1>2, FS_Subset
<1>5. \A s \in ActiveIn(R) : DayOf[s] \in R BY DaysApart
<1>6. ASSUME NEW d \in R, NEW s
      PROVE  s \in SoldAt(d, c) <=> s \in SoldTo(R, c) /\ DayOf[s] = d
  <2>1. s \in ActiveIn({d}) <=> s \in ActiveIn(R) /\ DayOf[s] = d BY DaysApart
  <2> QED BY <2>1 DEF SoldTo, SoldAt
<1>7. \A s \in SoldTo(R, c) : Customer(s) = c BY DEF SoldTo
<1> QED BY <1>1, <1>2, <1>3, <1>4, <1>5, <1>6, <1>7

\* The payments of a range.
LEMMA PaidInTyped ==
    ASSUME BooksOK, NEW R \in SUBSET Days
    PROVE  /\ IsFiniteSet(PaidIn(R)) /\ IsFiniteSet(R)
           /\ \A p \in PaidIn(R) : /\ p \in Payments /\ PaidOn[p] = payment[p].day /\ PaidOn[p] \in R
                                   /\ PayerOf[p] = Customer(payment[p].sale)
                                   /\ AmountPaid[p] = payment[p].amount /\ AmountPaid[p] \in Nat
           /\ \A d \in R : \A p : p \in PaidIn({d}) <=> p \in PaidIn(R) /\ PaidOn[p] = d
<1>1. \A p \in PaidIn(R) : p \in Payments /\ payment[p] # Nothing /\ payment[p].day \in R
  BY DEF PaidIn
<1>2. IsFiniteSet(PaidIn(R)) BY <1>1, RowsFinite, SubsetFinite
<1>3. IsFiniteSet(R) BY DaysApart
<1>4. \A p \in PaidIn(R) : payment[p].amount \in Nat
  <2> TAKE p \in PaidIn(R)
  <2>1. payment[p].amount \in Amounts BY <1>1, PaymentTyped
  <2> QED BY <2>1, ReportsAssumption
<1>5. \A d \in R : \A p : p \in PaidIn({d}) <=> p \in PaidIn(R) /\ PaidOn[p] = d
  BY DEF PaidIn, PaidOn
<1> QED BY <1>1, <1>2, <1>3, <1>4, <1>5 DEF PaidOn, PayerOf, AmountPaid

\* The payments of a customer in a range, by day.
LEMMA PaidInByTyped ==
    ASSUME BooksOK, NEW R \in SUBSET Days, NEW c
    PROVE  /\ IsFiniteSet(PaidInBy(R, c)) /\ PaidInBy(R, c) \subseteq PaidIn(R)
           /\ PaidInBy(R, c) = Having(PaidIn(R), PayerOf, c)
           /\ \A d \in R : \A p : p \in PaidAt(d, c) <=> p \in PaidInBy(R, c) /\ PaidOn[p] = d
           /\ \A p \in PaidInBy(R, c) : /\ p \in Payments /\ PaidOn[p] \in R
                                        /\ p \in PaidAt(PaidOn[p], c)
<1>1. /\ IsFiniteSet(PaidIn(R))
      /\ \A p \in PaidIn(R) : /\ p \in Payments /\ PaidOn[p] \in R
                              /\ PayerOf[p] = Customer(payment[p].sale)
      /\ \A d \in R : \A p : p \in PaidIn({d}) <=> p \in PaidIn(R) /\ PaidOn[p] = d
  BY PaidInTyped
<1>2. PaidInBy(R, c) \subseteq PaidIn(R) BY DEF PaidInBy
<1>3. PaidInBy(R, c) = Having(PaidIn(R), PayerOf, c) BY <1>1 DEF PaidInBy, Having
<1>4. IsFiniteSet(PaidInBy(R, c)) BY <1>1, <1>2, FS_Subset
<1>5. \A d \in R : \A p : p \in PaidAt(d, c) <=> p \in PaidInBy(R, c) /\ PaidOn[p] = d
  BY <1>1 DEF PaidInBy, PaidAt
<1> QED BY <1>1, <1>2, <1>3, <1>4, <1>5

\* What the rows of customers say: of a day and a customer, what was sold and paid.
LEMMA CustomerRows ==
    ASSUME BooksOK, NEW a, NEW R, Told(a, R)
    PROVE  /\ IsFiniteSet(DOMAIN a.customer)
           /\ \A k : k \in DOMAIN a.customer <=>
                 \E d \in R : \E c \in Customers :
                    k = <<d, c>> /\ (SoldAt(d, c) # {} \/ PaidAt(d, c) # {})
           /\ \A k \in DOMAIN a.customer :
                 /\ a.customer[k].sales.count = SumOver(OnesOf, SoldAt(k[1], k[2]))
                 /\ a.customer[k].sales.amount = SumOver(TotalOf, SoldAt(k[1], k[2]))
                 /\ a.customer[k].sales.amount - a.customer[k].sales.cost
                       = SumOver(ProfitOf, SoldAt(k[1], k[2]))
                 /\ a.customer[k].received = SumOver(AmountPaid, PaidAt(k[1], k[2]))
<1> DEFINE rows == a.customer
<1>1. R \in SUBSET Days /\ DOMAIN rows \subseteq R \X Customers
      /\ \A d \in R : CustomersFrom(Now, d, rows)
  BY DEF Told
<1>2. IsFiniteSet(DOMAIN rows)
  <2>1. IsFiniteSet(R) BY <1>1, DaysApart
  <2>2. IsFiniteSet(R \X Customers) BY <2>1, RowsFinite, FS_Product
  <2> QED BY <2>2, <1>1, FS_Subset
<1>3. ASSUME NEW d \in R, NEW c \in Customers
      PROVE  /\ Meets(Now, d, c) <=> SoldAt(d, c) # {} \/ PaidAt(d, c) # {}
             /\ BuildCustomerRow(Now, d, c).sales = SaleAmounts(Now, SoldAt(d, c))
             /\ BuildCustomerRow(Now, d, c).received = Received(Now, PaidAt(d, c))
  <2>1. BoughtBy(Now, d, c) = SoldAt(d, c) /\ PaidBy(Now, d, c) = PaidAt(d, c)
    BY NowIs DEF SoldAt, PaidAt
  <2> QED BY <2>1 DEF Meets, BuildCustomerRow
<1>4. \A k : k \in DOMAIN rows <=>
         \E d \in R : \E c \in Customers :
            k = <<d, c>> /\ (SoldAt(d, c) # {} \/ PaidAt(d, c) # {})
  <2>1. ASSUME NEW k \in DOMAIN rows
        PROVE  \E d \in R : \E c \in Customers :
                  k = <<d, c>> /\ (SoldAt(d, c) # {} \/ PaidAt(d, c) # {})
    <3>1. PICK d \in R : \E c \in Customers : k = <<d, c>> BY <1>1
    <3>2. PICK c \in Customers : k = <<d, c>> BY <3>1
    <3> HIDE DEF rows
    <3> QED BY <3>2, <1>1, <1>3 DEF CustomersFrom
  <2>2. ASSUME NEW d \in R, NEW c \in Customers, SoldAt(d, c) # {} \/ PaidAt(d, c) # {}
        PROVE  <<d, c>> \in DOMAIN rows
    <3> HIDE DEF rows
    <3> QED BY <2>2, <1>1, <1>3 DEF CustomersFrom
  <2> QED BY <2>1, <2>2
<1>5. ASSUME NEW d \in R, NEW c \in Customers
      PROVE  /\ SaleAmounts(Now, SoldAt(d, c)).count = SumOver(OnesOf, SoldAt(d, c))
             /\ SaleAmounts(Now, SoldAt(d, c)).amount = SumOver(TotalOf, SoldAt(d, c))
             /\ SaleAmounts(Now, SoldAt(d, c)).amount - SaleAmounts(Now, SoldAt(d, c)).cost
                   = SumOver(ProfitOf, SoldAt(d, c))
             /\ Received(Now, PaidAt(d, c)) = SumOver(AmountPaid, PaidAt(d, c))
  <2> DEFINE S == SoldAt(d, c)
             P == PaidAt(d, c)
  <2>1. SalesRead(Now) /\ RestRead(Now) BY NowRead
  <2>2. /\ SalesCounted(Now, d) = ActiveIn({d}) /\ PaymentsMade(Now, d) = PaidIn({d})
        /\ SaleSeen(Now) = TotalOf /\ CostSeen(Now) = CostOf /\ PaymentSeen(Now) = AmountPaid
    BY NowIs
  <2>3. {d} \in SUBSET Days BY <1>1
  <2>4. IsFiniteSet(S) /\ S \subseteq ActiveIn({d}) BY <2>3, SoldToTyped DEF SoldAt
  <2>5. P \subseteq PaidIn({d}) BY <2>3, PaidInByTyped DEF PaidAt
  <2> HIDE DEF S, P
  <2>6. \A s \in S : \E x : s \in SalesCounted(Now, x) BY <2>2, <2>4
  <2>7. \A p \in P : \E x : p \in PaymentsMade(Now, x) BY <2>2, <2>5
  <2>8. /\ SaleAmounts(Now, S).count = Cardinality(S)
        /\ SaleAmounts(Now, S).amount = SumOver(TotalOf, S)
        /\ SaleAmounts(Now, S).cost = SumOver(CostOf, S)
    BY <2>1, <2>2, <2>6, SaleAmountsAre
  <2>9. Received(Now, P) = SumOver(AmountPaid, P) BY <2>1, <2>2, <2>7, ReceivedIs
  <2>10. \A s \in S : /\ OnesOf[s] = 1 /\ TotalOf[s] \in Nat /\ CostOf[s] \in Nat
                      /\ ProfitOf[s] = TotalOf[s] - CostOf[s] /\ ProfitOf[s] \in Int
    BY <2>4, SalesAreSums
  <2>11. SumOver(OnesOf, S) = Cardinality(S) BY <2>4, <2>10, SumOverOnes
  <2>12. SumOver(TotalOf, S) = SumOver(ProfitOf, S) + SumOver(CostOf, S)
    <3>1. \A s \in S : ProfitOf[s] \in Int /\ CostOf[s] \in Int
                       /\ TotalOf[s] = ProfitOf[s] + CostOf[s]
      BY <2>10
    <3> QED BY <2>4, <3>1, SumOverPlus
  <2>13. SumOver(ProfitOf, S) \in Int /\ SumOver(CostOf, S) \in Int
    <3>1. (\A s \in S : ProfitOf[s] \in Int) /\ (\A s \in S : CostOf[s] \in Int) BY <2>10
    <3> QED BY <2>4, <3>1, SumOverType
  <2>14. SumOver(TotalOf, S) - SumOver(CostOf, S) = SumOver(ProfitOf, S) BY <2>12, <2>13
  <2> QED BY <2>8, <2>9, <2>11, <2>14 DEF S, P
<1>6. ASSUME NEW k \in DOMAIN rows
      PROVE  /\ rows[k].sales.count = SumOver(OnesOf, SoldAt(k[1], k[2]))
             /\ rows[k].sales.amount = SumOver(TotalOf, SoldAt(k[1], k[2]))
             /\ rows[k].sales.amount - rows[k].sales.cost
                   = SumOver(ProfitOf, SoldAt(k[1], k[2]))
             /\ rows[k].received = SumOver(AmountPaid, PaidAt(k[1], k[2]))
  <2>1. PICK d \in R : \E c \in Customers :
           k = <<d, c>> /\ (SoldAt(d, c) # {} \/ PaidAt(d, c) # {})
    BY <1>4
  <2>2. PICK c \in Customers : k = <<d, c>> /\ (SoldAt(d, c) # {} \/ PaidAt(d, c) # {})
    BY <2>1
  <2>3. rows[k] = BuildCustomerRow(Now, d, c)
    <3> HIDE DEF rows
    <3> QED BY <2>2, <1>1, <1>3 DEF CustomersFrom
  <2>4. k[1] = d /\ k[2] = c BY <2>2
  <2>5. rows[k].sales = SaleAmounts(Now, SoldAt(d, c))
        /\ rows[k].received = Received(Now, PaidAt(d, c))
    BY <2>3, <1>3
  <2> HIDE DEF rows
  <2> QED BY <2>4, <2>5, <1>5
<1> QED BY <1>2, <1>4, <1>6

\* The rows of a customer in a range, of which every day has its own.
LEMMA CustomerKeysAre ==
    ASSUME BooksOK, NEW a, NEW R, Told(a, R), NEW c, NEW own, own = RowsOf(a.customer, c)
    PROVE  /\ IsFiniteSet(own) /\ own \subseteq DOMAIN a.customer
           /\ \A k : k \in own <=> \E d \in R : /\ k = <<d, c>> /\ c \in Customers
                                                /\ SoldAt(d, c) # {} \/ PaidAt(d, c) # {}
<1>1. IsFiniteSet(DOMAIN a.customer)
      /\ \A k : k \in DOMAIN a.customer <=>
            \E d \in R : \E e \in Customers :
               k = <<d, e>> /\ (SoldAt(d, e) # {} \/ PaidAt(d, e) # {})
  BY CustomerRows
<1>2. own \subseteq DOMAIN a.customer BY DEF RowsOf
<1>3. IsFiniteSet(own) BY <1>1, <1>2, FS_Subset
<1>4. ASSUME NEW k
      PROVE  k \in own <=> \E d \in R : /\ k = <<d, c>> /\ c \in Customers
                                        /\ SoldAt(d, c) # {} \/ PaidAt(d, c) # {}
  <2>1. k \in own <=> k \in DOMAIN a.customer /\ k[2] = c BY DEF RowsOf
  <2>2. CASE k \in own
    <3>1. PICK d \in R : \E e \in Customers :
             k = <<d, e>> /\ (SoldAt(d, e) # {} \/ PaidAt(d, e) # {})
      BY <1>1, <2>1, <2>2
    <3>2. PICK e \in Customers : k = <<d, e>> /\ (SoldAt(d, e) # {} \/ PaidAt(d, e) # {})
      BY <3>1
    <3>3. k[2] = e BY <3>2
    <3>4. e = c BY <2>1, <2>2, <3>3
    <3> QED BY <3>2, <3>4, <2>2
  <2>3. ASSUME NEW d \in R, k = <<d, c>>, c \in Customers,
               SoldAt(d, c) # {} \/ PaidAt(d, c) # {}
        PROVE  k \in own
    <3>1. k[2] = c BY <2>3
    <3> QED BY <1>1, <2>1, <2>3, <3>1
  <2> QED BY <2>2, <2>3
<1> QED BY <1>2, <1>3, <1>4

\* What the rows of a customer measure of sales is what the sales in the range measure.
LEMMA SoldSum ==
    ASSUME BooksOK, NEW a, NEW R, Told(a, R), NEW c \in Customers, NEW m,
           \A s \in SoldTo(R, c) : m[s] \in Int,
           NEW own, own = RowsOf(a.customer, c),
           NEW g, \A k \in own : g[k] = SumOver(m, SoldAt(k[1], k[2]))
    PROVE  SumOver(g, own) = SumOver(m, SoldTo(R, c))
<1> DEFINE S == SoldTo(R, c)
<1>0. R \in SUBSET Days BY DEF Told
<1>1. /\ IsFiniteSet(S)
      /\ \A d \in R : \A s : s \in SoldAt(d, c) <=> s \in S /\ DayOf[s] = d
      /\ \A s \in S : DayOf[s] \in R /\ s \in SoldAt(DayOf[s], c)
  BY <1>0, SoldToTyped
<1>2. /\ IsFiniteSet(own)
      /\ \A k : k \in own <=> \E d \in R : /\ k = <<d, c>> /\ c \in Customers
                                           /\ SoldAt(d, c) # {} \/ PaidAt(d, c) # {}
  BY CustomerKeysAre
<1>3. \A s \in S : m[s] \in Int OBVIOUS
<1> DEFINE key == [x \in S |-> <<DayOf[x], c>>]
<1>4. \A x \in S : key[x] = <<DayOf[x], c>> OBVIOUS
<1> HIDE DEF key, S
<1>5. \A x \in S : key[x] \in own BY <1>1, <1>2, <1>4
<1>6. PICK T : T = own OBVIOUS
<1>7. \A k \in T : g[k] = SumOver(m, Having(S, key, k))
  <2> TAKE k \in T
  <2>1. PICK d \in R : k = <<d, c>> BY <1>2, <1>6
  <2>2. k[1] = d /\ k[2] = c BY <2>1
  <2>3. \A x \in S : key[x] = k <=> DayOf[x] = d BY <1>4, <2>1
  <2>4. Having(S, key, k) = SoldAt(d, c) BY <1>1, <2>3 DEF Having
  <2>5. g[k] = SumOver(m, SoldAt(k[1], k[2])) BY <1>6
  <2> QED BY <2>2, <2>4, <2>5
<1>8. IsFiniteSet(S) BY <1>1
<1>9. IsFiniteSet(T) BY <1>2, <1>6
<1>10. \A x \in S : m[x] \in Int /\ key[x] \in T BY <1>3, <1>5, <1>6
<1>11. SumOver(m, S) = SumOver(g, T) BY <1>7, <1>8, <1>9, <1>10, SumOverKeys
<1> QED BY <1>6, <1>11 DEF S

\* The same of payments.
LEMMA PaidSum ==
    ASSUME BooksOK, NEW a, NEW R, Told(a, R), NEW c \in Customers,
           NEW own, own = RowsOf(a.customer, c),
           NEW g, \A k \in own : g[k] = SumOver(AmountPaid, PaidAt(k[1], k[2]))
    PROVE  SumOver(g, own) = SumOver(AmountPaid, PaidInBy(R, c))
<1> DEFINE S == PaidInBy(R, c)
<1>0. R \in SUBSET Days BY DEF Told
<1>1. /\ IsFiniteSet(S) /\ S \subseteq PaidIn(R)
      /\ \A d \in R : \A p : p \in PaidAt(d, c) <=> p \in S /\ PaidOn[p] = d
      /\ \A p \in S : PaidOn[p] \in R /\ p \in PaidAt(PaidOn[p], c)
  BY <1>0, PaidInByTyped
<1>2. /\ IsFiniteSet(own)
      /\ \A k : k \in own <=> \E d \in R : /\ k = <<d, c>> /\ c \in Customers
                                           /\ SoldAt(d, c) # {} \/ PaidAt(d, c) # {}
  BY CustomerKeysAre
<1>3. \A p \in S : AmountPaid[p] \in Int BY <1>0, <1>1, PaidInTyped
<1> DEFINE key == [x \in S |-> <<PaidOn[x], c>>]
<1>4. \A x \in S : key[x] = <<PaidOn[x], c>> OBVIOUS
<1> HIDE DEF key, S
<1>5. \A x \in S : key[x] \in own BY <1>1, <1>2, <1>4
<1>6. PICK T : T = own OBVIOUS
<1>7. \A k \in T : g[k] = SumOver(AmountPaid, Having(S, key, k))
  <2> TAKE k \in T
  <2>1. PICK d \in R : k = <<d, c>> BY <1>2, <1>6
  <2>2. k[1] = d /\ k[2] = c BY <2>1
  <2>3. \A x \in S : key[x] = k <=> PaidOn[x] = d BY <1>4, <2>1
  <2>4. Having(S, key, k) = PaidAt(d, c) BY <1>1, <2>3 DEF Having
  <2>5. g[k] = SumOver(AmountPaid, PaidAt(k[1], k[2])) BY <1>6
  <2> QED BY <2>2, <2>4, <2>5
<1>8. IsFiniteSet(S) BY <1>1
<1>9. IsFiniteSet(T) BY <1>2, <1>6
<1>10. \A x \in S : AmountPaid[x] \in Int /\ key[x] \in T BY <1>3, <1>5, <1>6
<1>11. SumOver(AmountPaid, S) = SumOver(g, T) BY <1>7, <1>8, <1>9, <1>10, SumOverKeys
<1> QED BY <1>6, <1>11 DEF S

\* What an answer says of each customer is what the range holds of it.
LEMMA CustomersTold ==
    ASSUME BooksOK, NEW a, NEW R, Told(a, R)
    PROVE  LET items == GetSalesByCustomer(a).items
           IN /\ items = AggregateCustomers(a) /\ DOMAIN items \subseteq Customers
              /\ \A c \in DOMAIN items :
                    /\ items[c].count = SumOver(OnesOf, SoldTo(R, c))
                    /\ items[c].revenue = SumOver(TotalOf, SoldTo(R, c))
                    /\ items[c].profit = SumOver(ProfitOf, SoldTo(R, c))
                    /\ items[c].paid = SumOver(AmountPaid, PaidInBy(R, c))
                    /\ items[c] = [count |-> items[c].count, revenue |-> items[c].revenue,
                                   profit |-> items[c].profit, paid |-> items[c].paid]
<1> DEFINE items == AggregateCustomers(a)
<1>0. R \in SUBSET Days BY DEF Told
<1>1. GetSalesByCustomer(a).items = items BY DEF GetSalesByCustomer
<1>2. DOMAIN items = {k[2] : k \in DOMAIN a.customer} BY DEF AggregateCustomers
<1>3. DOMAIN items \subseteq Customers
  <2>1. DOMAIN a.customer \subseteq R \X Customers BY DEF Told
  <2>2. \A k \in DOMAIN a.customer : k[2] \in Customers BY <2>1
  <2> QED BY <1>2, <2>2
<1>4. ASSUME NEW c \in DOMAIN items
      PROVE  /\ items[c].count = SumOver(OnesOf, SoldTo(R, c))
             /\ items[c].revenue = SumOver(TotalOf, SoldTo(R, c))
             /\ items[c].profit = SumOver(ProfitOf, SoldTo(R, c))
             /\ items[c].paid = SumOver(AmountPaid, PaidInBy(R, c))
             /\ items[c] = [count |-> items[c].count, revenue |-> items[c].revenue,
                            profit |-> items[c].profit, paid |-> items[c].paid]
  <2> DEFINE own == RowsOf(a.customer, c)
             n == [k \in own |-> a.customer[k].sales.count]
             v == [k \in own |-> a.customer[k].sales.amount]
             g == [k \in own |-> a.customer[k].sales.amount - a.customer[k].sales.cost]
             p == [k \in own |-> a.customer[k].received]
  <2>1. items[c] = [count |-> Sum(n), revenue |-> Sum(v), profit |-> Sum(g), paid |-> Sum(p)]
    BY <1>2 DEF AggregateCustomers, RowsOf
  <2>2. own \subseteq DOMAIN a.customer BY DEF RowsOf
  <2>3. \A k \in own : n[k] = SumOver(OnesOf, SoldAt(k[1], k[2])) BY <2>2, CustomerRows
  <2>4. \A k \in own : v[k] = SumOver(TotalOf, SoldAt(k[1], k[2])) BY <2>2, CustomerRows
  <2>5. \A k \in own : g[k] = SumOver(ProfitOf, SoldAt(k[1], k[2])) BY <2>2, CustomerRows
  <2>6. \A k \in own : p[k] = SumOver(AmountPaid, PaidAt(k[1], k[2])) BY <2>2, CustomerRows
  <2>7. n = [k \in own |-> n[k]] /\ v = [k \in own |-> v[k]] /\ g = [k \in own |-> g[k]]
        /\ p = [k \in own |-> p[k]]
    OBVIOUS
  <2>8. own = RowsOf(a.customer, c) /\ c \in Customers BY <1>3
  <2> HIDE DEF own, n, v, g, p, items
  <2>9. \A s \in SoldTo(R, c) : s \in ActiveIn(R) BY <1>0, SoldToTyped
  <2>10. \A s \in ActiveIn(R) : OnesOf[s] \in Int /\ TotalOf[s] \in Int /\ ProfitOf[s] \in Int
    BY SalesAreSums
  <2>11. SumOver(n, own) = SumOver(OnesOf, SoldTo(R, c))
    <3>1. \A s \in SoldTo(R, c) : OnesOf[s] \in Int BY <2>9, <2>10
    <3> QED BY <2>3, <2>8, <3>1, SoldSum
  <2>12. SumOver(v, own) = SumOver(TotalOf, SoldTo(R, c))
    <3>1. \A s \in SoldTo(R, c) : TotalOf[s] \in Int BY <2>9, <2>10
    <3> QED BY <2>4, <2>8, <3>1, SoldSum
  <2>13. SumOver(g, own) = SumOver(ProfitOf, SoldTo(R, c))
    <3>1. \A s \in SoldTo(R, c) : ProfitOf[s] \in Int BY <2>9, <2>10
    <3> QED BY <2>5, <2>8, <3>1, SoldSum
  <2>14. SumOver(p, own) = SumOver(AmountPaid, PaidInBy(R, c)) BY <2>6, <2>8, PaidSum
  <2>15. Sum(n) = SumOver(n, own) /\ Sum(v) = SumOver(v, own) /\ Sum(g) = SumOver(g, own)
         /\ Sum(p) = SumOver(p, own)
    BY <2>7, SumIs
  <2> QED BY <2>1, <2>11, <2>12, <2>13, <2>14, <2>15
<1> HIDE DEF items
<1> QED BY <1>1, <1>3, <1>4 DEF items

\* What some keys of a sum add up to is not more than the sum.
LEMMA SumOfSome ==
    ASSUME NEW f, NEW S, NEW k, NEW K, NEW g, IsFiniteSet(S), IsFiniteSet(K),
           \A x \in S : f[x] \in Nat, \A y \in K : g[y] = SumOver(f, Having(S, k, y))
    PROVE  SumOver(g, K) <= SumOver(f, S)
<1> DEFINE T == {x \in S : k[x] \in K}
<1>1. T \in SUBSET S OBVIOUS
<1>2. IsFiniteSet(T) BY <1>1, FS_Subset
<1>3. \A y \in K : Having(S, k, y) = Having(T, k, y) BY DEF Having
<1>4. \A x \in T : f[x] \in Int /\ k[x] \in K OBVIOUS
<1> HIDE DEF T
<1>5. \A y \in K : g[y] = SumOver(f, Having(T, k, y)) BY <1>3
<1>6. IsFiniteSet(K) OBVIOUS
<1>7. SumOver(f, T) = SumOver(g, K) BY ONLY <1>2, <1>4, <1>5, <1>6, SumOverKeys
<1>8. SumOver(f, T) <= SumOver(f, S) BY <1>1, SumOverSubset
<1> QED BY <1>7, <1>8

\* What was received, by day, is what was received.
LEMMA ReceivedTold ==
    ASSUME BooksOK, NEW a, NEW R, Told(a, R)
    PROVE  GetFinancialSummary(a).received = SumOver(AmountPaid, PaidIn(R))
<1> DEFINE g == [d \in DOMAIN a.company |-> a.company[d].received]
<1>0. DOMAIN a.company = R /\ R \in SUBSET Days BY DEF Told
<1>1. GetFinancialSummary(a).received = Sum(g) BY DEF GetFinancialSummary
<1>2. \A d \in R : g[d] = SumOver(AmountPaid, PaidIn({d})) BY <1>0, CompanyRows
<1>3. g = [d \in R |-> g[d]] BY <1>0
<1> HIDE DEF g
<1>4. /\ IsFiniteSet(PaidIn(R)) /\ IsFiniteSet(R)
      /\ \A p \in PaidIn(R) : AmountPaid[p] \in Int /\ PaidOn[p] \in R
      /\ \A d \in R : \A p : p \in PaidIn({d}) <=> p \in PaidIn(R) /\ PaidOn[p] = d
  BY <1>0, PaidInTyped
<1>5. \A d \in R : g[d] = SumOver(AmountPaid, Having(PaidIn(R), PaidOn, d))
  <2> TAKE d \in R
  <2>1. PaidIn({d}) = Having(PaidIn(R), PaidOn, d) BY <1>4 DEF Having
  <2> QED BY <2>1, <1>2
<1>6. IsFiniteSet(PaidIn(R)) BY <1>4
<1>7. IsFiniteSet(R) BY <1>4
<1>8. \A p \in PaidIn(R) : AmountPaid[p] \in Int /\ PaidOn[p] \in R BY <1>4
<1>9. SumOver(AmountPaid, PaidIn(R)) = SumOver(g, R) BY <1>5, <1>6, <1>7, <1>8, SumOverKeys
<1>10. Sum(g) = SumOver(g, R) BY <1>3, SumIs
<1> QED BY <1>1, <1>9, <1>10

\* What customers bought and paid is part of what was sold and received.
LEMMA CustomerTotals ==
    ASSUME BooksOK, NEW a, NEW R, Told(a, R)
    PROVE  /\ GetSalesByCustomer(a).totals.revenue <= GetSalesByDay(a).amount
           /\ GetSalesByCustomer(a).totals.paid <= GetFinancialSummary(a).received
<1> DEFINE items == AggregateCustomers(a)
           names == DOMAIN items
           v == [c \in names |-> items[c].revenue]
           w == [c \in names |-> items[c].paid]
<1>0. R \in SUBSET Days BY DEF Told
<1>1. GetSalesByCustomer(a).totals = [revenue |-> Sum(v), paid |-> Sum(w)]
  BY DEF GetSalesByCustomer, SumCustomerItems
<1>2. names \subseteq Customers
      /\ \A c \in names : /\ v[c] = SumOver(TotalOf, SoldTo(R, c))
                          /\ w[c] = SumOver(AmountPaid, PaidInBy(R, c))
  <2>1. PICK x : x = GetSalesByCustomer(a).items OBVIOUS
  <2>2. /\ x = items /\ DOMAIN x \subseteq Customers
        /\ \A c \in DOMAIN x : /\ x[c].revenue = SumOver(TotalOf, SoldTo(R, c))
                               /\ x[c].paid = SumOver(AmountPaid, PaidInBy(R, c))
    BY <2>1, CustomersTold
  <2> HIDE DEF items
  <2> QED BY <2>2
<1>3. v = [c \in names |-> v[c]] /\ w = [c \in names |-> w[c]] OBVIOUS
<1> HIDE DEF items, v, w
<1>4. IsFiniteSet(names)
  <2>1. \A c \in names : c \in Customers BY <1>2
  <2> HIDE DEF names
  <2> QED BY <2>1, RowsFinite, SubsetFinite
<1> HIDE DEF names
<1>5. \A c \in names : v[c] = SumOver(TotalOf, Having(ActiveIn(R), BuyerOf, c))
  BY <1>0, <1>2, SoldToTyped
<1>6. \A c \in names : w[c] = SumOver(AmountPaid, Having(PaidIn(R), PayerOf, c))
  BY <1>0, <1>2, PaidInByTyped
<1>7. IsFiniteSet(ActiveIn(R)) BY ActiveTyped
<1>8. IsFiniteSet(PaidIn(R)) BY <1>0, PaidInTyped
<1>9. \A s \in ActiveIn(R) : TotalOf[s] \in Nat BY SalesAreSums
<1>10. \A p \in PaidIn(R) : AmountPaid[p] \in Nat BY <1>0, PaidInTyped
<1>11. SumOver(v, names) <= SumOver(TotalOf, ActiveIn(R)) BY <1>4, <1>5, <1>7, <1>9, SumOfSome
<1>12. SumOver(w, names) <= SumOver(AmountPaid, PaidIn(R)) BY <1>4, <1>6, <1>8, <1>10, SumOfSome
<1>13. Sum(v) = SumOver(v, names) /\ Sum(w) = SumOver(w, names) BY <1>3, SumIs
<1>14. GetSalesByDay(a).amount = SumOver(TotalOf, ActiveIn(R)) BY SalesTold, SalesAreSums
<1>15. GetFinancialSummary(a).received = SumOver(AmountPaid, PaidIn(R)) BY ReceivedTold
<1> QED BY <1>1, <1>11, <1>12, <1>13, <1>14, <1>15

\* Of all days, what an answer says of a customer is its commercial context.
LEMMA ContextTold ==
    ASSUME BooksOK, NEW a, Told(a, Days), NEW c \in DOMAIN GetSalesByCustomer(a).items
    PROVE  LET items == GetSalesByCustomer(a).items
           IN /\ items[c] = BuildCommercialContext(c)
              /\ GetSalesByCustomerForTenant(a, c).totals
                    = [revenue |-> items[c].revenue, paid |-> items[c].paid]
<1> DEFINE items == AggregateCustomers(a)
           own == SoldTo(Days, c)
           sold == {s \in SoldIn(Days) : Customer(s) = c}
           v == [s \in own |-> Total(s)]
           g == [s \in own |-> Total(s) - sale[s].form.cost]
<1>1. GetSalesByCustomer(a).items = items
      /\ items[c].count = SumOver(OnesOf, own)
      /\ items[c].revenue = SumOver(TotalOf, own)
      /\ items[c].profit = SumOver(ProfitOf, own)
      /\ items[c].paid = SumOver(AmountPaid, PaidInBy(Days, c))
      /\ items[c] = [count |-> items[c].count, revenue |-> items[c].revenue,
                     profit |-> items[c].profit, paid |-> items[c].paid]
  BY CustomersTold
<1>2. BuildCommercialContext(c) = [count |-> Cardinality(own), revenue |-> Sum(v),
                                   profit |-> Sum(g), paid |-> Paid(sold)]
  BY DEF BuildCommercialContext, SoldTo
<1>3. Days \in SUBSET Days OBVIOUS
<1>4. IsFiniteSet(own) /\ own \subseteq ActiveIn(Days) BY <1>3, SoldToTyped
<1>5. \A s \in own : /\ OnesOf[s] = 1 /\ TotalOf[s] = Total(s) /\ TotalOf[s] \in Nat
                     /\ CostOf[s] = sale[s].form.cost /\ ProfitOf[s] = TotalOf[s] - CostOf[s]
                     /\ ProfitOf[s] \in Int
  BY <1>4, SalesAreSums
<1>6. Cardinality(own) = SumOver(OnesOf, own) BY <1>4, <1>5, SumOverOnes
<1>7. v = [s \in own |-> v[s]] /\ g = [s \in own |-> g[s]]
      /\ (\A s \in own : v[s] = TotalOf[s]) /\ (\A s \in own : g[s] = ProfitOf[s])
  BY <1>5
<1> HIDE DEF v, g
<1>8. Sum(v) = SumOver(TotalOf, own) /\ Sum(g) = SumOver(ProfitOf, own) BY <1>7, SumIs
<1>9. Paid(sold) = SumOver(AmountPaid, PaymentsOf(sold)) BY PaymentsTyped
<1>10. PaymentsOf(sold) = PaidInBy(Days, c)
  <2>1. ASSUME NEW p \in Payments, payment[p] # Nothing
        PROVE  payment[p].day \in Days
               /\ (payment[p].sale \in sold <=> Customer(payment[p].sale) = c)
    <3>1. payment[p].sale \in Sales /\ payment[p].day \in Days /\ Exists(payment[p].sale)
      BY <2>1, PaymentTyped
    <3>2. sale[payment[p].sale].day \in Days BY <3>1, SaleTyped
    <3> QED BY <3>1, <3>2 DEF SoldIn
  <2> HIDE DEF sold
  <2> QED BY <2>1 DEF PaymentsOf, PaidInBy, PaidIn
<1>11. items[c] = BuildCommercialContext(c)
  <2> HIDE DEF items, own, sold
  <2> QED BY <1>1, <1>2, <1>6, <1>8, <1>9, <1>10
<1>12. SumOver(TotalOf, own) \in Int /\ SumOver(AmountPaid, PaidInBy(Days, c)) \in Int
  <2>1. \A s \in own : TotalOf[s] \in Int BY <1>5
  <2>2. Paid(sold) \in Nat BY PaymentsTyped
  <2> QED BY <1>4, <1>9, <1>10, <2>1, <2>2, SumOverType
<1>13. GetSalesByCustomerForTenant(a, c).totals
          = [revenue |-> items[c].revenue, paid |-> items[c].paid]
  <2> DEFINE mine == [x \in DOMAIN items \cap {c} |-> items[x]]
             x == [e \in DOMAIN mine |-> mine[e].revenue]
             y == [e \in DOMAIN mine |-> mine[e].paid]
  <2>1. GetSalesByCustomerForTenant(a, c).totals = [revenue |-> Sum(x), paid |-> Sum(y)]
    BY <1>1 DEF GetSalesByCustomerForTenant, SumCustomerItems
  <2>2. DOMAIN mine = {c}
    <3>1. c \in DOMAIN items BY <1>1
    <3> HIDE DEF items
    <3> QED BY <3>1
  <2>3. x[c] = items[c].revenue /\ y[c] = items[c].paid BY <2>2
  <2>4. x = [e \in {c} |-> x[e]] /\ y = [e \in {c} |-> y[e]] BY <2>2
  <2> HIDE DEF x, y, mine, items, own
  <2>5. Sum(x) = SumOver(x, {c}) /\ Sum(y) = SumOver(y, {c}) BY <2>4, SumIs
  <2>6. x[c] \in Int /\ y[c] \in Int BY <1>1, <1>12, <2>3
  <2>7. SumOver(x, {c}) = x[c] BY <2>6, SumOverSingle
  <2>8. SumOver(y, {c}) = y[c] BY <2>6, SumOverSingle
  <2> QED BY <2>1, <2>3, <2>5, <2>7, <2>8
<1> HIDE DEF items
<1> QED BY <1>1, <1>11, <1>13

\* Purchases that were not cancelled, and the day of an entry.
Bought(R) == {e \in GetPurchases(R) : ~entry[e].cancelled}
EnteredOn == [e \in Entries |-> entry[e].day]

\* What was purchased, by day, is what the list of purchases amounts to.
LEMMA PurchasedTold ==
    ASSUME BooksOK, NEW a, NEW R, Told(a, R)
    PROVE  GetFinancialSummary(a).purchased
              = Sum([e \in {e \in GetPurchases(R) : ~entry[e].cancelled} |-> entry[e].amount])
<1> DEFINE g == [d \in DOMAIN a.company |-> a.company[d].purchased]
           h == [e \in Bought(R) |-> entry[e].amount]
<1>0. DOMAIN a.company = R /\ R \in SUBSET Days BY DEF Told
<1>1. GetFinancialSummary(a).purchased = Sum(g) BY DEF GetFinancialSummary
<1>2. \A e \in Bought(R) : /\ e \in Entries /\ entry[e] # Nothing /\ entry[e].day \in R
                           /\ entry[e].kind = "purchase" /\ ~entry[e].cancelled
  BY DEF Bought, GetPurchases
<1>3. \A e \in Bought(R) : AmountEntered[e] = entry[e].amount /\ AmountEntered[e] \in Int
  <2> TAKE e \in Bought(R)
  <2>1. entry \in [Entries -> EntryRows \cup {Nothing}] BY DEF BooksOK, RowsTyped
  <2>2. entry[e] \in EntryRows BY <1>2, <2>1
  <2>3. entry[e].amount \in Nat BY <2>2 DEF EntryRows
  <2> QED BY <1>2, <2>3 DEF AmountEntered
<1>4. IsFiniteSet(Bought(R))
  <2>1. \A e \in Bought(R) : e \in Entries BY <1>2
  <2> QED BY <2>1, RowsFinite, SubsetFinite
<1>5. \A d \in R : /\ g[d] = AmountOf(Now, PurchasesMade(Now, d))
                   /\ PurchasesMade(Now, d) = Having(Bought(R), EnteredOn, d)
  <2> TAKE d \in R
  <2>1. g[d] = AmountOf(Now, PurchasesMade(Now, d)) BY <1>0, CompanyRows
  <2>2. Now.entry = entry BY DEF Now
  <2>3. \A e : e \in PurchasesMade(Now, d) <=>
           /\ e \in Entries /\ entry[e] # Nothing /\ entry[e].kind \in {"purchase"}
           /\ entry[e].day = d /\ ~entry[e].cancelled
    BY <2>2, Zenon DEF PurchasesMade, EntriesMade
  <2>4. \A e : e \in Having(Bought(R), EnteredOn, d) <=>
           /\ e \in Entries /\ entry[e] # Nothing /\ entry[e].kind = "purchase"
           /\ entry[e].day = d /\ ~entry[e].cancelled
    BY DEF Having, Bought, GetPurchases, EnteredOn
  <2> HIDE DEF g
  <2> QED BY <2>1, <2>3, <2>4
<1>6. \A d \in R : g[d] = SumOver(AmountEntered, Having(Bought(R), EnteredOn, d))
  <2> TAKE d \in R
  <2> DEFINE B == Having(Bought(R), EnteredOn, d)
             f == [e \in B |-> Now.entry[e].amount]
  <2>1. g[d] = AmountOf(Now, B) BY <1>5
  <2>2. AmountOf(Now, B) = Sum(f) BY DEF AmountOf
  <2>3. f = [e \in B |-> f[e]] OBVIOUS
  <2>4. \A e \in B : f[e] = AmountEntered[e]
    <3>1. Now.entry = entry BY DEF Now
    <3>2. \A e \in B : e \in Bought(R) BY DEF Having
    <3> QED BY <3>1, <3>2, <1>3
  <2> HIDE DEF f, g, B
  <2>5. Sum(f) = SumOver(AmountEntered, B) BY <2>3, <2>4, SumIs
  <2> QED BY <2>1, <2>2, <2>5 DEF B
<1>7. IsFiniteSet(R) BY <1>0, DaysApart
<1>8. g = [d \in R |-> g[d]] BY <1>0
<1>9. h = [e \in Bought(R) |-> h[e]] /\ \A e \in Bought(R) : h[e] = AmountEntered[e] BY <1>3
<1>10. Sum(h) = Sum([e \in {e \in GetPurchases(R) : ~entry[e].cancelled} |-> entry[e].amount])
  BY DEF Bought
<1> HIDE DEF g, h
<1>11. \A e \in Bought(R) : AmountEntered[e] \in Int /\ EnteredOn[e] \in R
  BY <1>2, <1>3 DEF EnteredOn
<1>12. SumOver(AmountEntered, Bought(R)) = SumOver(g, R)
  BY <1>4, <1>6, <1>7, <1>11, SumOverKeys
<1>13. Sum(g) = SumOver(g, R) BY <1>8, SumIs
<1>14. Sum(h) = SumOver(AmountEntered, Bought(R)) BY <1>9, SumIs
<1> QED BY <1>1, <1>10, <1>12, <1>13, <1>14

\* The answers of a request that was not disturbed are those of the books, whatever days,
\* sales and payments they are of.
LEMMA AnswersHold == ASSUME SnapshotsOK PROVE AnswersAreTrue
<1>0. BooksOK BY DEF SnapshotsOK, TypeOK
<1>1. SUFFICES ASSUME NEW r \in Requests, At(r, "answered")
               PROVE  LET a == job[r]
                          range == Asked(r)
                          top == TopSellingProducts(range)
                          category == ProductSalesByCategory(range)
                          product == GetSalesByProduct(a).items
                          customer == GetSalesByCustomer(a)
                      IN /\ DOMAIN a.company = range
                         /\ a.quiet /\ a.rebuilt =>
                              /\ GetDashboard(a).sales = AggregateSales(range)
                              /\ \A d \in DOMAIN GroupSalesSeries(range) :
                                    a.company[d].sales.amount
                                       = GetSalesSummary(range).series[d].amount
                              /\ DOMAIN product = DOMAIN top
                              /\ \A p \in DOMAIN top :
                                    /\ product[p].quantity = top[p].quantity
                                    /\ product[p].revenue = top[p].amount
                              /\ \A k \in DOMAIN category :
                                    GetSalesByProductForTenant(a, k).totals
                                       = [quantity |-> category[k].quantity,
                                          revenue |-> category[k].amount]
                              /\ GetSalesByProduct(a).totals.revenue
                                    = Sum([k \in DOMAIN category |-> category[k].amount])
                              /\ customer.totals.revenue <= GetSalesByDay(a).amount
                              /\ customer.totals.paid <= GetFinancialSummary(a).received
                              /\ range = Days => \A c \in DOMAIN customer.items :
                                    /\ customer.items[c] = BuildCommercialContext(c)
                                    /\ GetSalesByCustomerForTenant(a, c).totals
                                          = [revenue |-> customer.items[c].revenue,
                                             paid |-> customer.items[c].paid]
                              /\ GetFinancialSummary(a).purchased
                                    = Sum([e \in {e \in GetPurchases(range) :
                                                     ~entry[e].cancelled} |-> entry[e].amount])
  BY DEF AnswersAreTrue
<1>2. PICK a : a = job[r] OBVIOUS
<1>3. PICK R : R = Asked(r) OBVIOUS
<1>4. DOMAIN a.company = R /\ (a.quiet /\ a.rebuilt => Told(a, R))
  <2>1. DOMAIN job[r].company = Asked(r)
        /\ (job[r].quiet /\ job[r].rebuilt => Told(job[r], Asked(r)))
    BY <1>1, AnswerTold
  <2> QED BY <1>2, <1>3, <2>1, Zenon
<1>5. ASSUME a.quiet /\ a.rebuilt
      PROVE  /\ GetDashboard(a).sales = AggregateSales(R)
             /\ \A d \in DOMAIN GroupSalesSeries(R) :
                   a.company[d].sales.amount = GetSalesSummary(R).series[d].amount
             /\ DOMAIN GetSalesByProduct(a).items = DOMAIN TopSellingProducts(R)
             /\ \A p \in DOMAIN TopSellingProducts(R) :
                   /\ GetSalesByProduct(a).items[p].quantity = TopSellingProducts(R)[p].quantity
                   /\ GetSalesByProduct(a).items[p].revenue = TopSellingProducts(R)[p].amount
             /\ \A k \in DOMAIN ProductSalesByCategory(R) :
                   GetSalesByProductForTenant(a, k).totals
                      = [quantity |-> ProductSalesByCategory(R)[k].quantity,
                         revenue |-> ProductSalesByCategory(R)[k].amount]
             /\ GetSalesByProduct(a).totals.revenue
                   = Sum([k \in DOMAIN ProductSalesByCategory(R) |->
                             ProductSalesByCategory(R)[k].amount])
             /\ GetSalesByCustomer(a).totals.revenue <= GetSalesByDay(a).amount
             /\ GetSalesByCustomer(a).totals.paid <= GetFinancialSummary(a).received
             /\ R = Days => \A c \in DOMAIN GetSalesByCustomer(a).items :
                   /\ GetSalesByCustomer(a).items[c] = BuildCommercialContext(c)
                   /\ GetSalesByCustomerForTenant(a, c).totals
                         = [revenue |-> GetSalesByCustomer(a).items[c].revenue,
                            paid |-> GetSalesByCustomer(a).items[c].paid]
             /\ GetFinancialSummary(a).purchased
                   = Sum([e \in {e \in GetPurchases(R) : ~entry[e].cancelled} |->
                             entry[e].amount])
  <2>1. Told(a, R) BY <1>4, <1>5
  <2>2. /\ GetDashboard(a).sales = AggregateSales(R)
        /\ \A d \in DOMAIN GroupSalesSeries(R) :
              a.company[d].sales.amount = GetSalesSummary(R).series[d].amount
    BY <1>0, <2>1, SalesTold
  <2>3. /\ DOMAIN GetSalesByProduct(a).items = DOMAIN TopSellingProducts(R)
        /\ \A p \in DOMAIN TopSellingProducts(R) :
              /\ GetSalesByProduct(a).items[p].quantity = TopSellingProducts(R)[p].quantity
              /\ GetSalesByProduct(a).items[p].revenue = TopSellingProducts(R)[p].amount
    BY <1>0, <2>1, ProductsTold
  <2>4. /\ \A k \in DOMAIN ProductSalesByCategory(R) :
              GetSalesByProductForTenant(a, k).totals
                 = [quantity |-> ProductSalesByCategory(R)[k].quantity,
                    revenue |-> ProductSalesByCategory(R)[k].amount]
        /\ GetSalesByProduct(a).totals.revenue
              = Sum([k \in DOMAIN ProductSalesByCategory(R) |->
                        ProductSalesByCategory(R)[k].amount])
    BY <1>0, <2>1, CategoriesTold, Zenon
  <2>5. /\ GetSalesByCustomer(a).totals.revenue <= GetSalesByDay(a).amount
        /\ GetSalesByCustomer(a).totals.paid <= GetFinancialSummary(a).received
    BY <1>0, <2>1, CustomerTotals
  <2>6. R = Days => \A c \in DOMAIN GetSalesByCustomer(a).items :
           /\ GetSalesByCustomer(a).items[c] = BuildCommercialContext(c)
           /\ GetSalesByCustomerForTenant(a, c).totals
                 = [revenue |-> GetSalesByCustomer(a).items[c].revenue,
                    paid |-> GetSalesByCustomer(a).items[c].paid]
    BY <1>0, <2>1, ContextTold
  <2>7. GetFinancialSummary(a).purchased
           = Sum([e \in {e \in GetPurchases(R) : ~entry[e].cancelled} |-> entry[e].amount])
    BY <1>0, <2>1, PurchasedTold, Zenon
  <2> QED BY <2>2, <2>3, <2>4, <2>5, <2>6, <2>7, Zenon
<1> QED BY <1>2, <1>3, <1>4, <1>5, Zenon

(* An answer that was rebuilt and that nothing disturbed says what the books *)
(* say: the totals, the best sellers, the categories, and what every         *)
(* customer bought, paid and yielded (analytics-snapshots.service.ts         *)
(* materializeCompanyRange, analytics-reports.service.ts).                   *)
THEOREM AnswersAreThoseOfTheBooks == Spec => []AnswersAreTrue
<1>1. SnapshotsOK => AnswersAreTrue BY AnswersHold
<1> QED BY <1>1, SnapshotsAlwaysOK, PTL

(***************************************************************************)
(* Every sale is accounted for.                                            *)
(***************************************************************************)
\* Who a sale is of: its session, the user of its session, its seller.
SessionOf == [s \in Sales |-> sale[s].form.session]
SessionUserOf == [s \in Sales |-> SessionUser(s)]
ActorOf == [s \in Sales |-> ResolveSaleActor(s)]

\* Sales that are active, when a range is in two parts.
LEMMA ActiveAdds ==
    ASSUME BooksOK, NEW P, NEW Q, P \cap Q = {}
    PROVE  AggregateSales(P \cup Q).amount = AggregateSales(P).amount + AggregateSales(Q).amount
<1> DEFINE S == ActiveIn(P)
           T == ActiveIn(Q)
<1>1. ActiveIn(P \cup Q) = S \cup T /\ S \cap T = {} BY DEF ActiveIn, SoldIn
<1>2. IsFiniteSet(S) BY ActiveTyped
<1>3. IsFiniteSet(T) BY ActiveTyped
<1>4. \A s \in S \cup T : TotalOf[s] \in Int BY SalesAreSums
<1>5. /\ AggregateSales(P).amount = SumOver(TotalOf, S)
      /\ AggregateSales(Q).amount = SumOver(TotalOf, T)
      /\ AggregateSales(P \cup Q).amount = SumOver(TotalOf, S \cup T)
  BY <1>1, SalesAreSums
<1> HIDE DEF S, T
<1>6. SumOver(TotalOf, S \cup T) = SumOver(TotalOf, S) + SumOver(TotalOf, T)
  BY <1>1, <1>2, <1>3, <1>4, SumOverUnion
<1> QED BY <1>5, <1>6

\* What the report of employees says of a user is what was sold in the user's sessions.
LEMMA EmployeesAre ==
    ASSUME BooksOK, NEW R
    PROVE  LET report == EmployeeReports(R)
           IN /\ \A u : u \in DOMAIN report <=>
                    u # Nothing /\ Having(ActiveIn(R), SessionUserOf, u) # {}
              /\ IsFiniteSet(DOMAIN report)
              /\ \A u \in DOMAIN report :
                    /\ report[u].amount = SumOver(TotalOf, Having(ActiveIn(R), SessionUserOf, u))
                    /\ report[u].count = SumOver(OnesOf, Having(ActiveIn(R), SessionUserOf, u))
              /\ Sum([u \in DOMAIN report |-> report[u].amount]) <= AggregateSales(R).amount
              /\ Sum([u \in DOMAIN report |-> report[u].count]) <= AggregateSales(R).count
<1> DEFINE report == EmployeeReports(R)
           S == ActiveIn(R)
           D == DOMAIN report
           v == [u \in D |-> report[u].amount]
           n == [u \in D |-> report[u].count]
<1>1. \A s \in S : s \in Sales /\ SessionUserOf[s] = SessionUser(s)
  BY ActiveTyped DEF SessionUserOf
<1>2. \A u : Having(S, SessionUserOf, u) = {s \in S : SessionUser(s) = u} BY <1>1 DEF Having
<1>3. D = {SessionUser(s) : s \in S} \ {Nothing} BY DEF EmployeeReports
<1>4. \A u : u \in D <=> u # Nothing /\ Having(S, SessionUserOf, u) # {}
  BY <1>3, <1>2
<1>5. IsFiniteSet(S) BY ActiveTyped
<1>6. IsFiniteSet(D)
  <2>1. \A u \in D : \E s \in S : SessionUserOf[s] = u BY <1>1, <1>3
  <2> HIDE DEF D, S
  <2> QED BY <2>1, <1>5, ImageFinite
<1>7. \A s \in S : /\ OnesOf[s] = 1 /\ OnesOf[s] \in Nat /\ TotalOf[s] = Total(s)
                   /\ TotalOf[s] \in Nat
  BY SalesAreSums
<1>8. ASSUME NEW u \in D
      PROVE  /\ report[u].amount = SumOver(TotalOf, Having(S, SessionUserOf, u))
             /\ report[u].count = SumOver(OnesOf, Having(S, SessionUserOf, u))
  <2> DEFINE own == Having(S, SessionUserOf, u)
             g == [s \in own |-> Total(s)]
  <2>1. report[u] = [count |-> Cardinality(own), amount |-> Sum(g)]
    BY <1>2 DEF EmployeeReports
  <2>2. own \subseteq S BY DEF Having
  <2>3. IsFiniteSet(own) BY <2>2, <1>5, FS_Subset
  <2>4. g = [s \in own |-> g[s]] /\ \A s \in own : g[s] = TotalOf[s] BY <2>2, <1>7
  <2>5. \A s \in own : OnesOf[s] = 1 BY <2>2, <1>7
  <2> HIDE DEF g, own, report
  <2>6. Sum(g) = SumOver(TotalOf, own) BY <2>4, SumIs
  <2>7. SumOver(OnesOf, own) = Cardinality(own) BY <2>3, <2>5, SumOverOnes
  <2> QED BY <2>1, <2>6, <2>7 DEF own
<1>9. (\A u \in D : v[u] = SumOver(TotalOf, Having(S, SessionUserOf, u)))
      /\ (\A u \in D : n[u] = SumOver(OnesOf, Having(S, SessionUserOf, u)))
  BY <1>8
<1>10. v = [u \in D |-> v[u]] /\ n = [u \in D |-> n[u]] OBVIOUS
<1>11. AggregateSales(R).amount = SumOver(TotalOf, S)
       /\ AggregateSales(R).count = SumOver(OnesOf, S)
  BY SalesAreSums
<1> HIDE DEF v, n, S
<1>12. Sum(v) = SumOver(v, D) /\ Sum(n) = SumOver(n, D) BY <1>10, SumIs
<1> HIDE DEF D
<1>13. \A s \in S : TotalOf[s] \in Nat BY <1>7
<1>14. \A s \in S : OnesOf[s] \in Nat BY <1>7
<1>15. \A u \in D : v[u] = SumOver(TotalOf, Having(S, SessionUserOf, u)) BY <1>9
<1>16. \A u \in D : n[u] = SumOver(OnesOf, Having(S, SessionUserOf, u)) BY <1>9
<1>17. SumOver(v, D) <= SumOver(TotalOf, S) BY <1>5, <1>6, <1>13, <1>15, SumOfSome
<1>18. SumOver(n, D) <= SumOver(OnesOf, S) BY <1>5, <1>6, <1>14, <1>16, SumOfSome
<1>19. Sum(v) <= AggregateSales(R).amount /\ Sum(n) <= AggregateSales(R).count
  BY <1>11, <1>12, <1>17, <1>18
<1> QED BY <1>4, <1>6, <1>8, <1>19 DEF v, n, D, S

\* The dashboard of the owner.
LEMMA BoardAdds ==
    ASSUME BooksOK
    PROVE  LET board == GetBusinessDashboard
           IN /\ board.month.amount
                    = board.today.amount + AggregateSales(1..(today - 1)).amount
              /\ Sum([u \in DOMAIN board.employees |-> board.employees[u].amount])
                    <= board.month.amount
<1>1. /\ GetBusinessDashboard.today = AggregateSales({today})
      /\ GetBusinessDashboard.month = AggregateSales(1..today)
      /\ GetBusinessDashboard.employees = EmployeeReports(1..today)
  BY DEF GetBusinessDashboard
<1>2. today \in Nat /\ today >= 1
  <2>1. today \in Days BY DEF BooksOK, RowsTyped
  <2> QED BY <2>1, ReportsAssumption DEF Days
<1>3. 1..today = {today} \cup (1..(today - 1)) /\ {today} \cap (1..(today - 1)) = {}
  BY <1>2
<1>4. AggregateSales(1..today).amount
         = AggregateSales({today}).amount + AggregateSales(1..(today - 1)).amount
  <2>1. PICK P : P = {today} OBVIOUS
  <2>2. PICK Q : Q = 1..(today - 1) OBVIOUS
  <2>3. P \cap Q = {} BY <1>3, <2>1, <2>2
  <2>4. AggregateSales(P \cup Q).amount = AggregateSales(P).amount + AggregateSales(Q).amount
    BY <2>3, ActiveAdds
  <2> QED BY <2>1, <2>2, <2>4, <1>3
<1>5. PICK R : R = 1..today OBVIOUS
<1>6. Sum([u \in DOMAIN EmployeeReports(R) |-> EmployeeReports(R)[u].amount])
         <= AggregateSales(R).amount
  BY EmployeesAre
<1> QED BY <1>1, <1>4, <1>5, <1>6

\* What was sold in some cash sessions.
LEMMA SessionSums ==
    ASSUME BooksOK, NEW C
    PROVE  LET sold == {s \in ActiveIn(Days) : sale[s].form.session \in C}
           IN /\ CashSessionsSummary(C).amount = SumOver(TotalOf, sold)
              /\ CashSessionsSummary(C).count = Cardinality(sold)
              /\ IsFiniteSet(sold)
              /\ \A s \in sold : /\ s \in Sales /\ TotalOf[s] \in Int
                                 /\ SessionOf[s] = sale[s].form.session
<1> DEFINE sold == {s \in ActiveIn(Days) : sale[s].form.session \in C}
           g == [s \in sold |-> Total(s)]
<1>1. CashSessionsSummary(C).amount = Sum(g)
      /\ CashSessionsSummary(C).count = Cardinality(sold)
  BY DEF CashSessionsSummary
<1>2. sold \subseteq ActiveIn(Days) OBVIOUS
<1>3. IsFiniteSet(ActiveIn(Days)) BY ActiveTyped
<1>4. IsFiniteSet(sold) BY <1>2, <1>3, FS_Subset
<1>5. \A s \in sold : s \in Sales /\ TotalOf[s] \in Int /\ TotalOf[s] = Total(s)
  BY <1>2, SalesAreSums
<1>6. g = [s \in sold |-> g[s]] /\ \A s \in sold : g[s] = TotalOf[s] BY <1>5
<1>7. \A s \in sold : SessionOf[s] = sale[s].form.session BY <1>5 DEF SessionOf
<1> HIDE DEF g, sold
<1>8. Sum(g) = SumOver(TotalOf, sold) BY <1>6, SumIs
<1> QED BY <1>1, <1>4, <1>5, <1>7, <1>8 DEF sold

\* The sessions of all days, by status.
LEMMA SessionsListed ==
    ASSUME BooksOK
    PROVE  LET all == ListCashSessions(Days, "all")
               open == FilterCashSessionsByStatus(LoadCashSessions(Days), "open")
               closed == FilterCashSessionsByStatus(LoadCashSessions(Days), "closed")
           IN /\ \A c : c \in DOMAIN all.rows <=> c \in Sessions /\ session[c] # Nothing
              /\ \A c \in DOMAIN all.rows : all.rows[c] = SerializeCashSessionRow(c)
              /\ all.summary = CashSessionsSummary(DOMAIN all.rows)
              /\ ListCashSessions(Days, "open").summary = CashSessionsSummary(open)
              /\ ListCashSessions(Days, "closed").summary = CashSessionsSummary(closed)
              /\ DOMAIN all.rows = open \cup closed /\ open \cap closed = {}
<1> DEFINE L == LoadCashSessions(Days)
           F(status) == FilterCashSessionsByStatus(L, status)
<1>1. \A c : c \in L <=> c \in Sessions /\ session[c] # Nothing
  <2> TAKE c
  <2>1. ASSUME c \in Sessions, session[c] # Nothing PROVE session[c].opened \in Days
    <3>1. session[c] \in SessionRows BY <2>1 DEF BooksOK, RowsTyped
    <3> QED BY <3>1 DEF SessionRows
  <2> QED BY <2>1 DEF LoadCashSessions
<1>2. F("all") = L BY DEF FilterCashSessionsByStatus
<1>3. \A c : c \in F("open") <=> c \in L /\ SessionStatus(c) = "open"
  BY DEF FilterCashSessionsByStatus
<1>4. \A c : c \in F("closed") <=> c \in L /\ SessionStatus(c) = "closed"
  BY DEF FilterCashSessionsByStatus
<1>5. \A c : /\ SessionStatus(c) = "open" \/ SessionStatus(c) = "closed"
             /\ ~(SessionStatus(c) = "open" /\ SessionStatus(c) = "closed")
  BY DEF SessionStatus
<1>6. L = F("open") \cup F("closed") /\ F("open") \cap F("closed") = {}
  <2> HIDE DEF L, F
  <2> QED BY <1>3, <1>4, <1>5
<1>7. /\ DOMAIN ListCashSessions(Days, "all").rows = L
      /\ \A c \in L : ListCashSessions(Days, "all").rows[c] = SerializeCashSessionRow(c)
      /\ ListCashSessions(Days, "all").summary = CashSessionsSummary(L)
      /\ ListCashSessions(Days, "open").summary = CashSessionsSummary(F("open"))
      /\ ListCashSessions(Days, "closed").summary = CashSessionsSummary(F("closed"))
  BY <1>2 DEF ListCashSessions
<1> HIDE DEF L
<1> QED BY <1>1, <1>6, <1>7 DEF L

\* What the sessions of a user sold.
SoldInSession(c) == CashSessionsSummary({c}).amount
\* What a user's sessions sold is what was sold to their sessions.
LEMMA UserSessions ==
    ASSUME BooksOK, NEW u, u # Nothing, NEW C,
           \A c : c \in C <=> c \in Sessions /\ session[c] # Nothing /\ session[c].user = u,
           NEW g, g = [c \in C |-> g[c]], \A c \in C : g[c] = SoldInSession(c)
    PROVE  Sum(g) = SumOver(TotalOf, Having(ActiveIn(Days), SessionUserOf, u))
<1> DEFINE S == Having(ActiveIn(Days), SessionUserOf, u)
<1>1. \A s \in ActiveIn(Days) : /\ s \in Sales /\ Exists(s) /\ SessionOf[s] = sale[s].form.session
                                /\ SessionUserOf[s] = SessionUser(s) /\ TotalOf[s] \in Int
  <2>1. \A s \in ActiveIn(Days) : s \in Sales /\ Exists(s) BY ActiveTyped
  <2>2. \A s \in ActiveIn(Days) : TotalOf[s] \in Int BY SalesAreSums
  <2> QED BY <2>1, <2>2 DEF SessionOf, SessionUserOf
<1>2. ASSUME NEW s \in ActiveIn(Days) PROVE s \in S <=> SessionOf[s] \in C
  <2> DEFINE c == sale[s].form.session
  <2>1. s \in Sales /\ Exists(s) /\ SessionOf[s] = c /\ SessionUserOf[s] = SessionUser(s)
    BY <1>1
  <2>2. SessionUser(s) = IF c = Nothing THEN Nothing ELSE session[c].user BY DEF SessionUser
  <2>3. c # Nothing => c \in Sessions /\ session[c] # Nothing
    <3>1. sale[s].form \in Forms BY <2>1, SaleTyped
    <3>2. c \in Sessions \cup {Nothing} BY <3>1, FormTyped
    <3> QED BY <2>1, <3>2, SaleTyped DEF SaleLinked
  <2>4. c \in C => c # Nothing BY NothingIsNoRow
  <2>5. s \in S <=> SessionUserOf[s] = u BY DEF Having
  <2> HIDE DEF c, S
  <2> QED BY <2>1, <2>2, <2>3, <2>4, <2>5
<1>3. S \subseteq ActiveIn(Days) BY DEF Having
<1>4. IsFiniteSet(S)
  <2>1. IsFiniteSet(ActiveIn(Days)) BY ActiveTyped
  <2> QED BY <2>1, <1>3, FS_Subset
<1>5. IsFiniteSet(C)
  <2>1. \A c \in C : c \in Sessions OBVIOUS
  <2> QED BY <2>1, RowsFinite, SubsetFinite
<1>6. \A c \in C : g[c] = SumOver(TotalOf, Having(S, SessionOf, c))
  <2> TAKE c \in C
  <2> DEFINE sold == {s \in ActiveIn(Days) : sale[s].form.session \in {c}}
  <2>1. SoldInSession(c) = SumOver(TotalOf, sold) BY SessionSums DEF SoldInSession
  <2>2. \A s : s \in sold <=> s \in ActiveIn(Days) /\ SessionOf[s] = c BY <1>1
  <2>3. \A s : s \in Having(S, SessionOf, c) <=> s \in S /\ SessionOf[s] = c BY DEF Having
  <2> HIDE DEF sold, S
  <2>4. sold = Having(S, SessionOf, c) BY <2>2, <2>3, <1>2, <1>3
  <2> QED BY <2>1, <2>4
<1> HIDE DEF S
<1>7. PICK T : T = C OBVIOUS
<1>8. SumOver(TotalOf, S) = SumOver(g, C)
  <2>1. \A s \in S : TotalOf[s] \in Int /\ SessionOf[s] \in T BY <1>1, <1>2, <1>3, <1>7
  <2>2. \A c \in T : g[c] = SumOver(TotalOf, Having(S, SessionOf, c)) BY <1>6, <1>7
  <2>3. IsFiniteSet(T) BY <1>5, <1>7
  <2>4. SumOver(TotalOf, S) = SumOver(g, T) BY ONLY <1>4, <2>1, <2>2, <2>3, SumOverKeys
  <2> QED BY <1>7, <2>4
<1>9. Sum(g) = SumOver(g, C) BY SumIs
<1> QED BY <1>8, <1>9 DEF S

\* The cash sessions.
LEMMA SessionsAdd ==
    ASSUME BooksOK
    PROVE  LET all == ListCashSessions(Days, "all")
               users == {all.rows[c].user : c \in DOMAIN all.rows} \ {Nothing}
               SoldOf(u) == Sum([c \in {c \in DOMAIN all.rows : all.rows[c].user = u} |->
                                    all.rows[c].sold.amount])
           IN /\ all.summary.amount = ListCashSessions(Days, "open").summary.amount
                                         + ListCashSessions(Days, "closed").summary.amount
              /\ \A u \in users :
                    SoldOf(u) = IF u \in DOMAIN EmployeeReports(Days)
                                THEN EmployeeReports(Days)[u].amount ELSE 0
              /\ \A c \in DOMAIN all.rows :
                    LET detail == GetCashSessionDetail(c)
                    IN all.rows[c].sold.count
                          = Cardinality({s \in DOMAIN detail.sales : detail.sales[s].canCancel})
<1> DEFINE all == ListCashSessions(Days, "all")
           rows == all.rows
           D == DOMAIN rows
           open == FilterCashSessionsByStatus(LoadCashSessions(Days), "open")
           closed == FilterCashSessionsByStatus(LoadCashSessions(Days), "closed")
           users == {rows[c].user : c \in D} \ {Nothing}
           SoldOf(u) == Sum([c \in {c \in D : rows[c].user = u} |-> rows[c].sold.amount])
<1>1. /\ \A c : c \in D <=> c \in Sessions /\ session[c] # Nothing
      /\ \A c \in D : rows[c] = SerializeCashSessionRow(c)
      /\ all.summary = CashSessionsSummary(D)
      /\ ListCashSessions(Days, "open").summary = CashSessionsSummary(open)
      /\ ListCashSessions(Days, "closed").summary = CashSessionsSummary(closed)
      /\ D = open \cup closed /\ open \cap closed = {}
  BY SessionsListed
<1>2. \A c \in D : /\ rows[c].user = session[c].user
                   /\ rows[c].sold = CashSessionsSummary({c})
  <2> HIDE DEF rows, D, all, open, closed
  <2> TAKE c \in D
  <2>1. rows[c] = SerializeCashSessionRow(c) BY <1>1
  <2> QED BY <2>1 DEF SerializeCashSessionRow
<1> HIDE DEF all, rows, D, open, closed
<1>3. all.summary.amount = ListCashSessions(Days, "open").summary.amount
                              + ListCashSessions(Days, "closed").summary.amount
  <2> DEFINE A == {s \in ActiveIn(Days) : sale[s].form.session \in open}
             B == {s \in ActiveIn(Days) : sale[s].form.session \in closed}
             C == {s \in ActiveIn(Days) : sale[s].form.session \in D}
  <2>1. /\ CashSessionsSummary(open).amount = SumOver(TotalOf, A)
        /\ IsFiniteSet(A) /\ \A s \in A : TotalOf[s] \in Int
    BY SessionSums
  <2>2. /\ CashSessionsSummary(closed).amount = SumOver(TotalOf, B)
        /\ IsFiniteSet(B) /\ \A s \in B : TotalOf[s] \in Int
    BY SessionSums
  <2>3. CashSessionsSummary(D).amount = SumOver(TotalOf, C) BY SessionSums
  <2>4. C = A \cup B /\ A \cap B = {} BY <1>1
  <2> HIDE DEF A, B, C
  <2>5. \A s \in A \cup B : TotalOf[s] \in Int BY <2>1, <2>2
  <2>6. IsFiniteSet(A) BY <2>1
  <2>7. IsFiniteSet(B) BY <2>2
  <2>8. SumOver(TotalOf, A \cup B) = SumOver(TotalOf, A) + SumOver(TotalOf, B)
    BY <2>4, <2>5, <2>6, <2>7, SumOverUnion
  <2> QED BY <1>1, <2>1, <2>2, <2>3, <2>4, <2>8
<1>4. ASSUME NEW u \in users
      PROVE  SoldOf(u) = IF u \in DOMAIN EmployeeReports(Days)
                         THEN EmployeeReports(Days)[u].amount ELSE 0
  <2> DEFINE C == {c \in D : rows[c].user = u}
             g == [c \in C |-> rows[c].sold.amount]
             S == Having(ActiveIn(Days), SessionUserOf, u)
  <2>1. u # Nothing OBVIOUS
  <2>2. \A c : c \in C <=> c \in Sessions /\ session[c] # Nothing /\ session[c].user = u
    BY <1>1, <1>2
  <2>3. g = [c \in C |-> g[c]] OBVIOUS
  <2>4. \A c \in C : g[c] = SoldInSession(c) BY <1>2 DEF SoldInSession
  <2>5. SoldOf(u) = Sum(g) OBVIOUS
  <2> HIDE DEF C, g
  <2>6. Sum(g) = SumOver(TotalOf, S) BY <2>1, <2>2, <2>3, <2>4, UserSessions
  <2>7. u \in DOMAIN EmployeeReports(Days) <=> u # Nothing /\ S # {} BY EmployeesAre
  <2>8. u \in DOMAIN EmployeeReports(Days) =>
           EmployeeReports(Days)[u].amount = SumOver(TotalOf, S)
    BY EmployeesAre
  <2>9. S = {} => SumOver(TotalOf, S) = 0 BY SumNone
  <2> HIDE DEF S, SoldOf
  <2> QED BY <2>1, <2>5, <2>6, <2>7, <2>8, <2>9
<1>5. ASSUME NEW c \in D
      PROVE  rows[c].sold.count
                = Cardinality({s \in DOMAIN GetCashSessionDetail(c).sales :
                                  GetCashSessionDetail(c).sales[s].canCancel})
  <2> DEFINE sold == {s \in ActiveIn(Days) : sale[s].form.session \in {c}}
             shown == {s \in DOMAIN GetCashSessionDetail(c).sales :
                          GetCashSessionDetail(c).sales[s].canCancel}
  <2>1. rows[c].sold.count = Cardinality(sold) BY <1>2, SessionSums
  <2>2. \A s : s \in shown <=> /\ s \in Sales /\ Exists(s) /\ sale[s].form.session = c
                               /\ sale[s].status \notin {"canceled", "refunded"}
    <3>1. DOMAIN GetCashSessionDetail(c).sales = LoadCashSessionSales(c)
          /\ \A s \in LoadCashSessionSales(c) :
                GetCashSessionDetail(c).sales[s].canCancel
                   <=> sale[s].status \notin {"canceled", "refunded"}
      BY Zenon DEF GetCashSessionDetail, SerializeCashSessionSale
    <3> QED BY <3>1, Zenon DEF LoadCashSessionSales
  <2>3. \A s : s \in sold <=> /\ s \in Sales /\ Exists(s) /\ sale[s].form.session = c
                              /\ sale[s].status = "active"
    <3>1. \A s \in Sales : sale[s].day \in Days BY SaleTyped
    <3> QED BY <3>1 DEF ActiveIn, SoldIn
  <2>4. \A s \in Sales : Exists(s) => sale[s].status \in {"active", "refunded", "canceled"}
    BY SaleTyped DEF Exists
  <2>5. sold = shown
    <3> HIDE DEF sold, shown
    <3> QED BY <2>2, <2>3, <2>4
  <2> QED BY <2>1, <2>5
<1> QED BY <1>3, <1>4, <1>5, Zenon DEF all, rows, D

\* The products.
LineOne == [l \in LinesIn(Days) |-> 1]
\* The best sellers and the categories count the same lines, and none of them is low.
LEMMA ProductsCounted ==
    ASSUME BooksOK
    PROVE  LET report == GetProductsReport(Days)
           IN /\ Sum([p \in DOMAIN report.top |-> report.top[p].count])
                    = Sum([k \in DOMAIN report.byCategory |-> report.byCategory[k].count])
              /\ \A l \in LinesIn(Days) : Lines(l[1])[l[2]].product \notin report.low
<1> DEFINE top == TopSellingProducts(Days)
           category == ProductSalesByCategory(Days)
           D == DOMAIN top
           K == DOMAIN category
           S == LinesIn(Days)
           n == [p \in D |-> top[p].count]
           m == [k \in K |-> category[k].count]
           key == [l \in LinesIn(Days) |-> Category[LineProduct[l]]]
<1>0. Days \in SUBSET Days OBVIOUS
<1>1. /\ GetProductsReport(Days).top = top /\ GetProductsReport(Days).low = Products \ D
      /\ GetProductsReport(Days).byCategory = category
  BY DEF GetProductsReport, GetLowSellingProducts
<1>2. \A l \in S : /\ LineProduct[l] = Lines(l[1])[l[2]].product /\ LineProduct[l] \in Products
                   /\ LineOne[l] = 1 /\ LineOne[l] \in Int
  BY <1>0, LinesTyped DEF LineOne
<1>3. \A p : p \in D <=> \E l \in S : LineProduct[l] = p BY <1>2 DEF TopSellingProducts
<1>4. \A k : k \in K <=> \E l \in S : Category[LineProduct[l]] = k BY <1>0, CategoriesAre
<1>5. IsFiniteSet(K) BY <1>0, CategoriesAre
<1>6. IsFiniteSet(D)
  <2>1. \A p \in D : p \in Products BY <1>2, <1>3
  <2> HIDE DEF D
  <2> QED BY <2>1, RowsFinite, SubsetFinite
<1>7. IsFiniteSet(S) BY <1>0, LinesTyped
<1>8. \A p \in D : n[p] = SumOver(LineOne, Having(S, LineProduct, p))
  <2> TAKE p \in D
  <2>1. n[p] = Cardinality(LinesFor(Days, p)) BY DEF TopSellingProducts, GroupLines, LinesFor
  <2>2. \A l : l \in LinesFor(Days, p) <=> l \in S /\ LineProduct[l] = p
    BY <1>0, LinesForTyped
  <2> HIDE DEF n, D, S
  <2>3. LinesFor(Days, p) = Having(S, LineProduct, p) BY <2>2 DEF Having
  <2>4. IsFiniteSet(LinesFor(Days, p)) BY <1>0, LinesForTyped
  <2>5. \A l \in LinesFor(Days, p) : LineOne[l] = 1 BY <2>2, <1>2
  <2>6. SumOver(LineOne, LinesFor(Days, p)) = Cardinality(LinesFor(Days, p))
    BY <2>4, <2>5, SumOverOnes
  <2> QED BY <2>1, <2>3, <2>6
<1>9. \A k \in K : m[k] = SumOver(LineOne, Having(S, key, k))
  <2> TAKE k \in K
  <2> DEFINE T == LinesOf(Days, OfCategory(k))
  <2>1. m[k] = Cardinality(T) BY <1>0, CategoriesAre
  <2>2. IsFiniteSet(T) /\ \A l : l \in T <=> l \in S /\ LineProduct[l] \in OfCategory(k)
    BY <1>0, LinesOfTyped
  <2>3. \A l \in S : key[l] = Category[LineProduct[l]]
                     /\ (LineProduct[l] \in OfCategory(k) <=> key[l] = k)
    BY <1>2 DEF OfCategory
  <2> HIDE DEF m, K, S, T, key
  <2>4. T = Having(S, key, k) BY <2>2, <2>3 DEF Having
  <2>5. \A l \in T : LineOne[l] = 1 BY <2>2, <1>2
  <2>6. SumOver(LineOne, T) = Cardinality(T) BY <2>2, <2>5, SumOverOnes
  <2> QED BY <2>1, <2>4, <2>6
<1>10. n = [p \in D |-> n[p]] /\ m = [k \in K |-> m[k]] OBVIOUS
<1>11. \A l \in S : LineOne[l] \in Int /\ LineProduct[l] \in D BY <1>2, <1>3
<1>12. \A l \in S : LineOne[l] \in Int /\ key[l] \in K BY <1>2, <1>4
<1>13. Sum(n) = SumOver(n, D) /\ Sum(m) = SumOver(m, K)
  <2> HIDE DEF n, m, D, K
  <2> QED BY <1>10, SumIs
<1>14. \A l \in S : Lines(l[1])[l[2]].product \notin Products \ D BY <1>2, <1>3
<1>15. Sum(n) = Sum(m)
  <2> HIDE DEF n, m, D, K, S, key
  <2>1. SumOver(LineOne, S) = SumOver(n, D) BY <1>6, <1>7, <1>8, <1>11, SumOverKeys
  <2>2. SumOver(LineOne, S) = SumOver(m, K) BY <1>5, <1>7, <1>9, <1>12, SumOverKeys
  <2> QED BY <1>13, <2>1, <2>2
<1> QED BY <1>1, <1>14, <1>15

\* Counting by keys: of all keys, and of some.
LEMMA CountByKeys ==
    ASSUME NEW S, NEW k, NEW K, NEW g, IsFiniteSet(S), IsFiniteSet(K),
           g = [y \in K |-> g[y]], \A y \in K : g[y] = Cardinality(Having(S, k, y))
    PROVE  /\ Sum(g) = SumOver(g, K) /\ Sum(g) <= Cardinality(S)
           /\ (\A x \in S : k[x] \in K) => Sum(g) = Cardinality(S)
<1> DEFINE one == [x \in S |-> 1]
<1>1. \A x \in S : one[x] = 1 OBVIOUS
<1>2. \A y \in K : g[y] = Cardinality(Having(S, k, y)) OBVIOUS
<1>3. IsFiniteSet(S) OBVIOUS
<1>4. IsFiniteSet(K) OBVIOUS
<1>5. Sum(g) = SumOver(g, K) BY SumIs
<1> HIDE DEF one
<1>6. \A y \in K : g[y] = SumOver(one, Having(S, k, y))
  <2> TAKE y \in K
  <2>1. PICK T : T = Having(S, k, y) OBVIOUS
  <2>2. T \in SUBSET S BY ONLY <2>1 DEF Having
  <2>3. IsFiniteSet(T) BY ONLY <1>3, <2>2, FS_Subset
  <2>4. \A x \in T : one[x] = 1 BY ONLY <1>1, <2>2
  <2>5. SumOver(one, T) = Cardinality(T) BY ONLY <2>3, <2>4, SumOverOnes
  <2> QED BY ONLY <1>2, <2>1, <2>5
<1>7. SumOver(one, S) = Cardinality(S) BY ONLY <1>1, <1>3, SumOverOnes
<1>8. SumOver(g, K) <= SumOver(one, S)
  <2>1. \A x \in S : one[x] \in Nat BY ONLY <1>1
  <2> QED BY ONLY <1>3, <1>4, <1>6, <2>1, SumOfSome
<1>9. ASSUME \A x \in S : k[x] \in K PROVE SumOver(one, S) = SumOver(g, K)
  <2>1. \A x \in S : one[x] \in Int /\ k[x] \in K BY ONLY <1>1, <1>9
  <2> QED BY ONLY <1>3, <1>4, <1>6, <2>1, SumOverKeys
<1> QED BY ONLY <1>5, <1>7, <1>8, <1>9

\* What an employee made of a range, and what of it was canceled.
MadeBy(R, e) == {s \in SoldBy(R, e) : ~IsCanceled(s)}
CanceledOf(R, e) == SoldBy(R, e) \ MadeBy(R, e)

\* The rows of commissions and of activity are of the same sales.
LEMMA EmployeeRows ==
    ASSUME BooksOK, NEW R, NEW e \in Employees
    PROVE  /\ CommissionRow(R, e).count = Cardinality(MadeBy(R, e))
           /\ CommissionRow(R, e).canceled = Cardinality(CanceledOf(R, e))
           /\ ActivityRow(R, e).count = Cardinality(MadeBy(R, e))
           /\ ActivityRow(R, e).canceled
                 = Cardinality(CanceledOf(R, e)) + Cardinality(CancelledOrders(R, e))
           /\ ActivityRow(R, e).commission = CommissionRow(R, e).commission
           /\ ActivityRow(R, e).discounts = Discounts(R, e)
           /\ ActivityRow(R, e).cash
                 = CashActions(R, e) + Cardinality(EventsBy(R, e, CashKinds))
           /\ ActivityRow(R, e).stock = Cardinality(EventsBy(R, e, {"deduction"}))
           /\ ActivityRow(R, e).amount = Sum([s \in MadeBy(R, e) |-> Total(s)])
<1>1. /\ CommissionRow(R, e).count = Cardinality(MadeBy(R, e))
      /\ CommissionRow(R, e).canceled = Cardinality(CanceledOf(R, e))
  BY DEF CommissionRow, MadeBy, CanceledOf
<1>2. BuildActivityCommissionByEmployee(R)[e] = CommissionRow(R, e)
  BY DEF BuildActivityCommissionByEmployee
<1>3. ActivityRow(R, e) =
         [count |-> Cardinality(MadeBy(R, e)), amount |-> Sum([s \in MadeBy(R, e) |-> Total(s)]),
          canceled |-> Cardinality(CanceledOf(R, e)) + Cardinality(CancelledOrders(R, e)),
          discounts |-> Discounts(R, e),
          cash |-> CashActions(R, e) + Cardinality(EventsBy(R, e, CashKinds)),
          stock |-> Cardinality(EventsBy(R, e, {"deduction"})),
          commission |-> AttachCommission(R, e)]
  BY DEF ActivityRow, MadeBy, CanceledOf
<1>4. AttachCommission(R, e) = CommissionRow(R, e).commission BY <1>2 DEF AttachCommission
<1> QED BY <1>1, <1>3, <1>4

\* Every sale of a range is of one employee or of nobody that is known.
LEMMA SalesPartition ==
    ASSUME BooksOK, NEW R, NEW made, NEW canceled,
           made = [e \in Employees |-> CommissionRow(R, e).count],
           canceled = [e \in Employees |-> CommissionRow(R, e).canceled]
    PROVE  LET nobodys == SalesWithoutReliableActor(R)
               refunded == {s \in SoldIn(R) : sale[s].status = "refunded"}
           IN /\ Sum(made) + Sum(canceled) + Cardinality(nobodys) = Cardinality(SoldIn(R))
              /\ AggregateSales(R).count + Cardinality(refunded)
                    = Sum(made) + Cardinality({s \in nobodys : ~IsCanceled(s)})
              /\ IsFiniteSet(nobodys) /\ IsFiniteSet(refunded) /\ Sum(made) \in Nat
<1> DEFINE sold == SoldIn(R)
           nobodys == SalesWithoutReliableActor(R)
           refunded == {s \in sold : sale[s].status = "refunded"}
           named == {s \in sold : ResolveSaleActor(s) \in Employees}
           M == {s \in named : ~IsCanceled(s)}
           X == {s \in named : IsCanceled(s)}
           N == {s \in nobodys : ~IsCanceled(s)}
           A == ActiveIn(R)
<1>1. IsFiniteSet(sold) /\ sold \subseteq Sales BY ActiveTyped
<1>2. nobodys \subseteq sold BY DEF SalesWithoutReliableActor
<1>3. named \subseteq sold /\ M \subseteq sold /\ X \subseteq sold /\ N \subseteq sold
      /\ A \subseteq sold /\ refunded \subseteq sold
  BY <1>2 DEF ActiveIn
<1>4. /\ sold = named \cup nobodys /\ named \cap nobodys = {}
      /\ named = M \cup X /\ M \cap X = {}
  BY DEF SalesWithoutReliableActor
<1>5. A \cup refunded = M \cup N /\ A \cap refunded = {} /\ M \cap N = {}
  <2>1. \A s \in sold : sale[s].status \in {"active", "refunded", "canceled"}
    BY <1>1, SaleTyped DEF Exists, SoldIn
  <2>2. \A s : s \in A <=> s \in sold /\ sale[s].status = "active" BY DEF ActiveIn
  <2>3. \A s : s \in M \cup N <=> s \in sold /\ sale[s].status # "canceled"
    BY DEF SalesWithoutReliableActor, IsCanceled
  <2>4. \A s : s \in refunded <=> s \in sold /\ sale[s].status = "refunded" OBVIOUS
  <2>5. M \cap N = {} BY <1>4
  <2> HIDE DEF A, M, N, refunded, sold
  <2> QED BY <2>1, <2>2, <2>3, <2>4, <2>5
<1>6. \A e \in Employees : /\ MadeBy(R, e) = Having(M, ActorOf, e)
                           /\ CanceledOf(R, e) = Having(X, ActorOf, e)
  <2>1. \A s \in sold : ActorOf[s] = ResolveSaleActor(s) BY <1>1 DEF ActorOf
  <2> TAKE e \in Employees
  <2>2. \A s : s \in SoldBy(R, e) <=> s \in sold /\ ResolveSaleActor(s) = e BY DEF SoldBy
  <2>3. \A s : s \in Having(M, ActorOf, e) <=> s \in M /\ ActorOf[s] = e BY DEF Having
  <2>4. \A s : s \in Having(X, ActorOf, e) <=> s \in X /\ ActorOf[s] = e BY DEF Having
  <2>5. \A s : s \in MadeBy(R, e) <=> s \in SoldBy(R, e) /\ ~IsCanceled(s) BY DEF MadeBy
  <2>6. \A s : s \in CanceledOf(R, e) <=> s \in SoldBy(R, e) /\ IsCanceled(s)
    BY <2>5 DEF CanceledOf
  <2>7. \A s : s \in M <=> s \in sold /\ ResolveSaleActor(s) \in Employees /\ ~IsCanceled(s)
    OBVIOUS
  <2>8. \A s : s \in X <=> s \in sold /\ ResolveSaleActor(s) \in Employees /\ IsCanceled(s)
    OBVIOUS
  <2> HIDE DEF M, X, sold
  <2>9. MadeBy(R, e) = Having(M, ActorOf, e) BY <2>1, <2>2, <2>3, <2>5, <2>7
  <2>10. CanceledOf(R, e) = Having(X, ActorOf, e) BY <2>1, <2>2, <2>4, <2>6, <2>8
  <2> QED BY <2>9, <2>10
<1>7. (\A s \in M : ActorOf[s] \in Employees) /\ (\A s \in X : ActorOf[s] \in Employees)
  BY <1>1 DEF ActorOf
<1> HIDE DEF sold, nobodys, refunded, named, M, X, N, A
<1>8. IsFiniteSet(M) BY <1>1, <1>3, FS_Subset
<1>9. IsFiniteSet(X) BY <1>1, <1>3, FS_Subset
<1>10. Sum(made) = Cardinality(M)
  <2>1. made = [e \in Employees |-> made[e]] OBVIOUS
  <2>2. \A e \in Employees : made[e] = Cardinality(Having(M, ActorOf, e)) BY <1>6, EmployeeRows
  <2>3. IsFiniteSet(Employees) BY RowsFinite
  <2>4. \A s \in M : ActorOf[s] \in Employees BY <1>7
  <2> QED BY ONLY <1>8, <2>1, <2>2, <2>3, <2>4, CountByKeys
<1>11. Sum(canceled) = Cardinality(X)
  <2>1. canceled = [e \in Employees |-> canceled[e]] OBVIOUS
  <2>2. \A e \in Employees : canceled[e] = Cardinality(Having(X, ActorOf, e))
    BY <1>6, EmployeeRows
  <2>3. IsFiniteSet(Employees) BY RowsFinite
  <2>4. \A s \in X : ActorOf[s] \in Employees BY <1>7
  <2> QED BY ONLY <1>9, <2>1, <2>2, <2>3, <2>4, CountByKeys
<1>12. /\ Cardinality(sold) = Cardinality(named) + Cardinality(nobodys)
       /\ IsFiniteSet(named) /\ IsFiniteSet(nobodys)
       /\ Cardinality(nobodys) \in Nat /\ Cardinality(named) \in Nat
  BY ONLY <1>1, <1>4, PartsCounted
<1>13. Cardinality(named) = Cardinality(M) + Cardinality(X)
       /\ Cardinality(M) \in Nat /\ Cardinality(X) \in Nat
  <2>1. IsFiniteSet(named) BY <1>12
  <2>2. named = M \cup X BY <1>4
  <2>3. M \cap X = {} BY <1>4
  <2> QED BY ONLY <2>1, <2>2, <2>3, PartsCounted
<1>14. IsFiniteSet(M \cup N)
  <2>1. M \cup N \in SUBSET sold BY <1>3
  <2> QED BY ONLY <1>1, <2>1, FS_Subset
<1>15. Cardinality(M \cup N) = Cardinality(M) + Cardinality(N) /\ Cardinality(N) \in Nat
  <2>1. PICK U : U = M \cup N OBVIOUS
  <2> QED BY ONLY <1>5, <1>14, <2>1, PartsCounted
<1>16. Cardinality(M \cup N) = Cardinality(A) + Cardinality(refunded) /\ IsFiniteSet(refunded)
  <2>1. PICK U : U = M \cup N OBVIOUS
  <2> QED BY ONLY <1>5, <1>14, <2>1, PartsCounted
<1>17. AggregateSales(R).count = Cardinality(A) BY SalesAreSums DEF A
<1>18. Sum(made) + Sum(canceled) + Cardinality(nobodys) = Cardinality(sold)
  BY ONLY <1>10, <1>11, <1>12, <1>13
<1>19. AggregateSales(R).count + Cardinality(refunded) = Sum(made) + Cardinality(N)
  BY ONLY <1>10, <1>15, <1>16, <1>17
<1>20. Sum(made) \in Nat BY ONLY <1>10, <1>13
<1> QED BY <1>12, <1>16, <1>18, <1>19, <1>20, Zenon DEF sold, nobodys, refunded, N

\* Items of a timeline: an id and what it is of.
LEMMA ItemsCounted ==
    ASSUME NEW S, IsFiniteSet(S), NEW t, NEW T, T = {<<t[x], x>> : x \in S}
    PROVE  IsFiniteSet(T) /\ Cardinality(T) = Cardinality(S)
<1> DEFINE f == [x \in S |-> <<t[x], x>>]
<1>1. f \in Surjection(S, T) BY DEF Surjection
<1>2. f \in Injection(S, T)
  <2>1. f \in [S -> T] BY <1>1 DEF Surjection
  <2>2. ASSUME NEW x \in S, NEW y \in S, f[x] = f[y] PROVE x = y
    <3>1. f[x] = <<t[x], x>> /\ f[y] = <<t[y], y>> OBVIOUS
    <3>2. f[x][2] = x /\ f[y][2] = y BY <3>1
    <3> QED BY <2>2, <3>2
  <2> HIDE DEF f
  <2> QED BY <2>1, <2>2 DEF Injection, IsInjective
<1> HIDE DEF f
<1> QED BY <1>1, <1>2, FS_Surjection

Tagged(tag, S) == {<<tag, x>> : x \in S}
\* Items of one kind are as many as what they are of.
LEMMA TaggedCounted ==
    ASSUME NEW S, IsFiniteSet(S), NEW tag
    PROVE  /\ IsFiniteSet(Tagged(tag, S)) /\ Cardinality(Tagged(tag, S)) = Cardinality(S)
           /\ \A z \in Tagged(tag, S) : z[1] = tag
<1> DEFINE t == [x \in S |-> tag]
<1>1. Tagged(tag, S) = {<<t[x], x>> : x \in S} BY DEF Tagged
<1>2. \A z \in Tagged(tag, S) : z[1] = tag BY DEF Tagged
<1> HIDE DEF t
<1> QED BY <1>1, <1>2, ItemsCounted

\* Two kinds of items are counted apart.
LEMMA ApartCounted ==
    ASSUME NEW A, NEW B, IsFiniteSet(A), IsFiniteSet(B),
           \A x \in A : \A y \in B : x[1] # y[1]
    PROVE  /\ IsFiniteSet(A \cup B)
           /\ Cardinality(A \cup B) = Cardinality(A) + Cardinality(B)
           /\ Cardinality(A) \in Nat /\ Cardinality(B) \in Nat
<1>1. PICK U : U = A \cup B OBVIOUS
<1>2. A \cap B = {} OBVIOUS
<1>3. IsFiniteSet(U) BY <1>1, FS_Union
<1>4. /\ Cardinality(A) \in Nat /\ Cardinality(B) \in Nat
      /\ Cardinality(U) = Cardinality(A) + Cardinality(B)
  BY ONLY <1>1, <1>2, <1>3, PartsCounted
<1> QED BY <1>1, <1>3, <1>4

\* What an employee did, by kind.
Discounted(R, e) == {o \in OrdersBy(R, e) : order[o].form.discount > 0}
OwnSessions(e) == {c \in Sessions : session[c] # Nothing /\ session[c].user = e}
OpenedIn(R, e) == {c \in OwnSessions(e) : session[c].opened \in R}
ClosedIn(R, e) == {c \in OwnSessions(e) : session[c].closed \in R}
SaleTag == [s \in Sales |-> IF IsCanceled(s) THEN "sale-cancelled" ELSE "sale"]
SaleItems(R, e) == {<<SaleTag[s], s>> : s \in SoldBy(R, e)}
\* All of it is finite.
LEMMA DoneFinite ==
    ASSUME NEW R, NEW e
    PROVE  /\ IsFiniteSet(SoldBy(R, e)) /\ IsFiniteSet(OrdersBy(R, e))
           /\ IsFiniteSet(Discounted(R, e)) /\ IsFiniteSet(CancelledOrders(R, e))
           /\ IsFiniteSet(OpenedIn(R, e)) /\ IsFiniteSet(ClosedIn(R, e))
           /\ \A K : IsFiniteSet(EventsBy(R, e, K))
<1>1. SoldBy(R, e) \subseteq Sales BY DEF SoldBy, SoldIn
<1>2. OrdersBy(R, e) \subseteq Orders /\ Discounted(R, e) \subseteq Orders
      /\ CancelledOrders(R, e) \subseteq Orders
  BY DEF OrdersBy, Discounted, CancelledOrders
<1>3. OpenedIn(R, e) \subseteq Sessions /\ ClosedIn(R, e) \subseteq Sessions
  BY DEF OpenedIn, ClosedIn, OwnSessions
<1>4. \A K : EventsBy(R, e, K) \subseteq Entries BY DEF EventsBy
<1> QED BY <1>1, <1>2, <1>3, <1>4, RowsFinite, FS_Subset

\* A timeline has an item for each thing that was done.
LEMMA TimelineCounted ==
    ASSUME BooksOK, NEW R, NEW e \in Employees
    PROVE  LET discounts == {i \in Timeline(R, e) : i[1] = "discount"}
           IN /\ Cardinality(Timeline(R, e)) = Cardinality(discounts) + ActivityRow(R, e).count
                    + ActivityRow(R, e).canceled + ActivityRow(R, e).cash
                    + ActivityRow(R, e).stock
              /\ discounts = Tagged("discount", Discounted(R, e))
              /\ IsFiniteSet(Timeline(R, e)) /\ Cardinality(discounts) \in Nat
              /\ ActivityRow(R, e).count \in Nat /\ ActivityRow(R, e).canceled \in Nat
              /\ ActivityRow(R, e).cash \in Nat /\ ActivityRow(R, e).stock \in Nat
<1> DEFINE A == SaleItems(R, e)
           B == Tagged("discount", Discounted(R, e))
           C == Tagged("order-cancelled", CancelledOrders(R, e))
           D == Tagged("cash-open", OpenedIn(R, e))
           E == Tagged("cash-close", ClosedIn(R, e))
           F == Tagged("cash-movement", EventsBy(R, e, CashKinds))
           G == Tagged("stock-adjustment", EventsBy(R, e, {"deduction"}))
<1>0. \A s \in SoldBy(R, e) : s \in Sales BY DEF SoldBy, SoldIn
<1>1. Timeline(R, e) = A \cup B \cup C \cup D \cup E \cup F \cup G
  <2>1. A = {<<IF IsCanceled(s) THEN "sale-cancelled" ELSE "sale", s>> : s \in SoldBy(R, e)}
    BY <1>0 DEF SaleItems, SaleTag
  <2> QED BY <2>1 DEF Timeline, Tagged, Discounted, OpenedIn, ClosedIn, OwnSessions
<1>2. IsFiniteSet(A) /\ Cardinality(A) = Cardinality(SoldBy(R, e))
  <2>1. IsFiniteSet(SoldBy(R, e)) BY DoneFinite
  <2> QED BY <2>1, ItemsCounted DEF SaleItems
<1>3. \A z \in A : z[1] = "sale-cancelled" \/ z[1] = "sale"
  <2> TAKE z \in A
  <2>1. PICK s \in SoldBy(R, e) : z = <<SaleTag[s], s>> BY DEF SaleItems
  <2>2. z[1] = SaleTag[s] BY <2>1
  <2> QED BY <1>0, <2>2 DEF SaleTag
<1>4. /\ IsFiniteSet(B) /\ Cardinality(B) = Cardinality(Discounted(R, e))
      /\ \A z \in B : z[1] = "discount"
  BY DoneFinite, TaggedCounted
<1>5. /\ IsFiniteSet(C) /\ Cardinality(C) = Cardinality(CancelledOrders(R, e))
      /\ \A z \in C : z[1] = "order-cancelled"
  BY DoneFinite, TaggedCounted
<1>6. /\ IsFiniteSet(D) /\ Cardinality(D) = Cardinality(OpenedIn(R, e))
      /\ \A z \in D : z[1] = "cash-open"
  BY DoneFinite, TaggedCounted
<1>7. /\ IsFiniteSet(E) /\ Cardinality(E) = Cardinality(ClosedIn(R, e))
      /\ \A z \in E : z[1] = "cash-close"
  BY DoneFinite, TaggedCounted
<1>8. /\ IsFiniteSet(F) /\ Cardinality(F) = Cardinality(EventsBy(R, e, CashKinds))
      /\ \A z \in F : z[1] = "cash-movement"
  BY DoneFinite, TaggedCounted
<1>9. /\ IsFiniteSet(G) /\ Cardinality(G) = Cardinality(EventsBy(R, e, {"deduction"}))
      /\ \A z \in G : z[1] = "stock-adjustment"
  BY DoneFinite, TaggedCounted
<1>10. Cardinality(SoldBy(R, e)) = Cardinality(MadeBy(R, e)) + Cardinality(CanceledOf(R, e))
       /\ Cardinality(MadeBy(R, e)) \in Nat /\ Cardinality(CanceledOf(R, e)) \in Nat
  <2>1. SoldBy(R, e) = MadeBy(R, e) \cup CanceledOf(R, e) BY DEF MadeBy, CanceledOf
  <2>2. MadeBy(R, e) \cap CanceledOf(R, e) = {} BY DEF CanceledOf
  <2>3. IsFiniteSet(SoldBy(R, e)) BY DoneFinite
  <2> QED BY ONLY <2>1, <2>2, <2>3, PartsCounted
<1>11. CashActions(R, e) = Cardinality(D) + Cardinality(E)
  <2>1. CashActions(R, e) = Cardinality(OpenedIn(R, e)) + Cardinality(ClosedIn(R, e))
    BY DEF CashActions, OpenedIn, ClosedIn, OwnSessions
  <2> QED BY <2>1, <1>6, <1>7
<1>12. {i \in Timeline(R, e) : i[1] = "discount"} = B
  <2> HIDE DEF A, B, C, D, E, F, G
  <2> QED BY <1>1, <1>3, <1>4, <1>5, <1>6, <1>7, <1>8, <1>9
<1> HIDE DEF A, B, C, D, E, F, G
<1>13. IsFiniteSet(A \cup B) /\ Cardinality(A \cup B) = Cardinality(A) + Cardinality(B)
       /\ Cardinality(A) \in Nat /\ Cardinality(B) \in Nat
  BY <1>2, <1>3, <1>4, ApartCounted
<1>14. IsFiniteSet(C \cup D) /\ Cardinality(C \cup D) = Cardinality(C) + Cardinality(D)
       /\ Cardinality(C) \in Nat /\ Cardinality(D) \in Nat
  BY <1>5, <1>6, ApartCounted
<1>15. IsFiniteSet(E \cup F) /\ Cardinality(E \cup F) = Cardinality(E) + Cardinality(F)
       /\ Cardinality(E) \in Nat /\ Cardinality(F) \in Nat
  BY <1>7, <1>8, ApartCounted
<1>16. PICK P : P = (A \cup B) \cup (C \cup D) OBVIOUS
<1>17. IsFiniteSet(P) /\ Cardinality(P) = Cardinality(A \cup B) + Cardinality(C \cup D)
  <2>1. \A x \in A \cup B : \A y \in C \cup D : x[1] # y[1] BY <1>3, <1>4, <1>5, <1>6
  <2> QED BY <1>13, <1>14, <1>16, <2>1, ApartCounted
<1>18. PICK Q : Q = (E \cup F) \cup G OBVIOUS
<1>19. IsFiniteSet(Q) /\ Cardinality(Q) = Cardinality(E \cup F) + Cardinality(G)
       /\ Cardinality(G) \in Nat
  <2>1. \A x \in E \cup F : \A y \in G : x[1] # y[1] BY <1>7, <1>8, <1>9
  <2> QED BY <1>9, <1>15, <1>18, <2>1, ApartCounted
<1>20. IsFiniteSet(P \cup Q) /\ Cardinality(P \cup Q) = Cardinality(P) + Cardinality(Q)
  <2>1. \A x \in P : \A y \in Q : x[1] # y[1]
    BY <1>3, <1>4, <1>5, <1>6, <1>7, <1>8, <1>9, <1>16, <1>18
  <2> QED BY <1>17, <1>19, <2>1, ApartCounted
<1>21. Timeline(R, e) = P \cup Q BY <1>1, <1>16, <1>18
<1>22. /\ ActivityRow(R, e).count = Cardinality(MadeBy(R, e))
       /\ ActivityRow(R, e).canceled = Cardinality(CanceledOf(R, e)) + Cardinality(C)
       /\ ActivityRow(R, e).cash = Cardinality(D) + Cardinality(E) + Cardinality(F)
       /\ ActivityRow(R, e).stock = Cardinality(G)
  BY <1>5, <1>8, <1>9, <1>11, EmployeeRows
<1>23. Cardinality(P \cup Q) = Cardinality(B) + Cardinality(MadeBy(R, e))
          + (Cardinality(CanceledOf(R, e)) + Cardinality(C))
          + (Cardinality(D) + Cardinality(E) + Cardinality(F)) + Cardinality(G)
  BY ONLY <1>2, <1>10, <1>13, <1>14, <1>15, <1>17, <1>19, <1>20
<1>24. /\ ActivityRow(R, e).count \in Nat /\ ActivityRow(R, e).canceled \in Nat
       /\ ActivityRow(R, e).cash \in Nat /\ ActivityRow(R, e).stock \in Nat
  BY ONLY <1>10, <1>14, <1>15, <1>19, <1>22
<1>25. Cardinality(Timeline(R, e)) = Cardinality(B) + ActivityRow(R, e).count
          + ActivityRow(R, e).canceled + ActivityRow(R, e).cash + ActivityRow(R, e).stock
  BY ONLY <1>21, <1>22, <1>23
<1>26. IsFiniteSet(Timeline(R, e)) /\ Cardinality(B) \in Nat BY <1>13, <1>20, <1>21
<1>27. B = Tagged("discount", Discounted(R, e)) BY DEF B
<1> QED BY <1>12, <1>24, <1>25, <1>26, <1>27, Zenon

\* An employee gave discounts when there is an item for one.
LEMMA DiscountsShown ==
    ASSUME BooksOK, NEW R, NEW e
    PROVE  /\ Discounts(R, e) \in Nat
           /\ Discounts(R, e) > 0 <=> Tagged("discount", Discounted(R, e)) # {}
<1> DEFINE S == OrdersBy(R, e)
           f == [o \in S |-> order[o].form.discount]
<1>1. Discounts(R, e) = Sum(f) BY DEF Discounts
<1>2. \A o \in S : f[o] = order[o].form.discount /\ f[o] \in Nat
  <2> TAKE o \in S
  <2>1. o \in Orders /\ order[o] # Nothing BY DEF OrdersBy
  <2>2. order[o].form \in OrderForms BY <2>1, OrderTyped
  <2>3. order[o].form.discount \in Nat BY <2>2, ReportsAssumption
  <2> QED BY <2>3
<1>3. f = [o \in S |-> f[o]] OBVIOUS
<1>4. IsFiniteSet(S) BY DoneFinite
<1>5. Tagged("discount", Discounted(R, e)) # {} <=> \E o \in S : f[o] > 0
  <2>1. Tagged("discount", Discounted(R, e)) # {} <=> Discounted(R, e) # {} BY DEF Tagged
  <2>2. \A o : o \in Discounted(R, e) <=> o \in S /\ f[o] > 0 BY DEF Discounted
  <2> HIDE DEF S, f
  <2> QED BY <2>1, <2>2
<1> HIDE DEF S, f
<1>6. Sum(f) = SumOver(f, S) BY ONLY <1>3, SumIs
<1>7. SumOver(f, S) \in Nat BY <1>2, <1>4, SumOverNat
<1>8. CASE \E o \in S : f[o] > 0
  <2>1. PICK o \in S : f[o] > 0 BY <1>8
  <2>2. SumOver(f, S) = f[o] + SumOver(f, S \ {o})
    <3>1. \A x \in S : f[x] \in Int BY <1>2
    <3> QED BY <1>4, <2>1, <3>1, SumOverStep
  <2>3. SumOver(f, S \ {o}) \in Nat
    <3>1. PICK T : T = S \ {o} OBVIOUS
    <3>2. IsFiniteSet(T) BY <1>4, <3>1, FS_Subset
    <3>3. \A x \in T : f[x] \in Nat BY <1>2, <3>1
    <3> QED BY <3>1, <3>2, <3>3, SumOverNat
  <2>4. SumOver(f, S) > 0 BY <1>2, <2>1, <2>2, <2>3
  <2> QED BY <1>1, <1>5, <1>6, <1>7, <1>8, <2>4
<1>9. CASE ~(\E o \in S : f[o] > 0)
  <2>1. \A o \in S : f[o] = 0 BY <1>2, <1>9
  <2>2. SumOver(f, S) = 0 BY <1>4, <2>1, SumOverZero
  <2> QED BY <1>1, <1>5, <1>6, <1>9, <2>2
<1> QED BY <1>8, <1>9

\* The sessions that are opened or closed in a range, and the cash entries of its employees.
Opened(R) == {c \in Sessions : session[c] # Nothing /\ session[c].opened \in R}
Closed(R) == {c \in Sessions : session[c] # Nothing /\ session[c].closed \in R}
CashOf(R) == UNION {EventsBy(R, e, CashKinds) : e \in Employees}
OwnerOf == [c \in Sessions |-> session[c].user]
AuthorOf == [n \in Entries |-> entry[n].author]
\* The cash an employee handled, by kind.
LEMMA CashByEmployee ==
    ASSUME NEW R, NEW e \in Employees
    PROVE  /\ ActivityRow(R, e).cash
                 = (Cardinality(Having(Opened(R), OwnerOf, e))
                      + Cardinality(Having(Closed(R), OwnerOf, e)))
                   + Cardinality(Having(CashOf(R), AuthorOf, e))
           /\ Cardinality(Having(Opened(R), OwnerOf, e)) \in Nat
           /\ Cardinality(Having(Closed(R), OwnerOf, e)) \in Nat
           /\ Cardinality(Having(CashOf(R), AuthorOf, e)) \in Nat
<1>1. Having(Opened(R), OwnerOf, e) = OpenedIn(R, e)
  BY DEF Having, Opened, OwnerOf, OpenedIn, OwnSessions
<1>2. Having(Closed(R), OwnerOf, e) = ClosedIn(R, e)
  BY DEF Having, Closed, OwnerOf, ClosedIn, OwnSessions
<1>3. Having(CashOf(R), AuthorOf, e) = EventsBy(R, e, CashKinds)
  <2>1. ASSUME NEW n \in Having(CashOf(R), AuthorOf, e) PROVE n \in EventsBy(R, e, CashKinds)
    <3>1. PICK y \in Employees : n \in EventsBy(R, y, CashKinds) BY DEF Having, CashOf
    <3>2. n \in Entries /\ AuthorOf[n] = e BY <3>1 DEF Having, EventsBy
    <3>3. entry[n].author = e BY <3>2 DEF AuthorOf
    <3> QED BY <3>1, <3>3 DEF EventsBy
  <2>2. ASSUME NEW n \in EventsBy(R, e, CashKinds) PROVE n \in Having(CashOf(R), AuthorOf, e)
    <3>1. n \in CashOf(R) BY DEF CashOf
    <3>2. n \in Entries /\ entry[n].author = e BY DEF EventsBy
    <3>3. AuthorOf[n] = e BY <3>2 DEF AuthorOf
    <3> QED BY <3>1, <3>3 DEF Having
  <2> QED BY <2>1, <2>2
<1>4. CashActions(R, e) = Cardinality(OpenedIn(R, e)) + Cardinality(ClosedIn(R, e))
  BY DEF CashActions, OpenedIn, ClosedIn, OwnSessions
<1>5. ActivityRow(R, e).cash = CashActions(R, e) + Cardinality(EventsBy(R, e, CashKinds))
  BY DEF ActivityRow
<1>6. /\ Cardinality(OpenedIn(R, e)) \in Nat /\ Cardinality(ClosedIn(R, e)) \in Nat
      /\ Cardinality(EventsBy(R, e, CashKinds)) \in Nat
  BY DoneFinite, FS_CardinalityType
<1> QED BY <1>1, <1>2, <1>3, <1>4, <1>5, <1>6

\* An employee is said to have handled cash when a session of the range is opened or closed,
\* or an entry is made.
LEMMA CashCounted ==
    ASSUME NEW R, NEW cash, cash = [e \in Employees |-> ActivityRow(R, e).cash]
    PROVE  Sum(cash) <= 2 * Cardinality(LoadCashSessions(R)) + Cardinality(CashOf(R))
<1> DEFINE a == [e \in Employees |-> Cardinality(Having(Opened(R), OwnerOf, e))]
           b == [e \in Employees |-> Cardinality(Having(Closed(R), OwnerOf, e))]
           d == [e \in Employees |-> Cardinality(Having(CashOf(R), AuthorOf, e))]
           p == [e \in Employees |-> a[e] + b[e]]
           L == LoadCashSessions(R)
<1>1. /\ \A c \in L : c \in Sessions
      /\ \A c \in Opened(R) : c \in L
      /\ \A c \in Closed(R) : c \in L
      /\ \A n \in CashOf(R) : n \in Entries
  BY DEF LoadCashSessions, Opened, Closed, CashOf, EventsBy
<1>2. IsFiniteSet(L) BY <1>1, RowsFinite, SubsetFinite
<1>3. /\ IsFiniteSet(Opened(R)) /\ Cardinality(Opened(R)) <= Cardinality(L)
      /\ Cardinality(Opened(R)) \in Nat
  BY <1>1, <1>2, SubsetFinite
<1>4. /\ IsFiniteSet(Closed(R)) /\ Cardinality(Closed(R)) <= Cardinality(L)
      /\ Cardinality(Closed(R)) \in Nat
  BY <1>1, <1>2, SubsetFinite
<1>5. IsFiniteSet(CashOf(R)) BY <1>1, RowsFinite, SubsetFinite
<1>6. IsFiniteSet(Employees) BY RowsFinite
<1>7. \A e \in Employees :
         /\ a[e] = Cardinality(Having(Opened(R), OwnerOf, e)) /\ a[e] \in Int
         /\ b[e] = Cardinality(Having(Closed(R), OwnerOf, e)) /\ b[e] \in Int
         /\ d[e] = Cardinality(Having(CashOf(R), AuthorOf, e)) /\ d[e] \in Int
         /\ p[e] = a[e] + b[e] /\ p[e] \in Int
         /\ cash[e] = p[e] + d[e]
  BY CashByEmployee
<1>8. /\ a = [e \in Employees |-> a[e]] /\ b = [e \in Employees |-> b[e]]
      /\ d = [e \in Employees |-> d[e]] /\ p = [e \in Employees |-> p[e]]
      /\ cash = [e \in Employees |-> cash[e]]
  OBVIOUS
<1>9. Cardinality(L) \in Nat /\ Cardinality(CashOf(R)) \in Nat
  BY <1>2, <1>5, FS_CardinalityType
<1> HIDE DEF a, b, d, p, L
<1>10. Sum(a) = SumOver(a, Employees) /\ Sum(a) <= Cardinality(Opened(R))
  <2>1. a = [e \in Employees |-> a[e]] BY <1>8
  <2>2. \A e \in Employees : a[e] = Cardinality(Having(Opened(R), OwnerOf, e)) BY <1>7
  <2>3. IsFiniteSet(Opened(R)) BY <1>3
  <2> QED BY ONLY <1>6, <2>1, <2>2, <2>3, CountByKeys
<1>11. Sum(b) = SumOver(b, Employees) /\ Sum(b) <= Cardinality(Closed(R))
  <2>1. b = [e \in Employees |-> b[e]] BY <1>8
  <2>2. \A e \in Employees : b[e] = Cardinality(Having(Closed(R), OwnerOf, e)) BY <1>7
  <2>3. IsFiniteSet(Closed(R)) BY <1>4
  <2> QED BY ONLY <1>6, <2>1, <2>2, <2>3, CountByKeys
<1>12. Sum(d) = SumOver(d, Employees) /\ Sum(d) <= Cardinality(CashOf(R))
  <2>1. d = [e \in Employees |-> d[e]] BY <1>8
  <2>2. \A e \in Employees : d[e] = Cardinality(Having(CashOf(R), AuthorOf, e)) BY <1>7
  <2> QED BY ONLY <1>5, <1>6, <2>1, <2>2, CountByKeys
<1>13. SumOver(p, Employees) = SumOver(a, Employees) + SumOver(b, Employees)
  <2>1. \A e \in Employees : a[e] \in Int /\ b[e] \in Int /\ p[e] = a[e] + b[e] BY <1>7
  <2> QED BY ONLY <1>6, <2>1, SumOverPlus
<1>14. SumOver(cash, Employees) = SumOver(p, Employees) + SumOver(d, Employees)
  <2>1. \A e \in Employees : p[e] \in Int /\ d[e] \in Int /\ cash[e] = p[e] + d[e] BY <1>7
  <2> QED BY ONLY <1>6, <2>1, SumOverPlus
<1>15. Sum(cash) = SumOver(cash, Employees)
  <2>1. cash = [e \in Employees |-> cash[e]] BY <1>8
  <2>2. \A e \in Employees : cash[e] = cash[e] OBVIOUS
  <2> QED BY ONLY <2>1, <2>2, SumIs
<1>16. SumOver(a, Employees) \in Int /\ SumOver(b, Employees) \in Int
       /\ SumOver(d, Employees) \in Int
  <2>1. \A e \in Employees : a[e] \in Int BY <1>7
  <2>2. \A e \in Employees : b[e] \in Int BY <1>7
  <2>3. \A e \in Employees : d[e] \in Int BY <1>7
  <2>4. SumOver(a, Employees) \in Int BY ONLY <1>6, <2>1, SumOverType
  <2>5. SumOver(b, Employees) \in Int BY ONLY <1>6, <2>2, SumOverType
  <2>6. SumOver(d, Employees) \in Int BY ONLY <1>6, <2>3, SumOverType
  <2> QED BY <2>4, <2>5, <2>6
<1>17. Sum(cash) <= 2 * Cardinality(L) + Cardinality(CashOf(R))
  BY ONLY <1>3, <1>4, <1>9, <1>10, <1>11, <1>12, <1>13, <1>14, <1>15, <1>16
<1> QED BY <1>17 DEF L

\* What is said of the activity of all of them.
LEMMA ActivityAgrees ==
    ASSUME BooksOK
    PROVE  LET activity == ActivitySummary(Days)
               commission == CommissionSummary(Days)
           IN /\ activity.count = commission.count
              /\ activity.commission = commission.commission
              /\ activity.active = {e \in Employees : Timeline(Days, e) # {}}
              /\ commission.nobodys = 0 => AggregateSales(Days).count <= activity.count
<1> DEFINE made == [e \in Employees |-> CommissionRow(Days, e).count]
           canceled == [e \in Employees |-> CommissionRow(Days, e).canceled]
           nobodys == SalesWithoutReliableActor(Days)
           refunded == {s \in SoldIn(Days) : sale[s].status = "refunded"}
           rest == {s \in nobodys : ~IsCanceled(s)}
<1>1. /\ ActivitySummary(Days).count = Sum([e \in Employees |-> ActivityRow(Days, e).count])
      /\ ActivitySummary(Days).commission
            = Sum([e \in Employees |-> ActivityRow(Days, e).commission])
      /\ ActivitySummary(Days).active
            = {e \in Employees : HasActivity(ActivityRow(Days, e), Timeline(Days, e))}
  <2> DEFINE row == [e \in Employees |-> ActivityRow(Days, e)]
  <2>1. \A e \in Employees : row[e] = ActivityRow(Days, e) OBVIOUS
  <2>2. /\ ActivitySummary(Days).count = Sum([e \in Employees |-> row[e].count])
        /\ ActivitySummary(Days).commission = Sum([e \in Employees |-> row[e].commission])
        /\ ActivitySummary(Days).active
              = {e \in Employees : HasActivity(row[e], Timeline(Days, e))}
    BY DEF ActivitySummary
  <2>3. [e \in Employees |-> row[e].count] = [e \in Employees |-> ActivityRow(Days, e).count]
    BY <2>1
  <2>4. [e \in Employees |-> row[e].commission]
           = [e \in Employees |-> ActivityRow(Days, e).commission]
    BY <2>1
  <2>5. {e \in Employees : HasActivity(row[e], Timeline(Days, e))}
           = {e \in Employees : HasActivity(ActivityRow(Days, e), Timeline(Days, e))}
    BY <2>1
  <2> HIDE DEF row
  <2> QED BY <2>2, <2>3, <2>4, <2>5
<1>2. /\ CommissionSummary(Days).count = Sum(made)
      /\ CommissionSummary(Days).commission
            = Sum([e \in Employees |-> CommissionRow(Days, e).commission])
      /\ CommissionSummary(Days).nobodys = Cardinality(nobodys)
  <2> DEFINE row == [e \in Employees |-> CommissionRow(Days, e)]
  <2>1. \A e \in Employees : row[e] = CommissionRow(Days, e) OBVIOUS
  <2>2. /\ CommissionSummary(Days).count = Sum([e \in Employees |-> row[e].count])
        /\ CommissionSummary(Days).commission = Sum([e \in Employees |-> row[e].commission])
        /\ CommissionSummary(Days).nobodys = Cardinality(nobodys)
    BY DEF CommissionSummary
  <2>3. [e \in Employees |-> row[e].count] = made BY <2>1
  <2>4. [e \in Employees |-> row[e].commission]
           = [e \in Employees |-> CommissionRow(Days, e).commission]
    BY <2>1
  <2> HIDE DEF row, made
  <2> QED BY <2>2, <2>3, <2>4
<1>3. [e \in Employees |-> ActivityRow(Days, e).count] = made
  <2>1. \A e \in Employees : ActivityRow(Days, e).count = CommissionRow(Days, e).count
    BY EmployeeRows
  <2> QED BY <2>1
<1>4. [e \in Employees |-> ActivityRow(Days, e).commission]
         = [e \in Employees |-> CommissionRow(Days, e).commission]
  <2>1. \A e \in Employees : ActivityRow(Days, e).commission = CommissionRow(Days, e).commission
    BY EmployeeRows
  <2> QED BY <2>1
<1>5. \A e \in Employees :
         HasActivity(ActivityRow(Days, e), Timeline(Days, e)) <=> Timeline(Days, e) # {}
  <2> TAKE e \in Employees
  <2> DEFINE row == ActivityRow(Days, e)
             line == Timeline(Days, e)
             discounts == {i \in line : i[1] = "discount"}
  <2>1. /\ Cardinality(line) = Cardinality(discounts) + row.count + row.canceled + row.cash
                                  + row.stock
        /\ discounts = Tagged("discount", Discounted(Days, e))
        /\ IsFiniteSet(line) /\ Cardinality(discounts) \in Nat
        /\ row.count \in Nat /\ row.canceled \in Nat /\ row.cash \in Nat /\ row.stock \in Nat
    BY TimelineCounted
  <2>2. row.discounts > 0 <=> discounts # {}
    <3>1. row.discounts = Discounts(Days, e) BY EmployeeRows
    <3>2. Discounts(Days, e) > 0 <=> Tagged("discount", Discounted(Days, e)) # {}
      BY DiscountsShown
    <3> QED BY <2>1, <3>1, <3>2
  <2>3. row.count = 0 => ~(row.amount > 0)
    <3> SUFFICES ASSUME row.count = 0 PROVE ~(row.amount > 0) OBVIOUS
    <3>1. PICK M : M = MadeBy(Days, e) OBVIOUS
    <3>2. row.count = Cardinality(M) /\ row.amount = Sum([s \in M |-> Total(s)])
      BY <3>1, EmployeeRows
    <3>3. IsFiniteSet(M)
      <4>1. \A s \in M : s \in SoldBy(Days, e) BY <3>1 DEF MadeBy
      <4> QED BY <4>1, DoneFinite, SubsetFinite
    <3>4. M = {} BY <3>2, <3>3, FS_EmptySet
    <3>5. PICK f : f = [s \in M |-> Total(s)] OBVIOUS
    <3>6. f = [s \in M |-> f[s]] /\ (\A s \in M : f[s] = f[s]) BY <3>5
    <3>7. Sum(f) = SumOver(f, M) BY ONLY <3>6, SumIs
    <3>8. Sum(f) = 0 BY ONLY <3>4, <3>7, SumNone
    <3> QED BY <3>2, <3>5, <3>8
  <2>4. Cardinality(line) = 0 <=> line = {} BY <2>1, FS_EmptySet
  <2>5. discounts # {} => line # {} OBVIOUS
  <2>6. HasActivity(row, line) <=>
           \/ row.count > 0 \/ row.amount > 0 \/ row.discounts > 0 \/ row.canceled > 0
           \/ row.stock > 0 \/ row.cash > 0 \/ line # {}
    BY DEF HasActivity
  <2>7. PICK n, m, k, h, z, j : /\ n = Cardinality(line) /\ m = Cardinality(discounts)
                                /\ k = row.count /\ h = row.canceled /\ z = row.cash
                                /\ j = row.stock
    OBVIOUS
  <2> HIDE DEF row, line, discounts
  <2>8. (row.count > 0 \/ row.canceled > 0 \/ row.stock > 0 \/ row.cash > 0) => line # {}
    <3>1. /\ n = m + k + h + z + j /\ m \in Nat /\ k \in Nat /\ h \in Nat /\ z \in Nat /\ j \in Nat
          /\ n = 0 <=> line = {}
      BY <2>1, <2>4, <2>7
    <3>2. (k > 0 \/ h > 0 \/ j > 0 \/ z > 0) => n # 0 BY ONLY <3>1
    <3> QED BY <2>7, <3>1, <3>2
  <2>9. row.amount > 0 => row.count > 0 BY <2>1, <2>3
  <2>10. HasActivity(row, line) <=> line # {}
    BY <2>2, <2>5, <2>6, <2>8, <2>9, Zenon
  <2> QED BY <2>10 DEF row, line
<1>6. {e \in Employees : HasActivity(ActivityRow(Days, e), Timeline(Days, e))}
         = {e \in Employees : Timeline(Days, e) # {}}
  BY <1>5
<1>7. /\ AggregateSales(Days).count + Cardinality(refunded) = Sum(made) + Cardinality(rest)
      /\ IsFiniteSet(nobodys) /\ IsFiniteSet(refunded) /\ Sum(made) \in Nat
  BY SalesPartition
<1>8. Cardinality(nobodys) = 0 => Cardinality(rest) = 0
  <2> SUFFICES ASSUME Cardinality(nobodys) = 0 PROVE Cardinality(rest) = 0 OBVIOUS
  <2>1. nobodys = {} BY <1>7, FS_EmptySet
  <2>2. rest = {} BY <2>1
  <2> QED BY <2>2, FS_EmptySet
<1>9. Cardinality(refunded) \in Nat /\ AggregateSales(Days).count \in Nat
  BY <1>7, FS_CardinalityType, SalesAreSums
<1> HIDE DEF made, canceled, nobodys, refunded, rest
<1>10. Cardinality(nobodys) = 0 => AggregateSales(Days).count <= Sum(made)
  BY ONLY <1>7, <1>8, <1>9
<1> QED BY <1>1, <1>2, <1>3, <1>4, <1>6, <1>10, Zenon

\* What the detail of an employee says.
LEMMA DetailAgrees ==
    ASSUME BooksOK, NEW R, NEW e \in Employees
    PROVE  LET detail == ActivityDetail(R, e)
               activity == detail.summary
               discounts == {i \in detail.timeline : i[1] = "discount"}
           IN /\ activity.count = CommissionRow(R, e).count
              /\ activity.canceled
                    = CommissionRow(R, e).canceled + Cardinality(CancelledOrders(R, e))
              /\ Cardinality(detail.timeline) = Cardinality(discounts) + activity.count
                    + activity.canceled + activity.cash + activity.stock
              /\ activity.discounts > 0 <=> discounts # {}
<1> DEFINE row == ActivityRow(R, e)
           line == Timeline(R, e)
           discounts == {i \in line : i[1] = "discount"}
<1>1. ActivityDetail(R, e).summary = row /\ ActivityDetail(R, e).timeline = line
  BY DEF ActivityDetail
<1>2. /\ Cardinality(line) = Cardinality(discounts) + row.count + row.canceled + row.cash
                                + row.stock
      /\ discounts = Tagged("discount", Discounted(R, e))
  BY TimelineCounted
<1>3. row.discounts > 0 <=> discounts # {}
  <2>1. row.discounts = Discounts(R, e) BY EmployeeRows
  <2>2. Discounts(R, e) > 0 <=> Tagged("discount", Discounted(R, e)) # {} BY DiscountsShown
  <2> QED BY <1>2, <2>1, <2>2
<1>4. /\ row.count = CommissionRow(R, e).count
      /\ row.canceled = CommissionRow(R, e).canceled + Cardinality(CancelledOrders(R, e))
  BY EmployeeRows
<1>5. {i \in ActivityDetail(R, e).timeline : i[1] = "discount"} = discounts BY <1>1
<1> HIDE DEF row, line, discounts
<1> QED BY <1>1, <1>2, <1>3, <1>4, <1>5

\* The reports of a range.
Ranged(R) ==
    LET row == [e \in Employees |-> CommissionRow(R, e)]
        nobodys == SalesWithoutReliableActor(R)
        refunded == {s \in SoldIn(R) : sale[s].status = "refunded"}
        made == Sum([e \in Employees |-> row[e].count])
    IN /\ made + Sum([e \in Employees |-> row[e].canceled]) + Cardinality(nobodys)
             = Cardinality(SoldIn(R))
       /\ \A e \in Employees :
            LET detail == ActivityDetail(R, e)
                activity == detail.summary
                discounts == {i \in detail.timeline : i[1] = "discount"}
            IN /\ activity.count = row[e].count
               /\ activity.canceled = row[e].canceled + Cardinality(CancelledOrders(R, e))
               /\ Cardinality(detail.timeline) = Cardinality(discounts) + activity.count
                     + activity.canceled + activity.cash + activity.stock
               /\ activity.discounts > 0 <=> discounts # {}
       /\ AggregateSales(R).count + Cardinality(refunded)
             = made + Cardinality({s \in nobodys : ~IsCanceled(s)})
       /\ Sum([u \in DOMAIN EmployeeReports(R) |-> EmployeeReports(R)[u].count])
             <= AggregateSales(R).count
       /\ Sum([e \in Employees |-> ActivityRow(R, e).cash])
             <= 2 * Cardinality(LoadCashSessions(R))
                  + Cardinality(UNION {EventsBy(R, e, CashKinds) : e \in Employees})
\* They agree with each other.
LEMMA RangesAgree == ASSUME BooksOK, NEW R PROVE Ranged(R)
<1> DEFINE row == [e \in Employees |-> CommissionRow(R, e)]
           counts == [e \in Employees |-> CommissionRow(R, e).count]
           cancels == [e \in Employees |-> CommissionRow(R, e).canceled]
           cash == [e \in Employees |-> ActivityRow(R, e).cash]
           nobodys == SalesWithoutReliableActor(R)
           refunded == {s \in SoldIn(R) : sale[s].status = "refunded"}
           rest == {s \in nobodys : ~IsCanceled(s)}
<1>1. \A e \in Employees : row[e] = CommissionRow(R, e) OBVIOUS
<1>2. [e \in Employees |-> row[e].count] = counts
      /\ [e \in Employees |-> row[e].canceled] = cancels
  BY <1>1
<1>3. /\ Sum(counts) + Sum(cancels) + Cardinality(nobodys) = Cardinality(SoldIn(R))
      /\ AggregateSales(R).count + Cardinality(refunded) = Sum(counts) + Cardinality(rest)
  BY SalesPartition
<1>4. Sum([u \in DOMAIN EmployeeReports(R) |-> EmployeeReports(R)[u].count])
         <= AggregateSales(R).count
  BY EmployeesAre
<1>5. Sum(cash) <= 2 * Cardinality(LoadCashSessions(R))
                     + Cardinality(UNION {EventsBy(R, e, CashKinds) : e \in Employees})
  BY CashCounted DEF CashOf
<1>6. \A e \in Employees :
        LET detail == ActivityDetail(R, e)
            activity == detail.summary
            discounts == {i \in detail.timeline : i[1] = "discount"}
        IN /\ activity.count = row[e].count
           /\ activity.canceled = row[e].canceled + Cardinality(CancelledOrders(R, e))
           /\ Cardinality(detail.timeline) = Cardinality(discounts) + activity.count
                 + activity.canceled + activity.cash + activity.stock
           /\ activity.discounts > 0 <=> discounts # {}
  <2> TAKE e \in Employees
  <2>1. row[e] = CommissionRow(R, e) BY <1>1
  <2> HIDE DEF row
  <2> QED BY <2>1, DetailAgrees
<1> QED BY <1>2, <1>3, <1>4, <1>5, <1>6, Zenon DEF Ranged

\* The sales are accounted for in books that are well formed.
LEMMA SalesHold == ASSUME BooksOK PROVE SalesAreAccounted
<1>1. \A first, last \in Days : Ranged(first..last) BY RangesAgree
<1> QED
  BY <1>1, BoardAdds, SessionsAdd, ActivityAgrees, ProductsCounted, Zenon
  DEF SalesAreAccounted, Ranged

(* What is sold is accounted for in every report: the dashboard, the cash    *)
(* sessions, the products, and the activity and the commissions of employees *)
(* in every range (owner-reporting.service.ts, employee-activity.service.ts, *)
(* employee-commission.service.ts).                                          *)
THEOREM SalesAreAccountedFor == Spec => []SalesAreAccounted
<1>1. BooksOK => SalesAreAccounted BY SalesHold
<1> QED BY <1>1, BooksAlwaysOK, PTL
=============================================================================
