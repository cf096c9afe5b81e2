---------------------------- MODULE Sums_proofs ----------------------------
(* What Total computes: the sum over a finite set, whatever the order in    *)
(* which its members are taken.                                             *)
EXTENDS Sums, FiniteSetTheorems, WellFoundedInduction, TLAPS

\* The member that is taken first, and the function that Total folds with.
First(s) == CHOOSE x \in s : TRUE
Adds(g, f, S) == g = [s \in SUBSET S |-> IF s = {} THEN 0 ELSE f[First(s)] + g[s \ {First(s)}]]

\* The element a sum takes first is one of the set.
LEMMA FirstIsMember == \A s : s # {} => First(s) \in s
BY DEF First

\* What the fold of the community module is, unfolded once.
LEMMA TotalFolds == ASSUME NEW f, NEW S PROVE Total(f, S) = (CHOOSE g : Adds(g, f, S))[S]
BY DEF Total, MapThenFoldSet, Adds, First

\* A summing function, unfolded at a subset.
LEMMA AddsStep ==
  ASSUME NEW g, NEW f, NEW S, Adds(g, f, S), NEW s \in SUBSET S
  PROVE  g[s] = IF s = {} THEN 0 ELSE f[First(s)] + g[s \ {First(s)}]
BY DEF Adds

\* Induction over the subsets of a finite set: of any of them, one is smallest.
LEMMA Smallest ==
  ASSUME NEW S, IsFiniteSet(S), NEW C, C \subseteq SUBSET S, C # {}
  PROVE  \E T \in C : \A U \in C : U \subseteq T => U = T
<1>1. IsWellFoundedOn(StrictSubsetOrdering(S), SUBSET S)
  BY FS_StrictSubsetOrderingWellFounded, FS_FiniteSubsetsOfFinite
<1>2. PICK T \in C : \A U \in C : ~(<<U, T>> \in StrictSubsetOrdering(S))
  BY <1>1, WFMin
<1>3. ASSUME NEW U \in C, U \subseteq T, U # T PROVE FALSE
  <2>1. <<U, T>> \in (SUBSET S) \X (SUBSET S)
    BY <1>2
  <2>2. <<U, T>> \in StrictSubsetOrdering(S)
    BY <1>3, <2>1 DEF StrictSubsetOrdering
  <2> QED
    BY <1>2, <1>3, <2>2
<1> QED
  BY <1>2, <1>3

\* Two folds agree where both are defined and add the same numbers.
LEMMA FoldsAgree ==
  ASSUME NEW S, NEW V, NEW f, NEW e, NEW g, NEW h, Adds(g, f, S), Adds(h, e, V),
         NEW T \in SUBSET (S \cap V), IsFiniteSet(T), \A x \in T : f[x] = e[x]
  PROVE  g[T] = h[T]
<1>0. \A U \in SUBSET V : h[U] = IF U = {} THEN 0 ELSE e[First(U)] + h[U \ {First(U)}]
  BY DEF Adds
<1> DEFINE C == {U \in SUBSET T : g[U] # h[U]}
<1> SUFFICES ASSUME C # {} PROVE FALSE
  OBVIOUS
<1>1. PICK U \in C : \A W \in C : W \subseteq U => W = U
  <2>1. C \subseteq SUBSET T /\ C # {}
    OBVIOUS
  <2> HIDE DEF C
  <2> QED
    BY <2>1, Smallest
<1>2. /\ g[U] = IF U = {} THEN 0 ELSE f[First(U)] + g[U \ {First(U)}]
      /\ h[U] = IF U = {} THEN 0 ELSE e[First(U)] + h[U \ {First(U)}]
  <2>1. U \in SUBSET S /\ U \in SUBSET V
    BY <1>1
  <2> HIDE DEF C
  <2>2. g[U] = IF U = {} THEN 0 ELSE f[First(U)] + g[U \ {First(U)}]
    BY <2>1, AddsStep
  <2>3. h[U] = IF U = {} THEN 0 ELSE e[First(U)] + h[U \ {First(U)}]
    BY <1>0, <2>1
  <2> QED
    BY <2>2, <2>3
<1>3. U # {} /\ First(U) \in U
  BY <1>1, <1>2, FirstIsMember
<1>4. g[U \ {First(U)}] = h[U \ {First(U)}]
  BY <1>1, <1>3
<1> QED
  BY <1>1, <1>2, <1>3, <1>4

\* A summing function exists for every finite set.
LEMMA FoldExists == ASSUME NEW S, IsFiniteSet(S), NEW f PROVE \E g : Adds(g, f, S)
<1> DEFINE C == {T \in SUBSET S : ~ \E g : Adds(g, f, T)}
<1> SUFFICES ASSUME C # {} PROVE FALSE
  BY DEF C
<1>1. PICK T \in C : \A U \in C : U \subseteq T => U = T
  <2>1. C \subseteq SUBSET S /\ C # {}
    OBVIOUS
  <2> HIDE DEF C
  <2> QED
    BY <2>1, Smallest
<1> DEFINE Part(U) == CHOOSE g : Adds(g, f, U)
           h == [s \in SUBSET T |->
                  IF s = {} THEN 0 ELSE f[First(s)] + Part(s \ {First(s)})[s \ {First(s)}]]
<1>2. ASSUME NEW U \in SUBSET T, U # T PROVE Adds(Part(U), f, U)
  <2>1. \E g : Adds(g, f, U)
    BY <1>1, <1>2
  <2> QED
    BY <2>1
<1> HIDE DEF Part
<1>3. ASSUME NEW U \in SUBSET T, U # T PROVE h[U] = Part(U)[U]
  <2>1. Part(U)[U] = IF U = {} THEN 0 ELSE f[First(U)] + Part(U)[U \ {First(U)}]
    BY <1>2, <1>3, AddsStep
  <2>2. CASE U = {}
    BY <2>1, <2>2
  <2>3. CASE U # {}
    <3> DEFINE W == U \ {First(U)}
    <3>1. First(U) \in U
      BY <2>3, FirstIsMember
    <3>2. W \in SUBSET T /\ W # T /\ W \subseteq U /\ IsFiniteSet(W)
      BY <3>1, FS_Subset
    <3>3. Adds(Part(U), f, U) /\ Adds(Part(W), f, W)
      BY <1>2, <1>3, <3>2
    <3> HIDE DEF W
    <3>4. Part(U)[W] = Part(W)[W]
      BY <3>2, <3>3, FoldsAgree
    <3>5. h[U] = f[First(U)] + Part(W)[W]
      BY <2>3 DEF W
    <3> QED
      BY <2>1, <2>3, <3>4, <3>5 DEF W
  <2> QED
    BY <2>2, <2>3
<1>4. ASSUME NEW s \in SUBSET T
      PROVE  h[s] = IF s = {} THEN 0 ELSE f[First(s)] + h[s \ {First(s)}]
  <2>1. CASE s = {}
    BY <2>1
  <2>2. CASE s # {}
    <3>1. First(s) \in s
      BY <2>2, FirstIsMember
    <3>2. s \ {First(s)} \in SUBSET T /\ s \ {First(s)} # T
      BY <3>1
    <3>3. h[s] = f[First(s)] + Part(s \ {First(s)})[s \ {First(s)}]
      BY <2>2
    <3> QED
      BY <1>3, <2>2, <3>2, <3>3
  <2> QED
    BY <2>1, <2>2
<1>5. h = [s \in SUBSET T |-> h[s]]
  OBVIOUS
<1> HIDE DEF h
<1>6. Adds(h, f, T)
  BY <1>4, <1>5 DEF Adds
<1> QED
  BY <1>1, <1>6

\* Total is the value of a summing function.
LEMMA TotalOf ==
  ASSUME NEW S, IsFiniteSet(S), NEW f
  PROVE  \E g : Adds(g, f, S) /\ Total(f, S) = g[S]
BY FoldExists, TotalFolds

-----------------------------------------------------------------------------
\* The sum over no members is zero.
LEMMA TotalEmpty == \A f : Total(f, {}) = 0
<1> SUFFICES ASSUME NEW f PROVE Total(f, {}) = 0
  OBVIOUS
<1>1. PICK g : Adds(g, f, {}) /\ Total(f, {}) = g[{}]
  BY TotalOf, FS_EmptySet
<1> QED
  BY <1>1, AddsStep

\* Functions that agree on a set have the same sum over it.
LEMMA TotalAgrees ==
  ASSUME NEW S, IsFiniteSet(S), NEW f, NEW e, \A x \in S : f[x] = e[x]
  PROVE  Total(f, S) = Total(e, S)
<1>1. PICK g : Adds(g, f, S) /\ Total(f, S) = g[S]
  BY TotalOf
<1>2. PICK h : Adds(h, e, S) /\ Total(e, S) = h[S]
  BY TotalOf
<1> QED
  BY <1>1, <1>2, FoldsAgree

\* A fold over integers, and what any one member adds to it.
LEMMA FoldIsInt ==
  ASSUME NEW S, IsFiniteSet(S), NEW f, \A x \in S : f[x] \in Int, NEW g, Adds(g, f, S)
  PROVE  \A T \in SUBSET S : g[T] \in Int
<1> DEFINE C == {T \in SUBSET S : g[T] \notin Int}
<1> SUFFICES ASSUME C # {} PROVE FALSE
  OBVIOUS
<1>1. PICK U \in C : \A W \in C : W \subseteq U => W = U
  <2>1. C \subseteq SUBSET S /\ C # {}
    OBVIOUS
  <2> HIDE DEF C
  <2> QED
    BY <2>1, Smallest
<1>2. g[U] = IF U = {} THEN 0 ELSE f[First(U)] + g[U \ {First(U)}]
  BY AddsStep
<1>3. U # {} /\ First(U) \in U
  BY <1>1, <1>2, FirstIsMember
<1>4. g[U \ {First(U)}] \in Int
  BY <1>1, <1>3
<1> QED
  BY <1>1, <1>2, <1>3, <1>4

\* A summing function may take any element first.
LEMMA FoldTakes ==
  ASSUME NEW S, IsFiniteSet(S), NEW f, \A x \in S : f[x] \in Int, NEW g, Adds(g, f, S)
  PROVE  \A T \in SUBSET S : \A x \in T : g[T] = f[x] + g[T \ {x}]
<1> DEFINE C == {T \in SUBSET S : \E x \in T : g[T] # f[x] + g[T \ {x}]}
<1> SUFFICES ASSUME C # {} PROVE FALSE
  OBVIOUS
<1>1. PICK T \in C : \A W \in C : W \subseteq T => W = T
  <2>1. C \subseteq SUBSET S /\ C # {}
    OBVIOUS
  <2> HIDE DEF C
  <2> QED
    BY <2>1, Smallest
<1>2. PICK x \in T : g[T] # f[x] + g[T \ {x}]
  BY <1>1
<1>3. PICK y \in T : y = First(T)
  BY <1>2, FirstIsMember
<1>4. T \in SUBSET S /\ T \ {x} \in SUBSET S /\ T \ {y} \in SUBSET S
  BY <1>1
<1>5. g[T] = f[y] + g[T \ {y}]
  <2>1. g[T] = IF T = {} THEN 0 ELSE f[First(T)] + g[T \ {First(T)}]
    BY <1>4, AddsStep
  <2> QED
    BY <1>2, <1>3, <2>1
<1>6. x # y
  BY <1>2, <1>5
<1>7. \A W \in SUBSET S : W \subseteq T /\ W # T => \A z \in W : g[W] = f[z] + g[W \ {z}]
  BY <1>1
<1> HIDE DEF C
<1>8. g[T \ {y}] = f[x] + g[(T \ {y}) \ {x}]
  BY <1>3, <1>4, <1>6, <1>7
<1>9. g[T \ {x}] = f[y] + g[(T \ {x}) \ {y}]
  BY <1>2, <1>4, <1>6, <1>7
<1>10. (T \ {x}) \ {y} = (T \ {y}) \ {x}
  OBVIOUS
<1>11. f[x] \in Int /\ f[y] \in Int /\ g[(T \ {y}) \ {x}] \in Int
  BY <1>4, FoldIsInt
<1> DEFINE rest == g[(T \ {y}) \ {x}]
<1>12. g[T] = f[y] + (f[x] + rest) /\ g[T \ {x}] = f[y] + rest /\ rest \in Int
  BY <1>5, <1>8, <1>9, <1>10, <1>11
<1> HIDE DEF rest
<1> QED
  BY <1>2, <1>11, <1>12

\* A sum of integers is an integer.
LEMMA TotalIsInt ==
  ASSUME NEW S, IsFiniteSet(S), NEW f, \A x \in S : f[x] \in Int
  PROVE  Total(f, S) \in Int
BY TotalOf, FoldIsInt

\* Any member may be taken out of a sum first.
LEMMA TotalTakes ==
  ASSUME NEW S, IsFiniteSet(S), NEW f, \A x \in S : f[x] \in Int, NEW x \in S
  PROVE  Total(f, S) = f[x] + Total(f, S \ {x})
<1>1. PICK g : Adds(g, f, S) /\ Total(f, S) = g[S]
  BY TotalOf
<1>2. IsFiniteSet(S \ {x})
  BY FS_RemoveElement
<1>3. PICK h : Adds(h, f, S \ {x}) /\ Total(f, S \ {x}) = h[S \ {x}]
  BY <1>2, TotalOf
<1>4. h[S \ {x}] = g[S \ {x}]
  BY <1>1, <1>2, <1>3, FoldsAgree
<1> QED
  BY <1>1, <1>3, <1>4, FoldTakes

\* One more element adds its value.
LEMMA TotalAdds ==
  ASSUME NEW S, IsFiniteSet(S), NEW x, x \notin S, NEW f, \A y \in S \cup {x} : f[y] \in Int
  PROVE  Total(f, S \cup {x}) = f[x] + Total(f, S)
<1>1. IsFiniteSet(S \cup {x}) /\ (S \cup {x}) \ {x} = S
  BY FS_AddElement
<1> QED
  BY <1>1, TotalTakes

\* A sum of natural numbers is one.
LEMMA TotalIsNat ==
  ASSUME NEW S, IsFiniteSet(S), NEW f, \A x \in S : f[x] \in Nat
  PROVE  Total(f, S) \in Nat
<1> DEFINE C == {T \in SUBSET S : Total(f, T) \notin Nat}
<1> SUFFICES ASSUME C # {} PROVE FALSE
  OBVIOUS
<1>1. PICK T \in C : \A W \in C : W \subseteq T => W = T
  <2>1. C \subseteq SUBSET S /\ C # {}
    OBVIOUS
  <2> HIDE DEF C
  <2> QED
    BY <2>1, Smallest
<1>2. PICK x \in T : TRUE
  <2>1. Total(f, T) \notin Nat
    BY <1>1
  <2> HIDE DEF C
  <2>2. T # {}
    BY <2>1, TotalEmpty
  <2> QED
    BY <2>2
<1>3. IsFiniteSet(T) /\ Total(f, T) = f[x] + Total(f, T \ {x})
  BY <1>2, FS_Subset, TotalTakes
<1>4. Total(f, T \ {x}) \in Nat
  BY <1>1, <1>2
<1> QED
  BY <1>1, <1>2, <1>3, <1>4

\* One member's number changes.
LEMMA TotalChanges ==
  ASSUME NEW S, IsFiniteSet(S), NEW f, \A y \in S : f[y] \in Int, NEW e, NEW x \in S,
         e[x] \in Int, \A y \in S \ {x} : e[y] = f[y]
  PROVE  Total(e, S) = Total(f, S) + (e[x] - f[x])
<1>1. IsFiniteSet(S \ {x}) /\ \A y \in S : e[y] \in Int
  BY FS_RemoveElement
<1>2. Total(f, S \ {x}) = Total(e, S \ {x}) /\ Total(f, S \ {x}) \in Int
  BY <1>1, TotalAgrees, TotalIsInt
<1>3. Total(f, S) = f[x] + Total(f, S \ {x}) /\ Total(e, S) = e[x] + Total(e, S \ {x})
  BY <1>1, TotalTakes
<1> QED
  BY <1>1, <1>2, <1>3

\* No member of a sum of natural numbers exceeds the sum.
LEMMA TotalCovers ==
  ASSUME NEW S, IsFiniteSet(S), NEW f, \A x \in S : f[x] \in Nat, NEW x \in S
  PROVE  f[x] <= Total(f, S)
<1>1. IsFiniteSet(S \ {x})
  BY FS_RemoveElement
<1>2. Total(f, S \ {x}) \in Nat
  BY <1>1, TotalIsNat
<1>3. \A y \in S : f[y] \in Int
  OBVIOUS
<1>4. Total(f, S) = f[x] + Total(f, S \ {x})
  BY <1>3, TotalTakes
<1> QED
  BY <1>2, <1>4

\* A sum of zeros is zero.
LEMMA TotalOfZeros ==
  ASSUME NEW S, IsFiniteSet(S), NEW f, \A x \in S : f[x] = 0
  PROVE  Total(f, S) = 0
<1> DEFINE C == {T \in SUBSET S : Total(f, T) # 0}
<1> SUFFICES ASSUME C # {} PROVE FALSE
  OBVIOUS
<1>1. PICK T \in C : \A W \in C : W \subseteq T => W = T
  <2>1. C \subseteq SUBSET S /\ C # {}
    OBVIOUS
  <2> HIDE DEF C
  <2> QED
    BY <2>1, Smallest
<1>2. T \in SUBSET S /\ Total(f, T) # 0 /\ IsFiniteSet(T)
  BY FS_Subset
<1>3. PICK x \in T : TRUE
  BY <1>2, TotalEmpty
<1>4. Total(f, T \ {x}) = 0
  BY <1>1, <1>2, <1>3
<1>5. (\A y \in T : f[y] \in Int) /\ f[x] = 0
  BY <1>2, <1>3
<1> QED
  BY <1>2, <1>3, <1>4, <1>5, TotalTakes
=============================================================================
