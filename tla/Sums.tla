--------------------------------- MODULE Sums ---------------------------------
(***************************************************************************)
(* Sums of a function over a finite set (SumFunctionOnSet of Functions),   *)
(* as the ledger, the time and the schedule are counted with: a sum is     *)
(* defined by choosing one element after the other, and these theorems say *)
(* that the choice does not matter.                                        *)
(***************************************************************************)
EXTENDS Integers, Functions, FiniteSetTheorems, WellFoundedInduction, TLAPS

----
(* The recursion that SumFunctionOnSet is defined by, as a property of the  *)
(* function that solves it over the subsets of a set.                       *)
Chosen(s) == CHOOSE x \in s : TRUE
SumStep(f, g, s) == IF s = {} THEN 0 ELSE f[Chosen(s)] + g[s \ {Chosen(s)}]
Solves(f, S, g) == g = [s \in SUBSET S |-> SumStep(f, g, s)]
Below(g, T) == [s \in SUBSET T |-> g[s]]

(* Some natural numbers have a least one. *)
LEMMA LeastOf ==
  ASSUME NEW T \in SUBSET Nat, T # {}
  PROVE  \E d \in T : \A e \in T : d <= e
<1> DEFINE Less == {ss \in Nat \X Nat : ss[1] < ss[2]}
<1>1. IsWellFoundedOn(Less, Nat)
  BY NatLessThanWellFounded DEF OpToRel
<1>2. \A j, k \in Nat : j < k => <<j, k>> \in Less
  OBVIOUS
<1> HIDE DEF Less
<1>3. PICK d \in T : \A e \in T : ~(<<e, d>> \in Less)
  BY <1>1, WFMin
<1>4. ASSUME NEW e \in T PROVE d <= e
  <2>1. d \in Nat /\ e \in Nat
    OBVIOUS
  <2>2. ~(e < d)
    BY <1>2, <1>3, <2>1
  <2> QED  BY <2>1, <2>2
<1> QED  BY <1>4

(* Of some subsets of a finite set one is smallest. *)
LEMMA SmallestSubset ==
  ASSUME NEW S, IsFiniteSet(S), NEW B \in SUBSET (SUBSET S), B # {}
  PROVE  \E T \in B : \A U \in B : U \subseteq T => U = T
<1>1. IsWellFoundedOn(StrictSubsetOrdering(S), SUBSET S)
  BY FS_StrictSubsetOrderingWellFounded, FS_FiniteSubsetsOfFinite
<1>2. PICK T \in B : \A U \in B : ~(<<U, T>> \in StrictSubsetOrdering(S))
  BY <1>1, WFMin
<1>3. ASSUME NEW U \in B, U \subseteq T PROVE U = T
  BY <1>2, <1>3 DEF StrictSubsetOrdering
<1> QED  BY <1>3

LEMMA ChosenIn ==
  ASSUME NEW s, s # {}
  PROVE  Chosen(s) \in s
BY DEF Chosen

(* The recursion has at most one solution, which solves it over the subsets *)
(* of every subset too.                                                     *)
LEMMA OneSolution ==
  ASSUME NEW f, NEW S, IsFiniteSet(S), NEW g, NEW h, Solves(f, S, g), Solves(f, S, h)
  PROVE  g = h
<1> DEFINE B == {T \in SUBSET S : g[T] # h[T]}
<1>1. \A s \in SUBSET S : g[s] = SumStep(f, g, s) /\ h[s] = SumStep(f, h, s)
  BY DEF Solves
<1>2. B = {}
  <2> SUFFICES ASSUME B # {} PROVE FALSE
    OBVIOUS
  <2>0. B \in SUBSET (SUBSET S)
    OBVIOUS
  <2>1. PICK T \in B : \A U \in B : U \subseteq T => U = T
    <3> HIDE DEF B
    <3> QED  BY <2>0, SmallestSubset
  <2>2. CASE T = {}
    BY <1>1, <2>2 DEF SumStep
  <2>3. CASE T # {}
    <3>1. Chosen(T) \in T
      BY <2>3, ChosenIn
    <3>2. T \ {Chosen(T)} \in SUBSET S /\ T \ {Chosen(T)} \notin B
      BY <2>1, <3>1
    <3>3. g[T \ {Chosen(T)}] = h[T \ {Chosen(T)}]
      BY <3>2
    <3> QED  BY <1>1, <2>3, <3>3 DEF SumStep
  <2> QED  BY <2>2, <2>3
<1>3. \A s \in SUBSET S : g[s] = h[s]
  BY <1>2
<1> QED  BY <1>3 DEF Solves

LEMMA SolvesSubset ==
  ASSUME NEW f, NEW S, NEW T \in SUBSET S, NEW g, Solves(f, S, g)
  PROVE  Solves(f, T, Below(g, T))
<1> DEFINE h == [s \in SUBSET T |-> g[s]]
<1>1. ASSUME NEW s \in SUBSET T PROVE g[s] = SumStep(f, h, s)
  <2>1. g[s] = SumStep(f, g, s)
    BY DEF Solves
  <2>2. CASE s = {}
    BY <2>1, <2>2 DEF SumStep
  <2>3. CASE s # {}
    <3>1. h[s \ {Chosen(s)}] = g[s \ {Chosen(s)}]
      OBVIOUS
    <3> QED  BY <2>1, <2>3, <3>1 DEF SumStep
  <2> QED  BY <2>2, <2>3
<1>2. h = [s \in SUBSET T |-> SumStep(f, h, s)]
  BY <1>1
<1> QED  BY <1>2 DEF Solves, Below

(* The recursion has a solution. *)
LEMMA Solvable ==
  ASSUME NEW f, NEW S, IsFiniteSet(S)
  PROVE  \E g : Solves(f, S, g)
<1> DEFINE B == {T \in SUBSET S : ~\E g : Solves(f, T, g)}
           Of(T) == CHOOSE g : Solves(f, T, g)
<1>1. SUFFICES ASSUME B # {} PROVE FALSE
  OBVIOUS
<1>0. B \in SUBSET (SUBSET S)
  OBVIOUS
<1>2. PICK T \in B : \A U \in B : U \subseteq T => U = T
  <2> HIDE DEF B
  <2> QED  BY <1>0, <1>1, SmallestSubset
<1>3. \A U \in SUBSET T : IsFiniteSet(U)
  BY FS_Subset
<1>4. ASSUME NEW U \in SUBSET T, U # T PROVE Solves(f, U, Of(U))
  <2>1. U \in SUBSET S /\ U \notin B
    BY <1>2, <1>4
  <2>2. \E g : Solves(f, U, g)
    BY <2>1
  <2> QED  BY <2>2
<1>5. ASSUME NEW U \in SUBSET T, U # T, NEW V \in SUBSET U PROVE Of(U)[V] = Of(V)[V]
  <2>1. Solves(f, U, Of(U)) /\ Solves(f, V, Of(V))
    BY <1>4, <1>5
  <2>2. Solves(f, V, Below(Of(U), V))
    <3> HIDE DEF Of
    <3> QED  BY <2>1, SolvesSubset
  <2>3. Below(Of(U), V) = Of(V)
    <3>1. IsFiniteSet(V)
      BY <1>3
    <3> HIDE DEF Of
    <3> QED  BY <2>1, <2>2, <3>1, OneSolution
  <2>4. Below(Of(U), V)[V] = Of(U)[V]
    BY DEF Below
  <2> QED  BY <2>3, <2>4
<1> HIDE DEF Of, B
<1> DEFINE below == [s \in SUBSET T |-> Of(s)[s]]
           whole == [s \in SUBSET T |-> IF s = T THEN SumStep(f, below, T) ELSE Of(s)[s]]
<1>6. ASSUME NEW s \in SUBSET T PROVE whole[s] = SumStep(f, whole, s)
  <2>1. CASE s = {}
    <3>1. CASE T = {}
      BY <2>1, <3>1 DEF SumStep
    <3>2. CASE T # {}
      BY <1>4, <2>1, <3>2 DEF Solves, SumStep
    <3> QED  BY <3>1, <3>2
  <2>2. CASE s # {}
    <3> DEFINE rest == s \ {Chosen(s)}
    <3>1. Chosen(s) \in s /\ rest \in SUBSET T /\ rest # T /\ rest \in SUBSET s
      BY <2>2, ChosenIn
    <3>2. whole[rest] = Of(rest)[rest] /\ below[rest] = Of(rest)[rest]
      BY <3>1
    <3>3. CASE s = T
      BY <2>2, <3>2, <3>3 DEF SumStep
    <3>4. CASE s # T
      <4>1. Of(s)[s] = SumStep(f, Of(s), s)
        BY <1>4, <3>4 DEF Solves
      <4>2. Of(s)[rest] = Of(rest)[rest]
        BY <1>5, <3>1, <3>4
      <4> QED  BY <2>2, <3>2, <3>4, <4>1, <4>2 DEF SumStep
    <3> QED  BY <3>3, <3>4
  <2> QED  BY <2>1, <2>2
<1>7. whole = [s \in SUBSET T |-> SumStep(f, whole, s)]
  BY <1>6
<1>8. Solves(f, T, whole)
  BY <1>7 DEF Solves
<1> QED  BY <1>2, <1>8 DEF B

----
(* What a sum is. *)

(* The sum of no numbers is 0; that of some is the number of one of them,   *)
(* the chosen one, and the sum of the others.                               *)
LEMMA SumOpened ==
  ASSUME NEW f, NEW S, IsFiniteSet(S)
  PROVE  SumFunctionOnSet(f, S) =
           IF S = {} THEN 0 ELSE f[Chosen(S)] + SumFunctionOnSet(f, S \ {Chosen(S)})
<1> DEFINE Of(T) == CHOOSE g : Solves(f, T, g)
<1>1. \A T : SumFunctionOnSet(f, T) = Of(T)[T]
  BY DEF SumFunctionOnSet, FoldFunctionOnSet, MapThenFoldSet, Solves, SumStep, Chosen
<1>2. \A T \in SUBSET S : IsFiniteSet(T) /\ Solves(f, T, Of(T))
  BY FS_Subset, Solvable
<1> HIDE DEF Of
<1>3. Of(S)[S] = SumStep(f, Of(S), S)
  BY <1>2 DEF Solves
<1>4. CASE S = {}
  BY <1>1, <1>3, <1>4 DEF SumStep
<1>5. CASE S # {}
  <2> DEFINE rest == S \ {Chosen(S)}
  <2>1. rest \in SUBSET S
    OBVIOUS
  <2>2. Solves(f, rest, Below(Of(S), rest))
    BY <1>2, <2>1, SolvesSubset
  <2>3. Below(Of(S), rest) = Of(rest)
    BY <1>2, <2>1, <2>2, OneSolution
  <2>4. Below(Of(S), rest)[rest] = Of(S)[rest]
    BY DEF Below
  <2> QED  BY <1>1, <1>3, <1>5, <2>3, <2>4 DEF SumStep
<1> QED  BY <1>4, <1>5

LEMMA SumOfNone ==
  ASSUME NEW f
  PROVE  SumFunctionOnSet(f, {}) = 0
BY SumOpened, FS_EmptySet

(* Nothing sums up to nothing. *)
LEMMA SumOfZeros ==
  ASSUME NEW f, NEW S, IsFiniteSet(S), \A x \in S : f[x] = 0
  PROVE  SumFunctionOnSet(f, S) = 0
<1> DEFINE B == {T \in SUBSET S : SumFunctionOnSet(f, T) # 0}
<1>1. B \in SUBSET (SUBSET S)
  OBVIOUS
<1>2. SUFFICES ASSUME B # {} PROVE FALSE
  OBVIOUS
<1>3. PICK T \in B : \A U \in B : U \subseteq T => U = T
  <2> HIDE DEF B
  <2> QED  BY <1>1, <1>2, SmallestSubset
<1>4. SumFunctionOnSet(f, T) =
        IF T = {} THEN 0 ELSE f[Chosen(T)] + SumFunctionOnSet(f, T \ {Chosen(T)})
  BY FS_Subset, SumOpened
<1>5. T # {} => Chosen(T) \in T /\ T \ {Chosen(T)} \in SUBSET S /\ T \ {Chosen(T)} \notin B
  BY <1>3, ChosenIn
<1> QED  BY <1>4, <1>5

(* Sums of integers are integers, sums of natural numbers natural numbers. *)
LEMMA SumType ==
  ASSUME NEW f, NEW S, IsFiniteSet(S), NEW Numbers \in {Nat, Int}, \A x \in S : f[x] \in Numbers
  PROVE  SumFunctionOnSet(f, S) \in Numbers
<1> DEFINE B == {T \in SUBSET S : SumFunctionOnSet(f, T) \notin Numbers}
<1>1. B \in SUBSET (SUBSET S)
  OBVIOUS
<1>2. SUFFICES ASSUME B # {} PROVE FALSE
  OBVIOUS
<1>3. PICK T \in B : \A U \in B : U \subseteq T => U = T
  <2> HIDE DEF B
  <2> QED  BY <1>1, <1>2, SmallestSubset
<1>4. /\ IsFiniteSet(T)
      /\ SumFunctionOnSet(f, T) =
           IF T = {} THEN 0 ELSE f[Chosen(T)] + SumFunctionOnSet(f, T \ {Chosen(T)})
  BY FS_Subset, SumOpened
<1>5. CASE T = {}
  BY <1>4, <1>5
<1>6. CASE T # {}
  <2>1. Chosen(T) \in T
    BY <1>6, ChosenIn
  <2>2. T \ {Chosen(T)} \in SUBSET S /\ T \ {Chosen(T)} \notin B
    BY <1>3, <2>1
  <2>3. SumFunctionOnSet(f, T \ {Chosen(T)}) \in Numbers /\ f[Chosen(T)] \in Numbers
    BY <2>1, <2>2
  <2>4. \A j, k \in Numbers : j + k \in Numbers
    OBVIOUS
  <2> QED  BY <1>4, <1>6, <2>3, <2>4
<1> QED  BY <1>5, <1>6

(* Any element may be taken out first. *)
THEOREM SumTakesOut ==
  ASSUME NEW f, NEW S, IsFiniteSet(S), \A x \in S : f[x] \in Int
  PROVE  \A x \in S : SumFunctionOnSet(f, S) = f[x] + SumFunctionOnSet(f, S \ {x})
<1> DEFINE B == {T \in SUBSET S : \E x \in T : SumFunctionOnSet(f, T) # f[x] + SumFunctionOnSet(f, T \ {x})}
<1>1. B \in SUBSET (SUBSET S)
  OBVIOUS
<1>2. SUFFICES ASSUME B # {} PROVE FALSE
  OBVIOUS
<1>3. PICK T \in B : \A U \in B : U \subseteq T => U = T
  <2> HIDE DEF B
  <2> QED  BY <1>1, <1>2, SmallestSubset
<1>4. PICK x \in T : SumFunctionOnSet(f, T) # f[x] + SumFunctionOnSet(f, T \ {x})
  OBVIOUS
<1> DEFINE c == Chosen(T)
<1>5. c \in T /\ T \in SUBSET S /\ f[c] \in Int /\ f[x] \in Int
  BY ChosenIn
<1>6. SumFunctionOnSet(f, T) = f[c] + SumFunctionOnSet(f, T \ {c})
  BY FS_Subset, SumOpened
<1> HIDE DEF c
<1>7. c # x
  BY <1>4, <1>6
<1>8. \A U \in SUBSET T : U # T => \A y \in U : SumFunctionOnSet(f, U) = f[y] + SumFunctionOnSet(f, U \ {y})
  BY <1>3
<1>9. SumFunctionOnSet(f, T \ {c}) = f[x] + SumFunctionOnSet(f, (T \ {c}) \ {x})
  BY <1>5, <1>7, <1>8
<1>10. SumFunctionOnSet(f, T \ {x}) = f[c] + SumFunctionOnSet(f, (T \ {x}) \ {c})
  BY <1>4, <1>5, <1>7, <1>8
<1>11. (T \ {c}) \ {x} = (T \ {x}) \ {c}
  OBVIOUS
<1>12. SumFunctionOnSet(f, (T \ {x}) \ {c}) \in Int
  <2>1. (T \ {x}) \ {c} \in SUBSET S /\ IsFiniteSet((T \ {x}) \ {c})
    BY FS_Subset
  <2> QED  BY <2>1, SumType
<1>13. f[c] + (f[x] + SumFunctionOnSet(f, (T \ {x}) \ {c}))
         = f[x] + (f[c] + SumFunctionOnSet(f, (T \ {x}) \ {c}))
  BY <1>5, <1>12
<1>14. SumFunctionOnSet(f, T) = f[x] + SumFunctionOnSet(f, T \ {x})
  BY <1>6, <1>9, <1>10, <1>11, <1>13
<1> QED  BY <1>4, <1>14

(* A sum depends on the numbers that are summed up only. *)
THEOREM SumSame ==
  ASSUME NEW S, IsFiniteSet(S), NEW f, NEW g, \A x \in S : f[x] = g[x]
  PROVE  SumFunctionOnSet(f, S) = SumFunctionOnSet(g, S)
<1> DEFINE B == {T \in SUBSET S : SumFunctionOnSet(f, T) # SumFunctionOnSet(g, T)}
<1>1. B \in SUBSET (SUBSET S)
  OBVIOUS
<1>2. SUFFICES ASSUME B # {} PROVE FALSE
  OBVIOUS
<1>3. PICK T \in B : \A U \in B : U \subseteq T => U = T
  <2> HIDE DEF B
  <2> QED  BY <1>1, <1>2, SmallestSubset
<1>4. \A h : SumFunctionOnSet(h, T) =
             IF T = {} THEN 0 ELSE h[Chosen(T)] + SumFunctionOnSet(h, T \ {Chosen(T)})
  BY FS_Subset, SumOpened
<1>5. T # {} => Chosen(T) \in T /\ T \ {Chosen(T)} \notin B /\ T \ {Chosen(T)} \in SUBSET S
  BY <1>3, ChosenIn
<1> QED  BY <1>4, <1>5

(* A sum grows by the number of an element that is added. *)
THEOREM SumAdds ==
  ASSUME NEW f, NEW S, IsFiniteSet(S), NEW x, x \notin S, \A y \in S \cup {x} : f[y] \in Int
  PROVE  SumFunctionOnSet(f, S \cup {x}) = f[x] + SumFunctionOnSet(f, S)
<1>1. IsFiniteSet(S \cup {x}) /\ (S \cup {x}) \ {x} = S
  BY FS_AddElement
<1> QED  BY <1>1, SumTakesOut

(* A sum changes by as much as the one number of it that changes. *)
THEOREM SumChanges ==
  ASSUME NEW S, IsFiniteSet(S), NEW f, NEW g, NEW x \in S,
         \A y \in S : f[y] \in Int /\ g[y] \in Int,
         \A y \in S \ {x} : f[y] = g[y]
  PROVE  SumFunctionOnSet(g, S) = SumFunctionOnSet(f, S) - f[x] + g[x]
<1>1. IsFiniteSet(S \ {x})
  BY FS_RemoveElement
<1>2. SumFunctionOnSet(f, S \ {x}) = SumFunctionOnSet(g, S \ {x})
  BY <1>1, SumSame
<1>3. SumFunctionOnSet(f, S \ {x}) \in Int
  BY <1>1, SumType
<1>4. SumFunctionOnSet(f, S) = f[x] + SumFunctionOnSet(f, S \ {x})
  BY SumTakesOut
<1>5. SumFunctionOnSet(g, S) = g[x] + SumFunctionOnSet(g, S \ {x})
  BY SumTakesOut
<1> QED  BY <1>2, <1>3, <1>4, <1>5

===============================================================================
