---------------------------- MODULE SumTheorems ----------------------------
(***************************************************************************)
(* What a sum over a finite set is worth: SumFunctionOnSet(f, S), the fold *)
(* of module Functions that adds up f[x] for the x of S.                   *)
(*                                                                         *)
(* Induction is stated here over a set of sets instead of a predicate, so  *)
(* that the provers can instantiate it: whatever set of subsets of S holds *)
(* the empty set and is closed under adding an element holds S; and        *)
(* whatever set holds 0 and, with a number below N, the next, holds 0..N.  *)
(* The last section is about the divisions of natural numbers.             *)
(***************************************************************************)
EXTENDS Integers, Functions, FiniteSetTheorems, TLAPS

(* Of the subsets of a finite set, every non-empty collection has one that  *)
(* contains no other.                                                       *)
LEMMA SmallestSubset ==
    ASSUME NEW S, IsFiniteSet(S), NEW B \in SUBSET SUBSET S, B # {}
    PROVE  \E T \in B : \A U \in SUBSET T : U # T => U \notin B
<1>1. IsWellFoundedOn(StrictSubsetOrdering(S), SUBSET S)
  BY FS_StrictSubsetOrderingWellFounded, FS_FiniteSubsetsOfFinite
<1>2. PICK T \in B : \A U \in B : <<U, T>> \notin StrictSubsetOrdering(S)
  <2> DEFINE R == StrictSubsetOrdering(S)
             D == SUBSET S
  <2>1. IsWellFoundedOn(R, D) /\ B \subseteq D
    BY <1>1
  <2> HIDE DEF R, D
  <2>2. \E T \in B : \A U \in B : ~ (<<U, T>> \in R)
    BY <2>1, WFMin
  <2> QED
    BY <2>2 DEF R
<1>3. \A U \in SUBSET T : U # T => U \notin B
  BY <1>2 DEF StrictSubsetOrdering
<1> QED
  BY <1>3

(* Induction on a finite set, over the set B of those subsets for which the *)
(* claim has been established.                                              *)
LEMMA SetInduction ==
    ASSUME NEW S, IsFiniteSet(S), NEW B,
           {} \in B,
           \A T \in SUBSET S : \A x \in S : T \in B /\ x \notin T => T \cup {x} \in B
    PROVE  S \in B
<1> SUFFICES ASSUME S \notin B PROVE FALSE
  OBVIOUS
<1> DEFINE C == (SUBSET S) \ B
<1>1. C \in SUBSET SUBSET S /\ S \in C
  OBVIOUS
<1>2. PICK T \in C : \A U \in SUBSET T : U # T => U \notin C
  <2> HIDE DEF C
  <2> QED
    BY <1>1, SmallestSubset
<1>3. T # {}
  OBVIOUS
<1>4. PICK x \in T : TRUE
  BY <1>3
<1>5. T \ {x} \in B
  BY <1>2, <1>4
<1>6. (T \ {x}) \cup {x} \in B
  BY <1>4, <1>5
<1> QED
  BY <1>4, <1>6

-----------------------------------------------------------------------------
(***************************************************************************)
(* The recursion behind the fold.                                          *)
(***************************************************************************)

Pick(T) == CHOOSE x \in T : TRUE

Adds(f, h, T) ==
    h = [s \in SUBSET T |-> IF s = {} THEN 0 ELSE f[Pick(s)] + h[s \ {Pick(s)}]]

Partial(f, T) == CHOOSE h : Adds(f, h, T)

(* The fold is the last value of the function its recursion defines.        *)
LEMMA SumIsTheFold ==
    ASSUME NEW f, NEW T
    PROVE  SumFunctionOnSet(f, T) = Partial(f, T)[T]
BY DEF SumFunctionOnSet, FoldFunctionOnSet, MapThenFoldSet, Partial, Adds, Pick

(* The recursion has a solution, and the fold is the value of every one.    *)
LEMMA RecursionDefined ==
    ASSUME NEW f, NEW S, IsFiniteSet(S)
    PROVE  /\ Adds(f, Partial(f, S), S)
           /\ \A h : Adds(f, h, S) => h[S] = SumFunctionOnSet(f, S)
<1> DEFINE Value(T) == SumFunctionOnSet(f, T)
           Good(T) == /\ Adds(f, Partial(f, T), T)
                      /\ \A h : Adds(f, h, T) => h[T] = Value(T)
           C == {T \in SUBSET S : ~ Good(T)}
<1>1. SUFFICES ASSUME C # {} PROVE FALSE
  <2>1. S \in SUBSET S
    OBVIOUS
  <2> QED
    BY <2>1
<1>2. PICK T \in C : \A U \in SUBSET T : U # T => U \notin C
  <2>1. C \in SUBSET SUBSET S
    OBVIOUS
  <2> HIDE DEF C
  <2> QED
    BY <1>1, <2>1, SmallestSubset
<1>3. /\ T \in SUBSET S /\ ~ Good(T)
      /\ \A U \in SUBSET T : U # T => Good(U)
  BY <1>2
<1> HIDE DEF C
<1> DEFINE Rest(s) == s \ {Pick(s)}
<1>4. \A s : s # {} => Pick(s) \in s
  BY DEF Pick
<1>5. \A s \in SUBSET T : s # {} => Rest(s) \in SUBSET T /\ Rest(s) # T
  BY <1>4
\* A solution for a set is one for each of its subsets.
<1>6. ASSUME NEW h, NEW W, NEW U \in SUBSET W, Adds(f, h, W)
      PROVE  Adds(f, [s \in SUBSET U |-> h[s]], U)
  <2> DEFINE k == [s \in SUBSET U |-> h[s]]
  <2>1. \A s \in SUBSET U : s # {} => Rest(s) \in SUBSET U
    BY <1>4
  <2>2. \A s \in SUBSET U : h[s] = IF s = {} THEN 0 ELSE f[Pick(s)] + h[Rest(s)]
    BY <1>6 DEF Adds
  <2>3. \A s \in SUBSET U : k[s] = IF s = {} THEN 0 ELSE f[Pick(s)] + k[Rest(s)]
    BY <2>1, <2>2
  <2>4. k = [s \in SUBSET U |-> k[s]]
    OBVIOUS
  <2> HIDE DEF k
  <2>5. k = [s \in SUBSET U |-> IF s = {} THEN 0 ELSE f[Pick(s)] + k[Rest(s)]]
    BY <2>3, <2>4
  <2> QED
    BY <2>5 DEF Adds, k
\* On the subsets that are good the value follows the recursion.
<1>7. ASSUME NEW U \in SUBSET T, U # T
      PROVE  Value(U) = IF U = {} THEN 0 ELSE f[Pick(U)] + Value(Rest(U))
  <2> DEFINE h == Partial(f, U)
  <2>1. Adds(f, h, U) /\ h[U] = Value(U)
    BY <1>3, <1>7
  <2>2. h[U] = IF U = {} THEN 0 ELSE f[Pick(U)] + h[Rest(U)]
    BY <2>1 DEF Adds
  <2>3. CASE U # {}
    <3>1. Rest(U) \in SUBSET U /\ Rest(U) \in SUBSET T /\ Rest(U) # T
      BY <1>4, <1>5, <2>3
    <3>2. Adds(f, [s \in SUBSET Rest(U) |-> h[s]], Rest(U))
      BY <1>6, <2>1, <3>1
    <3>3. [s \in SUBSET Rest(U) |-> h[s]][Rest(U)] = Value(Rest(U))
      BY <1>3, <3>1, <3>2
    <3> HIDE DEF h
    <3>4. h[Rest(U)] = Value(Rest(U))
      BY <3>3
    <3> QED
      BY <2>1, <2>2, <2>3, <3>4
  <2> QED
    BY <2>1, <2>2, <2>3
<1> DEFINE G == [s \in SUBSET T |-> IF s = {} THEN 0 ELSE f[Pick(s)] + Value(Rest(s))]
<1>8. Adds(f, G, T)
  <2>1. \A s \in SUBSET T : s # T => G[s] = Value(s)
    BY <1>7
  <2>2. \A s \in SUBSET T : s # {} => G[Rest(s)] = Value(Rest(s))
    BY <1>5, <2>1
  <2>3. \A s \in SUBSET T : G[s] = IF s = {} THEN 0 ELSE f[Pick(s)] + G[Rest(s)]
    BY <2>2
  <2>4. G = [s \in SUBSET T |-> G[s]]
    OBVIOUS
  <2> HIDE DEF G
  <2>5. G = [s \in SUBSET T |-> IF s = {} THEN 0 ELSE f[Pick(s)] + G[Rest(s)]]
    BY <2>3, <2>4
  <2> QED
    BY <2>5 DEF Adds
<1>9. Adds(f, Partial(f, T), T)
  BY <1>8 DEF Partial
<1>10. ASSUME NEW h, Adds(f, h, T)
       PROVE  h[T] = Value(T)
  <2>1. /\ h[T] = IF T = {} THEN 0 ELSE f[Pick(T)] + h[Rest(T)]
        /\ Partial(f, T)[T] = IF T = {} THEN 0 ELSE f[Pick(T)] + Partial(f, T)[Rest(T)]
    BY <1>9, <1>10 DEF Adds
  <2>2. ASSUME NEW k, Adds(f, k, T), T # {}
        PROVE  k[Rest(T)] = Value(Rest(T))
    <3>1. Rest(T) \in SUBSET T /\ Rest(T) # T
      BY <1>5, <2>2
    <3>2. Adds(f, [s \in SUBSET Rest(T) |-> k[s]], Rest(T))
      BY <1>6, <2>2, <3>1
    <3>3. [s \in SUBSET Rest(T) |-> k[s]][Rest(T)] = Value(Rest(T))
      BY <1>3, <3>1, <3>2
    <3> QED
      BY <3>3
  <2>3. h[T] = Partial(f, T)[T]
    BY <1>9, <1>10, <2>1, <2>2
  <2> QED
    BY <2>3, SumIsTheFold
<1> QED
  BY <1>3, <1>9, <1>10

-----------------------------------------------------------------------------
(***************************************************************************)
(* Sums of integers.                                                       *)
(***************************************************************************)

IntegersOn(f, S) == \A x \in S : f[x] \in Int

(* Of nothing there is nothing to add. *)
LEMMA SumEmpty ==
    ASSUME NEW f
    PROVE  SumFunctionOnSet(f, {}) = 0
<1>1. IsFiniteSet({})
  BY FS_EmptySet
<1>2. Adds(f, Partial(f, {}), {})
  BY <1>1, RecursionDefined
<1>3. Partial(f, {})[{}] = 0
  BY <1>2 DEF Adds
<1> QED
  BY <1>3, SumIsTheFold

(* The element the fold picks first is added to the sum of the others. *)
LEMMA SumPicked ==
    ASSUME NEW f, NEW S, IsFiniteSet(S), S # {}
    PROVE  /\ Pick(S) \in S
           /\ SumFunctionOnSet(f, S) = f[Pick(S)] + SumFunctionOnSet(f, S \ {Pick(S)})
<1> DEFINE R == S \ {Pick(S)}
           h == Partial(f, S)
           k == [s \in SUBSET R |-> h[s]]
<1>1. Pick(S) \in S
  BY DEF Pick
<1>2. Adds(f, h, S)
  BY RecursionDefined
<1>3. h[S] = f[Pick(S)] + h[R]
  BY <1>2 DEF Adds
<1>4. \A s \in SUBSET R : s # {} => Pick(s) \in s
  BY DEF Pick
<1>5. Adds(f, k, R)
  <2>1. \A s \in SUBSET R : h[s] = IF s = {} THEN 0 ELSE f[Pick(s)] + h[s \ {Pick(s)}]
    BY <1>2 DEF Adds
  <2>2. \A s \in SUBSET R : s \ {Pick(s)} \in SUBSET R
    OBVIOUS
  <2>3. \A s \in SUBSET R : k[s] = IF s = {} THEN 0 ELSE f[Pick(s)] + k[s \ {Pick(s)}]
    BY <2>1, <2>2
  <2>4. k = [s \in SUBSET R |-> k[s]]
    OBVIOUS
  <2> HIDE DEF k
  <2> QED
    BY <2>3, <2>4 DEF Adds
<1>6. IsFiniteSet(R)
  BY FS_RemoveElement
<1>7. k[R] = SumFunctionOnSet(f, R)
  <2> HIDE DEF k, R
  <2> QED
    BY <1>5, <1>6, RecursionDefined
<1>8. h[R] = SumFunctionOnSet(f, R)
  BY <1>7
<1> QED
  BY <1>1, <1>3, <1>8, SumIsTheFold

(* A sum of integers is one. *)
LEMMA SumIsInteger ==
    ASSUME NEW f, NEW S, IsFiniteSet(S), IntegersOn(f, S)
    PROVE  SumFunctionOnSet(f, S) \in Int
<1> DEFINE C == {T \in SUBSET S : SumFunctionOnSet(f, T) \notin Int}
<1>1. SUFFICES ASSUME C # {} PROVE FALSE
  OBVIOUS
<1>2. PICK T \in C : \A U \in SUBSET T : U # T => U \notin C
  <2>1. C \in SUBSET SUBSET S
    OBVIOUS
  <2> HIDE DEF C
  <2> QED
    BY <1>1, <2>1, SmallestSubset
<1>3. IsFiniteSet(T) /\ T \in SUBSET S
  BY <1>2, FS_Subset
<1>4. T # {}
  <2> SUFFICES ASSUME T = {} PROVE FALSE
    OBVIOUS
  <2>1. SumFunctionOnSet(f, {}) = 0
    BY SumEmpty
  <2> QED
    BY <1>2, <2>1
<1>5. /\ Pick(T) \in T
      /\ SumFunctionOnSet(f, T) = f[Pick(T)] + SumFunctionOnSet(f, T \ {Pick(T)})
  BY <1>3, <1>4, SumPicked
<1>6. SumFunctionOnSet(f, T \ {Pick(T)}) \in Int
  BY <1>2, <1>3, <1>5
<1>7. f[Pick(T)] \in Int
  BY <1>3, <1>5 DEF IntegersOn
<1> QED
  BY <1>2, <1>5, <1>6, <1>7

(* Any element may be taken out first: the order of the fold is immaterial. *)
LEMMA SumRemove ==
    ASSUME NEW f, NEW S, IsFiniteSet(S), IntegersOn(f, S), NEW x \in S
    PROVE  SumFunctionOnSet(f, S) = f[x] + SumFunctionOnSet(f, S \ {x})
<1> DEFINE Fine(T) == \A y \in T :
                 SumFunctionOnSet(f, T) = f[y] + SumFunctionOnSet(f, T \ {y})
           C == {T \in SUBSET S : ~ Fine(T)}
<1>1. SUFFICES ASSUME C # {} PROVE FALSE
  <2>1. Fine(S)
    OBVIOUS
  <2> QED
    BY <2>1
<1>2. PICK T \in C : \A U \in SUBSET T : U # T => U \notin C
  <2>1. C \in SUBSET SUBSET S
    OBVIOUS
  <2> HIDE DEF C
  <2> QED
    BY <1>1, <2>1, SmallestSubset
<1>3. /\ T \in SUBSET S /\ ~ Fine(T)
      /\ \A U \in SUBSET T : U # T => Fine(U)
  BY <1>2
<1>4. PICK y \in T : SumFunctionOnSet(f, T) # f[y] + SumFunctionOnSet(f, T \ {y})
  BY <1>3
<1> HIDE DEF C
<1> DEFINE p == Pick(T)
<1>5. /\ p \in T
      /\ SumFunctionOnSet(f, T) = f[p] + SumFunctionOnSet(f, T \ {p})
  BY <1>3, <1>4, SumPicked, FS_Subset
<1>6. p # y
  BY <1>4, <1>5
<1> HIDE DEF p
<1>7. SumFunctionOnSet(f, T \ {p}) = f[y] + SumFunctionOnSet(f, (T \ {p}) \ {y})
  <2>1. T \ {p} \in SUBSET T /\ T \ {p} # T /\ y \in T \ {p}
    BY <1>5, <1>6
  <2> QED
    BY <1>3, <2>1
<1>8. SumFunctionOnSet(f, T \ {y}) = f[p] + SumFunctionOnSet(f, (T \ {y}) \ {p})
  <2>1. T \ {y} \in SUBSET T /\ T \ {y} # T /\ p \in T \ {y}
    BY <1>5, <1>6
  <2> QED
    BY <1>3, <2>1
<1>9. (T \ {y}) \ {p} = (T \ {p}) \ {y}
  OBVIOUS
<1>10. /\ f[p] \in Int /\ f[y] \in Int
       /\ SumFunctionOnSet(f, (T \ {p}) \ {y}) \in Int
  <2>1. (T \ {p}) \ {y} \in SUBSET S
    BY <1>3
  <2>2. IsFiniteSet((T \ {p}) \ {y})
    BY <2>1, FS_Subset
  <2>3. IntegersOn(f, (T \ {p}) \ {y})
    BY <2>1 DEF IntegersOn
  <2> QED
    BY <1>3, <1>5, <2>2, <2>3, SumIsInteger DEF IntegersOn
<1> DEFINE rest == SumFunctionOnSet(f, (T \ {p}) \ {y})
<1>11. SumFunctionOnSet(f, T) = f[p] + (f[y] + rest)
  BY <1>5, <1>7
<1>12. SumFunctionOnSet(f, T \ {y}) = f[p] + rest
  BY <1>8, <1>9
<1>13. f[p] + (f[y] + rest) = f[y] + (f[p] + rest)
  <2> HIDE DEF rest
  <2> QED
    BY <1>10 DEF rest
<1> QED
  BY <1>4, <1>11, <1>12, <1>13

(* A new element adds its own value. *)
LEMMA SumAdd ==
    ASSUME NEW f, NEW S, IsFiniteSet(S), NEW x, x \notin S, IntegersOn(f, S \cup {x})
    PROVE  /\ IsFiniteSet(S \cup {x})
           /\ SumFunctionOnSet(f, S \cup {x}) = f[x] + SumFunctionOnSet(f, S)
           /\ SumFunctionOnSet(f, S) \in Int
           /\ f[x] \in Int
<1>1. IsFiniteSet(S \cup {x}) /\ x \in S \cup {x} /\ (S \cup {x}) \ {x} = S
  BY FS_AddElement
<1>2. IntegersOn(f, S)
  BY DEF IntegersOn
<1>3. f[x] \in Int
  BY <1>1 DEF IntegersOn
<1> DEFINE T == S \cup {x}
<1>4. SumFunctionOnSet(f, T) = f[x] + SumFunctionOnSet(f, T \ {x})
  <2>1. IsFiniteSet(T) /\ IntegersOn(f, T) /\ x \in T
    BY <1>1
  <2> HIDE DEF T
  <2> QED
    BY <2>1, SumRemove
<1> QED
  BY <1>1, <1>2, <1>3, <1>4, SumIsInteger

-----------------------------------------------------------------------------
(***************************************************************************)
(* The laws of sums, each by induction on the set that is summed over.     *)
(***************************************************************************)

(* Terms of two functions that add up to those of a third have sums that    *)
(* do.                                                                      *)
LEMMA SumPlus ==
    ASSUME NEW f, NEW g, NEW h, NEW S, IsFiniteSet(S),
           IntegersOn(f, S), IntegersOn(g, S), \A x \in S : h[x] = f[x] + g[x]
    PROVE  SumFunctionOnSet(h, S) = SumFunctionOnSet(f, S) + SumFunctionOnSet(g, S)
<1> DEFINE B == {T \in SUBSET S : /\ IsFiniteSet(T)
                                  /\ SumFunctionOnSet(h, T) =
                                        SumFunctionOnSet(f, T) + SumFunctionOnSet(g, T)}
<1>1. {} \in B
  <2>1. /\ SumFunctionOnSet(f, {}) = 0 /\ SumFunctionOnSet(g, {}) = 0
        /\ SumFunctionOnSet(h, {}) = 0 /\ IsFiniteSet({})
    BY SumEmpty, FS_EmptySet
  <2> QED
    BY <2>1
<1>2. ASSUME NEW T \in SUBSET S, NEW x \in S, T \in B, x \notin T
      PROVE  T \cup {x} \in B
  <2>1. /\ IntegersOn(f, T \cup {x}) /\ IntegersOn(g, T \cup {x})
        /\ IntegersOn(h, T \cup {x})
    BY DEF IntegersOn
  <2>2. /\ IsFiniteSet(T \cup {x})
        /\ SumFunctionOnSet(f, T \cup {x}) = f[x] + SumFunctionOnSet(f, T)
        /\ SumFunctionOnSet(f, T) \in Int /\ f[x] \in Int
    BY <1>2, <2>1, SumAdd
  <2>3. /\ SumFunctionOnSet(g, T \cup {x}) = g[x] + SumFunctionOnSet(g, T)
        /\ SumFunctionOnSet(g, T) \in Int /\ g[x] \in Int
    BY <1>2, <2>1, SumAdd
  <2>4. SumFunctionOnSet(h, T \cup {x}) = h[x] + SumFunctionOnSet(h, T)
    BY <1>2, <2>1, SumAdd
  <2>5. SumFunctionOnSet(h, T) = SumFunctionOnSet(f, T) + SumFunctionOnSet(g, T)
    BY <1>2
  <2> DEFINE F == SumFunctionOnSet(f, T)
             G == SumFunctionOnSet(g, T)
  <2>6. (f[x] + g[x]) + (F + G) = (f[x] + F) + (g[x] + G)
    <3>1. F \in Int /\ G \in Int
      BY <2>2, <2>3
    <3> HIDE DEF F, G
    <3> QED
      BY <2>2, <2>3, <3>1
  <2> QED
    BY <2>2, <2>3, <2>4, <2>5, <2>6
<1> HIDE DEF B
<1>3. S \in B
  BY <1>1, <1>2, SetInduction
<1> QED
  BY <1>3 DEF B

(* Terms that are a multiple of others have a sum that is that multiple.    *)
LEMMA SumScaled ==
    ASSUME NEW f, NEW g, NEW S, IsFiniteSet(S), NEW k \in Int,
           IntegersOn(f, S), \A x \in S : g[x] = k * f[x]
    PROVE  SumFunctionOnSet(g, S) = k * SumFunctionOnSet(f, S)
<1> DEFINE B == {T \in SUBSET S : /\ IsFiniteSet(T)
                                  /\ SumFunctionOnSet(g, T) = k * SumFunctionOnSet(f, T)}
<1>1. {} \in B
  <2>1. /\ SumFunctionOnSet(f, {}) = 0 /\ SumFunctionOnSet(g, {}) = 0
        /\ IsFiniteSet({})
    BY SumEmpty, FS_EmptySet
  <2>2. k * 0 = 0
    OBVIOUS
  <2> QED
    BY <2>1, <2>2
<1>2. ASSUME NEW T \in SUBSET S, NEW x \in S, T \in B, x \notin T
      PROVE  T \cup {x} \in B
  <2>1. IntegersOn(f, T \cup {x})
    BY DEF IntegersOn
  <2>2. /\ IsFiniteSet(T \cup {x})
        /\ SumFunctionOnSet(f, T \cup {x}) = f[x] + SumFunctionOnSet(f, T)
        /\ SumFunctionOnSet(f, T) \in Int /\ f[x] \in Int
    BY <1>2, <2>1, SumAdd
  <2>3. IntegersOn(g, T \cup {x})
    <3>1. \A a \in Int : k * a \in Int
      OBVIOUS
    <3> QED
      BY <2>1, <3>1 DEF IntegersOn
  <2>4. SumFunctionOnSet(g, T \cup {x}) = k * f[x] + SumFunctionOnSet(g, T)
    BY <1>2, <2>3, SumAdd
  <2> DEFINE F == SumFunctionOnSet(f, T)
  <2>5. \A a, b \in Int : k * a + k * b = k * (a + b)
    OBVIOUS
  <2>6. k * f[x] + k * F = k * (f[x] + F)
    BY <2>2, <2>5
  <2> QED
    BY <1>2, <2>2, <2>4, <2>6
<1> HIDE DEF B
<1>3. S \in B
  BY <1>1, <1>2, SetInduction
<1> QED
  BY <1>3 DEF B

(* Terms no greater have a sum no greater. *)
LEMMA SumAtMost ==
    ASSUME NEW f, NEW g, NEW S, IsFiniteSet(S),
           IntegersOn(f, S), IntegersOn(g, S), \A x \in S : f[x] <= g[x]
    PROVE  SumFunctionOnSet(f, S) <= SumFunctionOnSet(g, S)
<1> DEFINE B == {T \in SUBSET S : /\ IsFiniteSet(T)
                                  /\ SumFunctionOnSet(f, T) <= SumFunctionOnSet(g, T)}
<1>1. {} \in B
  <2>1. /\ SumFunctionOnSet(f, {}) = 0 /\ SumFunctionOnSet(g, {}) = 0
        /\ IsFiniteSet({})
    BY SumEmpty, FS_EmptySet
  <2> QED
    BY <2>1
<1>2. ASSUME NEW T \in SUBSET S, NEW x \in S, T \in B, x \notin T
      PROVE  T \cup {x} \in B
  <2>1. IntegersOn(f, T \cup {x}) /\ IntegersOn(g, T \cup {x})
    BY DEF IntegersOn
  <2>2. /\ IsFiniteSet(T \cup {x})
        /\ SumFunctionOnSet(f, T \cup {x}) = f[x] + SumFunctionOnSet(f, T)
        /\ SumFunctionOnSet(f, T) \in Int /\ f[x] \in Int
    BY <1>2, <2>1, SumAdd
  <2>3. /\ SumFunctionOnSet(g, T \cup {x}) = g[x] + SumFunctionOnSet(g, T)
        /\ SumFunctionOnSet(g, T) \in Int /\ g[x] \in Int
    BY <1>2, <2>1, SumAdd
  <2>4. \A a, b, c, d \in Int : a <= b /\ c <= d => a + c <= b + d
    OBVIOUS
  <2>5. f[x] + SumFunctionOnSet(f, T) <= g[x] + SumFunctionOnSet(g, T)
    BY <1>2, <2>2, <2>3, <2>4
  <2> QED
    BY <2>2, <2>3, <2>5
<1> HIDE DEF B
<1>3. S \in B
  BY <1>1, <1>2, SetInduction
<1> QED
  BY <1>3 DEF B

(* The sum of a constant is as many times the constant as there are terms.  *)
LEMMA SumConstant ==
    ASSUME NEW f, NEW S, IsFiniteSet(S), NEW k \in Int, \A x \in S : f[x] = k
    PROVE  SumFunctionOnSet(f, S) = k * Cardinality(S)
<1> DEFINE B == {T \in SUBSET S : /\ IsFiniteSet(T)
                                  /\ SumFunctionOnSet(f, T) = k * Cardinality(T)}
<1>1. {} \in B
  <2>1. /\ SumFunctionOnSet(f, {}) = 0 /\ Cardinality({}) = 0 /\ IsFiniteSet({})
    BY SumEmpty, FS_EmptySet
  <2>2. k * 0 = 0
    OBVIOUS
  <2> QED
    BY <2>1, <2>2
<1>2. ASSUME NEW T \in SUBSET S, NEW x \in S, T \in B, x \notin T
      PROVE  T \cup {x} \in B
  <2>1. IntegersOn(f, T \cup {x})
    BY DEF IntegersOn
  <2>2. /\ IsFiniteSet(T \cup {x})
        /\ SumFunctionOnSet(f, T \cup {x}) = k + SumFunctionOnSet(f, T)
    BY <1>2, <2>1, SumAdd
  <2>3. /\ Cardinality(T \cup {x}) = Cardinality(T) + 1
        /\ Cardinality(T) \in Nat
    BY <1>2, FS_AddElement, FS_CardinalityType
  <2>4. \A n \in Nat : k + k * n = k * (n + 1)
    OBVIOUS
  <2> QED
    BY <1>2, <2>2, <2>3, <2>4
<1> HIDE DEF B
<1>3. S \in B
  BY <1>1, <1>2, SetInduction
<1> QED
  BY <1>3 DEF B

(* Only the terms matter. *)
LEMMA SumSame ==
    ASSUME NEW f, NEW g, NEW S, IsFiniteSet(S), IntegersOn(f, S),
           \A x \in S : g[x] = f[x]
    PROVE  SumFunctionOnSet(g, S) = SumFunctionOnSet(f, S)
<1>1. IntegersOn(g, S)
  BY DEF IntegersOn
<1>2. \A x \in S : f[x] <= g[x] /\ g[x] <= f[x]
  BY DEF IntegersOn
<1>3. SumFunctionOnSet(f, S) <= SumFunctionOnSet(g, S)
  BY <1>1, <1>2, SumAtMost
<1>4. SumFunctionOnSet(g, S) <= SumFunctionOnSet(f, S)
  BY <1>1, <1>2, SumAtMost
<1>5. SumFunctionOnSet(f, S) \in Int /\ SumFunctionOnSet(g, S) \in Int
  BY <1>1, SumIsInteger
<1>6. \A a, b \in Int : a <= b /\ b <= a => a = b
  OBVIOUS
<1> QED
  BY <1>3, <1>4, <1>5, <1>6

(* Nothing but zeros add up to nothing. *)
LEMMA SumZero ==
    ASSUME NEW f, NEW S, IsFiniteSet(S), \A x \in S : f[x] = 0
    PROVE  SumFunctionOnSet(f, S) = 0
<1>1. SumFunctionOnSet(f, S) = 0 * Cardinality(S)
  BY SumConstant
<1>2. Cardinality(S) \in Nat
  BY FS_CardinalityType
<1> QED
  BY <1>1, <1>2

(* The sum over two disjoint sets is the sum of the sums. *)
LEMMA SumUnion ==
    ASSUME NEW f, NEW S, NEW U, IsFiniteSet(S), IsFiniteSet(U), S \cap U = {},
           IntegersOn(f, S \cup U)
    PROVE  /\ IsFiniteSet(S \cup U)
           /\ SumFunctionOnSet(f, S \cup U) = SumFunctionOnSet(f, S) + SumFunctionOnSet(f, U)
<1> DEFINE B == {T \in SUBSET U : /\ IsFiniteSet(T) /\ IsFiniteSet(S \cup T)
                                  /\ SumFunctionOnSet(f, S \cup T) =
                                        SumFunctionOnSet(f, S) + SumFunctionOnSet(f, T)}
<1>0. SumFunctionOnSet(f, S) \in Int
  BY SumIsInteger DEF IntegersOn
<1>1. {} \in B
  <2>1. SumFunctionOnSet(f, {}) = 0 /\ IsFiniteSet({}) /\ S \cup {} = S
    BY SumEmpty, FS_EmptySet
  <2>2. SumFunctionOnSet(f, S \cup {}) = SumFunctionOnSet(f, S) + SumFunctionOnSet(f, {})
    BY <1>0, <2>1
  <2> QED
    BY <2>1, <2>2
<1>2. ASSUME NEW T \in SUBSET U, NEW x \in U, T \in B, x \notin T
      PROVE  T \cup {x} \in B
  <2>1. /\ IntegersOn(f, T \cup {x}) /\ IntegersOn(f, (S \cup T) \cup {x})
        /\ x \notin S \cup T /\ S \cup (T \cup {x}) = (S \cup T) \cup {x}
    BY <1>2 DEF IntegersOn
  <2>2. /\ IsFiniteSet(T \cup {x})
        /\ SumFunctionOnSet(f, T \cup {x}) = f[x] + SumFunctionOnSet(f, T)
        /\ SumFunctionOnSet(f, T) \in Int /\ f[x] \in Int
    BY <1>2, <2>1, SumAdd
  <2>3. /\ IsFiniteSet((S \cup T) \cup {x})
        /\ SumFunctionOnSet(f, (S \cup T) \cup {x}) = f[x] + SumFunctionOnSet(f, S \cup T)
    BY <1>2, <2>1, SumAdd
  <2>4. SumFunctionOnSet(f, S \cup T) = SumFunctionOnSet(f, S) + SumFunctionOnSet(f, T)
    BY <1>2
  <2>5. \A a, b, c \in Int : a + (b + c) = b + (a + c)
    OBVIOUS
  <2>6. SumFunctionOnSet(f, S \cup (T \cup {x})) =
          f[x] + (SumFunctionOnSet(f, S) + SumFunctionOnSet(f, T))
    BY <2>1, <2>3, <2>4
  <2>7. SumFunctionOnSet(f, S \cup (T \cup {x})) =
          SumFunctionOnSet(f, S) + SumFunctionOnSet(f, T \cup {x})
    BY <1>0, <2>2, <2>5, <2>6
  <2> QED
    BY <2>1, <2>2, <2>3, <2>7
<1> HIDE DEF B
<1>3. U \in B
  BY <1>1, <1>2, SetInduction
<1> QED
  BY <1>3 DEF B

(* One term that changes changes the sum by as much. *)
LEMMA SumUpdate ==
    ASSUME NEW f, NEW g, NEW S, IsFiniteSet(S), IntegersOn(f, S), IntegersOn(g, S),
           NEW x \in S, \A y \in S : y # x => g[y] = f[y]
    PROVE  SumFunctionOnSet(g, S) = SumFunctionOnSet(f, S) + (g[x] - f[x])
<1>1. SumFunctionOnSet(f, S) = f[x] + SumFunctionOnSet(f, S \ {x})
  BY SumRemove
<1>2. SumFunctionOnSet(g, S) = g[x] + SumFunctionOnSet(g, S \ {x})
  BY SumRemove
<1>3. IsFiniteSet(S \ {x}) /\ IntegersOn(f, S \ {x})
  BY FS_RemoveElement DEF IntegersOn
<1>4. SumFunctionOnSet(g, S \ {x}) = SumFunctionOnSet(f, S \ {x})
  BY <1>3, SumSame
<1>5. /\ SumFunctionOnSet(f, S \ {x}) \in Int
      /\ f[x] \in Int /\ g[x] \in Int
  BY <1>3, SumIsInteger DEF IntegersOn
<1>6. \A a, b, c \in Int : a + c = (b + c) + (a - b)
  OBVIOUS
<1> QED
  BY <1>1, <1>2, <1>4, <1>5, <1>6

(* Where a single term is not zero the sum is that term. *)
LEMMA SumOfOne ==
    ASSUME NEW f, NEW S, IsFiniteSet(S), NEW x \in S, f[x] \in Int,
           \A y \in S : y # x => f[y] = 0
    PROVE  SumFunctionOnSet(f, S) = f[x]
<1>1. IntegersOn(f, S)
  BY DEF IntegersOn
<1>2. SumFunctionOnSet(f, S) = f[x] + SumFunctionOnSet(f, S \ {x})
  BY <1>1, SumRemove
<1>3. SumFunctionOnSet(f, S \ {x}) = 0
  <2>1. IsFiniteSet(S \ {x}) /\ \A y \in S \ {x} : f[y] = 0
    BY FS_RemoveElement
  <2> QED
    BY <2>1, SumZero
<1> QED
  BY <1>2, <1>3

LEMMA SumOfSingle ==
    ASSUME NEW f, NEW x, f[x] \in Int
    PROVE  SumFunctionOnSet(f, {x}) = f[x]
<1>1. IsFiniteSet({x}) /\ x \in {x} /\ \A y \in {x} : y # x => f[y] = 0
  BY FS_Singleton
<1> QED
  BY <1>1, SumOfOne

NaturalsOn(f, S) == \A x \in S : f[x] \in Nat

(* Natural terms have a natural sum, which no term exceeds. *)
LEMMA SumNatural ==
    ASSUME NEW f, NEW S, IsFiniteSet(S), NaturalsOn(f, S)
    PROVE  /\ IntegersOn(f, S)
           /\ SumFunctionOnSet(f, S) \in Nat
           /\ \A x \in S : f[x] <= SumFunctionOnSet(f, S)
<1>1. IntegersOn(f, S)
  BY DEF IntegersOn, NaturalsOn
<1>2. ASSUME NEW T \in SUBSET S
      PROVE  SumFunctionOnSet(f, T) \in Nat
  <2> DEFINE z == [x \in T |-> 0]
  <2>1. IsFiniteSet(T) /\ IntegersOn(f, T) /\ IntegersOn(z, T)
    BY <1>1, FS_Subset DEF IntegersOn
  <2>2. \A x \in T : z[x] <= f[x] /\ z[x] = 0
    BY DEF NaturalsOn
  <2> HIDE DEF z
  <2>3. SumFunctionOnSet(z, T) <= SumFunctionOnSet(f, T)
    BY <2>1, <2>2, SumAtMost
  <2>4. SumFunctionOnSet(z, T) = 0
    BY <2>1, <2>2, SumZero
  <2>5. SumFunctionOnSet(f, T) \in Int
    BY <2>1, SumIsInteger
  <2> QED
    BY <2>3, <2>4, <2>5
<1>3. ASSUME NEW x \in S
      PROVE  f[x] <= SumFunctionOnSet(f, S)
  <2>1. SumFunctionOnSet(f, S) = f[x] + SumFunctionOnSet(f, S \ {x})
    BY <1>1, SumRemove
  <2>2. SumFunctionOnSet(f, S \ {x}) \in Nat /\ f[x] \in Nat
    BY <1>2 DEF NaturalsOn
  <2> QED
    BY <2>1, <2>2
<1> QED
  BY <1>1, <1>2, <1>3

\* One term more, the others as they were.
Extends(g, f, S, x) == x \notin S /\ \A y \in S : g[y] = f[y]

(* One more term adds its value. *)
LEMMA SumExtended ==
    ASSUME NEW f, NEW g, NEW S, IsFiniteSet(S), NaturalsOn(f, S),
           NEW x, Extends(g, f, S, x), g[x] \in Nat
    PROVE  /\ IsFiniteSet(S \cup {x})
           /\ NaturalsOn(g, S \cup {x})
           /\ SumFunctionOnSet(f, S) \in Nat
           /\ SumFunctionOnSet(g, S \cup {x}) = SumFunctionOnSet(f, S) + g[x]
<1>0. x \notin S /\ \A y \in S : g[y] = f[y]
  BY DEF Extends
<1>1. NaturalsOn(g, S \cup {x}) /\ IntegersOn(g, S \cup {x}) /\ IntegersOn(f, S)
  BY <1>0 DEF NaturalsOn, IntegersOn
<1>2. /\ IsFiniteSet(S \cup {x})
      /\ SumFunctionOnSet(g, S \cup {x}) = g[x] + SumFunctionOnSet(g, S)
  BY <1>0, <1>1, SumAdd
<1>3. SumFunctionOnSet(g, S) = SumFunctionOnSet(f, S)
  BY <1>0, <1>1, SumSame
<1>4. SumFunctionOnSet(f, S) \in Nat
  BY SumNatural
<1> QED
  BY <1>1, <1>2, <1>3, <1>4

(* A part of natural terms adds up to no more than all of them. *)
LEMMA SumPart ==
    ASSUME NEW f, NEW S, IsFiniteSet(S), NaturalsOn(f, S), NEW T \in SUBSET S
    PROVE  /\ IsFiniteSet(T)
           /\ SumFunctionOnSet(f, S) = SumFunctionOnSet(f, T) + SumFunctionOnSet(f, S \ T)
           /\ SumFunctionOnSet(f, T) \in Nat
           /\ SumFunctionOnSet(f, S \ T) \in Nat
           /\ SumFunctionOnSet(f, T) <= SumFunctionOnSet(f, S)
<1>1. /\ IsFiniteSet(T) /\ IsFiniteSet(S \ T)
      /\ T \cap (S \ T) = {} /\ T \cup (S \ T) = S
  BY FS_Subset
<1>2. NaturalsOn(f, T) /\ NaturalsOn(f, S \ T) /\ IntegersOn(f, T \cup (S \ T))
  BY DEF NaturalsOn, IntegersOn
<1>3. SumFunctionOnSet(f, T) \in Nat /\ SumFunctionOnSet(f, S \ T) \in Nat
  BY <1>1, <1>2, SumNatural
<1>4. SumFunctionOnSet(f, S) = SumFunctionOnSet(f, T) + SumFunctionOnSet(f, S \ T)
  <2> DEFINE U == S \ T
  <2>1. T \cap U = {} /\ IsFiniteSet(U) /\ IntegersOn(f, T \cup U) /\ T \cup U = S
    BY <1>1, <1>2
  <2> HIDE DEF U
  <2>2. SumFunctionOnSet(f, T \cup U) = SumFunctionOnSet(f, T) + SumFunctionOnSet(f, U)
    BY <1>1, <2>1, SumUnion
  <2> QED
    BY <2>1, <2>2 DEF U
<1> QED
  BY <1>1, <1>3, <1>4

(* A sum may be taken over other names of the same terms. *)
LEMMA SumReindex ==
    ASSUME NEW f, NEW g, NEW h, NEW S, IsFiniteSet(S), IntegersOn(g, S),
           \A x, y \in S : h[x] = h[y] => x = y,
           \A x \in S : f[h[x]] = g[x]
    PROVE  /\ IsFiniteSet({h[x] : x \in S})
           /\ SumFunctionOnSet(f, {h[x] : x \in S}) = SumFunctionOnSet(g, S)
<1> DEFINE Img(T) == {h[x] : x \in T}
           B == {T \in SUBSET S : /\ IsFiniteSet(T) /\ IsFiniteSet(Img(T))
                                  /\ SumFunctionOnSet(f, Img(T)) = SumFunctionOnSet(g, T)}
<1>1. {} \in B
  <2>1. /\ SumFunctionOnSet(f, {}) = 0 /\ SumFunctionOnSet(g, {}) = 0
        /\ IsFiniteSet({}) /\ Img({}) = {}
    BY SumEmpty, FS_EmptySet
  <2> QED
    BY <2>1
<1>2. ASSUME NEW T \in SUBSET S, NEW x \in S, T \in B, x \notin T
      PROVE  T \cup {x} \in B
  <2>1. /\ Img(T \cup {x}) = Img(T) \cup {h[x]} /\ h[x] \notin Img(T)
        /\ IsFiniteSet(Img(T)) /\ IsFiniteSet(T)
        /\ SumFunctionOnSet(f, Img(T)) = SumFunctionOnSet(g, T)
    BY <1>2
  <2>2. /\ IntegersOn(f, Img(T) \cup {h[x]}) /\ IntegersOn(g, T \cup {x})
    BY DEF IntegersOn
  <2>3. /\ IsFiniteSet(T \cup {x})
        /\ SumFunctionOnSet(g, T \cup {x}) = g[x] + SumFunctionOnSet(g, T)
    BY <1>2, <2>1, <2>2, SumAdd
  <2> HIDE DEF Img
  <2>4. /\ IsFiniteSet(Img(T) \cup {h[x]})
        /\ SumFunctionOnSet(f, Img(T) \cup {h[x]}) = f[h[x]] + SumFunctionOnSet(f, Img(T))
    BY <2>1, <2>2, SumAdd
  <2> QED
    BY <2>1, <2>3, <2>4
<1> HIDE DEF B
<1>3. S \in B
  BY <1>1, <1>2, SetInduction
<1> QED
  BY <1>3 DEF B

(* The sets P[t] share the elements of U out among the t of S. *)
Divides(P, S, U) ==
    /\ \A x : x \in U <=> \E t \in S : x \in P[t]
    /\ \A t, u \in S : t # u => P[t] \cap P[u] = {}

(* The sum over a family of disjoint sets is the sum of their sums. *)
LEMMA SumFamily ==
    ASSUME NEW f, NEW g, NEW P, NEW S, NEW U, IsFiniteSet(S),
           Divides(P, S, U),
           \A t \in S : IsFiniteSet(P[t]),
           \A t \in S : IntegersOn(f, P[t]),
           \A t \in S : g[t] = SumFunctionOnSet(f, P[t])
    PROVE  /\ IsFiniteSet(U)
           /\ IntegersOn(g, S)
           /\ SumFunctionOnSet(f, U) = SumFunctionOnSet(g, S)
<1> DEFINE All(T) == UNION {P[t] : t \in T}
           B == {T \in SUBSET S : /\ IsFiniteSet(T) /\ IsFiniteSet(All(T))
                                  /\ SumFunctionOnSet(f, All(T)) = SumFunctionOnSet(g, T)}
<1>0. IntegersOn(g, S)
  BY SumIsInteger DEF IntegersOn
<1>1. {} \in B
  <2>1. /\ SumFunctionOnSet(f, {}) = 0 /\ SumFunctionOnSet(g, {}) = 0
        /\ IsFiniteSet({}) /\ All({}) = {}
    BY SumEmpty, FS_EmptySet
  <2> QED
    BY <2>1
<1>2. ASSUME NEW T \in SUBSET S, NEW x \in S, T \in B, x \notin T
      PROVE  T \cup {x} \in B
  <2>1. /\ All(T \cup {x}) = All(T) \cup P[x] /\ All(T) \cap P[x] = {}
        /\ IsFiniteSet(All(T)) /\ IsFiniteSet(T) /\ IsFiniteSet(P[x])
        /\ SumFunctionOnSet(f, All(T)) = SumFunctionOnSet(g, T)
    BY <1>2 DEF Divides
  <2>2. IntegersOn(f, All(T) \cup P[x]) /\ IntegersOn(g, T \cup {x})
    BY <1>0 DEF IntegersOn
  <2>3. /\ IsFiniteSet(T \cup {x})
        /\ SumFunctionOnSet(g, T \cup {x}) = g[x] + SumFunctionOnSet(g, T)
        /\ SumFunctionOnSet(g, T) \in Int /\ g[x] \in Int
    BY <1>2, <2>1, <2>2, SumAdd
  <2> HIDE DEF All
  <2>4. /\ IsFiniteSet(All(T) \cup P[x])
        /\ SumFunctionOnSet(f, All(T) \cup P[x]) =
              SumFunctionOnSet(f, All(T)) + SumFunctionOnSet(f, P[x])
    BY <2>1, <2>2, SumUnion
  <2>5. \A a, b \in Int : a + b = b + a
    OBVIOUS
  <2> QED
    BY <2>1, <2>3, <2>4, <2>5
<1> HIDE DEF B
<1>3. S \in B
  BY <1>1, <1>2, SetInduction
<1>4. All(S) = U
  BY DEF Divides
<1> QED
  BY <1>0, <1>3, <1>4 DEF B

(* A finite set of naturals has a smallest member. *)
LEMMA SmallestMember ==
    ASSUME NEW S \in SUBSET Nat, IsFiniteSet(S), S # {}
    PROVE  \E x \in S : \A y \in S : x <= y
<1> DEFINE B == {T \in SUBSET S : T = {} \/ \E x \in T : \A y \in T : x <= y}
<1>1. {} \in B
  OBVIOUS
<1>2. ASSUME NEW T \in SUBSET S, NEW z \in S, T \in B, z \notin T
      PROVE  T \cup {z} \in B
  <2>1. CASE T = {}
    BY <2>1
  <2>2. CASE T # {}
    <3>1. PICK x \in T : \A y \in T : x <= y
      BY <1>2, <2>2
    <3>2. x \in Nat /\ z \in Nat /\ \A y \in T : y \in Nat
      OBVIOUS
    <3>3. CASE x <= z
      BY <3>1, <3>2, <3>3
    <3>4. CASE z < x
      <4>1. \A y \in T : z <= y
        BY <3>1, <3>2, <3>4
      <4> QED
        BY <4>1
    <3> QED
      BY <3>2, <3>3, <3>4
  <2> QED
    BY <2>1, <2>2
<1> HIDE DEF B
<1>3. S \in B
  BY <1>1, <1>2, SetInduction
<1> QED
  BY <1>3 DEF B

(* A finite set of naturals has a largest member. *)
LEMMA LargestMember ==
    ASSUME NEW S \in SUBSET Nat, IsFiniteSet(S), S # {}
    PROVE  \E x \in S : \A y \in S : y <= x
<1> DEFINE B == {T \in SUBSET S : T = {} \/ \E x \in T : \A y \in T : y <= x}
<1>1. {} \in B
  OBVIOUS
<1>2. ASSUME NEW T \in SUBSET S, NEW z \in S, T \in B, z \notin T
      PROVE  T \cup {z} \in B
  <2>1. CASE T = {}
    BY <2>1
  <2>2. CASE T # {}
    <3>1. PICK x \in T : \A y \in T : y <= x
      BY <1>2, <2>2
    <3>2. x \in Nat /\ z \in Nat /\ \A y \in T : y \in Nat
      OBVIOUS
    <3>3. CASE z <= x
      BY <3>1, <3>2, <3>3
    <3>4. CASE x < z
      <4>1. \A y \in T : y <= z
        BY <3>1, <3>2, <3>4
      <4> QED
        BY <4>1
    <3> QED
      BY <3>2, <3>3, <3>4
  <2> QED
    BY <2>1, <2>2
<1> HIDE DEF B
<1>3. S \in B
  BY <1>1, <1>2, SetInduction
<1> QED
  BY <1>3 DEF B

(* Induction up to a number, over the set B of those reached.               *)
LEMMA UpTo ==
    ASSUME NEW N \in Nat, NEW B, 0 \in B,
           \A n \in 0..N : n < N /\ n \in B => n + 1 \in B
    PROVE  \A n \in 0..N : n \in B
<1> DEFINE S == {n \in 0..N : n \notin B}
<1>1. SUFFICES ASSUME S # {} PROVE FALSE
  OBVIOUS
<1>2. S \in SUBSET Nat /\ IsFiniteSet(S)
  <2>1. IsFiniteSet(0..N)
    BY FS_Interval
  <2> QED
    BY <2>1, FS_Subset
<1>3. PICK x \in S : \A y \in S : x <= y
  <2> HIDE DEF S
  <2> QED
    BY <1>1, <1>2, SmallestMember
<1>4. x \in 0..N /\ x \notin B /\ x # 0
  BY <1>3
<1>5. x - 1 \in 0..N /\ x - 1 \notin S /\ x - 1 < N /\ (x - 1) + 1 = x
  BY <1>3, <1>4
<1> QED
  BY <1>4, <1>5

-----------------------------------------------------------------------------
(***************************************************************************)
(* Division.                                                               *)
(***************************************************************************)

(* Division with remainder. *)
LEMMA Division ==
    ASSUME NEW n \in Nat, NEW d \in Nat, d > 0
    PROVE  LET q == n \div d
               r == n % d
           IN  /\ q \in Nat /\ r \in Nat /\ r < d
               /\ n = d * q + r
               /\ d * q <= n
<1>1. n \div d \in Int /\ n \div d >= 0
  OBVIOUS
<1>2. n % d \in 0..(d - 1)
  OBVIOUS
<1>3. n - (n % d) = d * (n \div d)
  OBVIOUS
<1> DEFINE q == n \div d
           r == n % d
<1>4. q \in Nat /\ r \in Nat /\ r < d
  BY <1>1, <1>2
<1>5. n - r = d * q
  BY <1>3
<1> HIDE DEF q, r
<1>6. n = d * q + r /\ d * q <= n
  BY <1>4, <1>5
<1>7. /\ q \in Nat /\ r \in Nat /\ r < d
      /\ n = d * q + r
      /\ d * q <= n
  BY <1>4, <1>6
<1> QED
  BY <1>7, Zenon DEF q, r

(* A product of naturals grows with each of its factors.                    *)
LEMMA ProductGrows ==
    ASSUME NEW a \in Nat, NEW b \in Nat, NEW k \in Nat, a <= b
    PROVE  /\ a * k \in Nat /\ b * k \in Nat
           /\ a * k <= b * k
<1> DEFINE e == b - a
<1>1. e \in Nat /\ b = a + e
  OBVIOUS
<1> HIDE DEF e
<1>2. a * k \in Nat /\ e * k \in Nat
  BY <1>1
<1>3. (a + e) * k = a * k + e * k
  BY <1>1
<1> QED
  BY <1>1, <1>2, <1>3

(* Dividing more by the same number does not give less.                     *)
LEMMA DivisionGrows ==
    ASSUME NEW a \in Nat, NEW b \in Nat, NEW d \in Nat, d > 0, a <= b
    PROVE  /\ a \div d \in Nat /\ b \div d \in Nat
           /\ a \div d <= b \div d
<1> DEFINE p == a \div d
           q == b \div d
           r == b % d
<1>1. p \in Nat /\ d * p <= a
  BY Division
<1>2. q \in Nat /\ r \in Nat /\ r < d /\ b = d * q + r
  BY Division
<1> HIDE DEF p, q, r
<1>3. ASSUME q + 1 <= p PROVE FALSE
  <2>1. (q + 1) * d <= p * d /\ (q + 1) * d \in Nat /\ p * d \in Nat
    BY <1>1, <1>2, <1>3, ProductGrows
  <2>2. p * d = d * p /\ (q + 1) * d = d * q + d /\ d * q \in Nat
    BY <1>1, <1>2
  <2> QED
    BY <1>1, <1>2, <2>1, <2>2
<1>4. p \in Nat /\ q \in Nat /\ p <= q
  BY <1>1, <1>2, <1>3
<1> QED
  BY <1>4, Zenon DEF p, q

=============================================================================
