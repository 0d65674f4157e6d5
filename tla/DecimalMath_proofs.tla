------------------------- MODULE DecimalMath_proofs -------------------------
(***************************************************************************)
(* Lemmas about what the state machines of the protocol compute with: sums *)
(* over finite sets, the truncated arithmetic of Decimals, powers and      *)
(* interest.                                                               *)
(*                                                                         *)
(* Sums and powers are defined by recursion.  Induction is used in the     *)
(* form of a least counterexample: a set of counterexamples that is not    *)
(* empty has a minimal element.                                            *)
(***************************************************************************)
EXTENDS DecimalMath, Functions, FiniteSetTheorems, TLAPS

(* Least counterexamples *)

LEMMA MinimalSubset ==
    ASSUME NEW S, IsFiniteSet(S), NEW C \in SUBSET (SUBSET S), C # {}
    PROVE  \E T \in C : \A U \in C : U \subseteq T => U = T
<1> DEFINE R == StrictSubsetOrdering(S)
<1>1. IsWellFoundedOn(R, SUBSET S)
  BY FS_StrictSubsetOrderingWellFounded, FS_FiniteSubsetsOfFinite
<1>2. \E T \in C : \A U \in C : ~ (<<U, T>> \in R)
  <2> HIDE DEF R
  <2> QED
    BY <1>1, WFMin
<1> QED
  BY <1>2 DEF StrictSubsetOrdering

LEMMA LeastNatural ==
    ASSUME NEW T \in SUBSET Nat, T # {}
    PROVE  \E n \in T : \A m \in T : n <= m
<1>1. PICK top \in T : TRUE
  OBVIOUS
<1> DEFINE C == {I \in SUBSET (0 .. top) : \E n \in T : n <= top /\ I = 0 .. n}
<1>2. C \in SUBSET (SUBSET (0 .. top)) /\ IsFiniteSet(0 .. top)
  BY <1>1, FS_Interval
<1>3. 0 .. top \in C
  BY <1>1
<1>4. PICK I \in C : \A U \in C : U \subseteq I => U = I
  <2> DEFINE S == 0 .. top
  <2>1. IsFiniteSet(S) /\ C \in SUBSET (SUBSET S) /\ C # {}
    BY <1>2, <1>3
  <2> HIDE DEF C, S
  <2> QED
    BY <2>1, MinimalSubset
<1>5. PICK n \in T : n <= top /\ I = 0 .. n
  BY <1>4
<1>6. ASSUME NEW m \in T, m < n PROVE FALSE
  <2>1. 0 .. m \in C
    BY <1>1, <1>5, <1>6
  <2>2. 0 .. m \subseteq I
    BY <1>5, <1>6
  <2>3. 0 .. m = 0 .. n
    BY <1>4, <1>5, <2>1, <2>2
  <2>4. n \in 0 .. n /\ n \notin 0 .. m
    BY <1>6
  <2> QED
    BY <2>3, <2>4
<1> QED
  BY <1>5, <1>6

----------------------------------------------------------------------------
(* Sums: SumFunctionOnSet takes the elements of a set in an arbitrary but   *)
(* fixed order.                                                             *)

Pick(s) == CHOOSE x \in s : TRUE

IsSum(f, g, S) ==
    g = [s \in SUBSET S |-> IF s = {} THEN 0 ELSE f[Pick(s)] + g[s \ {Pick(s)}]]

LEMMA PickIn == ASSUME NEW S, S # {} PROVE Pick(S) \in S
BY DEF Pick

LEMMA SumIsRecursive ==
    ASSUME NEW f, NEW S
    PROVE  SumFunctionOnSet(f, S) = (CHOOSE g : IsSum(f, g, S))[S]
BY Zenon DEF SumFunctionOnSet, FoldFunctionOnSet, MapThenFoldSet, IsSum, Pick

LEMMA IsSumStep ==
    ASSUME NEW f, NEW g, NEW S, IsSum(f, g, S), NEW s \in SUBSET S
    PROVE  g[s] = IF s = {} THEN 0 ELSE f[Pick(s)] + g[s \ {Pick(s)}]
BY DEF IsSum

LEMMA SumUnique ==
    ASSUME NEW f, NEW g, NEW h, NEW A, NEW B, IsSum(f, g, A), IsSum(f, h, B),
           NEW T, IsFiniteSet(T), T \subseteq A, T \subseteq B
    PROVE  g[T] = h[T]
<1> DEFINE C == {U \in SUBSET T : g[U] # h[U]}
<1> SUFFICES ASSUME C # {} PROVE FALSE
  OBVIOUS
<1>1. PICK U \in C : \A V \in C : V \subseteq U => V = U
  <2> HIDE DEF C
  <2>1. C \in SUBSET (SUBSET T)
    BY DEF C
  <2> QED
    BY <2>1, MinimalSubset
<1>2. /\ g[U] = IF U = {} THEN 0 ELSE f[Pick(U)] + g[U \ {Pick(U)}]
      /\ h[U] = IF U = {} THEN 0 ELSE f[Pick(U)] + h[U \ {Pick(U)}]
  BY <1>1, IsSumStep
<1>3. U # {}
  BY <1>1, <1>2
<1>4. U \ {Pick(U)} \notin C
  BY <1>1, <1>3, PickIn
<1>5. g[U \ {Pick(U)}] = h[U \ {Pick(U)}]
  BY <1>1, <1>4
<1> QED
  BY <1>1, <1>2, <1>3, <1>5

LEMMA SumExists ==
    ASSUME NEW f, NEW S, IsFiniteSet(S)
    PROVE  \E g : IsSum(f, g, S)
<1> DEFINE C == {T \in SUBSET S : ~ \E g : IsSum(f, g, T)}
<1> SUFFICES ASSUME C # {} PROVE FALSE
  OBVIOUS
<1>1. PICK T \in C : \A U \in C : U \subseteq T => U = T
  <2> HIDE DEF C
  <2>1. C \in SUBSET (SUBSET S)
    BY DEF C
  <2> QED
    BY <2>1, MinimalSubset
<1> DEFINE sum(u) == CHOOSE g : IsSum(f, g, u)
           g0 == [s \in SUBSET T |->
                     IF s = {} THEN 0 ELSE f[Pick(s)] + sum(s \ {Pick(s)})[s \ {Pick(s)}]]
<1>2. ASSUME NEW u \in SUBSET T, u # T PROVE IsSum(f, sum(u), u)
  <2>1. u \notin C /\ u \in SUBSET S
    BY <1>1, <1>2
  <2>2. \E g : IsSum(f, g, u)
    BY <2>1
  <2> QED
    BY <2>2
<1>3. ASSUME NEW u \in SUBSET T, u # T PROVE sum(u)[u] = g0[u]
  <2>1. IsSum(f, sum(u), u)
    BY <1>2, <1>3
  <2>2. sum(u)[u] = IF u = {} THEN 0 ELSE f[Pick(u)] + sum(u)[u \ {Pick(u)}]
    <3> HIDE DEF sum
    <3> QED
      BY <2>1, IsSumStep
  <2>3. CASE u = {}
    BY <2>2, <2>3
  <2>4. CASE u # {}
    <3> DEFINE w == u \ {Pick(u)}
    <3>1. IsSum(f, sum(w), w)
      <4>1. w \in SUBSET T /\ w # T
        BY <1>3
      <4> QED
        BY <4>1, <1>2
    <3>2. IsFiniteSet(w)
      BY <1>1, FS_Subset
    <3>3. sum(u)[w] = sum(w)[w]
      <4> HIDE DEF sum
      <4> QED
        BY <2>1, <3>1, <3>2, SumUnique
    <3> QED
      BY <2>2, <2>4, <3>3
  <2> QED
    BY <2>3, <2>4
<1>4. ASSUME NEW s \in SUBSET T, s # {}
      PROVE  sum(s \ {Pick(s)})[s \ {Pick(s)}] = g0[s \ {Pick(s)}]
  <2>1. s \ {Pick(s)} \in SUBSET T /\ s \ {Pick(s)} # T
    BY <1>4, PickIn
  <2> QED
    BY <2>1, <1>3
<1>5. IsSum(f, g0, T)
  <2> HIDE DEF sum
  <2>1. \A s \in SUBSET T :
            g0[s] = IF s = {} THEN 0 ELSE f[Pick(s)] + g0[s \ {Pick(s)}]
    BY <1>4
  <2>2. g0 = [s \in SUBSET T |-> g0[s]]
    OBVIOUS
  <2> HIDE DEF g0
  <2> QED
    BY <2>1, <2>2 DEF IsSum
<1> QED
  BY <1>1, <1>5

\* The recursion equation of a sum.
LEMMA SumStep ==
    ASSUME NEW f, NEW S, IsFiniteSet(S)
    PROVE  SumFunctionOnSet(f, S)
             = IF S = {} THEN 0 ELSE f[Pick(S)] + SumFunctionOnSet(f, S \ {Pick(S)})
<1> DEFINE sum(u) == CHOOSE g : IsSum(f, g, u)
           w == S \ {Pick(S)}
<1>1. IsFiniteSet(w)
  BY FS_Subset
<1>2. IsSum(f, sum(S), S) /\ IsSum(f, sum(w), w)
  BY <1>1, SumExists
<1>3. SumFunctionOnSet(f, S) = sum(S)[S] /\ SumFunctionOnSet(f, w) = sum(w)[w]
  BY SumIsRecursive
<1> HIDE DEF sum
<1>4. sum(S)[S] = IF S = {} THEN 0 ELSE f[Pick(S)] + sum(S)[w]
  BY <1>2, IsSumStep
<1>5. sum(S)[w] = sum(w)[w]
  BY <1>1, <1>2, SumUnique
<1> QED
  BY <1>3, <1>4, <1>5

LEMMA SumEmpty == ASSUME NEW f PROVE SumFunctionOnSet(f, {}) = 0
BY SumStep, FS_EmptySet

\* A set of subsets without a minimal element, of those whose smaller subsets
\* are not in it, is empty: the form in which the lemmas on sums use induction.
LEMMA SubsetInduction ==
    ASSUME NEW S, IsFiniteSet(S), NEW C \in SUBSET (SUBSET S),
           \A T \in SUBSET S : (\A x \in T : T \ {x} \notin C) => T \notin C
    PROVE  C = {}
<1> SUFFICES ASSUME C # {} PROVE FALSE
  OBVIOUS
<1>1. PICK T \in C : \A U \in C : U \subseteq T => U = T
  BY MinimalSubset
<1>2. \A x \in T : T \ {x} \notin C
  BY <1>1
<1> QED
  BY <1>1, <1>2

LEMMA SumInt ==
    ASSUME NEW f, NEW S, IsFiniteSet(S), \A x \in S : f[x] \in Int
    PROVE  SumFunctionOnSet(f, S) \in Int
<1> DEFINE C == {T \in SUBSET S : SumFunctionOnSet(f, T) \notin Int}
<1>1. ASSUME NEW T \in SUBSET S, \A x \in T : T \ {x} \notin C PROVE T \notin C
  <2>1. IsFiniteSet(T)
    BY FS_Subset
  <2>2. CASE T = {}
    BY <2>2, SumEmpty
  <2>3. CASE T # {}
    <3>1. Pick(T) \in T
      BY <2>3, PickIn
    <3>2. SumFunctionOnSet(f, T \ {Pick(T)}) \in Int
      BY <1>1, <3>1
    <3> QED
      BY <2>1, <2>3, <3>1, <3>2, SumStep
  <2> QED
    BY <2>2, <2>3
<1>2. C = {}
  <2>1. C \in SUBSET (SUBSET S)
    OBVIOUS
  <2> HIDE DEF C
  <2> QED
    BY <1>1, <2>1, SubsetInduction
<1> QED
  BY <1>2

\* Any element may be taken out of a sum first.
LEMMA SumSplit ==
    ASSUME NEW f, NEW S, IsFiniteSet(S), \A x \in S : f[x] \in Int, NEW x \in S
    PROVE  SumFunctionOnSet(f, S) = f[x] + SumFunctionOnSet(f, S \ {x})
<1> DEFINE sum(T) == SumFunctionOnSet(f, T)
           C == {T \in SUBSET S : \E y \in T : sum(T) # f[y] + sum(T \ {y})}
<1>1. ASSUME NEW T \in SUBSET S, \A y \in T : T \ {y} \notin C PROVE T \notin C
  <2> SUFFICES ASSUME NEW y \in T PROVE sum(T) = f[y] + sum(T \ {y})
    OBVIOUS
  <2> DEFINE z == Pick(T)
  <2>1. z \in T
    BY PickIn
  <2>2. sum(T) = f[z] + sum(T \ {z})
    <3>1. IsFiniteSet(T)
      BY FS_Subset
    <3> QED
      BY <2>1, <3>1, SumStep
  <2>3. CASE y = z
    BY <2>2, <2>3
  <2>4. CASE y # z
    <3>1. T \ {z} \in SUBSET S /\ T \ {y} \in SUBSET S /\ y \in T \ {z} /\ z \in T \ {y}
      BY <2>1, <2>4
    <3>2. T \ {z} \notin C /\ T \ {y} \notin C
      BY <1>1, <2>1
    <3>3. sum(T \ {z}) = f[y] + sum((T \ {z}) \ {y})
      BY <3>1, <3>2
    <3>4. sum(T \ {y}) = f[z] + sum((T \ {z}) \ {y})
      <4>1. (T \ {y}) \ {z} = (T \ {z}) \ {y}
        OBVIOUS
      <4> QED
        BY <3>1, <3>2, <4>1
    <3>5. f[y] \in Int /\ f[z] \in Int /\ sum((T \ {z}) \ {y}) \in Int
      <4>1. IsFiniteSet((T \ {z}) \ {y}) /\ (T \ {z}) \ {y} \subseteq S
        BY FS_Subset
      <4> QED
        BY <2>1, <4>1, SumInt
    <3> DEFINE whole == sum(T)
               less_z == sum(T \ {z})
               less_y == sum(T \ {y})
               less_both == sum((T \ {z}) \ {y})
    <3>6. /\ whole = f[z] + less_z
          /\ less_z = f[y] + less_both
          /\ less_y = f[z] + less_both
      BY <2>2, <3>3, <3>4
    <3>7. f[y] \in Int /\ f[z] \in Int /\ less_both \in Int
      BY <3>5
    <3>8. whole = f[y] + less_y
      <4> HIDE DEF whole, less_z, less_y, less_both, z
      <4> QED
        BY <3>6, <3>7
    <3> QED
      BY <3>8
  <2> QED
    BY <2>3, <2>4
<1>2. C = {}
  <2>1. C \in SUBSET (SUBSET S)
    OBVIOUS
  <2> HIDE DEF C
  <2> QED
    BY <1>1, <2>1, SubsetInduction
<1> QED
  BY <1>2

LEMMA SumAdd ==
    ASSUME NEW f, NEW S, IsFiniteSet(S), NEW x, x \notin S, f[x] \in Int,
           \A y \in S : f[y] \in Int
    PROVE  SumFunctionOnSet(f, S \cup {x}) = f[x] + SumFunctionOnSet(f, S)
<1>1. IsFiniteSet(S \cup {x}) /\ (S \cup {x}) \ {x} = S
  BY FS_AddElement
<1> QED
  BY <1>1, SumSplit

\* What holds of the empty sum and is kept by one more summand is shown of three
\* sums at once: the lemmas on one or two sums are instances.
LEMMA SumsCompare ==
    ASSUME NEW f, NEW g, NEW h, NEW S, IsFiniteSet(S),
           \A x \in S : f[x] \in Int /\ g[x] \in Int /\ h[x] \in Int /\ f[x] + g[x] <= h[x]
    PROVE  SumFunctionOnSet(f, S) + SumFunctionOnSet(g, S) <= SumFunctionOnSet(h, S)
<1> DEFINE sum(k, T) == SumFunctionOnSet(k, T)
           C == {T \in SUBSET S : ~ (sum(f, T) + sum(g, T) <= sum(h, T))}
<1>1. ASSUME NEW T \in SUBSET S, \A y \in T : T \ {y} \notin C PROVE T \notin C
  <2>1. CASE T = {}
    BY <2>1, SumEmpty
  <2>2. CASE T # {}
    <3>1. PICK y \in T : TRUE
      BY <2>2
    <3> DEFINE U == T \ {y}
    <3>2. IsFiniteSet(T) /\ IsFiniteSet(U) /\ U \in SUBSET S /\ U \notin C
      BY <1>1, <3>1, FS_Subset
    <3>3. sum(f, U) + sum(g, U) <= sum(h, U)
      BY <3>2
    <3>4. /\ sum(f, T) = f[y] + sum(f, U)
          /\ sum(g, T) = g[y] + sum(g, U)
          /\ sum(h, T) = h[y] + sum(h, U)
      BY <3>1, <3>2, SumSplit
    <3>5. sum(f, U) \in Int /\ sum(g, U) \in Int /\ sum(h, U) \in Int
      BY <3>2, SumInt
    <3>6. f[y] \in Int /\ g[y] \in Int /\ h[y] \in Int /\ f[y] + g[y] <= h[y]
      BY <3>1
    <3> HIDE DEF sum, U
    <3> QED
      BY <3>3, <3>4, <3>5, <3>6
  <2> QED
    BY <2>1, <2>2
<1>2. C = {}
  <2>1. C \in SUBSET (SUBSET S)
    OBVIOUS
  <2> HIDE DEF C
  <2> QED
    BY <1>1, <2>1, SubsetInduction
<1> QED
  BY <1>2

\* The sum of one function over two sets, or of two functions over one.
LEMMA SumAgree ==
    ASSUME NEW f, NEW g, NEW S, IsFiniteSet(S), \A x \in S : f[x] \in Int /\ f[x] = g[x]
    PROVE  SumFunctionOnSet(f, S) = SumFunctionOnSet(g, S)
<1> DEFINE C == {T \in SUBSET S : SumFunctionOnSet(f, T) # SumFunctionOnSet(g, T)}
<1>1. ASSUME NEW T \in SUBSET S, \A y \in T : T \ {y} \notin C PROVE T \notin C
  <2> DEFINE y == Pick(T)
             sum(k, U) == SumFunctionOnSet(k, U)
  <2>1. CASE T = {}
    BY <2>1, SumEmpty
  <2>2. CASE T # {}
    <3>1. IsFiniteSet(T) /\ y \in T
      BY <2>2, FS_Subset, PickIn
    <3>2. sum(f, T \ {y}) = sum(g, T \ {y})
      BY <1>1, <3>1
    <3>3. sum(f, T) = f[y] + sum(f, T \ {y}) /\ sum(g, T) = g[y] + sum(g, T \ {y})
      BY <2>2, <3>1, SumStep
    <3>4. f[y] = g[y]
      BY <3>1
    <3>5. sum(f, T) = sum(g, T)
      <4> HIDE DEF sum, y
      <4> QED
        BY <3>2, <3>3, <3>4
    <3> QED
      BY <3>5
  <2> QED
    BY <2>1, <2>2
<1>2. C = {}
  <2>1. C \in SUBSET (SUBSET S)
    OBVIOUS
  <2> HIDE DEF C
  <2> QED
    BY <1>1, <2>1, SubsetInduction
<1> QED
  BY <1>2


LEMMA SumZero ==
    ASSUME NEW f, NEW S, IsFiniteSet(S), \A x \in S : f[x] = 0
    PROVE  SumFunctionOnSet(f, S) = 0
<1> DEFINE C == {T \in SUBSET S : SumFunctionOnSet(f, T) # 0}
<1>1. ASSUME NEW T \in SUBSET S, \A y \in T : T \ {y} \notin C PROVE T \notin C
  <2> DEFINE y == Pick(T)
             sum(U) == SumFunctionOnSet(f, U)
  <2>1. CASE T = {}
    BY <2>1, SumEmpty
  <2>2. CASE T # {}
    <3>1. IsFiniteSet(T) /\ y \in T
      BY <2>2, FS_Subset, PickIn
    <3>2. sum(T \ {y}) = 0 /\ f[y] = 0
      BY <1>1, <3>1
    <3>3. sum(T) = f[y] + sum(T \ {y})
      BY <2>2, <3>1, SumStep
    <3> QED
      BY <3>2, <3>3
  <2> QED
    BY <2>1, <2>2
<1>2. C = {}
  <2>1. C \in SUBSET (SUBSET S)
    OBVIOUS
  <2> HIDE DEF C
  <2> QED
    BY <1>1, <2>1, SubsetInduction
<1> QED
  BY <1>2

LEMMA SumLe ==
    ASSUME NEW f, NEW h, NEW S, IsFiniteSet(S),
           \A x \in S : f[x] \in Int /\ h[x] \in Int /\ f[x] <= h[x]
    PROVE  SumFunctionOnSet(f, S) <= SumFunctionOnSet(h, S)
<1> DEFINE zero == [x \in S |-> 0]
<1>1. SumFunctionOnSet(zero, S) = 0 /\ SumFunctionOnSet(f, S) \in Int
  BY SumZero, SumInt
<1>2. \A x \in S : zero[x] \in Int /\ f[x] + zero[x] <= h[x]
  OBVIOUS
<1> HIDE DEF zero
<1>3. SumFunctionOnSet(f, S) + SumFunctionOnSet(zero, S) <= SumFunctionOnSet(h, S)
  BY <1>2, SumsCompare
<1> QED
  BY <1>1, <1>3

LEMMA SumNat ==
    ASSUME NEW f, NEW S, IsFiniteSet(S), \A x \in S : f[x] \in Nat
    PROVE  SumFunctionOnSet(f, S) \in Nat
<1> DEFINE zero == [x \in S |-> 0]
<1>1. SumFunctionOnSet(zero, S) = 0 /\ SumFunctionOnSet(f, S) \in Int
  BY SumZero, SumInt
<1>2. \A x \in S : zero[x] \in Int /\ zero[x] <= f[x]
  OBVIOUS
<1> HIDE DEF zero
<1>3. SumFunctionOnSet(zero, S) <= SumFunctionOnSet(f, S)
  BY <1>2, SumLe
<1> QED
  BY <1>1, <1>3

LEMMA SumMember ==
    ASSUME NEW f, NEW S, IsFiniteSet(S), \A x \in S : f[x] \in Nat, NEW x \in S
    PROVE  f[x] <= SumFunctionOnSet(f, S)
<1>1. IsFiniteSet(S \ {x})
  BY FS_Subset
<1>2. SumFunctionOnSet(f, S) = f[x] + SumFunctionOnSet(f, S \ {x})
  BY SumSplit
<1>3. SumFunctionOnSet(f, S \ {x}) \in Nat
  BY <1>1, SumNat
<1> QED
  BY <1>2, <1>3

LEMMA SumUnion ==
    ASSUME NEW f, NEW A, NEW B, IsFiniteSet(A), IsFiniteSet(B), A \cap B = {},
           \A x \in A \cup B : f[x] \in Int
    PROVE  SumFunctionOnSet(f, A \cup B) = SumFunctionOnSet(f, A) + SumFunctionOnSet(f, B)
<1> DEFINE sum(T) == SumFunctionOnSet(f, T)
           C == {T \in SUBSET B : sum(A \cup T) # sum(A) + sum(T)}
<1>1. ASSUME NEW T \in SUBSET B, \A y \in T : T \ {y} \notin C PROVE T \notin C
  <2>1. CASE T = {}
    <3>1. A \cup T = A /\ sum(T) = 0 /\ sum(A) \in Int
      BY <2>1, SumEmpty, SumInt
    <3> HIDE DEF sum
    <3> QED
      BY <3>1
  <2>2. CASE T # {}
    <3>1. PICK y \in T : TRUE
      BY <2>2
    <3> DEFINE U == T \ {y}
    <3>2. IsFiniteSet(T) /\ IsFiniteSet(U) /\ IsFiniteSet(A \cup T)
      BY FS_Subset, FS_Union
    <3>3. sum(A \cup U) = sum(A) + sum(U)
      BY <1>1, <3>1
    <3>4. sum(T) = f[y] + sum(U)
      BY <3>1, <3>2, SumSplit
    <3>5. (A \cup T) \ {y} = A \cup U
      BY <3>1
    <3>6. sum(A \cup T) = f[y] + sum(A \cup U)
      BY <3>1, <3>2, <3>5, SumSplit
    <3>7. sum(A) \in Int /\ sum(U) \in Int /\ f[y] \in Int
      BY <3>1, <3>2, SumInt
    <3>8. sum(A \cup T) = sum(A) + sum(T)
      <4> HIDE DEF sum, U
      <4> QED
        BY <3>3, <3>4, <3>6, <3>7
    <3> QED
      BY <3>8
  <2> QED
    BY <2>1, <2>2
<1>2. C = {}
  <2>1. C \in SUBSET (SUBSET B)
    OBVIOUS
  <2>2. \A T \in SUBSET B : (\A y \in T : T \ {y} \notin C) => T \notin C
    BY <1>1
  <2>3. IsFiniteSet(B)
    OBVIOUS
  <2> HIDE DEF C
  <2> QED
    BY ONLY <2>1, <2>2, <2>3, SubsetInduction
<1> QED
  BY <1>2

LEMMA SumSubset ==
    ASSUME NEW f, NEW S, IsFiniteSet(S), \A x \in S : f[x] \in Nat, NEW T \in SUBSET S
    PROVE  SumFunctionOnSet(f, T) <= SumFunctionOnSet(f, S)
<1>1. IsFiniteSet(T) /\ IsFiniteSet(S \ T) /\ T \cup (S \ T) = S /\ T \cap (S \ T) = {}
  BY FS_Subset
<1>2. SumFunctionOnSet(f, S) = SumFunctionOnSet(f, T) + SumFunctionOnSet(f, S \ T)
  BY <1>1, SumUnion
<1>3. SumFunctionOnSet(f, T) \in Nat /\ SumFunctionOnSet(f, S \ T) \in Nat
  BY <1>1, SumNat
<1> QED
  BY <1>2, <1>3

\* A sum after one value changed.
LEMMA SumChanged ==
    ASSUME NEW f, NEW g, NEW S, IsFiniteSet(S), NEW x \in S,
           \A y \in S : f[y] \in Int /\ g[y] \in Int,
           \A y \in S \ {x} : f[y] = g[y]
    PROVE  SumFunctionOnSet(g, S) = SumFunctionOnSet(f, S) - f[x] + g[x]
<1>1. IsFiniteSet(S \ {x})
  BY FS_Subset
<1>2. SumFunctionOnSet(f, S \ {x}) = SumFunctionOnSet(g, S \ {x})
  BY <1>1, SumAgree
<1>3. /\ SumFunctionOnSet(f, S) = f[x] + SumFunctionOnSet(f, S \ {x})
      /\ SumFunctionOnSet(g, S) = g[x] + SumFunctionOnSet(g, S \ {x})
  BY SumSplit
<1>4. SumFunctionOnSet(f, S \ {x}) \in Int /\ f[x] \in Int /\ g[x] \in Int
  BY <1>1, SumInt
<1> QED
  BY <1>2, <1>3, <1>4

LEMMA UnionFinite ==
    ASSUME NEW E, IsFiniteSet(E), NEW part, \A e \in E : IsFiniteSet(part[e])
    PROVE  IsFiniteSet(UNION {part[e] : e \in E})
<1> DEFINE whole(D) == UNION {part[e] : e \in D}
           C == {D \in SUBSET E : ~ IsFiniteSet(whole(D))}
<1>1. ASSUME NEW D \in SUBSET E, \A e \in D : D \ {e} \notin C PROVE D \notin C
  <2>1. CASE D = {}
    <3>1. whole(D) = {}
      BY <2>1
    <3> QED
      BY <3>1, FS_EmptySet
  <2>2. CASE D # {}
    <3>1. PICK e \in D : TRUE
      BY <2>2
    <3>2. IsFiniteSet(part[e]) /\ IsFiniteSet(whole(D \ {e}))
      BY <1>1, <3>1
    <3>3. whole(D) = whole(D \ {e}) \cup part[e]
      BY <3>1
    <3>4. IsFiniteSet(whole(D))
      <4> HIDE DEF whole
      <4> QED
        BY ONLY <3>2, <3>3, FS_Union
    <3> QED
      BY <3>4
  <2> QED
    BY <2>1, <2>2
<1>2. C = {}
  <2>1. C \in SUBSET (SUBSET E)
    OBVIOUS
  <2> HIDE DEF C
  <2> QED
    BY <1>1, <2>1, SubsetInduction
<1> QED
  BY <1>2

\* The sum over a union of disjoint sets is the sum of their sums.
LEMMA SumOfUnion ==
    ASSUME NEW E, IsFiniteSet(E), NEW part, NEW f, NEW total,
           \A e \in E : /\ IsFiniteSet(part[e])
                        /\ \A x \in part[e] : f[x] \in Int
                        /\ total[e] = SumFunctionOnSet(f, part[e]),
           \A d, e \in E : d # e => part[d] \cap part[e] = {}
    PROVE  SumFunctionOnSet(f, UNION {part[e] : e \in E}) = SumFunctionOnSet(total, E)
<1> DEFINE whole(D) == UNION {part[e] : e \in D}
           C == {D \in SUBSET E : SumFunctionOnSet(f, whole(D)) # SumFunctionOnSet(total, D)}
<1>1. ASSUME NEW D \in SUBSET E, \A e \in D : D \ {e} \notin C PROVE D \notin C
  <2>1. CASE D = {}
    <3>1. whole(D) = {}
      BY <2>1
    <3> QED
      BY <2>1, <3>1, SumEmpty
  <2>2. CASE D # {}
    <3>1. PICK e \in D : TRUE
      BY <2>2
    <3> DEFINE U == D \ {e}
    <3>2. IsFiniteSet(D) /\ IsFiniteSet(U)
      BY FS_Subset
    <3>3. SumFunctionOnSet(f, whole(U)) = SumFunctionOnSet(total, U)
      BY <1>1, <3>1
    <3>4. whole(D) = whole(U) \cup part[e] /\ whole(U) \cap part[e] = {}
      BY <3>1
    <3>5. IsFiniteSet(part[e]) /\ IsFiniteSet(whole(U))
      BY <3>1, <3>2, UnionFinite
    <3>6. \A x \in whole(U) \cup part[e] : f[x] \in Int
      BY <3>1
    <3>7. SumFunctionOnSet(f, whole(D)) = SumFunctionOnSet(f, whole(U)) + SumFunctionOnSet(f, part[e])
      <4> HIDE DEF whole, U
      <4> QED
        BY <3>4, <3>5, <3>6, SumUnion
    <3>8. \A d \in D : total[d] \in Int
      BY SumInt
    <3>9. SumFunctionOnSet(total, D) = total[e] + SumFunctionOnSet(total, U)
      BY <3>1, <3>2, <3>8, SumSplit
    <3>10. SumFunctionOnSet(total, U) \in Int /\ total[e] \in Int
      BY <3>1, <3>2, <3>8, SumInt
    <3>11. total[e] = SumFunctionOnSet(f, part[e])
      BY <3>1
    <3>12. SumFunctionOnSet(f, whole(D)) = SumFunctionOnSet(total, D)
      <4> HIDE DEF whole, U
      <4> QED
        BY <3>3, <3>7, <3>9, <3>10, <3>11
    <3> QED
      BY <3>12
  <2> QED
    BY <2>1, <2>2
<1>2. C = {}
  <2>1. C \in SUBSET (SUBSET E)
    OBVIOUS
  <2> HIDE DEF C
  <2> QED
    BY <1>1, <2>1, SubsetInduction
<1>3. E \notin C
  BY <1>2
<1> QED
  BY <1>3

\* whole is made of disjoint finite parts, and total has the sum of f over each.
Partition(E, part, whole) ==
    /\ IsFiniteSet(E) /\ whole = UNION {part[e] : e \in E}
    /\ \A e \in E : IsFiniteSet(part[e])
    /\ \A d, e \in E : d # e => part[d] \cap part[e] = {}

SumsOfParts(E, part, f, total) ==
    \A e \in E : (\A x \in part[e] : f[x] \in Int) /\ total[e] = SumFunctionOnSet(f, part[e])

LEMMA SumOfPartition ==
    ASSUME NEW E, NEW part, NEW whole, NEW f, NEW total,
           Partition(E, part, whole), SumsOfParts(E, part, f, total)
    PROVE  SumFunctionOnSet(f, whole) = SumFunctionOnSet(total, E)
<1>1. /\ IsFiniteSet(E)
      /\ \A e \in E : /\ IsFiniteSet(part[e])
                      /\ \A x \in part[e] : f[x] \in Int
                      /\ total[e] = SumFunctionOnSet(f, part[e])
      /\ \A d, e \in E : d # e => part[d] \cap part[e] = {}
  BY DEF Partition, SumsOfParts
<1>2. SumFunctionOnSet(f, UNION {part[e] : e \in E}) = SumFunctionOnSet(total, E)
  BY ONLY <1>1, SumOfUnion
<1> QED
  BY <1>2 DEF Partition

----------------------------------------------------------------------------
(* Decimals: quotients and products of natural numbers of attos.            *)

LEMMA DivBounds ==
    ASSUME NEW a \in Int, NEW b \in Nat \ {0}
    PROVE  /\ a \div b \in Int
           /\ b * (a \div b) <= a
           /\ a < b * (a \div b) + b
OBVIOUS

LEMMA DivNat ==
    ASSUME NEW a \in Nat, NEW b \in Nat \ {0}
    PROVE  a \div b \in Nat
OBVIOUS

\* q is a lower bound of a quotient when q * b is one of the numerator.
LEMMA DivLower ==
    ASSUME NEW a \in Int, NEW b \in Nat \ {0}, NEW q \in Int, q * b <= a
    PROVE  q <= a \div b
<1> DEFINE d == a \div b
<1>1. d \in Int /\ a < b * d + b
  BY DivBounds
<1> HIDE DEF d
<1>2. ASSUME d + 1 <= q PROVE FALSE
  <2>1. (d + 1) * b <= q * b
    BY <1>1, <1>2
  <2> QED
    BY <1>1, <2>1
<1> QED
  BY <1>1, <1>2 DEF d

LEMMA DivUpper ==
    ASSUME NEW a \in Int, NEW b \in Nat \ {0}, NEW q \in Int, a < (q + 1) * b
    PROVE  a \div b <= q
<1> DEFINE d == a \div b
<1>1. d \in Int /\ b * d <= a
  BY DivBounds
<1> HIDE DEF d
<1>2. ASSUME q + 1 <= d PROVE FALSE
  <2>1. (q + 1) * b <= d * b
    BY <1>1, <1>2
  <2> QED
    BY <1>1, <2>1
<1> QED
  BY <1>1, <1>2 DEF d

LEMMA DivMonotone ==
    ASSUME NEW a \in Int, NEW c \in Int, a <= c, NEW b \in Nat \ {0}
    PROVE  a \div b <= c \div b
<1>1. a \div b \in Int /\ b * (a \div b) <= a
  BY DivBounds
<1>2. (a \div b) * b <= c
  BY <1>1
<1> QED
  BY <1>1, <1>2, DivLower

LEMMA TruncDivNat ==
    ASSUME NEW a \in Nat, NEW b \in Nat \ {0}
    PROVE  TruncDiv(a, b) = a \div b
<1>1. a \div b \in Int
  BY DivBounds
<1> QED
  BY <1>1 DEF TruncDiv, Sign, Magnitude

LEMMA TruncDivInt ==
    ASSUME NEW a \in Int, NEW b \in Int \ {0}
    PROVE  TruncDiv(a, b) \in Int
<1>1. Magnitude(a) \in Int /\ Magnitude(b) \in Nat \ {0}
  BY DEF Magnitude
<1>2. Magnitude(a) \div Magnitude(b) \in Int
  BY <1>1, DivBounds
<1> QED
  BY <1>2 DEF TruncDiv, Sign

LEMMA DMulInt == ASSUME NEW a \in Int, NEW b \in Int PROVE DMul(a, b) \in Int
BY TruncDivInt, DecimalAssumption DEF DMul

LEMMA DDivInt == ASSUME NEW a \in Int, NEW b \in Int \ {0} PROVE DDiv(a, b) \in Int
BY TruncDivInt, DecimalAssumption DEF DDiv

\* The product of two natural numbers of attos, and its truncation.
LEMMA DMulNat ==
    ASSUME NEW a \in Nat, NEW b \in Nat
    PROVE  /\ DMul(a, b) = (a * b) \div ONE
           /\ DMul(a, b) \in Nat
           /\ ONE * DMul(a, b) <= a * b
           /\ a * b < ONE * DMul(a, b) + ONE
<1>1. a * b \in Nat /\ ONE \in Nat \ {0}
  BY DecimalAssumption
<1>2. DMul(a, b) = (a * b) \div ONE
  BY <1>1, TruncDivNat DEF DMul
<1>3. (a * b) \div ONE \in Nat
  BY <1>1, DivNat
<1>4. ONE * ((a * b) \div ONE) <= a * b /\ a * b < ONE * ((a * b) \div ONE) + ONE
  BY <1>1, DivBounds
<1> QED
  BY <1>2, <1>3, <1>4

LEMMA DDivNat ==
    ASSUME NEW a \in Nat, NEW b \in Nat \ {0}
    PROVE  /\ DDiv(a, b) = (a * ONE) \div b
           /\ DDiv(a, b) \in Nat
           /\ b * DDiv(a, b) <= a * ONE
           /\ a * ONE < b * DDiv(a, b) + b
<1>1. a * ONE \in Nat
  BY DecimalAssumption
<1>2. DDiv(a, b) = (a * ONE) \div b
  BY <1>1, TruncDivNat DEF DDiv
<1> QED
  BY <1>1, <1>2, DivBounds, DivNat

LEMMA DMulOne == ASSUME NEW a \in Nat PROVE DMul(a, ONE) = a
<1>1. ONE \in Nat \ {0} /\ DMul(a, ONE) = (a * ONE) \div ONE
  BY DMulNat, DecimalAssumption
<1>2. a <= (a * ONE) \div ONE
  BY <1>1, DivLower
<1>3. (a * ONE) \div ONE <= a
  BY <1>1, DivUpper
<1>4. (a * ONE) \div ONE \in Int
  BY <1>1, DivBounds
<1> QED
  BY <1>1, <1>2, <1>3, <1>4

LEMMA DMulMonotone ==
    ASSUME NEW a \in Nat, NEW b \in Nat, NEW c \in Nat, NEW d \in Nat, a <= c, b <= d
    PROVE  DMul(a, b) <= DMul(c, d)
<1>1. a * b \in Int /\ c * d \in Int /\ ONE \in Nat \ {0}
  BY DecimalAssumption
<1>2. a * b <= c * d
  <2>1. a * b <= c * b /\ c * b <= c * d
    OBVIOUS
  <2> QED
    BY <2>1
<1>3. (a * b) \div ONE <= (c * d) \div ONE
  BY <1>1, <1>2, DivMonotone
<1> QED
  BY <1>3, DMulNat

\* A factor of at least one does not lower a product below the other factor.
LEMMA DMulGrows ==
    ASSUME NEW a \in Nat, NEW b \in Nat, ONE <= b
    PROVE  a <= DMul(a, b)
<1>1. ONE \in Nat
  BY DecimalAssumption
<1>2. DMul(a, ONE) <= DMul(a, b)
  BY <1>1, DMulMonotone
<1> QED
  BY <1>2, DMulOne

\* A quotient by at least one is at most the numerator.
LEMMA DDivShrinks ==
    ASSUME NEW a \in Nat, NEW b \in Nat, ONE <= b
    PROVE  DDiv(a, b) <= a
<1>1. b \in Nat \ {0} /\ ONE \in Nat
  BY DecimalAssumption
<1>2. a * ONE < (a + 1) * b
  <2>1. a * ONE <= a * b
    BY <1>1
  <2> QED
    BY <1>1, <2>1
<1>3. (a * ONE) \div b <= a
  BY <1>1, <1>2, DivUpper
<1> QED
  BY <1>1, <1>3, DDivNat

LEMMA DDivAntitone ==
    ASSUME NEW a \in Nat, NEW c \in Nat, a <= c, NEW b \in Nat \ {0}, NEW d \in Nat, b <= d
    PROVE  DDiv(a, d) <= DDiv(c, b)
<1> DEFINE q == DDiv(a, d)
           r == DDiv(c, b)
           x == a * ONE
           y == c * ONE
<1>1. ONE \in Nat \ {0} /\ d \in Nat \ {0}
  BY DecimalAssumption
<1>2. q \in Nat /\ d * q <= x
  BY <1>1, DDivNat
<1>3. r = (c * ONE) \div b
  BY <1>1, DDivNat
<1>4. x \in Nat /\ y \in Nat /\ x <= y
  BY <1>1
<1>5. q * b <= d * q
  BY <1>1, <1>2
<1>6. q * b <= y
  <2>1. d * q \in Nat /\ q * b \in Nat
    BY <1>1, <1>2
  <2> HIDE DEF q, x, y
  <2> QED
    BY <1>2, <1>4, <1>5, <2>1
<1>7. q \in Int /\ y \in Int
  BY <1>2, <1>4
<1>8. q <= y \div b
  <2> HIDE DEF q, y
  <2> QED
    BY <1>6, <1>7, DivLower
<1> QED
  BY <1>3, <1>8

LEMMA FloorToBounds ==
    ASSUME NEW x \in Int, NEW unit \in Nat \ {0}
    PROVE  /\ FloorTo(x, unit) \in Int
           /\ FloorTo(x, unit) <= x
           /\ x < FloorTo(x, unit) + unit
           /\ x >= 0 => FloorTo(x, unit) >= 0
<1>1. x \div unit \in Int /\ unit * (x \div unit) <= x /\ x < unit * (x \div unit) + unit
  BY DivBounds
<1>2. x >= 0 => unit * (x \div unit) >= 0
  <2>1. ASSUME x >= 0 PROVE x \div unit \in Nat
    BY <2>1, DivNat
  <2> QED
    BY <2>1
<1> QED
  BY <1>1, <1>2 DEF FloorTo

LEMMA CeilToBounds ==
    ASSUME NEW x \in Int, NEW unit \in Nat \ {0}
    PROVE  /\ CeilTo(x, unit) \in Int
           /\ x <= CeilTo(x, unit)
           /\ CeilTo(x, unit) < x + unit
<1>1. -x \in Int
  OBVIOUS
<1>2. FloorTo(-x, unit) \in Int /\ FloorTo(-x, unit) <= -x /\ -x < FloorTo(-x, unit) + unit
  BY <1>1, FloorToBounds
<1> QED
  BY <1>2 DEF CeilTo

----------------------------------------------------------------------------
(* Powers: the recursive function Pow exists, so that it satisfies the      *)
(* equation it is declared with.                                            *)

PowStep(sub, n, x) ==
    IF n = 0 THEN ONE
    ELSE IF n = 1 THEN x
    ELSE IF n % 2 = 0 THEN sub[DMul(x, x)] ELSE DMul(x, sub[DMul(x, x)])

\* g is Pow up to the exponent top.
IsPow(g, top) ==
    g = [n \in 0 .. top |-> [x \in Int |-> PowStep(g[n \div 2], n, x)]]

LEMMA IsPowStep ==
    ASSUME NEW g, NEW top \in Nat, IsPow(g, top), NEW n \in 0 .. top
    PROVE  g[n] = [x \in Int |-> PowStep(g[n \div 2], n, x)]
BY DEF IsPow

LEMMA Halves ==
    ASSUME NEW n \in Nat, n # 0
    PROVE  n \div 2 \in Nat /\ n \div 2 < n
OBVIOUS

LEMMA PowUnique ==
    ASSUME NEW g, NEW h, NEW a \in Nat, NEW b \in Nat, IsPow(g, a), IsPow(h, b),
           NEW n \in Nat, n <= a, n <= b
    PROVE  g[n] = h[n]
<1> DEFINE T == {k \in Nat : k <= a /\ k <= b /\ g[k] # h[k]}
<1> SUFFICES ASSUME T # {} PROVE FALSE
  OBVIOUS
<1>1. PICK k \in T : \A m \in T : k <= m
  <2>1. T \in SUBSET Nat /\ T # {}
    OBVIOUS
  <2> HIDE DEF T
  <2> QED
    BY ONLY <2>1, LeastNatural
<1>2. /\ g[k] = [x \in Int |-> PowStep(g[k \div 2], k, x)]
      /\ h[k] = [x \in Int |-> PowStep(h[k \div 2], k, x)]
  BY <1>1, IsPowStep
<1>3. CASE k = 0
  <2>1. \A x \in Int : PowStep(g[k \div 2], k, x) = PowStep(h[k \div 2], k, x)
    BY <1>3 DEF PowStep
  <2> QED
    BY <1>1, <1>2, <2>1
<1>4. CASE k # 0
  <2>1. k \div 2 \in Nat /\ k \div 2 < k
    BY <1>1, <1>4, Halves
  <2>2. k \div 2 \notin T
    BY <1>1, <2>1
  <2>3. g[k \div 2] = h[k \div 2]
    BY <1>1, <2>1, <2>2
  <2> QED
    BY <1>1, <1>2, <2>3
<1> QED
  BY <1>3, <1>4

LEMMA PowExists == ASSUME NEW n \in Nat PROVE \E g : IsPow(g, n)
<1> DEFINE T == {k \in Nat : ~ \E g : IsPow(g, k)}
<1> SUFFICES ASSUME T # {} PROVE FALSE
  OBVIOUS
<1>1. PICK k \in T : \A m \in T : k <= m
  <2>1. T \in SUBSET Nat /\ T # {}
    OBVIOUS
  <2> HIDE DEF T
  <2> QED
    BY ONLY <2>1, LeastNatural
<1>2. k \in Nat
  BY <1>1
<1>3. CASE k = 0
  <2> DEFINE g == [m \in 0 .. k |-> [x \in Int |-> ONE]]
  <2>1. \A m \in 0 .. k : \A x \in Int : PowStep(g[m \div 2], m, x) = ONE
    BY <1>3 DEF PowStep
  <2>2. IsPow(g, k)
    BY <2>1 DEF IsPow
  <2> QED
    BY <1>1, <2>2
<1>4. CASE k # 0
  <2>1. k - 1 \in Nat /\ k - 1 \notin T
    BY <1>1, <1>2, <1>4
  <2>2. PICK h : IsPow(h, k - 1)
    BY <2>1
  <2> DEFINE g == [m \in 0 .. k |-> [x \in Int |-> PowStep(h[m \div 2], m, x)]]
  <2>3. ASSUME NEW m \in 0 .. k PROVE g[m] = [x \in Int |-> PowStep(g[m \div 2], m, x)]
    <3>1. g[m] = [x \in Int |-> PowStep(h[m \div 2], m, x)]
      OBVIOUS
    <3>2. CASE m = 0
      <4>1. \A x \in Int : PowStep(h[m \div 2], m, x) = PowStep(g[m \div 2], m, x)
        BY <3>2 DEF PowStep
      <4> QED
        BY <4>1
    <3>3. CASE m # 0
      <4>1. m \div 2 \in 0 .. (k - 1)
        BY <1>2, <3>3, Halves
      <4>2. h[m \div 2] = [x \in Int |-> PowStep(h[(m \div 2) \div 2], m \div 2, x)]
        BY <2>1, <2>2, <4>1, IsPowStep
      <4>3. g[m \div 2] = [x \in Int |-> PowStep(h[(m \div 2) \div 2], m \div 2, x)]
        BY <1>2, <4>1
      <4>4. g[m \div 2] = h[m \div 2]
        BY <4>2, <4>3
      <4> HIDE DEF g
      <4> QED
        BY <3>1, <4>4
    <3> QED
      BY <3>2, <3>3
  <2>4. g = [m \in 0 .. k |-> g[m]]
    OBVIOUS
  <2>5. IsPow(g, k)
    <3> HIDE DEF g
    <3> QED
      BY <2>3, <2>4 DEF IsPow
  <2> QED
    BY <1>1, <2>5
<1> QED
  BY <1>3, <1>4

\* The equation of Pow.
LEMMA PowDef ==
    ASSUME NEW n \in Nat
    PROVE  Pow[n] = [x \in Int |-> PowStep(Pow[n \div 2], n, x)]
<1> DEFINE approx(k) == CHOOSE g : IsPow(g, k)
           body(g, k, x) ==
               IF k = 0 THEN ONE
               ELSE IF k = 1 THEN x
               ELSE LET squares == g[k \div 2][DMul(x, x)]
                    IN  IF k % 2 = 0 THEN squares ELSE DMul(x, squares)
           rec(g) == g = [k \in Nat |-> [x \in Int |-> body(g, k, x)]]
           pow == [k \in Nat |-> approx(k)[k]]
<1>1. \A k \in Nat : IsPow(approx(k), k)
  BY PowExists
<1>2. ASSUME NEW k \in Nat PROVE pow[k] = [x \in Int |-> PowStep(pow[k \div 2], k, x)]
  <2>1. pow[k] = approx(k)[k]
    OBVIOUS
  <2>2. approx(k)[k] = [x \in Int |-> PowStep(approx(k)[k \div 2], k, x)]
    <3>1. IsPow(approx(k), k) /\ k \in 0 .. k
      BY <1>1
    <3> HIDE DEF approx
    <3> QED
      BY <3>1, IsPowStep
  <2>3. CASE k = 0
    <3>1. \A x \in Int : PowStep(approx(k)[k \div 2], k, x) = PowStep(pow[k \div 2], k, x)
      BY <2>3 DEF PowStep
    <3> QED
      BY <2>1, <2>2, <3>1
  <2>4. CASE k # 0
    <3>1. k \div 2 \in Nat /\ k \div 2 < k
      BY <2>4, Halves
    <3>2. IsPow(approx(k), k) /\ IsPow(approx(k \div 2), k \div 2)
      BY <1>1, <3>1
    <3>3. approx(k)[k \div 2] = approx(k \div 2)[k \div 2]
      <4> HIDE DEF approx
      <4> QED
        BY <3>1, <3>2, PowUnique
    <3>4. approx(k)[k \div 2] = pow[k \div 2]
      BY <3>1, <3>3
    <3> HIDE DEF pow, approx
    <3> QED
      BY <2>1, <2>2, <3>4
  <2> QED
    BY <2>3, <2>4
<1>3. \A g, k, x : body(g, k, x) = PowStep(g[k \div 2], k, x)
  BY DEF PowStep
<1>4. rec(pow)
  <2>1. pow = [k \in Nat |-> pow[k]]
    OBVIOUS
  <2> HIDE DEF pow, body
  <2> QED
    BY <1>2, <1>3, <2>1
<1>5. Pow = CHOOSE g : rec(g)
  BY Zenon DEF Pow
<1>6. rec(Pow)
  <2> HIDE DEF rec, pow
  <2> QED
    BY <1>4, <1>5
<1>7. Pow[n] = [x \in Int |-> body(Pow, n, x)]
  <2> HIDE DEF body
  <2> QED
    BY <1>6
<1> QED
  <2> HIDE DEF body
  <2> QED
    BY <1>3, <1>7

\* What holds of a power when it holds of the smaller ones.
LEMMA PowInduction ==
    ASSUME NEW T \in SUBSET Nat,
           \A n \in Nat : (n # 0 => n \div 2 \notin T) => n \notin T
    PROVE  T = {}
<1> SUFFICES ASSUME T # {} PROVE FALSE
  OBVIOUS
<1>1. PICK k \in T : \A m \in T : k <= m
  BY LeastNatural
<1>2. k # 0 => k \div 2 \notin T
  BY <1>1, Halves
<1> QED
  BY <1>1, <1>2

LEMMA PowInt ==
    ASSUME NEW n \in Nat, NEW x \in Int
    PROVE  Pow[n][x] \in Int
<1> DEFINE T == {k \in Nat : \E y \in Int : Pow[k][y] \notin Int}
<1>1. ASSUME NEW k \in Nat, k # 0 => k \div 2 \notin T PROVE k \notin T
  <2> SUFFICES ASSUME NEW y \in Int PROVE Pow[k][y] \in Int
    OBVIOUS
  <2> DEFINE z == DMul(y, y)
  <2>1. Pow[k][y] = PowStep(Pow[k \div 2], k, y)
    BY PowDef
  <2>2. z \in Int /\ ONE \in Int
    BY DMulInt, DecimalAssumption
  <2>3. CASE k = 0 \/ k = 1
    BY <2>1, <2>2, <2>3 DEF PowStep
  <2>4. CASE k # 0 /\ k # 1
    <3>1. k \div 2 \in Nat /\ k \div 2 \notin T
      BY <1>1, <2>4, Halves
    <3>2. Pow[k \div 2][z] \in Int
      BY <2>2, <3>1
    <3>3. DMul(y, Pow[k \div 2][z]) \in Int
      BY <3>2, DMulInt
    <3> QED
      BY <2>1, <2>4, <3>2, <3>3 DEF PowStep
  <2> QED
    BY <2>3, <2>4
<1>2. T = {}
  <2>1. T \in SUBSET Nat
    OBVIOUS
  <2> HIDE DEF T
  <2> QED
    BY <1>1, <2>1, PowInduction
<1> QED
  BY <1>2

LEMMA PowNat ==
    ASSUME NEW n \in Nat, NEW x \in Nat
    PROVE  Pow[n][x] \in Nat
<1> DEFINE T == {k \in Nat : \E y \in Nat : Pow[k][y] \notin Nat}
<1>1. ASSUME NEW k \in Nat, k # 0 => k \div 2 \notin T PROVE k \notin T
  <2> SUFFICES ASSUME NEW y \in Nat PROVE Pow[k][y] \in Nat
    OBVIOUS
  <2> DEFINE z == DMul(y, y)
  <2>1. Pow[k][y] = PowStep(Pow[k \div 2], k, y)
    <3>1. y \in Int
      OBVIOUS
    <3> QED
      BY <3>1, PowDef
  <2>2. z \in Nat /\ ONE \in Nat
    BY DMulNat, DecimalAssumption
  <2>3. CASE k = 0 \/ k = 1
    BY <2>1, <2>2, <2>3 DEF PowStep
  <2>4. CASE k # 0 /\ k # 1
    <3>1. k \div 2 \in Nat /\ k \div 2 \notin T
      BY <1>1, <2>4, Halves
    <3>2. Pow[k \div 2][z] \in Nat
      BY <2>2, <3>1
    <3>3. DMul(y, Pow[k \div 2][z]) \in Nat
      BY <3>2, DMulNat
    <3> QED
      BY <2>1, <2>4, <3>2, <3>3 DEF PowStep
  <2> QED
    BY <2>3, <2>4
<1>2. T = {}
  <2>1. T \in SUBSET Nat
    OBVIOUS
  <2> HIDE DEF T
  <2> QED
    BY <1>1, <2>1, PowInduction
<1> QED
  BY <1>2

LEMMA PowAtLeastOne ==
    ASSUME NEW n \in Nat, NEW x \in Nat, ONE <= x
    PROVE  ONE <= Pow[n][x]
<1> DEFINE T == {k \in Nat : \E y \in Nat : ONE <= y /\ ~ (ONE <= Pow[k][y])}
<1>1. ASSUME NEW k \in Nat, k # 0 => k \div 2 \notin T PROVE k \notin T
  <2> SUFFICES ASSUME NEW y \in Nat, ONE <= y PROVE ONE <= Pow[k][y]
    OBVIOUS
  <2> DEFINE z == DMul(y, y)
  <2>1. Pow[k][y] = PowStep(Pow[k \div 2], k, y)
    <3>1. y \in Int
      OBVIOUS
    <3> QED
      BY <3>1, PowDef
  <2>2. z \in Nat /\ ONE \in Nat /\ ONE <= z
    BY DMulNat, DMulGrows, DecimalAssumption
  <2>3. CASE k = 0 \/ k = 1
    BY <2>1, <2>2, <2>3 DEF PowStep
  <2>4. CASE k # 0 /\ k # 1
    <3>1. k \div 2 \in Nat /\ k \div 2 \notin T
      BY <1>1, <2>4, Halves
    <3>2. ONE <= Pow[k \div 2][z] /\ Pow[k \div 2][z] \in Nat
      BY <2>2, <3>1, PowNat
    <3>3. y <= DMul(y, Pow[k \div 2][z]) /\ DMul(y, Pow[k \div 2][z]) \in Nat
      BY <3>2, DMulGrows, DMulNat
    <3>4. ONE <= DMul(y, Pow[k \div 2][z])
      BY <2>2, <3>3
    <3> QED
      BY <2>1, <2>4, <3>2, <3>4 DEF PowStep
  <2> QED
    BY <2>3, <2>4
<1>2. T = {}
  <2>1. T \in SUBSET Nat
    OBVIOUS
  <2> HIDE DEF T
  <2> QED
    BY <1>1, <2>1, PowInduction
<1> QED
  BY <1>2

LEMMA PowMonotone ==
    ASSUME NEW n \in Nat, NEW x \in Nat, NEW y \in Nat, x <= y
    PROVE  Pow[n][x] <= Pow[n][y]
<1> DEFINE T == {k \in Nat : \E a, b \in Nat : a <= b /\ ~ (Pow[k][a] <= Pow[k][b])}
<1>1. ASSUME NEW k \in Nat, k # 0 => k \div 2 \notin T PROVE k \notin T
  <2> SUFFICES ASSUME NEW a \in Nat, NEW b \in Nat, a <= b PROVE Pow[k][a] <= Pow[k][b]
    OBVIOUS
  <2> DEFINE aa == DMul(a, a)
             bb == DMul(b, b)
             sub == Pow[k \div 2]
  <2>1. Pow[k][a] = PowStep(sub, k, a) /\ Pow[k][b] = PowStep(sub, k, b)
    <3>1. a \in Int /\ b \in Int
      OBVIOUS
    <3> QED
      BY <3>1, PowDef
  <2>2. aa \in Nat /\ bb \in Nat /\ aa <= bb /\ ONE \in Nat
    BY DMulNat, DMulMonotone, DecimalAssumption
  <2>3. CASE k = 0 \/ k = 1
    BY <2>1, <2>2, <2>3 DEF PowStep
  <2>4. CASE k # 0 /\ k # 1
    <3>1. k \div 2 \in Nat /\ k \div 2 \notin T
      BY <1>1, <2>4, Halves
    <3>2. sub[aa] \in Nat /\ sub[bb] \in Nat /\ sub[aa] <= sub[bb]
      BY <2>2, <3>1, PowNat
    <3> DEFINE sa == sub[aa]
               sb == sub[bb]
    <3>3. DMul(a, sa) <= DMul(b, sb)
      <4> HIDE DEF sa, sb
      <4>1. sa \in Nat /\ sb \in Nat /\ sa <= sb
        BY <3>2 DEF sa, sb
      <4> QED
        BY <4>1, DMulMonotone
    <3>4. /\ Pow[k][a] = IF k % 2 = 0 THEN sa ELSE DMul(a, sa)
          /\ Pow[k][b] = IF k % 2 = 0 THEN sb ELSE DMul(b, sb)
      BY <2>1, <2>4 DEF PowStep
    <3> QED
      BY <3>2, <3>3, <3>4
  <2> QED
    BY <2>3, <2>4
<1>2. T = {}
  <2>1. T \in SUBSET Nat
    OBVIOUS
  <2> HIDE DEF T
  <2> QED
    BY <1>1, <2>1, PowInduction
<1> QED
  BY <1>2

----------------------------------------------------------------------------
(* Interest at a rate that is not negative.                                *)

LEMMA LinearRateNat ==
    ASSUME NEW apy \in Nat, NEW epochs \in Nat
    PROVE  CalcLinearRate(apy, epochs) \in Nat
<1>1. apy * epochs \in Nat
  OBVIOUS
<1> QED
  BY <1>1, TruncDivNat, DivNat, DecimalAssumption DEF CalcLinearRate

LEMMA LinearInterestGrows ==
    ASSUME NEW amount \in Nat, NEW apy \in Nat, NEW epochs \in Nat
    PROVE  /\ CalcLinearInterest(amount, apy, epochs) \in Nat
           /\ amount <= CalcLinearInterest(amount, apy, epochs)
<1> DEFINE r == CalcLinearRate(apy, epochs)
<1>1. r \in Nat /\ ONE \in Nat
  BY LinearRateNat, DecimalAssumption
<1> HIDE DEF r
<1>2. ONE + r \in Nat /\ ONE <= ONE + r
  BY <1>1
<1>3. DMul(amount, ONE + r) \in Nat /\ amount <= DMul(amount, ONE + r)
  BY <1>2, DMulNat, DMulGrows
<1> QED
  BY <1>3 DEF r, CalcLinearInterest

\* Interest on more is more by at least what was added.
LEMMA LinearInterestOfMore ==
    ASSUME NEW amount \in Nat, NEW more \in Nat, NEW apy \in Nat, NEW epochs \in Nat
    PROVE  CalcLinearInterest(amount, apy, epochs) + more
             <= CalcLinearInterest(amount + more, apy, epochs)
<1> DEFINE rate == CalcLinearRate(apy, epochs)
           r == ONE + rate
           low == DMul(amount, r)
<1>1. r \in Nat /\ ONE <= r /\ ONE \in Nat \ {0}
  <2>1. rate \in Nat /\ ONE \in Nat \ {0}
    BY LinearRateNat, DecimalAssumption
  <2> HIDE DEF rate
  <2> QED
    BY <2>1
<1>2. low \in Nat /\ ONE * low <= amount * r
  BY <1>1, DMulNat
<1>3. (amount + more) * r \in Int /\ low + more \in Int
  BY <1>1, <1>2
<1>4. (low + more) * ONE <= (amount + more) * r
  <2> HIDE DEF r, low
  <2>1. more * ONE <= more * r
    BY <1>1
  <2>2. (low + more) * ONE = ONE * low + more * ONE
    BY <1>1, <1>2
  <2>3. (amount + more) * r = amount * r + more * r
    BY <1>1
  <2>4. /\ more * ONE \in Int /\ more * r \in Int
        /\ ONE * low \in Int /\ amount * r \in Int
    BY <1>1, <1>2
  <2> QED
    BY <1>2, <2>1, <2>2, <2>3, <2>4
<1>5. low + more <= ((amount + more) * r) \div ONE
  BY <1>1, <1>3, <1>4, DivLower
<1>6. DMul(amount + more, r) = ((amount + more) * r) \div ONE
  <2>1. amount + more \in Nat
    OBVIOUS
  <2> HIDE DEF r
  <2> QED
    BY <1>1, <2>1, DMulNat
<1> QED
  BY <1>5, <1>6 DEF CalcLinearInterest

LEMMA CompoundRateAtLeastOne ==
    ASSUME NEW apy \in Nat, NEW epochs \in Nat
    PROVE  CalcCompoundRate(apy, epochs) \in Nat /\ ONE <= CalcCompoundRate(apy, epochs)
<1> DEFINE base == ONE + TruncDiv(apy, EPOCH_OF_YEAR)
<1>1. base \in Nat /\ ONE <= base
  <2>1. TruncDiv(apy, EPOCH_OF_YEAR) \in Nat /\ ONE \in Nat
    BY TruncDivNat, DivNat, DecimalAssumption
  <2> QED
    BY <2>1
<1> HIDE DEF base
<1>2. Pow[epochs][base] \in Nat /\ ONE <= Pow[epochs][base]
  BY <1>1, PowNat, PowAtLeastOne
<1> QED
  BY <1>2 DEF CalcCompoundRate, base

LEMMA CompoundInterestGrows ==
    ASSUME NEW amount \in Nat, NEW apy \in Nat, NEW epochs \in Nat
    PROVE  /\ CalcCompoundInterest(amount, apy, epochs) \in Nat
           /\ amount <= CalcCompoundInterest(amount, apy, epochs)
BY CompoundRateAtLeastOne, DMulNat, DMulGrows DEF CalcCompoundInterest

LEMMA NoEpochNoInterest ==
    ASSUME NEW amount \in Nat, NEW apy \in Nat
    PROVE  CalcCompoundInterest(amount, apy, 0) = amount
<1> DEFINE base == ONE + TruncDiv(apy, EPOCH_OF_YEAR)
<1>1. base \in Int
  <2>0. apy \in Int /\ EPOCH_OF_YEAR \in Int \ {0} /\ ONE \in Int
    BY DecimalAssumption
  <2>1. TruncDiv(apy, EPOCH_OF_YEAR) \in Int /\ ONE \in Int
    BY <2>0, TruncDivInt
  <2> HIDE DEF base
  <2>2. base = ONE + TruncDiv(apy, EPOCH_OF_YEAR)
    BY DEF base
  <2> QED
    BY <2>1, <2>2
<1>2. CalcCompoundRate(apy, 0) = ONE
  <2> HIDE DEF base
  <2>1. Pow[0][base] = ONE
    <3>1. 0 \in Nat
      OBVIOUS
    <3>2. Pow[0][base] = PowStep(Pow[0 \div 2], 0, base)
      BY <1>1, <3>1, PowDef
    <3> QED
      BY <3>2 DEF PowStep
  <2> QED
    BY <2>1 DEF CalcCompoundRate, base
<1> QED
  BY <1>2, DMulOne DEF CalcCompoundInterest

LEMMA PrincipalBelowAmount ==
    ASSUME NEW amount \in Nat, NEW apy \in Nat, NEW epochs \in Nat
    PROVE  /\ CalcPrincipal(amount, apy, epochs) \in Nat
           /\ CalcPrincipal(amount, apy, epochs) <= amount
<1> DEFINE r == CalcCompoundRate(apy, epochs)
<1>1. r \in Nat \ {0} /\ ONE <= r
  BY CompoundRateAtLeastOne, DecimalAssumption
<1> HIDE DEF r
<1>2. DDiv(amount, r) \in Nat /\ DDiv(amount, r) <= amount
  BY <1>1, DDivNat, DDivShrinks
<1> QED
  BY <1>2 DEF CalcPrincipal, r

\* The higher the rate, the less an amount that is due later is worth now.
LEMMA PrincipalAntitone ==
    ASSUME NEW amount \in Nat, NEW low \in Nat, NEW high \in Nat, low <= high,
           NEW epochs \in Nat
    PROVE  CalcPrincipal(amount, high, epochs) <= CalcPrincipal(amount, low, epochs)
<1> DEFINE x == ONE + TruncDiv(low, EPOCH_OF_YEAR)
           y == ONE + TruncDiv(high, EPOCH_OF_YEAR)
           l == CalcCompoundRate(low, epochs)
           h == CalcCompoundRate(high, epochs)
<1>1. x \in Nat /\ y \in Nat /\ x <= y
  <2>1. /\ TruncDiv(low, EPOCH_OF_YEAR) \in Nat /\ TruncDiv(high, EPOCH_OF_YEAR) \in Nat
        /\ TruncDiv(low, EPOCH_OF_YEAR) <= TruncDiv(high, EPOCH_OF_YEAR)
    BY TruncDivNat, DivNat, DivMonotone, DecimalAssumption
  <2> QED
    BY <2>1, DecimalAssumption
<1>2. l = Pow[epochs][x] /\ h = Pow[epochs][y]
  BY DEF CalcCompoundRate
<1> HIDE DEF x, y
<1>3. Pow[epochs][x] <= Pow[epochs][y]
  BY <1>1, PowMonotone
<1>4. l \in Nat \ {0} /\ h \in Nat
  <2>1. l \in Nat /\ ONE <= l /\ h \in Nat
    BY CompoundRateAtLeastOne
  <2> HIDE DEF l, h
  <2> QED
    BY <2>1, DecimalAssumption
<1>5. l <= h
  BY <1>2, <1>3
<1> HIDE DEF l, h
<1>6. amount <= amount
  OBVIOUS
<1>7. DDiv(amount, h) <= DDiv(amount, l)
  BY <1>4, <1>5, <1>6, DDivAntitone
<1> QED
  BY <1>7 DEF CalcPrincipal, l, h
=============================================================================
