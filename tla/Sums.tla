-------------------------------- MODULE Sums --------------------------------
(***************************************************************************)
(* Facts about SumFunctionOnSet(f, S), the total of f over a finite set S:  *)
(* the total of the balances, stakes, locks or debts of an account type.    *)
(*                                                                         *)
(* The sum is defined by recursion over the subsets of S.  The induction    *)
(* theorems of the library take a predicate as a parameter; here induction  *)
(* is over a set of subsets (or of numbers), from the same well-founded     *)
(* orderings, so that a first-order prover can use it.                      *)
(***************************************************************************)
EXTENDS Integers, FiniteSets, FiniteSetsExt, FiniteSetTheorems, TLAPS

(* Induction *)

\* A set of subsets of S that a subset joins when all smaller ones are in it
\* contains them all.
LEMMA SubsetInduction ==
  ASSUME NEW S, IsFiniteSet(S), NEW G,
         \A T \in SUBSET S : (\A U \in SUBSET T : U # T => U \in G) => T \in G
  PROVE  \A T \in SUBSET S : T \in G
<1> DEFINE Bad == (SUBSET S) \ G
<1>1. SUFFICES ASSUME Bad # {} PROVE FALSE
  OBVIOUS
<1>2. FiniteSubsetsOf(S) = SUBSET S
  BY FS_FiniteSubsetsOfFinite
<1>3. IsWellFoundedOn(StrictSubsetOrdering(S), SUBSET S)
  BY <1>2, FS_StrictSubsetOrderingWellFounded
<1>4. Bad \subseteq SUBSET S
  OBVIOUS
<1>5. PICK T \in Bad : \A U \in Bad : ~(<<U, T>> \in StrictSubsetOrdering(S))
  <2> HIDE DEF Bad
  <2> QED BY <1>1, <1>3, <1>4, WFMin
<1>6. \A U \in SUBSET T : U # T => U \in G
  BY <1>5 DEF StrictSubsetOrdering
<1>7. QED BY <1>5, <1>6

\* A set of numbers that contains zero and the successor of each of its members
\* contains every number.
LEMMA NatSetInduction ==
  ASSUME NEW G, 0 \in G, \A n \in Nat : n \in G => n + 1 \in G
  PROVE  \A n \in Nat : n \in G
<1>1. IsWellFoundedOn(OpToRel(<, Nat), Nat)
  BY NatLessThanWellFounded
<1>2. SUFFICES ASSUME NEW m \in Nat \ G PROVE FALSE
  OBVIOUS
<1>3. PICK n \in Nat \ G : \A k \in Nat \ G : ~(<<k, n>> \in OpToRel(<, Nat))
  BY <1>1, <1>2, WFMin
<1>4. \A k \in Nat : k < n => k \in G
  BY <1>3 DEF OpToRel
<1>5. n \in Nat /\ n # 0 /\ n \notin G
  BY <1>3
<1> DEFINE k == n - 1
<1>6. k \in Nat /\ k < n /\ k + 1 = n
  BY <1>5, SMT
<1>7. k \in G
  BY <1>4, <1>6
<1> HIDE DEF k
<1>8. QED BY <1>5, <1>6, <1>7

-----------------------------------------------------------------------------
(* The recursion *)

\* The element by which a sum goes on.
Pick(s) == CHOOSE x \in s : TRUE

\* The function a sum over S is defined by: partial sums, for every subset.
IsSum(f, S, g) ==
  g = [s \in SUBSET S |-> IF s = {} THEN 0 ELSE f[Pick(s)] + g[s \ {Pick(s)}]]

\* A non-empty set has an element to go on by.
LEMMA PickIn == ASSUME NEW s, s # {} PROVE Pick(s) \in s
  BY DEF Pick

\* The recursive equation has a solution: there is one on the subsets of at most
\* n elements, for every n.
LEMMA SumExists ==
  ASSUME NEW f, NEW S, IsFiniteSet(S)
  PROVE  \E g : IsSum(f, S, g)
<1> DEFINE Small(n) == {s \in SUBSET S : Cardinality(s) <= n}
           Step(s, g) == IF s = {} THEN 0 ELSE f[Pick(s)] + g[s \ {Pick(s)}]
           G == {n \in Nat : \E g : g = [s \in Small(n) |-> Step(s, g)]}
<1>1. \A s \in SUBSET S : IsFiniteSet(s) /\ Cardinality(s) \in Nat
  BY FS_Subset, FS_CardinalityType
<1>2. 0 \in G
  <2>1. Small(0) = {{}}
    BY <1>1, FS_EmptySet
  <2> DEFINE g == [s \in {{}} |-> 0]
  <2>2. g = [s \in Small(0) |-> Step(s, g)]
    BY <2>1
  <2>3. QED BY <2>2
<1>3. ASSUME NEW n \in Nat, n \in G PROVE n + 1 \in G
  <2>1. PICK g : g = [s \in Small(n) |-> Step(s, g)]
    BY <1>3
  <2> DEFINE h == [s \in Small(n + 1) |-> Step(s, g)]
  <2>2. \A s \in Small(n + 1) : s # {} => s \ {Pick(s)} \in Small(n)
    BY <1>1, PickIn, FS_RemoveElement
  <2>3. \A s \in Small(n) : s \in Small(n + 1) /\ h[s] = g[s]
    <3>1. Small(n) \subseteq Small(n + 1)
      BY <1>1
    <3> SUFFICES ASSUME NEW s \in Small(n) PROVE h[s] = g[s]
      BY <3>1
    <3>2. h[s] = Step(s, g)
      BY <3>1
    <3>3. g[s] = Step(s, g)
      <4> HIDE DEF Small, Step
      <4> QED BY <2>1
    <3>4. QED BY <3>2, <3>3
  <2>4. h = [s \in Small(n + 1) |-> Step(s, h)]
    BY <2>2, <2>3
  <2>5. QED
    <3> HIDE DEF Small, Step, h
    <3> QED BY <2>4
<1>4. Cardinality(S) \in G
  BY <1>1, <1>2, <1>3, NatSetInduction
<1>5. Small(Cardinality(S)) = SUBSET S
  BY <1>1, FS_Subset
<1>6. QED BY <1>4, <1>5 DEF IsSum

\* SumFunctionOnSet is the solution's value at the whole set.
LEMMA SumIsSolution ==
  ASSUME NEW f, NEW S, IsFiniteSet(S)
  PROVE  \E g : IsSum(f, S, g) /\ SumFunctionOnSet(f, S) = g[S]
<1>1. SumFunctionOnSet(f, S) = (CHOOSE g : IsSum(f, S, g))[S]
  BY DEF SumFunctionOnSet, FoldFunctionOnSet, MapThenFoldSet, IsSum, Pick
<1>2. IsSum(f, S, CHOOSE g : IsSum(f, S, g))
  BY SumExists
<1>3. QED BY <1>1, <1>2

\* Solutions for a set and for a part of it agree on that part.
LEMMA SumSolutionsAgree ==
  ASSUME NEW f, NEW S, NEW T \in SUBSET S, IsFiniteSet(T),
         NEW g, IsSum(f, S, g), NEW h, IsSum(f, T, h)
  PROVE  \A s \in SUBSET T : g[s] = h[s]
<1> DEFINE G == {s \in SUBSET T : g[s] = h[s]}
<1>1. \A s \in SUBSET T :
        g[s] = IF s = {} THEN 0 ELSE f[Pick(s)] + g[s \ {Pick(s)}]
  BY DEF IsSum
<1>2. \A s \in SUBSET T :
        h[s] = IF s = {} THEN 0 ELSE f[Pick(s)] + h[s \ {Pick(s)}]
  BY DEF IsSum
<1>3. ASSUME NEW s \in SUBSET T, \A U \in SUBSET s : U # s => U \in G
      PROVE  s \in G
  <2>1. CASE s = {}
    BY <2>1, <1>1, <1>2
  <2>2. CASE s # {}
    <3>1. s \ {Pick(s)} \in G
      BY <1>3, <2>2, PickIn
    <3>2. QED BY <3>1, <2>2, <1>1, <1>2
  <2>3. QED BY <2>1, <2>2
<1>4. \A s \in SUBSET T : s \in G
  <2> HIDE DEF G
  <2> QED BY <1>3, SubsetInduction
<1>5. QED BY <1>4

\* The equation of the sum.
LEMMA SumEquation ==
  ASSUME NEW f, NEW S, IsFiniteSet(S)
  PROVE  SumFunctionOnSet(f, S) =
           IF S = {} THEN 0
           ELSE f[Pick(S)] + SumFunctionOnSet(f, S \ {Pick(S)})
<1> DEFINE T == S \ {Pick(S)}
<1>1. T \in SUBSET S /\ IsFiniteSet(T)
  BY FS_Subset
<1>2. PICK g : IsSum(f, S, g) /\ SumFunctionOnSet(f, S) = g[S]
  BY SumIsSolution
<1>3. PICK h : IsSum(f, T, h) /\ SumFunctionOnSet(f, T) = h[T]
  BY <1>1, SumIsSolution
<1>4. g[T] = h[T]
  <2> HIDE DEF T
  <2> QED BY <1>1, <1>2, <1>3, SumSolutionsAgree
<1>5. g[S] = IF S = {} THEN 0 ELSE f[Pick(S)] + g[T]
  BY <1>2 DEF IsSum
<1>6. QED BY <1>2, <1>3, <1>4, <1>5

-----------------------------------------------------------------------------
(* Sums of integers *)

\* The sum over no elements is zero.
LEMMA SumEmpty ==
  ASSUME NEW f
  PROVE  SumFunctionOnSet(f, {}) = 0
  BY SumEquation, FS_EmptySet

\* The sum depends only on the values at the elements summed.
LEMMA SumSame ==
  ASSUME NEW S, IsFiniteSet(S), NEW f, NEW g, \A x \in S : f[x] = g[x]
  PROVE  SumFunctionOnSet(f, S) = SumFunctionOnSet(g, S)
<1> DEFINE G == {T \in SUBSET S : SumFunctionOnSet(f, T) = SumFunctionOnSet(g, T)}
<1>1. ASSUME NEW T \in SUBSET S, \A U \in SUBSET T : U # T => U \in G
      PROVE  T \in G
  <2>1. IsFiniteSet(T)
    BY FS_Subset
  <2>2. CASE T = {}
    BY <2>2, SumEmpty
  <2>3. CASE T # {}
    <3>1. Pick(T) \in T /\ T \ {Pick(T)} \in G
      BY <1>1, <2>3, PickIn
    <3>2. QED BY <3>1, <2>1, <2>3, SumEquation
  <2>4. QED BY <2>2, <2>3
<1>2. S \in G
  <2> HIDE DEF G
  <2> QED BY <1>1, SubsetInduction
<1>3. QED BY <1>2

\* Integers sum to an integer.
LEMMA SumInt ==
  ASSUME NEW S, IsFiniteSet(S), NEW f, \A x \in S : f[x] \in Int
  PROVE  SumFunctionOnSet(f, S) \in Int
<1> DEFINE G == {T \in SUBSET S : SumFunctionOnSet(f, T) \in Int}
<1>1. ASSUME NEW T \in SUBSET S, \A U \in SUBSET T : U # T => U \in G
      PROVE  T \in G
  <2>1. IsFiniteSet(T)
    BY FS_Subset
  <2>2. CASE T = {}
    BY <2>2, SumEmpty
  <2>3. CASE T # {}
    <3>1. Pick(T) \in T /\ T \ {Pick(T)} \in G
      BY <1>1, <2>3, PickIn
    <3>2. QED BY <3>1, <2>1, <2>3, SumEquation
  <2>4. QED BY <2>2, <2>3
<1>2. S \in G
  <2> HIDE DEF G
  <2> QED BY <1>1, SubsetInduction
<1>3. QED BY <1>2

\* Any element may be taken out of the sum first.
LEMMA SumRemove ==
  ASSUME NEW S, IsFiniteSet(S), NEW f, \A x \in S : f[x] \in Int, NEW u \in S
  PROVE  SumFunctionOnSet(f, S) = f[u] + SumFunctionOnSet(f, S \ {u})
<1> DEFINE Takes(T) == \A x \in T :
             SumFunctionOnSet(f, T) = f[x] + SumFunctionOnSet(f, T \ {x})
           G == {T \in SUBSET S : Takes(T)}
<1>1. ASSUME NEW T \in SUBSET S, \A U \in SUBSET T : U # T => U \in G, NEW x \in T
      PROVE  SumFunctionOnSet(f, T) = f[x] + SumFunctionOnSet(f, T \ {x})
  <2> DEFINE y == Pick(T)
  <2>1. IsFiniteSet(T) /\ y \in T
    BY FS_Subset, PickIn
  <2>2. SumFunctionOnSet(f, T) = f[y] + SumFunctionOnSet(f, T \ {y})
    BY <2>1, SumEquation
  <2>3. CASE x = y
    BY <2>2, <2>3
  <2>4. CASE x # y
    <3> HIDE DEF y
    <3>1. T \ {x} \in G /\ T \ {y} \in G
      BY <1>1, <2>1
    <3>2. SumFunctionOnSet(f, T \ {y})
            = f[x] + SumFunctionOnSet(f, (T \ {y}) \ {x})
      BY <3>1, <2>4
    <3>3. SumFunctionOnSet(f, T \ {x})
            = f[y] + SumFunctionOnSet(f, (T \ {x}) \ {y})
      BY <3>1, <2>1, <2>4
    <3>4. (T \ {y}) \ {x} = (T \ {x}) \ {y}
      OBVIOUS
    <3>5. SumFunctionOnSet(f, (T \ {x}) \ {y}) \in Int /\ f[x] \in Int /\ f[y] \in Int
      BY <2>1, FS_Subset, SumInt
    <3> DEFINE rest == SumFunctionOnSet(f, (T \ {x}) \ {y})
    <3>6. f[y] + (f[x] + rest) = f[x] + (f[y] + rest)
      BY <3>5
    <3>7. QED BY <2>2, <3>2, <3>3, <3>4, <3>6
  <2>5. QED BY <2>3, <2>4
<1>2. ASSUME NEW T \in SUBSET S, \A U \in SUBSET T : U # T => U \in G
      PROVE  T \in G
  BY <1>1, <1>2
<1>3. S \in G
  <2> HIDE DEF G
  <2> QED BY <1>2, SubsetInduction
<1>4. QED BY <1>3

-----------------------------------------------------------------------------
(* What the proofs of the models use *)

\* A new element adds its value.
LEMMA SumAdd ==
  ASSUME NEW S, IsFiniteSet(S), NEW u, u \notin S,
         NEW f, \A x \in S \cup {u} : f[x] \in Int
  PROVE  SumFunctionOnSet(f, S \cup {u}) = SumFunctionOnSet(f, S) + f[u]
<1>1. IsFiniteSet(S \cup {u}) /\ (S \cup {u}) \ {u} = S
  BY FS_AddElement
<1>2. SumFunctionOnSet(f, S \cup {u}) = f[u] + SumFunctionOnSet(f, S)
  BY <1>1, SumRemove
<1>3. SumFunctionOnSet(f, S) \in Int /\ f[u] \in Int
  BY SumInt
<1>4. QED BY <1>2, <1>3

\* A change of one value changes the sum by as much.
LEMMA SumUpdate ==
  ASSUME NEW S, IsFiniteSet(S), NEW u \in S,
         NEW f, \A x \in S : f[x] \in Int,
         NEW g, \A x \in S : g[x] \in Int,
         \A x \in S \ {u} : g[x] = f[x]
  PROVE  SumFunctionOnSet(g, S) = SumFunctionOnSet(f, S) - f[u] + g[u]
<1>1. IsFiniteSet(S \ {u})
  BY FS_Subset
<1>2. SumFunctionOnSet(g, S \ {u}) = SumFunctionOnSet(f, S \ {u})
  BY <1>1, SumSame
<1>3. SumFunctionOnSet(f, S) = f[u] + SumFunctionOnSet(f, S \ {u})
  BY SumRemove
<1>4. SumFunctionOnSet(g, S) = g[u] + SumFunctionOnSet(g, S \ {u})
  BY SumRemove
<1>5. SumFunctionOnSet(f, S \ {u}) \in Int /\ f[u] \in Int /\ g[u] \in Int
  BY <1>1, SumInt
<1>6. QED BY <1>2, <1>3, <1>4, <1>5

\* Sums are monotone.
LEMMA SumMono ==
  ASSUME NEW S, IsFiniteSet(S),
         NEW f, \A x \in S : f[x] \in Int,
         NEW g, \A x \in S : g[x] \in Int,
         \A x \in S : f[x] <= g[x]
  PROVE  SumFunctionOnSet(f, S) <= SumFunctionOnSet(g, S)
<1> DEFINE G == {T \in SUBSET S : SumFunctionOnSet(f, T) <= SumFunctionOnSet(g, T)}
<1>1. ASSUME NEW T \in SUBSET S, \A U \in SUBSET T : U # T => U \in G
      PROVE  T \in G
  <2>1. IsFiniteSet(T)
    BY FS_Subset
  <2>2. CASE T = {}
    BY <2>2, SumEmpty
  <2>3. CASE T # {}
    <3> DEFINE y == Pick(T)
               rest == T \ {y}
    <3>1. y \in T /\ rest \in G
      BY <1>1, <2>3, PickIn
    <3>2. /\ SumFunctionOnSet(f, T) = f[y] + SumFunctionOnSet(f, rest)
          /\ SumFunctionOnSet(g, T) = g[y] + SumFunctionOnSet(g, rest)
      BY <2>1, <2>3, SumEquation
    <3> HIDE DEF y
    <3>3. SumFunctionOnSet(f, rest) \in Int /\ SumFunctionOnSet(g, rest) \in Int
      BY <2>1, FS_Subset, SumInt
    <3>4. /\ SumFunctionOnSet(f, rest) <= SumFunctionOnSet(g, rest)
          /\ f[y] <= g[y] /\ f[y] \in Int /\ g[y] \in Int
      BY <3>1
    <3> HIDE DEF rest
    <3>5. SumFunctionOnSet(f, T) <= SumFunctionOnSet(g, T)
      BY <3>2, <3>3, <3>4
    <3>6. QED BY <3>5
  <2>4. QED BY <2>2, <2>3
<1>2. S \in G
  <2> HIDE DEF G
  <2> QED BY <1>1, SubsetInduction
<1>3. QED BY <1>2

\* Zeros sum to zero.
LEMMA SumZero ==
  ASSUME NEW S, IsFiniteSet(S), NEW f, \A x \in S : f[x] = 0
  PROVE  SumFunctionOnSet(f, S) = 0
<1> DEFINE G == {T \in SUBSET S : SumFunctionOnSet(f, T) = 0}
<1>1. ASSUME NEW T \in SUBSET S, \A U \in SUBSET T : U # T => U \in G
      PROVE  T \in G
  <2>1. IsFiniteSet(T)
    BY FS_Subset
  <2>2. CASE T = {}
    BY <2>2, SumEmpty
  <2>3. CASE T # {}
    <3>1. Pick(T) \in T /\ T \ {Pick(T)} \in G
      BY <1>1, <2>3, PickIn
    <3>2. QED BY <3>1, <2>1, <2>3, SumEquation
  <2>4. QED BY <2>2, <2>3
<1>2. S \in G
  <2> HIDE DEF G
  <2> QED BY <1>1, SubsetInduction
<1>3. QED BY <1>2

\* Natural numbers sum to a natural number.
LEMMA SumNat ==
  ASSUME NEW S, IsFiniteSet(S), NEW f, \A x \in S : f[x] \in Nat
  PROVE  SumFunctionOnSet(f, S) \in Nat
<1> DEFINE zero == [x \in S |-> 0]
<1>1. SumFunctionOnSet(zero, S) = 0
  BY SumZero
<1>2. SumFunctionOnSet(zero, S) <= SumFunctionOnSet(f, S)
  BY SumMono
<1>3. SumFunctionOnSet(f, S) \in Int
  BY SumInt
<1>4. QED BY <1>1, <1>2, <1>3

\* No part of a sum of natural numbers exceeds it.
LEMMA SumMember ==
  ASSUME NEW S, IsFiniteSet(S), NEW f, \A x \in S : f[x] \in Nat, NEW u \in S
  PROVE  f[u] <= SumFunctionOnSet(f, S)
<1>1. SumFunctionOnSet(f, S) = f[u] + SumFunctionOnSet(f, S \ {u})
  BY SumRemove
<1>2. SumFunctionOnSet(f, S \ {u}) \in Nat /\ f[u] \in Nat
  BY FS_Subset, SumNat
<1>3. QED BY <1>1, <1>2

\* A counter that totals natural numbers follows the change of one of them, and
\* what is taken out of it was in it.
LEMMA SumChange ==
  ASSUME NEW S, IsFiniteSet(S), NEW u \in S,
         NEW f \in [S -> Nat], NEW g \in [S -> Nat],
         \A x \in S \ {u} : g[x] = f[x]
  PROVE  /\ SumFunctionOnSet(f, S) \in Nat
         /\ f[u] <= SumFunctionOnSet(f, S)
         /\ SumFunctionOnSet(g, S) = SumFunctionOnSet(f, S) - f[u] + g[u]
<1>1. \A x \in S : f[x] \in Nat /\ g[x] \in Nat /\ f[x] \in Int /\ g[x] \in Int
  OBVIOUS
<1>2. SumFunctionOnSet(f, S) \in Nat
  BY <1>1, SumNat
<1>3. f[u] <= SumFunctionOnSet(f, S)
  BY <1>1, SumMember
<1>4. SumFunctionOnSet(g, S) = SumFunctionOnSet(f, S) - f[u] + g[u]
  BY <1>1, SumUpdate
<1>5. QED BY <1>2, <1>3, <1>4

-----------------------------------------------------------------------------
(* Linearity *)

\* The sum of a sum is the sum of the sums.
LEMMA SumPlus ==
  ASSUME NEW S, IsFiniteSet(S),
         NEW f, \A x \in S : f[x] \in Int,
         NEW g, \A x \in S : g[x] \in Int,
         NEW h, \A x \in S : h[x] = f[x] + g[x]
  PROVE  SumFunctionOnSet(h, S) = SumFunctionOnSet(f, S) + SumFunctionOnSet(g, S)
<1> DEFINE G == {T \in SUBSET S :
                   SumFunctionOnSet(h, T) = SumFunctionOnSet(f, T) + SumFunctionOnSet(g, T)}
<1>1. ASSUME NEW T \in SUBSET S, \A U \in SUBSET T : U # T => U \in G
      PROVE  T \in G
  <2>1. IsFiniteSet(T)
    BY FS_Subset
  <2>2. CASE T = {}
    BY <2>2, SumEmpty
  <2>3. CASE T # {}
    <3> DEFINE y == Pick(T)
               rest == T \ {y}
    <3>1. y \in T /\ rest \in G
      BY <1>1, <2>3, PickIn
    <3>2. /\ SumFunctionOnSet(f, T) = f[y] + SumFunctionOnSet(f, rest)
          /\ SumFunctionOnSet(g, T) = g[y] + SumFunctionOnSet(g, rest)
          /\ SumFunctionOnSet(h, T) = h[y] + SumFunctionOnSet(h, rest)
      BY <2>1, <2>3, SumEquation
    <3> HIDE DEF y
    <3>3. SumFunctionOnSet(f, rest) \in Int /\ SumFunctionOnSet(g, rest) \in Int
      BY <2>1, FS_Subset, SumInt
    <3>4. /\ SumFunctionOnSet(h, rest)
               = SumFunctionOnSet(f, rest) + SumFunctionOnSet(g, rest)
          /\ h[y] = f[y] + g[y] /\ f[y] \in Int /\ g[y] \in Int
      BY <3>1
    <3> HIDE DEF rest
    <3>5. SumFunctionOnSet(h, T) = SumFunctionOnSet(f, T) + SumFunctionOnSet(g, T)
      BY <3>2, <3>3, <3>4
    <3>6. QED BY <3>5
  <2>4. QED BY <2>2, <2>3
<1>2. S \in G
  <2> HIDE DEF G
  <2> QED BY <1>1, SubsetInduction
<1>3. QED BY <1>2

\* A factor can be taken out of a sum.
LEMMA SumScale ==
  ASSUME NEW S, IsFiniteSet(S), NEW c \in Int,
         NEW f, \A x \in S : f[x] \in Int,
         NEW h, \A x \in S : h[x] = f[x] * c
  PROVE  SumFunctionOnSet(h, S) = SumFunctionOnSet(f, S) * c
<1> DEFINE G == {T \in SUBSET S : SumFunctionOnSet(h, T) = SumFunctionOnSet(f, T) * c}
<1>1. ASSUME NEW T \in SUBSET S, \A U \in SUBSET T : U # T => U \in G
      PROVE  T \in G
  <2>1. IsFiniteSet(T)
    BY FS_Subset
  <2>2. CASE T = {}
    BY <2>2, SumEmpty
  <2>3. CASE T # {}
    <3> DEFINE y == Pick(T)
               rest == T \ {y}
    <3>1. y \in T /\ rest \in G
      BY <1>1, <2>3, PickIn
    <3>2. /\ SumFunctionOnSet(f, T) = f[y] + SumFunctionOnSet(f, rest)
          /\ SumFunctionOnSet(h, T) = h[y] + SumFunctionOnSet(h, rest)
      BY <2>1, <2>3, SumEquation
    <3> HIDE DEF y
    <3>3. SumFunctionOnSet(f, rest) \in Int
      BY <2>1, FS_Subset, SumInt
    <3>4. /\ SumFunctionOnSet(h, rest) = SumFunctionOnSet(f, rest) * c
          /\ h[y] = f[y] * c /\ f[y] \in Int
      BY <3>1
    <3> HIDE DEF rest
    <3>5. f[y] * c + SumFunctionOnSet(f, rest) * c = (f[y] + SumFunctionOnSet(f, rest)) * c
      BY <3>3, <3>4
    <3>6. QED BY <3>2, <3>4, <3>5
  <2>4. QED BY <2>2, <2>3
<1>2. S \in G
  <2> HIDE DEF G
  <2> QED BY <1>1, SubsetInduction
<1>3. QED BY <1>2

\* A constant summed over S is taken as often as S has elements.
LEMMA SumConstant ==
  ASSUME NEW S, IsFiniteSet(S), NEW c \in Int, NEW h, \A x \in S : h[x] = c
  PROVE  SumFunctionOnSet(h, S) = Cardinality(S) * c
<1> DEFINE G == {T \in SUBSET S : SumFunctionOnSet(h, T) = Cardinality(T) * c}
<1>1. ASSUME NEW T \in SUBSET S, \A U \in SUBSET T : U # T => U \in G
      PROVE  T \in G
  <2>1. IsFiniteSet(T)
    BY FS_Subset
  <2>2. CASE T = {}
    BY <2>2, SumEmpty, FS_EmptySet
  <2>3. CASE T # {}
    <3> DEFINE y == Pick(T)
               rest == T \ {y}
    <3>1. y \in T /\ rest \in G
      BY <1>1, <2>3, PickIn
    <3>2. SumFunctionOnSet(h, T) = h[y] + SumFunctionOnSet(h, rest)
      BY <2>1, <2>3, SumEquation
    <3> HIDE DEF y
    <3>3. /\ Cardinality(rest) = Cardinality(T) - 1
          /\ Cardinality(T) \in Nat
      BY <2>1, <3>1, FS_RemoveElement, FS_CardinalityType
    <3>4. SumFunctionOnSet(h, rest) = Cardinality(rest) * c /\ h[y] = c
      BY <3>1
    <3> HIDE DEF rest
    <3>5. c + (Cardinality(T) - 1) * c = Cardinality(T) * c
      BY <3>3
    <3>6. QED BY <3>2, <3>3, <3>4, <3>5
  <2>4. QED BY <2>2, <2>3
<1>2. S \in G
  <2> HIDE DEF G
  <2> QED BY <1>1, SubsetInduction
<1>3. QED BY <1>2

-----------------------------------------------------------------------------
(* Parts of a sum, and sums of sums *)

\* Elements that add nothing may be left out.
LEMMA SumSupport ==
  ASSUME NEW S, IsFiniteSet(S), NEW T \in SUBSET S,
         NEW f, \A x \in S : f[x] \in Int, \A x \in S \ T : f[x] = 0
  PROVE  SumFunctionOnSet(f, S) = SumFunctionOnSet(f, T)
<1> DEFINE G == {U \in SUBSET S :
                   SumFunctionOnSet(f, U) = SumFunctionOnSet(f, U \cap T)}
<1>1. ASSUME NEW U \in SUBSET S, \A V \in SUBSET U : V # U => V \in G
      PROVE  U \in G
  <2>1. IsFiniteSet(U) /\ IsFiniteSet(U \cap T)
    BY FS_Subset
  <2>2. CASE U = {}
    BY <2>2
  <2>3. CASE U # {}
    <3> DEFINE y == Pick(U)
               rest == U \ {y}
    <3>1. y \in U /\ rest \in G
      BY <1>1, <2>3, PickIn
    <3>2. SumFunctionOnSet(f, U) = f[y] + SumFunctionOnSet(f, rest)
      BY <2>1, <2>3, SumEquation
    <3> HIDE DEF y
    <3>3. SumFunctionOnSet(f, rest) = SumFunctionOnSet(f, rest \cap T)
      BY <3>1
    <3>4. SumFunctionOnSet(f, rest) \in Int /\ IsFiniteSet(rest)
      BY <2>1, FS_Subset, SumInt
    <3>5. CASE y \in T
      <4>1. (U \cap T) \ {y} = rest \cap T /\ y \in U \cap T
        BY <3>1, <3>5
      <4>2. SumFunctionOnSet(f, U \cap T) = f[y] + SumFunctionOnSet(f, (U \cap T) \ {y})
        BY <2>1, <4>1, SumRemove
      <4>3. QED BY <3>2, <3>3, <4>1, <4>2
    <3>6. CASE y \notin T
      <4>1. rest \cap T = U \cap T /\ f[y] = 0
        BY <3>1, <3>6
      <4>2. SumFunctionOnSet(f, U) = SumFunctionOnSet(f, rest)
        BY <3>2, <3>4, <4>1
      <4>3. SumFunctionOnSet(f, U) = SumFunctionOnSet(f, U \cap T)
        BY <3>3, <4>1, <4>2
      <4>4. QED BY <4>3
    <3>7. QED BY <3>5, <3>6
  <2>4. QED BY <2>2, <2>3
<1>2. S \in G
  <2> HIDE DEF G
  <2> QED BY <1>1, SubsetInduction
<1>3. S \cap T = T
  OBVIOUS
<1>4. QED BY <1>2, <1>3

\* A part of a sum of natural numbers is at most the sum.
LEMMA SumPart ==
  ASSUME NEW S, IsFiniteSet(S), NEW T \in SUBSET S, NEW f, \A x \in S : f[x] \in Nat
  PROVE  SumFunctionOnSet(f, T) <= SumFunctionOnSet(f, S)
<1> DEFINE g == [x \in S |-> IF x \in T THEN f[x] ELSE 0]
<1>1. /\ \A x \in S : g[x] \in Int /\ f[x] \in Int /\ g[x] <= f[x]
      /\ \A x \in T : g[x] = f[x]
      /\ \A x \in S \ T : g[x] = 0
  OBVIOUS
<1> HIDE DEF g
<1>2. SumFunctionOnSet(g, S) = SumFunctionOnSet(g, T)
  BY <1>1, SumSupport
<1>3. SumFunctionOnSet(g, T) = SumFunctionOnSet(f, T)
  BY <1>1, FS_Subset, SumSame
<1>4. SumFunctionOnSet(g, S) <= SumFunctionOnSet(f, S)
  BY <1>1, SumMono
<1>5. QED BY <1>2, <1>3, <1>4

\* A table of integers over S and T, by rows f and by columns g.
Table(S, T, f, g) == \A x \in S, y \in T : f[x][y] \in Int /\ g[y][x] = f[x][y]

\* A table adds up to the same by rows as by columns.
LEMMA SumExchange ==
  ASSUME NEW S, IsFiniteSet(S), NEW T, IsFiniteSet(T),
         NEW f, NEW g, Table(S, T, f, g),
         NEW row, \A x \in S : row[x] = SumFunctionOnSet(f[x], T),
         NEW col, \A y \in T : col[y] = SumFunctionOnSet(g[y], S)
  PROVE  SumFunctionOnSet(row, S) = SumFunctionOnSet(col, T)
<1> DEFINE C(U) == [y \in T |-> SumFunctionOnSet(g[y], U)]
           G == {U \in SUBSET S : SumFunctionOnSet(row, U) = SumFunctionOnSet(C(U), T)}
<1>1. ASSUME NEW U \in SUBSET S, \A V \in SUBSET U : V # U => V \in G
      PROVE  U \in G
  <2>1. IsFiniteSet(U)
    BY FS_Subset
  <2>2. CASE U = {}
    <3>1. \A y \in T : C(U)[y] = 0
      BY <2>2, SumEmpty
    <3> HIDE DEF C
    <3>2. SumFunctionOnSet(C(U), T) = 0
      BY <3>1, SumZero
    <3>3. QED BY <2>2, <3>2, SumEmpty
  <2>3. CASE U # {}
    <3> DEFINE p == Pick(U)
               rest == U \ {p}
    <3>1. p \in U /\ p \in S /\ rest \in G /\ rest \in SUBSET S
      BY <1>1, <2>3, PickIn
    <3>2. SumFunctionOnSet(row, U) = row[p] + SumFunctionOnSet(row, rest)
      BY <2>1, <2>3, SumEquation
    <3>3. IsFiniteSet(rest)
      BY <2>1, FS_Subset
    <3>4. ASSUME NEW y \in T
          PROVE  /\ f[p][y] \in Int /\ C(rest)[y] \in Int
                 /\ C(U)[y] = f[p][y] + C(rest)[y]
      <4>1. SumFunctionOnSet(g[y], U) = g[y][p] + SumFunctionOnSet(g[y], rest)
        BY <2>1, <2>3, SumEquation
      <4>2. SumFunctionOnSet(g[y], rest) \in Int
        <5>1. \A x \in rest : g[y][x] \in Int
          BY <3>1 DEF Table
        <5> HIDE DEF rest
        <5>2. QED BY <3>3, <5>1, SumInt
      <4>3. f[p][y] \in Int /\ g[y][p] = f[p][y]
        BY <3>1 DEF Table
      <4>4. QED BY <4>1, <4>2, <4>3
    <3>5. row[p] = SumFunctionOnSet(f[p], T)
      BY <3>1
    <3>6. SumFunctionOnSet(row, rest) = SumFunctionOnSet(C(rest), T)
      BY <3>1
    <3> HIDE DEF p, C, rest
    <3>7. SumFunctionOnSet(C(U), T)
            = SumFunctionOnSet(f[p], T) + SumFunctionOnSet(C(rest), T)
      BY <3>4, SumPlus
    <3>8. QED BY <3>2, <3>5, <3>6, <3>7
  <2>4. QED BY <2>2, <2>3
<1>2. S \in G
  <2> HIDE DEF G
  <2> QED BY <1>1, SubsetInduction
<1>3. \A y \in T : C(S)[y] = col[y]
  OBVIOUS
<1>4. SumFunctionOnSet(C(S), T) = SumFunctionOnSet(col, T)
  <2> HIDE DEF C
  <2> QED BY <1>3, SumSame
<1>5. QED BY <1>2, <1>4
=============================================================================
