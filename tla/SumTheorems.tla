---------------------------- MODULE SumTheorems ----------------------------
(***************************************************************************)
(* Facts about sums over finite sets, SumFunctionOnSet of Functions, which *)
(* the balances of the keeper and of the observer are.  Each is proved by  *)
(* taking a counterexample that is minimal among the subsets of the set,   *)
(* as is the one on the least number of a finite set.                      *)
(***************************************************************************)
EXTENDS Integers, FiniteSets, Functions, FiniteSetTheorems, WellFoundedInduction, TLAPS

(* The element that the definition of the sum takes first, and the table   *)
(* of sums over the subsets of S that it fills.                            *)
Pick(s) == CHOOSE x \in s : TRUE

IsSum(g, f, S) ==
    g = [s \in SUBSET S |-> IF s = {} THEN 0 ELSE f[Pick(s)] + g[s \ {Pick(s)}]]

(* A set of subsets of a finite set has a minimal member: the induction of *)
(* the lemmas below takes a minimal counterexample.                        *)
LEMMA MinimalSubset ==
    ASSUME NEW S, IsFiniteSet(S), NEW T \in SUBSET (SUBSET S), T # {}
    PROVE  \E t \in T : \A u \in T : u \subseteq t => u = t
<1> DEFINE R == StrictSubsetOrdering(S)
           F == FiniteSubsetsOf(S)
<1>1. IsWellFoundedOn(R, F)
  BY FS_StrictSubsetOrderingWellFounded
<1>2. T \subseteq F
  BY FS_Subset DEF FiniteSubsetsOf
<1> HIDE DEF R, F
<1>3. \E t \in T : \A u \in T : ~(<<u, t>> \in R)
  BY <1>1, <1>2, WFMin
<1>4. \A t \in T, u \in T : u \subseteq t /\ u # t => <<u, t>> \in R
  BY <1>2 DEF R, StrictSubsetOrdering, F, FiniteSubsetsOf
<1> QED
  BY <1>3, <1>4

(* A finite set of numbers that is not empty has a least element.          *)
LEMMA LeastOf ==
    ASSUME NEW S, IsFiniteSet(S)
    PROVE  \A s \in SUBSET S : s # {} /\ s \subseteq Nat => \E x \in s : \A y \in s : x <= y
<1> DEFINE Least(s) == \E x \in s : \A y \in s : x <= y
           Bad == {s \in SUBSET S : s # {} /\ s \subseteq Nat /\ ~Least(s)}
<1> SUFFICES ASSUME Bad # {} PROVE FALSE
  BY Zenon
<1>1. Bad \in SUBSET (SUBSET S)
  BY Zenon
<1> HIDE DEF Least, Bad
<1>2. PICK t \in Bad : \A u \in Bad : u \subseteq t => u = t
  BY <1>1, MinimalSubset
<1>3. t \subseteq S /\ t # {} /\ t \subseteq Nat /\ ~Least(t)
  BY DEF Bad
<1>4. PICK x : x \in t
  BY <1>3
<1>5. CASE t \ {x} = {}
  BY <1>3, <1>4, <1>5 DEF Least
<1>6. CASE t \ {x} # {}
  <2>1. t \ {x} \notin Bad /\ t \ {x} \subseteq S /\ t \ {x} \subseteq Nat
    BY <1>2, <1>3, <1>4, Zenon
  <2>2. Least(t \ {x})
    BY <2>1, <1>6, Zenon DEF Bad
  <2>3. PICK z \in t \ {x} : \A y \in t \ {x} : z <= y
    BY <2>2 DEF Least
  <2>4. x \in Nat /\ z \in Nat
    BY <1>3, <1>4, <2>3
  <2>5. Least(t)
    BY <1>3, <1>4, <2>3, <2>4 DEF Least
  <2> QED
    BY <1>3, <2>5
<1> QED
  BY <1>5, <1>6

(* What a table of the sums over the subsets of S holds.                   *)
LEMMA SumUnfolds ==
    ASSUME NEW g, NEW f, NEW S, IsSum(g, f, S), NEW s \in SUBSET S
    PROVE  /\ s = {} => g[s] = 0
           /\ s # {} => g[s] = f[Pick(s)] + g[s \ {Pick(s)}]
  BY DEF IsSum

(* The chosen element is one of the set.                                   *)
LEMMA PickIn ==
    ASSUME NEW s, s # {}
    PROVE  Pick(s) \in s
  BY DEF Pick

(* Two such tables agree where both are defined.                           *)
LEMMA SumUnique ==
    ASSUME NEW f, NEW S, IsFiniteSet(S), NEW T \in SUBSET S,
           NEW g, IsSum(g, f, S), NEW h, IsSum(h, f, T)
    PROVE  \A s \in SUBSET T : g[s] = h[s]
<1> DEFINE Bad == {s \in SUBSET T : g[s] # h[s]}
<1> SUFFICES ASSUME Bad # {} PROVE FALSE
  OBVIOUS
<1>1. IsFiniteSet(T) /\ Bad \in SUBSET (SUBSET T)
  BY FS_Subset
<1> HIDE DEF Bad
<1>2. PICK s \in Bad : \A u \in Bad : u \subseteq s => u = s
  BY <1>1, MinimalSubset
<1>3. s \in SUBSET T /\ s \in SUBSET S /\ g[s] # h[s]
  BY <1>2 DEF Bad
<1>4. s # {}
  BY <1>3, SumUnfolds
<1>5. Pick(s) \in s
  BY <1>4, PickIn
<1>6. g[s \ {Pick(s)}] = h[s \ {Pick(s)}]
  BY <1>2, <1>3, <1>5 DEF Bad
<1> QED
  BY <1>3, <1>4, <1>6, SumUnfolds

(* There is such a table for every finite set.                             *)
LEMMA SumExists ==
    ASSUME NEW f, NEW S, IsFiniteSet(S)
    PROVE  \E g : IsSum(g, f, S)
<1> DEFINE Bad == {s \in SUBSET S : ~ \E g : IsSum(g, f, s)}
<1> SUFFICES ASSUME Bad # {} PROVE FALSE
  OBVIOUS
<1>1. Bad \in SUBSET (SUBSET S)
  OBVIOUS
<1> HIDE DEF Bad
<1>2. PICK s \in Bad : \A u \in Bad : u \subseteq s => u = s
  BY <1>1, MinimalSubset
<1>3. s \in SUBSET S /\ ~ \E g : IsSum(g, f, s)
  BY <1>2 DEF Bad
<1> DEFINE G(u) == CHOOSE g : IsSum(g, f, u)
           h == [u \in SUBSET s |-> IF u = {} THEN 0
                                    ELSE f[Pick(u)] + G(u \ {Pick(u)})[u \ {Pick(u)}]]
<1>4. ASSUME NEW u \in SUBSET s, u # s
      PROVE  IsSum(G(u), f, u)
  <2>1. u \notin Bad
    BY <1>2, <1>4
  <2>2. \E g : IsSum(g, f, u)
    BY <1>3, <2>1 DEF Bad
  <2> QED
    BY <2>2
<1>5. ASSUME NEW u \in SUBSET s, u # {}
      PROVE  h[u \ {Pick(u)}] = G(u \ {Pick(u)})[u \ {Pick(u)}]
  <2> DEFINE v == u \ {Pick(u)}
  <2>1. Pick(u) \in u
    BY <1>5, PickIn
  <2>2. v \in SUBSET s /\ v # s
    BY <2>1
  <2>3. IsSum(G(v), f, v)
    BY <1>4, <2>2
  <2> HIDE DEF G, v
  <2>4. CASE v = {}
    <3>1. G(v)[v] = 0
      BY <2>3, <2>4, SumUnfolds
    <3>2. h[v] = 0
      BY <2>2, <2>4
    <3> QED
      BY <3>1, <3>2 DEF v
  <2>5. CASE v # {}
    <3> DEFINE w == v \ {Pick(v)}
    <3>1. Pick(v) \in v
      BY <2>5, PickIn
    <3>2. w \in SUBSET s /\ w # s /\ w \in SUBSET v
      BY <2>2, <3>1
    <3>3. G(v)[v] = f[Pick(v)] + G(v)[w]
      BY <2>3, <2>5, SumUnfolds
    <3>4. h[v] = f[Pick(v)] + G(w)[w]
      BY <2>2, <2>5
    <3>5. IsSum(G(w), f, w)
      BY <1>4, <3>2 DEF G
    <3>6. IsFiniteSet(v)
      BY <1>3, <2>2, FS_Subset
    <3> HIDE DEF h, w
    <3>7. G(v)[w] = G(w)[w]
      BY <2>3, <3>2, <3>5, <3>6, SumUnique
    <3> QED
      BY <3>3, <3>4, <3>7 DEF v
  <2> QED
    BY <2>4, <2>5
<1>6. h = [u \in SUBSET s |-> IF u = {} THEN 0 ELSE f[Pick(u)] + h[u \ {Pick(u)}]]
  <2> HIDE DEF G
  <2> QED
    BY <1>5
<1>7. IsSum(h, f, s)
  <2> HIDE DEF h
  <2> QED
    BY <1>6 DEF IsSum
<1> QED
  BY <1>3, <1>7

(* SumFunctionOnSet reads the sum from such a table.                       *)
LEMMA SumIs ==
    ASSUME NEW f, NEW S, IsFiniteSet(S)
    PROVE  \E g : IsSum(g, f, S) /\ SumFunctionOnSet(f, S) = g[S]
<1> DEFINE I(g) == g = [s \in SUBSET S |-> IF s = {} THEN 0
                          ELSE f[CHOOSE x \in s : TRUE] + g[s \ {CHOOSE x \in s : TRUE}]]
           G == CHOOSE g : I(g)
<1>1. SumFunctionOnSet(f, S) = G[S]
  BY DEF SumFunctionOnSet, FoldFunctionOnSet, MapThenFoldSet
<1>2. \A g : IsSum(g, f, S) <=> I(g)
  BY DEF IsSum, Pick
<1> HIDE DEF I
<1>3. \E g : I(g)
  BY <1>2, SumExists
<1>4. I(G)
  BY <1>3
<1> QED
  BY <1>1, <1>2, <1>4

(* The sum over a set is the chosen value and the sum over the others.     *)
LEMMA SumStep ==
    ASSUME NEW f, NEW S, IsFiniteSet(S)
    PROVE  /\ S = {} => SumFunctionOnSet(f, S) = 0
           /\ S # {} => SumFunctionOnSet(f, S) = f[Pick(S)] + SumFunctionOnSet(f, S \ {Pick(S)})
<1>1. PICK g : IsSum(g, f, S) /\ SumFunctionOnSet(f, S) = g[S]
  BY SumIs
<1>2. S \in SUBSET S
  OBVIOUS
<1>3. ASSUME S # {}
      PROVE  SumFunctionOnSet(f, S \ {Pick(S)}) = g[S \ {Pick(S)}]
  <2> DEFINE T == S \ {Pick(S)}
  <2>1. T \in SUBSET S /\ T \in SUBSET T
    OBVIOUS
  <2>2. IsFiniteSet(T)
    BY FS_Subset, <2>1
  <2> HIDE DEF T
  <2>3. PICK h : IsSum(h, f, T) /\ SumFunctionOnSet(f, T) = h[T]
    BY SumIs, <2>2
  <2>4. g[T] = h[T]
    BY <1>1, <2>1, <2>3, SumUnique
  <2> QED
    BY <2>3, <2>4 DEF T
<1> QED
  BY <1>1, <1>2, <1>3, SumUnfolds

(* The empty sum is zero.                                                  *)
LEMMA SumEmpty ==
    ASSUME NEW f
    PROVE  SumFunctionOnSet(f, {}) = 0
  BY SumStep, FS_EmptySet

(* A sum of integers is an integer.                                        *)
LEMMA SumInt ==
    ASSUME NEW f, NEW S, IsFiniteSet(S), \A x \in S : f[x] \in Int
    PROVE  SumFunctionOnSet(f, S) \in Int
<1> DEFINE Bad == {s \in SUBSET S : SumFunctionOnSet(f, s) \notin Int}
<1> SUFFICES ASSUME Bad # {} PROVE FALSE
  OBVIOUS
<1>1. Bad \in SUBSET (SUBSET S)
  OBVIOUS
<1> HIDE DEF Bad
<1>2. PICK s \in Bad : \A u \in Bad : u \subseteq s => u = s
  BY <1>1, MinimalSubset
<1>3. s \in SUBSET S /\ SumFunctionOnSet(f, s) \notin Int
  BY <1>2 DEF Bad
<1>4. IsFiniteSet(s)
  BY <1>3, FS_Subset
<1>5. s # {}
  BY <1>3, SumEmpty
<1>6. Pick(s) \in s
  BY <1>5, PickIn
<1>7. SumFunctionOnSet(f, s \ {Pick(s)}) \in Int
  BY <1>2, <1>3, <1>6 DEF Bad
<1>8. SumFunctionOnSet(f, s) = f[Pick(s)] + SumFunctionOnSet(f, s \ {Pick(s)})
  BY <1>4, <1>5, SumStep
<1> QED
  BY <1>3, <1>6, <1>7, <1>8

(* A sum of natural numbers is a natural number.                           *)
LEMMA SumNat ==
    ASSUME NEW f, NEW S, IsFiniteSet(S), \A x \in S : f[x] \in Nat
    PROVE  SumFunctionOnSet(f, S) \in Nat
<1> DEFINE Bad == {s \in SUBSET S : SumFunctionOnSet(f, s) \notin Nat}
<1> SUFFICES ASSUME Bad # {} PROVE FALSE
  OBVIOUS
<1>1. Bad \in SUBSET (SUBSET S)
  OBVIOUS
<1> HIDE DEF Bad
<1>2. PICK s \in Bad : \A u \in Bad : u \subseteq s => u = s
  BY <1>1, MinimalSubset
<1>3. s \in SUBSET S /\ SumFunctionOnSet(f, s) \notin Nat
  BY <1>2 DEF Bad
<1>4. IsFiniteSet(s)
  BY <1>3, FS_Subset
<1>5. s # {}
  BY <1>3, SumEmpty
<1>6. Pick(s) \in s
  BY <1>5, PickIn
<1>7. SumFunctionOnSet(f, s \ {Pick(s)}) \in Nat
  BY <1>2, <1>3, <1>6 DEF Bad
<1>8. SumFunctionOnSet(f, s) = f[Pick(s)] + SumFunctionOnSet(f, s \ {Pick(s)})
  BY <1>4, <1>5, SumStep
<1> QED
  BY <1>3, <1>6, <1>7, <1>8

(* Any element of the set may be taken out of the sum.                     *)
LEMMA SumRemove ==
    ASSUME NEW f, NEW S, IsFiniteSet(S), \A x \in S : f[x] \in Int, NEW e \in S
    PROVE  SumFunctionOnSet(f, S) = f[e] + SumFunctionOnSet(f, S \ {e})
<1> DEFINE Splits(s) == \A d \in s : SumFunctionOnSet(f, s) = f[d] + SumFunctionOnSet(f, s \ {d})
           Bad == {s \in SUBSET S : ~ Splits(s)}
<1> SUFFICES ASSUME Bad # {} PROVE FALSE
  OBVIOUS
<1>1. Bad \in SUBSET (SUBSET S)
  OBVIOUS
<1> HIDE DEF Bad
<1>2. PICK s \in Bad : \A u \in Bad : u \subseteq s => u = s
  BY <1>1, MinimalSubset
<1>3. s \in SUBSET S /\ ~ Splits(s)
  BY <1>2 DEF Bad
<1>4. PICK d \in s : SumFunctionOnSet(f, s) # f[d] + SumFunctionOnSet(f, s \ {d})
  BY <1>3
<1> DEFINE p == Pick(s)
<1>5. p \in s
  BY <1>4, PickIn
<1>6. SumFunctionOnSet(f, s) = f[p] + SumFunctionOnSet(f, s \ {p})
  BY <1>3, <1>4, FS_Subset, SumStep
<1> HIDE DEF p
<1>7. p # d
  BY <1>4, <1>6
<1>8. s \ {p} \in SUBSET S /\ s \ {d} \in SUBSET S /\ s \ {p, d} \in SUBSET S
  BY <1>3
<1>9. s \ {p} \notin Bad /\ s \ {d} \notin Bad
  BY <1>2, <1>4, <1>5
<1>10. Splits(s \ {p}) /\ Splits(s \ {d})
  BY <1>8, <1>9 DEF Bad
<1>11. (s \ {p}) \ {d} = s \ {p, d} /\ (s \ {d}) \ {p} = s \ {p, d}
  OBVIOUS
<1>12. d \in s \ {p} /\ p \in s \ {d}
  BY <1>5, <1>7
<1>13. /\ SumFunctionOnSet(f, s \ {p}) = f[d] + SumFunctionOnSet(f, s \ {p, d})
       /\ SumFunctionOnSet(f, s \ {d}) = f[p] + SumFunctionOnSet(f, s \ {p, d})
  BY <1>10, <1>11, <1>12
<1>14. SumFunctionOnSet(f, s \ {p, d}) \in Int /\ f[p] \in Int /\ f[d] \in Int
  BY <1>3, <1>5, <1>8, FS_Subset, SumInt
<1> HIDE DEF Splits
<1> QED
  BY <1>4, <1>6, <1>13, <1>14

(* One more element adds its value.                                        *)
LEMMA SumAdd ==
    ASSUME NEW f, NEW S, IsFiniteSet(S), \A x \in S : f[x] \in Int,
           NEW e, e \notin S, f[e] \in Int
    PROVE  SumFunctionOnSet(f, S \cup {e}) = SumFunctionOnSet(f, S) + f[e]
<1>1. IsFiniteSet(S \cup {e})
  BY FS_AddElement
<1>2. (S \cup {e}) \ {e} = S
  OBVIOUS
<1>3. SumFunctionOnSet(f, S \cup {e}) = f[e] + SumFunctionOnSet(f, S)
  BY <1>1, <1>2, SumRemove
<1> QED
  BY <1>3, SumInt

(* The sum depends on the values on the set only.                          *)
LEMMA SumSame ==
    ASSUME NEW f, NEW g, NEW S, IsFiniteSet(S), \A x \in S : f[x] = g[x]
    PROVE  SumFunctionOnSet(f, S) = SumFunctionOnSet(g, S)
<1> DEFINE Bad == {s \in SUBSET S : SumFunctionOnSet(f, s) # SumFunctionOnSet(g, s)}
<1> SUFFICES ASSUME Bad # {} PROVE FALSE
  OBVIOUS
<1>1. Bad \in SUBSET (SUBSET S)
  OBVIOUS
<1> HIDE DEF Bad
<1>2. PICK s \in Bad : \A u \in Bad : u \subseteq s => u = s
  BY <1>1, MinimalSubset
<1>3. s \in SUBSET S /\ SumFunctionOnSet(f, s) # SumFunctionOnSet(g, s)
  BY <1>2 DEF Bad
<1>4. IsFiniteSet(s)
  BY <1>3, FS_Subset
<1>5. s # {}
  BY <1>3, SumEmpty
<1>6. Pick(s) \in s
  BY <1>5, PickIn
<1>7. SumFunctionOnSet(f, s \ {Pick(s)}) = SumFunctionOnSet(g, s \ {Pick(s)})
  BY <1>2, <1>3, <1>6 DEF Bad
<1> QED
  BY <1>3, <1>4, <1>5, <1>6, <1>7, SumStep

(* When one value changes, the sum changes by as much.                     *)
LEMMA SumChange ==
    ASSUME NEW f, NEW g, NEW S, IsFiniteSet(S), NEW e \in S,
           \A x \in S : f[x] \in Int /\ g[x] \in Int,
           \A x \in S \ {e} : f[x] = g[x]
    PROVE  SumFunctionOnSet(g, S) = SumFunctionOnSet(f, S) - f[e] + g[e]
<1> DEFINE T == S \ {e}
<1>1. IsFiniteSet(T)
  BY FS_Subset
<1>2. SumFunctionOnSet(f, T) = SumFunctionOnSet(g, T)
  BY <1>1, SumSame
<1>3. SumFunctionOnSet(f, T) \in Int
  BY <1>1, SumInt
<1>4. /\ SumFunctionOnSet(f, S) = f[e] + SumFunctionOnSet(f, T)
      /\ SumFunctionOnSet(g, S) = g[e] + SumFunctionOnSet(g, T)
  BY SumRemove
<1> QED
  BY <1>2, <1>3, <1>4

(* The sum over two disjoint sets is the sum of their sums.                *)
LEMMA SumUnion ==
    ASSUME NEW f, NEW S, IsFiniteSet(S), NEW T, IsFiniteSet(T), S \cap T = {},
           \A x \in S \cup T : f[x] \in Int
    PROVE  SumFunctionOnSet(f, S \cup T) = SumFunctionOnSet(f, S) + SumFunctionOnSet(f, T)
<1> DEFINE Good(t) == SumFunctionOnSet(f, S \cup t) = SumFunctionOnSet(f, S) + SumFunctionOnSet(f, t)
           Bad == {t \in SUBSET T : ~ Good(t)}
<1> SUFFICES ASSUME Bad # {} PROVE FALSE
  OBVIOUS
<1>1. Bad \in SUBSET (SUBSET T)
  OBVIOUS
<1> HIDE DEF Bad
<1>2. PICK t \in Bad : \A u \in Bad : u \subseteq t => u = t
  BY <1>1, MinimalSubset
<1>3. t \in SUBSET T /\ ~ Good(t)
  BY <1>2 DEF Bad
<1>4. IsFiniteSet(t) /\ IsFiniteSet(S \cup t)
  BY <1>3, FS_Subset, FS_Union
<1>5. SumFunctionOnSet(f, S) \in Int
  BY SumInt
<1>6. t # {}
  <2>1. S \cup {} = S
    OBVIOUS
  <2> QED
    BY <1>3, <1>5, <2>1, SumEmpty
<1> DEFINE p == Pick(t)
           u == t \ {p}
<1>7. p \in t
  BY <1>6, PickIn
<1> HIDE DEF p
<1>8. u \in SUBSET T /\ IsFiniteSet(u) /\ Good(u)
  BY <1>2, <1>3, <1>7, FS_Subset DEF Bad
<1>9. SumFunctionOnSet(f, t) = f[p] + SumFunctionOnSet(f, u)
  BY <1>3, <1>4, <1>7, SumRemove
<1>10. (S \cup t) \ {p} = S \cup u /\ p \in S \cup t
  BY <1>3, <1>7
<1>11. SumFunctionOnSet(f, S \cup t) = f[p] + SumFunctionOnSet(f, S \cup u)
  BY <1>3, <1>4, <1>10, SumRemove
<1>12. SumFunctionOnSet(f, u) \in Int /\ f[p] \in Int
  BY <1>3, <1>7, <1>8, SumInt
<1> HIDE DEF u
<1> QED
  BY <1>3, <1>5, <1>8, <1>9, <1>11, <1>12

(* A sum of zeros is zero.                                                 *)
LEMMA SumZero ==
    ASSUME NEW S, IsFiniteSet(S)
    PROVE  SumFunctionOnSet([x \in S |-> 0], S) = 0
<1> DEFINE f == [x \in S |-> 0]
           Bad == {s \in SUBSET S : SumFunctionOnSet(f, s) # 0}
<1> SUFFICES ASSUME Bad # {} PROVE FALSE
  OBVIOUS
<1>1. Bad \in SUBSET (SUBSET S)
  OBVIOUS
<1>0. \A x \in S : f[x] = 0
  OBVIOUS
<1> HIDE DEF f
<1>2. \A s \in Bad : s \in SUBSET S /\ SumFunctionOnSet(f, s) # 0
  OBVIOUS
<1>3. \A s \in SUBSET S : s \in Bad \/ SumFunctionOnSet(f, s) = 0
  OBVIOUS
<1> HIDE DEF Bad
<1>4. PICK s \in Bad : \A u \in Bad : u \subseteq s => u = s
  BY <1>1, MinimalSubset
<1>5. IsFiniteSet(s) /\ s \in SUBSET S
  BY <1>2, FS_Subset
<1>6. s # {}
  BY <1>2, SumEmpty
<1>7. Pick(s) \in s
  BY <1>6, PickIn
<1>8. SumFunctionOnSet(f, s \ {Pick(s)}) = 0
  BY <1>3, <1>4, <1>5, <1>7
<1>9. SumFunctionOnSet(f, s) = f[Pick(s)] + SumFunctionOnSet(f, s \ {Pick(s)})
  BY <1>5, <1>6, SumStep
<1> QED
  BY <1>0, <1>2, <1>5, <1>7, <1>8, <1>9

=============================================================================
