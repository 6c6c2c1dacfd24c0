----------------------------- MODULE SumTheorems -----------------------------
(***************************************************************************)
(* What SumFunctionOnSet(f, S), the sum of f[x] over the elements x of a   *)
(* finite set S, computes.  The operator is a fold over the elements in an *)
(* order that CHOOSE fixes; here it is shown to be the same in every       *)
(* order.                                                                  *)
(*                                                                         *)
(* Induction is over a set instead of a predicate: a collection G of sets  *)
(* that contains every finite set whose proper subsets it contains, has    *)
(* all of them (SubsetInduction).                                          *)
(***************************************************************************)
EXTENDS Integers, FiniteSets, FiniteSetsExt, FiniteSetTheorems, WellFoundedInduction, TLAPS

-----------------------------------------------------------------------------
(* Induction over the subsets of a finite set *)

Less == {p \in Nat \X Nat : p[1] < p[2]}

LEMMA LessWellFounded == IsWellFoundedOn(Less, Nat)
BY NatLessThanWellFounded DEF OpToRel, Less

\* A set of naturals has a least element.
LEMMA LeastNumber ==
    ASSUME NEW N \in SUBSET Nat, N # {}
    PROVE  \E n \in N : \A m \in N : n <= m
<1>1. PICK n \in N : \A m \in N : ~(<<m, n>> \in Less)
  BY LessWellFounded, WFMin
<1>2. ASSUME NEW m \in N PROVE n <= m
  <2>1. <<m, n>> \notin Less
    BY <1>1
  <2>2. m \in Nat /\ n \in Nat
    OBVIOUS
  <2>3. ~(m < n)
    BY <2>1, <2>2 DEF Less
  <2>. QED
    BY <2>2, <2>3
<1>. QED
  BY <1>2

LEMMA SubsetInduction ==
    ASSUME NEW S, IsFiniteSet(S), NEW G,
           ASSUME NEW T \in SUBSET S, IsFiniteSet(T), \A U \in SUBSET T : U # T => U \in G
           PROVE  T \in G
    PROVE  S \in G
<1>. DEFINE N == {Cardinality(T) : T \in {T \in SUBSET S : T \notin G}}
<1>. SUFFICES ASSUME S \notin G PROVE FALSE
  OBVIOUS
<1>1. \A T \in SUBSET S : IsFiniteSet(T) /\ Cardinality(T) \in Nat
  BY FS_Subset, FS_CardinalityType
<1>2. N \in SUBSET Nat /\ N # {}
  BY <1>1
<1>3. PICK n \in N : \A m \in N : n <= m
  BY <1>2, LeastNumber
<1>4. PICK T \in SUBSET S : Cardinality(T) = n /\ T \notin G
  BY <1>3
<1>5. ASSUME NEW U \in SUBSET T, U # T PROVE U \in G
  <2>1. Cardinality(U) <= Cardinality(T) /\ Cardinality(T) # Cardinality(U)
    BY <1>1, <1>5, FS_Subset
  <2>2. U \notin G => n <= Cardinality(U)
    BY <1>3
  <2>. QED
    BY <1>1, <1>4, <2>1, <2>2
<1>. QED
  BY <1>1, <1>4, <1>5

-----------------------------------------------------------------------------
(* The fold is well defined *)

\* The element of T that is taken first.
First(T) == CHOOSE x \in T : TRUE

\* g is the fold of f over the subsets of S.
Unfolds(f, S, g) ==
    g = [T \in SUBSET S |-> IF T = {} THEN 0 ELSE LET x == CHOOSE x \in T : TRUE
                                                  IN  f[x] + g[T \ {x}]]

Fold(f, S) == CHOOSE g : Unfolds(f, S, g)

LEMMA SumIsFold ==
    ASSUME NEW f, NEW S
    PROVE  SumFunctionOnSet(f, S) = Fold(f, S)[S]
BY DEF SumFunctionOnSet, FoldFunctionOnSet, MapThenFoldSet, Unfolds, Fold

LEMMA FirstInSet ==
    ASSUME NEW T, T # {} PROVE First(T) \in T
BY DEF First

LEMMA UnfoldsValue ==
    ASSUME NEW f, NEW S, NEW g, Unfolds(f, S, g), NEW T \in SUBSET S
    PROVE  g[T] = IF T = {} THEN 0 ELSE f[First(T)] + g[T \ {First(T)}]
<1>1. g = [U \in SUBSET S |-> IF U = {} THEN 0 ELSE f[First(U)] + g[U \ {First(U)}]]
  BY DEF Unfolds, First
<1>. DEFINE h == [U \in SUBSET S |-> IF U = {} THEN 0 ELSE f[First(U)] + g[U \ {First(U)}]]
<1>2. h[T] = IF T = {} THEN 0 ELSE f[First(T)] + g[T \ {First(T)}]
  OBVIOUS
<1>3. g = h
  BY <1>1
<1>. QED
  BY <1>2, <1>3

LEMMA UnfoldsIntro ==
    ASSUME NEW f, NEW S, NEW g, g = [T \in SUBSET S |-> g[T]],
           \A T \in SUBSET S : g[T] = IF T = {} THEN 0 ELSE f[First(T)] + g[T \ {First(T)}]
    PROVE  Unfolds(f, S, g)
<1>1. g = [T \in SUBSET S |-> IF T = {} THEN 0 ELSE f[First(T)] + g[T \ {First(T)}]]
  OBVIOUS
<1>. QED
  BY <1>1 DEF Unfolds, First

LEMMA UnfoldsUnique ==
    ASSUME NEW f, NEW S, IsFiniteSet(S), NEW g, NEW h, NEW R, S \subseteq R,
           Unfolds(f, S, g), Unfolds(f, R, h)
    PROVE  g[S] = h[S]
<1>. DEFINE G == {T \in SUBSET S : g[T] = h[T]}
<1>1. ASSUME NEW T \in SUBSET S, \A U \in SUBSET T : U # T => U \in G
      PROVE  T \in G
  <2>1. T \in SUBSET R
    OBVIOUS
  <2>2. ASSUME T # {} PROVE g[T \ {First(T)}] = h[T \ {First(T)}]
    BY <1>1, <2>2, FirstInSet
  <2>. QED
    BY <2>1, <2>2, UnfoldsValue
<1>. HIDE DEF G
<1>2. S \in G
  BY <1>1, SubsetInduction
<1>. QED
  BY <1>2 DEF G

LEMMA UnfoldsExists ==
    ASSUME NEW f, NEW S, IsFiniteSet(S)
    PROVE  Unfolds(f, S, Fold(f, S))
<1>. DEFINE G == {T \in SUBSET S : Unfolds(f, T, Fold(f, T))}
<1>1. ASSUME NEW T \in SUBSET S, IsFiniteSet(T), \A U \in SUBSET T : U # T => U \in G
      PROVE  T \in G
  <2>. DEFINE g == [U \in SUBSET T |-> IF U = {} THEN 0
                        ELSE f[First(U)] + Fold(f, U \ {First(U)})[U \ {First(U)}]]
  <2>1. \A U \in SUBSET T : IsFiniteSet(U) /\ (U # T => Unfolds(f, U, Fold(f, U)))
    BY <1>1, FS_Subset
  <2>2. ASSUME NEW U \in SUBSET T, U # T PROVE g[U] = Fold(f, U)[U]
    <3>1. Unfolds(f, U, Fold(f, U))
      BY <2>1, <2>2
    <3>2. Fold(f, U)[U] = IF U = {} THEN 0
                          ELSE f[First(U)] + Fold(f, U)[U \ {First(U)}]
      BY <3>1, UnfoldsValue
    <3>3. ASSUME U # {}
          PROVE  Fold(f, U)[U \ {First(U)}] = Fold(f, U \ {First(U)})[U \ {First(U)}]
      <4>. DEFINE V == U \ {First(U)}
      <4>1. V \in SUBSET T /\ V # T /\ V \subseteq U
        BY <2>2
      <4>2. Unfolds(f, V, Fold(f, V)) /\ IsFiniteSet(V)
        BY <2>1, <4>1
      <4>. HIDE DEF V
      <4>3. Fold(f, V)[V] = Fold(f, U)[V]
        BY <3>1, <4>1, <4>2, UnfoldsUnique
      <4>. QED
        BY <4>3 DEF V
    <3>4. g[U] = IF U = {} THEN 0
                 ELSE f[First(U)] + Fold(f, U \ {First(U)})[U \ {First(U)}]
      OBVIOUS
    <3>. QED
      BY <3>2, <3>3, <3>4
  <2>3. ASSUME NEW U \in SUBSET T
        PROVE  g[U] = IF U = {} THEN 0 ELSE f[First(U)] + g[U \ {First(U)}]
    <3>1. g[U] = IF U = {} THEN 0
                 ELSE f[First(U)] + Fold(f, U \ {First(U)})[U \ {First(U)}]
      OBVIOUS
    <3>2. ASSUME U # {} PROVE U \ {First(U)} \in SUBSET T /\ U \ {First(U)} # T
      BY <3>2, FirstInSet
    <3>. HIDE DEF g
    <3>. QED
      BY <2>2, <3>1, <3>2
  <2>4. g = [U \in SUBSET T |-> g[U]]
    OBVIOUS
  <2>. HIDE DEF g
  <2>5. Unfolds(f, T, g)
    BY <2>3, <2>4, UnfoldsIntro
  <2>6. Unfolds(f, T, Fold(f, T))
    BY <2>5 DEF Fold
  <2>. QED
    BY <2>6
<1>. HIDE DEF G
<1>2. S \in G
  BY <1>1, SubsetInduction
<1>. QED
  BY <1>2 DEF G

LEMMA SumEmpty ==
    ASSUME NEW f PROVE SumFunctionOnSet(f, {}) = 0
<1>1. Unfolds(f, {}, Fold(f, {}))
  BY UnfoldsExists, FS_EmptySet
<1>2. Fold(f, {})[{}] = 0
  BY <1>1, UnfoldsValue
<1>. QED
  BY <1>2, SumIsFold

LEMMA SumFirst ==
    ASSUME NEW f, NEW S, IsFiniteSet(S), S # {}
    PROVE  SumFunctionOnSet(f, S) = f[First(S)] + SumFunctionOnSet(f, S \ {First(S)})
<1>. DEFINE T == S \ {First(S)}
<1>1. IsFiniteSet(T) /\ T \subseteq S
  BY FS_RemoveElement
<1>2. Fold(f, S)[S] = f[First(S)] + Fold(f, S)[T]
  BY UnfoldsExists, UnfoldsValue
<1>. HIDE DEF T
<1>3. Unfolds(f, S, Fold(f, S)) /\ Unfolds(f, T, Fold(f, T))
  BY <1>1, UnfoldsExists
<1>4. Fold(f, T)[T] = Fold(f, S)[T]
  BY <1>1, <1>3, UnfoldsUnique
<1>. QED
  BY <1>2, <1>4, SumIsFold DEF T

-----------------------------------------------------------------------------
(* Sums in any order *)

\* What holds of the empty set, and of a set if it holds without the element that
\* is taken first, holds of S.
LEMMA SumInduction ==
    ASSUME NEW S, IsFiniteSet(S), NEW G, {} \in G,
           ASSUME NEW T \in SUBSET S, IsFiniteSet(T), First(T) \in T, T \ {First(T)} \in G
           PROVE  T \in G
    PROVE  S \in G
<1>1. ASSUME NEW T \in SUBSET S, IsFiniteSet(T), \A U \in SUBSET T : U # T => U \in G
      PROVE  T \in G
  <2>1. CASE T = {}
    BY <2>1
  <2>2. CASE T # {}
    <3>1. First(T) \in T /\ T \ {First(T)} \in G
      BY <1>1, <2>2, FirstInSet
    <3>. QED
      BY <1>1, <3>1
  <2>. QED
    BY <2>1, <2>2
<1>. QED
  BY <1>1, SubsetInduction

LEMMA SumInt ==
    ASSUME NEW f, NEW S, IsFiniteSet(S), \A x \in S : f[x] \in Int
    PROVE  SumFunctionOnSet(f, S) \in Int
<1>. DEFINE G == {T \in SUBSET S : SumFunctionOnSet(f, T) \in Int}
<1>1. {} \in G
  BY SumEmpty
<1>2. ASSUME NEW T \in SUBSET S, IsFiniteSet(T), First(T) \in T, T \ {First(T)} \in G
      PROVE  T \in G
  <2>1. SumFunctionOnSet(f, T) = f[First(T)] + SumFunctionOnSet(f, T \ {First(T)})
    BY <1>2, SumFirst
  <2>. QED
    BY <1>2, <2>1
<1>. HIDE DEF G
<1>3. S \in G
  BY <1>1, <1>2, SumInduction
<1>. QED
  BY <1>3 DEF G

LEMMA SumNat ==
    ASSUME NEW f, NEW S, IsFiniteSet(S), \A x \in S : f[x] \in Nat
    PROVE  SumFunctionOnSet(f, S) \in Nat
<1>. DEFINE G == {T \in SUBSET S : SumFunctionOnSet(f, T) \in Nat}
<1>1. {} \in G
  BY SumEmpty
<1>2. ASSUME NEW T \in SUBSET S, IsFiniteSet(T), First(T) \in T, T \ {First(T)} \in G
      PROVE  T \in G
  <2>1. SumFunctionOnSet(f, T) = f[First(T)] + SumFunctionOnSet(f, T \ {First(T)})
    BY <1>2, SumFirst
  <2>. QED
    BY <1>2, <2>1
<1>. HIDE DEF G
<1>3. S \in G
  BY <1>1, <1>2, SumInduction
<1>. QED
  BY <1>3 DEF G

LEMMA SumZero ==
    ASSUME NEW f, NEW S, IsFiniteSet(S), \A x \in S : f[x] = 0
    PROVE  SumFunctionOnSet(f, S) = 0
<1>. DEFINE G == {T \in SUBSET S : SumFunctionOnSet(f, T) = 0}
<1>1. {} \in G
  BY SumEmpty
<1>2. ASSUME NEW T \in SUBSET S, IsFiniteSet(T), First(T) \in T, T \ {First(T)} \in G
      PROVE  T \in G
  <2>1. SumFunctionOnSet(f, T) = f[First(T)] + SumFunctionOnSet(f, T \ {First(T)})
    BY <1>2, SumFirst
  <2>. QED
    BY <1>2, <2>1
<1>. HIDE DEF G
<1>3. S \in G
  BY <1>1, <1>2, SumInduction
<1>. QED
  BY <1>3 DEF G

\* Only the values on the set matter.
LEMMA SumSame ==
    ASSUME NEW f, NEW g, NEW S, IsFiniteSet(S), \A x \in S : f[x] = g[x]
    PROVE  SumFunctionOnSet(f, S) = SumFunctionOnSet(g, S)
<1>. DEFINE G == {T \in SUBSET S : SumFunctionOnSet(f, T) = SumFunctionOnSet(g, T)}
<1>1. {} \in G
  BY SumEmpty
<1>2. ASSUME NEW T \in SUBSET S, IsFiniteSet(T), First(T) \in T, T \ {First(T)} \in G
      PROVE  T \in G
  <2>1. /\ SumFunctionOnSet(f, T) = f[First(T)] + SumFunctionOnSet(f, T \ {First(T)})
        /\ SumFunctionOnSet(g, T) = g[First(T)] + SumFunctionOnSet(g, T \ {First(T)})
    BY <1>2, SumFirst
  <2>. QED
    BY <1>2, <2>1
<1>. HIDE DEF G
<1>3. S \in G
  BY <1>1, <1>2, SumInduction
<1>. QED
  BY <1>3 DEF G

\* Smaller values have a smaller sum.
LEMMA SumMonotone ==
    ASSUME NEW f, NEW g, NEW S, IsFiniteSet(S),
           \A x \in S : f[x] \in Int /\ g[x] \in Int /\ f[x] <= g[x]
    PROVE  SumFunctionOnSet(f, S) <= SumFunctionOnSet(g, S)
<1>. DEFINE G == {T \in SUBSET S : SumFunctionOnSet(f, T) <= SumFunctionOnSet(g, T)}
<1>1. {} \in G
  BY SumEmpty
<1>2. ASSUME NEW T \in SUBSET S, IsFiniteSet(T), First(T) \in T, T \ {First(T)} \in G
      PROVE  T \in G
  <2>1. /\ SumFunctionOnSet(f, T) = f[First(T)] + SumFunctionOnSet(f, T \ {First(T)})
        /\ SumFunctionOnSet(g, T) = g[First(T)] + SumFunctionOnSet(g, T \ {First(T)})
    BY <1>2, SumFirst
  <2>2. /\ SumFunctionOnSet(f, T \ {First(T)}) \in Int
        /\ SumFunctionOnSet(g, T \ {First(T)}) \in Int
    BY <1>2, FS_RemoveElement, SumInt
  <2>. QED
    BY <1>2, <2>1, <2>2
<1>. HIDE DEF G
<1>3. S \in G
  BY <1>1, <1>2, SumInduction
<1>. QED
  BY <1>3 DEF G

\* Any element may be taken off first.
LEMMA SumRemove ==
    ASSUME NEW f, NEW S, IsFiniteSet(S), \A x \in S : f[x] \in Int, NEW x \in S
    PROVE  SumFunctionOnSet(f, S) = f[x] + SumFunctionOnSet(f, S \ {x})
<1>. DEFINE Splits(T) == \A y \in T : SumFunctionOnSet(f, T)
                                          = f[y] + SumFunctionOnSet(f, T \ {y})
            G == {T \in SUBSET S : Splits(T)}
<1>1. ASSUME NEW T \in SUBSET S, IsFiniteSet(T), \A U \in SUBSET T : U # T => U \in G,
             NEW y \in T
      PROVE  SumFunctionOnSet(f, T) = f[y] + SumFunctionOnSet(f, T \ {y})
  <2>. DEFINE z == First(T)
              rest == SumFunctionOnSet(f, (T \ {y}) \ {z})
  <2>1. z \in T /\ SumFunctionOnSet(f, T) = f[z] + SumFunctionOnSet(f, T \ {z})
    BY <1>1, FirstInSet, SumFirst
  <2>. HIDE DEF z
  <2>2. ASSUME z # y
        PROVE  /\ SumFunctionOnSet(f, T \ {y}) = f[z] + rest
               /\ SumFunctionOnSet(f, T \ {z}) = f[y] + rest
    <3>1. (T \ {y}) \in G /\ (T \ {z}) \in G
      BY <1>1, <2>1
    <3>2. Splits(T \ {y}) /\ Splits(T \ {z})
      BY <3>1
    <3>3. (T \ {z}) \ {y} = (T \ {y}) \ {z}
      OBVIOUS
    <3>. QED
      BY <2>1, <2>2, <3>2, <3>3
  <2>3. rest \in Int /\ f[y] \in Int /\ f[z] \in Int
    <3>1. (T \ {y}) \ {z} \in SUBSET S
      OBVIOUS
    <3>2. IsFiniteSet((T \ {y}) \ {z})
      BY <3>1, FS_Subset
    <3>. QED
      BY <2>1, <3>1, <3>2, SumInt
  <2>. HIDE DEF rest
  <2>4. CASE z = y
    BY <2>1, <2>4
  <2>5. CASE z # y
    BY <2>1, <2>2, <2>3, <2>5
  <2>. QED
    BY <2>4, <2>5
<1>2. ASSUME NEW T \in SUBSET S, IsFiniteSet(T), \A U \in SUBSET T : U # T => U \in G
      PROVE  T \in G
  BY <1>1, <1>2
<1>. HIDE DEF G
<1>3. S \in G
  BY <1>2, SubsetInduction
<1>. QED
  BY <1>3 DEF G

\* Sums that are as small although no value is smaller are of the same values.
LEMMA SumTight ==
    ASSUME NEW f, NEW g, NEW S, IsFiniteSet(S),
           \A x \in S : f[x] \in Int /\ g[x] \in Int /\ f[x] <= g[x],
           SumFunctionOnSet(g, S) <= SumFunctionOnSet(f, S), NEW x \in S
    PROVE  f[x] = g[x]
<1>1. /\ SumFunctionOnSet(f, S) = f[x] + SumFunctionOnSet(f, S \ {x})
      /\ SumFunctionOnSet(g, S) = g[x] + SumFunctionOnSet(g, S \ {x})
  BY SumRemove
<1>2. IsFiniteSet(S \ {x})
  BY FS_RemoveElement
<1>3. SumFunctionOnSet(f, S \ {x}) \in Int /\ SumFunctionOnSet(g, S \ {x}) \in Int
  BY <1>2, SumInt
<1>4. SumFunctionOnSet(f, S \ {x}) <= SumFunctionOnSet(g, S \ {x})
  BY <1>2, SumMonotone
<1>. QED
  BY <1>1, <1>3, <1>4

\* A set is summed in two parts.
LEMMA SumSplit ==
    ASSUME NEW f, NEW S, IsFiniteSet(S), \A x \in S : f[x] \in Int, NEW P \in SUBSET S
    PROVE  SumFunctionOnSet(f, S) = SumFunctionOnSet(f, P) + SumFunctionOnSet(f, S \ P)
<1>. DEFINE Splits(T) == SumFunctionOnSet(f, T)
                           = SumFunctionOnSet(f, T \cap P) + SumFunctionOnSet(f, T \ P)
            G == {T \in SUBSET S : Splits(T)}
<1>1. {} \in G
  <2>1. {} \cap P = {} /\ {} \ P = {}
    OBVIOUS
  <2>. QED
    BY <2>1, SumEmpty
<1>2. ASSUME NEW T \in SUBSET S, IsFiniteSet(T), NEW x \in T, Splits(T \ {x})
      PROVE  Splits(T)
  <2>. DEFINE in == SumFunctionOnSet(f, (T \ {x}) \cap P)
              out == SumFunctionOnSet(f, (T \ {x}) \ P)
  <2>1. SumFunctionOnSet(f, T) = f[x] + SumFunctionOnSet(f, T \ {x})
    BY <1>2, SumRemove
  <2>2. SumFunctionOnSet(f, T \ {x}) = in + out
    BY <1>2
  <2>3. \A U \in SUBSET T : IsFiniteSet(U) /\ SumFunctionOnSet(f, U) \in Int
    BY <1>2, FS_Subset, SumInt
  <2>4. in \in Int /\ out \in Int /\ f[x] \in Int
    BY <2>3
  <2>5. CASE x \in P
    <3>1. (T \cap P) \ {x} = (T \ {x}) \cap P /\ T \ P = (T \ {x}) \ P
      BY <2>5
    <3>2. IsFiniteSet(T \cap P) /\ x \in T \cap P
      BY <2>3, <2>5
    <3>3. SumFunctionOnSet(f, T \cap P) = f[x] + in /\ SumFunctionOnSet(f, T \ P) = out
      BY <3>1, <3>2, SumRemove
    <3>. HIDE DEF in, out
    <3>. QED
      BY <2>1, <2>2, <2>4, <3>3
  <2>6. CASE x \notin P
    <3>1. (T \ P) \ {x} = (T \ {x}) \ P /\ T \cap P = (T \ {x}) \cap P
      BY <2>6
    <3>2. IsFiniteSet(T \ P) /\ x \in T \ P
      BY <2>3, <2>6
    <3>3. SumFunctionOnSet(f, T \ P) = f[x] + out /\ SumFunctionOnSet(f, T \cap P) = in
      BY <3>1, <3>2, SumRemove
    <3>. HIDE DEF in, out
    <3>. QED
      BY <2>1, <2>2, <2>4, <3>3
  <2>. QED
    BY <2>5, <2>6
<1>3. ASSUME NEW T \in SUBSET S, IsFiniteSet(T), First(T) \in T, T \ {First(T)} \in G
      PROVE  T \in G
  <2>1. Splits(T \ {First(T)})
    BY <1>3
  <2>. QED
    BY <1>2, <1>3, <2>1
<1>. HIDE DEF G
<1>4. S \in G
  BY <1>1, <1>3, SumInduction
<1>5. S \cap P = P
  OBVIOUS
<1>. QED
  BY <1>4, <1>5 DEF G

\* A part has at most the sum of the whole, if nothing is negative.
LEMMA SumOfPart ==
    ASSUME NEW f, NEW S, IsFiniteSet(S), \A x \in S : f[x] \in Nat, NEW P \in SUBSET S
    PROVE  SumFunctionOnSet(f, P) <= SumFunctionOnSet(f, S)
<1>1. IsFiniteSet(P) /\ IsFiniteSet(S \ P)
  BY FS_Subset
<1>2. SumFunctionOnSet(f, P) \in Nat /\ SumFunctionOnSet(f, S \ P) \in Nat
  BY <1>1, SumNat
<1>3. SumFunctionOnSet(f, S) = SumFunctionOnSet(f, P) + SumFunctionOnSet(f, S \ P)
  BY SumSplit
<1>. QED
  BY <1>2, <1>3

\* What x contributes to the sum of f over T.
Share(f, T, x) == IF x \in T THEN f[x] ELSE 0

\* The values f and the set P become g and Q, and differ only in x: the sum
\* changes by what x contributes.
LEMMA SumChange ==
    ASSUME NEW S, IsFiniteSet(S), NEW P \in SUBSET S, NEW Q \in SUBSET S, NEW x \in S,
           NEW f, NEW g, \A y \in P : f[y] \in Int, \A y \in Q : g[y] \in Int,
           P \ {x} = Q \ {x}, \A y \in P \ {x} : f[y] = g[y]
    PROVE  /\ SumFunctionOnSet(f, P) \in Int
           /\ SumFunctionOnSet(g, Q) = SumFunctionOnSet(f, P) - Share(f, P, x) + Share(g, Q, x)
<1>1. IsFiniteSet(P) /\ IsFiniteSet(Q) /\ IsFiniteSet(P \ {x})
  BY FS_Subset
<1>. DEFINE rest == SumFunctionOnSet(f, P \ {x})
<1>2. rest \in Int
  BY <1>1, SumInt
<1>3. SumFunctionOnSet(g, Q \ {x}) = rest
  BY <1>1, SumSame
<1>. HIDE DEF rest
<1>4. SumFunctionOnSet(f, P) = Share(f, P, x) + rest /\ Share(f, P, x) \in Int
  <2>1. CASE x \in P
    BY <1>1, <2>1, SumRemove DEF Share, rest
  <2>2. CASE x \notin P
    <3>1. P \ {x} = P
      BY <2>2
    <3>2. Share(f, P, x) = 0
      BY <2>2 DEF Share
    <3>3. SumFunctionOnSet(f, P) = rest
      BY <3>1 DEF rest
    <3>. QED
      BY <1>2, <3>2, <3>3
  <2>. QED
    BY <2>1, <2>2
<1>5. SumFunctionOnSet(g, Q) = Share(g, Q, x) + rest /\ Share(g, Q, x) \in Int
  <2>1. CASE x \in Q
    BY <1>1, <1>3, <2>1, SumRemove DEF Share
  <2>2. CASE x \notin Q
    <3>1. Q \ {x} = Q
      BY <2>2
    <3>2. Share(g, Q, x) = 0
      BY <2>2 DEF Share
    <3>3. SumFunctionOnSet(g, Q) = rest
      BY <1>3, <3>1
    <3>. QED
      BY <1>2, <3>2, <3>3
  <2>. QED
    BY <2>1, <2>2
<1>. QED
  BY <1>2, <1>4, <1>5
=============================================================================
