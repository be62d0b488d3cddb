---------------------------- MODULE FoldInduction ----------------------------
(***************************************************************************)
(* Induction over data.  The models compute with FoldLeft, MapThenSumSet   *)
(* and the other folds of the community modules, whose definition is a     *)
(* recursive function over the subsets of the data.  Here the recursion is *)
(* unfolded once and for all: a fold is the constant Fold of an instance   *)
(*                                                                         *)
(*     F == INSTANCE FoldInduction WITH Op <- ..., Map <- ..., Pick <- ... *)
(*                                                                         *)
(* and what the fold computes is a consequence of the theorems of F.  The  *)
(* first argument of the operations is a parameter: what the fold uses     *)
(* besides its data.                                                       *)
(***************************************************************************)
EXTENDS Integers, Sequences, FiniteSets, Folds, WellFoundedInduction, FiniteSetTheorems, TLAPS

CONSTANTS
    Op(_, _, _),   \* the operation of the fold: of a parameter, a value and the rest
    Map(_, _),     \* the value of an element
    Pick(_)        \* which element of a set comes first

\* The fold of the values of S, as the community modules define it.
Fold(p, base, S) ==
    MapThenFoldSet(LAMBDA v, rest : Op(p, v, rest), base, LAMBDA x : Map(p, x), Pick, S)

\* A set of numbers has a least one.
LEMMA LeastNumber ==
    ASSUME NEW T, T \subseteq Nat, T # {}
    PROVE  \E m \in T : \A k \in T : m <= k
<1> DEFINE Less == {ss \in Nat \X Nat : ss[1] < ss[2]}
<1>1. IsWellFoundedOn(Less, Nat)
  BY NatLessThanWellFounded DEF OpToRel
<1>2. \A k, m \in Nat : k < m => <<k, m>> \in Less
  OBVIOUS
<1> HIDE DEF Less
<1>3. PICK m \in T : \A k \in T : <<k, m>> \notin Less
  BY <1>1, WFMin
<1>4. \A k \in T : m <= k
  <2> TAKE k \in T
  <2>1. k \in Nat /\ m \in Nat /\ ~(k < m)
    BY <1>2, <1>3
  <2> QED
    BY <2>1
<1> QED
  BY <1>4

\* Induction over the numbers, for a property that is given as a set.
LEMMA SetInduction ==
    ASSUME NEW T, 0 \in T, \A n \in Nat : n \in T => n + 1 \in T
    PROVE  Nat \subseteq T
<1> SUFFICES ASSUME Nat \ T # {} PROVE FALSE
  OBVIOUS
<1>1. PICK m \in Nat \ T : \A k \in Nat \ T : m <= k
  BY LeastNumber
<1>2. m - 1 \in Nat /\ m - 1 \in T
  BY <1>1
<1> QED
  BY <1>1, <1>2

\* Induction over a finite set, one element more at a time, for a property of
\* its subsets that is given as a set.
THEOREM FiniteInduction ==
    ASSUME NEW S, IsFiniteSet(S), NEW T, {} \in T,
           \A s \in SUBSET S : \A x \in S \ s : s \in T => s \cup {x} \in T
    PROVE  S \in T
<1> DEFINE N == {n \in Nat : \A s \in SUBSET S : Cardinality(s) = n => s \in T}
<1>1. ASSUME NEW s \in SUBSET S
      PROVE  IsFiniteSet(s) /\ Cardinality(s) \in Nat /\ (Cardinality(s) = 0 <=> s = {})
  <2>1. IsFiniteSet(s)
    BY FS_Subset
  <2>2. Cardinality(s) \in Nat
    BY <2>1, FS_CardinalityType
  <2>3. Cardinality(s) = 0 <=> s = {}
    BY <2>1, FS_EmptySet
  <2> QED
    BY <2>1, <2>2, <2>3
<1>2. 0 \in N
  BY <1>1
<1>3. ASSUME NEW n \in Nat, n \in N
      PROVE  n + 1 \in N
  <2> SUFFICES ASSUME NEW s \in SUBSET S, Cardinality(s) = n + 1
               PROVE  s \in T
    OBVIOUS
  <2>1. PICK x : x \in s
    BY <1>1
  <2>2. Cardinality(s \ {x}) = n
    <3>1. IsFiniteSet(s)
      BY <1>1
    <3>2. Cardinality(s \ {x}) = Cardinality(s) - 1
      BY <2>1, <3>1, FS_RemoveElement
    <3> QED
      BY <3>2
  <2>3. s \ {x} \in T
    BY <1>3, <2>2
  <2>4. (s \ {x}) \cup {x} = s
    BY <2>1
  <2>5. s \ {x} \in SUBSET S /\ x \in S \ (s \ {x})
    BY <2>1
  <2>6. (s \ {x}) \cup {x} \in T
    BY <2>3, <2>5
  <2> QED
    BY <2>4, <2>6
<1>4. Nat \subseteq N
  <2> HIDE DEF N
  <2> QED
    BY <1>2, <1>3, SetInduction
<1> QED
  BY <1>1, <1>4

\* A finite set with an element to begin with, as all of its subsets.
Choosable(S) == IsFiniteSet(S) /\ \A T \in SUBSET S : T # {} => Pick(T) \in T

\* One step of the recursion, over the values h of the smaller sets.
Rec(p, base, s, h) == IF s = {} THEN base ELSE Op(p, Map(p, Pick(s)), h[s \ {Pick(s)}])

\* A function that satisfies the recursion on every set of D.
Unfolds(p, base, D, h) == h = [s \in D |-> Rec(p, base, s, h)]

\* The subsets with at most n elements.
Upto(S, n) == {s \in SUBSET S : Cardinality(s) <= n}

\* Without the element it begins with, a set is smaller.
LEMMA RemovedPick ==
    ASSUME NEW S, Choosable(S), NEW s \in SUBSET S, s # {}
    PROVE  /\ s \ {Pick(s)} \in SUBSET S
           /\ Cardinality(s) \in Nat
           /\ Cardinality(s \ {Pick(s)}) = Cardinality(s) - 1
           /\ Cardinality(s) > 0
<1>1. IsFiniteSet(s) /\ Pick(s) \in s
  BY FS_Subset DEF Choosable
<1>2. Cardinality(s) \in Nat /\ Cardinality(s) # 0
  BY <1>1, FS_CardinalityType, FS_EmptySet
<1>3. Cardinality(s \ {Pick(s)}) = Cardinality(s) - 1
  BY <1>1, FS_RemoveElement
<1> QED
  BY <1>2, <1>3

\* There is a function that satisfies the recursion on every subset.
LEMMA FoldExists ==
    ASSUME NEW p, NEW base, NEW S, Choosable(S)
    PROVE  \E h : Unfolds(p, base, SUBSET S, h)
<1> DEFINE T == {n \in Nat : \E h : Unfolds(p, base, Upto(S, n), h)}
<1>1. \A s \in SUBSET S : Cardinality(s) \in Nat /\ (Cardinality(s) = 0 <=> s = {})
  BY FS_Subset, FS_CardinalityType, FS_EmptySet DEF Choosable
<1>2. 0 \in T
  <2>1. Upto(S, 0) = {{}}
    BY <1>1, FS_EmptySet DEF Upto
  <2>2. [s \in {{}} |-> base] = [s \in Upto(S, 0) |-> Rec(p, base, s, [t \in {{}} |-> base])]
    BY <2>1 DEF Rec
  <2>3. Unfolds(p, base, Upto(S, 0), [t \in {{}} |-> base])
    BY <2>1, <2>2 DEF Unfolds
  <2> QED
    BY <2>3
<1>3. ASSUME NEW n \in Nat, n \in T PROVE n + 1 \in T
  <2>1. PICK h : Unfolds(p, base, Upto(S, n), h)
    BY <1>3
  <2> DEFINE g == [s \in Upto(S, n + 1) |-> Rec(p, base, s, h)]
  <2>2. ASSUME NEW s \in Upto(S, n + 1) PROVE g[s] = Rec(p, base, s, g)
    <3>1. CASE s = {}
      BY <3>1 DEF Rec
    <3>2. CASE s # {}
      <4> DEFINE t == s \ {Pick(s)}
      <4>1. t \in Upto(S, n) /\ t \in Upto(S, n + 1)
        BY <3>2, RemovedPick DEF Upto
      <4>2. g[t] = Rec(p, base, t, h)
        BY <4>1
      <4>3. h[t] = Rec(p, base, t, h)
        BY <4>1, <2>1 DEF Unfolds
      <4>4. g[s] = Op(p, Map(p, Pick(s)), h[t])
        BY <3>2 DEF Rec
      <4> HIDE DEF g
      <4> QED
        BY <3>2, <4>2, <4>3, <4>4 DEF Rec
    <3> QED
      BY <3>1, <3>2
  <2>3. Unfolds(p, base, Upto(S, n + 1), g)
    <3>1. g = [s \in Upto(S, n + 1) |-> g[s]]
      OBVIOUS
    <3> HIDE DEF g
    <3> QED
      BY <3>1, <2>2 DEF Unfolds
  <2> HIDE DEF g
  <2> QED
    BY <2>3
<1>4. Nat \subseteq T
  <2> HIDE DEF T
  <2> QED
    BY <1>2, <1>3, SetInduction
<1>5. Cardinality(S) \in Nat
  BY <1>1
<1>6. Upto(S, Cardinality(S)) = SUBSET S
  BY FS_Subset DEF Upto, Choosable
<1> QED
  BY <1>4, <1>5, <1>6

\* One such function.
Iter(p, base, S) == CHOOSE h : Unfolds(p, base, SUBSET S, h)

\* It satisfies the recursion: a CHOOSE of something that exists.
LEMMA IterRec ==
    ASSUME NEW p, NEW base, NEW S, Choosable(S)
    PROVE  \A s \in SUBSET S : Iter(p, base, S)[s] = Rec(p, base, s, Iter(p, base, S))
<1>1. Unfolds(p, base, SUBSET S, Iter(p, base, S))
  BY FoldExists DEF Iter
<1> DEFINE f == Iter(p, base, S)
<1>2. f = [s \in SUBSET S |-> Rec(p, base, s, f)]
  BY <1>1 DEF Unfolds
<1> HIDE DEF f
<1>3. \A s \in SUBSET S : f[s] = Rec(p, base, s, f)
  BY <1>2
<1> QED
  BY <1>3 DEF f

\* The fold is its value at the whole set.
LEMMA FoldIsIter ==
    ASSUME NEW p, NEW base, NEW S
    PROVE  Fold(p, base, S) = Iter(p, base, S)[S]
BY DEF Fold, MapThenFoldSet, Iter, Unfolds, Rec

\* Its value at a subset is the one of the subset's own function.
LEMMA IterLocal ==
    ASSUME NEW p, NEW base, NEW S, Choosable(S), NEW U \in SUBSET S
    PROVE  Iter(p, base, S)[U] = Iter(p, base, U)[U]
<1> DEFINE T == {n \in Nat : \A s \in Upto(U, n) : Iter(p, base, S)[s] = Iter(p, base, U)[s]}
<1>1. Choosable(U)
  BY FS_Subset DEF Choosable
<1>2. ASSUME NEW s \in SUBSET U
      PROVE  /\ Cardinality(s) \in Nat /\ (Cardinality(s) = 0 <=> s = {})
             /\ Iter(p, base, S)[s] = Rec(p, base, s, Iter(p, base, S))
             /\ Iter(p, base, U)[s] = Rec(p, base, s, Iter(p, base, U))
  <2>1. IsFiniteSet(s)
    BY <1>1, FS_Subset DEF Choosable
  <2>2. Cardinality(s) \in Nat /\ (Cardinality(s) = 0 <=> s = {})
    BY <2>1, FS_CardinalityType, FS_EmptySet
  <2>3. s \in SUBSET S
    OBVIOUS
  <2>4. Iter(p, base, S)[s] = Rec(p, base, s, Iter(p, base, S))
    BY <2>3, IterRec
  <2>5. Iter(p, base, U)[s] = Rec(p, base, s, Iter(p, base, U))
    BY <1>1, IterRec
  <2> QED
    BY <2>2, <2>4, <2>5
<1>3. 0 \in T
  <2>1. \A s \in Upto(U, 0) : s = {} /\ s \in SUBSET U
    BY <1>2 DEF Upto
  <2> QED
    BY <2>1, <1>2 DEF Rec
<1>4. ASSUME NEW n \in Nat, n \in T PROVE n + 1 \in T
  <2> SUFFICES ASSUME NEW s \in Upto(U, n + 1)
               PROVE  Iter(p, base, S)[s] = Iter(p, base, U)[s]
    OBVIOUS
  <2>1. s \in SUBSET U
    BY DEF Upto
  <2>2. CASE s = {}
    BY <2>1, <2>2, <1>2 DEF Rec
  <2>3. CASE s # {}
    <3>1. s \ {Pick(s)} \in Upto(U, n)
      BY <1>1, <2>1, <2>3, RemovedPick DEF Upto
    <3>2. Iter(p, base, S)[s \ {Pick(s)}] = Iter(p, base, U)[s \ {Pick(s)}]
      BY <3>1, <1>4
    <3> QED
      BY <2>1, <2>3, <3>2, <1>2 DEF Rec
  <2> QED
    BY <2>2, <2>3
<1>5. Nat \subseteq T
  <2> HIDE DEF T
  <2> QED
    BY <1>3, <1>4, SetInduction
<1>6. U \in Upto(U, Cardinality(U))
  BY <1>2 DEF Upto
<1>7. Cardinality(U) \in T
  BY <1>2, <1>5
<1> QED
  BY <1>6, <1>7

\* A fold is its operation on the first element and the fold of the others.
THEOREM FoldUnfolds ==
    ASSUME NEW p, NEW base, NEW S, Choosable(S)
    PROVE  /\ S = {} => Fold(p, base, S) = base
           /\ S # {} => /\ Pick(S) \in S
                        /\ Choosable(S \ {Pick(S)})
                        /\ Fold(p, base, S) =
                             Op(p, Map(p, Pick(S)), Fold(p, base, S \ {Pick(S)}))
<1>1. Iter(p, base, S)[S] = Rec(p, base, S, Iter(p, base, S))
  BY IterRec
<1>2. Fold(p, base, S) = Rec(p, base, S, Iter(p, base, S))
  BY <1>1, FoldIsIter
<1>3. CASE S = {}
  BY <1>2, <1>3 DEF Rec
<1>4. CASE S # {}
  <2> DEFINE U == S \ {Pick(S)}
  <2>1. Pick(S) \in S
    BY <1>4 DEF Choosable
  <2>2. Choosable(U)
    BY FS_Subset DEF Choosable
  <2>3. Iter(p, base, S)[U] = Iter(p, base, U)[U]
    BY IterLocal
  <2>4. Fold(p, base, U) = Iter(p, base, U)[U]
    BY FoldIsIter
  <2>5. Rec(p, base, S, Iter(p, base, S)) = Op(p, Map(p, Pick(S)), Iter(p, base, S)[U])
    BY <1>4 DEF Rec
  <2>6. Fold(p, base, S) = Op(p, Map(p, Pick(S)), Fold(p, base, U))
    BY <1>2, <2>3, <2>4, <2>5
  <2> QED
    BY <1>4, <2>1, <2>2, <2>6
<1> QED
  BY <1>3, <1>4

\* The fold of no element is its base.
LEMMA FoldEmpty ==
    ASSUME NEW p, NEW base
    PROVE  Fold(p, base, {}) = base
<1>1. Choosable({})
  BY FS_EmptySet DEF Choosable
<1> QED
  BY <1>1, FoldUnfolds

\* The operation keeps the fold in a set that it never leaves.
THEOREM FoldKept ==
    ASSUME NEW p, NEW base, NEW S, Choosable(S), NEW T, base \in T,
           \A x \in S : \A rest \in T : Op(p, Map(p, x), rest) \in T
    PROVE  Fold(p, base, S) \in T
<1> DEFINE N == {n \in Nat : \A s \in Upto(S, n) : Fold(p, base, s) \in T}
<1>1. \A s \in SUBSET S : /\ Choosable(s) /\ Cardinality(s) \in Nat
                          /\ Cardinality(s) = 0 => s = {}
  BY FS_Subset, FS_CardinalityType, FS_EmptySet DEF Choosable
<1>2. 0 \in N
  <2>1. \A s \in Upto(S, 0) : s = {}
    BY <1>1 DEF Upto
  <2> QED
    BY <2>1, <1>1, FoldUnfolds
<1>3. ASSUME NEW n \in Nat, n \in N PROVE n + 1 \in N
  <2> SUFFICES ASSUME NEW s \in Upto(S, n + 1) PROVE Fold(p, base, s) \in T
    OBVIOUS
  <2>1. s \in SUBSET S /\ Choosable(s)
    BY <1>1 DEF Upto
  <2>2. CASE s = {}
    BY <2>1, <2>2, FoldUnfolds
  <2>3. CASE s # {}
    <3>1. s \ {Pick(s)} \in Upto(S, n)
      BY <2>1, <2>3, RemovedPick DEF Upto
    <3>2. Fold(p, base, s \ {Pick(s)}) \in T
      BY <3>1, <1>3
    <3>3. Pick(s) \in S
      BY <2>1, <2>3, FoldUnfolds
    <3> QED
      BY <2>1, <2>3, <3>2, <3>3, FoldUnfolds
  <2> QED
    BY <2>2, <2>3
<1>4. Nat \subseteq N
  <2> HIDE DEF N
  <2> QED
    BY <1>2, <1>3, SetInduction
<1>5. S \in Upto(S, Cardinality(S))
  BY <1>1 DEF Upto
<1>6. Cardinality(S) \in N
  BY <1>1, <1>4
<1> QED
  BY <1>5, <1>6

\* Two parameters that make no difference to a step make none to the fold.
THEOREM FoldSame ==
    ASSUME NEW p, NEW q, NEW base, NEW S, Choosable(S),
           \A x \in S : Map(p, x) = Map(q, x),
           \A v, rest : Op(p, v, rest) = Op(q, v, rest)
    PROVE  Fold(p, base, S) = Fold(q, base, S)
<1> DEFINE N == {n \in Nat : \A s \in Upto(S, n) : Fold(p, base, s) = Fold(q, base, s)}
<1>1. \A s \in SUBSET S : /\ Choosable(s) /\ Cardinality(s) \in Nat
                          /\ Cardinality(s) = 0 => s = {}
  BY FS_Subset, FS_CardinalityType, FS_EmptySet DEF Choosable
<1>2. 0 \in N
  <2>1. \A s \in Upto(S, 0) : s = {}
    BY <1>1 DEF Upto
  <2> QED
    BY <2>1, <1>1, FoldUnfolds
<1>3. ASSUME NEW n \in Nat, n \in N PROVE n + 1 \in N
  <2> SUFFICES ASSUME NEW s \in Upto(S, n + 1)
               PROVE  Fold(p, base, s) = Fold(q, base, s)
    OBVIOUS
  <2>1. s \in SUBSET S /\ Choosable(s)
    BY <1>1 DEF Upto
  <2>2. CASE s = {}
    <3>1. Fold(p, base, {}) = base /\ Fold(q, base, {}) = base
      BY FoldEmpty
    <3> QED
      BY <2>2, <3>1
  <2>3. CASE s # {}
    <3>1. s \ {Pick(s)} \in Upto(S, n)
      BY <2>1, <2>3, RemovedPick DEF Upto
    <3>2. Fold(p, base, s \ {Pick(s)}) = Fold(q, base, s \ {Pick(s)})
      BY <3>1, <1>3
    <3>3. Pick(s) \in S
      BY <2>1, <2>3, FoldUnfolds
    <3>4. Map(p, Pick(s)) = Map(q, Pick(s))
      BY <3>3
    <3>5. Fold(p, base, s) = Op(p, Map(p, Pick(s)), Fold(p, base, s \ {Pick(s)}))
      BY <2>1, <2>3, FoldUnfolds
    <3>6. Fold(q, base, s) = Op(q, Map(q, Pick(s)), Fold(q, base, s \ {Pick(s)}))
      BY <2>1, <2>3, FoldUnfolds
    <3> QED
      BY <3>2, <3>4, <3>5, <3>6
  <2> QED
    BY <2>2, <2>3
<1>4. Nat \subseteq N
  <2> HIDE DEF N
  <2> QED
    BY <1>2, <1>3, SetInduction
<1>5. S \in Upto(S, Cardinality(S))
  BY <1>1 DEF Upto
<1>6. Cardinality(S) \in N
  BY <1>1, <1>4
<1> QED
  BY <1>5, <1>6

\* The elements 1 .. n, the last one first.
LastFirst == \A n \in Nat : Choosable(1 .. n) /\ (n > 0 => Pick(1 .. n) = n)

\* A fold over a sequence is its operation on the last element and the fold of
\* the sequence before it.
THEOREM FoldLast ==
    ASSUME LastFirst, NEW p, NEW base, NEW n \in Nat
    PROVE  /\ Fold(p, base, 1 .. 0) = base
           /\ Fold(p, base, 1 .. (n + 1)) = Op(p, Map(p, n + 1), Fold(p, base, 1 .. n))
<1>1. 1 .. 0 = {} /\ (1 .. (n + 1)) \ {n + 1} = 1 .. n /\ 1 .. (n + 1) # {}
  OBVIOUS
<1>2. Choosable(1 .. (n + 1)) /\ Pick(1 .. (n + 1)) = n + 1
  <2> DEFINE m == n + 1
  <2>1. m \in Nat /\ m > 0
    OBVIOUS
  <2> HIDE DEF m
  <2>2. Choosable(1 .. m) /\ Pick(1 .. m) = m
    BY <2>1 DEF LastFirst
  <2> QED
    BY <2>2 DEF m
<1> QED
  BY <1>1, <1>2, FoldEmpty, FoldUnfolds

\* The induction over a sequence: what holds of the base, and is kept by each
\* step, holds of the fold.
THEOREM FoldThrough ==
    ASSUME LastFirst, NEW p, NEW base, NEW n \in Nat, NEW T, base \in T[0],
           \A k \in 0 .. (n - 1) : \A rest \in T[k] : Op(p, Map(p, k + 1), rest) \in T[k + 1]
    PROVE  Fold(p, base, 1 .. n) \in T[n]
<1> DEFINE N == {k \in Nat : k <= n => Fold(p, base, 1 .. k) \in T[k]}
<1>1. 0 \in N
  BY FoldLast
<1>2. ASSUME NEW k \in Nat, k \in N
      PROVE  k + 1 \in N
  <2> SUFFICES ASSUME k + 1 <= n
               PROVE  Fold(p, base, 1 .. (k + 1)) \in T[k + 1]
    OBVIOUS
  <2>1. Fold(p, base, 1 .. k) \in T[k] /\ k \in 0 .. (n - 1)
    BY <1>2
  <2>2. Fold(p, base, 1 .. (k + 1)) = Op(p, Map(p, k + 1), Fold(p, base, 1 .. k))
    BY FoldLast
  <2> QED
    BY <2>1, <2>2
<1>3. Nat \subseteq N
  <2> HIDE DEF N
  <2> QED
    BY <1>1, <1>2, SetInduction
<1> QED
  BY <1>3

\* A fold over a sequence with an element more, when all else is the same.
THEOREM FoldAppend ==
    ASSUME LastFirst, NEW p, NEW q, NEW base, NEW n \in Nat,
           \A i \in 1 .. n : Map(p, i) = Map(q, i),
           \A v, rest : Op(p, v, rest) = Op(q, v, rest)
    PROVE  Fold(q, base, 1 .. (n + 1)) = Op(q, Map(q, n + 1), Fold(p, base, 1 .. n))
<1>1. Choosable(1 .. n)
  BY DEF LastFirst
<1>2. Fold(p, base, 1 .. n) = Fold(q, base, 1 .. n)
  BY <1>1, FoldSame
<1> QED
  BY <1>2, FoldLast

\* The unfolding, at every subset.
LEMMA FoldPicks ==
    ASSUME NEW p, NEW base, NEW S, Choosable(S)
    PROVE  \A s \in SUBSET S : s # {} =>
              /\ Pick(s) \in s
              /\ Fold(p, base, s) = Op(p, Map(p, Pick(s)), Fold(p, base, s \ {Pick(s)}))
<1> SUFFICES ASSUME NEW s \in SUBSET S, s # {}
             PROVE  /\ Pick(s) \in s
                    /\ Fold(p, base, s) = Op(p, Map(p, Pick(s)), Fold(p, base, s \ {Pick(s)}))
  OBVIOUS
<1>1. Choosable(s)
  BY FS_Subset DEF Choosable
<1> QED
  BY <1>1, FoldUnfolds

\* When the operation does not depend on the order of its values, the fold may
\* begin with any element.
THEOREM FoldAny ==
    ASSUME NEW p, NEW base, NEW S, Choosable(S), NEW V, base \in V,
           \A x \in S : \A rest \in V : Op(p, Map(p, x), rest) \in V,
           \A x, y \in S : \A rest \in V :
              Op(p, Map(p, x), Op(p, Map(p, y), rest)) = Op(p, Map(p, y), Op(p, Map(p, x), rest)),
           NEW e \in S
    PROVE  Fold(p, base, S) = Op(p, Map(p, e), Fold(p, base, S \ {e}))
<1> DEFINE Any(s, x) == Fold(p, base, s) = Op(p, Map(p, x), Fold(p, base, s \ {x}))
           N == {n \in Nat : \A s \in Upto(S, n) : \A x \in s : Any(s, x)}
<1>1. \A s \in SUBSET S : /\ Choosable(s) /\ Cardinality(s) \in Nat
                          /\ Cardinality(s) = 0 => s = {}
  BY FS_Subset, FS_CardinalityType, FS_EmptySet DEF Choosable
<1>2. 0 \in N
  BY <1>1 DEF Upto
<1>3. ASSUME NEW n \in Nat, n \in N
      PROVE  n + 1 \in N
  <2> SUFFICES ASSUME NEW s \in Upto(S, n + 1), NEW x \in s
               PROVE  Any(s, x)
    OBVIOUS
  <2> DEFINE k == Pick(s)
  <2>1. s \in SUBSET S /\ Choosable(s) /\ s # {}
    BY <1>1 DEF Upto
  <2>2. k \in s /\ Any(s, k)
    <3>1. /\ Pick(s) \in s
          /\ Fold(p, base, s) = Op(p, Map(p, Pick(s)), Fold(p, base, s \ {Pick(s)}))
      BY <2>1, FoldPicks
    <3> QED
      BY <3>1
  <2>3. CASE x = k
    BY <2>2, <2>3
  <2>4. CASE x # k
    <3>1. s \ {k} \in Upto(S, n) /\ s \ {x} \in Upto(S, n)
      <4>1. IsFiniteSet(s) /\ Cardinality(s) <= n + 1
        BY <2>1 DEF Choosable, Upto
      <4>2. Cardinality(s \ {k}) = Cardinality(s) - 1 /\ Cardinality(s \ {x}) = Cardinality(s) - 1
        BY <4>1, <2>2, FS_RemoveElement
      <4> QED
        BY <1>1, <2>1, <4>1, <4>2 DEF Upto
    <3>2. Any(s \ {k}, x) /\ Any(s \ {x}, k)
      BY <1>3, <2>2, <2>4, <3>1
    <3>3. (s \ {k}) \ {x} = (s \ {x}) \ {k}
      OBVIOUS
    <3>4. Fold(p, base, (s \ {k}) \ {x}) \in V
      <4>1. (s \ {k}) \ {x} \in SUBSET S
        BY <2>1
      <4> DEFINE t == (s \ {k}) \ {x}
      <4> HIDE DEF t, k
      <4>2. Choosable(t) /\ \A y \in t : \A rest \in V : Op(p, Map(p, y), rest) \in V
        BY <1>1, <4>1 DEF t
      <4>3. Fold(p, base, t) \in V
        BY <4>2, FoldKept
      <4> QED
        BY <4>3 DEF t
    <3>5. x \in S /\ k \in S
      BY <2>1, <2>2
    <3> DEFINE rest == Fold(p, base, (s \ {k}) \ {x})
    <3>6. /\ Fold(p, base, s) = Op(p, Map(p, k), Fold(p, base, s \ {k}))
          /\ Fold(p, base, s \ {k}) = Op(p, Map(p, x), rest)
          /\ Fold(p, base, s \ {x}) = Op(p, Map(p, k), rest)
      BY <2>2, <3>2, <3>3
    <3>7. Op(p, Map(p, k), Op(p, Map(p, x), rest)) = Op(p, Map(p, x), Op(p, Map(p, k), rest))
      <4> HIDE DEF k, rest
      <4>1. rest \in V
        BY <3>4 DEF rest
      <4> QED
        BY <3>5, <4>1
    <3> QED
      BY <3>6, <3>7
  <2> QED
    BY <2>3, <2>4
<1>4. Nat \subseteq N
  <2> HIDE DEF N
  <2> QED
    BY <1>2, <1>3, SetInduction
<1>5. S \in Upto(S, Cardinality(S)) /\ Cardinality(S) \in Nat
  BY <1>1 DEF Upto
<1>6. Cardinality(S) \in N
  BY <1>4, <1>5
<1> QED
  BY <1>5, <1>6

=============================================================================
