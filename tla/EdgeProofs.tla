------------------------------ MODULE EdgeProofs ------------------------------
(***************************************************************************)
(* Proofs about RouteCapacity and QuotaRunway, for any routes, engines,    *)
(* readings, events, faults and restarts, and the type of the composition  *)
(* of all the parts around the controllers.                                *)
(*                                                                         *)
(* Both modules compute by folds: first what a sum over a finite set is,   *)
(* then what the folds of the modules return, then the invariants.  The    *)
(* library's induction theorems take an operator, so an induction here is  *)
(* over a set that the steps are shown not to leave.                       *)
(***************************************************************************)
EXTENDS MCEdge, NativeSelectionProofs, HostProofs

-----------------------------------------------------------------------------
(* Sums of the values of a function *)

Plus(f, v, rest) == v + rest
At(f, e) == f[e]
Some(s) == CHOOSE e \in s : TRUE

Total == INSTANCE FoldInduction WITH Op <- Plus, Map <- At, Pick <- Some

SumOver(f, S) == Total!Fold(f, 0, S)

\* The total the renderer takes of a group is the fold over its routes.
LEMMA SumIsFold ==
    ASSUME NEW f
    PROVE  SumFunction(f) = SumOver(f, DOMAIN f)
BY DEF SumFunction, SumFunctionOnSet, FoldFunctionOnSet, MapThenFoldSet, SumOver, Total!Fold,
       Total!MapThenFoldSet, Plus, At, Some

\* A non-empty part of a finite set has an element to take first.
LEMMA SomeChooses ==
    ASSUME NEW S, IsFiniteSet(S)
    PROVE  Total!Choosable(S)
BY DEF Total!Choosable, Some, Total!IsFiniteSet, IsFiniteSet

\* The sums: of nothing, its type, one element at a time, of equal terms,
\* of one element, of smaller terms and of zeros.
LEMMA SumEmpty ==
    ASSUME NEW f
    PROVE  SumOver(f, {}) = 0
BY Total!FoldEmpty DEF SumOver

\* f is a number on S.
Numeric(f, S) == \A e \in S : f[e] \in Int

\* A sum of integers is an integer.
LEMMA SumType ==
    ASSUME NEW S, IsFiniteSet(S), NEW f, Numeric(f, S)
    PROVE  SumOver(f, S) \in Int
<1>1. \A e \in S : \A rest \in Int : Plus(f, At(f, e), rest) \in Int
  BY DEF Plus, At, Numeric
<1>2. Total!Fold(f, 0, S) \in Int
  BY <1>1, SomeChooses, Total!FoldKept
<1> QED
  BY <1>2 DEF SumOver

\* Any element may be the last one added: the order of a fold is immaterial.
LEMMA SumAdd ==
    ASSUME NEW S, IsFiniteSet(S), NEW f, Numeric(f, S), NEW e \in S
    PROVE  SumOver(f, S) = f[e] + SumOver(f, S \ {e})
<1>1. \A k \in S : \A rest \in Int : Plus(f, At(f, k), rest) \in Int
  BY DEF Plus, At, Numeric
<1>2. \A k, m \in S : \A rest \in Int :
         Plus(f, At(f, k), Plus(f, At(f, m), rest)) = Plus(f, At(f, m), Plus(f, At(f, k), rest))
  BY DEF Plus, At, Numeric
<1> DEFINE V == Int
<1>3. Total!Choosable(S) /\ 0 \in V
  BY SomeChooses
<1>4. \A k \in S : \A rest \in V : Plus(f, At(f, k), rest) \in V
  BY <1>1
<1>5. \A k, m \in S : \A rest \in V :
         Plus(f, At(f, k), Plus(f, At(f, m), rest)) = Plus(f, At(f, m), Plus(f, At(f, k), rest))
  BY <1>2
<1> HIDE DEF V
<1>6. Total!Fold(f, 0, S) = Plus(f, At(f, e), Total!Fold(f, 0, S \ {e}))
  BY <1>3, <1>4, <1>5, Total!FoldAny
<1> QED
  BY <1>6 DEF SumOver, Plus, At

\* A sum depends on the terms alone.
LEMMA SumSame ==
    ASSUME NEW S, IsFiniteSet(S), NEW f, NEW g, \A e \in S : f[e] = g[e]
    PROVE  SumOver(f, S) = SumOver(g, S)
<1>1. \A e \in S : At(f, e) = At(g, e)
  BY DEF At
<1>2. \A v, rest : Plus(f, v, rest) = Plus(g, v, rest)
  BY DEF Plus
<1>3. Total!Fold(f, 0, S) = Total!Fold(g, 0, S)
  BY <1>1, <1>2, SomeChooses, Total!FoldSame
<1> QED
  BY <1>3 DEF SumOver

\* A subset, with one element more.
LEMMA SumGrows ==
    ASSUME NEW S, IsFiniteSet(S), NEW f, Numeric(f, S),
           NEW s \in SUBSET S, NEW e \in S \ s
    PROVE  SumOver(f, s) \in Int /\ SumOver(f, s \cup {e}) = f[e] + SumOver(f, s)
<1>1. IsFiniteSet(s) /\ IsFiniteSet(s \cup {e}) /\ Numeric(f, s)
  BY FS_Subset DEF Numeric
<1>2. SumOver(f, s) \in Int
  BY <1>1, SumType
<1> DEFINE t == s \cup {e}
<1>3. IsFiniteSet(t) /\ Numeric(f, t) /\ e \in t /\ t \ {e} = s
  BY <1>1 DEF Numeric
<1> HIDE DEF t
<1>4. SumOver(f, t) = f[e] + SumOver(f, s)
  BY <1>3, SumAdd
<1> QED
  BY <1>2, <1>4 DEF t

\* The sum over one element.
LEMMA SumSingle ==
    ASSUME NEW f, NEW e, f[e] \in Int
    PROVE  SumOver(f, {e}) = f[e]
<1> DEFINE S == {e}
<1>1. IsFiniteSet(S) /\ Numeric(f, S) /\ e \in S /\ S \ {e} = {}
  BY FS_Singleton DEF Numeric
<1> HIDE DEF S
<1>2. SumOver(f, S) = f[e] + SumOver(f, {})
  BY <1>1, SumAdd
<1> QED
  BY <1>2, SumEmpty DEF S

\* A sum grows with its terms.
LEMMA SumLeq ==
    ASSUME NEW S, IsFiniteSet(S), NEW f, Numeric(f, S), NEW g, Numeric(g, S),
           \A e \in S : f[e] <= g[e]
    PROVE  SumOver(f, S) <= SumOver(g, S)
<1> DEFINE T == {s \in SUBSET S : SumOver(f, s) <= SumOver(g, s)}
<1>1. {} \in T
  BY SumEmpty
<1>2. ASSUME NEW s \in SUBSET S, NEW x \in S \ s, s \in T
      PROVE  s \cup {x} \in T
  <2>1. SumOver(f, s) \in Int /\ SumOver(f, s \cup {x}) = f[x] + SumOver(f, s)
    BY SumGrows
  <2>2. SumOver(g, s) \in Int /\ SumOver(g, s \cup {x}) = g[x] + SumOver(g, s)
    BY SumGrows
  <2>3. f[x] \in Int /\ g[x] \in Int /\ f[x] <= g[x]
    BY DEF Numeric
  <2> QED
    BY <1>2, <2>1, <2>2, <2>3
<1>3. S \in T
  <2> HIDE DEF T
  <2> QED
    BY <1>1, <1>2, Total!FiniteInduction DEF Total!IsFiniteSet, IsFiniteSet
<1> QED
  BY <1>3

\* A sum of sums, one of them scaled.
LEMMA SumLinear ==
    ASSUME NEW S, IsFiniteSet(S), NEW f, Numeric(f, S), NEW g, Numeric(g, S), NEW c \in Int
    PROVE  SumOver([e \in S |-> c * f[e] + g[e]], S) = c * SumOver(f, S) + SumOver(g, S)
<1> DEFINE h == [e \in S |-> c * f[e] + g[e]]
           T == {s \in SUBSET S : SumOver(h, s) = c * SumOver(f, s) + SumOver(g, s)}
<1>1. {} \in T
  BY SumEmpty
<1>2. ASSUME NEW s \in SUBSET S, NEW x \in S \ s, s \in T
      PROVE  s \cup {x} \in T
  <2>1. f[x] \in Int /\ g[x] \in Int /\ h[x] = c * f[x] + g[x]
    BY DEF Numeric
  <2>9. Numeric(h, S)
    BY DEF Numeric
  <2>5. SumOver(h, s) = c * SumOver(f, s) + SumOver(g, s)
    BY <1>2
  <2> HIDE DEF h, T
  <2>2. SumOver(f, s) \in Int /\ SumOver(f, s \cup {x}) = f[x] + SumOver(f, s)
    BY SumGrows
  <2>3. SumOver(g, s) \in Int /\ SumOver(g, s \cup {x}) = g[x] + SumOver(g, s)
    BY SumGrows
  <2>4. SumOver(h, s) \in Int /\ SumOver(h, s \cup {x}) = h[x] + SumOver(h, s)
    BY <2>9, SumGrows
  <2> DEFINE a == SumOver(f, s)
             b == SumOver(g, s)
  <2>6. \A m, n \in Int : c * (m + n) = c * m + c * n /\ c * m \in Int
    OBVIOUS
  <2>7. c * (f[x] + a) = c * f[x] + c * a /\ c * a \in Int /\ c * f[x] \in Int
    BY <2>1, <2>2, <2>6
  <2>8. SumOver(h, s \cup {x}) = c * SumOver(f, s \cup {x}) + SumOver(g, s \cup {x})
    BY <2>1, <2>2, <2>3, <2>4, <2>5, <2>7
  <2> QED
    BY <2>8 DEF T
<1>3. S \in T
  <2> HIDE DEF T
  <2> QED
    BY <1>1, <1>2, Total!FiniteInduction DEF Total!IsFiniteSet, IsFiniteSet
<1> QED
  BY <1>3

\* A sum of ones and zeros counts.
LEMMA SumCounts ==
    ASSUME NEW S, IsFiniteSet(S), NEW f, Numeric(f, S), \A e \in S : f[e] \in {0, 1}
    PROVE  SumOver(f, S) = Cardinality({e \in S : f[e] = 1})
<1> DEFINE Ones(s) == {e \in s : f[e] = 1}
           T == {s \in SUBSET S : SumOver(f, s) = Cardinality(Ones(s))}
<1>1. {} \in T
  <2>1. Ones({}) = {}
    OBVIOUS
  <2> QED
    BY <2>1, SumEmpty, FS_EmptySet
<1>2. ASSUME NEW s \in SUBSET S, NEW x \in S \ s, s \in T
      PROVE  s \cup {x} \in T
  <2>1. IsFiniteSet(Ones(s))
    BY FS_Subset
  <2>2. SumOver(f, s) \in Int /\ SumOver(f, s \cup {x}) = f[x] + SumOver(f, s)
    BY SumGrows
  <2>3. CASE f[x] = 1
    <3>1. Ones(s \cup {x}) = Ones(s) \cup {x} /\ x \notin Ones(s)
      BY <2>3
    <3>2. Cardinality(Ones(s) \cup {x}) = Cardinality(Ones(s)) + 1
      BY <2>1, <3>1, FS_AddElement
    <3>3. Cardinality(Ones(s)) = SumOver(f, s)
      BY <1>2
    <3> HIDE DEF Ones
    <3>4. SumOver(f, s \cup {x}) = Cardinality(Ones(s \cup {x}))
      BY <2>2, <2>3, <3>1, <3>2, <3>3
    <3> QED
      BY <3>4
  <2>4. CASE f[x] = 0
    <3>1. Ones(s \cup {x}) = Ones(s)
      BY <2>4
    <3> HIDE DEF Ones
    <3> QED
      BY <1>2, <2>2, <2>4, <3>1
  <2> QED
    BY <2>3, <2>4
<1>3. S \in T
  <2> HIDE DEF T
  <2> QED
    BY <1>1, <1>2, Total!FiniteInduction DEF Total!IsFiniteSet, IsFiniteSet
<1> QED
  BY <1>3

\* A sum of zeros.
LEMMA SumZero ==
    ASSUME NEW S, IsFiniteSet(S), NEW f, \A e \in S : f[e] = 0
    PROVE  SumOver(f, S) = 0
<1>1. Numeric(f, S) /\ \A e \in S : f[e] \in {0, 1}
  BY DEF Numeric
<1>2. SumOver(f, S) = Cardinality({e \in S : f[e] = 1})
  BY <1>1, SumCounts
<1>3. {e \in S : f[e] = 1} = {}
  OBVIOUS
<1> QED
  BY <1>2, <1>3, FS_EmptySet

\* At most m for each element that adds something.
LEMMA SumBound ==
    ASSUME NEW S, IsFiniteSet(S), NEW A \in SUBSET S, NEW m \in Nat,
           NEW f, \A e \in S : f[e] \in 0 .. m, \A e \in S \ A : f[e] = 0
    PROVE  0 <= SumOver(f, S) /\ SumOver(f, S) <= m * Cardinality(A)
<1> DEFINE ones == [e \in S |-> IF e \in A THEN 1 ELSE 0]
           zero == [e \in S |-> 0]
           most == [e \in S |-> m * ones[e] + zero[e]]
<1>1. Numeric(f, S) /\ Numeric(zero, S) /\ Numeric(ones, S)
  BY DEF Numeric
<1>2. Numeric(most, S)
  BY DEF Numeric
<1>3. SumOver(zero, S) = 0
  <2>1. \A e \in S : zero[e] = 0
    OBVIOUS
  <2> HIDE DEF zero
  <2> QED
    BY <2>1, SumZero
<1>4. SumOver(ones, S) = Cardinality(A)
  <2>1. {e \in S : ones[e] = 1} = A /\ \A e \in S : ones[e] \in {0, 1}
    OBVIOUS
  <2> HIDE DEF ones
  <2> QED
    BY <1>1, <2>1, SumCounts
<1>5. SumOver(most, S) = m * SumOver(ones, S) + SumOver(zero, S)
  <2> HIDE DEF ones, zero
  <2> QED
    BY <1>1, SumLinear
<1>6. \A e \in S : zero[e] <= f[e] /\ f[e] <= most[e]
  <2> TAKE e \in S
  <2>1. CASE e \in A
    <3>1. most[e] = m * 1 + 0 /\ f[e] \in 0 .. m /\ zero[e] = 0
      BY <2>1
    <3> QED
      BY <3>1
  <2>2. CASE e \notin A
    <3>1. most[e] = m * 0 + 0 /\ f[e] = 0 /\ zero[e] = 0
      BY <2>2
    <3> QED
      BY <3>1
  <2> QED
    BY <2>1, <2>2
<1> HIDE DEF ones, zero, most
<1>7. SumOver(zero, S) <= SumOver(f, S)
  BY <1>1, <1>6, SumLeq
<1>8. SumOver(f, S) <= SumOver(most, S)
  BY <1>1, <1>2, <1>6, SumLeq
<1>9. Cardinality(A) \in Nat
  BY FS_Subset, FS_CardinalityType
<1>10. m * Cardinality(A) \in Nat
  BY <1>9
<1> QED
  BY <1>3, <1>4, <1>5, <1>7, <1>8, <1>10

-----------------------------------------------------------------------------
(* Ranks: in a strict order the first k elements are k *)

\* ahead gives the elements that come before each.
Precedence(G, ahead) ==
    /\ ahead \in [G -> SUBSET G]
    /\ \A r \in G : r \notin ahead[r]
    /\ \A q, r \in G : q # r => q \in ahead[r] \/ r \in ahead[q]
    /\ \A q, r \in G : q \in ahead[r] => ahead[q] \subseteq ahead[r]

\* In a strict total order the first k elements are k in number.
LEMMA Ranks ==
    ASSUME NEW G, IsFiniteSet(G), NEW ahead, Precedence(G, ahead), NEW k \in 0 .. Cardinality(G)
    PROVE  Cardinality({r \in G : Cardinality(ahead[r]) < k}) = k
<1> DEFINE n == Cardinality(G)
           rank == [r \in G |-> Cardinality(ahead[r])]
<1>1. n \in Nat
  BY FS_CardinalityType
<1>2. ASSUME NEW r \in G
      PROVE  IsFiniteSet(ahead[r]) /\ Cardinality(ahead[r]) \in 0 .. (n - 1)
  <2>1. IsFiniteSet(G \ {r}) /\ Cardinality(G \ {r}) = n - 1
    BY FS_RemoveElement
  <2>2. ahead[r] \subseteq G \ {r}
    BY DEF Precedence
  <2>3. IsFiniteSet(ahead[r]) /\ Cardinality(ahead[r]) <= n - 1
    BY <2>1, <2>2, FS_Subset
  <2>4. Cardinality(ahead[r]) \in Nat
    BY <2>3, FS_CardinalityType
  <2> QED
    BY <1>1, <2>3, <2>4
<1>3. ASSUME NEW q \in G, NEW r \in G, q \in ahead[r]
      PROVE  Cardinality(ahead[q]) < Cardinality(ahead[r])
  <2>1. ahead[q] \subseteq ahead[r] /\ ahead[q] # ahead[r]
    BY <1>3 DEF Precedence
  <2>2. IsFiniteSet(ahead[q]) /\ IsFiniteSet(ahead[r])
    BY <1>2
  <2>3. Cardinality(ahead[q]) <= Cardinality(ahead[r]) /\ Cardinality(ahead[q]) # Cardinality(ahead[r])
    BY <2>1, <2>2, FS_Subset
  <2>4. Cardinality(ahead[q]) \in Int /\ Cardinality(ahead[r]) \in Int
    BY <1>1, <1>2
  <2> QED
    BY <2>3, <2>4
<1>4. rank \in Injection(G, 0 .. (n - 1))
  <2>1. rank \in [G -> 0 .. (n - 1)]
    BY <1>2
  <2>2. ASSUME NEW q \in G, NEW r \in G, q # r
        PROVE  rank[q] # rank[r]
    <3>1. q \in ahead[r] \/ r \in ahead[q]
      BY <2>2 DEF Precedence
    <3>2. rank[q] \in Int /\ rank[r] \in Int
      BY <2>1, <1>1
    <3> QED
      BY <1>3, <3>1, <3>2
  <2> HIDE DEF rank
  <2> QED
    BY <2>1, <2>2 DEF Injection, IsInjective
<1>5. rank \in Surjection(G, 0 .. (n - 1))
  <2>1. IsFiniteSet(0 .. (n - 1)) /\ Cardinality(0 .. (n - 1)) = n
    <3> DEFINE m == n - 1
    <3>1. m \in Int /\ m >= -1 /\ n = m + 1
      BY <1>1
    <3> HIDE DEF m, n
    <3>2. IsFiniteSet(0 .. m) /\ Cardinality(0 .. m) = IF 0 > m THEN 0 ELSE m - 0 + 1
      BY <3>1, FS_Interval
    <3>3. IsFiniteSet(0 .. m) /\ Cardinality(0 .. m) = n
      BY <3>1, <3>2
    <3> QED
      BY <3>3 DEF m
  <2> HIDE DEF rank
  <2> QED
    BY <1>4, <2>1, FS_Injection
<1> DEFINE First == {r \in G : Cardinality(ahead[r]) < k}
           place == [r \in First |-> rank[r]]
<1>6. place \in Bijection(First, 0 .. (k - 1))
  <2>1. place \in [First -> 0 .. (k - 1)]
    BY <1>1, <1>2
  <2>2. \A q, r \in First : place[q] = place[r] => q = r
    <3>1. \A q, r \in G : rank[q] = rank[r] => q = r
      <4> HIDE DEF rank
      <4> QED
        BY <1>4 DEF Injection, IsInjective
    <3> QED
      BY <3>1
  <2>3. ASSUME NEW i \in 0 .. (k - 1)
        PROVE  \E r \in First : place[r] = i
    <3>1. i \in 0 .. (n - 1)
      BY <1>1
    <3>2. PICK r \in G : rank[r] = i
      <4> HIDE DEF rank
      <4> QED
        BY <1>5, <3>1 DEF Surjection
    <3>3. r \in First
      BY <3>2
    <3> QED
      BY <3>2, <3>3
  <2> HIDE DEF place, First
  <2> QED
    BY <2>1, <2>2, <2>3 DEF Bijection, Injection, Surjection, IsInjective
<1>7. IsFiniteSet(First)
  BY FS_Subset
<1>8. Cardinality(0 .. (k - 1)) = k
  BY FS_Interval
<1> HIDE DEF First, place
<1>9. Cardinality(First) = k
  BY <1>6, <1>7, <1>8, FS_Bijection DEF ExistsBijection
<1> QED
  BY <1>9 DEF First

-----------------------------------------------------------------------------
(* The split of a capacity among routes *)

\* What the routes of a group are, when there is one.
Shares(G) ==
    /\ IsFiniteSet(G) /\ G # {}
    /\ \A r \in G : r.alias \in Nat /\ r.weight \in Nat \ {0}
    /\ \A q, r \in G : q.alias = r.alias => q = r

Base(c, G) == [r \in G |-> (c * r.weight) \div Weight(G)]
Rest(c, G) == [r \in G |-> (c * r.weight) % Weight(G)]
Left(c, G) == c - SumFunction(Base(c, G))
Earlier(c, G) ==
    [r \in G |-> {q \in G : \/ Rest(c, G)[q] > Rest(c, G)[r]
                            \/ Rest(c, G)[q] = Rest(c, G)[r] /\ q.alias < r.alias}]
Rounded(c, G) == [r \in G |-> IF Cardinality(Earlier(c, G)[r]) < Left(c, G) THEN 1 ELSE 0]

\* The definition of the split, in these names.
LEMMA SplitIs ==
    ASSUME NEW c, NEW G
    PROVE  Split(c, G) = [r \in G |-> Base(c, G)[r] + Rounded(c, G)[r]]
BY DEF Split, Base, Rest, Left, Earlier, Rounded

\* Division with remainder.
LEMMA Euclid ==
    ASSUME NEW a \in Nat, NEW w \in Nat \ {0}
    PROVE  /\ a \div w \in Nat /\ a % w \in 0 .. (w - 1)
           /\ a = w * (a \div w) + (a % w)
OBVIOUS

\* The weights of a group that has routes are not all zero.
LEMMA WeightType ==
    ASSUME NEW G, Shares(G)
    PROVE  Weight(G) \in Nat \ {0}
<1> DEFINE f == [r \in G |-> r.weight]
<1>1. Numeric(f, G) /\ IsFiniteSet(G) /\ DOMAIN f = G /\ \A r \in G : f[r] \in Nat \ {0}
  BY DEF Shares, Numeric
<1>2. PICK e \in G : TRUE
  BY DEF Shares
<1> DEFINE zero == [r \in G |-> 0]
<1>3. Numeric(zero, G) /\ \A r \in G : zero[r] = 0
  BY DEF Numeric
<1> HIDE DEF f, zero
<1>4. IsFiniteSet(G \ {e}) /\ Numeric(f, G \ {e}) /\ Numeric(zero, G \ {e})
  BY <1>1, <1>3, FS_Subset DEF Numeric
<1>5. SumOver(f, G) = f[e] + SumOver(f, G \ {e}) /\ SumOver(f, G \ {e}) \in Int
  BY <1>1, <1>4, SumAdd, SumType
<1>6. SumOver(zero, G \ {e}) <= SumOver(f, G \ {e})
  <2>1. \A r \in G \ {e} : zero[r] <= f[r]
    BY <1>1, <1>3
  <2> QED
    BY <1>4, <2>1, SumLeq
<1>7. SumOver(zero, G \ {e}) = 0
  <2> DEFINE H == G \ {e}
  <2>1. \A r \in H : zero[r] \in {0, 1} /\ zero[r] # 1
    BY <1>3
  <2>2. {r \in H : zero[r] = 1} = {}
    BY <2>1
  <2>3. IsFiniteSet(H) /\ Numeric(zero, H)
    BY <1>4
  <2> HIDE DEF H
  <2>4. SumOver(zero, H) = Cardinality({r \in H : zero[r] = 1})
    BY <2>1, <2>3, SumCounts
  <2> QED
    BY <2>2, <2>4, FS_EmptySet DEF H
<1>8. f[e] \in Nat \ {0}
  BY <1>1
<1>9. Weight(G) = SumOver(f, G)
  BY <1>1, SumIsFold DEF Weight, f
<1> QED
  BY <1>5, <1>6, <1>7, <1>8, <1>9

\* What the parts of a split are.
LEMMA SplitParts ==
    ASSUME NEW c \in Nat, NEW G, Shares(G), NEW W, W = Weight(G)
    PROVE  /\ W \in Nat \ {0}
           /\ Base(c, G) \in [G -> Nat] /\ Rest(c, G) \in [G -> 0 .. (W - 1)]
           /\ \A r \in G : c * r.weight = W * Base(c, G)[r] + Rest(c, G)[r]
           /\ SumOver(Base(c, G), G) \in Int
           /\ Left(c, G) = c - SumOver(Base(c, G), G)
           /\ W * Left(c, G) = SumOver(Rest(c, G), G)
<1>1. W \in Nat \ {0}
  BY WeightType
<1>2. ASSUME NEW r \in G
      PROVE  /\ c * r.weight \in Nat
             /\ Base(c, G)[r] \in Nat /\ Rest(c, G)[r] \in 0 .. (W - 1)
             /\ c * r.weight = W * Base(c, G)[r] + Rest(c, G)[r]
  <2> DEFINE a == c * r.weight
  <2>1. r.weight \in Nat
    BY DEF Shares
  <2>2. a \in Nat
    BY <2>1
  <2>3. Base(c, G)[r] = a \div W /\ Rest(c, G)[r] = a % W
    BY DEF Base, Rest
  <2> HIDE DEF a
  <2>4. /\ a \div W \in Nat /\ a % W \in 0 .. (W - 1)
        /\ a = W * (a \div W) + (a % W)
    BY <1>1, <2>2, Euclid
  <2> QED
    BY <2>2, <2>3, <2>4 DEF a
<1>3. Base(c, G) \in [G -> Nat] /\ Rest(c, G) \in [G -> 0 .. (W - 1)]
  <2>1. DOMAIN Base(c, G) = G /\ DOMAIN Rest(c, G) = G
    BY DEF Base, Rest
  <2>2. Base(c, G) = [r \in G |-> Base(c, G)[r]] /\ Rest(c, G) = [r \in G |-> Rest(c, G)[r]]
    BY DEF Base, Rest
  <2>3. \A r \in G : Base(c, G)[r] \in Nat /\ Rest(c, G)[r] \in 0 .. (W - 1)
    BY <1>2
  <2> QED
    BY <2>2, <2>3
<1> DEFINE f == [r \in G |-> r.weight]
           zero == [r \in G |-> 0]
           b == Base(c, G)
           p == Rest(c, G)
           scaled == [r \in G |-> c * f[r] + zero[r]]
           parts == [r \in G |-> W * b[r] + p[r]]
<1>4. IsFiniteSet(G) /\ Numeric(f, G) /\ Numeric(zero, G) /\ Numeric(b, G) /\ Numeric(p, G)
  <2>1. Numeric(f, G) /\ Numeric(zero, G)
    BY DEF Shares, Numeric
  <2>2. \A r \in G : b[r] \in Int /\ p[r] \in Int
    BY <1>1, <1>2
  <2> HIDE DEF b, p
  <2> QED
    BY <2>1, <2>2 DEF Shares, Numeric
<1>5. scaled = parts
  <2>1. \A r \in G : scaled[r] = parts[r]
    <3> TAKE r \in G
    <3>1. scaled[r] = c * r.weight + 0 /\ parts[r] = W * b[r] + p[r]
      OBVIOUS
    <3>2. c * r.weight \in Nat /\ c * r.weight = W * b[r] + p[r]
      BY <1>2
    <3> HIDE DEF scaled, parts, b, p
    <3> QED
      BY <3>1, <3>2
  <2> HIDE DEF b, p, f, zero
  <2> QED
    BY <2>1
<1>6. SumOver(f, G) = W
  BY SumIsFold DEF Weight
<1>7. SumOver(zero, G) = 0
  <2> HIDE DEF f, b, p, scaled, parts
  <2>1. \A r \in G : zero[r] \in {0, 1} /\ zero[r] # 1
    OBVIOUS
  <2>2. {r \in G : zero[r] = 1} = {}
    BY <2>1
  <2> HIDE DEF zero
  <2>3. SumOver(zero, G) = Cardinality({r \in G : zero[r] = 1})
    BY <1>4, <2>1, SumCounts
  <2> QED
    BY <2>2, <2>3, FS_EmptySet
<1>8. SumOver(scaled, G) = c * SumOver(f, G) + SumOver(zero, G)
  <2> HIDE DEF f, b, p, zero
  <2> QED
    BY <1>4, SumLinear
<1>9. SumOver(parts, G) = W * SumOver(b, G) + SumOver(p, G)
  <2> HIDE DEF f, b, p, zero
  <2> QED
    BY <1>1, <1>4, SumLinear
<1>10. SumOver(b, G) \in Int /\ SumOver(p, G) \in Int
  <2> HIDE DEF f, b, p, zero
  <2> QED
    BY <1>4, SumType
<1>11. Left(c, G) = c - SumOver(b, G)
  <2>1. DOMAIN Base(c, G) = G
    BY DEF Base
  <2> QED
    BY <2>1, SumIsFold DEF Left
<1>12. W * Left(c, G) = SumOver(p, G)
  <2> HIDE DEF f, b, p, zero, scaled, parts
  <2>1. c * W = W * SumOver(b, G) + SumOver(p, G)
    BY <1>1, <1>5, <1>6, <1>7, <1>8, <1>9
  <2> DEFINE m == SumOver(b, G)
  <2>2. W * (c - m) = c * W - W * m
    BY <1>1, <1>10
  <2>3. W * m \in Int
    BY <1>1, <1>10
  <2> QED
    BY <1>10, <1>11, <2>1, <2>2, <2>3
<1> QED
  BY <1>1, <1>2, <1>3, <1>10, <1>11, <1>12

\* The slots left over are fewer than the routes.
LEMMA LeftBounds ==
    ASSUME NEW c \in Nat, NEW G, Shares(G)
    PROVE  Left(c, G) \in 0 .. Cardinality(G)
<1> DEFINE W == Weight(G)
           n == Cardinality(G)
           p == Rest(c, G)
           left == Left(c, G)
           w == W - 1
<1>1. W \in Nat \ {0} /\ p \in [G -> 0 .. (W - 1)] /\ W * left = SumOver(p, G) /\ left \in Int
  BY SplitParts
<1>2. IsFiniteSet(G) /\ n \in Nat
  BY FS_CardinalityType DEF Shares
<1>3. w \in Nat /\ W = w + 1 /\ \A r \in G : p[r] \in 0 .. w
  BY <1>1
<1> HIDE DEF W, p, left, w
<1>4. 0 <= SumOver(p, G) /\ SumOver(p, G) <= w * Cardinality(G)
  BY <1>2, <1>3, SumBound
<1>5. left >= 0
  <2> SUFFICES ASSUME left <= -1 PROVE FALSE
    BY <1>1
  <2>1. W * left <= -1
    <3>1. \A a \in Nat \ {0}, b \in Int : b <= -1 => a * b <= -1
      OBVIOUS
    <3> QED
      BY <1>1, <3>1
  <2> QED
    BY <1>1, <1>4, <2>1
<1>6. left <= n
  <2> SUFFICES ASSUME left >= n + 1 PROVE FALSE
    BY <1>1, <1>2
  <2> DEFINE d == left - (n + 1)
  <2>1. d \in Nat /\ left = d + n + 1
    BY <1>1, <1>2
  <2> HIDE DEF d, n
  <2>2. (w + 1) * (d + n + 1) = w * d + w * n + w + d + n + 1
    BY <1>2, <1>3, <2>1
  <2>3. w * d \in Nat /\ w * n \in Nat
    BY <1>2, <1>3, <2>1
  <2>4. (w + 1) * (d + n + 1) <= w * n
    BY <1>1, <1>3, <1>4, <2>1 DEF n
  <2> QED
    BY <1>2, <1>3, <2>1, <2>2, <2>3, <2>4
<1> QED
  BY <1>1, <1>2, <1>5, <1>6 DEF left

\* By the remainder, then by the alias: an order.
LEMMA EarlierOrders ==
    ASSUME NEW c \in Nat, NEW G, Shares(G)
    PROVE  Precedence(G, Earlier(c, G))
<1> DEFINE p == Rest(c, G)
           W == Weight(G)
           a == Earlier(c, G)
<1>1. W \in Nat \ {0} /\ p \in [G -> 0 .. (W - 1)]
  BY SplitParts
<1>2. \A r \in G : p[r] \in Int /\ r.alias \in Int
  BY <1>1 DEF Shares
<1>3. \A r \in G : a[r] = {q \in G : p[q] > p[r] \/ (p[q] = p[r] /\ q.alias < r.alias)}
  BY DEF Earlier
<1>4. \A q, r \in G : q.alias = r.alias => q = r
  BY DEF Shares
<1>5. a = [r \in G |-> a[r]]
  BY DEF Earlier
<1> HIDE DEF p, W, a
<1>6. \A q, r \in G : q \in a[r] <=> p[q] > p[r] \/ (p[q] = p[r] /\ q.alias < r.alias)
  BY <1>3
<1>7. a \in [G -> SUBSET G]
  BY <1>3, <1>5
<1>8. \A r \in G : r \notin a[r]
  BY <1>2, <1>6
<1>9. \A q, r \in G : q # r => q \in a[r] \/ r \in a[q]
  BY <1>2, <1>4, <1>6
<1>10. ASSUME NEW q \in G, NEW r \in G, q \in a[r], NEW s \in a[q]
       PROVE  s \in a[r]
  <2>1. s \in G
    BY <1>7
  <2> QED
    BY <1>2, <1>6, <1>10, <2>1
<1> QED
  BY <1>7, <1>8, <1>9, <1>10 DEF Precedence, a

\* The slots left over are all given.
LEMMA RoundedSum ==
    ASSUME NEW c \in Nat, NEW G, Shares(G)
    PROVE  /\ Rounded(c, G) \in [G -> {0, 1}]
           /\ SumOver(Rounded(c, G), G) = Left(c, G)
<1> DEFINE up == Rounded(c, G)
           a == Earlier(c, G)
           k == Left(c, G)
<1>1. IsFiniteSet(G) /\ Precedence(G, a) /\ k \in 0 .. Cardinality(G)
  BY LeftBounds, EarlierOrders DEF Shares
<1>2. up = [r \in G |-> IF Cardinality(a[r]) < k THEN 1 ELSE 0]
  BY DEF Rounded
<1> HIDE DEF up, a, k
<1>3. up \in [G -> {0, 1}]
  BY <1>2
<1>4. Numeric(up, G)
  BY <1>3 DEF Numeric
<1>5. SumOver(up, G) = Cardinality({r \in G : up[r] = 1})
  <2>1. \A r \in G : up[r] \in {0, 1}
    BY <1>3
  <2> QED
    BY <1>1, <1>4, <2>1, SumCounts
<1>6. {r \in G : up[r] = 1} = {r \in G : Cardinality(a[r]) < k}
  BY <1>2
<1>7. Cardinality({r \in G : Cardinality(a[r]) < k}) = k
  BY <1>1, Ranks
<1> QED
  BY <1>3, <1>5, <1>6, <1>7 DEF up, k

\* Whoever is rounded up has a remainder: the routes with one are enough for
\* the slots left over.
LEMMA RoundedHasRest ==
    ASSUME NEW c \in Nat, NEW G, Shares(G), NEW r \in G, Rounded(c, G)[r] = 1
    PROVE  Rest(c, G)[r] > 0
<1> DEFINE W == Weight(G)
           w == W - 1
           p == Rest(c, G)
           left == Left(c, G)
           A == Earlier(c, G)[r]
           k == Cardinality(A)
<1>1. W \in Nat \ {0} /\ p \in [G -> 0 .. (W - 1)] /\ W * left = SumOver(p, G) /\ left \in Int
  BY SplitParts
<1>2. w \in Nat /\ W = w + 1 /\ \A q \in G : p[q] \in 0 .. w
  BY <1>1
<1>3. k < left
  BY DEF Rounded
<1>4. A = {q \in G : p[q] > p[r] \/ (p[q] = p[r] /\ q.alias < r.alias)}
  BY DEF Earlier
<1> HIDE DEF W, w, p, left, A
<1>5. IsFiniteSet(G) /\ A \in SUBSET G
  BY <1>4 DEF Shares
<1>6. k \in Nat
  BY <1>5, FS_Subset, FS_CardinalityType
<1> SUFFICES ASSUME p[r] = 0
             PROVE  FALSE
  BY <1>2 DEF p
<1>7. \A q \in G \ A : p[q] = 0
  BY <1>2, <1>4
<1>8. SumOver(p, G) <= w * Cardinality(A)
  BY <1>2, <1>5, <1>7, SumBound
<1> DEFINE d == left - (k + 1)
<1>9. d \in Nat /\ left = d + k + 1
  BY <1>1, <1>3, <1>6
<1> HIDE DEF d
<1>10. (w + 1) * (d + k + 1) <= w * k
  BY <1>1, <1>2, <1>8, <1>9
<1> HIDE DEF k
<1>11. (w + 1) * (d + k + 1) = w * d + w * k + w + d + k + 1
  BY <1>2, <1>6, <1>9
<1>12. w * d \in Nat /\ w * k \in Nat
  BY <1>2, <1>6, <1>9
<1> QED
  BY <1>2, <1>6, <1>9, <1>10, <1>11, <1>12

\* A split gives all of the capacity, and everyone a share that is less than a
\* slot from the proportion of the weights; who was rounded up was nearer.
THEOREM SplitIsFair ==
    ASSUME NEW c \in Nat, NEW G, Shares(G), NEW given, given = Split(c, G),
           NEW W, W = Weight(G)
    PROVE  /\ given \in [G -> Nat]
           /\ SumOver(given, G) = c
           /\ \A r \in G : /\ given[r] * W - c * r.weight \in Int
                           /\ -W < given[r] * W - c * r.weight
                           /\ given[r] * W - c * r.weight < W
           /\ \A q, r \in G :
                (given[q] * W - c * q.weight > 0 /\ given[r] * W - c * r.weight <= 0)
                => (given[q] * W - c * q.weight) - (given[r] * W - c * r.weight) <= W
<1> DEFINE b == Base(c, G)
           p == Rest(c, G)
           up == Rounded(c, G)
           left == Left(c, G)
           a == Earlier(c, G)
<1>1. /\ W \in Nat \ {0}
      /\ b \in [G -> Nat] /\ p \in [G -> 0 .. (W - 1)]
      /\ \A r \in G : c * r.weight = W * b[r] + p[r]
      /\ SumOver(b, G) \in Int /\ left = c - SumOver(b, G)
  BY SplitParts
<1>2. up \in [G -> {0, 1}] /\ SumOver(up, G) = left
  BY RoundedSum
<1>3. given = [r \in G |-> b[r] + up[r]]
  BY SplitIs
<1>4. \A r \in G : up[r] = 1 => p[r] > 0
  BY RoundedHasRest
<1>5. \A r \in G : up[r] = IF Cardinality(a[r]) < left THEN 1 ELSE 0
  BY DEF Rounded
<1>6. Precedence(G, a)
  BY EarlierOrders
<1>7. \A q, r \in G : p[q] > p[r] => q \in a[r]
  BY DEF Earlier
<1> HIDE DEF b, p, up, left, a
<1>8. given \in [G -> Nat]
  BY <1>1, <1>2, <1>3
<1>9. SumOver(given, G) = c
  <2>1. IsFiniteSet(G) /\ Numeric(b, G) /\ Numeric(up, G) /\ 1 \in Int
    BY <1>1, <1>2 DEF Shares, Numeric
  <2>2. SumOver([r \in G |-> 1 * b[r] + up[r]], G) = 1 * SumOver(b, G) + SumOver(up, G)
    BY <2>1, SumLinear
  <2>3. [r \in G |-> 1 * b[r] + up[r]] = given
    <3>1. \A r \in G : 1 * b[r] + up[r] = b[r] + up[r]
      BY <1>1, <1>2
    <3> QED
      BY <1>3, <3>1
  <2> QED
    BY <1>1, <1>2, <2>2, <2>3
<1> DEFINE Error(r) == given[r] * W - c * r.weight
<1>10. ASSUME NEW r \in G
       PROVE  p[r] \in 0 .. (W - 1) /\ Error(r) = up[r] * W - p[r]
  <2>1. b[r] \in Int /\ up[r] \in Int /\ p[r] \in Int /\ given[r] = b[r] + up[r] /\ p[r] \in 0 .. (W - 1)
    BY <1>1, <1>2, <1>3
  <2>2. (b[r] + up[r]) * W = W * b[r] + up[r] * W /\ W * b[r] \in Int /\ up[r] * W \in Int
    BY <1>1, <2>1
  <2> QED
    BY <1>1, <2>1, <2>2
<1>11. ASSUME NEW r \in G
       PROVE  \/ up[r] = 0 /\ Error(r) = -p[r]
              \/ up[r] = 1 /\ Error(r) = W - p[r] /\ p[r] > 0
  <2>1. CASE up[r] = 0
    BY <1>1, <1>10, <2>1
  <2>2. CASE up[r] = 1
    BY <1>1, <1>4, <1>10, <2>2
  <2> QED
    BY <1>2, <2>1, <2>2
<1>12. \A r \in G : Error(r) \in Int /\ -W < Error(r) /\ Error(r) < W
  <2> HIDE DEF Error
  <2> QED
    BY <1>1, <1>10, <1>11
<1>13. ASSUME NEW q \in G, NEW r \in G, Error(q) > 0, Error(r) <= 0
       PROVE  Error(q) - Error(r) <= W
  <2>1. /\ up[q] = 1 /\ Error(q) = W - p[q] /\ up[r] = 0 /\ Error(r) = -p[r]
        /\ p[q] \in 0 .. (W - 1) /\ p[r] \in 0 .. (W - 1)
    <3> HIDE DEF Error
    <3> QED
      BY <1>1, <1>10, <1>11, <1>13
  <2>2. Cardinality(a[q]) < left /\ ~(Cardinality(a[r]) < left)
    BY <1>5, <2>1
  <2>3. p[r] <= p[q]
    <3> SUFFICES ASSUME p[r] > p[q]
                 PROVE  FALSE
      BY <1>1, <2>1
    <3>1. r \in a[q] /\ a[r] \subseteq a[q] /\ a[q] \subseteq G
      BY <1>6, <1>7 DEF Precedence
    <3>2. IsFiniteSet(a[q]) /\ IsFiniteSet(a[r])
      BY <3>1, FS_Subset DEF Shares
    <3>3. Cardinality(a[r]) <= Cardinality(a[q])
      BY <3>1, <3>2, FS_Subset
    <3>4. Cardinality(a[r]) \in Int /\ Cardinality(a[q]) \in Int /\ left \in Int
      BY <1>1, <3>2, FS_CardinalityType
    <3> QED
      BY <2>2, <3>3, <3>4
  <2> HIDE DEF Error
  <2> QED
    BY <1>1, <2>1, <2>3
<1> QED
  BY <1>8, <1>9, <1>12, <1>13

-----------------------------------------------------------------------------
(* The rendered region *)

\* What an engine has free, and the part of it that is kept.
LEMMA KeptIs ==
    ASSUME NEW g \in EngineFacts
    PROVE  /\ g.slots - g.active \in Nat
           /\ Available(g) = g.slots - g.active
           /\ ForInteractive(g) = IF Available(g) < g.reserved THEN Available(g) ELSE g.reserved
           /\ ForInteractive(g) \in 0 .. Available(g)
<1>1. g.slots \in Nat /\ g.active \in Nat /\ g.reserved \in Nat /\ g.active <= g.slots
  BY RoutesAssumption
<1>2. Available(g) = g.slots - g.active /\ g.slots - g.active \in Nat
  BY <1>1 DEF Available
<1> DEFINE a == Available(g)
           b == g.reserved
           low == IF a < b THEN a ELSE b
<1>3. low \in {a, b} /\ low <= a /\ low <= b /\ low \in Nat
  BY <1>1, <1>2
<1>4. Min({a, b}) \in {a, b} /\ Min({a, b}) <= a /\ Min({a, b}) <= b
  <2>1. \E x \in {a, b} : \A y \in {a, b} : x <= y
    <3>1. \A y \in {a, b} : low <= y
      BY <1>3
    <3> QED
      BY <1>3, <3>1
  <2> HIDE DEF a, b, low
  <2> QED
    BY <2>1 DEF Min
<1>5. Min({a, b}) = low
  <2> DEFINE m == Min({a, b})
  <2>1. m \in {a, b} /\ m <= a /\ m <= b
    BY <1>4
  <2>2. a \in Nat /\ b \in Nat
    BY <1>1, <1>2
  <2> HIDE DEF m, a, b
  <2>3. m = low
    BY <2>1, <2>2
  <2> QED
    BY <2>3 DEF m
<1> QED
  BY <1>2, <1>3, <1>5 DEF ForInteractive

\* The listed routes are finitely many.
LEMMA ListedFinite ==
    ASSUME routes \in Seq(Routes)
    PROVE  IsFiniteSet(ToSet(routes)) /\ ToSet(routes) \subseteq Routes
<1>1. routes \in [1 .. Len(routes) -> Routes] /\ Len(routes) \in Nat
  OBVIOUS
<1>2. ToSet(routes) = {routes[i] : i \in 1 .. Len(routes)}
  BY <1>1 DEF ToSet
<1>3. routes \in Surjection(1 .. Len(routes), ToSet(routes))
  BY <1>1, <1>2 DEF Surjection
<1>4. IsFiniteSet(1 .. Len(routes))
  BY <1>1, FS_Interval
<1>5. IsFiniteSet(ToSet(routes))
  BY <1>3, <1>4, FS_Surjection
<1> QED
  BY <1>1, <1>2, <1>5

\* On an engine that is rendered an alias is of one route.
LEMMA AliasOnce ==
    ASSUME RoutesTypeOK, ~Unrenderable, NEW h \in Hosts, Serving(h),
           NEW q \in Automatic(h), NEW r \in Automatic(h), q.alias = r.alias
    PROVE  q = r
<1>1. PICK i \in DOMAIN routes : routes[i] = q
  BY DEF Automatic, ToSet
<1>2. PICK j \in DOMAIN routes : routes[j] = r
  BY DEF Automatic, ToSet
<1>3. ~(i # j /\ {routes[i], routes[j]} \subseteq Automatic(h) /\ routes[i].alias = routes[j].alias)
  BY DEF Unrenderable
<1>4. i = j
  BY <1>1, <1>2, <1>3
<1> QED
  BY <1>1, <1>2, <1>4

\* The groups of the rendered routes of a serving host are such groups.
LEMMA GroupShares ==
    ASSUME RoutesTypeOK, ~Unrenderable, NEW h \in Hosts, Serving(h),
           NEW G \in SUBSET Automatic(h), G # {}
    PROVE  Shares(G)
<1>1. routes \in Seq(Routes)
  BY DEF RoutesTypeOK
<1>2. IsFiniteSet(ToSet(routes)) /\ ToSet(routes) \subseteq Routes
  BY <1>1, ListedFinite
<1>3. G \subseteq ToSet(routes)
  BY DEF Automatic
<1>4. IsFiniteSet(G)
  BY <1>2, <1>3, FS_Subset
<1>5. \A r \in G : r.alias \in Nat /\ r.weight \in Nat \ {0}
  BY <1>2, <1>3, RoutesAssumption
<1>6. \A q, r \in G : q.alias = r.alias => q = r
  BY AliasOnce
<1> QED
  BY <1>4, <1>5, <1>6 DEF Shares

Reserved(h) == {r \in Automatic(h) : r.interactive}
Remaining(h) == Automatic(h) \ Reserved(h)

\* Every route of a rendered engine has the share of its split.
LEMMA SlotsAre ==
    ASSUME RoutesTypeOK, ~Unrenderable, NEW h \in Hosts, Serving(h),
           NEW kept, kept = ForInteractive(engines[h]), NEW free, free = Available(engines[h])
    PROVE  /\ kept \in Nat /\ free - kept \in Nat
           /\ \A r \in Reserved(h) : SlotsOf(h)[r] = Split(kept, Reserved(h))[r]
           /\ \A r \in Remaining(h) : SlotsOf(h)[r] = Split(free - kept, Remaining(h))[r]
           /\ \A r \in Automatic(h) : SlotsOf(h)[r] \in Nat
<1>1. engines[h] \in EngineFacts
  BY DEF RoutesTypeOK
<1>2. free \in Nat /\ kept \in 0 .. free
  BY <1>1, KeptIs
<1>3. kept \in Nat /\ free - kept \in Nat
  BY <1>2
<1>4. SlotsOf(h) = [r \in Automatic(h) |-> IF r.interactive THEN Split(kept, Reserved(h))[r]
                                           ELSE Split(free - kept, Remaining(h))[r]]
  BY DEF SlotsOf, Distribution, Reserved, Remaining
<1>5. \A r \in Reserved(h) : r \in Automatic(h) /\ r.interactive
  BY DEF Reserved
<1>6. \A r \in Remaining(h) : r \in Automatic(h) /\ ~r.interactive
  BY DEF Reserved, Remaining
<1>7. \A r \in Automatic(h) : r \in Reserved(h) \/ r \in Remaining(h)
  BY DEF Remaining
<1>8. \A r \in Reserved(h) : SlotsOf(h)[r] = Split(kept, Reserved(h))[r]
  BY <1>4, <1>5
<1>9. \A r \in Remaining(h) : SlotsOf(h)[r] = Split(free - kept, Remaining(h))[r]
  BY <1>4, <1>6
<1>10. ASSUME NEW G, G = Reserved(h) \/ G = Remaining(h), NEW r \in G, NEW c \in Nat
       PROVE  Split(c, G)[r] \in Nat
  <2>1. G \in SUBSET Automatic(h) /\ G # {}
    BY <1>10 DEF Reserved, Remaining
  <2>2. Shares(G)
    BY <2>1, GroupShares
  <2>3. Split(c, G) \in [G -> Nat]
    BY <2>2, SplitIsFair
  <2> QED
    BY <2>3
<1> QED
  BY <1>3, <1>7, <1>8, <1>9, <1>10

\* The region has the entry of each route with a slot, and no other.
LEMMA RegionIs ==
    ASSUME region = Rendered, NEW e
    PROVE  e \in region <=> \E h \in Hosts : \E r \in Automatic(h) :
              /\ Serving(h) /\ SlotsOf(h)[r] > 0
              /\ e = [engine |-> h, alias |-> r.alias, slots |-> SlotsOf(h)[r]]
BY DEF Rendered

\* What the region gives a route is the slots of the route.
LEMMA GivenIs ==
    ASSUME RoutesTypeOK, ~Unrenderable, region = Rendered, NEW h \in Hosts, Serving(h),
           NEW r \in Automatic(h)
    PROVE  Given(h, r) = SlotsOf(h)[r]
<1> DEFINE own == {e \in region : e.engine = h /\ e.alias = r.alias}
           slots == [e \in own |-> e.slots]
           entry == [engine |-> h, alias |-> r.alias, slots |-> SlotsOf(h)[r]]
<1>1. SlotsOf(h)[r] \in Nat
  BY SlotsAre
<1>2. Given(h, r) = SumOver(slots, own)
  BY SumIsFold DEF Given
<1>3. ASSUME NEW e \in own
      PROVE  SlotsOf(h)[r] > 0 /\ e = entry
  <2>1. e \in region /\ e.engine = h /\ e.alias = r.alias
    OBVIOUS
  <2>5. PICK k \in Hosts : \E q \in Automatic(k) :
           /\ Serving(k) /\ SlotsOf(k)[q] > 0
           /\ e = [engine |-> k, alias |-> q.alias, slots |-> SlotsOf(k)[q]]
    BY <2>1, RegionIs
  <2>2. PICK q \in Automatic(k) :
           /\ Serving(k) /\ SlotsOf(k)[q] > 0
           /\ e = [engine |-> k, alias |-> q.alias, slots |-> SlotsOf(k)[q]]
    BY <2>5
  <2>3. k = h /\ q.alias = r.alias
    BY <2>1, <2>2
  <2>4. q = r
    BY <2>3, AliasOnce
  <2> QED
    BY <2>2, <2>3, <2>4
<1>4. CASE SlotsOf(h)[r] > 0
  <2>1. entry \in own
    <3>1. entry \in region
      BY <1>4, RegionIs
    <3> QED
      BY <3>1
  <2>2. own = {entry}
    BY <1>3, <2>1
  <2>3. slots[entry] = SlotsOf(h)[r]
    <3>1. slots[entry] = entry.slots
      <4> HIDE DEF own, entry
      <4> QED
        BY <2>1
    <3>2. entry.slots = SlotsOf(h)[r]
      <4> HIDE DEF own, slots
      <4> QED
        OBVIOUS
    <3> QED
      BY <3>1, <3>2
  <2> HIDE DEF own, entry, slots
  <2>4. SumOver(slots, {entry}) = slots[entry]
    <3>1. slots[entry] \in Int
      BY <1>1, <2>3
    <3> QED
      BY <3>1, SumSingle
  <2> QED
    BY <1>2, <2>2, <2>3, <2>4
<1>5. CASE ~(SlotsOf(h)[r] > 0)
  <2>1. own = {}
    BY <1>3, <1>5
  <2>2. SlotsOf(h)[r] = 0
    BY <1>1, <1>5
  <2> HIDE DEF own, slots
  <2> QED
    BY <1>2, <2>1, <2>2, SumEmpty
<1> QED
  BY <1>4, <1>5

\* A group whose routes are given the shares of its split is treated fairly.
LEMMA FairGroup ==
    ASSUME NEW h, NEW G, G = {} \/ Shares(G), NEW c \in Nat,
           \A r \in G : Given(h, r) = Split(c, G)[r]
    PROVE  Fair(h, G, c)
<1>1. CASE G = {}
  BY <1>1 DEF Fair
<1>2. CASE Shares(G)
  <2> DEFINE W == Weight(G)
             given == Split(c, G)
             Error(r) == Given(h, r) * W - c * r.weight
  <2>1. /\ given \in [G -> Nat]
        /\ SumOver(given, G) = c
        /\ \A r \in G : /\ given[r] * W - c * r.weight \in Int
                        /\ -W < given[r] * W - c * r.weight
                        /\ given[r] * W - c * r.weight < W
        /\ \A q, r \in G :
             (given[q] * W - c * q.weight > 0 /\ given[r] * W - c * r.weight <= 0)
             => (given[q] * W - c * q.weight) - (given[r] * W - c * r.weight) <= W
    BY <1>2, SplitIsFair
  <2>2. given = [r \in G |-> Given(h, r)]
    <3> HIDE DEF given
    <3>1. \A r \in G : given[r] = Given(h, r)
      BY DEF given
    <3> QED
      BY <2>1, <3>1
  <2>3. SumFunction([r \in G |-> Given(h, r)]) = c
    <3>1. DOMAIN given = G
      <4> HIDE DEF given
      <4> QED
        BY <2>1
    <3> HIDE DEF given
    <3> QED
      BY <2>1, <2>2, <3>1, SumIsFold
  <2>4. \A r \in G : Error(r) = given[r] * W - c * r.weight
    OBVIOUS
  <2> HIDE DEF given
  <2>5. \A r \in G : -W < Error(r) /\ Error(r) < W
    BY <2>1, <2>4
  <2>6. \A q, r \in G : Error(q) > 0 /\ Error(r) <= 0 => Error(q) - Error(r) <= W
    BY <2>1, <2>4
  <2>7. W = SumFunction([r \in G |-> r.weight])
    BY DEF Weight
  <2> QED
    BY <2>3, <2>5, <2>6, <2>7 DEF Fair
<1> QED
  BY <1>1, <1>2

\* The groups of the property are the ones of the code.
LEMMA GroupsAre ==
    ASSUME routes \in Seq(Routes), NEW h
    PROVE  Group(h, TRUE) = Reserved(h) /\ Group(h, FALSE) = Remaining(h)
<1>1. \A r \in Routes : r.interactive \in BOOLEAN
  BY RoutesAssumption
<1>2. \A r : r \in ToSet(routes) <=> \E i \in DOMAIN routes : routes[i] = r
  BY DEF ToSet
<1>3. ToSet(routes) \subseteq Routes
  BY ListedFinite
<1>4. ASSUME NEW r
      PROVE  r \in Automatic(h) <=> r \in ToSet(routes) /\ ~r.manual /\ r.engine = h
  BY DEF Automatic
<1>5. ASSUME NEW r
      PROVE  r \in Group(h, TRUE) <=> r \in Reserved(h)
  <2>1. r \in Group(h, TRUE) <=> r \in Routes /\ r \in Automatic(h) /\ r.interactive = TRUE
    BY <1>2, <1>3, <1>4 DEF Group
  <2>2. r \in Reserved(h) <=> r \in Automatic(h) /\ r.interactive
    BY DEF Reserved
  <2>3. r \in Automatic(h) => r \in Routes
    BY <1>3, <1>4
  <2> QED
    BY <1>1, <2>1, <2>2, <2>3, Zenon
<1>6. ASSUME NEW r
      PROVE  r \in Group(h, FALSE) <=> r \in Remaining(h)
  <2>1. r \in Group(h, FALSE) <=> r \in Routes /\ r \in Automatic(h) /\ r.interactive = FALSE
    BY <1>2, <1>3, <1>4 DEF Group
  <2>2. r \in Remaining(h) <=> r \in Automatic(h) /\ ~r.interactive
    BY DEF Reserved, Remaining
  <2>3. r \in Automatic(h) => r \in Routes
    BY <1>3, <1>4
  <2>4. r \in Routes => (r.interactive = FALSE <=> ~r.interactive)
    BY <1>1, Zenon
  <2> QED
    BY <2>1, <2>2, <2>3, <2>4
<1> QED
  BY <1>5, <1>6

\* A region that was rendered is the one of the policy.
RegionRendered == outcome = "rendered" => ~Unrenderable /\ region = Rendered

\* A region the renderer wrote shares the capacity: the case of every group.
LEMMA RenderedShares ==
    ASSUME RoutesTypeOK, RegionRendered
    PROVE  CapacityShared
<1> SUFFICES ASSUME outcome = "rendered"
             PROVE  CapacityShared
  BY DEF CapacityShared
<1>1. ~Unrenderable /\ region = Rendered
  BY DEF RegionRendered
<1>2. engines \in [Hosts -> EngineFacts] /\ routes \in Seq(Routes) /\ region \subseteq RouteEntry
  BY DEF RoutesTypeOK
<1>3. \A e \in region : e.engine \in Hosts
  BY <1>2 DEF RouteEntry
<1>4. ASSUME NEW h \in Hosts, Serves(engines[h])
      PROVE  LET g == engines[h]
                 free == g.slots - g.active
                 kept == IF free < g.reserved THEN free ELSE g.reserved
             IN  Fair(h, Group(h, TRUE), kept) /\ Fair(h, Group(h, FALSE), free - kept)
  <2> DEFINE g == engines[h]
             kept == ForInteractive(g)
             free == Available(g)
  <2>1. /\ free = g.slots - g.active /\ free \in Nat
        /\ kept = IF free < g.reserved THEN free ELSE g.reserved
        /\ kept \in 0 .. free
    BY <1>2, KeptIs
  <2>2. kept \in Nat /\ free - kept \in Nat
    BY <2>1
  <2>3. Group(h, TRUE) = Reserved(h) /\ Group(h, FALSE) = Remaining(h)
    BY <1>2, GroupsAre
  <2> HIDE DEF g, kept, free
  <2>4. Fair(h, Reserved(h), kept) /\ Fair(h, Remaining(h), free - kept)
    <3>1. CASE Automatic(h) = {}
      <4>1. Reserved(h) = {} /\ Remaining(h) = {}
        BY <3>1 DEF Reserved, Remaining
      <4> QED
        BY <2>2, <4>1, FairGroup
    <3>2. CASE Automatic(h) # {}
      <4>1. Serving(h)
        BY <1>4, <3>2 DEF Serving
      <4>2. Reserved(h) \in SUBSET Automatic(h) /\ Remaining(h) \in SUBSET Automatic(h)
        BY DEF Reserved, Remaining
      <4>3. /\ \A r \in Reserved(h) : SlotsOf(h)[r] = Split(kept, Reserved(h))[r]
            /\ \A r \in Remaining(h) : SlotsOf(h)[r] = Split(free - kept, Remaining(h))[r]
        BY <1>1, <4>1, SlotsAre DEF kept, free, g
      <4>4. \A r \in Automatic(h) : Given(h, r) = SlotsOf(h)[r]
        BY <1>1, <4>1, GivenIs
      <4>5. /\ Reserved(h) = {} \/ Shares(Reserved(h))
            /\ Remaining(h) = {} \/ Shares(Remaining(h))
        BY <1>1, <4>1, <4>2, GroupShares
      <4>6. Fair(h, Reserved(h), kept)
        BY <2>2, <4>2, <4>3, <4>4, <4>5, FairGroup
      <4>7. Fair(h, Remaining(h), free - kept)
        BY <2>2, <4>2, <4>3, <4>4, <4>5, FairGroup
      <4> QED
        BY <4>6, <4>7
    <3> QED
      BY <3>1, <3>2
  <2> QED
    BY <2>1, <2>3, <2>4 DEF g
<1>5. ASSUME NEW h \in Hosts, ~Serves(engines[h]), NEW e \in region
      PROVE  e.engine # h
  <2>1. PICK k \in Hosts : Serving(k) /\ e.engine = k
    BY <1>1, RegionIs
  <2> QED
    BY <1>5, <2>1 DEF Serving
<1>6. \A h \in Hosts : Serves(engines[h]) <=>
          engines[h].state = "active" /\ engines[h].health \notin {"unhealthy", "unknown"}
  <2> TAKE h \in Hosts
  <2>1. engines[h].health \in {"healthy", "degraded", "unhealthy", "unknown"}
    BY <1>2, RoutesAssumption
  <2> QED
    BY <2>1 DEF Serves
<1> QED
  BY <1>3, <1>4, <1>5, <1>6 DEF CapacityShared

\* The renderer writes route entries.
LEMMA RenderedType ==
    ASSUME RoutesTypeOK, ~Unrenderable
    PROVE  Rendered \subseteq RouteEntry
<1> SUFFICES ASSUME NEW e \in Rendered
             PROVE  e \in RouteEntry
  OBVIOUS
<1>1. PICK h \in Hosts : Serving(h) /\ \E r \in Automatic(h) :
         SlotsOf(h)[r] > 0 /\ e = [engine |-> h, alias |-> r.alias, slots |-> SlotsOf(h)[r]]
  BY DEF Rendered
<1>2. PICK r \in Automatic(h) :
         SlotsOf(h)[r] > 0 /\ e = [engine |-> h, alias |-> r.alias, slots |-> SlotsOf(h)[r]]
  BY <1>1
<1>3. SlotsOf(h)[r] \in Nat
  BY <1>1, SlotsAre
<1>4. r \in Routes
  <2>1. routes \in Seq(Routes)
    BY DEF RoutesTypeOK
  <2> QED
    BY <2>1, ListedFinite DEF Automatic
<1>5. SlotsOf(h)[r] \in Nat \ {0}
  BY <1>2, <1>3
<1> HIDE DEF Rendered
<1> QED
  BY <1>2, <1>4, <1>5 DEF RouteEntry

\* The invariant of the routes at the start, ...
LEMMA RoutesInitially ==
    RoutesInit => RoutesTypeOK /\ RegionRendered
BY DEF RoutesInit, RoutesTypeOK, RegionRendered

\* ... and after each step.
LEMMA RoutesStep ==
    ASSUME RoutesTypeOK, RegionRendered, [RoutesNext]_routeVars
    PROVE  RoutesTypeOK' /\ RegionRendered'
<1>1. /\ engines \in [Hosts -> EngineFacts] /\ routes \in Seq(Routes)
      /\ outcome \in {"none", "error", "rendered"} /\ region \subseteq RouteEntry
  BY DEF RoutesTypeOK
<1>2. CASE Render
  <2>1. engines' = engines /\ routes' = routes
    BY <1>2 DEF Render
  <2>2. Unrenderable' = Unrenderable /\ Rendered' = Rendered
    BY <2>1 DEF Unrenderable, Rendered, Serving, SlotsOf, Automatic
  <2>3. CASE Unrenderable /\ outcome' = "error" /\ region' = region
    BY <1>1, <2>1, <2>3 DEF RoutesTypeOK, RegionRendered
  <2>4. CASE ~Unrenderable /\ outcome' = "rendered" /\ region' = Rendered
    <3>1. region' \subseteq RouteEntry
      BY <2>4, RenderedType
    <3>2. RoutesTypeOK'
      BY <1>1, <2>1, <2>4, <3>1 DEF RoutesTypeOK
    <3>3. RegionRendered'
      BY <2>2, <2>4 DEF RegionRendered
    <3> QED
      BY <3>2, <3>3
  <2> QED
    BY <1>2, <2>3, <2>4 DEF Render
<1>3. ASSUME NEW r \in Routes, ListRoute(r)
      PROVE  RoutesTypeOK' /\ RegionRendered'
  <2>1. /\ routes' = Append(routes, r) /\ engines' = engines /\ outcome' = "none"
        /\ region' = region
    BY <1>3 DEF ListRoute
  <2>2. routes' \in Seq(Routes)
    BY <1>1, <2>1
  <2> QED
    BY <1>1, <2>1, <2>2 DEF RoutesTypeOK, RegionRendered
<1>4. CASE UNCHANGED routeVars
  <2>1. engines' = engines /\ routes' = routes /\ outcome' = outcome /\ region' = region
    BY <1>4 DEF routeVars
  <2>2. Unrenderable' = Unrenderable /\ Rendered' = Rendered
    BY <2>1 DEF Unrenderable, Rendered, Serving, SlotsOf, Automatic
  <2> QED
    BY <1>1, <2>1, <2>2 DEF RoutesTypeOK, RegionRendered
<1> QED
  BY <1>2, <1>3, <1>4 DEF RoutesNext

\* The type invariant of the routes: whatever is activated, served or restarted,
\* the region holds routes of models and the engines stay what they may be
\* (route_activation, renderer).
THEOREM RoutesTypes == RoutesSpec => []RoutesTypeOK
<1>1. RoutesInit => RoutesTypeOK /\ RegionRendered
  BY RoutesInitially
<1>2. RoutesTypeOK /\ RegionRendered /\ [RoutesNext]_routeVars => (RoutesTypeOK /\ RegionRendered)'
  BY RoutesStep
<1> QED
  BY <1>1, <1>2, PTL DEF RoutesSpec

\* However many routes of whatever weights a policy lists, the free slots of an
\* engine are shared fairly.
THEOREM SharesCapacity == RoutesSpec => []CapacityShared
<1>1. RoutesInit => RoutesTypeOK /\ RegionRendered
  BY RoutesInitially
<1>2. RoutesTypeOK /\ RegionRendered /\ [RoutesNext]_routeVars => (RoutesTypeOK /\ RegionRendered)'
  BY RoutesStep
<1>3. RoutesTypeOK /\ RegionRendered => CapacityShared
  BY RenderedShares
<1> QED
  BY <1>1, <1>2, <1>3, PTL DEF RoutesSpec

-----------------------------------------------------------------------------
(* Sequences, one element more at a time *)

\* A set that holds the empty sequence and is closed under Append holds every
\* sequence.
LEMMA SequenceInduction ==
    ASSUME NEW V, NEW T, <<>> \in T,
           \A s \in Seq(V) : \A v \in V : s \in T => Append(s, v) \in T
    PROVE  Seq(V) \subseteq T
<1> DEFINE N == {n \in Nat : \A s \in Seq(V) : Len(s) = n => s \in T}
<1>1. 0 \in N
  BY EmptySeq
<1>2. ASSUME NEW n \in Nat, n \in N
      PROVE  n + 1 \in N
  <2> SUFFICES ASSUME NEW s \in Seq(V), Len(s) = n + 1
               PROVE  s \in T
    OBVIOUS
  <2>1. s # <<>>
    OBVIOUS
  <2>2. PICK t \in Seq(V), v \in V : s = Append(t, v)
    BY <2>1, SequenceEmptyOrAppend
  <2>3. Len(t) = n
    BY <2>2
  <2> QED
    BY <1>2, <2>2, <2>3
<1>3. Nat \subseteq N
  <2> HIDE DEF N
  <2> QED
    BY <1>1, <1>2, Total!SetInduction
<1> QED
  BY <1>3

-----------------------------------------------------------------------------
(* The amounts of the matching events of a sequence *)

SpentStep(p, v, n) == IF v \in p[1] THEN n + v.amount ELSE n
Spent == INSTANCE FoldInduction WITH Op <- SpentStep, Map <- Nth, Pick <- LastOf

AmountOf(s, M) == Spent!Fold(<<M, s>>, 0, DOMAIN s)

\* The spend of a kind since a moment is the amount of the matching events.
LEMMA SpendTotalIs ==
    ASSUME NEW l, NEW label, NEW kind, NEW after
    PROVE  SpendTotal(l, label, kind, after) = AmountOf(l.spend, Matching(label, kind, after))
BY DEF SpendTotal, FoldLeft, MapThenFoldSet, AmountOf, Spent!Fold, Spent!MapThenFoldSet, SpentStep,
       Nth, LastOf

\* The fold over spend takes the last event first.
LEMMA SpentLast == Spent!LastFirst
BY FromTheEnd DEF Spent!LastFirst, Spent!Choosable, Spent!IsFiniteSet, IsFiniteSet

\* The amount of no event, of one more event, and its type.
LEMMA AmountEmpty ==
    ASSUME NEW M
    PROVE  AmountOf(<<>>, M) = 0
<1>1. DOMAIN <<>> = {}
  OBVIOUS
<1> QED
  BY <1>1, Spent!FoldEmpty DEF AmountOf

\* One more event adds its amount when it matches.
LEMMA AmountAppend ==
    ASSUME NEW s \in Seq(Spend), NEW v \in Spend, NEW M
    PROVE  AmountOf(Append(s, v), M) = IF v \in M THEN AmountOf(s, M) + v.amount ELSE AmountOf(s, M)
<1> DEFINE n == Len(s)
           t == Append(s, v)
           p == <<M, s>>
           q == <<M, t>>
<1>1. /\ n \in Nat /\ DOMAIN s = 1 .. n /\ DOMAIN t = 1 .. (n + 1)
      /\ t[n + 1] = v /\ \A i \in 1 .. n : t[i] = s[i]
  OBVIOUS
<1>2. /\ \A i \in 1 .. n : Nth(p, i) = Nth(q, i)
      /\ \A w, rest : SpentStep(p, w, rest) = SpentStep(q, w, rest)
  BY <1>1 DEF Nth, SpentStep
<1>3. Nth(q, n + 1) = v /\ \A rest : SpentStep(q, v, rest) = IF v \in M THEN rest + v.amount ELSE rest
  BY <1>1 DEF Nth, SpentStep
<1>4. AmountOf(s, M) = Spent!Fold(p, 0, 1 .. n) /\ AmountOf(t, M) = Spent!Fold(q, 0, 1 .. (n + 1))
  BY <1>1 DEF AmountOf
<1> HIDE DEF n, t, p, q
<1>5. Spent!Fold(q, 0, 1 .. (n + 1)) = SpentStep(q, Nth(q, n + 1), Spent!Fold(p, 0, 1 .. n))
  BY <1>1, <1>2, SpentLast, Spent!FoldAppend
<1> QED
  BY <1>3, <1>4, <1>5 DEF t

\* An amount is a number.
LEMMA AmountType ==
    ASSUME NEW s \in Seq(Spend), NEW M
    PROVE  AmountOf(s, M) \in Nat
<1> DEFINE T == {t \in Seq(Spend) : AmountOf(t, M) \in Nat}
<1>1. <<>> \in T
  BY AmountEmpty, EmptySeq
<1>2. ASSUME NEW t \in Seq(Spend), NEW v \in Spend, t \in T
      PROVE  Append(t, v) \in T
  <2>1. v.amount \in Nat
    BY DEF Spend
  <2> QED
    BY <1>2, <2>1, AmountAppend
<1>3. Seq(Spend) \subseteq T
  <2> HIDE DEF T
  <2> QED
    BY <1>1, <1>2, SequenceInduction
<1> QED
  BY <1>3

\* The amounts of two sequences add up.
LEMMA AmountConcat ==
    ASSUME NEW s \in Seq(Spend), NEW t \in Seq(Spend), NEW M
    PROVE  AmountOf(s \o t, M) = AmountOf(s, M) + AmountOf(t, M)
<1> DEFINE T == {u \in Seq(Spend) : AmountOf(s \o u, M) = AmountOf(s, M) + AmountOf(u, M)}
<1>1. <<>> \in T
  <2>1. s \o <<>> = s /\ AmountOf(s, M) \in Nat
    BY ConcatEmptySeq, AmountType
  <2> QED
    BY <2>1, AmountEmpty, EmptySeq
<1>2. ASSUME NEW u \in Seq(Spend), NEW v \in Spend, u \in T
      PROVE  Append(u, v) \in T
  <2>1. s \o Append(u, v) = Append(s \o u, v) /\ s \o u \in Seq(Spend) /\ Append(u, v) \in Seq(Spend)
    OBVIOUS
  <2>2. v.amount \in Nat /\ AmountOf(s, M) \in Nat /\ AmountOf(u, M) \in Nat
    BY AmountType DEF Spend
  <2>3. AmountOf(Append(s \o u, v), M)
          = IF v \in M THEN AmountOf(s \o u, M) + v.amount ELSE AmountOf(s \o u, M)
    BY <2>1, AmountAppend
  <2>4. AmountOf(Append(u, v), M) = IF v \in M THEN AmountOf(u, M) + v.amount ELSE AmountOf(u, M)
    BY AmountAppend
  <2>5. AmountOf(s \o u, M) = AmountOf(s, M) + AmountOf(u, M)
    BY <1>2
  <2>6. AmountOf(s \o Append(u, v), M) = AmountOf(s, M) + AmountOf(Append(u, v), M)
    BY <2>1, <2>2, <2>3, <2>4, <2>5
  <2> QED
    BY <2>1, <2>6
<1>3. Seq(Spend) \subseteq T
  <2> HIDE DEF T
  <2> QED
    BY <1>1, <1>2, SequenceInduction
<1> QED
  BY <1>3

-----------------------------------------------------------------------------
(* Filtered sequences and their values *)

\* What occurs in a sequence: after one more element, ...
LEMMA ToSetAppend ==
    ASSUME NEW V, NEW s \in Seq(V), NEW v \in V
    PROVE  ToSet(<<>>) = {} /\ ToSet(Append(s, v)) = ToSet(s) \cup {v}
<1>1. ToSet(<<>>) = {}
  BY DEF ToSet
<1>2. /\ DOMAIN s = 1 .. Len(s) /\ Len(s) \in Nat /\ DOMAIN Append(s, v) = 1 .. (Len(s) + 1)
      /\ Append(s, v)[Len(s) + 1] = v /\ \A i \in 1 .. Len(s) : Append(s, v)[i] = s[i]
  OBVIOUS
<1>3. \A i : i \in 1 .. (Len(s) + 1) <=> i \in 1 .. Len(s) \/ i = Len(s) + 1
  BY <1>2
<1>4. \A w : w \in ToSet(Append(s, v)) <=> w \in ToSet(s) \/ w = v
  <2> TAKE w
  <2>1. w \in ToSet(Append(s, v)) <=> \E i \in 1 .. (Len(s) + 1) : Append(s, v)[i] = w
    BY <1>2 DEF ToSet
  <2>2. w \in ToSet(s) <=> \E i \in 1 .. Len(s) : s[i] = w
    BY <1>2 DEF ToSet
  <2>3. \A i \in 1 .. Len(s) : i \in 1 .. (Len(s) + 1) /\ Append(s, v)[i] = s[i]
    BY <1>2, <1>3
  <2>4. Len(s) + 1 \in 1 .. (Len(s) + 1) /\ Append(s, v)[Len(s) + 1] = v
    BY <1>2
  <2>5. w \in ToSet(s) \/ w = v => w \in ToSet(Append(s, v))
    BY <2>1, <2>2, <2>3, <2>4
  <2>6. ASSUME w \in ToSet(Append(s, v)), w # v
        PROVE  w \in ToSet(s)
    <3>1. PICK i \in 1 .. (Len(s) + 1) : Append(s, v)[i] = w
      BY <2>1, <2>6
    <3>2. i \in 1 .. Len(s)
      BY <1>2, <2>6, <3>1
    <3>3. s[i] = w
      BY <1>2, <3>1, <3>2
    <3> QED
      BY <2>2, <3>2, <3>3
  <2> QED
    BY <2>5, <2>6
<1> QED
  BY <1>1, <1>4

\* ... in two sequences, ...
LEMMA ToSetConcat ==
    ASSUME NEW V, NEW s \in Seq(V), NEW t \in Seq(V)
    PROVE  ToSet(s \o t) = ToSet(s) \cup ToSet(t)
<1> DEFINE T == {u \in Seq(V) : ToSet(s \o u) = ToSet(s) \cup ToSet(u)}
<1>1. <<>> \in T
  BY ConcatEmptySeq, EmptySeq DEF ToSet
<1>2. ASSUME NEW u \in Seq(V), NEW v \in V, u \in T
      PROVE  Append(u, v) \in T
  <2>1. s \o Append(u, v) = Append(s \o u, v) /\ s \o u \in Seq(V) /\ Append(u, v) \in Seq(V)
    OBVIOUS
  <2>2. ToSet(Append(s \o u, v)) = ToSet(s \o u) \cup {v}
    <3> DEFINE w == s \o u
    <3>1. w \in Seq(V)
      BY <2>1
    <3> HIDE DEF w
    <3>2. ToSet(Append(w, v)) = ToSet(w) \cup {v}
      BY <3>1, ToSetAppend
    <3> QED
      BY <3>2 DEF w
  <2>3. ToSet(Append(u, v)) = ToSet(u) \cup {v}
    BY ToSetAppend
  <2> QED
    BY <1>2, <2>1, <2>2, <2>3
<1>3. Seq(V) \subseteq T
  <2> HIDE DEF T
  <2> QED
    BY <1>1, <1>2, SequenceInduction
<1> QED
  BY <1>3

\* ... and that it is finite.
LEMMA ToSetFinite ==
    ASSUME NEW V, NEW s \in Seq(V)
    PROVE  IsFiniteSet(ToSet(s))
<1> DEFINE T == {u \in Seq(V) : IsFiniteSet(ToSet(u))}
<1>1. <<>> \in T
  BY ToSetAppend, FS_EmptySet, EmptySeq DEF ToSet
<1>2. ASSUME NEW u \in Seq(V), NEW v \in V, u \in T
      PROVE  Append(u, v) \in T
  <2>1. IsFiniteSet(ToSet(u) \cup {v})
    BY <1>2, FS_AddElement
  <2>2. ToSet(Append(u, v)) = ToSet(u) \cup {v} /\ Append(u, v) \in Seq(V)
    BY ToSetAppend
  <2> QED
    BY <2>1, <2>2
<1>3. Seq(V) \subseteq T
  <2> HIDE DEF T
  <2> QED
    BY <1>1, <1>2, SequenceInduction
<1> QED
  BY <1>3

\* The filter of the loads: of nothing, ...
LEMMA OnlyEmpty ==
    ASSUME NEW T
    PROVE  Only(<<>>, T) = <<>>
<1>1. DOMAIN <<>> = {}
  OBVIOUS
<1> QED
  BY <1>1, OnlyIsFold, Filtered!FoldEmpty

\* ... and of one more element.
LEMMA OnlyAppend ==
    ASSUME NEW V, NEW s \in Seq(V), NEW v \in V, NEW T
    PROVE  Only(Append(s, v), T) = IF v \in T THEN Append(Only(s, T), v) ELSE Only(s, T)
<1> DEFINE n == Len(s)
           t == Append(s, v)
           p == <<T, s>>
           q == <<T, t>>
<1>1. /\ n \in Nat /\ DOMAIN s = 1 .. n /\ DOMAIN t = 1 .. (n + 1)
      /\ t[n + 1] = v /\ \A i \in 1 .. n : t[i] = s[i]
  OBVIOUS
<1>2. /\ \A i \in 1 .. n : Nth(p, i) = Nth(q, i)
      /\ \A w, rest : OnlyStep(p, w, rest) = OnlyStep(q, w, rest)
  BY <1>1 DEF Nth, OnlyStep
<1>3. Nth(q, n + 1) = v /\ \A rest : OnlyStep(q, v, rest) = IF v \in T THEN Append(rest, v) ELSE rest
  BY <1>1 DEF Nth, OnlyStep
<1>4. Only(s, T) = Filtered!Fold(p, <<>>, 1 .. n) /\ Only(t, T) = Filtered!Fold(q, <<>>, 1 .. (n + 1))
  BY <1>1, OnlyIsFold
<1> HIDE DEF n, t, p, q
<1>6. Filtered!Fold(q, <<>>, 1 .. (n + 1)) = OnlyStep(q, Nth(q, n + 1), Filtered!Fold(p, <<>>, 1 .. n))
  BY <1>1, <1>2, FilteredLast, Filtered!FoldAppend
<1> QED
  BY <1>3, <1>4, <1>6 DEF t

\* A filtered sequence has the values that pass.
LEMMA OnlyValues ==
    ASSUME NEW V, NEW s \in Seq(V), NEW T
    PROVE  ToSet(Only(s, T)) = ToSet(s) \cap T
<1> DEFINE H == {u \in Seq(V) : ToSet(Only(u, T)) = ToSet(u) \cap T}
<1>1. <<>> \in H
  <2>1. Only(<<>>, T) = <<>> /\ ToSet(<<>>) = {}
    BY OnlyEmpty DEF ToSet
  <2> QED
    BY <2>1, EmptySeq
<1>2. ASSUME NEW u \in Seq(V), NEW v \in V, u \in H
      PROVE  Append(u, v) \in H
  <2>1. Only(u, T) \in Seq(V) /\ Append(u, v) \in Seq(V)
    BY OnlyType
  <2>2. Only(Append(u, v), T) = IF v \in T THEN Append(Only(u, T), v) ELSE Only(u, T)
    BY OnlyAppend
  <2>3. ToSet(Append(u, v)) = ToSet(u) \cup {v}
    BY ToSetAppend
  <2>4. ToSet(Append(Only(u, T), v)) = ToSet(Only(u, T)) \cup {v}
    BY <2>1, ToSetAppend
  <2> QED
    BY <1>2, <2>1, <2>2, <2>3, <2>4
<1>3. Seq(V) \subseteq H
  <2> HIDE DEF H
  <2> QED
    BY <1>1, <1>2, SequenceInduction
<1> QED
  BY <1>3

\* The amounts of a filtered sequence are the ones that also pass the filter.
LEMMA AmountOnly ==
    ASSUME NEW s \in Seq(Spend), NEW T, NEW M
    PROVE  AmountOf(Only(s, T), M) = AmountOf(s, M \cap T)
<1> DEFINE H == {u \in Seq(Spend) : AmountOf(Only(u, T), M) = AmountOf(u, M \cap T)}
<1>1. <<>> \in H
  <2>1. Only(<<>>, T) = <<>>
    BY OnlyEmpty
  <2> QED
    BY <2>1, AmountEmpty, EmptySeq
<1>2. ASSUME NEW u \in Seq(Spend), NEW v \in Spend, u \in H
      PROVE  Append(u, v) \in H
  <2>1. Only(u, T) \in Seq(Spend) /\ Append(u, v) \in Seq(Spend)
    BY OnlyType
  <2>2. Only(Append(u, v), T) = IF v \in T THEN Append(Only(u, T), v) ELSE Only(u, T)
    BY OnlyAppend
  <2>3. AmountOf(Append(Only(u, T), v), M)
          = IF v \in M THEN AmountOf(Only(u, T), M) + v.amount ELSE AmountOf(Only(u, T), M)
    BY <2>1, AmountAppend
  <2>4. AmountOf(Append(u, v), M \cap T)
          = IF v \in M \cap T THEN AmountOf(u, M \cap T) + v.amount ELSE AmountOf(u, M \cap T)
    BY AmountAppend
  <2>5. AmountOf(Only(u, T), M) = AmountOf(u, M \cap T)
    BY <1>2
  <2> HIDE DEF H
  <2>6. AmountOf(Only(Append(u, v), T), M) = AmountOf(Append(u, v), M \cap T)
    BY <2>2, <2>3, <2>4, <2>5
  <2> QED
    BY <2>1, <2>6 DEF H
<1>3. Seq(Spend) \subseteq H
  <2> HIDE DEF H
  <2> QED
    BY <1>1, <1>2, SequenceInduction
<1> QED
  BY <1>3

\* The amounts of a sequence, summed over its positions.
LEMMA AmountByPosition ==
    ASSUME NEW s \in Seq(Spend), NEW M
    PROVE  SumFunction([i \in {i \in DOMAIN s : s[i] \in M} |-> s[i].amount]) = AmountOf(s, M)
<1> DEFINE At1(u) == {i \in DOMAIN u : u[i] \in M}
           Amounts(u) == [i \in At1(u) |-> u[i].amount]
           H == {u \in Seq(Spend) : SumOver(Amounts(u), At1(u)) = AmountOf(u, M)}
<1>1. <<>> \in H
  <2>1. At1(<<>>) = {}
    OBVIOUS
  <2> QED
    BY <2>1, SumEmpty, AmountEmpty, EmptySeq
<1>2. ASSUME NEW u \in Seq(Spend), NEW v \in Spend, u \in H
      PROVE  Append(u, v) \in H
  <2> DEFINE n == Len(u)
             t == Append(u, v)
  <2>1. /\ n \in Nat /\ DOMAIN u = 1 .. n /\ DOMAIN t = 1 .. (n + 1) /\ t \in Seq(Spend)
        /\ t[n + 1] = v /\ \A i \in 1 .. n : t[i] = u[i] /\ u[i] \in Spend
    OBVIOUS
  <2>2. /\ SumOver(Amounts(u), At1(u)) = AmountOf(u, M) /\ AmountOf(u, M) \in Nat
        /\ AmountOf(t, M) = IF v \in M THEN AmountOf(u, M) + v.amount ELSE AmountOf(u, M)
    BY <1>2, AmountAppend, AmountType
  <2>3. v.amount \in Nat /\ \A i \in 1 .. n : u[i].amount \in Nat
    BY <2>1 DEF Spend
  <2> HIDE DEF t, n, H
  <2>4. IsFiniteSet(1 .. (n + 1)) /\ IsFiniteSet(1 .. n)
    BY <2>1, FS_Interval
  <2>5. IsFiniteSet(At1(u)) /\ IsFiniteSet(At1(t)) /\ n + 1 \notin At1(u)
    BY <2>1, <2>4, FS_Subset
  <2>6. \A i \in At1(u) : Amounts(u)[i] = Amounts(t)[i]
    BY <2>1
  <2>7. Numeric(Amounts(t), At1(t))
    BY <2>1, <2>3 DEF Numeric
  <2>8. SumOver(Amounts(u), At1(u)) = SumOver(Amounts(t), At1(u))
    <3> DEFINE f == Amounts(u)
               g == Amounts(t)
               A == At1(u)
    <3>1. \A i \in A : f[i] = g[i]
      BY <2>6
    <3> HIDE DEF f, g, A
    <3>2. SumOver(f, A) = SumOver(g, A)
      BY <2>5, <3>1, SumSame DEF A
    <3> QED
      BY <3>2 DEF f, g, A
  <2>9. ASSUME v \in M
        PROVE  SumOver(Amounts(t), At1(t)) = AmountOf(t, M)
    <3>1. At1(t) = At1(u) \cup {n + 1} /\ n + 1 \in At1(t) /\ At1(t) \ {n + 1} = At1(u)
      BY <2>1, <2>9
    <3>2. Amounts(t)[n + 1] = v.amount
      BY <2>1, <3>1
    <3> HIDE DEF At1, Amounts
    <3>3. SumOver(Amounts(t), At1(t)) = Amounts(t)[n + 1] + SumOver(Amounts(t), At1(t) \ {n + 1})
      BY <2>5, <2>7, <3>1, SumAdd
    <3>4. SumOver(Amounts(t), At1(t) \ {n + 1}) = SumOver(Amounts(t), At1(u))
      BY <3>1
    <3>5. SumOver(Amounts(t), At1(t) \ {n + 1}) = AmountOf(u, M)
      BY <2>2, <2>8, <3>4
    <3>6. SumOver(Amounts(t), At1(t)) = v.amount + AmountOf(u, M)
      BY <3>2, <3>3, <3>5
    <3> QED
      BY <2>2, <2>3, <2>9, <3>6
  <2>10. ASSUME v \notin M
         PROVE  SumOver(Amounts(t), At1(t)) = AmountOf(t, M)
    <3>1. At1(t) = At1(u)
      BY <2>1, <2>10
    <3> HIDE DEF At1, Amounts
    <3> QED
      BY <2>2, <2>8, <2>10, <3>1
  <2> HIDE DEF At1, Amounts
  <2>11. SumOver(Amounts(t), At1(t)) = AmountOf(t, M)
    BY <2>9, <2>10
  <2>12. t \in H
    BY <2>1, <2>11 DEF H
  <2> QED
    BY <2>12 DEF t
<1>3. Seq(Spend) \subseteq H
  <2> HIDE DEF H
  <2> QED
    BY <1>1, <1>2, SequenceInduction
<1>4. SumFunction(Amounts(s)) = SumOver(Amounts(s), At1(s))
  <2>1. DOMAIN Amounts(s) = At1(s)
    OBVIOUS
  <2> HIDE DEF Amounts, At1
  <2> QED
    BY <2>1, SumIsFold
<1> QED
  BY <1>3, <1>4

-----------------------------------------------------------------------------
(* The values that were not seen, each of them once *)

NovelStep(p, v, found) ==
    IF v \in p[1] \/ Contains(found, v) THEN found ELSE Append(found, v)
Novel == INSTANCE FoldInduction WITH Op <- NovelStep, Map <- Nth, Pick <- LastOf

\* Dropping what was seen is a fold over the new rows.
LEMMA UnseenIsFold ==
    ASSUME NEW new, NEW known
    PROVE  Unseen(new, known) = Novel!Fold(<<known, new>>, <<>>, DOMAIN new)
BY DEF Unseen, FoldLeft, MapThenFoldSet, Novel!Fold, Novel!MapThenFoldSet, NovelStep, Nth, LastOf

\* That fold takes the last row first.
LEMMA NovelLast == Novel!LastFirst
BY FromTheEnd DEF Novel!LastFirst, Novel!Choosable, Novel!IsFiniteSet, IsFiniteSet

\* Of no new row nothing is unseen, ...
LEMMA UnseenEmpty ==
    ASSUME NEW known
    PROVE  Unseen(<<>>, known) = <<>>
<1>1. DOMAIN <<>> = {}
  OBVIOUS
<1> QED
  BY <1>1, UnseenIsFold, Novel!FoldEmpty

\* ... and one more row is kept when it is neither seen nor kept already.
LEMMA UnseenAppend ==
    ASSUME NEW V, NEW s \in Seq(V), NEW v \in V, NEW known
    PROVE  Unseen(Append(s, v), known)
             = IF v \in known \/ Contains(Unseen(s, known), v) THEN Unseen(s, known)
               ELSE Append(Unseen(s, known), v)
<1> DEFINE n == Len(s)
           t == Append(s, v)
           p == <<known, s>>
           q == <<known, t>>
<1>1. /\ n \in Nat /\ DOMAIN s = 1 .. n /\ DOMAIN t = 1 .. (n + 1)
      /\ t[n + 1] = v /\ \A i \in 1 .. n : t[i] = s[i]
  OBVIOUS
<1>2. /\ \A i \in 1 .. n : Nth(p, i) = Nth(q, i)
      /\ \A w, rest : NovelStep(p, w, rest) = NovelStep(q, w, rest)
  BY <1>1 DEF Nth, NovelStep
<1>3. Nth(q, n + 1) = v /\ \A rest : NovelStep(q, v, rest)
          = IF v \in known \/ Contains(rest, v) THEN rest ELSE Append(rest, v)
  BY <1>1 DEF Nth, NovelStep
<1>4. Unseen(s, known) = Novel!Fold(p, <<>>, 1 .. n) /\ Unseen(t, known) = Novel!Fold(q, <<>>, 1 .. (n + 1))
  BY <1>1, UnseenIsFold
<1> HIDE DEF n, t, p, q
<1>5. Novel!Fold(q, <<>>, 1 .. (n + 1)) = NovelStep(q, Nth(q, n + 1), Novel!Fold(p, <<>>, 1 .. n))
  BY <1>1, <1>2, NovelLast, Novel!FoldAppend
<1> QED
  BY <1>3, <1>4, <1>5 DEF t

\* Wherever a value of u is in s, the ones before it in u are before it in s.
InOrder(u, s) ==
    \A a, b \in DOMAIN u : a < b =>
        \A j \in DOMAIN s : s[j] = u[b] => \E i \in 1 .. j : s[i] = u[a]

\* What a load keeps: rows that were not seen, each once, in their order.
LEMMA UnseenFacts ==
    ASSUME NEW V, NEW s \in Seq(V), NEW known
    PROVE  /\ Unseen(s, known) \in Seq(V)
           /\ ToSet(Unseen(s, known)) = ToSet(s) \ known
           /\ InOrder(Unseen(s, known), s)
<1> DEFINE H == {u \in Seq(V) : /\ Unseen(u, known) \in Seq(V)
                                /\ ToSet(Unseen(u, known)) = ToSet(u) \ known
                                /\ InOrder(Unseen(u, known), u)}
<1>1. <<>> \in H
  <2>1. ToSet(<<>>) = {} /\ InOrder(<<>>, <<>>)
    BY DEF ToSet, InOrder
  <2> QED
    BY <2>1, UnseenEmpty, EmptySeq
<1>2. ASSUME NEW u \in Seq(V), NEW v \in V, u \in H
      PROVE  Append(u, v) \in H
  <2> DEFINE n == Len(u)
             t == Append(u, v)
             f == Unseen(u, known)
             g == Unseen(t, known)
  <2>1. f \in Seq(V) /\ ToSet(f) = ToSet(u) \ known /\ InOrder(f, u)
    BY <1>2
  <2>2. /\ n \in Nat /\ DOMAIN u = 1 .. n /\ DOMAIN t = 1 .. (n + 1) /\ t \in Seq(V)
        /\ t[n + 1] = v /\ \A i \in 1 .. n : t[i] = u[i] /\ u[i] \in V
    OBVIOUS
  <2>3. ToSet(t) = ToSet(u) \cup {v} /\ ToSet(Append(f, v)) = ToSet(f) \cup {v}
    BY <2>1, ToSetAppend
  <2>4. g = IF v \in known \/ Contains(f, v) THEN f ELSE Append(f, v)
    BY UnseenAppend
  <2>5. Contains(f, v) <=> v \in ToSet(f)
    BY <2>1 DEF Contains, ToSet
  <2>6. \A i \in 1 .. n : u[i] \in ToSet(u)
    BY <2>2 DEF ToSet
  <2>7. \A a \in DOMAIN f : f[a] \in ToSet(f)
    BY DEF ToSet
  <2>8. \A w \in ToSet(u) : \E i \in 1 .. n : u[i] = w
    BY <2>2 DEF ToSet
  <2>9. DOMAIN f = 1 .. Len(f) /\ Len(f) \in Nat
    BY <2>1
  <2> HIDE DEF t, f, g, n, H
  <2>10. ASSUME NEW a \in DOMAIN f, NEW b \in DOMAIN f, a < b,
                NEW j \in 1 .. (n + 1), t[j] = f[b]
         PROVE  \E i \in 1 .. j : t[i] = f[a]
    <3>1. CASE j \in 1 .. n
      <4>1. PICK i \in 1 .. j : u[i] = f[a]
        BY <2>1, <2>2, <2>10, <3>1 DEF InOrder
      <4>2. i \in 1 .. n
        BY <2>2, <3>1
      <4> QED
        BY <2>2, <4>1, <4>2
    <3>2. CASE j = n + 1
      <4>1. f[a] \in ToSet(u)
        BY <2>1, <2>7
      <4>2. PICK i \in 1 .. n : u[i] = f[a]
        BY <2>8, <4>1
      <4>3. i \in 1 .. j
        BY <2>2, <3>2
      <4> QED
        BY <2>2, <4>2, <4>3
    <3> QED
      BY <2>2, <3>1, <3>2
  <2>11. CASE v \in known \/ Contains(f, v)
    <3>1. g = f
      BY <2>4, <2>11
    <3>2. ToSet(g) = ToSet(t) \ known
      BY <2>1, <2>3, <2>5, <2>11, <3>1
    <3>3. InOrder(g, t)
      BY <2>2, <2>10, <3>1 DEF InOrder
    <3> QED
      BY <2>1, <2>2, <3>1, <3>2, <3>3 DEF H, t, g
  <2>12. CASE ~(v \in known \/ Contains(f, v))
    <3>1. g = Append(f, v)
      BY <2>4, <2>12
    <3>2. g \in Seq(V) /\ ToSet(g) = ToSet(t) \ known
      BY <2>1, <2>3, <2>5, <2>12, <3>1
    <3>3. v \notin ToSet(u)
      BY <2>1, <2>5, <2>12
    <3> DEFINE m == Len(f)
    <3>4. /\ DOMAIN g = 1 .. (m + 1) /\ m \in Nat /\ DOMAIN f = 1 .. m
          /\ g[m + 1] = v /\ \A a \in 1 .. m : g[a] = f[a]
      BY <2>1, <2>9, <3>1
    <3> HIDE DEF m
    <3>5. ASSUME NEW a \in 1 .. (m + 1), NEW b \in 1 .. (m + 1), a < b,
                 NEW j \in 1 .. (n + 1), t[j] = g[b]
          PROVE  \E i \in 1 .. j : t[i] = g[a]
      <4>1. a \in 1 .. m
        BY <3>4, <3>5
      <4>2. CASE b \in 1 .. m
        <5>1. t[j] = f[b] /\ g[a] = f[a] /\ a \in DOMAIN f /\ b \in DOMAIN f
          BY <3>4, <3>5, <4>1, <4>2
        <5> QED
          BY <2>10, <3>5, <5>1
      <4>3. CASE b = m + 1
        <5>1. t[j] = v
          BY <3>4, <3>5, <4>3
        <5>2. j = n + 1
          BY <2>2, <2>6, <3>3, <5>1
        <5>3. f[a] \in ToSet(u)
          BY <2>1, <2>7, <3>4, <4>1
        <5>4. PICK i \in 1 .. n : u[i] = f[a]
          BY <2>8, <5>3
        <5>5. i \in 1 .. j /\ t[i] = g[a]
          BY <2>2, <3>4, <4>1, <5>2, <5>4
        <5> QED
          BY <5>5
      <4> QED
        BY <3>4, <4>2, <4>3
    <3>6. InOrder(g, t)
      BY <2>2, <3>4, <3>5 DEF InOrder
    <3> QED
      BY <2>2, <3>2, <3>6 DEF H, t, g
  <2> QED
    BY <2>11, <2>12
<1>3. Seq(V) \subseteq H
  <2> HIDE DEF H
  <2> QED
    BY <1>1, <1>2, SequenceInduction
<1> QED
  BY <1>3

-----------------------------------------------------------------------------
(* The amounts of a set of events *)

Amounts == [s \in Spend |-> s.amount]

\* Each spend event has an amount.
LEMMA AmountsNumeric ==
    ASSUME NEW S \in SUBSET Spend
    PROVE  Numeric(Amounts, S) /\ \A s \in S : Amounts[s] = s.amount /\ s.amount \in Nat
BY DEF Numeric, Amounts, Spend

\* What the values that were not seen add to the ones that were.
LEMMA AmountUnseen ==
    ASSUME NEW s \in Seq(Spend), NEW known \in SUBSET Spend, IsFiniteSet(known), NEW M
    PROVE  SumOver(Amounts, (known \cup ToSet(s)) \cap M)
             = SumOver(Amounts, known \cap M) + AmountOf(Unseen(s, known), M)
<1> DEFINE All(u) == (known \cup ToSet(u)) \cap M
           H == {u \in Seq(Spend) :
                   /\ IsFiniteSet(ToSet(u)) /\ ToSet(u) \subseteq Spend
                   /\ SumOver(Amounts, All(u))
                        = SumOver(Amounts, known \cap M) + AmountOf(Unseen(u, known), M)}
<1>1. <<>> \in H
  <2>1. ToSet(<<>>) = {} /\ IsFiniteSet({})
    BY FS_EmptySet DEF ToSet
  <2>2. All(<<>>) = known \cap M
    BY <2>1
  <2>3. SumOver(Amounts, known \cap M) \in Int
    <3>1. IsFiniteSet(known \cap M) /\ Numeric(Amounts, known \cap M)
      BY FS_Subset, AmountsNumeric
    <3> QED
      BY <3>1, SumType
  <2>4. AmountOf(Unseen(<<>>, known), M) = 0
    BY UnseenEmpty, AmountEmpty
  <2>5. SumOver(Amounts, All(<<>>)) = SumOver(Amounts, known \cap M) + AmountOf(Unseen(<<>>, known), M)
    <3> DEFINE c == SumOver(Amounts, known \cap M)
               d == AmountOf(Unseen(<<>>, known), M)
    <3>1. SumOver(Amounts, All(<<>>)) = c /\ c \in Int /\ d = 0
      BY <2>2, <2>3, <2>4
    <3> HIDE DEF All, H, c, d
    <3>2. SumOver(Amounts, All(<<>>)) = c + d
      BY <3>1
    <3> QED
      BY <3>2 DEF c, d
  <2>6. <<>> \in Seq(Spend) /\ IsFiniteSet(ToSet(<<>>)) /\ ToSet(<<>>) \subseteq Spend
    BY <2>1, EmptySeq
  <2> HIDE DEF All
  <2> QED
    BY <2>5, <2>6
<1>2. ASSUME NEW u \in Seq(Spend), NEW v \in Spend, u \in H
      PROVE  Append(u, v) \in H
  <2> DEFINE t == Append(u, v)
             f == Unseen(u, known)
  <2>1. /\ IsFiniteSet(ToSet(u)) /\ ToSet(u) \subseteq Spend
        /\ SumOver(Amounts, All(u)) = SumOver(Amounts, known \cap M) + AmountOf(f, M)
    BY <1>2
  <2>2. t \in Seq(Spend) /\ ToSet(t) = ToSet(u) \cup {v}
    BY ToSetAppend
  <2>3. IsFiniteSet(ToSet(t)) /\ ToSet(t) \subseteq Spend
    <3>1. IsFiniteSet(ToSet(u) \cup {v})
      BY <2>1, FS_AddElement
    <3>2. ToSet(u) \cup {v} \subseteq Spend
      BY <2>1
    <3> HIDE DEF t
    <3> QED
      BY <2>2, <3>1, <3>2
  <2>4. f \in Seq(Spend) /\ ToSet(f) = ToSet(u) \ known
    BY UnseenFacts
  <2>5. Unseen(t, known) = IF v \in known \/ Contains(f, v) THEN f ELSE Append(f, v)
    BY UnseenAppend
  <2>6. Contains(f, v) <=> v \in ToSet(f)
    BY <2>4 DEF Contains, ToSet
  <2>7. AmountOf(Append(f, v), M) = IF v \in M THEN AmountOf(f, M) + v.amount ELSE AmountOf(f, M)
    BY <2>4, AmountAppend
  <2>8. /\ IsFiniteSet(All(t)) /\ Numeric(Amounts, All(t)) /\ v.amount \in Nat /\ Amounts[v] = v.amount
        /\ AmountOf(f, M) \in Nat
    <3>1. IsFiniteSet(known \cup ToSet(t)) /\ All(t) \subseteq known \cup ToSet(t) /\ All(t) \subseteq Spend
      BY <2>3, FS_Union
    <3> HIDE DEF All, t
    <3>2. IsFiniteSet(All(t)) /\ Numeric(Amounts, All(t))
      BY <3>1, FS_Subset, AmountsNumeric
    <3>3. v.amount \in Nat /\ Amounts[v] = v.amount
      BY DEF Spend, Amounts
    <3> QED
      BY <2>4, <3>2, <3>3, AmountType
  <2>9. SumOver(Amounts, known \cap M) \in Int
    <3>1. IsFiniteSet(known \cap M) /\ Numeric(Amounts, known \cap M)
      BY FS_Subset, AmountsNumeric
    <3> QED
      BY <3>1, SumType
  <2>10. CASE v \in known \cup ToSet(u)
    <3>1. All(t) = All(u)
      BY <2>2, <2>10
    <3>2. Unseen(t, known) = f
      BY <2>4, <2>5, <2>6, <2>10
    <3> HIDE DEF All, t
    <3> QED
      BY <2>1, <2>2, <2>3, <3>1, <3>2 DEF t
  <2>11. CASE v \notin known \cup ToSet(u) /\ v \in M
    <3>1. v \in All(t) /\ All(t) \ {v} = All(u)
      BY <2>2, <2>11
    <3>2. Unseen(t, known) = Append(f, v)
      BY <2>4, <2>5, <2>6, <2>11
    <3> HIDE DEF All, t, f
    <3>3. SumOver(Amounts, All(t)) = Amounts[v] + SumOver(Amounts, All(t) \ {v})
      BY <2>8, <3>1, SumAdd
    <3>4. SumOver(Amounts, All(t)) = v.amount + SumOver(Amounts, All(u))
      BY <2>8, <3>1, <3>3
    <3>5. AmountOf(Unseen(t, known), M) = AmountOf(f, M) + v.amount
      BY <2>7, <2>11, <3>2
    <3>6. SumOver(Amounts, All(t)) = SumOver(Amounts, known \cap M) + AmountOf(Unseen(t, known), M)
      BY <2>1, <2>8, <2>9, <3>4, <3>5
    <3> QED
      BY <2>2, <2>3, <3>6 DEF t
  <2>12. CASE v \notin known \cup ToSet(u) /\ v \notin M
    <3>1. All(t) = All(u)
      BY <2>2, <2>12
    <3>2. Unseen(t, known) = Append(f, v)
      BY <2>4, <2>5, <2>6, <2>12
    <3> HIDE DEF All, t, f
    <3>3. AmountOf(Unseen(t, known), M) = AmountOf(f, M)
      BY <2>7, <2>12, <3>2
    <3> QED
      BY <2>1, <2>2, <2>3, <3>1, <3>3 DEF t
  <2> QED
    BY <2>10, <2>11, <2>12
<1>3. Seq(Spend) \subseteq H
  <2> HIDE DEF H
  <2> QED
    BY <1>1, <1>2, SequenceInduction
<1> QED
  BY <1>3

-----------------------------------------------------------------------------
(* The memory of the loop, and the rows it stands for *)

OmpEvents == {s \in Spend : Valid(s, OmpKinds)}
ProxyEvents == {s \in Spend : Valid(s, ProxyKinds)}

LoopFields(l) ==
    l = [records |-> l.records, spend |-> l.spend, seenQuota |-> l.seenQuota,
         seenEvents |-> l.seenEvents, seenReceipts |-> l.seenReceipts, raised |-> l.raised,
         persisted |-> l.persisted, open |-> l.open]

MemoryOf(l, r) ==
    /\ LoopFields(l)
    /\ l.records \in Seq(Quotas)
    /\ l.spend \in Seq(Spend)
    /\ l.seenQuota \subseteq Quotas
    /\ l.seenEvents \in 0 .. Len(r.usages)
    /\ l.seenReceipts \subseteq Receipts
    /\ IsFiniteSet(l.seenReceipts)
    /\ l.persisted \subseteq l.raised
    /\ l.open \in BOOLEAN

UsagesSeen(l, r) == SubSeq(r.usages, 1, l.seenEvents)

\* The records are the readings seen, in the order of their rows, and no
\* unseen row is before a seen one; the spend is the accepted events seen.
Remembers(l, r) ==
    /\ ToSet(l.records) = l.seenQuota
    /\ l.seenQuota \subseteq ToSet(r.quotas)
    /\ l.seenReceipts \subseteq ToSet(r.receipts)
    /\ InOrder(l.records, r.quotas)
    /\ \A j \in DOMAIN r.quotas : r.quotas[j] \notin l.seenQuota =>
          \A v \in l.seenQuota : \E i \in 1 .. j : r.quotas[i] = v
    /\ ToSet(l.spend) = (ToSet(UsagesSeen(l, r)) \cap OmpEvents) \cup (l.seenReceipts \cap ProxyEvents)

\* Whatever is counted, each usage row seen counts and each receipt once.
Tallied(l, r) ==
    \A M \in SUBSET Spend :
        AmountOf(l.spend, M)
          = AmountOf(UsagesSeen(l, r), M \cap OmpEvents)
            + SumOver(Amounts, l.seenReceipts \cap (M \cap ProxyEvents))

UpToDate(l, r) ==
    /\ l.seenQuota = ToSet(r.quotas)
    /\ l.seenEvents = Len(r.usages)
    /\ l.seenReceipts = ToSet(r.receipts)

NewUsages(l) == SubSeq(rows.usages, l.seenEvents + 1, Len(rows.usages))
NewSpend(l) ==
    Only(NewUsages(l), OmpEvents) \o Only(Unseen(rows.receipts, l.seenReceipts), ProxyEvents)

\* What _load changes, field by field.
LEMMA LoadedFields ==
    ASSUME NEW l, LoopFields(l)
    PROVE  /\ LoopFields(Loaded(l))
           /\ Loaded(l).records = l.records \o Unseen(rows.quotas, l.seenQuota)
           /\ Loaded(l).spend = l.spend \o NewSpend(l)
           /\ Loaded(l).seenQuota = l.seenQuota \cup ToSet(rows.quotas)
           /\ Loaded(l).seenEvents = Len(rows.usages)
           /\ Loaded(l).seenReceipts = l.seenReceipts \cup ToSet(rows.receipts)
           /\ Loaded(l).raised = l.raised
           /\ Loaded(l).persisted = l.persisted
           /\ Loaded(l).open = l.open
<1> DEFINE a == l.records
           b == l.spend
           c == l.seenQuota
           d == l.seenEvents
           e == l.seenReceipts
           f == l.raised
           g == l.persisted
           h == l.open
           u == Unseen(rows.quotas, c)
           v == NewSpend(l)
           w == ToSet(rows.quotas)
           x == Len(rows.usages)
           y == ToSet(rows.receipts)
<1>1. l = [records |-> a, spend |-> b, seenQuota |-> c, seenEvents |-> d, seenReceipts |-> e,
           raised |-> f, persisted |-> g, open |-> h]
  BY DEF LoopFields
<1>2. Loaded(l) = [l EXCEPT !.records = @ \o u, !.seenQuota = @ \cup w, !.spend = @ \o v,
                            !.seenEvents = x, !.seenReceipts = @ \cup y]
  BY DEF Loaded, NewSpend, NewUsages, Accepted, OmpEvents, ProxyEvents
<1> HIDE DEF a, b, c, d, e, f, g, h, u, v, w, x, y
<1>3. Loaded(l) = [records |-> a \o u, spend |-> b \o v, seenQuota |-> c \cup w, seenEvents |-> x,
                   seenReceipts |-> e \cup y, raised |-> f, persisted |-> g, open |-> h]
  BY <1>1, <1>2
<1>4. LoopFields(Loaded(l))
  BY <1>3 DEF LoopFields
<1>5. /\ Loaded(l).records = a \o u /\ Loaded(l).spend = b \o v /\ Loaded(l).seenQuota = c \cup w
      /\ Loaded(l).seenEvents = x /\ Loaded(l).seenReceipts = e \cup y
      /\ Loaded(l).raised = f /\ Loaded(l).persisted = g /\ Loaded(l).open = h
  BY <1>3
<1> QED
  BY <1>4, <1>5 DEF a, b, c, d, e, f, g, h, u, v, w, x, y

\* The durable rows by kind.
LEMMA RowsTypes ==
    ASSUME rows \in Rows
    PROVE  /\ rows.quotas \in Seq(Quotas)
           /\ rows.usages \in Seq(Usages) /\ rows.usages \in Seq(Spend)
           /\ rows.receipts \in Seq(Receipts) /\ rows.receipts \in Seq(Spend)
           /\ Receipts \subseteq Spend
           /\ DOMAIN rows.quotas = 1 .. Len(rows.quotas) /\ Len(rows.quotas) \in Nat
           /\ DOMAIN rows.usages = 1 .. Len(rows.usages) /\ Len(rows.usages) \in Nat
           /\ ToSet(rows.quotas) \subseteq Quotas /\ ToSet(rows.receipts) \subseteq Receipts
           /\ IsFiniteSet(ToSet(rows.receipts))
<1>1. rows.quotas \in Seq(Quotas) /\ rows.usages \in Seq(Usages) /\ rows.receipts \in Seq(Receipts)
  BY DEF Rows
<1>2. Usages \subseteq Spend /\ Receipts \subseteq Spend
  BY RunwayAssumption
<1>3. Seq(Usages) \subseteq Seq(Spend) /\ Seq(Receipts) \subseteq Seq(Spend)
  BY <1>2
<1>4. ToSet(rows.quotas) \subseteq Quotas /\ ToSet(rows.receipts) \subseteq Receipts
  BY <1>1 DEF ToSet
<1>5. IsFiniteSet(ToSet(rows.receipts))
  BY <1>1, ToSetFinite
<1> QED
  BY <1>1, <1>2, <1>3, <1>4, <1>5

\* The usage seen and the usage that is new are all the usage.
LEMMA NewUsagesIs ==
    ASSUME rows \in Rows, NEW l, MemoryOf(l, rows)
    PROVE  /\ UsagesSeen(l, rows) \in Seq(Spend) /\ NewUsages(l) \in Seq(Spend)
           /\ UsagesSeen(l, rows) \o NewUsages(l) = rows.usages
<1> DEFINE s == rows.usages
           k == l.seenEvents
<1>1. s \in Seq(Spend) /\ Len(s) \in Nat /\ k \in 0 .. Len(s) /\ DOMAIN s = 1 .. Len(s)
  BY RowsTypes DEF MemoryOf
<1> HIDE DEF s, k
<1>2. SubSeq(s, 1, k) \o SubSeq(s, k + 1, Len(s)) = SubSeq(s, 1, Len(s))
  <2>1. 1 \in 1 .. (Len(s) + 1) /\ k \in (1 - 1) .. Len(s) /\ Len(s) \in k .. Len(s)
    BY <1>1
  <2> QED
    BY <1>1, <2>1, ConcatAdjacentSubSeq
<1>3. SubSeq(s, 1, Len(s)) = s
  BY <1>1, SubSeqFull
<1>4. \A i \in 1 .. Len(s) : s[i] \in Spend
  BY <1>1
<1>5. SubSeq(s, 1, k) \in Seq(Spend)
  BY <1>1, <1>4, SubSeqProperties
<1>6. SubSeq(s, k + 1, Len(s)) \in Seq(Spend)
  BY <1>1, <1>4, SubSeqProperties
<1> QED
  BY <1>2, <1>3, <1>5, <1>6 DEF s, k, UsagesSeen, NewUsages

\* The spend a load appends: the new valid events of omp and the receipts
\* not seen before.
LEMMA NewSpendType ==
    ASSUME rows \in Rows, NEW l, MemoryOf(l, rows)
    PROVE  /\ NewSpend(l) \in Seq(Spend)
           /\ ToSet(NewSpend(l)) = (ToSet(NewUsages(l)) \cap OmpEvents)
                                     \cup ((ToSet(rows.receipts) \ l.seenReceipts) \cap ProxyEvents)
<1> DEFINE u == NewUsages(l)
           r == Unseen(rows.receipts, l.seenReceipts)
<1>1. u \in Seq(Spend)
  BY NewUsagesIs
<1>2. r \in Seq(Spend) /\ ToSet(r) = ToSet(rows.receipts) \ l.seenReceipts
  BY RowsTypes, UnseenFacts
<1> HIDE DEF u, r
<1>3. Only(u, OmpEvents) \in Seq(Spend) /\ ToSet(Only(u, OmpEvents)) = ToSet(u) \cap OmpEvents
  BY <1>1, OnlyType, OnlyValues
<1>4. Only(r, ProxyEvents) \in Seq(Spend) /\ ToSet(Only(r, ProxyEvents)) = ToSet(r) \cap ProxyEvents
  BY <1>2, OnlyType, OnlyValues
<1> DEFINE v == Only(u, OmpEvents)
           w == Only(r, ProxyEvents)
<1> HIDE DEF v, w
<1>5. v \o w \in Seq(Spend) /\ ToSet(v \o w) = ToSet(v) \cup ToSet(w)
  BY <1>3, <1>4, ToSetConcat, ConcatProperties DEF v, w
<1> QED
  BY <1>2, <1>3, <1>4, <1>5 DEF u, r, v, w, NewSpend

\* What is loaded is typed, and is of every row.
LEMMA LoadedMemory ==
    ASSUME rows \in Rows, NEW l, MemoryOf(l, rows)
    PROVE  MemoryOf(Loaded(l), rows)
<1> DEFINE m == Loaded(l)
           a == l.records
           b == l.spend
           e == l.seenReceipts
           u == Unseen(rows.quotas, l.seenQuota)
           v == NewSpend(l)
           w == ToSet(rows.quotas)
           y == ToSet(rows.receipts)
<1>1. /\ a \in Seq(Quotas) /\ b \in Seq(Spend) /\ e \subseteq Receipts /\ IsFiniteSet(e)
      /\ l.seenQuota \subseteq Quotas /\ l.persisted \subseteq l.raised /\ l.open \in BOOLEAN
      /\ LoopFields(l)
  BY DEF MemoryOf
<1>2. u \in Seq(Quotas) /\ v \in Seq(Spend) /\ w \subseteq Quotas /\ y \subseteq Receipts
      /\ IsFiniteSet(y) /\ Len(rows.usages) \in Nat
  BY RowsTypes, UnseenFacts, NewSpendType
<1>3. /\ LoopFields(m) /\ m.records = a \o u /\ m.spend = b \o v /\ m.seenQuota = l.seenQuota \cup w
      /\ m.seenEvents = Len(rows.usages) /\ m.seenReceipts = e \cup y
      /\ m.raised = l.raised /\ m.persisted = l.persisted /\ m.open = l.open
  BY <1>1, LoadedFields
<1> HIDE DEF m, a, b, e, u, v, w, y
<1>4. m.records \in Seq(Quotas) /\ m.spend \in Seq(Spend)
  BY <1>1, <1>2, <1>3
<1>5. IsFiniteSet(e \cup y)
  BY <1>1, <1>2, FS_Union
<1>6. MemoryOf(m, rows)
  BY <1>1, <1>2, <1>3, <1>4, <1>5 DEF MemoryOf
<1> QED
  BY <1>6 DEF m

\* After a load nothing durable is unseen.
LEMMA LoadedUpToDate ==
    ASSUME rows \in Rows, NEW l, MemoryOf(l, rows), Remembers(l, rows)
    PROVE  UpToDate(Loaded(l), rows) /\ UsagesSeen(Loaded(l), rows) = rows.usages
<1> DEFINE m == Loaded(l)
           w == ToSet(rows.quotas)
           y == ToSet(rows.receipts)
<1>a. LoopFields(l)
  BY DEF MemoryOf
<1>b. m.seenQuota = l.seenQuota \cup w /\ m.seenEvents = Len(rows.usages) /\ m.seenReceipts = l.seenReceipts \cup y
  BY <1>a, LoadedFields
<1>c. l.seenQuota \subseteq w /\ l.seenReceipts \subseteq y
  BY DEF Remembers
<1> HIDE DEF m
<1>d. m.seenQuota = w /\ m.seenReceipts = y
  BY <1>b, <1>c
<1>1. UpToDate(m, rows)
  BY <1>b, <1>d DEF UpToDate
<1>2. SubSeq(rows.usages, 1, Len(rows.usages)) = rows.usages
  BY RowsTypes, SubSeqFull
<1> QED
  BY <1>1, <1>2 DEF UpToDate, UsagesSeen, m

\* A load counts each new event once.
LEMMA LoadedTallied ==
    ASSUME rows \in Rows, NEW l, MemoryOf(l, rows), Remembers(l, rows), Tallied(l, rows)
    PROVE  Tallied(Loaded(l), rows)
<1> SUFFICES ASSUME NEW M \in SUBSET Spend
             PROVE  AmountOf(Loaded(l).spend, M)
                      = AmountOf(UsagesSeen(Loaded(l), rows), M \cap OmpEvents)
                        + SumOver(Amounts, Loaded(l).seenReceipts \cap (M \cap ProxyEvents))
  BY DEF Tallied
<1> DEFINE u == NewUsages(l)
           o == UsagesSeen(l, rows)
           r == Unseen(rows.receipts, l.seenReceipts)
           s == l.spend
           P == M \cap ProxyEvents
           Q == M \cap OmpEvents
           known == l.seenReceipts
           t == rows.receipts
<1>1. /\ u \in Seq(Spend) /\ o \in Seq(Spend) /\ o \o u = rows.usages /\ s \in Seq(Spend)
  BY NewUsagesIs DEF MemoryOf
<1>2. r \in Seq(Spend) /\ t \in Seq(Spend) /\ known \in SUBSET Spend /\ IsFiniteSet(known)
  BY RowsTypes, UnseenFacts DEF MemoryOf
<1>3. /\ Loaded(l).spend = s \o (Only(u, OmpEvents) \o Only(r, ProxyEvents))
      /\ Loaded(l).seenReceipts = known \cup ToSet(t)
      /\ UsagesSeen(Loaded(l), rows) = rows.usages
  BY LoadedFields, LoadedUpToDate DEF MemoryOf, NewSpend
<1>4. AmountOf(s, M) = AmountOf(o, Q) + SumOver(Amounts, known \cap P)
  BY DEF Tallied
<1>5. r = Unseen(t, known)
  OBVIOUS
<1> HIDE DEF u, o, r, s, P, Q, known, t
<1>6. Only(u, OmpEvents) \in Seq(Spend) /\ Only(r, ProxyEvents) \in Seq(Spend)
  BY <1>1, <1>2, OnlyType
<1>7. AmountOf(Only(u, OmpEvents), M) = AmountOf(u, Q)
  BY <1>1, AmountOnly DEF Q
<1>8. AmountOf(Only(r, ProxyEvents), M) = AmountOf(r, P)
  BY <1>2, AmountOnly DEF P
<1>9. AmountOf(o \o u, Q) = AmountOf(o, Q) + AmountOf(u, Q)
  BY <1>1, AmountConcat
<1>10. SumOver(Amounts, (known \cup ToSet(t)) \cap P) = SumOver(Amounts, known \cap P) + AmountOf(r, P)
  BY <1>2, <1>5, AmountUnseen
<1> DEFINE v == Only(u, OmpEvents)
           w == Only(r, ProxyEvents)
<1>11. AmountOf(v \o w, M) = AmountOf(v, M) + AmountOf(w, M) /\ v \o w \in Seq(Spend)
  <2>1. v \in Seq(Spend) /\ w \in Seq(Spend)
    BY <1>6
  <2> HIDE DEF v, w
  <2> QED
    BY <2>1, AmountConcat, ConcatProperties
<1> DEFINE x == v \o w
<1>12. AmountOf(s \o x, M) = AmountOf(s, M) + AmountOf(x, M)
  <2>1. x \in Seq(Spend)
    BY <1>11
  <2> HIDE DEF x
  <2> QED
    BY <1>1, <2>1, AmountConcat
<1>13. /\ AmountOf(o, Q) \in Nat /\ AmountOf(u, Q) \in Nat /\ AmountOf(r, P) \in Nat
  BY <1>1, <1>2, AmountType
<1>14. SumOver(Amounts, known \cap P) \in Int
  <2>1. IsFiniteSet(known \cap P) /\ known \cap P \subseteq Spend
    BY <1>2, FS_Subset
  <2>2. Numeric(Amounts, known \cap P)
    BY <2>1, AmountsNumeric
  <2> QED
    BY <2>1, <2>2, SumType
<1>15. Loaded(l).spend = s \o x
  BY <1>3
<1>16. AmountOf(x, M) = AmountOf(u, Q) + AmountOf(r, P)
  BY <1>7, <1>8, <1>11
<1> HIDE DEF v, w, x
<1>17. AmountOf(Loaded(l).spend, M)
         = AmountOf(o \o u, Q) + SumOver(Amounts, (known \cup ToSet(t)) \cap P)
  BY <1>4, <1>9, <1>10, <1>12, <1>13, <1>14, <1>15, <1>16
<1> QED
  BY <1>1, <1>3, <1>17 DEF P, Q, known

\* Two ordered parts are in order when the second occurs after the first.
LEMMA InOrderConcat ==
    ASSUME NEW V, NEW s \in Seq(V), NEW u \in Seq(V), NEW r, InOrder(s, r), InOrder(u, r),
           \A a \in DOMAIN s : \A b \in DOMAIN u : \A j \in DOMAIN r :
               r[j] = u[b] => \E i \in 1 .. j : r[i] = s[a]
    PROVE  InOrder(s \o u, r)
<1> DEFINE t == s \o u
           m == Len(s)
           n == Len(u)
<1>1. /\ m \in Nat /\ n \in Nat /\ DOMAIN s = 1 .. m /\ DOMAIN u = 1 .. n
      /\ DOMAIN t = 1 .. (m + n)
  OBVIOUS
<1>2. /\ \A i \in 1 .. (m + n) : i <= m => t[i] = s[i]
      /\ \A i \in 1 .. (m + n) : ~(i <= m) => t[i] = u[i - m] /\ i - m \in 1 .. n
  BY <1>1
<1> HIDE DEF m, n, t
<1> SUFFICES ASSUME NEW a \in 1 .. (m + n), NEW b \in 1 .. (m + n), a < b,
                    NEW j \in DOMAIN r, r[j] = t[b]
             PROVE  \E i \in 1 .. j : r[i] = t[a]
  BY <1>1 DEF InOrder, t
<1>3. CASE b <= m
  <2>1. a \in DOMAIN s /\ b \in DOMAIN s /\ t[a] = s[a] /\ t[b] = s[b]
    BY <1>1, <1>2, <1>3
  <2> QED
    BY <2>1 DEF InOrder
<1>4. CASE a <= m /\ ~(b <= m)
  <2>1. a \in DOMAIN s /\ b - m \in DOMAIN u /\ t[a] = s[a] /\ t[b] = u[b - m]
    BY <1>1, <1>2, <1>4
  <2> QED
    BY <2>1
<1>5. CASE ~(a <= m)
  <2>1. ~(b <= m) /\ a - m < b - m
    BY <1>1, <1>5
  <2>2. a - m \in DOMAIN u /\ b - m \in DOMAIN u /\ t[a] = u[a - m] /\ t[b] = u[b - m]
    BY <1>1, <1>2, <1>5, <2>1
  <2> QED
    BY <2>1, <2>2 DEF InOrder
<1> QED
  BY <1>1, <1>3, <1>4, <1>5

\* After a load the memory is still the durable rows, in their order.
LEMMA LoadedRemembers ==
    ASSUME rows \in Rows, NEW l, MemoryOf(l, rows), Remembers(l, rows)
    PROVE  Remembers(Loaded(l), rows)
<1> DEFINE m == Loaded(l)
           q == rows.quotas
           a == l.records
           b == l.spend
           c == l.seenQuota
           e == l.seenReceipts
           u == Unseen(q, c)
           v == NewSpend(l)
           old == UsagesSeen(l, rows)
           new == NewUsages(l)
           y == ToSet(rows.receipts)
<1>1. /\ a \in Seq(Quotas) /\ b \in Seq(Spend) /\ q \in Seq(Quotas) /\ LoopFields(l)
  BY RowsTypes DEF MemoryOf
<1>2. /\ ToSet(a) = c /\ c \subseteq ToSet(q) /\ e \subseteq y /\ InOrder(a, q)
      /\ \A j \in DOMAIN q : q[j] \notin c => \A w \in c : \E i \in 1 .. j : q[i] = w
      /\ ToSet(b) = (ToSet(old) \cap OmpEvents) \cup (e \cap ProxyEvents)
  BY DEF Remembers
<1>3. u \in Seq(Quotas) /\ ToSet(u) = ToSet(q) \ c /\ InOrder(u, q)
  BY <1>1, UnseenFacts
<1>4. v \in Seq(Spend) /\ ToSet(v) = (ToSet(new) \cap OmpEvents) \cup ((y \ e) \cap ProxyEvents)
  BY NewSpendType
<1>5. old \in Seq(Spend) /\ new \in Seq(Spend) /\ old \o new = rows.usages
  BY NewUsagesIs
<1>6. /\ m.records = a \o u /\ m.spend = b \o v /\ m.seenQuota = c \cup ToSet(q)
      /\ m.seenReceipts = e \cup y /\ UsagesSeen(m, rows) = rows.usages
  BY <1>1, LoadedFields, LoadedUpToDate
<1>7. rows.quotas = q /\ rows.receipts = rows.receipts /\ y = ToSet(rows.receipts)
  OBVIOUS
<1> HIDE DEF m, q, a, b, c, e, u, v, old, new, y
<1>8. ToSet(a \o u) = ToSet(a) \cup ToSet(u)
  BY <1>1, <1>3, ToSetConcat
<1>9. ToSet(b \o v) = ToSet(b) \cup ToSet(v)
  BY <1>1, <1>4, ToSetConcat
<1>10. ToSet(rows.usages) = ToSet(old) \cup ToSet(new)
  <2>1. ToSet(old \o new) = ToSet(old) \cup ToSet(new)
    <3>1. old \in Seq(Spend) /\ new \in Seq(Spend)
      BY <1>5
    <3> QED
      BY <3>1, ToSetConcat
  <2> QED
    BY <1>5, <2>1
<1>11. InOrder(a \o u, q)
  <2>1. ASSUME NEW i \in DOMAIN a, NEW j \in DOMAIN u, NEW k \in DOMAIN q, q[k] = u[j]
        PROVE  \E h \in 1 .. k : q[h] = a[i]
    <3>1. a[i] \in ToSet(a) /\ u[j] \in ToSet(u)
      BY DEF ToSet
    <3> QED
      BY <1>2, <1>3, <2>1, <3>1
  <2> QED
    BY <1>1, <1>2, <1>3, <2>1, InOrderConcat
<1>12. \A j \in DOMAIN q : q[j] \in ToSet(q)
  BY DEF ToSet
<1>13. ToSet(m.records) = m.seenQuota /\ m.seenQuota = ToSet(q) /\ m.seenReceipts = y
  BY <1>2, <1>3, <1>6, <1>8
<1>14. ToSet(m.spend) = (ToSet(rows.usages) \cap OmpEvents) \cup (y \cap ProxyEvents)
  BY <1>2, <1>4, <1>6, <1>9, <1>10
<1>15. Remembers(m, rows)
  BY <1>6, <1>7, <1>11, <1>12, <1>13, <1>14 DEF Remembers
<1> QED
  BY <1>15 DEF m

\* An evaluation changes, beside what it loads, the keys it raised.
LEMMA EvaluatedKeeps ==
    ASSUME rows \in Rows, NEW l, MemoryOf(l, rows)
    PROVE  LET m == Loaded(l)
               e == Evaluated(l)
           IN  /\ MemoryOf(e, rows)
               /\ e.records = m.records /\ e.spend = m.spend /\ e.seenQuota = m.seenQuota
               /\ e.seenEvents = m.seenEvents /\ e.seenReceipts = m.seenReceipts /\ e.open = m.open
               /\ e.raised = m.raised \cup UNION {KeysOf(m, label) : label \in Known(m)}
               /\ e.persisted = e.raised
<1> DEFINE m == Loaded(l)
           k == m.raised \cup UNION {KeysOf(m, label) : label \in Known(m)}
           e == Evaluated(l)
<1>1. MemoryOf(m, rows)
  BY LoadedMemory
<1>2. e = [m EXCEPT !.raised = k, !.persisted = k]
  BY DEF Evaluated
<1> HIDE DEF m, k, e
<1> DEFINE a == m.records
           b == m.spend
           c == m.seenQuota
           d == m.seenEvents
           f == m.seenReceipts
           g == m.raised
           h == m.persisted
           i == m.open
<1>3. m = [records |-> a, spend |-> b, seenQuota |-> c, seenEvents |-> d, seenReceipts |-> f,
           raised |-> g, persisted |-> h, open |-> i]
  BY <1>1 DEF MemoryOf, LoopFields
<1>4. /\ a \in Seq(Quotas) /\ b \in Seq(Spend) /\ c \subseteq Quotas /\ d \in 0 .. Len(rows.usages)
      /\ f \subseteq Receipts /\ IsFiniteSet(f) /\ i \in BOOLEAN
  BY <1>1 DEF MemoryOf
<1> HIDE DEF a, b, c, d, f, g, h, i
<1>5. e = [records |-> a, spend |-> b, seenQuota |-> c, seenEvents |-> d, seenReceipts |-> f,
           raised |-> k, persisted |-> k, open |-> i]
  BY <1>2, <1>3
<1>6. /\ LoopFields(e) /\ e.records = a /\ e.spend = b /\ e.seenQuota = c /\ e.seenEvents = d
      /\ e.seenReceipts = f /\ e.raised = k /\ e.persisted = k /\ e.open = i
  BY <1>5 DEF LoopFields
<1>7. MemoryOf(e, rows)
  BY <1>4, <1>6 DEF MemoryOf
<1> QED
  BY <1>6, <1>7 DEF a, b, c, d, f, g, h, i, e, k, m

\* An evaluation keeps the memory true and leaves it up to date.
LEMMA EvaluatedRemembers ==
    ASSUME rows \in Rows, NEW l, MemoryOf(l, rows), Remembers(l, rows), Tallied(l, rows)
    PROVE  LET e == Evaluated(l)
           IN  /\ MemoryOf(e, rows) /\ Remembers(e, rows) /\ Tallied(e, rows) /\ UpToDate(e, rows)
               /\ e.open = l.open
<1> DEFINE m == Loaded(l)
           e == Evaluated(l)
<1>1. /\ MemoryOf(e, rows)
      /\ e.records = m.records /\ e.spend = m.spend /\ e.seenQuota = m.seenQuota
      /\ e.seenEvents = m.seenEvents /\ e.seenReceipts = m.seenReceipts /\ e.open = m.open
  BY EvaluatedKeeps
<1>2. Remembers(m, rows) /\ Tallied(m, rows) /\ UpToDate(m, rows) /\ m.open = l.open
  BY LoadedRemembers, LoadedTallied, LoadedUpToDate, LoadedFields DEF MemoryOf
<1> HIDE DEF m, e
<1>3. UsagesSeen(e, rows) = UsagesSeen(m, rows)
  BY <1>1 DEF UsagesSeen
<1>4. Remembers(e, rows) /\ UpToDate(e, rows)
  BY <1>1, <1>2, <1>3 DEF Remembers, UpToDate
<1>5. Tallied(e, rows)
  BY <1>1, <1>2, <1>3 DEF Tallied
<1> QED
  BY <1>1, <1>2, <1>4, <1>5 DEF m, e

-----------------------------------------------------------------------------
(* The record that is selected *)

Better(l, i, j) ==
    \/ l.records[i].fresh > l.records[j].fresh
    \/ l.records[i].fresh = l.records[j].fresh /\ i <= j

\* The fields of a reading.
LEMMA RecordTypes ==
    ASSUME NEW q \in Quotas
    PROVE  /\ q.fresh \in Nat /\ q.used \in Nat /\ q.reset \in Nat /\ q.unit \in {"tokens", "percent"}
           /\ q.label \in Label /\ q.class \in {"unknown"} \cup Range(Classes) /\ q # Nothing
BY RunwayAssumption

\* The latest record of a set is one of it, and no other is better.
LEMMA LatestIs ==
    ASSUME NEW l, l.records \in Seq(Quotas), NEW P \in SUBSET DOMAIN l.records, P # {}
    PROVE  Latest(l, P) \in P /\ \A j \in P : Better(l, Latest(l, P), j)
<1> DEFINE T == {S \in SUBSET P : S = {} \/ \E i \in S : \A j \in S : Better(l, i, j)}
<1>1. \A i \in P : i \in Int /\ l.records[i].fresh \in Nat
  BY RecordTypes
<1>2. IsFiniteSet(P)
  <2>1. DOMAIN l.records = 1 .. Len(l.records) /\ Len(l.records) \in Nat
    OBVIOUS
  <2>2. IsFiniteSet(1 .. Len(l.records))
    BY <2>1, FS_Interval
  <2> QED
    BY <2>1, <2>2, FS_Subset
<1>3. {} \in T
  OBVIOUS
<1>4. ASSUME NEW S \in SUBSET P, NEW x \in P \ S, S \in T
      PROVE  S \cup {x} \in T
  <2>1. CASE S = {}
    <3>1. Better(l, x, x)
      BY <1>1 DEF Better
    <3> QED
      BY <2>1, <3>1
  <2>2. CASE S # {}
    <3>1. PICK i \in S : \A j \in S : Better(l, i, j)
      BY <1>4, <2>2
    <3>2. CASE Better(l, i, x)
      BY <3>1, <3>2
    <3>3. CASE ~Better(l, i, x)
      <4>1. ASSUME NEW j \in S
            PROVE  Better(l, x, j)
        <5>1. Better(l, i, j)
          BY <3>1
        <5>2. i \in Int /\ j \in Int /\ x \in Int
          BY <1>1
        <5> DEFINE fi == l.records[i].fresh
                   fj == l.records[j].fresh
                   fx == l.records[x].fresh
        <5>3. fi \in Nat /\ fj \in Nat /\ fx \in Nat
          BY <1>1
        <5>4. fi > fj \/ (fi = fj /\ i <= j)
          BY <5>1, Zenon DEF Better
        <5>5. ~(fi > fx \/ (fi = fx /\ i <= x))
          BY <3>3, Zenon DEF Better
        <5> HIDE DEF fi, fj, fx
        <5>6. fx > fj \/ (fx = fj /\ x <= j)
          BY <5>2, <5>3, <5>4, <5>5
        <5> QED
          BY <5>6, Zenon DEF Better, fj, fx
      <4>2. Better(l, x, x)
        BY <1>1 DEF Better
      <4> QED
        BY <4>1, <4>2
    <3> QED
      BY <3>2, <3>3
  <2> QED
    BY <2>1, <2>2
<1>5. P \in T
  <2> HIDE DEF T
  <2> QED
    BY <1>2, <1>3, <1>4, Total!FiniteInduction DEF Total!IsFiniteSet, IsFiniteSet
<1>6. \E i \in P : \A j \in P : Better(l, i, j)
  BY <1>5
<1> DEFINE z == CHOOSE i \in P : \A j \in P : Better(l, i, j)
<1>7. z \in P /\ \A j \in P : Better(l, z, j)
  BY <1>6
<1>8. Latest(l, P) = z
  BY DEF Latest, Better
<1> HIDE DEF z
<1> QED
  BY <1>7, <1>8

\* The three source classes and their ranks.
LEMMA ClassRanks ==
    /\ DOMAIN Classes = 1 .. 3
    /\ \A k \in 1 .. 3 : Classes[k] # "unknown"
    /\ \A q : q.class \in Range(Classes) => RankOf(q) \in 1 .. 3 /\ Classes[RankOf(q)] = q.class
    /\ \A q : \A k \in 1 .. 3 : q.class = Classes[k] => RankOf(q) = k
<1>1. /\ DOMAIN Classes = 1 .. 3
      /\ Classes[1] = "consumption-estimated" /\ Classes[2] = "delayed-dashboard"
      /\ Classes[3] = "provider-derived"
  BY DEF Classes
<1>2. \A k \in 1 .. 3 : k = 1 \/ k = 2 \/ k = 3
  OBVIOUS
<1>3. \A j, k \in 1 .. 3 : Classes[j] = Classes[k] => j = k
  BY <1>1, <1>2
<1>4. \A k \in 1 .. 3 : Classes[k] # "unknown"
  BY <1>1, <1>2
<1>5. ASSUME NEW q, q.class \in Range(Classes)
      PROVE  RankOf(q) \in 1 .. 3 /\ Classes[RankOf(q)] = q.class
  <2>1. \E k \in DOMAIN Classes : Classes[k] = q.class
    BY <1>5 DEF Range
  <2>2. RankOf(q) \in DOMAIN Classes /\ Classes[RankOf(q)] = q.class
    BY <2>1, Zenon DEF RankOf
  <2> QED
    BY <1>1, <2>2
<1>6. ASSUME NEW q, NEW k \in 1 .. 3, q.class = Classes[k]
      PROVE  RankOf(q) = k
  <2>1. q.class \in Range(Classes)
    BY <1>1, <1>6 DEF Range
  <2> QED
    BY <1>3, <1>5, <1>6, <2>1
<1> QED
  BY <1>1, <1>4, <1>5, <1>6

\* A record of the best class, then of the freshest, then the first.
Best(l, P, i) ==
    \A j \in P :
        \/ RankOf(l.records[i]) > RankOf(l.records[j])
        \/ RankOf(l.records[i]) = RankOf(l.records[j]) /\ Better(l, i, j)

SourcedIn(l, F) == {i \in F : l.records[i].class # "unknown"}

\* The record selected is the best of those that say where they come from;
\* there is none only when there is no such record.
LEMMA SelectIs ==
    ASSUME NEW l, l.records \in Seq(Quotas), NEW F \in SUBSET DOMAIN l.records
    PROVE  \/ SourcedIn(l, F) = {} /\ SelectRecord(l, F) = Nothing
           \/ \E i \in SourcedIn(l, F) :
                SelectRecord(l, F) = l.records[i] /\ Best(l, SourcedIn(l, F), i)
<1> DEFINE ranks == {k \in DOMAIN Classes : OfClass(l, F, Classes[k]) # {}}
           S == SourcedIn(l, F)
<1>1. \A i \in F : l.records[i] \in Quotas
  OBVIOUS
<1>2. \A i \in S : i \in F /\ RankOf(l.records[i]) \in 1 .. 3
                 /\ Classes[RankOf(l.records[i])] = l.records[i].class
  BY <1>1, RecordTypes, ClassRanks DEF SourcedIn
<1>3. \A i \in S : RankOf(l.records[i]) \in ranks
  BY <1>2, ClassRanks DEF OfClass
<1>4. \A k \in ranks : k \in 1 .. 3 /\ \A i \in OfClass(l, F, Classes[k]) :
                            i \in S /\ RankOf(l.records[i]) = k
  BY ClassRanks DEF OfClass, SourcedIn
<1>5. CASE ranks = {}
  <2>1. S = {}
    BY <1>3, <1>5
  <2>2. SelectRecord(l, F) = Nothing
    BY <1>5 DEF SelectRecord
  <2> QED
    BY <2>1, <2>2
<1>6. CASE ranks # {}
  <2> DEFINE m == Max(ranks)
             P == OfClass(l, F, Classes[m])
             i == Latest(l, P)
  <2>1. m \in ranks /\ \A k \in ranks : k <= m
    <3>1. ranks \in SUBSET (1 .. 3)
      BY ClassRanks
    <3> HIDE DEF ranks
    <3> QED
      BY <1>6, <3>1, Greatest DEF LastOf
  <2>2. SelectRecord(l, F) = l.records[i]
    BY <1>6 DEF SelectRecord
  <2>3. P \in SUBSET DOMAIN l.records /\ P # {}
    BY <2>1 DEF OfClass
  <2> HIDE DEF m
  <2>4. i \in P /\ \A j \in P : Better(l, i, j)
    <3> HIDE DEF P
    <3> QED
      BY <2>3, LatestIs
  <2>5. m \in 1 .. 3 /\ i \in S /\ RankOf(l.records[i]) = m
    BY <1>4, <2>1, <2>4
  <2>6. ASSUME NEW j \in S
        PROVE  \/ RankOf(l.records[i]) > RankOf(l.records[j])
               \/ RankOf(l.records[i]) = RankOf(l.records[j]) /\ Better(l, i, j)
    <3>1. RankOf(l.records[j]) \in 1 .. 3 /\ RankOf(l.records[j]) <= m
      BY <1>2, <1>3, <2>1
    <3>2. CASE RankOf(l.records[j]) = m
      <4>1. j \in P
        BY <1>2, <3>2 DEF OfClass
      <4> QED
        BY <2>4, <2>5, <3>2, <4>1
    <3>3. CASE RankOf(l.records[j]) # m
      BY <2>5, <3>1, <3>3
    <3> QED
      BY <3>2, <3>3
  <2> HIDE DEF i, S
  <2>7. Best(l, S, i)
    BY <2>6 DEF Best
  <2> QED
    BY <2>2, <2>5, <2>7 DEF S
<1> QED
  BY <1>5, <1>6

\* An estimate is typed, ...
LEMMA TotalsType ==
    ASSUME NEW l, l.spend \in Seq(Spend), NEW label, NEW after,
           NEW class \in {"unknown"} \cup Range(Classes), NEW used \in Nat \cup {Nothing},
           NEW unit \in {"tokens", "percent", "unknown"}, NEW since \in Nat \cup {Nothing},
           NEW reset \in Nat \cup {Nothing}, unit = "tokens" => used \in Nat
    PROVE  Totals(l, label, after, class, used, unit, since, reset) \in Estimates
<1> DEFINE d == SpendTotal(l, label, "direct", after)
           m == SpendTotal(l, label, "manual", after)
           p == SpendTotal(l, label, "proxy", after)
<1>1. d \in Nat /\ m \in Nat /\ p \in Nat
  BY SpendTotalIs, AmountType
<1>2. Totals(l, label, after, class, used, unit, since, reset)
        = Estimate(class, used, unit, since, reset, d, m, p)
  BY DEF Totals
<1> HIDE DEF d, m, p
<1> DEFINE e == IF unit = "tokens" THEN used + d + m + p ELSE Nothing
<1>3. e \in Nat \cup {Nothing}
  BY <1>1
<1>4. Estimate(class, used, unit, since, reset, d, m, p)
        = [class |-> class, used |-> used, unit |-> unit, fresh |-> since, reset |-> reset,
           direct |-> d, manual |-> m, proxy |-> p, projected |-> e]
  BY DEF Estimate
<1> HIDE DEF e
<1> QED
  BY <1>1, <1>2, <1>3, <1>4 DEF Estimates

\* ... the fresh records are records, ...
LEMMA FreshIn ==
    ASSUME NEW l, NEW label
    PROVE  FreshRecords(l, label) \in SUBSET DOMAIN l.records
BY DEF FreshRecords

\* ... what the loop answers for an account is an estimate, ...
LEMMA RunwayType ==
    ASSUME NEW l, l.records \in Seq(Quotas), l.spend \in Seq(Spend), NEW label
    PROVE  Runway(l, label) \in Estimates
<1> DEFINE F == FreshRecords(l, label)
           q == SelectRecord(l, F)
<1>1. F \in SUBSET DOMAIN l.records
  BY FreshIn
<1>2. q = Nothing \/ \E i \in SourcedIn(l, F) : q = l.records[i]
  <2> HIDE DEF F
  <2> QED
    BY <1>1, SelectIs
<1>3. Runway(l, label) =
        IF q = Nothing
        THEN Totals(l, label, -1, "unknown", Nothing, "unknown", Nothing, Nothing)
        ELSE Totals(l, label, q.fresh, q.class, q.used, q.unit, q.fresh, q.reset)
  BY DEF Runway
<1> HIDE DEF q, F
<1>4. CASE q = Nothing
  BY <1>3, <1>4, TotalsType
<1>5. CASE q # Nothing
  <2>1. PICK i \in SourcedIn(l, F) : q = l.records[i]
    BY <1>2, <1>5
  <2>2. q \in Quotas
    BY <1>1, <2>1 DEF SourcedIn
  <2>3. Totals(l, label, q.fresh, q.class, q.used, q.unit, q.fresh, q.reset) \in Estimates
    BY <2>2, RecordTypes, TotalsType
  <2> QED
    BY <1>3, <1>5, <2>3
<1> QED
  BY <1>4, <1>5

\* ... and the accounts it answers for are accounts.
LEMMA KnownType ==
    ASSUME NEW l, l.records \in Seq(Quotas), l.spend \in Seq(Spend)
    PROVE  Known(l) \subseteq Label
<1>1. ToSet(l.records) \subseteq Quotas /\ ToSet(l.spend) \subseteq Spend
  BY DEF ToSet
<1>2. \A q \in Quotas : q.label \in Label
  BY RecordTypes
<1>3. \A s \in Spend : s.label \in Label
  BY DEF Spend
<1> QED
  BY <1>1, <1>2, <1>3 DEF Known

-----------------------------------------------------------------------------
(* Steps *)

Grows(s, u, V) == u = s \/ \E v \in V : u = Append(s, v)

\* What a table that grew by at most a row keeps.
LEMMA GrowsFacts ==
    ASSUME NEW V, NEW s \in Seq(V), NEW u, Grows(s, u, V)
    PROVE  /\ u \in Seq(V) /\ Len(s) \in Nat /\ Len(u) \in Nat /\ Len(s) <= Len(u)
           /\ \A i \in 1 .. Len(s) : u[i] = s[i]
           /\ \A i \in 1 .. Len(u) : i \in 1 .. Len(s) \/ i = Len(s) + 1
           /\ ToSet(s) \subseteq ToSet(u)
           /\ \A k \in 0 .. Len(s) : SubSeq(u, 1, k) = SubSeq(s, 1, k)
<1>1. /\ u \in Seq(V) /\ Len(s) \in Nat /\ Len(u) \in Nat /\ Len(s) <= Len(u)
      /\ \A i \in 1 .. Len(s) : u[i] = s[i]
      /\ \A i \in 1 .. Len(u) : i \in 1 .. Len(s) \/ i = Len(s) + 1
  <2>1. CASE u = s
    BY <2>1
  <2>2. CASE \E v \in V : u = Append(s, v)
    BY <2>2
  <2> QED
    BY <2>1, <2>2 DEF Grows
<1>2. ToSet(s) \subseteq ToSet(u)
  <2>1. CASE u = s
    BY <2>1
  <2>2. ASSUME NEW v \in V, u = Append(s, v)
        PROVE  ToSet(s) \subseteq ToSet(u)
    <3>1. ToSet(Append(s, v)) = ToSet(s) \cup {v}
      BY ToSetAppend
    <3> QED
      BY <2>2, <3>1
  <2> QED
    BY <2>1, <2>2 DEF Grows
<1>3. ASSUME NEW k \in 0 .. Len(s)
      PROVE  SubSeq(u, 1, k) = SubSeq(s, 1, k)
  <2> DEFINE a == SubSeq(u, 1, k)
             b == SubSeq(s, 1, k)
  <2>1. k \in Int /\ \A i \in 1 .. k : u[i] \in V /\ s[i] \in V /\ u[i] = s[i]
    BY <1>1
  <2>2. /\ a \in Seq(V) /\ Len(a) = IF 1 <= k THEN k - 1 + 1 ELSE 0
        /\ \A i \in 1 .. k - 1 + 1 : a[i] = u[1 + i - 1]
    BY <2>1, SubSeqProperties
  <2>3. /\ b \in Seq(V) /\ Len(b) = IF 1 <= k THEN k - 1 + 1 ELSE 0
        /\ \A i \in 1 .. k - 1 + 1 : b[i] = s[1 + i - 1]
    BY <2>1, SubSeqProperties
  <2> HIDE DEF a, b
  <2>4. Len(a) = Len(b) /\ Len(a) = k
    BY <2>2, <2>3
  <2>5. \A i \in 1 .. Len(a) : a[i] = b[i]
    BY <2>1, <2>2, <2>3, <2>4
  <2>6. a = b
    BY <2>2, <2>3, <2>4, <2>5, SeqEqual
  <2> QED
    BY <2>6 DEF a, b
<1> QED
  BY <1>1, <1>2, <1>3

\* A row posted behind the loop leaves what it remembers true.
LEMMA RowsGrow ==
    ASSUME NEW r \in Rows, NEW t \in Rows, NEW l,
           MemoryOf(l, r), Remembers(l, r), Tallied(l, r),
           Grows(r.quotas, t.quotas, Quotas), Grows(r.usages, t.usages, Usages),
           Grows(r.receipts, t.receipts, Receipts)
    PROVE  MemoryOf(l, t) /\ Remembers(l, t) /\ Tallied(l, t)
<1>1. r.quotas \in Seq(Quotas) /\ r.usages \in Seq(Usages) /\ r.receipts \in Seq(Receipts)
  BY DEF Rows
<1>2. l.seenEvents \in 0 .. Len(r.usages) /\ l.records \in Seq(Quotas)
  BY DEF MemoryOf
<1>3. UsagesSeen(l, t) = UsagesSeen(l, r)
  BY <1>1, <1>2, GrowsFacts DEF UsagesSeen
<1>4. MemoryOf(l, t)
  <2>1. Len(r.usages) \in Nat /\ Len(t.usages) \in Nat /\ Len(r.usages) <= Len(t.usages)
    BY <1>1, GrowsFacts
  <2> QED
    BY <1>2, <2>1 DEF MemoryOf
<1>5. Tallied(l, t)
  BY <1>3 DEF Tallied
<1> DEFINE p == r.quotas
           q == t.quotas
           c == l.seenQuota
           a == l.records
<1>6. /\ ToSet(a) = c /\ c \subseteq ToSet(p) /\ InOrder(a, p) /\ a \in Seq(Quotas)
      /\ \A j \in DOMAIN p : p[j] \notin c => \A v \in c : \E i \in 1 .. j : p[i] = v
  BY <1>2 DEF Remembers
<1>7. /\ p \in Seq(Quotas) /\ q \in Seq(Quotas) /\ Len(p) \in Nat /\ Len(q) \in Nat /\ Len(p) <= Len(q)
      /\ DOMAIN p = 1 .. Len(p) /\ DOMAIN q = 1 .. Len(q)
      /\ \A i \in 1 .. Len(p) : q[i] = p[i]
      /\ \A i \in 1 .. Len(q) : i \in 1 .. Len(p) \/ i = Len(p) + 1
      /\ ToSet(p) \subseteq ToSet(q)
  BY <1>1, GrowsFacts
<1> HIDE DEF p, q, c, a
<1>8. ASSUME NEW v \in c
      PROVE  \E i \in 1 .. Len(p) : p[i] = v
  BY <1>6, <1>7 DEF ToSet
<1>9. InOrder(a, q)
  <2> SUFFICES ASSUME NEW x \in DOMAIN a, NEW y \in DOMAIN a, x < y,
                      NEW j \in DOMAIN q, q[j] = a[y]
               PROVE  \E i \in 1 .. j : q[i] = a[x]
    BY DEF InOrder
  <2>1. CASE j \in 1 .. Len(p)
    <3>1. p[j] = a[y] /\ j \in DOMAIN p
      BY <1>7, <2>1
    <3>2. PICK i \in 1 .. j : p[i] = a[x]
      BY <1>6, <3>1 DEF InOrder
    <3> QED
      BY <1>7, <2>1, <3>2
  <2>2. CASE j = Len(p) + 1
    <3>1. a[x] \in c
      BY <1>6 DEF ToSet
    <3>2. PICK i \in 1 .. Len(p) : p[i] = a[x]
      BY <1>8, <3>1
    <3> QED
      BY <1>7, <2>2, <3>2
  <2> QED
    BY <1>7, <2>1, <2>2
<1>10. ASSUME NEW j \in DOMAIN q, q[j] \notin c, NEW v \in c
       PROVE  \E i \in 1 .. j : q[i] = v
  <2>1. CASE j \in 1 .. Len(p)
    <3>1. PICK i \in 1 .. j : p[i] = v
      BY <1>6, <1>7, <1>10, <2>1
    <3> QED
      BY <1>7, <2>1, <3>1
  <2>2. CASE j = Len(p) + 1
    <3>1. PICK i \in 1 .. Len(p) : p[i] = v
      BY <1>8
    <3> QED
      BY <1>7, <2>2, <3>1
  <2> QED
    BY <1>7, <2>1, <2>2
<1>11. ToSet(r.receipts) \subseteq ToSet(t.receipts)
  BY <1>1, GrowsFacts
<1>12. /\ ToSet(a) = c /\ c \subseteq ToSet(q) /\ InOrder(a, q)
       /\ \A j \in DOMAIN q : q[j] \notin c => \A v \in c : \E i \in 1 .. j : q[i] = v
  BY <1>6, <1>7, <1>9, <1>10
<1>13. Remembers(l, t)
  BY <1>3, <1>11, <1>12 DEF Remembers, p, q, c, a
<1> QED
  BY <1>4, <1>5, <1>13

\* A new loop has seen nothing, which is true of any rows.
LEMMA NewLoopKept ==
    ASSUME rows \in Rows
    PROVE  MemoryOf(NewLoop, rows) /\ Remembers(NewLoop, rows) /\ Tallied(NewLoop, rows)
<1>1. /\ NewLoop.records = <<>> /\ NewLoop.spend = <<>> /\ NewLoop.seenQuota = {}
      /\ NewLoop.seenEvents = 0 /\ NewLoop.seenReceipts = {} /\ NewLoop.raised = {}
      /\ NewLoop.persisted = {} /\ NewLoop.open = FALSE /\ LoopFields(NewLoop)
  BY DEF NewLoop, LoopFields
<1>2. MemoryOf(NewLoop, rows)
  <2>1. Len(rows.usages) \in Nat /\ IsFiniteSet({})
    BY RowsTypes, FS_EmptySet
  <2>2. <<>> \in Seq(Quotas) /\ <<>> \in Seq(Spend) /\ 0 \in 0 .. Len(rows.usages)
    BY <2>1, EmptySeq
  <2> DEFINE l == NewLoop
  <2>3. /\ l.records \in Seq(Quotas) /\ l.spend \in Seq(Spend) /\ l.seenQuota = {}
        /\ l.seenEvents \in 0 .. Len(rows.usages) /\ l.seenReceipts = {}
        /\ IsFiniteSet(l.seenReceipts) /\ l.raised = {} /\ l.persisted = {} /\ l.open = FALSE
        /\ LoopFields(l)
    BY <1>1, <2>1, <2>2
  <2> HIDE DEF l
  <2>4. MemoryOf(l, rows)
    BY <2>3 DEF MemoryOf
  <2> QED
    BY <2>4 DEF l
<1>3. UsagesSeen(NewLoop, rows) = <<>>
  BY <1>1, SubSeqEmpty DEF UsagesSeen
<1>4. ToSet(<<>>) = {} /\ InOrder(<<>>, rows.quotas)
  BY DEF ToSet, InOrder
<1>5. Remembers(NewLoop, rows)
  BY <1>1, <1>3, <1>4 DEF Remembers
<1>6. Tallied(NewLoop, rows)
  <2> SUFFICES ASSUME NEW M \in SUBSET Spend
               PROVE  AmountOf(<<>>, M) = AmountOf(<<>>, M \cap OmpEvents)
                                            + SumOver(Amounts, {} \cap (M \cap ProxyEvents))
    BY <1>1, <1>3 DEF Tallied
  <2>1. {} \cap (M \cap ProxyEvents) = {}
    OBVIOUS
  <2>2. AmountOf(<<>>, M) = 0 /\ AmountOf(<<>>, M \cap OmpEvents) = 0 /\ SumOver(Amounts, {}) = 0
    BY AmountEmpty, SumEmpty
  <2> QED
    BY <2>1, <2>2
<1> QED
  BY <1>2, <1>5, <1>6

Opened(l) == [l EXCEPT !.open = TRUE]

\* Opening the breaker changes the breaker alone, ...
LEMMA OpenedFields ==
    ASSUME NEW l, LoopFields(l)
    PROVE  LET m == Opened(l)
           IN  /\ LoopFields(m) /\ m.open = TRUE
               /\ m.records = l.records /\ m.spend = l.spend /\ m.seenQuota = l.seenQuota
               /\ m.seenEvents = l.seenEvents /\ m.seenReceipts = l.seenReceipts
               /\ m.raised = l.raised /\ m.persisted = l.persisted
<1> DEFINE a == l.records
           b == l.spend
           c == l.seenQuota
           d == l.seenEvents
           e == l.seenReceipts
           f == l.raised
           g == l.persisted
           h == l.open
           m == Opened(l)
<1>1. l = [records |-> a, spend |-> b, seenQuota |-> c, seenEvents |-> d, seenReceipts |-> e,
           raised |-> f, persisted |-> g, open |-> h]
  BY DEF LoopFields
<1>2. m = [l EXCEPT !.open = TRUE]
  BY DEF Opened
<1> HIDE DEF a, b, c, d, e, f, g, h, m
<1>3. m = [records |-> a, spend |-> b, seenQuota |-> c, seenEvents |-> d, seenReceipts |-> e,
           raised |-> f, persisted |-> g, open |-> TRUE]
  BY <1>1, <1>2
<1>4. /\ LoopFields(m) /\ m.open = TRUE /\ m.records = a /\ m.spend = b /\ m.seenQuota = c
      /\ m.seenEvents = d /\ m.seenReceipts = e /\ m.raised = f /\ m.persisted = g
  BY <1>3 DEF LoopFields
<1> QED
  BY <1>4 DEF a, b, c, d, e, f, g, h, m

\* ... so the memory stays true.
LEMMA OpenedKept ==
    ASSUME NEW l, NEW r, MemoryOf(l, r), Remembers(l, r), Tallied(l, r)
    PROVE  MemoryOf(Opened(l), r) /\ Remembers(Opened(l), r) /\ Tallied(Opened(l), r)
<1> DEFINE m == Opened(l)
<1>1. /\ LoopFields(m) /\ m.open = TRUE
      /\ m.records = l.records /\ m.spend = l.spend /\ m.seenQuota = l.seenQuota
      /\ m.seenEvents = l.seenEvents /\ m.seenReceipts = l.seenReceipts
      /\ m.raised = l.raised /\ m.persisted = l.persisted
  BY OpenedFields DEF MemoryOf
<1> HIDE DEF m
<1>2. UsagesSeen(m, r) = UsagesSeen(l, r)
  BY <1>1 DEF UsagesSeen
<1>3. MemoryOf(m, r)
  BY <1>1 DEF MemoryOf
<1>4. Remembers(m, r)
  BY <1>1, <1>2 DEF Remembers
<1>5. Tallied(m, r)
  BY <1>1, <1>2 DEF Tallied
<1> QED
  BY <1>3, <1>4, <1>5 DEF m

Posting ==
    \/ \E q \in Quotas : Post("quotas", q)
    \/ \E s \in Usages : Post("usages", s)
    \/ \E s \in Receipts : Post("receipts", s)

\* A post adds a row to one table.
LEMMA PostGrows ==
    ASSUME rows \in Rows, Posting
    PROVE  /\ rows' \in Rows
           /\ Grows(rows.quotas, rows'.quotas, Quotas)
           /\ Grows(rows.usages, rows'.usages, Usages)
           /\ Grows(rows.receipts, rows'.receipts, Receipts)
           /\ asked' = FALSE
           /\ UNCHANGED <<alarms, clock, life, loop, served, getFaults>>
<1> DEFINE a == rows.quotas
           b == rows.usages
           c == rows.receipts
<1>1. /\ rows = [quotas |-> a, usages |-> b, receipts |-> c]
      /\ a \in Seq(Quotas) /\ b \in Seq(Usages) /\ c \in Seq(Receipts)
  BY DEF Rows
<1>2. asked' = FALSE /\ UNCHANGED <<alarms, clock, life, loop, served, getFaults>>
  BY DEF Posting, Post
<1>3. \/ \E q \in Quotas : rows' = [rows EXCEPT !["quotas"] = Append(@, q)]
      \/ \E s \in Usages : rows' = [rows EXCEPT !["usages"] = Append(@, s)]
      \/ \E s \in Receipts : rows' = [rows EXCEPT !["receipts"] = Append(@, s)]
  BY DEF Posting, Post
<1> HIDE DEF a, b, c
<1>4. \/ \E q \in Quotas : rows' = [quotas |-> Append(a, q), usages |-> b, receipts |-> c]
      \/ \E s \in Usages : rows' = [quotas |-> a, usages |-> Append(b, s), receipts |-> c]
      \/ \E s \in Receipts : rows' = [quotas |-> a, usages |-> b, receipts |-> Append(c, s)]
  BY <1>1, <1>3
<1>5. /\ rows' \in Rows
      /\ Grows(a, rows'.quotas, Quotas) /\ Grows(b, rows'.usages, Usages)
      /\ Grows(c, rows'.receipts, Receipts)
  <2>1. CASE \E q \in Quotas : rows' = [quotas |-> Append(a, q), usages |-> b, receipts |-> c]
    BY <1>1, <2>1 DEF Rows, Grows
  <2>2. CASE \E s \in Usages : rows' = [quotas |-> a, usages |-> Append(b, s), receipts |-> c]
    BY <1>1, <2>2 DEF Rows, Grows
  <2>3. CASE \E s \in Receipts : rows' = [quotas |-> a, usages |-> b, receipts |-> Append(c, s)]
    BY <1>1, <2>3 DEF Rows, Grows
  <2> QED
    BY <1>4, <2>1, <2>2, <2>3
<1> QED
  BY <1>2, <1>5 DEF a, b, c

\* The steps of the runway.
LEMMA RunwayCases ==
    ASSUME [RunwayNext]_runwayVars
    PROVE  Posting \/ Get \/ GetFails \/ GetFrozen \/ RestartController \/ Passes \/ UNCHANGED runwayVars
BY DEF RunwayNext, Posting

\* The durable rows, and the memory that stands for those it has seen.
MemoryKept ==
    /\ rows \in Rows
    /\ MemoryOf(loop, rows)
    /\ Remembers(loop, rows)
    /\ Tallied(loop, rows)

\* The memory is true at the start ...
LEMMA MemoryInit == RunwayInit => MemoryKept
<1> SUFFICES ASSUME RunwayInit
             PROVE  MemoryKept
  OBVIOUS
<1>1. rows \in Rows /\ loop = NewLoop
  BY EmptySeq DEF RunwayInit, Rows
<1> QED
  BY <1>1, NewLoopKept DEF MemoryKept

\* ... and after each step: the inductive invariant of the loop.
LEMMA MemoryStep == MemoryKept /\ [RunwayNext]_runwayVars => MemoryKept'
<1> SUFFICES ASSUME MemoryKept, [RunwayNext]_runwayVars
             PROVE  MemoryKept'
  OBVIOUS
<1>1. rows \in Rows /\ MemoryOf(loop, rows) /\ Remembers(loop, rows) /\ Tallied(loop, rows)
  BY DEF MemoryKept
<1>2. CASE Posting
  <2>1. /\ rows' \in Rows /\ loop' = loop
        /\ Grows(rows.quotas, rows'.quotas, Quotas)
        /\ Grows(rows.usages, rows'.usages, Usages)
        /\ Grows(rows.receipts, rows'.receipts, Receipts)
    BY <1>1, <1>2, PostGrows
  <2>2. MemoryOf(loop, rows') /\ Remembers(loop, rows') /\ Tallied(loop, rows')
    BY <1>1, <2>1, RowsGrow
  <2> QED
    BY <2>1, <2>2 DEF MemoryKept
<1>3. CASE Get
  <2>1. rows' = rows /\ loop' = Evaluated(loop)
    BY <1>3 DEF Get
  <2>2. /\ MemoryOf(Evaluated(loop), rows) /\ Remembers(Evaluated(loop), rows)
        /\ Tallied(Evaluated(loop), rows)
    BY <1>1, EvaluatedRemembers
  <2> QED
    BY <1>1, <2>1, <2>2 DEF MemoryKept
<1>4. CASE GetFails
  <2>1. rows' = rows /\ loop' = Opened(loop)
    BY <1>4 DEF GetFails, Opened
  <2>2. MemoryOf(Opened(loop), rows) /\ Remembers(Opened(loop), rows) /\ Tallied(Opened(loop), rows)
    BY <1>1, OpenedKept
  <2> QED
    BY <1>1, <2>1, <2>2 DEF MemoryKept
<1>5. CASE RestartController
  <2>1. rows' = rows /\ loop' = NewLoop
    BY <1>5 DEF RestartController
  <2> QED
    BY <1>1, <2>1, NewLoopKept DEF MemoryKept
<1>6. CASE GetFrozen \/ Passes \/ UNCHANGED runwayVars
  <2>1. rows' = rows /\ loop' = loop
    BY <1>6 DEF GetFrozen, Passes, runwayVars
  <2> QED
    BY <1>1, <2>1 DEF MemoryKept
<1> QED
  BY <1>2, <1>3, <1>4, <1>5, <1>6, RunwayCases

-----------------------------------------------------------------------------
(* The type of the rest *)

RestTyped ==
    /\ IsABag(alarms)
    /\ clock \in Nat
    /\ life \in Nat
    /\ DOMAIN served \subseteq Label
    /\ \A label \in DOMAIN served : served[label] \in Estimates
    /\ asked \in BOOLEAN
    /\ getFaults \in 0 .. MaxGetFaults

\* Persisting keeps the alarms a bag.
LEMMA PersistBag ==
    ASSUME NEW news, Persist(news), IsABag(alarms)
    PROVE  IsABag(alarms')
<1>1. \A a \in DOMAIN alarms : alarms[a] \in Nat /\ alarms[a] > 0
  BY DEF IsABag
<1>2. alarms' = [e \in DOMAIN alarms \cup news |->
                   (IF e \in DOMAIN alarms THEN alarms[e] ELSE 0) + (IF e \in news THEN 1 ELSE 0)]
  BY DEF Persist, SetToBag, (+)
<1>3. \A e \in DOMAIN alarms \cup news :
         alarms'[e] = (IF e \in DOMAIN alarms THEN alarms[e] ELSE 0) + (IF e \in news THEN 1 ELSE 0)
  BY <1>2
<1>4. \A e \in DOMAIN alarms \cup news : alarms'[e] \in Nat /\ alarms'[e] > 0
  BY <1>1, <1>3
<1> QED
  BY <1>2, <1>4 DEF IsABag

\* The rest of the state is typed at the start ...
LEMMA RestTypedInit == RunwayInit => RestTyped
<1> SUFFICES ASSUME RunwayInit
             PROVE  RestTyped
  OBVIOUS
<1>1. IsABag(EmptyBag)
  BY DEF IsABag, EmptyBag, SetToBag
<1>2. MaxGetFaults \in Nat
  BY RunwayAssumption
<1>3. DOMAIN served = {}
  BY DEF RunwayInit
<1>4. asked \in BOOLEAN /\ alarms = EmptyBag /\ clock = 0 /\ life = 1 /\ getFaults = 0
  BY DEF RunwayInit
<1> QED
  BY <1>1, <1>2, <1>3, <1>4 DEF RestTyped

\* ... and after each step.
LEMMA RestTypedStep == MemoryKept /\ RestTyped /\ [RunwayNext]_runwayVars => RestTyped'
<1> SUFFICES ASSUME MemoryKept, RestTyped, [RunwayNext]_runwayVars
             PROVE  RestTyped'
  OBVIOUS
<1>1. CASE Posting \/ GetFrozen \/ UNCHANGED runwayVars
  <2>1. /\ UNCHANGED <<alarms, clock, life, served, getFaults>>
        /\ asked' \in BOOLEAN
    BY <1>1, PostGrows DEF MemoryKept, GetFrozen, runwayVars, RestTyped
  <2> QED
    BY <2>1 DEF RestTyped
<1>2. CASE Get
  <2>1. loop'.records \in Seq(Quotas) /\ loop'.spend \in Seq(Spend)
    BY MemoryStep DEF MemoryKept, MemoryOf
  <2>2. Known(loop') \subseteq Label
    BY <2>1, KnownType
  <2>3. served' = [label \in Known(loop') |-> Runway(loop', label)]
    BY <1>2 DEF Get
  <2>4. \A label : Runway(loop', label) \in Estimates
    <3> DEFINE l == loop'
    <3>1. l.records \in Seq(Quotas) /\ l.spend \in Seq(Spend)
      BY <2>1
    <3> HIDE DEF l
    <3>2. \A label : Runway(l, label) \in Estimates
      BY <3>1, RunwayType
    <3> QED
      BY <3>2 DEF l
  <2>5. DOMAIN served' \subseteq Label /\ \A label \in DOMAIN served' : served'[label] \in Estimates
    BY <2>2, <2>3, <2>4
  <2>6. Persist(News(loop)) /\ asked' = TRUE /\ UNCHANGED <<clock, life, getFaults>>
    BY <1>2 DEF Get
  <2>7. IsABag(alarms')
    BY <2>6, PersistBag DEF RestTyped
  <2> QED
    BY <2>5, <2>6, <2>7 DEF RestTyped
<1>3. CASE GetFails
  <2>1. /\ getFaults' = getFaults + 1 /\ getFaults < MaxGetFaults
        /\ asked' = TRUE /\ UNCHANGED <<clock, life, served>>
        /\ \E news : Persist(news)
    BY <1>3 DEF GetFails
  <2>2. IsABag(alarms')
    BY <2>1, PersistBag DEF RestTyped
  <2>3. getFaults' \in 0 .. MaxGetFaults
    BY <2>1, RunwayAssumption DEF RestTyped
  <2> QED
    BY <2>1, <2>2, <2>3 DEF RestTyped
<1>4. CASE RestartController
  <2>1. /\ life' = life + 1 /\ served' = <<>> /\ asked' \in BOOLEAN /\ UNCHANGED <<clock, getFaults>>
        /\ \E news : Persist(news)
    BY <1>4 DEF RestartController
  <2>2. IsABag(alarms')
    BY <2>1, PersistBag DEF RestTyped
  <2>3. DOMAIN served' = {}
    BY <2>1
  <2> QED
    BY <2>1, <2>2, <2>3 DEF RestTyped
<1>5. CASE Passes
  <2>1. clock' = clock + 1 /\ asked' \in BOOLEAN /\ UNCHANGED <<alarms, life, served, getFaults>>
    BY <1>5 DEF Passes
  <2> QED
    BY <2>1 DEF RestTyped
<1> QED
  BY <1>1, <1>2, <1>3, <1>4, <1>5, RunwayCases

\* Together they are the type invariant.
LEMMA RunwayTyped == MemoryKept /\ RestTyped => RunwayTypeOK
BY DEF MemoryKept, RestTyped, RunwayTypeOK, MemoryOf

\* The type invariant of the runway, whatever is posted, faulted or restarted:
\* the loop never points past the durable usage, never remembers a row that is
\* not a row, never persists an alarm it did not raise, and serves estimates of
\* labels (RunwayLoop, QuotaTelemetry).
THEOREM RunwayTypes == RunwaySpec => []RunwayTypeOK
<1>1. MemoryKept /\ RestTyped /\ [RunwayNext]_runwayVars => (MemoryKept /\ RestTyped)'
  BY MemoryStep, RestTypedStep
<1> QED
  BY <1>1, MemoryInit, RestTypedInit, RunwayTyped, PTL DEF RunwaySpec

-----------------------------------------------------------------------------
(* What is served is of the rows *)

\* The events that match a total are of one origin.
LEMMA MatchingIn ==
    ASSUME NEW label, NEW after
    PROVE  /\ \A kind \in {"direct", "manual"} :
                LET M == Matching(label, kind, after)
                IN  M \in SUBSET Spend /\ M \cap OmpEvents = M /\ M \cap ProxyEvents = {}
           /\ LET M == Matching(label, "proxy", after)
              IN  M \in SUBSET Spend /\ M \cap OmpEvents = {} /\ M \cap ProxyEvents = M
BY DEF Matching, OmpEvents, ProxyEvents, Valid, OmpKinds, ProxyKinds

\* Nothing matches nothing.
LEMMA AmountOfNone ==
    ASSUME NEW s \in Seq(Spend)
    PROVE  AmountOf(s, {}) = 0
<1> DEFINE f == [i \in {i \in DOMAIN s : s[i] \in {}} |-> s[i].amount]
<1>1. SumFunction(f) = AmountOf(s, {})
  BY AmountByPosition
<1>2. DOMAIN f = {}
  OBVIOUS
<1> HIDE DEF f
<1> QED
  BY <1>1, <1>2, SumIsFold, SumEmpty

\* The reference total of usage is the amount of all the usage, ...
LEMMA UsedIs ==
    ASSUME rows \in Rows, NEW label, NEW kind, NEW after
    PROVE  Used(label, kind, after) = AmountOf(rows.usages, Matching(label, kind, after))
<1> DEFINE M == Matching(label, kind, after)
           u == rows.usages
           A == {i \in DOMAIN u : u[i] \in M}
           B == {i \in DOMAIN u : LET s == u[i]
                                  IN  s.label = label /\ s.attribution = kind /\ s.time > after}
<1>1. u \in Seq(Spend)
  BY RowsTypes
<1>2. A = B
  BY <1>1 DEF Matching
<1>3. Used(label, kind, after) = SumFunction([i \in B |-> u[i].amount])
  BY DEF Used
<1> HIDE DEF B
<1>4. SumFunction([i \in A |-> u[i].amount]) = AmountOf(u, M)
  <2> HIDE DEF M, u
  <2> QED
    BY <1>1, AmountByPosition
<1> HIDE DEF A
<1> QED
  BY <1>2, <1>3, <1>4

\* ... and that of the receipts counts each receipt once, however often it
\* was posted.
LEMMA ProxiedIs ==
    ASSUME rows \in Rows, NEW label, NEW after
    PROVE  Proxied(label, after)
             = SumOver(Amounts, ToSet(rows.receipts) \cap Matching(label, "proxy", after))
<1> DEFINE M == Matching(label, "proxy", after)
           R == ToSet(rows.receipts)
           A == {s \in R : s.label = label /\ s.attribution = "proxy" /\ s.time > after}
           f == [s \in A |-> s.amount]
<1>1. R \subseteq Spend /\ IsFiniteSet(R)
  BY RowsTypes
<1>2. A = R \cap M
  BY <1>1 DEF Matching
<1>3. Proxied(label, after) = SumFunction(f)
  BY DEF Proxied
<1>4. DOMAIN f = A
  OBVIOUS
<1>5. \A s \in A : f[s] = Amounts[s]
  BY <1>1 DEF Amounts
<1>6. IsFiniteSet(A)
  BY <1>1, <1>2, FS_Subset
<1> HIDE DEF f, A, R, M
<1>7. SumOver(f, A) = SumOver(Amounts, A)
  BY <1>5, <1>6, SumSame
<1>8. SumFunction(f) = SumOver(f, A)
  BY <1>4, SumIsFold
<1>9. Proxied(label, after) = SumOver(Amounts, R \cap M)
  BY <1>2, <1>3, <1>7, <1>8
<1> QED
  BY <1>9 DEF R, M

\* The totals of a loop that is up to date are the reference totals.
LEMMA TotalsAre ==
    ASSUME rows \in Rows, NEW l, Tallied(l, rows), UpToDate(l, rows),
           NEW label, NEW after, NEW class, NEW used, NEW unit, NEW since, NEW reset
    PROVE  Totals(l, label, after, class, used, unit, since, reset)
             = Counted(label, after, class, used, unit, since, reset)
<1> DEFINE R == ToSet(rows.receipts)
           u == rows.usages
<1>1. UsagesSeen(l, rows) = u /\ l.seenReceipts = R /\ u \in Seq(Spend)
  BY RowsTypes, SubSeqFull DEF UsagesSeen, UpToDate
<1>2. ASSUME NEW M \in SUBSET Spend
      PROVE  AmountOf(l.spend, M) = AmountOf(u, M \cap OmpEvents)
                                      + SumOver(Amounts, R \cap (M \cap ProxyEvents))
  BY <1>1 DEF Tallied
<1> HIDE DEF R, u
<1>3. ASSUME NEW kind \in {"direct", "manual"}
      PROVE  SpendTotal(l, label, kind, after) = Used(label, kind, after)
  <2> DEFINE M == Matching(label, kind, after)
  <2>1. M \in SUBSET Spend /\ M \cap OmpEvents = M /\ M \cap ProxyEvents = {}
    BY MatchingIn
  <2>2. SpendTotal(l, label, kind, after) = AmountOf(l.spend, M)
    BY SpendTotalIs
  <2>3. Used(label, kind, after) = AmountOf(u, M)
    BY UsedIs DEF u
  <2> HIDE DEF M
  <2>4. R \cap {} = {} /\ SumOver(Amounts, {}) = 0 /\ AmountOf(u, M) \in Nat
    BY <1>1, SumEmpty, AmountType
  <2>5. AmountOf(l.spend, M) = AmountOf(u, M) + SumOver(Amounts, {})
    BY <1>2, <2>1, <2>4
  <2> QED
    BY <2>2, <2>3, <2>4, <2>5
<1>4. SpendTotal(l, label, "proxy", after) = Proxied(label, after)
  <2> DEFINE M == Matching(label, "proxy", after)
  <2>1. M \in SUBSET Spend /\ M \cap OmpEvents = {} /\ M \cap ProxyEvents = M
    BY MatchingIn
  <2>2. SpendTotal(l, label, "proxy", after) = AmountOf(l.spend, M)
    BY SpendTotalIs
  <2>3. Proxied(label, after) = SumOver(Amounts, R \cap M)
    BY ProxiedIs DEF R
  <2> HIDE DEF M
  <2>4. SumOver(Amounts, R \cap M) \in Int
    <3>1. R \cap M \in SUBSET Spend /\ IsFiniteSet(R \cap M)
      BY <2>1, RowsTypes, FS_Subset DEF R
    <3>2. Numeric(Amounts, R \cap M)
      BY <3>1, AmountsNumeric
    <3> QED
      BY <3>1, <3>2, SumType
  <2>5. AmountOf(u, {}) = 0
    BY <1>1, AmountOfNone
  <2>6. AmountOf(l.spend, M) = AmountOf(u, {}) + SumOver(Amounts, R \cap M)
    BY <1>2, <2>1
  <2> QED
    BY <2>2, <2>3, <2>4, <2>5, <2>6
<1>5. /\ SpendTotal(l, label, "direct", after) = Used(label, "direct", after)
      /\ SpendTotal(l, label, "manual", after) = Used(label, "manual", after)
  BY <1>3
<1> QED
  BY <1>4, <1>5 DEF Totals, Counted

\* The estimate of an account as its rows say it.
Right(label, e) ==
    \/ /\ Sourced(label) = {}
       /\ e = Counted(label, -1, "unknown", Nothing, "unknown", Nothing, Nothing)
    \/ \E i \in Sourced(label) :
        /\ \A j \in Sourced(label) : Preferred(i, j)
        /\ LET q == rows.quotas[i]
           IN  e = Counted(label, q.fresh, q.class, q.used, q.unit, q.fresh, q.reset)

\* The first row of the best record is preferred to every other row.
LEMMA FirstRow ==
    ASSUME rows \in Rows, NEW l, MemoryOf(l, rows), Remembers(l, rows), UpToDate(l, rows),
           NEW label, NEW i \in SourcedIn(l, FreshRecords(l, label)),
           Best(l, SourcedIn(l, FreshRecords(l, label)), i)
    PROVE  \E j \in Sourced(label) : /\ rows.quotas[j] = l.records[i]
                                     /\ \A k \in Sourced(label) : Preferred(j, k)
<1> DEFINE q == rows.quotas
           a == l.records
           S == SourcedIn(l, FreshRecords(l, label))
<1>1. /\ q \in Seq(Quotas) /\ DOMAIN q = 1 .. Len(q) /\ Len(q) \in Nat
      /\ a \in Seq(Quotas) /\ ToSet(a) = ToSet(q) /\ InOrder(a, q)
  BY RowsTypes DEF MemoryOf, Remembers, UpToDate
<1>2. i \in DOMAIN a /\ a[i].label = label /\ clock - a[i].fresh <= Silence /\ a[i].class # "unknown"
  BY DEF SourcedIn, FreshRecords
<1>3. \A b \in DOMAIN a : a[b].label = label /\ clock - a[b].fresh <= Silence
                            /\ a[b].class # "unknown" => b \in S
  BY DEF SourcedIn, FreshRecords
<1>4. \A k : k \in Sourced(label) <=> k \in DOMAIN q /\ q[k].label = label
               /\ clock - q[k].fresh <= Silence /\ q[k].class # "unknown"
  BY DEF Sourced
<1>5. \A b \in S : \/ RankOf(a[i]) > RankOf(a[b])
                   \/ RankOf(a[i]) = RankOf(a[b]) /\ Better(l, i, b)
  BY DEF Best
<1>6. \A j, k : Preferred(j, k) <=>
         \/ RankOf(q[j]) > RankOf(q[k])
         \/ RankOf(q[j]) = RankOf(q[k]) /\ q[j].fresh > q[k].fresh
         \/ RankOf(q[j]) = RankOf(q[k]) /\ q[j].fresh = q[k].fresh /\ j <= k
  BY DEF Preferred
<1>7. \A b : Better(l, i, b) <=> \/ a[i].fresh > a[b].fresh
                                 \/ a[i].fresh = a[b].fresh /\ i <= b
  BY DEF Better
<1> HIDE DEF q, a, S
<1>8. PICK j \in DOMAIN q : q[j] = a[i] /\ \A k \in DOMAIN q : q[k] = a[i] => j <= k
  <2> DEFINE T == {k \in DOMAIN q : q[k] = a[i]}
  <2>1. a[i] \in ToSet(q)
    BY <1>1, <1>2 DEF ToSet
  <2>2. T # {} /\ T \subseteq Nat
    BY <1>1, <2>1 DEF ToSet
  <2> HIDE DEF T
  <2>3. \E m \in T : \A k \in T : m <= k
    BY <2>2, Indexed!LeastNumber
  <2> QED
    BY <2>3 DEF T
<1>9. j \in Sourced(label)
  BY <1>2, <1>4, <1>8
<1>10. ASSUME NEW k \in Sourced(label)
       PROVE  Preferred(j, k)
  <2>1. k \in DOMAIN q /\ q[k] \in ToSet(a)
    BY <1>1, <1>4 DEF ToSet
  <2>2. PICK b \in DOMAIN a : a[b] = q[k]
    BY <2>1 DEF ToSet
  <2>3. b \in S
    BY <1>3, <1>4, <2>2
  <2>4. CASE RankOf(a[i]) > RankOf(a[b])
    BY <1>6, <1>8, <2>2, <2>4
  <2>5. CASE RankOf(a[i]) = RankOf(a[b]) /\ a[i].fresh > a[b].fresh
    BY <1>6, <1>8, <2>2, <2>5
  <2>6. CASE RankOf(a[i]) = RankOf(a[b]) /\ a[i].fresh = a[b].fresh /\ i <= b
    <3>1. j <= k
      <4>1. CASE i = b
        BY <1>8, <2>1, <2>2, <4>1
      <4>2. CASE i # b
        <5>1. i < b
          BY <1>1, <1>2, <2>6, <4>2
        <5>2. PICK h \in 1 .. k : q[h] = a[i]
          BY <1>1, <1>2, <2>1, <2>2, <5>1 DEF InOrder
        <5>3. h \in DOMAIN q
          BY <1>1, <2>1
        <5>4. j <= h
          BY <1>8, <5>2, <5>3
        <5> QED
          BY <1>1, <2>1, <5>2, <5>4
      <4> QED
        BY <4>1, <4>2
    <3> QED
      BY <1>6, <1>8, <2>2, <2>6, <3>1
  <2> QED
    BY <1>5, <1>7, <2>3, <2>4, <2>5, <2>6
<1> QED
  BY <1>8, <1>9, <1>10 DEF q, a

\* When the loop has no fresh record of a known source, no row is one.
LEMMA NoRow ==
    ASSUME rows \in Rows, NEW l, MemoryOf(l, rows), Remembers(l, rows), UpToDate(l, rows),
           NEW label, SourcedIn(l, FreshRecords(l, label)) = {}
    PROVE  Sourced(label) = {}
<1> SUFFICES ASSUME NEW k \in Sourced(label)
             PROVE  FALSE
  OBVIOUS
<1>1. /\ k \in DOMAIN rows.quotas /\ rows.quotas[k].label = label
      /\ clock - rows.quotas[k].fresh <= Silence /\ rows.quotas[k].class # "unknown"
  BY DEF Sourced
<1>2. rows.quotas[k] \in ToSet(l.records)
  BY <1>1 DEF Remembers, UpToDate, ToSet
<1>3. PICK b \in DOMAIN l.records : l.records[b] = rows.quotas[k]
  BY <1>2 DEF ToSet
<1>4. b \in SourcedIn(l, FreshRecords(l, label))
  BY <1>1, <1>3 DEF SourcedIn, FreshRecords
<1> QED
  BY <1>4

\* The estimate of a loop that is up to date is the reference estimate.
LEMMA RunwayRight ==
    ASSUME rows \in Rows, NEW l, MemoryOf(l, rows), Remembers(l, rows), Tallied(l, rows),
           UpToDate(l, rows), NEW label
    PROVE  Right(label, Runway(l, label))
<1> DEFINE F == FreshRecords(l, label)
           S == SourcedIn(l, F)
           q == SelectRecord(l, F)
<1>1. \/ S = {} /\ q = Nothing
      \/ \E i \in S : q = l.records[i] /\ Best(l, S, i)
  <2>1. l.records \in Seq(Quotas) /\ F \in SUBSET DOMAIN l.records
    BY FreshIn DEF MemoryOf
  <2> HIDE DEF F
  <2> QED
    BY <2>1, SelectIs
<1>2. Runway(l, label) =
        IF q = Nothing
        THEN Totals(l, label, -1, "unknown", Nothing, "unknown", Nothing, Nothing)
        ELSE Totals(l, label, q.fresh, q.class, q.used, q.unit, q.fresh, q.reset)
  BY DEF Runway
<1>3. CASE S = {} /\ q = Nothing
  <2>1. Sourced(label) = {}
    BY <1>3, NoRow
  <2> HIDE DEF q, S, F
  <2>2. Runway(l, label) = Totals(l, label, -1, "unknown", Nothing, "unknown", Nothing, Nothing)
    BY <1>2, <1>3
  <2>3. Runway(l, label) = Counted(label, -1, "unknown", Nothing, "unknown", Nothing, Nothing)
    BY <2>2, TotalsAre
  <2> QED
    BY <2>1, <2>3 DEF Right
<1>4. CASE \E i \in S : q = l.records[i] /\ Best(l, S, i)
  <2>1. PICK i \in S : q = l.records[i] /\ Best(l, S, i)
    BY <1>4
  <2>2. PICK j \in Sourced(label) : /\ rows.quotas[j] = l.records[i]
                                    /\ \A k \in Sourced(label) : Preferred(j, k)
    BY <2>1, FirstRow
  <2>3. l.records[i] \in Quotas
    BY FreshIn DEF MemoryOf, SourcedIn
  <2> HIDE DEF q, S, F
  <2>4. q # Nothing /\ q = rows.quotas[j]
    BY <2>1, <2>2, <2>3, RecordTypes
  <2>5. Runway(l, label) = Totals(l, label, q.fresh, q.class, q.used, q.unit, q.fresh, q.reset)
    BY <1>2, <2>4
  <2>6. Runway(l, label) = Counted(label, q.fresh, q.class, q.used, q.unit, q.fresh, q.reset)
    BY <2>5, TotalsAre
  <2> QED
    BY <2>2, <2>4, <2>6 DEF Right
<1> QED
  BY <1>1, <1>3, <1>4

\* The accounts it answers for are those of the rows.
LEMMA KnownIsSeen ==
    ASSUME rows \in Rows, NEW l, MemoryOf(l, rows), Remembers(l, rows), UpToDate(l, rows)
    PROVE  Known(l) = Seen
<1> DEFINE U == ToSet(rows.usages)
           R == ToSet(rows.receipts)
           Q == ToSet(rows.quotas)
<1>1. U \subseteq Spend /\ R \subseteq Spend
  BY RowsTypes DEF ToSet
<1>2. UsagesSeen(l, rows) = rows.usages
  BY RowsTypes, SubSeqFull DEF UsagesSeen, UpToDate
<1>3. ToSet(l.records) = Q /\ ToSet(l.spend) = (U \cap OmpEvents) \cup (R \cap ProxyEvents)
  BY <1>2 DEF Remembers, UpToDate
<1>4. Seen = {q.label : q \in Q}
             \cup {s.label : s \in {u \in U : Valid(u, OmpKinds)} \cup {u \in R : Valid(u, ProxyKinds)}}
  BY DEF Seen
<1> HIDE DEF U, R, Q
<1>5. U \cap OmpEvents = {u \in U : Valid(u, OmpKinds)} /\ R \cap ProxyEvents = {u \in R : Valid(u, ProxyKinds)}
  BY <1>1 DEF OmpEvents, ProxyEvents
<1>6. Known(l) = {q.label : q \in Q} \cup {s.label : s \in (U \cap OmpEvents) \cup (R \cap ProxyEvents)}
  BY <1>3 DEF Known
<1> QED
  BY <1>4, <1>5, <1>6

\* The property in terms of Right, ...
LEMMA ServedIs ==
    ServedIsCurrent <=> (asked /\ ~loop.open =>
                          DOMAIN served = Seen /\ \A label \in Seen : Right(label, served[label]))
BY DEF ServedIsCurrent, Right

\* ... and of the next state.
LEMMA ServedIsNext ==
    ServedIsCurrent' <=> (asked' /\ ~loop'.open =>
                          DOMAIN served' = Seen' /\ \A label \in Seen' : Right(label, served[label])')
BY DEF ServedIsCurrent, Right

\* What is right is said by the rows and the clock.
LEMMA RightFrame ==
    ASSUME UNCHANGED <<rows, clock>>
    PROVE  /\ Seen' = Seen
           /\ \A label : Right(label, served[label])' <=> Right(label, served'[label])
<1>1. Seen' = Seen
  BY DEF Seen
<1>2. \A label : Sourced(label)' = Sourced(label)
  BY DEF Sourced
<1>3. \A i, j : Preferred(i, j)' <=> Preferred(i, j)
  BY DEF Preferred, RankOf
<1>4. \A label, kind, after : Used(label, kind, after)' = Used(label, kind, after)
  BY DEF Used
<1>5. \A label, after : Proxied(label, after)' = Proxied(label, after)
  BY DEF Proxied
<1>6. \A label, after, class, used, unit, since, reset :
         Counted(label, after, class, used, unit, since, reset)'
           = Counted(label, after, class, used, unit, since, reset)
  BY <1>4, <1>5 DEF Counted, Estimate
<1> QED
  BY <1>1, <1>2, <1>3, <1>6 DEF Right

\* Each step keeps what is served current, or asks nothing.
LEMMA ServedStep == MemoryKept /\ ServedIsCurrent /\ [RunwayNext]_runwayVars => ServedIsCurrent'
<1> SUFFICES ASSUME MemoryKept, ServedIsCurrent, [RunwayNext]_runwayVars
             PROVE  ServedIsCurrent'
  OBVIOUS
<1>1. CASE asked' = FALSE \/ loop'.open = TRUE
  BY <1>1, ServedIsNext
<1>2. CASE Get
  <2> DEFINE l == Evaluated(loop)
  <2>1. /\ rows \in Rows /\ MemoryOf(l, rows) /\ Remembers(l, rows) /\ Tallied(l, rows)
        /\ UpToDate(l, rows)
    BY EvaluatedRemembers DEF MemoryKept
  <2>2. /\ UNCHANGED <<rows, clock>> /\ loop' = l
        /\ served' = [label \in Known(loop') |-> Runway(loop', label)]
    BY <1>2 DEF Get
  <2> HIDE DEF l
  <2>3. Known(l) = Seen /\ \A label : Right(label, Runway(l, label))
    BY <2>1, KnownIsSeen, RunwayRight
  <2>4. Known(loop') = Known(l) /\ \A label : Runway(loop', label) = Runway(l, label)
    BY <2>2
  <2>5. DOMAIN served' = Seen /\ \A label \in Seen : Right(label, served'[label])
    BY <2>2, <2>3, <2>4
  <2> QED
    BY <2>2, <2>5, RightFrame, ServedIsNext
<1>3. CASE UNCHANGED runwayVars
  <2>1. UNCHANGED <<rows, clock, loop, asked, served>>
    BY <1>3 DEF runwayVars
  <2> QED
    BY <2>1, RightFrame, ServedIs, ServedIsNext
<1>4. CASE Posting
  <2>1. asked' = FALSE
    BY <1>4, PostGrows DEF MemoryKept
  <2> QED
    BY <1>1, <2>1
<1>5. CASE GetFails
  <2>1. loop' = Opened(loop) /\ LoopFields(loop)
    BY <1>5 DEF GetFails, Opened, MemoryKept, MemoryOf
  <2>2. loop'.open = TRUE
    BY <2>1, OpenedFields
  <2> QED
    BY <1>1, <2>2
<1>6. CASE GetFrozen
  <2>1. loop'.open = TRUE
    BY <1>6 DEF GetFrozen, MemoryKept, MemoryOf
  <2> QED
    BY <1>1, <2>1
<1>7. CASE RestartController \/ Passes
  <2>1. asked' = FALSE
    BY <1>7 DEF RestartController, Passes
  <2> QED
    BY <1>1, <2>1
<1> QED
  BY <1>2, <1>3, <1>4, <1>5, <1>6, <1>7, RunwayCases

\* What GET serves is the estimate of the durable rows of that moment as if
\* computed from nothing, over any number of loads, restarts, repeated receipts
\* and store faults: the sum of the increments is the sum of the whole
\* (RunwayLoop._load, _evaluate, QuotaTelemetry.runway).
THEOREM ServesCurrent == RunwaySpec => []ServedIsCurrent
<1>1. RunwayInit => ServedIsCurrent
  BY DEF RunwayInit, ServedIsCurrent
<1>2. MemoryKept /\ ServedIsCurrent /\ [RunwayNext]_runwayVars => (MemoryKept /\ ServedIsCurrent)'
  BY MemoryStep, ServedStep
<1> QED
  BY <1>1, <1>2, MemoryInit, PTL DEF RunwaySpec

-----------------------------------------------------------------------------
(* Alarms *)

RaisedKinds == {"conflict", "unknown-source", "silent"}

\* The keys of what was reported when it was loaded.
Reported(l) ==
    {<<"omp", i>> : i \in 1 .. l.seenEvents} \cup {<<"proxy", s>> : s \in l.seenReceipts}

\* No alarm is there twice; while the loop runs, the alarms of this life are
\* the ones it counts, and every one it counts is there.
AlarmsKept ==
    /\ life \in Nat
    /\ \A a \in DOMAIN alarms : alarms[a] = 1 /\ a.life \in Nat /\ a.life <= life
    /\ \A k \in loop.raised : k[1] \in RaisedKinds
    /\ ~loop.open =>
        /\ \A a \in DOMAIN alarms : a.life = life => a.key \in loop.persisted \cup Reported(loop)
        /\ \A k \in loop.persisted : [life |-> life, key |-> k] \in DOMAIN alarms

\* The keys of the alarms that are raised name their kind.
LEMMA KeyKinds ==
    ASSUME NEW l, NEW label, NEW k \in KeysOf(l, label)
    PROVE  k[1] \in RaisedKinds
BY DEF KeysOf, RaisedKinds

\* What an evaluation persists is of this life, and is a report of an invalid
\* event or an alarm not persisted yet.
LEMMA NewsFacts ==
    ASSUME MemoryKept, NEW n \in News(loop)
    PROVE  /\ n = [life |-> life, key |-> n.key] /\ n.life = life
           /\ \/ n.key \in Invalid(loop)
              \/ n.key \in Evaluated(loop).raised \ loop.persisted
BY DEF News

\* A report of an invalid event is of an event not reported before, ...
LEMMA InvalidKeys ==
    ASSUME MemoryKept, NEW k \in Invalid(loop)
    PROVE  /\ k \in Reported(Evaluated(loop)) /\ k \notin Reported(loop)
           /\ k[1] \in {"omp", "proxy"}
<1> DEFINE e == Evaluated(loop)
<1>1. /\ e.seenEvents = Len(rows.usages) /\ e.seenReceipts = ToSet(rows.receipts)
      /\ loop.seenEvents \in 0 .. Len(rows.usages) /\ Len(rows.usages) \in Nat
  BY EvaluatedRemembers, RowsTypes DEF MemoryKept, UpToDate, MemoryOf
<1> HIDE DEF e
<1>2. CASE \E i \in loop.seenEvents + 1 .. Len(rows.usages) : k = <<"omp", i>>
  <2>1. PICK i \in loop.seenEvents + 1 .. Len(rows.usages) : k = <<"omp", i>>
    BY <1>2
  <2>2. i \in 1 .. e.seenEvents /\ i \notin 1 .. loop.seenEvents
    BY <1>1
  <2>3. k[1] = "omp" /\ \A s : k # <<"proxy", s>>
    BY <2>1
  <2>4. \A j \in 1 .. loop.seenEvents : k # <<"omp", j>>
    BY <2>1, <2>2
  <2> QED
    BY <2>1, <2>2, <2>3, <2>4 DEF Reported, e
<1>3. CASE \E s \in ToSet(rows.receipts) \ loop.seenReceipts : k = <<"proxy", s>>
  <2>1. PICK s \in ToSet(rows.receipts) \ loop.seenReceipts : k = <<"proxy", s>>
    BY <1>3
  <2>2. s \in e.seenReceipts
    BY <1>1
  <2>3. k[1] = "proxy" /\ \A i : k # <<"omp", i>>
    BY <2>1
  <2>4. \A r \in loop.seenReceipts : k # <<"proxy", r>>
    BY <2>1
  <2> QED
    BY <2>1, <2>2, <2>3, <2>4 DEF Reported, e
<1> QED
  BY <1>2, <1>3 DEF Invalid

\* ... has the kind of its origin, ...
LEMMA ReportedKinds ==
    ASSUME NEW l, NEW k \in Reported(l)
    PROVE  k[1] \in {"omp", "proxy"}
BY DEF Reported

\* ... and is never forgotten by a load.
LEMMA ReportedGrows ==
    ASSUME MemoryKept
    PROVE  Reported(loop) \subseteq Reported(Evaluated(loop))
<1> DEFINE e == Evaluated(loop)
<1>1. /\ e.seenEvents = Len(rows.usages) /\ loop.seenReceipts \subseteq e.seenReceipts
      /\ loop.seenEvents \in 0 .. Len(rows.usages) /\ Len(rows.usages) \in Nat
  BY EvaluatedRemembers, RowsTypes DEF MemoryKept, UpToDate, MemoryOf, Remembers
<1> HIDE DEF e
<1>2. 1 .. loop.seenEvents \subseteq 1 .. e.seenEvents
  BY <1>1
<1>3. Reported(loop) \subseteq Reported(e)
  BY <1>1, <1>2 DEF Reported
<1> QED
  BY <1>3 DEF e

\* The keys an evaluation leaves raised.
LEMMA RaisedFacts ==
    ASSUME MemoryKept, AlarmsKept
    PROVE  LET e == Evaluated(loop)
               m == Loaded(loop)
           IN  /\ e.persisted = e.raised /\ loop.persisted \subseteq e.raised /\ e.open = loop.open
               /\ \A label \in Known(m) : KeysOf(m, label) \subseteq e.raised
               /\ \A k \in e.raised : k[1] \in RaisedKinds
<1> DEFINE m == Loaded(loop)
           e == Evaluated(loop)
<1>1. /\ e.raised = m.raised \cup UNION {KeysOf(m, label) : label \in Known(m)}
      /\ e.persisted = e.raised /\ e.open = m.open
      /\ m.raised = loop.raised /\ m.open = loop.open /\ loop.persisted \subseteq loop.raised
  BY EvaluatedKeeps, LoadedFields DEF MemoryKept, MemoryOf
<1> HIDE DEF m, e
<1>2. \A label \in Known(m) : KeysOf(m, label) \subseteq e.raised
  BY <1>1
<1>3. \A k \in e.raised : k[1] \in RaisedKinds
  BY <1>1, KeyKinds DEF AlarmsKept
<1> QED
  BY <1>1, <1>2, <1>3 DEF m, e

\* While the loop runs, an alarm it is about to persist is not there.
LEMMA NewsAreNew ==
    ASSUME MemoryKept, AlarmsKept, ~loop.open, NEW n \in News(loop)
    PROVE  n \notin DOMAIN alarms
<1> SUFFICES ASSUME n \in DOMAIN alarms
             PROVE  FALSE
  OBVIOUS
<1>1. n.key \in loop.persisted \cup Reported(loop)
  BY NewsFacts DEF AlarmsKept
<1>2. \A k \in loop.persisted : k[1] \in RaisedKinds
  BY DEF AlarmsKept, MemoryKept, MemoryOf
<1>3. CASE n.key \in Invalid(loop)
  BY <1>1, <1>2, <1>3, InvalidKeys DEF RaisedKinds
<1>4. CASE n.key \in Evaluated(loop).raised \ loop.persisted
  <2>1. n.key[1] \in RaisedKinds
    BY <1>4, RaisedFacts
  <2>2. n.key \in Reported(loop)
    BY <1>1, <1>4
  <2> QED
    BY <2>1, <2>2, ReportedKinds DEF RaisedKinds
<1> QED
  BY <1>3, <1>4, NewsFacts

\* Persisting what was not persisted makes no second copy.
LEMMA PersistOnce ==
    ASSUME AlarmsKept, NEW news, \A n \in news : n \notin DOMAIN alarms /\ n.life = life, Persist(news)
    PROVE  /\ DOMAIN alarms' = DOMAIN alarms \cup news
           /\ \A a \in DOMAIN alarms' : alarms'[a] = 1 /\ a.life \in Nat /\ a.life <= life
<1>1. alarms' = [e \in DOMAIN alarms \cup news |->
                   (IF e \in DOMAIN alarms THEN alarms[e] ELSE 0) + (IF e \in news THEN 1 ELSE 0)]
  BY DEF Persist, SetToBag, (+)
<1>2. ASSUME NEW e \in DOMAIN alarms \cup news
      PROVE  alarms'[e] = 1 /\ e.life \in Nat /\ e.life <= life
  <2>1. alarms'[e] = (IF e \in DOMAIN alarms THEN alarms[e] ELSE 0) + (IF e \in news THEN 1 ELSE 0)
    BY <1>1
  <2>2. CASE e \in news
    BY <2>1, <2>2 DEF AlarmsKept
  <2>3. CASE e \notin news
    BY <2>1, <2>3 DEF AlarmsKept
  <2> QED
    BY <2>2, <2>3
<1>3. DOMAIN alarms' = DOMAIN alarms \cup news
  BY <1>1
<1> QED
  BY <1>2, <1>3

\* The inductive invariant of the alarms: while the breaker is closed, the
\* durable alarms of this life are those the loop knows it persisted.
LEMMA AlarmsStep == MemoryKept /\ AlarmsKept /\ [RunwayNext]_runwayVars => AlarmsKept'
<1> SUFFICES ASSUME MemoryKept, AlarmsKept, [RunwayNext]_runwayVars
             PROVE  AlarmsKept'
  OBVIOUS
<1>1. CASE Posting \/ GetFrozen \/ Passes \/ UNCHANGED runwayVars
  <2>1. UNCHANGED <<alarms, life, loop>>
    BY <1>1, PostGrows DEF MemoryKept, GetFrozen, Passes, runwayVars
  <2> QED
    BY <2>1 DEF AlarmsKept, Reported
<1>2. CASE Get
  <2> DEFINE e == Evaluated(loop)
             news == News(loop)
  <2>1. ~loop.open /\ loop' = e /\ Persist(news) /\ life' = life
    BY <1>2 DEF Get
  <2>2. \A n \in news : n \notin DOMAIN alarms /\ n.life = life
    BY <2>1, NewsAreNew, NewsFacts
  <2>3. /\ DOMAIN alarms' = DOMAIN alarms \cup news
        /\ \A a \in DOMAIN alarms' : alarms'[a] = 1 /\ a.life \in Nat /\ a.life <= life
    BY <2>1, <2>2, PersistOnce
  <2>4. /\ e.persisted = e.raised /\ loop.persisted \subseteq e.raised
        /\ \A k \in e.raised : k[1] \in RaisedKinds
    BY RaisedFacts
  <2>5. ASSUME NEW a \in DOMAIN alarms', a.life = life
        PROVE  a.key \in e.persisted \cup Reported(e)
    <3>1. CASE a \in DOMAIN alarms
      BY <2>1, <2>4, <2>5, <3>1, ReportedGrows DEF AlarmsKept
    <3>2. CASE a \in news
      BY <2>4, <3>2, NewsFacts, InvalidKeys
    <3> QED
      BY <2>3, <2>5, <3>1, <3>2
  <2>6. ASSUME NEW k \in e.persisted
        PROVE  [life |-> life, key |-> k] \in DOMAIN alarms'
    <3>1. CASE k \in loop.persisted
      BY <2>1, <2>3, <3>1 DEF AlarmsKept
    <3>2. CASE k \notin loop.persisted
      <4>1. [life |-> life, key |-> k] \in news
        BY <2>4, <2>6, <3>2 DEF News
      <4> QED
        BY <2>3, <4>1
    <3> QED
      BY <3>1, <3>2
  <2> HIDE DEF e, news
  <2> QED
    BY <2>1, <2>3, <2>4, <2>5, <2>6 DEF AlarmsKept, Reported
<1>3. CASE GetFails
  <2>1. PICK news \in SUBSET News(loop) : Persist(news)
    BY <1>3 DEF GetFails
  <2>2. ~loop.open /\ loop' = Opened(loop) /\ life' = life /\ LoopFields(loop)
    BY <1>3 DEF GetFails, Opened, MemoryKept, MemoryOf
  <2>3. \A n \in news : n \notin DOMAIN alarms /\ n.life = life
    BY <2>1, <2>2, NewsAreNew, NewsFacts
  <2>4. \A a \in DOMAIN alarms' : alarms'[a] = 1 /\ a.life \in Nat /\ a.life <= life
    BY <2>1, <2>3, PersistOnce
  <2>5. loop'.open = TRUE /\ loop'.raised = loop.raised
    BY <2>2, OpenedFields
  <2> QED
    BY <2>2, <2>4, <2>5 DEF AlarmsKept
<1>4. CASE RestartController
  <2>1. PICK news \in (IF loop.open THEN {{}} ELSE SUBSET News(loop)) : Persist(news)
    BY <1>4 DEF RestartController
  <2>2. life' = life + 1 /\ loop' = NewLoop
    BY <1>4 DEF RestartController
  <2>3. \A n \in news : n \notin DOMAIN alarms /\ n.life = life
    <3>1. CASE loop.open
      BY <2>1, <3>1
    <3>2. CASE ~loop.open
      <4>1. news \subseteq News(loop)
        BY <2>1, <3>2
      <4> QED
        BY <3>2, <4>1, NewsAreNew, NewsFacts
    <3> QED
      BY <3>1, <3>2
  <2>4. \A a \in DOMAIN alarms' : alarms'[a] = 1 /\ a.life \in Nat /\ a.life <= life
    BY <2>1, <2>3, PersistOnce
  <2>5. loop'.raised = {} /\ loop'.persisted = {}
    BY <2>2 DEF NewLoop
  <2>6. life \in Nat
    BY DEF AlarmsKept
  <2> QED
    BY <2>2, <2>4, <2>5, <2>6 DEF AlarmsKept
<1> QED
  BY <1>1, <1>2, <1>3, <1>4, RunwayCases

\* It holds at the start.
LEMMA AlarmsInit == RunwayInit => AlarmsKept
<1> SUFFICES ASSUME RunwayInit
             PROVE  AlarmsKept
  OBVIOUS
<1>1. DOMAIN alarms = {} /\ life = 1 /\ loop.raised = {} /\ loop.persisted = {}
  BY DEF RunwayInit, EmptyBag, SetToBag, NewLoop
<1> QED
  BY <1>1 DEF AlarmsKept

\* The alarms of the accounts that are silent, before they are served.
SilentKnown ==
    asked /\ ~loop.open =>
        \A label \in Seen :
            (\A i \in DOMAIN rows.quotas :
                rows.quotas[i].label = label => clock - rows.quotas[i].fresh > Silence)
            => [life |-> life, key |-> <<"silent", label>>] \in BagToSet(alarms)

\* An evaluation persists the alarm of every silent account.
LEMMA SilentRaised ==
    ASSUME MemoryKept, RestTyped, AlarmsKept, NEW label \in Seen,
           \A i \in DOMAIN rows.quotas :
               rows.quotas[i].label = label => clock - rows.quotas[i].fresh > Silence
    PROVE  <<"silent", label>> \in Evaluated(loop).persisted
<1> DEFINE m == Loaded(loop)
<1>1. /\ rows \in Rows /\ MemoryOf(m, rows) /\ Remembers(m, rows) /\ UpToDate(m, rows)
  BY LoadedMemory, LoadedRemembers, LoadedUpToDate DEF MemoryKept
<1>2. /\ \A l \in Known(m) : KeysOf(m, l) \subseteq Evaluated(loop).raised
      /\ Evaluated(loop).persisted = Evaluated(loop).raised
  BY RaisedFacts
<1> HIDE DEF m
<1>3. label \in Known(m)
  BY <1>1, KnownIsSeen
<1>4. FreshRecords(m, label) = {}
  <2> SUFFICES ASSUME NEW b \in FreshRecords(m, label)
               PROVE  FALSE
    OBVIOUS
  <2>1. b \in DOMAIN m.records /\ m.records[b].label = label /\ clock - m.records[b].fresh <= Silence
    BY DEF FreshRecords
  <2>2. m.records[b] \in ToSet(rows.quotas)
    BY <1>1, <2>1 DEF Remembers, UpToDate, ToSet
  <2>3. PICK i \in DOMAIN rows.quotas : rows.quotas[i] = m.records[b]
    BY <2>2 DEF ToSet
  <2>4. clock - m.records[b].fresh > Silence
    BY <2>1, <2>3
  <2> QED
    <3> DEFINE f == m.records[b].fresh
    <3>1. f \in Nat
      BY <1>1, <2>1, RecordTypes DEF MemoryOf
    <3>2. clock - f > Silence /\ clock - f <= Silence
      BY <2>1, <2>4
    <3>3. clock \in Nat /\ Silence \in Nat
      BY RunwayAssumption DEF RestTyped
    <3> QED
      BY <3>1, <3>2, <3>3
<1>5. <<"silent", label>> \in KeysOf(m, label)
  BY <1>4 DEF KeysOf
<1> QED
  BY <1>2, <1>3, <1>5

\* What was known of silence stays known while rows, clock and life stay.
LEMMA SilentFrame ==
    ASSUME UNCHANGED <<rows, clock, life>>
    PROVE  SilentKnown' <=> (asked' /\ ~loop'.open =>
               \A label \in Seen :
                   (\A i \in DOMAIN rows.quotas :
                       rows.quotas[i].label = label => clock - rows.quotas[i].fresh > Silence)
                   => [life |-> life, key |-> <<"silent", label>>] \in BagToSet(alarms'))
<1>1. Seen' = Seen
  BY DEF Seen
<1>2. BagToSet(alarms)' = BagToSet(alarms')
  BY DEF BagToSet
<1> QED
  BY <1>1, <1>2 DEF SilentKnown

\* Each step keeps the alarms of the served accounts durable, or asks nothing.
LEMMA SilentStep ==
    MemoryKept /\ RestTyped /\ AlarmsKept /\ SilentKnown /\ [RunwayNext]_runwayVars => SilentKnown'
<1> SUFFICES ASSUME MemoryKept, RestTyped, AlarmsKept, SilentKnown, [RunwayNext]_runwayVars
             PROVE  SilentKnown'
  OBVIOUS
<1>1. CASE asked' = FALSE \/ loop'.open = TRUE
  BY <1>1 DEF SilentKnown
<1>2. CASE Get
  <2>1. /\ UNCHANGED <<rows, clock, life>> /\ loop' = Evaluated(loop) /\ ~loop.open
    BY <1>2 DEF Get
  <2>2. AlarmsKept'
    BY AlarmsStep
  <2>3. loop'.open = FALSE
    BY <2>1, RaisedFacts DEF MemoryKept, MemoryOf
  <2>4. \A k \in loop'.persisted : [life |-> life, key |-> k] \in DOMAIN alarms'
    BY <2>1, <2>2, <2>3 DEF AlarmsKept
  <2>5. ASSUME NEW label \in Seen,
               \A i \in DOMAIN rows.quotas :
                   rows.quotas[i].label = label => clock - rows.quotas[i].fresh > Silence
        PROVE  [life |-> life, key |-> <<"silent", label>>] \in BagToSet(alarms')
    <3>1. <<"silent", label>> \in loop'.persisted
      BY <2>1, <2>5, SilentRaised
    <3> QED
      BY <2>4, <3>1 DEF BagToSet
  <2> QED
    BY <2>1, <2>5, SilentFrame
<1>3. CASE UNCHANGED runwayVars
  <2>1. UNCHANGED <<rows, clock, life, loop, asked, alarms>>
    BY <1>3 DEF runwayVars
  <2> QED
    BY <2>1, SilentFrame DEF SilentKnown
<1>4. CASE Posting
  <2>1. asked' = FALSE
    BY <1>4, PostGrows DEF MemoryKept
  <2> QED
    BY <1>1, <2>1
<1>5. CASE GetFails
  <2>1. loop' = Opened(loop) /\ LoopFields(loop)
    BY <1>5 DEF GetFails, Opened, MemoryKept, MemoryOf
  <2>2. loop'.open = TRUE
    BY <2>1, OpenedFields
  <2> QED
    BY <1>1, <2>2
<1>6. CASE GetFrozen
  <2>1. loop'.open = TRUE
    BY <1>6 DEF GetFrozen, MemoryKept, MemoryOf
  <2> QED
    BY <1>1, <2>1
<1>7. CASE RestartController \/ Passes
  <2>1. asked' = FALSE
    BY <1>7 DEF RestartController, Passes
  <2> QED
    BY <1>1, <2>1
<1> QED
  BY <1>2, <1>3, <1>4, <1>5, <1>6, <1>7, RunwayCases

\* An alarm is persisted at most once in a life of the controller, and a silent
\* account is served only after its alarm is durable, whatever faults the store
\* has and however often GET is asked (_emit_once, _persist_new_events,
\* CircuitBreaker).
THEOREM AlarmsPersistOnce == RunwaySpec => []AlarmsOnce
<1>1. RunwayInit => SilentKnown
  BY DEF RunwayInit, SilentKnown
<1>2. AlarmsKept /\ SilentKnown => AlarmsOnce
  BY DEF AlarmsKept, SilentKnown, AlarmsOnce, BagToSet
<1>3. MemoryKept /\ RestTyped /\ AlarmsKept /\ SilentKnown /\ [RunwayNext]_runwayVars
        => (MemoryKept /\ RestTyped /\ AlarmsKept /\ SilentKnown)'
  BY MemoryStep, RestTypedStep, AlarmsStep, SilentStep
<1> QED
  BY <1>1, <1>2, <1>3, MemoryInit, RestTypedInit, AlarmsInit, PTL DEF RunwaySpec

-----------------------------------------------------------------------------
(* The parts together *)

Parts == {"selection", "runway", "agent", "operator", "trust", "routes"}

\* The composition starts every part.
LEMMA EdgeStarts ==
    EdgeInit => /\ SelectionInit /\ RunwayInit /\ AgentInit /\ OperatorInit /\ TrustInit /\ RoutesInit
                /\ part \in Parts
BY DEF EdgeInit, Parts

\* A step of one part leaves the state of every other part alone.
LEMMA EdgeMoves ==
    [EdgeNext]_edgeVars =>
        /\ [SelectionNext]_ompVars /\ [RunwayNext]_runwayVars /\ [AgentNext]_agentVars
        /\ [OperatorNext]_operatorVars /\ [TrustNext]_trustVars /\ [RoutesNext]_routeVars
        /\ UNCHANGED part
BY DEF EdgeNext, edgeVars

\* The composition that is checked is one of every part: what is proved of a
\* part by itself is true of it there.
THEOREM EdgeIsEveryPart ==
    EdgeSpec => /\ SelectionSpec /\ RunwaySpec /\ AgentSpec
                /\ OperatorSpec /\ TrustSpec /\ RoutesSpec
BY EdgeStarts, EdgeMoves, PTL
   DEF EdgeSpec, SelectionSpec, RunwaySpec, AgentSpec, OperatorSpec, TrustSpec, RoutesSpec

\* The type invariants of all the parts at once.
THEOREM EdgeTypes == EdgeSpec => []EdgeTypeOK
<1>1. part \in Parts /\ UNCHANGED part => (part \in Parts)'
  OBVIOUS
<1>2. EdgeSpec => [](part \in Parts)
  BY <1>1, EdgeStarts, EdgeMoves, PTL DEF EdgeSpec
<1>3. part \in Parts /\ SelectionTypeOK /\ RunwayTypeOK /\ AgentTypeOK /\ OperatorTypeOK
        /\ TrustTypeOK /\ RoutesTypeOK => EdgeTypeOK
  <2>1. ASSUME part \in Parts
        PROVE  \/ part = "selection" \/ part = "runway" \/ part = "agent"
               \/ part = "operator" \/ part = "trust" \/ part = "routes"
    BY <2>1 DEF Parts
  <2> SUFFICES ASSUME part \in Parts, SelectionTypeOK, RunwayTypeOK, AgentTypeOK,
                      OperatorTypeOK, TrustTypeOK, RoutesTypeOK
               PROVE  EdgeTypeOK
    OBVIOUS
  <2>2. CASE part = "selection"
    BY <2>2 DEF EdgeTypeOK
  <2>3. CASE part = "runway"
    BY <2>3 DEF EdgeTypeOK
  <2>4. CASE part = "agent"
    BY <2>4 DEF EdgeTypeOK
  <2>5. CASE part = "operator"
    BY <2>5 DEF EdgeTypeOK
  <2>6. CASE part = "trust"
    BY <2>6 DEF EdgeTypeOK
  <2>7. CASE part = "routes"
    BY <2>7 DEF EdgeTypeOK
  <2> QED
    BY <2>1, <2>2, <2>3, <2>4, <2>5, <2>6, <2>7
<1> QED
  BY <1>2, <1>3, EdgeIsEveryPart, SelectionTypes, RunwayTypes, AgentTypes, OperatorTypes, TrustTypes,
     RoutesTypes, PTL
=============================================================================
