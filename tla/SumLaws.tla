------------------------------ MODULE SumLaws ------------------------------
(***************************************************************************)
(* Laws of SumFunctionOnSet (module Functions) over finite sets.           *)
(*                                                                         *)
(* The induction theorems of the library take an operator; here induction  *)
(* is over a set of the subsets for which a law holds (SetInduction).      *)
(***************************************************************************)
EXTENDS Integers, Functions, FiniteSetTheorems, WellFoundedInduction, TLAPS

LEMMA LeastOf ==
    ASSUME NEW T \in SUBSET Nat, T # {}
    PROVE  \E m \in T : \A n \in T : m <= n
<1>1. PICK m \in T : \A n \in T : ~(<<n, m>> \in OpToRel(<, Nat))
  BY NatLessThanWellFounded, WFMin
<1>2. \A n \in T : ~(n < m)
  BY <1>1 DEF OpToRel
<1> QED
  BY <1>2

LEMMA NumberInduction ==
    ASSUME NEW G \in SUBSET Nat, 0 \in G, \A n \in G : n + 1 \in G
    PROVE  G = Nat
<1> DEFINE T == Nat \ G
<1> SUFFICES ASSUME T # {} PROVE FALSE
  OBVIOUS
<1>1. T \in SUBSET Nat
  OBVIOUS
<1> HIDE DEF T
<1>2. PICK m \in T : \A n \in T : m <= n
  BY <1>1, LeastOf
<1> USE DEF T
<1>3. m # 0 /\ m - 1 \in Nat
  BY <1>2
<1>4. m - 1 \in G
  BY <1>2, <1>3
<1> QED
  BY <1>2, <1>3, <1>4

LEMMA OneLess ==
    ASSUME NEW U, IsFiniteSet(U), NEW n \in Nat, Cardinality(U) = n + 1, NEW x \in U
    PROVE  IsFiniteSet(U \ {x}) /\ Cardinality(U \ {x}) = n
BY FS_RemoveElement

\* Induction over finite sets: G holds the subsets for which the claim is true.
LEMMA SetInduction ==
    ASSUME NEW S, IsFiniteSet(S), NEW G, {} \in G,
           \A U \in SUBSET S : U \in G => \A x \in S \ U : U \cup {x} \in G
    PROVE  S \in G
<1> DEFINE H == {n \in Nat : \A U \in SUBSET S : Cardinality(U) = n => U \in G}
<1>1. 0 \in H
  <2> SUFFICES ASSUME NEW U \in SUBSET S, Cardinality(U) = 0 PROVE U \in G
    OBVIOUS
  <2> QED
    BY FS_Subset, FS_EmptySet
<1>2. \A n \in H : n + 1 \in H
  <2> SUFFICES ASSUME NEW n \in H, NEW U \in SUBSET S, Cardinality(U) = n + 1 PROVE U \in G
    OBVIOUS
  <2>1. IsFiniteSet(U) /\ U # {}
    BY FS_Subset, FS_EmptySet
  <2>2. PICK x \in U : TRUE
    BY <2>1
  <2>3. Cardinality(U \ {x}) = n
    BY <2>1, <2>2, OneLess
  <2>4. U \ {x} \in G
    BY <2>3
  <2>5. U = (U \ {x}) \cup {x} /\ x \in S \ (U \ {x})
    BY <2>2
  <2> QED
    BY <2>4, <2>5, Zenon
<1>3. H = Nat
  <2> HIDE DEF H
  <2>1. H \in SUBSET Nat
    BY DEF H
  <2> QED
    BY <1>1, <1>2, <2>1, NumberInduction
<1>4. Cardinality(S) \in Nat
  BY FS_CardinalityType
<1> QED
  BY <1>3, <1>4

----------------------------------------------------------------------------
\* The recursive function behind the sum

Chosen(U) == CHOOSE x \in U : TRUE
SumStep(s, f, U) == IF U = {} THEN 0 ELSE f[Chosen(U)] + s[U \ {Chosen(U)}]
IsSum(s, f, S) == s = [U \in SUBSET S |-> SumStep(s, f, U)]

LEMMA ChosenMember == ASSUME NEW U, U # {} PROVE Chosen(U) \in U
BY DEF Chosen

LEMMA SumDefinition ==
    ASSUME NEW f, NEW S
    PROVE  SumFunctionOnSet(f, S) = (CHOOSE s : IsSum(s, f, S))[S]
BY DEF SumFunctionOnSet, FoldFunctionOnSet, MapThenFoldSet, IsSum, SumStep, Chosen

\* It exists: it is built by the size of the subsets.
LEMMA SumExists ==
    ASSUME NEW f, NEW S, IsFiniteSet(S)
    PROVE  \E s : IsSum(s, f, S)
<1> DEFINE Upto(s, n) == \A U \in SUBSET S : Cardinality(U) <= n => s[U] = SumStep(s, f, U)
           G == {n \in Nat : \E s : Upto(s, n)}
<1>1. \A U \in SUBSET S : IsFiniteSet(U) /\ Cardinality(U) \in Nat /\ (Cardinality(U) = 0 <=> U = {})
  BY FS_Subset, FS_EmptySet, FS_CardinalityType
<1>2. 0 \in G
  <2>1. Upto([U \in SUBSET S |-> 0], 0)
    BY <1>1 DEF SumStep
  <2> QED
    BY <2>1
<1>3. \A n \in G : n + 1 \in G
  <2> SUFFICES ASSUME NEW n \in Nat, NEW s, Upto(s, n) PROVE \E t : Upto(t, n + 1)
    OBVIOUS
  <2> DEFINE t == [U \in SUBSET S |-> IF Cardinality(U) <= n THEN s[U] ELSE SumStep(s, f, U)]
  <2> SUFFICES ASSUME NEW U \in SUBSET S, Cardinality(U) <= n + 1 PROVE t[U] = SumStep(t, f, U)
    BY Zenon
  <2>1. t[U] = SumStep(s, f, U)
    OBVIOUS
  <2>2. CASE U = {}
    BY <2>1, <2>2 DEF SumStep
  <2>3. CASE U # {}
    <3> DEFINE V == U \ {Chosen(U)}
    <3>1. V \in SUBSET S /\ Cardinality(V) = Cardinality(U) - 1
      BY <1>1, <2>3, ChosenMember, FS_RemoveElement
    <3>2. Cardinality(V) <= n
      BY <1>1, <3>1
    <3>3. t[V] = s[V]
      BY <3>1, <3>2
    <3> HIDE DEF t, V
    <3>4. SumStep(s, f, U) = f[Chosen(U)] + s[V] /\ SumStep(t, f, U) = f[Chosen(U)] + t[V]
      BY <2>3 DEF SumStep, V
    <3> QED
      BY <2>1, <3>3, <3>4
  <2> QED
    BY <2>2, <2>3
<1>4. G = Nat
  <2> HIDE DEF G
  <2>1. G \in SUBSET Nat
    BY DEF G
  <2> QED
    BY <1>2, <1>3, <2>1, NumberInduction
<1>5. Cardinality(S) \in Nat
  BY <1>1
<1>6. PICK s : Upto(s, Cardinality(S))
  BY <1>4, <1>5
<1>7. \A U \in SUBSET S : s[U] = SumStep(s, f, U)
  BY <1>6, FS_Subset
<1> DEFINE t == [U \in SUBSET S |-> s[U]]
<1>8. ASSUME NEW U \in SUBSET S PROVE t[U] = SumStep(t, f, U)
  <2>1. CASE U = {}
    BY <1>7, <2>1 DEF SumStep
  <2>2. CASE U # {}
    <3>1. U \ {Chosen(U)} \in SUBSET S
      OBVIOUS
    <3> QED
      BY <1>7, <2>2, <3>1 DEF SumStep
  <2> QED
    BY <2>1, <2>2
<1>9. IsSum(t, f, S)
  <2>1. t = [U \in SUBSET S |-> t[U]]
    OBVIOUS
  <2> HIDE DEF t
  <2> QED
    BY <1>8, <2>1 DEF IsSum
<1> QED
  BY <1>9

\* Two of them agree where both are defined.
LEMMA SumUnique ==
    ASSUME NEW f, NEW S, IsFiniteSet(S), NEW T, NEW s, NEW t, IsSum(s, f, S), IsSum(t, f, T),
           NEW V \in (SUBSET S) \cap (SUBSET T)
    PROVE  s[V] = t[V]
<1> DEFINE G == {n \in Nat : \A U \in (SUBSET S) \cap (SUBSET T) : Cardinality(U) = n => s[U] = t[U]}
<1>1. \A U \in SUBSET S : s[U] = SumStep(s, f, U)
  BY DEF IsSum
<1>2. \A U \in SUBSET T : t[U] = SumStep(t, f, U)
  BY DEF IsSum
<1>3. \A U \in SUBSET S : IsFiniteSet(U) /\ Cardinality(U) \in Nat /\ (Cardinality(U) = 0 <=> U = {})
  BY FS_Subset, FS_EmptySet, FS_CardinalityType
<1>4. 0 \in G
  BY <1>1, <1>2, <1>3 DEF SumStep
<1>5. \A n \in G : n + 1 \in G
  <2> SUFFICES ASSUME NEW n \in G, NEW U \in (SUBSET S) \cap (SUBSET T), Cardinality(U) = n + 1
               PROVE  s[U] = t[U]
    OBVIOUS
  <2> DEFINE W == U \ {Chosen(U)}
  <2>1. U # {}
    BY <1>3
  <2>2. Cardinality(W) = n /\ W \in (SUBSET S) \cap (SUBSET T)
    BY <1>3, <2>1, ChosenMember, FS_RemoveElement
  <2>3. s[W] = t[W]
    BY <2>2
  <2>4. s[U] = f[Chosen(U)] + s[W] /\ t[U] = f[Chosen(U)] + t[W]
    BY <1>1, <1>2, <2>1 DEF SumStep
  <2> QED
    BY <2>3, <2>4
<1>6. G = Nat
  <2> HIDE DEF G
  <2>1. G \in SUBSET Nat
    BY DEF G
  <2> QED
    BY <1>4, <1>5, <2>1, NumberInduction
<1>7. V \in SUBSET S /\ Cardinality(V) \in Nat
  BY <1>3
<1> QED
  BY <1>6, <1>7

\* The equations of the sum
LEMMA SumEquations ==
    ASSUME NEW f, NEW S, IsFiniteSet(S)
    PROVE  /\ SumFunctionOnSet(f, {}) = 0
           /\ S # {} => SumFunctionOnSet(f, S) = f[Chosen(S)] + SumFunctionOnSet(f, S \ {Chosen(S)})
<1>1. ASSUME NEW T, IsFiniteSet(T)
      PROVE  IsSum(CHOOSE s : IsSum(s, f, T), f, T)
  BY <1>1, SumExists
<1>2. SumFunctionOnSet(f, {}) = 0
  <2> DEFINE s == CHOOSE s : IsSum(s, f, {})
  <2>1. IsSum(s, f, {})
    BY <1>1, FS_EmptySet
  <2>2. s[{}] = 0
    <3> HIDE DEF s
    <3> QED
      BY <2>1 DEF IsSum, SumStep
  <2> QED
    BY <2>2, SumDefinition
<1>3. ASSUME S # {}
      PROVE  SumFunctionOnSet(f, S) = f[Chosen(S)] + SumFunctionOnSet(f, S \ {Chosen(S)})
  <2> DEFINE R == S \ {Chosen(S)}
             s == CHOOSE s : IsSum(s, f, S)
             t == CHOOSE t : IsSum(t, f, R)
  <2>1. IsFiniteSet(R) /\ R \in (SUBSET S) \cap (SUBSET R)
    BY FS_RemoveElement
  <2>2. IsSum(s, f, S) /\ IsSum(t, f, R)
    BY <1>1, <2>1
  <2>3. SumFunctionOnSet(f, S) = s[S] /\ SumFunctionOnSet(f, R) = t[R]
    BY SumDefinition, Zenon
  <2> HIDE DEF s, t
  <2>4. s[R] = t[R]
    <3> HIDE DEF R
    <3> QED
      BY <2>1, <2>2, SumUnique
  <2>5. s[S] = f[Chosen(S)] + s[R]
    BY <1>3, <2>2 DEF IsSum, SumStep
  <2> QED
    BY <2>3, <2>4, <2>5
<1> QED
  BY <1>2, <1>3
----------------------------------------------------------------------------
\* The laws of the sum

LEMMA SumEmpty == ASSUME NEW f PROVE SumFunctionOnSet(f, {}) = 0
BY SumEquations, FS_EmptySet

LEMMA SumType ==
    ASSUME NEW S, IsFiniteSet(S), NEW f, \A x \in S : f[x] \in Int
    PROVE  SumFunctionOnSet(f, S) \in Int
<1> DEFINE G == {n \in Nat : \A U \in SUBSET S : Cardinality(U) = n => SumFunctionOnSet(f, U) \in Int}
<1>1. \A U \in SUBSET S : IsFiniteSet(U) /\ Cardinality(U) \in Nat /\ (Cardinality(U) = 0 <=> U = {})
  BY FS_Subset, FS_EmptySet, FS_CardinalityType
<1>2. 0 \in G
  BY <1>1, SumEmpty
<1>3. \A n \in G : n + 1 \in G
  <2> SUFFICES ASSUME NEW n \in Nat, NEW U \in SUBSET S, Cardinality(U) = n + 1,
                      \A V \in SUBSET S : Cardinality(V) = n => SumFunctionOnSet(f, V) \in Int
               PROVE  SumFunctionOnSet(f, U) \in Int
    OBVIOUS
  <2> DEFINE W == U \ {Chosen(U)}
  <2>1. U # {}
    BY <1>1
  <2>2. Chosen(U) \in U /\ Cardinality(W) = n /\ W \in SUBSET S
    <3>1. Chosen(U) \in U
      BY <2>1, ChosenMember
    <3> QED
      BY <1>1, <3>1, OneLess
  <2>3. SumFunctionOnSet(f, W) \in Int /\ f[Chosen(U)] \in Int
    BY <2>2
  <2>4. SumFunctionOnSet(f, U) = f[Chosen(U)] + SumFunctionOnSet(f, W)
    BY <1>1, <2>1, SumEquations
  <2> QED
    BY <2>3, <2>4
<1>4. G = Nat
  <2> HIDE DEF G
  <2>1. G \in SUBSET Nat
    BY DEF G
  <2> QED
    BY <1>2, <1>3, <2>1, NumberInduction
<1>5. Cardinality(S) \in Nat
  BY <1>1
<1> QED
  BY <1>4, <1>5

\* Any element may be taken out first.
LEMMA SumRemove ==
    ASSUME NEW S, IsFiniteSet(S), NEW f, \A y \in S : f[y] \in Int, NEW x \in S
    PROVE  SumFunctionOnSet(f, S) = f[x] + SumFunctionOnSet(f, S \ {x})
<1> DEFINE Out(U) == \A y \in U : SumFunctionOnSet(f, U) = f[y] + SumFunctionOnSet(f, U \ {y})
           Claim(n) == \A U \in SUBSET S : Cardinality(U) = n => Out(U)
           G == {n \in Nat : Claim(n)}
<1>1. \A U \in SUBSET S : IsFiniteSet(U) /\ Cardinality(U) \in Nat /\ (Cardinality(U) = 0 <=> U = {})
  BY FS_Subset, FS_EmptySet, FS_CardinalityType
<1>2. 0 \in G
  <2>1. Claim(0)
    BY <1>1
  <2> QED
    BY <2>1
<1>3. \A n \in G : n + 1 \in G
  <2> SUFFICES ASSUME NEW n \in Nat, Claim(n) PROVE Claim(n + 1)
    <3> HIDE DEF Claim
    <3> QED
      OBVIOUS
  <2> SUFFICES ASSUME NEW U \in SUBSET S, Cardinality(U) = n + 1, NEW y \in U
               PROVE  SumFunctionOnSet(f, U) = f[y] + SumFunctionOnSet(f, U \ {y})
    OBVIOUS
  <2> DEFINE z == Chosen(U)
             W == (U \ {z}) \ {y}
  <2>1. z \in U /\ SumFunctionOnSet(f, U) = f[z] + SumFunctionOnSet(f, U \ {z})
    BY <1>1, ChosenMember, SumEquations
  <2> HIDE DEF z
  <2>2. CASE y = z
    BY <2>1, <2>2
  <2>3. CASE y # z
    <3>1. Cardinality(U \ {z}) = n /\ Cardinality(U \ {y}) = n
      BY <1>1, <2>1, OneLess
    <3>2. SumFunctionOnSet(f, U \ {z}) = f[y] + SumFunctionOnSet(f, W)
      <4>1. Out(U \ {z}) /\ y \in U \ {z}
        BY <2>3, <3>1
      <4> QED
        BY <4>1
    <3>3. SumFunctionOnSet(f, U \ {y}) = f[z] + SumFunctionOnSet(f, W)
      <4>1. Out(U \ {y}) /\ z \in U \ {y}
        BY <2>1, <2>3, <3>1
      <4>2. (U \ {y}) \ {z} = W
        OBVIOUS
      <4> HIDE DEF W
      <4> QED
        BY <4>1, <4>2
    <3>4. SumFunctionOnSet(f, W) \in Int
      <4>1. W \in SUBSET S /\ IsFiniteSet(W)
        BY <1>1
      <4> HIDE DEF W
      <4> QED
        BY <4>1, SumType
    <3> HIDE DEF W
    <3>5. f[y] \in Int /\ f[z] \in Int
      BY <2>1
    <3>6. f[z] + (f[y] + SumFunctionOnSet(f, W)) = f[y] + (f[z] + SumFunctionOnSet(f, W))
      BY <3>4, <3>5
    <3> QED
      BY <2>1, <3>2, <3>3, <3>6
  <2> QED
    BY <2>2, <2>3
<1>4. G = Nat
  <2> HIDE DEF G
  <2>1. G \in SUBSET Nat
    BY DEF G
  <2> QED
    BY <1>2, <1>3, <2>1, NumberInduction
<1>5. Cardinality(S) \in Nat
  BY <1>1
<1> QED
  BY <1>4, <1>5

LEMMA SumAdd ==
    ASSUME NEW S, IsFiniteSet(S), NEW x, x \notin S, NEW f, \A y \in S \cup {x} : f[y] \in Int
    PROVE  /\ SumFunctionOnSet(f, S) \in Int
           /\ SumFunctionOnSet(f, S \cup {x}) = f[x] + SumFunctionOnSet(f, S)
<1>1. (S \cup {x}) \ {x} = S /\ IsFiniteSet(S \cup {x})
  BY FS_AddElement
<1>2. SumFunctionOnSet(f, S \cup {x}) = f[x] + SumFunctionOnSet(f, (S \cup {x}) \ {x})
  BY <1>1, SumRemove
<1> QED
  BY <1>1, <1>2, SumType

\* Sums are monotone ...
LEMMA SumMonotone ==
    ASSUME NEW S, IsFiniteSet(S), NEW f, NEW g,
           \A x \in S : f[x] \in Int /\ g[x] \in Int /\ f[x] <= g[x]
    PROVE  SumFunctionOnSet(f, S) <= SumFunctionOnSet(g, S)
<1> DEFINE G == {U \in SUBSET S : SumFunctionOnSet(f, U) <= SumFunctionOnSet(g, U)}
<1>1. {} \in G
  <2>1. SumFunctionOnSet(f, {}) = 0 /\ SumFunctionOnSet(g, {}) = 0
    BY SumEmpty
  <2> QED
    BY <2>1
<1>2. ASSUME NEW U \in SUBSET S, U \in G, NEW x \in S \ U
      PROVE  U \cup {x} \in G
  <2>1. IsFiniteSet(U) /\ SumFunctionOnSet(f, U) <= SumFunctionOnSet(g, U)
    BY <1>2, FS_Subset
  <2> HIDE DEF G
  <2>2. SumFunctionOnSet(f, U) \in Int /\ SumFunctionOnSet(f, U \cup {x}) = f[x] + SumFunctionOnSet(f, U)
    BY <2>1, SumAdd
  <2>3. SumFunctionOnSet(g, U) \in Int /\ SumFunctionOnSet(g, U \cup {x}) = g[x] + SumFunctionOnSet(g, U)
    BY <2>1, SumAdd
  <2>4. f[x] \in Int /\ g[x] \in Int /\ f[x] <= g[x]
    OBVIOUS
  <2>5. SumFunctionOnSet(f, U \cup {x}) <= SumFunctionOnSet(g, U \cup {x})
    BY <2>1, <2>2, <2>3, <2>4
  <2> QED
    BY <2>5 DEF G
<1> HIDE DEF G
<1>3. S \in G
  BY <1>1, <1>2, SetInduction
<1> QED
  BY <1>3 DEF G

\* ... depend on the values at their indices only ...
LEMMA SumSame ==
    ASSUME NEW S, IsFiniteSet(S), NEW f, NEW g, \A x \in S : f[x] \in Int /\ f[x] = g[x]
    PROVE  SumFunctionOnSet(f, S) = SumFunctionOnSet(g, S)
<1>1. SumFunctionOnSet(f, S) <= SumFunctionOnSet(g, S)
  BY SumMonotone
<1>2. SumFunctionOnSet(g, S) <= SumFunctionOnSet(f, S)
  BY SumMonotone
<1>3. SumFunctionOnSet(f, S) \in Int /\ SumFunctionOnSet(g, S) \in Int
  BY SumType
<1> QED
  BY <1>1, <1>2, <1>3

\* ... and are additive.
LEMMA SumPlus ==
    ASSUME NEW S, IsFiniteSet(S), NEW f, NEW g, NEW h,
           \A x \in S : f[x] \in Int /\ g[x] \in Int /\ h[x] = f[x] + g[x]
    PROVE  SumFunctionOnSet(h, S) = SumFunctionOnSet(f, S) + SumFunctionOnSet(g, S)
<1> DEFINE G == {U \in SUBSET S : SumFunctionOnSet(h, U) = SumFunctionOnSet(f, U) + SumFunctionOnSet(g, U)}
<1>1. {} \in G
  <2>1. /\ SumFunctionOnSet(f, {}) = 0 /\ SumFunctionOnSet(g, {}) = 0
        /\ SumFunctionOnSet(h, {}) = 0
    BY SumEmpty
  <2> QED
    BY <2>1
<1>2. ASSUME NEW U \in SUBSET S, U \in G, NEW x \in S \ U
      PROVE  U \cup {x} \in G
  <2>1. /\ IsFiniteSet(U)
        /\ SumFunctionOnSet(h, U) = SumFunctionOnSet(f, U) + SumFunctionOnSet(g, U)
    BY <1>2, FS_Subset
  <2> HIDE DEF G
  <2>2. SumFunctionOnSet(f, U) \in Int /\ SumFunctionOnSet(f, U \cup {x}) = f[x] + SumFunctionOnSet(f, U)
    BY <2>1, SumAdd
  <2>3. SumFunctionOnSet(g, U) \in Int /\ SumFunctionOnSet(g, U \cup {x}) = g[x] + SumFunctionOnSet(g, U)
    BY <2>1, SumAdd
  <2>4. SumFunctionOnSet(h, U \cup {x}) = h[x] + SumFunctionOnSet(h, U)
    <3>1. \A y \in U \cup {x} : h[y] \in Int
      OBVIOUS
    <3> QED
      BY <2>1, <3>1, SumAdd
  <2>5. f[x] \in Int /\ g[x] \in Int /\ h[x] = f[x] + g[x]
    OBVIOUS
  <2>6. SumFunctionOnSet(h, U \cup {x}) = SumFunctionOnSet(f, U \cup {x}) + SumFunctionOnSet(g, U \cup {x})
    BY <2>1, <2>2, <2>3, <2>4, <2>5
  <2> QED
    BY <2>6 DEF G
<1> HIDE DEF G
<1>3. S \in G
  BY <1>1, <1>2, SetInduction
<1> QED
  BY <1>3 DEF G

\* A sum of equal terms
LEMMA SumConstant ==
    ASSUME NEW S, IsFiniteSet(S), NEW k \in Int, NEW f, \A x \in S : f[x] = k
    PROVE  SumFunctionOnSet(f, S) = Cardinality(S) * k
<1> DEFINE G == {U \in SUBSET S : SumFunctionOnSet(f, U) = Cardinality(U) * k}
<1>1. {} \in G
  <2>1. SumFunctionOnSet(f, {}) = 0 /\ Cardinality({}) = 0 /\ 0 * k = 0
    BY SumEmpty, FS_EmptySet
  <2> QED
    BY <2>1
<1>2. ASSUME NEW U \in SUBSET S, U \in G, NEW x \in S \ U
      PROVE  U \cup {x} \in G
  <2>1. IsFiniteSet(U) /\ SumFunctionOnSet(f, U) = Cardinality(U) * k
    BY <1>2, FS_Subset
  <2> HIDE DEF G
  <2>2. f[x] = k /\ \A y \in U \cup {x} : f[y] \in Int
    OBVIOUS
  <2>3. SumFunctionOnSet(f, U \cup {x}) = k + SumFunctionOnSet(f, U)
    BY <2>1, <2>2, SumAdd
  <2>4. Cardinality(U) \in Nat /\ Cardinality(U \cup {x}) = Cardinality(U) + 1
    BY <2>1, FS_AddElement, FS_CardinalityType
  <2>5. k + Cardinality(U) * k = (Cardinality(U) + 1) * k
    BY <2>4
  <2>6. SumFunctionOnSet(f, U \cup {x}) = Cardinality(U \cup {x}) * k
    BY <2>1, <2>3, <2>4, <2>5
  <2> QED
    BY <2>6 DEF G
<1> HIDE DEF G
<1>3. S \in G
  BY <1>1, <1>2, SetInduction
<1> QED
  BY <1>3 DEF G

\* A sum of natural numbers is one.
LEMMA SumNat ==
    ASSUME NEW S, IsFiniteSet(S), NEW f, \A x \in S : f[x] \in Nat
    PROVE  SumFunctionOnSet(f, S) \in Nat
<1> DEFINE zero == [x \in S |-> 0]
<1>1. \A x \in S : zero[x] = 0
  OBVIOUS
<1> HIDE DEF zero
<1>2. SumFunctionOnSet(zero, S) = Cardinality(S) * 0
  BY <1>1, SumConstant
<1>3. SumFunctionOnSet(zero, S) <= SumFunctionOnSet(f, S)
  BY <1>1, SumMonotone
<1>4. Cardinality(S) * 0 = 0
  BY FS_CardinalityType
<1>5. SumFunctionOnSet(f, S) \in Int
  BY SumType
<1> QED
  BY <1>2, <1>3, <1>4, <1>5

\* One term changes by n.
LEMMA SumChange ==
    ASSUME NEW S, IsFiniteSet(S), NEW f, NEW g, NEW x \in S, NEW n \in Int,
           \A y \in S : f[y] \in Int, g[x] = f[x] + n,
           \A y \in S \ {x} : g[y] = f[y]
    PROVE  SumFunctionOnSet(g, S) = SumFunctionOnSet(f, S) + n
<1>1. IsFiniteSet(S \ {x})
  BY FS_RemoveElement
<1>2. \A y \in S : g[y] \in Int
  OBVIOUS
<1>3. SumFunctionOnSet(g, S) = g[x] + SumFunctionOnSet(g, S \ {x})
  BY <1>2, SumRemove
<1>4. SumFunctionOnSet(f, S) = f[x] + SumFunctionOnSet(f, S \ {x})
  BY SumRemove
<1>5. SumFunctionOnSet(g, S \ {x}) = SumFunctionOnSet(f, S \ {x})
  BY <1>1, SumSame
<1>6. SumFunctionOnSet(f, S \ {x}) \in Int /\ f[x] \in Int
  BY <1>1, SumType
<1> QED
  BY <1>3, <1>4, <1>5, <1>6

\* The terms of two disjoint sets
LEMMA SumUnion ==
    ASSUME NEW S, IsFiniteSet(S), NEW T, IsFiniteSet(T), S \cap T = {},
           NEW f, \A x \in S \cup T : f[x] \in Int
    PROVE  SumFunctionOnSet(f, S \cup T) = SumFunctionOnSet(f, S) + SumFunctionOnSet(f, T)
<1> DEFINE G == {U \in SUBSET T :
                   SumFunctionOnSet(f, S \cup U) = SumFunctionOnSet(f, S) + SumFunctionOnSet(f, U)}
<1>0. SumFunctionOnSet(f, S) \in Int
  BY SumType
<1>1. {} \in G
  <2>1. S \cup {} = S /\ SumFunctionOnSet(f, {}) = 0
    BY SumEmpty
  <2> QED
    BY <1>0, <2>1
<1>2. ASSUME NEW U \in SUBSET T, U \in G, NEW x \in T \ U
      PROVE  U \cup {x} \in G
  <2>0. SumFunctionOnSet(f, S \cup U) = SumFunctionOnSet(f, S) + SumFunctionOnSet(f, U)
    BY <1>2
  <2>1. IsFiniteSet(U) /\ IsFiniteSet(S \cup U)
    BY FS_Subset, FS_Union
  <2> HIDE DEF G
  <2>2. SumFunctionOnSet(f, U) \in Int /\ SumFunctionOnSet(f, U \cup {x}) = f[x] + SumFunctionOnSet(f, U)
    BY <2>1, SumAdd
  <2>3. SumFunctionOnSet(f, (S \cup U) \cup {x}) = f[x] + SumFunctionOnSet(f, S \cup U)
    <3>1. x \notin S \cup U
      OBVIOUS
    <3>2. \A y \in (S \cup U) \cup {x} : f[y] \in Int
      OBVIOUS
    <3> QED
      BY <2>1, <3>1, <3>2, SumAdd
  <2>4. (S \cup U) \cup {x} = S \cup (U \cup {x}) /\ f[x] \in Int
    OBVIOUS
  <2>5. SumFunctionOnSet(f, S \cup (U \cup {x})) = SumFunctionOnSet(f, S) + SumFunctionOnSet(f, U \cup {x})
    <3>1. SumFunctionOnSet(f, S \cup (U \cup {x})) = f[x] + SumFunctionOnSet(f, S \cup U)
      BY <2>3, <2>4
    <3> QED
      BY <1>0, <2>0, <2>2, <2>4, <3>1
  <2> QED
    BY <2>5 DEF G
<1> HIDE DEF G
<1>3. T \in G
  BY <1>1, <1>2, SetInduction
<1> QED
  BY <1>3 DEF G

\* Terms that depend on the first index only
LEMMA SumRows ==
    ASSUME NEW S, IsFiniteSet(S), NEW T, IsFiniteSet(T), NEW f, NEW g,
           \A x \in S : f[x] \in Int,
           \A q \in S \X T : g[q] = f[q[1]]
    PROVE  SumFunctionOnSet(g, S \X T) = Cardinality(T) * SumFunctionOnSet(f, S)
<1> DEFINE k == Cardinality(T)
           G == {U \in SUBSET S : SumFunctionOnSet(g, U \X T) = k * SumFunctionOnSet(f, U)}
<1>0. k \in Nat
  BY FS_CardinalityType
<1>1. {} \in G
  <2>1. {} \X T = {} /\ SumFunctionOnSet(f, {}) = 0 /\ SumFunctionOnSet(g, {}) = 0
    BY SumEmpty
  <2>2. k * 0 = 0
    BY <1>0
  <2> HIDE DEF k
  <2> QED
    BY <2>1, <2>2
<1>2. ASSUME NEW U \in SUBSET S, U \in G, NEW x \in S \ U
      PROVE  U \cup {x} \in G
  <2>1. IsFiniteSet(U) /\ SumFunctionOnSet(g, U \X T) = k * SumFunctionOnSet(f, U)
    BY <1>2, FS_Subset
  <2> HIDE DEF G, k
  <2>2. /\ IsFiniteSet(U \X T)
        /\ IsFiniteSet({x} \X T) /\ Cardinality({x} \X T) = k
    <3>1. IsFiniteSet(U \X T)
      BY <2>1, FS_Product
    <3>2. IsFiniteSet({x}) /\ Cardinality({x}) = 1
      BY FS_Singleton
    <3>3. IsFiniteSet({x} \X T) /\ Cardinality({x} \X T) = 1 * Cardinality(T)
      BY <3>2, FS_Product
    <3> QED
      BY <1>0, <3>1, <3>3 DEF k
  <2>3. SumFunctionOnSet(g, {x} \X T) = k * f[x]
    <3>1. \A q \in {x} \X T : g[q] = f[x]
      OBVIOUS
    <3>2. f[x] \in Int
      OBVIOUS
    <3> QED
      BY <2>2, <3>1, <3>2, SumConstant
  <2>4. /\ SumFunctionOnSet(f, U) \in Int
        /\ SumFunctionOnSet(f, U \cup {x}) = f[x] + SumFunctionOnSet(f, U)
    BY <2>1, SumAdd
  <2>5. SumFunctionOnSet(g, (U \X T) \cup ({x} \X T))
            = SumFunctionOnSet(g, U \X T) + SumFunctionOnSet(g, {x} \X T)
    <3>1. (U \X T) \cap ({x} \X T) = {}
      OBVIOUS
    <3>2. \A q \in (U \X T) \cup ({x} \X T) : g[q] \in Int
      OBVIOUS
    <3> QED
      BY <2>2, <3>1, <3>2, SumUnion
  <2>6. (U \cup {x}) \X T = (U \X T) \cup ({x} \X T)
    OBVIOUS
  <2>7. f[x] \in Int
    OBVIOUS
  <2>8. k * SumFunctionOnSet(f, U) + k * f[x] = k * (f[x] + SumFunctionOnSet(f, U))
    BY <1>0, <2>4, <2>7
  <2>9. SumFunctionOnSet(g, (U \cup {x}) \X T) = k * SumFunctionOnSet(f, U \cup {x})
    BY <2>1, <2>3, <2>4, <2>5, <2>6, <2>8
  <2> QED
    BY <2>9 DEF G
<1> HIDE DEF G, k
<1>3. S \in G
  BY <1>1, <1>2, SetInduction
<1> QED
  BY <1>3 DEF G, k

\* The same terms at other indices
LEMMA SumReindex ==
    ASSUME NEW S, IsFiniteSet(S), NEW T, NEW b \in Bijection(S, T), NEW f, NEW g,
           \A x \in S : g[x] \in Int /\ f[b[x]] = g[x]
    PROVE  SumFunctionOnSet(f, T) = SumFunctionOnSet(g, S)
<1> DEFINE Image(U) == {b[x] : x \in U}
           G == {U \in SUBSET S :
                   IsFiniteSet(Image(U)) /\ SumFunctionOnSet(f, Image(U)) = SumFunctionOnSet(g, U)}
<1>0. /\ b \in [S -> T] /\ \A x, y \in S : b[x] = b[y] => x = y
      /\ \A t \in T : \E x \in S : b[x] = t
  BY DEF Bijection, Injection, Surjection, IsInjective
<1>1. {} \in G
  <2>1. Image({}) = {}
    OBVIOUS
  <2> HIDE DEF Image
  <2> QED
    BY <2>1, SumEmpty, FS_EmptySet
<1>2. ASSUME NEW U \in SUBSET S, U \in G, NEW x \in S \ U
      PROVE  U \cup {x} \in G
  <2>1. Image(U \cup {x}) = Image(U) \cup {b[x]} /\ b[x] \notin Image(U)
    BY <1>0
  <2>2. \A t \in Image(U) \cup {b[x]} : f[t] \in Int
    OBVIOUS
  <2>3. IsFiniteSet(Image(U)) /\ SumFunctionOnSet(f, Image(U)) = SumFunctionOnSet(g, U)
    BY <1>2
  <2> HIDE DEF Image
  <2>4. SumFunctionOnSet(f, Image(U) \cup {b[x]}) = f[b[x]] + SumFunctionOnSet(f, Image(U))
    BY <2>1, <2>2, <2>3, SumAdd
  <2>5. SumFunctionOnSet(g, U \cup {x}) = g[x] + SumFunctionOnSet(g, U)
    BY FS_Subset, SumAdd
  <2>6. IsFiniteSet(Image(U) \cup {b[x]})
    BY <2>3, FS_AddElement
  <2> QED
    BY <2>1, <2>3, <2>4, <2>5, <2>6
<1>3. Image(S) = T
  BY <1>0
<1> HIDE DEF G
<1>4. S \in G
  BY <1>1, <1>2, SetInduction
<1> QED
  BY <1>3, <1>4 DEF G
=============================================================================
