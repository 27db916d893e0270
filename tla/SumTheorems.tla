---------------------------- MODULE SumTheorems ----------------------------
(***************************************************************************)
(* Sums over finite sets, as FiniteSetsExt!MapThenSumSet computes them:    *)
(* the recursion is well defined, its value does not depend on the order   *)
(* in which elements are chosen, and sums of disjoint parts add up.        *)
(*                                                                         *)
(* The weights are a function, so that every fact is first-order.  The     *)
(* inductions are arguments by a minimal counterexample: a non-empty set   *)
(* of subsets of a finite set has a member none of whose proper subsets    *)
(* is in it (theorem WFMin).                                               *)
(***************************************************************************)
EXTENDS Integers, FiniteSetsExt, FiniteSetTheorems, TLAPS

SumOver(w, S) == MapThenSumSet(LAMBDA x : w[x], S)

\* The element MapThenSumSet takes from a set.
Pick(s) == CHOOSE x \in s : TRUE

\* Entry s of a table: zero, or what was taken plus the entry of the rest.
RightAt(g, w, s) ==
    g[s] = IF s = {} THEN 0 ELSE w[Pick(s)] + g[s \ {Pick(s)}]

\* g is the table MapThenSumSet fills for the subsets of S.
IsTable(g, w, S) ==
    g = [s \in SUBSET S |-> IF s = {} THEN 0 ELSE w[Pick(s)] + g[s \ {Pick(s)}]]

-----------------------------------------------------------------------------
\* A non-empty set of subsets of a finite set has a minimal member.
LEMMA MinimalSubset ==
    ASSUME NEW U, IsFiniteSet(U), NEW T, T \subseteq SUBSET U, T # {}
    PROVE  \E s \in T : \A t \in SUBSET s : t # s => t \notin T
<1> DEFINE R == StrictSubsetOrdering(U)
<1>1. FiniteSubsetsOf(U) = SUBSET U
    BY FS_FiniteSubsetsOfFinite
<1>2. IsWellFoundedOn(R, SUBSET U)
    BY <1>1, FS_StrictSubsetOrderingWellFounded
<1> HIDE DEF R
<1>3. PICK s \in T : \A t \in T : <<t, s>> \notin R
    BY <1>2, WFMin
<1>4. ASSUME NEW t \in SUBSET s, t # s, t \in T
      PROVE  FALSE
    <2>1. <<t, s>> \in R
        BY <1>4 DEF R, StrictSubsetOrdering
    <2>2. QED
        BY <1>3, <1>4, <2>1
<1>5. QED
    BY <1>3, <1>4

\* A non-empty set of natural numbers has a least member.
LEMMA LeastNumber ==
    ASSUME NEW T, T \subseteq Nat, T # {}
    PROVE  \E n \in T : \A m \in T : ~(m < n)
<1>1. PICK R : IsWellFoundedOn(R, Nat) /\ R = {ss \in Nat \X Nat : ss[1] < ss[2]}
    BY Zenon, NatLessThanWellFounded DEF OpToRel
<1>2. PICK n \in T : \A m \in T : <<m, n>> \notin R
    BY <1>1, WFMin
<1>3. ASSUME NEW m \in T, m < n PROVE FALSE
    <2>1. <<m, n>> \in Nat \X Nat
        OBVIOUS
    <2>2. <<m, n>> \in R
        BY <1>1, <1>3, <2>1
    <2>3. QED
        BY <1>2, <2>2
<1>4. QED
    BY <1>2, <1>3

\* The element taken from a non-empty set is one of its elements.
LEMMA PickIn == ASSUME NEW s, s # {} PROVE Pick(s) \in s
BY Zenon DEF Pick

\* Every entry of a table is right.
LEMMA TableAt ==
    ASSUME NEW w, NEW S, NEW g, IsTable(g, w, S)
    PROVE  \A s \in SUBSET S : RightAt(g, w, s)
<1>1. g = [t \in SUBSET S |-> IF t = {} THEN 0 ELSE w[Pick(t)] + g[t \ {Pick(t)}]]
    BY DEF IsTable
<1>2. QED
    BY <1>1 DEF RightAt

\* Tables of a set and of a subset agree on it, if their weights do.
LEMMA TablesAgree ==
    ASSUME NEW U, NEW V, NEW g, NEW h, NEW w, NEW v,
           IsTable(g, w, U), IsTable(h, v, V),
           NEW S, IsFiniteSet(S), S \subseteq U, S \subseteq V,
           \A x \in S : w[x] = v[x]
    PROVE  g[S] = h[S]
<1> DEFINE T == {s \in SUBSET S : g[s] # h[s]}
<1>1. SUFFICES ASSUME T # {} PROVE FALSE
    OBVIOUS
<1>0. T \subseteq SUBSET S
    OBVIOUS
<1> HIDE DEF T
<1>2. PICK s \in T : \A t \in SUBSET s : t # s => t \notin T
    BY <1>0, <1>1, MinimalSubset
<1>a. s \in SUBSET S /\ g[s] # h[s]
    BY DEF T
<1>3. /\ g[s] = IF s = {} THEN 0 ELSE w[Pick(s)] + g[s \ {Pick(s)}]
      /\ h[s] = IF s = {} THEN 0 ELSE v[Pick(s)] + h[s \ {Pick(s)}]
    <2>1. s \in SUBSET U /\ s \in SUBSET V
        BY <1>a
    <2>2. RightAt(g, w, s) /\ RightAt(h, v, s)
        BY Zenon, <2>1, TableAt
    <2>3. QED
        BY <2>2 DEF RightAt
<1>4. s # {}
    BY <1>3, <1>a
<1>5. Pick(s) \in s
    BY <1>4, PickIn
<1>6. g[s \ {Pick(s)}] = h[s \ {Pick(s)}]
    BY <1>2, <1>5, <1>a DEF T
<1>7. w[Pick(s)] = v[Pick(s)]
    BY <1>5, <1>a
<1>8. QED
    BY <1>3, <1>4, <1>6, <1>7, <1>a

\* Every finite set has a table: filled for ever larger subsets.
LEMMA TableExists ==
    ASSUME NEW S, IsFiniteSet(S), NEW w
    PROVE  \E g : IsTable(g, w, S)
<1> DEFINE Filled(n) ==
               \E g : /\ g = [s \in SUBSET S |-> g[s]]
                      /\ \A s \in SUBSET S : Cardinality(s) <= n => RightAt(g, w, s)
           T == {n \in Nat : ~Filled(n)}
<1>1. \A s \in SUBSET S : IsFiniteSet(s) /\ Cardinality(s) \in Nat
    BY FS_Subset, FS_CardinalityType
<1> USE DEF RightAt
<1>2. \A s \in SUBSET S : s # {} =>
          /\ Pick(s) \in s /\ s \ {Pick(s)} \in SUBSET S
          /\ Cardinality(s \ {Pick(s)}) = Cardinality(s) - 1
    BY <1>1, PickIn, FS_RemoveElement
<1>3. Filled(0)
    <2> DEFINE g == [s \in SUBSET S |-> 0]
    <2>1. ASSUME NEW s \in SUBSET S, Cardinality(s) <= 0 PROVE RightAt(g, w, s)
        <3>1. s = {}
            BY <1>1, <2>1, FS_EmptySet
        <3>2. QED
            BY <3>1
    <2>2. QED
        BY <2>1
<1>4. ASSUME NEW n \in Nat, Filled(n) PROVE Filled(n + 1)
    <2>1. PICK g : /\ g = [s \in SUBSET S |-> g[s]]
                   /\ \A s \in SUBSET S : Cardinality(s) <= n => RightAt(g, w, s)
        BY <1>4
    <2> DEFINE h == [s \in SUBSET S |->
                        IF s = {} THEN 0 ELSE w[Pick(s)] + g[s \ {Pick(s)}]]
    <2>2. ASSUME NEW s \in SUBSET S, Cardinality(s) <= n PROVE h[s] = g[s]
        BY <2>1, <2>2
    <2>3. ASSUME NEW s \in SUBSET S, Cardinality(s) <= n + 1 PROVE RightAt(h, w, s)
        <3>1. CASE s = {}
            BY <3>1
        <3>2. CASE s # {}
            <4>0. /\ s \ {Pick(s)} \in SUBSET S
                  /\ Cardinality(s \ {Pick(s)}) <= n
                BY <1>1, <1>2, <2>3, <3>2
            <4>1. h[s \ {Pick(s)}] = g[s \ {Pick(s)}]
                BY <2>2, <4>0
            <4>2. QED
                BY <3>2, <4>1
        <3>3. QED
            BY <3>1, <3>2
    <2>4. h = [s \in SUBSET S |-> h[s]]
        OBVIOUS
    <2> HIDE DEF h
    <2>5. QED
        BY <2>3, <2>4
<1> HIDE DEF Filled
<1>5. T = {}
    <2>1. SUFFICES ASSUME T # {} PROVE FALSE
        OBVIOUS
    <2>2. PICK n \in T : \A m \in T : ~(m < n)
        BY <2>1, LeastNumber
    <2>3. n # 0 /\ n \in Nat
        BY <1>3
    <2>4. n - 1 \in Nat /\ n - 1 < n
        BY <2>3
    <2>5. Filled(n - 1)
        BY <2>2, <2>4
    <2>6. Filled((n - 1) + 1)
        BY <1>4, <2>4, <2>5
    <2>7. QED
        BY <2>3, <2>6
<1>6. Filled(Cardinality(S))
    BY <1>1, <1>5
<1>7. PICK g : /\ g = [s \in SUBSET S |-> g[s]]
               /\ \A s \in SUBSET S : Cardinality(s) <= Cardinality(S) => RightAt(g, w, s)
    BY <1>6 DEF Filled
<1>8. \A s \in SUBSET S : RightAt(g, w, s)
    BY <1>1, <1>7, FS_Subset
<1>9. g = [s \in SUBSET S |-> IF s = {} THEN 0 ELSE w[Pick(s)] + g[s \ {Pick(s)}]]
    BY <1>7, <1>8
<1>10. QED
    BY <1>9 DEF IsTable

-----------------------------------------------------------------------------
\* The sum over a finite set is what any table of a larger set holds for it.
LEMMA SumIsTable ==
    ASSUME NEW w, NEW U, NEW g, IsTable(g, w, U),
           NEW S, IsFiniteSet(S), S \subseteq U
    PROVE  SumOver(w, S) = g[S]
<1> DEFINE h == CHOOSE f : IsTable(f, w, S)
<1>1. SumOver(w, S) = h[S]
    BY Zenon DEF SumOver, MapThenSumSet, MapThenFoldSet, IsTable, Pick
<1>2. IsTable(h, w, S)
    BY TableExists
<1> HIDE DEF h
<1>3. g[S] = h[S]
    BY <1>2, TablesAgree
<1>4. QED
    BY <1>1, <1>3

\* Nothing sums to zero.
LEMMA SumEmpty == ASSUME NEW w PROVE SumOver(w, {}) = 0
<1>1. IsFiniteSet({})
    BY FS_EmptySet
<1>2. PICK g : IsTable(g, w, {})
    BY <1>1, TableExists
<1>3. SumOver(w, {}) = g[{}]
    BY <1>1, <1>2, SumIsTable
<1>4. g[{}] = 0
    BY <1>2, TableAt DEF RightAt
<1>5. QED
    BY <1>3, <1>4

\* A sum depends on the weights of its elements only.
LEMMA SumSameWeights ==
    ASSUME NEW w, NEW v, NEW S, IsFiniteSet(S), \A x \in S : w[x] = v[x]
    PROVE  SumOver(w, S) = SumOver(v, S)
<1>1. PICK g : IsTable(g, w, S)
    BY TableExists
<1>2. PICK h : IsTable(h, v, S)
    BY TableExists
<1>3. SumOver(w, S) = g[S] /\ SumOver(v, S) = h[S]
    <2>1. SumOver(w, S) = g[S]
        BY <1>1, SumIsTable
    <2>2. SumOver(v, S) = h[S]
        BY <1>2, SumIsTable
    <2>3. QED
        BY <2>1, <2>2
<1>4. g[S] = h[S]
    BY <1>1, <1>2, TablesAgree
<1>5. QED
    BY <1>3, <1>4

\* One unfolding of the recursion.
LEMMA SumPick ==
    ASSUME NEW w, NEW S, IsFiniteSet(S), S # {}
    PROVE  SumOver(w, S) = w[Pick(S)] + SumOver(w, S \ {Pick(S)})
<1>1. PICK g : IsTable(g, w, S)
    BY TableExists
<1>2. SumOver(w, S) = g[S]
    BY <1>1, SumIsTable
<1>3. IsFiniteSet(S \ {Pick(S)})
    BY FS_RemoveElement
<1>4. SumOver(w, S \ {Pick(S)}) = g[S \ {Pick(S)}]
    BY <1>1, <1>3, SumIsTable
<1>5. g[S] = w[Pick(S)] + g[S \ {Pick(S)}]
    BY <1>1, TableAt DEF RightAt
<1>6. QED
    BY <1>2, <1>4, <1>5

\* A sum of integers is an integer.
LEMMA SumType ==
    ASSUME NEW w, NEW S, IsFiniteSet(S), \A x \in S : w[x] \in Int
    PROVE  SumOver(w, S) \in Int
<1> DEFINE T == {s \in SUBSET S : SumOver(w, s) \notin Int}
<1>0. T \subseteq SUBSET S
    OBVIOUS
<1>1. SUFFICES ASSUME T # {} PROVE FALSE
    OBVIOUS
<1> HIDE DEF T
<1>2. PICK s \in T : \A t \in SUBSET s : t # s => t \notin T
    BY <1>0, <1>1, MinimalSubset
<1>3. s \in SUBSET S /\ SumOver(w, s) \notin Int
    BY DEF T
<1>4. s # {} /\ IsFiniteSet(s)
    <2>1. IsFiniteSet(s)
        BY <1>3, FS_Subset
    <2>2. ASSUME s = {} PROVE SumOver(w, s) = 0
        BY Zenon, <2>2, SumEmpty
    <2>3. QED
        BY <1>3, <2>1, <2>2
<1>5. Pick(s) \in s /\ SumOver(w, s) = w[Pick(s)] + SumOver(w, s \ {Pick(s)})
    BY <1>4, PickIn, SumPick
<1>6. SumOver(w, s \ {Pick(s)}) \in Int
    BY <1>2, <1>3, <1>5 DEF T
<1>7. QED
    BY <1>3, <1>5, <1>6

\* The order does not matter: any element can be taken out first.
LEMMA SumRemove ==
    ASSUME NEW w, NEW S, IsFiniteSet(S), \A x \in S : w[x] \in Int,
           NEW a \in S
    PROVE  SumOver(w, S) = w[a] + SumOver(w, S \ {a})
<1> DEFINE T == {s \in SUBSET S :
                    \E x \in s : SumOver(w, s) # w[x] + SumOver(w, s \ {x})}
<1>0. T \subseteq SUBSET S
    OBVIOUS
<1>1. SUFFICES ASSUME T # {} PROVE FALSE
    OBVIOUS
<1> HIDE DEF T
<1>2. PICK s \in T : \A t \in SUBSET s : t # s => t \notin T
    BY <1>0, <1>1, MinimalSubset
<1>3. s \in SUBSET S
    BY DEF T
<1>4. PICK x \in s : SumOver(w, s) # w[x] + SumOver(w, s \ {x})
    BY DEF T
<1>5. IsFiniteSet(s) /\ s # {}
    BY <1>3, <1>4, FS_Subset
<1> DEFINE c == Pick(s)
<1>6. c \in s /\ SumOver(w, s) = w[c] + SumOver(w, s \ {c})
    BY <1>5, PickIn, SumPick
<1> HIDE DEF c
<1>7. c # x
    BY <1>4, <1>6
<1>8. s \ {c} \notin T /\ s \ {x} \notin T
    BY <1>2, <1>4, <1>6
<1>9. SumOver(w, s \ {c}) = w[x] + SumOver(w, (s \ {c}) \ {x})
    BY <1>3, <1>4, <1>7, <1>8 DEF T
<1>10. SumOver(w, s \ {x}) = w[c] + SumOver(w, (s \ {x}) \ {c})
    BY <1>3, <1>6, <1>7, <1>8 DEF T
<1>11. (s \ {c}) \ {x} = (s \ {x}) \ {c}
    OBVIOUS
<1>12. SumOver(w, (s \ {x}) \ {c}) \in Int
    <2>1. (s \ {x}) \ {c} \in SUBSET S
        BY <1>3
    <2>2. IsFiniteSet((s \ {x}) \ {c})
        BY <2>1, FS_Subset
    <2>3. QED
        BY <2>1, <2>2, SumType
<1>13. w[x] \in Int /\ w[c] \in Int
    BY <1>3, <1>4, <1>6
<1> DEFINE rest == SumOver(w, (s \ {x}) \ {c})
<1>14. w[c] + (w[x] + rest) = w[x] + (w[c] + rest)
    <2> HIDE DEF rest
    <2>1. rest \in Int
        BY <1>12 DEF rest
    <2>2. QED
        BY <1>13, <2>1
<1>15. QED
    BY <1>4, <1>6, <1>9, <1>10, <1>11, <1>14

\* A new element adds its weight.
LEMMA SumAdd ==
    ASSUME NEW w, NEW S, IsFiniteSet(S), \A x \in S : w[x] \in Int,
           NEW a, a \notin S, w[a] \in Int
    PROVE  SumOver(w, S \cup {a}) = SumOver(w, S) + w[a]
<1>1. IsFiniteSet(S \cup {a}) /\ \A x \in S \cup {a} : w[x] \in Int
    BY FS_AddElement
<1>2. SumOver(w, S \cup {a}) = w[a] + SumOver(w, (S \cup {a}) \ {a})
    BY <1>1, SumRemove
<1>3. (S \cup {a}) \ {a} = S
    OBVIOUS
<1>4. SumOver(w, S \cup {a}) = w[a] + SumOver(w, S)
    BY Zenon, <1>2, <1>3
<1>5. SumOver(w, S) \in Int
    BY SumType
<1>6. QED
    BY <1>4, <1>5

\* The sum of two disjoint parts is the sum of their sums.
LEMMA SumDisjoint ==
    ASSUME NEW w, NEW A, IsFiniteSet(A), NEW B, IsFiniteSet(B),
           \A x \in A \cup B : w[x] \in Int, A \cap B = {}
    PROVE  SumOver(w, A \cup B) = SumOver(w, A) + SumOver(w, B)
<1> DEFINE T == {s \in SUBSET B :
                    SumOver(w, A \cup s) # SumOver(w, A) + SumOver(w, s)}
<1>0. T \subseteq SUBSET B
    OBVIOUS
<1>1. SUFFICES ASSUME T # {} PROVE FALSE
    OBVIOUS
<1> HIDE DEF T
<1>2. PICK s \in T : \A t \in SUBSET s : t # s => t \notin T
    BY <1>0, <1>1, MinimalSubset
<1>3. /\ s \in SUBSET B
      /\ SumOver(w, A \cup s) # SumOver(w, A) + SumOver(w, s)
    BY DEF T
<1>4. IsFiniteSet(s)
    BY <1>3, FS_Subset
<1>5. SumOver(w, A) \in Int
    BY SumType
<1>6. s # {}
    <2>1. SUFFICES ASSUME s = {} PROVE FALSE
        OBVIOUS
    <2>2. A \cup s = A
        BY <2>1
    <2>3. SumOver(w, A \cup s) = SumOver(w, A) /\ SumOver(w, s) = 0
        BY Zenon, <2>1, <2>2, SumEmpty
    <2>4. QED
        BY <1>3, <1>5, <2>3
<1>7. PICK x : x \in s
    BY <1>6
<1> DEFINE t == s \ {x}
<1>8. /\ t \in SUBSET B /\ IsFiniteSet(t) /\ IsFiniteSet(A \cup t)
      /\ x \notin t /\ x \notin A \cup t
      /\ s = t \cup {x} /\ A \cup s = (A \cup t) \cup {x}
    <2>1. t \in SUBSET B /\ x \notin t /\ s = t \cup {x} /\ x \in B
        BY <1>3, <1>7
    <2>2. IsFiniteSet(t)
        BY <2>1, FS_Subset
    <2>3. IsFiniteSet(A \cup t)
        BY <2>2, FS_Union
    <2>4. x \notin A
        BY <2>1
    <2> HIDE DEF t
    <2>5. QED
        BY <2>1, <2>2, <2>3, <2>4
<1>9. SumOver(w, A \cup t) = SumOver(w, A) + SumOver(w, t)
    BY <1>2, <1>7, <1>8 DEF T
<1> HIDE DEF t
<1>10. w[x] \in Int /\ \A y \in A \cup t : w[y] \in Int
    BY <1>3, <1>7, <1>8
<1>11. SumOver(w, (A \cup t) \cup {x}) = SumOver(w, A \cup t) + w[x]
    BY <1>8, <1>10, SumAdd
<1>12. SumOver(w, t \cup {x}) = SumOver(w, t) + w[x]
    BY <1>8, <1>10, SumAdd
<1>13. SumOver(w, t) \in Int
    BY <1>8, <1>10, SumType
<1>14. /\ SumOver(w, A \cup s) = SumOver(w, A \cup t) + w[x]
       /\ SumOver(w, s) = SumOver(w, t) + w[x]
    BY Zenon, <1>8, <1>11, <1>12
<1>15. QED
    BY <1>3, <1>5, <1>9, <1>10, <1>13, <1>14

\* Weights that are not negative have a sum that is not.
LEMMA SumNat ==
    ASSUME NEW w, NEW S, IsFiniteSet(S), \A x \in S : w[x] \in Nat
    PROVE  SumOver(w, S) \in Nat
<1> DEFINE T == {s \in SUBSET S : SumOver(w, s) \notin Nat}
<1>0. T \subseteq SUBSET S
    OBVIOUS
<1>1. SUFFICES ASSUME T # {} PROVE FALSE
    OBVIOUS
<1> HIDE DEF T
<1>2. PICK s \in T : \A t \in SUBSET s : t # s => t \notin T
    BY <1>0, <1>1, MinimalSubset
<1>3. s \in SUBSET S /\ SumOver(w, s) \notin Nat
    BY DEF T
<1>4. s # {} /\ IsFiniteSet(s)
    <2>1. IsFiniteSet(s)
        BY <1>3, FS_Subset
    <2>2. ASSUME s = {} PROVE SumOver(w, s) = 0
        BY Zenon, <2>2, SumEmpty
    <2>3. QED
        BY <1>3, <2>1, <2>2
<1>5. Pick(s) \in s /\ SumOver(w, s) = w[Pick(s)] + SumOver(w, s \ {Pick(s)})
    BY <1>4, PickIn, SumPick
<1>6. SumOver(w, s \ {Pick(s)}) \in Nat
    BY <1>2, <1>3, <1>5 DEF T
<1>7. QED
    BY <1>3, <1>5, <1>6

\* With such weights, a part sums to no more than the whole.
LEMMA SumMonotone ==
    ASSUME NEW w, NEW S, IsFiniteSet(S), \A x \in S : w[x] \in Nat,
           NEW A \in SUBSET S
    PROVE  SumOver(w, A) <= SumOver(w, S)
<1>1. IsFiniteSet(A) /\ IsFiniteSet(S \ A)
    BY FS_Subset
<1>2. S = A \cup (S \ A) /\ A \cap (S \ A) = {}
    OBVIOUS
<1>3. SumOver(w, S) = SumOver(w, A) + SumOver(w, S \ A)
    BY <1>1, <1>2, SumDisjoint
<1>4. SumOver(w, A) \in Nat /\ SumOver(w, S \ A) \in Nat
    BY <1>1, SumNat
<1>5. QED
    BY <1>3, <1>4

\* Shares v of disjoint parts of a set: if no share exceeds the sum of its
\* part, all of them together do not exceed the sum of the set.
LEMMA SumOfParts ==
    ASSUME NEW w, NEW S, IsFiniteSet(S), \A x \in S : w[x] \in Nat,
           NEW D, IsFiniteSet(D), NEW part,
           \A d \in D : part[d] \in SUBSET S,
           \A c, d \in D : c # d => part[c] \cap part[d] = {},
           NEW v, \A d \in D : v[d] \in Int /\ v[d] <= SumOver(w, part[d])
    PROVE  SumOver(v, D) <= SumOver(w, S)
<1> DEFINE All(E) == UNION {part[d] : d \in E}
           T == {E \in SUBSET D : ~(SumOver(v, E) <= SumOver(w, All(E)))}
<1>0. T \subseteq SUBSET D
    OBVIOUS
<1>1. \A E \in SUBSET D : All(E) \in SUBSET S
    OBVIOUS
<1> HIDE DEF T
<1>2. ASSUME T # {} PROVE FALSE
    <2>1. PICK E \in T : \A F \in SUBSET E : F # E => F \notin T
        BY <1>0, <1>2, MinimalSubset
    <2>2. E \in SUBSET D /\ ~(SumOver(v, E) <= SumOver(w, All(E)))
        BY DEF T
    <2>3. E # {}
        <3>1. SUFFICES ASSUME E = {} PROVE FALSE
            OBVIOUS
        <3>2. All(E) = {}
            BY <3>1
        <3> HIDE DEF All
        <3>3. SumOver(v, E) = 0 /\ SumOver(w, All(E)) = 0
            BY Zenon, <3>1, <3>2, SumEmpty
        <3>4. QED
            BY <2>2, <3>3
    <2>4. PICK d : d \in E
        BY <2>3
    <2> DEFINE F == E \ {d}
    <2>5. F \in SUBSET D /\ F # E /\ F \in SUBSET E /\ d \in D
        BY <2>2, <2>4
    <2>6. IsFiniteSet(F) /\ IsFiniteSet(E)
        BY <2>2, <2>5, FS_Subset
    <2>7. SumOver(v, F) <= SumOver(w, All(F))
        BY <2>1, <2>5 DEF T
    <2>8. All(E) = All(F) \cup part[d] /\ All(F) \cap part[d] = {}
        BY <2>2, <2>4
    <2>9. SumOver(v, E) = v[d] + SumOver(v, F)
        BY <2>2, <2>4, <2>6, SumRemove
    <2>10. SumOver(w, All(F) \cup part[d]) = SumOver(w, All(F)) + SumOver(w, part[d])
        <3>1. All(F) \in SUBSET S /\ part[d] \in SUBSET S
            BY <1>1, <2>5
        <3>2. IsFiniteSet(All(F)) /\ IsFiniteSet(part[d])
            BY <3>1, FS_Subset
        <3>3. \A x \in All(F) \cup part[d] : w[x] \in Int
            BY <3>1
        <3> HIDE DEF All, F
        <3>4. QED
            BY <2>8, <3>2, <3>3, SumDisjoint
    <2>11. /\ v[d] \in Int /\ v[d] <= SumOver(w, part[d])
           /\ SumOver(v, F) \in Int
           /\ SumOver(w, All(F)) \in Int /\ SumOver(w, part[d]) \in Int
        <3>1. v[d] \in Int /\ v[d] <= SumOver(w, part[d])
            BY <2>5
        <3>2. SumOver(v, F) \in Int
            BY <2>5, <2>6, SumType
        <3>3. ASSUME NEW A \in SUBSET S PROVE SumOver(w, A) \in Int
            <4>1. IsFiniteSet(A) /\ \A x \in A : w[x] \in Int
                BY FS_Subset
            <4>2. QED
                BY <4>1, SumType
        <3>4. All(F) \in SUBSET S /\ part[d] \in SUBSET S
            BY <1>1, <2>5
        <3> HIDE DEF All, F
        <3>5. QED
            BY <3>1, <3>2, <3>3, <3>4
    <2> HIDE DEF All, F
    <2>12. SumOver(w, All(E)) = SumOver(w, All(F)) + SumOver(w, part[d])
        BY Zenon, <2>8, <2>10
    <2>13. QED
        BY <2>2, <2>7, <2>9, <2>11, <2>12
<1>3. SumOver(v, D) <= SumOver(w, All(D))
    BY <1>2 DEF T
<1>4. All(D) \in SUBSET S
    BY <1>1
<1> HIDE DEF All
<1>5. SumOver(w, All(D)) <= SumOver(w, S)
    BY <1>4, SumMonotone
<1>6. /\ SumOver(v, D) \in Int /\ SumOver(w, S) \in Int
      /\ SumOver(w, All(D)) \in Int
    <2>1. IsFiniteSet(All(D))
        BY <1>4, FS_Subset
    <2>2. SumOver(w, All(D)) \in Int
        BY <1>4, <2>1, SumType
    <2>3. QED
        BY <2>2, SumType
<1>7. QED
    BY <1>3, <1>5, <1>6
=============================================================================
