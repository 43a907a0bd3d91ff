----------------------------- MODULE SumsProofs -----------------------------
(***************************************************************************)
(* The laws of SumOver, for every finite set.                              *)
(*                                                                         *)
(* The provers cannot instantiate the library's induction theorems, which  *)
(* take a predicate.  Every induction below is therefore an argument by a  *)
(* smallest counterexample: the subsets on which the claim fails are a     *)
(* set, a non-empty set of subsets of a finite set has a minimal member    *)
(* (MinimalSubset), and the claim holds for that member after all.         *)
(***************************************************************************)
EXTENDS Sums, Integers, FiniteSetTheorems, WellFoundedInduction, TLAPS

\* A non-empty set of subsets of a finite set has a minimal member: strict
\* inclusion of finite sets is well founded.
LEMMA MinimalSubset ==
    ASSUME NEW S, IsFiniteSet(S), NEW T \in SUBSET (SUBSET S), T # {}
    PROVE  \E m \in T : \A u \in T : u \subseteq m => u = m
<1>1. T \subseteq FiniteSubsetsOf(S)
    BY FS_Subset DEF FiniteSubsetsOf
<1>2. IsWellFoundedOn(StrictSubsetOrdering(S), FiniteSubsetsOf(S))
    BY FS_StrictSubsetOrderingWellFounded
<1>3. PICK m \in T : \A u \in T : ~(<<u, m>> \in StrictSubsetOrdering(S))
    BY <1>1, <1>2, WFMin
<1>4. ASSUME NEW u \in T, u \subseteq m, u # m PROVE FALSE
    BY <1>3, <1>4 DEF StrictSubsetOrdering
<1> QED
    BY <1>4

-----------------------------------------------------------------------------
(* The iteration behind the fold *)

\* The element the fold takes first, and the equation of its table.
Pick(s) == CHOOSE x \in s : TRUE
Iterates(g, w, S) ==
    g = [s \in SUBSET S |-> IF s = {} THEN 0 ELSE w[Pick(s)] + g[s \ {Pick(s)}]]

LEMMA PickIn == ASSUME NEW s, s # {} PROVE Pick(s) \in s
BY DEF Pick

\* Two tables agree wherever both are defined.
LEMMA IterUnique ==
    ASSUME NEW w, NEW S, NEW T, IsFiniteSet(S), NEW g, NEW h,
           Iterates(g, w, S), Iterates(h, w, T)
    PROVE  \A u \in SUBSET (S \cap T) : g[u] = h[u]
<1> DEFINE Bad == {u \in SUBSET (S \cap T) : g[u] # h[u]}
<1> SUFFICES ASSUME Bad # {} PROVE FALSE
    OBVIOUS
<1>0. Bad \in SUBSET (SUBSET S)
    OBVIOUS
<1>1. PICK m \in Bad : \A u \in Bad : u \subseteq m => u = m
  <2> HIDE DEF Bad
  <2> QED
    BY <1>0, MinimalSubset
<1>2. m # {}
    BY <1>1 DEF Iterates
<1> DEFINE n == m \ {Pick(m)}
<1>3. n \subseteq m /\ n # m /\ n \in SUBSET (S \cap T)
    BY <1>2, PickIn
<1>4. g[n] = h[n]
    BY <1>1, <1>3
<1>5. g[m] = w[Pick(m)] + g[n]
    BY <1>2 DEF Iterates
<1>6. h[m] = w[Pick(m)] + h[n]
    BY <1>2 DEF Iterates
<1> QED
    BY <1>4, <1>5, <1>6

\* There is a table for every finite set.
LEMMA IterExists ==
    ASSUME NEW w, NEW S, IsFiniteSet(S)
    PROVE  \E g : Iterates(g, w, S)
<1> DEFINE Bad == {t \in SUBSET S : ~ \E g : Iterates(g, w, t)}
<1> SUFFICES ASSUME Bad # {} PROVE FALSE
    OBVIOUS
<1>0. Bad \in SUBSET (SUBSET S)
    OBVIOUS
<1>1. PICK m \in Bad : \A u \in Bad : u \subseteq m => u = m
  <2> HIDE DEF Bad
  <2> QED
    BY <1>0, MinimalSubset
<1>2. IsFiniteSet(m)
    BY FS_Subset
<1> DEFINE It(u) == CHOOSE g : Iterates(g, w, u)
           F(u) == IF u = {} THEN 0 ELSE w[Pick(u)] + (It(u \ {Pick(u)}))[u \ {Pick(u)}]
           g == [u \in SUBSET m |-> F(u)]
<1>3. ASSUME NEW u \in SUBSET m, u # m
      PROVE  Iterates(It(u), w, u)
  <2>1. u \notin Bad /\ u \in SUBSET S
    BY <1>1, <1>3
  <2>2. \E k : Iterates(k, w, u)
    BY <2>1
  <2> QED
    BY <2>2
<1>4. ASSUME NEW u \in SUBSET m, u # m
      PROVE  It(u)[u] = F(u)
  <2>1. CASE u = {}
    <3>1. Iterates(It(u), w, u)
      BY <1>3, <1>4
    <3> HIDE DEF It
    <3>2. It(u)[{}] = 0
      BY <3>1 DEF Iterates
    <3> QED
      BY <3>2, <2>1
  <2>2. CASE u # {}
    <3> DEFINE n == u \ {Pick(u)}
    <3>1. n \in SUBSET m /\ n # m /\ n \subseteq u
      BY <2>2, PickIn
    <3>2. Iterates(It(u), w, u) /\ Iterates(It(n), w, n)
      BY <1>3, <1>4, <3>1
    <3>3. It(u)[u] = w[Pick(u)] + It(u)[n]
      BY <3>2, <2>2 DEF Iterates
    <3>4. IsFiniteSet(u)
      BY <1>2, FS_Subset
    <3> HIDE DEF It
    <3>5. It(u)[n] = It(n)[n]
      BY <3>1, <3>2, <3>4, IterUnique
    <3> QED
      BY <3>3, <3>5, <2>2
  <2> QED
    BY <2>1, <2>2
<1> HIDE DEF It
<1>5. ASSUME NEW u \in SUBSET m, u # {}
      PROVE  g[u] = w[Pick(u)] + g[u \ {Pick(u)}]
  <2> DEFINE n == u \ {Pick(u)}
  <2>1. n \in SUBSET m /\ n # m
    BY <1>5, PickIn
  <2>2. g[n] = F(n)
    BY <2>1
  <2>3. It(n)[n] = F(n)
    BY <2>1, <1>4
  <2>4. g[u] = w[Pick(u)] + It(n)[n]
    BY <1>5
  <2> QED
    BY <2>2, <2>3, <2>4
<1>6. g[{}] = 0
    OBVIOUS
<1>7. Iterates(g, w, m)
  <2> DEFINE R == [u \in SUBSET m |-> IF u = {} THEN 0 ELSE w[Pick(u)] + g[u \ {Pick(u)}]]
  <2>1. \A u \in SUBSET m : g[u] = R[u]
    <3> TAKE u \in SUBSET m
    <3>1. CASE u = {}
      BY <3>1, <1>6
    <3>2. CASE u # {}
      BY <3>2, <1>5
    <3> QED
      BY <3>1, <3>2
  <2>2. g = [u \in SUBSET m |-> g[u]] /\ R = [u \in SUBSET m |-> R[u]]
    OBVIOUS
  <2>3. g = R
    BY <2>1, <2>2
  <2> QED
    BY <2>3 DEF Iterates
<1> QED
    BY <1>1, <1>7

\* The sum is the last entry of the table.
LEMMA SumIsIterated ==
    ASSUME NEW w, NEW S, IsFiniteSet(S)
    PROVE  \E g : Iterates(g, w, S) /\ SumOver(w, S) = g[S]
<1>1. PICK g : Iterates(g, w, S)
    BY IterExists
<1>2. SumOver(w, S) = (CHOOSE k : Iterates(k, w, S))[S]
    BY DEF SumOver, MapThenSumSet, MapThenFoldSet, Iterates, Pick
<1> QED
    BY <1>1, <1>2

\* The sum of a set is its first element's share and the sum of the rest.
LEMMA SumPicked ==
    ASSUME NEW w, NEW S, IsFiniteSet(S), S # {}
    PROVE  SumOver(w, S) = w[Pick(S)] + SumOver(w, S \ {Pick(S)})
<1> DEFINE R == S \ {Pick(S)}
<1>1. PICK g : Iterates(g, w, S) /\ SumOver(w, S) = g[S]
    BY SumIsIterated
<1>2. IsFiniteSet(R) /\ R \in SUBSET (S \cap R)
    BY FS_Subset
<1>3. PICK h : Iterates(h, w, R) /\ SumOver(w, R) = h[R]
    BY <1>2, SumIsIterated
<1>4. g[R] = h[R]
  <2> HIDE DEF R
  <2> QED
    BY <1>1, <1>2, <1>3, IterUnique
<1>5. g[S] = w[Pick(S)] + g[R]
    BY <1>1 DEF Iterates
<1> QED
    BY <1>1, <1>3, <1>4, <1>5

-----------------------------------------------------------------------------
(* The laws *)

LEMMA SumEmpty == ASSUME NEW w PROVE SumOver(w, {}) = 0
<1>1. PICK g : Iterates(g, w, {}) /\ SumOver(w, {}) = g[{}]
    BY SumIsIterated, FS_EmptySet
<1>2. g[{}] = 0
    BY <1>1 DEF Iterates
<1> QED
    BY <1>1, <1>2

\* A sum of natural numbers is one.
LEMMA SumType ==
    ASSUME NEW w, NEW S, IsFiniteSet(S), \A x \in S : w[x] \in Nat
    PROVE  SumOver(w, S) \in Nat
<1> DEFINE Bad == {t \in SUBSET S : SumOver(w, t) \notin Nat}
<1> SUFFICES ASSUME Bad # {} PROVE FALSE
    OBVIOUS
<1>0. Bad \in SUBSET (SUBSET S)
    OBVIOUS
<1>1. PICK m \in Bad : \A u \in Bad : u \subseteq m => u = m
  <2> HIDE DEF Bad
  <2> QED
    BY <1>0, MinimalSubset
<1>2. m # {}
    BY SumEmpty
<1>3. Pick(m) \in m
    BY <1>2, PickIn
<1>4. SumOver(w, m \ {Pick(m)}) \in Nat
    BY <1>1, <1>3
<1>5. SumOver(w, m) = w[Pick(m)] + SumOver(w, m \ {Pick(m)})
    BY <1>2, FS_Subset, SumPicked
<1> QED
    BY <1>3, <1>4, <1>5

\* The sum depends on the quantity over the set alone.
LEMMA SumAgrees ==
    ASSUME NEW w, NEW v, NEW S, IsFiniteSet(S), \A x \in S : w[x] = v[x]
    PROVE  SumOver(w, S) = SumOver(v, S)
<1> DEFINE Bad == {t \in SUBSET S : SumOver(w, t) # SumOver(v, t)}
<1> SUFFICES ASSUME Bad # {} PROVE FALSE
    OBVIOUS
<1>0. Bad \in SUBSET (SUBSET S)
    OBVIOUS
<1>1. PICK m \in Bad : \A u \in Bad : u \subseteq m => u = m
  <2> HIDE DEF Bad
  <2> QED
    BY <1>0, MinimalSubset
<1>2. m # {}
    BY SumEmpty
<1>3. Pick(m) \in m
    BY <1>2, PickIn
<1> DEFINE n == m \ {Pick(m)}
<1>4. SumOver(w, n) = SumOver(v, n)
    BY <1>1, <1>3
<1>5. SumOver(w, m) = w[Pick(m)] + SumOver(w, n)
    BY <1>2, FS_Subset, SumPicked
<1>6. SumOver(v, m) = v[Pick(m)] + SumOver(v, n)
    BY <1>2, FS_Subset, SumPicked
<1>7. w[Pick(m)] = v[Pick(m)]
    BY <1>3
<1> QED
    BY <1>4, <1>5, <1>6, <1>7

\* Any element may be taken out first: the fold's choice does not matter.
THEOREM SumRemove ==
    ASSUME NEW w, NEW S, IsFiniteSet(S), \A x \in S : w[x] \in Nat, NEW x \in S
    PROVE  SumOver(w, S) = w[x] + SumOver(w, S \ {x})
<1> DEFINE Bad == {t \in SUBSET S : \E y \in t : SumOver(w, t) # w[y] + SumOver(w, t \ {y})}
<1> SUFFICES ASSUME Bad # {} PROVE FALSE
    OBVIOUS
<1>0. Bad \in SUBSET (SUBSET S)
    OBVIOUS
<1>1. PICK m \in Bad : \A u \in Bad : u \subseteq m => u = m
  <2> HIDE DEF Bad
  <2> QED
    BY <1>0, MinimalSubset
<1>2. PICK y \in m : SumOver(w, m) # w[y] + SumOver(w, m \ {y})
    OBVIOUS
<1> DEFINE p == Pick(m)
<1>3. p \in m
    BY <1>2, PickIn
<1>4. IsFiniteSet(m) /\ m # {} /\ m \in SUBSET S
    BY <1>2, FS_Subset
<1>5. SumOver(w, m) = w[p] + SumOver(w, m \ {p})
    BY <1>4, SumPicked
<1>6. p # y
    BY <1>2, <1>5
<1>7. m \ {p} \notin Bad /\ m \ {y} \notin Bad
    BY <1>1, <1>3
<1>8. SumOver(w, m \ {p}) = w[y] + SumOver(w, (m \ {p}) \ {y})
    BY <1>7, <1>4, <1>6
<1>9. SumOver(w, m \ {y}) = w[p] + SumOver(w, (m \ {y}) \ {p})
    BY <1>7, <1>3, <1>4, <1>6
<1>10. (m \ {p}) \ {y} = (m \ {y}) \ {p}
    OBVIOUS
<1>11. SumOver(w, (m \ {y}) \ {p}) \in Nat
    BY <1>4, FS_Subset, SumType
<1>12. w[p] \in Nat /\ w[y] \in Nat
    BY <1>3, <1>4
<1> HIDE DEF Bad, p
<1>13. w[p] + (w[y] + SumOver(w, (m \ {y}) \ {p}))
        = w[y] + (w[p] + SumOver(w, (m \ {y}) \ {p}))
    BY <1>11, <1>12
<1> QED
    BY <1>2, <1>5, <1>8, <1>9, <1>10, <1>13

\* A new element adds its share; the quantity may be restated over the
\* larger set as long as it agrees on the smaller one.
THEOREM SumAdd ==
    ASSUME NEW w, NEW v, NEW S, IsFiniteSet(S), NEW x, x \notin S,
           \A y \in S : w[y] = v[y] /\ v[y] \in Nat, w[x] \in Nat
    PROVE  SumOver(w, S \cup {x}) = SumOver(v, S) + w[x]
<1>1. IsFiniteSet(S \cup {x}) /\ \A y \in S \cup {x} : w[y] \in Nat
    BY FS_AddElement
<1>2. SumOver(w, S \cup {x}) = w[x] + SumOver(w, (S \cup {x}) \ {x})
    BY <1>1, SumRemove
<1>3. (S \cup {x}) \ {x} = S
    OBVIOUS
<1>4. SumOver(v, S) \in Nat /\ SumOver(w, S) = SumOver(v, S)
    BY SumType, SumAgrees
<1>5. w[x] + SumOver(v, S) = SumOver(v, S) + w[x]
    BY <1>4
<1> QED
    BY <1>2, <1>3, <1>4, <1>5

LEMMA SumSingle ==
  ASSUME NEW w, NEW x, w[x] \in Nat
  PROVE  SumOver(w, {x}) = w[x]
<1>0. IsFiniteSet({x})
  BY FS_Singleton
<1>1. SumOver(w, {x}) = w[x] + SumOver(w, {x} \ {x})
  <2>1. PICK S : S = {x}
    OBVIOUS
  <2>2. IsFiniteSet(S) /\ x \in S /\ \A y \in S : w[y] \in Nat
    BY <1>0, <2>1
  <2>3. SumOver(w, S) = w[x] + SumOver(w, S \ {x})
    BY ONLY <2>2, SumRemove
  <2> QED
    BY <2>1, <2>3
<1>2. {x} \ {x} = {}
  OBVIOUS
<1> QED
  BY <1>1, <1>2, SumEmpty

\* A part of the set has at most the sum of the whole.
LEMMA SumMonotone ==
    ASSUME NEW w, NEW S, IsFiniteSet(S), \A x \in S : w[x] \in Nat, NEW T \in SUBSET S
    PROVE  SumOver(w, T) <= SumOver(w, S)
<1> DEFINE Larger(m) == {u \in SUBSET m : ~(SumOver(w, u) <= SumOver(w, m))}
           Bad == {m \in SUBSET S : Larger(m) # {}}
<1> SUFFICES ASSUME Bad # {} PROVE FALSE
    OBVIOUS
<1>0. Bad \in SUBSET (SUBSET S)
    OBVIOUS
<1>1. PICK m \in Bad : \A n \in Bad : n \subseteq m => n = m
  <2> HIDE DEF Bad
  <2> QED
    BY <1>0, MinimalSubset
<1>2. PICK u \in SUBSET m : ~(SumOver(w, u) <= SumOver(w, m))
    BY <1>1
<1>3. \A n \in SUBSET S : SumOver(w, n) \in Nat
    BY FS_Subset, SumType
<1>4. u # m
    BY <1>1, <1>2, <1>3
<1>5. PICK x \in m : x \notin u
    BY <1>4
<1>6. SumOver(w, u) <= SumOver(w, m \ {x})
    BY <1>1, <1>5
<1>7. SumOver(w, m) = w[x] + SumOver(w, m \ {x})
    BY <1>1, FS_Subset, SumRemove
<1>8. w[x] \in Nat /\ SumOver(w, m \ {x}) \in Nat /\ SumOver(w, u) \in Nat /\ SumOver(w, m) \in Nat
    BY <1>1, <1>3
<1> QED
    BY <1>2, <1>6, <1>7, <1>8

\* Two sets together have at most the sum of the one and of the other.
LEMMA SumUnion ==
    ASSUME NEW w, NEW A, NEW B, IsFiniteSet(A), IsFiniteSet(B), \A x \in A \cup B : w[x] \in Nat
    PROVE  SumOver(w, A \cup B) <= SumOver(w, A) + SumOver(w, B)
<1> DEFINE Bad == {b \in SUBSET B : ~(SumOver(w, A \cup b) <= SumOver(w, A) + SumOver(w, b))}
<1> SUFFICES ASSUME Bad # {} PROVE FALSE
    OBVIOUS
<1>0. Bad \in SUBSET (SUBSET B)
    OBVIOUS
<1>1. PICK m \in Bad : \A u \in Bad : u \subseteq m => u = m
  <2> HIDE DEF Bad
  <2> QED
    BY <1>0, MinimalSubset
<1>2. m \subseteq B /\ IsFiniteSet(m)
    BY <1>1, FS_Subset
<1>3. SumOver(w, A) \in Nat
    BY SumType
<1>4. m # {}
  <2>1. SUFFICES ASSUME m = {} PROVE FALSE
    OBVIOUS
  <2>2. A \cup m = A /\ SumOver(w, m) = 0
    BY <2>1, SumEmpty
  <2>3. SumOver(w, A \cup m) = SumOver(w, A)
    BY <2>2
  <2>4. SumOver(w, A \cup m) <= SumOver(w, A) + SumOver(w, m)
    BY <1>3, <2>2, <2>3
  <2> QED
    BY <1>1, <2>4
<1>5. PICK x \in m : TRUE
    BY <1>4
<1> DEFINE n == m \ {x}
<1>6. n \subseteq B /\ n \subseteq m /\ n # m /\ IsFiniteSet(n) /\ IsFiniteSet(A \cup m)
    BY <1>2, <1>5, FS_Subset, FS_Union
<1>7. SumOver(w, A \cup n) <= SumOver(w, A) + SumOver(w, n)
    BY <1>1, <1>6
<1>8. w[x] \in Nat /\ SumOver(w, n) \in Nat /\ SumOver(w, A \cup n) \in Nat
  <2>1. IsFiniteSet(A \cup n) /\ (\A y \in A \cup n : w[y] \in Nat) /\ \A y \in n : w[y] \in Nat
    BY <1>6, FS_Union
  <2> QED
    BY <1>2, <1>5, <1>6, <2>1, SumType
<1>9. SumOver(w, m) = w[x] + SumOver(w, n)
    BY <1>2, <1>5, SumRemove
<1>10. SumOver(w, A \cup m) <= w[x] + SumOver(w, A \cup n)
  <2>1. CASE x \in A
    <3>1. A \cup m = A \cup n
      BY <2>1
    <3>2. SumOver(w, A \cup m) = SumOver(w, A \cup n)
      BY <3>1
    <3> QED
      BY <1>8, <3>2
  <2>2. CASE x \notin A
    <3>1. (A \cup m) \ {x} = A \cup n /\ x \in A \cup m /\ \A y \in A \cup m : w[y] \in Nat
      BY <1>2, <1>5, <2>2
    <3>2. SumOver(w, A \cup m) = w[x] + SumOver(w, (A \cup m) \ {x})
      BY <1>6, <3>1, SumRemove
    <3>3. SumOver(w, (A \cup m) \ {x}) = SumOver(w, A \cup n)
      BY <3>1
    <3> QED
      BY <1>8, <3>2, <3>3
  <2> QED
    BY <2>1, <2>2
<1>11. SumOver(w, A \cup m) \in Nat
    BY <1>2, <1>6, SumType
<1>12. SumOver(w, A \cup m) <= SumOver(w, A) + SumOver(w, m)
    BY <1>3, <1>7, <1>8, <1>9, <1>10, <1>11
<1> QED
    BY <1>1, <1>12

\* A set is summed in two parts.
LEMMA SumSplit ==
    ASSUME NEW w, NEW A, IsFiniteSet(A), \A x \in A : w[x] \in Nat, NEW B \in SUBSET A
    PROVE  SumOver(w, A) = SumOver(w, B) + SumOver(w, A \ B)
<1> DEFINE Bad == {b \in SUBSET B : SumOver(w, A) # SumOver(w, b) + SumOver(w, A \ b)}
<1> SUFFICES ASSUME Bad # {} PROVE FALSE
    OBVIOUS
<1>0. Bad \in SUBSET (SUBSET B) /\ IsFiniteSet(B)
    BY FS_Subset
<1>1. PICK m \in Bad : \A u \in Bad : u \subseteq m => u = m
  <2> HIDE DEF Bad
  <2> QED
    BY <1>0, MinimalSubset
<1>2. m \subseteq A /\ IsFiniteSet(m)
    BY <1>0, <1>1, FS_Subset
<1>3. \A u \in SUBSET A : SumOver(w, u) \in Nat
    BY FS_Subset, SumType
<1>4. m # {}
  <2>1. SUFFICES ASSUME m = {} PROVE FALSE
    OBVIOUS
  <2>2. SumOver(w, m) = 0 /\ A \ m = A
    BY <2>1, SumEmpty
  <2>3. SumOver(w, A \ m) = SumOver(w, A)
    BY <2>2
  <2> QED
    BY <1>1, <1>3, <2>2, <2>3
<1>5. PICK x \in m : TRUE
    BY <1>4
<1> DEFINE n == m \ {x}
<1>6. n \in SUBSET B /\ n \subseteq m /\ n # m
    BY <1>1, <1>5
<1>7. SumOver(w, A) = SumOver(w, n) + SumOver(w, A \ n)
    BY <1>1, <1>6
<1>8. SumOver(w, m) = w[x] + SumOver(w, n)
    BY <1>2, <1>5, SumRemove
<1>9. SumOver(w, A \ n) = w[x] + SumOver(w, A \ m)
  <2>1. (A \ n) \ {x} = A \ m /\ x \in A \ n /\ IsFiniteSet(A \ n) /\ \A y \in A \ n : w[y] \in Nat
    BY <1>2, <1>5, FS_Subset
  <2>2. SumOver(w, A \ n) = w[x] + SumOver(w, (A \ n) \ {x})
    BY <2>1, SumRemove
  <2> QED
    BY <2>1, <2>2
<1>10. w[x] \in Nat /\ SumOver(w, n) \in Nat /\ SumOver(w, A \ m) \in Nat
  <2>1. n \in SUBSET A /\ A \ m \in SUBSET A /\ x \in A
    BY <1>2, <1>5
  <2> QED
    BY <1>3, <2>1
<1>11. SumOver(w, A) = SumOver(w, m) + SumOver(w, A \ m)
    BY <1>7, <1>8, <1>9, <1>10
<1> QED
    BY <1>1, <1>11

\* One entry of a table changes, its membership too perhaps: the sum moves by
\* the entry's old and new share.  Every counter of the ledger is kept so.
THEOREM SumMove ==
    ASSUME NEW w, NEW v, NEW A, NEW B, IsFiniteSet(A), NEW x, A \ {x} = B \ {x},
           \A y \in A : w[y] \in Nat, \A y \in B : v[y] \in Nat,
           \A y \in A \ {x} : w[y] = v[y]
    PROVE  /\ SumOver(v, B) + (IF x \in A THEN w[x] ELSE 0)
                = SumOver(w, A) + (IF x \in B THEN v[x] ELSE 0)
           /\ SumOver(v, B) \in Nat /\ SumOver(w, A) \in Nat
<1> DEFINE R == A \ {x}
<1>1. IsFiniteSet(R) /\ IsFiniteSet(B)
  <2>1. IsFiniteSet(R)
    BY FS_Subset
  <2>2. IsFiniteSet(R \cup {x}) /\ B \subseteq R \cup {x}
    BY <2>1, FS_AddElement
  <2> QED
    BY <2>1, <2>2, FS_Subset
<1>2. SumOver(w, R) = SumOver(v, R) /\ SumOver(w, R) \in Nat
    BY <1>1, SumAgrees, SumType
<1>3. SumOver(w, A) = (IF x \in A THEN w[x] ELSE 0) + SumOver(w, R)
  <2>1. CASE x \in A
    BY <2>1, SumRemove
  <2>2. CASE x \notin A
    <3>1. R = A
      BY <2>2
    <3>2. SumOver(w, A) = SumOver(w, R)
      BY <3>1
    <3> QED
      BY <1>2, <2>2, <3>2
  <2> QED
    BY <2>1, <2>2
<1>4. SumOver(v, B) = (IF x \in B THEN v[x] ELSE 0) + SumOver(v, R)
  <2>1. CASE x \in B
    <3>1. SumOver(v, B) = v[x] + SumOver(v, B \ {x})
      BY <1>1, <2>1, SumRemove
    <3> QED
      BY <2>1, <3>1
  <2>2. CASE x \notin B
    <3>1. R = B
      BY <2>2
    <3>2. SumOver(v, B) = SumOver(v, R)
      BY <3>1
    <3> QED
      BY <1>2, <2>2, <3>2
  <2> QED
    BY <2>1, <2>2
<1>5. (IF x \in A THEN w[x] ELSE 0) \in Nat /\ (IF x \in B THEN v[x] ELSE 0) \in Nat
    OBVIOUS
<1> HIDE DEF R
<1> QED
    BY <1>2, <1>3, <1>4, <1>5

\* The same with hypothesis and conclusion named, which is how it is cited.
AgreeBut(w, v, A, B, x) ==
    /\ IsFiniteSet(A) /\ A \ {x} = B \ {x}
    /\ \A y \in A : w[y] \in Nat
    /\ \A y \in B : v[y] \in Nat
    /\ \A y \in A \ {x} : w[y] = v[y]

MovesBy(w, v, A, B, x) ==
    /\ SumOver(v, B) + (IF x \in A THEN w[x] ELSE 0)
         = SumOver(w, A) + (IF x \in B THEN v[x] ELSE 0)
    /\ SumOver(v, B) \in Nat /\ SumOver(w, A) \in Nat

LEMMA SumMovesBy ==
    ASSUME NEW w, NEW v, NEW A, NEW B, NEW x, AgreeBut(w, v, A, B, x)
    PROVE  MovesBy(w, v, A, B, x)
BY SumMove DEF AgreeBut, MovesBy

\* Max is an upper bound: a finite non-empty set of integers has a largest.
LEMMA MaxBounds ==
    ASSUME NEW S, IsFiniteSet(S), S # {}, \A x \in S : x \in Int
    PROVE  Max(S) \in S /\ \A x \in S : x <= Max(S)
<1> DEFINE Top(m) == {x \in m : \A y \in m : x >= y}
           Bad == {m \in SUBSET S : m # {} /\ Top(m) = {}}
<1>1. Bad = {}
  <2> SUFFICES ASSUME Bad # {} PROVE FALSE
    OBVIOUS
  <2>0. Bad \in SUBSET (SUBSET S)
    OBVIOUS
  <2>1. PICK m \in Bad : \A n \in Bad : n \subseteq m => n = m
    <3> HIDE DEF Bad
    <3> QED
      BY <2>0, MinimalSubset
  <2>2. PICK x \in m : TRUE
    BY <2>1
  <2>3. m \ {x} \notin Bad
    BY <2>1, <2>2
  <2>4. m \subseteq Int
    BY <2>1
  <2>5. CASE m \ {x} = {}
    <3>0. \A y \in m : y = x
      BY <2>5
    <3>1. x \in Top(m)
      BY <2>2, <2>4, <3>0
    <3> QED
      BY <2>1, <3>1
  <2>6. CASE m \ {x} # {}
    <3>1. PICK y \in m \ {x} : \A z \in m \ {x} : y >= z
      BY <2>1, <2>3, <2>6
    <3>2. CASE x >= y
      <4>1. x \in Top(m)
        BY <2>2, <2>4, <3>1, <3>2
      <4> QED
        BY <2>1, <4>1
    <3>3. CASE ~(x >= y)
      <4>1. y \in Top(m)
        BY <2>2, <2>4, <3>1, <3>3
      <4> QED
        BY <2>1, <4>1
    <3> QED
      BY <3>2, <3>3
  <2> QED
    BY <2>5, <2>6
<1>2. \E x \in S : \A y \in S : x >= y
    BY <1>1
<1>3. Max(S) \in S /\ \A y \in S : Max(S) >= y
    BY <1>2 DEF Max
<1> QED
    BY <1>3
=============================================================================
