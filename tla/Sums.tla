-------------------------------- MODULE Sums --------------------------------
(***************************************************************************)
(* Sums over a finite set, as the accounts of Arena and FetchEngine state  *)
(* them: the community operator MapThenSumSet, which folds over an order   *)
(* that CHOOSE picks.  The lemmas say what the accounts need of it: the    *)
(* order does not matter, an element added or removed changes the sum by   *)
(* its weight, and a sum splits over a part and the rest.                  *)
(*                                                                         *)
(* Each induction is over the subsets of the set, written as a search for  *)
(* a smallest counterexample (Smallest).                                   *)
(***************************************************************************)
EXTENDS Integers, FiniteSets, FiniteSetsExt, TLAPS, FiniteSetTheorems, WellFoundedInduction

\* The weights W of the members of S, added up.
SumOf(W, S) == MapThenSumSet(LAMBDA x : W[x], S)

\* The member the fold takes first, and what it leaves.
Some(S) == CHOOSE x \in S : TRUE
Rest(S) == S \ {Some(S)}

\* f is the function the fold computes with, on the subsets of S.
Folds(f, W, S) ==
    f = [s \in SUBSET S |-> IF s = {} THEN 0 ELSE W[Some(s)] + f[Rest(s)]]
Fold(W, S) == CHOOSE f : Folds(f, W, S)

\* The sum is that function's value at the set.
LEMMA SumUnfolds ==
    ASSUME NEW W, NEW S
    PROVE  SumOf(W, S) = Fold(W, S)[S]
  BY DEF SumOf, MapThenSumSet, MapThenFoldSet, Fold, Folds, Some, Rest

\* The fold goes on with a smaller set.
LEMMA RestIsLess ==
    ASSUME NEW S, S # {}
    PROVE  Some(S) \in S /\ Rest(S) \subseteq S /\ Rest(S) # S
  BY DEF Some, Rest

\* Among the subsets of a finite set that have some property, one is minimal.
LEMMA Smallest ==
    ASSUME NEW S, IsFiniteSet(S), NEW F, F \subseteq SUBSET S, F # {}
    PROVE  \E T \in F : \A U \in F : U \subseteq T => U = T
<1>1. F \subseteq FiniteSubsetsOf(S)
  BY FS_FiniteSubsetsOfFinite
<1>2. PICK T \in F : \A U \in F : <<U, T>> \notin StrictSubsetOrdering(S)
  BY <1>1, FS_StrictSubsetOrderingWellFounded, WFMin
<1>3. ASSUME NEW U \in F, U \subseteq T, U # T PROVE FALSE
  <2>1. <<U, T>> \in (SUBSET S) \X (SUBSET S) OBVIOUS
  <2>. QED BY <1>2, <1>3, <2>1 DEF StrictSubsetOrdering
<1>. QED BY <1>3

\* Two such functions agree on every set both are defined on.
LEMMA FoldsAgree ==
    ASSUME NEW W, NEW S, NEW T, NEW f, NEW g, NEW r,
           Folds(f, W, S), Folds(g, W, T), IsFiniteSet(r), r \subseteq S, r \subseteq T
    PROVE  f[r] = g[r]
<1>. DEFINE F == {s \in SUBSET r : f[s] # g[s]}
<1>1. SUFFICES ASSUME f[r] # g[r] PROVE FALSE
  OBVIOUS
<1>2. F # {} /\ F \subseteq SUBSET r
  BY <1>1
<1>3. PICK s \in F : \A u \in F : u \subseteq s => u = s
  <2>. HIDE DEF F
  <2>. QED BY <1>2, Smallest
<1>4. s \in SUBSET S /\ s \in SUBSET T /\ f[s] # g[s] /\ s \subseteq r
  OBVIOUS
<1>5. /\ f[s] = IF s = {} THEN 0 ELSE W[Some(s)] + f[Rest(s)]
      /\ g[s] = IF s = {} THEN 0 ELSE W[Some(s)] + g[Rest(s)]
  BY <1>4 DEF Folds
<1>6. s # {}
  BY <1>4, <1>5
<1>7. f[Rest(s)] = g[Rest(s)]
  <2>1. Rest(s) \notin F
    BY <1>3, <1>6, RestIsLess
  <2>. QED BY <2>1, <1>4, <1>6, RestIsLess
<1>. QED BY <1>4, <1>5, <1>6, <1>7

\* There is such a function for every finite set.
LEMMA FoldExists ==
    ASSUME NEW W, NEW S, IsFiniteSet(S)
    PROVE  Folds(Fold(W, S), W, S)
<1>. DEFINE F == {s \in SUBSET S : ~ \E f : Folds(f, W, s)}
<1>1. SUFFICES ASSUME F # {} PROVE FALSE
  <2>1. S \notin F => \E f : Folds(f, W, S)
    OBVIOUS
  <2>2. (\E f : Folds(f, W, S)) => Folds(Fold(W, S), W, S)
    BY DEF Fold
  <2>. QED BY <2>1, <2>2
<1>2. PICK s \in F : \A u \in F : u \subseteq s => u = s
  <2>1. F \subseteq SUBSET S OBVIOUS
  <2>. HIDE DEF F
  <2>. QED BY <1>1, <2>1, Smallest
<1>3. ASSUME NEW u, u \subseteq s, u # s PROVE Folds(Fold(W, u), W, u)
  <2>1. u \in SUBSET S /\ u \notin F
    BY <1>2, <1>3
  <2>. QED BY <2>1 DEF Fold
<1>. DEFINE g == [u \in SUBSET s |-> IF u = {} THEN 0 ELSE W[Some(u)] + Fold(W, Rest(u))[Rest(u)]]
<1>4. ASSUME NEW u \in SUBSET s, u # {}
      PROVE  g[Rest(u)] = Fold(W, Rest(u))[Rest(u)]
  <2>. DEFINE v == Rest(u)
  <2>1. v \subseteq s /\ v # s /\ v \in SUBSET s
    BY <1>4, RestIsLess
  <2>2. Folds(Fold(W, v), W, v)
    BY <2>1, <1>3
  <2>3. v \in SUBSET v OBVIOUS
  <2>4. Fold(W, v)[v] = IF v = {} THEN 0 ELSE W[Some(v)] + Fold(W, v)[Rest(v)]
    <3>. HIDE DEF v
    <3>. QED BY <2>2, <2>3 DEF Folds
  <2>5. CASE v = {}
    BY <2>1, <2>4, <2>5
  <2>6. CASE v # {}
    <3>. DEFINE x == Rest(v)
    <3>1. x \subseteq v /\ x \subseteq s /\ x # s
      BY <2>1, <2>6, RestIsLess
    <3>2. Folds(Fold(W, x), W, x)
      BY <3>1, <1>3
    <3>3. IsFiniteSet(x)
      BY <3>1, FS_Subset
    <3>4. Fold(W, v)[x] = Fold(W, x)[x]
      <4>. HIDE DEF x, v
      <4>. QED BY <3>1, <3>2, <3>3, <2>2, FoldsAgree
    <3>5. g[v] = W[Some(v)] + Fold(W, x)[x]
      BY <2>1, <2>6
    <3>. QED BY <3>4, <3>5, <2>4, <2>6
  <2>. QED BY <2>5, <2>6
<1>5. Folds(g, W, s)
  <2>1. ASSUME NEW u \in SUBSET s
        PROVE  (IF u = {} THEN 0 ELSE W[Some(u)] + Fold(W, Rest(u))[Rest(u)])
               = (IF u = {} THEN 0 ELSE W[Some(u)] + g[Rest(u)])
    <3>. HIDE DEF g
    <3>. QED BY <1>4
  <2>. QED BY <2>1 DEF Folds
<1>6. \E f : Folds(f, W, s)
  <2>. HIDE DEF g
  <2>. QED BY <1>5
<1>. QED BY <1>6

\* Nothing adds up to zero.
LEMMA SumEmpty ==
    ASSUME NEW W
    PROVE  SumOf(W, {}) = 0
<1>1. Folds(Fold(W, {}), W, {})
  BY FS_EmptySet, FoldExists
<1>. QED BY <1>1, SumUnfolds DEF Folds

\* The fold's own step: the first member's weight and the rest's sum.
LEMMA SumSome ==
    ASSUME NEW W, NEW S, IsFiniteSet(S), S # {}
    PROVE  SumOf(W, S) = W[Some(S)] + SumOf(W, Rest(S))
<1>1. Rest(S) \subseteq S /\ IsFiniteSet(Rest(S))
  BY RestIsLess, FS_Subset
<1>2. Folds(Fold(W, S), W, S) /\ Folds(Fold(W, Rest(S)), W, Rest(S))
  BY <1>1, FoldExists
<1>3. Fold(W, S)[Rest(S)] = Fold(W, Rest(S))[Rest(S)]
  <2>. DEFINE r == Rest(S)
               f == Fold(W, S)
               g == Fold(W, r)
  <2>1. /\ Folds(f, W, S) /\ Folds(g, W, r) /\ IsFiniteSet(r)
        /\ r \subseteq S /\ r \subseteq r
    BY <1>1, <1>2
  <2>. HIDE DEF r, f, g
  <2>2. f[r] = g[r]
    BY <2>1, FoldsAgree
  <2>. QED BY <2>2 DEF r, f, g
<1>4. Fold(W, S)[S] = W[Some(S)] + Fold(W, S)[Rest(S)]
  BY <1>2 DEF Folds
<1>. QED BY <1>3, <1>4, SumUnfolds

\* Natural weights have a natural sum.
LEMMA SumType ==
    ASSUME NEW W, NEW S, IsFiniteSet(S), \A x \in S : W[x] \in Nat
    PROVE  SumOf(W, S) \in Nat
<1>. DEFINE F == {s \in SUBSET S : SumOf(W, s) \notin Nat}
<1>1. SUFFICES ASSUME F # {} PROVE FALSE
  OBVIOUS
<1>2. PICK s \in F : \A u \in F : u \subseteq s => u = s
  <2>1. F \subseteq SUBSET S OBVIOUS
  <2>. HIDE DEF F
  <2>. QED BY <1>1, <2>1, Smallest
<1>3. s \in SUBSET S /\ SumOf(W, s) \notin Nat
  OBVIOUS
<1>4. s # {} /\ IsFiniteSet(s)
  <2>. HIDE DEF F
  <2>1. SumOf(W, {}) = 0
    BY SumEmpty
  <2>2. IsFiniteSet(s)
    BY <1>3, FS_Subset
  <2>. QED BY <1>3, <2>1, <2>2
<1>5. Rest(s) \notin F /\ Rest(s) \in SUBSET S /\ Some(s) \in S
  BY <1>2, <1>3, <1>4, RestIsLess
<1>. QED BY <1>3, <1>4, <1>5, SumSome

\* The sum depends on the members' weights only.
LEMMA SumSame ==
    ASSUME NEW W, NEW V, NEW S, IsFiniteSet(S), \A x \in S : W[x] = V[x]
    PROVE  SumOf(W, S) = SumOf(V, S)
<1>. DEFINE F == {s \in SUBSET S : SumOf(W, s) # SumOf(V, s)}
<1>1. SUFFICES ASSUME F # {} PROVE FALSE
  OBVIOUS
<1>2. PICK s \in F : \A u \in F : u \subseteq s => u = s
  <2>1. F \subseteq SUBSET S OBVIOUS
  <2>. HIDE DEF F
  <2>. QED BY <1>1, <2>1, Smallest
<1>3. s # {} /\ IsFiniteSet(s)
  BY SumEmpty, FS_Subset
<1>4. Rest(s) \notin F /\ Rest(s) \in SUBSET S /\ Some(s) \in S
  BY <1>2, <1>3, RestIsLess
<1>. QED BY <1>3, <1>4, SumSome

\* Whatever member is added, not only the one the fold takes first, the sum
\* grows by its weight.
LEMMA SumAny ==
    ASSUME NEW W, NEW D, IsFiniteSet(D), \A y \in D : W[y] \in Nat
    PROVE  \A s \in SUBSET D : \A x \in D \ s : SumOf(W, s \cup {x}) = W[x] + SumOf(W, s)
<1>. DEFINE F == {s \in SUBSET D : \E x \in D \ s : SumOf(W, s \cup {x}) # W[x] + SumOf(W, s)}
<1>1. SUFFICES ASSUME F # {} PROVE FALSE
  OBVIOUS
<1>2. PICK s \in F : \A u \in F : u \subseteq s => u = s
  <2>1. F \subseteq SUBSET D OBVIOUS
  <2>. HIDE DEF F
  <2>. QED BY <1>1, <2>1, Smallest
<1>3. PICK x \in D \ s : SumOf(W, s \cup {x}) # W[x] + SumOf(W, s)
  OBVIOUS
<1>. DEFINE t == s \cup {x}
            y == Some(t)
<1>4. s \in SUBSET D /\ IsFiniteSet(s) /\ IsFiniteSet(t) /\ x \notin s
  BY FS_Subset, FS_AddElement
<1>5. y \in t /\ Rest(t) = t \ {y} /\ SumOf(W, t) = W[y] + SumOf(W, Rest(t))
  BY <1>4, SumSome, RestIsLess DEF Rest
<1>6. CASE y = x
  <2>1. Rest(t) = s
    BY <1>4, <1>5, <1>6
  <2>. QED BY <2>1, <1>3, <1>5, <1>6
<1>7. CASE y # x
  <2>. DEFINE r == s \ {y}
  <2>1. y \in s /\ r \in SUBSET D /\ r \subseteq s /\ r # s /\ s = r \cup {y}
    BY <1>4, <1>5, <1>7
  <2>2. Rest(t) = r \cup {x} /\ y \in D \ r /\ x \in D \ r /\ IsFiniteSet(r)
    BY <2>1, <1>4, <1>5, <1>7, FS_Subset
  <2>3. r \notin F
    BY <2>1, <1>2
  <2>4. /\ SumOf(W, r \cup {x}) = W[x] + SumOf(W, r)
        /\ SumOf(W, s) = W[y] + SumOf(W, r)
    BY <2>1, <2>2, <2>3
  <2>5. W[x] \in Nat /\ W[y] \in Nat /\ SumOf(W, r) \in Nat
    BY <2>1, <2>2, SumType
  <2>6. SumOf(W, t) = W[y] + (W[x] + SumOf(W, r))
    BY <1>5, <2>2, <2>4
  <2>. HIDE DEF r, t, y
  <2>. QED BY <1>3, <2>4, <2>5, <2>6 DEF t
<1>. QED BY <1>6, <1>7

\* A new member adds its weight.
LEMMA SumAdd ==
    ASSUME NEW W, NEW S, NEW x, IsFiniteSet(S), x \notin S,
           \A y \in S \cup {x} : W[y] \in Nat
    PROVE  SumOf(W, S \cup {x}) = W[x] + SumOf(W, S)
<1>1. IsFiniteSet(S \cup {x})
  BY FS_AddElement
<1>. QED BY <1>1, SumAny

\* A member that goes takes its weight along.
LEMMA SumRemove ==
    ASSUME NEW W, NEW S, NEW x \in S, IsFiniteSet(S), \A y \in S : W[y] \in Nat
    PROVE  SumOf(W, S \ {x}) = SumOf(W, S) - W[x]
<1>1. IsFiniteSet(S \ {x}) /\ S = (S \ {x}) \cup {x}
  BY FS_Subset
<1>2. SumOf(W, S) = W[x] + SumOf(W, S \ {x})
  BY <1>1, SumAdd
<1>3. W[x] \in Nat /\ SumOf(W, S \ {x}) \in Nat
  BY <1>1, SumType
<1>. QED BY <1>2, <1>3

\* The sum over a set is the sum over a part and the sum over the rest.
LEMMA SumSplit ==
    ASSUME NEW W, NEW S, NEW T \in SUBSET S, IsFiniteSet(S), \A y \in S : W[y] \in Nat
    PROVE  SumOf(W, S) = SumOf(W, T) + SumOf(W, S \ T)
<1>. DEFINE F == {s \in SUBSET S : T \subseteq s /\ SumOf(W, s) # SumOf(W, T) + SumOf(W, s \ T)}
<1>1. SUFFICES ASSUME F # {} PROVE FALSE
  OBVIOUS
<1>2. PICK s \in F : \A u \in F : u \subseteq s => u = s
  <2>1. F \subseteq SUBSET S OBVIOUS
  <2>. HIDE DEF F
  <2>. QED BY <1>1, <2>1, Smallest
<1>3. s \in SUBSET S /\ T \subseteq s /\ IsFiniteSet(s) /\ IsFiniteSet(T) /\ IsFiniteSet(s \ T)
  BY FS_Subset
<1>4. SumOf(W, T) \in Nat /\ SumOf(W, s) \in Nat /\ SumOf(W, s \ T) \in Nat
  BY <1>3, SumType
<1>5. SumOf(W, s) # SumOf(W, T) + SumOf(W, s \ T)
  OBVIOUS
<1>6. s \ T # {}
  <2>1. s \ T = {} => s = T
    BY <1>3
  <2>. QED BY <2>1, <1>4, <1>5, SumEmpty
<1>7. PICK x \in s \ T : TRUE
  BY <1>6
<1>. DEFINE r == s \ {x}
<1>8. r \in SUBSET S /\ r \subseteq s /\ r # s /\ T \subseteq r /\ r \notin F
  BY <1>2, <1>3, <1>7
<1>9. SumOf(W, r) = SumOf(W, T) + SumOf(W, r \ T)
  BY <1>8
<1>10. r \ T = (s \ T) \ {x}
  OBVIOUS
<1>11. SumOf(W, r) = SumOf(W, s) - W[x] /\ SumOf(W, r \ T) = SumOf(W, s \ T) - W[x]
  BY <1>3, <1>7, <1>10, SumRemove
<1>12. W[x] \in Nat
  BY <1>3, <1>7
<1>. HIDE DEF r
<1>. QED BY <1>4, <1>5, <1>9, <1>11, <1>12
=============================================================================
