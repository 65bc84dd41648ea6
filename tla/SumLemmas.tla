----------------------------- MODULE SumLemmas -----------------------------
(***************************************************************************)
(* Laws of the sums that the ledgers and the allocation are checked with:  *)
(* SumFunctionOnSet adds the terms of a set in an order that the library   *)
(* leaves open, and these are the laws that do not depend on it.  The      *)
(* induction over the set is by a smallest set for which a law fails.      *)
(***************************************************************************)
EXTENDS Integers, Functions, FiniteSetTheorems, TLAPS

(* What the iterator that defines a sum is: its value at a set is that of  *)
(* a chosen element and of the rest.                                       *)
Iterates(it, f, T) ==
  it = [s \in SUBSET T |->
           IF s = {} THEN 0 ELSE f[CHOOSE x \in s : TRUE] + it[s \ {CHOOSE x \in s : TRUE}]]

LEMMA SumUnfolds ==
  ASSUME NEW f, NEW S
  PROVE  SumFunctionOnSet(f, S) = (CHOOSE it : Iterates(it, f, S))[S]
BY DEF SumFunctionOnSet, FoldFunctionOnSet, MapThenFoldSet, Iterates

(* A nonempty set of subsets of a finite set has a minimal one. *)
LEMMA MinimalSubset ==
  ASSUME NEW S, IsFiniteSet(S), NEW F, F \subseteq SUBSET S, F # {}
  PROVE  \E T \in F : \A U \in SUBSET T : U \in F => U = T
<1>1. IsWellFoundedOn(StrictSubsetOrdering(S), SUBSET S)
  BY FS_StrictSubsetOrderingWellFounded, FS_FiniteSubsetsOfFinite
<1>2. PICK T \in F : \A U \in F : ~(<<U, T>> \in StrictSubsetOrdering(S))
  BY <1>1, WFMin
<1>3. ASSUME NEW U \in SUBSET T, U \in F PROVE U = T
  BY <1>2, <1>3 DEF StrictSubsetOrdering
<1> QED
  BY <1>3

LEMMA ChosenElement ==
  ASSUME NEW s, s # {}
  PROVE  (CHOOSE x \in s : TRUE) \in s
OBVIOUS

LEMMA IteratesAt ==
  ASSUME NEW it, NEW f, NEW T, Iterates(it, f, T), NEW s \in SUBSET T
  PROVE  it[s] = IF s = {} THEN 0 ELSE f[CHOOSE x \in s : TRUE] + it[s \ {CHOOSE x \in s : TRUE}]
BY DEF Iterates

LEMMA IteratesBelow ==
  ASSUME NEW it, NEW f, NEW T, Iterates(it, f, T), NEW U \in SUBSET T
  PROVE  Iterates([s \in SUBSET U |-> it[s]], f, U)
<1> DEFINE cut == [s \in SUBSET U |-> it[s]]
           step(h, s) == IF s = {} THEN 0 ELSE f[CHOOSE x \in s : TRUE] + h[s \ {CHOOSE x \in s : TRUE}]
<1>1. ASSUME NEW s \in SUBSET U PROVE cut[s] = step(cut, s)
  <2>1. it[s] = step(it, s)
    BY IteratesAt
  <2>2. s \ {CHOOSE x \in s : TRUE} \in SUBSET U
    OBVIOUS
  <2> QED
    BY <2>1, <2>2
<1>2. cut = [s \in SUBSET U |-> step(cut, s)]
  <2>1. cut = [s \in SUBSET U |-> cut[s]]
    OBVIOUS
  <2> HIDE DEF cut, step
  <2> QED
    BY <1>1, <2>1
<1> QED
  BY <1>2 DEF Iterates

LEMMA IteratesOnce ==
  ASSUME NEW S, IsFiniteSet(S), NEW f, NEW g, NEW h, Iterates(g, f, S), Iterates(h, f, S)
  PROVE  g = h
<1> DEFINE F == {s \in SUBSET S : g[s] # h[s]}
<1>1. g = [s \in SUBSET S |-> g[s]] /\ h = [s \in SUBSET S |-> h[s]]
  BY DEF Iterates
<1>2. CASE F = {}
  <2>1. \A s \in SUBSET S : g[s] = h[s]
    BY <1>2
  <2> QED
    BY <1>1, <2>1
<1>3. CASE F # {}
  <2>1. PICK T \in F : \A U \in SUBSET T : U \in F => U = T
    <3>1. F \subseteq SUBSET S
      OBVIOUS
    <3> HIDE DEF F
    <3> QED
      BY <1>3, <3>1, MinimalSubset
  <2>2. T \in SUBSET S /\ g[T] # h[T]
    OBVIOUS
  <2>3. T # {}
    BY <2>2, IteratesAt
  <2> DEFINE x == CHOOSE y \in T : TRUE
  <2>4. x \in T
    BY <2>3, ChosenElement
  <2>5. T \ {x} \in SUBSET T /\ T \ {x} # T
    BY <2>4
  <2>6. g[T \ {x}] = h[T \ {x}]
    BY <2>1, <2>2, <2>5
  <2>7. g[T] = f[x] + g[T \ {x}] /\ h[T] = f[x] + h[T \ {x}]
    BY <2>2, <2>3, IteratesAt
  <2> QED
    BY <2>2, <2>6, <2>7
<1> QED
  BY <1>2, <1>3

LEMMA IteratorExists ==
  ASSUME NEW S, IsFiniteSet(S), NEW f
  PROVE  \E it : Iterates(it, f, S)
<1> DEFINE F == {s \in SUBSET S : ~ \E it : Iterates(it, f, s)}
           its(s) == CHOOSE it : Iterates(it, f, s)
           ch(s) == CHOOSE y \in s : TRUE
<1> SUFFICES ASSUME F # {} PROVE FALSE
  OBVIOUS
<1>1. PICK T \in F : \A U \in SUBSET T : U \in F => U = T
  <2>1. F \subseteq SUBSET S
    OBVIOUS
  <2> HIDE DEF F
  <2> QED
    BY <2>1, MinimalSubset
<1>2. ASSUME NEW U \in SUBSET T, U # T PROVE Iterates(its(U), f, U)
  <2>1. U \in SUBSET S /\ U \notin F
    BY <1>1, <1>2
  <2>2. PICK it : Iterates(it, f, U)
    BY <2>1
  <2> QED
    BY <2>2
<1> DEFINE rest == T \ {ch(T)}
           g == [s \in SUBSET T |->
                    IF s = T /\ T # {} THEN f[ch(T)] + its(rest)[rest] ELSE its(s)[s]]
           step(h, s) == IF s = {} THEN 0 ELSE f[ch(s)] + h[s \ {ch(s)}]
<1>3. ASSUME NEW U \in SUBSET T, U # T, U # {}
      PROVE  its(U)[U] = f[ch(U)] + its(U \ {ch(U)})[U \ {ch(U)}]
  <2> DEFINE V == U \ {ch(U)}
  <2>1. ch(U) \in U
    BY <1>3, ChosenElement
  <2>2. V \in SUBSET U /\ V \in SUBSET T /\ V # T /\ V \in SUBSET V
    BY <1>3, <2>1
  <2>3. Iterates(its(U), f, U) /\ Iterates(its(V), f, V)
    BY <1>2, <1>3, <2>2
  <2> HIDE DEF V, its
  <2>4. Iterates([s \in SUBSET V |-> its(U)[s]], f, V)
    BY <2>2, <2>3, IteratesBelow
  <2>5. IsFiniteSet(V)
    BY <1>1, <2>2, FS_Subset
  <2>6. its(V) = [s \in SUBSET V |-> its(U)[s]]
    BY <2>3, <2>4, <2>5, IteratesOnce
  <2>7. its(V)[V] = its(U)[V]
    BY <2>2, <2>6
  <2>8. its(U)[U] = f[ch(U)] + its(U)[V]
    <3> DEFINE it == its(U)
    <3>1. Iterates(it, f, U) /\ U \in SUBSET U
      BY <2>3
    <3> HIDE DEF it
    <3>2. it[U] = f[ch(U)] + it[V]
      BY <1>3, <3>1, IteratesAt DEF V
    <3> QED
      BY <3>2 DEF it
  <2> QED
    BY <2>7, <2>8 DEF V
<1>4. Iterates(its({}), f, {})
  <2>1. Iterates([s \in SUBSET {} |-> 0], f, {})
    BY DEF Iterates
  <2> QED
    BY <2>1
<1>5. its({})[{}] = 0
  <2> HIDE DEF its
  <2> QED
    BY <1>4, IteratesAt
<1>6. ASSUME NEW s \in SUBSET T PROVE g[s] = step(g, s)
  <2>1. CASE s = {}
    BY <1>5, <2>1
  <2>2. CASE s = T /\ s # {}
    <3>1. ch(T) \in T
      BY <2>2, ChosenElement
    <3>2. rest \in SUBSET T /\ rest # T
      BY <3>1
    <3> HIDE DEF rest, its, ch
    <3>3. g[rest] = its(rest)[rest]
      BY <3>2
    <3> QED
      BY <2>2, <3>3 DEF rest
  <2>3. CASE s # T /\ s # {}
    <3> DEFINE v == s \ {ch(s)}
    <3>1. ch(s) \in s
      BY <2>3, ChosenElement
    <3>2. v \in SUBSET T /\ v # T
      BY <2>3, <3>1
    <3>3. its(s)[s] = f[ch(s)] + its(v)[v]
      BY <1>3, <2>3
    <3> HIDE DEF v, its, ch
    <3>4. g[s] = its(s)[s] /\ g[v] = its(v)[v]
      BY <2>3, <3>2
    <3> HIDE DEF g
    <3> QED
      BY <2>3, <3>3, <3>4 DEF v
  <2> QED
    BY <2>1, <2>2, <2>3
<1>7. Iterates(g, f, T)
  <2>1. g = [s \in SUBSET T |-> g[s]]
    OBVIOUS
  <2> HIDE DEF g, its
  <2>2. g = [s \in SUBSET T |-> step(g, s)]
    BY <1>6, <2>1
  <2> QED
    BY <2>2 DEF Iterates
<1> QED
  <2>1. T \in F
    OBVIOUS
  <2> HIDE DEF g
  <2> QED
    BY <1>7, <2>1

(* The sum over no element, and with a chosen element apart. *)
LEMMA SumOfNone == ASSUME NEW f PROVE SumFunctionOnSet(f, {}) = 0
<1>1. PICK it : Iterates(it, f, {})
  BY IteratorExists, FS_EmptySet
<1> DEFINE i == CHOOSE j : Iterates(j, f, {})
<1>2. Iterates(i, f, {})
  BY <1>1
<1> HIDE DEF i
<1>3. i[{}] = 0
  BY <1>2, IteratesAt
<1> QED
  BY <1>3, SumUnfolds DEF i

LEMMA SumOfChosen ==
  ASSUME NEW f, NEW S, IsFiniteSet(S), S # {}
  PROVE  LET x == CHOOSE y \in S : TRUE
         IN  SumFunctionOnSet(f, S) = f[x] + SumFunctionOnSet(f, S \ {x})
<1> DEFINE x == CHOOSE y \in S : TRUE
           R == S \ {x}
           its(s) == CHOOSE j : Iterates(j, f, s)
<1>1. IsFiniteSet(R) /\ R \in SUBSET S /\ R \in SUBSET R
  BY FS_Subset
<1>2. Iterates(its(S), f, S) /\ Iterates(its(R), f, R)
  BY <1>1, IteratorExists
<1>3. SumFunctionOnSet(f, S) = its(S)[S] /\ SumFunctionOnSet(f, R) = its(R)[R]
  BY SumUnfolds
<1> HIDE DEF its, R
<1>4. Iterates([s \in SUBSET R |-> its(S)[s]], f, R)
  BY <1>1, <1>2, IteratesBelow
<1>5. its(R) = [s \in SUBSET R |-> its(S)[s]]
  BY <1>1, <1>2, <1>4, IteratesOnce
<1>6. its(S)[S] = f[x] + its(S)[R]
  BY <1>2, IteratesAt DEF R
<1> QED
  BY <1>1, <1>3, <1>5, <1>6 DEF R

(* A sum of integers is an integer, and any element can be set apart. *)
LEMMA SumIsInt ==
  ASSUME NEW S, IsFiniteSet(S), NEW f, \A s \in S : f[s] \in Int
  PROVE  SumFunctionOnSet(f, S) \in Int
<1> DEFINE F == {T \in SUBSET S : SumFunctionOnSet(f, T) \notin Int}
<1> SUFFICES ASSUME F # {} PROVE FALSE
  OBVIOUS
<1>1. PICK T \in F : \A U \in SUBSET T : U \in F => U = T
  <2>1. F \subseteq SUBSET S
    OBVIOUS
  <2> HIDE DEF F
  <2> QED
    BY <2>1, MinimalSubset
<1>2. IsFiniteSet(T) /\ T \in SUBSET S /\ SumFunctionOnSet(f, T) \notin Int
  BY FS_Subset
<1>3. T # {}
  BY <1>2, SumOfNone
<1> DEFINE x == CHOOSE y \in T : TRUE
<1>4. SumFunctionOnSet(f, T) = f[x] + SumFunctionOnSet(f, T \ {x})
  BY <1>2, <1>3, SumOfChosen
<1>5. x \in T /\ T \ {x} \in SUBSET T /\ T \ {x} # T
  BY <1>3, ChosenElement
<1>6. SumFunctionOnSet(f, T \ {x}) \in Int
  BY <1>1, <1>2, <1>5
<1> QED
  BY <1>2, <1>4, <1>5, <1>6

LEMMA SumWithout ==
  ASSUME NEW S, IsFiniteSet(S), NEW f, \A s \in S : f[s] \in Int, NEW a \in S
  PROVE  SumFunctionOnSet(f, S) = f[a] + SumFunctionOnSet(f, S \ {a})
<1> DEFINE Sum(T) == SumFunctionOnSet(f, T)
           Good(T) == \A x \in T : Sum(T) = f[x] + Sum(T \ {x})
           F == {T \in SUBSET S : ~Good(T)}
<1> SUFFICES ASSUME F # {} PROVE FALSE
  BY S \in SUBSET S
<1>1. PICK T \in F : \A U \in SUBSET T : U \in F => U = T
  <2>1. F \subseteq SUBSET S
    OBVIOUS
  <2> HIDE DEF F
  <2> QED
    BY <2>1, MinimalSubset
<1>2. PICK x \in T : Sum(T) # f[x] + Sum(T \ {x})
  OBVIOUS
<1> DEFINE c == CHOOSE y \in T : TRUE
<1>3. T \in SUBSET S /\ IsFiniteSet(T) /\ c \in T
  BY FS_Subset, ChosenElement
<1>4. Sum(T) = f[c] + Sum(T \ {c})
  BY <1>3, SumOfChosen
<1> HIDE DEF c
<1>5. c # x
  BY <1>2, <1>4
<1>6. Good(T \ {c}) /\ Good(T \ {x})
  BY <1>1, <1>3
<1> DEFINE v == Sum((T \ {x}) \ {c})
<1>7. Sum(T \ {c}) = f[x] + v
  <2>1. (T \ {c}) \ {x} = (T \ {x}) \ {c} /\ x \in T \ {c}
    BY <1>5
  <2> QED
    BY <1>6, <2>1
<1>8. Sum(T \ {x}) = f[c] + v
  BY <1>3, <1>5, <1>6
<1>9. v \in Int /\ f[x] \in Int /\ f[c] \in Int
  BY <1>3, FS_Subset, SumIsInt
<1> DEFINE p == Sum(T)
           q == Sum(T \ {c})
           u == Sum(T \ {x})
<1>10. p = f[c] + q /\ q = f[x] + v /\ u = f[c] + v /\ p # f[x] + u
  BY <1>2, <1>4, <1>7, <1>8
<1> HIDE DEF p, q, u, v, F
<1> QED
  BY <1>9, <1>10

(* A sum depends only on the terms that it adds. *)
LEMMA SameTerms ==
  ASSUME NEW S, NEW f, NEW g, \A s \in S : f[s] = g[s]
  PROVE  SumFunctionOnSet(f, S) = SumFunctionOnSet(g, S)
<1>1. ASSUME NEW it PROVE Iterates(it, f, S) <=> Iterates(it, g, S)
  <2> DEFINE step(h, s) == IF s = {} THEN 0 ELSE h[CHOOSE x \in s : TRUE] + it[s \ {CHOOSE x \in s : TRUE}]
  <2>1. ASSUME NEW s \in SUBSET S PROVE step(f, s) = step(g, s)
    <3>1. s # {} => (CHOOSE x \in s : TRUE) \in S
      BY ChosenElement
    <3> QED
      BY <3>1
  <2> HIDE DEF step
  <2>2. [s \in SUBSET S |-> step(f, s)] = [s \in SUBSET S |-> step(g, s)]
    BY <2>1
  <2>3. Iterates(it, f, S) <=> it = [s \in SUBSET S |-> step(f, s)]
    BY DEF Iterates, step
  <2>4. Iterates(it, g, S) <=> it = [s \in SUBSET S |-> step(g, s)]
    BY DEF Iterates, step
  <2> QED
    BY <2>2, <2>3, <2>4
<1> HIDE DEF Iterates
<1>2. (CHOOSE it : Iterates(it, f, S)) = (CHOOSE it : Iterates(it, g, S))
  BY <1>1
<1> QED
  BY <1>2, SumUnfolds

LEMMA SumIsNat ==
  ASSUME NEW S, IsFiniteSet(S), NEW f, \A s \in S : f[s] \in Nat
  PROVE  SumFunctionOnSet(f, S) \in Nat
<1> DEFINE F == {T \in SUBSET S : SumFunctionOnSet(f, T) \notin Nat}
<1> SUFFICES ASSUME F # {} PROVE FALSE
  OBVIOUS
<1>1. PICK T \in F : \A U \in SUBSET T : U \in F => U = T
  <2>1. F \subseteq SUBSET S
    OBVIOUS
  <2> HIDE DEF F
  <2> QED
    BY <2>1, MinimalSubset
<1>2. IsFiniteSet(T) /\ T \in SUBSET S /\ SumFunctionOnSet(f, T) \notin Nat
  BY FS_Subset
<1>3. T # {}
  BY <1>2, SumOfNone
<1> DEFINE x == CHOOSE y \in T : TRUE
<1>4. SumFunctionOnSet(f, T) = f[x] + SumFunctionOnSet(f, T \ {x})
  BY <1>2, <1>3, SumOfChosen
<1>5. x \in T /\ T \ {x} \in SUBSET T /\ T \ {x} # T
  BY <1>3, ChosenElement
<1>6. SumFunctionOnSet(f, T \ {x}) \in Nat
  BY <1>1, <1>2, <1>5
<1> QED
  BY <1>2, <1>4, <1>5, <1>6

(* Nothing is added where every term is zero. *)
LEMMA SumOfZeros ==
  ASSUME NEW S, IsFiniteSet(S), NEW f, \A s \in S : f[s] = 0
  PROVE  SumFunctionOnSet(f, S) = 0
<1> DEFINE F == {T \in SUBSET S : SumFunctionOnSet(f, T) # 0}
<1> SUFFICES ASSUME F # {} PROVE FALSE
  OBVIOUS
<1>1. PICK T \in F : \A U \in SUBSET T : U \in F => U = T
  <2>1. F \subseteq SUBSET S
    OBVIOUS
  <2> HIDE DEF F
  <2> QED
    BY <2>1, MinimalSubset
<1>2. IsFiniteSet(T) /\ T \in SUBSET S /\ SumFunctionOnSet(f, T) # 0
  BY FS_Subset
<1>3. T # {}
  BY <1>2, SumOfNone
<1>4. PICK x \in T : TRUE
  BY <1>3
<1>5. SumFunctionOnSet(f, T) = f[x] + SumFunctionOnSet(f, T \ {x})
  BY <1>2, SumWithout
<1>6. SumFunctionOnSet(f, T \ {x}) = 0 /\ f[x] = 0
  BY <1>1, <1>2
<1> QED
  BY <1>2, <1>5, <1>6

(* Two parts of a set are summed apart. *)
LEMMA SumOfParts ==
  ASSUME NEW S, IsFiniteSet(S), NEW f, \A s \in S : f[s] \in Int, NEW A \in SUBSET S
  PROVE  SumFunctionOnSet(f, S) = SumFunctionOnSet(f, A) + SumFunctionOnSet(f, S \ A)
<1> DEFINE Sum(T) == SumFunctionOnSet(f, T)
           Good(T) == Sum(T \cup (S \ A)) = Sum(T) + Sum(S \ A)
           F == {T \in SUBSET A : ~Good(T)}
<1>0. IsFiniteSet(A) /\ IsFiniteSet(S \ A) /\ A \cup (S \ A) = S
  BY FS_Subset
<1> SUFFICES ASSUME F # {} PROVE FALSE
  BY <1>0, A \in SUBSET A
<1>1. PICK T \in F : \A U \in SUBSET T : U \in F => U = T
  <2>1. F \subseteq SUBSET A
    OBVIOUS
  <2> HIDE DEF F
  <2> QED
    BY <1>0, <2>1, MinimalSubset
<1>2. T \in SUBSET A /\ ~Good(T)
  OBVIOUS
<1>3. Sum(S \ A) \in Int
  BY <1>0, SumIsInt
<1>4. T # {}
  <2> SUFFICES ASSUME T = {} PROVE FALSE
    OBVIOUS
  <2>1. Sum(T) = 0
    BY SumOfNone
  <2>2. T \cup (S \ A) = S \ A
    OBVIOUS
  <2>3. Sum(T \cup (S \ A)) = Sum(S \ A)
    BY <2>2
  <2> DEFINE p == Sum(S \ A)
  <2>4. Sum(T \cup (S \ A)) = p /\ p \in Int
    BY <1>3, <2>3
  <2>5. Sum(T) + Sum(S \ A) = 0 + p
    BY <2>1
  <2> HIDE DEF p
  <2> QED
    BY <1>2, <2>4, <2>5
<1>5. PICK x \in T : TRUE
  BY <1>4
<1> DEFINE R == T \ {x}
<1>6. R \in SUBSET T /\ R # T /\ R \in SUBSET A
  BY <1>2
<1>7. Good(R)
  BY <1>1, <1>6
<1>8. (T \cup (S \ A)) \ {x} = R \cup (S \ A)
  BY <1>2
<1>9. IsFiniteSet(T) /\ IsFiniteSet(T \cup (S \ A)) /\ T \cup (S \ A) \in SUBSET S /\ IsFiniteSet(R)
  BY <1>2, FS_Subset
<1>10. Sum(T) = f[x] + Sum(R)
  BY <1>2, <1>9, SumWithout
<1>11. Sum(T \cup (S \ A)) = f[x] + Sum(R \cup (S \ A))
  BY <1>2, <1>8, <1>9, SumWithout
<1>12. Sum(R) \in Int /\ f[x] \in Int
  BY <1>2, <1>9, SumIsInt
<1> HIDE DEF R, F
<1> QED
  BY <1>2, <1>3, <1>7, <1>10, <1>11, <1>12

(* Two functions that differ only by one more term. *)
LEMMA OneMoreTerm ==
  ASSUME NEW f, NEW g, NEW n, IsFiniteSet(DOMAIN f), n \notin DOMAIN f,
         DOMAIN g = DOMAIN f \cup {n}, \A i \in DOMAIN f : g[i] = f[i] /\ f[i] \in Int, g[n] \in Int
  PROVE  SumFunction(g) = g[n] + SumFunction(f) /\ SumFunction(f) \in Int
<1>1. IsFiniteSet(DOMAIN g) /\ n \in DOMAIN g /\ (DOMAIN g) \ {n} = DOMAIN f
  BY FS_AddElement
<1>2. \A i \in DOMAIN g : g[i] \in Int
  OBVIOUS
<1>3. SumFunctionOnSet(g, DOMAIN g) = g[n] + SumFunctionOnSet(g, DOMAIN f)
  BY <1>1, <1>2, SumWithout
<1>4. SumFunctionOnSet(g, DOMAIN f) = SumFunctionOnSet(f, DOMAIN f)
  BY SameTerms
<1>5. SumFunctionOnSet(f, DOMAIN f) \in Int
  BY SumIsInt
<1> QED
  BY <1>3, <1>4, <1>5 DEF SumFunction

(* A sum with at most one term other than zero is that term. *)
LEMMA OnlyTerm ==
  ASSUME NEW S, IsFiniteSet(S), NEW f, NEW a \in S, f[a] \in Int, \A s \in S \ {a} : f[s] = 0
  PROVE  SumFunctionOnSet(f, S) = f[a]
<1>1. \A s \in S : f[s] \in Int
  OBVIOUS
<1>2. SumFunctionOnSet(f, S) = f[a] + SumFunctionOnSet(f, S \ {a})
  BY <1>1, SumWithout
<1>3. SumFunctionOnSet(f, S \ {a}) = 0
  BY FS_Subset, SumOfZeros
<1> QED
  BY <1>2, <1>3

=============================================================================
