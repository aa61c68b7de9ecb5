--------------------------- MODULE FoldTheorems ---------------------------
(***************************************************************************)
(* Induction over numbers and finite sets, stated for sets instead of      *)
(* predicates, and what it gives for the folds of the community modules.   *)
(***************************************************************************)
EXTENDS Functions, FiniteSetsExt, Sequences, WellFoundedInduction, FiniteSetTheorems, TLAPS

---------------------------------------------------------------------------
(* Induction                                                               *)

LEMMA LeastNumber ==
  ASSUME NEW T \in SUBSET Nat, T # {}
  PROVE  \E x \in T : \A y \in T : x <= y
<1> DEFINE R == OpToRel(<, Nat)
<1>1. IsWellFoundedOn(R, Nat)
  BY NatLessThanWellFounded
<1>2. \A x, y \in Nat : x < y => <<x, y>> \in R
  BY DEF OpToRel
<1> HIDE DEF R
<1>3. PICK x \in T : \A y \in T : ~ (<<y, x>> \in R)
  BY <1>1, WFMin
<1>4. ASSUME NEW y \in T PROVE x <= y
  <2>1. x \in Nat /\ y \in Nat /\ ~ (<<y, x>> \in R)
    BY <1>3
  <2>2. ~ (y < x)
    BY <1>2, <2>1
  <2>3. QED BY <2>1, <2>2
<1>5. QED BY <1>4

(* A set that has 0 and with each number the next has all numbers.         *)
LEMMA AllNumbers ==
  ASSUME NEW S, 0 \in S, \A n \in Nat : n \in S => n + 1 \in S
  PROVE  Nat \subseteq S
<1> SUFFICES ASSUME Nat \ S # {} PROVE FALSE
  OBVIOUS
<1>1. PICK x \in Nat \ S : \A y \in Nat \ S : x <= y
  BY LeastNumber
<1>2. x # 0 /\ x - 1 \in Nat
  BY <1>1
<1>3. x - 1 \in S
  BY <1>1, <1>2
<1>4. QED BY <1>1, <1>2, <1>3

(* What holds of a subset of a finite set as soon as it holds of all       *)
(* smaller ones holds of every subset.                                     *)
LEMMA AllSubsets ==
  ASSUME NEW D, IsFiniteSet(D), NEW P,
         \A s \in SUBSET D : (\A t \in SUBSET s : t # s => t \in P) => s \in P
  PROVE  \A s \in SUBSET D : s \in P
<1> DEFINE R == StrictSubsetOrdering(D)
           Q == (SUBSET D) \ P
<1>1. IsWellFoundedOn(R, SUBSET D)
  BY FS_StrictSubsetOrderingWellFounded, FS_FiniteSubsetsOfFinite
<1>2. \A s, t \in SUBSET D : t \subseteq s /\ t # s => <<t, s>> \in R
  BY DEF StrictSubsetOrdering
<1>3. Q \subseteq SUBSET D
  OBVIOUS
<1> HIDE DEF R
<1>4. ASSUME Q # {} PROVE FALSE
  <2>1. PICK s \in Q : \A t \in Q : ~ (<<t, s>> \in R)
    <3> HIDE DEF Q
    <3>1. QED BY <1>1, <1>3, <1>4, WFMin
  <2>2. ASSUME NEW t \in SUBSET s, t # s PROVE t \in P
    <3>1. s \in SUBSET D /\ t \in SUBSET D /\ t \subseteq s
      BY <2>1
    <3>2. <<t, s>> \in R
      BY <1>2, <2>2, <3>1
    <3>3. t \notin Q
      BY <2>1, <3>2
    <3>4. QED BY <3>1, <3>3
  <2>3. QED BY <2>1, <2>2
<1>5. QED BY <1>4

---------------------------------------------------------------------------
(* Folding over a finite set                                               *)

(* it folds the subsets of D: pick chooses the next element, step takes it *)
(* into what the others give.                                              *)
Folding(D, base, pick, step, it) ==
  \A s \in SUBSET D :
    it[s] = IF s = {} THEN base ELSE step[<<pick[s], it[s \ {pick[s]}]>>]

LEMMA FoldExists ==
  ASSUME NEW D, IsFiniteSet(D), NEW V, NEW base \in V, NEW pick,
         \A s \in SUBSET D : s # {} => pick[s] \in s,
         NEW step \in [D \X V -> V]
  PROVE  \E it \in [SUBSET D -> V] : Folding(D, base, pick, step, it)
<1> DEFINE Upto(n) == {s \in SUBSET D : Cardinality(s) <= n}
           Next(it, s) == IF s = {} THEN base ELSE step[<<pick[s], it[s \ {pick[s]}]>>]
           N == {n \in Nat : \E g \in [Upto(n) -> V] : \A s \in Upto(n) : g[s] = Next(g, s)}
<1>1. \A s \in SUBSET D : IsFiniteSet(s) /\ Cardinality(s) \in Nat
                          /\ (Cardinality(s) = 0 <=> s = {})
  BY FS_Subset, FS_CardinalityType, FS_EmptySet
<1>2. \A s \in SUBSET D : s # {} =>
        /\ pick[s] \in D /\ s \ {pick[s]} \in SUBSET D
        /\ Cardinality(s \ {pick[s]}) = Cardinality(s) - 1
  BY <1>1, FS_RemoveElement
<1>3. 0 \in N
  <2> DEFINE g == [s \in Upto(0) |-> base]
  <2>1. \A s \in Upto(0) : s = {}
    BY <1>1
  <2>2. g \in [Upto(0) -> V] /\ \A s \in Upto(0) : g[s] = Next(g, s)
    BY <2>1
  <2>3. QED BY <2>2
<1>4. ASSUME NEW n \in Nat, n \in N
      PROVE  n + 1 \in N
  <2>1. PICK g \in [Upto(n) -> V] : \A s \in Upto(n) : g[s] = Next(g, s)
    BY <1>4
  <2> DEFINE h == [s \in Upto(n + 1) |-> Next(g, s)]
  <2>2. \A s \in Upto(n + 1) : s # {} => s \ {pick[s]} \in Upto(n) /\ pick[s] \in D
    BY <1>1, <1>2
  <2>3. \A s \in Upto(n + 1) : Next(g, s) \in V
    BY <2>1, <2>2
  <2>4. h \in [Upto(n + 1) -> V]
    BY <2>3
  <2>5. \A s \in Upto(n) : s \in Upto(n + 1) /\ h[s] = g[s]
    BY <2>1, <1>1
  <2>6. \A s \in Upto(n + 1) : h[s] = Next(h, s)
    BY <2>2, <2>5
  <2> HIDE DEF h
  <2>7. \E g2 \in [Upto(n + 1) -> V] : \A s \in Upto(n + 1) : g2[s] = Next(g2, s)
    BY <2>4, <2>6
  <2> HIDE DEF Next, Upto
  <2>8. n + 1 \in Nat
    OBVIOUS
  <2>9. QED BY <2>7, <2>8, Zenon
<1>5. Cardinality(D) \in N
  <2>1. Cardinality(D) \in Nat
    BY FS_CardinalityType
  <2> HIDE DEF N
  <2>2. QED BY <1>3, <1>4, <2>1, AllNumbers
<1>6. Upto(Cardinality(D)) = SUBSET D
  BY FS_Subset
<1>7. QED BY <1>5, <1>6 DEF Folding

---------------------------------------------------------------------------
(* Sums                                                                    *)

(* it adds up f over the subsets of D the way SumFunctionOnSet does.       *)
Adding(f, D, it) ==
  \A s \in SUBSET D :
    it[s] = IF s = {} THEN 0
            ELSE f[CHOOSE x \in s : TRUE] + it[s \ {CHOOSE x \in s : TRUE}]

LEMMA AddingUnique ==
  ASSUME NEW f, NEW D, IsFiniteSet(D), NEW E, D \subseteq E, NEW it, NEW it2,
         Adding(f, D, it), Adding(f, E, it2)
  PROVE  it[D] = it2[D]
<1> DEFINE P == {s \in SUBSET D : it[s] = it2[s]}
<1>1. ASSUME NEW s \in SUBSET D, \A t \in SUBSET s : t # s => t \in P
      PROVE  s \in P
  <2>1. CASE s = {}
    BY <2>1 DEF Adding
  <2>2. CASE s # {}
    <3> DEFINE c == CHOOSE x \in s : TRUE
    <3>1. c \in s
      BY <2>2
    <3> HIDE DEF c
    <3>2. it[s \ {c}] = it2[s \ {c}]
      BY <1>1, <3>1
    <3>3. it[s] = f[c] + it[s \ {c}] /\ it2[s] = f[c] + it2[s \ {c}]
      BY <2>2 DEF Adding, c
    <3>4. QED BY <3>2, <3>3
  <2>3. QED BY <2>1, <2>2
<1>2. \A s \in SUBSET D : s \in P
  <2> HIDE DEF P
  <2>1. QED BY <1>1, AllSubsets
<1>3. QED BY <1>2

LEMMA AddingExists ==
  ASSUME NEW D, IsFiniteSet(D), NEW f, \A x \in D : f[x] \in Nat
  PROVE  \E it \in [SUBSET D -> Nat] : Adding(f, D, it)
<1> DEFINE pick == [s \in SUBSET D |-> CHOOSE x \in s : TRUE]
           step == [p \in D \X Nat |-> f[p[1]] + p[2]]
<1>1. \A s \in SUBSET D : s # {} => pick[s] \in s
  OBVIOUS
<1>2. step \in [D \X Nat -> Nat]
  OBVIOUS
<1>3. PICK it \in [SUBSET D -> Nat] : Folding(D, 0, pick, step, it)
  <2> HIDE DEF pick, step
  <2>1. QED BY <1>1, <1>2, FoldExists
<1>4. ASSUME NEW s \in SUBSET D
      PROVE  it[s] = IF s = {} THEN 0
                     ELSE f[CHOOSE x \in s : TRUE] + it[s \ {CHOOSE x \in s : TRUE}]
  <2>1. CASE s = {}
    BY <1>3, <2>1 DEF Folding
  <2>2. CASE s # {}
    <3> DEFINE c == CHOOSE x \in s : TRUE
    <3>1. pick[s] = c /\ c \in D /\ it[s \ {c}] \in Nat
      BY <1>3, <2>2
    <3> HIDE DEF c, pick
    <3>2. it[s] = step[<<c, it[s \ {c}]>>]
      BY <1>3, <2>2, <3>1 DEF Folding
    <3>3. it[s] = f[c] + it[s \ {c}]
      BY <3>1, <3>2
    <3>4. QED BY <2>2, <3>3 DEF c
  <2>3. QED BY <2>1, <2>2
<1>5. Adding(f, D, it)
  BY <1>4 DEF Adding
<1>6. QED BY <1>5

LEMMA SumIsAdding ==
  ASSUME NEW D, IsFiniteSet(D), NEW f, \A x \in D : f[x] \in Nat,
         NEW it \in [SUBSET D -> Nat], Adding(f, D, it)
  PROVE  \A s \in SUBSET D : SumFunctionOnSet(f, s) = it[s]
<1> SUFFICES ASSUME NEW s \in SUBSET D PROVE SumFunctionOnSet(f, s) = it[s]
  OBVIOUS
<1> DEFINE Steps(g) == [t \in SUBSET s |->
              IF t = {} THEN 0
              ELSE f[CHOOSE x \in t : TRUE] + g[t \ {CHOOSE x \in t : TRUE}]]
           sum == CHOOSE g : g = Steps(g)
<1>1. SumFunctionOnSet(f, s) = sum[s]
  BY Zenon DEF SumFunctionOnSet, FoldFunctionOnSet, MapThenFoldSet
<1>2. IsFiniteSet(s)
  BY FS_Subset
<1>3. \E g : g = Steps(g)
  <2>1. PICK g \in [SUBSET s -> Nat] : Adding(f, s, g)
    BY <1>2, AddingExists
  <2>2. g = Steps(g)
    BY <2>1 DEF Adding
  <2>3. QED BY <2>2, Zenon
<1>4. sum = Steps(sum)
  <2> HIDE DEF Steps
  <2>1. QED BY <1>3, Zenon
<1>5. Adding(f, s, sum)
  <2> HIDE DEF sum
  <2>1. QED BY <1>4, Zenon DEF Adding
<1>6. sum[s] = it[s]
  <2> HIDE DEF sum
  <2>1. QED BY <1>2, <1>5, AddingUnique
<1>7. QED BY <1>1, <1>6

(* Sums of natural numbers: the empty sum, its type, and what one more     *)
(* element adds.                                                           *)
LEMMA SumEmpty ==
  ASSUME NEW f
  PROVE  SumFunctionOnSet(f, {}) = 0
<1>1. PICK it \in [SUBSET {} -> Nat] : Adding(f, {}, it)
  BY FS_EmptySet, AddingExists
<1>2. SumFunctionOnSet(f, {}) = it[{}]
  <2>1. (\A x \in {} : f[x] \in Nat) /\ {} \in SUBSET {}
    OBVIOUS
  <2>2. \A s \in SUBSET {} : SumFunctionOnSet(f, s) = it[s]
    BY <1>1, <2>1, FS_EmptySet, SumIsAdding, Zenon
  <2>3. QED BY <2>1, <2>2
<1>3. it[{}] = 0
  BY <1>1 DEF Adding
<1>4. QED BY <1>2, <1>3

LEMMA SumType ==
  ASSUME NEW D, IsFiniteSet(D), NEW f, \A x \in D : f[x] \in Nat
  PROVE  \A s \in SUBSET D : SumFunctionOnSet(f, s) \in Nat
<1>1. PICK it \in [SUBSET D -> Nat] : Adding(f, D, it)
  BY AddingExists
<1>2. QED BY <1>1, SumIsAdding

LEMMA SumRemove ==
  ASSUME NEW D, IsFiniteSet(D), NEW f, \A x \in D : f[x] \in Nat
  PROVE  \A s \in SUBSET D : \A x \in s :
           SumFunctionOnSet(f, s) = f[x] + SumFunctionOnSet(f, s \ {x})
<1>1. PICK it \in [SUBSET D -> Nat] : Adding(f, D, it)
  BY AddingExists
<1> DEFINE P == {s \in SUBSET D : \A x \in s : it[s] = f[x] + it[s \ {x}]}
<1>2. ASSUME NEW s \in SUBSET D, \A t \in SUBSET s : t # s => t \in P
      PROVE  s \in P
  <2>1. SUFFICES ASSUME NEW x \in s PROVE it[s] = f[x] + it[s \ {x}]
    OBVIOUS
  <2> DEFINE c == CHOOSE y \in s : TRUE
  <2>2. c \in s
    BY <2>1
  <2>3. it[s] = f[c] + it[s \ {c}]
    BY <1>1, <2>1 DEF Adding
  <2> HIDE DEF c
  <2>4. CASE c = x
    BY <2>3, <2>4
  <2>5. CASE c # x
    <3>1. it[s \ {c}] = f[x] + it[(s \ {c}) \ {x}]
      BY <1>2, <2>1, <2>2, <2>5
    <3>2. it[s \ {x}] = f[c] + it[(s \ {x}) \ {c}]
      BY <1>2, <2>1, <2>2, <2>5
    <3>3. (s \ {c}) \ {x} = (s \ {x}) \ {c}
      OBVIOUS
    <3>4. f[x] \in Nat /\ f[c] \in Nat /\ it[(s \ {x}) \ {c}] \in Nat
      BY <2>1, <2>2
    <3>5. it[s \ {c}] = f[x] + it[(s \ {x}) \ {c}]
      BY <3>1, <3>3
    <3>6. f[c] + (f[x] + it[(s \ {x}) \ {c}]) = f[x] + (f[c] + it[(s \ {x}) \ {c}])
      BY <3>4
    <3>7. QED BY <2>3, <3>2, <3>5, <3>6
  <2>6. QED BY <2>4, <2>5
<1>3. \A s \in SUBSET D : s \in P
  <2> HIDE DEF P
  <2>1. QED BY <1>2, AllSubsets
<1>4. \A s \in SUBSET D : SumFunctionOnSet(f, s) = it[s]
  BY <1>1, SumIsAdding
<1>5. QED BY <1>3, <1>4

(* Equal summands, equal sums; smaller ones, smaller sums.                 *)
LEMMA SumMonotone ==
  ASSUME NEW D, IsFiniteSet(D), NEW f, NEW g,
         \A x \in D : f[x] \in Nat /\ g[x] \in Nat /\ f[x] <= g[x]
  PROVE  SumFunctionOnSet(f, D) <= SumFunctionOnSet(g, D)
<1> DEFINE P == {s \in SUBSET D : SumFunctionOnSet(f, s) <= SumFunctionOnSet(g, s)}
<1>1. ASSUME NEW s \in SUBSET D, \A t \in SUBSET s : t # s => t \in P
      PROVE  s \in P
  <2>1. CASE s = {}
    <3>1. SumFunctionOnSet(f, {}) = 0 /\ SumFunctionOnSet(g, {}) = 0
      BY SumEmpty
    <3>2. QED BY <2>1, <3>1
  <2>2. CASE s # {}
    <3>1. PICK x \in s : TRUE
      BY <2>2
    <3>2. SumFunctionOnSet(f, s \ {x}) <= SumFunctionOnSet(g, s \ {x})
      BY <1>1, <3>1
    <3>3. SumFunctionOnSet(f, s) = f[x] + SumFunctionOnSet(f, s \ {x})
      BY <3>1, SumRemove
    <3>4. SumFunctionOnSet(g, s) = g[x] + SumFunctionOnSet(g, s \ {x})
      BY <3>1, SumRemove
    <3>5. SumFunctionOnSet(f, s \ {x}) \in Nat /\ SumFunctionOnSet(g, s \ {x}) \in Nat
      BY SumType
    <3>6. QED BY <3>2, <3>3, <3>4, <3>5
  <2>3. QED BY <2>1, <2>2
<1>2. \A s \in SUBSET D : s \in P
  <2> HIDE DEF P
  <2>1. QED BY <1>1, AllSubsets
<1>3. QED BY <1>2

LEMMA SumSame ==
  ASSUME NEW D, IsFiniteSet(D), NEW f, NEW g, \A x \in D : f[x] \in Nat /\ g[x] = f[x]
  PROVE  SumFunctionOnSet(g, D) = SumFunctionOnSet(f, D)
<1>1. SumFunctionOnSet(f, D) <= SumFunctionOnSet(g, D)
  BY SumMonotone
<1>2. SumFunctionOnSet(g, D) <= SumFunctionOnSet(f, D)
  BY SumMonotone
<1>3. SumFunctionOnSet(f, D) \in Nat /\ SumFunctionOnSet(g, D) \in Nat
  BY SumType
<1>4. QED BY <1>1, <1>2, <1>3

LEMMA SumZero ==
  ASSUME NEW D, IsFiniteSet(D), NEW f, \A x \in D : f[x] = 0
  PROVE  SumFunctionOnSet(f, D) = 0
<1> DEFINE P == {s \in SUBSET D : SumFunctionOnSet(f, s) = 0}
<1>1. ASSUME NEW s \in SUBSET D, \A t \in SUBSET s : t # s => t \in P
      PROVE  s \in P
  <2>1. CASE s = {}
    BY <2>1, SumEmpty
  <2>2. CASE s # {}
    <3>1. PICK x \in s : TRUE
      BY <2>2
    <3>2. SumFunctionOnSet(f, s) = f[x] + SumFunctionOnSet(f, s \ {x})
      BY <3>1, SumRemove
    <3>3. SumFunctionOnSet(f, s \ {x}) = 0 /\ f[x] = 0
      BY <1>1, <3>1
    <3>4. QED BY <3>2, <3>3
  <2>3. QED BY <2>1, <2>2
<1>2. \A s \in SUBSET D : s \in P
  <2> HIDE DEF P
  <2>1. QED BY <1>1, AllSubsets
<1>3. QED BY <1>2

(* One summand changes.                                                    *)
LEMMA SumChange ==
  ASSUME NEW D, IsFiniteSet(D), NEW f, NEW g, NEW x \in D,
         \A y \in D : f[y] \in Nat, g[x] \in Nat, \A y \in D : y # x => g[y] = f[y]
  PROVE  /\ SumFunctionOnSet(g, D) + f[x] = SumFunctionOnSet(f, D) + g[x]
         /\ f[x] <= SumFunctionOnSet(f, D)
<1>1. SumFunctionOnSet(f, D) = f[x] + SumFunctionOnSet(f, D \ {x})
  BY SumRemove
<1>2. \A y \in D : g[y] \in Nat
  OBVIOUS
<1>3. SumFunctionOnSet(g, D) = g[x] + SumFunctionOnSet(g, D \ {x})
  BY <1>2, SumRemove
<1>4. SumFunctionOnSet(g, D \ {x}) = SumFunctionOnSet(f, D \ {x})
  <2>1. IsFiniteSet(D \ {x}) /\ \A y \in D \ {x} : f[y] \in Nat /\ g[y] = f[y]
    BY FS_RemoveElement
  <2>2. QED BY <2>1, SumSame
<1>5. SumFunctionOnSet(f, D \ {x}) \in Nat
  BY SumType
<1>6. QED BY <1>1, <1>3, <1>4, <1>5

(* Two sums added, and two sums combined value by value.                   *)
LEMMA SumPlus ==
  ASSUME NEW D, IsFiniteSet(D), NEW f, NEW g, NEW h,
         \A x \in D : f[x] \in Nat /\ g[x] \in Nat /\ h[x] = f[x] + g[x]
  PROVE  SumFunctionOnSet(h, D) = SumFunctionOnSet(f, D) + SumFunctionOnSet(g, D)
<1> DEFINE P == {s \in SUBSET D : SumFunctionOnSet(h, s)
                   = SumFunctionOnSet(f, s) + SumFunctionOnSet(g, s)}
<1>0. \A x \in D : h[x] \in Nat
  OBVIOUS
<1>1. ASSUME NEW s \in SUBSET D, \A t \in SUBSET s : t # s => t \in P
      PROVE  s \in P
  <2>1. CASE s = {}
    <3>1. SumFunctionOnSet(f, {}) = 0 /\ SumFunctionOnSet(g, {}) = 0
          /\ SumFunctionOnSet(h, {}) = 0
      BY SumEmpty
    <3>2. QED BY <2>1, <3>1
  <2>2. CASE s # {}
    <3>1. PICK x \in s : TRUE
      BY <2>2
    <3>2. SumFunctionOnSet(h, s \ {x})
            = SumFunctionOnSet(f, s \ {x}) + SumFunctionOnSet(g, s \ {x})
      BY <1>1, <3>1
    <3>3. SumFunctionOnSet(f, s) = f[x] + SumFunctionOnSet(f, s \ {x})
      BY <3>1, SumRemove
    <3>4. SumFunctionOnSet(g, s) = g[x] + SumFunctionOnSet(g, s \ {x})
      BY <3>1, SumRemove
    <3>5. SumFunctionOnSet(h, s) = h[x] + SumFunctionOnSet(h, s \ {x})
      BY <1>0, <3>1, SumRemove
    <3>6. SumFunctionOnSet(f, s \ {x}) \in Nat /\ SumFunctionOnSet(g, s \ {x}) \in Nat
      BY SumType
    <3>7. f[x] \in Nat /\ g[x] \in Nat /\ h[x] = f[x] + g[x]
      BY <3>1
    <3>8. SumFunctionOnSet(h, s) = SumFunctionOnSet(f, s) + SumFunctionOnSet(g, s)
      <4> DEFINE F == SumFunctionOnSet(f, s \ {x})
                 G == SumFunctionOnSet(g, s \ {x})
      <4> HIDE DEF F, G
      <4>1. F \in Nat /\ G \in Nat /\ SumFunctionOnSet(f, s) = f[x] + F
            /\ SumFunctionOnSet(g, s) = g[x] + G
            /\ SumFunctionOnSet(h, s) = (f[x] + g[x]) + (F + G)
        BY <3>2, <3>3, <3>4, <3>5, <3>6, <3>7 DEF F, G
      <4>2. QED BY <3>7, <4>1
    <3>9. QED BY <3>8
  <2>3. QED BY <2>1, <2>2
<1>2. \A s \in SUBSET D : s \in P
  <2> HIDE DEF P
  <2>1. QED BY <1>1, AllSubsets
<1>3. QED BY <1>2

(* Sorting the elements of a set by a function sorts the sum.              *)
LEMMA SumFibres ==
  ASSUME NEW D, IsFiniteSet(D), NEW f, \A x \in D : f[x] \in Nat,
         NEW R, IsFiniteSet(R), NEW g, \A x \in D : g[x] \in R
  PROVE  SumFunctionOnSet([r \in R |-> SumFunctionOnSet(f, {x \in D : g[x] = r})], R)
           = SumFunctionOnSet(f, D)
<1> DEFINE Fibre(s) == [r \in R |-> SumFunctionOnSet(f, {x \in s : g[x] = r})]
           P == {s \in SUBSET D : SumFunctionOnSet(Fibre(s), R) = SumFunctionOnSet(f, s)}
<1>0. \A s \in SUBSET D : \A r \in R : Fibre(s)[r] \in Nat
  <2>1. SUFFICES ASSUME NEW s \in SUBSET D, NEW r \in R
                 PROVE  SumFunctionOnSet(f, {x \in s : g[x] = r}) \in Nat
    OBVIOUS
  <2>2. {x \in s : g[x] = r} \in SUBSET D
    OBVIOUS
  <2>3. QED BY <2>2, SumType
<1>1. ASSUME NEW s \in SUBSET D, \A t \in SUBSET s : t # s => t \in P
      PROVE  s \in P
  <2>1. CASE s = {}
    <3>1. \A r \in R : Fibre(s)[r] = 0
      <4>1. SUFFICES ASSUME NEW r \in R
                     PROVE  SumFunctionOnSet(f, {x \in s : g[x] = r}) = 0
        OBVIOUS
      <4>2. {x \in s : g[x] = r} = {}
        BY <2>1
      <4>3. QED BY <4>2, SumEmpty
    <3>2. SumFunctionOnSet(Fibre(s), R) = 0
      <4> HIDE DEF Fibre
      <4>1. QED BY <3>1, SumZero
    <3>3. SumFunctionOnSet(f, s) = 0
      BY <2>1, SumEmpty
    <3>4. QED BY <3>2, <3>3
  <2>2. CASE s # {}
    <3>1. PICK x \in s : TRUE
      BY <2>2
    <3> DEFINE t == s \ {x}
    <3>2. SumFunctionOnSet(Fibre(t), R) = SumFunctionOnSet(f, t)
      BY <1>1, <3>1
    <3>3. SumFunctionOnSet(f, s) = f[x] + SumFunctionOnSet(f, t)
      BY <3>1, SumRemove
    <3>4. Fibre(s)[g[x]] = f[x] + Fibre(t)[g[x]]
      <4> DEFINE A == {y \in s : g[y] = g[x]}
      <4>1. A \in SUBSET D /\ x \in A /\ A \ {x} = {y \in t : g[y] = g[x]} /\ g[x] \in R
        BY <3>1
      <4>2. Fibre(s)[g[x]] = SumFunctionOnSet(f, A)
            /\ Fibre(t)[g[x]] = SumFunctionOnSet(f, A \ {x})
        BY <4>1
      <4> HIDE DEF A, Fibre
      <4>3. SumFunctionOnSet(f, A) = f[x] + SumFunctionOnSet(f, A \ {x})
        BY <4>1, SumRemove
      <4>4. QED BY <4>2, <4>3
    <3>5. \A r \in R : r # g[x] => Fibre(s)[r] = Fibre(t)[r]
      <4>1. SUFFICES ASSUME NEW r \in R, r # g[x]
                     PROVE  Fibre(s)[r] = Fibre(t)[r]
        OBVIOUS
      <4>2. {y \in s : g[y] = r} = {y \in t : g[y] = r}
        BY <4>1
      <4>3. QED BY <4>2
    <3>6. (\A r \in R : Fibre(t)[r] \in Nat) /\ Fibre(s)[g[x]] \in Nat /\ g[x] \in R
      BY <1>0, <3>1
    <3>7. SumFunctionOnSet(Fibre(s), R) + Fibre(t)[g[x]]
            = SumFunctionOnSet(Fibre(t), R) + Fibre(s)[g[x]]
      <4> HIDE DEF Fibre, t
      <4>1. QED BY <3>5, <3>6, SumChange
    <3>8. SumFunctionOnSet(Fibre(s), R) \in Nat /\ SumFunctionOnSet(Fibre(t), R) \in Nat
      <4> HIDE DEF Fibre
      <4>1. QED BY <1>0, <3>1, SumType
    <3>9. SumFunctionOnSet(Fibre(s), R) = SumFunctionOnSet(f, s)
      <4> HIDE DEF Fibre, t
      <4>1. f[x] \in Nat /\ Fibre(t)[g[x]] \in Nat
        BY <3>1, <3>6
      <4>2. QED BY <3>2, <3>3, <3>4, <3>7, <3>8, <4>1
    <3>10. QED BY <3>9
  <2>3. QED BY <2>1, <2>2
<1>2. \A s \in SUBSET D : s \in P
  <2> HIDE DEF P
  <2>1. QED BY <1>1, AllSubsets
<1>3. QED BY <1>2

(* A cardinality is a sum of ones.                                         *)
LEMMA SumOnes ==
  ASSUME NEW D, IsFiniteSet(D), NEW f, \A x \in D : f[x] = 1
  PROVE  \A s \in SUBSET D : SumFunctionOnSet(f, s) = Cardinality(s)
<1> DEFINE P == {s \in SUBSET D : SumFunctionOnSet(f, s) = Cardinality(s)}
<1>1. ASSUME NEW s \in SUBSET D, \A t \in SUBSET s : t # s => t \in P
      PROVE  s \in P
  <2>1. CASE s = {}
    BY <2>1, SumEmpty, FS_EmptySet
  <2>2. CASE s # {}
    <3>1. PICK x \in s : TRUE
      BY <2>2
    <3>2. SumFunctionOnSet(f, s) = f[x] + SumFunctionOnSet(f, s \ {x})
      BY <3>1, SumRemove
    <3>3. SumFunctionOnSet(f, s \ {x}) = Cardinality(s \ {x}) /\ f[x] = 1
      BY <1>1, <3>1
    <3>4. Cardinality(s) \in Nat /\ Cardinality(s \ {x}) = Cardinality(s) - 1
      <4>1. IsFiniteSet(s)
        BY FS_Subset
      <4>2. QED BY <3>1, <4>1, FS_RemoveElement, FS_CardinalityType
    <3>5. QED BY <3>2, <3>3, <3>4
  <2>3. QED BY <2>1, <2>2
<1>2. \A s \in SUBSET D : s \in P
  <2> HIDE DEF P
  <2>1. QED BY <1>1, AllSubsets
<1>3. QED BY <1>2

(* The sizes of the classes of a set add up to its size.                   *)
LEMMA ClassesAddUp ==
  ASSUME NEW D, IsFiniteSet(D), NEW R, IsFiniteSet(R), NEW g, \A x \in D : g[x] \in R
  PROVE  SumFunctionOnSet([r \in R |-> Cardinality({x \in D : g[x] = r})], R)
           = Cardinality(D)
<1> DEFINE one == [x \in D |-> 1]
<1>1. \A x \in D : one[x] = 1 /\ one[x] \in Nat
  OBVIOUS
<1> HIDE DEF one
<1>2. \A s \in SUBSET D : SumFunctionOnSet(one, s) = Cardinality(s)
  BY <1>1, SumOnes
<1>3. [r \in R |-> Cardinality({x \in D : g[x] = r})]
        = [r \in R |-> SumFunctionOnSet(one, {x \in D : g[x] = r})]
  <2>1. ASSUME NEW r \in R
        PROVE  Cardinality({x \in D : g[x] = r})
                 = SumFunctionOnSet(one, {x \in D : g[x] = r})
    <3>1. {x \in D : g[x] = r} \in SUBSET D
      OBVIOUS
    <3>2. QED BY <1>2, <3>1
  <2>2. QED BY <2>1
<1>4. SumFunctionOnSet([r \in R |-> SumFunctionOnSet(one, {x \in D : g[x] = r})], R)
        = SumFunctionOnSet(one, D)
  BY <1>1, SumFibres
<1>5. QED BY <1>2, <1>3, <1>4
---------------------------------------------------------------------------
(* Folding along a sequence, from the left: FoldLeft of SequencesExt takes *)
(* the members of the domain away from the end.                            *)

LEMMA LastOne ==
  ASSUME NEW n \in Nat, NEW v \in SUBSET (1 .. n), v # {}
  PROVE  Max(v) \in v /\ \A x \in v : x <= Max(v)
<1> DEFINE T == {n - x : x \in v}
<1>1. T \in SUBSET Nat /\ T # {}
  <2>1. \A x \in v : n - x \in Nat
    OBVIOUS
  <2>2. PICK x \in v : TRUE
    OBVIOUS
  <2>3. QED BY <2>1, <2>2
<1>2. PICK y \in T : \A z \in T : y <= z
  BY <1>1, LeastNumber
<1>3. PICK x \in v : y = n - x
  BY <1>2
<1>4. ASSUME NEW z \in v PROVE x >= z
  <2>1. n - x <= n - z
    BY <1>2, <1>3
  <2>2. QED BY <2>1
<1>5. Max(v) \in v /\ \A z \in v : Max(v) >= z
  BY <1>4, Zenon DEF Max
<1>6. QED BY <1>5

LEMMA Beginning ==
  ASSUME NEW n \in Nat, NEW k \in 1 .. n
  PROVE  /\ 1 .. k \in SUBSET (1 .. n) /\ 1 .. k # {}
         /\ Max(1 .. k) = k /\ (1 .. k) \ {k} = 1 .. k - 1
<1>1. 1 .. k \in SUBSET (1 .. n) /\ 1 .. k # {} /\ k \in 1 .. k
  OBVIOUS
<1>2. Max(1 .. k) \in 1 .. k /\ k <= Max(1 .. k)
  BY <1>1, LastOne
<1>3. QED BY <1>1, <1>2

(* it folds the parts of s's domain, as FoldLeft does.                     *)
FoldingLeft(s, base, step, it) ==
  \A v \in SUBSET DOMAIN s :
    it[v] = IF v = {} THEN base ELSE step[<<it[v \ {Max(v)}], s[Max(v)]>>]

(* it takes the members one by one, as long as it stays in V.              *)
OnTheWay(s, V, base, step, it) ==
  /\ it[{}] = base
  /\ \A k \in 1 .. Len(s) :
       it[1 .. k - 1] \in V => it[1 .. k] = step[<<it[1 .. k - 1], s[k]>>]

Passes(s, base, step, r) ==
  /\ r[0] = base
  /\ \A k \in 1 .. Len(s) : r[k] = step[<<r[k - 1], s[k]>>]

LEMMA LeftFoldExists ==
  ASSUME NEW S, NEW s \in Seq(S), NEW V, NEW base \in V, NEW step \in [V \X S -> V]
  PROVE  \E it \in [SUBSET DOMAIN s -> V] : FoldingLeft(s, base, step, it)
<1> DEFINE D == DOMAIN s
           pick == [v \in SUBSET D |-> Max(v)]
           take == [p \in D \X V |-> step[<<p[2], s[p[1]]>>]]
<1>1. D = 1 .. Len(s) /\ Len(s) \in Nat /\ \A x \in D : s[x] \in S
  OBVIOUS
<1>2. IsFiniteSet(D)
  BY <1>1, FS_Interval
<1>3. \A v \in SUBSET D : v # {} => Max(v) \in v
  BY <1>1, LastOne
<1>4. \A v \in SUBSET D : v # {} => pick[v] \in v
  BY <1>3
<1>5. take \in [D \X V -> V]
  BY <1>1
<1>6. PICK it \in [SUBSET D -> V] : Folding(D, base, pick, take, it)
  <2> HIDE DEF pick, take, D
  <2>1. QED BY <1>2, <1>4, <1>5, FoldExists
<1>7. ASSUME NEW v \in SUBSET D
      PROVE  it[v] = IF v = {} THEN base ELSE step[<<it[v \ {Max(v)}], s[Max(v)]>>]
  <2>1. CASE v = {}
    BY <1>6, <2>1 DEF Folding
  <2>2. CASE v # {}
    <3> DEFINE m == Max(v)
    <3>1. pick[v] = m /\ m \in D /\ it[v \ {m}] \in V
      BY <1>3, <2>2
    <3> HIDE DEF pick, m
    <3>2. it[v] = take[<<m, it[v \ {m}]>>]
      BY <1>6, <2>2, <3>1 DEF Folding
    <3>3. it[v] = step[<<it[v \ {m}], s[m]>>]
      BY <3>1, <3>2
    <3>4. QED BY <2>2, <3>3 DEF m
  <2>3. QED BY <2>1, <2>2
<1>8. QED BY <1>7 DEF FoldingLeft

Arrives(s, V, base, step, e) ==
  \E r \in [0 .. Len(s) -> V] : Passes(s, base, step, r) /\ r[Len(s)] = e

(* What a fold passes on its way through the sequence.                     *)
LEMMA LeftFoldPasses ==
  ASSUME NEW S, NEW s \in Seq(S), NEW V, NEW base \in V, NEW step \in [V \X S -> V],
         NEW it, OnTheWay(s, V, base, step, it)
  PROVE  Arrives(s, V, base, step, it[DOMAIN s])
<1> DEFINE r == [k \in 0 .. Len(s) |-> it[1 .. k]]
           G == {k \in Nat : k <= Len(s) => it[1 .. k] \in V}
<1>1. Len(s) \in Nat /\ DOMAIN s = 1 .. Len(s) /\ \A k \in 1 .. Len(s) : s[k] \in S
  OBVIOUS
<1>2. it[1 .. 0] = base
  <2>1. 1 .. 0 = {}
    OBVIOUS
  <2>2. QED BY <2>1 DEF OnTheWay
<1>3. 0 \in G
  BY <1>2
<1>4. ASSUME NEW k \in Nat, k \in G PROVE k + 1 \in G
  <2> SUFFICES ASSUME k + 1 <= Len(s) PROVE it[1 .. k + 1] \in V
    OBVIOUS
  <2>1. k + 1 \in 1 .. Len(s) /\ (k + 1) - 1 = k /\ it[1 .. k] \in V
    BY <1>1, <1>4
  <2>2. it[1 .. k + 1] = step[<<it[1 .. k], s[k + 1]>>]
    BY <2>1 DEF OnTheWay
  <2>3. QED BY <1>1, <2>1, <2>2
<1>5. \A k \in Nat : k \in G
  <2> HIDE DEF G
  <2>1. Nat \subseteq G
    BY <1>3, <1>4, AllNumbers
  <2>2. QED BY <2>1
<1>6. \A k \in 0 .. Len(s) : it[1 .. k] \in V
  BY <1>1, <1>5
<1>7. r \in [0 .. Len(s) -> V] /\ r[0] = base /\ r[Len(s)] = it[DOMAIN s]
  BY <1>1, <1>2, <1>6
<1>8. ASSUME NEW k \in 1 .. Len(s) PROVE r[k] = step[<<r[k - 1], s[k]>>]
  <2>1. k \in 0 .. Len(s) /\ k - 1 \in 0 .. Len(s)
    BY <1>1
  <2>2. QED BY <1>6, <2>1 DEF OnTheWay
<1>9. QED BY <1>7, <1>8 DEF Passes, Arrives

(* Adding up the numbers of a sequence.                                    *)
AddingUp(n, w, it) ==
  \A v \in SUBSET (1 .. n) :
    it[v] = IF v = {} THEN 0 ELSE it[v \ {Max(v)}] + w[Max(v)]

LEMMA AddingUpIsSum ==
  ASSUME NEW n \in Nat, NEW w \in [1 .. n -> Nat], NEW it, AddingUp(n, w, it)
  PROVE  it[1 .. n] = SumFunctionOnSet(w, 1 .. n)
<1> DEFINE D == 1 .. n
           P == {v \in SUBSET D : it[v] = SumFunctionOnSet(w, v)}
<1>1. IsFiniteSet(D) /\ \A x \in D : w[x] \in Nat
  <2>1. IsFiniteSet(D)
    BY FS_Interval
  <2>2. QED BY <2>1
<1>2. ASSUME NEW v \in SUBSET D, \A t \in SUBSET v : t # v => t \in P
      PROVE  v \in P
  <2>1. CASE v = {}
    BY <2>1, SumEmpty DEF AddingUp
  <2>2. CASE v # {}
    <3> DEFINE m == Max(v)
               u == v \ {m}
    <3>1. m \in v
      BY <2>2, LastOne
    <3>2. it[v] = it[u] + w[m]
      BY <2>2 DEF AddingUp
    <3> HIDE DEF m
    <3>3. u \in SUBSET v /\ u # v /\ u \in SUBSET D /\ m \in D
      BY <3>1
    <3>4. it[u] = SumFunctionOnSet(w, u)
      BY <1>2, <3>3
    <3> HIDE DEF D
    <3>5. SumFunctionOnSet(w, v) = w[m] + SumFunctionOnSet(w, u)
      BY <1>1, <3>1, SumRemove
    <3>6. SumFunctionOnSet(w, u) \in Nat /\ w[m] \in Nat
      BY <1>1, <3>3, SumType
    <3> HIDE DEF u
    <3>7. it[v] = SumFunctionOnSet(w, v)
      BY <3>2, <3>4, <3>5, <3>6
    <3>8. QED BY <3>7
  <2>3. QED BY <2>1, <2>2
<1>3. \A v \in SUBSET D : v \in P
  <2> HIDE DEF P, D
  <2>1. QED BY <1>1, <1>2, AllSubsets
<1>4. QED BY <1>3

LEMMA AddingUpExists ==
  ASSUME NEW n \in Nat, NEW w \in [1 .. n -> Nat]
  PROVE  \E it \in [SUBSET (1 .. n) -> Nat] : AddingUp(n, w, it)
<1> DEFINE D == 1 .. n
           it == [v \in SUBSET D |-> SumFunctionOnSet(w, v)]
<1>1. IsFiniteSet(D) /\ \A x \in D : w[x] \in Nat
  <2>1. IsFiniteSet(D)
    BY FS_Interval
  <2>2. QED BY <2>1
<1>2. it \in [SUBSET D -> Nat]
  <2> HIDE DEF D
  <2>1. \A v \in SUBSET D : SumFunctionOnSet(w, v) \in Nat
    BY <1>1, SumType
  <2>2. QED BY <2>1
<1>3. ASSUME NEW v \in SUBSET D
      PROVE  it[v] = IF v = {} THEN 0 ELSE it[v \ {Max(v)}] + w[Max(v)]
  <2>1. CASE v = {}
    BY <2>1, SumEmpty
  <2>2. CASE v # {}
    <3> DEFINE m == Max(v)
    <3>1. m \in v
      BY <2>2, LastOne
    <3> HIDE DEF m, D
    <3>2. SumFunctionOnSet(w, v) = w[m] + SumFunctionOnSet(w, v \ {m})
      BY <1>1, <3>1, SumRemove
    <3>3. it[v] = SumFunctionOnSet(w, v) /\ it[v \ {m}] = SumFunctionOnSet(w, v \ {m})
      OBVIOUS
    <3>4. w[m] \in Nat /\ it[v \ {m}] \in Nat
      BY <1>1, <1>2, <3>1
    <3> HIDE DEF it
    <3>5. it[v] = it[v \ {m}] + w[m]
      BY <3>2, <3>3, <3>4
    <3>6. QED BY <2>2, <3>5 DEF m
  <2>3. QED BY <2>1, <2>2
<1> HIDE DEF it
<1>4. AddingUp(n, w, it)
  BY <1>3 DEF AddingUp
<1>5. QED BY <1>2, <1>4

(* One more number.                                                        *)
LEMMA SumAppended ==
  ASSUME NEW k \in Nat, NEW w \in [1 .. k -> Nat], NEW w2 \in [1 .. k + 1 -> Nat],
         \A i \in 1 .. k : w2[i] = w[i]
  PROVE  /\ SumFunctionOnSet(w2, 1 .. k + 1) = SumFunctionOnSet(w, 1 .. k) + w2[k + 1]
         /\ SumFunctionOnSet(w, 1 .. k) \in Nat
<1> DEFINE D == 1 .. k
           E == 1 .. k + 1
<1>1. IsFiniteSet(D) /\ IsFiniteSet(E) /\ k + 1 \in E /\ E \ {k + 1} = D
  <2>1. IsFiniteSet(D)
    BY FS_Interval
  <2>2. IsFiniteSet(E)
    BY FS_Interval
  <2>3. QED BY <2>1, <2>2
<1>2. \A x \in D : w[x] \in Nat /\ w2[x] = w[x]
  OBVIOUS
<1>3. \A x \in E : w2[x] \in Nat
  OBVIOUS
<1> HIDE DEF D, E
<1>4. SumFunctionOnSet(w2, E) = w2[k + 1] + SumFunctionOnSet(w2, E \ {k + 1})
  BY <1>1, <1>3, SumRemove
<1>5. SumFunctionOnSet(w2, D) = SumFunctionOnSet(w, D)
  BY <1>1, <1>2, SumSame
<1>6. SumFunctionOnSet(w, D) \in Nat
  BY <1>1, <1>2, SumType
<1>7. w2[k + 1] \in Nat
  BY <1>1, <1>3
<1>8. SumFunctionOnSet(w2, E) = SumFunctionOnSet(w, D) + w2[k + 1]
  <2>1. SumFunctionOnSet(w2, E \ {k + 1}) = SumFunctionOnSet(w, D)
    BY <1>1, <1>5
  <2> DEFINE x == w2[k + 1]
             y == SumFunctionOnSet(w, D)
  <2>2. x \in Nat /\ y \in Nat /\ SumFunctionOnSet(w2, E) = x + y
    BY <1>4, <1>6, <1>7, <2>1
  <2> HIDE DEF x, y
  <2>3. SumFunctionOnSet(w2, E) = y + x
    BY <2>2
  <2>4. QED BY <2>3 DEF x, y
<1>9. QED BY <1>6, <1>8 DEF D, E

LEMMA SumsAreNumbers ==
  ASSUME NEW k \in Nat, NEW w \in [1 .. k -> Nat]
  PROVE  SumFunctionOnSet(w, 1 .. k) \in Nat
<1> DEFINE D == 1 .. k
<1>1. IsFiniteSet(D)
  BY FS_Interval
<1>2. \A x \in D : w[x] \in Nat
  OBVIOUS
<1> HIDE DEF D
<1>3. SumFunctionOnSet(w, D) \in Nat
  BY <1>1, <1>2, SumType
<1>4. QED BY <1>3 DEF D
===========================================================================
