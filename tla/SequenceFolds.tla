----------------------------- MODULE SequenceFolds -----------------------------
(***************************************************************************)
(* Induction over numbers and sequences, for the proofs: lemmas that hold  *)
(* of every set, number and sequence, none of them about the program.  The *)
(* library states induction for predicates; here sets of numbers take the  *)
(* place of these, and a fold is the last value of a function on prefixes. *)
(* A recursive function that is defined at each place by its values at     *)
(* later places has a value everywhere.                                    *)
(***************************************************************************)
EXTENDS Integers, Sequences, SequencesExt, WellFoundedInduction, TLAPS

\* A set that has 0, and with a number the next, has all.
LEMMA AllNumbers ==
  ASSUME NEW T \in SUBSET Nat, 0 \in T, \A n \in T : n + 1 \in T
  PROVE  \A n \in Nat : n \in T
<1> SUFFICES ASSUME Nat \ T # {} PROVE FALSE
  OBVIOUS
<1> DEFINE R == OpToRel(<, Nat)
<1>1. PICK m \in Nat \ T : \A k \in Nat \ T : ~(<< k, m >> \in R)
  <2>1. IsWellFoundedOn(R, Nat)
    BY NatLessThanWellFounded, Zenon
  <2>2. Nat \ T \subseteq Nat
    OBVIOUS
  <2> HIDE DEF R
  <2> QED
    BY <2>1, <2>2, WFMin, Zenon
<1>2. m # 0 /\ m - 1 \in Nat /\ m - 1 < m
  BY SMT
<1>3. << m - 1, m >> \in R
  BY <1>2, Zenon DEF OpToRel
<1> HIDE DEF R
<1>4. m - 1 \in T
  BY <1>1, <1>2, <1>3
<1>5. (m - 1) + 1 \in T
  BY <1>4
<1> QED
  BY <1>5, SMT

LEMMA MaxIs ==
  ASSUME NEW n \in Nat
  PROVE  \A s \in SUBSET (1 .. n) : s # {} => Max(s) \in s /\ \A x \in s : x <= Max(s)
<1> DEFINE T == {m \in Nat : \A s \in SUBSET (1 .. m) :
                    s # {} => \E x \in s : \A y \in s : x >= y}
<1>1. 0 \in T
  <2>1. 1 .. 0 = {}
    BY SMT
  <2> QED
    BY <2>1
<1>2. ASSUME NEW m \in T PROVE m + 1 \in T
  <2> SUFFICES ASSUME NEW s \in SUBSET (1 .. m + 1), s # {}
               PROVE  \E x \in s : \A y \in s : x >= y
    OBVIOUS
  <2>1. CASE m + 1 \in s
    BY <2>1, SMT
  <2>2. CASE m + 1 \notin s
    <3>1. s \in SUBSET (1 .. m)
      BY <2>2, SMT
    <3> QED
      BY <3>1
  <2> QED
    BY <2>1, <2>2
<1> HIDE DEF T
<1>3. n \in T
  BY <1>1, <1>2, AllNumbers DEF T
<1> TAKE s \in SUBSET (1 .. n)
<1>4. s # {} => \E x \in s : \A y \in s : x >= y
  BY <1>3 DEF T
<1>5. s # {} => Max(s) \in s /\ \A y \in s : Max(s) >= y
  BY <1>4 DEF Max
<1> QED
  BY <1>5, SMT

\* What FoldLeft() folds with a function.
FoldedWith(g, F, V, base, q) ==
  /\ g \in [SUBSET (DOMAIN q) -> V]
  /\ \A s \in SUBSET (DOMAIN q) :
       g[s] = IF s = {} THEN base ELSE F[<< g[s \ {Max(s)}], q[Max(s)] >>]

LEMMA FoldExists ==
  ASSUME NEW V, NEW E, NEW F \in [V \X E -> V], NEW base \in V, NEW q \in Seq(E)
  PROVE  \E g : FoldedWith(g, F, V, base, q)
<1> DEFINE Folds(g, n) ==
             \A s \in SUBSET (1 .. n) :
               g[s] = IF s = {} THEN base ELSE F[<< g[s \ {Max(s)}], q[Max(s)] >>]
           T == {n \in Nat : n <= Len(q) => \E g \in [SUBSET (1 .. n) -> V] : Folds(g, n)}
<1>1. 0 \in T
  <2> DEFINE g == [s \in SUBSET (1 .. 0) |-> base]
  <2>1. 1 .. 0 = {}
    BY SMT
  <2>2. g \in [SUBSET (1 .. 0) -> V] /\ Folds(g, 0)
    BY <2>1
  <2> QED
    BY <2>2
<1>2. ASSUME NEW n \in T PROVE n + 1 \in T
  <2>0. n \in Nat /\ n + 1 \in Nat
    BY SMT
  <2> HIDE DEF Folds
  <2> SUFFICES ASSUME n + 1 <= Len(q)
               PROVE  \E h \in [SUBSET (1 .. n + 1) -> V] : Folds(h, n + 1)
    BY <2>0
  <2> USE DEF Folds
  <2>1. n <= Len(q) /\ q[n + 1] \in E
    BY <2>0, SMT
  <2>2. PICK g \in [SUBSET (1 .. n) -> V] : Folds(g, n)
    BY <2>1
  <2> DEFINE h == [s \in SUBSET (1 .. n + 1) |->
                     IF n + 1 \in s THEN F[<< g[s \ {n + 1}], q[n + 1] >>] ELSE g[s]]
  <2>3. \A s \in SUBSET (1 .. n + 1) :
          /\ s \ {n + 1} \in SUBSET (1 .. n)
          /\ n + 1 \notin s => s \in SUBSET (1 .. n)
    BY SMT
  <2>4. h \in [SUBSET (1 .. n + 1) -> V]
    <3> SUFFICES ASSUME NEW s \in SUBSET (1 .. n + 1) PROVE h[s] \in V
      OBVIOUS
    <3>1. g[s \ {n + 1}] \in V
      BY <2>3
    <3>2. F[<< g[s \ {n + 1}], q[n + 1] >>] \in V
      BY <2>1, <3>1
    <3> QED
      BY <2>3, <3>2
  <2>5. Folds(h, n + 1)
    <3> SUFFICES ASSUME NEW s \in SUBSET (1 .. n + 1)
                 PROVE  h[s] = IF s = {} THEN base ELSE F[<< h[s \ {Max(s)}], q[Max(s)] >>]
      OBVIOUS
    <3>1. CASE n + 1 \in s
      <4>1. n + 1 \in Nat /\ s # {}
        BY <3>1, SMT
      <4>2. Max(s) \in s /\ \A x \in s : x <= Max(s)
        BY <4>1, MaxIs
      <4>3. Max(s) = n + 1
        <5>1. Max(s) \in 1 .. n + 1 /\ n + 1 <= Max(s)
          BY <3>1, <4>2
        <5> QED
          BY <5>1, SMT
      <4>4. s \ {n + 1} \in SUBSET (1 .. n + 1) /\ n + 1 \notin s \ {n + 1}
        OBVIOUS
      <4>5. h[s \ {n + 1}] = g[s \ {n + 1}]
        BY <4>4
      <4>6. h[s] = F[<< g[s \ {n + 1}], q[n + 1] >>]
        BY <3>1
      <4> HIDE DEF h
      <4> QED
        BY <4>1, <4>3, <4>5, <4>6
    <3>2. CASE n + 1 \notin s
      <4>1. s \in SUBSET (1 .. n) /\ h[s] = g[s]
        BY <2>3, <3>2
      <4>2. h[s \ {Max(s)}] = g[s \ {Max(s)}]
        BY <3>2
      <4>3. g[s] = IF s = {} THEN base ELSE F[<< g[s \ {Max(s)}], q[Max(s)] >>]
        BY <2>2, <4>1
      <4> HIDE DEF h
      <4> QED
        BY <4>1, <4>2, <4>3
    <3> QED
      BY <3>1, <3>2
  <2> HIDE DEF h, Folds
  <2> QED
    BY <2>4, <2>5
<1> HIDE DEF T, Folds
<1>3. Len(q) \in Nat /\ DOMAIN q = 1 .. Len(q) /\ Len(q) <= Len(q)
  BY SMT
<1>4. Len(q) \in T
  BY <1>1, <1>2, <1>3, AllNumbers DEF T
<1>5. \E g \in [SUBSET (1 .. Len(q)) -> V] : Folds(g, Len(q))
  BY <1>3, <1>4, Zenon DEF T
<1> QED
  BY <1>3, <1>5 DEF Folds, FoldedWith

\* And it runs from the first element to the last.
LEMMA FoldRuns ==
  ASSUME NEW n \in Nat
  PROVE  /\ 1 .. 0 = {}
         /\ \A i \in 1 .. n : /\ 1 .. i \in SUBSET (1 .. n) /\ 1 .. i # {}
                              /\ Max(1 .. i) = i
                              /\ (1 .. i) \ {Max(1 .. i)} = 1 .. (i - 1)
                              /\ 1 .. (i - 1) \in SUBSET (1 .. n)
<1>1. 1 .. 0 = {}
  BY SMT
<1>2. ASSUME NEW i \in 1 .. n
      PROVE  /\ 1 .. i \in SUBSET (1 .. n) /\ 1 .. i # {}
             /\ Max(1 .. i) = i
             /\ (1 .. i) \ {Max(1 .. i)} = 1 .. (i - 1)
             /\ 1 .. (i - 1) \in SUBSET (1 .. n)
  <2>1. 1 .. i \in SUBSET (1 .. n) /\ i \in 1 .. i /\ i \in Nat
        /\ 1 .. (i - 1) \in SUBSET (1 .. n)
    BY SMT
  <2>2. Max(1 .. i) \in 1 .. i /\ \A x \in 1 .. i : x <= Max(1 .. i)
    BY <2>1, MaxIs
  <2>3. Max(1 .. i) = i
    BY <2>1, <2>2, SMT
  <2>4. (1 .. i) \ {i} = 1 .. (i - 1)
    BY SMT
  <2> QED
    BY <2>1, <2>3, <2>4
<1> QED
  BY <1>1, <1>2

-----------------------------------------------------------------------------
(* Small facts *)

LEMMA OneMore ==
  ASSUME NEW n \in Nat
  PROVE  /\ n + 1 \in Nat /\ n + 1 # 0 /\ (n + 1) - 1 = n /\ n < n + 1
         /\ n + 1 \in 1 .. n + 1 /\ n + 1 \notin 1 .. n
         /\ 1 .. n + 1 = (1 .. n) \cup {n + 1}
         /\ \A i \in 1 .. n : i \in 1 .. n + 1
         /\ \A i \in 1 .. n + 1 : i \in 1 .. n \/ i = n + 1
  BY SMT

LEMMA ElementsOf ==
  ASSUME NEW E, NEW q \in Seq(E)
  PROVE  /\ Len(q) \in Nat /\ DOMAIN q = 1 .. Len(q)
         /\ \A i \in 1 .. Len(q) : q[i] \in E
         /\ q # << >> => Len(q) # 0
  BY SMT

\* What holds of a place, if it does of all later ones, holds of all.
LEMMA Backwards ==
  ASSUME NEW N \in Nat, NEW S,
         \A i \in 1 .. N : (\A j \in 1 .. N : j > i => j \in S) => i \in S
  PROVE  \A i \in 1 .. N : i \in S
<1> DEFINE T == {n \in Nat : \A i \in 1 .. N : i + n > N => i \in S}
<1>1. 0 \in T
  BY SMT
<1>2. ASSUME NEW n \in T PROVE n + 1 \in T
  <2>1. n \in Nat /\ \A i \in 1 .. N : i + n > N => i \in S
    OBVIOUS
  <2>2. ASSUME NEW i \in 1 .. N, i + (n + 1) > N PROVE i \in S
    <3>1. \A j \in 1 .. N : j > i => j + n > N
      BY <2>1, <2>2, SMT
    <3> QED
      BY <2>1, <3>1
  <2> QED
    BY <2>1, <2>2
<1>3. T \in SUBSET Nat
  OBVIOUS
<1> HIDE DEF T
<1>4. N \in T
  BY <1>1, <1>2, <1>3, AllNumbers
<1>5. \A i \in 1 .. N : i + N > N
  BY SMT
<1> QED
  BY <1>4, <1>5 DEF T

\* F makes functions on D, and what it makes at d depends only on the values at
\* later places; a fixed point of F is the function so defined.
LooksAhead(F, D, V, N, pos) ==
  /\ F \in [[D -> V] -> [D -> V]]
  /\ N \in Nat /\ pos \in [D -> 0 .. N]
  /\ \A g, h \in [D -> V], d \in D :
       (\A e \in D : pos[e] > pos[d] => g[e] = h[e]) => F[g][d] = F[h][d]
HasFixedPoint(F, D, V) == \E f \in [D -> V] : F[f] = f

\* There is one: applying F once more settles one more place, from the last one on.
LEMMA FixedPoint ==
  ASSUME NEW D, NEW V, NEW N, NEW pos, NEW F, LooksAhead(F, D, V, N, pos), V # {}
  PROVE  HasFixedPoint(F, D, V)
<1> USE DEF LooksAhead
<1> DEFINE Fixed(g, n) == \A d \in D : pos[d] + n > N => F[g][d] = g[d]
           T == {n \in Nat : \E g \in [D -> V] : Fixed(g, n)}
<1>1. 0 \in T
  <2>1. PICK v : v \in V
    OBVIOUS
  <2>2. [d \in D |-> v] \in [D -> V]
    BY <2>1
  <2>3. \A d \in D : ~(pos[d] + 0 > N)
    BY SMT
  <2> QED
    BY <2>2, <2>3
<1>2. ASSUME NEW n \in T PROVE n + 1 \in T
  <2>1. n \in Nat
    OBVIOUS
  <2>2. PICK g \in [D -> V] : Fixed(g, n)
    OBVIOUS
  <2>3. F[g] \in [D -> V]
    OBVIOUS
  <2>4. ASSUME NEW d \in D, pos[d] + (n + 1) > N PROVE F[F[g]][d] = F[g][d]
    <3>1. ASSUME NEW e \in D, pos[e] > pos[d] PROVE F[g][e] = g[e]
      <4>1. pos[e] + n > N
        BY <2>1, <2>4, <3>1, SMT
      <4> QED
        BY <2>2, <4>1
    <3> QED
      BY <2>3, <3>1
  <2>5. Fixed(F[g], n + 1)
    BY <2>4
  <2>6. n + 1 \in Nat
    BY <2>1
  <2> HIDE DEF Fixed
  <2> QED
    BY <2>3, <2>5, <2>6
<1>3. T \in SUBSET Nat
  OBVIOUS
<1> HIDE DEF T
<1>4. N + 1 \in T
  BY <1>1, <1>2, <1>3, AllNumbers
<1>5. PICK g \in [D -> V] : Fixed(g, N + 1)
  BY <1>4 DEF T
<1>6. \A d \in D : pos[d] + (N + 1) > N
  BY SMT
<1>7. \A d \in D : F[g][d] = g[d]
  BY <1>5, <1>6
<1>8. F[g] \in [D -> V]
  OBVIOUS
<1> QED
  BY <1>5, <1>7, <1>8 DEF HasFixedPoint

=============================================================================
