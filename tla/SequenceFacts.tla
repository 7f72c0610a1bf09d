----------------------------- MODULE SequenceFacts -----------------------------
(***************************************************************************)
(* What a fold over a sequence computes, and what is picked from one by    *)
(* position.                                                               *)
(* The community modules define FoldLeft as a fold over the set of the     *)
(* positions, the last one first; the proofs about this repository's loops *)
(* want to go through the sequence from its first element on.  All lemmas  *)
(* quantify over sets and functions, never over operators, so that the     *)
(* provers can use them: a loop's operator is first made a function F of   *)
(* its state and an element.                                               *)
(***************************************************************************)
EXTENDS Positions, SequencesExt, SequenceTheorems, FiniteSetTheorems, WellFoundedInduction, TLAPS

\* Every set of numbers that is not empty has a least one.
LEMMA NatLeast ==
    ASSUME NEW S, S \subseteq Nat, S # {}
    PROVE  \E m \in S : \A k \in S : m <= k
<1> DEFINE R == OpToRel(<, Nat)
<1>1. IsWellFoundedOn(R, Nat)
  BY NatLessThanWellFounded
<1>2. R = {ss \in Nat \X Nat : ss[1] < ss[2]}
  BY DEF OpToRel
<1> HIDE DEF R
<1>3. PICK m \in S : \A y \in S : ~ (<<y, m>> \in R)
  BY <1>1, WFMin
<1>4. ASSUME NEW k \in S PROVE m <= k
  <2>1. k \in Nat /\ m \in Nat /\ <<k, m>> \notin R
    BY <1>3
  <2>2. k < m => <<k, m>> \in R
    BY <1>2, <2>1
  <2> QED
    BY <2>1, <2>2
<1> QED
  BY <1>4

LEMMA MinIsLeast ==
    ASSUME NEW S, S \subseteq Nat, S # {}
    PROVE  Min(S) \in S /\ \A k \in S : Min(S) <= k
BY NatLeast DEF Min

\* Induction, over a set of numbers instead of a predicate.
LEMMA NatSetInduction ==
    ASSUME NEW S, 0 \in S, \A n \in Nat : n \in S => n + 1 \in S
    PROVE  Nat \subseteq S
<1> DEFINE Out == Nat \ S
<1>1. Out # {} => \E m \in Out : \A k \in Out : m <= k
  BY NatLeast
<1>2. QED
  BY <1>1

\* The same up to a bound.
LEMMA UpToInduction ==
    ASSUME NEW n \in Nat, NEW S, 0 \in S, \A i \in 1..n : i - 1 \in S => i \in S
    PROVE  0..n \subseteq S
<1> DEFINE T == {i \in Nat : i <= n => i \in S}
<1>1. Nat \subseteq T
  <2>1. 0 \in T
    OBVIOUS
  <2>2. ASSUME NEW i \in Nat, i \in T PROVE i + 1 \in T
    <3>1. CASE i + 1 <= n
      BY <2>2, <3>1
    <3> QED
      BY <3>1
  <2> HIDE DEF T
  <2> QED
    BY <2>1, <2>2, NatSetInduction
<1> QED
  BY <1>1

-----------------------------------------------------------------------------
\* A set of positions that is not empty has a last one.
LEMMA LastOf ==
    ASSUME NEW n \in Nat, NEW S \in SUBSET (1..n), S # {}
    PROVE  Max(S) \in S /\ \A i \in S : i <= Max(S)
<1> DEFINE Up == {m \in Nat : \A i \in S : i <= m}
<1>1. n \in Up /\ Up # {} /\ Up \subseteq Nat
  OBVIOUS
<1>2. PICK m \in Up : \A j \in Up : m <= j
  BY <1>1, NatLeast
<1>3. m \in S
  <2> SUFFICES ASSUME m \notin S PROVE FALSE
    OBVIOUS
  <2>1. m # 0 /\ m - 1 \in Nat
    <3>1. PICK e \in S : e \in 1..n
      OBVIOUS
    <3> QED
      BY <1>2, <3>1
  <2>2. m - 1 \in Up
    BY <1>2, <2>1
  <2> QED
    BY <1>2, <2>1, <2>2
<1>4. \A i \in S : m >= i
  BY <1>2
<1>5. \E x \in S : \A y \in S : x >= y
  BY <1>3, <1>4
<1>6. Max(S) \in S /\ \A y \in S : Max(S) >= y
  BY <1>5 DEF Max
<1> QED
  BY <1>6

LEMMA WithoutLast ==
    ASSUME NEW n \in Nat, NEW S \in SUBSET (1..n), S # {}
    PROVE  S \ {Max(S)} \in SUBSET (1..n - 1)
<1>1. Max(S) \in S /\ \A i \in S : i <= Max(S)
  BY LastOf
<1>2. ASSUME NEW i \in S, i # Max(S) PROVE i \in 1..n - 1
  <2>1. i <= Max(S) /\ i \in 1..n /\ Max(S) \in 1..n
    BY <1>1
  <2> QED
    BY <1>2, <2>1
<1> QED
  BY <1>2

LEMMA LastIs ==
    ASSUME NEW n \in Nat, NEW S \in SUBSET (1..n), n \in S
    PROVE  Max(S) = n
<1>1. Max(S) \in 1..n /\ n <= Max(S)
  BY LastOf
<1> QED
  BY <1>1

(***************************************************************************)
(* The first n elements of s, folded by F from base on.  The predicates    *)
(* keep the types of what they are about to themselves: a prover finds the *)
(* instance of a lemma by them.                                            *)
(***************************************************************************)
IsFold(T, E, F, base, s, n) ==
    n \in Nat /\ s \in [1..n -> E] /\ base \in T /\ F \in [T \X E -> T]

\* The recursion by which MapThenFoldSet defines a fold: over the set of the
\* positions, of which the last is taken first.
Recursion(g, F, base, s, n) ==
    \A S \in SUBSET (1..n) :
        g[S] = IF S = {} THEN base ELSE F[<<g[S \ {Max(S)}], s[Max(S)]>>]

Folds(g, T, F, base, s, n) ==
    g \in [SUBSET (1..n) -> T] /\ Recursion(g, F, base, s, n)

\* The same of a function that is not known to stay within T.
Unfolds(h, T, F, base, s, n) ==
    /\ h[{}] = base
    /\ \A S \in SUBSET (1..n) : S # {} /\ h[S \ {Max(S)}] \in T =>
           h[S] = F[<<h[S \ {Max(S)}], s[Max(S)]>>]

\* There is a function that it defines,
LEMMA FoldExists ==
    ASSUME NEW T, NEW E, NEW F, NEW base, NEW s, NEW n, IsFold(T, E, F, base, s, n)
    PROVE  \E g : Folds(g, T, F, base, s, n)
<1> USE DEF IsFold
<1> DEFINE D == {m \in 0..n : \E g \in [SUBSET (1..m) -> T] : Recursion(g, F, base, s, m)}
<1>1. 0 \in D
  <2> DEFINE g == [S \in SUBSET (1..0) |-> base]
  <2>1. \A S \in SUBSET (1..0) : S = {}
    OBVIOUS
  <2>2. g \in [SUBSET (1..0) -> T] /\ Recursion(g, F, base, s, 0)
    BY <2>1 DEF Recursion
  <2> QED
    BY <2>2
<1>2. ASSUME NEW m \in 1..n, m - 1 \in D PROVE m \in D
  <2>1. PICK g \in [SUBSET (1..m - 1) -> T] : Recursion(g, F, base, s, m - 1)
    BY <1>2
  <2> DEFINE new == [S \in SUBSET (1..m) |->
                       IF m \in S THEN F[<<g[S \ {m}], s[m]>>] ELSE g[S]]
  <2>2. \A S \in SUBSET (1..m) : /\ S \ {m} \in SUBSET (1..m - 1)
                                 /\ m \notin S => S \in SUBSET (1..m - 1)
    OBVIOUS
  <2>3. \A a \in T, b \in E : F[<<a, b>>] \in T
    OBVIOUS
  <2>4. ASSUME NEW S \in SUBSET (1..m)
        PROVE  (IF m \in S THEN F[<<g[S \ {m}], s[m]>>] ELSE g[S]) \in T
    BY <2>1, <2>2, <2>3
  <2>5. new \in [SUBSET (1..m) -> T]
    BY <2>4
  <2>6. ASSUME NEW S \in SUBSET (1..m)
        PROVE  new[S] = IF S = {} THEN base ELSE F[<<new[S \ {Max(S)}], s[Max(S)]>>]
    <3>1. CASE m \in S
      <4>1. Max(S) = m
        <5>1. m \in Nat /\ S \in SUBSET (1..m)
          OBVIOUS
        <5> QED
          BY ONLY <3>1, <5>1, LastIs
      <4>2. new[S \ {m}] = g[S \ {m}]
        BY <2>2
      <4> QED
        BY <3>1, <4>1, <4>2
    <3>2. CASE m \notin S /\ S # {}
      <4>1. S \in SUBSET (1..m - 1) /\ S \ {Max(S)} \in SUBSET (1..m - 1)
        BY <2>2, <3>2
      <4>2. g[S] = F[<<g[S \ {Max(S)}], s[Max(S)]>>]
        BY <2>1, <3>2, <4>1 DEF Recursion
      <4>3. new[S] = g[S] /\ new[S \ {Max(S)}] = g[S \ {Max(S)}]
        BY <3>2, <4>1
      <4> QED
        BY <3>2, <4>2, <4>3
    <3>3. CASE S = {}
      <4>1. new[S] = g[S] /\ {} \in SUBSET (1..m - 1)
        BY <3>3
      <4> QED
        BY <2>1, <3>3, <4>1 DEF Recursion
    <3> QED
      BY <3>1, <3>2, <3>3
  <2>7. Recursion(new, F, base, s, m)
    <3> HIDE DEF new
    <3> QED
      BY <2>6 DEF Recursion
  <2> HIDE DEF new
  <2> QED
    BY <2>5, <2>7
<1>3. 0..n \subseteq D
  <2> HIDE DEF D
  <2> QED
    BY <1>1, <1>2, UpToInduction
<1>4. n \in D
  <2> HIDE DEF D
  <2> QED
    BY <1>3
<1> QED
  BY <1>4 DEF Folds

\* and only one.
LEMMA FoldUnique ==
    ASSUME NEW T, NEW E, NEW F, NEW base, NEW s, NEW n, IsFold(T, E, F, base, s, n),
           NEW g, Folds(g, T, F, base, s, n),
           NEW h, Unfolds(h, T, F, base, s, n)
    PROVE  h[1..n] = g[1..n]
<1> USE DEF IsFold
<1> DEFINE D == {m \in 0..n : \A S \in SUBSET (1..m) : h[S] = g[S]}
<1>1. 0 \in D
  <2>1. \A S \in SUBSET (1..0) : S = {}
    OBVIOUS
  <2>2. g[{}] = base /\ h[{}] = base
    BY DEF Folds, Recursion, Unfolds
  <2>3. \A S \in SUBSET (1..0) : h[S] = g[S]
    BY <2>1, <2>2
  <2>4. 0 \in 0..n
    OBVIOUS
  <2> QED
    BY <2>3, <2>4
<1>2. ASSUME NEW m \in 1..n, m - 1 \in D PROVE m \in D
  <2>0. m \in Nat /\ m \in 0..n
    OBVIOUS
  <2> SUFFICES ASSUME NEW S \in SUBSET (1..m) PROVE h[S] = g[S]
    BY <2>0
  <2>1. S \in SUBSET (1..n)
    BY <2>0
  <2>2. \A U \in SUBSET (1..m - 1) : h[U] = g[U]
    BY <1>2
  <2>3. CASE S = {}
    BY <2>2, <2>3
  <2>4. CASE S # {}
    <3>2. S \ {Max(S)} \in SUBSET (1..m - 1)
      BY ONLY <2>0, S \in SUBSET (1..m), <2>4, WithoutLast
    <3>3. h[S \ {Max(S)}] = g[S \ {Max(S)}] /\ S \ {Max(S)} \in SUBSET (1..n)
      BY <2>1, <2>2, <3>2
    <3>4. g[S] = F[<<g[S \ {Max(S)}], s[Max(S)]>>]
      BY <2>1, <2>4 DEF Folds, Recursion
    <3> QED
      <4>1. h[S \ {Max(S)}] \in T
        BY <3>3 DEF Folds
      <4>2. h[S] = F[<<h[S \ {Max(S)}], s[Max(S)]>>]
        BY <2>1, <2>4, <4>1 DEF Unfolds
      <4> QED
        BY <3>3, <3>4, <4>2
  <2> QED
    BY <2>3, <2>4
<1>3. 0..n \subseteq D
  <2> HIDE DEF D
  <2> QED
    BY <1>1, <1>2, UpToInduction
<1>4. n \in D
  <2> HIDE DEF D
  <2> QED
    BY <1>3
<1>5. 1..n \in SUBSET (1..n)
  OBVIOUS
<1> QED
  BY <1>4, <1>5

\* What a fold over n elements goes through: g[i] is the state of the loop
\* behind the first i of them.
Loop(g, T, F, base, s, n) ==
    /\ g \in [0..n -> T] /\ g[0] = base
    /\ \A i \in 1..n : g[i] = F[<<g[i - 1], s[i]>>]

LEMMA FoldIsLoop ==
    ASSUME NEW T, NEW E, NEW F, NEW base, NEW s, NEW n, IsFold(T, E, F, base, s, n),
           NEW h, Unfolds(h, T, F, base, s, n)
    PROVE  \E g : Loop(g, T, F, base, s, n) /\ h[1..n] = g[n]
<1>1. PICK f : Folds(f, T, F, base, s, n)
  BY FoldExists
<1>2. h[1..n] = f[1..n]
  BY <1>1, FoldUnique
<1>3. /\ n \in Nat /\ f \in [SUBSET (1..n) -> T] /\ Recursion(f, F, base, s, n)
  BY <1>1 DEF Folds, IsFold
<1> DEFINE g == [i \in 0..n |-> f[1..i]]
<1>4. \A i \in 0..n : 1..i \in SUBSET (1..n)
  BY <1>3
<1>5. g \in [0..n -> T] /\ g[0] = base /\ g[n] = f[1..n]
  <2>1. 1..0 = {} /\ 0 \in 0..n /\ n \in 0..n /\ {} \in SUBSET (1..n)
    BY <1>3
  <2>2. f[{}] = base
    BY <1>3, <2>1 DEF Recursion
  <2> QED
    BY <1>3, <1>4, <2>1, <2>2
<1>6. ASSUME NEW i \in 1..n PROVE g[i] = F[<<g[i - 1], s[i]>>]
  <2>1. i \in Nat /\ 1..i \in SUBSET (1..i) /\ i \in 1..i /\ i \in 0..n /\ i - 1 \in 0..n
    BY <1>3
  <2>2. Max(1..i) = i
    BY ONLY <2>1, LastIs
  <2>3. (1..i) \ {i} = 1..i - 1
    BY ONLY <2>1
  <2>4. 1..i # {} /\ 1..i \in SUBSET (1..n)
    BY <1>4, <2>1
  <2>5. f[1..i] = F[<<f[1..i - 1], s[i]>>]
    BY <1>3, <2>2, <2>3, <2>4 DEF Recursion
  <2> QED
    BY <2>1, <2>5
<1>7. Loop(g, T, F, base, s, n)
  <2> HIDE DEF g
  <2> QED
    BY <1>5, <1>6 DEF Loop
<1>8. h[1..n] = g[n]
  BY <1>2, <1>5
<1> QED
  BY <1>7, <1>8

\* A loop never leaves its states.
LEMMA LoopStays ==
    ASSUME NEW T, NEW E, NEW F, NEW base, NEW s, NEW n, IsFold(T, E, F, base, s, n),
           NEW g, Loop(g, T, F, base, s, n)
    PROVE  g[n] \in T
BY DEF IsFold, Loop

\* One element more is one turn more.
LEMMA LoopFurther ==
    ASSUME NEW T, NEW E, NEW F, NEW base, NEW s, NEW t, NEW n, IsFold(T, E, F, base, s, n),
           NEW g, Loop(g, T, F, base, s, n),
           NEW h, Loop(h, T, F, base, t, n + 1),
           \A i \in 1..n : t[i] = s[i]
    PROVE  h[n + 1] = F[<<g[n], t[n + 1]>>]
<1> DEFINE S == {i \in 0..n : h[i] = g[i]}
<1>1. n \in Nat
  BY DEF IsFold
<1>2. 0 \in S
  BY <1>1 DEF Loop
<1>3. ASSUME NEW i \in 1..n, i - 1 \in S PROVE i \in S
  <2>1. i \in 0..n /\ i \in 1..n + 1
    BY <1>1
  <2>2. g[i] = F[<<g[i - 1], s[i]>>] /\ h[i] = F[<<h[i - 1], t[i]>>] /\ h[i - 1] = g[i - 1]
    BY <1>3, <2>1 DEF Loop
  <2> QED
    BY <2>1, <2>2
<1>4. 0..n \subseteq S
  <2> HIDE DEF S
  <2> QED
    BY <1>1, <1>2, <1>3, UpToInduction
<1>5. h[n] = g[n]
  BY <1>1, <1>4
<1>6. n + 1 \in 1..n + 1 /\ (n + 1) - 1 = n
  BY <1>1
<1> QED
  BY <1>5, <1>6 DEF Loop

\* What the recursion is about stays within T and E.
Table(f, T, F, base, s, n) ==
    /\ f = [S \in SUBSET (1..n) |-> f[S]] /\ f[{}] = base
    /\ \A S \in SUBSET (1..n) : S # {} =>
         /\ f[S \ {Max(S)}] \in T
         /\ f[S] = F[<<f[S \ {Max(S)}], s[Max(S)]>>]

LEMMA FoldTable ==
    ASSUME NEW T, NEW E, NEW F, NEW base, NEW s, NEW n, IsFold(T, E, F, base, s, n)
    PROVE  \E f : Table(f, T, F, base, s, n)
<1>1. PICK f : Folds(f, T, F, base, s, n)
  BY FoldExists
<1>2. f = [S \in SUBSET (1..n) |-> f[S]] /\ f[{}] = base
  BY <1>1 DEF Folds, Recursion
<1>3. ASSUME NEW S \in SUBSET (1..n), S # {}
      PROVE  f[S \ {Max(S)}] \in T /\ f[S] = F[<<f[S \ {Max(S)}], s[Max(S)]>>]
  BY <1>1, <1>3 DEF Folds, Recursion
<1> QED
  BY <1>2, <1>3 DEF Table

LEMMA LastElement ==
    ASSUME NEW T, NEW E, NEW F, NEW base, NEW s, NEW n, IsFold(T, E, F, base, s, n)
    PROVE  \A S \in SUBSET (1..n) : S # {} => s[Max(S)] \in E
BY LastOf DEF IsFold

-----------------------------------------------------------------------------
(***************************************************************************)
(* Positions.  A set of positions is counted through from the first on.    *)
(***************************************************************************)
LEMMA PositionsFinite ==
    ASSUME NEW n \in Nat, NEW P \in SUBSET (1..n)
    PROVE  IsFiniteSet(P) /\ Cardinality(P) \in 0..n
<1>1. IsFiniteSet(1..n) /\ Cardinality(1..n) = n
  BY FS_Interval
<1>2. IsFiniteSet(P) /\ Cardinality(P) <= n
  BY <1>1, FS_Subset
<1>3. Cardinality(P) \in Nat
  BY <1>2, FS_CardinalityType
<1> QED
  BY <1>2, <1>3

Rank(P, p) == Cardinality({q \in P : q <= p})

LEMMA RankGrows ==
    ASSUME NEW n \in Nat, NEW P \in SUBSET (1..n), NEW p \in P, NEW r \in P, p < r
    PROVE  Rank(P, p) < Rank(P, r) /\ Rank(P, p) \in Nat /\ Rank(P, r) \in Nat
<1> DEFINE A == {q \in P : q <= p}
           B == {q \in P : q <= r}
<1>0. \A q \in P : q \in 1..n
  OBVIOUS
<1>1. /\ A \in SUBSET (1..n) /\ B \in SUBSET (1..n) /\ A \cup {r} \in SUBSET B /\ r \notin A
  <2>1. p \in Nat /\ r \in Nat /\ r <= r /\ ~(r <= p)
    BY <1>0
  <2>2. \A q \in P : q <= p => q <= r
    BY <1>0
  <2>3. r \in B /\ A \subseteq B
    BY <2>1, <2>2
  <2>4. r \notin A
    BY <2>1
  <2>5. A \subseteq 1..n /\ B \subseteq 1..n
    BY <1>0
  <2> HIDE DEF A, B
  <2> QED
    BY <2>3, <2>4, <2>5
<1> HIDE DEF A, B
<1>2. /\ IsFiniteSet(A) /\ IsFiniteSet(B) /\ Cardinality(A) \in Nat /\ Cardinality(B) \in Nat
  BY <1>1, PositionsFinite
<1>3. Cardinality(A \cup {r}) = Cardinality(A) + 1
  BY <1>1, <1>2, FS_AddElement
<1>4. Cardinality(A \cup {r}) <= Cardinality(B)
  BY <1>1, <1>2, FS_Subset
<1>5. Cardinality(A) < Cardinality(B)
  BY <1>2, <1>3, <1>4
<1> QED
  BY <1>2, <1>5 DEF A, B, Rank

LEMMA RankIsOwn ==
    ASSUME NEW n \in Nat, NEW P \in SUBSET (1..n), NEW p \in P, NEW r \in P,
           Rank(P, p) = Rank(P, r)
    PROVE  p = r
<1>1. ~(p < r)
  <2> SUFFICES ASSUME p < r PROVE FALSE
    OBVIOUS
  <2>1. Rank(P, p) < Rank(P, r) /\ Rank(P, p) \in Nat
    BY RankGrows
  <2> QED
    BY <2>1
<1>2. ~(r < p)
  <2> SUFFICES ASSUME r < p PROVE FALSE
    OBVIOUS
  <2>1. Rank(P, r) < Rank(P, p) /\ Rank(P, p) \in Nat
    BY RankGrows
  <2> QED
    BY <2>1
<1>3. p \in Nat /\ r \in Nat
  OBVIOUS
<1> QED
  BY <1>1, <1>2, <1>3

\* The last position of a set comes last, and changes no other's place.
LEMMA RankNew ==
    ASSUME NEW n \in Nat, NEW P \in SUBSET (1..n)
    PROVE  /\ Cardinality(P \cup {n + 1}) = Cardinality(P) + 1
           /\ Rank(P \cup {n + 1}, n + 1) = Cardinality(P) + 1
           /\ \A p \in P : Rank(P \cup {n + 1}, p) = Rank(P, p)
<1>1. IsFiniteSet(P) /\ n + 1 \notin P
  BY PositionsFinite
<1>2. Cardinality(P \cup {n + 1}) = Cardinality(P) + 1
  BY <1>1, FS_AddElement
<1>0. \A q \in P : q \in Nat /\ q <= n + 1 /\ ~(n + 1 <= q)
  <2>1. \A q \in P : q \in 1..n
    OBVIOUS
  <2> QED
    BY <2>1
<1>3. {q \in P \cup {n + 1} : q <= n + 1} = P \cup {n + 1}
  <2>1. \A q \in P \cup {n + 1} : q <= n + 1
    BY <1>0
  <2> QED
    BY <2>1
<1>4. \A p \in P : {q \in P \cup {n + 1} : q <= p} = {q \in P : q <= p}
  OBVIOUS
<1> QED
  BY <1>2, <1>3, <1>4 DEF Rank

LEMMA RanksTaken ==
    ASSUME NEW n \in Nat, NEW P \in SUBSET (1..n), NEW k \in 1..Cardinality(P)
    PROVE  \E p \in P : Rank(P, p) = k
<1> DEFINE Full(m) == \A Q \in SUBSET (1..m) : \A j \in 1..Cardinality(Q) : \E p \in Q : Rank(Q, p) = j
           D == {m \in Nat : Full(m)}
<1>1. 0 \in D
  <2>1. \A Q \in SUBSET (1..0) : Q = {}
    OBVIOUS
  <2>2. Cardinality({}) = 0
    BY FS_EmptySet
  <2>3. \A Q \in SUBSET (1..0) : 1..Cardinality(Q) = {}
    BY <2>1, <2>2
  <2> QED
    BY <2>3
<1>2. ASSUME NEW m \in Nat, m \in D PROVE m + 1 \in D
  <2> SUFFICES ASSUME NEW Q \in SUBSET (1..m + 1), NEW j \in 1..Cardinality(Q)
               PROVE  \E p \in Q : Rank(Q, p) = j
    OBVIOUS
  <2>1. CASE Q \in SUBSET (1..m)
    BY <1>2, <2>1
  <2>2. CASE Q \notin SUBSET (1..m)
    <3> DEFINE R == Q \ {m + 1}
    <3>1. R \in SUBSET (1..m) /\ Q = R \cup {m + 1}
      BY <2>2
    <3> HIDE DEF R
    <3>2. /\ Cardinality(Q) = Cardinality(R) + 1
          /\ Rank(Q, m + 1) = Cardinality(R) + 1
          /\ \A p \in R : Rank(Q, p) = Rank(R, p)
      BY <3>1, RankNew
    <3>3. Cardinality(R) \in Nat
      BY <3>1, PositionsFinite
    <3>4. CASE j = Cardinality(R) + 1
      BY <3>1, <3>2, <3>4
    <3>5. CASE j # Cardinality(R) + 1
      <4>1. j \in 1..Cardinality(R)
        BY <3>2, <3>3, <3>5
      <4>2. \E p \in R : Rank(R, p) = j
        BY <1>2, <3>1, <4>1
      <4> QED
        BY <3>1, <3>2, <4>2
    <3> QED
      BY <3>4, <3>5
  <2> QED
    BY <2>1, <2>2
<1>3. Nat \subseteq D
  <2> HIDE DEF D
  <2> QED
    BY <1>1, <1>2, NatSetInduction
<1>4. Full(n)
  BY <1>3
<1> QED
  BY <1>4

LEMMA NthIn ==
    ASSUME NEW n \in Nat, NEW P \in SUBSET (1..n), NEW k \in 1..Cardinality(P)
    PROVE  Nth(P, k) \in P /\ Rank(P, Nth(P, k)) = k
<1>1. \E p \in P : Rank(P, p) = k
  BY RanksTaken
<1>2. Nth(P, k) = CHOOSE p \in P : Rank(P, p) = k
  BY DEF Nth, Rank
<1> QED
  BY ONLY <1>1, <1>2

LEMMA NthIs ==
    ASSUME NEW n \in Nat, NEW P \in SUBSET (1..n), NEW p \in P, Rank(P, p) \in 1..Cardinality(P)
    PROVE  Nth(P, Rank(P, p)) = p
<1>1. Nth(P, Rank(P, p)) \in P /\ Rank(P, Nth(P, Rank(P, p))) = Rank(P, p)
  BY NthIn
<1> QED
  BY <1>1, RankIsOwn

\* What is picked.
Within(s, P, S) == \A p \in P : s[p] \in S
Alike(s, t, P) == \A p \in P : s[p] = t[p]

LEMMA PickType ==
    ASSUME NEW S, NEW n \in Nat, NEW P \in SUBSET (1..n), NEW s, Within(s, P, S)
    PROVE  /\ Pick(s, P) \in Seq(S) /\ Len(Pick(s, P)) = Cardinality(P)
           /\ \A k \in 1..Cardinality(P) : Pick(s, P)[k] = s[Nth(P, k)]
<1>1. Cardinality(P) \in Nat
  BY PositionsFinite
<1>2. \A k \in 1..Cardinality(P) : s[Nth(P, k)] \in S
  BY NthIn DEF Within
<1> QED
  BY <1>1, <1>2 DEF Pick

LEMMA PickSame ==
    ASSUME NEW n \in Nat, NEW P \in SUBSET (1..n), NEW s, NEW t, Alike(s, t, P)
    PROVE  Pick(s, P) = Pick(t, P)
<1>1. \A k \in 1..Cardinality(P) : s[Nth(P, k)] = t[Nth(P, k)]
  BY NthIn DEF Alike
<1> QED
  BY <1>1 DEF Pick

LEMMA PickNone ==
    ASSUME NEW s
    PROVE  Pick(s, {}) = <<>>
<1>1. {} \in SUBSET (1..0) /\ 0 \in Nat /\ Cardinality({}) = 0
  BY FS_EmptySet
<1>2. Pick(s, {}) \in Seq({}) /\ Len(Pick(s, {})) = 0
  <2>1. Within(s, {}, {})
    BY DEF Within
  <2> QED
    BY <1>1, <2>1, PickType
<1> QED
  BY <1>2, EmptySeq

LEMMA PickNew ==
    ASSUME NEW S, NEW n \in Nat, NEW P \in SUBSET (1..n), NEW s,
           Within(s, P \cup {n + 1}, S)
    PROVE  Pick(s, P \cup {n + 1}) = Append(Pick(s, P), s[n + 1])
<1> DEFINE Q == P \cup {n + 1}
           c == Cardinality(P)
<1>1. c \in Nat /\ Q \in SUBSET (1..n + 1) /\ n + 1 \in Nat /\ n + 1 \in Q
  BY PositionsFinite
<1>2. /\ Cardinality(Q) = c + 1 /\ Rank(Q, n + 1) = c + 1
      /\ \A p \in P : Rank(Q, p) = Rank(P, p)
  BY RankNew
<1>3. Nth(Q, c + 1) = n + 1
  <2>1. Rank(Q, n + 1) \in 1..Cardinality(Q)
    BY <1>1, <1>2
  <2> HIDE DEF Q, c
  <2> QED
    BY <1>1, <1>2, <2>1, NthIs
<1>4. ASSUME NEW k \in 1..c PROVE Nth(Q, k) = Nth(P, k)
  <2>1. Nth(P, k) \in P /\ Rank(P, Nth(P, k)) = k
    BY NthIn
  <2>2. Nth(P, k) \in Q
    BY <2>1
  <2> HIDE DEF Q, c
  <2>3. Rank(Q, Nth(P, k)) = k
    BY <1>2, <2>1
  <2>4. k \in 1..Cardinality(Q)
    BY <1>1, <1>2
  <2>5. Rank(Q, Nth(P, k)) \in 1..Cardinality(Q)
    BY <2>3, <2>4
  <2>6. Nth(Q, Rank(Q, Nth(P, k))) = Nth(P, k)
    BY ONLY <1>1, <2>2, <2>5, NthIs
  <2> QED
    BY <2>3, <2>6
<1>0. Within(s, P, S) /\ Within(s, Q, S) /\ s[n + 1] \in S
  BY DEF Within
<1>5. /\ Pick(s, P) \in Seq(S) /\ Len(Pick(s, P)) = c
      /\ \A k \in 1..c : Pick(s, P)[k] = s[Nth(P, k)]
  BY ONLY <1>0, PickType, n \in Nat, P \in SUBSET (1..n)
<1>6. /\ Pick(s, Q) \in Seq(S) /\ Len(Pick(s, Q)) = c + 1
      /\ \A k \in 1..c + 1 : Pick(s, Q)[k] = s[Nth(Q, k)]
  <2> HIDE DEF Q, c
  <2>1. /\ Pick(s, Q) \in Seq(S) /\ Len(Pick(s, Q)) = Cardinality(Q)
        /\ \A k \in 1..Cardinality(Q) : Pick(s, Q)[k] = s[Nth(Q, k)]
    BY ONLY <1>0, <1>1, PickType
  <2> QED
    BY <1>2, <2>1
<1> DEFINE new == Append(Pick(s, P), s[n + 1])
<1>8. /\ new \in Seq(S) /\ Len(new) = c + 1 /\ new[c + 1] = s[n + 1]
      /\ \A k \in 1..c : new[k] = s[Nth(P, k)]
  BY <1>0, <1>5, AppendProperties
<1>9. \A k \in 1..c + 1 : Pick(s, Q)[k] = new[k]
  <2> HIDE DEF Q, c, new
  <2>1. ASSUME NEW k \in 1..c + 1 PROVE Pick(s, Q)[k] = new[k]
    <3>1. CASE k = c + 1
      BY <1>1, <1>3, <1>6, <1>8, <3>1
    <3>2. CASE k # c + 1
      <4>1. k \in 1..c
        BY <1>1, <3>2
      <4> QED
        BY <1>4, <1>6, <1>8, <4>1
    <3> QED
      BY <3>1, <3>2
  <2> QED
    BY <2>1
<1> HIDE DEF Q, c, new
<1>10. Pick(s, Q) = new
  BY <1>6, <1>8, <1>9, SeqEqual
<1> QED
  BY <1>10 DEF Q, new

\* Counting one position further.
LEMMA CountStep ==
    ASSUME NEW s, NEW ch, NEW n \in Nat
    PROVE  /\ Count(s, ch, 1, n) \in Nat /\ Count(s, ch, 1, 0) = 0
           /\ s[n + 1] = ch => Count(s, ch, 1, n + 1) = Count(s, ch, 1, n) + 1
           /\ s[n + 1] # ch => Count(s, ch, 1, n + 1) = Count(s, ch, 1, n)
<1> DEFINE C(i) == {m \in 1..i : s[m] = ch}
<1>1. C(n) \in SUBSET (1..n) /\ C(0) = {}
  OBVIOUS
<1>2. C(n + 1) = IF s[n + 1] = ch THEN C(n) \cup {n + 1} ELSE C(n)
  <2>1. \A m \in 1..n + 1 : m # n + 1 => m \in 1..n
    OBVIOUS
  <2>2. \A m \in 1..n : m \in 1..n + 1
    OBVIOUS
  <2> QED
    BY <2>1, <2>2
<1>3. n + 1 \notin C(n)
  OBVIOUS
<1> HIDE DEF C
<1>4. IsFiniteSet(C(n)) /\ Cardinality(C(n)) \in Nat
  BY <1>1, PositionsFinite
<1>5. Cardinality(C(n) \cup {n + 1}) = Cardinality(C(n)) + 1
  BY <1>3, <1>4, FS_AddElement
<1>6. Cardinality(C(0)) = 0
  BY <1>1, FS_EmptySet
<1> QED
  BY <1>2, <1>4, <1>5, <1>6 DEF C, Count

\* The beginning of a sequence.
LEMMA FirstType ==
    ASSUME NEW S, NEW w \in Seq(S), NEW n \in Nat
    PROVE  /\ FirstOf(w, n) \in Seq(S)
           /\ Len(FirstOf(w, n)) = IF Len(w) < n THEN Len(w) ELSE n
           /\ \A k \in 1..Len(FirstOf(w, n)) : FirstOf(w, n)[k] = w[k]
<1> DEFINE m == IF Len(w) < n THEN Len(w) ELSE n
<1>1. m \in 0..Len(w)
  BY LenProperties
<1>2. FirstOf(w, n) = SubSeq(w, 1, m)
  BY DEF FirstOf
<1> HIDE DEF m
<1>3. \A k \in 1..m : w[k] \in S
  BY <1>1, LenProperties, ElementOfSeq
<1>4. /\ SubSeq(w, 1, m) \in Seq(S)
      /\ Len(SubSeq(w, 1, m)) = IF 1 <= m THEN m - 1 + 1 ELSE 0
      /\ \A k \in 1..m - 1 + 1 : SubSeq(w, 1, m)[k] = w[1 + k - 1]
  BY <1>1, <1>3, SubSeqProperties
<1>5. Len(SubSeq(w, 1, m)) = m
  BY <1>1, <1>4
<1>6. \A k \in 1..m : SubSeq(w, 1, m)[k] = w[k]
  <2>1. m - 1 + 1 = m /\ \A k \in 1..m : 1 + k - 1 = k
    BY <1>1
  <2> QED
    BY <1>4, <2>1
<1> QED
  BY <1>2, <1>4, <1>5, <1>6 DEF m

LEMMA FirstWhole ==
    ASSUME NEW S, NEW w \in Seq(S), NEW n \in Nat, Len(w) <= n
    PROVE  FirstOf(w, n) = w
<1>1. Len(w) \in Nat
  BY LenProperties
<1>2. FirstOf(w, n) = SubSeq(w, 1, Len(w))
  BY <1>1 DEF FirstOf
<1> QED
  BY <1>2, SubSeqFull

LEMMA FirstSame ==
    ASSUME NEW S, NEW w \in Seq(S), NEW x \in Seq(S), NEW n \in Nat,
           Len(w) >= n, Len(x) >= n, Alike(w, x, 1..n)
    PROVE  FirstOf(w, n) = FirstOf(x, n)
<1>1. Len(w) \in Nat /\ Len(x) \in Nat
  BY LenProperties
<1>2. /\ FirstOf(w, n) \in Seq(S) /\ Len(FirstOf(w, n)) = n
      /\ \A k \in 1..n : FirstOf(w, n)[k] = w[k]
  BY <1>1, FirstType
<1>3. /\ FirstOf(x, n) \in Seq(S) /\ Len(FirstOf(x, n)) = n
      /\ \A k \in 1..n : FirstOf(x, n)[k] = x[k]
  BY <1>1, FirstType
<1> QED
  BY <1>2, <1>3, SeqEqual DEF Alike

\* What is left of a sequence behind its first n elements.
LEMMA RestType ==
    ASSUME NEW Sym, NEW s \in Seq(Sym), NEW n \in 0..Len(s)
    PROVE  /\ SubSeq(s, n + 1, Len(s)) \in Seq(Sym)
           /\ Len(SubSeq(s, n + 1, Len(s))) = Len(s) - n
           /\ \A i \in 1..Len(s) - n : SubSeq(s, n + 1, Len(s))[i] = s[n + i]
<1>1. Len(s) \in Nat /\ n + 1 \in Int /\ Len(s) \in Int
  BY LenProperties
<1>2. \A i \in n + 1..Len(s) : s[i] \in Sym
  <2>1. \A i \in n + 1..Len(s) : i \in 1..Len(s)
    BY <1>1
  <2> QED
    BY <2>1, ElementOfSeq
<1>3. /\ SubSeq(s, n + 1, Len(s)) \in Seq(Sym)
      /\ Len(SubSeq(s, n + 1, Len(s))) = IF n + 1 <= Len(s) THEN Len(s) - (n + 1) + 1 ELSE 0
      /\ \A i \in 1..Len(s) - (n + 1) + 1 : SubSeq(s, n + 1, Len(s))[i] = s[n + 1 + i - 1]
  BY <1>1, <1>2, SubSeqProperties
<1>4. Len(s) - (n + 1) + 1 = Len(s) - n /\ (~(n + 1 <= Len(s)) => Len(s) - n = 0)
  BY <1>1
<1>5. \A i \in 1..Len(s) - n : n + 1 + i - 1 = n + i
  BY <1>1
<1> QED
  BY <1>3, <1>4, <1>5

\* Its first n elements.
LEMMA FrontType ==
    ASSUME NEW Sym, NEW s \in Seq(Sym), NEW n \in 0..Len(s)
    PROVE  /\ SubSeq(s, 1, n) \in Seq(Sym) /\ Len(SubSeq(s, 1, n)) = n
           /\ \A i \in 1..n : SubSeq(s, 1, n)[i] = s[i]
<1>1. Len(s) \in Nat /\ n \in Int /\ 1 \in Int
  BY LenProperties
<1>2. \A i \in 1..n : s[i] \in Sym
  <2>1. \A i \in 1..n : i \in 1..Len(s)
    BY <1>1
  <2> QED
    BY <2>1, ElementOfSeq
<1>3. /\ SubSeq(s, 1, n) \in Seq(Sym)
      /\ Len(SubSeq(s, 1, n)) = IF 1 <= n THEN n - 1 + 1 ELSE 0
      /\ \A i \in 1..n - 1 + 1 : SubSeq(s, 1, n)[i] = s[1 + i - 1]
  BY <1>1, <1>2, SubSeqProperties
<1>4. n - 1 + 1 = n /\ (~(1 <= n) => n = 0) /\ \A i \in 1..n : 1 + i - 1 = i
  BY <1>1
<1> QED
  BY <1>3, <1>4

LEMMA ReverseType ==
    ASSUME NEW Sym, NEW s \in Seq(Sym)
    PROVE  Reverse(s) \in Seq(Sym)
<1>1. Len(s) \in Nat
  BY LenProperties
<1>2. \A i \in 1..Len(s) : s[(Len(s) - i) + 1] \in Sym
  BY <1>1, ElementOfSeq
<1> QED
  BY <1>1, <1>2 DEF Reverse
=============================================================================
