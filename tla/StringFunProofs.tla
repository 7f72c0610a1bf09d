--------------------------- MODULE StringFunProofs ---------------------------
(***************************************************************************)
(* Proofs about StringFun, for a buffer of any size, any letters and any   *)
(* arguments: what each of its loops computes, in terms of the text and    *)
(* the words the argument has by position.                                 *)
(***************************************************************************)
EXTENDS StringFun, SequenceFacts

Sym == Letters \cup {Blank}

-----------------------------------------------------------------------------
(***************************************************************************)
(* setup_buff.  Behind the first i symbols the loop has the letters and    *)
(* every blank directly behind one; a blank at the end may have to go.     *)
(***************************************************************************)
SetupStates == [text : Seq(Sym), found_space : BOOLEAN]
SetupBase == [text |-> <<>>, found_space |-> FALSE]
SetupTurn == [p \in SetupStates \X Sym |-> SetupChar(p[1], p[2])]

LEMMA SetupIsFold ==
    ASSUME NEW s \in Seq(Sym)
    PROVE  IsFold(SetupStates, Sym, SetupTurn, SetupBase, s, Len(s))
<1>1. SetupBase \in SetupStates
  <2>1. <<>> \in Seq(Sym)
    BY EmptySeq
  <2> QED
    BY <2>1 DEF SetupBase, SetupStates
<1>2. ASSUME NEW st \in SetupStates, NEW ch \in Sym PROVE SetupChar(st, ch) \in SetupStates
  <2>1. st.text \in Seq(Sym) /\ Append(st.text, ch) \in Seq(Sym)
    BY AppendProperties DEF SetupStates
  <2>2. Append(st.text, Blank) \in Seq(Sym)
    BY <2>1, AppendProperties DEF Sym
  <2> QED
    BY <2>1, <2>2 DEF SetupChar, SetupStates
<1>3. SetupTurn \in [SetupStates \X Sym -> SetupStates]
  BY <1>2 DEF SetupTurn
<1> QED
  BY <1>1, <1>3, LenProperties DEF IsFold

LEMMA SetupIsLoop ==
    ASSUME NEW s \in Seq(Sym)
    PROVE  \E g : /\ Loop(g, SetupStates, SetupTurn, SetupBase, s, Len(s))
                  /\ FoldLeft(SetupChar, SetupBase, s) = g[Len(s)]
<1> DEFINE n == Len(s)
           T == SetupStates
           F == SetupTurn
           base == SetupBase
           Step(f, S) == IF S = {} THEN base ELSE SetupChar(f[S \ {Max(S)}], s[Max(S)])
           h == CHOOSE f : f = [S \in SUBSET (1..n) |-> Step(f, S)]
<1>1. FoldLeft(SetupChar, base, s) = h[1..n]
  <2>1. DOMAIN s = 1..n
    BY LenProperties
  <2> QED
    BY <2>1 DEF FoldLeft, MapThenFoldSet
<1>2. IsFold(T, Sym, F, base, s, n)
  BY SetupIsFold
<1>3. \A a \in T, b \in Sym : F[<<a, b>>] = SetupChar(a, b)
  BY DEF SetupTurn
<1> HIDE DEF F, T, base, n
<1>4. \A S \in SUBSET (1..n) : S # {} => s[Max(S)] \in Sym
  BY <1>2, LastElement
<1>5. h = [S \in SUBSET (1..n) |-> Step(h, S)]
  <2>1. PICK f : Table(f, T, F, base, s, n)
    BY <1>2, FoldTable
  <2>2. \A S \in SUBSET (1..n) : f[S] = Step(f, S)
    BY <1>3, <1>4, <2>1 DEF Table
  <2>3. f = [S \in SUBSET (1..n) |-> Step(f, S)]
    BY <2>1, <2>2 DEF Table
  <2> QED
    BY <2>3
<1> HIDE DEF h
<1>6. Unfolds(h, T, F, base, s, n)
  <2>1. \A S \in SUBSET (1..n) : h[S] = Step(h, S)
    BY <1>5
  <2> QED
    BY <1>3, <1>4, <2>1 DEF Unfolds
<1> QED
  BY <1>1, <1>2, <1>6, FoldIsLoop DEF T, F, base, n

Held(s, i) == {k \in 1..i : s[k] # Blank \/ (k > 1 /\ s[k - 1] # Blank)}
Trails(s, i) == Held(s, i) # {} /\ s[i] = Blank

LEMMA HeldStep ==
    ASSUME NEW s, NEW i \in Nat
    PROVE  /\ Held(s, i) \in SUBSET (1..i) /\ Held(s, 0) = {}
           /\ s[i + 1] # Blank \/ (i > 0 /\ s[i] # Blank) => Held(s, i + 1) = Held(s, i) \cup {i + 1}
           /\ ~(s[i + 1] # Blank \/ (i > 0 /\ s[i] # Blank)) => Held(s, i + 1) = Held(s, i)
           /\ i > 0 /\ s[i] # Blank => Held(s, i) # {}
<1>1. Held(s, i) \in SUBSET (1..i) /\ Held(s, 0) = {}
  BY DEF Held
<1>2. /\ \A m \in 1..i + 1 : m # i + 1 => m \in 1..i
      /\ \A m \in 1..i : m \in 1..i + 1
      /\ i + 1 \in 1..i + 1 /\ (i + 1) - 1 = i /\ (i + 1 > 1 <=> i > 0)
  OBVIOUS
<1>3. ASSUME s[i + 1] # Blank \/ (i > 0 /\ s[i] # Blank) PROVE Held(s, i + 1) = Held(s, i) \cup {i + 1}
  BY <1>2, <1>3 DEF Held
<1>4. ASSUME ~(s[i + 1] # Blank \/ (i > 0 /\ s[i] # Blank)) PROVE Held(s, i + 1) = Held(s, i)
  BY <1>2, <1>4 DEF Held
<1>5. ASSUME i > 0, s[i] # Blank PROVE Held(s, i) # {}
  <2>1. i \in 1..i
    BY <1>5
  <2> QED
    BY <1>5, <2>1 DEF Held
<1> QED
  BY <1>1, <1>3, <1>4, <1>5

LEMMA HeldType ==
    ASSUME NEW s \in Seq(Sym), NEW i \in 0..Len(s)
    PROVE  /\ Held(s, i) \in SUBSET (1..i) /\ Within(s, Held(s, i), Sym)
           /\ Pick(s, Held(s, i)) \in Seq(Sym) /\ Len(Pick(s, Held(s, i))) <= i
           /\ Pick(s, Held(s, i)) = <<>> <=> Held(s, i) = {}
<1> DEFINE P == Held(s, i)
<1>1. P \in SUBSET (1..i) /\ i \in Nat
  BY LenProperties DEF Held
<1>2. Within(s, P, Sym)
  <2>1. \A p \in P : p \in 1..Len(s)
    BY <1>1, LenProperties
  <2> QED
    BY <2>1, ElementOfSeq DEF Within
<1> HIDE DEF P
<1>3. Pick(s, P) \in Seq(Sym) /\ Len(Pick(s, P)) = Cardinality(P)
  BY <1>1, <1>2, PickType
<1>4. IsFiniteSet(P) /\ Cardinality(P) \in 0..i
  BY <1>1, PositionsFinite
<1>5. Cardinality(P) = 0 <=> P = {}
  BY <1>4, FS_EmptySet
<1>6. Pick(s, P) = <<>> <=> Len(Pick(s, P)) = 0
  BY <1>3, EmptySeq
<1> QED
  BY <1>1, <1>2, <1>3, <1>4, <1>5, <1>6 DEF P

LEMMA HeldGrows ==
    ASSUME NEW s \in Seq(Sym), NEW i \in Nat, i + 1 <= Len(s),
           Held(s, i + 1) = Held(s, i) \cup {i + 1}
    PROVE  Pick(s, Held(s, i + 1)) = Append(Pick(s, Held(s, i)), s[i + 1])
<1> DEFINE P == Held(s, i)
<1>1. i \in 0..Len(s) /\ i + 1 \in 0..Len(s)
  BY LenProperties
<1>2. P \in SUBSET (1..i)
  BY <1>1, HeldType
<1>3. Within(s, P \cup {i + 1}, Sym)
  BY <1>1, HeldType
<1> HIDE DEF P
<1>4. Pick(s, P \cup {i + 1}) = Append(Pick(s, P), s[i + 1])
  BY ONLY <1>2, <1>3, i \in Nat, PickNew
<1> QED
  BY <1>4 DEF P

SetupAt(s, i) == [text |-> Pick(s, Held(s, i)), found_space |-> Trails(s, i)]

LEMMA SetupStep ==
    ASSUME NEW s \in Seq(Sym), NEW i \in Nat, i + 1 <= Len(s)
    PROVE  SetupChar(SetupAt(s, i), s[i + 1]) = SetupAt(s, i + 1)
<1>1. i \in 0..Len(s) /\ i + 1 \in 0..Len(s) /\ Len(s) \in Nat
  BY LenProperties
<1> DEFINE P == Held(s, i)
           ch == s[i + 1]
<1>2. P \in SUBSET (1..i) /\ (Pick(s, P) = <<>> <=> P = {}) /\ SetupAt(s, i).text = Pick(s, P)
  BY <1>1, HeldType DEF SetupAt
<1>0. SetupAt(s, i).found_space = Trails(s, i) /\ Trails(s, i) \in BOOLEAN
  BY DEF SetupAt, Trails
<1> HIDE DEF ch
<1>3. CASE ch # Blank
  <2>1. Held(s, i + 1) = P \cup {i + 1}
    BY <1>3, HeldStep DEF ch
  <2>3. Pick(s, Held(s, i + 1)) = Append(Pick(s, P), ch)
    BY <2>1, HeldGrows DEF ch
  <2>4. Trails(s, i + 1) = FALSE
    BY <1>3 DEF Trails, ch
  <2>5. SetupChar(SetupAt(s, i), ch) = [text |-> Append(Pick(s, P), ch), found_space |-> FALSE]
    BY <1>2, <1>3 DEF SetupChar
  <2> QED
    BY <2>3, <2>4, <2>5 DEF SetupAt, ch
<1>4. CASE ch = Blank /\ (Trails(s, i) \/ P = {})
  <2>1. ~(i > 0 /\ s[i] # Blank)
    BY <1>4, HeldStep DEF Trails
  <2>2. Held(s, i + 1) = P
    BY <1>4, <2>1, HeldStep DEF ch
  <2>3. Trails(s, i + 1) = Trails(s, i)
    BY <1>4, <2>2 DEF Trails, ch
  <2>4. SetupAt(s, i + 1) = SetupAt(s, i)
    BY <2>2, <2>3 DEF SetupAt
  <2>5. SetupChar(SetupAt(s, i), ch) = SetupAt(s, i)
    BY <1>0, <1>2, <1>4 DEF SetupChar
  <2> QED
    BY <2>4, <2>5 DEF ch
<1>5. CASE ch = Blank /\ ~Trails(s, i) /\ P # {}
  <2>1. i > 0 /\ s[i] # Blank
    BY <1>2, <1>5 DEF Trails
  <2>2. Held(s, i + 1) = P \cup {i + 1}
    BY <2>1, HeldStep
  <2>4. Pick(s, Held(s, i + 1)) = Append(Pick(s, P), ch)
    BY <2>2, HeldGrows DEF ch
  <2>5. Trails(s, i + 1) = TRUE
    BY <1>5, <2>2 DEF Trails, ch
  <2>6. SetupChar(SetupAt(s, i), ch) = [text |-> Append(Pick(s, P), ch), found_space |-> TRUE]
    BY <1>0, <1>2, <1>5 DEF SetupChar
  <2> QED
    BY <2>4, <2>5, <2>6 DEF SetupAt, ch
<1> QED
  BY <1>3, <1>4, <1>5

LEMMA SetupLoopIs ==
    ASSUME NEW s \in Seq(Sym), NEW g,
           Loop(g, SetupStates, SetupTurn, SetupBase, s, Len(s))
    PROVE  \A i \in 0..Len(s) : g[i] = SetupAt(s, i)
<1> DEFINE n == Len(s)
           S == {i \in 0..n : g[i] = SetupAt(s, i)}
<1>1. n \in Nat /\ \A i \in 1..n : s[i] \in Sym
  BY LenProperties, ElementOfSeq
<1>2. 0 \in S
  <2>1. Held(s, 0) = {} /\ Trails(s, 0) = FALSE
    BY HeldStep DEF Trails
  <2>2. SetupAt(s, 0) = SetupBase
    BY <2>1, PickNone DEF SetupAt, SetupBase
  <2>3. g[0] = SetupBase
    BY DEF Loop
  <2> QED
    BY <1>1, <2>2, <2>3
<1>3. ASSUME NEW i \in 1..n, i - 1 \in S PROVE i \in S
  <2>1. i - 1 \in Nat /\ (i - 1) + 1 = i /\ i \in 0..n /\ i - 1 \in 0..n /\ (i - 1) + 1 <= n
    BY <1>1
  <2>2. g[i] = SetupTurn[<<g[i - 1], s[i]>>] /\ g[i - 1] \in SetupStates
    BY <2>1 DEF Loop
  <2>3. g[i] = SetupChar(g[i - 1], s[i])
    BY <1>1, <2>2 DEF SetupTurn
  <2>4. g[i - 1] = SetupAt(s, i - 1)
    BY <1>3
  <2>5. SetupChar(SetupAt(s, i - 1), s[(i - 1) + 1]) = SetupAt(s, (i - 1) + 1)
    BY <2>1, SetupStep
  <2> QED
    BY <2>1, <2>3, <2>4, <2>5
<1>4. 0..n \subseteq S
  <2> HIDE DEF S
  <2> QED
    BY <1>1, <1>2, <1>3, UpToInduction
<1> QED
  BY <1>4

\* The text keeps what the loop holds at the end, but for a blank that nothing
\* follows.
TextAt(s) == {k \in 1..Len(s) : Kept(s, k)}

LEMMA TextHeld ==
    ASSUME NEW s \in Seq(Sym), ~Trails(s, Len(s))
    PROVE  TextAt(s) = Held(s, Len(s))
<1> DEFINE n == Len(s)
<1>1. n \in Nat
  BY LenProperties
<1>2. ASSUME NEW k \in Held(s, n) PROVE k \in TextAt(s)
  <2>1. k \in 1..n /\ s[n] # Blank /\ Held(s, n) # {}
    BY DEF Held, Trails
  <2>2. CASE s[k] # Blank
    BY <2>1, <2>2 DEF TextAt, Kept
  <2>3. CASE s[k] = Blank
    <3>1. k > 1 /\ s[k - 1] # Blank
      BY <2>3 DEF Held
    <3>2. n \in k + 1..n
      <4>1. k # n
        BY <2>1, <2>3
      <4> QED
        BY <1>1, <2>1, <4>1
    <3> QED
      BY <2>1, <3>1, <3>2 DEF TextAt, Kept
  <2> QED
    BY <2>2, <2>3
<1>3. ASSUME NEW k \in TextAt(s) PROVE k \in Held(s, n)
  BY DEF TextAt, Kept, Held
<1> QED
  BY <1>2, <1>3

LEMMA TextTrails ==
    ASSUME NEW s \in Seq(Sym), Trails(s, Len(s))
    PROVE  \E p \in Nat : /\ p + 1 \in 1..Len(s) /\ s[p + 1] = Blank /\ p + 1 \notin TextAt(s)
                          /\ TextAt(s) \in SUBSET (1..p)
                          /\ Held(s, Len(s)) = TextAt(s) \cup {p + 1}
<1> DEFINE n == Len(s)
           H == Held(s, n)
           q == Max(H)
<1>1. n \in Nat /\ H \in SUBSET (1..n) /\ H # {} /\ s[n] = Blank
  BY LenProperties DEF Held, Trails
<1>2. q \in H /\ \A k \in H : k <= q
  <2> HIDE DEF H
  <2> QED
    BY <1>1, LastOf
<1> HIDE DEF q
<1>3. q \in 1..n
  BY <1>1, <1>2
<1>4. \A k \in q + 1..n : s[k] = Blank
  <2> SUFFICES ASSUME NEW k \in q + 1..n, s[k] # Blank PROVE FALSE
    OBVIOUS
  <2>1. k \in 1..n
    BY <1>3
  <2>2. k \in H
    BY <2>1 DEF Held
  <2> QED
    BY <1>2, <1>3, <2>2
<1>5. s[q] = Blank
  <2> SUFFICES ASSUME s[q] # Blank PROVE FALSE
    OBVIOUS
  <2>1. q + 1 \in 1..n
    <3>1. q # n
      BY <1>1
    <3> QED
      BY <1>1, <1>3, <3>1
  <2>2. q + 1 \in H
    <3>1. q + 1 > 1 /\ (q + 1) - 1 = q
      BY <1>3
    <3> QED
      BY <2>1, <3>1 DEF Held
  <2> QED
    BY <1>2, <1>3, <2>2
<1>6. q > 1 /\ s[q - 1] # Blank
  BY <1>2, <1>5 DEF Held
<1>7. ASSUME NEW k \in TextAt(s) PROVE k \in H /\ k # q
  <2>1. k \in 1..n /\ Kept(s, k)
    BY DEF TextAt
  <2>2. k \in H
    BY <2>1 DEF Held, Kept
  <2>3. k # q
    BY <1>4, <1>5, <2>1 DEF Kept
  <2> QED
    BY <2>2, <2>3
<1>8. ASSUME NEW k \in H, k # q PROVE k \in TextAt(s)
  <2>1. k \in 1..n /\ k < q
    <3>1. k \in 1..n /\ k <= q
      BY <1>1, <1>2
    <3> QED
      BY <1>3, <1>8, <3>1
  <2>2. CASE s[k] # Blank
    BY <2>1, <2>2 DEF TextAt, Kept
  <2>3. CASE s[k] = Blank
    <3>1. k > 1 /\ s[k - 1] # Blank
      BY <2>3 DEF Held
    <3>2. q - 1 \in k + 1..n
      <4>1. q - 1 # k
        BY <1>6, <2>3
      <4> QED
        BY <1>1, <1>3, <2>1, <4>1
    <3> QED
      BY <1>6, <2>1, <3>1, <3>2 DEF TextAt, Kept
  <2> QED
    BY <2>2, <2>3
<1>9. H = TextAt(s) \cup {q}
  BY <1>2, <1>7, <1>8
<1>10. TextAt(s) \in SUBSET (1..q - 1)
  <2>1. ASSUME NEW k \in TextAt(s) PROVE k \in 1..q - 1
    <3>1. k \in 1..n /\ k <= q /\ k # q
      BY <1>1, <1>2, <1>7
    <3> QED
      BY <1>3, <3>1
  <2> QED
    BY <2>1
<1>11. q - 1 \in Nat /\ (q - 1) + 1 = q
  BY <1>3
<1>12. q \notin TextAt(s)
  BY <1>7
<1> HIDE DEF H
<1>13. PICK p \in Nat : p = q - 1 /\ p + 1 = q
  BY <1>11
<1> QED
  BY <1>3, <1>5, <1>9, <1>10, <1>12, <1>13 DEF H

LEMMA FrontOfAppend ==
    ASSUME NEW S, NEW w \in Seq(S), NEW e \in S
    PROVE  Front(Append(w, e)) = w
<1>1. /\ Append(w, e) \in Seq(S) /\ Len(Append(w, e)) = Len(w) + 1 /\ Len(w) \in Nat
      /\ \A k \in 1..Len(w) : Append(w, e)[k] = w[k]
  BY LenProperties, AppendProperties
<1>2. Front(Append(w, e)) = SubSeq(Append(w, e), 1, Len(w))
  <2>1. Len(Append(w, e)) - 1 = Len(w)
    BY <1>1
  <2> QED
    BY <2>1 DEF Front
<1>3. /\ SubSeq(Append(w, e), 1, Len(w)) \in Seq(S)
      /\ Len(SubSeq(Append(w, e), 1, Len(w))) = Len(w)
      /\ \A k \in 1..Len(w) : SubSeq(Append(w, e), 1, Len(w))[k] = Append(w, e)[k]
  <2>1. Len(w) \in 0..Len(Append(w, e))
    BY <1>1
  <2> HIDE DEF Front
  <2> QED
    BY <1>1, <2>1, FrontType
<1>4. SubSeq(Append(w, e), 1, Len(w)) = w
  <2>1. \A k \in 1..Len(w) : SubSeq(Append(w, e), 1, Len(w))[k] = w[k]
    BY <1>1, <1>3
  <2> QED
    BY <1>3, <2>1, SeqEqual
<1> QED
  BY <1>2, <1>4

LEMMA TextType ==
    ASSUME NEW s \in Seq(Sym)
    PROVE  /\ TextOf(s) = Pick(s, TextAt(s)) /\ TextAt(s) \in SUBSET (1..Len(s))
           /\ TextOf(s) \in Seq(Sym) /\ Len(TextOf(s)) \in 0..Len(s)
           /\ TextOf(s) = <<>> <=> TextAt(s) = {}
<1>1. DOMAIN s = 1..Len(s) /\ Len(s) \in Nat /\ TextAt(s) \in SUBSET (1..Len(s))
  BY LenProperties DEF TextAt
<1>2. TextOf(s) = Pick(s, TextAt(s))
  BY <1>1 DEF TextOf, TextAt
<1>3. Within(s, TextAt(s), Sym)
  <2>1. \A p \in TextAt(s) : p \in 1..Len(s)
    BY <1>1
  <2> QED
    BY <2>1, ElementOfSeq DEF Within
<1>4. Pick(s, TextAt(s)) \in Seq(Sym) /\ Len(Pick(s, TextAt(s))) = Cardinality(TextAt(s))
  BY <1>1, <1>3, PickType
<1>5. IsFiniteSet(TextAt(s)) /\ Cardinality(TextAt(s)) \in 0..Len(s)
  BY <1>1, PositionsFinite
<1>6. Cardinality(TextAt(s)) = 0 <=> TextAt(s) = {}
  BY <1>5, FS_EmptySet
<1>7. Pick(s, TextAt(s)) = <<>> <=> Len(Pick(s, TextAt(s))) = 0
  BY <1>4, EmptySeq
<1> QED
  BY <1>1, <1>2, <1>4, <1>5, <1>6, <1>7

LEMMA HeldText ==
    ASSUME NEW s \in Seq(Sym)
    PROVE  Pick(s, Held(s, Len(s)))
             = IF Trails(s, Len(s)) THEN Append(TextOf(s), Blank) ELSE TextOf(s)
<1>1. TextOf(s) = Pick(s, TextAt(s))
  BY TextType
<1>2. CASE ~Trails(s, Len(s))
  BY <1>1, <1>2, TextHeld
<1>3. CASE Trails(s, Len(s))
  <2>1. PICK p \in Nat : /\ s[p + 1] = Blank /\ TextAt(s) \in SUBSET (1..p)
                         /\ Held(s, Len(s)) = TextAt(s) \cup {p + 1}
    BY <1>3, TextTrails
  <2>2. Within(s, TextAt(s) \cup {p + 1}, Sym)
    <3>1. Len(s) \in 0..Len(s)
      BY LenProperties
    <3> QED
      BY <2>1, <3>1, HeldType
  <2>3. TextAt(s) \in SUBSET (1..p) /\ p \in Nat
    BY <2>1
  <2>4. Pick(s, TextAt(s) \cup {p + 1}) = Append(Pick(s, TextAt(s)), s[p + 1])
    BY ONLY <2>2, <2>3, PickNew
  <2> QED
    BY <1>1, <1>3, <2>1, <2>4
<1> QED
  BY <1>2, <1>3

\* setup_buff copies the text of the argument.
LEMMA CopiesText ==
    ASSUME NEW s \in Seq(Sym)
    PROVE  Copied(s) = TextOf(s)
<1> DEFINE n == Len(s)
           last == FoldLeft(SetupChar, SetupBase, s)
<1>1. last = SetupAt(s, n)
  <2>1. PICK g : Loop(g, SetupStates, SetupTurn, SetupBase, s, n) /\ last = g[n]
    BY SetupIsLoop
  <2>2. n \in 0..n
    BY LenProperties
  <2> HIDE DEF last
  <2> QED
    BY <2>1, <2>2, SetupLoopIs
<1>2. Copied(s) = IF last.found_space THEN Front(last.text) ELSE last.text
  BY DEF Copied, SetupBase
<1> HIDE DEF last
<1>3. last.found_space = Trails(s, n) /\ last.text = Pick(s, Held(s, n))
  BY <1>1 DEF SetupAt
<1>4. Front(Append(TextOf(s), Blank)) = TextOf(s)
  BY TextType, FrontOfAppend DEF Sym
<1> QED
  BY <1>2, <1>3, <1>4, HeldText

-----------------------------------------------------------------------------
(***************************************************************************)
(* The words of an argument, position by position: how those of the first  *)
(* i symbols become those of the first i + 1.                              *)
(***************************************************************************)
WordAt(s, i, k) == {j \in 1..i : s[j] # Blank /\ Started(s, j) = k}
WordsTo(s, i) == [k \in 1..Started(s, i) |-> Pick(s, WordAt(s, i, k))]

LEMMA StartedStep ==
    ASSUME NEW s, NEW i \in Nat
    PROVE  /\ Started(s, i) \in Nat /\ Started(s, 0) = 0
           /\ Started(s, i + 1) = IF Starts(s, i + 1) THEN Started(s, i) + 1 ELSE Started(s, i)
<1> DEFINE C(n) == {j \in 1..n : Starts(s, j)}
<1>1. C(i) \in SUBSET (1..i) /\ C(0) = {}
  OBVIOUS
<1>2. C(i + 1) = IF Starts(s, i + 1) THEN C(i) \cup {i + 1} ELSE C(i)
  <2>1. \A m \in 1..i + 1 : m # i + 1 => m \in 1..i
    OBVIOUS
  <2>2. \A m \in 1..i : m \in 1..i + 1
    OBVIOUS
  <2> QED
    BY <2>1, <2>2
<1>3. i + 1 \notin C(i)
  OBVIOUS
<1> HIDE DEF C
<1>4. IsFiniteSet(C(i)) /\ Cardinality(C(i)) \in Nat
  BY <1>1, PositionsFinite
<1>5. Cardinality(C(i) \cup {i + 1}) = Cardinality(C(i)) + 1
  BY <1>3, <1>4, FS_AddElement
<1>6. Cardinality(C(0)) = 0
  BY <1>1, FS_EmptySet
<1> QED
  BY <1>2, <1>4, <1>5, <1>6 DEF C, Started

LEMMA StartedGrows ==
    ASSUME NEW s, NEW i \in Nat, NEW j \in 0..i
    PROVE  Started(s, j) <= Started(s, i)
<1> DEFINE C(n) == {m \in 1..n : Starts(s, m)}
<1>1. C(i) \in SUBSET (1..i) /\ C(j) \in SUBSET C(i)
  OBVIOUS
<1> HIDE DEF C
<1>2. Cardinality(C(j)) <= Cardinality(C(i))
  BY <1>1, PositionsFinite, FS_Subset
<1> QED
  BY <1>2 DEF C, Started

LEMMA WordsToType ==
    ASSUME NEW s \in Seq(Sym), NEW i \in 0..Len(s)
    PROVE  WordsTo(s, i) \in Seq(Seq(Sym)) /\ Len(WordsTo(s, i)) = Started(s, i)
<1>1. Started(s, i) \in Nat /\ i \in Nat /\ Len(s) \in Nat
  BY LenProperties, StartedStep
<1>2. ASSUME NEW k \in 1..Started(s, i) PROVE Pick(s, WordAt(s, i, k)) \in Seq(Sym)
  <2>1. WordAt(s, i, k) \in SUBSET (1..i)
    BY DEF WordAt
  <2>2. Within(s, WordAt(s, i, k), Sym)
    <3>1. \A p \in WordAt(s, i, k) : p \in 1..Len(s)
      BY <1>1 DEF WordAt
    <3> QED
      BY <3>1, ElementOfSeq DEF Within
  <2> QED
    BY <1>1, <2>1, <2>2, PickType
<1> QED
  BY <1>1, <1>2 DEF WordsTo

\* A blank changes no word,
LEMMA NoLetter ==
    ASSUME NEW s, NEW i \in Nat, s[i + 1] = Blank
    PROVE  WordsTo(s, i + 1) = WordsTo(s, i)
<1>1. Started(s, i + 1) = Started(s, i)
  BY StartedStep DEF Starts
<1>2. ASSUME NEW k PROVE WordAt(s, i + 1, k) = WordAt(s, i, k)
  <2>1. /\ \A m \in 1..i + 1 : m # i + 1 => m \in 1..i
        /\ \A m \in 1..i : m \in 1..i + 1
    OBVIOUS
  <2> QED
    BY <2>1 DEF WordAt
<1> QED
  BY <1>1, <1>2 DEF WordsTo

\* a letter that starts a word adds it,
LEMMA NewWord ==
    ASSUME NEW s \in Seq(Sym), NEW i \in Nat, i + 1 <= Len(s), Starts(s, i + 1)
    PROVE  WordsTo(s, i + 1) = Append(WordsTo(s, i), <<s[i + 1]>>)
<1> DEFINE c == Started(s, i)
<1>1. c \in Nat /\ Started(s, i + 1) = c + 1 /\ s[i + 1] # Blank
  BY StartedStep DEF Starts
<1>2. i \in 0..Len(s) /\ i + 1 \in 0..Len(s) /\ i + 1 \in 1..Len(s) /\ s[i + 1] \in Sym
  <2>1. Len(s) \in Nat
    BY LenProperties
  <2> QED
    BY <2>1, ElementOfSeq
<1>3. /\ \A m \in 1..i + 1 : m # i + 1 => m \in 1..i
      /\ \A m \in 1..i : m \in 1..i + 1
  OBVIOUS
<1>4. ASSUME NEW k \in 1..c PROVE WordAt(s, i + 1, k) = WordAt(s, i, k)
  <2>1. k # c + 1
    BY <1>1
  <2> QED
    BY <1>1, <1>3, <2>1 DEF WordAt
<1>5. WordAt(s, i, c + 1) = {}
  <2>1. ASSUME NEW j \in 1..i, Started(s, j) = c + 1 PROVE FALSE
    <3>1. Started(s, j) <= c
      BY StartedGrows
    <3> QED
      BY <1>1, <2>1, <3>1
  <2> QED
    BY <2>1 DEF WordAt
<1>6. WordAt(s, i + 1, c + 1) = {} \cup {i + 1}
  <2>1. \A j \in 1..i : ~(s[j] # Blank /\ Started(s, j) = c + 1)
    BY <1>5 DEF WordAt
  <2>2. i + 1 \in 1..i + 1
    OBVIOUS
  <2> QED
    BY <1>1, <1>3, <2>1, <2>2 DEF WordAt
<1>7. Pick(s, WordAt(s, i + 1, c + 1)) = <<s[i + 1]>>
  <2>1. {} \in SUBSET (1..i) /\ Within(s, {} \cup {i + 1}, Sym)
    BY <1>2 DEF Within
  <2>2. Pick(s, {} \cup {i + 1}) = Append(Pick(s, {}), s[i + 1])
    BY <2>1, PickNew
  <2>3. Append(<<>>, s[i + 1]) = <<s[i + 1]>>
    OBVIOUS
  <2> QED
    BY <1>6, <2>2, <2>3, PickNone
<1>8. /\ WordsTo(s, i) \in Seq(Seq(Sym)) /\ Len(WordsTo(s, i)) = c
      /\ WordsTo(s, i + 1) \in Seq(Seq(Sym)) /\ Len(WordsTo(s, i + 1)) = c + 1
  BY <1>1, <1>2, WordsToType
<1>9. /\ \A k \in 1..c : WordsTo(s, i + 1)[k] = WordsTo(s, i)[k]
      /\ WordsTo(s, i + 1)[c + 1] = <<s[i + 1]>>
  <2>1. c + 1 \in 1..c + 1 /\ \A k \in 1..c : k \in 1..c + 1
    BY <1>1
  <2> HIDE DEF c
  <2> QED
    BY <1>1, <1>4, <1>7, <2>1 DEF WordsTo, c
<1> DEFINE new == Append(WordsTo(s, i), <<s[i + 1]>>)
<1>10. <<s[i + 1]>> \in Seq(Sym)
  BY <1>2
<1>11. /\ new \in Seq(Seq(Sym)) /\ Len(new) = c + 1
       /\ \A k \in 1..c : new[k] = WordsTo(s, i)[k]
       /\ new[c + 1] = <<s[i + 1]>>
  BY <1>8, <1>10, AppendProperties
<1> HIDE DEF c, new
<1>12. \A k \in 1..c + 1 : WordsTo(s, i + 1)[k] = new[k]
  <2>1. \A k \in 1..c + 1 : k = c + 1 \/ k \in 1..c
    BY <1>1
  <2> QED
    BY <1>9, <1>11, <2>1
<1>13. WordsTo(s, i + 1) = new
  BY <1>8, <1>11, <1>12, SeqEqual
<1> QED
  BY <1>13 DEF new

\* and one that does not goes to the end of the last word.
LEMMA LongerWord ==
    ASSUME NEW s \in Seq(Sym), NEW i \in Nat, i + 1 <= Len(s),
           s[i + 1] # Blank, ~Starts(s, i + 1),
           NEW out \in Seq(Seq(Sym)), NEW word \in Seq(Sym), WordsTo(s, i) = Append(out, word)
    PROVE  WordsTo(s, i + 1) = Append(out, Append(word, s[i + 1]))
<1> DEFINE c == Started(s, i)
           w == WordsTo(s, i)
           x == WordsTo(s, i + 1)
<1>1. c \in Nat /\ Started(s, i + 1) = c
  BY StartedStep
<1>2. i \in 0..Len(s) /\ i + 1 \in 0..Len(s) /\ i + 1 \in 1..Len(s) /\ s[i + 1] \in Sym
  <2>1. Len(s) \in Nat
    BY LenProperties
  <2> QED
    BY <2>1, ElementOfSeq
<1>3. /\ \A m \in 1..i + 1 : m # i + 1 => m \in 1..i
      /\ \A m \in 1..i : m \in 1..i + 1
      /\ i + 1 \in 1..i + 1
  OBVIOUS
<1>4. /\ Len(w) = c /\ x \in Seq(Seq(Sym)) /\ Len(x) = c
  BY <1>1, <1>2, WordsToType
<1>5. /\ Len(Append(out, word)) = Len(out) + 1 /\ Len(out) \in Nat
      /\ \A k \in 1..Len(out) : Append(out, word)[k] = out[k]
      /\ Append(out, word)[Len(out) + 1] = word
  BY LenProperties, AppendProperties
<1>6. Len(out) + 1 = c /\ c \in 1..c
  BY <1>4, <1>5
<1>7. ASSUME NEW k \in 1..c, k # c PROVE WordAt(s, i + 1, k) = WordAt(s, i, k)
  BY <1>1, <1>3, <1>7 DEF WordAt
<1>8. WordAt(s, i + 1, c) = WordAt(s, i, c) \cup {i + 1}
  BY <1>1, <1>3 DEF WordAt
<1>9. Pick(s, WordAt(s, i + 1, c)) = Append(Pick(s, WordAt(s, i, c)), s[i + 1])
  <2>1. WordAt(s, i, c) \in SUBSET (1..i)
    BY DEF WordAt
  <2>2. \A p \in WordAt(s, i, c) \cup {i + 1} : p \in 1..Len(s)
    BY <1>2 DEF WordAt
  <2>3. Within(s, WordAt(s, i, c) \cup {i + 1}, Sym)
    BY <2>2, ElementOfSeq DEF Within
  <2>4. Pick(s, WordAt(s, i, c) \cup {i + 1}) = Append(Pick(s, WordAt(s, i, c)), s[i + 1])
    BY <2>1, <2>3, PickNew
  <2> QED
    BY <1>8, <2>4
<1>10. \A k \in 1..c : w[k] = Pick(s, WordAt(s, i, k)) /\ x[k] = Pick(s, WordAt(s, i + 1, k))
  BY <1>1 DEF WordsTo
<1> DEFINE new == Append(out, Append(word, s[i + 1]))
<1>11. Append(word, s[i + 1]) \in Seq(Sym)
  BY <1>2, AppendProperties
<1>12. /\ new \in Seq(Seq(Sym)) /\ Len(new) = c
       /\ \A k \in 1..Len(out) : new[k] = out[k]
       /\ new[c] = Append(word, s[i + 1])
  BY <1>6, <1>11, AppendProperties
<1> HIDE DEF c, w, x, new
<1>13. ASSUME NEW k \in 1..c PROVE x[k] = new[k]
  <2>1. CASE k = c
    BY <1>5, <1>6, <1>9, <1>10, <1>12, <2>1 DEF w
  <2>2. CASE k # c
    <3>1. k \in 1..Len(out)
      BY <1>1, <1>6, <2>2
    <3> QED
      BY <1>5, <1>7, <1>10, <1>12, <2>2, <3>1 DEF w
  <2> QED
    BY <2>1, <2>2
<1>14. x \in Seq(Seq(Sym)) /\ new \in Seq(Seq(Sym)) /\ Len(x) = Len(new)
  BY <1>4, <1>12 DEF x
<1>15. \A k \in 1..Len(x) : x[k] = new[k]
  BY <1>4, <1>13 DEF x
<1>16. x = new
  BY ONLY <1>14, <1>15, SeqEqual
<1> QED
  BY <1>16 DEF x, new

LEMMA WordsToAll ==
    ASSUME NEW s \in Seq(Sym)
    PROVE  WordsTo(s, Len(s)) = WordsOf(s) /\ WordsTo(s, 0) = <<>>
<1>1. DOMAIN s = 1..Len(s)
  BY LenProperties
<1>2. Started(s, 0) = 0
  BY StartedStep
<1>3. WordsTo(s, 0) = <<>>
  <2>1. 0 \in 0..Len(s)
    BY LenProperties
  <2>2. WordsTo(s, 0) \in Seq(Seq(Sym)) /\ Len(WordsTo(s, 0)) = 0
    BY <1>2, <2>1, WordsToType
  <2> QED
    BY <2>2, EmptySeq
<1> QED
  BY <1>1, <1>3 DEF WordsTo, WordsOf, WordAt

LEMMA WordsType ==
    ASSUME NEW s \in Seq(Sym)
    PROVE  WordsOf(s) \in Seq(Seq(Sym))
<1>1. Len(s) \in 0..Len(s)
  BY LenProperties
<1> QED
  BY <1>1, WordsToType, WordsToAll

-----------------------------------------------------------------------------
(***************************************************************************)
(* word_print.  Between two words what is printed are the words so far; in *)
(* one, with what there is of it.                                          *)
(***************************************************************************)
WordStates == [out : Seq(Seq(Sym)), word : Seq(Sym)]
WordBase == [out |-> <<>>, word |-> <<>>]
WordTurn == [p \in WordStates \X Sym |-> WordChar(p[1], p[2])]

LEMMA WordCharType ==
    ASSUME NEW st \in WordStates, NEW ch \in Sym
    PROVE  WordChar(st, ch) \in WordStates
<1>1. /\ st.out \in Seq(Seq(Sym)) /\ st.word \in Seq(Sym)
      /\ st = [out |-> st.out, word |-> st.word]
  BY DEF WordStates
<1>2. /\ Append(st.word, ch) \in Seq(Sym) /\ <<>> \in Seq(Sym)
      /\ Append(st.out, st.word) \in Seq(Seq(Sym))
  BY <1>1, AppendProperties, EmptySeq
<1> QED
  BY <1>1, <1>2 DEF WordChar, WordStates

LEMMA WordIsFold ==
    ASSUME NEW s \in Seq(Sym)
    PROVE  IsFold(WordStates, Sym, WordTurn, WordBase, s, Len(s))
<1>1. WordBase \in WordStates
  <2>1. <<>> \in Seq(Sym) /\ <<>> \in Seq(Seq(Sym))
    BY EmptySeq
  <2> QED
    BY <2>1 DEF WordBase, WordStates
<1>2. WordTurn \in [WordStates \X Sym -> WordStates]
  BY WordCharType DEF WordTurn
<1> QED
  BY <1>1, <1>2, LenProperties DEF IsFold

LEMMA WordIsLoop ==
    ASSUME NEW s \in Seq(Sym)
    PROVE  \E g : /\ Loop(g, WordStates, WordTurn, WordBase, s, Len(s))
                  /\ FoldLeft(WordChar, WordBase, s) = g[Len(s)]
<1> DEFINE n == Len(s)
           T == WordStates
           F == WordTurn
           base == WordBase
           Step(f, S) == IF S = {} THEN base ELSE WordChar(f[S \ {Max(S)}], s[Max(S)])
           h == CHOOSE f : f = [S \in SUBSET (1..n) |-> Step(f, S)]
<1>1. FoldLeft(WordChar, base, s) = h[1..n]
  <2>1. DOMAIN s = 1..n
    BY LenProperties
  <2> QED
    BY <2>1 DEF FoldLeft, MapThenFoldSet
<1>2. IsFold(T, Sym, F, base, s, n)
  BY WordIsFold
<1>3. \A a \in T, b \in Sym : F[<<a, b>>] = WordChar(a, b)
  BY DEF WordTurn
<1> HIDE DEF F, T, base, n
<1>4. \A S \in SUBSET (1..n) : S # {} => s[Max(S)] \in Sym
  BY <1>2, LastElement
<1>5. h = [S \in SUBSET (1..n) |-> Step(h, S)]
  <2>1. PICK f : Table(f, T, F, base, s, n)
    BY <1>2, FoldTable
  <2>2. \A S \in SUBSET (1..n) : f[S] = Step(f, S)
    BY <1>3, <1>4, <2>1 DEF Table
  <2>3. f = [S \in SUBSET (1..n) |-> Step(f, S)]
    BY <2>1, <2>2 DEF Table
  <2> QED
    BY <2>3
<1> HIDE DEF h
<1>6. Unfolds(h, T, F, base, s, n)
  <2>1. \A S \in SUBSET (1..n) : h[S] = Step(h, S)
    BY <1>5
  <2> QED
    BY <1>3, <1>4, <2>1 DEF Unfolds
<1> QED
  BY <1>1, <1>2, <1>6, FoldIsLoop DEF T, F, base, n

WordMeans(s, st, i) ==
    /\ st.word = <<>> => WordsTo(s, i) = st.out /\ (i = 0 \/ s[i] = Blank)
    /\ st.word # <<>> => WordsTo(s, i) = Append(st.out, st.word) /\ i > 0 /\ s[i] # Blank

LEMMA WordStep ==
    ASSUME NEW s \in Seq(Sym), NEW i \in Nat, i + 1 <= Len(s),
           NEW st \in WordStates, WordMeans(s, st, i)
    PROVE  WordMeans(s, WordChar(st, s[i + 1]), i + 1)
<1> DEFINE ch == s[i + 1]
           new == WordChar(st, ch)
<1>1. /\ st.out \in Seq(Seq(Sym)) /\ st.word \in Seq(Sym)
      /\ st = [out |-> st.out, word |-> st.word]
  BY DEF WordStates
<1>2. i + 1 > 0 /\ (i + 1) - 1 = i /\ (i + 1 = 1 <=> i = 0) /\ ch \in Sym
  <2>1. i + 1 \in 1..Len(s)
    BY LenProperties
  <2> QED
    BY <2>1, ElementOfSeq
<1>3. CASE ch = Blank /\ st.word = <<>>
  <2>1. new = st
    BY <1>3 DEF WordChar
  <2>2. WordsTo(s, i + 1) = WordsTo(s, i)
    BY <1>3, NoLetter
  <2> QED
    BY <1>3, <2>1, <2>2 DEF WordMeans
<1>4. CASE ch = Blank /\ st.word # <<>>
  <2>1. new = [out |-> Append(st.out, st.word), word |-> <<>>]
    BY <1>4 DEF WordChar
  <2>2. WordsTo(s, i + 1) = WordsTo(s, i)
    BY <1>4, NoLetter
  <2>3. new.out = Append(st.out, st.word) /\ new.word = <<>>
    BY <2>1
  <2> QED
    BY <1>4, <2>2, <2>3 DEF WordMeans
<1>5. CASE ch # Blank /\ st.word = <<>>
  <2>1. Starts(s, i + 1)
    BY <1>2, <1>5 DEF WordMeans, Starts
  <2>2. WordsTo(s, i + 1) = Append(st.out, <<ch>>)
    BY <1>5, <2>1, NewWord DEF WordMeans
  <2>3. new.out = st.out /\ new.word = <<ch>>
    <3>1. Append(<<>>, ch) = <<ch>>
      OBVIOUS
    <3> QED
      BY <1>1, <1>5, <3>1 DEF WordChar
  <2>4. <<ch>> # <<>>
    OBVIOUS
  <2> HIDE DEF new
  <2>5. WordMeans(s, new, i + 1)
    BY <1>2, <1>5, <2>2, <2>3, <2>4 DEF WordMeans
  <2> QED
    BY <2>5 DEF new
<1>6. CASE ch # Blank /\ st.word # <<>>
  <2>1. ~Starts(s, i + 1)
    BY <1>2, <1>6 DEF WordMeans, Starts
  <2>2. WordsTo(s, i + 1) = Append(st.out, Append(st.word, ch))
    BY <1>1, <1>6, <2>1, LongerWord DEF WordMeans
  <2>3. new.out = st.out /\ new.word = Append(st.word, ch)
    BY <1>1, <1>6 DEF WordChar
  <2>4. Append(st.word, ch) # <<>>
    BY <1>1, <1>2, AppendProperties
  <2> HIDE DEF new
  <2>5. WordMeans(s, new, i + 1)
    BY <1>2, <1>6, <2>2, <2>3, <2>4 DEF WordMeans
  <2> QED
    BY <2>5 DEF new
<1> QED
  BY <1>3, <1>4, <1>5, <1>6

LEMMA WordLoopMeans ==
    ASSUME NEW s \in Seq(Sym), NEW g,
           Loop(g, WordStates, WordTurn, WordBase, s, Len(s))
    PROVE  \A i \in 0..Len(s) : g[i] \in WordStates /\ WordMeans(s, g[i], i)
<1> DEFINE n == Len(s)
           S == {i \in 0..n : WordMeans(s, g[i], i)}
<1>1. n \in Nat /\ \A i \in 1..n : s[i] \in Sym
  BY LenProperties, ElementOfSeq
<1>0. \A i \in 0..n : g[i] \in WordStates
  BY DEF Loop
<1>2. 0 \in S
  <2>1. g[0] = WordBase /\ WordsTo(s, 0) = <<>>
    BY WordsToAll DEF Loop
  <2> QED
    BY <1>1, <2>1 DEF WordMeans, WordBase
<1>3. ASSUME NEW i \in 1..n, i - 1 \in S PROVE i \in S
  <2>1. i - 1 \in Nat /\ (i - 1) + 1 = i /\ i \in 0..n /\ i - 1 \in 0..n /\ (i - 1) + 1 <= n
    BY <1>1
  <2>2. g[i] = WordTurn[<<g[i - 1], s[i]>>] /\ g[i - 1] \in WordStates
    BY <2>1 DEF Loop
  <2>3. g[i] = WordChar(g[i - 1], s[i])
    BY <1>1, <2>2 DEF WordTurn
  <2>4. WordMeans(s, g[i - 1], i - 1)
    BY <1>3
  <2>5. WordMeans(s, WordChar(g[i - 1], s[(i - 1) + 1]), (i - 1) + 1)
    BY <2>1, <2>2, <2>4, WordStep
  <2> QED
    BY <2>1, <2>3, <2>5
<1>4. 0..n \subseteq S
  <2> HIDE DEF S
  <2> QED
    BY <1>1, <1>2, <1>3, UpToInduction
<1> QED
  BY <1>0, <1>4

\* What word_print has found behind a text, and once the text has ended.
WordScan(s) == FoldLeft(WordChar, WordBase, s)
WordsFound(s) == WordChar(WordScan(s), Blank).out

LEMMA WordScanMeans ==
    ASSUME NEW s \in Seq(Sym)
    PROVE  WordScan(s) \in WordStates /\ WordMeans(s, WordScan(s), Len(s))
<1>1. PICK g : Loop(g, WordStates, WordTurn, WordBase, s, Len(s)) /\ WordScan(s) = g[Len(s)]
  BY WordIsLoop DEF WordScan
<1>2. Len(s) \in 0..Len(s)
  BY LenProperties
<1> QED
  BY <1>1, <1>2, WordLoopMeans

LEMMA FindsWords ==
    ASSUME NEW s \in Seq(Sym)
    PROVE  WordsFound(s) = WordsOf(s)
<1> DEFINE st == WordScan(s)
<1>1. st \in WordStates /\ WordMeans(s, st, Len(s)) /\ WordsTo(s, Len(s)) = WordsOf(s)
  BY WordScanMeans, WordsToAll
<1> HIDE DEF st
<1>2. CASE st.word = <<>>
  BY <1>1, <1>2 DEF WordMeans, WordChar, WordsFound, st
<1>3. CASE st.word # <<>>
  BY <1>1, <1>3 DEF WordMeans, WordChar, WordsFound, st
<1> QED
  BY <1>2, <1>3

LEMMA WordScanAppend ==
    ASSUME NEW s \in Seq(Sym), NEW ch \in Sym
    PROVE  WordScan(Append(s, ch)) = WordChar(WordScan(s), ch)
<1> DEFINE n == Len(s)
           t == Append(s, ch)
<1>1. /\ t \in Seq(Sym) /\ Len(t) = n + 1 /\ n \in Nat /\ t[n + 1] = ch
      /\ \A i \in 1..n : t[i] = s[i]
  BY LenProperties, AppendProperties
<1>2. IsFold(WordStates, Sym, WordTurn, WordBase, s, n)
  BY WordIsFold
<1> HIDE DEF n, t
<1>3. PICK g : Loop(g, WordStates, WordTurn, WordBase, s, n) /\ WordScan(s) = g[n]
  BY WordIsLoop DEF WordScan, n
<1>4. PICK h : Loop(h, WordStates, WordTurn, WordBase, t, n + 1) /\ WordScan(t) = h[n + 1]
  BY <1>1, WordIsLoop DEF WordScan
<1>5. h[n + 1] = WordTurn[<<g[n], t[n + 1]>>]
  <2>1. \A i \in 1..n : t[i] = s[i]
    BY <1>1
  <2>2. Loop(g, WordStates, WordTurn, WordBase, s, n)
    BY <1>3
  <2>3. Loop(h, WordStates, WordTurn, WordBase, t, n + 1)
    BY <1>4
  <2> QED
    BY ONLY <1>2, <2>1, <2>2, <2>3, LoopFurther
<1>6. g[n] \in WordStates
  BY <1>1, <1>3 DEF Loop
<1>7. WordTurn[<<g[n], ch>>] = WordChar(g[n], ch)
  BY <1>6 DEF WordTurn
<1> QED
  BY <1>1, <1>3, <1>4, <1>5, <1>7 DEF t

\* The blanks setup_buff drops change no word: what is found in the text so far
\* is what would be found in the argument itself.
LEMMA HeldHasWords ==
    ASSUME NEW s \in Seq(Sym)
    PROVE  WordScan(Pick(s, Held(s, Len(s)))) = WordScan(s)
<1> DEFINE n == Len(s)
<1>1. n \in Nat /\ \A i \in 1..n : s[i] \in Sym
  BY LenProperties, ElementOfSeq
<1>2. PICK g : Loop(g, WordStates, WordTurn, WordBase, s, n) /\ WordScan(s) = g[n]
  BY WordIsLoop DEF WordScan
<1>3. \A i \in 0..n : g[i] \in WordStates /\ WordMeans(s, g[i], i)
  BY <1>2, WordLoopMeans
<1> DEFINE S == {i \in 0..n : WordScan(Pick(s, Held(s, i))) = g[i]}
<1>4. 0 \in S
  <2>1. Pick(s, Held(s, 0)) = <<>>
    BY HeldStep, PickNone
  <2>2. PICK h : Loop(h, WordStates, WordTurn, WordBase, <<>>, 0) /\ WordScan(<<>>) = h[0]
    <3>1. <<>> \in Seq(Sym) /\ Len(<<>>) = 0
      BY EmptySeq
    <3>2. \E h : Loop(h, WordStates, WordTurn, WordBase, <<>>, Len(<<>>)) /\ WordScan(<<>>) = h[Len(<<>>)]
      BY <3>1, WordIsLoop DEF WordScan
    <3> QED
      BY <3>1, <3>2
  <2>3. h[0] = WordBase /\ g[0] = WordBase
    BY <1>2, <2>2 DEF Loop
  <2> QED
    BY <1>1, <2>1, <2>2, <2>3
<1>5. ASSUME NEW i \in 1..n, i - 1 \in S PROVE i \in S
  <2>1. PICK m \in Nat : m = i - 1 /\ m + 1 = i /\ m + 1 <= n /\ m \in 0..n /\ m + 1 \in 0..n /\ m + 1 \in 1..n
    BY <1>1
  <2>2. WordScan(Pick(s, Held(s, m))) = g[m]
    BY <1>5, <2>1
  <2>3. g[m + 1] = WordChar(g[m], s[m + 1])
    <3>1. g[m + 1] = WordTurn[<<g[m], s[m + 1]>>]
      <4>1. (m + 1) - 1 = m
        BY <2>1
      <4> QED
        BY <1>2, <2>1, <4>1 DEF Loop
    <3> QED
      BY <1>1, <1>3, <2>1, <3>1 DEF WordTurn
  <2>4. CASE Held(s, m + 1) = Held(s, m) \cup {m + 1}
    <3>1. Pick(s, Held(s, m + 1)) = Append(Pick(s, Held(s, m)), s[m + 1])
      BY <2>1, <2>4, HeldGrows
    <3>2. Pick(s, Held(s, m)) \in Seq(Sym)
      BY <2>1, HeldType
    <3>3. WordScan(Append(Pick(s, Held(s, m)), s[m + 1])) = WordChar(g[m], s[m + 1])
      BY <1>1, <2>1, <2>2, <3>2, WordScanAppend
    <3> QED
      BY <2>1, <2>3, <3>1, <3>3
  <2>5. CASE ~(Held(s, m + 1) = Held(s, m) \cup {m + 1})
    <3>1. s[m + 1] = Blank /\ ~(m > 0 /\ s[m] # Blank) /\ Held(s, m + 1) = Held(s, m)
      BY <2>5, HeldStep
    <3>2. g[m].word = <<>>
      BY <1>3, <2>1, <3>1 DEF WordMeans
    <3>3. WordChar(g[m], s[m + 1]) = g[m]
      BY <3>1, <3>2 DEF WordChar
    <3> QED
      BY <2>1, <2>2, <2>3, <3>1, <3>3
  <2> QED
    BY <2>4, <2>5
<1>6. 0..n \subseteq S
  <2> HIDE DEF S
  <2> QED
    BY <1>1, <1>4, <1>5, UpToInduction
<1> QED
  BY <1>1, <1>2, <1>6

\* The text has the words of the argument.
LEMMA TextHasWords ==
    ASSUME NEW s \in Seq(Sym)
    PROVE  WordsFound(TextOf(s)) = WordsOf(s)
<1> DEFINE t == TextOf(s)
           n == Len(s)
<1>1. t \in Seq(Sym) /\ Blank \in Sym
  BY TextType DEF Sym
<1>2. WordScan(Pick(s, Held(s, n))) = WordScan(s)
  BY HeldHasWords
<1>3. WordsFound(s) = WordsOf(s)
  BY FindsWords
<1>4. CASE ~Trails(s, n)
  BY <1>2, <1>3, <1>4, HeldText DEF WordsFound
<1>5. CASE Trails(s, n)
  <2>1. WordScan(Append(t, Blank)) = WordScan(s)
    BY <1>2, <1>5, HeldText
  <2>2. WordChar(WordScan(t), Blank) = WordScan(s)
    BY <1>1, <2>1, WordScanAppend
  <2>3. WordScan(s).word = <<>>
    <3>1. s[n] = Blank /\ WordMeans(s, WordScan(s), n)
      BY <1>5, WordScanMeans DEF Trails
    <3> QED
      BY <3>1 DEF WordMeans
  <2>4. WordChar(WordScan(s), Blank) = WordScan(s)
    BY <2>3 DEF WordChar
  <2> QED
    BY <1>3, <2>2, <2>4 DEF WordsFound
<1> QED
  BY <1>4, <1>5

LEMMA WordsAreFewer ==
    ASSUME NEW s \in Seq(Sym)
    PROVE  WordsOf(s) \in Seq(Seq(Sym)) /\ Len(WordsOf(s)) \in 0..Len(s)
<1> DEFINE n == Len(s)
           C == {j \in 1..n : Starts(s, j)}
<1>1. n \in Nat /\ C \in SUBSET (1..n)
  BY LenProperties
<1>2. Cardinality(C) \in 0..n
  <2> HIDE DEF C, n
  <2> QED
    BY <1>1, PositionsFinite
<1>3. WordsTo(s, n) \in Seq(Seq(Sym)) /\ Len(WordsTo(s, n)) = Started(s, n)
  BY <1>1, WordsToType
<1> QED
  BY <1>2, <1>3, WordsToAll DEF Started

\* A text that is not empty has a word: its first letter starts one.
LEMMA NoWordNoText ==
    ASSUME NEW s \in Seq(Sym)
    PROVE  WordsOf(s) = <<>> <=> TextOf(s) = <<>>
<1> DEFINE n == Len(s)
           C == {j \in 1..n : Starts(s, j)}
           L == {j \in 1..n : s[j] # Blank}
<1>1. n \in Nat /\ C \in SUBSET (1..n) /\ L \subseteq Nat
  BY LenProperties
<1>2. C = {} <=> L = {}
  <2>1. C \subseteq L
    BY DEF Starts
  <2>2. ASSUME L # {} PROVE C # {}
    <3>1. PICK m \in L : \A k \in L : m <= k
      <4> HIDE DEF L
      <4> QED
        BY <1>1, <2>2, NatLeast
    <3>2. m = 1 \/ s[m - 1] = Blank
      <4> SUFFICES ASSUME m # 1, s[m - 1] # Blank PROVE FALSE
        OBVIOUS
      <4>1. m - 1 \in L /\ m \in Nat
        BY <1>1
      <4> QED
        BY <3>1, <4>1
    <3> QED
      BY <3>2 DEF Starts
  <2> QED
    BY <2>1, <2>2
<1>3. L = {} <=> TextAt(s) = {}
  <2>1. L \subseteq TextAt(s)
    BY DEF TextAt, Kept
  <2>2. ASSUME NEW k \in TextAt(s) PROVE L # {}
    <3>1. k \in 1..n /\ (s[k] # Blank \/ \E j \in k + 1..n : s[j] # Blank)
      BY DEF TextAt, Kept
    <3>2. \A j \in k + 1..n : j \in 1..n
      BY <1>1, <3>1
    <3> QED
      BY <3>1, <3>2
  <2> QED
    BY <2>1, <2>2
<1>4. IsFiniteSet(C) /\ (Cardinality(C) = 0 <=> C = {})
  <2> HIDE DEF C, n
  <2> QED
    BY <1>1, PositionsFinite, FS_EmptySet
<1>5. Len(WordsOf(s)) = Cardinality(C)
  <2>1. n \in 0..n
    BY <1>1
  <2> QED
    BY <2>1, WordsToType, WordsToAll DEF Started
<1>6. WordsOf(s) = <<>> <=> Len(WordsOf(s)) = 0
  BY WordsAreFewer, EmptySeq
<1> HIDE DEF C, L
<1> QED
  BY <1>2, <1>3, <1>4, <1>5, <1>6, TextType

-----------------------------------------------------------------------------
(***************************************************************************)
(* count_words counts what word_print has printed, and the word it is in.  *)
(***************************************************************************)
CountStates == [words : Nat, in_word : BOOLEAN]
CountBase == [words |-> 0, in_word |-> FALSE]
CountTurn == [p \in CountStates \X Sym |-> CountChar(p[1], p[2])]

LEMMA CountIsFold ==
    ASSUME NEW s \in Seq(Sym)
    PROVE  IsFold(CountStates, Sym, CountTurn, CountBase, s, Len(s))
<1>1. CountBase \in CountStates
  BY DEF CountBase, CountStates
<1>2. ASSUME NEW st \in CountStates, NEW ch \in Sym PROVE CountChar(st, ch) \in CountStates
  <2>1. st.words \in Nat /\ st.in_word \in BOOLEAN
    BY DEF CountStates
  <2>2. [st EXCEPT !.in_word = FALSE] \in CountStates
    BY DEF CountStates
  <2>3. [words |-> st.words + 1, in_word |-> TRUE] \in CountStates
    BY <2>1 DEF CountStates
  <2> QED
    BY <2>2, <2>3 DEF CountChar
<1>3. CountTurn \in [CountStates \X Sym -> CountStates]
  BY <1>2 DEF CountTurn
<1> QED
  BY <1>1, <1>3, LenProperties DEF IsFold

LEMMA CountIsLoop ==
    ASSUME NEW s \in Seq(Sym)
    PROVE  \E g : /\ Loop(g, CountStates, CountTurn, CountBase, s, Len(s))
                  /\ FoldLeft(CountChar, CountBase, s) = g[Len(s)]
<1> DEFINE n == Len(s)
           T == CountStates
           F == CountTurn
           base == CountBase
           Step(f, S) == IF S = {} THEN base ELSE CountChar(f[S \ {Max(S)}], s[Max(S)])
           h == CHOOSE f : f = [S \in SUBSET (1..n) |-> Step(f, S)]
<1>1. FoldLeft(CountChar, base, s) = h[1..n]
  <2>1. DOMAIN s = 1..n
    BY LenProperties
  <2> QED
    BY <2>1 DEF FoldLeft, MapThenFoldSet
<1>2. IsFold(T, Sym, F, base, s, n)
  BY CountIsFold
<1>3. \A a \in T, b \in Sym : F[<<a, b>>] = CountChar(a, b)
  BY DEF CountTurn
<1> HIDE DEF F, T, base, n
<1>4. \A S \in SUBSET (1..n) : S # {} => s[Max(S)] \in Sym
  BY <1>2, LastElement
<1>5. h = [S \in SUBSET (1..n) |-> Step(h, S)]
  <2>1. PICK f : Table(f, T, F, base, s, n)
    BY <1>2, FoldTable
  <2>2. \A S \in SUBSET (1..n) : f[S] = Step(f, S)
    BY <1>3, <1>4, <2>1 DEF Table
  <2>3. f = [S \in SUBSET (1..n) |-> Step(f, S)]
    BY <2>1, <2>2 DEF Table
  <2> QED
    BY <2>3
<1> HIDE DEF h
<1>6. Unfolds(h, T, F, base, s, n)
  <2>1. \A S \in SUBSET (1..n) : h[S] = Step(h, S)
    BY <1>5
  <2> QED
    BY <1>3, <1>4, <2>1 DEF Unfolds
<1> QED
  BY <1>1, <1>2, <1>6, FoldIsLoop DEF T, F, base, n

CountMeans(st, w) ==
    /\ st.in_word <=> w.word # <<>>
    /\ st.words = IF w.word = <<>> THEN Len(w.out) ELSE Len(w.out) + 1

LEMMA CountGoesAlong ==
    ASSUME NEW st \in CountStates, NEW w \in WordStates, NEW ch \in Sym, CountMeans(st, w)
    PROVE  CountMeans(CountChar(st, ch), WordChar(w, ch))
<1>1. /\ w.out \in Seq(Seq(Sym)) /\ w.word \in Seq(Sym) /\ w = [out |-> w.out, word |-> w.word]
      /\ st.words \in Nat /\ st.in_word \in BOOLEAN /\ st = [words |-> st.words, in_word |-> st.in_word]
      /\ Len(w.out) \in Nat
  BY LenProperties DEF WordStates, CountStates
<1>2. CASE ch = Blank /\ w.word = <<>>
  BY <1>1, <1>2 DEF CountMeans, CountChar, WordChar
<1>3. CASE ch = Blank /\ w.word # <<>>
  <2>1. Len(Append(w.out, w.word)) = Len(w.out) + 1
    BY <1>1, AppendProperties
  <2>2. WordChar(w, ch).out = Append(w.out, w.word) /\ WordChar(w, ch).word = <<>>
    BY <1>3 DEF WordChar
  <2>3. CountChar(st, ch).words = st.words /\ ~CountChar(st, ch).in_word
    BY <1>1, <1>3 DEF CountChar
  <2> QED
    BY <1>3, <2>1, <2>2, <2>3 DEF CountMeans
<1>4. CASE ch # Blank
  <2>1. Append(w.word, ch) # <<>>
    BY <1>1, AppendProperties
  <2>2. WordChar(w, ch).out = w.out /\ WordChar(w, ch).word = Append(w.word, ch)
    BY <1>1, <1>4 DEF WordChar
  <2>3. /\ CountChar(st, ch).in_word
        /\ CountChar(st, ch).words = IF st.in_word THEN st.words ELSE st.words + 1
    BY <1>1, <1>4 DEF CountChar
  <2> QED
    BY <1>1, <2>1, <2>2, <2>3 DEF CountMeans
<1> QED
  BY <1>2, <1>3, <1>4

LEMMA CountsWords ==
    ASSUME NEW s \in Seq(Sym)
    PROVE  FoldLeft(CountChar, CountBase, s).words = Len(WordsFound(s))
<1> DEFINE n == Len(s)
<1>1. n \in Nat /\ \A i \in 1..n : s[i] \in Sym
  BY LenProperties, ElementOfSeq
<1>2. PICK g : Loop(g, WordStates, WordTurn, WordBase, s, n) /\ WordScan(s) = g[n]
  BY WordIsLoop DEF WordScan
<1>3. PICK h : /\ Loop(h, CountStates, CountTurn, CountBase, s, n)
               /\ FoldLeft(CountChar, CountBase, s) = h[n]
  BY CountIsLoop
<1>4. \A i \in 0..n : g[i] \in WordStates /\ h[i] \in CountStates
  BY <1>2, <1>3 DEF Loop
<1> DEFINE S == {i \in 0..n : CountMeans(h[i], g[i])}
<1>5. 0 \in S
  <2>1. g[0] = WordBase /\ h[0] = CountBase /\ Len(<<>>) = 0
    BY <1>2, <1>3 DEF Loop
  <2> QED
    BY <1>1, <2>1 DEF CountMeans, WordBase, CountBase
<1>6. ASSUME NEW i \in 1..n, i - 1 \in S PROVE i \in S
  <2>1. i - 1 \in 0..n /\ i \in 0..n
    BY <1>1
  <2>2. g[i] = WordTurn[<<g[i - 1], s[i]>>] /\ h[i] = CountTurn[<<h[i - 1], s[i]>>]
    BY <1>2, <1>3 DEF Loop
  <2>3. g[i] = WordChar(g[i - 1], s[i]) /\ h[i] = CountChar(h[i - 1], s[i])
    BY <1>1, <1>4, <2>1, <2>2 DEF WordTurn, CountTurn
  <2>4. CountMeans(h[i - 1], g[i - 1])
    BY <1>6
  <2> QED
    BY <1>1, <1>4, <2>1, <2>3, <2>4, CountGoesAlong
<1>7. 0..n \subseteq S
  <2> HIDE DEF S
  <2> QED
    BY <1>1, <1>5, <1>6, UpToInduction
<1>8. CountMeans(h[n], g[n]) /\ g[n] \in WordStates
  BY <1>1, <1>4, <1>7
<1>9. Len(WordChar(g[n], Blank).out) = h[n].words
  <2>1. g[n].out \in Seq(Seq(Sym)) /\ g[n].word \in Seq(Sym)
    BY <1>8 DEF WordStates
  <2>2. CASE g[n].word = <<>>
    BY <1>8, <2>2 DEF CountMeans, WordChar
  <2>3. CASE g[n].word # <<>>
    <3>1. Len(Append(g[n].out, g[n].word)) = Len(g[n].out) + 1
      BY <2>1, AppendProperties
    <3> QED
      BY <1>8, <2>3, <3>1 DEF CountMeans, WordChar
  <2> QED
    BY <2>2, <2>3
<1> QED
  BY <1>2, <1>3, <1>9 DEF WordsFound

-----------------------------------------------------------------------------
(***************************************************************************)
(* reverse_string.  After n swaps the first n cells and the last n of the  *)
(* text hold what stood opposite them, and the others what they held.      *)
(***************************************************************************)
Bytes == Letters \cup {Blank, Dot, Behind}
Buffers == [Cells -> Bytes]
BufferOK == buff \in Buffers /\ str_len \in 0..BUFFER_SZ

SwapTurn == [p \in Buffers \X (1..Swaps) |-> Swap(p[1], p[2])]
Swapping == [n \in 1..Swaps |-> n]

LEMMA HalfOf ==
    ASSUME NEW n \in Nat
    PROVE  /\ n \div 2 \in Nat /\ 2 * (n \div 2) <= n /\ n <= 2 * (n \div 2) + 1
           /\ n \div 2 <= n
OBVIOUS

LEMMA SwapsType ==
    ASSUME BufferOK
    PROVE  /\ Swaps \in Nat /\ 2 * Swaps <= str_len /\ str_len <= 2 * Swaps + 1 /\ Swaps <= str_len
           /\ str_len \in Nat /\ BUFFER_SZ \in Nat /\ str_len <= BUFFER_SZ
BY HalfOf, StringFunAssumption DEF Swaps, BufferOK

LEMMA SwapType ==
    ASSUME BufferOK, NEW b \in Buffers, NEW n \in 1..Swaps
    PROVE  /\ Swap(b, n) \in Buffers
           /\ \A k \in Cells : Swap(b, n)[k] = IF k = n - 1 \/ k = str_len - n THEN b[str_len - 1 - k] ELSE b[k]
<1>1. n - 1 \in Cells /\ str_len - n \in Cells
  BY SwapsType DEF Cells
<1>2. b[n - 1] \in Bytes /\ b[str_len - n] \in Bytes
  BY <1>1 DEF Buffers
<1>3. Swap(b, n) \in Buffers
  BY <1>1, <1>2 DEF Swap, Buffers
<1>4. \A k \in Cells : Swap(b, n)[k] = IF k = str_len - n THEN b[n - 1]
                                       ELSE IF k = n - 1 THEN b[str_len - n] ELSE b[k]
  BY <1>1, <1>2 DEF Swap, Buffers
<1>5. /\ \A k \in Cells : k \in Int
      /\ str_len - 1 - (str_len - n) = n - 1 /\ str_len - 1 - (n - 1) = str_len - n
  BY SwapsType DEF Cells
<1> QED
  BY <1>3, <1>4, <1>5

LEMMA SwapIsFold ==
    ASSUME BufferOK
    PROVE  IsFold(Buffers, 1..Swaps, SwapTurn, buff, Swapping, Swaps)
<1>1. SwapTurn \in [Buffers \X (1..Swaps) -> Buffers]
  BY SwapType DEF SwapTurn
<1>2. Swapping \in [1..Swaps -> 1..Swaps]
  BY DEF Swapping
<1> QED
  BY <1>1, <1>2, SwapsType DEF IsFold, BufferOK

LEMMA SwapIsLoop ==
    ASSUME BufferOK
    PROVE  \E g : /\ Loop(g, Buffers, SwapTurn, buff, Swapping, Swaps)
                  /\ FoldLeft(Swap, buff, Swapping) = g[Swaps]
<1> DEFINE n == Swaps
           s == Swapping
           T == Buffers
           F == SwapTurn
           base == buff
           Step(f, S) == IF S = {} THEN base ELSE Swap(f[S \ {Max(S)}], s[Max(S)])
           h == CHOOSE f : f = [S \in SUBSET (1..n) |-> Step(f, S)]
<1>1. FoldLeft(Swap, base, s) = h[1..n]
  <2>1. DOMAIN s = 1..n
    BY DEF Swapping
  <2> QED
    BY <2>1 DEF FoldLeft, MapThenFoldSet
<1>2. IsFold(T, 1..n, F, base, s, n)
  BY SwapIsFold
<1>3. \A a \in T, b \in 1..n : F[<<a, b>>] = Swap(a, b)
  BY DEF SwapTurn
<1> HIDE DEF F, T, base, s, n
<1>4. \A S \in SUBSET (1..n) : S # {} => s[Max(S)] \in 1..n
  BY <1>2, LastElement
<1>5. h = [S \in SUBSET (1..n) |-> Step(h, S)]
  <2>1. PICK f : Table(f, T, F, base, s, n)
    BY <1>2, FoldTable
  <2>2. \A S \in SUBSET (1..n) : f[S] = Step(f, S)
    BY <1>3, <1>4, <2>1 DEF Table
  <2>3. f = [S \in SUBSET (1..n) |-> Step(f, S)]
    BY <2>1, <2>2 DEF Table
  <2> QED
    BY <2>3
<1> HIDE DEF h
<1>6. Unfolds(h, T, F, base, s, n)
  <2>1. \A S \in SUBSET (1..n) : h[S] = Step(h, S)
    BY <1>5
  <2> QED
    BY <1>3, <1>4, <2>1 DEF Unfolds
<1> QED
  BY <1>1, <1>2, <1>6, FoldIsLoop DEF T, F, base, s, n

Turned(b, n) ==
    \A k \in Cells :
        b[k] = IF k < n \/ (str_len - n <= k /\ k < str_len) THEN buff[str_len - 1 - k] ELSE buff[k]

LEMMA SwapStep ==
    ASSUME BufferOK, NEW b \in Buffers, NEW n \in 1..Swaps, Turned(b, n - 1)
    PROVE  Turned(Swap(b, n), n)
<1> SUFFICES ASSUME NEW k \in Cells
             PROVE  Swap(b, n)[k] = IF k < n \/ (str_len - n <= k /\ k < str_len)
                                    THEN buff[str_len - 1 - k] ELSE buff[k]
  BY DEF Turned
<1>1. /\ k \in Int /\ 0 <= k /\ k <= BUFFER_SZ /\ 1 <= n /\ 2 * n <= str_len /\ n \in Nat
      /\ str_len \in Nat /\ str_len <= BUFFER_SZ /\ BUFFER_SZ \in Nat
  BY SwapsType DEF Cells
<1>2. Swap(b, n)[k] = IF k = n - 1 \/ k = str_len - n THEN b[str_len - 1 - k] ELSE b[k]
  BY SwapType
<1>3. CASE k = n - 1 \/ k = str_len - n
  <2> DEFINE m == str_len - 1 - k
  <2>1. /\ m \in Cells /\ ~(m < n - 1 \/ (str_len - (n - 1) <= m /\ m < str_len))
        /\ k < n \/ (str_len - n <= k /\ k < str_len)
    BY <1>1, <1>3 DEF Cells
  <2> HIDE DEF m
  <2>2. b[m] = buff[m]
    BY <2>1 DEF Turned
  <2> QED
    BY <1>2, <1>3, <2>1, <2>2 DEF m
<1>4. CASE k # n - 1 /\ k # str_len - n
  <2>1. k < n - 1 \/ (str_len - (n - 1) <= k /\ k < str_len)
          <=> k < n \/ (str_len - n <= k /\ k < str_len)
    BY <1>1, <1>4
  <2> QED
    BY <1>2, <1>4, <2>1 DEF Turned
<1> QED
  BY <1>3, <1>4

\* The text is turned round, and nothing else moved.
LEMMA ReversesText ==
    ASSUME BufferOK
    PROVE  /\ FoldLeft(Swap, buff, Swapping) \in Buffers
           /\ \A k \in Cells : FoldLeft(Swap, buff, Swapping)[k]
                               = IF k < str_len THEN buff[str_len - 1 - k] ELSE buff[k]
<1>1. PICK g : /\ Loop(g, Buffers, SwapTurn, buff, Swapping, Swaps)
               /\ FoldLeft(Swap, buff, Swapping) = g[Swaps]
  BY SwapIsLoop
<1>2. Swaps \in Nat /\ 2 * Swaps <= str_len /\ str_len <= 2 * Swaps + 1 /\ str_len \in Nat
  BY SwapsType
<1> DEFINE S == {n \in 0..Swaps : Turned(g[n], n)}
<1>3. 0 \in S
  <2>1. g[0] = buff /\ 0 \in 0..Swaps
    BY <1>1, <1>2 DEF Loop
  <2>2. \A k \in Cells : ~(k < 0) /\ ~(str_len - 0 <= k /\ k < str_len)
    BY <1>2 DEF Cells
  <2>3. Turned(buff, 0)
    BY <2>2 DEF Turned
  <2> QED
    BY <2>1, <2>3
<1>4. ASSUME NEW n \in 1..Swaps, n - 1 \in S PROVE n \in S
  <2>1. n \in 0..Swaps /\ n - 1 \in 0..Swaps
    BY <1>2
  <2>2. g[n] = SwapTurn[<<g[n - 1], Swapping[n]>>] /\ g[n - 1] \in Buffers
    BY <1>1, <2>1 DEF Loop
  <2>3. g[n] = Swap(g[n - 1], n)
    BY <2>2 DEF SwapTurn, Swapping
  <2>4. Turned(g[n - 1], n - 1)
    BY <1>4
  <2> QED
    BY <2>1, <2>2, <2>3, <2>4, SwapStep
<1>5. 0..Swaps \subseteq S
  <2> HIDE DEF S
  <2> QED
    BY <1>2, <1>3, <1>4, UpToInduction
<1>6. Turned(g[Swaps], Swaps) /\ g[Swaps] \in Buffers
  BY <1>1, <1>2, <1>5 DEF Loop
<1>7. ASSUME NEW k \in Cells PROVE g[Swaps][k] = IF k < str_len THEN buff[str_len - 1 - k] ELSE buff[k]
  <2>1. k \in Nat
    BY StringFunAssumption DEF Cells
  <2>2. CASE k < Swaps \/ (str_len - Swaps <= k /\ k < str_len)
    <3>1. k < str_len
      BY <1>2, <2>1, <2>2
    <3> QED
      BY <1>6, <2>2, <3>1 DEF Turned
  <2>3. CASE ~(k < Swaps \/ (str_len - Swaps <= k /\ k < str_len))
    <3>1. k < str_len => str_len - 1 - k = k
      BY <1>2, <2>1, <2>3
    <3> QED
      BY <1>6, <2>3, <3>1 DEF Turned
  <2> QED
    BY <2>2, <2>3
<1> QED
  BY <1>1, <1>6, <1>7

-----------------------------------------------------------------------------
(***************************************************************************)
(* find_replace.  The tail is moved from its end; a cell it has been moved *)
(* to may be one it is still to be moved from, if the tail moves down.     *)
(***************************************************************************)
Fits(i) ==
    /\ BufferOK
    /\ old_str \in Seq(Sym) /\ new_str \in Seq(Sym)
    /\ i \in 0..str_len - Len(old_str)
    /\ ~TooLong

TailCells(i) == i + Len(old_str)..str_len
Moved(i) == str_len - i - Len(old_str) + 1
MoveTurn(i) == [p \in Buffers \X TailCells(i) |-> Move(p[1], p[2])]

LEMMA FitsType ==
    ASSUME NEW i, Fits(i)
    PROVE  /\ i \in Nat /\ Len(old_str) \in Nat /\ Len(new_str) \in Nat /\ str_len \in Nat
           /\ Shift \in Int /\ Shift = Len(new_str) - Len(old_str)
           /\ i + Len(old_str) <= str_len /\ str_len + Shift <= BUFFER_SZ
           /\ str_len <= BUFFER_SZ /\ BUFFER_SZ \in Nat
           /\ Moved(i) \in Nat /\ Moved(i) = str_len - i - Len(old_str) + 1
<1>1. Len(old_str) \in Nat /\ Len(new_str) \in Nat /\ BUFFER_SZ \in Nat
  BY LenProperties, StringFunAssumption DEF Fits
<1> QED
  BY <1>1 DEF Fits, BufferOK, TooLong, Shift, Moved

LEMMA MoveType ==
    ASSUME NEW i, Fits(i), NEW b \in Buffers, NEW k \in TailCells(i)
    PROVE  /\ Move(b, k) \in Buffers
           /\ \A c \in Cells : Move(b, k)[c] = IF c = k + Shift THEN b[k] ELSE b[c]
<1>1. k + Shift \in Cells /\ k \in Cells
  BY FitsType DEF TailCells, Cells
<1>2. b[k] \in Bytes
  BY <1>1 DEF Buffers
<1> QED
  BY <1>1, <1>2 DEF Move, Buffers

LEMMA MovesType ==
    ASSUME NEW i, Fits(i)
    PROVE  /\ Moves(i) \in [1..Moved(i) -> TailCells(i)] /\ DOMAIN Moves(i) = 1..Moved(i)
           /\ \A n \in 1..Moved(i) : Moves(i)[n] = str_len - n + 1
<1>1. \A n \in 1..Moved(i) : str_len - n + 1 \in TailCells(i)
  BY FitsType DEF TailCells
<1> QED
  BY <1>1 DEF Moves, Moved

LEMMA MoveIsFold ==
    ASSUME NEW i, Fits(i)
    PROVE  IsFold(Buffers, TailCells(i), MoveTurn(i), buff, Moves(i), Moved(i))
<1>1. MoveTurn(i) \in [Buffers \X TailCells(i) -> Buffers]
  BY MoveType DEF MoveTurn
<1> QED
  BY <1>1, MovesType, FitsType DEF IsFold, Fits, BufferOK

LEMMA MoveIsLoop ==
    ASSUME NEW i, Fits(i)
    PROVE  \E g : /\ Loop(g, Buffers, MoveTurn(i), buff, Moves(i), Moved(i))
                  /\ FoldLeft(Move, buff, Moves(i)) = g[Moved(i)]
<1> DEFINE n == Moved(i)
           s == Moves(i)
           T == Buffers
           F == MoveTurn(i)
           base == buff
           Step(f, S) == IF S = {} THEN base ELSE Move(f[S \ {Max(S)}], s[Max(S)])
           h == CHOOSE f : f = [S \in SUBSET (1..n) |-> Step(f, S)]
<1>1. FoldLeft(Move, base, s) = h[1..n]
  <2>1. DOMAIN s = 1..n
    BY MovesType
  <2> QED
    BY <2>1 DEF FoldLeft, MapThenFoldSet
<1>2. IsFold(T, TailCells(i), F, base, s, n)
  BY MoveIsFold
<1>3. \A a \in T, b \in TailCells(i) : F[<<a, b>>] = Move(a, b)
  BY DEF MoveTurn
<1> HIDE DEF F, T, base, s, n
<1>4. \A S \in SUBSET (1..n) : S # {} => s[Max(S)] \in TailCells(i)
  BY <1>2, LastElement
<1>5. h = [S \in SUBSET (1..n) |-> Step(h, S)]
  <2>1. PICK f : Table(f, T, F, base, s, n)
    BY <1>2, FoldTable
  <2>2. \A S \in SUBSET (1..n) : f[S] = Step(f, S)
    BY <1>3, <1>4, <2>1 DEF Table
  <2>3. f = [S \in SUBSET (1..n) |-> Step(f, S)]
    BY <2>1, <2>2 DEF Table
  <2> QED
    BY <2>3
<1> HIDE DEF h
<1>6. Unfolds(h, T, F, base, s, n)
  <2>1. \A S \in SUBSET (1..n) : h[S] = Step(h, S)
    BY <1>5
  <2> QED
    BY <1>3, <1>4, <2>1 DEF Unfolds
<1> QED
  BY <1>1, <1>2, <1>6, FoldIsLoop DEF T, F, base, s, n

\* What the moves so far have written.
Written(n) == str_len - n + 1 + Shift..str_len + Shift

AfterMoves(b, n) ==
    \A c \in Cells :
        b[c] = IF c \notin Written(n) THEN buff[c]
               ELSE IF Shift < 0 /\ c - Shift <= str_len + Shift THEN b[c - Shift]
               ELSE buff[c - Shift]

LEMMA MoveStep ==
    ASSUME NEW i, Fits(i), NEW b \in Buffers, NEW n \in 1..Moved(i), AfterMoves(b, n - 1)
    PROVE  AfterMoves(Move(b, str_len - n + 1), n)
<1> DEFINE k == str_len - n + 1
           d == Move(b, k)
<1>0. /\ i \in Nat /\ Len(old_str) \in Nat /\ Len(new_str) \in Nat /\ str_len \in Nat
      /\ Shift \in Int /\ Shift = Len(new_str) - Len(old_str)
      /\ i + Len(old_str) <= str_len /\ str_len + Shift <= BUFFER_SZ
      /\ str_len <= BUFFER_SZ /\ BUFFER_SZ \in Nat
      /\ Moved(i) \in Nat /\ Moved(i) = str_len - i - Len(old_str) + 1
  BY ONLY Fits(i), FitsType
<1>1. /\ n \in Nat /\ 1 <= n /\ n <= Moved(i) /\ k \in Int /\ k \in TailCells(i)
      /\ k + Shift \in Cells /\ k \in Cells
  BY ONLY <1>0, n \in 1..Moved(i) DEF TailCells, Cells
<1>2. \A c \in Cells : d[c] = IF c = k + Shift THEN b[k] ELSE b[c]
  BY <1>1, MoveType
<1> SUFFICES ASSUME NEW c \in Cells
             PROVE  d[c] = IF c \notin Written(n) THEN buff[c]
                           ELSE IF Shift < 0 /\ c - Shift <= str_len + Shift THEN d[c - Shift]
                           ELSE buff[c - Shift]
  BY DEF AfterMoves
<1>3. c \in Int /\ 0 <= c /\ c <= BUFFER_SZ
  BY FitsType DEF Cells
<1>4. c \in Written(n) <=> c = k + Shift \/ c \in Written(n - 1)
  <2>1. /\ n \in Nat /\ str_len \in Nat /\ Shift \in Int /\ c \in Int /\ 1 <= n
    BY <1>0, <1>1, <1>3
  <2> QED
    BY ONLY <2>1 DEF Written, k
<1>5. k + Shift \notin Written(n - 1)
  BY <1>1, <1>0 DEF Written
<1> HIDE DEF k, d
<1>6. CASE c = k + Shift
  <2>1. d[c] = b[k] /\ c - Shift = k
    BY <1>1, <1>2, <1>6, <1>0
  <2>2. CASE Shift < 0 /\ k <= str_len + Shift
    <3>1. d[k] = b[k]
      BY <1>1, <1>2, <2>2, <1>0
    <3> QED
      BY <1>4, <1>6, <2>1, <2>2, <3>1
  <2>3. CASE ~(Shift < 0 /\ k <= str_len + Shift)
    <3>1. k \notin Written(n - 1)
      BY <1>1, <2>3, <1>0 DEF Written, k
    <3>2. b[k] = buff[k]
      BY <1>1, <3>1 DEF AfterMoves
    <3> QED
      BY <1>4, <1>6, <2>1, <2>3, <3>2
  <2> QED
    BY <2>2, <2>3
<1>7. CASE c \in Written(n - 1)
  <2>1. d[c] = b[c]
    BY <1>2, <1>5, <1>7
  <2>2. b[c] = IF Shift < 0 /\ c - Shift <= str_len + Shift THEN b[c - Shift] ELSE buff[c - Shift]
    BY <1>7 DEF AfterMoves
  <2>3. ASSUME Shift < 0, c - Shift <= str_len + Shift PROVE d[c - Shift] = b[c - Shift]
    <3>1. c - Shift \in Cells
      BY ONLY <1>0, <1>3, <2>3 DEF Cells
    <3>2. c - Shift > k + Shift
      BY ONLY <1>0, <1>1, <1>3, <1>7, <2>3 DEF Written, k
    <3>3. c - Shift # k + Shift
      BY ONLY <1>0, <1>1, <1>3, <3>2 DEF k
    <3> QED
      BY <1>2, <3>1, <3>3
  <2> QED
    BY <1>4, <1>7, <2>1, <2>2, <2>3
<1>8. CASE c # k + Shift /\ c \notin Written(n - 1)
  BY <1>2, <1>4, <1>8 DEF AfterMoves
<1> QED
  BY <1>6, <1>7, <1>8

LEMMA MovesTail ==
    ASSUME NEW i, Fits(i)
    PROVE  FoldLeft(Move, buff, Moves(i)) \in Buffers /\ AfterMoves(FoldLeft(Move, buff, Moves(i)), Moved(i))
<1>1. PICK g : /\ Loop(g, Buffers, MoveTurn(i), buff, Moves(i), Moved(i))
               /\ FoldLeft(Move, buff, Moves(i)) = g[Moved(i)]
  BY MoveIsLoop
<1>2. Moved(i) \in Nat
  BY FitsType
<1> DEFINE S == {n \in 0..Moved(i) : AfterMoves(g[n], n)}
<1>3. 0 \in S
  <2>1. g[0] = buff /\ 0 \in 0..Moved(i)
    BY <1>1, <1>2 DEF Loop
  <2>2. Written(0) = {}
    BY FitsType DEF Written
  <2>3. AfterMoves(buff, 0)
    BY <2>2 DEF AfterMoves
  <2> QED
    BY <2>1, <2>3
<1>4. ASSUME NEW n \in 1..Moved(i), n - 1 \in S PROVE n \in S
  <2>1. n \in 0..Moved(i) /\ n - 1 \in 0..Moved(i)
    BY <1>2
  <2>2. g[n] = MoveTurn(i)[<<g[n - 1], Moves(i)[n]>>] /\ g[n - 1] \in Buffers
    BY <1>1, <2>1 DEF Loop
  <2>3. Moves(i)[n] = str_len - n + 1 /\ Moves(i)[n] \in TailCells(i)
    BY MovesType
  <2>4. g[n] = Move(g[n - 1], str_len - n + 1)
    BY <2>2, <2>3 DEF MoveTurn
  <2>5. AfterMoves(g[n - 1], n - 1)
    BY <1>4
  <2> QED
    BY <2>1, <2>2, <2>4, <2>5, MoveStep
<1>5. 0..Moved(i) \subseteq S
  <2> HIDE DEF S
  <2> QED
    BY <1>2, <1>3, <1>4, UpToInduction
<1>6. AfterMoves(g[Moved(i)], Moved(i)) /\ g[Moved(i)] \in Buffers
  BY <1>1, <1>2, <1>5 DEF Loop
<1> QED
  BY <1>1, <1>6

LEMMA PutType ==
    ASSUME NEW b \in Buffers, NEW i \in Nat, NEW s \in Seq(Sym)
    PROVE  /\ Put(b, i, s) \in Buffers
           /\ \A k \in Cells : Put(b, i, s)[k] = IF i <= k /\ k < i + Len(s) THEN s[k - i + 1] ELSE b[k]
<1>1. Len(s) \in Nat /\ DOMAIN s = 1..Len(s) /\ \A k \in 1..Len(s) : s[k] \in Bytes
  BY LenProperties, ElementOfSeq DEF Bytes, Sym
<1>2. \A k \in Cells : k \in Int
  BY DEF Cells
<1>3. \A k \in Cells : k - i + 1 \in DOMAIN s <=> i <= k /\ k < i + Len(s)
  BY <1>1, <1>2
<1>4. \A k \in Cells : b[k] \in Bytes
  BY DEF Buffers
<1>5. \A k \in Cells : Put(b, i, s)[k] = IF i <= k /\ k < i + Len(s) THEN s[k - i + 1] ELSE b[k]
  BY <1>3 DEF Put
<1>6. \A k \in Cells : (IF k - i + 1 \in DOMAIN s THEN s[k - i + 1] ELSE b[k]) \in Bytes
  BY <1>1, <1>4
<1>7. Put(b, i, s) \in Buffers
  BY <1>6 DEF Put, Buffers
<1> QED
  BY <1>5, <1>7

\* What a replacement leaves in each cell.
LEMMA ReplacedCells ==
    ASSUME NEW i, Fits(i)
    PROVE  /\ Replaced(i) \in Buffers
           /\ \A c \in Cells : Replaced(i)[c] =
                IF c < i THEN buff[c]
                ELSE IF c < i + Len(new_str) THEN new_str[c - i + 1]
                ELSE IF c > str_len + Shift THEN buff[c]
                ELSE IF Shift < 0 /\ c - Shift <= str_len + Shift THEN Replaced(i)[c - Shift]
                ELSE buff[c - Shift]
<1> DEFINE b == FoldLeft(Move, buff, Moves(i))
           R == Replaced(i)
<1>0. /\ i \in Nat /\ Len(old_str) \in Nat /\ Len(new_str) \in Nat /\ str_len \in Nat
      /\ Shift \in Int /\ Shift = Len(new_str) - Len(old_str)
      /\ i + Len(old_str) <= str_len /\ str_len + Shift <= BUFFER_SZ
      /\ str_len <= BUFFER_SZ /\ BUFFER_SZ \in Nat
      /\ Moved(i) \in Nat /\ Moved(i) = str_len - i - Len(old_str) + 1
  BY ONLY Fits(i), FitsType
<1>1. b \in Buffers /\ AfterMoves(b, Moved(i))
  BY MovesTail
<1>2. new_str \in Seq(Sym)
  BY DEF Fits
<1>3. R = Put(b, i, new_str)
  BY DEF Replaced
<1> HIDE DEF b, R
<1>4. /\ R \in Buffers
      /\ \A k \in Cells : R[k] = IF i <= k /\ k < i + Len(new_str) THEN new_str[k - i + 1] ELSE b[k]
  BY <1>0, <1>1, <1>2, <1>3, PutType
<1>5. ASSUME NEW c \in Cells
      PROVE  R[c] = IF c < i THEN buff[c]
                    ELSE IF c < i + Len(new_str) THEN new_str[c - i + 1]
                    ELSE IF c > str_len + Shift THEN buff[c]
                    ELSE IF Shift < 0 /\ c - Shift <= str_len + Shift THEN R[c - Shift]
                    ELSE buff[c - Shift]
  <2>0. c \in Int /\ 0 <= c /\ c <= BUFFER_SZ
    BY <1>0 DEF Cells
  <2>1. c \in Written(Moved(i)) <=> i + Len(new_str) <= c /\ c <= str_len + Shift
    BY <1>0, <2>0 DEF Written
  <2>2. b[c] = IF c \notin Written(Moved(i)) THEN buff[c]
               ELSE IF Shift < 0 /\ c - Shift <= str_len + Shift THEN b[c - Shift]
               ELSE buff[c - Shift]
    BY <1>1 DEF AfterMoves
  <2>3. CASE c < i
    BY <1>0, <1>4, <2>0, <2>1, <2>2, <2>3
  <2>4. CASE i <= c /\ c < i + Len(new_str)
    BY <1>0, <1>4, <2>0, <2>4
  <2>5. CASE i + Len(new_str) <= c /\ c > str_len + Shift
    BY <1>0, <1>4, <2>0, <2>1, <2>2, <2>5
  <2>6. CASE i + Len(new_str) <= c /\ c <= str_len + Shift
    <3>1. R[c] = b[c]
      BY <1>0, <1>4, <2>0, <2>6
    <3>2. b[c] = IF Shift < 0 /\ c - Shift <= str_len + Shift THEN b[c - Shift] ELSE buff[c - Shift]
      BY <2>1, <2>2, <2>6
    <3>3. ASSUME Shift < 0, c - Shift <= str_len + Shift PROVE b[c - Shift] = R[c - Shift]
      <4> DEFINE d == c - Shift
      <4>1. d \in Cells /\ ~(d < i + Len(new_str))
        BY <1>0, <2>0, <2>6, <3>3 DEF Cells
      <4> HIDE DEF d
      <4>2. R[d] = b[d]
        BY <1>4, <4>1
      <4> QED
        BY <4>2 DEF d
    <3>4. R[c] = IF Shift < 0 /\ c - Shift <= str_len + Shift THEN R[c - Shift] ELSE buff[c - Shift]
      BY <3>1, <3>2, <3>3
    <3> QED
      BY <1>0, <2>0, <2>6, <3>4
  <2> QED
    BY <1>0, <2>0, <2>3, <2>4, <2>5, <2>6
<1> QED
  BY <1>4, <1>5 DEF R

\* Too long: what is written stays within the buffer.
LEMMA OverflowedType ==
    ASSUME NEW i \in Nat, BufferOK, new_str \in Seq(Sym), i <= str_len, BUFFER_SZ - str_len <= Len(new_str)
    PROVE  /\ Overflowed(i) \in Buffers /\ Overflowed(i)[BUFFER_SZ] = buff[BUFFER_SZ]
           /\ \A k \in 0..BUFFER_SZ - 1 : buff[k] # Behind => Overflowed(i)[k] # Behind
<1> DEFINE room == BUFFER_SZ - str_len
           s == SubSeq(new_str, 1, room)
           b == Put(buff, i, s)
<1>1. BUFFER_SZ \in Nat /\ str_len \in Nat /\ room \in Nat /\ room \in 0..Len(new_str) /\ Len(new_str) \in Nat
  BY StringFunAssumption, LenProperties DEF BufferOK
<1>2. s \in Seq(Sym) /\ Len(s) = room
  BY <1>1, FrontType
<1>3. buff \in Buffers
  BY DEF BufferOK
<1>4. Overflowed(i) = [k \in Cells |-> IF k \in room..BUFFER_SZ - 1 THEN Dot ELSE b[k]]
  BY DEF Overflowed
<1> HIDE DEF s
<1>5. /\ b \in Buffers
      /\ \A k \in Cells : b[k] = IF i <= k /\ k < i + room THEN s[k - i + 1] ELSE buff[k]
  <2>1. /\ Put(buff, i, s) \in Buffers
        /\ \A k \in Cells : Put(buff, i, s)[k] = IF i <= k /\ k < i + Len(s) THEN s[k - i + 1] ELSE buff[k]
    BY ONLY <1>2, <1>3, PutType, i \in Nat
  <2> QED
    BY <1>2, <2>1
<1>6. \A k \in 1..room : s[k] \in Sym
  BY <1>2, ElementOfSeq
<1> HIDE DEF b
<1>7. \A k \in Cells : (IF k \in room..BUFFER_SZ - 1 THEN Dot ELSE b[k]) \in Bytes
  BY <1>5 DEF Buffers, Bytes
<1>8. Overflowed(i) \in Buffers
  BY <1>4, <1>7 DEF Buffers
<1>9. Overflowed(i)[BUFFER_SZ] = buff[BUFFER_SZ]
  <2>1. BUFFER_SZ \in Cells /\ BUFFER_SZ \notin room..BUFFER_SZ - 1 /\ ~(BUFFER_SZ < i + room)
    BY <1>1 DEF Cells
  <2> QED
    BY <1>4, <1>5, <2>1
<1>10. ASSUME NEW k \in 0..BUFFER_SZ - 1, buff[k] # Behind PROVE Overflowed(i)[k] # Behind
  <2>1. k \in Cells /\ k \in Int
    BY <1>1 DEF Cells
  <2>2. Behind \notin Sym /\ Dot # Behind
    BY StringFunAssumption DEF Sym, Behind, Blank, Dot
  <2>3. i <= k /\ k < i + room => k - i + 1 \in 1..room
    BY <1>1, <2>1
  <2>4. b[k] # Behind
    BY <1>5, <1>6, <1>10, <2>1, <2>2, <2>3
  <2> QED
    BY <1>4, <2>1, <2>2, <2>4
<1> QED
  BY <1>8, <1>9, <1>10

\* "Modified String" has the cells before the first dot.
LEMMA ModifiedIs ==
    ASSUME NEW b \in Buffers
    PROVE  \E n \in 0..BUFFER_SZ :
             /\ Modified(b) = Shown(b, n)
             /\ \A k \in 0..n - 1 : b[k] # Dot
             /\ n = BUFFER_SZ \/ b[n] = Dot
<1> DEFINE s == Shown(b, BUFFER_SZ)
           Dots == {k \in 1..Len(s) : s[k] = Dot}
<1>1. BUFFER_SZ \in Nat
  BY StringFunAssumption
<1>2. s = [k \in 1..BUFFER_SZ |-> b[k - 1]]
  BY DEF Shown
<1>3. Len(s) = BUFFER_SZ /\ \A k \in 1..BUFFER_SZ : s[k] = b[k - 1]
  BY <1>1, <1>2
<1>4. CASE Dots = {}
  <2>1. Modified(b) = Shown(b, BUFFER_SZ)
    BY <1>4 DEF Modified, SelectInSeq
  <2>2. ASSUME NEW k \in 0..BUFFER_SZ - 1 PROVE b[k] # Dot
    <3>1. k + 1 \in 1..BUFFER_SZ /\ (k + 1) - 1 = k
      BY <1>1
    <3>2. s[k + 1] # Dot
      BY <1>3, <1>4, <3>1
    <3> QED
      BY <1>3, <3>1, <3>2
  <2> QED
    BY <1>1, <2>1, <2>2
<1>5. CASE Dots # {}
  <2> DEFINE m == Min(Dots)
  <2>1. m \in Dots /\ \A k \in Dots : m <= k
    <3>1. Dots \subseteq Nat
      BY <1>1, <1>3
    <3> HIDE DEF Dots
    <3> QED
      BY <1>5, <3>1, MinIsLeast
  <2>2. m # 0
    <3> HIDE DEF m
    <3> QED
      BY <2>1
  <2>3. Modified(b) = Shown(b, m - 1)
    BY <1>5, <2>2 DEF Modified, SelectInSeq
  <2> HIDE DEF m
  <2>4. m \in 1..BUFFER_SZ /\ s[m] = Dot
    BY <1>3, <2>1
  <2>5. m - 1 \in 0..BUFFER_SZ /\ b[m - 1] = Dot
    BY <1>1, <1>3, <2>4
  <2>6. ASSUME NEW k \in 0..(m - 1) - 1 PROVE b[k] # Dot
    <3>1. k + 1 \in 1..BUFFER_SZ /\ (k + 1) - 1 = k /\ ~(m <= k + 1)
      BY <1>1, <2>4
    <3>2. k + 1 \notin Dots
      BY <2>1, <3>1
    <3>3. s[k + 1] # Dot
      BY <1>3, <3>1, <3>2
    <3> QED
      BY <1>3, <3>1, <3>3
  <2> QED
    BY <2>3, <2>5, <2>6
<1> QED
  BY <1>4, <1>5

-----------------------------------------------------------------------------
(***************************************************************************)
(* What was asked for: the text with old_str at i replaced.                *)
(***************************************************************************)
Asked(i) ==
    /\ Before \in Seq(Sym) /\ old_str \in Seq(Sym) /\ new_str \in Seq(Sym)
    /\ i \in 0..Len(Before) - Len(old_str)

LEMMA AfterType ==
    ASSUME NEW i, Asked(i)
    PROVE  /\ After(i) \in Seq(Sym) /\ Len(After(i)) = Len(Before) + Shift
           /\ \A k \in 1..Len(Before) + Shift :
                After(i)[k] = IF k <= i THEN Before[k]
                              ELSE IF k <= i + Len(new_str) THEN new_str[k - i]
                              ELSE Before[k - Shift]
<1> DEFINE t == Before
           a == SubSeq(t, 1, i)
           z == SubSeq(t, i + Len(old_str) + 1, Len(t))
<1>1. /\ t \in Seq(Sym) /\ old_str \in Seq(Sym) /\ new_str \in Seq(Sym)
      /\ Len(t) \in Nat /\ Len(old_str) \in Nat /\ Len(new_str) \in Nat
      /\ i \in 0..Len(t) - Len(old_str)
  BY LenProperties DEF Asked
<1>2. Shift = Len(new_str) - Len(old_str)
  BY DEF Shift
<1>3. After(i) = a \o new_str \o z
  BY DEF After
<1> HIDE DEF t
<1>4. i \in 0..Len(t) /\ i + Len(old_str) \in 0..Len(t)
  BY <1>1
<1>5. a \in Seq(Sym) /\ Len(a) = i /\ \A k \in 1..i : a[k] = t[k]
  BY <1>1, <1>4, FrontType
<1>6. /\ z \in Seq(Sym) /\ Len(z) = Len(t) - (i + Len(old_str))
      /\ \A k \in 1..Len(t) - (i + Len(old_str)) : z[k] = t[i + Len(old_str) + k]
  BY <1>1, <1>4, RestType
<1> HIDE DEF a, z
<1>7. /\ a \o new_str \in Seq(Sym) /\ Len(a \o new_str) = i + Len(new_str)
      /\ \A k \in 1..i + Len(new_str) : (a \o new_str)[k] = IF k <= i THEN a[k] ELSE new_str[k - i]
  BY <1>1, <1>5, ConcatProperties
<1> DEFINE b == a \o new_str
<1>8. After(i) = b \o z
  BY <1>3
<1> HIDE DEF b
<1>9. b \in Seq(Sym) /\ Len(b) = i + Len(new_str)
  BY <1>7 DEF b
<1>10. /\ b \o z \in Seq(Sym)
       /\ Len(b \o z) = Len(b) + Len(z)
       /\ \A k \in 1..Len(b) + Len(z) : (b \o z)[k] = IF k <= Len(b) THEN b[k] ELSE z[k - Len(b)]
  <2>1. b \in Seq(Sym) /\ z \in Seq(Sym)
    BY <1>6, <1>9
  <2> QED
    BY ONLY <2>1, ConcatProperties
<1>11. Len(b) + Len(z) = Len(t) + Shift
  BY <1>1, <1>2, <1>6, <1>9
<1>12. ASSUME NEW k \in 1..Len(t) + Shift
       PROVE  (b \o z)[k] = IF k <= i THEN t[k]
                            ELSE IF k <= i + Len(new_str) THEN new_str[k - i]
                            ELSE t[k - Shift]
  <2>1. (b \o z)[k] = IF k <= i + Len(new_str) THEN b[k] ELSE z[k - (i + Len(new_str))]
    BY <1>9, <1>10, <1>11
  <2>2. k \in Int /\ 1 <= k /\ k <= Len(t) + Shift
    BY <1>1, <1>2
  <2>3. CASE k <= i + Len(new_str)
    <3>1. k \in 1..i + Len(new_str)
      BY <1>1, <2>2, <2>3
    <3>2. b[k] = IF k <= i THEN a[k] ELSE new_str[k - i]
      BY <1>7, <3>1 DEF b
    <3>3. k <= i => a[k] = t[k]
      BY <1>1, <1>5, <2>2
    <3> QED
      BY <1>1, <2>1, <2>2, <2>3, <3>2, <3>3
  <2>4. CASE ~(k <= i + Len(new_str))
    <3> DEFINE m == k - (i + Len(new_str))
    <3>1. m \in 1..Len(t) - (i + Len(old_str)) /\ i + Len(old_str) + m = k - Shift
      BY <1>1, <1>2, <2>2, <2>4
    <3>2. z[m] = t[k - Shift]
      BY <1>6, <3>1
    <3> QED
      BY <1>1, <2>1, <2>2, <2>4, <3>2
  <2> QED
    BY <2>3, <2>4
<1> QED
  BY <1>8, <1>10, <1>11, <1>12 DEF t

\* What strstr finds in the buffer is in the text, and the other way round.
LEMMA OccursPlaces ==
    ASSUME Before \in Seq(Sym), old_str \in Seq(Sym), str_len = Len(Before), Holds(Before)
    PROVE  Occurs = Places
<1> DEFINE t == Before
           m == Len(old_str)
<1>1. /\ t \in Seq(Sym) /\ Len(t) \in Nat /\ m \in Nat /\ DOMAIN old_str = 1..m
      /\ str_len = Len(t) /\ BUFFER_SZ \in Nat
  BY LenProperties, StringFunAssumption
<1>2. Len(t) <= BUFFER_SZ /\ \A k \in 0..BUFFER_SZ - 1 : buff[k] = IF k < Len(t) THEN t[k + 1] ELSE Dot
  BY DEF Holds
<1>3. Places = {i \in 0..Len(t) - m : SubSeq(t, i + 1, i + m) = old_str}
  BY DEF Places
<1>4. Occurs = {i \in 0..Len(t) - m : \A j \in 1..m : buff[i + j - 1] = old_str[j]}
  BY <1>1 DEF Occurs, OccursAt
<1> HIDE DEF t, m
<1>5. ASSUME NEW i \in 0..Len(t) - m
      PROVE  (\A j \in 1..m : buff[i + j - 1] = old_str[j]) <=> SubSeq(t, i + 1, i + m) = old_str
  <2>1. \A j \in 1..m : i + j - 1 \in 0..BUFFER_SZ - 1 /\ i + j - 1 < Len(t) /\ (i + j - 1) + 1 = i + j
    BY <1>1, <1>2
  <2>2. \A j \in 1..m : buff[i + j - 1] = t[i + j]
    BY <1>2, <2>1
  <2>3. i + 1 \in Int /\ i + m \in Int /\ \A k \in i + 1..i + m : t[k] \in Sym
    <3>1. \A k \in i + 1..i + m : k \in 1..Len(t)
      BY <1>1
    <3> QED
      BY <1>1, <3>1, ElementOfSeq
  <2>4. /\ SubSeq(t, i + 1, i + m) \in Seq(Sym)
        /\ Len(SubSeq(t, i + 1, i + m)) = IF i + 1 <= i + m THEN (i + m) - (i + 1) + 1 ELSE 0
        /\ \A k \in 1..(i + m) - (i + 1) + 1 : SubSeq(t, i + 1, i + m)[k] = t[(i + 1) + k - 1]
    BY <2>3, SubSeqProperties
  <2>5. /\ Len(SubSeq(t, i + 1, i + m)) = m
        /\ \A k \in 1..m : SubSeq(t, i + 1, i + m)[k] = t[i + k]
    <3>1. /\ (i + m) - (i + 1) + 1 = m /\ (~(i + 1 <= i + m) => m = 0)
          /\ \A k \in 1..m : (i + 1) + k - 1 = i + k
      BY <1>1
    <3> QED
      BY <2>4, <3>1
  <2>6. ASSUME \A j \in 1..m : SubSeq(t, i + 1, i + m)[j] = old_str[j]
        PROVE  SubSeq(t, i + 1, i + m) = old_str
    BY ONLY <2>4, <2>5, <2>6, SeqEqual, old_str \in Seq(Sym), m = Len(old_str) DEF m
  <2> QED
    BY <2>2, <2>5, <2>6
<1> QED
  BY <1>3, <1>4, <1>5

LEMMA LeastIs ==
    ASSUME NEW S, S \subseteq Nat, S # {}
    PROVE  /\ (CHOOSE m \in S : \A n \in S : m <= n) \in S
           /\ \A k \in S : (CHOOSE m \in S : \A n \in S : m <= n) <= k
BY NatLeast

-----------------------------------------------------------------------------
(***************************************************************************)
(* The invariant.  Until the buffer is filled it has what the heap had; a  *)
(* filled buffer holds the text of an argument that fits.  A program that  *)
(* has exited does nothing more, so what it left is what is claimed of it. *)
(***************************************************************************)
Typed ==
    /\ opt \in Options
    /\ input # Missing => input \in Seq(Sym)
    /\ opt = "x" => old_str \in Seq(Sym) /\ (new_str # Missing => new_str \in Seq(Sym))
    /\ buff \in Buffers

Unset ==
    pc = "args" => (\A k \in Cells : buff[k] = Behind) /\ str_len = 0 /\ rc = 0 /\ code = -1

Filled ==
    pc = "buffered" =>
        /\ input # Missing /\ Len(input) <= BUFFER_SZ /\ opt # "h"
        /\ str_len = Len(TextOf(input)) /\ Holds(TextOf(input)) /\ buff[BUFFER_SZ] = Behind
        /\ rc = 0 /\ code = -1

Claims ==
    /\ StringTypeOK
    /\ WordsAgree
    /\ ReverseExact
    /\ ReplaceExact
    /\ BehindTheBuffer

StringInv == Typed /\ Unset /\ Filled /\ Claims

\* A filled buffer, and what is in its cells.
Ready ==
    /\ BufferOK /\ Before \in Seq(Sym)
    /\ str_len = Len(Before) /\ Holds(Before) /\ buff[BUFFER_SZ] = Behind

LEMMA SymbolsDiffer == Behind \notin Sym /\ Dot # Behind /\ Sym \subseteq Bytes
BY StringFunAssumption DEF Sym, Bytes, Dot, Behind, Blank

LEMMA ReadyCells ==
    ASSUME Ready
    PROVE  /\ BUFFER_SZ \in Nat /\ str_len \in Nat /\ str_len <= BUFFER_SZ /\ Cells = 0..BUFFER_SZ
           /\ \A k \in 0..BUFFER_SZ - 1 :
                /\ k < str_len => buff[k] = Before[k + 1] /\ buff[k] \in Sym
                /\ ~(k < str_len) => buff[k] = Dot
                /\ buff[k] # Behind
<1> DEFINE t == Before
<1>1. BUFFER_SZ \in Nat /\ str_len \in Nat /\ str_len <= BUFFER_SZ /\ str_len = Len(t) /\ t \in Seq(Sym)
  BY StringFunAssumption DEF Ready, BufferOK
<1>2. \A k \in 0..BUFFER_SZ - 1 : buff[k] = IF k < Len(t) THEN t[k + 1] ELSE Dot
  BY DEF Ready, Holds
<1> HIDE DEF t
<1>3. ASSUME NEW k \in 0..BUFFER_SZ - 1, k < Len(t) PROVE t[k + 1] \in Sym
  <2>1. k + 1 \in 1..Len(t)
    BY <1>1, <1>3
  <2> QED
    BY <1>1, <2>1, ElementOfSeq
<1>4. \A k \in 0..BUFFER_SZ - 1 : k < str_len => t[k + 1] \in Sym
  BY <1>1, <1>3
<1> QED
  BY <1>1, <1>2, <1>4, SymbolsDiffer DEF Cells, t

\* A buffer that holds a text shows it.
Holding(b, w) ==
    /\ w \in Seq(Sym) /\ Len(w) <= BUFFER_SZ
    /\ \A k \in 0..BUFFER_SZ - 1 : b[k] = IF k < Len(w) THEN w[k + 1] ELSE Dot

LEMMA ShowsText ==
    ASSUME NEW b \in Buffers, NEW w, Holding(b, w)
    PROVE  /\ Shown(b, Len(w)) = w
           /\ Dot \notin ToSet(w) => Modified(b) = w
<1>1. /\ w \in Seq(Sym) /\ Len(w) \in Nat /\ Len(w) <= BUFFER_SZ /\ BUFFER_SZ \in Nat
      /\ \A k \in 1..Len(w) : w[k] \in Sym
  BY LenProperties, ElementOfSeq, StringFunAssumption DEF Holding
<1>2. \A k \in 0..BUFFER_SZ - 1 : b[k] = IF k < Len(w) THEN w[k + 1] ELSE Dot
  BY DEF Holding
<1>3. Shown(b, Len(w)) = w
  <2>1. ASSUME NEW k \in 1..Len(w) PROVE b[k - 1] = w[k]
    <3>1. k - 1 \in 0..BUFFER_SZ - 1 /\ k - 1 < Len(w) /\ (k - 1) + 1 = k
      BY <1>1
    <3> QED
      BY <1>2, <3>1
  <2>2. Shown(b, Len(w)) = [k \in 1..Len(w) |-> w[k]]
    BY <2>1 DEF Shown
  <2>3. w = [k \in 1..Len(w) |-> w[k]]
    BY <1>1
  <2> QED
    BY <2>2, <2>3
<1>4. PICK n \in 0..BUFFER_SZ : /\ Modified(b) = Shown(b, n)
                                /\ \A k \in 0..n - 1 : b[k] # Dot
                                /\ n = BUFFER_SZ \/ b[n] = Dot
  BY ModifiedIs
<1>5. ASSUME Dot \notin ToSet(w) PROVE ~(n < Len(w))
  <2> SUFFICES ASSUME n < Len(w) PROVE FALSE
    OBVIOUS
  <2>1. n \in 0..BUFFER_SZ - 1 /\ n + 1 \in DOMAIN w
    BY <1>1
  <2> QED
    BY <1>1, <1>2, <1>4, <1>5, <2>1 DEF ToSet
<1>6. ~(Len(w) < n)
  <2> SUFFICES ASSUME Len(w) < n PROVE FALSE
    OBVIOUS
  <2>1. Len(w) \in 0..BUFFER_SZ - 1 /\ Len(w) \in 0..n - 1 /\ ~(Len(w) < Len(w))
    BY <1>1
  <2> QED
    BY <1>2, <1>4, <2>1
<1> QED
  BY <1>1, <1>3, <1>4, <1>5, <1>6

LEMMA ReadyShows ==
    ASSUME Ready
    PROVE  Shown(buff, str_len) = Before
BY ShowsText DEF Ready, BufferOK, Holding, Holds

LEMMA ReverseLeaves ==
    ASSUME Ready
    PROVE  /\ FoldLeft(Swap, buff, Swapping) \in Buffers
           /\ Holding(FoldLeft(Swap, buff, Swapping), Reverse(Before))
           /\ Shown(FoldLeft(Swap, buff, Swapping), str_len) = Reverse(Before)
           /\ FoldLeft(Swap, buff, Swapping)[BUFFER_SZ] = Behind
<1> DEFINE b == FoldLeft(Swap, buff, Swapping)
           t == Before
           w == Reverse(t)
<1>1. /\ b \in Buffers
      /\ \A k \in Cells : b[k] = IF k < str_len THEN buff[str_len - 1 - k] ELSE buff[k]
  BY ReversesText DEF Ready
<1> HIDE DEF b
<1>2. /\ BUFFER_SZ \in Nat /\ str_len \in Nat /\ str_len <= BUFFER_SZ /\ Cells = 0..BUFFER_SZ
      /\ \A k \in 0..BUFFER_SZ - 1 :
           /\ k < str_len => buff[k] = t[k + 1] /\ buff[k] \in Sym
           /\ ~(k < str_len) => buff[k] = Dot
  BY ReadyCells
<1>3. t \in Seq(Sym) /\ str_len = Len(t) /\ buff[BUFFER_SZ] = Behind
  BY DEF Ready
<1> HIDE DEF t
<1>4. /\ w \in Seq(Sym) /\ Len(w) = str_len
      /\ \A k \in 1..str_len : w[k] = t[(str_len - k) + 1]
  <2>1. w \in Seq(Sym)
    BY <1>3, ReverseType
  <2>2. w = [k \in 1..str_len |-> t[(str_len - k) + 1]]
    BY <1>3 DEF Reverse
  <2>3. Len(w) = str_len
    BY <1>2, <2>2
  <2> QED
    BY <2>1, <2>2, <2>3
<1> HIDE DEF w
<1>5. ASSUME NEW k \in 0..BUFFER_SZ - 1 PROVE b[k] = IF k < str_len THEN w[k + 1] ELSE Dot
  <2>1. k \in Cells
    BY <1>2
  <2>2. CASE k < str_len
    <3>1. /\ str_len - 1 - k \in 0..BUFFER_SZ - 1 /\ str_len - 1 - k < str_len /\ k + 1 \in 1..str_len
          /\ (str_len - 1 - k) + 1 = (str_len - (k + 1)) + 1
      BY <1>2, <2>2
    <3>2. b[k] = buff[str_len - 1 - k]
      BY <1>1, <2>1, <2>2
    <3>3. buff[str_len - 1 - k] = t[(str_len - (k + 1)) + 1]
      BY <1>2, <3>1
    <3>4. w[k + 1] = t[(str_len - (k + 1)) + 1]
      BY <1>4, <3>1
    <3> QED
      BY <2>2, <3>2, <3>3, <3>4
  <2>3. CASE ~(k < str_len)
    BY <1>1, <1>2, <2>1, <2>3
  <2> QED
    BY <2>2, <2>3
<1>6. Holding(b, w)
  BY <1>2, <1>4, <1>5 DEF Holding
<1>7. Shown(b, str_len) = w
  BY <1>1, <1>4, <1>6, ShowsText
<1>8. b[BUFFER_SZ] = Behind
  <2>1. BUFFER_SZ \in Cells /\ ~(BUFFER_SZ < str_len)
    BY <1>2
  <2> QED
    BY <1>1, <1>3, <2>1
<1> QED
  BY <1>1, <1>6, <1>7, <1>8 DEF b, w, t

-----------------------------------------------------------------------------
(***************************************************************************)
(* find_replace in a filled buffer that has old_str, where the result fits.*)
(***************************************************************************)
Site(i) == Ready /\ Asked(i) /\ ~TooLong

LEMMA SiteCells ==
    ASSUME NEW i, Site(i)
    PROVE  /\ i \in Nat /\ Len(old_str) \in Nat /\ Len(new_str) \in Nat /\ str_len \in Nat
           /\ BUFFER_SZ \in Nat /\ Cells = 0..BUFFER_SZ
           /\ Shift \in Int /\ Shift = Len(new_str) - Len(old_str)
           /\ i + Len(old_str) <= str_len /\ str_len + Shift <= BUFFER_SZ /\ str_len <= BUFFER_SZ
           /\ Replaced(i) \in Buffers
           /\ \A c \in Cells : Replaced(i)[c] =
                IF c < i THEN buff[c]
                ELSE IF c < i + Len(new_str) THEN new_str[c - i + 1]
                ELSE IF c > str_len + Shift THEN buff[c]
                ELSE IF Shift < 0 /\ c - Shift <= str_len + Shift THEN Replaced(i)[c - Shift]
                ELSE buff[c - Shift]
<1>1. Fits(i)
  BY DEF Site, Ready, Asked, Fits
<1>2. Cells = 0..BUFFER_SZ
  BY DEF Cells
<1> QED
  BY ONLY <1>1, <1>2, FitsType, ReplacedCells

LEMMA SiteText ==
    ASSUME NEW i, Site(i)
    PROVE  /\ After(i) \in Seq(Sym) /\ Len(After(i)) = str_len + Shift
           /\ \A c \in 0..str_len + Shift - 1 :
                /\ c < i => After(i)[c + 1] = buff[c]
                /\ ~(c < i) /\ c < i + Len(new_str) => After(i)[c + 1] = new_str[c - i + 1]
                /\ ~(c < i + Len(new_str)) => After(i)[c + 1] = buff[c - Shift]
                /\ After(i)[c + 1] \in Sym
<1> DEFINE w == After(i)
           t == Before
<1>1. Asked(i) /\ Ready /\ str_len = Len(t)
  BY DEF Site, Ready
<1>2. /\ i \in Nat /\ Len(old_str) \in Nat /\ Len(new_str) \in Nat /\ str_len \in Nat
      /\ BUFFER_SZ \in Nat
      /\ Shift \in Int /\ Shift = Len(new_str) - Len(old_str)
      /\ i + Len(old_str) <= str_len /\ str_len + Shift <= BUFFER_SZ /\ str_len <= BUFFER_SZ
  BY ONLY Site(i), SiteCells
<1>3. /\ w \in Seq(Sym) /\ Len(w) = Len(t) + Shift
      /\ \A k \in 1..Len(t) + Shift : w[k] = IF k <= i THEN t[k]
                                             ELSE IF k <= i + Len(new_str) THEN new_str[k - i]
                                             ELSE t[k - Shift]
  BY ONLY <1>1, AfterType
<1>4. \A k \in 0..BUFFER_SZ - 1 : k < str_len => buff[k] = t[k + 1]
  BY ONLY <1>1, ReadyCells
<1> HIDE DEF w, t
<1>5. ASSUME NEW c \in 0..str_len + Shift - 1
      PROVE  /\ c < i => w[c + 1] = buff[c]
             /\ ~(c < i) /\ c < i + Len(new_str) => w[c + 1] = new_str[c - i + 1]
             /\ ~(c < i + Len(new_str)) => w[c + 1] = buff[c - Shift]
             /\ w[c + 1] \in Sym
  <2>1. c + 1 \in 1..str_len + Shift /\ c \in Int /\ 0 <= c /\ (c + 1) - i = c - i + 1
    BY <1>2
  <2>2. w[c + 1] = IF c + 1 <= i THEN t[c + 1]
                   ELSE IF c + 1 <= i + Len(new_str) THEN new_str[(c + 1) - i]
                   ELSE t[(c + 1) - Shift]
    BY <1>1, <1>3, <2>1
  <2>3. ASSUME c < i PROVE w[c + 1] = buff[c]
    <3>1. c \in 0..BUFFER_SZ - 1 /\ c < str_len /\ c + 1 <= i
      BY <1>2, <2>1, <2>3
    <3> QED
      BY <1>4, <2>2, <3>1
  <2>4. ASSUME ~(c < i), c < i + Len(new_str) PROVE w[c + 1] = new_str[c - i + 1]
    BY <1>2, <2>1, <2>2, <2>4
  <2>5. ASSUME ~(c < i + Len(new_str)) PROVE w[c + 1] = buff[c - Shift]
    <3> DEFINE d == c - Shift
    <3>1. d \in 0..BUFFER_SZ - 1 /\ d < str_len /\ d + 1 = (c + 1) - Shift
      BY <1>2, <2>1, <2>5
    <3>2. buff[d] = t[d + 1]
      BY <1>4, <3>1
    <3> QED
      BY <1>2, <2>1, <2>2, <2>5, <3>1, <3>2
  <2>6. w[c + 1] \in Sym
    <3>1. c + 1 \in 1..Len(w)
      BY <1>1, <1>3, <2>1
    <3> QED
      BY <1>3, <3>1, ElementOfSeq
  <2> QED
    BY <2>3, <2>4, <2>5, <2>6
<1> QED
  BY <1>1, <1>3, <1>5 DEF w

\* A tail that does not move down arrives as it was.
LEMMA LongerLeaves ==
    ASSUME NEW i, Site(i), ~(Shift < 0)
    PROVE  Holding(Replaced(i), After(i))
<1> DEFINE w == After(i)
           R == Replaced(i)
<1>1. /\ i \in Nat /\ Len(old_str) \in Nat /\ Len(new_str) \in Nat /\ str_len \in Nat
      /\ BUFFER_SZ \in Nat /\ Cells = 0..BUFFER_SZ
      /\ Shift \in Int /\ Shift = Len(new_str) - Len(old_str)
      /\ i + Len(old_str) <= str_len /\ str_len + Shift <= BUFFER_SZ /\ str_len <= BUFFER_SZ
      /\ \A c \in Cells : R[c] = IF c < i THEN buff[c]
                                 ELSE IF c < i + Len(new_str) THEN new_str[c - i + 1]
                                 ELSE IF c > str_len + Shift THEN buff[c]
                                 ELSE IF Shift < 0 /\ c - Shift <= str_len + Shift THEN R[c - Shift]
                                 ELSE buff[c - Shift]
  BY ONLY Site(i), SiteCells
<1>2. /\ w \in Seq(Sym) /\ Len(w) = str_len + Shift
      /\ \A c \in 0..str_len + Shift - 1 :
           /\ c < i => w[c + 1] = buff[c]
           /\ ~(c < i) /\ c < i + Len(new_str) => w[c + 1] = new_str[c - i + 1]
           /\ ~(c < i + Len(new_str)) => w[c + 1] = buff[c - Shift]
  BY ONLY Site(i), SiteText
<1>3. \A k \in 0..BUFFER_SZ - 1 : ~(k < str_len) => buff[k] = Dot
  BY ReadyCells DEF Site
<1> HIDE DEF w, R
<1>4. ASSUME NEW c \in 0..BUFFER_SZ - 1 PROVE R[c] = IF c < Len(w) THEN w[c + 1] ELSE Dot
  <2>1. c \in Int /\ 0 <= c /\ c < BUFFER_SZ /\ c \in Cells
    BY <1>1
  <2>2. R[c] = IF c < i THEN buff[c]
               ELSE IF c < i + Len(new_str) THEN new_str[c - i + 1]
               ELSE IF c > str_len + Shift THEN buff[c]
               ELSE buff[c - Shift]
    BY <1>1, <2>1
  <2>3. CASE c < str_len + Shift
    <3>1. c \in 0..str_len + Shift - 1 /\ ~(c > str_len + Shift)
      BY <1>1, <2>1, <2>3
    <3>2. /\ c < i => w[c + 1] = buff[c]
          /\ ~(c < i) /\ c < i + Len(new_str) => w[c + 1] = new_str[c - i + 1]
          /\ ~(c < i + Len(new_str)) => w[c + 1] = buff[c - Shift]
      BY <1>2, <3>1
    <3> QED
      BY <1>1, <1>2, <2>1, <2>2, <2>3, <3>1, <3>2
  <2>4. CASE c = str_len + Shift
    <3>1. str_len \in 0..BUFFER_SZ - 1 /\ ~(str_len < str_len) /\ c - Shift = str_len
          /\ ~(c < i) /\ ~(c < i + Len(new_str)) /\ ~(c > str_len + Shift) /\ ~(c < Len(w))
      BY <1>1, <1>2, <2>1, <2>4
    <3> QED
      BY <1>3, <2>2, <3>1
  <2>5. CASE c > str_len + Shift
    <3>1. ~(c < str_len) /\ ~(c < i) /\ ~(c < i + Len(new_str)) /\ ~(c < Len(w))
      BY <1>1, <1>2, <2>1, <2>5
    <3> QED
      BY <1>3, <2>2, <2>5, <3>1
  <2>6. c < str_len + Shift \/ c = str_len + Shift \/ c > str_len + Shift
    <3>1. c \in Int /\ str_len \in Nat /\ Shift \in Int
      BY <1>1, <2>1
    <3> QED
      BY ONLY <3>1
  <2> QED
    BY <2>3, <2>4, <2>5, <2>6
<1> QED
  BY <1>1, <1>2, <1>4 DEF Holding, w, R

\* The byte behind the buffer is written only by a text that fills the buffer,
\* and gets into it only from a full one that is shortened.
LEMMA BehindLeaves ==
    ASSUME NEW i, Site(i)
    PROVE  /\ Replaced(i)[BUFFER_SZ] # Behind => str_len < BUFFER_SZ /\ str_len + Shift = BUFFER_SZ
           /\ (\E k \in 0..BUFFER_SZ - 1 : Replaced(i)[k] = Behind) => str_len = BUFFER_SZ /\ Shift < 0
<1> DEFINE R == Replaced(i)
<1>1. /\ i \in Nat /\ Len(old_str) \in Nat /\ Len(new_str) \in Nat /\ str_len \in Nat
      /\ BUFFER_SZ \in Nat /\ Cells = 0..BUFFER_SZ
      /\ Shift \in Int /\ Shift = Len(new_str) - Len(old_str)
      /\ i + Len(old_str) <= str_len /\ str_len + Shift <= BUFFER_SZ /\ str_len <= BUFFER_SZ
      /\ \A c \in Cells : R[c] = IF c < i THEN buff[c]
                                 ELSE IF c < i + Len(new_str) THEN new_str[c - i + 1]
                                 ELSE IF c > str_len + Shift THEN buff[c]
                                 ELSE IF Shift < 0 /\ c - Shift <= str_len + Shift THEN R[c - Shift]
                                 ELSE buff[c - Shift]
  BY ONLY Site(i), SiteCells
<1>2. \A k \in 0..BUFFER_SZ - 1 : buff[k] # Behind
  BY ReadyCells DEF Site
<1>3. buff[BUFFER_SZ] = Behind
  BY DEF Site, Ready
<1>4. \A k \in 1..Len(new_str) : new_str[k] # Behind
  BY ElementOfSeq, SymbolsDiffer DEF Site, Asked
<1> HIDE DEF R
<1>5. ASSUME R[BUFFER_SZ] # Behind PROVE str_len < BUFFER_SZ /\ str_len + Shift = BUFFER_SZ
  <2>1. BUFFER_SZ \in Cells /\ ~(BUFFER_SZ < i) /\ ~(BUFFER_SZ < i + Len(new_str))
    BY <1>1
  <2>2. R[BUFFER_SZ] = IF BUFFER_SZ > str_len + Shift THEN buff[BUFFER_SZ]
                       ELSE IF Shift < 0 /\ BUFFER_SZ - Shift <= str_len + Shift THEN R[BUFFER_SZ - Shift]
                       ELSE buff[BUFFER_SZ - Shift]
    BY <1>1, <2>1
  <2>3. str_len + Shift = BUFFER_SZ
    <3>1. ~(BUFFER_SZ > str_len + Shift)
      BY <1>3, <1>5, <2>2
    <3>2. str_len \in Nat /\ Shift \in Int /\ BUFFER_SZ \in Nat /\ str_len + Shift <= BUFFER_SZ
      BY <1>1
    <3> QED
      BY ONLY <3>1, <3>2
  <2>4. BUFFER_SZ - Shift = str_len
    BY <1>1, <2>3
  <2>5. R[BUFFER_SZ] = buff[str_len]
    <3>1. ~(BUFFER_SZ > str_len + Shift) /\ ~(Shift < 0 /\ BUFFER_SZ - Shift <= str_len + Shift)
      BY <1>1, <2>3
    <3> QED
      BY <2>2, <2>4, <3>1
  <2>6. str_len # BUFFER_SZ
    BY <1>3, <1>5, <2>5
  <2> QED
    BY <1>1, <2>3, <2>6
<1>6. ASSUME NEW k \in 0..BUFFER_SZ - 1, R[k] = Behind PROVE str_len = BUFFER_SZ /\ Shift < 0
  \* The last such cell has it from outside the text.
  <2> DEFINE S == {m \in Nat : m >= 1 /\ m <= BUFFER_SZ /\ R[BUFFER_SZ - m] = Behind}
  <2>1. BUFFER_SZ - k \in S
    <3>1. BUFFER_SZ - k \in Nat /\ BUFFER_SZ - k >= 1 /\ BUFFER_SZ - k <= BUFFER_SZ
          /\ BUFFER_SZ - (BUFFER_SZ - k) = k
      BY <1>1
    <3> QED
      BY <1>6, <3>1
  <2>2. PICK m \in S : \A j \in S : m <= j
    <3>1. S \subseteq Nat /\ S # {}
      BY <2>1
    <3> HIDE DEF S
    <3> QED
      BY <3>1, NatLeast
  <2> DEFINE c == BUFFER_SZ - m
  <2>3. c \in 0..BUFFER_SZ - 1 /\ R[c] = Behind /\ c \in Cells
    BY <1>1, <2>2
  <2>4. \A d \in 0..BUFFER_SZ - 1 : d > c => R[d] # Behind
    <3> SUFFICES ASSUME NEW d \in 0..BUFFER_SZ - 1, d > c, R[d] = Behind PROVE FALSE
      OBVIOUS
    <3>1. BUFFER_SZ - d \in Nat /\ BUFFER_SZ - d >= 1 /\ BUFFER_SZ - d <= BUFFER_SZ
          /\ BUFFER_SZ - (BUFFER_SZ - d) = d /\ ~(m <= BUFFER_SZ - d)
      BY <1>1, <2>2
    <3>2. BUFFER_SZ - d \in S
      BY <3>1
    <3> QED
      BY <2>2, <3>1, <3>2
  <2> HIDE DEF c, S
  <2>5. c \in Int /\ 0 <= c /\ c < BUFFER_SZ
    BY <1>1, <2>3
  <2>6. R[c] = IF c < i THEN buff[c]
               ELSE IF c < i + Len(new_str) THEN new_str[c - i + 1]
               ELSE IF c > str_len + Shift THEN buff[c]
               ELSE IF Shift < 0 /\ c - Shift <= str_len + Shift THEN R[c - Shift]
               ELSE buff[c - Shift]
    BY <1>1, <2>3
  <2>7. buff[c] # Behind
    BY <1>2, <2>3
  <2>8. ~(c < i) /\ c < i + Len(new_str) => new_str[c - i + 1] # Behind
    <3>1. ~(c < i) /\ c < i + Len(new_str) => c - i + 1 \in 1..Len(new_str)
      BY <1>1, <2>5
    <3> QED
      BY <1>4, <3>1
  <2>9. Shift < 0 /\ c - Shift <= str_len + Shift => R[c - Shift] # Behind
    <3>1. Shift < 0 /\ c - Shift <= str_len + Shift => c - Shift \in 0..BUFFER_SZ - 1 /\ c - Shift > c
      BY <1>1, <2>5
    <3> QED
      BY <2>4, <3>1
  <2>10. c <= str_len + Shift /\ buff[c - Shift] = Behind /\ ~(c < i + Len(new_str))
    <3>1. c > str_len + Shift \/ c <= str_len + Shift
      BY <1>1, <2>5
    <3>2. c < i => c < i + Len(new_str)
      BY <1>1, <2>5
    <3> QED
      BY <2>3, <2>6, <2>7, <2>8, <2>9, <3>1, <3>2
  <2>11. c - Shift \notin 0..BUFFER_SZ - 1
    BY <1>2, <2>10
  <2> QED
    BY <1>1, <2>5, <2>10, <2>11
<1> QED
  BY <1>5, <1>6 DEF R

\* Where the text is replaced.
LEMMA FirstPlace ==
    ASSUME Ready, old_str \in Seq(Sym), new_str \in Seq(Sym), Occurs # {},
           NEW i, i = CHOOSE m \in Occurs : \A n \in Occurs : m <= n
    PROVE  /\ Occurs = Places /\ Asked(i) /\ i \in Nat /\ Wanted = After(i)
           /\ i = CHOOSE m \in Places : \A n \in Places : m <= n
           /\ Len(Wanted) = str_len + Shift /\ (~TooLong => Site(i))
<1>1. Occurs = Places
  BY OccursPlaces DEF Ready
<1>2. i \in Places
  <2>1. Places \subseteq Nat
    BY DEF Places
  <2> QED
    BY <1>1, <2>1, LeastIs
<1>3. Asked(i)
  BY <1>2 DEF Asked, Ready, Places
<1>4. i = CHOOSE m \in Places : \A n \in Places : m <= n
  BY <1>1
<1>5. Wanted = After(i)
  BY <1>4 DEF Wanted
<1>6. Len(Wanted) = str_len + Shift
  <2>1. Len(After(i)) = Len(Before) + Shift
    BY ONLY <1>3, AfterType
  <2> QED
    BY <1>5, <2>1 DEF Ready
<1>7. i \in Nat
  BY <1>2 DEF Places
<1>8. ~TooLong => Site(i)
  BY <1>3 DEF Site
<1> QED
  BY <1>1, <1>3, <1>4, <1>5, <1>6, <1>7, <1>8

-----------------------------------------------------------------------------
LEMMA ArgumentsKept ==
    ASSUME UNCHANGED <<input, old_str, new_str>>
    PROVE  /\ Before' = Before /\ Places' = Places /\ Wanted' = Wanted
           /\ WordsOf(input)' = WordsOf(input) /\ TextOf(input)' = Before
BY DEF Before, Places, Wanted, After, TextOf, WordsOf, Kept, Started, Starts

\* A filled buffer is ready, and its argument is a text of symbols.
LEMMA FilledIsReady ==
    ASSUME StringInv, pc = "buffered"
    PROVE  /\ Ready /\ input \in Seq(Sym) /\ Len(input) <= BUFFER_SZ /\ Len(input) \in Nat
           /\ Before \in Seq(Sym) /\ Len(Before) \in 0..Len(input)
           /\ input # Missing /\ BUFFER_SZ \in Nat /\ buff \in Buffers
<1>1. input \in Seq(Sym) /\ Len(input) <= BUFFER_SZ /\ input # Missing
  BY DEF StringInv, Typed, Filled
<1>2. Before \in Seq(Sym) /\ Len(Before) \in 0..Len(input)
  BY <1>1, TextType DEF Before
<1>3. BUFFER_SZ \in Nat /\ Len(input) \in Nat
  BY <1>1, StringFunAssumption, LenProperties
<1>4. BufferOK
  BY DEF StringInv, Typed, Claims, StringTypeOK, BufferOK
<1>5. Ready
  BY <1>2, <1>4 DEF StringInv, Filled, Ready, Before
<1> QED
  BY <1>1, <1>2, <1>3, <1>4, <1>5 DEF BufferOK

LEMMA StringInitInv == StringInit => StringInv
<1> SUFFICES ASSUME StringInit PROVE StringInv
  OBVIOUS
<1>1. BUFFER_SZ \in Nat
  BY StringFunAssumption
<1>2. ASSUME NEW n, NEW s \in Text(Sym, n) PROVE s \in Seq(Sym)
  BY DEF Text
<1>3. Typed
  <2>1. opt \in Options
    BY DEF StringInit
  <2>2. input # Missing => input \in Seq(Sym)
    BY <1>2 DEF StringInit, Sym
  <2>3. opt = "x" => old_str \in Seq(Sym) /\ (new_str # Missing => new_str \in Seq(Sym))
    BY <1>2 DEF StringInit, Sym
  <2>4. buff \in Buffers
    BY DEF StringInit, Buffers, Bytes
  <2> QED
    BY <2>1, <2>2, <2>3, <2>4 DEF Typed
<1>4. /\ pc = "args" /\ str_len = 0 /\ rc = 0 /\ code = -1 /\ \A k \in Cells : buff[k] = Behind
      /\ buff \in [Cells -> Letters \cup {Blank, Dot, Behind}]
  BY <1>3 DEF StringInit, Typed, Buffers, Bytes
<1>5. Unset /\ Filled
  BY <1>4 DEF Unset, Filled
<1>6. StringTypeOK
  BY <1>1, <1>4 DEF StringTypeOK
<1>7. WordsAgree /\ ReverseExact /\ ReplaceExact
  BY <1>4 DEF WordsAgree, ReverseExact, ReplaceExact
<1>8. BehindTheBuffer
  <2>1. BUFFER_SZ \in Cells
    BY <1>1 DEF Cells
  <2> QED
    BY <1>4, <2>1 DEF BehindTheBuffer
<1> QED
  BY <1>3, <1>5, <1>6, <1>7, <1>8 DEF StringInv, Claims

\* The exits that have done nothing to the buffer and claim nothing.
LEMMA QuietExit ==
    ASSUME StringInv, pc' = "exited", buff[BUFFER_SZ] = Behind,
           UNCHANGED <<opt, input, old_str, new_str, str_len, buff>>,
           rc' \in {0, -1}, code' \in {0, 1, 3, 99}, code' = 0 => opt = "h",
           opt \in {"c", "w"} => code' = 99 \/ input = Missing \/ Len(input) > BUFFER_SZ
    PROVE  StringInv'
<1>1. BUFFER_SZ \in Nat
  BY StringFunAssumption
<1>2. Typed'
  BY DEF StringInv, Typed
<1>3. Unset' /\ Filled'
  BY DEF Unset, Filled
<1>4. StringTypeOK'
  BY <1>1 DEF StringInv, Claims, StringTypeOK
<1>5. WordsAgree'
  <2>1. ~(opt' \in {"c", "w"} /\ code' # 99 /\ input' # Missing /\ Len(input') <= BUFFER_SZ)
    <3>1. ASSUME input # Missing, opt \in {"c", "w"}, code' # 99, Len(input) <= BUFFER_SZ PROVE FALSE
      <4>1. Len(input) \in Nat
        BY <3>1, LenProperties DEF StringInv, Typed
      <4> QED
        BY <1>1, <3>1, <4>1
    <3> QED
      BY <3>1
  <2> QED
    BY <2>1 DEF WordsAgree
<1>6. ReverseExact' /\ ReplaceExact'
  BY DEF ReverseExact, ReplaceExact
<1>7. BehindTheBuffer'
  BY DEF BehindTheBuffer
<1> QED
  BY <1>2, <1>3, <1>4, <1>5, <1>6, <1>7 DEF StringInv, Claims

LEMMA UsageInv == StringInv /\ Usage => StringInv'
<1> SUFFICES ASSUME StringInv, Usage PROVE StringInv'
  OBVIOUS
<1>1. BUFFER_SZ \in Cells
  BY StringFunAssumption DEF Cells
<1> QED
  BY <1>1, QuietExit DEF Usage, Exits, StringInv, Unset

LEMMA NoMemoryInv == StringInv /\ NoMemory => StringInv'
<1> SUFFICES ASSUME StringInv, NoMemory PROVE StringInv'
  OBVIOUS
<1>1. BUFFER_SZ \in Cells
  BY StringFunAssumption DEF Cells
<1> QED
  BY <1>1, QuietExit DEF NoMemory, Exits, StringInv, Unset

LEMMA BadArgumentsInv == StringInv /\ BadArguments => StringInv'
<1> SUFFICES ASSUME StringInv, BadArguments PROVE StringInv'
  OBVIOUS
<1> QED
  BY QuietExit DEF BadArguments, Exits, StringInv, Filled

LEMMA SetupInv == StringInv /\ setup_buff => StringInv'
<1> SUFFICES ASSUME StringInv, setup_buff PROVE StringInv'
  OBVIOUS
<1>1. BUFFER_SZ \in Nat /\ BUFFER_SZ \in Cells /\ Cells = 0..BUFFER_SZ
  BY StringFunAssumption DEF Cells
<1>2. /\ pc = "args" /\ opt # "h" /\ input # Missing /\ input \in Seq(Sym)
      /\ \A k \in Cells : buff[k] = Behind
      /\ rc = 0 /\ code = -1
  BY DEF setup_buff, StringInv, Unset, Typed
<1>3. Len(input) \in Nat
  BY <1>2, LenProperties
<1>4. CASE Len(input) > BUFFER_SZ
  BY <1>1, <1>2, <1>4, QuietExit DEF setup_buff, Exits
<1>5. CASE ~(Len(input) > BUFFER_SZ)
  <2> DEFINE t == TextOf(input)
             cell(k) == IF k < Len(t) THEN t[k + 1] ELSE IF k \in Padded THEN Dot ELSE buff[k]
  <2>1. t \in Seq(Sym) /\ Len(t) \in 0..Len(input) /\ Copied(input) = t
    BY <1>2, TextType, CopiesText
  <2>2. /\ str_len' = Len(t) /\ pc' = "buffered"
        /\ buff' = [k \in Cells |-> cell(k)]
        /\ UNCHANGED <<opt, input, old_str, new_str, rc, shown, code>>
    BY <1>5, <2>1 DEF setup_buff
  <2>3. TextOf(input)' = t
    BY <2>2, ArgumentsKept DEF Before
  <2> HIDE DEF t
  <2>4. Len(t) \in Nat /\ Len(t) <= BUFFER_SZ /\ Len(input) <= BUFFER_SZ
    BY <1>1, <1>3, <1>5, <2>1
  <2>5. \A k \in Cells : cell(k) \in Bytes
    <3>1. \A k \in Cells : k < Len(t) => k + 1 \in 1..Len(t)
      BY <1>1, <2>4
    <3>2. \A k \in 1..Len(t) : t[k] \in Bytes
      BY <2>1, ElementOfSeq, SymbolsDiffer
    <3> QED
      BY <1>2, <3>1, <3>2 DEF Bytes
  <2>6. buff' \in Buffers
    BY <2>2, <2>5 DEF Buffers
  <2>7. \A k \in 0..BUFFER_SZ - 1 : buff'[k] = IF k < Len(t) THEN t[k + 1] ELSE Dot
    <3>1. \A k \in 0..BUFFER_SZ - 1 : k \in Cells /\ k \in Padded
      BY <1>1 DEF Padded
    <3> QED
      BY <2>2, <3>1
  <2>8. buff'[BUFFER_SZ] = Behind
    <3>1. ~(BUFFER_SZ < Len(t)) /\ BUFFER_SZ \notin Padded
      BY <1>1, <2>4 DEF Padded
    <3> QED
      BY <1>1, <1>2, <2>2, <3>1
  <2>9. Holds(TextOf(input))'
    BY <2>3, <2>4, <2>7 DEF Holds
  <2>10. Typed'
    BY <2>2, <2>6 DEF StringInv, Typed
  <2>11. Unset' /\ Filled'
    BY <1>2, <2>2, <2>3, <2>4, <2>8, <2>9 DEF Unset, Filled
  <2>12. StringTypeOK'
    BY <1>1, <1>2, <2>2, <2>4, <2>6 DEF StringTypeOK, Buffers, Bytes
  <2>13. WordsAgree' /\ ReverseExact' /\ ReplaceExact'
    BY <2>2 DEF WordsAgree, ReverseExact, ReplaceExact
  <2>14. BehindTheBuffer'
    BY <1>2, <2>2, <2>8 DEF BehindTheBuffer
  <2> QED
    BY <2>10, <2>11, <2>12, <2>13, <2>14 DEF StringInv, Claims
<1> QED
  BY <1>4, <1>5

\* What the two loops over words give.
LEMMA WordsOfBuffer ==
    ASSUME StringInv, pc = "buffered"
    PROVE  /\ FoldLeft(CountChar, [words |-> 0, in_word |-> FALSE], Shown(buff, str_len)).words
                = Len(WordsOf(input))
           /\ WordChar(FoldLeft(WordChar, [out |-> <<>>, word |-> <<>>], Shown(buff, str_len)), Blank).out
                = WordsOf(input)
           /\ Len(WordsOf(input)) \in 0..BUFFER_SZ
           /\ str_len < 1 <=> WordsOf(input) = <<>>
<1>1. /\ Ready /\ input \in Seq(Sym) /\ Len(input) <= BUFFER_SZ /\ Len(input) \in Nat
      /\ Before \in Seq(Sym) /\ BUFFER_SZ \in Nat
  BY FilledIsReady
<1>2. Shown(buff, str_len) = Before
  BY <1>1, ReadyShows
<1>3. WordsFound(Before) = WordsOf(input)
  BY <1>1, TextHasWords DEF Before
<1>4. FoldLeft(CountChar, [words |-> 0, in_word |-> FALSE], Before).words = Len(WordsOf(input))
  BY <1>1, <1>3, CountsWords DEF CountBase
<1>5. WordChar(FoldLeft(WordChar, [out |-> <<>>, word |-> <<>>], Before), Blank).out = WordsOf(input)
  BY <1>3 DEF WordsFound, WordScan, WordBase
<1>6. Len(WordsOf(input)) \in 0..BUFFER_SZ
  BY <1>1, WordsAreFewer
<1>7. str_len < 1 <=> WordsOf(input) = <<>>
  <2>1. str_len = Len(Before) /\ Len(Before) \in Nat
    BY <1>1, LenProperties DEF Ready
  <2>2. str_len < 1 <=> Before = <<>>
    BY <1>1, <2>1, EmptySeq
  <2>3. WordsOf(input) = <<>> <=> Before = <<>>
    BY <1>1, NoWordNoText DEF Before
  <2> QED
    BY <2>2, <2>3
<1> QED
  BY <1>2, <1>4, <1>5, <1>6, <1>7

\* An exit of -c or -w that gives the words.
LEMMA WordsExit ==
    ASSUME StringInv, pc = "buffered", opt \in {"c", "w"}, pc' = "exited",
           UNCHANGED <<opt, input, old_str, new_str, str_len, buff>>,
           rc' \in -1..BUFFER_SZ, code' \in {0, 3},
           opt = "c" => rc' = Len(WordsOf(input)) /\ code' = 0,
           opt = "w" => IF WordsOf(input) = <<>> THEN code' = 3
                        ELSE rc' = Len(WordsOf(input)) /\ shown' = WordsOf(input)
    PROVE  StringInv'
<1>1. Ready /\ BUFFER_SZ \in Nat
  BY FilledIsReady
<1>2. Typed'
  BY DEF StringInv, Typed
<1>3. Unset' /\ Filled'
  BY DEF Unset, Filled
<1>4. StringTypeOK'
  BY <1>1 DEF StringInv, Claims, StringTypeOK
<1>5. WordsOf(input)' = WordsOf(input) /\ TextOf(input)' = Before
  BY ArgumentsKept
<1>6. Holds(TextOf(input))'
  BY <1>1, <1>5 DEF Holds, Ready
<1>7. WordsAgree'
  BY <1>5, <1>6 DEF WordsAgree
<1>8. ReverseExact' /\ ReplaceExact'
  BY DEF ReverseExact, ReplaceExact
<1>9. BehindTheBuffer'
  BY <1>1, ReadyCells DEF BehindTheBuffer, Ready
<1> QED
  BY <1>2, <1>3, <1>4, <1>7, <1>8, <1>9 DEF StringInv, Claims

LEMMA CountWordsInv == StringInv /\ count_words => StringInv'
<1> SUFFICES ASSUME StringInv, count_words PROVE StringInv'
  OBVIOUS
<1>1. pc = "buffered" /\ opt = "c" /\ BUFFER_SZ \in Nat
  BY StringFunAssumption DEF count_words
<1>2. /\ rc' = Len(WordsOf(input)) /\ Len(WordsOf(input)) \in 0..BUFFER_SZ
      /\ pc' = "exited" /\ code' = 0
      /\ UNCHANGED <<opt, input, old_str, new_str, str_len, buff>>
  BY <1>1, WordsOfBuffer DEF count_words, Exits
<1>3. rc' \in -1..BUFFER_SZ
  BY <1>1, <1>2
<1> QED
  BY <1>1, <1>2, <1>3, WordsExit

LEMMA WordPrintInv == StringInv /\ word_print => StringInv'
<1> SUFFICES ASSUME StringInv, word_print PROVE StringInv'
  OBVIOUS
<1>1. pc = "buffered" /\ opt = "w" /\ BUFFER_SZ \in Nat
  BY StringFunAssumption DEF word_print
<1>2. /\ WordChar(FoldLeft(WordChar, [out |-> <<>>, word |-> <<>>], Shown(buff, str_len)), Blank).out
           = WordsOf(input)
      /\ Len(WordsOf(input)) \in 0..BUFFER_SZ
      /\ str_len < 1 <=> WordsOf(input) = <<>>
  BY <1>1, WordsOfBuffer
<1>3. pc' = "exited" /\ UNCHANGED <<opt, input, old_str, new_str, str_len, buff>>
  BY DEF word_print, Exits
<1>4. CASE str_len < 1
  <2>1. rc' = -1 /\ code' = 3
    BY <1>4 DEF word_print, Exits
  <2>2. rc' \in -1..BUFFER_SZ
    BY <1>1, <2>1
  <2> QED
    BY <1>1, <1>2, <1>3, <1>4, <2>1, <2>2, WordsExit
<1>5. CASE ~(str_len < 1)
  <2>1. rc' = Len(WordsOf(input)) /\ code' = 0 /\ shown' = WordsOf(input)
    BY <1>2, <1>5 DEF word_print, Exits
  <2>2. rc' \in -1..BUFFER_SZ
    BY <1>1, <1>2, <2>1
  <2> QED
    BY <1>1, <1>2, <1>3, <1>5, <2>1, <2>2, WordsExit
<1> QED
  BY <1>4, <1>5

LEMMA ReverseInv == StringInv /\ reverse_string => StringInv'
<1> SUFFICES ASSUME StringInv, reverse_string PROVE StringInv'
  OBVIOUS
<1>1. pc = "buffered" /\ opt = "r" /\ pc' = "exited" /\ UNCHANGED <<opt, input, old_str, new_str, str_len>>
  BY DEF reverse_string, Exits
<1>2. Ready /\ BUFFER_SZ \in Nat /\ Before \in Seq(Sym) /\ str_len = Len(Before)
  BY <1>1, FilledIsReady DEF Ready
<1>3. TextOf(input)' = Before
  BY <1>1, ArgumentsKept
<1>4. CASE str_len < 1
  <2>1. rc' = -1 /\ code' = 3 /\ buff' = buff
    BY <1>4 DEF reverse_string, Exits
  <2>2. buff[BUFFER_SZ] = Behind
    BY <1>2 DEF Ready
  <2> QED
    BY <1>1, <2>1, <2>2, QuietExit
<1>5. CASE ~(str_len < 1)
  <2> DEFINE b == FoldLeft(Swap, buff, Swapping)
  <2>1. buff' = b /\ rc' = 0 /\ code' = 0 /\ shown' = Shown(b, str_len)
    BY <1>5 DEF reverse_string, Exits, Swapping
  <2>2. b \in Buffers /\ Holding(b, Reverse(Before)) /\ Shown(b, str_len) = Reverse(Before) /\ b[BUFFER_SZ] = Behind
    BY <1>2, ReverseLeaves
  <2> HIDE DEF b
  <2>3. \A k \in 0..BUFFER_SZ - 1 : b[k] # Behind
    <3>1. \A k \in 1..Len(Reverse(Before)) : Reverse(Before)[k] # Behind
      BY <2>2, ElementOfSeq, SymbolsDiffer DEF Holding
    <3>2. Len(Reverse(Before)) \in Nat
      BY <2>2, LenProperties DEF Holding
    <3>3. \A k \in 0..BUFFER_SZ - 1 : k < Len(Reverse(Before)) => k + 1 \in 1..Len(Reverse(Before))
      BY <1>2, <3>2
    <3> QED
      BY <2>2, <3>1, <3>3, SymbolsDiffer DEF Holding
  <2>4. Typed'
    BY <1>1, <2>1, <2>2 DEF StringInv, Typed
  <2>5. Unset' /\ Filled'
    BY <1>1 DEF Unset, Filled
  <2>6. StringTypeOK'
    BY <1>1, <1>2, <2>1, <2>2 DEF StringInv, Claims, StringTypeOK, Buffers, Bytes
  <2>7. Reverse(TextOf(input))' = Reverse(Before)
    BY <1>3 DEF Reverse
  <2>8. ReverseExact'
    BY <1>2, <2>1, <2>2, <2>7 DEF ReverseExact, Holds, Holding
  <2>9. WordsAgree' /\ ReplaceExact'
    BY <1>1 DEF WordsAgree, ReplaceExact
  <2>10. BehindTheBuffer'
    BY <2>1, <2>2, <2>3 DEF BehindTheBuffer
  <2> QED
    BY <2>4, <2>5, <2>6, <2>8, <2>9, <2>10 DEF StringInv, Claims
<1> QED
  BY <1>4, <1>5

\* The four ends of find_replace.
LEMMA FindReplaceInv == StringInv /\ find_replace => StringInv'
<1> SUFFICES ASSUME StringInv, find_replace PROVE StringInv'
  OBVIOUS
<1>1. /\ pc = "buffered" /\ opt = "x" /\ new_str # Missing /\ pc' = "exited" /\ code' = 0
      /\ UNCHANGED <<opt, input, old_str, new_str, str_len>>
  BY DEF find_replace, Exits
<1>2. Ready /\ BUFFER_SZ \in Nat /\ Before \in Seq(Sym) /\ str_len = Len(Before) /\ buff \in Buffers
  BY <1>1, FilledIsReady DEF Ready
<1>3. old_str \in Seq(Sym) /\ new_str \in Seq(Sym)
  BY <1>1 DEF StringInv, Typed
<1>4. Before' = Before /\ Places' = Places /\ Wanted' = Wanted
  BY <1>1, ArgumentsKept
<1>5. buff[BUFFER_SZ] = Behind /\ Holds(Before)
  BY <1>2 DEF Ready
<1>6. \A k \in 0..BUFFER_SZ - 1 : buff[k] # Behind
  BY <1>2, ReadyCells
<1>7. Unset' /\ Filled'
  BY <1>1 DEF Unset, Filled
<1>8. WordsAgree' /\ ReverseExact'
  BY <1>1 DEF WordsAgree, ReverseExact
<1>9. ASSUME buff' \in Buffers, rc' \in {-2, -1, 0, 1} PROVE Typed' /\ StringTypeOK'
  <2>1. Typed'
    BY <1>1, <1>9 DEF StringInv, Typed
  <2>2. 1 \in -2..BUFFER_SZ
    BY StringFunAssumption
  <2>3. StringTypeOK'
    BY <1>1, <1>2, <1>9, <2>2 DEF StringInv, Claims, StringTypeOK, Buffers, Bytes
  <2> QED
    BY <2>1, <2>3
<1>10. CASE old_str = <<>>
  <2>1. rc' = -1 /\ buff' = buff
    BY <1>10 DEF find_replace
  <2>2. ReplaceExact'
    BY <1>1, <1>10, <2>1 DEF ReplaceExact
  <2>3. BehindTheBuffer'
    BY <1>5, <1>6, <2>1 DEF BehindTheBuffer
  <2> QED
    BY <1>2, <1>7, <1>8, <1>9, <2>1, <2>2, <2>3 DEF StringInv, Claims
<1>11. CASE old_str # <<>> /\ Occurs = {}
  <2>1. rc' = 1 /\ buff' = buff
    BY <1>11 DEF find_replace
  <2>2. Places = {}
    BY <1>2, <1>3, <1>5, <1>11, OccursPlaces
  <2>3. Holds(Before)'
    BY <1>4, <1>5, <2>1 DEF Holds
  <2>4. ReplaceExact'
    BY <1>4, <2>1, <2>2, <2>3 DEF ReplaceExact
  <2>5. BehindTheBuffer'
    BY <1>5, <1>6, <2>1 DEF BehindTheBuffer
  <2> QED
    BY <1>2, <1>7, <1>8, <1>9, <2>1, <2>4, <2>5 DEF StringInv, Claims
<1>12. CASE old_str # <<>> /\ Occurs # {}
  <2> DEFINE i == CHOOSE m \in Occurs : \A n \in Occurs : m <= n
  <2>1. IF TooLong THEN rc' = -2 /\ buff' = Overflowed(i)
        ELSE rc' = 0 /\ buff' = Replaced(i) /\ shown' = Modified(buff')
    BY <1>12 DEF find_replace, Exits
  <2>2. PICK p : p = i
    OBVIOUS
  <2> HIDE DEF i
  <2>3. /\ Occurs = Places /\ Asked(p) /\ p \in Nat /\ Wanted = After(p)
        /\ p = CHOOSE m \in Places : \A n \in Places : m <= n
        /\ Len(Wanted) = str_len + Shift /\ (~TooLong => Site(p))
    <3>1. p = CHOOSE m \in Occurs : \A n \in Occurs : m <= n
      BY <2>2 DEF i
    <3> QED
      BY ONLY <1>2, <1>3, <1>12, <3>1, FirstPlace
  <2>4. Places # {}
    BY <1>12, <2>3
  <2>5. /\ Len(old_str) \in Nat /\ Len(new_str) \in Nat /\ str_len \in Nat /\ str_len <= BUFFER_SZ
        /\ Len(Before) = str_len /\ p <= str_len - Len(old_str) /\ Len(old_str) # 0
        /\ Shift = Len(new_str) - Len(old_str)
    <3>1. Len(old_str) \in Nat /\ Len(new_str) \in Nat /\ Len(old_str) # 0
      BY <1>3, <1>12, LenProperties, EmptySeq
    <3>2. str_len \in Nat /\ str_len <= BUFFER_SZ
      BY <1>2, ReadyCells
    <3> QED
      BY <1>2, <2>3, <3>1, <3>2 DEF Asked, Shift
  <2>6. CASE TooLong
    <3>1. rc' = -2 /\ buff' = Overflowed(p)
      BY <2>1, <2>2, <2>6
    <3>2. ~(Len(Wanted) <= BUFFER_SZ)
      BY <2>3, <2>5, <2>6, StringFunAssumption DEF TooLong
    <3>3. p <= str_len /\ BUFFER_SZ - str_len <= Len(new_str)
      BY <1>2, <2>3, <2>5, <2>6 DEF TooLong
    <3>4. BufferOK
      BY <1>2 DEF Ready
    <3>5. /\ Overflowed(p) \in Buffers /\ Overflowed(p)[BUFFER_SZ] = buff[BUFFER_SZ]
          /\ \A k \in 0..BUFFER_SZ - 1 : buff[k] # Behind => Overflowed(p)[k] # Behind
      BY <1>3, <2>3, <3>3, <3>4, OverflowedType
    <3>6. ReplaceExact'
      BY <1>4, <2>4, <3>1, <3>2 DEF ReplaceExact
    <3>7. BehindTheBuffer'
      BY <1>5, <1>6, <3>1, <3>5 DEF BehindTheBuffer
    <3> QED
      BY <1>7, <1>8, <1>9, <3>1, <3>5, <3>6, <3>7 DEF StringInv, Claims
  <2>7. CASE ~TooLong
    <3>1. rc' = 0 /\ buff' = Replaced(p) /\ shown' = Modified(Replaced(p))
      BY <2>1, <2>2, <2>7
    <3>2. Site(p) /\ Replaced(p) \in Buffers
      BY <2>3, <2>7, SiteCells
    <3>4. Shift < 0 <=> Len(new_str) < Len(old_str)
      BY <2>5
    <3>5. ASSUME Len(new_str) >= Len(old_str)
          PROVE  Holds(Wanted)' /\ (Dot \notin ToSet(Wanted) => shown' = Wanted)
      <4>1. ~(Shift < 0)
        BY <2>5, <3>5
      <4>2. Holding(Replaced(p), Wanted)
        BY <2>3, <3>2, <4>1, LongerLeaves
      <4>3. Dot \notin ToSet(Wanted) => Modified(Replaced(p)) = Wanted
        BY <3>2, <4>2, ShowsText
      <4> QED
        BY <1>4, <3>1, <4>2, <4>3 DEF Holding, Holds
    <3>6. ReplaceExact'
      BY <1>1, <1>4, <2>4, <3>1, <3>5 DEF ReplaceExact
    <3>7. BehindTheBuffer'
      <4>1. /\ Replaced(p)[BUFFER_SZ] # Behind => str_len < BUFFER_SZ /\ str_len + Shift = BUFFER_SZ
            /\ (\E k \in 0..BUFFER_SZ - 1 : Replaced(p)[k] = Behind) => str_len = BUFFER_SZ /\ Shift < 0
        BY <3>2, BehindLeaves
      <4> QED
        BY <1>1, <1>4, <2>3, <3>1, <3>4, <4>1 DEF BehindTheBuffer
    <3> QED
      BY <1>7, <1>8, <1>9, <3>1, <3>2, <3>6, <3>7 DEF StringInv, Claims
  <2> QED
    BY <2>6, <2>7
<1> QED
  BY <1>10, <1>11, <1>12

LEMMA StringStutterInv == StringInv /\ UNCHANGED strVars => StringInv'
<1> SUFFICES ASSUME StringInv, UNCHANGED strVars PROVE StringInv'
  OBVIOUS
<1>1. UNCHANGED <<pc, opt, input, old_str, new_str, buff, str_len, rc, shown, code>>
  BY DEF strVars
<1>2. /\ Before' = Before /\ Places' = Places /\ Wanted' = Wanted
      /\ WordsOf(input)' = WordsOf(input) /\ TextOf(input)' = Before
  BY <1>1, ArgumentsKept
<1>3. Typed' /\ Unset'
  BY <1>1 DEF StringInv, Typed, Unset
<1>4. Filled'
  BY <1>1, <1>2 DEF StringInv, Filled, Holds, Before
<1>5. StringTypeOK'
  BY <1>1 DEF StringInv, Claims, StringTypeOK
<1>6. WordsAgree'
  BY <1>1, <1>2 DEF StringInv, Claims, WordsAgree, Holds, Before
<1>7. ReverseExact'
  BY <1>1, <1>2 DEF StringInv, Claims, ReverseExact, Holds, Before, Reverse
<1>8. ReplaceExact'
  BY <1>1, <1>2 DEF StringInv, Claims, ReplaceExact, Holds
<1>9. BehindTheBuffer'
  BY <1>1, <1>2 DEF StringInv, Claims, BehindTheBuffer
<1> QED
  BY <1>3, <1>4, <1>5, <1>6, <1>7, <1>8, <1>9 DEF StringInv, Claims

LEMMA StringInvHolds == StringSpec => []StringInv
<1>1. StringInv /\ [StringNext]_strVars => StringInv'
  BY UsageInv, NoMemoryInv, SetupInv, CountWordsInv, ReverseInv, WordPrintInv, FindReplaceInv,
     BadArgumentsInv, StringStutterInv DEF StringNext
<1> QED
  BY <1>1, StringInitInv, PTL DEF StringSpec

-----------------------------------------------------------------------------
\* A cell of the buffer has a symbol of the argument, a dot or what the heap
\* had; what is in use never exceeds the buffer; only an exit sets a status.
THEOREM StringTypes == StringSpec => []StringTypeOK
<1>1. StringInv => StringTypeOK
  BY DEF StringInv, Claims
<1> QED
  BY <1>1, StringInvHolds, PTL

\* For every argument that fits, setup_buff leaves its words with one blank
\* between two of them, padded with dots (stringfun.c:36-68).
THEOREM SetupIsNormal == StringSpec => []SetupNormalises
<1>1. StringInv => SetupNormalises
  BY DEF StringInv, Filled, SetupNormalises
<1> QED
  BY <1>1, StringInvHolds, PTL

\* The two loops over words find the words of the argument as it was typed, all
\* of them and no others, and change nothing (stringfun.c:82-97, 118-166).
THEOREM WordsAreThose == StringSpec => []WordsAgree
<1>1. StringInv => WordsAgree
  BY DEF StringInv, Claims
<1> QED
  BY <1>1, StringInvHolds, PTL

\* The swaps turn a text of any length round, the middle symbol of an odd one
\* included, and leave the padding where it was (stringfun.c:102-115).
THEOREM ReverseIsExact == StringSpec => []ReverseExact
<1>1. StringInv => ReverseExact
  BY DEF StringInv, Claims
<1> QED
  BY <1>1, StringInvHolds, PTL

\* Not found is said only of what is not there; what fits is replaced, and a
\* replacement that is not shorter gives the text with the first occurrence
\* replaced, printed up to its first dot (stringfun.c:184-217, 324-329).
THEOREM ReplaceIsExact == StringSpec => []ReplaceExact
<1>1. StringInv => ReplaceExact
  BY DEF StringInv, Claims
<1> QED
  BY <1>1, StringInvHolds, PTL

\* The byte behind the buffer is written only by a replacement that fills the
\* buffer, and read into it only by one that shortens a text that did
\* (stringfun.c:207-209).
THEOREM BehindIsReached == StringSpec => []BehindTheBuffer
<1>1. StringInv => BehindTheBuffer
  BY DEF StringInv, Claims
<1> QED
  BY <1>1, StringInvHolds, PTL
=============================================================================
