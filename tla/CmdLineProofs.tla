---------------------------- MODULE CmdLineProofs ----------------------------
(***************************************************************************)
(* What the parsers of CmdLine compute: the loops behind their folds, and  *)
(* the limits their results keep to, for lines over any symbols.           *)
(***************************************************************************)
EXTENDS CmdLine, SequenceFacts

-----------------------------------------------------------------------------
\* The scan of a command: its states, and one turn as a function.
Words1(Sym) == Seq(Sym) \ {<<>>}
ArgLists(Sym, room) == {a \in Seq(Words1(Sym)) : Len(a) <= room}

ScanStates(Sym, room) ==
    [args : ArgLists(Sym, room), room : {room}, arg : Seq(Sym), quoted : BOOLEAN, over : BOOLEAN]

ScanFrom(room) ==
    [args |-> <<>>, room |-> room, arg |-> <<>>, quoted |-> FALSE, over |-> FALSE]

ScanTurn(Sym, room) == [p \in ScanStates(Sym, room) \X Sym |-> ScanChar(p[1], p[2])]

LEMMA EndWordType ==
    ASSUME NEW Sym, NEW room \in Nat, NEW s \in ScanStates(Sym, room)
    PROVE  EndWord(s) \in ScanStates(Sym, room)
<1>1. /\ s.args \in Seq(Words1(Sym)) /\ Len(s.args) <= room /\ s.room = room /\ s.arg \in Seq(Sym)
      /\ s.quoted \in BOOLEAN /\ s.over \in BOOLEAN
      /\ s = [args |-> s.args, room |-> s.room, arg |-> s.arg, quoted |-> s.quoted, over |-> s.over]
  BY DEF ScanStates, ArgLists
<1>2. CASE s.arg = <<>> \/ s.over
  BY <1>2 DEF EndWord
<1>3. CASE ~(s.arg = <<>> \/ s.over) /\ ArgvFull(s)
  BY <1>1, <1>3 DEF EndWord, ScanStates
<1>4. CASE ~(s.arg = <<>> \/ s.over) /\ ~ArgvFull(s)
  <2>1. s.arg \in Words1(Sym) /\ Len(s.args) \in Nat /\ Len(s.args) < room
    BY <1>1, <1>4, LenProperties DEF Words1, ArgvFull
  <2>2. Append(s.args, s.arg) \in ArgLists(Sym, room)
    BY <1>1, <2>1, AppendProperties DEF ArgLists
  <2>3. <<>> \in Seq(Sym)
    BY EmptySeq
  <2> QED
    BY <1>1, <1>4, <2>2, <2>3 DEF EndWord, ScanStates
<1> QED
  BY <1>2, <1>3, <1>4

LEMMA ScanCharType ==
    ASSUME NEW Sym, NEW room \in Nat, NEW s \in ScanStates(Sym, room), NEW ch \in Sym
    PROVE  ScanChar(s, ch) \in ScanStates(Sym, room)
<1>1. /\ s.args \in ArgLists(Sym, room) /\ s.room = room /\ s.arg \in Seq(Sym)
      /\ s.quoted \in BOOLEAN /\ s.over \in BOOLEAN
      /\ s = [args |-> s.args, room |-> s.room, arg |-> s.arg, quoted |-> s.quoted, over |-> s.over]
  BY DEF ScanStates
<1>2. Append(s.arg, ch) \in Seq(Sym)
  BY <1>1, AppendProperties
<1> QED
  BY <1>1, <1>2, EndWordType DEF ScanChar, ScanStates

LEMMA ScanIsFold ==
    ASSUME NEW Sym, NEW room \in Nat, NEW part \in Seq(Sym)
    PROVE  /\ ScanFrom(room) \in ScanStates(Sym, room)
           /\ IsFold(ScanStates(Sym, room), Sym, ScanTurn(Sym, room), ScanFrom(room), part, Len(part))
<1>1. ScanFrom(room) \in ScanStates(Sym, room)
  <2>1. <<>> \in ArgLists(Sym, room) /\ <<>> \in Seq(Sym)
    BY EmptySeq DEF ArgLists
  <2> QED
    BY <2>1 DEF ScanFrom, ScanStates
<1>2. ScanTurn(Sym, room) \in [ScanStates(Sym, room) \X Sym -> ScanStates(Sym, room)]
  BY ScanCharType DEF ScanTurn
<1> QED
  BY <1>1, <1>2, LenProperties DEF IsFold

LEMMA ScanIsLoop ==
    ASSUME NEW Sym, NEW room \in Nat, NEW part \in Seq(Sym)
    PROVE  \E g : /\ Loop(g, ScanStates(Sym, room), ScanTurn(Sym, room), ScanFrom(room), part, Len(part))
                  /\ FoldLeft(ScanChar, ScanFrom(room), part) = g[Len(part)]
<1> DEFINE n == Len(part)
           T == ScanStates(Sym, room)
           F == ScanTurn(Sym, room)
           base == ScanFrom(room)
           Step(f, S) == IF S = {} THEN base ELSE ScanChar(f[S \ {Max(S)}], part[Max(S)])
           h == CHOOSE f : f = [S \in SUBSET (1..n) |-> Step(f, S)]
<1>1. FoldLeft(ScanChar, base, part) = h[1..n]
  <2>1. DOMAIN part = 1..n
    BY LenProperties
  <2> QED
    BY <2>1 DEF FoldLeft, MapThenFoldSet
<1>2. IsFold(T, Sym, F, base, part, n)
  BY ScanIsFold
<1>3. \A a \in T, b \in Sym : F[<<a, b>>] = ScanChar(a, b)
  BY DEF ScanTurn
<1> HIDE DEF F, T, base, n
<1>4. \A S \in SUBSET (1..n) : S # {} => part[Max(S)] \in Sym
  BY <1>2, LastElement
<1>5. h = [S \in SUBSET (1..n) |-> Step(h, S)]
  <2>1. PICK f : Table(f, T, F, base, part, n)
    BY <1>2, FoldTable
  <2>2. \A S \in SUBSET (1..n) : f[S] = Step(f, S)
    BY <1>3, <1>4, <2>1 DEF Table
  <2>3. f = [S \in SUBSET (1..n) |-> Step(f, S)]
    BY <2>1, <2>2 DEF Table
  <2> QED
    BY <2>3
<1> HIDE DEF h
<1>6. Unfolds(h, T, F, base, part, n)
  <2>1. \A S \in SUBSET (1..n) : h[S] = Step(h, S)
    BY <1>5
  <2> QED
    BY <1>3, <1>4, <2>1 DEF Unfolds
<1> QED
  BY <1>1, <1>2, <1>6, FoldIsLoop DEF T, F, base, n

\* What a scan returns.
LEMMA ScanType ==
    ASSUME NEW Sym, NEW room \in Nat, NEW part \in Seq(Sym)
    PROVE  Scan(part, room) \in ScanStates(Sym, room)
<1>1. FoldLeft(ScanChar, ScanFrom(room), part) \in ScanStates(Sym, room)
  BY ScanIsFold, ScanIsLoop, LoopStays
<1> QED
  BY <1>1, EndWordType DEF Scan, ScanFrom

-----------------------------------------------------------------------------
(***************************************************************************)
(* Split and NonEmpty are folds of the same kind: a function for one turn  *)
(* of the loop, and the loop.                                              *)
(***************************************************************************)
Parts(Sym) == Seq(Seq(Sym)) \ {<<>>}

SplitAt(parts, ch, separator) ==
    IF ch = separator THEN Append(parts, <<>>)
    ELSE [parts EXCEPT ![Len(parts)] = Append(@, ch)]

SplitTurn(Sym, separator) == [p \in Parts(Sym) \X Sym |-> SplitAt(p[1], p[2], separator)]

LEMMA SplitAtType ==
    ASSUME NEW Sym, NEW separator, NEW parts \in Parts(Sym), NEW ch \in Sym
    PROVE  SplitAt(parts, ch, separator) \in Parts(Sym)
<1>1. parts \in Seq(Seq(Sym)) /\ Len(parts) \in Nat \ {0}
  BY EmptySeq DEF Parts
<1>2. CASE ch = separator
  <2>1. <<>> \in Seq(Sym)
    BY EmptySeq
  <2>2. Append(parts, <<>>) \in Seq(Seq(Sym)) /\ Append(parts, <<>>) # <<>>
    BY ONLY <1>1, <2>1, AppendProperties
  <2>3. SplitAt(parts, ch, separator) = Append(parts, <<>>)
    BY <1>2 DEF SplitAt
  <2> QED
    BY <2>2, <2>3 DEF Parts
<1>3. CASE ch # separator
  <2>1. Len(parts) \in 1..Len(parts)
    BY <1>1
  <2>2. Append(parts[Len(parts)], ch) \in Seq(Sym)
    BY <1>1, <2>1, ElementOfSeq, AppendProperties
  <2> DEFINE new == [parts EXCEPT ![Len(parts)] = Append(parts[Len(parts)], ch)]
  <2>3. new \in Seq(Seq(Sym)) /\ Len(new) = Len(parts)
    BY <1>1, <2>1, <2>2, ExceptSeq
  <2>4. new # <<>>
    BY <1>1, <2>3, EmptySeq
  <2>5. SplitAt(parts, ch, separator) = new
    BY <1>3 DEF SplitAt
  <2> QED
    BY <2>3, <2>4, <2>5 DEF Parts
<1> QED
  BY <1>2, <1>3

LEMMA SplitIsFold ==
    ASSUME NEW Sym, NEW separator, NEW s \in Seq(Sym)
    PROVE  IsFold(Parts(Sym), Sym, SplitTurn(Sym, separator), << <<>> >>, s, Len(s))
<1>1. << <<>> >> \in Parts(Sym)
  <2>1. <<>> \in Seq(Sym)
    BY EmptySeq
  <2> QED
    BY <2>1 DEF Parts
<1>2. SplitTurn(Sym, separator) \in [Parts(Sym) \X Sym -> Parts(Sym)]
  BY SplitAtType DEF SplitTurn
<1> QED
  BY <1>1, <1>2, LenProperties DEF IsFold

LEMMA SplitIsLoop ==
    ASSUME NEW Sym, NEW separator, NEW s \in Seq(Sym)
    PROVE  \E g : /\ Loop(g, Parts(Sym), SplitTurn(Sym, separator), << <<>> >>, s, Len(s))
                  /\ Split(s, separator) = g[Len(s)]
<1> DEFINE n == Len(s)
           T == Parts(Sym)
           F == SplitTurn(Sym, separator)
           base == << <<>> >>
           Step(f, S) == IF S = {} THEN base ELSE SplitAt(f[S \ {Max(S)}], s[Max(S)], separator)
           h == CHOOSE f : f = [S \in SUBSET (1..n) |-> Step(f, S)]
<1>1. Split(s, separator) = h[1..n]
  <2>1. DOMAIN s = 1..n
    BY LenProperties
  <2> QED
    BY <2>1 DEF Split, SplitAt, FoldLeft, MapThenFoldSet
<1>2. IsFold(T, Sym, F, base, s, n)
  BY SplitIsFold
<1>3. \A a \in T, b \in Sym : F[<<a, b>>] = SplitAt(a, b, separator)
  BY DEF SplitTurn
<1> HIDE DEF F, T, base, n
<1>4. \A S \in SUBSET (1..n) : S # {} => s[Max(S)] \in Sym
  BY <1>2, LastElement
<1>5. h = [S \in SUBSET (1..n) |-> Step(h, S)]
  <2>1. PICK f : Table(f, T, F, base, s, n)
    BY <1>2, FoldTable
  <2>2. \A S \in SUBSET (1..n) : f[S] = Step(f, S)
    BY <1>3, <1>4, <2>1 DEF Table
  <2>3. f = [S \in SUBSET (1..n) |-> Step(f, S)]
    BY <2>1, <2>2 DEF Table
  <2> QED
    BY <2>3
<1> HIDE DEF h
<1>6. Unfolds(h, T, F, base, s, n)
  <2>1. \A S \in SUBSET (1..n) : h[S] = Step(h, S)
    BY <1>5
  <2> QED
    BY <1>3, <1>4, <2>1 DEF Unfolds
<1> QED
  BY <1>1, <1>2, <1>6, FoldIsLoop DEF T, F, base, n

LEMMA SplitType ==
    ASSUME NEW Sym, NEW separator, NEW s \in Seq(Sym)
    PROVE  Split(s, separator) \in Parts(Sym)
<1>1. IsFold(Parts(Sym), Sym, SplitTurn(Sym, separator), << <<>> >>, s, Len(s))
  BY SplitIsFold
<1>2. PICK g : /\ Loop(g, Parts(Sym), SplitTurn(Sym, separator), << <<>> >>, s, Len(s))
               /\ Split(s, separator) = g[Len(s)]
  BY SplitIsLoop
<1>3. g[Len(s)] \in Parts(Sym)
  BY ONLY <1>1, <1>2, LoopStays
<1> QED
  BY <1>2, <1>3

Keep(kept, part) == IF part = <<>> THEN kept ELSE Append(kept, part)

KeepTurn(E) == [p \in Seq(E \ {<<>>}) \X E |-> Keep(p[1], p[2])]

LEMMA KeepIsFold ==
    ASSUME NEW E, NEW parts \in Seq(E)
    PROVE  IsFold(Seq(E \ {<<>>}), E, KeepTurn(E), <<>>, parts, Len(parts))
<1>1. \A kept \in Seq(E \ {<<>>}), part \in E : Keep(kept, part) \in Seq(E \ {<<>>})
  BY AppendProperties DEF Keep
<1>2. KeepTurn(E) \in [Seq(E \ {<<>>}) \X E -> Seq(E \ {<<>>})]
  BY <1>1 DEF KeepTurn
<1>3. <<>> \in Seq(E \ {<<>>})
  BY EmptySeq
<1> QED
  BY <1>2, <1>3, LenProperties DEF IsFold

LEMMA KeepIsLoop ==
    ASSUME NEW E, NEW parts \in Seq(E)
    PROVE  \E g : /\ Loop(g, Seq(E \ {<<>>}), KeepTurn(E), <<>>, parts, Len(parts))
                  /\ NonEmpty(parts) = g[Len(parts)]
<1> DEFINE n == Len(parts)
           T == Seq(E \ {<<>>})
           F == KeepTurn(E)
           base == <<>>
           Step(f, S) == IF S = {} THEN base ELSE Keep(f[S \ {Max(S)}], parts[Max(S)])
           h == CHOOSE f : f = [S \in SUBSET (1..n) |-> Step(f, S)]
<1>1. NonEmpty(parts) = h[1..n]
  <2>1. DOMAIN parts = 1..n
    BY LenProperties
  <2> QED
    BY <2>1 DEF NonEmpty, Keep, FoldLeft, MapThenFoldSet
<1>2. IsFold(T, E, F, base, parts, n)
  BY KeepIsFold
<1>3. \A a \in T, b \in E : F[<<a, b>>] = Keep(a, b)
  BY DEF KeepTurn
<1> HIDE DEF F, T, base, n
<1>4. \A S \in SUBSET (1..n) : S # {} => parts[Max(S)] \in E
  BY <1>2, LastElement
<1>5. h = [S \in SUBSET (1..n) |-> Step(h, S)]
  <2>1. PICK f : Table(f, T, F, base, parts, n)
    BY <1>2, FoldTable
  <2>2. \A S \in SUBSET (1..n) : f[S] = Step(f, S)
    BY <1>3, <1>4, <2>1 DEF Table
  <2>3. f = [S \in SUBSET (1..n) |-> Step(f, S)]
    BY <2>1, <2>2 DEF Table
  <2> QED
    BY <2>3
<1> HIDE DEF h
<1>6. Unfolds(h, T, F, base, parts, n)
  <2>1. \A S \in SUBSET (1..n) : h[S] = Step(h, S)
    BY <1>5
  <2> QED
    BY <1>3, <1>4, <2>1 DEF Unfolds
<1> QED
  BY <1>1, <1>2, <1>6, FoldIsLoop DEF T, F, base, n

\* No empty part is left.
LEMMA NonEmptyType ==
    ASSUME NEW E, NEW parts \in Seq(E)
    PROVE  NonEmpty(parts) \in Seq(E \ {<<>>})
BY KeepIsFold, KeepIsLoop, LoopStays

-----------------------------------------------------------------------------
\* Trimming takes blanks from the line and adds nothing.
Blanks(s, i, j) == \A k \in i..j : s[k] \in Spaces

LEMMA TrimLeftIs ==
    ASSUME NEW Sym, NEW s \in Seq(Sym), NEW blanks
    PROVE  \E n \in 0..Len(s) : /\ (\A k \in 1..n : s[k] \in blanks) /\ (n = Len(s) \/ s[n + 1] \notin blanks)
                               /\ TrimLeft(s, blanks) = SubSeq(s, n + 1, Len(s))
<1> DEFINE Stops(m) == (\A i \in 1..m : s[i] \in blanks) /\ (m = Len(s) \/ s[m + 1] \notin blanks)
           n == CHOOSE m \in 0..Len(s) : Stops(m)
           Ahead == {m \in 0..Len(s) : m = Len(s) \/ s[m + 1] \notin blanks}
<1>1. Len(s) \in Nat
  BY LenProperties
<1>2. \E m \in 0..Len(s) : Stops(m)
  <2>1. Len(s) \in Ahead /\ Ahead # {} /\ Ahead \subseteq Nat
    BY <1>1
  <2>2. PICK m \in Ahead : \A k \in Ahead : m <= k
    BY <2>1, NatLeast
  <2>3. ASSUME NEW i \in 1..m PROVE s[i] \in blanks
    <3>1. i - 1 \in 0..Len(s) /\ i - 1 # Len(s) /\ i - 1 < m
      BY <1>1
    <3>2. ~(m <= i - 1)
      BY <1>1, <3>1
    <3>3. i - 1 \notin Ahead
      <4> HIDE DEF Ahead
      <4> QED
        BY <2>2, <3>2
    <3>4. (i - 1) + 1 = i
      OBVIOUS
    <3> QED
      BY <3>1, <3>3, <3>4
  <2> QED
    BY <2>3
<1>3. n \in 0..Len(s) /\ Stops(n)
  <2> HIDE DEF Stops
  <2> QED
    BY <1>2
<1>4. TrimLeft(s, blanks) = SubSeq(s, n + 1, Len(s))
  BY DEF TrimLeft
<1> HIDE DEF n
<1> QED
  BY <1>3, <1>4

LEMMA TrimLeftType ==
    ASSUME NEW Sym, NEW s \in Seq(Sym), NEW blanks
    PROVE  TrimLeft(s, blanks) \in Seq(Sym)
<1>1. PICK n \in 0..Len(s) : TrimLeft(s, blanks) = SubSeq(s, n + 1, Len(s))
  BY TrimLeftIs
<1> QED
  BY <1>1, RestType

LEMMA TrimType ==
    ASSUME NEW Sym, NEW s \in Seq(Sym)
    PROVE  Trim(s) \in Seq(Sym)
BY TrimLeftType, ReverseType DEF Trim

\* What fgets has read holds no newline once it is cut.
LEMMA ChompedType ==
    ASSUME NEW Sym, NEW s \in Seq(Sym)
    PROVE  Chomped(s) \in Seq(Sym \ {NewLine})
<1> DEFINE Ends == {i \in 1..Len(s) : s[i] = NewLine}
<1>1. Len(s) \in Nat /\ \A i \in 1..Len(s) : s[i] \in Sym
  BY LenProperties, ElementOfSeq
<1>2. CASE Ends = {}
  <2>1. Chomped(s) = s
    BY <1>2 DEF Chomped, SelectInSeq
  <2>2. \A i \in 1..Len(s) : s[i] \in Sym \ {NewLine}
    BY <1>1, <1>2
  <2>3. SubSeq(s, 1, Len(s)) \in Seq(Sym \ {NewLine})
    BY <1>1, <2>2, SubSeqProperties
  <2> QED
    BY <2>1, <2>3, SubSeqFull
<1>3. CASE Ends # {}
  <2> DEFINE m == Min(Ends)
  <2>1. m \in Ends /\ \A k \in Ends : m <= k
    <3>1. Ends \subseteq Nat
      BY <1>1
    <3> HIDE DEF Ends
    <3> QED
      BY <1>3, <3>1, MinIsLeast
  <2>2. m # 0
    <3> HIDE DEF m
    <3> QED
      BY <2>1
  <2>3. Chomped(s) = SubSeq(s, 1, m - 1)
    BY <1>3, <2>2 DEF Chomped, SelectInSeq
  <2> HIDE DEF m
  <2>4. \A i \in 1..m - 1 : s[i] \in Sym \ {NewLine}
    <3>1. ASSUME NEW i \in 1..m - 1 PROVE i \in 1..Len(s) /\ i \notin Ends
      BY <1>1, <2>1
    <3> QED
      BY <1>1, <3>1
  <2>5. SubSeq(s, 1, m - 1) \in Seq(Sym \ {NewLine})
    <3>1. 1 \in Int /\ m - 1 \in Int
      BY <1>1, <2>1
    <3> QED
      BY <2>4, <3>1, SubSeqProperties
  <2> QED
    BY <2>3, <2>5
<1> QED
  BY <1>2, <1>3

-----------------------------------------------------------------------------
\* A command as build_cmd_list leaves it: at least one argument, no empty one,
\* and an entry of argv left for the NULL.
Commands(Sym) == ArgLists(Sym, CMD_ARGV_MAX - 1) \ {<<>>}

LEMMA ParseInputType ==
    ASSUME NEW Sym, NEW part \in Seq(Sym)
    PROVE  parse_input(part) \in ArgLists(Sym, CMD_ARGV_MAX - 1)
<1>1. CMD_ARGV_MAX - 1 \in Nat
  BY CmdLineAssumption
<1>2. Scan(part, CMD_ARGV_MAX - 1) \in ScanStates(Sym, CMD_ARGV_MAX - 1)
  BY <1>1, ScanType
<1> QED
  BY <1>2 DEF parse_input, ScanStates

LEMMA BuildCmdListType ==
    ASSUME NEW Sym, NEW line \in Seq(Sym)
    PROVE  build_cmd_list(line) \in Seq(Commands(Sym)) /\ Len(build_cmd_list(line)) <= CMD_MAX
<1> DEFINE parts == Split(line, Pipe)
           A == ArgLists(Sym, CMD_ARGV_MAX - 1)
           parsed == [i \in DOMAIN parts |-> parse_input(Trim(parts[i]))]
           all == NonEmpty(parsed)
           n == IF Len(all) > CMD_MAX THEN CMD_MAX ELSE Len(all)
<1>1. parts \in Seq(Seq(Sym))
  BY SplitType DEF Parts
<1>2. Len(parts) \in Nat /\ DOMAIN parts = 1..Len(parts)
  BY <1>1, LenProperties
<1>3. \A i \in 1..Len(parts) : parse_input(Trim(parts[i])) \in A
  BY <1>1, ElementOfSeq, TrimType, ParseInputType
<1>4. parsed \in Seq(A)
  <2> HIDE DEF parts, A
  <2> QED
    BY <1>2, <1>3
<1>5. all \in Seq(Commands(Sym))
  BY <1>4, NonEmptyType DEF Commands
<1>6. Len(all) \in Nat /\ CMD_MAX \in Nat
  BY <1>5, LenProperties, CmdLineAssumption
<1>7. build_cmd_list(line) = SubSeq(all, 1, n)
  BY DEF build_cmd_list
<1> HIDE DEF all
<1>8. n \in 0..Len(all) /\ n <= CMD_MAX
  BY <1>6
<1>9. \A i \in 1..n : all[i] \in Commands(Sym)
  BY <1>5, <1>6, <1>8, ElementOfSeq
<1> HIDE DEF n
<1>10. SubSeq(all, 1, n) \in Seq(Commands(Sym)) /\ Len(SubSeq(all, 1, n)) <= CMD_MAX
  BY <1>6, <1>8, <1>9, SubSeqProperties
<1> QED
  BY <1>7, <1>10

\* A fold over nothing, and over one element.
LEMMA LoopOfNone ==
    ASSUME NEW T, NEW F, NEW base, NEW s, NEW g, Loop(g, T, F, base, s, 0)
    PROVE  g[0] = base
BY DEF Loop

LEMMA LoopOfOne ==
    ASSUME NEW T, NEW F, NEW base, NEW s, NEW g, Loop(g, T, F, base, s, 1)
    PROVE  g[1] = F[<<base, s[1]>>]
<1>1. 1 \in 1..1 /\ 1 - 1 = 0
  OBVIOUS
<1> QED
  BY <1>1 DEF Loop

\* An empty line has no command.
LEMMA BuildNothing == build_cmd_list(<<>>) = <<>>
<1>0. <<>> \in Seq({Pipe}) /\ Len(<<>>) = 0
  BY EmptySeq
<1>1. Split(<<>>, Pipe) = << <<>> >>
  <2>1. PICK g : /\ Loop(g, Parts({Pipe}), SplitTurn({Pipe}, Pipe), << <<>> >>, <<>>, 0)
                 /\ Split(<<>>, Pipe) = g[0]
    BY <1>0, SplitIsLoop
  <2> QED
    BY ONLY <2>1, LoopOfNone
<1>2. TrimLeft(<<>>, Spaces) = <<>>
  <2>1. TrimLeft(<<>>, Spaces) \in Seq({})
    BY EmptySeq, TrimLeftType
  <2>2. \A s \in Seq({}) : s = <<>>
    <3> SUFFICES ASSUME NEW s \in Seq({}), s # <<>> PROVE FALSE
      OBVIOUS
    <3>1. Len(s) \in Nat \ {0}
      BY EmptySeq
    <3>2. 1 \in 1..Len(s)
      BY <3>1
    <3> QED
      BY <3>2, ElementOfSeq
  <2> QED
    BY <2>1, <2>2
<1>3. Reverse(<<>>) = <<>>
  <2>1. 1..Len(<<>>) = {}
    BY <1>0
  <2> QED
    BY <2>1, SeqEqual, EmptySeq, ReverseType, LenProperties DEF Reverse
<1>4. Trim(<<>>) = <<>>
  BY <1>2, <1>3 DEF Trim
<1>5. parse_input(<<>>) = <<>>
  <2> DEFINE room == CMD_ARGV_MAX - 1
  <2>1. room \in Nat
    BY CmdLineAssumption
  <2> HIDE DEF room
  <2>2. PICK g : /\ Loop(g, ScanStates({Pipe}, room), ScanTurn({Pipe}, room), ScanFrom(room), <<>>, 0)
                 /\ FoldLeft(ScanChar, ScanFrom(room), <<>>) = g[0]
    BY <1>0, <2>1, ScanIsLoop
  <2>3. FoldLeft(ScanChar, ScanFrom(room), <<>>) = ScanFrom(room)
    BY ONLY <2>2, LoopOfNone
  <2>4. Scan(<<>>, room) = EndWord(ScanFrom(room))
    BY <2>3 DEF Scan, ScanFrom
  <2>5. EndWord(ScanFrom(room)) = ScanFrom(room)
    BY DEF EndWord, ScanFrom
  <2> QED
    BY <2>4, <2>5 DEF parse_input, ScanFrom, room
<1>6. NonEmpty(<< <<>> >>) = <<>>
  <2>1. << <<>> >> \in Seq({<<>>}) /\ Len(<< <<>> >>) = 1 /\ << <<>> >>[1] = <<>>
    OBVIOUS
  <2>2. PICK g : /\ Loop(g, Seq({<<>>} \ {<<>>}), KeepTurn({<<>>}), <<>>, << <<>> >>, 1)
                 /\ NonEmpty(<< <<>> >>) = g[1]
    BY <2>1, KeepIsLoop
  <2>3. NonEmpty(<< <<>> >>) = KeepTurn({<<>>})[<< <<>>, << <<>> >>[1] >>]
    BY ONLY <2>2, LoopOfOne
  <2>4. KeepTurn({<<>>})[<< <<>>, <<>> >>] = Keep(<<>>, <<>>)
    <3>1. << <<>>, <<>> >> \in Seq({<<>>} \ {<<>>}) \X {<<>>}
      BY EmptySeq
    <3> QED
      BY <3>1 DEF KeepTurn
  <2> QED
    BY <2>1, <2>3, <2>4 DEF Keep
<1> DEFINE parts == Split(<<>>, Pipe)
           parsed == [i \in DOMAIN parts |-> parse_input(Trim(parts[i]))]
<1>7. parsed = << <<>> >>
  <2>1. DOMAIN parts = 1..1 /\ parts[1] = <<>>
    BY <1>1
  <2>2. parsed = [i \in 1..1 |-> <<>>]
    BY <1>4, <1>5, <2>1
  <2> QED
    BY <2>2
<1>8. build_cmd_list(<<>>) = SubSeq(<<>>, 1, 0)
  <2>1. build_cmd_list(<<>>) = SubSeq(NonEmpty(parsed), 1,
                                      IF Len(NonEmpty(parsed)) > CMD_MAX THEN CMD_MAX
                                      ELSE Len(NonEmpty(parsed)))
    BY DEF build_cmd_list
  <2> HIDE DEF parsed
  <2> QED
    BY <1>0, <1>6, <1>7, <2>1, CmdLineAssumption
<1> QED
  BY <1>8, SubSeqEmpty

-----------------------------------------------------------------------------
(***************************************************************************)
(* The words of a line, position by position: how those of the first i     *)
(* symbols become those of the first i + 1.                                *)
(***************************************************************************)
WordAt(s, i, k) == {j \in 1..i : Letter(s, j) /\ Started(s, j) = k}
WordsTo(s, i) == [k \in 1..Started(s, i) |-> Pick(s, WordAt(s, i, k))]

LEMMA StartedStep ==
    ASSUME NEW s, NEW i \in Nat
    PROVE  /\ Started(s, i) \in Nat /\ Started(s, 0) = 0
           /\ Started(s, i + 1) = IF Starts(s, i + 1) THEN Started(s, i) + 1 ELSE Started(s, i)
<1> DEFINE C(n) == {j \in 1..n : Starts(s, j)}
<1>1. C(i) \in SUBSET (1..i) /\ C(0) = {}
  OBVIOUS
<1>2. C(i + 1) = IF Starts(s, i + 1) THEN C(i) \cup {i + 1} ELSE C(i)
  <2>1. \A m \in 1..i + 1 : m # i + 1 => m \in 1..i
    OBVIOUS
  <2>2. \A m \in 1..i : m \in 1..i + 1
    OBVIOUS
  <2> QED
    BY <2>1, <2>2
<1>3. i + 1 \notin C(i)
  OBVIOUS
<1> HIDE DEF C
<1>4. IsFiniteSet(C(i)) /\ Cardinality(C(i)) \in Nat
  BY <1>1, PositionsFinite
<1>5. Cardinality(C(i) \cup {i + 1}) = Cardinality(C(i)) + 1
  BY <1>3, <1>4, FS_AddElement
<1>6. Cardinality(C(0)) = 0
  BY <1>1, FS_EmptySet
<1> QED
  BY <1>2, <1>4, <1>5, <1>6 DEF C, Started

LEMMA StartedGrows ==
    ASSUME NEW s, NEW i \in Nat, NEW j \in 0..i
    PROVE  Started(s, j) <= Started(s, i)
<1> DEFINE C(n) == {m \in 1..n : Starts(s, m)}
<1>1. C(i) \in SUBSET (1..i) /\ C(j) \in SUBSET C(i)
  OBVIOUS
<1> HIDE DEF C
<1>2. Cardinality(C(j)) <= Cardinality(C(i))
  BY <1>1, PositionsFinite, FS_Subset
<1> QED
  BY <1>2 DEF C, Started

LEMMA WordsToType ==
    ASSUME NEW Sym, NEW s \in Seq(Sym), NEW i \in 0..Len(s)
    PROVE  WordsTo(s, i) \in Seq(Seq(Sym)) /\ Len(WordsTo(s, i)) = Started(s, i)
<1>1. Started(s, i) \in Nat /\ i \in Nat /\ Len(s) \in Nat
  BY LenProperties, StartedStep
<1>2. ASSUME NEW k \in 1..Started(s, i) PROVE Pick(s, WordAt(s, i, k)) \in Seq(Sym)
  <2>1. WordAt(s, i, k) \in SUBSET (1..i)
    BY DEF WordAt
  <2>2. Within(s, WordAt(s, i, k), Sym)
    <3>1. \A p \in WordAt(s, i, k) : p \in 1..Len(s)
      BY <1>1 DEF WordAt
    <3> QED
      BY <3>1, ElementOfSeq DEF Within
  <2> QED
    BY <1>1, <2>1, <2>2, PickType
<1> QED
  BY <1>1, <1>2 DEF WordsTo

\* Something that is no letter changes no word,
LEMMA NoLetter ==
    ASSUME NEW s, NEW i \in Nat, ~Letter(s, i + 1)
    PROVE  WordsTo(s, i + 1) = WordsTo(s, i)
<1>1. Started(s, i + 1) = Started(s, i)
  BY StartedStep DEF Starts
<1>2. ASSUME NEW k PROVE WordAt(s, i + 1, k) = WordAt(s, i, k)
  <2>1. /\ \A m \in 1..i + 1 : m # i + 1 => m \in 1..i
        /\ \A m \in 1..i : m \in 1..i + 1
    OBVIOUS
  <2> QED
    BY <2>1 DEF WordAt
<1> QED
  BY <1>1, <1>2 DEF WordsTo

\* a letter that starts a word adds it,
LEMMA NewWord ==
    ASSUME NEW Sym, NEW s \in Seq(Sym), NEW i \in Nat, i + 1 <= Len(s), Starts(s, i + 1)
    PROVE  WordsTo(s, i + 1) = Append(WordsTo(s, i), <<s[i + 1]>>)
<1> DEFINE c == Started(s, i)
<1>1. c \in Nat /\ Started(s, i + 1) = c + 1 /\ Letter(s, i + 1)
  BY StartedStep DEF Starts
<1>2. i \in 0..Len(s) /\ i + 1 \in 0..Len(s) /\ i + 1 \in 1..Len(s) /\ s[i + 1] \in Sym
  <2>1. Len(s) \in Nat
    BY LenProperties
  <2> QED
    BY <2>1, ElementOfSeq
<1>3. /\ \A m \in 1..i + 1 : m # i + 1 => m \in 1..i
      /\ \A m \in 1..i : m \in 1..i + 1
  OBVIOUS
<1>4. ASSUME NEW k \in 1..c PROVE WordAt(s, i + 1, k) = WordAt(s, i, k)
  <2>1. k # c + 1
    BY <1>1
  <2> QED
    BY <1>1, <1>3, <2>1 DEF WordAt
<1>5. WordAt(s, i, c + 1) = {}
  <2>1. ASSUME NEW j \in 1..i, Started(s, j) = c + 1 PROVE FALSE
    <3>1. Started(s, j) <= c
      BY StartedGrows
    <3> QED
      BY <1>1, <2>1, <3>1
  <2> QED
    BY <2>1 DEF WordAt
<1>6. WordAt(s, i + 1, c + 1) = {} \cup {i + 1}
  <2>1. \A j \in 1..i : ~(Letter(s, j) /\ Started(s, j) = c + 1)
    BY <1>5 DEF WordAt
  <2>2. i + 1 \in 1..i + 1
    OBVIOUS
  <2> QED
    BY <1>1, <1>3, <2>1, <2>2 DEF WordAt
<1>7. Pick(s, WordAt(s, i + 1, c + 1)) = <<s[i + 1]>>
  <2>1. {} \in SUBSET (1..i) /\ Within(s, {} \cup {i + 1}, Sym)
    BY <1>2 DEF Within
  <2>2. Pick(s, {} \cup {i + 1}) = Append(Pick(s, {}), s[i + 1])
    BY <2>1, PickNew
  <2>3. Append(<<>>, s[i + 1]) = <<s[i + 1]>>
    OBVIOUS
  <2> QED
    BY <1>6, <2>2, <2>3, PickNone
<1>8. /\ WordsTo(s, i) \in Seq(Seq(Sym)) /\ Len(WordsTo(s, i)) = c
      /\ WordsTo(s, i + 1) \in Seq(Seq(Sym)) /\ Len(WordsTo(s, i + 1)) = c + 1
  BY <1>1, <1>2, WordsToType
<1>9. /\ \A k \in 1..c : WordsTo(s, i + 1)[k] = WordsTo(s, i)[k]
      /\ WordsTo(s, i + 1)[c + 1] = <<s[i + 1]>>
  <2>1. c + 1 \in 1..c + 1 /\ \A k \in 1..c : k \in 1..c + 1
    BY <1>1
  <2> HIDE DEF c
  <2> QED
    BY <1>1, <1>4, <1>7, <2>1 DEF WordsTo, c
<1> DEFINE new == Append(WordsTo(s, i), <<s[i + 1]>>)
<1>10. <<s[i + 1]>> \in Seq(Sym)
  BY <1>2
<1>11. /\ new \in Seq(Seq(Sym)) /\ Len(new) = c + 1
       /\ \A k \in 1..c : new[k] = WordsTo(s, i)[k]
       /\ new[c + 1] = <<s[i + 1]>>
  BY <1>8, <1>10, AppendProperties
<1> HIDE DEF c, new
<1>12. \A k \in 1..c + 1 : WordsTo(s, i + 1)[k] = new[k]
  <2>1. \A k \in 1..c + 1 : k = c + 1 \/ k \in 1..c
    BY <1>1
  <2> QED
    BY <1>9, <1>11, <2>1
<1>13. WordsTo(s, i + 1) = new
  BY <1>8, <1>11, <1>12, SeqEqual
<1> QED
  BY <1>13 DEF new

\* and one that does not becomes the last of the last word.
LEMMA LongerWord ==
    ASSUME NEW Sym, NEW s \in Seq(Sym), NEW i \in Nat, i + 1 <= Len(s),
           Letter(s, i + 1), ~Starts(s, i + 1), Started(s, i) # 0
    PROVE  WordsTo(s, i + 1) = [WordsTo(s, i) EXCEPT ![Started(s, i)] = Append(@, s[i + 1])]
<1> DEFINE c == Started(s, i)
<1>1. c \in Nat /\ Started(s, i + 1) = c /\ c \in 1..c
  <2>1. c \in Nat /\ Started(s, i + 1) = c
    BY StartedStep
  <2> QED
    BY <2>1
<1>2. i \in 0..Len(s) /\ i + 1 \in 0..Len(s) /\ i + 1 \in 1..Len(s)
  <2>1. Len(s) \in Nat
    BY LenProperties
  <2> QED
    BY <2>1
<1>3. /\ \A m \in 1..i + 1 : m # i + 1 => m \in 1..i
      /\ \A m \in 1..i : m \in 1..i + 1
      /\ i + 1 \in 1..i + 1
  OBVIOUS
<1>4. ASSUME NEW k \in 1..c, k # c PROVE WordAt(s, i + 1, k) = WordAt(s, i, k)
  BY <1>1, <1>3, <1>4 DEF WordAt
<1>5. WordAt(s, i + 1, c) = WordAt(s, i, c) \cup {i + 1}
  BY <1>1, <1>3 DEF WordAt
<1>6. Pick(s, WordAt(s, i + 1, c)) = Append(Pick(s, WordAt(s, i, c)), s[i + 1])
  <2>1. WordAt(s, i, c) \in SUBSET (1..i)
    BY DEF WordAt
  <2>2. \A p \in WordAt(s, i, c) \cup {i + 1} : p \in 1..Len(s)
    BY <1>2 DEF WordAt
  <2>3. Within(s, WordAt(s, i, c) \cup {i + 1}, Sym)
    BY <2>2, ElementOfSeq DEF Within
  <2>4. Pick(s, WordAt(s, i, c) \cup {i + 1}) = Append(Pick(s, WordAt(s, i, c)), s[i + 1])
    BY <2>1, <2>3, PickNew
  <2> QED
    BY <1>5, <2>4
<1>7. /\ WordsTo(s, i) = [k \in 1..c |-> Pick(s, WordAt(s, i, k))]
      /\ WordsTo(s, i + 1) = [k \in 1..c |-> Pick(s, WordAt(s, i + 1, k))]
  BY <1>1 DEF WordsTo
<1> HIDE DEF c
<1>8. [WordsTo(s, i) EXCEPT ![c] = Append(@, s[i + 1])]
        = [k \in 1..c |-> IF k = c THEN Append(Pick(s, WordAt(s, i, c)), s[i + 1])
                          ELSE Pick(s, WordAt(s, i, k))]
  BY <1>1, <1>7
<1>9. \A k \in 1..c : Pick(s, WordAt(s, i + 1, k))
                        = IF k = c THEN Append(Pick(s, WordAt(s, i, c)), s[i + 1])
                          ELSE Pick(s, WordAt(s, i, k))
  BY <1>4, <1>6
<1>10. WordsTo(s, i + 1) = [WordsTo(s, i) EXCEPT ![c] = Append(@, s[i + 1])]
  BY <1>7, <1>8, <1>9
<1> QED
  BY <1>10 DEF c

LEMMA WordsToAll ==
    ASSUME NEW Sym, NEW s \in Seq(Sym)
    PROVE  WordsTo(s, Len(s)) = Words(s) /\ WordsTo(s, 0) = <<>>
<1>1. DOMAIN s = 1..Len(s)
  BY LenProperties
<1>2. Started(s, 0) = 0
  BY StartedStep
<1>3. WordsTo(s, 0) = <<>>
  <2>1. 0 \in 0..Len(s)
    BY LenProperties
  <2>2. WordsTo(s, 0) \in Seq(Seq(Sym)) /\ Len(WordsTo(s, 0)) = 0
    BY <1>2, <2>1, WordsToType
  <2> QED
    BY <2>2, EmptySeq
<1> QED
  BY <1>1, <1>3 DEF WordsTo, Words, WordAt

LEMMA WordsType ==
    ASSUME NEW Sym, NEW s \in Seq(Sym)
    PROVE  Words(s) \in Seq(Seq(Sym))
<1>1. Len(s) \in 0..Len(s)
  BY LenProperties
<1> QED
  BY <1>1, WordsToType, WordsToAll

-----------------------------------------------------------------------------
(***************************************************************************)
(* The scan finds the words of the line.  Behind the first i symbols its   *)
(* arguments, with the one it is copying, are their words; once there was  *)
(* one too many they are the first of them.                                *)
(***************************************************************************)
LEMMA EndedStep ==
    ASSUME NEW s, NEW i \in Nat
    PROVE  /\ Ended(s, 0)
           /\ Separates(s, i + 1) => Ended(s, i + 1)
           /\ Letter(s, i + 1) => ~Ended(s, i + 1)
           /\ ~Letter(s, i + 1) /\ ~Separates(s, i + 1) => (Ended(s, i + 1) <=> Ended(s, i))
<1>1. Ended(s, 0)
  BY DEF Ended
<1>2. ASSUME Separates(s, i + 1) PROVE Ended(s, i + 1)
  <2> SUFFICES ASSUME NEW j \in 1..i + 1, Letter(s, j)
               PROVE  \E k \in j + 1..i + 1 : Separates(s, k)
    BY DEF Ended
  <2>1. j # i + 1
    BY <1>2 DEF Letter
  <2>2. i + 1 \in j + 1..i + 1
    BY <2>1
  <2> QED
    BY <1>2, <2>2
<1>3. ASSUME Letter(s, i + 1) PROVE ~Ended(s, i + 1)
  <2>1. i + 1 \in 1..i + 1 /\ (i + 1) + 1..i + 1 = {}
    OBVIOUS
  <2> QED
    BY <1>3, <2>1 DEF Ended
<1>4. ASSUME ~Letter(s, i + 1), ~Separates(s, i + 1), Ended(s, i) PROVE Ended(s, i + 1)
  <2> SUFFICES ASSUME NEW j \in 1..i + 1, Letter(s, j)
               PROVE  \E k \in j + 1..i + 1 : Separates(s, k)
    BY DEF Ended
  <2>1. j \in 1..i
    <3>1. j # i + 1
      BY <1>4
    <3> QED
      BY <3>1
  <2>2. PICK k \in j + 1..i : Separates(s, k)
    BY <1>4, <2>1 DEF Ended
  <2>3. k \in j + 1..i + 1
    OBVIOUS
  <2> QED
    BY <2>2, <2>3
<1>5. ASSUME ~Separates(s, i + 1), Ended(s, i + 1) PROVE Ended(s, i)
  <2> SUFFICES ASSUME NEW j \in 1..i, Letter(s, j)
               PROVE  \E k \in j + 1..i : Separates(s, k)
    BY DEF Ended
  <2>1. j \in 1..i + 1
    OBVIOUS
  <2>2. PICK k \in j + 1..i + 1 : Separates(s, k)
    BY <1>5, <2>1 DEF Ended
  <2>3. k # i + 1
    BY <1>5, <2>2
  <2>4. k \in j + 1..i
    BY <2>3
  <2> QED
    BY <2>2, <2>4
<1> QED
  BY <1>1, <1>2, <1>3, <1>4, <1>5

ScanMeans(s, room, st, i) ==
    /\ st.over => Len(WordsTo(s, i)) > room /\ st.args = FirstOf(WordsTo(s, i), room)
    /\ ~st.over =>
         /\ st.quoted <=> Count(s, Quote, 1, i) % 2 = 1
         /\ st.arg = <<>> => WordsTo(s, i) = st.args /\ Ended(s, i)
         /\ st.arg # <<>> => WordsTo(s, i) = Append(st.args, st.arg) /\ ~Ended(s, i)

\* More words behind those there is room for change nothing.
LEMMA WordsGrow ==
    ASSUME NEW Sym, NEW s \in Seq(Sym), NEW i \in Nat, i + 1 <= Len(s),
           NEW room \in Nat, Len(WordsTo(s, i)) > room
    PROVE  /\ Len(WordsTo(s, i + 1)) > room
           /\ FirstOf(WordsTo(s, i + 1), room) = FirstOf(WordsTo(s, i), room)
<1> DEFINE w == WordsTo(s, i)
           x == WordsTo(s, i + 1)
           c == Started(s, i)
<1>1. i \in 0..Len(s) /\ i + 1 \in 0..Len(s) /\ i + 1 \in 1..Len(s) /\ s[i + 1] \in Sym
  <2>1. Len(s) \in Nat
    BY LenProperties
  <2> QED
    BY <2>1, ElementOfSeq
<1>2. /\ w \in Seq(Seq(Sym)) /\ Len(w) = c /\ x \in Seq(Seq(Sym)) /\ c \in Nat
      /\ Len(x) \in Nat
  BY <1>1, WordsToType, StartedStep
<1>3. Len(w) > room
  OBVIOUS
<1>4. CASE ~Letter(s, i + 1)
  BY <1>3, <1>4, NoLetter
<1>5. CASE Starts(s, i + 1)
  <2>1. x = Append(w, <<s[i + 1]>>) /\ <<s[i + 1]>> \in Seq(Sym)
    BY <1>1, <1>5, NewWord
  <2> HIDE DEF w, x, c
  <2>2. Len(x) = c + 1 /\ \A k \in 1..c : x[k] = w[k]
    BY <1>2, <2>1, AppendProperties
  <2>3. Len(x) > room /\ Len(x) >= room /\ Len(w) >= room /\ Alike(x, w, 1..room)
    <3>1. c \in Nat /\ c > room
      BY <1>2, <1>3
    <3>2. \A k \in 1..room : k \in 1..c
      BY <3>1
    <3>3. Alike(x, w, 1..room)
      BY <2>2, <3>2 DEF Alike
    <3>4. Len(x) > room /\ Len(x) >= room /\ Len(w) >= room
      BY <1>2, <2>2, <3>1
    <3> QED
      BY <3>3, <3>4
  <2>4. FirstOf(x, room) = FirstOf(w, room)
    BY <1>2, <2>3, FirstSame
  <2> QED
    BY <2>3, <2>4 DEF w, x
<1>6. CASE Letter(s, i + 1) /\ ~Starts(s, i + 1)
  <2>0. c # 0
    <3> HIDE DEF w, x, c
    <3> QED
      BY <1>2, <1>3
  <2>1. x = [w EXCEPT ![c] = Append(@, s[i + 1])]
    BY <1>6, <2>0, LongerWord
  <2>2. w[c] \in Seq(Sym) /\ c \in 1..Len(w)
    <3> HIDE DEF w, c
    <3>1. c \in 1..Len(w)
      BY <1>2, <1>3
    <3> QED
      BY <1>2, <3>1, ElementOfSeq
  <2>3. Append(w[c], s[i + 1]) \in Seq(Sym)
    BY <1>1, <2>2, AppendProperties
  <2> HIDE DEF w, x, c
  <2>4. Len(x) = c /\ \A k \in 1..c : k # c => x[k] = w[k]
    BY <1>2, <2>1, <2>2, <2>3, ExceptSeq
  <2>5. Len(x) > room /\ Len(x) >= room /\ Len(w) >= room /\ Alike(x, w, 1..room)
    <3>1. c \in Nat /\ c > room
      BY <1>2, <1>3
    <3>2. \A k \in 1..room : k \in 1..c /\ k # c
      BY <3>1
    <3>3. Alike(x, w, 1..room)
      BY <2>4, <3>2 DEF Alike
    <3>4. Len(x) > room /\ Len(x) >= room /\ Len(w) >= room
      BY <1>2, <2>4, <3>1
    <3> QED
      BY <3>3, <3>4
  <2>6. FirstOf(x, room) = FirstOf(w, room)
    BY <1>2, <2>5, FirstSame
  <2> QED
    BY <2>5, <2>6 DEF w, x
<1> QED
  BY <1>4, <1>5, <1>6 DEF Starts

LEMMA ScanTurnMeans ==
    ASSUME NEW Sym, NEW s \in Seq(Sym), NEW room \in Nat, NEW i \in Nat, i + 1 <= Len(s),
           NEW st \in ScanStates(Sym, room), ScanMeans(s, room, st, i)
    PROVE  ScanMeans(s, room, ScanChar(st, s[i + 1]), i + 1)
<1> DEFINE ch == s[i + 1]
           new == ScanChar(st, ch)
           q == Count(s, Quote, 1, i)
<1>1. /\ st.args \in Seq(Words1(Sym)) /\ Len(st.args) <= room /\ st.room = room /\ st.arg \in Seq(Sym)
      /\ st.quoted \in BOOLEAN /\ st.over \in BOOLEAN
      /\ st = [args |-> st.args, room |-> st.room, arg |-> st.arg, quoted |-> st.quoted, over |-> st.over]
      /\ Len(st.args) \in Nat
  BY LenProperties DEF ScanStates, ArgLists
<1>2. /\ q \in Nat
      /\ Count(s, Quote, 1, i + 1) = IF ch = Quote THEN q + 1 ELSE q
  BY CountStep
<1>3. ch \in Sym /\ i \in 0..Len(s)
  <2>1. Len(s) \in Nat
    BY LenProperties
  <2> QED
    BY <2>1, ElementOfSeq
<1>4. Separates(s, i + 1) <=> ch \in Spaces /\ q % 2 = 0
  <2>1. (i + 1) - 1 = i
    OBVIOUS
  <2> QED
    BY <2>1 DEF Separates
<1>5. CASE st.over
  <2>1. new = st
    BY <1>5 DEF ScanChar
  <2>2. Len(WordsTo(s, i)) > room /\ st.args = FirstOf(WordsTo(s, i), room)
    BY <1>5 DEF ScanMeans
  <2>3. /\ Len(WordsTo(s, i + 1)) > room
        /\ FirstOf(WordsTo(s, i + 1), room) = FirstOf(WordsTo(s, i), room)
    BY <2>2, WordsGrow
  <2> QED
    BY <1>5, <2>1, <2>2, <2>3 DEF ScanMeans
<1>6. CASE ~st.over /\ ch = Quote
  <2>1. new = [st EXCEPT !.quoted = ~@]
    BY <1>6 DEF ScanChar
  <2>2. /\ new.over = st.over /\ new.args = st.args /\ new.arg = st.arg
        /\ new.quoted = ~st.quoted
    BY <1>1, <2>1
  <2>3. ~Letter(s, i + 1) /\ ~Separates(s, i + 1)
    BY <1>4, <1>6 DEF Letter, Quote, Spaces, Blank, Tab
  <2>4. WordsTo(s, i + 1) = WordsTo(s, i) /\ (Ended(s, i + 1) <=> Ended(s, i))
    BY <2>3, NoLetter, EndedStep
  <2>5. Count(s, Quote, 1, i + 1) % 2 = 1 <=> ~(q % 2 = 1)
    <3> HIDE DEF q
    <3> QED
      BY <1>2, <1>6
  <2> HIDE DEF new, ch, q
  <2>6. (st.quoted <=> q % 2 = 1) /\ ~new.over
    BY <1>6, <2>2 DEF ScanMeans, q
  <2> QED
    BY <1>6, <2>2, <2>4, <2>5, <2>6 DEF ScanMeans, new, ch
<1>7. CASE ~st.over /\ ch # Quote /\ ch \in Spaces /\ ~st.quoted
  <2>1. new = EndWord(st)
    BY <1>7 DEF ScanChar
  <2>2. ~(q % 2 = 1) /\ q % 2 = 0
    <3>1. ~(q % 2 = 1)
      BY <1>7 DEF ScanMeans
    <3> QED
      BY <1>2, <3>1
  <2>3. Separates(s, i + 1) /\ ~Letter(s, i + 1)
    BY <1>4, <1>7, <2>2 DEF Letter
  <2>4. WordsTo(s, i + 1) = WordsTo(s, i) /\ Ended(s, i + 1)
    BY <2>3, NoLetter, EndedStep
  <2>5. Count(s, Quote, 1, i + 1) = q
    BY <1>2, <1>7
  <2> HIDE DEF q, ch
  <2>6. CASE st.arg = <<>>
    <3>1. new = st
      BY <2>1, <2>6 DEF EndWord
    <3> QED
      BY <1>7, <2>2, <2>4, <2>5, <2>6, <3>1 DEF ScanMeans, new, ch
  <2>7. CASE st.arg # <<>> /\ ArgvFull(st)
    <3>1. new.over /\ new.args = st.args
      BY <1>1, <1>7, <2>1, <2>7 DEF EndWord
    <3>2. st.arg \in Words1(Sym) /\ Len(st.args) = room
      BY <1>1, <2>7 DEF Words1, ArgvFull
    <3>3. WordsTo(s, i + 1) = Append(st.args, st.arg)
      BY <1>7, <2>4, <2>7 DEF ScanMeans
    <3>4. /\ Append(st.args, st.arg) \in Seq(Words1(Sym)) /\ Len(Append(st.args, st.arg)) = room + 1
          /\ \A k \in 1..room : Append(st.args, st.arg)[k] = st.args[k]
      BY <1>1, <3>2, AppendProperties
    <3>5. FirstOf(Append(st.args, st.arg), room) = FirstOf(st.args, room)
      <4>1. /\ Len(Append(st.args, st.arg)) >= room /\ Len(st.args) >= room
            /\ Alike(Append(st.args, st.arg), st.args, 1..room)
        BY <3>2, <3>4 DEF Alike
      <4> QED
        BY <1>1, <3>4, <4>1, FirstSame
    <3>6. FirstOf(st.args, room) = st.args
      BY <1>1, FirstWhole
    <3>7. /\ Len(WordsTo(s, i + 1)) > room
          /\ new.args = FirstOf(WordsTo(s, i + 1), room)
      <4>1. Len(WordsTo(s, i + 1)) = room + 1
        BY <3>3, <3>4
      <4>2. room + 1 > room
        OBVIOUS
      <4>3. FirstOf(WordsTo(s, i + 1), room) = st.args
        BY <3>3, <3>5, <3>6
      <4> QED
        BY <3>1, <4>1, <4>2, <4>3
    <3> QED
      BY <3>1, <3>7 DEF ScanMeans, new, ch
  <2>8. CASE st.arg # <<>> /\ ~ArgvFull(st)
    <3>1. new = [st EXCEPT !.args = Append(@, st.arg), !.arg = <<>>]
      BY <1>7, <2>1, <2>8 DEF EndWord
    <3>2. new.args = Append(st.args, st.arg) /\ new.arg = <<>> /\ ~new.over /\ ~new.quoted
      BY <1>1, <1>7, <3>1
    <3>3. WordsTo(s, i + 1) = Append(st.args, st.arg)
      BY <1>7, <2>4, <2>8 DEF ScanMeans
    <3> QED
      BY <2>2, <2>4, <2>5, <3>2, <3>3 DEF ScanMeans, new, ch, q
  <2> QED
    BY <2>6, <2>7, <2>8
<1>8. CASE ~st.over /\ ch # Quote /\ ~(ch \in Spaces /\ ~st.quoted)
  <2>1. new = [st EXCEPT !.arg = Append(@, ch)]
    BY <1>8 DEF ScanChar
  <2>2. /\ new.args = st.args /\ new.arg = Append(st.arg, ch) /\ new.over = st.over
        /\ new.quoted = st.quoted
    BY <1>1, <2>1
  <2>3. st.quoted <=> q % 2 = 1
    BY <1>8 DEF ScanMeans
  <2>4. ~Separates(s, i + 1) /\ Letter(s, i + 1) /\ Count(s, Quote, 1, i + 1) = q
    <3>1. ~Separates(s, i + 1)
      <4> HIDE DEF q, ch
      <4> QED
        BY <1>2, <1>4, <1>8, <2>3
    <3> QED
      BY <1>2, <1>8, <3>1 DEF Letter
  <2>5. ~Ended(s, i + 1) /\ (Starts(s, i + 1) <=> Ended(s, i))
    <3>1. (i + 1) - 1 = i
      OBVIOUS
    <3> QED
      BY <2>4, <3>1, EndedStep DEF Starts
  <2>6. new.arg # <<>> /\ new.arg \in Seq(Sym)
    BY <1>1, <1>3, <2>2, AppendProperties
  <2>7. WordsTo(s, i + 1) = Append(new.args, new.arg)
    <3>1. CASE st.arg = <<>>
      <4>1. WordsTo(s, i) = st.args /\ Starts(s, i + 1)
        BY <1>8, <2>5, <3>1 DEF ScanMeans
      <4>2. WordsTo(s, i + 1) = Append(st.args, <<ch>>)
        BY <4>1, NewWord
      <4>3. Append(st.arg, ch) = <<ch>>
        BY <3>1
      <4> QED
        BY <2>2, <4>2, <4>3
    <3>2. CASE st.arg # <<>>
      <4>1. WordsTo(s, i) = Append(st.args, st.arg) /\ ~Starts(s, i + 1)
        BY <1>8, <2>5, <3>2 DEF ScanMeans
      <4>2. st.arg \in Words1(Sym)
        BY <1>1, <3>2 DEF Words1
      <4> DEFINE n == Len(st.args)
                 w == Append(st.args, st.arg)
                 x == Append(st.args, Append(st.arg, ch))
      <4>3. /\ w \in Seq(Seq(Sym)) /\ Len(w) = n + 1
            /\ \A k \in 1..n : w[k] = st.args[k]
            /\ w[n + 1] = st.arg
        <5>1. st.args \in Seq(Seq(Sym))
          <6>1. Words1(Sym) \subseteq Seq(Sym)
            BY DEF Words1
          <6> QED
            BY <1>1, <6>1, SeqMonotonic
        <5> QED
          BY <1>1, <5>1, AppendProperties
      <4>4. Started(s, i) = n + 1 /\ Started(s, i) # 0
        <5>1. Started(s, i) = Len(w)
          BY <1>3, <4>1, WordsToType
        <5> HIDE DEF w
        <5> QED
          BY <1>1, <4>3, <5>1
      <4>5. WordsTo(s, i + 1) = [w EXCEPT ![n + 1] = Append(@, ch)]
        BY <2>4, <4>1, <4>4, LongerWord
      <4>6. /\ x \in Seq(Seq(Sym)) /\ Len(x) = n + 1
            /\ \A k \in 1..n : x[k] = st.args[k]
            /\ x[n + 1] = Append(st.arg, ch)
        <5>1. st.args \in Seq(Seq(Sym))
          <6>1. Words1(Sym) \subseteq Seq(Sym)
            BY DEF Words1
          <6> QED
            BY <1>1, <6>1, SeqMonotonic
        <5>2. Append(st.arg, ch) \in Seq(Sym)
          BY <2>2, <2>6
        <5> QED
          BY <1>1, <5>1, <5>2, AppendProperties
      <4> HIDE DEF w, x
      <4> DEFINE y == [w EXCEPT ![n + 1] = Append(st.arg, ch)]
      <4>7. y \in Seq(Seq(Sym)) /\ Len(y) = n + 1
            /\ \A k \in 1..n + 1 : y[k] = IF k = n + 1 THEN Append(st.arg, ch) ELSE w[k]
        <5>1. Append(st.arg, ch) \in Seq(Sym) /\ n + 1 \in 1..Len(w)
          BY <1>1, <2>2, <2>6, <4>3
        <5> QED
          BY <4>3, <5>1, ExceptSeq
      <4>8. WordsTo(s, i + 1) = y
        BY <4>3, <4>5
      <4> HIDE DEF y
      <4>9. \A k \in 1..n + 1 : y[k] = x[k]
        <5>1. \A k \in 1..n + 1 : k = n + 1 \/ k \in 1..n
          BY <1>1
        <5>2. \A k \in 1..n : k # n + 1 /\ k \in 1..n + 1
          BY <1>1
        <5> HIDE DEF n
        <5> QED
          BY <4>3, <4>6, <4>7, <5>1, <5>2
      <4>10. y = x
        BY <4>6, <4>7, <4>9, SeqEqual
      <4> QED
        BY <2>2, <4>8, <4>10 DEF x
    <3> QED
      BY <3>1, <3>2
  <2> HIDE DEF new, q
  <2> QED
    BY <1>8, <2>2, <2>3, <2>4, <2>5, <2>6, <2>7 DEF ScanMeans, new
<1> QED
  BY <1>5, <1>6, <1>7, <1>8

LEMMA ScanLoopMeans ==
    ASSUME NEW Sym, NEW s \in Seq(Sym), NEW room \in Nat, NEW g,
           Loop(g, ScanStates(Sym, room), ScanTurn(Sym, room), ScanFrom(room), s, Len(s))
    PROVE  \A i \in 0..Len(s) : g[i] \in ScanStates(Sym, room) /\ ScanMeans(s, room, g[i], i)
<1> DEFINE n == Len(s)
           D == {i \in 0..n : ScanMeans(s, room, g[i], i)}
<1>1. n \in Nat
  BY LenProperties
<1>2. /\ \A i \in 0..n : g[i] \in ScanStates(Sym, room)
      /\ g[0] = ScanFrom(room)
      /\ \A i \in 1..n : g[i] = ScanTurn(Sym, room)[<<g[i - 1], s[i]>>]
  BY DEF Loop
<1>3. 0 \in D
  <2>1. WordsTo(s, 0) = <<>> /\ Ended(s, 0) /\ Count(s, Quote, 1, 0) = 0
    BY WordsToAll, EndedStep, CountStep
  <2>2. ScanMeans(s, room, ScanFrom(room), 0)
    BY <2>1 DEF ScanMeans, ScanFrom
  <2> QED
    BY <1>1, <1>2, <2>2
<1>4. ASSUME NEW i \in 1..n, i - 1 \in D PROVE i \in D
  <2>1. i - 1 \in Nat /\ (i - 1) + 1 = i /\ (i - 1) + 1 <= Len(s) /\ i - 1 \in 0..n /\ i \in 0..n
    BY <1>1
  <2>2. s[i] \in Sym
    BY ElementOfSeq
  <2>3. g[i - 1] \in ScanStates(Sym, room) /\ ScanMeans(s, room, g[i - 1], i - 1)
    BY <1>2, <1>4, <2>1
  <2>4. ScanMeans(s, room, ScanChar(g[i - 1], s[(i - 1) + 1]), (i - 1) + 1)
    BY <2>1, <2>3, ScanTurnMeans
  <2>5. g[i] = ScanChar(g[i - 1], s[i])
    BY <1>2, <2>2, <2>3 DEF ScanTurn
  <2> QED
    BY <2>1, <2>4, <2>5
<1>5. 0..n \subseteq D
  <2> HIDE DEF D, n
  <2> QED
    BY <1>1, <1>3, <1>4, UpToInduction
<1> QED
  BY <1>2, <1>5

\* The last word ends with the line.
LEMMA EndMeans ==
    ASSUME NEW Sym, NEW s \in Seq(Sym), NEW room \in Nat, NEW i \in 0..Len(s),
           NEW st \in ScanStates(Sym, room), ScanMeans(s, room, st, i)
    PROVE  /\ EndWord(st).args = FirstOf(WordsTo(s, i), room)
           /\ EndWord(st).over <=> Len(WordsTo(s, i)) > room
<1>1. /\ st.args \in Seq(Words1(Sym)) /\ Len(st.args) <= room /\ st.room = room /\ st.arg \in Seq(Sym)
      /\ st.quoted \in BOOLEAN /\ st.over \in BOOLEAN
      /\ st = [args |-> st.args, room |-> st.room, arg |-> st.arg, quoted |-> st.quoted, over |-> st.over]
      /\ Len(st.args) \in Nat
  BY LenProperties DEF ScanStates, ArgLists
<1>2. CASE st.over
  BY <1>2 DEF EndWord, ScanMeans
<1>3. CASE ~st.over /\ st.arg = <<>>
  <2>1. WordsTo(s, i) = st.args /\ EndWord(st) = st
    BY <1>3 DEF EndWord, ScanMeans
  <2>2. FirstOf(st.args, room) = st.args
    BY <1>1, FirstWhole
  <2>3. ~(Len(st.args) > room)
    BY <1>1
  <2> QED
    BY <1>3, <2>1, <2>2, <2>3
<1>4. CASE ~st.over /\ st.arg # <<>>
  <2> DEFINE w == Append(st.args, st.arg)
  <2>1. st.arg \in Words1(Sym) /\ WordsTo(s, i) = w
    BY <1>1, <1>4 DEF Words1, ScanMeans
  <2>2. /\ w \in Seq(Words1(Sym)) /\ Len(w) = Len(st.args) + 1
        /\ \A k \in 1..Len(st.args) : w[k] = st.args[k]
    BY <1>1, <2>1, AppendProperties
  <2>3. CASE ArgvFull(st)
    <3>1. EndWord(st).over /\ EndWord(st).args = st.args
      BY <1>1, <1>4, <2>3 DEF EndWord
    <3>2. Len(st.args) = room
      BY <1>1, <2>3 DEF ArgvFull
    <3> HIDE DEF w
    <3>3. Len(w) > room /\ Len(w) >= room /\ Len(st.args) >= room /\ Alike(w, st.args, 1..room)
      BY <2>2, <3>2 DEF Alike
    <3>4. FirstOf(w, room) = FirstOf(st.args, room)
      BY <1>1, <2>2, <3>3, FirstSame
    <3>5. FirstOf(st.args, room) = st.args
      BY <1>1, FirstWhole
    <3> QED
      BY <2>1, <3>1, <3>3, <3>4, <3>5
  <2>4. CASE ~ArgvFull(st)
    <3>1. EndWord(st) = [st EXCEPT !.args = w, !.arg = <<>>]
      BY <1>4, <2>4 DEF EndWord
    <3>2. EndWord(st).args = w /\ ~EndWord(st).over
      BY <1>1, <1>4, <3>1
    <3> HIDE DEF w
    <3>3. Len(w) <= room /\ ~(Len(w) > room)
      BY <1>1, <2>2, <2>4 DEF ArgvFull
    <3>4. FirstOf(w, room) = w
      BY <2>2, <3>3, FirstWhole
    <3> QED
      BY <2>1, <3>2, <3>3, <3>4
  <2> QED
    BY <2>3, <2>4
<1> QED
  BY <1>2, <1>3, <1>4

\* The loop over the characters of a command finds its words, the first of
\* them if there are too many.
THEOREM ScanFinds ==
    ASSUME NEW Sym, NEW s \in Seq(Sym), NEW room \in Nat
    PROVE  /\ Scan(s, room).args = FirstOf(Words(s), room)
           /\ Scan(s, room).over <=> Len(Words(s)) > room
<1> DEFINE n == Len(s)
<1>1. PICK g : /\ Loop(g, ScanStates(Sym, room), ScanTurn(Sym, room), ScanFrom(room), s, n)
               /\ FoldLeft(ScanChar, ScanFrom(room), s) = g[n]
  BY ScanIsLoop
<1>2. n \in 0..n
  BY LenProperties
<1>3. g[n] \in ScanStates(Sym, room) /\ ScanMeans(s, room, g[n], n)
  BY <1>1, <1>2, ScanLoopMeans
<1>4. Scan(s, room) = EndWord(g[n])
  BY <1>1 DEF Scan, ScanFrom
<1> QED
  BY <1>2, <1>3, <1>4, EndMeans, WordsToAll

-----------------------------------------------------------------------------
(***************************************************************************)
(* What trim takes away makes no difference to the scan: spaces in front,  *)
(* and spaces behind if they are in no quotes.                             *)
(***************************************************************************)
Scanned(s, room) == FoldLeft(ScanChar, ScanFrom(room), s)

LEMMA ScanSkips ==
    ASSUME NEW Sym, NEW s \in Seq(Sym), NEW room \in Nat, NEW n \in 0..Len(s), Blanks(s, 1, n)
    PROVE  Scanned(SubSeq(s, n + 1, Len(s)), room) = Scanned(s, room)
<1> DEFINE t == SubSeq(s, n + 1, Len(s))
           T == ScanStates(Sym, room)
           F == ScanTurn(Sym, room)
           base == ScanFrom(room)
<1>1. /\ t \in Seq(Sym) /\ Len(t) = Len(s) - n
      /\ \A i \in 1..Len(s) - n : t[i] = s[n + i]
  BY RestType
<1>2. Len(s) \in Nat /\ Len(t) \in Nat /\ n \in Nat
  BY <1>1, LenProperties
<1> HIDE DEF t
<1>3. PICK g : Loop(g, T, F, base, s, Len(s)) /\ Scanned(s, room) = g[Len(s)]
  BY ScanIsLoop DEF Scanned
<1>4. PICK f : Loop(f, T, F, base, t, Len(t)) /\ Scanned(t, room) = f[Len(t)]
  BY <1>1, ScanIsLoop DEF Scanned
<1>5. base \in T /\ \A sp \in Spaces : ScanChar(base, sp) = base
  <2>1. \A sp \in Spaces : ScanChar(base, sp) = base
    BY DEF ScanFrom, ScanChar, EndWord, Spaces, Blank, Tab, Quote
  <2> QED
    BY <2>1, ScanIsFold
<1>6. \A a \in T, b \in Sym : F[<<a, b>>] = ScanChar(a, b)
  BY DEF ScanTurn
<1> HIDE DEF T, F, base
<1>7. \A i \in 0..n : g[i] = base
  <2> DEFINE D == {i \in 0..n : g[i] = base}
  <2>1. 0 \in D
    BY <1>2, <1>3 DEF Loop
  <2>2. ASSUME NEW i \in 1..n, i - 1 \in D PROVE i \in D
    <3>1. i \in 1..Len(s) /\ i \in 0..n
      BY <1>2
    <3>2. g[i] = F[<<g[i - 1], s[i]>>]
      BY <1>3, <3>1 DEF Loop
    <3>3. s[i] \in Spaces /\ s[i] \in Sym
      BY <3>1, ElementOfSeq DEF Blanks
    <3>4. g[i] = base
      BY <1>5, <1>6, <2>2, <3>2, <3>3
    <3> QED
      BY <3>1, <3>4
  <2>3. 0..n \subseteq D
    <3> HIDE DEF D
    <3> QED
      BY <1>2, <2>1, <2>2, UpToInduction
  <2> QED
    BY <2>3
<1>8. \A i \in 0..Len(t) : f[i] = g[n + i]
  <2> DEFINE D == {i \in 0..Len(t) : f[i] = g[n + i]}
  <2>1. 0 \in D
    <3>1. f[0] = base /\ n + 0 = n /\ 0 \in 0..Len(t) /\ n \in 0..n
      BY <1>2, <1>4 DEF Loop
    <3> QED
      BY <1>7, <3>1
  <2>2. ASSUME NEW i \in 1..Len(t), i - 1 \in D PROVE i \in D
    <3>1. i \in 0..Len(t) /\ n + i \in 1..Len(s) /\ (n + i) - 1 = n + (i - 1) /\ i \in 1..Len(s) - n
      BY <1>1, <1>2
    <3>2. f[i] = F[<<f[i - 1], t[i]>>]
      BY <1>4 DEF Loop
    <3>3. g[n + i] = F[<<g[n + (i - 1)], s[n + i]>>]
      BY <1>3, <3>1 DEF Loop
    <3>4. t[i] = s[n + i]
      BY <1>1, <3>1
    <3> QED
      BY <2>2, <3>1, <3>2, <3>3, <3>4
  <2>3. 0..Len(t) \subseteq D
    <3> HIDE DEF D
    <3> QED
      BY <1>2, <2>1, <2>2, UpToInduction
  <2> QED
    BY <2>3
<1>9. Len(t) \in 0..Len(t) /\ n + Len(t) = Len(s)
  BY <1>1, <1>2
<1> QED
  BY <1>3, <1>4, <1>8, <1>9 DEF t

LEMMA EndWordTwice ==
    ASSUME NEW Sym, NEW room \in Nat, NEW st \in ScanStates(Sym, room), NEW sp \in Spaces
    PROVE  /\ st.over => ScanChar(st, sp) = st
           /\ ~st.over /\ ~st.quoted =>
                /\ ScanChar(st, sp) = EndWord(st) /\ EndWord(EndWord(st)) = EndWord(st)
                /\ ~EndWord(st).quoted
           /\ ~st.over /\ st.quoted =>
                ~ScanChar(st, sp).over /\ ScanChar(st, sp).quoted
<1>1. /\ st.quoted \in BOOLEAN /\ st.over \in BOOLEAN
      /\ st = [args |-> st.args, room |-> st.room, arg |-> st.arg, quoted |-> st.quoted, over |-> st.over]
  BY DEF ScanStates
<1>2. sp # Quote
  BY DEF Spaces, Blank, Tab, Quote
<1>3. st.over => ScanChar(st, sp) = st
  BY DEF ScanChar
<1>4. ASSUME ~st.over, ~st.quoted
      PROVE  /\ ScanChar(st, sp) = EndWord(st) /\ EndWord(EndWord(st)) = EndWord(st)
             /\ ~EndWord(st).quoted
  <2>1. ScanChar(st, sp) = EndWord(st)
    BY <1>2, <1>4 DEF ScanChar
  <2>2. CASE st.arg = <<>>
    <3>1. EndWord(st) = st
      BY <2>2 DEF EndWord
    <3> QED
      BY <1>4, <2>1, <3>1
  <2>3. CASE st.arg # <<>> /\ ArgvFull(st)
    <3>1. EndWord(st) = [st EXCEPT !.over = TRUE]
      BY <1>4, <2>3 DEF EndWord
    <3>2. EndWord(st).over /\ ~EndWord(st).quoted
      BY <1>1, <1>4, <3>1
    <3>3. EndWord(EndWord(st)) = EndWord(st)
      BY <3>2 DEF EndWord
    <3> QED
      BY <2>1, <3>2, <3>3
  <2>4. CASE st.arg # <<>> /\ ~ArgvFull(st)
    <3>1. EndWord(st) = [st EXCEPT !.args = Append(@, st.arg), !.arg = <<>>]
      BY <1>4, <2>4 DEF EndWord
    <3>2. EndWord(st).arg = <<>> /\ ~EndWord(st).quoted
      BY <1>1, <1>4, <3>1
    <3>3. EndWord(EndWord(st)) = EndWord(st)
      BY <3>2 DEF EndWord
    <3> QED
      BY <2>1, <3>2, <3>3
  <2> QED
    BY <2>2, <2>3, <2>4
<1>5. ASSUME ~st.over, st.quoted
      PROVE  ~ScanChar(st, sp).over /\ ScanChar(st, sp).quoted
  <2>1. ScanChar(st, sp) = [st EXCEPT !.arg = Append(@, sp)]
    BY <1>2, <1>5 DEF ScanChar
  <2> QED
    BY <1>1, <1>5, <2>1
<1> QED
  BY <1>3, <1>4, <1>5

\* The scan has not ended within quotes.
Unquoted(s, room) == Scanned(s, room).over \/ ~Scanned(s, room).quoted

LEMMA ScanStops ==
    ASSUME NEW Sym, NEW s \in Seq(Sym), NEW room \in Nat, NEW m \in 0..Len(s),
           Blanks(s, m + 1, Len(s)), Unquoted(s, room)
    PROVE  EndWord(Scanned(SubSeq(s, 1, m), room)) = EndWord(Scanned(s, room))
<1> DEFINE t == SubSeq(s, 1, m)
           T == ScanStates(Sym, room)
           F == ScanTurn(Sym, room)
           base == ScanFrom(room)
           n == Len(s)
<1>1. t \in Seq(Sym) /\ Len(t) = m /\ \A i \in 1..m : t[i] = s[i]
  BY FrontType
<1>2. n \in Nat /\ m \in Nat /\ n - m \in Nat
  BY LenProperties
<1> HIDE DEF t
<1>3. PICK g : Loop(g, T, F, base, s, n) /\ Scanned(s, room) = g[n]
  BY ScanIsLoop DEF Scanned
<1>4. PICK f : Loop(f, T, F, base, t, m) /\ Scanned(t, room) = f[m]
  BY <1>1, ScanIsLoop DEF Scanned
<1>5. \A i \in 0..n : g[i] \in T
  BY <1>3 DEF Loop
<1>6. \A a \in T, b \in Sym : F[<<a, b>>] = ScanChar(a, b)
  BY DEF ScanTurn
<1> HIDE DEF F, base, n
<1>7. f[m] = g[m]
  <2> DEFINE D == {i \in 0..m : f[i] = g[i]}
  <2>1. 0 \in D
    BY <1>2, <1>3, <1>4 DEF Loop
  <2>2. ASSUME NEW i \in 1..m, i - 1 \in D PROVE i \in D
    <3>1. i \in 0..m /\ i \in 1..n
      BY <1>2
    <3>2. f[i] = F[<<f[i - 1], t[i]>>] /\ g[i] = F[<<g[i - 1], s[i]>>]
      BY <1>3, <1>4, <3>1 DEF Loop
    <3> QED
      BY <1>1, <2>2, <3>1, <3>2
  <2>3. 0..m \subseteq D
    <3> HIDE DEF D
    <3> QED
      BY <1>2, <2>1, <2>2, UpToInduction
  <2> QED
    BY <1>2, <2>3
<1>8. ASSUME NEW i \in 1..n - m
      PROVE  /\ m + (i - 1) \in 0..n /\ m + i \in 0..n
             /\ s[m + i] \in Spaces /\ g[m + i] = ScanChar(g[m + (i - 1)], s[m + i])
  <2>1. m + i \in 1..n /\ (m + i) - 1 = m + (i - 1) /\ m + (i - 1) \in 0..n /\ m + i \in 0..n
        /\ m + i \in m + 1..n
    BY <1>2
  <2>2. s[m + i] \in Spaces /\ s[m + i] \in Sym
    BY <2>1, ElementOfSeq DEF Blanks, n
  <2>3. g[m + i] = F[<<g[m + (i - 1)], s[m + i]>>]
    BY <1>3, <2>1 DEF Loop
  <2>4. F[<<g[m + (i - 1)], s[m + i]>>] = ScanChar(g[m + (i - 1)], s[m + i])
    BY <1>5, <1>6, <2>1, <2>2
  <2> QED
    BY <2>1, <2>2, <2>3, <2>4
<1>9. n - m \in 0..n - m /\ m + (n - m) = n /\ m + 0 = m /\ 0 \in 0..n - m /\ m \in 0..n
      /\ \A i \in 1..n - m : i \in 0..n - m
  BY <1>2
<1>10. CASE g[m].over \/ ~g[m].quoted
  <2> DEFINE D == {i \in 0..n - m : /\ g[m + i].over \/ ~g[m + i].quoted
                                   /\ EndWord(g[m + i]) = EndWord(g[m])}
  <2>1. 0 \in D
    BY <1>9, <1>10
  <2>2. ASSUME NEW i \in 1..n - m, i - 1 \in D PROVE i \in D
    <3> DEFINE a == g[m + (i - 1)]
               sp == s[m + i]
    <3>1. a \in T /\ sp \in Spaces /\ g[m + i] = ScanChar(a, sp) /\ i \in 0..n - m
      BY <1>5, <1>8, <1>9
    <3>2. (a.over \/ ~a.quoted) /\ EndWord(a) = EndWord(g[m])
      BY <2>2
    <3> HIDE DEF a, sp
    <3>3. CASE a.over
      <4>1. g[m + i] = a
        BY <3>1, <3>3, EndWordTwice
      <4> QED
        BY <3>1, <3>2, <3>3, <4>1
    <3>4. CASE ~a.over
      <4>1. /\ ScanChar(a, sp) = EndWord(a) /\ EndWord(EndWord(a)) = EndWord(a)
            /\ ~EndWord(a).quoted
        BY <3>1, <3>2, <3>4, EndWordTwice
      <4> QED
        BY <3>1, <3>2, <4>1
    <3> QED
      BY <3>3, <3>4
  <2>3. 0..n - m \subseteq D
    <3> HIDE DEF D
    <3> QED
      BY <1>2, <2>1, <2>2, UpToInduction
  <2>4. EndWord(g[m + (n - m)]) = EndWord(g[m])
    BY <1>9, <2>3
  <2> QED
    BY <1>3, <1>4, <1>7, <1>9, <2>4 DEF t
<1>11. CASE ~g[m].over /\ g[m].quoted
  <2> DEFINE D == {i \in 0..n - m : ~g[m + i].over /\ g[m + i].quoted}
  <2>1. 0 \in D
    BY <1>9, <1>11
  <2>2. ASSUME NEW i \in 1..n - m, i - 1 \in D PROVE i \in D
    <3> DEFINE a == g[m + (i - 1)]
               sp == s[m + i]
    <3>1. a \in T /\ sp \in Spaces /\ g[m + i] = ScanChar(a, sp) /\ i \in 0..n - m
      BY <1>5, <1>8, <1>9
    <3>2. ~a.over /\ a.quoted
      BY <2>2
    <3> HIDE DEF a, sp
    <3>3. ~ScanChar(a, sp).over /\ ScanChar(a, sp).quoted
      BY <3>1, <3>2, EndWordTwice
    <3> QED
      BY <3>1, <3>3
  <2>3. 0..n - m \subseteq D
    <3> HIDE DEF D
    <3> QED
      BY <1>2, <2>1, <2>2, UpToInduction
  <2>4. ~g[m + (n - m)].over /\ g[m + (n - m)].quoted
    BY <1>9, <2>3
  <2> QED
    BY <1>3, <1>9, <2>4 DEF Unquoted
<1> QED
  BY <1>10, <1>11

\* Trimming a reversed sequence takes the blanks behind it.
LEMMA TrimRightIs ==
    ASSUME NEW Sym, NEW s \in Seq(Sym)
    PROVE  \E m \in 0..Len(s) : /\ Blanks(s, m + 1, Len(s))
                               /\ Reverse(TrimLeft(Reverse(s), Spaces)) = SubSeq(s, 1, m)
<1> DEFINE r == Reverse(s)
           L == Len(s)
<1>1. L \in Nat
  BY LenProperties
<1>2. r \in Seq(Sym) /\ Len(r) = L /\ \A i \in 1..L : r[i] = s[(L - i) + 1]
  <2>1. r = [i \in 1..L |-> s[(L - i) + 1]]
    BY DEF Reverse
  <2>2. r \in Seq(Sym)
    BY ReverseType
  <2> HIDE DEF r
  <2> QED
    BY <1>1, <2>1, <2>2
<1> HIDE DEF r
<1>3. PICK n \in 0..Len(r) : Blanks(r, 1, n) /\ TrimLeft(r, Spaces) = SubSeq(r, n + 1, Len(r))
  BY <1>2, TrimLeftIs DEF Blanks
<1> DEFINE v == SubSeq(r, n + 1, Len(r))
           m == L - n
<1>4. /\ v \in Seq(Sym) /\ Len(v) = m /\ \A i \in 1..m : v[i] = r[n + i]
  BY <1>2, RestType
<1>5. m \in 0..L /\ n \in 0..L
  BY <1>1, <1>2
<1> HIDE DEF v
<1>6. /\ Reverse(v) \in Seq(Sym) /\ Len(Reverse(v)) = m
      /\ \A i \in 1..m : Reverse(v)[i] = v[(m - i) + 1]
  <2>1. Reverse(v) = [i \in 1..m |-> v[(m - i) + 1]]
    BY <1>4 DEF Reverse
  <2>2. Reverse(v) \in Seq(Sym)
    BY <1>4, ReverseType
  <2> HIDE DEF m
  <2> QED
    BY <1>5, <2>1, <2>2
<1>7. /\ SubSeq(s, 1, m) \in Seq(Sym) /\ Len(SubSeq(s, 1, m)) = m
      /\ \A i \in 1..m : SubSeq(s, 1, m)[i] = s[i]
  BY <1>5, FrontType
<1>8. ASSUME NEW i \in 1..m PROVE Reverse(v)[i] = SubSeq(s, 1, m)[i]
  <2>1. /\ (m - i) + 1 \in 1..m /\ n + ((m - i) + 1) \in 1..L
        /\ (L - (n + ((m - i) + 1))) + 1 = i
    BY <1>1, <1>5
  <2>2. v[(m - i) + 1] = r[n + ((m - i) + 1)]
    BY <1>4, <2>1
  <2>3. r[n + ((m - i) + 1)] = s[i]
    BY <1>2, <2>1
  <2> QED
    BY <1>6, <1>7, <2>2, <2>3
<1>9. Reverse(v) = SubSeq(s, 1, m)
  <2> HIDE DEF m
  <2> QED
    BY <1>6, <1>7, <1>8, SeqEqual
<1>10. ASSUME NEW i \in m + 1..L PROVE s[i] \in Spaces
  <2>1. /\ (L - i) + 1 \in 1..n /\ (L - i) + 1 \in 1..L
        /\ (L - ((L - i) + 1)) + 1 = i
    BY <1>1, <1>5
  <2>2. r[(L - i) + 1] \in Spaces
    BY <1>3, <2>1 DEF Blanks
  <2>3. r[(L - i) + 1] = s[i]
    BY <1>2, <2>1
  <2> QED
    BY <2>2, <2>3
<1>11. Blanks(s, m + 1, L)
  <2> HIDE DEF m, L
  <2> QED
    BY <1>10 DEF Blanks
<1> QED
  BY <1>3, <1>5, <1>9, <1>11 DEF v, r

\* A scan of a line whose quotes close does not end within quotes.
LEMMA ClosedEndsUnquoted ==
    ASSUME NEW Sym, NEW s \in Seq(Sym), NEW room \in Nat, Closed(s)
    PROVE  Unquoted(s, room)
<1>1. PICK g : /\ Loop(g, ScanStates(Sym, room), ScanTurn(Sym, room), ScanFrom(room), s, Len(s))
               /\ Scanned(s, room) = g[Len(s)]
  BY ScanIsLoop DEF Scanned
<1>2. Len(s) \in 0..Len(s)
  BY LenProperties
<1>3. g[Len(s)] \in ScanStates(Sym, room) /\ ScanMeans(s, room, g[Len(s)], Len(s))
  BY <1>1, <1>2, ScanLoopMeans
<1>4. ~(Count(s, Quote, 1, Len(s)) % 2 = 1)
  <2>1. Count(s, Quote, 1, Len(s)) % 2 = 0
    BY DEF Closed
  <2> QED
    BY ONLY <2>1
<1>5. g[Len(s)].over \/ ~g[Len(s)].quoted
  BY ONLY <1>3, <1>4, Zenon DEF ScanMeans
<1>6. Scanned(s, room) = g[Len(s)]
  BY <1>1
<1> QED
  BY ONLY <1>5, <1>6 DEF Unquoted

LEMMA ScanTrimmed ==
    ASSUME NEW Sym, NEW s \in Seq(Sym), NEW room \in Nat, Closed(s)
    PROVE  Scan(Trim(s), room) = Scan(s, room)
<1> DEFINE u == TrimLeft(s, Spaces)
<1>1. u \in Seq(Sym) /\ Scanned(u, room) = Scanned(s, room)
  <2>1. PICK n \in 0..Len(s) : Blanks(s, 1, n) /\ u = SubSeq(s, n + 1, Len(s))
    BY TrimLeftIs DEF Blanks
  <2>2. Scanned(SubSeq(s, n + 1, Len(s)), room) = Scanned(s, room)
    BY <2>1, ScanSkips
  <2>3. u \in Seq(Sym)
    BY TrimLeftType
  <2> QED
    BY <2>1, <2>2, <2>3
<1>2. Unquoted(u, room)
  BY <1>1, ClosedEndsUnquoted DEF Unquoted
<1> HIDE DEF u
<1>3. PICK m \in 0..Len(u) : /\ Blanks(u, m + 1, Len(u))
                             /\ Reverse(TrimLeft(Reverse(u), Spaces)) = SubSeq(u, 1, m)
  BY <1>1, TrimRightIs
<1>4. EndWord(Scanned(SubSeq(u, 1, m), room)) = EndWord(Scanned(u, room))
  BY <1>1, <1>2, <1>3, ScanStops
<1>5. Trim(s) = SubSeq(u, 1, m)
  BY <1>3 DEF Trim, u
<1>6. \A x : Scan(x, room) = EndWord(Scanned(x, room))
  BY DEF Scan, Scanned, ScanFrom
<1> QED
  BY <1>1, <1>4, <1>5, <1>6

\* Whatever blanks there are around it, a command whose quotes close is taken
\* apart into its words, the first of them if there are too many.
LEMMA ParseInputFinds ==
    ASSUME NEW Sym, NEW part \in Seq(Sym), Closed(part)
    PROVE  parse_input(Trim(part)) = FirstOf(Words(part), CMD_ARGV_MAX - 1)
<1>1. CMD_ARGV_MAX - 1 \in Nat
  BY CmdLineAssumption
<1>2. Scan(Trim(part), CMD_ARGV_MAX - 1) = Scan(part, CMD_ARGV_MAX - 1)
  BY <1>1, ScanTrimmed
<1> QED
  BY <1>1, <1>2, ScanFinds DEF parse_input

-----------------------------------------------------------------------------
(***************************************************************************)
(* strtok at the pipes leaves what stands between them.                    *)
(***************************************************************************)
PartAt(line, i, k) == {j \in 1..i : line[j] # Pipe /\ Count(line, Pipe, 1, j) = k}
PartsTo(line, i) == [k \in 1..Count(line, Pipe, 1, i) + 1 |-> Pick(line, PartAt(line, i, k - 1))]

LEMMA PartsToType ==
    ASSUME NEW Sym, NEW line \in Seq(Sym), NEW i \in 0..Len(line)
    PROVE  /\ PartsTo(line, i) \in Seq(Seq(Sym))
           /\ Len(PartsTo(line, i)) = Count(line, Pipe, 1, i) + 1
<1>1. Count(line, Pipe, 1, i) \in Nat /\ i \in Nat /\ Len(line) \in Nat
  BY LenProperties, CountStep
<1>2. ASSUME NEW k \in 1..Count(line, Pipe, 1, i) + 1
      PROVE  Pick(line, PartAt(line, i, k - 1)) \in Seq(Sym)
  <2>1. PartAt(line, i, k - 1) \in SUBSET (1..i)
    BY DEF PartAt
  <2>2. Within(line, PartAt(line, i, k - 1), Sym)
    <3>1. \A p \in PartAt(line, i, k - 1) : p \in 1..Len(line)
      BY <1>1 DEF PartAt
    <3> QED
      BY <3>1, ElementOfSeq DEF Within
  <2> QED
    BY <1>1, <2>1, <2>2, PickType
<1> DEFINE c == Count(line, Pipe, 1, i)
           x == [k \in 1..c + 1 |-> Pick(line, PartAt(line, i, k - 1))]
<1>3. c \in Nat /\ \A k \in 1..c + 1 : Pick(line, PartAt(line, i, k - 1)) \in Seq(Sym)
  BY <1>1, <1>2
<1>4. PartsTo(line, i) = x
  BY DEF PartsTo
<1> HIDE DEF c
<1>5. x \in [1..c + 1 -> Seq(Sym)] /\ c + 1 \in Nat
  BY <1>3
<1> HIDE DEF x
<1>6. x \in Seq(Seq(Sym)) /\ Len(x) = c + 1
  BY <1>5
<1> QED
  BY <1>4, <1>6 DEF c

LEMMA PipesGrow ==
    ASSUME NEW line, NEW i \in Nat, NEW j \in 0..i
    PROVE  Count(line, Pipe, 1, j) <= Count(line, Pipe, 1, i)
<1> DEFINE C(n) == {m \in 1..n : line[m] = Pipe}
<1>1. C(i) \in SUBSET (1..i) /\ C(j) \in SUBSET C(i)
  OBVIOUS
<1> HIDE DEF C
<1>2. Cardinality(C(j)) <= Cardinality(C(i))
  BY <1>1, PositionsFinite, FS_Subset
<1> QED
  BY <1>2 DEF C, Count

LEMMA PipeSplits ==
    ASSUME NEW Sym, NEW line \in Seq(Sym), NEW i \in Nat, i + 1 <= Len(line), line[i + 1] = Pipe
    PROVE  PartsTo(line, i + 1) = Append(PartsTo(line, i), <<>>)
<1> DEFINE c == Count(line, Pipe, 1, i)
<1>1. c \in Nat /\ Count(line, Pipe, 1, i + 1) = c + 1
  BY CountStep
<1>2. i \in 0..Len(line) /\ i + 1 \in 0..Len(line)
  <2>1. Len(line) \in Nat
    BY LenProperties
  <2> QED
    BY <2>1
<1>3. /\ \A m \in 1..i + 1 : m # i + 1 => m \in 1..i
      /\ \A m \in 1..i : m \in 1..i + 1
  OBVIOUS
<1>4. ASSUME NEW k PROVE PartAt(line, i + 1, k) = PartAt(line, i, k)
  BY <1>3 DEF PartAt
<1>5. PartAt(line, i, c + 1) = {}
  <2>1. ASSUME NEW j \in 1..i, Count(line, Pipe, 1, j) = c + 1 PROVE FALSE
    <3>1. Count(line, Pipe, 1, j) <= c
      BY PipesGrow
    <3> QED
      BY <1>1, <2>1, <3>1
  <2> QED
    BY <2>1 DEF PartAt
<1> DEFINE x == PartsTo(line, i + 1)
           y == PartsTo(line, i)
           new == Append(y, <<>>)
<1>6. /\ x \in Seq(Seq(Sym)) /\ Len(x) = (c + 1) + 1
      /\ y \in Seq(Seq(Sym)) /\ Len(y) = c + 1
  BY <1>1, <1>2, PartsToType
<1>7. /\ x = [k \in 1..(c + 1) + 1 |-> Pick(line, PartAt(line, i, k - 1))]
      /\ y = [k \in 1..c + 1 |-> Pick(line, PartAt(line, i, k - 1))]
  BY <1>1, <1>4 DEF PartsTo
<1>8. <<>> \in Seq(Sym)
  BY EmptySeq
<1> HIDE DEF c, x, y
<1>9. /\ new \in Seq(Seq(Sym)) /\ Len(new) = (c + 1) + 1
      /\ \A k \in 1..c + 1 : new[k] = y[k]
      /\ new[(c + 1) + 1] = <<>>
  BY <1>6, <1>8, AppendProperties
<1> HIDE DEF new
<1>10. x[(c + 1) + 1] = <<>>
  <2>1. (c + 1) + 1 \in 1..(c + 1) + 1 /\ ((c + 1) + 1) - 1 = c + 1
    BY <1>1
  <2> QED
    BY <1>5, <1>7, <2>1, PickNone
<1>11. \A k \in 1..(c + 1) + 1 : x[k] = new[k]
  <2>1. \A k \in 1..(c + 1) + 1 : k = (c + 1) + 1 \/ k \in 1..c + 1
    BY <1>1
  <2>2. \A k \in 1..c + 1 : k \in 1..(c + 1) + 1
    BY <1>1
  <2>3. \A k \in 1..c + 1 : x[k] = y[k]
    BY <1>7, <2>2
  <2> QED
    BY <1>9, <1>10, <2>1, <2>3
<1>12. x = new
  BY <1>6, <1>9, <1>11, SeqEqual
<1> QED
  BY <1>12 DEF x, y, new

LEMMA SymbolJoins ==
    ASSUME NEW Sym, NEW line \in Seq(Sym), NEW i \in Nat, i + 1 <= Len(line), line[i + 1] # Pipe
    PROVE  LET y == PartsTo(line, i)
           IN  PartsTo(line, i + 1) = [y EXCEPT ![Len(y)] = Append(@, line[i + 1])]
<1> DEFINE c == Count(line, Pipe, 1, i)
<1>1. c \in Nat /\ Count(line, Pipe, 1, i + 1) = c /\ c + 1 \in 1..c + 1
  <2>1. c \in Nat /\ Count(line, Pipe, 1, i + 1) = c
    <3>1. Count(line, Pipe, 1, i + 1) = c
      BY ONLY i \in Nat, CountStep, line[i + 1] # Pipe
    <3>2. c \in Nat
      BY ONLY i \in Nat, CountStep
    <3> QED
      BY <3>1, <3>2
  <2> HIDE DEF c
  <2> QED
    BY <2>1
<1>2. i \in 0..Len(line) /\ i + 1 \in 0..Len(line) /\ i + 1 \in 1..Len(line)
  <2>1. Len(line) \in Nat
    BY LenProperties
  <2> QED
    BY <2>1
<1>3. /\ \A m \in 1..i + 1 : m # i + 1 => m \in 1..i
      /\ \A m \in 1..i : m \in 1..i + 1
      /\ i + 1 \in 1..i + 1
  OBVIOUS
<1>4. ASSUME NEW k, k # c PROVE PartAt(line, i + 1, k) = PartAt(line, i, k)
  BY <1>1, <1>3, <1>4 DEF PartAt
<1>5. PartAt(line, i + 1, c) = PartAt(line, i, c) \cup {i + 1}
  BY <1>1, <1>3 DEF PartAt
<1>6. Pick(line, PartAt(line, i + 1, c)) = Append(Pick(line, PartAt(line, i, c)), line[i + 1])
  <2>1. PartAt(line, i, c) \in SUBSET (1..i)
    BY DEF PartAt
  <2>2. \A p \in PartAt(line, i, c) \cup {i + 1} : p \in 1..Len(line)
    BY <1>2 DEF PartAt
  <2>3. Within(line, PartAt(line, i, c) \cup {i + 1}, Sym)
    BY <2>2, ElementOfSeq DEF Within
  <2>4. Pick(line, PartAt(line, i, c) \cup {i + 1}) = Append(Pick(line, PartAt(line, i, c)), line[i + 1])
    BY <2>1, <2>3, PickNew
  <2> QED
    BY <1>5, <2>4
<1> DEFINE x == PartsTo(line, i + 1)
           y == PartsTo(line, i)
<1>7. /\ x = [k \in 1..c + 1 |-> Pick(line, PartAt(line, i + 1, k - 1))]
      /\ y = [k \in 1..c + 1 |-> Pick(line, PartAt(line, i, k - 1))]
  BY <1>1 DEF PartsTo
<1>8. Len(y) = c + 1
  BY <1>2, PartsToType
<1> HIDE DEF c, x, y
<1>9. \A k \in 1..c + 1 : /\ k # c + 1 => k - 1 # c
                          /\ k = c + 1 => k - 1 = c
  BY <1>1
<1>10. y[c + 1] = Pick(line, PartAt(line, i, c))
  BY <1>1, <1>7, <1>9
<1>11. [y EXCEPT ![c + 1] = Append(@, line[i + 1])]
         = [k \in 1..c + 1 |-> IF k = c + 1 THEN Append(Pick(line, PartAt(line, i, c)), line[i + 1])
                               ELSE Pick(line, PartAt(line, i, k - 1))]
  BY <1>1, <1>7, <1>10
<1>12. \A k \in 1..c + 1 : Pick(line, PartAt(line, i + 1, k - 1))
                           = IF k = c + 1 THEN Append(Pick(line, PartAt(line, i, c)), line[i + 1])
                             ELSE Pick(line, PartAt(line, i, k - 1))
  BY <1>4, <1>6, <1>9
<1>13. x = [y EXCEPT ![c + 1] = Append(@, line[i + 1])]
  BY <1>7, <1>11, <1>12
<1> QED
  BY <1>8, <1>13 DEF x, y

LEMMA SplitLeavesParts ==
    ASSUME NEW Sym, NEW line \in Seq(Sym)
    PROVE  Split(line, Pipe) = [k \in 1..Pipes(line) + 1 |-> Part(line, k - 1)]
<1> DEFINE n == Len(line)
<1>1. n \in Nat /\ DOMAIN line = 1..n
  BY LenProperties
<1>2. PICK g : /\ Loop(g, Parts(Sym), SplitTurn(Sym, Pipe), << <<>> >>, line, n)
               /\ Split(line, Pipe) = g[n]
  BY SplitIsLoop
<1>3. /\ \A i \in 0..n : g[i] \in Parts(Sym)
      /\ g[0] = << <<>> >>
      /\ \A i \in 1..n : g[i] = SplitTurn(Sym, Pipe)[<<g[i - 1], line[i]>>]
  BY <1>2 DEF Loop
<1> DEFINE E == {i \in 0..n : g[i] = PartsTo(line, i)}
<1>4. 0 \in E
  <2>1. Count(line, Pipe, 1, 0) = 0 /\ PartAt(line, 0, 1 - 1) = {}
    BY CountStep DEF PartAt
  <2>2. PartsTo(line, 0) = [k \in 1..1 |-> Pick(line, PartAt(line, 0, k - 1))]
    BY <2>1 DEF PartsTo
  <2>3. \A k \in 1..1 : Pick(line, PartAt(line, 0, k - 1)) = <<>>
    <3>1. \A k \in 1..1 : k = 1
      OBVIOUS
    <3> QED
      BY <2>1, <3>1, PickNone
  <2>4. PartsTo(line, 0) = [k \in 1..1 |-> <<>>]
    BY <2>2, <2>3
  <2>5. [k \in 1..1 |-> <<>>] = << <<>> >>
    OBVIOUS
  <2> QED
    BY <1>1, <1>3, <2>4, <2>5
<1>5. ASSUME NEW i \in 1..n, i - 1 \in E PROVE i \in E
  <2>1. i - 1 \in Nat /\ (i - 1) + 1 = i /\ (i - 1) + 1 <= Len(line) /\ i - 1 \in 0..n /\ i \in 0..n
    BY <1>1
  <2>2. line[i] \in Sym
    BY ElementOfSeq
  <2>3. g[i] = SplitAt(PartsTo(line, i - 1), line[i], Pipe)
    <3>1. g[i - 1] \in Parts(Sym) /\ g[i - 1] = PartsTo(line, i - 1)
      BY <1>3, <1>5, <2>1
    <3> QED
      BY <1>3, <2>2, <3>1 DEF SplitTurn
  <2>4. PartsTo(line, (i - 1) + 1) = SplitAt(PartsTo(line, i - 1), line[(i - 1) + 1], Pipe)
    <3>1. CASE line[(i - 1) + 1] = Pipe
      BY <2>1, <3>1, PipeSplits DEF SplitAt
    <3>2. CASE line[(i - 1) + 1] # Pipe
      BY <2>1, <3>2, SymbolJoins DEF SplitAt
    <3> QED
      BY <3>1, <3>2
  <2> QED
    BY <2>1, <2>3, <2>4
<1>6. 0..n \subseteq E
  <2> HIDE DEF E, n
  <2> QED
    BY <1>1, <1>4, <1>5, UpToInduction
<1>7. Split(line, Pipe) = PartsTo(line, n)
  BY <1>1, <1>2, <1>6
<1> QED
  BY <1>1, <1>7 DEF PartsTo, PartAt, Part, Pipes

-----------------------------------------------------------------------------
\* Dropping the empty parts and cutting the others short are independent.
FirstOfEach(x, k) == [j \in DOMAIN x |-> FirstOf(x[j], k)]

LEMMA FirstOfEachType ==
    ASSUME NEW W, NEW x \in Seq(Seq(W)), NEW k \in Nat
    PROVE  /\ FirstOfEach(x, k) \in Seq(Seq(W)) /\ Len(FirstOfEach(x, k)) = Len(x)
           /\ \A j \in 1..Len(x) : FirstOfEach(x, k)[j] = FirstOf(x[j], k)
<1>1. DOMAIN x = 1..Len(x) /\ Len(x) \in Nat
  BY LenProperties
<1>2. \A j \in 1..Len(x) : FirstOf(x[j], k) \in Seq(W)
  BY ElementOfSeq, FirstType
<1> QED
  BY <1>1, <1>2 DEF FirstOfEach

LEMMA FirstOfNonEmpty ==
    ASSUME NEW W, NEW w \in Seq(W), NEW k \in Nat \ {0}
    PROVE  FirstOf(w, k) = <<>> <=> w = <<>>
<1>1. Len(w) \in Nat /\ k \in Nat
  BY LenProperties
<1>2. FirstOf(w, k) \in Seq(W) /\ Len(FirstOf(w, k)) = IF Len(w) < k THEN Len(w) ELSE k
  BY <1>1, FirstType
<1>3. w = <<>> => FirstOf(w, k) = <<>>
  <2>1. w = <<>> => Len(FirstOf(w, k)) = 0
    BY <1>1, <1>2, EmptySeq
  <2> QED
    BY <1>2, <2>1, EmptySeq
<1>4. w # <<>> => FirstOf(w, k) # <<>>
  <2>1. w # <<>> => Len(w) # 0
    BY EmptySeq
  <2>2. w # <<>> => Len(FirstOf(w, k)) # 0
    BY <1>1, <1>2, <2>1
  <2> QED
    BY <2>2, EmptySeq
<1> QED
  BY <1>3, <1>4

LEMMA NonEmptyOfFirst ==
    ASSUME NEW W, NEW x \in Seq(Seq(W)), NEW k \in Nat \ {0}
    PROVE  NonEmpty(FirstOfEach(x, k)) = FirstOfEach(NonEmpty(x), k)
<1> DEFINE y == FirstOfEach(x, k)
           n == Len(x)
           E == Seq(W)
           T == Seq(E \ {<<>>})
<1>1. /\ y \in Seq(E) /\ Len(y) = n /\ n \in Nat
      /\ \A j \in 1..n : y[j] = FirstOf(x[j], k)
  BY FirstOfEachType, LenProperties
<1> HIDE DEF y
<1>2. PICK g : Loop(g, T, KeepTurn(E), <<>>, x, n) /\ NonEmpty(x) = g[n]
  BY KeepIsLoop
<1>3. PICK f : Loop(f, T, KeepTurn(E), <<>>, y, n) /\ NonEmpty(y) = f[n]
  BY <1>1, KeepIsLoop
<1>4. \A a \in T, b \in E : KeepTurn(E)[<<a, b>>] = Keep(a, b)
  BY DEF KeepTurn
<1>5. \A a \in T : a \in Seq(E)
  BY SeqMonotonic
<1> DEFINE D == {i \in 0..n : f[i] = FirstOfEach(g[i], k)}
<1>6. 0 \in D
  <2>1. f[0] = <<>> /\ g[0] = <<>> /\ 0 \in 0..n
    BY <1>1, <1>2, <1>3 DEF Loop
  <2>2. <<>> \in Seq(Seq(W)) /\ Len(<<>>) = 0
    BY EmptySeq
  <2>3. FirstOfEach(<<>>, k) \in Seq(Seq(W)) /\ Len(FirstOfEach(<<>>, k)) = 0
    BY <2>2, FirstOfEachType
  <2>4. FirstOfEach(<<>>, k) = <<>>
    BY <2>3, EmptySeq
  <2> QED
    BY <2>1, <2>4
<1>7. ASSUME NEW i \in 1..n, i - 1 \in D PROVE i \in D
  <2> DEFINE a == g[i - 1]
  <2>1. i \in 0..n /\ i - 1 \in 0..n
    BY <1>1
  <2>2. a \in T /\ f[i - 1] \in T /\ x[i] \in E /\ y[i] \in E
    BY <1>1, <1>2, <1>3, <2>1, ElementOfSeq DEF Loop
  <2>3. g[i] = Keep(a, x[i]) /\ f[i] = Keep(f[i - 1], y[i])
    BY <1>2, <1>3, <1>4, <2>2 DEF Loop
  <2>4. f[i - 1] = FirstOfEach(a, k) /\ y[i] = FirstOf(x[i], k) /\ (y[i] = <<>> <=> x[i] = <<>>)
    BY <1>1, <1>7, <2>2, FirstOfNonEmpty
  <2>5. a \in Seq(Seq(W)) /\ x[i] \in Seq(W) /\ y[i] \in Seq(W) /\ f[i - 1] \in Seq(Seq(W))
    BY <1>5, <2>2
  <2> HIDE DEF a, T, E, D
  <2>6. CASE x[i] = <<>>
    <3>1. f[i] = FirstOfEach(g[i], k)
      BY <2>3, <2>4, <2>6 DEF Keep
    <3> QED
      BY <2>1, <3>1 DEF D
  <2>7. CASE x[i] # <<>>
    <3> DEFINE b == Append(a, x[i])
               c == Append(f[i - 1], y[i])
               m == Len(a)
    <3>1. g[i] = b /\ f[i] = c
      BY <2>3, <2>4, <2>7 DEF Keep
    <3>2. /\ b \in Seq(Seq(W)) /\ Len(b) = m + 1 /\ b[m + 1] = x[i]
          /\ \A j \in 1..m : b[j] = a[j]
      BY <2>5, AppendProperties
    <3>3. Len(f[i - 1]) = m /\ \A j \in 1..m : f[i - 1][j] = FirstOf(a[j], k)
      BY <2>4, <2>5, FirstOfEachType
    <3>4. /\ c \in Seq(Seq(W)) /\ Len(c) = m + 1 /\ c[m + 1] = y[i]
          /\ \A j \in 1..m : c[j] = f[i - 1][j]
      BY <2>5, <3>3, AppendProperties
    <3>5. m \in Nat
      BY <2>5, LenProperties
    <3> HIDE DEF b, c, m
    <3>6. /\ FirstOfEach(b, k) \in Seq(Seq(W)) /\ Len(FirstOfEach(b, k)) = m + 1
          /\ \A j \in 1..m + 1 : FirstOfEach(b, k)[j] = FirstOf(b[j], k)
      BY <3>2, FirstOfEachType
    <3>7. \A j \in 1..m + 1 : c[j] = FirstOfEach(b, k)[j]
      <4>1. \A j \in 1..m + 1 : j = m + 1 \/ j \in 1..m
        BY <3>5
      <4>2. \A j \in 1..m : c[j] = FirstOf(b[j], k)
        BY <3>2, <3>3, <3>4
      <4>3. c[m + 1] = FirstOf(b[m + 1], k)
        BY <2>4, <3>2, <3>4
      <4> QED
        BY <3>6, <4>1, <4>2, <4>3
    <3>8. c = FirstOfEach(b, k)
      BY <3>4, <3>6, <3>7, SeqEqual
    <3> QED
      BY <2>1, <3>1, <3>8 DEF D
  <2> QED
    BY <2>6, <2>7
<1>8. 0..n \subseteq D
  <2> HIDE DEF D, n
  <2> QED
    BY <1>1, <1>6, <1>7, UpToInduction
<1>9. f[n] = FirstOfEach(g[n], k)
  BY <1>1, <1>8
<1> QED
  BY <1>2, <1>3, <1>9 DEF y

(***************************************************************************)
(* What build_cmd_list makes of a line whose quotes close is what the line *)
(* means: its commands in order, as many as there is room for, each with   *)
(* its words, as many as there is room for.                                *)
(***************************************************************************)
LEMMA MeaningType ==
    ASSUME NEW Sym, NEW line \in Seq(Sym)
    PROVE  /\ [n \in 1..Pipes(line) + 1 |-> Words(Part(line, n - 1))] \in Seq(Seq(Seq(Sym)))
           /\ Meaning(line) \in Seq(Seq(Seq(Sym)) \ {<<>>})
<1> DEFINE ws == [n \in 1..Pipes(line) + 1 |-> Words(Part(line, n - 1))]
<1>1. Pipes(line) \in Nat
  BY LenProperties, CountStep DEF Pipes
<1>2. ASSUME NEW n \in 1..Pipes(line) + 1 PROVE Words(Part(line, n - 1)) \in Seq(Seq(Sym))
  <2> DEFINE parts == [k \in 1..Pipes(line) + 1 |-> Part(line, k - 1)]
  <2>1. parts \in Seq(Seq(Sym))
    <3>1. Split(line, Pipe) = parts
      BY SplitLeavesParts
    <3>2. Split(line, Pipe) \in Seq(Seq(Sym))
      BY SplitType DEF Parts
    <3> HIDE DEF parts
    <3> QED
      BY <3>1, <3>2
  <2>2. parts[n] \in Seq(Sym)
    <3>1. DOMAIN parts = 1..Len(parts) /\ DOMAIN parts = 1..Pipes(line) + 1
      <4>1. DOMAIN parts = 1..Pipes(line) + 1
        OBVIOUS
      <4> HIDE DEF parts
      <4> QED
        BY <2>1, <4>1, LenProperties
    <3> HIDE DEF parts
    <3> QED
      BY <2>1, <3>1, ElementOfSeq
  <2>3. Part(line, n - 1) \in Seq(Sym)
    BY <2>2
  <2> QED
    BY <2>3, WordsType
<1>3. ws \in Seq(Seq(Seq(Sym)))
  <2> DEFINE c == Pipes(line) + 1
             W == Seq(Seq(Sym))
  <2>1. ws \in [1..c -> W] /\ c \in Nat
    BY <1>1, <1>2
  <2> HIDE DEF ws, c, W
  <2>2. ws \in Seq(W)
    BY <2>1
  <2> QED
    BY <2>2 DEF W
<1>4. NonEmpty(ws) \in Seq(Seq(Seq(Sym)) \ {<<>>})
  <2> HIDE DEF ws
  <2> QED
    BY <1>3, NonEmptyType
<1> QED
  BY <1>3, <1>4 DEF Meaning

\* What build_cmd_list computes, whatever it should: the commands of a line whose
\* quotes close within their parts, the first CMD_MAX of them and of each the
\* first words that argv has room for (dshlib.c:134-222).
THEOREM BuildFinds ==
    ASSUME NEW Sym, NEW line \in Seq(Sym), QuotesClose(line)
    PROVE  build_cmd_list(line) = FirstOf(FirstOfEach(Meaning(line), CMD_ARGV_MAX - 1), CMD_MAX)
<1> DEFINE parts == Split(line, Pipe)
           k == CMD_ARGV_MAX - 1
           ws == [n \in 1..Pipes(line) + 1 |-> Words(Part(line, n - 1))]
           parsed == [i \in DOMAIN parts |-> parse_input(Trim(parts[i]))]
           all == NonEmpty(parsed)
<1>1. Pipes(line) \in Nat /\ k \in Nat \ {0}
  BY LenProperties, CountStep, CmdLineAssumption DEF Pipes
<1>2. parts = [n \in 1..Pipes(line) + 1 |-> Part(line, n - 1)] /\ parts \in Seq(Seq(Sym))
  BY SplitLeavesParts, SplitType DEF Parts
<1>3. DOMAIN parts = 1..Pipes(line) + 1 /\ DOMAIN ws = 1..Pipes(line) + 1
  BY <1>2
<1>4. ASSUME NEW n \in 1..Pipes(line) + 1
      PROVE  parse_input(Trim(parts[n])) = FirstOf(ws[n], k)
  <2>1. parts[n] = Part(line, n - 1) /\ n - 1 \in 0..Pipes(line)
    BY <1>1, <1>2
  <2>2. parts[n] \in Seq(Sym)
    <3>1. DOMAIN parts = 1..Len(parts)
      BY <1>2, LenProperties
    <3> HIDE DEF parts
    <3> QED
      BY <1>2, <1>3, <3>1, ElementOfSeq
  <2>3. Closed(parts[n])
    BY <2>1 DEF QuotesClose
  <2>4. ws[n] = Words(parts[n])
    BY <2>1
  <2> QED
    BY <2>2, <2>3, <2>4, ParseInputFinds
<1>5. parsed = FirstOfEach(ws, k)
  <2>1. parsed = [n \in 1..Pipes(line) + 1 |-> FirstOf(ws[n], k)]
    <3>1. parsed = [n \in 1..Pipes(line) + 1 |-> parse_input(Trim(parts[n]))]
      BY <1>3
    <3> HIDE DEF parsed, ws, parts
    <3> QED
      BY <1>4, <3>1
  <2> QED
    BY <1>3, <2>1 DEF FirstOfEach
<1>6. ws \in Seq(Seq(Seq(Sym))) /\ Meaning(line) \in Seq(Seq(Seq(Sym)) \ {<<>>})
  BY MeaningType
<1>7. Meaning(line) = NonEmpty(ws)
  BY DEF Meaning
<1> HIDE DEF ws, k, parsed, parts
<1>8. all = FirstOfEach(Meaning(line), k)
  BY <1>1, <1>5, <1>6, <1>7, NonEmptyOfFirst
<1>9. build_cmd_list(line) = SubSeq(all, 1, IF Len(all) > CMD_MAX THEN CMD_MAX ELSE Len(all))
  BY DEF build_cmd_list, parsed, parts
<1>10. Len(all) \in Nat /\ CMD_MAX \in Nat
  <2>1. Meaning(line) \in Seq(Seq(Seq(Sym)))
    BY <1>6, SeqMonotonic
  <2>2. Len(all) = Len(Meaning(line))
    BY <1>1, <1>8, <2>1, FirstOfEachType
  <2> QED
    BY <2>1, <2>2, LenProperties, CmdLineAssumption
<1> HIDE DEF all
<1>11. build_cmd_list(line) = FirstOf(all, CMD_MAX)
  <2>1. CASE Len(all) > CMD_MAX
    BY <1>9, <1>10, <2>1 DEF FirstOf
  <2>2. CASE Len(all) = CMD_MAX
    BY <1>9, <1>10, <2>2 DEF FirstOf
  <2>3. CASE Len(all) < CMD_MAX
    BY <1>9, <1>10, <2>3 DEF FirstOf
  <2> QED
    BY <1>10, <2>1, <2>2, <2>3
<1> QED
  BY <1>8, <1>11 DEF k

\* The first word of the first command is the first word of the line.
LEMMA FirstWordKept ==
    ASSUME NEW Sym, NEW line \in Seq(Sym), QuotesClose(line), build_cmd_list(line) # <<>>
    PROVE  Meaning(line) # <<>> /\ build_cmd_list(line)[1][1] = Meaning(line)[1][1]
<1> DEFINE k == CMD_ARGV_MAX - 1
           M == Meaning(line)
           each == FirstOfEach(M, k)
<1>1. k \in Nat \ {0} /\ CMD_MAX \in Nat \ {0}
  BY CmdLineAssumption
<1>2. M \in Seq(Seq(Seq(Sym)) \ {<<>>}) /\ M \in Seq(Seq(Seq(Sym)))
  <2>1. M \in Seq(Seq(Seq(Sym)) \ {<<>>})
    BY MeaningType
  <2> QED
    BY <2>1, SeqMonotonic
<1>3. build_cmd_list(line) = FirstOf(each, CMD_MAX)
  BY BuildFinds
<1> HIDE DEF k, M
<1>4. /\ each \in Seq(Seq(Seq(Sym))) /\ Len(each) = Len(M)
      /\ \A j \in 1..Len(M) : each[j] = FirstOf(M[j], k)
  BY <1>1, <1>2, FirstOfEachType
<1> HIDE DEF each
<1>5. each # <<>> /\ Len(each) \in Nat \ {0}
  <2>1. CMD_MAX \in Nat /\ (each = <<>> => Len(each) = 0) /\ Len(each) \in Nat
    BY <1>1, <1>4, EmptySeq, LenProperties
  <2>2. ASSUME each = <<>> PROVE FirstOf(each, CMD_MAX) = each
    <3>1. Len(each) <= CMD_MAX
      BY <2>1, <2>2
    <3> QED
      BY ONLY <1>4, <2>1, <3>1, FirstWhole
  <2>3. each # <<>>
    BY <1>3, <2>2
  <2> QED
    BY <1>4, <2>3, EmptySeq
<1>6. M # <<>> /\ 1 \in 1..Len(M)
  BY <1>2, <1>4, <1>5, EmptySeq
<1>7. build_cmd_list(line)[1] = each[1]
  <2>1. CMD_MAX \in Nat
    BY <1>1
  <2>2. 1 \in 1..Len(FirstOf(each, CMD_MAX))
    BY <1>1, <1>4, <1>5, <2>1, FirstType
  <2> QED
    BY <1>3, <1>4, <2>1, <2>2, FirstType
<1>8. each[1][1] = M[1][1]
  <2>1. each[1] = FirstOf(M[1], k) /\ M[1] \in Seq(Seq(Sym)) \ {<<>>}
    BY <1>2, <1>4, <1>6, ElementOfSeq
  <2>2. Len(M[1]) \in Nat \ {0} /\ k \in Nat
    BY <1>1, <2>1, EmptySeq
  <2>3. 1 \in 1..Len(FirstOf(M[1], k))
    BY <1>1, <2>1, <2>2, FirstType
  <2> QED
    BY <2>1, <2>2, <2>3, FirstType
<1> QED
  BY <1>6, <1>7, <1>8 DEF M

\* A line of one letter is one command of one word of one letter.
LEMMA OneLetter ==
    ASSUME NEW ch, ch \notin {Pipe, Quote} \cup Spaces
    PROVE  Meaning(<<ch>>) = << << <<ch>> >> >>
<1> DEFINE s == <<ch>>
<1>1. s \in Seq({ch}) /\ Len(s) = 1 /\ s[1] = ch /\ DOMAIN s = 1..1 /\ 0 + 1 = 1 /\ 0 \in Nat /\ 0 + 1 <= 1
  OBVIOUS
<1> HIDE DEF s
<1>2. \A c : s[0 + 1] # c => Count(s, c, 1, 1) = 0
  <2>1. ASSUME NEW c, s[0 + 1] # c PROVE Count(s, c, 1, 1) = 0
    <3>1. Count(s, c, 1, 0) = 0 /\ Count(s, c, 1, 0 + 1) = Count(s, c, 1, 0)
      BY <2>1, CountStep
    <3> QED
      BY <3>1
  <2> QED
    BY <2>1
<1>3. Pipes(s) = 0
  BY <1>1, <1>2 DEF Pipes
<1>4. Part(s, 0) = s
  <2>1. \A i \in 1..1 : i = 1
    OBVIOUS
  <2>2. s[1] # Pipe /\ Count(s, Pipe, 1, 1) = 0
    BY <1>1, <1>2
  <2>3. {i \in DOMAIN s : s[i] # Pipe /\ Count(s, Pipe, 1, i) = 0} = {} \cup {0 + 1}
    BY <1>1, <2>1, <2>2
  <2>4. {} \in SUBSET (1..0) /\ Within(s, {} \cup {0 + 1}, {ch})
    BY <1>1 DEF Within
  <2>5. Pick(s, {} \cup {0 + 1}) = Append(Pick(s, {}), s[0 + 1])
    <3>1. PICK z \in Nat : z = 0
      OBVIOUS
    <3>2. {} \in SUBSET (1..z) /\ Within(s, {} \cup {z + 1}, {ch})
      BY <2>4, <3>1
    <3>3. Pick(s, {} \cup {z + 1}) = Append(Pick(s, {}), s[z + 1])
      BY ONLY <3>2, PickNew, z \in Nat
    <3> QED
      BY <3>1, <3>3
  <2>6. Append(<<>>, ch) = <<ch>>
    OBVIOUS
  <2> QED
    BY <1>1, <2>3, <2>5, <2>6, PickNone DEF Part, s
<1>5. Words(s) = << <<ch>> >>
  <2>1. Letter(s, 0 + 1)
    BY <1>1 DEF Letter, Separates
  <2>2. Ended(s, 0) /\ (0 + 1) - 1 = 0
    BY <1>1, EndedStep
  <2>3. Starts(s, 0 + 1)
    BY <2>1, <2>2 DEF Starts
  <2>4. WordsTo(s, 0 + 1) = Append(WordsTo(s, 0), <<s[0 + 1]>>)
    BY <1>1, <2>3, NewWord
  <2>5. WordsTo(s, 1) = Words(s) /\ WordsTo(s, 0) = <<>>
    BY <1>1, WordsToAll
  <2>6. Append(<<>>, <<ch>>) = << <<ch>> >>
    OBVIOUS
  <2> QED
    BY <1>1, <2>4, <2>5, <2>6
<1> DEFINE word == << <<ch>> >>
           ws == [n \in 1..Pipes(s) + 1 |-> Words(Part(s, n - 1))]
<1>6. ws = << word >>
  <2>1. \A n \in 1..1 : n - 1 = 0
    OBVIOUS
  <2>2. ws = [n \in 1..1 |-> word]
    BY <1>3, <1>4, <1>5, <2>1
  <2> HIDE DEF word
  <2>3. [n \in 1..1 |-> word] = << word >>
    OBVIOUS
  <2> QED
    BY <2>2, <2>3
<1>7. Meaning(s) = NonEmpty(<< word >>)
  BY <1>6 DEF Meaning
<1>8. word # <<>>
  OBVIOUS
<1> HIDE DEF word, ws
<1>9. NonEmpty(<< word >>) = << word >>
  <2> DEFINE E == {word}
             one == << word >>
  <2>1. one \in Seq(E) /\ Len(one) = 1 /\ one[1] = word
    OBVIOUS
  <2> HIDE DEF one
  <2>2. PICK g : Loop(g, Seq(E \ {<<>>}), KeepTurn(E), <<>>, one, 1) /\ NonEmpty(one) = g[1]
    BY <2>1, KeepIsLoop
  <2>3. NonEmpty(one) = KeepTurn(E)[<< <<>>, one[1] >>]
    BY ONLY <2>2, LoopOfOne
  <2>4. KeepTurn(E)[<< <<>>, word >>] = Keep(<<>>, word)
    <3>1. << <<>>, word >> \in Seq(E \ {<<>>}) \X E
      BY EmptySeq
    <3> QED
      BY <3>1 DEF KeepTurn
  <2>5. Keep(<<>>, word) = << word >>
    BY <1>8 DEF Keep
  <2> QED
    BY <2>1, <2>3, <2>4, <2>5 DEF one
<1> QED
  BY <1>7, <1>9 DEF word, s

-----------------------------------------------------------------------------
(***************************************************************************)
(* Part 1 and part 3 on a line without quotes and tabs.  There the first   *)
(* word of a command ends at its first blank, and the rest has words of    *)
(* its own.                                                                *)
(***************************************************************************)

\* Without quotes every space separates, and a word ends where a space follows.
LEMMA Unquoted1 ==
    ASSUME NEW Sym, Quote \notin Sym, NEW s \in Seq(Sym), NEW i \in Nat, i + 1 <= Len(s)
    PROVE  /\ Separates(s, i + 1) <=> s[i + 1] \in Spaces
           /\ Letter(s, i + 1) <=> s[i + 1] \notin Spaces
           /\ Ended(s, i + 1) <=> s[i + 1] \in Spaces
<1>1. \A m \in 1..Len(s) : s[m] \in Sym /\ s[m] # Quote
  BY ElementOfSeq
<1>2. Len(s) \in Nat /\ i + 1 \in 1..Len(s)
  BY LenProperties
<1>3. Count(s, Quote, 1, i) % 2 = 0
  <2>1. {m \in 1..i : s[m] = Quote} = {}
    BY <1>1, <1>2
  <2>2. Count(s, Quote, 1, i) = 0
    BY <2>1, FS_EmptySet DEF Count
  <2> QED
    BY <2>2
<1>4. i + 1 - 1 = i
  OBVIOUS
<1>5. Separates(s, i + 1) <=> s[i + 1] \in Spaces
  BY <1>3, <1>4 DEF Separates
<1>6. Letter(s, i + 1) <=> s[i + 1] \notin Spaces
  BY <1>1, <1>2, <1>5 DEF Letter
<1>7. Ended(s, i + 1) <=> s[i + 1] \in Spaces
  BY <1>5, <1>6, EndedStep
<1> QED
  BY <1>5, <1>6, <1>7

\* Where there are no quotes, they close.
LEMMA ClosedUnquoted ==
    ASSUME NEW Sym, Quote \notin Sym, NEW s \in Seq(Sym)
    PROVE  Closed(s)
<1>1. \A m \in 1..Len(s) : s[m] # Quote
  BY ElementOfSeq
<1>2. {m \in 1..Len(s) : s[m] = Quote} = {}
  BY <1>1
<1>3. Count(s, Quote, 1, Len(s)) = 0
  BY <1>2, FS_EmptySet DEF Count
<1> QED
  BY <1>3 DEF Closed

\* The letters a line begins with are its first word so far.
Letters(s, n) == \A k \in 1..n : s[k] \notin Spaces

LEMMA FirstLetters ==
    ASSUME NEW Sym, Quote \notin Sym, NEW s \in Seq(Sym), NEW n \in 1..Len(s), Letters(s, n)
    PROVE  WordsTo(s, n) = << SubSeq(s, 1, n) >>
<1>1. Len(s) \in Nat /\ \A i \in 1..n : s[i] \notin Spaces
  BY LenProperties DEF Letters
<1> DEFINE D == {i \in Nat : i \in 1..n => WordsTo(s, i) = << SubSeq(s, 1, i) >>}
<1>2. 0 \in D
  OBVIOUS
<1>3. ASSUME NEW i \in Nat, i \in D, i + 1 \in 1..n PROVE WordsTo(s, i + 1) = << SubSeq(s, 1, i + 1) >>
  <2>1. i + 1 <= Len(s) /\ Letter(s, i + 1) /\ s[i + 1] \in Sym
    <3>1. i + 1 <= Len(s) /\ i + 1 \in 1..Len(s)
      BY <1>1, <1>3
    <3> QED
      BY <1>1, <1>3, <3>1, Unquoted1, ElementOfSeq
  <2>2. CASE i = 0
    <3>1. PICK z \in Nat : z = i
      OBVIOUS
    <3>2. Starts(s, z + 1)
      <4>1. Ended(s, 0) /\ z + 1 - 1 = 0
        BY <2>2, <3>1, EndedStep
      <4> QED
        BY <2>1, <3>1, <4>1 DEF Starts
    <3>3. WordsTo(s, z + 1) = Append(WordsTo(s, z), <<s[z + 1]>>)
      BY <2>1, <3>1, <3>2, NewWord
    <3>4. WordsTo(s, z) = <<>>
      BY <2>2, <3>1, WordsToAll
    <3>5. SubSeq(s, 1, z + 1) = <<s[z + 1]>>
      <4>1. /\ SubSeq(s, 1, z + 1) \in Seq(Sym) /\ Len(SubSeq(s, 1, z + 1)) = z + 1
            /\ \A k \in 1..z + 1 : SubSeq(s, 1, z + 1)[k] = s[k]
        <5>1. z + 1 \in 0..Len(s)
          BY <1>1, <2>1, <3>1
        <5> QED
          BY ONLY <5>1, s \in Seq(Sym), FrontType
      <4>2. <<s[z + 1]>> \in Seq(Sym) /\ Len(<<s[z + 1]>>) = z + 1 /\ \A k \in 1..z + 1 : <<s[z + 1]>>[k] = s[k]
        <5>1. \A k \in 1..z + 1 : k = 1 /\ k = z + 1
          BY <2>2, <3>1
        <5>2. <<s[z + 1]>>[1] = s[z + 1] /\ Len(<<s[z + 1]>>) = 1 /\ <<s[z + 1]>> \in Seq(Sym)
          BY <2>1, <3>1
        <5> QED
          BY <2>2, <3>1, <5>1, <5>2
      <4> QED
        BY ONLY <4>1, <4>2, SeqEqual
    <3>6. Append(<<>>, <<s[z + 1]>>) = << <<s[z + 1]>> >>
      OBVIOUS
    <3>7. WordsTo(s, z + 1) = << SubSeq(s, 1, z + 1) >>
      BY ONLY <3>3, <3>4, <3>5, <3>6
    <3> QED
      BY <3>1, <3>7
  <2>3. CASE i # 0
    <3>1. PICK j \in Nat : i = j + 1
      <4>1. i - 1 \in Nat /\ i = (i - 1) + 1
        BY <2>3
      <4> QED
        BY <4>1
    <3>2. WordsTo(s, i) = << SubSeq(s, 1, i) >> /\ s[i] \notin Spaces /\ j + 1 <= Len(s)
      BY <1>1, <1>3, <3>1
    <3>3. ~Starts(s, i + 1)
      <4>1. ~Ended(s, i)
        BY <3>1, <3>2, Unquoted1
      <4> QED
        BY <4>1 DEF Starts
    <3>4. Started(s, i) = 1
      <4>1. i \in 0..Len(s)
        BY <1>1, <2>1
      <4>2. Len(WordsTo(s, i)) = Started(s, i)
        BY <4>1, WordsToType
      <4> QED
        BY <3>2, <4>2
    <3>5. WordsTo(s, i + 1) = [WordsTo(s, i) EXCEPT ![1] = Append(@, s[i + 1])]
      <4>1. Started(s, i) # 0
        BY <3>4
      <4>2. WordsTo(s, i + 1) = [WordsTo(s, i) EXCEPT ![Started(s, i)] = Append(@, s[i + 1])]
        BY <2>1, <3>3, <4>1, LongerWord
      <4> QED
        BY ONLY <3>4, <4>2
    <3>6. [<< SubSeq(s, 1, i) >> EXCEPT ![1] = Append(@, s[i + 1])] = << Append(SubSeq(s, 1, i), s[i + 1]) >>
      OBVIOUS
    <3>7. Append(SubSeq(s, 1, i), s[i + 1]) = SubSeq(s, 1, i + 1)
      <4>1. 1 \in 1..Len(s) /\ i + 1 \in 1..Len(s) /\ i + 1 - 1 = i
        BY <1>1, <2>1
      <4>2. SubSeq(s, 1, i + 1) = SubSeq(s, 1, i + 1 - 1) \o << s[i + 1] >>
        BY <4>1, SubSeqRecursiveSecond
      <4>3. SubSeq(s, 1, i) \in Seq(Sym)
        BY <1>1, <2>1, FrontType
      <4> QED
        BY <2>1, <4>1, <4>2, <4>3, AppendIsConcat
    <3> QED
      BY <3>2, <3>5, <3>6, <3>7
  <2> QED
    BY <2>2, <2>3
<1>4. \A i \in Nat : i \in D => i + 1 \in D
  BY <1>3
<1>5. n \in D
  <2>1. Nat \subseteq D
    <3> HIDE DEF D
    <3> QED
      BY <1>2, <1>4, NatSetInduction
  <2>2. n \in Nat
    BY <1>1
  <2> HIDE DEF D
  <2> QED
    BY <2>1, <2>2
<1> QED
  BY <1>5

\* A word goes on only if it has been started.
LEMMA StartedSome ==
    ASSUME NEW Sym, NEW s \in Seq(Sym), NEW i \in 0..Len(s), ~Ended(s, i)
    PROVE  Started(s, i) # 0
<1> DEFINE D == {m \in Nat : ~Ended(s, m) => Started(s, m) # 0}
<1>1. 0 \in D
  BY EndedStep
<1>2. ASSUME NEW m \in Nat, m \in D PROVE m + 1 \in D
  <2>1. /\ Started(s, m) \in Nat
        /\ Started(s, m + 1) = IF Starts(s, m + 1) THEN Started(s, m) + 1 ELSE Started(s, m)
    BY StartedStep
  <2>2. CASE ~Letter(s, m + 1)
    <3>1. Ended(s, m + 1) \/ (Ended(s, m + 1) <=> Ended(s, m))
      BY <2>2, EndedStep
    <3> QED
      BY <1>2, <2>1, <3>1
  <2>3. CASE Letter(s, m + 1)
    <3>1. Starts(s, m + 1) \/ ~Ended(s, m)
      <4>1. m + 1 - 1 = m
        OBVIOUS
      <4> QED
        BY <2>3, <4>1 DEF Starts
    <3> QED
      BY <1>2, <2>1, <3>1
  <2> QED
    BY <2>2, <2>3
<1>3. Nat \subseteq D
  <2> HIDE DEF D
  <2> QED
    BY <1>1, <1>2, NatSetInduction
<1>4. i \in Nat
  BY LenProperties
<1> QED
  BY <1>3, <1>4

\* The list operations as operators of their own, for the provers to match.
Prefixed(first, w) == first \o w
More(w, word) == Append(w, word)
LastLonger(w, k, ch) == [w EXCEPT ![k] = Append(@, ch)]

\* What comes behind a first word does not change it:
\* neither a word more,
LEMMA JoinedAppend ==
    ASSUME NEW W, NEW first \in Seq(W), NEW w \in Seq(W), NEW word \in W
    PROVE  More(Prefixed(first, w), word) = Prefixed(first, More(w, word))
<1>1. first \o w \in Seq(W) /\ <<word>> \in Seq(W)
  BY ConcatProperties
<1>2. Append(first \o w, word) = (first \o w) \o <<word>>
  BY <1>1, AppendIsConcat
<1>3. Append(w, word) = w \o <<word>>
  BY AppendIsConcat
<1>4. (first \o w) \o <<word>> = first \o (w \o <<word>>)
  BY <1>1, ConcatAssociative
<1> QED
  BY <1>2, <1>3, <1>4 DEF Prefixed, More

\* nor a letter more in the last word.
LEMMA JoinedExcept ==
    ASSUME NEW W, NEW one \in Seq(W), Len(one) = 1, NEW w \in Seq(W), NEW k \in Nat, k = Len(w),
           k # 0, NEW ch, \A a \in W : Append(a, ch) \in W
    PROVE  LastLonger(Prefixed(one, w), k + 1, ch) = Prefixed(one, LastLonger(w, k, ch))
<1> DEFINE last == Append(w[k], ch)
           x == [w EXCEPT ![k] = last]
           y == one \o w
           z == [y EXCEPT ![k + 1] = last]
<1>1. k \in 1..Len(w) /\ w[k] \in W /\ last \in W
  BY ElementOfSeq
<1> HIDE DEF last
<1>2. /\ x \in Seq(W) /\ Len(x) = k
      /\ \A j \in 1..k : x[j] = IF j = k THEN last ELSE w[j]
  BY <1>1, ExceptSeq
<1>3. /\ y \in Seq(W) /\ Len(y) = k + 1
      /\ \A j \in 1..k + 1 : y[j] = IF j <= 1 THEN one[j] ELSE w[j - 1]
  <2>1. /\ one \o w \in Seq(W) /\ Len(one \o w) = Len(one) + Len(w)
        /\ \A j \in 1..Len(one) + Len(w) :
             (one \o w)[j] = IF j <= Len(one) THEN one[j] ELSE w[j - Len(one)]
    BY ConcatProperties
  <2>2. Len(one) + Len(w) = k + 1
    OBVIOUS
  <2> QED
    BY ONLY <2>1, <2>2, Len(one) = 1
<1>4. y[k + 1] = w[k]
  <2>1. k + 1 \in 1..k + 1 /\ ~(k + 1 <= 1) /\ k + 1 - 1 = k
    OBVIOUS
  <2> QED
    BY ONLY <1>3, <2>1
<1> HIDE DEF x, y
<1>5. /\ z \in Seq(W) /\ Len(z) = k + 1
      /\ \A j \in 1..k + 1 : z[j] = IF j = k + 1 THEN last ELSE y[j]
  <2>1. k + 1 \in 1..Len(y)
    BY <1>3
  <2> QED
    BY ONLY <1>1, <1>3, <2>1, ExceptSeq
<1>6. /\ one \o x \in Seq(W) /\ Len(one \o x) = k + 1
      /\ \A j \in 1..k + 1 : (one \o x)[j] = IF j <= 1 THEN one[j] ELSE x[j - 1]
  <2>1. /\ one \o x \in Seq(W) /\ Len(one \o x) = Len(one) + Len(x)
        /\ \A j \in 1..Len(one) + Len(x) :
             (one \o x)[j] = IF j <= Len(one) THEN one[j] ELSE x[j - Len(one)]
    BY <1>2, ConcatProperties
  <2>2. Len(one) + Len(x) = k + 1
    BY <1>2
  <2> QED
    BY ONLY <2>1, <2>2, Len(one) = 1
<1> HIDE DEF z
<1>7. ASSUME NEW j \in 1..k + 1 PROVE z[j] = (one \o x)[j]
  <2>1. CASE j = 1
    BY <1>3, <1>5, <1>6, <2>1
  <2>2. CASE j = k + 1
    <3>1. ~(j <= 1) /\ j - 1 = k /\ k \in 1..k
      BY <2>2
    <3> QED
      BY <1>2, <1>5, <1>6, <2>2, <3>1
  <2>3. CASE j # 1 /\ j # k + 1
    <3>1. ~(j <= 1) /\ j - 1 \in 1..k /\ j - 1 # k
      BY <2>3
    <3> QED
      BY <1>2, <1>3, <1>5, <1>6, <2>3, <3>1
  <2> QED
    BY <2>1, <2>2, <2>3
<1>8. z = one \o x
  BY ONLY <1>5, <1>6, <1>7, SeqEqual
<1> QED
  BY <1>4, <1>8 DEF x, y, z, last, Prefixed, LastLonger

\* Behind its first word the rest of the line has words of its own.
LEMMA WordsBehind ==
    ASSUME NEW Sym, Quote \notin Sym, NEW s \in Seq(Sym), NEW n \in 1..Len(s), Letters(s, n),
           n = Len(s) \/ s[n + 1] \in Spaces
    PROVE  Words(s) = << SubSeq(s, 1, n) >> \o Words(SubSeq(s, n + 1, Len(s)))
<1> DEFINE v == SubSeq(s, n + 1, Len(s))
           first == << SubSeq(s, 1, n) >>
           W == Seq(Sym)
           Joined(i) == WordsTo(s, n + i) = first \o WordsTo(v, i)
           D == {i \in Nat : i <= Len(v) => Joined(i)}
<1>1. Len(s) \in Nat /\ n \in Nat /\ n <= Len(s)
  BY LenProperties
<1>2. v \in Seq(Sym) /\ Len(v) = Len(s) - n /\ \A i \in 1..Len(s) - n : v[i] = s[n + i]
  <2>1. n \in 0..Len(s)
    BY <1>1
  <2> QED
    BY <2>1, RestType
<1>3. WordsTo(s, n) = first
  BY FirstLetters
<1>4. first \in Seq(W)
  <2>1. SubSeq(s, 1, n) \in W
    <3>1. n \in 0..Len(s)
      BY <1>1
    <3> QED
      BY <3>1, FrontType
  <2> HIDE DEF W
  <2> QED
    BY <2>1
<1>5. Words(v) = WordsTo(v, Len(v)) /\ WordsTo(v, 0) = <<>> /\ Words(s) = WordsTo(s, Len(s))
  BY <1>2, WordsToAll
<1> HIDE DEF v, first
<1>6. 0 \in D
  <2>1. n + 0 = n
    BY <1>1
  <2>2. first \o <<>> = first
    BY <1>4, ConcatEmptySeq
  <2> QED
    BY <1>3, <1>5, <2>1, <2>2
<1>7. ASSUME NEW i \in Nat, i \in D, i + 1 <= Len(v) PROVE Joined(i + 1)
  <2> DEFINE j == n + i
  <2>1. /\ j \in Nat /\ j + 1 <= Len(s) /\ j + 1 = n + (i + 1) /\ i + 1 \in 1..Len(s) - n
        /\ i \in 0..Len(v) /\ j \in 0..Len(s) /\ i + 1 \in 1..Len(v)
    BY <1>1, <1>2, <1>7
  <2>2. v[i + 1] = s[j + 1] /\ s[j + 1] \in Sym
    <3>1. v[i + 1] = s[n + (i + 1)] /\ v[i + 1] \in Sym
      BY <1>2, <2>1, ElementOfSeq
    <3> QED
      BY <2>1, <3>1
  <2>3. WordsTo(s, j) = first \o WordsTo(v, i)
    BY <1>1, <1>2, <1>7
  <2>4. /\ WordsTo(v, i) \in Seq(W) /\ Len(WordsTo(v, i)) = Started(v, i)
        /\ WordsTo(s, j) \in Seq(W) /\ Len(WordsTo(s, j)) = Started(s, j)
    BY <1>2, <2>1, WordsToType
  <2>5. j = (j - 1) + 1 /\ j - 1 \in Nat /\ (j - 1) + 1 <= Len(s)
    BY <1>1, <2>1
  <2>6. Letter(s, j + 1) <=> Letter(v, i + 1)
    BY <1>2, <2>1, <2>2, <1>7, Unquoted1
  <2>7. Letter(s, j + 1) => i # 0
    BY <1>1, <2>1, Unquoted1
  <2>8. Letter(s, j + 1) => (Starts(s, j + 1) <=> Starts(v, i + 1))
    <3> SUFFICES ASSUME Letter(s, j + 1) PROVE Starts(s, j + 1) <=> Starts(v, i + 1)
      OBVIOUS
    <3>1. i = (i - 1) + 1 /\ i - 1 \in Nat /\ (i - 1) + 1 <= Len(v) /\ i \in 1..Len(s) - n
      BY <1>2, <1>7, <2>1, <2>7
    <3>2. Ended(v, i) <=> v[i] \in Spaces
      <4>1. PICK m \in Nat : i = m + 1 /\ m + 1 <= Len(v)
        BY <3>1
      <4>2. Ended(v, m + 1) <=> v[m + 1] \in Spaces
        BY <1>2, <4>1, Unquoted1
      <4> QED
        BY <4>1, <4>2
    <3>3. Ended(s, j) <=> s[j] \in Spaces
      <4>1. PICK m \in Nat : j = m + 1 /\ m + 1 <= Len(s)
        BY <2>5
      <4>2. Ended(s, m + 1) <=> s[m + 1] \in Spaces
        BY <4>1, Unquoted1
      <4> QED
        BY <4>1, <4>2
    <3>4. v[i] = s[j]
      BY <1>2, <3>1
    <3>5. i + 1 - 1 = i /\ j + 1 - 1 = j
      BY <2>1
    <3> QED
      BY <2>6, <3>2, <3>3, <3>4, <3>5 DEF Starts
  <2> HIDE DEF j, W
  <2>9. CASE ~Letter(s, j + 1)
    <3>1. WordsTo(s, j + 1) = WordsTo(s, j) /\ WordsTo(v, i + 1) = WordsTo(v, i)
      BY <2>1, <2>6, <2>9, NoLetter
    <3> QED
      BY <2>1, <2>3, <3>1
  <2>10. CASE Letter(s, j + 1) /\ Starts(s, j + 1)
    <3> DEFINE word == <<s[j + 1]>>
    <3>1. word \in W
      BY <2>2 DEF W
    <3>2. WordsTo(s, j + 1) = Append(WordsTo(s, j), word)
      BY <2>1, <2>10, NewWord
    <3>3. WordsTo(v, i + 1) = Append(WordsTo(v, i), word)
      <4>1. WordsTo(v, i + 1) = Append(WordsTo(v, i), <<v[i + 1]>>)
        BY <1>2, <1>7, <2>8, <2>10, NewWord
      <4> QED
        BY <2>2, <4>1
    <3> HIDE DEF word
    <3>4. Append(first \o WordsTo(v, i), word) = first \o Append(WordsTo(v, i), word)
      <4>1. More(Prefixed(first, WordsTo(v, i)), word) = Prefixed(first, More(WordsTo(v, i), word))
        BY <1>4, <2>4, <3>1, JoinedAppend
      <4> QED
        BY ONLY <4>1 DEF Prefixed, More
    <3> QED
      BY <2>1, <2>3, <3>2, <3>3, <3>4
  <2>11. CASE Letter(s, j + 1) /\ ~Starts(s, j + 1)
    <3> DEFINE w == WordsTo(v, i)
               k == Len(w)
               ch == s[j + 1]
    <3>1. k # 0 /\ k \in Nat /\ Started(v, i) = k
      <4>1. PICK m \in Nat : i = m + 1
        <5>1. i - 1 \in Nat /\ i = (i - 1) + 1
          BY <2>7, <2>11
        <5> QED
          BY <5>1
      <4>2. ~Ended(v, i)
        <5>1. ~Starts(v, i + 1) /\ Letter(v, i + 1) /\ i + 1 - 1 = i
          BY <2>6, <2>8, <2>11
        <5> QED
          BY <5>1 DEF Starts
      <4>3. Started(v, i) # 0
        BY <1>2, <2>1, <4>2, StartedSome
      <4> QED
        BY <2>4, <4>3, LenProperties
    <3>2. Started(s, j) = k + 1
      <4>1. Len(first \o w) = Len(first) + Len(w)
        BY <1>4, <2>4, ConcatProperties
      <4>2. Len(first) = 1
        BY DEF first
      <4> QED
        BY <2>3, <2>4, <3>1, <4>1, <4>2
    <3>3. WordsTo(s, j + 1) = [first \o w EXCEPT ![k + 1] = Append(@, ch)]
      <4>1. Started(s, j) # 0
        BY <3>1, <3>2
      <4>2. WordsTo(s, j + 1) = [WordsTo(s, j) EXCEPT ![Started(s, j)] = Append(@, ch)]
        BY <2>1, <2>11, <4>1, LongerWord
      <4> QED
        BY <2>3, <3>2, <4>2
    <3>4. WordsTo(v, i + 1) = [w EXCEPT ![k] = Append(@, ch)]
      <4>1. Letter(v, i + 1) /\ ~Starts(v, i + 1) /\ Started(v, i) # 0
        BY <2>6, <2>8, <2>11, <3>1
      <4>2. WordsTo(v, i + 1) = [WordsTo(v, i) EXCEPT ![Started(v, i)] = Append(@, v[i + 1])]
        BY <1>2, <1>7, <4>1, LongerWord
      <4> QED
        BY <2>2, <3>1, <4>2
    <3>5. w \in Seq(W) /\ Len(first) = 1
      BY <2>4 DEF first
    <3>6. \A a \in W : Append(a, ch) \in W
      BY <2>2, AppendProperties DEF W
    <3>7. k = Len(w)
      OBVIOUS
    <3> HIDE DEF w, ch, k
    <3>8. [first \o w EXCEPT ![k + 1] = Append(@, ch)] = first \o [w EXCEPT ![k] = Append(@, ch)]
      <4>1. LastLonger(Prefixed(first, w), k + 1, ch) = Prefixed(first, LastLonger(w, k, ch))
        BY ONLY <1>4, <3>1, <3>5, <3>6, <3>7, JoinedExcept
      <4> QED
        BY ONLY <4>1 DEF Prefixed, LastLonger
    <3>9. WordsTo(s, j + 1) = first \o WordsTo(v, i + 1)
      BY ONLY <3>3, <3>4, <3>8
    <3> QED
      BY <2>1, <3>9
  <2> QED
    BY <2>9, <2>10, <2>11
<1>8. ASSUME NEW i \in Nat, i \in D PROVE i + 1 \in D
  <2>1. i + 1 <= Len(v) => Joined(i + 1)
    BY <1>7, <1>8
  <2> HIDE DEF Joined
  <2> QED
    BY <2>1
<1>9. Joined(Len(v))
  <2>1. Nat \subseteq D
    <3> HIDE DEF D
    <3> QED
      BY <1>6, <1>8, NatSetInduction
  <2>2. Len(v) \in Nat
    BY <1>1, <1>2
  <2> QED
    BY <2>1, <2>2
<1>10. n + Len(v) = Len(s)
  BY <1>1, <1>2
<1> QED
  BY <1>5, <1>9, <1>10 DEF v, first

\* To limit the words before and behind is to limit them behind.
LEMMA FirstOfJoined ==
    ASSUME NEW W, NEW one \in Seq(W), Len(one) = 1, NEW w \in Seq(W), NEW k \in Nat \ {0}
    PROVE  FirstOf(Prefixed(one, FirstOf(w, k)), k) = FirstOf(Prefixed(one, w), k)
<1> DEFINE f == FirstOf(w, k)
           a == one \o f
           b == one \o w
<1>1. /\ f \in Seq(W) /\ Len(f) = (IF Len(w) < k THEN Len(w) ELSE k)
      /\ \A i \in 1..Len(f) : f[i] = w[i]
  BY FirstType
<1>2. Len(w) \in Nat /\ Len(f) \in Nat
  BY <1>1, LenProperties
<1> HIDE DEF f
<1>3. /\ a \in Seq(W) /\ Len(a) = Len(one) + Len(f)
      /\ \A j \in 1..Len(one) + Len(f) : a[j] = IF j <= Len(one) THEN one[j] ELSE f[j - Len(one)]
  BY <1>1, ConcatProperties
<1>4. /\ b \in Seq(W) /\ Len(b) = Len(one) + Len(w)
      /\ \A j \in 1..Len(one) + Len(w) : b[j] = IF j <= Len(one) THEN one[j] ELSE w[j - Len(one)]
  BY ConcatProperties
<1> HIDE DEF a, b
<1>5. /\ FirstOf(a, k) \in Seq(W) /\ Len(FirstOf(a, k)) = (IF Len(a) < k THEN Len(a) ELSE k)
      /\ \A i \in 1..Len(FirstOf(a, k)) : FirstOf(a, k)[i] = a[i]
  BY <1>3, FirstType
<1>6. /\ FirstOf(b, k) \in Seq(W) /\ Len(FirstOf(b, k)) = (IF Len(b) < k THEN Len(b) ELSE k)
      /\ \A i \in 1..Len(FirstOf(b, k)) : FirstOf(b, k)[i] = b[i]
  BY <1>4, FirstType
<1>7. Len(FirstOf(a, k)) = Len(FirstOf(b, k)) /\ Len(FirstOf(a, k)) \in Nat
  BY <1>1, <1>2, <1>3, <1>4, <1>5, <1>6
<1>8. ASSUME NEW i \in 1..Len(FirstOf(a, k)) PROVE a[i] = b[i]
  <2>1. i <= 1 + Len(f) /\ i <= 1 + Len(w) /\ i <= k /\ i \in Nat /\ i # 0
    BY <1>1, <1>2, <1>3, <1>5
  <2>2. CASE i = 1
    BY <1>2, <1>3, <1>4, <2>2
  <2>3. CASE i # 1
    <3>1. i - 1 \in 1..Len(f) /\ ~(i <= 1) /\ i \in 1..1 + Len(f) /\ i \in 1..1 + Len(w)
      BY <1>2, <2>1, <2>3
    <3> QED
      BY <1>1, <1>3, <1>4, <3>1
  <2> QED
    BY <2>2, <2>3
<1>9. \A i \in 1..Len(FirstOf(a, k)) : FirstOf(a, k)[i] = FirstOf(b, k)[i]
  BY <1>5, <1>6, <1>7, <1>8
<1>10. FirstOf(a, k) = FirstOf(b, k)
  BY ONLY <1>5, <1>6, <1>7, <1>9, SeqEqual
<1> QED
  BY <1>10 DEF a, b, f, Prefixed

\* Where nothing stands there are no words.
LEMMA NoWords ==
    ASSUME NEW Sym, NEW s \in Seq(Sym), Len(s) = 0
    PROVE  Words(s) = <<>>
BY WordsToAll

-----------------------------------------------------------------------------
(***************************************************************************)
(* Part 1 ends the first word of a command at its first blank and keeps    *)
(* the rest as it is.                                                      *)
(***************************************************************************)
CutTo(s, n) == SubSeq(s, 1, IF Len(s) < n THEN Len(s) ELSE n - 1)

\* A copy shorter than its buffer is the whole.
LEMMA Uncut ==
    ASSUME NEW Sym, NEW s \in Seq(Sym), NEW n \in Nat \ {0}, Len(CutTo(s, n)) < n - 1
    PROVE  CutTo(s, n) = s
<1> DEFINE m == IF Len(s) < n THEN Len(s) ELSE n - 1
<1>1. Len(s) \in Nat /\ m \in 0..Len(s) /\ CutTo(s, n) = SubSeq(s, 1, m)
  BY LenProperties DEF CutTo
<1>2. Len(CutTo(s, n)) = m
  BY <1>1, FrontType
<1>3. m = Len(s)
  BY <1>1, <1>2
<1> QED
  BY <1>1, <1>3, SubSeqFull

\* Nothing trimmed is nothing.
LEMMA NothingTrimmed ==
    ASSUME NEW Sym, NEW s \in Seq(Sym), Len(s) = 0, NEW blanks
    PROVE  TrimLeft(s, blanks) = <<>>
<1>1. \E n \in 0..Len(s) : /\ (\A k \in 1..n : s[k] \in blanks)
                            /\ (n = Len(s) \/ s[n + 1] \notin blanks)
                            /\ TrimLeft(s, blanks) = SubSeq(s, n + 1, Len(s))
  BY ONLY s \in Seq(Sym), TrimLeftIs
<1>2. PICK n \in 0..Len(s) : TrimLeft(s, blanks) = SubSeq(s, n + 1, Len(s))
  BY <1>1
<1>3. TrimLeft(s, blanks) \in Seq(Sym) /\ Len(TrimLeft(s, blanks)) = 0
  BY <1>2, RestType
<1> QED
  BY <1>3, EmptySeq

\* A command is its letters up to its first blank, and what is behind them.
FirstWord(s, n) == SubSeq(s, 1, n)
BehindIt(s, n) == SubSeq(s, n + 1, Len(s))

UpToBlank(s, n) == \A k \in 1..n : s[k] # Blank

LEMMA Command1Is ==
    ASSUME NEW Sym, NEW s \in Seq(Sym)
    PROVE  \E n \in 0..Len(s) :
             /\ UpToBlank(s, n) /\ (n = Len(s) \/ s[n + 1] = Blank)
             /\ Command1(s).exe = CutTo(FirstWord(s, n), EXE_MAX)
             /\ Command1(s).args = CutTo(TrimLeft(BehindIt(s, n), {Blank}), ARG_MAX)
<1> DEFINE I == {i \in 1..Len(s) : s[i] = Blank}
           space == IF I # {} THEN Min(I) ELSE 0
           rest == IF space = 0 THEN <<>> ELSE TrimLeft(SubSeq(s, space, Len(s)), {Blank})
           exe == IF space = 0 THEN s ELSE SubSeq(s, 1, space - 1)
<1>1. Len(s) \in Nat /\ I \subseteq Nat /\ I \subseteq 1..Len(s)
  BY LenProperties
<1>2. Command1(s).exe = CutTo(exe, EXE_MAX) /\ Command1(s).args = CutTo(rest, ARG_MAX)
  BY DEF Command1, SelectInSeq, CutTo
<1>3. CASE I = {}
  <2>1. space = 0 /\ rest = <<>> /\ exe = s
    BY <1>3
  <2>2. UpToBlank(s, Len(s)) /\ Len(s) \in 0..Len(s)
    BY <1>1, <1>3 DEF UpToBlank
  <2>3. BehindIt(s, Len(s)) \in Seq(Sym) /\ Len(BehindIt(s, Len(s))) = 0
    <3>1. Len(s) - Len(s) = 0
      BY <1>1
    <3> QED
      BY <2>2, <3>1, RestType DEF BehindIt
  <2>4. TrimLeft(BehindIt(s, Len(s)), {Blank}) = <<>>
    BY <2>3, NothingTrimmed
  <2>5. FirstWord(s, Len(s)) = s
    BY SubSeqFull DEF FirstWord
  <2> HIDE DEF rest, exe
  <2> QED
    BY <1>2, <2>1, <2>2, <2>4, <2>5
<1>4. CASE I # {}
  <2> DEFINE m == Min(I)
  <2>1. m \in I /\ \A k \in I : m <= k
    <3> HIDE DEF I
    <3> QED
      BY <1>1, <1>4, MinIsLeast
  <2>2. space = m
    BY <1>4
  <2> HIDE DEF m
  <2>3. m \in 1..Len(s) /\ m - 1 \in 0..Len(s) /\ (m - 1) + 1 = m /\ m # 0 /\ s[m] = Blank
    BY <1>1, <2>1
  <2>4. UpToBlank(s, m - 1)
    <3>1. ASSUME NEW k \in 1..m - 1 PROVE k \in 1..Len(s) /\ k \notin I
      BY <1>1, <2>1, <2>3
    <3> QED
      BY <3>1 DEF UpToBlank
  <2>5. rest = TrimLeft(BehindIt(s, m - 1), {Blank}) /\ exe = FirstWord(s, m - 1)
    BY <2>2, <2>3 DEF BehindIt, FirstWord
  <2> HIDE DEF rest, exe, I
  <2> QED
    BY <1>2, <2>3, <2>4, <2>5
<1> QED
  BY <1>3, <1>4

-----------------------------------------------------------------------------
\* What part 3 makes of a command without quotes.
LEMMA ScanOfTrimLeft ==
    ASSUME NEW Sym, NEW s \in Seq(Sym), NEW room \in Nat
    PROVE  Scan(TrimLeft(s, Spaces), room) = Scan(s, room)
<1>1. PICK n \in 0..Len(s) : Blanks(s, 1, n) /\ TrimLeft(s, Spaces) = SubSeq(s, n + 1, Len(s))
  BY TrimLeftIs DEF Blanks
<1>2. Scanned(SubSeq(s, n + 1, Len(s)), room) = Scanned(s, room)
  BY <1>1, ScanSkips
<1>3. \A x : Scan(x, room) = EndWord(Scanned(x, room))
  BY DEF Scan, Scanned, ScanFrom
<1> QED
  BY <1>1, <1>2, <1>3

\* The words part 3 finds in a command, and in what is left of it once trimmed.
LEMMA ParseTrimmed ==
    ASSUME NEW Sym, Quote \notin Sym, NEW s \in Seq(Sym)
    PROVE  /\ parse_input(Trim(s)) = FirstOf(Words(TrimLeft(s, Spaces)), CMD_ARGV_MAX - 1)
           /\ parse_input(TrimLeft(s, Spaces)) = FirstOf(Words(s), CMD_ARGV_MAX - 1)
<1>1. CMD_ARGV_MAX - 1 \in Nat /\ Closed(s) /\ TrimLeft(s, Spaces) \in Seq(Sym)
  BY CmdLineAssumption, ClosedUnquoted, TrimLeftType
<1>2. Scan(Trim(s), CMD_ARGV_MAX - 1) = Scan(s, CMD_ARGV_MAX - 1)
  BY <1>1, ScanTrimmed
<1>3. Scan(TrimLeft(s, Spaces), CMD_ARGV_MAX - 1) = Scan(s, CMD_ARGV_MAX - 1)
  BY <1>1, ScanOfTrimLeft
<1>4. /\ Scan(s, CMD_ARGV_MAX - 1).args = FirstOf(Words(s), CMD_ARGV_MAX - 1)
      /\ Scan(TrimLeft(s, Spaces), CMD_ARGV_MAX - 1).args = FirstOf(Words(TrimLeft(s, Spaces)), CMD_ARGV_MAX - 1)
  BY <1>1, ScanFinds
<1> QED
  BY <1>2, <1>3, <1>4 DEF parse_input

\* Where there are no tabs every space is a blank.
LEMMA TrimAlike ==
    ASSUME NEW Sym, Tab \notin Sym, NEW s \in Seq(Sym)
    PROVE  TrimLeft(s, {Blank}) = TrimLeft(s, Spaces)
<1>1. Len(s) \in Nat /\ \A i \in 1..Len(s) : s[i] \in {Blank} <=> s[i] \in Spaces
  BY ElementOfSeq, LenProperties DEF Spaces
<1>2. PICK n \in 0..Len(s) :
        /\ (\A k \in 1..n : s[k] \in {Blank}) /\ (n = Len(s) \/ s[n + 1] \notin {Blank})
        /\ TrimLeft(s, {Blank}) = SubSeq(s, n + 1, Len(s))
  BY TrimLeftIs
<1>3. PICK m \in 0..Len(s) :
        /\ (\A k \in 1..m : s[k] \in Spaces) /\ (m = Len(s) \/ s[m + 1] \notin Spaces)
        /\ TrimLeft(s, Spaces) = SubSeq(s, m + 1, Len(s))
  BY TrimLeftIs
<1>4. ~(n < m)
  <2>1. n < m => n + 1 \in 1..m /\ n + 1 \in 1..Len(s) /\ n # Len(s)
    BY <1>1
  <2> QED
    BY <1>1, <1>2, <1>3, <2>1
<1>5. ~(m < n)
  <2>1. m < n => m + 1 \in 1..n /\ m + 1 \in 1..Len(s) /\ m # Len(s)
    BY <1>1
  <2> QED
    BY <1>1, <1>2, <1>3, <2>1
<1>6. n = m
  BY <1>4, <1>5
<1> QED
  BY <1>2, <1>3, <1>6

\* A command without quotes and tabs is empty to one part if it is to the
\* other; and if part 1 need not cut it both find the same words.
CommandWords(c) == FirstOf(Prefixed(<<c.exe>>, parse_input(c.args)), CMD_ARGV_MAX - 1)

Short(c) == Len(c.exe) < EXE_MAX - 1 /\ Len(c.args) < ARG_MAX - 1

LEMMA CommandsAgree ==
    ASSUME NEW Sym, Quote \notin Sym, Tab \notin Sym, NEW part \in Seq(Sym)
    PROVE  /\ TrimLeft(part, {Blank}) = <<>> <=> parse_input(Trim(part)) = <<>>
           /\ TrimLeft(part, {Blank}) # <<>> /\ Short(Command1(TrimLeft(part, {Blank}))) =>
                parse_input(Trim(part)) = CommandWords(Command1(TrimLeft(part, {Blank})))
<1> DEFINE t == TrimLeft(part, {Blank})
           k == CMD_ARGV_MAX - 1
           W == Seq(Sym)
<1>1. k \in Nat \ {0} /\ EXE_MAX \in Nat \ {0} /\ ARG_MAX \in Nat \ {0}
  BY CmdLineAssumption
<1>2. t \in Seq(Sym) /\ Len(t) \in Nat
  BY TrimLeftType, LenProperties
<1>3. parse_input(Trim(part)) = FirstOf(Words(t), k)
  BY ParseTrimmed, TrimAlike
<1>4. t # <<>> => t[1] # Blank
  <2> SUFFICES ASSUME t # <<>> PROVE t[1] # Blank
    OBVIOUS
  <2>1. PICK n \in 0..Len(part) : /\ n = Len(part) \/ part[n + 1] \notin {Blank}
                                  /\ t = SubSeq(part, n + 1, Len(part))
    BY TrimLeftIs
  <2>2. Len(part) \in Nat /\ Len(t) = Len(part) - n /\ \A i \in 1..Len(part) - n : t[i] = part[n + i]
    <3> HIDE DEF t
    <3> QED
      BY <2>1, RestType, LenProperties
  <2>3. Len(t) # 0
    BY <1>2, EmptySeq
  <2>4. n # Len(part) /\ 1 \in 1..Len(part) - n
    BY <2>2, <2>3
  <2> QED
    BY <2>1, <2>2, <2>4
<1> HIDE DEF t, k, W
<1>5. CASE t = <<>>
  <2>1. Len(t) = 0
    BY <1>5
  <2>2. Words(t) = <<>>
    BY <1>2, <2>1, NoWords
  <2>3. FirstOf(<<>>, k) = <<>>
    <3>1. <<>> \in Seq(W) /\ Len(<<>>) = 0
      BY EmptySeq
    <3>2. Len(<<>>) <= k /\ k \in Nat
      BY <1>1, <3>1
    <3> QED
      BY <3>1, <3>2, FirstWhole
  <2> QED
    BY <1>3, <1>5, <2>2, <2>3 DEF t
<1>6. CASE t # <<>>
  <2>1. PICK n \in 0..Len(t) : /\ UpToBlank(t, n) /\ (n = Len(t) \/ t[n + 1] = Blank)
                               /\ Command1(t).exe = CutTo(FirstWord(t, n), EXE_MAX)
                               /\ Command1(t).args = CutTo(TrimLeft(BehindIt(t, n), {Blank}), ARG_MAX)
    BY <1>2, Command1Is
  <2>2. Len(t) # 0
    BY <1>2, <1>6, EmptySeq
  <2>3. n # 0
    <3>1. t[0 + 1] # Blank
      BY <1>4, <1>6
    <3> QED
      BY <2>1, <2>2, <3>1
  <2>4. n \in 1..Len(t)
    BY <1>2, <2>3
  <2>12. Letters(t, n) /\ (n = Len(t) \/ t[n + 1] \in Spaces)
    <3>1. \A i \in 1..n : i \in 1..Len(t)
      BY <1>2, <2>4
    <3>2. Letters(t, n)
      BY <1>2, <2>1, <3>1, ElementOfSeq DEF Letters, UpToBlank, Spaces
    <3> QED
      BY <2>1, <3>2 DEF Spaces
  <2> DEFINE one == << FirstWord(t, n) >>
             rest == BehindIt(t, n)
  <2>5. Words(t) = Prefixed(one, Words(rest))
    <3>1. Words(t) = << SubSeq(t, 1, n) >> \o Words(SubSeq(t, n + 1, Len(t)))
      BY <1>2, <2>4, <2>12, WordsBehind
    <3> QED
      BY <3>1 DEF Prefixed, FirstWord, BehindIt
  <2>6. FirstWord(t, n) \in W /\ rest \in Seq(Sym)
    BY <1>2, FrontType, RestType DEF FirstWord, BehindIt, W
  <2>7. one \in Seq(W) /\ Len(one) = 1
    BY <2>6
  <2>8. Words(rest) \in Seq(W)
    BY <2>6, WordsType DEF W
  <2>9. parse_input(TrimLeft(rest, {Blank})) = FirstOf(Words(rest), k)
    <3>1. TrimLeft(rest, {Blank}) = TrimLeft(rest, Spaces)
      BY <2>6, TrimAlike
    <3> QED
      BY <2>6, <3>1, ParseTrimmed DEF k
  <2> HIDE DEF rest
  <2>10. parse_input(Trim(part)) # <<>>
    <3>1. /\ one \o Words(rest) \in Seq(W)
          /\ Len(one \o Words(rest)) = Len(one) + Len(Words(rest)) /\ Len(Words(rest)) \in Nat
      BY <2>7, <2>8, ConcatProperties, LenProperties
    <3> DEFINE all == Prefixed(one, Words(rest))
    <3>2. all \in Seq(W) /\ Len(all) \in Nat \ {0}
      BY <2>7, <3>1 DEF Prefixed
    <3> HIDE DEF all
    <3>3. FirstOf(all, k) \in Seq(W) /\ Len(FirstOf(all, k)) # 0
      BY <1>1, <3>2, FirstType
    <3>4. FirstOf(all, k) # <<>>
      BY <3>3, EmptySeq
    <3> QED
      BY <1>3, <2>5, <3>4 DEF all
  <2>11. ASSUME Short(Command1(t)) PROVE parse_input(Trim(part)) = CommandWords(Command1(t))
    <3>1. Command1(t).exe = FirstWord(t, n)
      BY <1>1, <2>1, <2>6, <2>11, Uncut DEF Short, W
    <3>2. Command1(t).args = TrimLeft(rest, {Blank})
      <4>1. TrimLeft(rest, {Blank}) \in Seq(Sym)
        BY <2>6, TrimLeftType
      <4> QED
        BY <1>1, <2>1, <2>11, <4>1, Uncut DEF Short, rest
    <3>3. CommandWords(Command1(t)) = FirstOf(Prefixed(one, FirstOf(Words(rest), k)), k)
      BY <2>9, <3>1, <3>2 DEF CommandWords, k
    <3> HIDE DEF one
    <3>4. FirstOf(Prefixed(one, FirstOf(Words(rest), k)), k) = FirstOf(Prefixed(one, Words(rest)), k)
      BY ONLY <1>1, <2>7, <2>8, FirstOfJoined
    <3> QED
      BY <1>3, <2>5, <3>3, <3>4
  <2> QED
    BY <1>6, <2>10, <2>11 DEF t
<1> QED
  BY <1>5, <1>6

-----------------------------------------------------------------------------
\* The list that part 1 builds, as a loop over the parts of the line.
Commands1(Sym) == [exe : Seq(Sym), args : Seq(Sym)]

Adding(Sym) == [rc : {OK, ERR_TOO_MANY_COMMANDS}, list : Seq(Commands1(Sym))]

AddFrom == [rc |-> OK, list |-> <<>>]

AddTurn(Sym) == [p \in Adding(Sym) \X Seq(Sym) |-> AddPart1(p[1], p[2])]

\* Its commands are made of the symbols of the line,
LEMMA Command1Type ==
    ASSUME NEW Sym, NEW s \in Seq(Sym)
    PROVE  Command1(s) \in Commands1(Sym)
<1>1. PICK n \in 0..Len(s) : /\ Command1(s).exe = CutTo(FirstWord(s, n), EXE_MAX)
                             /\ Command1(s).args = CutTo(TrimLeft(BehindIt(s, n), {Blank}), ARG_MAX)
  BY Command1Is
<1>2. ASSUME NEW x \in Seq(Sym), NEW m \in Nat \ {0} PROVE CutTo(x, m) \in Seq(Sym)
  <2> DEFINE i == IF Len(x) < m THEN Len(x) ELSE m - 1
  <2>1. i \in 0..Len(x) /\ CutTo(x, m) = SubSeq(x, 1, i)
    BY LenProperties DEF CutTo
  <2> QED
    BY <2>1, FrontType
<1>3. FirstWord(s, n) \in Seq(Sym) /\ TrimLeft(BehindIt(s, n), {Blank}) \in Seq(Sym)
  BY FrontType, RestType, TrimLeftType DEF FirstWord, BehindIt
<1>4. Command1(s).exe \in Seq(Sym) /\ Command1(s).args \in Seq(Sym)
  BY <1>1, <1>2, <1>3, CmdLineAssumption
<1>5. \E e, a : Command1(s) = [exe |-> e, args |-> a]
  BY DEF Command1
<1> QED
  BY <1>4, <1>5 DEF Commands1

\* so that a turn stays within the states of the loop,
LEMMA AddType ==
    ASSUME NEW Sym, NEW s \in Adding(Sym), NEW part \in Seq(Sym)
    PROVE  AddPart1(s, part) \in Adding(Sym)
<1>1. /\ s.rc \in {OK, ERR_TOO_MANY_COMMANDS} /\ s.list \in Seq(Commands1(Sym))
      /\ s = [rc |-> s.rc, list |-> s.list]
  BY DEF Adding
<1>2. Append(s.list, Command1(TrimLeft(part, {Blank}))) \in Seq(Commands1(Sym))
  BY <1>1, TrimLeftType, Command1Type, AppendProperties
<1> QED
  BY <1>1, <1>2 DEF AddPart1, Adding

\* and the fold over the parts is that loop.
LEMMA AddIsFold ==
    ASSUME NEW Sym, NEW parts \in Seq(Seq(Sym))
    PROVE  IsFold(Adding(Sym), Seq(Sym), AddTurn(Sym), AddFrom, parts, Len(parts))
<1>1. AddTurn(Sym) \in [Adding(Sym) \X Seq(Sym) -> Adding(Sym)]
  BY AddType DEF AddTurn
<1>2. AddFrom \in Adding(Sym)
  <2>1. <<>> \in Seq(Commands1(Sym))
    BY EmptySeq
  <2> QED
    BY <2>1 DEF AddFrom, Adding
<1> QED
  BY <1>1, <1>2, LenProperties DEF IsFold

LEMMA AddIsLoop ==
    ASSUME NEW Sym, NEW parts \in Seq(Seq(Sym))
    PROVE  \E g : /\ Loop(g, Adding(Sym), AddTurn(Sym), AddFrom, parts, Len(parts))
                  /\ FoldLeft(AddPart1, AddFrom, parts) = g[Len(parts)]
<1> DEFINE n == Len(parts)
           T == Adding(Sym)
           E == Seq(Sym)
           F == AddTurn(Sym)
           base == AddFrom
           Step(f, S) == IF S = {} THEN base ELSE AddPart1(f[S \ {Max(S)}], parts[Max(S)])
           h == CHOOSE f : f = [S \in SUBSET (1..n) |-> Step(f, S)]
<1>1. FoldLeft(AddPart1, base, parts) = h[1..n]
  <2>1. DOMAIN parts = 1..n
    BY LenProperties
  <2> QED
    BY <2>1 DEF FoldLeft, MapThenFoldSet
<1>2. IsFold(T, E, F, base, parts, n)
  BY AddIsFold
<1>3. \A a \in T, b \in E : F[<<a, b>>] = AddPart1(a, b)
  BY DEF AddTurn
<1> HIDE DEF F, T, E, base, n
<1>4. \A S \in SUBSET (1..n) : S # {} => parts[Max(S)] \in E
  BY <1>2, LastElement
<1>5. h = [S \in SUBSET (1..n) |-> Step(h, S)]
  <2>1. PICK f : Table(f, T, F, base, parts, n)
    BY <1>2, FoldTable
  <2>2. \A S \in SUBSET (1..n) : f[S] = Step(f, S)
    BY <1>3, <1>4, <2>1 DEF Table
  <2>3. f = [S \in SUBSET (1..n) |-> Step(f, S)]
    BY <2>1, <2>2 DEF Table
  <2> QED
    BY <2>3
<1> HIDE DEF h
<1>6. Unfolds(h, T, F, base, parts, n)
  <2>1. \A S \in SUBSET (1..n) : h[S] = Step(h, S)
    BY <1>5
  <2> QED
    BY <1>3, <1>4, <2>1 DEF Unfolds
<1> QED
  BY <1>1, <1>2, <1>6, FoldIsLoop DEF T, E, F, base, n

-----------------------------------------------------------------------------
\* As long as part 1 has room the two lists grow together.
Alike1(list, kept) ==
    /\ Len(list) <= CMD_MAX /\ Len(kept) = Len(list)
    /\ \A j \in 1..Len(list) : Short(list[j]) => kept[j] = CommandWords(list[j])

Kept(Sym) == Seq(Seq(Words1(Sym)) \ {<<>>})

LEMMA ListsGrow ==
    ASSUME NEW Sym, Quote \notin Sym, Tab \notin Sym, NEW part \in Seq(Sym),
           NEW s \in Adding(Sym), NEW kept \in Kept(Sym), s.rc = OK => Alike1(s.list, kept),
           AddPart1(s, part).rc = OK
    PROVE  Alike1(AddPart1(s, part).list, Keep(kept, parse_input(Trim(part))))
<1> DEFINE t == TrimLeft(part, {Blank})
           c == Command1(t)
           p == parse_input(Trim(part))
<1>1. /\ t = <<>> <=> p = <<>>
      /\ t # <<>> /\ Short(c) => p = CommandWords(c)
  BY CommandsAgree
<1>2. s.rc = OK /\ ~(Len(s.list) >= CMD_MAX)
  <2>1. ERR_TOO_MANY_COMMANDS # OK
    BY DEF OK, ERR_TOO_MANY_COMMANDS
  <2>2. s = [rc |-> s.rc, list |-> s.list]
    BY DEF Adding
  <2> QED
    BY <2>1, <2>2 DEF AddPart1
<1>3. s.list \in Seq(Commands1(Sym)) /\ Len(s.list) \in Nat /\ CMD_MAX \in Nat
  BY CmdLineAssumption, LenProperties DEF Adding
<1>4. CASE t = <<>>
  <2>1. AddPart1(s, part) = s /\ Keep(kept, p) = kept
    BY <1>1, <1>2, <1>4 DEF AddPart1, Keep
  <2> QED
    BY <1>2, <2>1
<1>5. CASE t # <<>>
  <2>1. c \in Commands1(Sym)
    BY TrimLeftType, Command1Type
  <2>2. p \in Seq(Words1(Sym)) \ {<<>>}
    <3>1. Trim(part) \in Seq(Sym)
      BY TrimType
    <3>2. p \in ArgLists(Sym, CMD_ARGV_MAX - 1)
      BY <3>1, ParseInputType
    <3> QED
      BY <1>1, <1>5, <3>2 DEF ArgLists
  <2>3. AddPart1(s, part).list = Append(s.list, c)
    <3>1. s = [rc |-> s.rc, list |-> s.list]
      BY DEF Adding
    <3> QED
      BY <1>2, <1>5, <3>1 DEF AddPart1
  <2>4. Keep(kept, p) = Append(kept, p)
    BY <1>1, <1>5 DEF Keep
  <2> HIDE DEF t, c, p
  <2> DEFINE m == Len(s.list)
  <2>5. /\ Len(Append(s.list, c)) = m + 1
        /\ \A j \in 1..m : Append(s.list, c)[j] = s.list[j]
        /\ Append(s.list, c)[m + 1] = c
    BY <1>3, <2>1, AppendProperties
  <2>6. Len(kept) = m /\ \A j \in 1..m : Short(s.list[j]) => kept[j] = CommandWords(s.list[j])
    BY <1>2 DEF Alike1
  <2>7. /\ Len(Append(kept, p)) = m + 1
        /\ \A j \in 1..m : Append(kept, p)[j] = kept[j]
        /\ Append(kept, p)[m + 1] = p
    BY <2>2, <2>6, AppendProperties DEF Kept
  <2>8. \A j \in 1..m + 1 : j \in 1..m \/ j = m + 1
    BY <1>3
  <2>9. m + 1 <= CMD_MAX
    BY <1>2, <1>3
  <2> HIDE DEF m
  <2>10. Alike1(Append(s.list, c), Append(kept, p))
    BY <1>1, <1>5, <2>5, <2>6, <2>7, <2>8, <2>9 DEF Alike1
  <2> QED
    BY <2>3, <2>4, <2>10 DEF p
<1> QED
  BY <1>4, <1>5

\* Part 1 and part 3 find the same commands on a line without quotes and tabs,
\* whenever part 1 has room for them and need not cut them.  (Part 1 takes a
\* quote for a letter, and a tab as well: 3-ShellP1 dshlib.c:55-69.)
THEOREM PartsFindTheSame ==
    ASSUME NEW Sym, Quote \notin Sym, Tab \notin Sym, NEW line \in Seq(Sym), build_cmd_list1(line).rc = OK,
           \A i \in DOMAIN build_cmd_list1(line).list : Short(build_cmd_list1(line).list[i])
    PROVE  build_cmd_list(line)
             = [i \in DOMAIN build_cmd_list1(line).list |-> CommandWords(build_cmd_list1(line).list[i])]
<1> DEFINE parts == Split(line, Pipe)
           n == Len(parts)
           E == Seq(Words1(Sym))
           parsed == [i \in DOMAIN parts |-> parse_input(Trim(parts[i]))]
           one == build_cmd_list1(line)
           all == NonEmpty(parsed)
<1>1. parts \in Seq(Seq(Sym)) /\ n \in Nat /\ DOMAIN parts = 1..n
  BY SplitType, LenProperties DEF Parts
<1>2. one = FoldLeft(AddPart1, AddFrom, parts)
  <2>1. WARN_NO_CMDS # OK
    BY DEF WARN_NO_CMDS, OK
  <2> QED
    BY <2>1 DEF build_cmd_list1, AddFrom
<1>3. ASSUME NEW i \in 1..n PROVE parts[i] \in Seq(Sym) /\ parse_input(Trim(parts[i])) \in E
  <2>1. parts[i] \in Seq(Sym)
    BY <1>1, ElementOfSeq
  <2>2. parse_input(Trim(parts[i])) \in ArgLists(Sym, CMD_ARGV_MAX - 1)
    BY <2>1, TrimType, ParseInputType
  <2> QED
    BY <2>1, <2>2 DEF ArgLists
<1>4. parsed \in Seq(E) /\ Len(parsed) = n /\ \A i \in 1..n : parsed[i] = parse_input(Trim(parts[i]))
  <2> HIDE DEF parts, E, n
  <2> QED
    BY <1>1, <1>3
<1>5. build_cmd_list(line) = SubSeq(all, 1, IF Len(all) > CMD_MAX THEN CMD_MAX ELSE Len(all))
  BY DEF build_cmd_list
<1> HIDE DEF parts, parsed, n, E
<1>6. PICK g : /\ Loop(g, Adding(Sym), AddTurn(Sym), AddFrom, parts, n)
               /\ FoldLeft(AddPart1, AddFrom, parts) = g[n]
  BY <1>1, AddIsLoop DEF n
<1>7. PICK f : /\ Loop(f, Seq(E \ {<<>>}), KeepTurn(E), <<>>, parsed, n)
               /\ all = f[n]
  BY <1>4, KeepIsLoop
<1> DEFINE D == {i \in Nat : i <= n /\ g[i].rc = OK => Alike1(g[i].list, f[i])}
<1>8. 0 \in D
  <2>1. g[0] = AddFrom /\ f[0] = <<>>
    BY <1>6, <1>7 DEF Loop
  <2>2. Alike1(<<>>, <<>>)
    <3>1. Len(<<>>) = 0 /\ 1..0 = {} /\ 0 <= CMD_MAX
      BY CmdLineAssumption
    <3> QED
      BY <3>1 DEF Alike1
  <2> QED
    BY <2>1, <2>2 DEF AddFrom
<1>9. ASSUME NEW i \in Nat, i \in D PROVE i + 1 \in D
  <2> SUFFICES ASSUME i + 1 <= n, g[i + 1].rc = OK PROVE Alike1(g[i + 1].list, f[i + 1])
    OBVIOUS
  <2>1. i + 1 \in 1..n /\ i \in 0..n /\ i <= n /\ i + 1 - 1 = i
    BY <1>1
  <2>2. g[i] \in Adding(Sym) /\ g[i + 1] = AddTurn(Sym)[<<g[i], parts[i + 1]>>]
    BY ONLY <1>6, <2>1 DEF Loop
  <2>3. f[i] \in Seq(E \ {<<>>}) /\ f[i + 1] = KeepTurn(E)[<<f[i], parsed[i + 1]>>]
    BY ONLY <1>7, <2>1 DEF Loop
  <2>4. g[i + 1] = AddPart1(g[i], parts[i + 1])
    BY <1>3, <2>1, <2>2 DEF AddTurn
  <2>5. f[i + 1] = Keep(f[i], parse_input(Trim(parts[i + 1])))
    BY <1>3, <1>4, <2>1, <2>3 DEF KeepTurn
  <2>6. f[i] \in Kept(Sym)
    BY <2>3 DEF Kept, E
  <2>7. g[i].rc = OK => Alike1(g[i].list, f[i])
    BY <1>9, <2>1
  <2>8. parts[i + 1] \in Seq(Sym)
    BY <1>3, <2>1
  <2> QED
    BY <2>2, <2>4, <2>5, <2>6, <2>7, <2>8, ListsGrow
<1>10. g[n].rc = OK => Alike1(g[n].list, f[n])
  <2>1. Nat \subseteq D
    <3> HIDE DEF D
    <3> QED
      BY <1>8, <1>9, NatSetInduction
  <2> QED
    BY <1>1, <2>1
<1>11. one.rc = OK /\ one = g[n] /\ Alike1(one.list, all)
  BY <1>2, <1>6, <1>7, <1>10
<1>12. one \in Adding(Sym) /\ all \in Seq(E \ {<<>>})
  <2>1. n \in 0..n
    BY <1>1
  <2>2. g[n] \in Adding(Sym)
    BY ONLY <1>6, <2>1 DEF Loop
  <2>3. f[n] \in Seq(E \ {<<>>})
    BY ONLY <1>7, <2>1 DEF Loop
  <2> QED
    BY <1>7, <1>11, <2>2, <2>3
<1>13. \A i \in DOMAIN one.list : Short(one.list[i])
  OBVIOUS
<1> HIDE DEF one, all
<1>14. one.list \in Seq(Commands1(Sym)) /\ DOMAIN one.list = 1..Len(one.list) /\ Len(one.list) \in Nat
  BY <1>12, LenProperties DEF Adding
<1>15. build_cmd_list(line) = all
  <2>1. Len(all) \in Nat /\ ~(Len(all) > CMD_MAX)
    BY <1>11, <1>14, CmdLineAssumption DEF Alike1
  <2> QED
    BY <1>5, <1>12, <2>1, SubSeqFull
<1>16. /\ DOMAIN all = 1..Len(one.list)
       /\ \A i \in 1..Len(one.list) : all[i] = CommandWords(one.list[i])
  BY <1>11, <1>12, <1>13, <1>14, LenProperties DEF Alike1
<1>17. all = [i \in DOMAIN all |-> all[i]]
  BY <1>12, LenProperties
<1>18. all = [i \in DOMAIN one.list |-> CommandWords(one.list[i])]
  BY <1>14, <1>16, <1>17
<1> QED
  BY <1>15, <1>18 DEF one

\* A line that counts none of a symbol has none.
LEMMA HasNone ==
    ASSUME NEW Sym, NEW s \in Seq(Sym), NEW ch, Count(s, ch, 1, Len(s)) = 0
    PROVE  s \in Seq(Sym \ {ch})
<1> DEFINE Q == {m \in 1..Len(s) : s[m] = ch}
<1>1. Len(s) \in Nat /\ Q \in SUBSET (1..Len(s)) /\ Cardinality(Q) = 0
  BY LenProperties DEF Count
<1>2. Q = {}
  <2> HIDE DEF Q
  <2> QED
    BY <1>1, PositionsFinite, FS_EmptySet
<1>3. \A m \in 1..Len(s) : s[m] \in Sym \ {ch}
  BY <1>2, ElementOfSeq
<1>4. SubSeq(s, 1, Len(s)) \in Seq(Sym \ {ch})
  BY <1>1, <1>3, SubSeqProperties
<1> QED
  BY <1>4, SubSeqFull
=============================================================================
