--------------------------- MODULE LocalShellProofs ---------------------------
(***************************************************************************)
(* The local shell for any keyboard, any length of line and any limits:    *)
(* its types, how it takes a line apart, the argv it gives to execvp, the  *)
(* arguments it frees, and what ends it.                                   *)
(***************************************************************************)
EXTENDS LocalShell, CmdLineProofs

-----------------------------------------------------------------------------
\* The arguments of a list of commands, counted by a fold.
AddLen(n, args) == n + Len(args)

CountTurn == [p \in Nat \X Commands(Symbols) |-> AddLen(p[1], p[2])]

LEMMA CountIsFold ==
    ASSUME NEW list \in Seq(Commands(Symbols))
    PROVE  IsFold(Nat, Commands(Symbols), CountTurn, 0, list, Len(list))
<1>1. \A n \in Nat, args \in Commands(Symbols) : AddLen(n, args) \in Nat
  <2>1. ASSUME NEW args \in Commands(Symbols) PROVE Len(args) \in Nat
    BY LenProperties DEF Commands, ArgLists
  <2> QED
    BY <2>1 DEF AddLen
<1>2. CountTurn \in [Nat \X Commands(Symbols) -> Nat]
  BY <1>1 DEF CountTurn
<1> QED
  BY <1>2, LenProperties DEF IsFold

LEMMA CountIsLoop ==
    ASSUME NEW list \in Seq(Commands(Symbols))
    PROVE  \E g : /\ Loop(g, Nat, CountTurn, 0, list, Len(list))
                  /\ Arguments(list) = g[Len(list)]
<1> DEFINE n == Len(list)
           E == Commands(Symbols)
           F == CountTurn
           Step(f, S) == IF S = {} THEN 0 ELSE AddLen(f[S \ {Max(S)}], list[Max(S)])
           h == CHOOSE f : f = [S \in SUBSET (1..n) |-> Step(f, S)]
<1>1. Arguments(list) = h[1..n]
  <2>1. DOMAIN list = 1..n
    BY LenProperties
  <2> QED
    BY <2>1 DEF Arguments, AddLen, FoldLeft, MapThenFoldSet
<1>2. IsFold(Nat, E, F, 0, list, n)
  BY CountIsFold
<1>3. \A a \in Nat, b \in E : F[<<a, b>>] = AddLen(a, b)
  BY DEF CountTurn
<1> HIDE DEF F, E, n
<1>4. \A S \in SUBSET (1..n) : S # {} => list[Max(S)] \in E
  BY <1>2, LastElement
<1>5. h = [S \in SUBSET (1..n) |-> Step(h, S)]
  <2>1. PICK f : Table(f, Nat, F, 0, list, n)
    BY <1>2, FoldTable
  <2>2. \A S \in SUBSET (1..n) : f[S] = Step(f, S)
    BY <1>3, <1>4, <2>1 DEF Table
  <2>3. f = [S \in SUBSET (1..n) |-> Step(f, S)]
    BY <2>1, <2>2 DEF Table
  <2> QED
    BY <2>3
<1> HIDE DEF h
<1>6. Unfolds(h, Nat, F, 0, list, n)
  <2>1. \A S \in SUBSET (1..n) : h[S] = Step(h, S)
    BY <1>5
  <2> QED
    BY <1>3, <1>4, <2>1 DEF Unfolds
<1> QED
  BY <1>1, <1>2, <1>6, FoldIsLoop DEF F, E, n

LEMMA ArgumentsType ==
    ASSUME NEW list \in Seq(Commands(Symbols))
    PROVE  Arguments(list) \in Nat
BY CountIsFold, CountIsLoop, LoopStays

LEMMA NoCommandNoArgument == Arguments(<<>>) = 0
<1>1. <<>> \in Seq(Commands(Symbols)) /\ Len(<<>>) = 0
  BY EmptySeq
<1>2. PICK g : Loop(g, Nat, CountTurn, 0, <<>>, 0) /\ Arguments(<<>>) = g[0]
  BY <1>1, CountIsLoop
<1> QED
  BY ONLY <1>2, LoopOfNone

-----------------------------------------------------------------------------
\* fgets takes at most what there is.
LEMMA FgetsLenType ==
    ASSUME input \in Seq(Symbols)
    PROVE  FgetsLen \in 0..Len(input)
<1>1. Len(input) \in Nat /\ SH_CMD_MAX \in Nat \ {0, 1}
  BY LenProperties, LocalShellAssumption
<1> DEFINE room == IF Len(input) < SH_CMD_MAX THEN Len(input) ELSE SH_CMD_MAX - 1
<1>2. room \in 0..Len(input)
  BY <1>1
<1>3. FgetsLen = IF FullLine \in 1..room THEN FullLine
                 ELSE IF room = SH_CMD_MAX - 1 \/ eof THEN room ELSE 0
  BY DEF FgetsLen
<1> HIDE DEF room
<1>4. CASE FullLine \in 1..room
  BY <1>1, <1>2, <1>3, <1>4
<1>5. CASE FullLine \notin 1..room
  BY <1>1, <1>2, <1>3, <1>5
<1> QED
  BY <1>4, <1>5

(***************************************************************************)
(* What holds of the loop at any time.  The list and the heap agree: while *)
(* a list of commands is held it is not empty and its arguments are what   *)
(* is on the heap; at the prompt and behind the end there is nothing.      *)
(***************************************************************************)
ListHeld ==
    /\ clist \in Seq(Commands(Symbols))
    /\ pc \in {"read", "over"} => live = 0 /\ clist = <<>>
    /\ pc \in {"parsed", "run"} => clist # <<>> /\ live = Arguments(clist)
    /\ pc = "over" <=> ended # "no"

(***************************************************************************)
(* What is held is what the last line has made of it, and what has ended   *)
(* the loop stands in that line.                                           *)
(***************************************************************************)
ExitTold ==
    QuotesClose(line) => Meaning(line) # <<>> /\ Meaning(line)[1][1] = EXIT_CMD

ListFromLine ==
    /\ pc \in {"parsed", "run"} => clist = build_cmd_list(line)
    /\ ended = "exit" => ExitTold

ShellInv == TypeOK /\ ListHeld /\ ListFromLine

LEMMA ListType ==
    ASSUME NEW list \in Seq(Commands(Symbols))
    PROVE  list \in Seq(Seq(Seq(Symbols)))
<1>1. Commands(Symbols) \subseteq Seq(Seq(Symbols))
  <2>1. Words1(Symbols) \subseteq Seq(Symbols)
    BY DEF Words1
  <2>2. ASSUME NEW c \in Commands(Symbols) PROVE c \in Seq(Seq(Symbols))
    BY <2>1, SeqMonotonic DEF Commands, ArgLists
  <2> QED
    BY <2>2
<1> QED
  BY <1>1, SeqMonotonic

LEMMA InitShell == ShellInit => ShellInv
<1> SUFFICES ASSUME ShellInit PROVE ShellInv
  OBVIOUS
<1>1. /\ <<>> \in Seq(Symbols) /\ <<>> \in Seq(Symbols \ {NewLine})
      /\ <<>> \in Seq(Commands(Symbols)) /\ <<>> \in Seq(Seq(Seq(Symbols)))
  BY EmptySeq
<1>2. TypeOK
  <2>1. 0 \in 0..MaxTyped
    BY LocalShellAssumption
  <2>2. live \in Nat
    BY DEF ShellInit
  <2> QED
    BY <1>1, <2>1, <2>2, Zenon DEF ShellInit, TypeOK
<1>3. ListHeld
  BY <1>1 DEF ShellInit, ListHeld
<1>4. ListFromLine
  BY DEF ShellInit, ListFromLine
<1> QED
  BY <1>2, <1>3, <1>4 DEF ShellInv

LEMMA ReadLineKeeps == ShellInv /\ ReadLine => ShellInv'
<1> SUFFICES ASSUME ShellInv, ReadLine PROVE ShellInv'
  OBVIOUS
<1>1. input \in Seq(Symbols) /\ Len(input) \in Nat /\ FgetsLen \in 0..Len(input)
  BY FgetsLenType, LenProperties DEF ShellInv, TypeOK
<1>2. /\ SubSeq(input, 1, FgetsLen) \in Seq(Symbols)
      /\ SubSeq(input, FgetsLen + 1, Len(input)) \in Seq(Symbols)
  <2>1. \A i \in 1..Len(input) : input[i] \in Symbols
    BY <1>1, ElementOfSeq
  <2>2. FgetsLen \in Int /\ FgetsLen + 1 \in Int /\ 1 \in Int /\ Len(input) \in Int
    BY <1>1
  <2>3. /\ \A i \in 1..FgetsLen : input[i] \in Symbols
        /\ \A i \in FgetsLen + 1..Len(input) : input[i] \in Symbols
    BY <1>1, <2>1
  <2> QED
    BY <2>2, <2>3, SubSeqProperties
<1>3. line' \in Seq(Symbols \ {NewLine}) /\ input' \in Seq(Symbols)
  BY <1>2, ChompedType DEF ReadLine
<1>4. pc = "read" /\ live = 0 /\ clist = <<>> /\ ended = "no"
  BY DEF ReadLine, ShellInv, ListHeld, TypeOK
<1>5. typed' \in 0..MaxTyped /\ eof' \in BOOLEAN
  BY DEF ReadLine, ShellInv, TypeOK
<1>6. CASE line' = EXIT_CMD /\ pc' = "over" /\ ended' = "exit" /\ UNCHANGED <<clist, live>>
  <2>1. TypeOK'
    BY <1>3, <1>5, <1>6 DEF ShellInv, TypeOK
  <2>2. ListHeld'
    BY <1>4, <1>6, EmptySeq DEF ListHeld
  <2>3. ExitTold'
    <3>1. Meaning(line') = << <<EXIT_CMD>> >>
      BY <1>6, OneLetter DEF EXIT_CMD, Pipe, Spaces, Blank, Tab, Quote
    <3>2. << <<EXIT_CMD>> >> # <<>> /\ << <<EXIT_CMD>> >>[1][1] = EXIT_CMD
      OBVIOUS
    <3> QED
      BY <3>1, <3>2 DEF ExitTold
  <2>4. ListFromLine'
    BY <1>6, <2>3 DEF ListFromLine
  <2> QED
    BY <2>1, <2>2, <2>4 DEF ShellInv
<1>7. CASE /\ clist' = build_cmd_list(line')
           /\ live' = live + Arguments(clist')
           /\ pc' = IF line' = <<>> \/ build_rc(line') # OK THEN "read" ELSE "parsed"
           /\ UNCHANGED ended
  <2>1. line' \in Seq(Symbols)
    BY <1>3, SeqMonotonic
  <2>2. clist' \in Seq(Commands(Symbols)) /\ clist' \in Seq(Seq(Seq(Symbols)))
    BY <1>7, <2>1, BuildCmdListType, ListType
  <2>3. Arguments(clist') \in Nat /\ live' = Arguments(clist')
    BY <1>4, <1>7, <2>2, ArgumentsType
  <2>4. pc' = "read" \/ pc' = "parsed"
    BY <1>7
  <2>5. pc' = "read" => clist' = <<>>
    <3>1. CASE line' = <<>>
      BY <1>7, <3>1, BuildNothing
    <3>2. CASE line' # <<>>
      BY <1>7, <3>2 DEF build_rc
    <3> QED
      BY <3>1, <3>2
  <2>6. pc' = "parsed" => clist' # <<>>
    BY <1>7 DEF build_rc, OK, WARN_NO_CMDS
  <2>7. pc' = "read" => live' = 0
    BY <2>3, <2>5, NoCommandNoArgument
  <2>8. TypeOK'
    BY <1>3, <1>4, <1>5, <1>7, <2>2, <2>3, <2>4 DEF TypeOK
  <2>9. ListHeld'
    BY <1>4, <1>7, <2>2, <2>3, <2>4, <2>5, <2>6, <2>7 DEF ListHeld
  <2>10. ListFromLine'
    BY <1>4, <1>7 DEF ListFromLine
  <2> QED
    BY <2>8, <2>9, <2>10 DEF ShellInv
<1> QED
  BY <1>6, <1>7 DEF ReadLine

\* The list is freed where it is held, and everything in it.
LEMMA FreedClean ==
    ASSUME ShellInv, pc \in {"parsed", "run"}, free_cmd_list
    PROVE  clist' = <<>> /\ live' = 0
<1>1. Arguments(clist) \in Nat /\ live = Arguments(clist)
  BY ArgumentsType DEF ShellInv, ListHeld
<1> QED
  BY <1>1 DEF free_cmd_list

LEMMA StepShell == ShellInv /\ [Next]_vars => ShellInv'
<1> SUFFICES ASSUME ShellInv, [Next]_vars PROVE ShellInv'
  OBVIOUS
<1>0. <<>> \in Seq(Commands(Symbols)) /\ <<>> \in Seq(Seq(Seq(Symbols)))
  BY EmptySeq
<1>1. ASSUME NEW ch \in Symbols, Type(ch) PROVE ShellInv'
  <2>1. input' \in Seq(Symbols) /\ typed' \in 0..MaxTyped
    BY <1>1, AppendProperties, LocalShellAssumption DEF Type, ShellInv, TypeOK
  <2>2. UNCHANGED <<pc, eof, line, clist, live, ended>>
    BY <1>1 DEF Type
  <2> QED
    BY <2>1, <2>2 DEF ShellInv, TypeOK, ListHeld, ListFromLine, ExitTold
<1>2. CASE CloseInput
  BY <1>2 DEF CloseInput, ShellInv, TypeOK, ListHeld, ListFromLine, ExitTold
<1>3. CASE ReadLine
  BY <1>3, ReadLineKeeps
<1>4. CASE EndOfInput
  BY <1>4 DEF EndOfInput, ShellInv, TypeOK, ListHeld, ListFromLine, ExitTold
<1>5. CASE ExecExit
  <2>1. clist' = <<>> /\ live' = 0
    BY <1>5, FreedClean DEF ExecExit
  <2>2. TypeOK' /\ ListHeld'
    BY <1>0, <1>5, <2>1 DEF ExecExit, ShellInv, TypeOK, ListHeld
  <2>3. ExitTold
    <3>1. line \in Seq(Symbols)
      BY SeqMonotonic DEF ShellInv, TypeOK
    <3>2. clist = build_cmd_list(line) /\ clist # <<>> /\ clist[1][1] = EXIT_CMD
      BY <1>5 DEF ExecExit, Builtin, ShellInv, ListHeld, ListFromLine
    <3> QED
      BY <3>1, <3>2, FirstWordKept DEF ExitTold
  <2>4. ListFromLine'
    BY <1>5, <2>3 DEF ExecExit, ListFromLine, ExitTold
  <2> QED
    BY <2>2, <2>4 DEF ShellInv
<1>6. CASE ExecCd
  <2>1. clist' = <<>> /\ live' = 0
    BY <1>6, FreedClean DEF ExecCd
  <2> QED
    BY <1>0, <1>6, <2>1 DEF ExecCd, ShellInv, TypeOK, ListHeld, ListFromLine, ExitTold
<1>7. CASE ExecPipeline
  BY <1>7 DEF ExecPipeline, ShellInv, TypeOK, ListHeld, ListFromLine, ExitTold
<1>8. CASE PipelineReturns
  <2>1. clist' = <<>> /\ live' = 0
    BY <1>8, FreedClean DEF PipelineReturns
  <2> QED
    BY <1>0, <1>8, <2>1 DEF PipelineReturns, ShellInv, TypeOK, ListHeld, ListFromLine, ExitTold
<1>9. CASE UNCHANGED vars
  BY <1>9 DEF vars, ShellInv, TypeOK, ListHeld, ListFromLine, ExitTold
<1> QED
  BY <1>1, <1>2, <1>3, <1>4, <1>5, <1>6, <1>7, <1>8, <1>9 DEF Next

\* The strengthened invariant holds throughout: the list and the heap agree
\* (dshlib.c:395-457).
THEOREM AlwaysShellInv == Spec => []ShellInv
BY InitShell, StepShell, PTL DEF Spec

-----------------------------------------------------------------------------
\* The variables of the loop stay within their types, and cmd_line holds no
\* newline where it is parsed.
THEOREM TypeCorrect == Spec => []TypeOK
<1>1. ShellInv => TypeOK
  BY DEF ShellInv
<1> QED
  BY <1>1, AlwaysShellInv, PTL

\* Whatever is typed, every argv the shell builds has room for the NULL that
\* build_argv writes without looking, and holds a command.
THEOREM RoomForNull == Spec => []ArgvFits
<1>1. ShellInv => ArgvFits
  <2> SUFFICES ASSUME ShellInv, NEW i \in DOMAIN clist PROVE Len(clist[i]) \in 1..CMD_ARGV_MAX - 1
    BY DEF ArgvFits
  <2>1. clist \in Seq(Commands(Symbols)) /\ i \in 1..Len(clist)
    BY LenProperties DEF ShellInv, ListHeld
  <2>2. clist[i] \in Commands(Symbols)
    BY <2>1, ElementOfSeq
  <2>3. /\ clist[i] \in Seq(Words1(Symbols)) /\ Len(clist[i]) <= CMD_ARGV_MAX - 1
        /\ clist[i] # <<>>
    BY <2>2 DEF Commands, ArgLists
  <2>4. Len(clist[i]) \in Nat \ {0}
    BY <2>3, EmptySeq
  <2> QED
    BY <2>3, <2>4, CmdLineAssumption
<1> QED
  BY <1>1, AlwaysShellInv, PTL

\* Every way back to the prompt, and every way out, has freed each argument
\* that build_cmd_list copied.
THEOREM FreesWhatItCopies == Spec => []NoArgumentLeaks
<1>1. ShellInv => NoArgumentLeaks
  BY DEF ShellInv, ListHeld, NoArgumentLeaks
<1> QED
  BY <1>1, AlwaysShellInv, PTL

\* build_cmd_list makes of every line what it says: the commands between its
\* pipes in order, each with its words and no empty one, as long as there is
\* room for them.  (BuildFinds says what becomes of a line there is none for.)
THEOREM ParsesWhatIsWritten == Spec => []ParsedAsWritten
<1>1. TypeOK => ParsedAsWritten
  <2> DEFINE Sym == Symbols \ {NewLine}
             M == Meaning(line)
             k == CMD_ARGV_MAX - 1
  <2> SUFFICES ASSUME TypeOK, QuotesClose(line), Fits(M) PROVE build_cmd_list(line) = M
    BY DEF ParsedAsWritten
  <2>1. line \in Seq(Sym)
    BY DEF TypeOK
  <2>2. k \in Nat /\ CMD_MAX \in Nat
    BY CmdLineAssumption
  <2>3. M \in Seq(Seq(Seq(Sym)))
    <3>1. M \in Seq(Seq(Seq(Sym)) \ {<<>>})
      BY <2>1, MeaningType
    <3> HIDE DEF M, Sym
    <3> QED
      BY <3>1, SeqMonotonic
  <2>4. build_cmd_list(line) = FirstOf(FirstOfEach(M, k), CMD_MAX)
    BY <2>1, BuildFinds
  <2>5. Len(M) <= CMD_MAX /\ \A i \in 1..Len(M) : M[i] \in Seq(Seq(Sym)) /\ Len(M[i]) <= k
    <3> HIDE DEF Sym, M
    <3>1. \A i \in 1..Len(M) : M[i] \in Seq(Seq(Sym)) /\ Len(M[i]) \in Nat
      BY <2>3, ElementOfSeq, LenProperties
    <3>2. Len(M) <= CMD_MAX /\ DOMAIN M = 1..Len(M) /\ \A i \in DOMAIN M : Len(M[i]) < CMD_ARGV_MAX
      BY <2>3, LenProperties DEF Fits
    <3>3. ASSUME NEW i \in 1..Len(M) PROVE Len(M[i]) <= k
      <4>1. Len(M[i]) \in Nat /\ Len(M[i]) < CMD_ARGV_MAX
        BY <3>1, <3>2
      <4> QED
        BY <4>1, CmdLineAssumption
    <3> QED
      BY <3>1, <3>2, <3>3
  <2> HIDE DEF M, Sym, k
  <2>6. FirstOfEach(M, k) = M
    <3>1. /\ FirstOfEach(M, k) \in Seq(Seq(Seq(Sym))) /\ Len(FirstOfEach(M, k)) = Len(M)
          /\ \A i \in 1..Len(M) : FirstOfEach(M, k)[i] = FirstOf(M[i], k)
      BY <2>2, <2>3, FirstOfEachType
    <3>2. \A i \in 1..Len(M) : FirstOf(M[i], k) = M[i]
      BY <2>2, <2>5, FirstWhole
    <3> QED
      BY <2>3, <3>1, <3>2, SeqEqual
  <2>7. FirstOf(M, CMD_MAX) = M
    BY <2>2, <2>3, <2>5, FirstWhole
  <2> QED
    BY <2>4, <2>6, <2>7
<1> QED
  BY <1>1, TypeCorrect, PTL

\* The loop returns at the end of the input or because the first word of the
\* line is exit, never for an exit elsewhere in a pipeline.
THEOREM EndsWhenTold == Spec => []EndsOnlyWhenTold
<1>1. ShellInv => EndsOnlyWhenTold
  BY DEF ShellInv, ListHeld, ListFromLine, ExitTold, EndsOnlyWhenTold
<1> QED
  BY <1>1, AlwaysShellInv, PTL

\* On every line without quotes and tabs part 1 and part 3 of the shell find the same
\* commands with the same words, whenever part 1 accepts the line and its
\* buffers hold the words.
THEOREM PartsOneAndThreeAgree == Spec => []PartsAgree
<1>1. TypeOK => PartsAgree
  <2> DEFINE one == build_cmd_list1(line)
  <2> SUFFICES ASSUME TypeOK, Count(line, Quote, 1, Len(line)) = 0,
                      Count(line, Tab, 1, Len(line)) = 0, one.rc = OK,
                      \A i \in DOMAIN one.list : /\ Len(one.list[i].exe) < EXE_MAX - 1
                                                 /\ Len(one.list[i].args) < ARG_MAX - 1
               PROVE  build_cmd_list(line)
                        = [i \in DOMAIN one.list |->
                             FirstOf(<<one.list[i].exe>> \o parse_input(one.list[i].args), CMD_ARGV_MAX - 1)]
    BY DEF PartsAgree
  <2> DEFINE Lines == (Symbols \ {NewLine}) \ {Quote}
             Sym == Lines \ {Tab}
  <2>1. line \in Seq(Sym) /\ Quote \notin Sym /\ Tab \notin Sym
    <3>1. line \in Seq(Lines)
      BY HasNone DEF TypeOK
    <3> HIDE DEF Lines
    <3>2. line \in Seq(Sym)
      BY <3>1, HasNone
    <3> QED
      BY <3>2 DEF Lines
  <2>2. \A i \in DOMAIN one.list : Short(one.list[i])
    BY DEF Short
  <2> HIDE DEF Sym
  <2>3. build_cmd_list(line) = [i \in DOMAIN one.list |-> CommandWords(one.list[i])]
    BY <2>1, <2>2, PartsFindTheSame
  <2> QED
    BY <2>3 DEF CommandWords, Prefixed
<1> QED
  BY <1>1, TypeCorrect, PTL
=============================================================================
