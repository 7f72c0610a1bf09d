----------------------------- MODULE Shell2Proofs -----------------------------
(***************************************************************************)
(* The shell of part 2 for any scripts, commands and limits: its types,    *)
(* the argv it gives to execvp, what it dies of, and what becomes of the   *)
(* input it reads and the output it prints.                                *)
(***************************************************************************)
EXTENDS Shell2, CmdLineProofs

(***************************************************************************)
(* Shell2TypeOK says nothing of the cmd_buff_t behind its argc, nor that   *)
(* the output is counted in numbers; the proofs need both.                 *)
(***************************************************************************)
Output == [printed : Nat, held : Nat, written : Nat]

ShellTyped ==
    /\ Shell2TypeOK
    /\ stdin \in Inputs /\ script \in Scripts
    /\ line \in Seq(Symbols)
    /\ cmd.argv \in [Entries -> Seq(Symbols) \cup {Null, Wild}]
    /\ setBack \in BOOLEAN /\ doubled \in BOOLEAN
    /\ out \in Output

USE DEF ghosts

-----------------------------------------------------------------------------
\* A function over the first numbers is a sequence.
LEMMA TableIsSeq ==
    ASSUME NEW S, NEW n \in Nat, NEW f \in [1..n -> S]
    PROVE  f \in Seq(S) /\ Len(f) = n
OBVIOUS

LEMMA LineEndType ==
    ASSUME NEW S, NEW s \in Seq(S)
    PROVE  LineEnd(s) \in 0..Len(s)
<1> DEFINE Ends == {i \in 1..Len(s) : s[i] = NewLine}
<1>1. Len(s) \in Nat
  BY LenProperties
<1>2. LineEnd(s) = IF Ends # {} THEN Min(Ends) ELSE 0
  BY DEF LineEnd, SelectInSeq
<1>3. ASSUME Ends # {} PROVE Min(Ends) \in Ends
  <2>1. Ends \subseteq Nat
    BY <1>1
  <2> HIDE DEF Ends
  <2> QED
    BY <1>3, <2>1, MinIsLeast
<1>4. Ends \subseteq 0..Len(s) /\ 0 \in 0..Len(s)
  BY <1>1
<1> HIDE DEF Ends
<1> QED
  BY <1>2, <1>3, <1>4

LEMMA SymbolType ==
    ASSUME script \in Seq(Symbols), NEW positions \in Seq(1..Len(script))
    PROVE  Symbol(positions) \in Seq(Symbols) /\ Len(Symbol(positions)) = Len(positions)
<1>1. DOMAIN positions = 1..Len(positions) /\ Len(positions) \in Nat
  BY LenProperties
<1>2. \A i \in 1..Len(positions) : script[positions[i]] \in Symbols
  BY ElementOfSeq
<1>3. Symbol(positions) \in [1..Len(positions) -> Symbols]
  BY <1>1, <1>2 DEF Symbol
<1> QED
  BY <1>1, <1>3, TableIsSeq

LEMMA LineLenType ==
    ASSUME NEW S, NEW s \in Seq(S)
    PROVE  LineLen(s) \in 0..Len(s)
<1>1. Len(s) \in Nat /\ SH_CMD_MAX \in Nat \ {0, 1}
  BY LenProperties, Shell2Assumption
<1>2. RoomIn(s) \in 0..Len(s)
  BY <1>1 DEF RoomIn
<1>3. LineEnd(s) \in 0..Len(s)
  BY LineEndType
<1> QED
  BY <1>2, <1>3 DEF LineLen

\* stdio asks for what comes next; if it asks and gets nothing there is nothing.
LEMMA RefillType ==
    ASSUME ShellTyped
    PROVE  /\ RefillTo \in offset..Len(script)
           /\ Refills /\ RefillTo = offset => offset = Len(script)
<1> DEFINE rest == SubSeq(script, offset + 1, Len(script))
<1>1. script \in Seq(Symbols) /\ Len(script) \in Nat /\ offset \in 0..Len(script)
  BY Shell2Assumption, LenProperties DEF ShellTyped, Shell2TypeOK
<1>2. rest \in Seq(Symbols) /\ Len(rest) = Len(script) - offset
  <2>1. offset + 1 \in Int /\ Len(script) \in Int
    BY <1>1
  <2>2. \A i \in offset + 1..Len(script) : script[i] \in Symbols
    BY <1>1, ElementOfSeq
  <2>3. /\ rest \in Seq(Symbols)
        /\ Len(rest) = IF offset + 1 <= Len(script) THEN Len(script) - (offset + 1) + 1 ELSE 0
    BY <2>1, <2>2, SubSeqProperties
  <2> HIDE DEF rest
  <2> QED
    BY <1>1, <2>3
<1>3. LineEnd(rest) \in 0..Len(rest)
  BY <1>2, LineEndType
<1>4. RefillTo = IF ~Refills THEN offset
                 ELSE IF stdin = "console" /\ LineEnd(rest) # 0 THEN offset + LineEnd(rest)
                 ELSE Len(script)
  BY DEF RefillTo
<1> HIDE DEF rest
<1> QED
  BY <1>1, <1>2, <1>3, <1>4

LEMMA AvailableType ==
    ASSUME ShellTyped
    PROVE  /\ Available \in Seq(1..Len(script))
           /\ [i \in 1..RefillTo - offset |-> offset + i] \in Seq(1..Len(script))
           /\ Len([i \in 1..RefillTo - offset |-> offset + i]) = RefillTo - offset
           /\ Len(Available) = Len(ahead) + (RefillTo - offset)
<1> DEFINE more == [i \in 1..RefillTo - offset |-> offset + i]
<1>1. Len(script) \in Nat /\ offset \in 0..Len(script) /\ ahead \in Seq(1..Len(script))
  BY Shell2Assumption, LenProperties DEF ShellTyped, Shell2TypeOK
<1>2. RefillTo \in offset..Len(script)
  BY RefillType
<1>3. more \in [1..RefillTo - offset -> 1..Len(script)] /\ RefillTo - offset \in Nat
  BY <1>1, <1>2
<1> HIDE DEF more
<1>4. more \in Seq(1..Len(script)) /\ Len(more) = RefillTo - offset
  BY <1>3, TableIsSeq
<1>5. Available = ahead \o more
  BY DEF Available, more
<1>6. ahead \o more \in Seq(1..Len(script)) /\ Len(ahead \o more) = Len(ahead) + Len(more)
  BY ONLY <1>1, <1>4, ConcatProperties
<1> QED
  BY <1>4, <1>5, <1>6 DEF more

\* fgets takes the beginning of what is available and leaves the rest.
LEMMA TakenFirst ==
    ASSUME NEW S, NEW avail \in Seq(S), NEW n \in 0..Len(avail)
    PROVE  /\ SubSeq(avail, 1, n) \in Seq(S) /\ Len(SubSeq(avail, 1, n)) = n
           /\ SubSeq(avail, n + 1, Len(avail)) \in Seq(S)
           /\ SubSeq(avail, 1, n) \o SubSeq(avail, n + 1, Len(avail)) = avail
<1>1. Len(avail) \in Nat /\ \A i \in 1..Len(avail) : avail[i] \in S
  BY LenProperties, ElementOfSeq
<1>2. n \in Int /\ n + 1 \in Int /\ 1 \in Int /\ Len(avail) \in Int
  BY <1>1
<1>3. /\ \A i \in 1..n : avail[i] \in S
      /\ \A i \in n + 1..Len(avail) : avail[i] \in S
  BY <1>1
<1>4. /\ SubSeq(avail, 1, n) \in Seq(S)
      /\ Len(SubSeq(avail, 1, n)) = IF 1 <= n THEN n - 1 + 1 ELSE 0
  BY ONLY <1>2, <1>3, SubSeqProperties
<1>5. Len(SubSeq(avail, 1, n)) = n
  BY <1>1, <1>4
<1>6. SubSeq(avail, n + 1, Len(avail)) \in Seq(S)
  BY <1>2, <1>3, SubSeqProperties
<1>7. SubSeq(avail, 1, n) \o SubSeq(avail, n + 1, Len(avail)) = SubSeq(avail, 1, Len(avail))
  <2>1. 1 \in 1..Len(avail) + 1 /\ n \in 1 - 1..Len(avail) /\ Len(avail) \in n..Len(avail)
    BY <1>1
  <2> QED
    BY <2>1, ConcatAdjacentSubSeq
<1> QED
  BY <1>4, <1>5, <1>6, <1>7, SubSeqFull

LEMMA ReadLineTakes ==
    ASSUME ShellTyped, ReadLine
    PROVE  /\ taken' \in Seq(1..Len(script)) /\ ahead' \in Seq(1..Len(script))
           /\ line' \in Seq(Symbols)
           /\ offset' = RefillTo /\ offset' \in offset..Len(script)
           /\ taken' \o ahead' = (taken \o ahead) \o [i \in 1..offset' - offset |-> offset + i]
<1> DEFINE avail == Available
           n == LineLen(Symbol(avail))
           more == [i \in 1..RefillTo - offset |-> offset + i]
           P == 1..Len(script)
           first == SubSeq(avail, 1, n)
           last == SubSeq(avail, n + 1, Len(avail))
<1>1. /\ ahead' = last /\ taken' = taken \o first /\ line' = Chomped(Symbol(first))
      /\ offset' = RefillTo
  BY DEF ReadLine
<1>2. /\ script \in Seq(Symbols) /\ taken \in Seq(P) /\ ahead \in Seq(P)
      /\ RefillTo \in offset..Len(script)
  BY RefillType, Shell2Assumption DEF ShellTyped, Shell2TypeOK
<1>3. avail \in Seq(P) /\ more \in Seq(P) /\ avail = ahead \o more
  BY AvailableType DEF Available
<1>4. n \in 0..Len(avail)
  <2>1. Symbol(avail) \in Seq(Symbols) /\ Len(Symbol(avail)) = Len(avail)
    BY <1>2, <1>3, SymbolType
  <2> HIDE DEF avail
  <2> QED
    BY <2>1, LineLenType
<1> HIDE DEF avail, n
<1>5. first \in Seq(P) /\ last \in Seq(P) /\ first \o last = avail
  BY ONLY <1>3, <1>4, TakenFirst
<1>6. line' \in Seq(Symbols)
  <2>1. Symbol(first) \in Seq(Symbols)
    BY <1>2, <1>5, SymbolType
  <2>2. Chomped(Symbol(first)) \in Seq(Symbols \ {NewLine})
    BY <2>1, ChompedType
  <2> HIDE DEF first
  <2> QED
    BY <1>1, <2>2, SeqMonotonic
<1> HIDE DEF first, last, more, P
<1>7. taken' \o ahead' = (taken \o ahead) \o more
  <2>1. (taken \o first) \o last = taken \o (first \o last)
    <3>1. taken \in Seq(P) /\ first \in Seq(P) /\ last \in Seq(P)
      BY <1>2, <1>5
    <3> QED
      BY ONLY <3>1, ConcatAssociative
  <2>2. taken \o (ahead \o more) = (taken \o ahead) \o more
    BY ONLY <1>2, <1>3, ConcatAssociative
  <2> QED
    BY <1>1, <1>3, <1>5, <2>1, <2>2
<1>8. taken \o first \in Seq(P)
  BY ONLY <1>2, <1>5, ConcatProperties
<1> QED
  BY <1>1, <1>2, <1>5, <1>6, <1>7, <1>8 DEF P, more

-----------------------------------------------------------------------------
\* What is printed goes into the buffer and from there to the output.
Counted(o, lost) ==
    /\ o \in Output
    /\ o.held <= o.printed
    /\ lost \/ o.written + o.held = o.printed
    /\ o.written + o.held >= o.printed

LEMMA PrintedCounts ==
    ASSUME NEW o, NEW lost \in BOOLEAN, Counted(o, lost)
    PROVE  Counted(Printed(o), lost)
<1>1. o \in Output /\ o.printed \in Nat /\ o.held \in Nat /\ o.written \in Nat
  BY DEF Counted, Output
<1>2. Printed(o) \in Output
  <2>1. ASSUME NEW a \in Nat, NEW b \in Nat PROVE [o EXCEPT !.printed = a, !.held = b] \in Output
    BY <1>1 DEF Output
  <2>2. o.printed + 1 \in Nat /\ o.held + 1 \in Nat
    BY <1>1
  <2> QED
    BY <2>1, <2>2 DEF Printed
<1>3. /\ Printed(o).printed = o.printed + 1 /\ Printed(o).held = o.held + 1
      /\ Printed(o).written = o.written
  BY <1>1 DEF Output, Printed
<1> QED
  BY <1>1, <1>2, <1>3 DEF Counted

LEMMA FlushedCounts ==
    ASSUME NEW o, NEW lost \in BOOLEAN, Counted(o, lost)
    PROVE  Counted(Flushed(o), lost) /\ Flushed(o).held = 0
<1>1. o \in Output /\ o.printed \in Nat /\ o.held \in Nat /\ o.written \in Nat
  BY DEF Counted, Output
<1>2. Flushed(o) \in Output
  <2>1. ASSUME NEW a \in Nat, NEW b \in Nat PROVE [o EXCEPT !.held = a, !.written = b] \in Output
    BY <1>1 DEF Output
  <2>2. 0 \in Nat /\ o.written + o.held \in Nat
    BY <1>1
  <2> QED
    BY <2>1, <2>2 DEF Flushed
<1>3. /\ Flushed(o).printed = o.printed /\ Flushed(o).held = 0
      /\ Flushed(o).written = o.written + o.held
  BY <1>1 DEF Output, Flushed
<1> QED
  BY <1>1, <1>2, <1>3 DEF Counted

LEMMA PrintedLineCounts ==
    ASSUME NEW o, NEW lost \in BOOLEAN, Counted(o, lost)
    PROVE  Counted(PrintedLine(o), lost)
BY PrintedCounts, FlushedCounts DEF PrintedLine

\* The output of the shell at any time, and when it ends.
OutInv == Counted(out, doubled) /\ (pc = "over" => out.held = 0)

LEMMA InitOut == Shell2Init => OutInv
BY DEF Shell2Init, OutInv, Counted, Output

LEMMA StepOut == OutInv /\ doubled \in BOOLEAN /\ [Shell2Next]_shVars => OutInv'
<1> SUFFICES ASSUME OutInv, doubled \in BOOLEAN, [Shell2Next]_shVars PROVE OutInv'
  OBVIOUS
<1>0. Counted(out, doubled)
  BY DEF OutInv
<1>1. CASE ReadLine
  <2>1. Counted(Prompted, doubled)
    BY <1>0, PrintedCounts, FlushedCounts DEF Prompted
  <2>2. out' = Prompted /\ doubled' = doubled /\ pc' # "over"
    BY <1>1 DEF ReadLine
  <2> QED
    BY <2>1, <2>2 DEF OutInv
<1>2. CASE EndOfInput
  <2>1. Counted(Printed(Printed(Printed(out))), doubled)
    BY <1>0, PrintedCounts
  <2>2. out' = Flushed(Printed(Printed(Printed(out)))) /\ doubled' = doubled
    BY <1>2 DEF EndOfInput
  <2> QED
    BY <2>1, <2>2, FlushedCounts DEF OutInv
<1>3. CASE ClearCrashes \/ MatchCrashes
  BY <1>0, <1>3 DEF ClearCrashes, MatchCrashes, Crash, OutInv
<1>4. CASE ParseInput
  <2>1. out' \in {PrintedLine(out), out} /\ doubled' = doubled /\ pc' # "over"
    BY <1>4 DEF ParseInput
  <2> QED
    BY <1>0, <2>1, PrintedLineCounts DEF OutInv
<1>5. CASE ExecExit
  BY <1>0, <1>5, FlushedCounts DEF ExecExit, OutInv
<1>6. CASE ExecBuiltIn
  <2>1. out' \in {PrintedLine(out), out} /\ doubled' = doubled /\ pc' # "over"
    BY <1>6 DEF ExecBuiltIn
  <2> QED
    BY <1>0, <2>1, PrintedLineCounts DEF OutInv
<1>7. CASE Fork
  BY <1>0, <1>7 DEF Fork, OutInv
<1>8. CASE ChildCannotExec
  <2>1. /\ out' = [out EXCEPT !.written = @ + out.held] /\ pc' # "over"
        /\ doubled' = (doubled \/ out.held > 0)
    BY <1>8 DEF ChildCannotExec
  <2>2. Counted(out', doubled')
    <3>1. /\ out'.printed = out.printed /\ out'.held = out.held
          /\ out'.written = out.written + out.held /\ out' \in Output
      BY <1>0, <2>1 DEF Counted, Output
    <3>2. /\ out.printed \in Nat /\ out.held \in Nat /\ out.written \in Nat
          /\ out.held <= out.printed /\ out.written + out.held >= out.printed
      BY <1>0 DEF Counted, Output
    <3>3. CASE out.held > 0
      <4>1. doubled'
        BY <2>1, <3>3
      <4>2. out'.held <= out'.printed /\ out'.written + out'.held >= out'.printed
        BY <3>1, <3>2
      <4> QED
        BY <3>1, <4>1, <4>2 DEF Counted
    <3>4. CASE out.held = 0
      <4>1. doubled' = doubled /\ (doubled \/ out.written + out.held = out.printed)
        BY <1>0, <2>1, <3>4 DEF Counted
      <4>2. out'.written = out.written
        BY <3>1, <3>2, <3>4
      <4> QED
        BY <3>1, <3>2, <4>1, <4>2 DEF Counted
    <3> QED
      BY <3>2, <3>3, <3>4
  <2> QED
    BY <2>1, <2>2 DEF OutInv
<1>9. CASE ChildRuns
  BY <1>0, <1>9 DEF ChildRuns, OutInv
<1>10. CASE Reap
  <2>1. out' \in {PrintedLine(out), out} /\ doubled' = doubled /\ pc' # "over"
    BY <1>10 DEF Reap
  <2> QED
    BY <1>0, <2>1, PrintedLineCounts DEF OutInv
<1>11. CASE UNCHANGED shVars
  BY <1>11 DEF shVars, OutInv, Counted
<1> QED
  BY <1>1, <1>2, <1>3, <1>4, <1>5, <1>6, <1>7, <1>8, <1>9, <1>10, <1>11 DEF Shell2Next

-----------------------------------------------------------------------------
\* What the parse leaves in argv: the words, a NULL, and what was there before.
LEMMA NoSuchWord == Null \notin Seq(Symbols) /\ Wild \notin Seq(Symbols)
<1>1. ASSUME NEW ch, <<ch>> \in Seq(Symbols) PROVE ch \in Symbols
  <2>1. 1 \in 1..Len(<<ch>>) /\ <<ch>>[1] = ch
    OBVIOUS
  <2> QED
    BY <1>1, <2>1, ElementOfSeq
<1> QED
  BY <1>1 DEF Null, Wild, Symbols

LEMMA ParsedType ==
    ASSUME line \in Seq(Symbols)
    PROVE  /\ Scan(line, CMD_ARGV_MAX).args \in Seq(Seq(Symbols))
           /\ Len(Scan(line, CMD_ARGV_MAX).args) \in 0..CMD_ARGV_MAX
           /\ \A i \in 1..Len(Scan(line, CMD_ARGV_MAX).args) :
                Scan(line, CMD_ARGV_MAX).args[i] \in Seq(Symbols)
<1> DEFINE args == Scan(line, CMD_ARGV_MAX).args
<1>1. CMD_ARGV_MAX \in Nat
  BY CmdLineAssumption
<1>2. args \in ArgLists(Symbols, CMD_ARGV_MAX)
  <2>1. Scan(line, CMD_ARGV_MAX) \in ScanStates(Symbols, CMD_ARGV_MAX)
    BY <1>1, ScanType
  <2> QED
    BY <2>1 DEF ScanStates
<1> HIDE DEF args
<1>3. args \in Seq(Words1(Symbols)) /\ Len(args) <= CMD_ARGV_MAX
  BY <1>2 DEF ArgLists
<1>4. args \in Seq(Seq(Symbols))
  <2>1. Words1(Symbols) \subseteq Seq(Symbols)
    BY DEF Words1
  <2> QED
    BY <1>3, <2>1, SeqMonotonic
<1>5. Len(args) \in Nat /\ \A i \in 1..Len(args) : args[i] \in Seq(Symbols)
  BY <1>4, LenProperties, ElementOfSeq
<1>6. Len(args) \in 0..CMD_ARGV_MAX
  BY <1>1, <1>3, <1>5
<1> QED
  BY <1>4, <1>5, <1>6 DEF args

\* What ParseInput makes of a line, without the fold.
GivenArgs == FirstOf(Words(line), CMD_ARGV_MAX)

CmdFromLine ==
    /\ cmd.argc = Len(GivenArgs)
    /\ \A i \in 1..cmd.argc : cmd.argv[i] = GivenArgs[i]
    /\ Len(Words(line)) <= CMD_ARGV_MAX => cmd.argv[Len(Words(line)) + 1] = Null

LEMMA ParseInputParses ==
    ASSUME ShellTyped, ParseInput
    PROVE  /\ cmd'.argc \in 0..CMD_ARGV_MAX
           /\ cmd'.argv \in [Entries -> Seq(Symbols) \cup {Null, Wild}]
           /\ \A i \in 1..cmd'.argc : cmd'.argv[i] \in Seq(Symbols)
           /\ CmdFromLine'
<1> DEFINE s == Scan(line, CMD_ARGV_MAX)
           args == s.args
           Slot(i) == IF i <= Len(args) THEN args[i] ELSE IF Terminated(s, i) THEN Null ELSE cmd.argv[i]
<1>1. line \in Seq(Symbols) /\ line' = line /\ CMD_ARGV_MAX \in Nat \ {0, 1}
  BY CmdLineAssumption DEF ShellTyped, ParseInput
<1>2. cmd' = [argc |-> Len(args), argv |-> [i \in Entries |-> Slot(i)]]
  BY DEF ParseInput
<1>3. /\ args \in Seq(Seq(Symbols)) /\ Len(args) \in 0..CMD_ARGV_MAX
      /\ \A i \in 1..Len(args) : args[i] \in Seq(Symbols)
  BY <1>1, ParsedType
<1>4. args = GivenArgs /\ (s.over <=> Len(Words(line)) > CMD_ARGV_MAX)
  BY <1>1, ScanFinds DEF GivenArgs
<1>5. ~s.over => args = Words(line)
  BY <1>1, <1>4, WordsType, FirstWhole DEF GivenArgs
<1>6. \A i \in Entries : Terminated(s, i) <=> i = Len(args) + 1 /\ ~s.over
  BY DEF Terminated
<1> HIDE DEF s
<1>7. \A i \in 1..Len(args) : i \in Entries /\ cmd'.argv[i] = args[i]
  BY <1>1, <1>2, <1>3 DEF Entries
<1>8. cmd'.argc = Len(args)
  BY <1>2
<1>9. cmd'.argv \in [Entries -> Seq(Symbols) \cup {Null, Wild}]
  <2>1. \A i \in Entries : cmd.argv[i] \in Seq(Symbols) \cup {Null, Wild}
    BY DEF ShellTyped
  <2>2. ASSUME NEW i \in Entries PROVE Slot(i) \in Seq(Symbols) \cup {Null, Wild}
    <3>1. CASE i <= Len(args)
      BY <1>1, <1>3, <3>1 DEF Entries
    <3>2. CASE i > Len(args)
      BY <1>1, <1>3, <2>1, <3>2 DEF Entries
    <3> QED
      BY <1>1, <1>3, <3>1, <3>2 DEF Entries
  <2> HIDE DEF Slot
  <2> QED
    BY <1>2, <2>2
<1>10. ~s.over => cmd'.argv[Len(args) + 1] = Null
  <2>1. Len(args) + 1 \in Entries /\ ~(Len(args) + 1 <= Len(args))
    BY <1>1, <1>3 DEF Entries
  <2>2. cmd'.argv[Len(args) + 1] = Slot(Len(args) + 1)
    BY <1>2, <2>1
  <2> QED
    BY <1>6, <2>1, <2>2
<1>11. CmdFromLine'
  <2>1. GivenArgs' = args /\ Words(line)' = Words(line)
    BY <1>1, <1>4 DEF GivenArgs
  <2>2. Len(Words(line)) <= CMD_ARGV_MAX => ~s.over
    <3>1. Len(Words(line)) \in Nat
      BY <1>1, WordsType, LenProperties
    <3> QED
      BY <1>1, <1>4, <3>1
  <2> HIDE DEF args
  <2> QED
    BY <1>5, <1>7, <1>8, <1>10, <2>1, <2>2 DEF CmdFromLine
<1> QED
  BY <1>3, <1>7, <1>8, <1>9, <1>11

\* argv[0] is the first word of the line, or NULL if it has none.
LEMMA FirstArgument ==
    ASSUME line \in Seq(Symbols), CmdFromLine
    PROVE  /\ Words(line) = <<>> => cmd.argv[1] = Null
           /\ Words(line) # <<>> => cmd.argv[1] = Words(line)[1] /\ cmd.argv[1] # Null
<1> DEFINE w == Words(line)
<1>1. w \in Seq(Seq(Symbols)) /\ Len(w) \in Nat /\ CMD_ARGV_MAX \in Nat \ {0, 1}
  BY WordsType, LenProperties, CmdLineAssumption
<1>2. /\ GivenArgs = FirstOf(w, CMD_ARGV_MAX)
      /\ cmd.argc = Len(GivenArgs)
      /\ \A i \in 1..cmd.argc : cmd.argv[i] = GivenArgs[i]
      /\ Len(w) <= CMD_ARGV_MAX => cmd.argv[Len(w) + 1] = Null
  BY DEF CmdFromLine, GivenArgs
<1> HIDE DEF w
<1>3. CASE w = <<>>
  <2>1. Len(w) = 0
    BY <1>3
  <2> QED
    BY <1>1, <1>2, <1>3, <2>1 DEF w
<1>4. CASE w # <<>>
  <2>1. Len(w) \in Nat \ {0}
    BY <1>1, <1>4, EmptySeq
  <2>2. /\ Len(GivenArgs) = IF Len(w) < CMD_ARGV_MAX THEN Len(w) ELSE CMD_ARGV_MAX
        /\ \A k \in 1..Len(GivenArgs) : GivenArgs[k] = w[k]
    BY <1>1, <1>2, FirstType
  <2>3. 1 \in 1..Len(GivenArgs) /\ 1 \in 1..Len(w)
    BY <1>1, <2>1, <2>2
  <2>4. cmd.argv[1] = w[1] /\ w[1] \in Seq(Symbols)
    BY <1>1, <1>2, <2>2, <2>3, ElementOfSeq
  <2> QED
    BY <1>4, <2>4, NoSuchWord DEF w
<1> QED
  BY <1>3, <1>4

-----------------------------------------------------------------------------
LEMMA InitTyped == Shell2Init => ShellTyped
<1> SUFFICES ASSUME Shell2Init PROVE ShellTyped
  OBVIOUS
<1>1. script \in Seq(Symbols) /\ Len(script) \in Nat
  BY Shell2Assumption, LenProperties DEF Shell2Init
<1>2. <<>> \in Seq(Symbols) /\ <<>> \in Seq(1..Len(script)) /\ 0 \in 0..Len(script)
  BY <1>1, EmptySeq
<1>3. CMD_ARGV_MAX \in Nat
  BY CmdLineAssumption
<1>4. cmd.argc = -1 /\ cmd.argv = [i \in Entries |-> Wild]
  BY DEF Shell2Init
<1>5. out \in Output /\ out.held <= out.printed
  BY DEF Shell2Init, Output
<1>6. cmd.argc \in -1..CMD_ARGV_MAX /\ \A i \in 1..cmd.argc : FALSE
  BY <1>3, <1>4
<1>7. Shell2TypeOK
  BY <1>2, <1>5, <1>6 DEF Shell2Init, Shell2TypeOK
<1> QED
  BY <1>2, <1>4, <1>5, <1>7 DEF Shell2Init, ShellTyped

\* What an action that leaves the input and the command alone has to show.
LEMMA OutputsTyped ==
    ASSUME ShellTyped, OutInv', UNCHANGED <<stdin, script, ahead, taken, line, cmd>>,
           pc' \in {"read", "parse", "match", "child", "reap", "over", "crashed"},
           offset' \in 0..Len(script),
           status' \in Statuses \cup {0, Killed, ENOENT, EFAULT},
           last_rc' \in Statuses \cup {0, 1, ENOENT, EFAULT},
           eaten' \subseteq 1..Len(script),
           setBack' \in BOOLEAN, doubled' \in BOOLEAN
    PROVE  ShellTyped'
<1>1. out' \in Output /\ out'.held <= out'.printed
  BY DEF OutInv, Counted
<1>2. Shell2TypeOK'
  BY <1>1 DEF ShellTyped, Shell2TypeOK
<1> QED
  BY <1>1, <1>2 DEF ShellTyped

LEMMA StepTyped == ShellTyped /\ OutInv' /\ [Shell2Next]_shVars => ShellTyped'
<1> SUFFICES ASSUME ShellTyped, OutInv', [Shell2Next]_shVars PROVE ShellTyped'
  OBVIOUS
<1>0. /\ pc \in {"read", "parse", "match", "child", "reap", "over", "crashed"}
      /\ script \in Seq(Symbols) /\ Len(script) \in Nat
      /\ offset \in 0..Len(script) /\ Len(ahead) \in Nat
      /\ status \in Statuses \cup {0, Killed, ENOENT, EFAULT}
      /\ last_rc \in Statuses \cup {0, 1, ENOENT, EFAULT}
      /\ setBack \in BOOLEAN /\ doubled \in BOOLEAN /\ eaten \subseteq 1..Len(script)
  BY Shell2Assumption, LenProperties DEF ShellTyped, Shell2TypeOK
<1>1. CASE ReadLine
  <2>1. /\ taken' \in Seq(1..Len(script)) /\ ahead' \in Seq(1..Len(script))
        /\ line' \in Seq(Symbols) /\ offset' \in offset..Len(script)
    BY <1>1, ReadLineTakes
  <2>2. pc' \in {"read", "parse"} /\ UNCHANGED <<stdin, script, cmd, status, last_rc, ghosts>>
    BY <1>1 DEF ReadLine
  <2>3. out' \in Output /\ out'.held <= out'.printed
    BY DEF OutInv, Counted
  <2>4. offset' \in 0..Len(script)
    BY <1>0, <2>1
  <2>5. Shell2TypeOK'
    BY <2>1, <2>2, <2>3, <2>4 DEF ShellTyped, Shell2TypeOK
  <2> QED
    BY <2>1, <2>2, <2>3, <2>5 DEF ShellTyped
<1>2. CASE EndOfInput
  BY <1>0, <1>2, OutputsTyped DEF EndOfInput
<1>3. CASE ClearCrashes \/ MatchCrashes
  BY <1>0, <1>3, OutputsTyped DEF ClearCrashes, MatchCrashes, Crash
<1>4. CASE ParseInput
  <2>1. /\ cmd'.argc \in 0..CMD_ARGV_MAX
        /\ cmd'.argv \in [Entries -> Seq(Symbols) \cup {Null, Wild}]
        /\ \A i \in 1..cmd'.argc : cmd'.argv[i] \notin {Null, Wild}
    BY <1>4, ParseInputParses, NoSuchWord
  <2>2. /\ pc' = "match"
        /\ UNCHANGED <<stdin, script, offset, ahead, taken, line, status, last_rc, ghosts>>
    BY <1>4 DEF ParseInput
  <2>3. out' \in Output /\ out'.held <= out'.printed
    BY DEF OutInv, Counted
  <2>4. cmd'.argc \in -1..CMD_ARGV_MAX
    BY <2>1, CmdLineAssumption
  <2>5. Shell2TypeOK'
    BY <2>1, <2>2, <2>3, <2>4 DEF ShellTyped, Shell2TypeOK
  <2> QED
    BY <2>1, <2>2, <2>3, <2>5 DEF ShellTyped
<1>5. CASE ExecExit
  BY <1>0, <1>5, OutputsTyped DEF ExecExit
<1>6. CASE ExecBuiltIn
  BY <1>0, <1>6, OutputsTyped DEF ExecBuiltIn
<1>7. CASE Fork
  BY <1>0, <1>7, OutputsTyped DEF Fork
<1>8. CASE ChildCannotExec
  <2>1. offset' \in 0..Len(script)
    BY <1>0, <1>8 DEF ChildCannotExec, SetsBack
  <2>3. setBack' \in BOOLEAN /\ doubled' \in BOOLEAN /\ eaten' = eaten
    BY <1>8 DEF ChildCannotExec, SetsBack
  <2>2. status' \in {ENOENT, EFAULT}
    BY <1>8 DEF ChildCannotExec
  <2> QED
    BY <1>0, <1>8, <2>1, <2>2, <2>3, OutputsTyped DEF ChildCannotExec
<1>9. CASE ChildRuns
  <2>1. status' \in Statuses \cup {Killed} /\ offset' \in 0..Len(script)
    BY <1>0, <1>9 DEF ChildRuns
  <2>2. eaten' \subseteq 1..Len(script)
    BY <1>0, <1>9 DEF ChildRuns
  <2> QED
    BY <1>0, <1>9, <2>1, <2>2, OutputsTyped DEF ChildRuns
<1>10. CASE Reap
  <2>1. last_rc' \in Statuses \cup {0, 1, ENOENT, EFAULT}
    BY <1>0, <1>10 DEF Reap
  <2> QED
    BY <1>0, <1>10, <2>1, OutputsTyped DEF Reap
<1>11. CASE UNCHANGED shVars
  BY <1>0, <1>11, OutputsTyped DEF shVars
<1> QED
  BY <1>1, <1>2, <1>3, <1>4, <1>5, <1>6, <1>7, <1>8, <1>9, <1>10, <1>11 DEF Shell2Next

-----------------------------------------------------------------------------
(***************************************************************************)
(* Between the parse and execvp the cmd_buff_t is that of the line in      *)
(* hand, whatever lines before it have left in the same entries.  That the *)
(* line is not empty there is what makes DiesOnlyWordless inductive.       *)
(***************************************************************************)
CmdInv ==
    /\ pc \in {"match", "child"} => CmdFromLine
    /\ pc \in {"parse", "match"} => line # <<>>
    /\ DiesOnlyWordless

LEMMA InitCmd == Shell2Init => CmdInv
BY DEF Shell2Init, CmdInv, DiesOnlyWordless

LEMMA CmdKept ==
    ASSUME CmdInv, UNCHANGED <<line, cmd>>, pc' # "crashed",
           pc' \in {"match", "child"} => pc \in {"match", "child"},
           pc' \in {"parse", "match"} => pc \in {"parse", "match"}
    PROVE  CmdInv'
BY DEF CmdInv, DiesOnlyWordless, CmdFromLine, GivenArgs

LEMMA StepCmd == ShellTyped /\ CmdInv /\ [Shell2Next]_shVars => CmdInv'
<1> SUFFICES ASSUME ShellTyped, CmdInv, [Shell2Next]_shVars PROVE CmdInv'
  OBVIOUS
<1>1. CASE ReadLine
  <2>1. pc' \in {"read", "parse"} /\ (pc' = "parse" => line' # <<>>)
    BY <1>1 DEF ReadLine, IsEmpty
  <2> QED
    BY <2>1 DEF CmdInv, DiesOnlyWordless
<1>2. CASE EndOfInput
  BY <1>2, CmdKept DEF EndOfInput
<1>3. CASE ClearCrashes
  BY <1>3 DEF ClearCrashes, Crash, CmdInv, DiesOnlyWordless
<1>4. CASE ParseInput
  <2>1. CmdFromLine'
    BY <1>4, ParseInputParses
  <2>2. pc = "parse" /\ pc' = "match" /\ line' = line
    BY <1>4 DEF ParseInput
  <2> QED
    BY <2>1, <2>2 DEF CmdInv, DiesOnlyWordless
<1>5. CASE MatchCrashes
  <2>1. pc = "match" /\ cmd.argv[1] = Null /\ pc' = "crashed" /\ line' = line
    BY <1>5 DEF MatchCrashes, Crash
  <2>2. line # <<>> /\ CmdFromLine /\ line \in Seq(Symbols)
    BY <2>1 DEF CmdInv, ShellTyped
  <2>3. Words(line) = <<>>
    BY <2>1, <2>2, FirstArgument
  <2> QED
    BY <2>1, <2>2, <2>3 DEF CmdInv, DiesOnlyWordless
<1>6. CASE ExecExit
  BY <1>6, CmdKept DEF ExecExit
<1>7. CASE ExecBuiltIn
  BY <1>7, CmdKept DEF ExecBuiltIn
<1>8. CASE Fork
  BY <1>8, CmdKept DEF Fork
<1>9. CASE ChildCannotExec
  BY <1>9, CmdKept DEF ChildCannotExec
<1>10. CASE ChildRuns
  BY <1>10, CmdKept DEF ChildRuns
<1>11. CASE Reap
  BY <1>11, CmdKept DEF Reap
<1>12. CASE UNCHANGED shVars
  BY <1>12 DEF shVars, CmdInv, DiesOnlyWordless, CmdFromLine, GivenArgs
<1> QED
  BY <1>1, <1>2, <1>3, <1>4, <1>5, <1>6, <1>7, <1>8, <1>9, <1>10, <1>11, <1>12 DEF Shell2Next

\* Up to its first NULL argv holds the words of the line.
LEMMA GivesTheLine == ShellTyped /\ CmdInv => ExecvpGetsLine
<1> SUFFICES ASSUME ShellTyped, CmdInv, pc = "child", Len(Words(line)) <= CMD_ARGV_MAX
             PROVE  HasNull /\ Argv = Words(line)
  BY DEF ExecvpGetsLine
<1> DEFINE w == Words(line)
           S == Seq(Symbols) \cup {Null, Wild}
           Nulls == {i \in 1..Len(cmd.argv) : cmd.argv[i] = Null}
           k == Len(w)
<1>1. w \in Seq(Seq(Symbols)) /\ k \in Nat /\ CMD_ARGV_MAX \in Nat
  BY WordsType, LenProperties, CmdLineAssumption DEF ShellTyped
<1>2. cmd.argv \in Seq(S) /\ Len(cmd.argv) = CMD_ARGV_MAX + 1
  <2>1. cmd.argv \in [1..CMD_ARGV_MAX + 1 -> S] /\ CMD_ARGV_MAX + 1 \in Nat
    BY <1>1 DEF ShellTyped, Entries
  <2> HIDE DEF S
  <2> QED
    BY <2>1, TableIsSeq
<1>3. cmd.argv[k + 1] = Null /\ \A i \in 1..k : cmd.argv[i] = w[i]
  <2>1. CmdFromLine
    BY DEF CmdInv
  <2>2. GivenArgs = w
    BY <1>1, FirstWhole DEF GivenArgs
  <2> QED
    BY <2>1, <2>2 DEF CmdFromLine
<1>4. \A i \in 1..k : w[i] \in Seq(Symbols) /\ w[i] # Null
  BY <1>1, ElementOfSeq, NoSuchWord
<1> HIDE DEF w, S
<1>5. k + 1 \in Nulls /\ \A i \in Nulls : k + 1 <= i
  <2>1. k + 1 \in 1..Len(cmd.argv)
    BY <1>1, <1>2 DEF w
  <2>2. ASSUME NEW i \in 1..Len(cmd.argv), cmd.argv[i] = Null PROVE i \notin 1..k
    BY <1>3, <1>4, <2>2
  <2> QED
    BY <1>1, <1>2, <1>3, <2>1, <2>2
<1>6. Min(Nulls) = k + 1 /\ Nulls # {}
  <2>1. Nulls # {} /\ Nulls \subseteq Nat
    BY <1>2, <1>5
  <2> HIDE DEF Nulls
  <2>2. Min(Nulls) \in Nulls /\ \A i \in Nulls : Min(Nulls) <= i
    BY <2>1, MinIsLeast
  <2>3. Min(Nulls) <= k + 1 /\ k + 1 <= Min(Nulls) /\ Min(Nulls) \in Nat
    BY <1>5, <2>1, <2>2
  <2> QED
    BY <1>1, <2>1, <2>3
<1>7. HasNull
  BY <1>2, <1>5 DEF HasNull, Entries
<1>8. Argv = SubSeq(cmd.argv, 1, k)
  <2>1. k + 1 # 0 /\ k + 1 - 1 = k
    BY <1>1
  <2>2. Argv = SubSeq(cmd.argv, 1, IF (IF Nulls # {} THEN Min(Nulls) ELSE 0) = 0 THEN CMD_ARGV_MAX + 1
                                   ELSE (IF Nulls # {} THEN Min(Nulls) ELSE 0) - 1)
    BY DEF Argv, SelectInSeq
  <2> HIDE DEF Nulls
  <2> QED
    BY <1>6, <2>1, <2>2
<1>9. SubSeq(cmd.argv, 1, k) = w
  <2>1. \A i \in 1..k : cmd.argv[i] \in Seq(Symbols)
    BY <1>3, <1>4
  <2>2. 1 \in Int /\ k \in Int
    BY <1>1
  <2>3. /\ SubSeq(cmd.argv, 1, k) \in Seq(Seq(Symbols))
        /\ Len(SubSeq(cmd.argv, 1, k)) = IF 1 <= k THEN k - 1 + 1 ELSE 0
        /\ \A i \in 1..k - 1 + 1 : SubSeq(cmd.argv, 1, k)[i] = cmd.argv[1 + i - 1]
    BY ONLY <2>1, <2>2, SubSeqProperties
  <2>4. Len(SubSeq(cmd.argv, 1, k)) = Len(w)
    BY <1>1, <2>3
  <2>5. \A i \in 1..k : SubSeq(cmd.argv, 1, k)[i] = w[i]
    <3>1. k - 1 + 1 = k /\ \A i \in 1..k : 1 + i - 1 = i
      BY <1>1
    <3> QED
      BY <1>3, <2>3, <3>1
  <2> QED
    BY <1>1, <2>3, <2>4, <2>5, SeqEqual
<1> QED
  BY <1>7, <1>8, <1>9 DEF w

-----------------------------------------------------------------------------
\* What is read anew comes after what has been read.
Ascending(s) == \A i, j \in DOMAIN s : i < j => s[i] < s[j]

LEMMA MoreAscends ==
    ASSUME NEW n \in Nat, NEW m \in Nat, n <= m, NEW s \in Seq(Nat), Ascending(s),
           Range(s) \subseteq 1..n
    PROVE  LET t == s \o [i \in 1..m - n |-> n + i]
           IN  Ascending(t) /\ Range(t) = Range(s) \cup n + 1..m
<1> DEFINE more == [i \in 1..m - n |-> n + i]
           t == s \o more
           l == Len(s)
<1>1. more \in Seq(Nat) /\ Len(more) = m - n
  <2>1. more \in [1..m - n -> Nat] /\ m - n \in Nat
    OBVIOUS
  <2> HIDE DEF more
  <2> QED
    BY <2>1, TableIsSeq
<1>2. \A i \in 1..m - n : more[i] = n + i
  OBVIOUS
<1>3. l \in Nat /\ DOMAIN s = 1..l /\ \A i \in 1..l : s[i] \in Nat
  BY LenProperties, ElementOfSeq
<1> HIDE DEF more, l
<1>4. /\ DOMAIN t = 1..l + (m - n)
      /\ \A i \in 1..l + (m - n) : t[i] = IF i <= l THEN s[i] ELSE more[i - l]
  <2>1. /\ s \o more \in Seq(Nat) /\ Len(s \o more) = Len(s) + Len(more)
        /\ \A i \in 1..Len(s) + Len(more) :
             (s \o more)[i] = IF i <= Len(s) THEN s[i] ELSE more[i - Len(s)]
    BY <1>1, ConcatProperties
  <2> QED
    BY <1>1, <2>1, LenProperties DEF l
<1> HIDE DEF t
<1>5. ASSUME NEW i \in 1..l PROVE i \in 1..l + (m - n) /\ t[i] = s[i] /\ t[i] \in 1..n
  <2>1. i \in 1..l + (m - n) /\ i <= l
    BY <1>3
  <2>2. s[i] \in Range(s)
    BY <1>3 DEF Range
  <2> QED
    BY <1>4, <2>1, <2>2
<1>6. ASSUME NEW i \in 1..m - n PROVE l + i \in 1..l + (m - n) /\ t[l + i] = n + i
  <2>1. l + i \in 1..l + (m - n) /\ ~(l + i <= l) /\ (l + i) - l = i
    BY <1>3
  <2> QED
    BY <1>2, <1>4, <2>1
<1>7. ASSUME NEW i \in 1..l + (m - n) PROVE i \in 1..l \/ (i - l \in 1..m - n /\ l + (i - l) = i)
  BY <1>3
<1>8. Ascending(t)
  <2> SUFFICES ASSUME NEW i \in 1..l + (m - n), NEW j \in 1..l + (m - n), i < j PROVE t[i] < t[j]
    BY <1>4 DEF Ascending
  <2>1. CASE j \in 1..l
    <3>1. i \in 1..l
      BY <1>3, <2>1
    <3> QED
      BY <1>3, <1>5, <2>1, <3>1 DEF Ascending
  <2>2. CASE j - l \in 1..m - n /\ l + (j - l) = j
    <3>1. t[j] = n + (j - l)
      BY <1>6, <2>2
    <3>2. CASE i \in 1..l
      <4>1. t[i] \in 1..n
        BY <1>5, <3>2
      <4> QED
        BY <1>3, <2>2, <3>1, <4>1
    <3>3. CASE i - l \in 1..m - n /\ l + (i - l) = i
      <4>1. t[i] = n + (i - l)
        BY <1>6, <3>3
      <4> QED
        BY <1>3, <3>1, <4>1
    <3> QED
      BY <1>7, <3>2, <3>3
  <2> QED
    BY <1>7, <2>1, <2>2
<1>9. Range(t) = Range(s) \cup n + 1..m
  <2>1. ASSUME NEW i \in DOMAIN t PROVE t[i] \in Range(s) \cup n + 1..m
    <3>1. i \in 1..l + (m - n)
      BY <1>4
    <3>2. CASE i \in 1..l
      BY <1>3, <1>5, <3>2 DEF Range
    <3>3. CASE i - l \in 1..m - n /\ l + (i - l) = i
      <4>1. t[i] = n + (i - l) /\ i - l \in 1..m - n
        BY <1>6, <3>3
      <4> QED
        BY <4>1
    <3> QED
      BY <1>7, <3>1, <3>2, <3>3
  <2>2. ASSUME NEW x \in Range(s) PROVE x \in Range(t)
    <3>1. PICK i \in 1..l : x = s[i]
      BY <1>3 DEF Range
    <3> QED
      BY <1>4, <1>5, <3>1 DEF Range
  <2>3. ASSUME NEW x \in n + 1..m PROVE x \in Range(t)
    <3>1. x - n \in 1..m - n /\ n + (x - n) = x
      OBVIOUS
    <3>2. l + (x - n) \in DOMAIN t /\ t[l + (x - n)] = x
      BY <1>4, <1>6, <3>1
    <3> QED
      BY <3>2 DEF Range
  <2> QED
    BY <2>1, <2>2, <2>3 DEF Range
<1> QED
  BY <1>8, <1>9 DEF t, more

\* Each position read so far has one reader.
OneReader ==
    /\ Ascending(taken \o ahead)
    /\ eaten \cap Range(taken \o ahead) = {} /\ eaten \cup Range(taken \o ahead) = 1..offset

LEMMA ReadsAre ==
    ReadsEachOnce <=> \/ setBack
                      \/ OneReader /\ (pc = "over" /\ ~ToldToExit => ahead = <<>> /\ offset = Len(script))
BY DEF ReadsEachOnce, OneReader, Ascending

LEMMA InitReads == Shell2Init => ReadsEachOnce
<1> SUFFICES ASSUME Shell2Init PROVE ReadsEachOnce
  OBVIOUS
<1>1. taken = <<>> /\ ahead = <<>> /\ offset = 0 /\ pc # "over" /\ eaten = {}
  BY DEF Shell2Init
<1>2. taken \o ahead = <<>> /\ DOMAIN <<>> = {} /\ 1..0 = {}
  BY <1>1
<1> QED
  BY <1>1, <1>2, ReadsAre DEF OneReader, Ascending, Range

\* What leaves the input alone and does not end the loop.
LEMMA ReadsKept ==
    ASSUME ReadsEachOnce, UNCHANGED <<offset, ahead, taken, eaten>>, pc' # "over",
           setBack => setBack'
    PROVE  ReadsEachOnce'
BY DEF ReadsEachOnce

LEMMA StepReads == ShellTyped /\ CmdInv /\ ReadsEachOnce /\ [Shell2Next]_shVars => ReadsEachOnce'
<1> SUFFICES ASSUME ShellTyped, CmdInv, ReadsEachOnce, [Shell2Next]_shVars, ~setBack
             PROVE  ReadsEachOnce'
  <2>1. setBack /\ [Shell2Next]_shVars => setBack'
    BY DEF Shell2Next, shVars, ReadLine, EndOfInput, ClearCrashes, MatchCrashes, Crash, ParseInput,
           ExecExit, ExecBuiltIn, Fork, ChildCannotExec, ChildRuns, Reap
  <2> QED
    BY <2>1 DEF ReadsEachOnce
<1>0. /\ script \in Seq(Symbols) /\ Len(script) \in Nat /\ offset \in 0..Len(script)
      /\ ahead \in Seq(1..Len(script)) /\ taken \in Seq(1..Len(script))
  BY Shell2Assumption, LenProperties DEF ShellTyped, Shell2TypeOK
<1>12. OneReader
  BY ReadsAre
<1>13. Range(taken \o ahead) \subseteq 1..offset /\ eaten \subseteq 1..offset
  BY <1>12 DEF OneReader
<1>1. CASE ReadLine
  <2>1. pc' # "over" /\ eaten' = eaten
    BY <1>1 DEF ReadLine
  <2>2. /\ taken' \o ahead' = (taken \o ahead) \o [i \in 1..offset' - offset |-> offset + i]
        /\ offset' \in offset..Len(script)
    BY <1>1, ReadLineTakes
  <2>3. offset \in Nat /\ offset' \in Nat /\ offset <= offset'
    BY <1>0, <2>2
  <2>4. taken \o ahead \in Seq(Nat)
    <3>1. taken \o ahead \in Seq(1..Len(script)) /\ 1..Len(script) \subseteq Nat
      BY <1>0, ConcatProperties
    <3> QED
      BY <3>1, SeqMonotonic
  <2>5. /\ Ascending(taken' \o ahead')
        /\ Range(taken' \o ahead') = Range(taken \o ahead) \cup offset + 1..offset'
    BY <1>12, <1>13, <2>2, <2>3, <2>4, MoreAscends DEF OneReader
  <2>6. /\ eaten \cap (Range(taken \o ahead) \cup offset + 1..offset') = {}
        /\ eaten \cup (Range(taken \o ahead) \cup offset + 1..offset') = 1..offset'
    <3> DEFINE R == Range(taken \o ahead)
    <3>1. eaten \cap R = {} /\ eaten \cup R = 1..offset
      BY <1>12 DEF OneReader
    <3> HIDE DEF R
    <3>2. 1..offset \cap offset + 1..offset' = {} /\ 1..offset \cup offset + 1..offset' = 1..offset'
      BY <2>3
    <3> QED
      BY <3>1, <3>2 DEF R
  <2>7. Ascending(taken \o ahead)' /\ Range(taken \o ahead)' = Range(taken' \o ahead')
    BY <2>5 DEF Ascending, Range
  <2> QED
    BY <2>1, <2>5, <2>6, <2>7 DEF ReadsEachOnce, Ascending
<1>2. CASE EndOfInput
  <2>1. Available = <<>> /\ UNCHANGED <<offset, ahead, taken, line, eaten, script>>
    BY <1>2 DEF EndOfInput
  <2>2. Len(ahead) = 0 /\ RefillTo = offset
    <3>1. Len(ahead) + (RefillTo - offset) = 0
      BY <2>1, AvailableType
    <3>2. RefillTo \in offset..Len(script) /\ Len(ahead) \in Nat
      BY <1>0, RefillType, LenProperties
    <3> QED
      BY <1>0, <3>1, <3>2
  <2>3. ahead = <<>>
    BY <1>0, <2>2, EmptySeq
  <2>4. offset = Len(script)
    <3>1. Symbol(ahead) \in Seq(Symbols) /\ Len(Symbol(ahead)) = 0
      BY <1>0, <2>2, SymbolType
    <3>2. LineEnd(Symbol(ahead)) = 0
      <4>1. LineEnd(Symbol(ahead)) \in 0..Len(Symbol(ahead))
        BY <3>1, LineEndType
      <4> QED
        BY <3>1, <4>1
    <3>3. Refills
      BY <2>2, <3>2, Shell2Assumption DEF Refills
    <3> QED
      BY <2>2, <3>3, RefillType
  <2> QED
    BY <2>1, <2>3, <2>4 DEF ReadsEachOnce
<1>3. CASE ClearCrashes \/ MatchCrashes
  BY <1>3, ReadsKept DEF ClearCrashes, MatchCrashes, Crash
<1>4. CASE ParseInput
  BY <1>4, ReadsKept DEF ParseInput
<1>5. CASE ExecExit
  <2>1. /\ pc = "match" /\ cmd.argv[1] = EXIT_CMD
        /\ UNCHANGED <<script, offset, ahead, taken, line, eaten>>
    BY <1>5 DEF ExecExit
  <2>2. CmdFromLine /\ line \in Seq(Symbols)
    BY <2>1 DEF CmdInv, ShellTyped
  <2>3. EXIT_CMD # Null
    BY DEF EXIT_CMD, Null
  <2>4. ToldToExit
    BY <2>1, <2>2, <2>3, FirstArgument DEF ToldToExit
  <2>5. ToldToExit'
    BY <2>1, <2>4 DEF ToldToExit
  <2> QED
    BY <2>1, <2>5 DEF ReadsEachOnce
<1>6. CASE ExecBuiltIn
  BY <1>6, ReadsKept DEF ExecBuiltIn
<1>7. CASE Fork
  BY <1>7, ReadsKept DEF Fork
<1>8. CASE ChildCannotExec
  <2>1. CASE SetsBack
    BY <1>8, <2>1 DEF ChildCannotExec, ReadsEachOnce
  <2>2. CASE ~SetsBack
    BY <1>8, <2>2, ReadsKept DEF ChildCannotExec
  <2> QED
    BY <2>1, <2>2
<1>9. CASE ChildRuns
  <2>1. /\ pc' # "over" /\ UNCHANGED <<taken, ahead>>
        /\ offset' \in offset..Len(script) /\ eaten' = eaten \cup offset + 1..offset'
    BY <1>9 DEF ChildRuns
  <2>2. offset \in Nat /\ offset' \in Nat /\ offset <= offset'
    BY <1>0, <2>1
  <2> DEFINE R == Range(taken \o ahead)
  <2>3. eaten \cap R = {} /\ eaten \cup R = 1..offset
    BY <1>12 DEF OneReader
  <2>4. R' = R
    BY <2>1 DEF Range
  <2> HIDE DEF R
  <2>5. /\ 1..offset \cap offset + 1..offset' = {}
        /\ 1..offset \cup offset + 1..offset' = 1..offset'
    BY <2>2
  <2>6. eaten' \cap R = {} /\ eaten' \cup R = 1..offset'
    BY <2>1, <2>3, <2>5
  <2> QED
    BY <1>12, <2>1, <2>4, <2>6 DEF ReadsEachOnce, OneReader, Ascending, R
<1>10. CASE Reap
  BY <1>10, ReadsKept DEF Reap
<1>11. CASE UNCHANGED shVars
  BY <1>11 DEF shVars, ReadsEachOnce, ToldToExit
<1> QED
  BY <1>1, <1>2, <1>3, <1>4, <1>5, <1>6, <1>7, <1>8, <1>9, <1>10, <1>11 DEF Shell2Next

-----------------------------------------------------------------------------
Shell2Inv == ShellTyped /\ OutInv /\ CmdInv /\ ReadsEachOnce

LEMMA AlwaysShell2Inv == Shell2Spec => []Shell2Inv
<1>1. Shell2Init => Shell2Inv
  BY InitTyped, InitOut, InitCmd, InitReads DEF Shell2Inv
<1>2. Shell2Inv /\ [Shell2Next]_shVars => Shell2Inv'
  <2> SUFFICES ASSUME Shell2Inv, [Shell2Next]_shVars PROVE Shell2Inv'
    OBVIOUS
  <2>1. ShellTyped /\ OutInv /\ CmdInv /\ ReadsEachOnce /\ doubled \in BOOLEAN
    BY DEF Shell2Inv, ShellTyped
  <2>2. OutInv'
    BY <2>1, StepOut
  <2>3. ShellTyped'
    BY <2>1, <2>2, StepTyped
  <2>4. CmdInv' /\ ReadsEachOnce'
    BY <2>1, StepCmd, StepReads
  <2> QED
    BY <2>2, <2>3, <2>4 DEF Shell2Inv
<1> QED
  BY <1>1, <1>2, PTL DEF Shell2Spec

\* The types: positions of the script, entries of argv, exit statuses
\* (dshlib.c:60-147).
THEOREM TypeCorrect == Shell2Spec => []Shell2TypeOK
<1>1. Shell2Inv => Shell2TypeOK
  BY DEF Shell2Inv, ShellTyped
<1> QED
  BY <1>1, AlwaysShell2Inv, PTL

\* execvp gets the words of the line that was typed, none of another line's,
\* as long as there is room for them in argv (dshlib.c:150-156, 204-249).
THEOREM GivenWhatWasTyped == Shell2Spec => []ExecvpGetsLine
<1>1. Shell2Inv => ExecvpGetsLine
  BY GivesTheLine DEF Shell2Inv
<1> QED
  BY <1>1, AlwaysShell2Inv, PTL

\* Every symbol of the input is read once and in order, by the shell or by a
\* command of its, until a command that cannot be executed sets the offset of a
\* file back (dshlib.c:73, 98-106).
THEOREM InputReadOnce == Shell2Spec => []ReadsEachOnce
<1>1. Shell2Inv => ReadsEachOnce
  BY DEF Shell2Inv
<1> QED
  BY <1>1, AlwaysShell2Inv, PTL

\* What the shell prints is not lost, and written once unless a command could
\* not be executed while stdio held some of it (dshlib.c:68, 103).
THEOREM OutputWrittenOnce == Shell2Spec => []WritesEachOnce
<1>1. Shell2Inv => WritesEachOnce
  BY DEF Shell2Inv, OutInv, Counted, WritesEachOnce
<1> QED
  BY <1>1, AlwaysShell2Inv, PTL

\* The shell dies of nothing but a line without a word and the first line it
\* parses (dshlib.c:79-89, 150-161).
THEOREM DiesOfNothingElse == Shell2Spec => []DiesOnlyWordless
<1>1. Shell2Inv => DiesOnlyWordless
  BY DEF Shell2Inv, CmdInv
<1> QED
  BY <1>1, AlwaysShell2Inv, PTL
=============================================================================
