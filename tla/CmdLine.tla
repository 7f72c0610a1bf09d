------------------------------- MODULE CmdLine -------------------------------
(***************************************************************************)
(* How the shells take a command line apart: parse_input and               *)
(* build_cmd_list of 6-RShell/starter/dshlib.c (and of its copy in         *)
(* 5-ShellP3), the loop parse_input of 4-ShellP2 has in common with them,  *)
(* and build_cmd_list of 3-ShellP1/starter/dshlib.c.                       *)
(* A line is a sequence of symbols: the pipe, the blank ' ', the tab (for  *)
(* whatever else isspace accepts), the quote, and the symbols words are    *)
(* made of.                                                                *)
(***************************************************************************)
EXTENDS Positions, SequencesExt

CONSTANTS
    CMD_MAX,        \* commands a command list has room for
    CMD_ARGV_MAX,   \* entries of argv, the last one for NULL
    EXE_MAX,        \* bytes of exe, with its NUL (part 1)
    ARG_MAX         \* bytes of args, with its NUL (part 1)

ASSUME CmdLineAssumption ==
    /\ CMD_MAX \in Nat \ {0} /\ CMD_ARGV_MAX \in Nat \ {0, 1}
    /\ EXE_MAX \in Nat \ {0} /\ ARG_MAX \in Nat \ {0}

Pipe == "pipe"
Blank == "blank"
Tab == "tab"
Quote == "quote"
NewLine == "newline"

Spaces == {Blank, Tab}      \* isspace

OK == 0
WARN_NO_CMDS == -1
ERR_TOO_MANY_COMMANDS == -2

\* The parts of s between its separators, empty ones included.
Split(s, separator) ==
    FoldLeft(LAMBDA parts, ch :
                 IF ch = separator THEN Append(parts, <<>>)
                 ELSE [parts EXCEPT ![Len(parts)] = Append(@, ch)],
             << <<>> >>, s)

NonEmpty(parts) ==
    FoldLeft(LAMBDA kept, part : IF part = <<>> THEN kept ELSE Append(kept, part), <<>>, parts)

\* What fgets has read, cut at its newline.
Chomped(s) ==
    LET n == SelectInSeq(s, LAMBDA ch : ch = NewLine)
    IN  IF n = 0 THEN s ELSE SubSeq(s, 1, n - 1)

\* Without the blanks it starts with.
TrimLeft(s, blanks) ==
    LET n == CHOOSE m \in 0..Len(s) :
                 /\ \A i \in 1..m : s[i] \in blanks
                 /\ m = Len(s) \/ s[m + 1] \notin blanks
    IN  SubSeq(s, n + 1, Len(s))

Trim(s) == Reverse(TrimLeft(Reverse(TrimLeft(s, Spaces)), Spaces))

-----------------------------------------------------------------------------
\* The state of a scan: the arguments so far and room for how many, the one
\* being copied, whether a quote is open, whether there were too many.
\* Mutant: the arguments may take one more entry than there is room for.
ArgvFullOffByOne(s) == Len(s.args) > s.room

ArgvFull(s) == Len(s.args) >= s.room

\* A word ends: it becomes an argument, or the parse is given up.
EndWord(s) ==
    IF s.arg = <<>> \/ s.over THEN s
    ELSE IF ArgvFull(s) THEN [s EXCEPT !.over = TRUE]
    ELSE [s EXCEPT !.args = Append(@, s.arg), !.arg = <<>>]

\* Mutant: a blank in quotes ends the word.
ScanNoQuotes(s, ch) ==
    IF s.over \/ ch = Quote THEN s
    ELSE IF ch \in Spaces THEN EndWord(s)
    ELSE [s EXCEPT !.arg = Append(@, ch)]

\* One turn of the loop over the characters of a command.
ScanChar(s, ch) ==
    IF s.over THEN s
    ELSE IF ch = Quote THEN [s EXCEPT !.quoted = ~@]
    ELSE IF ch \in Spaces /\ ~s.quoted THEN EndWord(s)
    ELSE [s EXCEPT !.arg = Append(@, ch)]

Scan(part, room) ==
    EndWord(FoldLeft(ScanChar, [args |-> <<>>, room |-> room, arg |-> <<>>,
                                quoted |-> FALSE, over |-> FALSE], part))

\* The arguments of one command; those there is no room for are dropped.
parse_input(part) == Scan(part, CMD_ARGV_MAX - 1).args

\* strtok at the pipes, quoted or not; commands without a word are skipped and
\* those after CMD_MAX ignored.
build_cmd_list(line) ==
    LET parts == Split(line, Pipe)
        all   == NonEmpty([i \in DOMAIN parts |-> parse_input(Trim(parts[i]))])
    IN  SubSeq(all, 1, IF Len(all) > CMD_MAX THEN CMD_MAX ELSE Len(all))

build_rc(line) == IF build_cmd_list(line) = <<>> THEN WARN_NO_CMDS ELSE OK

-----------------------------------------------------------------------------
\* Part 1 knows no other blank than ' '.  A command is its first word and the rest
\* of the part as it is; the limit is met by any part after the last command
\* there is room for.
Command1(token) ==
    LET space == SelectInSeq(token, LAMBDA ch : ch = Blank)
        rest  == IF space = 0 THEN <<>> ELSE TrimLeft(SubSeq(token, space, Len(token)), {Blank})
        exe   == IF space = 0 THEN token ELSE SubSeq(token, 1, space - 1)
        Cut(s, n) == SubSeq(s, 1, IF Len(s) < n THEN Len(s) ELSE n - 1)
    IN  [exe |-> Cut(exe, EXE_MAX), args |-> Cut(rest, ARG_MAX)]

\* Mutant: a part without a word is a command.
AddPart1Blank(s, part) ==
    IF s.rc # OK THEN s
    ELSE IF Len(s.list) >= CMD_MAX THEN [s EXCEPT !.rc = ERR_TOO_MANY_COMMANDS]
    ELSE [s EXCEPT !.list = Append(@, Command1(TrimLeft(part, {Blank})))]

AddPart1(s, part) ==
    IF s.rc # OK THEN s
    ELSE IF Len(s.list) >= CMD_MAX THEN [s EXCEPT !.rc = ERR_TOO_MANY_COMMANDS]
    ELSE IF TrimLeft(part, {Blank}) = <<>> THEN s
    ELSE [s EXCEPT !.list = Append(@, Command1(TrimLeft(part, {Blank})))]

build_cmd_list1(line) ==
    IF line = <<>> THEN [rc |-> WARN_NO_CMDS, list |-> <<>>]
    ELSE FoldLeft(AddPart1, [rc |-> OK, list |-> <<>>], Split(line, Pipe))

-----------------------------------------------------------------------------
(***************************************************************************)
(* What a line means, by position.  Its parts stand between its pipes.  In *)
(* a part a space separates words if the number of quotes before it is     *)
(* even, and what neither separates words nor is a quote is a letter.  A   *)
(* letter starts a word if something separates it from every letter before *)
(* it, and belongs to the word that was started last.                      *)
(***************************************************************************)
Separates(s, i) == s[i] \in Spaces /\ Count(s, Quote, 1, i - 1) % 2 = 0

Letter(s, i) == s[i] # Quote /\ ~Separates(s, i)

\* Behind i no word goes on.
Ended(s, i) == \A j \in 1..i : Letter(s, j) => \E k \in j + 1..i : Separates(s, k)

Starts(s, i) == Letter(s, i) /\ Ended(s, i - 1)

Started(s, i) == Cardinality({j \in 1..i : Starts(s, j)})

Words(s) == [n \in 1..Started(s, Len(s)) |->
                Pick(s, {i \in DOMAIN s : Letter(s, i) /\ Started(s, i) = n})]

Pipes(line) == Count(line, Pipe, 1, Len(line))

Part(line, n) == Pick(line, {i \in DOMAIN line : line[i] # Pipe /\ Count(line, Pipe, 1, i) = n})

Meaning(line) == NonEmpty([n \in 1..Pipes(line) + 1 |-> Words(Part(line, n - 1))])

Closed(s) == Count(s, Quote, 1, Len(s)) % 2 = 0

QuotesClose(line) == \A n \in 0..Pipes(line) : Closed(Part(line, n))
=============================================================================
