------------------------------ MODULE LocalShell ------------------------------
(***************************************************************************)
(* The local shell: exec_local_cmd_loop of 6-RShell/starter/dshlib.c (the  *)
(* loop of 5-ShellP3 differs in its prompts and has one more built-in,     *)
(* dragon, which prints a picture).  It reads what the user has typed in   *)
(* pieces of at most SH_CMD_MAX - 1 symbols, parses each with              *)
(* build_cmd_list, executes a built-in command itself and gives the rest   *)
(* to execute_pipeline (module Pipeline).                                  *)
(***************************************************************************)
EXTENDS CmdLine

CONSTANTS
    Symbols,        \* what the user's keyboard has
    MaxTyped,       \* bound: symbols typed
    SH_CMD_MAX      \* bytes of cmd_line, with its NUL

(***************************************************************************)
(* Words are written with one symbol each: "e" is the word exit, "c" is    *)
(* cd, any other symbol a word of its own.                                 *)
(***************************************************************************)
EXIT_CMD == <<"e">>
CD_CMD == <<"c">>

ASSUME LocalShellAssumption ==
    /\ {Pipe, Quote, NewLine} \cup Spaces \subseteq Symbols
    /\ MaxTyped \in Nat
    /\ SH_CMD_MAX \in Nat \ {0, 1}

VARIABLES
    pc,         \* "read", "parsed", "run", "over"
    input,      \* typed and not yet read
    eof,        \* nothing more will be typed
    typed,      \* symbols typed so far
    line,       \* cmd_line
    clist,      \* cmd_list
    live,       \* arguments on the heap: strdup-ed and not freed
    ended       \* why the loop returned: "no", "eof" or "exit"

vars == <<pc, input, eof, typed, line, clist, live, ended>>

ShellInit ==
    /\ pc = "read"
    /\ input = <<>> /\ eof = FALSE /\ typed = 0
    /\ line = <<>> /\ clist = <<>> /\ live = 0
    /\ ended = "no"

Arguments(commands) == FoldLeft(LAMBDA n, args : n + Len(args), 0, commands)

-----------------------------------------------------------------------------
\* What fgets takes: up to a newline, up to the room there is, or up to the end.
FullLine == SelectInSeq(input, LAMBDA ch : ch = NewLine)

FgetsLen ==
    LET room == IF Len(input) < SH_CMD_MAX THEN Len(input) ELSE SH_CMD_MAX - 1
    IN  IF FullLine \in 1..room THEN FullLine
        ELSE IF room = SH_CMD_MAX - 1 \/ eof THEN room ELSE 0

\* The user types while the shell waits for more.
Type(ch) ==
    /\ pc = "read" /\ ~eof /\ FgetsLen = 0
    /\ typed < MaxTyped
    /\ typed' = typed + 1
    /\ input' = Append(input, ch)
    /\ UNCHANGED <<pc, eof, line, clist, live, ended>>

CloseInput ==
    /\ pc = "read" /\ ~eof /\ FgetsLen = 0
    /\ eof' = TRUE
    /\ UNCHANGED <<pc, input, typed, line, clist, live, ended>>

\* fgets, and the loop up to the dispatch: an empty line and a line without a
\* command start over, "exit" alone ends the loop, the rest is parsed.
ReadLine ==
    /\ pc = "read" /\ FgetsLen > 0
    /\ input' = SubSeq(input, FgetsLen + 1, Len(input))
    /\ line' = Chomped(SubSeq(input, 1, FgetsLen))
    /\ \/ /\ line' = EXIT_CMD
          /\ pc' = "over" /\ ended' = "exit"
          /\ UNCHANGED <<clist, live>>
       \/ /\ line' # EXIT_CMD
          /\ clist' = build_cmd_list(line')
          /\ live' = live + Arguments(clist')
          /\ pc' = IF line' = <<>> \/ build_rc(line') # OK THEN "read" ELSE "parsed"
          /\ UNCHANGED ended
    /\ UNCHANGED <<eof, typed>>

\* fgets returns NULL.
EndOfInput ==
    /\ pc = "read" /\ eof /\ input = <<>>
    /\ pc' = "over" /\ ended' = "eof"
    /\ UNCHANGED <<input, eof, typed, line, clist, live>>

\* Mutants: only the first command is freed; the list is freed twice.
FreeFirst == clist' = <<>> /\ live' = live - Len(clist[1])
FreeTwice == clist' = <<>> /\ live' = live - 2 * Arguments(clist)

free_cmd_list == clist' = <<>> /\ live' = live - Arguments(clist)

\* Mutant: any command of the pipeline may be the built-in.
BuiltinAnywhere(word) == \E i \in DOMAIN clist : clist[i][1] = word

\* match_command on the first word of the first command.
Builtin(word) == clist[1][1] = word

ExecExit ==
    /\ pc = "parsed" /\ Builtin(EXIT_CMD)
    /\ free_cmd_list
    /\ pc' = "over" /\ ended' = "exit"
    /\ UNCHANGED <<input, eof, typed, line>>

\* cd: the working directory is the kernel's; whatever chdir says, go on.
ExecCd ==
    /\ pc = "parsed" /\ Builtin(CD_CMD)
    /\ free_cmd_list
    /\ pc' = "read"
    /\ UNCHANGED <<input, eof, typed, line, ended>>

\* The list goes to execute_pipeline.
ExecPipeline ==
    /\ pc = "parsed" /\ ~Builtin(EXIT_CMD) /\ ~Builtin(CD_CMD)
    /\ pc' = "run"
    /\ UNCHANGED <<input, eof, typed, line, clist, live, ended>>

\* execute_pipeline returns, with a status that is never OK_EXIT.
PipelineReturns ==
    /\ pc = "run"
    /\ free_cmd_list
    /\ pc' = "read"
    /\ UNCHANGED <<input, eof, typed, line, ended>>

Next ==
    \/ \E ch \in Symbols : Type(ch)
    \/ CloseInput
    \/ ReadLine
    \/ EndOfInput
    \/ ExecExit
    \/ ExecCd
    \/ ExecPipeline
    \/ PipelineReturns

Spec == ShellInit /\ [][Next]_vars

-----------------------------------------------------------------------------
TypeOK ==
    /\ pc \in {"read", "parsed", "run", "over"}
    /\ input \in Seq(Symbols) /\ line \in Seq(Symbols \ {NewLine})
    /\ eof \in BOOLEAN
    /\ typed \in 0..MaxTyped
    /\ clist \in Seq(Seq(Seq(Symbols)))
    /\ live \in Nat
    /\ ended \in {"no", "eof", "exit"}

\* What a line means fits the lists: no more commands than CMD_MAX (more are to
\* be refused with ERR_TOO_MANY_COMMANDS, says dshlib.c:55, but the code drops
\* them), no command with more words than argv has room for.
Fits(meant) ==
    Len(meant) <= CMD_MAX /\ \A i \in DOMAIN meant : Len(meant[i]) < CMD_ARGV_MAX

\* The list of commands is what the line says, if that fits (dshlib.c:134-222).
ParsedAsWritten ==
    QuotesClose(line) /\ Fits(Meaning(line)) => build_cmd_list(line) = Meaning(line)

\* Every argv keeps an entry for the NULL that ends it, which the code writes
\* without looking (dshlib.c:173), and no command is empty.
ArgvFits == \A i \in DOMAIN clist : Len(clist[i]) \in 1..CMD_ARGV_MAX - 1

\* Part 1 and part 3 of the shell parse a line without quotes and tabs alike:
\* same commands, same words, whenever part 1 accepts it and its buffers hold
\* it.  To part 1 quotes and tabs are letters (3-ShellP1 dshlib.c:55-69).
PartsAgree ==
    LET one   == build_cmd_list1(line)
        three == build_cmd_list(line)
        short == \A i \in DOMAIN one.list :
                     /\ Len(one.list[i].exe) < EXE_MAX - 1
                     /\ Len(one.list[i].args) < ARG_MAX - 1
        Has(ch) == Count(line, ch, 1, Len(line)) # 0
    IN  ~Has(Quote) /\ ~Has(Tab) /\ one.rc = OK /\ short =>
            three = [i \in DOMAIN one.list |->
                        FirstOf(<<one.list[i].exe>> \o parse_input(one.list[i].args), CMD_ARGV_MAX - 1)]

\* At the prompt no argument of an earlier command is left on the heap.
NoArgumentLeaks == pc \in {"read", "over"} => live = 0

\* The shell ends at the end of its input or because the first word of a line
\* is exit: an exit further down a pipeline is a command like another.
EndsOnlyWhenTold ==
    /\ pc = "over" <=> ended # "no"
    /\ ended = "exit" /\ QuotesClose(line) => Meaning(line) # <<>> /\ Meaning(line)[1][1] = EXIT_CMD
=============================================================================
