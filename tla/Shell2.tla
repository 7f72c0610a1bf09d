------------------------------- MODULE Shell2 -------------------------------
(***************************************************************************)
(* The shell of 4-ShellP2/starter/dshlib.c: exec_local_cmd_loop runs one   *)
(* command per line, with one cmd_buff_t on its stack for all of them.     *)
(* Its input and output are streams of stdio, of which a forked child has  *)
(* a copy: a child that cannot exec calls exit, and that writes out what   *)
(* its copy of stdout holds and, where stdin is a file, sets the offset it *)
(* shares with the shell back by what its copy of stdin holds.  A command  *)
(* has the shell's stdin, which the shell does not redirect, and may read  *)
(* of it what the shell has not read yet.                                  *)
(***************************************************************************)
EXTENDS CmdLine

CONSTANTS
    Scripts,        \* the inputs: sequences of symbols
    Inputs,         \* what stdin and stdout are: "console", "pipe", "file"
    Existing,       \* the names execvp finds
    Statuses,       \* exit statuses of commands
    SH_CMD_MAX,     \* bytes of input, with its NUL
    MaxTaken        \* bound: symbols the shell reads, those read again included

\* Words of one symbol stand for the built-in commands, as in LocalShell.
EXIT_CMD == <<"e">>
CD_CMD == <<"c">>
RC_CMD == <<"r">>
Null == <<"NULL">>      \* entries of argv that are no word
Wild == <<"wild">>      \* never written
Killed == -1            \* the status of a command that a signal ended
ENOENT == 2
EFAULT == 14

Symbols == STRING \ {"NULL", "wild"}    \* what lines are written with

ASSUME Shell2Assumption ==
    /\ Scripts \subseteq Seq(Symbols)
    /\ Inputs \subseteq {"console", "pipe", "file"}
    /\ Null \notin Existing /\ Wild \notin Existing
    /\ Statuses \subseteq 0..255
    /\ SH_CMD_MAX \in Nat \ {0, 1} /\ MaxTaken \in Nat

VARIABLES
    pc,             \* "read", "parse", "match", "child", "reap", "over", "crashed"
    stdin, script,  \* what the input is, and all of it
    offset,         \* the offset of the open file that shell and children share
    ahead,          \* positions of the script that stdio holds and fgets has not taken
    taken,          \* the positions that fgets has taken, in order
    line,           \* input
    cmd,            \* the cmd_buff_t; entry CMD_ARGV_MAX + 1 is _cmd_buffer
    status,         \* what waitpid is going to report
    last_rc,
    out,            \* stdout: lines and prompts printed, held by stdio, written
    eaten,          \* ghost: the positions that commands have read
    setBack,        \* ghost: a child has set the shared offset back
    doubled         \* ghost: a child has written what the shell's stdio held

ghosts == <<eaten, setBack, doubled>>
shVars == <<pc, stdin, script, offset, ahead, taken, line, cmd, status, last_rc, out, ghosts>>

Entries == 1..CMD_ARGV_MAX + 1

Shell2Init ==
    /\ pc = "read"
    /\ stdin \in Inputs /\ script \in Scripts
    /\ offset = 0 /\ ahead = <<>> /\ taken = <<>>
    /\ line = <<>>
    /\ cmd = [argc |-> -1, argv |-> [i \in Entries |-> Wild]]      \* -1: uninitialised
    /\ status = 0 /\ last_rc = 0
    /\ out = [printed |-> 0, held |-> 0, written |-> 0]
    /\ eaten = {} /\ setBack = FALSE /\ doubled = FALSE

\* stdio holds what is printed until a newline or a read on a console, and
\* until the end otherwise.
Printed(o) == [o EXCEPT !.printed = @ + 1, !.held = @ + 1]
Flushed(o) == [o EXCEPT !.held = 0, !.written = @ + o.held]
PrintedLine(o) == IF stdin = "console" THEN Flushed(Printed(o)) ELSE Printed(o)

-----------------------------------------------------------------------------
\* fgets takes up to a newline, or as much as there is room for.
Symbol(positions) == [i \in DOMAIN positions |-> script[positions[i]]]
LineEnd(s) == SelectInSeq(s, LAMBDA ch : ch = NewLine)
RoomIn(s) == IF Len(s) < SH_CMD_MAX THEN Len(s) ELSE SH_CMD_MAX - 1
LineLen(s) == IF LineEnd(s) \in 1..RoomIn(s) THEN LineEnd(s) ELSE RoomIn(s)

\* If what stdio holds is not enough it asks for more: a console gives a line,
\* a pipe or a file all there is.  (Scripts are shorter than stdio's buffer.)
Refills == LineEnd(Symbol(ahead)) = 0 /\ Len(ahead) < SH_CMD_MAX - 1
RefillTo ==
    LET rest == SubSeq(script, offset + 1, Len(script))
    IN  IF ~Refills THEN offset
        ELSE IF stdin = "console" /\ LineEnd(rest) # 0 THEN offset + LineEnd(rest)
        ELSE Len(script)
Available == ahead \o [i \in 1..RefillTo - offset |-> offset + i]

Prompted == IF stdin = "console" /\ Refills THEN Flushed(Printed(out)) ELSE Printed(out)

\* Mutant: an empty line is parsed like any other.
NothingIsEmpty(s) == FALSE

IsEmpty(s) == s = <<>>

\* The prompt, fgets, and the loop again if the line is empty.
ReadLine ==
    /\ pc = "read" /\ Available # <<>>
    /\ \E avail \in {Available} : \E n \in {LineLen(Symbol(avail))} :
         /\ Len(taken) + n <= MaxTaken
         /\ ahead' = SubSeq(avail, n + 1, Len(avail))
         /\ taken' = taken \o SubSeq(avail, 1, n)
         /\ line' = Chomped(Symbol(SubSeq(avail, 1, n)))
    /\ offset' = RefillTo
    /\ pc' = IF IsEmpty(line') THEN "read" ELSE "parse"
    /\ out' = Prompted
    /\ UNCHANGED <<stdin, script, cmd, status, last_rc, ghosts>>

\* Mutant: the end of the input is an empty line.
EndOfInputIgnored ==
    /\ pc = "read" /\ Available = <<>>
    /\ UNCHANGED shVars

\* fgets returns NULL: a newline after the prompt, and main prints what the loop
\* returned.
EndOfInput ==
    /\ pc = "read" /\ Available = <<>>
    /\ pc' = "over"
    /\ out' = Flushed(Printed(Printed(Printed(out))))
    /\ UNCHANGED <<stdin, script, offset, ahead, taken, line, cmd, status, last_rc, ghosts>>

Crash ==
    /\ pc' = "crashed"
    /\ UNCHANGED <<stdin, script, offset, ahead, taken, line, cmd, status, last_rc, out, ghosts>>

\* clear_cmd_buff frees what an uninitialised argc says.
ClearCrashes == pc = "parse" /\ cmd.argc = -1 /\ Crash

\* Mutant: no NULL after the arguments.
Unterminated(s, i) == FALSE

\* The entry that becomes NULL; none if the parse is given up.
Terminated(s, i) == i = Len(s.args) + 1 /\ ~s.over

\* clear_cmd_buff and the parse.  Entries behind the NULL keep what they held.
ParseInput ==
    /\ pc = "parse"
    /\ \E s \in {Scan(line, CMD_ARGV_MAX)} :
         /\ cmd' = [argc |-> Len(s.args),
                    argv |-> [i \in Entries |-> IF i <= Len(s.args) THEN s.args[i]
                                                ELSE IF Terminated(s, i) THEN Null
                                                ELSE cmd.argv[i]]]
         /\ out' = IF s.over THEN PrintedLine(out) ELSE out
    /\ pc' = "match"
    /\ UNCHANGED <<stdin, script, offset, ahead, taken, line, status, last_rc, ghosts>>

-----------------------------------------------------------------------------
\* match_command compares argv[0], which is NULL if the line had no word.
MatchCrashes == pc = "match" /\ cmd.argv[1] = Null /\ Crash

\* Mutant: the shell leaves by _exit.
ExitHeld ==
    /\ pc = "match" /\ cmd.argv[1] = EXIT_CMD
    /\ pc' = "over"
    /\ UNCHANGED <<stdin, script, offset, ahead, taken, line, cmd, status, last_rc, out, ghosts>>

ExecExit ==
    /\ pc = "match" /\ cmd.argv[1] = EXIT_CMD
    /\ pc' = "over" /\ out' = Flushed(out)
    /\ UNCHANGED <<stdin, script, offset, ahead, taken, line, cmd, status, last_rc, ghosts>>

\* cd leaves the working directory to the kernel; rc prints a line.
ExecBuiltIn ==
    /\ pc = "match" /\ cmd.argv[1] \in {CD_CMD, RC_CMD}
    /\ pc' = "read"
    /\ out' = IF cmd.argv[1] = RC_CMD THEN PrintedLine(out) ELSE out
    /\ UNCHANGED <<stdin, script, offset, ahead, taken, line, cmd, status, last_rc, ghosts>>

External == cmd.argv[1] \notin {Null, EXIT_CMD, CD_CMD, RC_CMD}

\* Mutant: what stdio holds is dropped before the fork, as by fflush(stdin).
ForkDropsInput ==
    /\ pc = "match" /\ External
    /\ pc' = "child" /\ ahead' = <<>>
    /\ UNCHANGED <<stdin, script, offset, taken, line, cmd, status, last_rc, out, ghosts>>

\* The fork may fail.
Fork ==
    /\ pc = "match" /\ External
    /\ pc' \in {"child", "read"}
    /\ UNCHANGED <<stdin, script, offset, ahead, taken, line, cmd, status, last_rc, out, ghosts>>

\* What execvp reads of argv: up to a NULL, and off its end if there is none.
HasNull == \E i \in Entries : cmd.argv[i] = Null
Argv == LET n == SelectInSeq(cmd.argv, LAMBDA w : w = Null)
        IN  SubSeq(cmd.argv, 1, IF n = 0 THEN CMD_ARGV_MAX + 1 ELSE n - 1)

\* exit in a process with a copy of the shell's streams: what its stdout holds
\* is written, and a file's offset goes back to what its stdin has not used.
SetsBack == stdin = "file" /\ ahead # <<>> /\ Len(ahead) <= offset

\* perror goes to stderr; exit ends the child with the errno of execvp.
ChildCannotExec ==
    /\ pc = "child"
    /\ \/ cmd.argv[1] \notin Existing /\ status' = ENOENT
       \/ ~HasNull /\ status' = EFAULT
    /\ out' = [out EXCEPT !.written = @ + out.held]
    /\ offset' = IF SetsBack THEN offset - Len(ahead) ELSE offset
    /\ setBack' = (setBack \/ SetsBack)
    /\ doubled' = (doubled \/ out.held > 0)
    /\ pc' = "reap"
    /\ UNCHANGED <<stdin, script, ahead, taken, line, cmd, last_rc, eaten>>

\* The command runs and ends.  Its streams are its own but the input is not: what
\* it reads of it, if it reads any, the shell will not see.
ChildRuns ==
    /\ pc = "child" /\ cmd.argv[1] \in Existing
    /\ status' \in Statuses \cup {Killed}
    /\ offset' \in offset..Len(script)
    /\ eaten' = eaten \cup offset + 1..offset'
    /\ pc' = "reap"
    /\ UNCHANGED <<stdin, script, ahead, taken, line, cmd, last_rc, out, setBack, doubled>>

\* A status that is not 0 is printed as if it were an errno.
Reap ==
    /\ pc = "reap"
    /\ last_rc' = IF status = Killed THEN 1 ELSE status
    /\ out' = IF status \in {0, Killed} THEN out ELSE PrintedLine(out)
    /\ pc' = "read" /\ status' = 0
    /\ UNCHANGED <<stdin, script, offset, ahead, taken, line, cmd, ghosts>>

Shell2Next ==
    \/ ReadLine
    \/ EndOfInput
    \/ ClearCrashes
    \/ ParseInput
    \/ MatchCrashes
    \/ ExecExit
    \/ ExecBuiltIn
    \/ Fork
    \/ ChildCannotExec
    \/ ChildRuns
    \/ Reap

Shell2Spec == Shell2Init /\ [][Shell2Next]_shVars /\ WF_shVars(Shell2Next)

-----------------------------------------------------------------------------
Shell2TypeOK ==
    /\ pc \in {"read", "parse", "match", "child", "reap", "over", "crashed"}
    /\ offset \in 0..Len(script)
    /\ ahead \in Seq(1..Len(script)) /\ taken \in Seq(1..Len(script))
    /\ eaten \subseteq 1..Len(script)
    /\ cmd.argc \in -1..CMD_ARGV_MAX
    /\ \A i \in 1..cmd.argc : cmd.argv[i] \notin {Null, Wild}
    /\ status \in Statuses \cup {0, Killed, ENOENT, EFAULT}
    /\ last_rc \in Statuses \cup {0, 1, ENOENT, EFAULT}
    /\ out.held <= out.printed

\* The line, by the positional definition of CmdLine, has told it to.
ToldToExit == Words(line) # <<>> /\ Words(line)[1] = EXIT_CMD

\* execvp is given exactly the words of the line that was typed, and a NULL,
\* whatever an earlier line has left in the same cmd_buff_t; only a line with
\* more words than argv has entries may get another word or no NULL
\* (dshlib.c:150-156, 204-249).
ExecvpGetsLine ==
    pc = "child" /\ Len(Words(line)) <= CMD_ARGV_MAX => HasNull /\ Argv = Words(line)

\* Every symbol of the input is read once and in order, by the shell or by one of
\* its commands, until a command that cannot be executed sets the offset of a
\* file back: then lines are run again, or pieces of lines glued together.  At
\* the end of the input nothing is left (dshlib.c:73, 98-106).
ReadsEachOnce ==
    LET seen == taken \o ahead
    IN  \/ setBack
        \/ /\ \A i, j \in DOMAIN seen : i < j => seen[i] < seen[j]
           /\ eaten \cap Range(seen) = {} /\ eaten \cup Range(seen) = 1..offset
           /\ pc = "over" /\ ~ToldToExit => ahead = <<>> /\ offset = Len(script)

\* What the shell prints is written once, at the latest when it ends, and never
\* lost; more than once only if a command could not be executed while stdio
\* held some of it (dshlib.c:68, 103).
WritesEachOnce ==
    /\ doubled \/ out.written + out.held = out.printed
    /\ out.written + out.held >= out.printed
    /\ pc = "over" => out.held = 0

\* The shell dies only of a line without a word, though not of an empty one,
\* or on the very first line it parses (dshlib.c:79-89, 150-161).
DiesOnlyWordless ==
    pc = "crashed" => line # <<>> /\ (Words(line) = <<>> \/ cmd.argc = -1)

\* With commands that end the shell comes to the end of its input, or of
\* itself, unless a command that cannot be executed sets the offset of a file
\* back (dshlib.c:66-147).
ShellEnds == <>(pc \in {"over", "crashed"} \/ setBack)
=============================================================================
