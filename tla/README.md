# A TLA+ model of the CS283 systems portfolio

The repository holds six C programs, each in a directory of its own.  This
directory models what can go wrong in them that a unit test hardly reaches: the
remote shell (`6-RShell`), the way the shells run a pipeline and take a command
line apart (`5-ShellP3`, `6-RShell`, `3-ShellP1`), the shell of part 2
(`4-ShellP2`), the student database (`2-StudentDB`) and the string functions
(`1-C-Refresher`).  Every module is translated from the
source; `PROJECT.json` maps each definition to its lines.

## 1. The system and its parts

| part | source | state it keeps | operations | what is hard |
|---|---|---|---|---|
| remote shell client | `6-RShell/starter/rsh_cli.c` | socket, line typed, receive loop | connect, send a line, receive until the end marker, clean up | an answer is delimited by a byte in a TCP stream |
| remote shell server | `6-RShell/starter/rsh_server.c` | listener, one served connection, `io_buff`, the running command | boot, accept, receive a line, run it, send message and end marker, stop | coalesced and torn receives, clients that vanish, sends nobody checks, a queue of clients |
| pipeline execution | `dshlib.c:324-390`, `rsh_server.c:437-514` | pipes, descriptor tables, children | pipe, fork, dup2, close, exec, wait | who holds which pipe end when; failures half-way |
| command line parser | `dshlib.c:134-222`, part 1's `dshlib.c:35-90` | none | `parse_input`, `build_cmd_list` | quotes, blanks and pipes together; limits |
| local shell | `dshlib.c:225-286, 395-457` | the command list on the heap | read, parse, built-in, pipeline, free | lines longer than the buffer; every path must free |
| student database | `2-StudentDB/sdbsc.c` | a file of 64-byte slots, a temporary file | add, delete, find, count, print, compress, zero | kills between system calls, processes at the same time, compression moves slots |
| shell part 2 | `4-ShellP2/starter/dshlib.c` | one `cmd_buff_t` for all lines, `last_rc`, the stdio buffers | read, parse, built-in, fork, exec, wait | what earlier lines left in the struct; a child's copy of the stdio buffers; the file offset shell and child share |
| string functions | `1-C-Refresher/stringfun.c` | a 50 byte buffer | set up, count, reverse, print, replace | shifting in place, the byte behind the buffer |

How they interact.  A client and the server share a TCP connection, and nothing
else.  The command the server runs in a child holds the same connection as its
stdin, stdout and stderr, so a connection has *two* writers and *two* readers on
the server's side.  The server and the local shell run command lists with the
same pipeline code, after the same parser.  Processes of the student database
share two file names, `student.db` and `.tmp_student.db`, without a lock.  A
forked child of any of the shells shares the file offset of its stdin with the
shell, and holds a copy of what stdio had read ahead and not yet written.

The hazards found while reading are listed, each at its line, in `PROJECT.json`.

## 2. Modules

```
RshNet  <-  RshClient  <-  RshServer  <-  RemoteShell  <-  MCRemoteShell
                                             |    \
                                             |     RemoteShellProofs
                                             +-- Exec == INSTANCE RemoteExec
Positions  <-  CmdLine  <-  LocalShell
               CmdLine  <-  Shell2  <-  MCShell2
Positions  <-  StringFun
Positions  <-  SequenceFacts
               SequenceFacts, Pipeline   <-  PipelineProofs
               SequenceFacts, CmdLine    <-  CmdLineProofs
                                             CmdLineProofs, LocalShell  <-  LocalShellProofs
                                             CmdLineProofs, Shell2      <-  Shell2Proofs
               SequenceFacts, StringFun  <-  StringFunProofs
StudentDB  <-  MCStudentDB  <-  MCSharedDB  <-  StudentDBProofs
   +-- Store == INSTANCE StudentStore
```

(`<-` is EXTENDS.)

**RshNet** is external: the kernel's side of the socket calls.  Each connection
has two ends.  An end is `up`; `fin` after its peer closed; `rst` after a reset
that no call has reported yet; `broken` once a send raises SIGPIPE; or `closed`.
A close with unread bytes resets the peer, a send to a closed peer is answered
by a reset that arrives now or later: both are nondeterministic choices.  `up[c]`
and `down[c]` carry lines and units in order, each with a ghost number of the
command it belongs to; the code never looks at that number, properties do.

**RshClient** has one action per call and return path of
`exec_remote_cmd_loop`.  `Recv(c, n)` returns any non-empty prefix of what is
pending, and like the code looks at the last unit only.

**RshServer** follows `spc` through `start_server`, `process_cli_requests` and
`exec_client_requests`.  `RecvLine(n, split)` returns any number of lines and
perhaps a part of the next; the code reads the buffer as one C string, so the
first is executed and the others are lost.  A part of a line may be any line, an
empty one or `stop-server` with its NUL still to come among them.  The child's output, its reads of the
connection, its exit and every single `send` of the server are steps of their
own, because the client and the network move between them.  When a fork of a
pipeline fails half-way the children forked before it go on as orphans
(`Orphaned`): the first has the connection as its stdin and may take lines from it
(`OrphanReads`), and the connection, and the listening socket every child
inherits, end with the last of them.  `AfterOk` and
`AfterError` say where the code goes after each send: they hold the control flow
of `send_message_string`, `send_message_eof` and of the callers that ignore their
results.  The pipeline is seen as one command here and modelled in `Pipeline`.

**RemoteShell** composes them, and states the properties.  **RemoteExec** is
what the shell promises: a request is run once, one at a time over all clients,
and answered before the client's next one.  `Phase` is the refinement mapping.

**Pipeline** keeps a table of pipe ends per process (`fds`) and the ends
installed as stdin or stdout (`std`).  The commands are external and described
by how they use their ends: one that writes a bounded amount, one that writes
for ever, one that copies to the end of file, one that copies a unit, one that a
signal kills, and one that cannot be executed.  Their end of file and SIGPIPE
come from who holds the other end, which is what the code has to get right.  A
stage that cannot be executed ends in `exit`, which first writes the shell's
output that stdio still held (`held`) into whatever is its stdout by then, so
that the next command reads output of the shell, or nobody does.

**Positions** has the words in which specifications of the parsers are written:
how often a symbol stands between two positions, and what stands at given
positions.  **CmdLine** is pure: the parsers as folds over a sequence of symbols,
and `Meaning`, what a line says, to compare them with.  `Meaning` goes through no
sequence: a blank separates if the number of quotes before it is even, a letter
starts a word if something separates it from every letter before it, and belongs
to the word started last.
Part 3 splits at white space (`Spaces`: a blank or a tab), part 1 at a blank only.
**LocalShell** is the loop around them: `fgets` in pieces, dispatch, free.
One symbol stands for a word of one letter, `e` for `exit`, `c` for `cd`, `r`
for `rc`.

**Shell2** is the shell of part 2.  Its input is a script on a console, a pipe or
a file; `offset` is the offset of the open file, `ahead` what stdio has read and
`fgets` not yet taken, `taken` the positions the shell has taken so far, `out` how
much it has printed, stdio holds, and has been written.  `cmd` is the one
`cmd_buff_t`, its last entry being the field behind `argv`, which the parser
writes when `argv` is full.  `ChildCannotExec` is what `exit` does in a child:
write the child's copy of what stdio holds, and, where stdin can be sought, set
the offset back by what was read ahead.  Both are what glibc does.  A command that
runs shares stdin with the shell and may read any amount of it (`eaten` keeps what
it read); `setBack` and `doubled` are ghosts that note the two effects of `exit`.

**StringFun** keeps the buffer cell by cell, numbered from 0 as in the code, with
the byte behind it as one more cell.  Each function is one action (the program
calls one and exits), its loops are folds; `find_replace` moves the tail cell by
cell in the code's order.  What an argument says is defined by position, with no
loop: `TextOf` has its letters and the blanks directly behind a letter with another
letter to come, `WordsOf` the letters from where one starts to where the next does.
A dot is a letter like any other to these, and the padding to the program.

**StudentDB** has one action per system call, or per function prefix in which a
process touches nothing shared.  A file is a sequence of slots; `fd` is the file
opened, which a rename may since have unlinked.  **StudentStore** is the map that
commands run one after another implement; a killed one may have taken effect
without a word.  A compression of students moves them to other slots, after which
the map is `astray` and promises nothing until `-z`; `astray` is mapped to the
negation of `InPlace`.  The constant `Uninitialised` is what `del_student` may find
in the record it does not initialise (`sdbsc.c:187`) when the slot lies behind the
end of the file: zero in one run, anything in the others.  **MCSharedDB** adds a history of who was in the database
while each process ran.

## 3. What the runs check

| run | question | distinct states |
|---|---|---|
| `rsh_faults` | sockets, stranded clients and double execution when everything that can fail does | 6.9 M (symmetry) |
| `rsh_clean` | three clients, commands that succeed: is it a remote call, and does it end? | 55 k |
| `rsh_stale_answer`, `rsh_broken_pipe` | violations, see below | |
| `pipeline` | descriptors, status and termination of every pipeline of up to three commands | 546 k |
| `local_shell` | parser against two references, limits, heap, end of the loop | 613 k |
| `shell2` | what execvp is given, what is read and written once, what the shell dies of | 138 k |
| `string_fun` | every option on every short string, against definitions by position | 2.0 M |
| `sdb_store` | do the commands implement a map, failing or killed? is a compression exact? | 667 k |
| `sdb_shared` | what still holds with two processes at a time, one of them compressing | 2.1 M |
| `sdb_lookup`, `sdb_delete` | violations, see below | |

The properties and why they are not obvious:

* `NoStrandedClient`: a client in its receive loop on a live connection always
  has an end marker under way, an unread line, or a server at work for it.  It
  looks only at the last byte of a receive, and lines are lost on the server's
  side, so this is not a matter of counting markers: it holds because whatever is
  left pending when the server is not busy *ends* in a marker.  It fails in two
  cases, which the property names: an orphan of a failed fork has read one of the
  client's lines (`robbed`), so that it waits with nothing under way and the server
  idle; or orphans keep up a connection, or the queue, that the server has left.
* `ServerSockets`: every open server end is the connection served, one in the
  backlog, each once, or one that orphans hold; no path through the three functions
  leaks.
* `NeverRunsTwice`: an action property over the ghost numbers.
* `AnswersMatchRequests`, `RunsWhatWasTyped`, `IsRemoteExec`: request and answer
  belong together.  These need that no command fails: see the findings.
* `OnlyOwnEnds`, `PipelineEnds`, `ReturnsClean`: pipe ends per process, end of
  file and SIGPIPE arriving, every child waited for.  `PipelineEnds` excludes a
  writer for ever with only readers for ever behind it, which ends nowhere.
* `NeverStuck`: while the shell waits, some child is not blocked at a pipe.  It is
  what ends a pipeline if the commands end, without fairness and for the pipelines
  that run for ever as well.  `BlockedWriting` and `BlockedReading` are the two ways
  a child can wait: in any other state of a living child one of its actions is
  possible.  One end left open is enough to break it: a filter that keeps its own
  copy of the writing end behind its stdin waits for itself.
* `ParsedAsWritten`: the fold over characters equals a definition by positions
  (separators and letters, found by counting).  Lines with a quote that is not
  closed within its part are excluded: trailing blanks are trimmed before quotes
  are looked at.  So are lines with more commands or words than there is room for,
  of which the comments and the code say different things (below).  `PartsAgree`:
  and equals part 1's parser on the lines that one accepts, if they have neither
  quotes nor tabs, both of which are letters to part 1.
* `ExecvpGetsLine`: the argv of a line has its words and a NULL, whatever an
  earlier line left in the same struct; it excludes lines with more words than
  argv has entries, which the code reports and then executes all the same.
* `ReadsEachOnce`, `WritesEachOnce`: positions of the input and counts of the
  output, across forks.  Each symbol is read once, by the shell or by a command on
  the stdin they share, until an `exit` in a child sets the offset of a file back;
  what is printed is written once until such an `exit` writes its copy of what stdio
  held.  What happens after that is in the model: `MaxTaken` ends the scripts that
  run for ever.
* `DiesOnlyWordless`: a line of blanks or of `""` kills the shell (`strcmp` of
  NULL), as may the first line (an uninitialised `argc`); nothing else does.
* `ShellEnds`: the input is used up, except where it is set back.
* `SetupNormalises`, `WordsAgree`, `ReverseExact`, `ReplaceExact`: the loops of
  `stringfun.c` against the text and the words of the argument and the first
  occurrence in it, all by position.
  `ReplaceExact` claims neither what an overflow leaves nor what a shorter
  replacement does (below), nor that a text with a dot of its own is printed
  further than to it.
* `BehindTheBuffer`: the byte behind the buffer is overwritten only by a
  replacement that fills the buffer, and read only by one that shortens a full
  buffer.
* `OnlyAsAsked`, `CompressIsExact`: action properties over the set of students and
  the file across a rename: a delete takes the student asked for, and another one
  only after a compression has moved him into that slot; the new file has as many slots as the old one had
  students, and the student of each slot taken stands where the slots taken up to
  it are counted.  A read that fails inside the copying loop is left out
  of the run's faults: the loop takes it for the end of the file and the rename
  then loses the rest (`sdbsc.c:452`, in the hazards).
* `CountIsPlausible`: a count that runs among writers is at least the number of
  students there all along, at most the number of those there at some time.
* `CompressAmongWriters`: a compression among writers loses nobody who was there
  all along and invents nobody, even on a file an earlier compression has moved.

Deadlock is not checked: every one of these programs ends, and the bounds on
lines, commands and symbols end the others.

Four runs expect a violation and show a disagreement with a comment or a test:

1. `rsh_stale_answer`: a failed command is answered by two end markers
   (`rsh_server.c:310` and `:316`), so the next answer is taken for a stale one.
2. `rsh_broken_pipe`: a client that leaves kills the server by SIGPIPE.
3. `sdb_lookup`: after `-x`, `-f id` returns somebody else.
4. `sdb_delete`: a `-d` past the end of the file decides on an uninitialised record
   (`sdbsc.c:187`) and may report that it deleted a student who is not there.

Seen on the way and not made a run:

* An inner `rc` shadows the one `process_cli_requests` returns
  (`rsh_server.c:212`), so that a server stopped by `stop-server` returns OK and not
  OK_EXIT.
* A client may wait for ever after a fork has failed half-way
  (`rsh_server.c:457`): `NoStrandedClient` says exactly when.
* `ERR_TOO_MANY_COMMANDS`, which the comment of the local loop promises for too
  many pipes (`6-RShell/starter/dshlib.c:55, 62, 66`), is never returned: the
  commands beyond the limit are dropped and the rest is executed.
* A tab separates words in part 3 and is a letter in part 1
  (`3-ShellP1/starter/dshlib.c:55, 64, 69`).
* `stringfun -x` with a replacement shorter than what it replaces overwrites the
  tail it has still to move and pads nothing (`stringfun.c:207`), where
  `test.sh:96-100` expects the new text padded; on an overflow it fills the buffer
  with dots where `test.sh:84-94` expects the text cut; it exits with 0 when nothing
  is found where `test.sh:78-82` expects another status; and it prints up to the
  first dot, whether padding or not (`stringfun.c:327`).
* Part 2 takes an exit status of 2 for "command not found"
  (`4-ShellP2/starter/dshlib.c:113`).

### Bounds

Two clients are enough for a session with another client in the backlog; three
for a queue with an order.  Two commands per client show the effect of one
command on the next.  `MaxOrphaned` is one session with orphans at a time: the
other client meets the connection and the listener they hold.  A backlog of one makes `connect` wait.  One or two writes
per command separate "no output", "output" and "output that ends in the marker".
Three stages have a first, a middle and a last command; a pipe of one unit and
a source of two make writers block.  The parser's run has room for two commands
of two arguments and pieces of five symbols, so that both limits and the cut of a
long line are reached within six symbols, with both kinds of white space among
them.  `shell2` has room for two arguments, and its scripts take one line of every kind
the code treats in its own way: empty, without a word, built-in, there, not there,
quoted, as many words as argv has entries, one more (which is also cut in two by
the size of `input`).  Two lines of every kind show what one leaves to the next;
three of the kinds that change anything show lines read again twice.  A buffer of
five cells and strings of six show too long, full and padded texts; old texts of
two and new ones of three symbols give every sign of the shift, with a tail longer
and shorter than it.  Three ids give a gap between two students; three files are
the database, the temporary one and an unlinked one.  `MaxRuns` (4 or 5) allows
add, add, delete, killed compression, compression.

### Fairness

`rsh_clean` assumes weak fairness of the server with its command, and of each
client without being killed.  The server is one process, the kernel schedules it,
and its commands are assumed to end and to succeed; the clients are scripted as in
`6-RShell/starter/bats`, whose here-documents end.  Nothing obliges an orphan to end
or to read.  `cat`, which waits for the client that waits for it, is left out of
that run and listed as a hazard.
`pipeline` assumes weak fairness of the shell and of each child: a process that
is not blocked in a system call is scheduled.  `shell2` assumes it of the shell
and its one child, and that commands end.

## 4. What is proved

Everything here is checked by TLAPS for every value of the constants: any number
of clients, processes, commands, lines and symbols, any limits, any set of
failing calls.  The `ASSUME`s of the modules say only what kinds of values the
constants are.  Where a theorem has a hypothesis of its own it is named in its
statement and explained below; each is one a run of section 3 satisfies, and one
that the code does need.

| module | theorem | what a run checks and it states |
|---|---|---|
| `RemoteShellProofs` | `TypeCorrect`, `NeverStranded`, `SocketsAreOwned`, `RunsInOrder` | `TypeOK`, `NoStrandedClient`, `ServerSockets`, `NeverRunsTwice` |
| | `AnswersInStep`, `RunsTheLineTyped`, `NeverKilled`, `ImplementsRemoteExec` | `AnswersMatchRequests`, `RunsWhatWasTyped`, `ServerSurvives`, `IsRemoteExec` |
| `PipelineProofs` | `TypeCorrect`, `EndsAreOwn`, `ReturnIsClean`, `SomeChildGoesOn` | `TypeOK`, `OnlyOwnEnds`, `ReturnsClean`, `NeverStuck` |
| `CmdLineProofs` | `ScanFinds`, `BuildFinds`, `PartsFindTheSame` | what the parsers compute, for every line |
| `LocalShellProofs` | `TypeCorrect`, `ParsesWhatIsWritten`, `RoomForNull`, `FreesWhatItCopies`, `EndsWhenTold`, `PartsOneAndThreeAgree` | `TypeOK`, `ParsedAsWritten`, `ArgvFits`, `NoArgumentLeaks`, `EndsOnlyWhenTold`, `PartsAgree` |
| `Shell2Proofs` | `TypeCorrect`, `GivenWhatWasTyped`, `InputReadOnce`, `OutputWrittenOnce`, `DiesOfNothingElse` | `Shell2TypeOK`, `ExecvpGetsLine`, `ReadsEachOnce`, `WritesEachOnce`, `DiesOnlyWordless` |
| `StringFunProofs` | `StringTypes`, `SetupIsNormal`, `WordsAreThose`, `ReverseIsExact`, `ReplaceIsExact`, `BehindIsReached` | `StringTypeOK`, `SetupNormalises`, `WordsAgree`, `ReverseExact`, `ReplaceExact`, `BehindTheBuffer` |
| `StudentDBProofs` | `TypeCorrect`, `ChangesAsAsked`, `CompressExact`, `ImplementsStore`, `SlotsAreOwn`, `CountsArePlausible`, `CompressesAmongWriters` | `DbTypeOK`, `OnlyAsAsked`, `CompressIsExact`, `IsStudentStore`, `SlotOwnsItsStudent`, `CountIsPlausible`, `CompressAmongWriters` |

### The remote shell

`NoStrandedClient` is not inductive.  A receive that takes part of what is
pending keeps it only if something with a marker remains, and a server that goes
from busy to idle keeps it only if its last send was a marker on a live
connection.  `DeliveryInv` adds, per client, that the two ends of a connection are
up together (`EndsAgree`), that nothing is pending before the connection
(`NothingBeforeConnect`) and that what is pending for a client the server is not
busy with ends in a marker (`AnswersEnd`).  The network's operations have lemmas
about what they do to one client; each action of the client, of the server and of
the orphans has a lemma that it preserves `Delivery` of every client.
`DeliveryInv` says that there is an unread line; that a running server will come to
read it is in the invariant of `ServerSockets`.

`ServerSockets` needs that nobody is in the queue twice, that the client served is
not in it, and that who has not connected has no end at the server (`SocketInv`).
`NeverRunsTwice` speaks of one step; what makes it hold at every step is that the
numbers of the lines under way rise, beyond that of the line in `io_buff` and not
beyond the last one typed (`OrderInv`).  None of the four has a hypothesis.

That the shell is a remote call needs more, and each part gets just what it needs:

* `EveryCommandSucceeds`: no command fails (as `exit` does, which the server looks
  for in the path), prints the end marker or reads the connection, fork works, and
  no recv ends inside a line.  Without it the answers do not stay in step: a
  failing command is answered by two end markers (run `rsh_stale_answer`), `cat`
  takes the next line, a half line is run.
  Under it each client is in one of the states of `CallState`: not connected, at
  the prompt with nothing pending, or waiting with its request sent, running,
  answered, or cut off.  This gives `AnswersInStep`, with clients killed and
  system calls failing at any time.
* `NobodyIsKilled`: no client is killed.  Then a client leaves only when the
  server owes it nothing (`LeaveInv`), so that what the server runs is what a
  client that waits has typed (`RunsTheLineTyped`), and no send meets a closed
  connection (`NeverKilled`; run `rsh_broken_pipe` kills a client and the server
  with it).
* `OnlyParsingFails`: of the server's calls none fails but the parser.  Then a
  client is cut off only because the server stops (`CutInv`), and every step is a
  step of `RemoteExec` or a stutter under `Phase` (`ImplementsRemoteExec`).  The
  proof goes action by action: one lemma per action names the abstract step, or
  shows that no client's phase moves.

The run `rsh_clean` has all three.

### The pipeline

`OnlyOwnEnds` and `ReturnsClean` follow from what the shell and each child hold at
each point of their prologues (`ShellHolds`, `ChildHolds`): the shell makes every
pipe before its first fork, so that a child starts with all of them; what it
closes after `dup2` is counted from the first pipe to the last.  `Progress` says
how far the loops over the commands have come.

`SomeChildGoesOn` is that the children never all wait for each other, in a pipeline
of any length.  Once the shell waits it holds no end, and if everybody is blocked
everybody is past `execvp`, so that a pipe is held by its two neighbours only
(`HeldByNeighbour`).  A child that waits to write has a full pipe before it: the
reader lives, and since it has something to read it waits to write too
(`WritersGoOn`); the last of them has nobody before it.  So all wait to read, and
the first of them would need a writer that lives (`ReadersGoBack`).  It needs that
what `exit` has to write fits a pipe, or it would wait in front of an empty one
(`ChildHolds`): a write beyond that would be taken in pieces, and the model takes
it in one.

### The parsers

The community modules define a fold over a sequence as a `CHOOSE` of a recursive
function on sets of positions, from the last position down.  `SequenceFacts`
proves that function to exist and to be a loop from the first element on
(`FoldIsLoop`), for every fold whose turn is a function; induction runs over sets
of numbers, since the provers cannot instantiate an operator.  It also holds what
`Nth`, `Pick` and `Count` do when a position is added at the end, on which every
argument about `Meaning` rests.

`ScanFinds` is that the loop over the characters of a command finds its words: in
front of any character the arguments and the one being copied are the words so
far (`ScanTurnMeans`, by the cases of a quote, a separator, a letter that starts a
word and one that goes on).  `ScanTrimmed` is that trimming first changes nothing
if the quotes close, `SplitLeavesParts` that `strtok` at the pipes leaves the
parts of the line.  `BuildFinds` combines them and is all of `ParsedAsWritten`.

The local loop then needs that the list and the heap agree (`ListHeld`) and that
the list held is that of the last line (`ListFromLine`).

`PartsAgree` is a fact about two parsers, and `PartsFindTheSame` proves it for
every line without quotes and tabs: there the letters in front of the first blank of a
command are its first word and what is behind them has the other words
(`WordsBehind`), a command is empty to the one parser if it is to the other, and
as long as part 1 has room the lists of both grow together (`ListsGrow`).  What
`PartsAgree` excludes is what part 1 does otherwise: it knows neither quotes nor tabs,
reports too many commands where part 3 ignores them, and cuts what is too long.

### The shell of part 2

`ReadsEachOnce` is inductive.  The counts of the output need that nothing is lost
between the buffer and the file (`Counted`), which a child's `exit` keeps because
it writes its copy once and the shell still has its own.  `ExecvpGetsLine` needs
`CmdInv`: from the parse to `execvp` the entries of the one `cmd_buff_t` up to the
NULL are those of the line in hand, whatever is behind them.  `Shell2Assumption`
says that the lines typed are of symbols other than `NULL` and `wild`, with which
the model stands for pointers.

### The string functions

The invariant (`StringInv`) is small: until the buffer is filled it has what the
heap had; a filled buffer holds the text of an argument that fits; and since a
program that has exited does nothing more, what it left is what is claimed of it.
What there is to prove is what each loop computes, for any argument and any size.

* `CopiesText`: in front of any symbol `setup_buff` has copied what `TextOf` keeps
  so far, except that a blank directly behind a letter is copied before it is known
  whether a letter follows; `Trails` says that this is when `found_space` is set,
  and why the cut of one symbol after the loop is enough.
* `CountsWords`, `FindsWords`: the loops of `count_words` and `word_print` find the
  words of the buffer; `TextHasWords`: and these are the words of the argument,
  although `setup_buff` has thrown blanks away (a blank thrown away stands where no
  word is open).  `WordsAgree` compares both with the argument as typed.
* `ReversesText`: after n swaps the first n and the last n cells of the text are
  turned round and the others are not (`Turned`); the two ends meet at
  `str_len \div 2`, for an odd length too.
* `MovesTail`: after n moves the cells written are the last n of where the tail
  goes.  One of them has what the cell `Shift` away had before the moves, unless that
  one was itself written before it was read, which happens only when the tail moves
  down: then it has what *that* one has now (`AfterMoves`).  `ReplacedCells` follows
  for every cell of the buffer.
* `BehindTheBuffer` follows the recursion to its last cell: what the heap
  has can come only from the cell behind a text that fills the buffer.

`StringFunAssumption` says that the buffer has a cell and that letters are not
blanks.  A dot may be one: the program takes it for padding when it prints a
replacement, which `ReplaceExact` says.

### The student database

With one process at a time (`Exclusive`) what a process knows of the file does not
change under it: what it has read is what is there (`KnowsFile`), each student
once (`SeenOnce`), and what a compression has copied is in order
(`CopiedInOrder`).  The theorems say so for kills between any two calls and for
any failing call but one: `"scan" \notin Faults`, because the loops take a read
that fails for the end of the file, and a compression then loses the rest
(`sdbsc.c:452`).  `ImplementsStore` has one more, that the record `del_student`
leaves uninitialised is empty: without it a delete past the end of the file reports
success (run `sdb_delete`); `ChangesAsAsked` holds whatever is in that record.
`ImplementsStore` goes call by call: the abstract step is that
of the `write`, the rename or the answer, every other call a stutter.

With several processes nothing is exclusive; `MCSharedDB` says only that two do
not compress at once, which overwrite each other's temporary file.  `SlotsAreOwn`
says that until a compression nobody is in another's slot.  For the other two, an
invariant relates what a process has seen to the history of who was there while it
ran: `Counting` for a count, `Packing` for a compression, with `Files` for who has
which file open (a writer may hold one that a rename has unlinked) and `InOrder`
for the direction in which students move.  There are finitely many processes, so
that the sets of students can be counted.  `CountsArePlausible` is for processes
that are not killed: a count that is killed ends its scan too, and reports nothing.

### What the proofs changed in the model

Writing them found five places where the model or a property was loose, none of
them a difference from the code:

* the pipeline's `TypeOK` bounded what a child has to write by what its command
  writes, and forgot what `exit` writes of the shell's output: only the small
  `Capacity` of the run hid it;
* `Phase` had overlapping cases in a `CASE`, of which TLC takes the first;
* `Meaning` was defined by longest stretches, which could not be reasoned about
  from one symbol to the next, and is now defined by counting;
* `ExecvpGetsLine` was stated with `Meaning`, which splits a line at pipes that part
  2 does not know, and the scripts had none: it is stated with `Words`, and the
  scripts have a line with a pipe;
* the words of the string functions were defined by longest stretches too, and the
  text by joining them: `TextOf` and `WordsOf` now say by position what is kept and
  what belongs together, and the words are those of the argument as typed.

### Only model-checked

* Liveness: `EveryClientEnds`, `PipelineEnds`, `ShellEnds`.  Fairness needs
  ENABLED, which the prover does not have.
* The four violations, which are behaviours and not theorems.

## 5. What is not modelled, and why

* Bytes of the remote shell: sizes of buffers, truncation at 64 KB, what `printf`
  shows.  The hazards that live there are listed.
* Which message of part 2 stands for which errno, and the working directory of `cd`.
* The pipes of an orphan of the server: `Pipeline` has them, and lets the children
  go on when a call of the shell fails; in `RshServer` only its hold on the
  connection counts.
* Two compressions of the database at a time: they write to one temporary file,
  and nothing holds of the result.
* The output of part 1, which prints what it has parsed.
* The threaded mode: `is_threaded` is a parameter that the code never reads.
* `exec_cmd`, `build_cmd_buff`, `rsh_match_command`, `rsh_built_in_cmd`: called
  by nobody.
* `dsh_cli.c`: argument parsing before anything runs; `dragon.c`: a text.
* `0-Warmup`, the questions and readme files, debug symbols.

## 6. Plan

Done, in this order: the remote shell and its theorems; the student database; the
pipeline; the parser and the local loop; the shell of part 2; the string
functions; compression within the refinement and among writers; the proofs of
section 4.  Left:

1. **The weaker hypotheses** under which the remote shell still is a remote call:
   what `cat` does to the order of answers, and a recv that ends inside a line.
