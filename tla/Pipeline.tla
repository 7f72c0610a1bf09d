------------------------------- MODULE Pipeline -------------------------------
(***************************************************************************)
(* How a pipeline of commands is run: execute_pipeline of dshlib.c and its *)
(* copy rsh_execute_pipeline of rsh_server.c.  The shell makes the pipes,  *)
(* forks one child per command, closes its own ends and waits for the      *)
(* children in order; each child installs its ends as stdin and stdout,    *)
(* closes the others and becomes its command.  The command reads end of    *)
(* file, or dies writing, according to who still holds the other end.      *)
(* A command that cannot be executed ends in exit, which first writes what *)
(* the shell had printed and stdio still held when it forked.              *)
(***************************************************************************)
EXTENDS Integers, FiniteSets

CONSTANTS
    MaxStages,      \* bound: CMD_MAX commands in a list
    Capacity,       \* units a pipe holds before a write blocks
    Amount,         \* bound: units a "source" writes
    Kinds,          \* behaviours of the commands
    CallError,      \* what the function returns when pipe or fork fails
    Faults          \* system calls that may fail

(***************************************************************************)
(* What commands do, as far as the pipes can tell: a source writes Amount  *)
(* units and reads nothing; yes writes for ever; a filter copies until end *)
(* of file; head copies one unit; crash is killed by a signal of its own;  *)
(* bad is not there to be executed.                                        *)
(* Two programs have this code: dshlib.c returns ERR_EXEC_CMD when a call  *)
(* fails, rsh_server.c ERR_RDSH_COMMUNICATION.                             *)
(***************************************************************************)
ERR_EXEC_CMD == -6
ERR_RDSH_COMMUNICATION == -50

ASSUME PipelineAssumption ==
    /\ MaxStages \in Nat \ {0}
    /\ Capacity \in Nat \ {0}
    /\ Amount \in Nat
    /\ Kinds \subseteq {"source", "yes", "filter", "head", "crash", "bad"}
    /\ CallError \in {ERR_EXEC_CMD, ERR_RDSH_COMMUNICATION}
    /\ Faults \subseteq {"pipe", "fork", "dup"}

VARIABLES
    kind,           \* kind[i]: the command at stage i
    held,           \* units of output that the shell's stdio holds, and every child's copy
    pc,             \* the shell: "pipe", "fork", "close", "wait", "done", "failed"
    k,              \* the index of the loop the shell is in
    rc,             \* what execute_pipeline returned
    fds,            \* fds[p]: pipe ends in the table of the shell (0) or of child p
    std,            \* std[p]: pipe ends installed as stdin or stdout
    buf,            \* buf[i]: units in pipe i, from stage i to stage i + 1
    cpc,            \* cpc[i]: child i: "none", "dup", "close", "exec", "run", "exit", "dead", "reaped"
    todo,           \* todo[i]: units child i has still to write before it reads or ends
    code            \* code[i]: the exit status of child i; -1 if a signal killed it

vars == <<kind, held, pc, k, rc, fds, std, buf, cpc, todo, code>>
lineVars == <<kind, held>>
shellVars == <<pc, k, rc>>
childVars == <<cpc, todo, code, std, buf>>

num == Cardinality(DOMAIN kind)
Stages == DOMAIN kind
Pipes == 1..num - 1
Ends(i) == {<<"r", i>>, <<"w", i>>}

Holds(p) == fds[p] \cup std[p]
Held(end) == \E p \in Stages \cup {0} : end \in Holds(p)

PipelineInit ==
    /\ \E n \in 1..MaxStages : kind \in [1..n -> Kinds]
    /\ held \in 0..Capacity
    /\ pc = "pipe" /\ k = 1 /\ rc = 0
    /\ fds = [p \in Stages \cup {0} |-> {}]
    /\ std = [p \in Stages \cup {0} |-> {}]
    /\ buf = [i \in Pipes |-> 0]
    /\ cpc = [i \in Stages |-> "none"]
    /\ todo = [i \in Stages |-> 0]
    /\ code = [i \in Stages |-> 0]

-----------------------------------------------------------------------------
\* The loops of the shell run from 1 to `last`, then on to the next one.
NextIn(last, next) == IF k < last THEN k' = k + 1 /\ pc' = pc ELSE k' = 1 /\ pc' = next

MakePipe ==
    /\ pc = "pipe"
    /\ IF Pipes = {} THEN UNCHANGED fds ELSE fds' = [fds EXCEPT ![0] = @ \cup Ends(k)]
    /\ NextIn(num - 1, "fork")
    /\ UNCHANGED <<lineVars, rc, childVars>>

\* pipe or fork fails: the function returns at once, whatever is open or running.
CallFails ==
    /\ \/ pc = "pipe" /\ Pipes # {} /\ "pipe" \in Faults
       \/ pc = "fork" /\ "fork" \in Faults
    /\ pc' = "failed"
    /\ rc' = CallError
    /\ UNCHANGED <<lineVars, k, fds, childVars>>

\* The child starts with a copy of the shell's table.
Fork ==
    /\ pc = "fork"
    /\ fds' = [fds EXCEPT ![k] = fds[0]]
    /\ cpc' = [cpc EXCEPT ![k] = "dup"]
    /\ NextIn(num, "close")
    /\ UNCHANGED <<lineVars, rc, todo, code, std, buf>>

\* Mutant: the shell keeps its ends of the pipes.
CloseNothing ==
    /\ pc = "close"
    /\ NextIn(num - 1, "wait")
    /\ UNCHANGED <<lineVars, rc, fds, childVars>>

ShellCloses ==
    /\ pc = "close"
    /\ fds' = [fds EXCEPT ![0] = @ \ Ends(k)]
    /\ NextIn(num - 1, "wait")
    /\ UNCHANGED <<lineVars, rc, childVars>>

\* Mutant: the status of whichever child was waited for.
FirstStatus(status) == IF k = 1 THEN status ELSE rc

LastStatus(status) == IF k = num THEN status ELSE rc

\* Mutant: the exit status is taken without a look at WIFEXITED.
WaitRawStatus ==
    /\ pc = "wait"
    /\ cpc[k] = "dead"
    /\ cpc' = [cpc EXCEPT ![k] = "reaped"]
    /\ rc' = LastStatus(code[k])
    /\ NextIn(num, "done")
    /\ UNCHANGED <<lineVars, fds, todo, code, std, buf>>

\* waitpid for child k; only the last one's status is kept, 1 for a signal.
Wait ==
    /\ pc = "wait"
    /\ cpc[k] = "dead"
    /\ cpc' = [cpc EXCEPT ![k] = "reaped"]
    /\ rc' = LastStatus(IF code[k] = -1 THEN 1 ELSE code[k])
    /\ NextIn(num, "done")
    /\ UNCHANGED <<lineVars, fds, todo, code, std, buf>>

Shell == MakePipe \/ CallFails \/ Fork \/ ShellCloses \/ Wait

-----------------------------------------------------------------------------
\* The child's process ends and the kernel closes what it holds.
Dies(i, status) ==
    /\ cpc' = [cpc EXCEPT ![i] = "dead"]
    /\ code' = [code EXCEPT ![i] = status]
    /\ fds' = [fds EXCEPT ![i] = {}]
    /\ std' = [std EXCEPT ![i] = {}]
    /\ UNCHANGED <<lineVars, shellVars, buf, todo>>

\* dup2 fails: exit(1).
DupFails(i) ==
    /\ cpc[i] = "dup" /\ Pipes # {}
    /\ "dup" \in Faults
    /\ Dies(i, 1)

\* dup2 of the ends this stage uses; the table is private, so in one step.
ChildDups(i) ==
    /\ cpc[i] = "dup"
    /\ std' = [std EXCEPT ![i] = (IF i > 1 THEN {<<"r", i - 1>>} ELSE {}) \cup
                                 (IF i < num THEN {<<"w", i>>} ELSE {})]
    /\ cpc' = [cpc EXCEPT ![i] = IF Pipes = {} THEN "exec" ELSE "close"]
    /\ UNCHANGED <<lineVars, shellVars, fds, buf, todo, code>>

\* Mutant: the child closes the ends it does not use, but not its copies.
ChildClosesOthers(i) ==
    /\ cpc[i] = "close"
    /\ fds' = [fds EXCEPT ![i] = @ \cap (Ends(i - 1) \cup Ends(i))]
    /\ cpc' = [cpc EXCEPT ![i] = "exec"]
    /\ UNCHANGED <<lineVars, shellVars, std, buf, todo, code>>

\* The loop that closes both ends of every pipe, one pipe a step.
ChildCloses(i) ==
    /\ cpc[i] = "close"
    /\ \E j \in Pipes :
         /\ Ends(j) \subseteq fds[i]
         /\ \A h \in Pipes : h < j => Ends(h) \cap fds[i] = {}
         /\ fds' = [fds EXCEPT ![i] = @ \ Ends(j)]
         /\ cpc' = IF j = num - 1 THEN [cpc EXCEPT ![i] = "exec"] ELSE cpc
    /\ UNCHANGED <<lineVars, shellVars, std, buf, todo, code>>

\* execvp, and exit(1) if it returns.
Exec(i) ==
    /\ cpc[i] = "exec"
    /\ cpc' = [cpc EXCEPT ![i] = IF kind[i] = "bad" THEN "exit" ELSE "run"]
    /\ todo' = [todo EXCEPT ![i] = CASE kind[i] = "source" -> Amount
                                     [] kind[i] = "yes"    -> 1
                                     [] kind[i] = "bad"    -> held
                                     [] OTHER              -> 0]
    /\ UNCHANGED <<lineVars, shellVars, fds, std, buf, code>>

\* exit writes what the child's copy of the shell's stdout holds to the stdout
\* the child has by now: the next command reads output of the shell.
ExitWrites(i) ==
    /\ cpc[i] = "exit" /\ i < num /\ todo[i] > 0
    /\ IF ~Held(<<"r", i>>) THEN Dies(i, -1)
       ELSE /\ buf[i] + todo[i] <= Capacity
            /\ buf' = [buf EXCEPT ![i] = @ + todo[i]]
            /\ todo' = [todo EXCEPT ![i] = 0]
            /\ UNCHANGED <<lineVars, shellVars, fds, std, cpc, code>>

Exits(i) == cpc[i] = "exit" /\ (i = num \/ todo[i] = 0) /\ Dies(i, 1)

\* A write: it blocks on a full pipe, and without a reader SIGPIPE kills.
CommandWrites(i) ==
    /\ cpc[i] = "run"
    /\ todo[i] > 0
    /\ IF i < num /\ ~Held(<<"r", i>>) THEN Dies(i, -1)
       ELSE /\ IF i = num THEN UNCHANGED buf
               ELSE buf[i] < Capacity /\ buf' = [buf EXCEPT ![i] = @ + 1]
            /\ todo' = [todo EXCEPT ![i] = IF kind[i] = "yes" THEN 1
                                           ELSE IF kind[i] = "head" THEN -1 ELSE @ - 1]
            /\ UNCHANGED <<lineVars, shellVars, fds, std, cpc, code>>

\* A read of a command that copies; the first stage finds its stdin empty.
CommandReads(i) ==
    /\ cpc[i] = "run"
    /\ kind[i] \in {"filter", "head"}
    /\ todo[i] = 0
    /\ i > 1 /\ buf[i - 1] > 0
    /\ buf' = [buf EXCEPT ![i - 1] = @ - 1]
    /\ todo' = [todo EXCEPT ![i] = 1]
    /\ UNCHANGED <<lineVars, shellVars, fds, std, cpc, code>>

\* A command ends: it has written all it had, or reads end of file.
CommandEnds(i) ==
    /\ cpc[i] = "run"
    /\ \/ kind[i] = "source" /\ todo[i] = 0
       \/ kind[i] = "head" /\ todo[i] = -1
       \/ /\ kind[i] \in {"filter", "head"} /\ todo[i] = 0
          /\ i > 1 => buf[i - 1] = 0 /\ ~Held(<<"w", i - 1>>)
    /\ Dies(i, 0)

CommandCrashes(i) == cpc[i] = "run" /\ kind[i] = "crash" /\ Dies(i, -1)

Child(i) ==
    \/ DupFails(i) \/ ChildDups(i) \/ ChildCloses(i) \/ Exec(i) \/ ExitWrites(i) \/ Exits(i)
    \/ CommandWrites(i) \/ CommandReads(i) \/ CommandEnds(i) \/ CommandCrashes(i)

Next == Shell \/ \E i \in Stages : Child(i)

\* Every process is scheduled as long as it is not blocked in a system call.
Fairness == WF_vars(Shell) /\ \A i \in 1..MaxStages : WF_vars(i \in Stages /\ Child(i))

Spec == PipelineInit /\ [][Next]_vars /\ Fairness

-----------------------------------------------------------------------------
TypeOK ==
    /\ pc \in {"pipe", "fork", "close", "wait", "done", "failed"}
    /\ k \in 1..MaxStages
    /\ rc \in {0, 1, CallError}
    /\ \A p \in Stages \cup {0} : Holds(p) \subseteq UNION {Ends(i) : i \in Pipes}
    /\ held \in 0..Capacity
    /\ \A i \in Pipes : buf[i] \in 0..Capacity
    /\ \A i \in Stages : todo[i] \in (-1..Amount + 1) \cup 0..Capacity /\ code[i] \in {-1, 0, 1}

\* A command that runs, or exits without, holds its own stdin and stdout and no other pipe end, so
\* only the neighbours of a pipe decide its end of file (dshlib.c:341-366).
OnlyOwnEnds ==
    \A i \in Stages : cpc[i] \in {"run", "exit"} =>
        Holds(i) = {e \in UNION {Ends(j) : j \in Pipes} : e = <<"r", i - 1>> \/ e = <<"w", i>>}

\* When the pipeline has run, every child has been waited for, the shell holds
\* no pipe end and the status returned is the last command's (dshlib.c:370-389).
ReturnsClean ==
    pc = "done" =>
        /\ \A i \in Stages : cpc[i] = "reaped"
        /\ fds[0] = {}
        /\ rc = (IF code[num] = 0 THEN 0 ELSE 1)

\* Child i waits in write on a full pipe that has a reader, or in read on an
\* empty one that has a writer.
BlockedWriting(i) ==
    /\ i < num /\ todo[i] > 0 /\ Held(<<"r", i>>)
    /\ \/ cpc[i] = "run" /\ buf[i] = Capacity
       \/ cpc[i] = "exit" /\ buf[i] + todo[i] > Capacity

BlockedReading(i) ==
    /\ cpc[i] = "run" /\ kind[i] \in {"filter", "head"} /\ todo[i] = 0
    /\ i > 1 /\ buf[i - 1] = 0 /\ Held(<<"w", i - 1>>)

\* While the shell waits for a child, some child can go on: the children never
\* all wait for each other or for a pipe end that nobody will use.  This holds
\* of the pipelines that never end as well (dshlib.c:324-379).
NeverStuck ==
    pc = "wait" /\ cpc[k] # "dead" =>
        \E i \in Stages : /\ cpc[i] \notin {"none", "dead", "reaped"}
                         /\ ~BlockedWriting(i) /\ ~BlockedReading(i)

\* No command of the list writes for ever into something that reads for ever.
Finite == \A i \in Stages : kind[i] = "yes" =>
              \E j \in Stages : j > i /\ kind[j] \in {"head", "source", "crash", "bad"}

\* Such a pipeline ends: neither end of file nor SIGPIPE is kept from a
\* command by an end that somebody forgot to close (dshlib.c:324-390).
PipelineEnds == Finite ~> pc \in {"done", "failed"}
=============================================================================
