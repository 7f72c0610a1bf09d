------------------------------ MODULE RshServer ------------------------------
(***************************************************************************)
(* The remote shell's server: 6-RShell/starter/rsh_server.c.  One process  *)
(* serves one client at a time.  For each recv it parses one command line, *)
(* runs it in a child that holds the connection as stdin, stdout and       *)
(* stderr, waits for it, and sends the end marker.  When fork fails in the *)
(* middle of a pipeline the server returns to its loop and the children it *)
(* has already forked go on, unwaited for: orphans, here, although their   *)
(* parent still runs.                                                      *)
(***************************************************************************)
EXTENDS RshClient

CONSTANTS
    NoClient,       \* scli when nobody is served
    Results,        \* exit statuses a command of kind "run" may have
    ServerFaults,   \* system calls that may fail
    OutKinds,       \* what a command may print: "out", and "eof" for the
                    \* byte RDSH_EOF_CHAR at the end of what it writes
    MaxOut,         \* bound: writes of one command
    MaxOrphaned,    \* bound: sessions that may have orphans at one time
    Splits          \* whether a recv may end inside a line

ASSUME ServerAssumption ==
    /\ NoClient \notin Clients
    /\ Results \subseteq 0..1
    /\ ServerFaults \subseteq {"boot", "accept", "malloc", "parse", "fork"}
    /\ OutKinds \subseteq {"out", "eof"}
    /\ MaxOut \in Nat
    /\ MaxOrphaned \in Nat
    /\ Splits \in BOOLEAN

VARIABLES
    spc,            \* the server's program counter
    scli,           \* the client whose connection is cli_socket
    cur,            \* the line in io_buff, as a request
    outs,           \* writes the running command has made
    srvRc,          \* what start_server returned
    orphans,        \* orphans[c]: the orphans of c's session hold its connection,
                    \* and one of them may read from it
    robbed          \* ghost: clients of whose lines an orphan has read one

orphanVars == <<orphans, robbed>>
serverVars == <<spc, scli, cur, outs, srvRc, orphanVars>>

(***************************************************************************)
(* "nomem": malloc failed; "recv": in recv; "exec": in waitpid; "perr",    *)
(* "fail": about to send the message of send_message_string, "perr_eof",   *)
(* "fail_eof": the end marker that function sends after it; "eof":         *)
(* send_message_eof of the main loop; "stop": "stop-server" was read;      *)
(* "unlisten": back in start_server.                                       *)
(***************************************************************************)
Sending == {"perr", "perr_eof", "fail", "fail_eof", "eof"}
Serving == Sending \cup {"nomem", "recv", "exec", "stop"}
ServerPcs == Serving \cup {"boot", "accept", "unlisten", "down", "killed"}

\* io_buff before the first recv of a session
NoRequest == [line |-> "part", id |-> 0]

ServerTypeOK ==
    /\ spc \in ServerPcs
    /\ scli \in Clients \cup {NoClient}
    /\ cur \in [line : Lines \cup {"part"}, id : 0..MaxCmds]
    /\ outs \in 0..MaxOut
    /\ srvRc \in {NoRc, OK, ERR_RDSH_COMMUNICATION}
    /\ orphans \in [Clients -> {"none", "holds", "reads"}]
    /\ robbed \subseteq Clients
    /\ spc \in Serving => scli \in Clients /\ (spc \in Sending \cup {"exec"} => cur.id > 0)

ServerInit ==
    /\ spc = "boot"
    /\ scli = NoClient
    /\ cur = NoRequest
    /\ outs = 0
    /\ srvRc = NoRc
    /\ orphans = [c \in Clients |-> "none"]
    /\ robbed = {}

ServerGoes(pc) == spc' = pc /\ UNCHANGED <<scli, cur, outs, srvRc, orphanVars>>

(***************************************************************************)
(* A connection ends with the last descriptor of it, and so does the       *)
(* listening socket, which every child inherits too.                       *)
(***************************************************************************)
Held(c) == orphans[c] # "none"
SomeOrphan == \E c \in Clients : Held(c)

CloseConnection(c) == IF Held(c) THEN UNCHANGED netVars ELSE ServerCloses(c)

\* Mutant: back to accept without closing the connection.
HangUpLeaks ==
    /\ spc' = "accept"
    /\ scli' = NoClient
    /\ UNCHANGED <<cur, outs, srvRc, orphanVars, netVars>>

\* close(cli_socket) and back to accept
HangUp ==
    /\ CloseConnection(scli)
    /\ spc' = "accept"
    /\ scli' = NoClient
    /\ UNCHANGED <<cur, outs, srvRc, orphanVars>>

\* The server's process is gone: the kernel closes all that only it had open.
ServerEnds(pc, rc) ==
    /\ IF ~SomeOrphan         THEN ListenerCloses({scli} \cap Clients)
       ELSE IF scli = NoClient THEN UNCHANGED netVars
       ELSE CloseConnection(scli)
    /\ spc' = pc
    /\ scli' = NoClient
    /\ srvRc' = rc
    /\ UNCHANGED <<cur, outs, orphanVars>>

-----------------------------------------------------------------------------
\* boot_server: socket, bind, listen.
BootServer ==
    /\ spc = "boot"
    /\ listening' = TRUE
    /\ ServerGoes("accept")
    /\ UNCHANGED <<backlog, up, down, cEnd, sEnd>>

BootFails ==
    /\ spc = "boot"
    /\ "boot" \in ServerFaults
    /\ ServerEnds("down", ERR_RDSH_COMMUNICATION)

Accept ==
    /\ spc = "accept"
    /\ backlog # <<>>
    /\ backlog' = Tail(backlog)
    /\ scli' = Head(backlog)
    /\ spc' \in {"recv"} \cup (IF "malloc" \in ServerFaults THEN {"nomem"} ELSE {})
    /\ cur' = NoRequest
    /\ UNCHANGED <<listening, up, down, cEnd, sEnd, outs, srvRc, orphanVars>>

\* accept fails: process_cli_requests returns, start_server closes the listener.
AcceptFails ==
    /\ spc = "accept"
    /\ "accept" \in ServerFaults
    /\ ServerEnds("down", ERR_RDSH_COMMUNICATION)

\* malloc of io_buff fails at the entry of exec_client_requests.
ServeNoMemory ==
    /\ spc = "nomem"
    /\ HangUp

(***************************************************************************)
(* One recv takes the first n lines of what has arrived, and with `split`  *)
(* a part of the next one.  Each line ends in a NUL and io_buff is read as *)
(* a C string, so only the first is seen and the others are lost.          *)
(***************************************************************************)
FirstLine(s, n) == IF n = 0 THEN [s[1] EXCEPT !.line = "part"] ELSE s[1]

\* Mutant: what was executed stays in the buffer.
UnreadPeek(s, n, split) == s

Unread(s, n, split) ==
    IF split THEN <<[s[n + 1] EXCEPT !.line = "part"]>> \o SubSeq(s, n + 2, Len(s))
             ELSE SubSeq(s, n + 1, Len(s))

(***************************************************************************)
(* What exec_client_requests does with the line it read.  A part of a line *)
(* may be any line, "stop-server" and an empty one among them.             *)
(***************************************************************************)
Dispatch(req) ==
    CASE req.line = "stop-server"  -> {"stop"}
      [] req.line = "blank"        -> {"perr"}
      [] OTHER -> {"exec"} \cup (IF "fork"  \in ServerFaults THEN {"fail"} ELSE {})
                           \cup (IF "parse" \in ServerFaults THEN {"perr"} ELSE {})
                           \cup (IF req.line = "part" THEN {"perr", "stop"} ELSE {})

\* What the first child of a pipeline does with its stdin, the connection.
FirstChild(line) ==
    CASE line = "cat"  -> {"reads"}
      [] line = "part" -> {"holds", "reads"}
      [] line = "run"  -> {"holds"}
      [] OTHER         -> {}

\* The children left alive when pipe() or a fork() fails: none if it was the
\* first fork, or the ones before it.
Orphaned(c, line) ==
    {orphans} \cup {[orphans EXCEPT ![c] = IF @ = "reads" THEN @ ELSE k] : k \in
        IF Cardinality({d \in Clients \ {c} : Held(d)}) < MaxOrphaned THEN FirstChild(line) ELSE {}}

RecvLine(n, split) ==
    /\ spc = "recv"
    /\ n \in 0..Len(up[scli])
    /\ IF split THEN Splits /\ n < Len(up[scli]) /\ up[scli][n + 1].line # "part"
                ELSE n > 0
    /\ cur' = FirstLine(up[scli], n)
    /\ up' = [up EXCEPT ![scli] = Unread(@, n, split)]
    /\ spc' \in Dispatch(cur')
    /\ outs' = 0
    /\ orphans' \in IF spc' = "fail" THEN Orphaned(scli, cur'.line) ELSE {orphans}
    /\ UNCHANGED <<scli, srvRc, robbed, listening, backlog, down, cEnd, sEnd>>

\* recv returns 0 or -1; the session ends with WARN_RDSH_NOT_IMPL.
RecvNothing ==
    /\ spc = "recv"
    /\ up[scli] = <<>>
    /\ sEnd[scli] \in Hung
    /\ HangUp

-----------------------------------------------------------------------------
\* The command writes to the connection; SIGPIPE kills it, not the server.
ChildWrites(kind) ==
    /\ spc = "exec"
    /\ outs < MaxOut
    /\ ServerSends(scli, [kind |-> kind, id |-> cur.id])
    /\ outs' = outs + 1
    /\ spc' = IF SendKills(sEnd[scli]) THEN "fail" ELSE "exec"
    /\ UNCHANGED <<scli, cur, srvRc, orphanVars>>

\* A command that reads stdin takes what the client sends.
ChildReads ==
    /\ spc = "exec"
    /\ cur.line \in {"cat", "part"}
    /\ up[scli] # <<>>
    /\ up' = [up EXCEPT ![scli] = Tail(@)]
    /\ UNCHANGED <<serverVars, listening, backlog, down, cEnd, sEnd>>

\* waitpid returns.  There is no "exit" to run: execvp fails and the child
\* exits with 1.  A command that reads stdin ends only at its end.
ChildExits(status) ==
    /\ spc = "exec"
    /\ CASE cur.line = "exit" -> status = 1
         [] cur.line = "cat"  -> up[scli] = <<>> /\ sEnd[scli] \in Hung
         [] cur.line = "part" -> status \in 0..1
         [] OTHER             -> status \in Results
    /\ ServerGoes(IF status = 0 THEN "eof" ELSE "fail")
    /\ UNCHANGED netVars

-----------------------------------------------------------------------------
\* An orphan takes a line from under the server's next recv.
OrphanReads(c) ==
    /\ orphans[c] = "reads"
    /\ up[c] # <<>>
    /\ up' = [up EXCEPT ![c] = Tail(@)]
    /\ robbed' = robbed \cup {c}
    /\ UNCHANGED <<spc, scli, cur, outs, srvRc, orphans, listening, backlog, down, cEnd, sEnd>>

\* The last orphan of c's session ends.  What it writes goes into a pipe and
\* its messages to the server's terminal, nothing to the connection.
OrphansEnd(c) ==
    /\ Held(c)
    /\ orphans' = [orphans EXCEPT ![c] = "none"]
    /\ IF scli = c THEN UNCHANGED netVars
       ELSE IF spc \in {"down", "killed"} /\ \A d \in Clients \ {c} : ~Held(d)
            THEN ListenerCloses({c})
       ELSE ServerCloses(c)
    /\ UNCHANGED <<spc, scli, cur, outs, srvRc, robbed>>

OrphanStep == \E c \in Clients : OrphanReads(c) \/ OrphansEnd(c)

-----------------------------------------------------------------------------
(***************************************************************************)
(* The server's sends, one send() each, and where the code goes when it    *)
(* succeeds and when it returns -1: send_message_string returns before the *)
(* end marker if the message cannot be sent, and no caller looks at what   *)
(* the two functions return.                                               *)
(***************************************************************************)
KindSent(pc) == IF pc \in {"perr", "fail"} THEN "msg" ELSE "eof"

\* Mutants: no end marker after the parse error; one too many.
AfterOkNoMarker(pc) ==
    CASE pc = "fail" -> "fail_eof" [] pc = "fail_eof" -> "eof" [] OTHER -> "recv"

AfterOkTwice(pc) ==
    CASE pc = "perr" -> "perr_eof"
      [] pc = "fail" -> "fail_eof"
      [] pc \in {"perr_eof", "fail_eof"} -> "eof"
      [] OTHER -> "recv"

AfterOk(pc) ==
    CASE pc = "perr"     -> "perr_eof"
      [] pc = "fail"     -> "fail_eof"
      [] pc = "fail_eof" -> "eof"
      [] OTHER           -> "recv"

AfterError(pc) == IF pc \in {"fail", "fail_eof"} THEN "eof" ELSE "recv"

ServerSend ==
    /\ spc \in Sending
    /\ ~SendKills(sEnd[scli])
    /\ ServerSends(scli, [kind |-> KindSent(spc), id |-> cur.id])
    /\ ServerGoes(IF SendOk(sEnd[scli]) THEN AfterOk(spc) ELSE AfterError(spc))

\* The send raises SIGPIPE, which the server neither handles nor ignores.
SendKillsServer ==
    /\ spc \in Sending
    /\ SendKills(sEnd[scli])
    /\ ServerEnds("killed", NoRc)

-----------------------------------------------------------------------------
\* Mutant: the loop of exec_client_requests goes on after the close.
StopKeepsReading ==
    /\ spc = "stop"
    /\ ServerCloses(scli)
    /\ spc' = "recv"
    /\ scli' = NoClient
    /\ UNCHANGED <<cur, outs, srvRc, orphanVars>>

\* exec_client_requests returns OK_EXIT: process_cli_requests closes the
\* connection and leaves its loop, without an answer to the client.
StopRequested ==
    /\ spc = "stop"
    /\ CloseConnection(scli)
    /\ spc' = "unlisten"
    /\ scli' = NoClient
    /\ UNCHANGED <<cur, outs, srvRc, orphanVars>>

\* start_server closes the listener.  The rc that process_cli_requests returns
\* is the outer one, which the declaration inside the loop shadows: still OK.
StopServer ==
    /\ spc = "unlisten"
    /\ ServerEnds("down", OK)

\* The server's process and the command it runs.
ServerStep ==
    \/ BootServer
    \/ BootFails
    \/ Accept
    \/ AcceptFails
    \/ ServeNoMemory
    \/ \E n \in 0..MaxCmds, split \in BOOLEAN : RecvLine(n, split)
    \/ RecvNothing
    \/ \E kind \in OutKinds : ChildWrites(kind)
    \/ ChildReads
    \/ \E status \in 0..1 : ChildExits(status)
    \/ ServerSend
    \/ SendKillsServer
    \/ StopRequested
    \/ StopServer
=============================================================================
