------------------------------ MODULE RshClient ------------------------------
(***************************************************************************)
(* The remote shell's client: exec_remote_cmd_loop, start_client and       *)
(* client_cleanup of 6-RShell/starter/rsh_cli.c.  Each client is one       *)
(* process: it connects once, then types a line, sends it, and prints what *)
(* it receives until a recv ends with RDSH_EOF_CHAR.                       *)
(***************************************************************************)
EXTENDS RshNet, Integers

CONSTANTS
    Crashers,       \* clients the user may kill (Ctrl-C in the terminal)
    ClientFaults    \* clients whose malloc or socket() may fail

ASSUME ClientAssumption == Crashers \subseteq Clients /\ ClientFaults \subseteq Clients

VARIABLES
    cpc,            \* cpc[c]: where client c is
    crc,            \* crc[c]: what exec_remote_cmd_loop returned
    typed,          \* typed[c]: the line in cmd_buff
    sent            \* sent[c]: lines client c has typed so far

clientVars == <<cpc, crc, typed, sent>>

\* "start" before the connection, "prompt" in fgets, "waiting" in recv.
ClientPcs == {"start", "prompt", "waiting", "done", "killed"}

OK == 0
ERR_MEMORY == -5
ERR_RDSH_COMMUNICATION == -50
ERR_RDSH_CLIENT == -52
OK_EXIT == -7
NoRc == 1           \* not returned yet

ClientTypeOK ==
    /\ cpc \in [Clients -> ClientPcs]
    /\ crc \in [Clients -> {NoRc, OK, ERR_MEMORY, ERR_RDSH_CLIENT, ERR_RDSH_COMMUNICATION}]
    /\ typed \in [Clients -> Lines \cup {"blank"}]
    /\ sent \in [Clients -> 0..MaxCmds]

ClientInit ==
    /\ cpc = [c \in Clients |-> "start"]
    /\ crc = [c \in Clients |-> NoRc]
    /\ typed = [c \in Clients |-> "blank"]
    /\ sent = [c \in Clients |-> 0]

\* return client_cleanup(cli_socket, cmd_buff, rsp_buff, rc)
Cleanup(c, unread, rc) ==
    /\ ClientCloses(c, unread)
    /\ cpc' = [cpc EXCEPT ![c] = "done"]
    /\ crc' = [crc EXCEPT ![c] = rc]
    /\ UNCHANGED <<typed, sent>>

\* The loop ends before there is a connection to close.
GiveUp(c, rc) ==
    /\ cpc[c] = "start"
    /\ cpc' = [cpc EXCEPT ![c] = "done"]
    /\ crc' = [crc EXCEPT ![c] = rc]
    /\ UNCHANGED <<typed, sent, netVars>>

-----------------------------------------------------------------------------
\* malloc of cmd_buff or rsp_buff fails.
NoMemory(c) == c \in ClientFaults /\ GiveUp(c, ERR_MEMORY)

\* start_client fails: no socket, or nobody listens.
StartFails(c) == (c \in ClientFaults \/ ~listening) /\ GiveUp(c, ERR_RDSH_CLIENT)

\* start_client returns a connected socket.
StartClient(c) ==
    /\ cpc[c] = "start"
    /\ Establish(c)
    /\ cpc' = [cpc EXCEPT ![c] = "prompt"]
    /\ UNCHANGED <<crc, typed, sent>>

\* Mutant: the end of the input is noticed while an answer is awaited.
EndOfInputAnytime(c) == cpc[c] \in {"prompt", "waiting"} /\ Cleanup(c, down[c], OK)

\* fgets returns NULL at the prompt.
EndOfInput(c) == cpc[c] = "prompt" /\ Cleanup(c, down[c], OK)

\* Mutant: the next line is sent before the answer to the last one is read.
SendAhead(c, line) ==
    /\ cpc[c] \in {"prompt", "waiting"}
    /\ sent[c] < MaxCmds
    /\ SendOk(cEnd[c])
    /\ ClientSends(c, [line |-> line, id |-> sent[c] + 1])
    /\ cpc' = [cpc EXCEPT ![c] = "waiting"]
    /\ typed' = [typed EXCEPT ![c] = line]
    /\ sent' = [sent EXCEPT ![c] = @ + 1]
    /\ UNCHANGED crc

\* The user types a line that is not empty and send() accepts it.
SendLine(c, line) ==
    /\ cpc[c] = "prompt"
    /\ sent[c] < MaxCmds
    /\ SendOk(cEnd[c])
    /\ ClientSends(c, [line |-> line, id |-> sent[c] + 1])
    /\ cpc' = [cpc EXCEPT ![c] = "waiting"]
    /\ typed' = [typed EXCEPT ![c] = line]
    /\ sent' = [sent EXCEPT ![c] = @ + 1]
    /\ UNCHANGED crc

\* send() returns -1.
SendError(c) ==
    /\ cpc[c] = "prompt"
    /\ sent[c] < MaxCmds
    /\ SendFails(cEnd[c])
    /\ Cleanup(c, down[c], ERR_RDSH_COMMUNICATION)

\* send() raises SIGPIPE, which nobody handles.
SendKilled(c) ==
    /\ cpc[c] = "prompt"
    /\ sent[c] < MaxCmds
    /\ SendKills(cEnd[c])
    /\ ClientCloses(c, down[c])
    /\ cpc' = [cpc EXCEPT ![c] = "killed"]
    /\ UNCHANGED <<crc, typed, sent>>

\* Mutant: one recv is taken for the whole answer.
RecvOnce(c, n) ==
    /\ cpc[c] = "waiting"
    /\ n \in 1..Len(down[c])
    /\ down' = [down EXCEPT ![c] = SubSeq(@, n + 1, Len(@))]
    /\ cpc' = [cpc EXCEPT ![c] = "prompt"]
    /\ UNCHANGED <<crc, typed, sent, listening, backlog, up, cEnd, sEnd>>

(***************************************************************************)
(* One recv returns the first n of the pending units.  If the last of them *)
(* is the end marker the answer is taken to be complete, and a client that *)
(* typed "exit" leaves; otherwise the loop receives again.                 *)
(***************************************************************************)
Recv(c, n) ==
    /\ cpc[c] = "waiting"
    /\ n \in 1..Len(down[c])
    /\ LET isEof == down[c][n].kind = "eof"
           rest  == SubSeq(down[c], n + 1, Len(down[c]))
       IN IF isEof /\ typed[c] = "exit"
          THEN Cleanup(c, rest, OK)
          ELSE /\ down' = [down EXCEPT ![c] = rest]
               /\ cpc' = IF isEof THEN [cpc EXCEPT ![c] = "prompt"] ELSE cpc
               /\ UNCHANGED <<crc, typed, sent, listening, backlog, up, cEnd, sEnd>>

\* recv returns 0 or -1: "Connection closed by server", and OK all the same.
RecvClosed(c) ==
    /\ cpc[c] = "waiting"
    /\ down[c] = <<>>
    /\ cEnd[c] \in Hung
    /\ Cleanup(c, <<>>, OK)

\* The user kills the client; the kernel closes its socket.
Kill(c) ==
    /\ c \in Crashers
    /\ cpc[c] \in {"prompt", "waiting"}
    /\ ClientCloses(c, down[c])
    /\ cpc' = [cpc EXCEPT ![c] = "killed"]
    /\ UNCHANGED <<crc, typed, sent>>

\* What client c does by itself, apart from being killed.
ClientRuns(c) ==
    \/ NoMemory(c)
    \/ StartFails(c)
    \/ StartClient(c)
    \/ EndOfInput(c)
    \/ \E line \in Lines : SendLine(c, line)
    \/ SendError(c)
    \/ SendKilled(c)
    \/ \E n \in 1..Len(down[c]) : Recv(c, n)
    \/ RecvClosed(c)

ClientStep(c) == ClientRuns(c) \/ Kill(c)
=============================================================================
