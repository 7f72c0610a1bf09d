-------------------------------- MODULE RshNet --------------------------------
(***************************************************************************)
(* The TCP connections between the remote shell's clients and its server,  *)
(* as the socket calls of 6-RShell/starter/rsh_cli.c and rsh_server.c see  *)
(* them.  The kernel is not part of the repository: this module is the     *)
(* external part of the model, and says only what the two programs can     *)
(* observe through connect, accept, send, recv and close.                  *)
(***************************************************************************)
EXTENDS Naturals, Sequences, FiniteSets

CONSTANTS
    Clients,        \* the processes started as "dsh -c"
    Lines,          \* the kinds of command line a user types
    MaxCmds,        \* bound: lines one client types
    Backlog         \* connections that may wait for accept (listen(.., 20))

ASSUME NetAssumption ==
    /\ Lines \subseteq {"stop-server", "exit", "blank", "run", "cat"}
    /\ MaxCmds \in Nat
    /\ Backlog \in Nat \ {0}

VARIABLES
    listening,      \* the server's listening socket is open
    backlog,        \* clients whose connection the server has not accepted
    up,             \* up[c]: lines client c sent and the server has not read
    down,           \* down[c]: what the server sent and client c has not read
    cEnd,           \* cEnd[c]: the client's end of its connection
    sEnd            \* sEnd[c]: the server's end of the same connection

netVars == <<listening, backlog, up, down, cEnd, sEnd>>

(***************************************************************************)
(* A line on its way to the server carries the number of the command it    *)
(* was typed for (a ghost: the bytes on the wire have none); "part" is     *)
(* what is left of a line that one recv has cut in two.  What comes back   *)
(* is child output, a message of the server, or the end marker             *)
(* RDSH_EOF_CHAR, each with the number of the command it answers.          *)
(***************************************************************************)
Requests == [line : Lines \cup {"part"}, id : 1..MaxCmds]
Units == [kind : {"out", "msg", "eof"}, id : 1..MaxCmds]

EofLast(s) == s # <<>> /\ s[Len(s)].kind = "eof"

(***************************************************************************)
(* One end of a connection: not made yet; up; "fin" when the peer closed   *)
(* and this end has not noticed by sending; "rst" when the peer reset the  *)
(* connection and the error is pending; "broken" when that error has been  *)
(* reported and the next send raises SIGPIPE; closed by its owner.         *)
(***************************************************************************)
EndStates == {"none", "up", "fin", "rst", "broken", "closed"}

\* The ends on which recv reports that nothing more will come.
Hung == {"fin", "rst", "broken"}

\* What an end becomes when its peer closes with `unread` bytes undelivered.
AfterPeerClose(end, unread) ==
    IF end # "up" THEN {end} ELSE IF unread = <<>> THEN {"fin"} ELSE Hung

\* What an end becomes by one send on it: a peer that is gone answers with a
\* reset, which may or may not be there before the next call.
AfterSend(end) ==
    IF end = "up" THEN {"up"} ELSE IF end = "fin" THEN {"fin", "broken"} ELSE {"broken"}

SendOk(end)    == end \in {"up", "fin"}
SendFails(end) == end = "rst"
SendKills(end) == end = "broken"

-----------------------------------------------------------------------------
NetTypeOK ==
    /\ listening \in BOOLEAN
    /\ backlog \in Seq(Clients)
    /\ up \in [Clients -> Seq(Requests)]
    /\ down \in [Clients -> Seq(Units)]
    /\ cEnd \in [Clients -> EndStates]
    /\ sEnd \in [Clients -> EndStates]

NetInit ==
    /\ listening = FALSE
    /\ backlog = <<>>
    /\ up = [c \in Clients |-> <<>>]
    /\ down = [c \in Clients |-> <<>>]
    /\ cEnd = [c \in Clients |-> "none"]
    /\ sEnd = [c \in Clients |-> "none"]

\* connect() succeeds: the kernel completes the handshake, accepted or not.
Establish(c) ==
    /\ listening
    /\ Len(backlog) < Backlog
    /\ backlog' = Append(backlog, c)
    /\ cEnd' = [cEnd EXCEPT ![c] = "up"]
    /\ sEnd' = [sEnd EXCEPT ![c] = "up"]
    /\ UNCHANGED <<listening, up, down>>

\* send() by client c: the bytes reach the server only if its end is open.
ClientSends(c, req) ==
    /\ up' = IF cEnd[c] = "up" THEN [up EXCEPT ![c] = Append(@, req)] ELSE up
    /\ \E e \in AfterSend(cEnd[c]) : cEnd' = [cEnd EXCEPT ![c] = e]
    /\ UNCHANGED <<listening, backlog, down, sEnd>>

\* send() on the server's end, by the server or by the command it runs.
ServerSends(c, unit) ==
    /\ down' = IF sEnd[c] = "up" THEN [down EXCEPT ![c] = Append(@, unit)]
                                 ELSE down
    /\ \E e \in AfterSend(sEnd[c]) : sEnd' = [sEnd EXCEPT ![c] = e]
    /\ UNCHANGED <<listening, backlog, up, cEnd>>

\* close() of the client's end, or the end of its process, with `unread` bytes
\* received and not read.
ClientCloses(c, unread) ==
    /\ cEnd' = [cEnd EXCEPT ![c] = "closed"]
    /\ \E e \in AfterPeerClose(sEnd[c], unread) : sEnd' = [sEnd EXCEPT ![c] = e]
    /\ down' = [down EXCEPT ![c] = <<>>]
    /\ UNCHANGED <<listening, backlog, up>>

\* close() of the server's end.
ServerCloses(c) ==
    /\ sEnd' = [sEnd EXCEPT ![c] = "closed"]
    /\ \E e \in AfterPeerClose(cEnd[c], up[c]) : cEnd' = [cEnd EXCEPT ![c] = e]
    /\ up' = [up EXCEPT ![c] = <<>>]
    /\ UNCHANGED <<listening, backlog, down>>

(***************************************************************************)
(* The listening socket and the ends in `mine` close, at stop_server or    *)
(* when the server's process ends: every connection that still waits for   *)
(* accept is reset.                                                        *)
(***************************************************************************)
ListenerCloses(mine) ==
    LET gone == mine \cup {backlog[i] : i \in DOMAIN backlog}
    IN  /\ listening' = FALSE
        /\ backlog' = <<>>
        /\ sEnd' = [c \in Clients |-> IF c \in gone THEN "closed" ELSE sEnd[c]]
        /\ cEnd' \in {f \in [Clients -> EndStates] : \A c \in Clients :
                        f[c] \in IF c \in mine THEN AfterPeerClose(cEnd[c], up[c])
                                 ELSE IF c \in gone /\ cEnd[c] = "up" THEN {"rst"}
                                 ELSE {cEnd[c]}}
        /\ up' = [c \in Clients |-> IF c \in gone THEN <<>> ELSE up[c]]
        /\ UNCHANGED down
=============================================================================
