----------------------------- MODULE RemoteShell -----------------------------
(***************************************************************************)
(* The remote shell as a whole: the clients of RshClient and the server of *)
(* RshServer on the connections of RshNet.                                 *)
(***************************************************************************)
EXTENDS RshServer

vars == <<netVars, clientVars, serverVars>>

Init == NetInit /\ ClientInit /\ ServerInit

Next ==
    \/ \E c \in Clients : ClientStep(c) /\ UNCHANGED serverVars
    \/ (ServerStep \/ OrphanStep) /\ UNCHANGED clientVars

Spec == Init /\ [][Next]_vars

(***************************************************************************)
(* The server and its command run as long as they can; the clients are     *)
(* scripted, their input being a here-document that ends, as in            *)
(* 6-RShell/starter/bats.  Nothing obliges a user to kill a client, nor an *)
(* orphan to end.                                                          *)
(***************************************************************************)
Fairness ==
    /\ WF_vars(ServerStep /\ UNCHANGED clientVars)
    /\ \A c \in Clients : WF_vars(ClientRuns(c) /\ UNCHANGED serverVars)

LiveSpec == Spec /\ Fairness

-----------------------------------------------------------------------------
TypeOK == NetTypeOK /\ ClientTypeOK /\ ServerTypeOK

\* The server is inside exec_client_requests with c and owes it an end marker,
\* or is about to close the connection.
Busy(c) == scli = c /\ spc \in Sending \cup {"exec", "stop"}

Open(c) == sEnd[c] \in {"up"} \cup Hung

Queued(c) == \E i \in DOMAIN backlog : backlog[i] = c

\* Every connection that is open at the server is the one it serves, one that
\* waits for accept, once, or one that orphans hold; and the queue outlives the
\* server only by orphans.  No return path of process_cli_requests or
\* exec_client_requests leaks the socket or forgets a client in the queue.
ServerSockets ==
    /\ spc \in Serving <=> scli # NoClient
    /\ \A c \in Clients :
         /\ Open(c) <=> scli = c \/ Queued(c) \/ Held(c)
         /\ Queued(c) => scli # c /\ ~Held(c)
    /\ \A i, j \in DOMAIN backlog : backlog[i] = backlog[j] => i = j
    /\ listening <=> spc \notin {"boot", "down", "killed"} \/ SomeOrphan
    /\ backlog # <<>> => listening

\* A running server serves c, or will accept it.
Expected(c) == scli = c \/ (Queued(c) /\ spc \notin {"down", "killed"})

\* A client in its receive loop on a live connection always has something to
\* come: an end marker under way, a line that a running server has still to
\* read, or the server at work for it.  Lost lines and surplus end markers do
\* not break this.  It fails only by an orphan: one that has read a line of
\* this client, or one that keeps connections up which the server has left.
NoStrandedClient ==
    \A c \in Clients : cpc[c] = "waiting" /\ cEnd[c] = "up" =>
        \/ \E i \in DOMAIN down[c] : down[c][i].kind = "eof"
        \/ up[c] # <<>> /\ Expected(c)
        \/ Busy(c)
        \/ c \in robbed
        \/ SomeOrphan /\ ~Expected(c)

(***************************************************************************)
(* Why no client is stranded, as an inductive invariant: the two ends of a *)
(* connection live and die together, nothing is received before connect,   *)
(* and whatever waits for a client the server does not work for ends in an *)
(* end marker, so that reading any part of it leaves one or reaches one.   *)
(* That an unread line is one the server will read is ServerSockets.       *)
(***************************************************************************)
EndsAgree(c) == cEnd[c] = "up" <=> sEnd[c] = "up"

NothingBeforeConnect(c) ==
    /\ cpc[c] = "start" => cEnd[c] = "none"
    /\ cEnd[c] = "none" => down[c] = <<>>

Works(c) == scli = c /\ spc \in Sending \cup {"exec"}

AnswersEnd(c) == cEnd[c] = "up" /\ down[c] # <<>> /\ ~Works(c) => EofLast(down[c])

NotStranded(c) ==
    cpc[c] = "waiting" /\ cEnd[c] = "up" =>
        \/ \E i \in DOMAIN down[c] : down[c][i].kind = "eof"
        \/ up[c] # <<>>
        \/ Busy(c)
        \/ c \in robbed
        \/ Held(c) /\ scli # c

Delivery(c) == EndsAgree(c) /\ NothingBeforeConnect(c) /\ AnswersEnd(c) /\ NotStranded(c)

DeliveryInv == \A c \in Clients : Delivery(c)

\* In one session the lines are executed in the order they were typed and none
\* is executed twice, whatever recv coalesces or cuts.
NeverRunsTwice ==
    [][spc = "recv" /\ Busy(scli)' => cur'.id > cur.id \/ cur'.line = "part"]_vars

\* What a client in its receive loop reads answers the line it has just sent,
\* and a client at its prompt has nothing outstanding (rsh_cli.c:60-67).
AnswersMatchRequests ==
    \A c \in Clients :
        /\ cpc[c] = "waiting" => \A i \in DOMAIN down[c] : down[c][i].id = sent[c]
        /\ cpc[c] = "prompt" => down[c] = <<>> /\ up[c] = <<>> /\ ~Busy(c)

\* The command the server runs is the one its client is waiting for.
RunsWhatWasTyped ==
    spc = "exec" => /\ cur = [line |-> typed[scli], id |-> sent[scli]]
                    /\ cpc[scli] = "waiting"

(***************************************************************************)
(* The abstract phase of a client's request, for RemoteExec.               *)
(***************************************************************************)
Phase(c) ==
    IF cpc[c] \in {"done", "killed"} THEN "gone"
    ELSE IF cpc[c] # "waiting" THEN "idle"
    ELSE IF cEnd[c] = "fin" THEN "gone"
    ELSE IF up[c] # <<>> \/ cEnd[c] = "rst" THEN "asked"
    ELSE IF EofLast(down[c]) THEN "answered"
    ELSE "running"

Exec == INSTANCE RemoteExec WITH
            phase <- [c \in Clients |-> Phase(c)],
            serving <- spc \notin {"unlisten", "down"}

\* When every command succeeds, the shell is a remote call: RemoteExec.
IsRemoteExec == Exec!ExecSpec

\* The server ends only when a client asks for it (rsh_server.c:39-41).
ServerSurvives == spc # "killed"

\* Every scripted client ends: each of its waits is answered or broken off,
\* and the server reaches every client in the queue (rsh_server.c:199-222).
EveryClientEnds == \A c \in Clients : <>(cpc[c] \in {"done", "killed"})
=============================================================================
