-------------------------- MODULE RemoteShellProofs --------------------------
(***************************************************************************)
(* Proofs about RemoteShell, for any clients, lines, faults and bounds.    *)
(* The first half, up to RunsInOrder, assumes nothing; the second, from    *)
(* EveryCommandSucceeds on, shows that the remote shell is a remote call   *)
(* and what each part of that needs.                                       *)
(***************************************************************************)
EXTENDS RemoteShell, SequenceTheorems, TLAPS

USE DEF OK, ERR_MEMORY, ERR_RDSH_CLIENT, ERR_RDSH_COMMUNICATION, NoRc

-----------------------------------------------------------------------------
\* What one call on a connection does to the types of the network's state.
LEMMA AfterPeerCloseType ==
    ASSUME NEW end \in EndStates, NEW unread, NEW e \in AfterPeerClose(end, unread)
    PROVE  e \in EndStates /\ (end = "up" => e \in Hung) /\ (end # "up" => e = end)
BY DEF AfterPeerClose, EndStates, Hung

LEMMA AfterSendType ==
    ASSUME NEW end \in EndStates, NEW e \in AfterSend(end)
    PROVE  e \in EndStates /\ (e = "up" <=> end = "up")
BY DEF AfterSend, EndStates

LEMMA EstablishType ==
    ASSUME NetTypeOK, NEW c \in Clients, Establish(c)
    PROVE  NetTypeOK'
BY DEF NetTypeOK, Establish, EndStates

LEMMA ClientSendsType ==
    ASSUME NetTypeOK, NEW c \in Clients, NEW req \in Requests, ClientSends(c, req)
    PROVE  NetTypeOK'
BY AfterSendType DEF NetTypeOK, ClientSends

LEMMA ServerSendsType ==
    ASSUME NetTypeOK, NEW c \in Clients, NEW unit \in Units, ServerSends(c, unit)
    PROVE  NetTypeOK'
BY AfterSendType DEF NetTypeOK, ServerSends

LEMMA ClientClosesType ==
    ASSUME NetTypeOK, NEW c \in Clients, NEW unread, ClientCloses(c, unread)
    PROVE  NetTypeOK'
<1>1. <<>> \in Seq(Units)
  BY EmptySeq
<1>2. PICK e \in AfterPeerClose(sEnd[c], unread) : sEnd' = [sEnd EXCEPT ![c] = e]
  BY DEF ClientCloses
<1>3. e \in EndStates
  BY <1>2, AfterPeerCloseType DEF NetTypeOK
<1> QED
  BY <1>1, <1>2, <1>3 DEF NetTypeOK, ClientCloses, EndStates

LEMMA ServerClosesType ==
    ASSUME NetTypeOK, NEW c \in Clients, ServerCloses(c)
    PROVE  NetTypeOK'
<1>1. <<>> \in Seq(Requests)
  BY EmptySeq
<1>2. PICK e \in AfterPeerClose(cEnd[c], up[c]) : cEnd' = [cEnd EXCEPT ![c] = e]
  BY DEF ServerCloses
<1>3. e \in EndStates
  BY <1>2, AfterPeerCloseType DEF NetTypeOK
<1> QED
  BY <1>1, <1>2, <1>3 DEF NetTypeOK, ServerCloses, EndStates

LEMMA ListenerClosesType ==
    ASSUME NetTypeOK, NEW mine, ListenerCloses(mine)
    PROVE  NetTypeOK'
<1>1. <<>> \in Seq(Requests) /\ <<>> \in Seq(Clients)
  BY EmptySeq
<1>2. cEnd' \in [Clients -> EndStates]
  BY DEF ListenerCloses
<1>3. sEnd' \in [Clients -> EndStates]
  BY DEF NetTypeOK, ListenerCloses, EndStates
<1>4. up' \in [Clients -> Seq(Requests)]
  BY <1>1 DEF NetTypeOK, ListenerCloses
<1> QED
  BY <1>1, <1>2, <1>3, <1>4 DEF NetTypeOK, ListenerCloses

-----------------------------------------------------------------------------
\* Every step of a client, and every step of the server, keeps the types.
LEMMA ClientStepType ==
    ASSUME TypeOK, NEW c \in Clients, ClientStep(c), UNCHANGED serverVars
    PROVE  TypeOK'
<1> USE DEF TypeOK
<1>1. ServerTypeOK'
  BY DEF ServerTypeOK, serverVars, orphanVars
<1>2. ASSUME NEW rc, GiveUp(c, rc), rc \in {ERR_MEMORY, ERR_RDSH_CLIENT}
      PROVE  NetTypeOK' /\ ClientTypeOK'
  BY <1>2 DEF GiveUp, NetTypeOK, ClientTypeOK, netVars, ClientPcs
<1>3. ASSUME NEW unread, NEW rc \in {OK, ERR_RDSH_COMMUNICATION}, Cleanup(c, unread, rc)
      PROVE  NetTypeOK' /\ ClientTypeOK'
  <2>1. NetTypeOK'
    BY <1>3, ClientClosesType DEF Cleanup
  <2> QED
    BY <2>1, <1>3 DEF Cleanup, ClientTypeOK, ClientPcs
<1>4. CASE NoMemory(c)
  BY <1>1, <1>2, <1>4 DEF NoMemory
<1>5. CASE StartFails(c)
  BY <1>1, <1>2, <1>5 DEF StartFails
<1>6. CASE StartClient(c)
  <2>1. NetTypeOK'
    BY <1>6, EstablishType DEF StartClient
  <2> QED
    BY <1>1, <2>1, <1>6 DEF StartClient, ClientTypeOK, ClientPcs
<1>7. CASE EndOfInput(c)
  BY <1>1, <1>3, <1>7 DEF EndOfInput
<1>8. ASSUME NEW line \in Lines, SendLine(c, line)
      PROVE  TypeOK'
  <2>1. sent[c] + 1 \in 1..MaxCmds
    BY <1>8, NetAssumption DEF SendLine, ClientTypeOK
  <2>2. [line |-> line, id |-> sent[c] + 1] \in Requests
    BY <2>1 DEF Requests
  <2>3. NetTypeOK'
    BY <1>8, <2>2, ClientSendsType DEF SendLine
  <2>4. ClientTypeOK'
    BY <1>8, <2>1 DEF SendLine, ClientTypeOK, ClientPcs
  <2> QED
    BY <1>1, <2>3, <2>4
<1>9. CASE SendError(c)
  BY <1>1, <1>3, <1>9 DEF SendError
<1>10. CASE SendKilled(c) \/ Kill(c)
  <2>1. NetTypeOK'
    BY <1>10, ClientClosesType DEF SendKilled, Kill
  <2> QED
    BY <1>1, <2>1, <1>10 DEF SendKilled, Kill, ClientTypeOK, ClientPcs
<1>11. ASSUME NEW n \in 1..Len(down[c]), Recv(c, n)
       PROVE  TypeOK'
  <2> DEFINE rest == SubSeq(down[c], n + 1, Len(down[c]))
  <2>1. CASE Cleanup(c, rest, OK)
    BY <1>1, <1>3, <2>1
  <2>2. CASE /\ down' = [down EXCEPT ![c] = rest]
             /\ cpc' = [cpc EXCEPT ![c] = "prompt"] \/ cpc' = cpc
             /\ UNCHANGED <<crc, typed, sent, listening, backlog, up, cEnd, sEnd>>
    <3>1. rest \in Seq(Units)
      BY SubSeqProperties DEF NetTypeOK
    <3>2. NetTypeOK'
      BY <2>2, <3>1 DEF NetTypeOK
    <3>3. ClientTypeOK'
      BY <2>2 DEF ClientTypeOK, ClientPcs
    <3> QED
      BY <1>1, <3>2, <3>3
  <2> QED
    BY <1>11, <2>1, <2>2 DEF Recv
<1>12. CASE RecvClosed(c)
  BY <1>1, <1>3, <1>12 DEF RecvClosed
<1> QED
  BY <1>4, <1>5, <1>6, <1>7, <1>8, <1>9, <1>10, <1>11, <1>12 DEF ClientStep, ClientRuns

\* What one recv of the server takes, and what it leaves, are lines.
LEMMA FirstLineType ==
    ASSUME NEW s \in Seq(Requests), NEW n \in 0..Len(s), s # <<>>
    PROVE  FirstLine(s, n) \in Requests
<1>1. s[1] \in Requests
  BY EmptySeq, ElementOfSeq
<1> QED
  BY <1>1 DEF FirstLine, Requests

LEMMA UnreadType ==
    ASSUME NEW s \in Seq(Requests), NEW n \in 0..Len(s), NEW split,
           split => n < Len(s)
    PROVE  Unread(s, n, split) \in Seq(Requests)
<1>1. \A i \in 1..Len(s) + 2 : SubSeq(s, i, Len(s)) \in Seq(Requests)
  BY SubSeqProperties
<1>2. CASE split
  <2>1. s[n + 1] \in Requests
    BY <1>2
  <2>2. [s[n + 1] EXCEPT !.line = "part"] \in Requests
    BY <2>1 DEF Requests
  <2> QED
    BY <1>1, <1>2, <2>2 DEF Unread
<1> QED
  BY <1>1, <1>2 DEF Unread

\* What the server leaves open when it leaves an orphan behind.
LEMMA CloseConnectionType ==
    ASSUME NetTypeOK, NEW c \in Clients, CloseConnection(c)
    PROVE  NetTypeOK'
<1>1. CASE Held(c)
  BY <1>1 DEF CloseConnection, NetTypeOK, netVars
<1>2. CASE ~Held(c)
  BY <1>2, ServerClosesType DEF CloseConnection
<1> QED
  BY <1>1, <1>2

\* A failing fork adds orphans to the session it fails in, and to no other.
LEMMA OrphanedType ==
    ASSUME ServerTypeOK, NEW c \in Clients, NEW line, NEW f \in Orphaned(c, line)
    PROVE  /\ f \in [Clients -> {"none", "holds", "reads"}]
           /\ \A d \in Clients \ {c} : f[d] = orphans[d]
BY DEF Orphaned, FirstChild, ServerTypeOK

LEMMA ServerStepType ==
    ASSUME TypeOK, ServerStep, UNCHANGED clientVars
    PROVE  TypeOK'
<1> USE DEF TypeOK
<1>1. ClientTypeOK'
  BY DEF ClientTypeOK, clientVars
<1>2. ASSUME NEW pc \in {"down", "killed"}, NEW rc \in {NoRc, OK, ERR_RDSH_COMMUNICATION},
             ServerEnds(pc, rc)
      PROVE  TypeOK'
  <2>1. NetTypeOK'
    <3>1. CASE ~SomeOrphan
      BY <1>2, <3>1, ListenerClosesType DEF ServerEnds
    <3>2. CASE SomeOrphan /\ scli = NoClient
      BY <1>2, <3>2 DEF ServerEnds, NetTypeOK, netVars
    <3>3. CASE SomeOrphan /\ scli # NoClient
      BY <1>2, <3>3, CloseConnectionType DEF ServerEnds, ServerTypeOK
    <3> QED
      BY <3>1, <3>2, <3>3
  <2>2. ServerTypeOK'
    BY <1>2 DEF ServerEnds, ServerTypeOK, ServerPcs, Serving, Sending, orphanVars
  <2> QED
    BY <1>1, <2>1, <2>2
<1>3. ASSUME HangUp, scli \in Clients
      PROVE  TypeOK'
  <2>1. NetTypeOK'
    BY <1>3, CloseConnectionType DEF HangUp
  <2>2. ServerTypeOK'
    BY <1>3 DEF HangUp, ServerTypeOK, ServerPcs, Serving, Sending, orphanVars
  <2> QED
    BY <1>1, <2>1, <2>2
<1>4. CASE BootServer
  BY <1>1, <1>4
     DEF BootServer, ServerGoes, NetTypeOK, ServerTypeOK, ServerPcs, Serving, Sending, orphanVars
<1>5. CASE BootFails
  BY <1>2, <1>5 DEF BootFails
<1>6. CASE Accept
  <2>1. Head(backlog) \in Clients /\ Tail(backlog) \in Seq(Clients)
    BY <1>6, HeadTailProperties DEF Accept, NetTypeOK
  <2>2. NetTypeOK'
    BY <1>6, <2>1 DEF Accept, NetTypeOK
  <2>3. spc' \in {"recv", "nomem"}
    BY <1>6 DEF Accept
  <2>4. cur' \in [line : Lines \cup {"part"}, id : 0..MaxCmds]
    BY <1>6, NetAssumption DEF Accept, NoRequest
  <2>5. ServerTypeOK'
    BY <1>6, <2>1, <2>3, <2>4 DEF Accept, ServerTypeOK, ServerPcs, Serving, Sending, orphanVars
  <2> QED
    BY <1>1, <2>2, <2>5
<1>7. CASE AcceptFails
  BY <1>2, <1>7 DEF AcceptFails
<1>8. CASE ServeNoMemory
  BY <1>3, <1>8 DEF ServeNoMemory, ServerTypeOK, Serving
<1>9. ASSUME NEW n \in 0..MaxCmds, NEW split \in BOOLEAN, RecvLine(n, split)
      PROVE  TypeOK'
  <2>1. scli \in Clients /\ up[scli] \in Seq(Requests)
    BY <1>9 DEF RecvLine, ServerTypeOK, Serving, NetTypeOK
  <2>2. n \in 0..Len(up[scli]) /\ up[scli] # <<>> /\ (split => n < Len(up[scli]))
    BY <1>9, <2>1 DEF RecvLine
  <2>3. cur' \in Requests
    BY <1>9, <2>1, <2>2, FirstLineType DEF RecvLine
  <2>4. NetTypeOK'
    BY <1>9, <2>1, <2>2, UnreadType DEF RecvLine, NetTypeOK
  <2>5. spc' \in {"stop", "perr", "exec", "fail"}
    BY <1>9 DEF RecvLine, Dispatch
  <2>6. orphans' \in [Clients -> {"none", "holds", "reads"}]
    BY <1>9, <2>1, OrphanedType DEF RecvLine, ServerTypeOK
  <2>7. ServerTypeOK'
    BY <1>9, <2>1, <2>3, <2>5, <2>6, ServerAssumption
       DEF RecvLine, ServerTypeOK, ServerPcs, Serving, Sending, Requests
  <2> QED
    BY <1>1, <2>4, <2>7
<1>10. CASE RecvNothing
  BY <1>3, <1>10 DEF RecvNothing, ServerTypeOK, Serving
<1>11. ASSUME NEW kind \in OutKinds, ChildWrites(kind)
       PROVE  TypeOK'
  <2>1. scli \in Clients /\ [kind |-> kind, id |-> cur.id] \in Units
    BY <1>11, ServerAssumption DEF ChildWrites, ServerTypeOK, Serving, Units
  <2>2. NetTypeOK'
    BY <1>11, <2>1, ServerSendsType DEF ChildWrites
  <2>3. ServerTypeOK'
    BY <1>11, <2>1, ServerAssumption
       DEF ChildWrites, ServerTypeOK, ServerPcs, Serving, Sending, orphanVars
  <2> QED
    BY <1>1, <2>2, <2>3
<1>12. CASE ChildReads
  <2>1. scli \in Clients /\ Tail(up[scli]) \in Seq(Requests)
    BY <1>12, HeadTailProperties DEF ChildReads, ServerTypeOK, Serving, NetTypeOK
  <2> QED
    BY <1>1, <1>12, <2>1 DEF ChildReads, NetTypeOK, ServerTypeOK, serverVars, orphanVars
<1>13. ASSUME NEW status \in 0..1, ChildExits(status)
       PROVE  TypeOK'
  BY <1>1, <1>13
     DEF ChildExits, ServerGoes, netVars, NetTypeOK, ServerTypeOK, ServerPcs, Serving, Sending,
         orphanVars
<1>14. CASE ServerSend
  <2>1. scli \in Clients /\ [kind |-> KindSent(spc), id |-> cur.id] \in Units
    BY <1>14 DEF ServerSend, ServerTypeOK, Serving, Units, KindSent
  <2>2. NetTypeOK'
    BY <1>14, <2>1, ServerSendsType DEF ServerSend
  <2>3. spc' \in {"perr_eof", "fail_eof", "eof", "recv"}
    BY <1>14 DEF ServerSend, ServerGoes, AfterOk, AfterError
  <2>4. ServerTypeOK'
    BY <1>14, <2>1, <2>3
       DEF ServerSend, ServerGoes, ServerTypeOK, ServerPcs, Serving, Sending, orphanVars
  <2> QED
    BY <1>1, <2>2, <2>4
<1>15. CASE SendKillsServer
  BY <1>2, <1>15 DEF SendKillsServer
<1>16. CASE StopRequested
  <2>1. NetTypeOK'
    BY <1>16, CloseConnectionType DEF StopRequested, ServerTypeOK, Serving
  <2>2. ServerTypeOK'
    BY <1>16 DEF StopRequested, ServerTypeOK, ServerPcs, Serving, Sending, orphanVars
  <2> QED
    BY <1>1, <2>1, <2>2
<1>17. CASE StopServer
  BY <1>2, <1>17 DEF StopServer
<1> QED
  BY <1>4, <1>5, <1>6, <1>7, <1>8, <1>9, <1>10, <1>11, <1>12, <1>13, <1>14, <1>15,
     <1>16, <1>17 DEF ServerStep

LEMMA OrphanStepType ==
    ASSUME TypeOK, OrphanStep, UNCHANGED clientVars
    PROVE  TypeOK'
<1> USE DEF TypeOK
<1>1. ClientTypeOK'
  BY DEF ClientTypeOK, clientVars
<1>2. ASSUME NEW c \in Clients, OrphanReads(c)
      PROVE  TypeOK'
  <2>1. up[c] # <<>> /\ up[c] \in Seq(Requests)
    BY <1>2 DEF OrphanReads, NetTypeOK
  <2>2. Tail(up[c]) \in Seq(Requests)
    BY <2>1, HeadTailProperties
  <2> QED
    BY <1>1, <1>2, <2>2 DEF OrphanReads, NetTypeOK, ServerTypeOK
<1>3. ASSUME NEW c \in Clients, OrphansEnd(c)
      PROVE  TypeOK'
  <2>1. NetTypeOK'
    <3>1. UNCHANGED netVars \/ ListenerCloses({c}) \/ ServerCloses(c)
      BY <1>3 DEF OrphansEnd
    <3>2. CASE UNCHANGED netVars
      BY <3>2 DEF NetTypeOK, netVars
    <3> QED
      BY <3>1, <3>2, ListenerClosesType, ServerClosesType
  <2>2. ServerTypeOK'
    BY <1>3 DEF OrphansEnd, ServerTypeOK
  <2> QED
    BY <1>1, <2>1, <2>2
<1> QED
  BY <1>2, <1>3 DEF OrphanStep

-----------------------------------------------------------------------------
\* Type correctness of the remote shell, for the state that rsh_cli.c and
\* rsh_server.c keep and for the connections between them.
THEOREM TypeCorrect == Spec => []TypeOK
<1>1. Init => TypeOK
  <2> SUFFICES ASSUME Init PROVE TypeOK
    OBVIOUS
  <2>1. NetTypeOK
    BY EmptySeq DEF Init, NetInit, NetTypeOK, EndStates
  <2>2. ClientTypeOK
    BY NetAssumption DEF Init, ClientInit, ClientTypeOK, ClientPcs
  <2>3. ServerTypeOK
    BY NetAssumption, ServerAssumption
       DEF Init, ServerInit, ServerTypeOK, ServerPcs, Serving, Sending, NoRequest
  <2> QED
    BY <2>1, <2>2, <2>3 DEF TypeOK
<1>2. TypeOK /\ [Next]_vars => TypeOK'
  <2> SUFFICES ASSUME TypeOK, [Next]_vars PROVE TypeOK'
    OBVIOUS
  <2>1. CASE Next
    BY <2>1, ClientStepType, ServerStepType, OrphanStepType DEF Next
  <2>2. CASE UNCHANGED vars
    BY <2>2 DEF vars, netVars, clientVars, serverVars, orphanVars,
                TypeOK, NetTypeOK, ClientTypeOK, ServerTypeOK
  <2> QED
    BY <2>1, <2>2
<1> QED
  BY <1>1, <1>2, PTL DEF Spec

-----------------------------------------------------------------------------
(***************************************************************************)
(* The server's sessions: which connections the server holds, and in which *)
(* order it runs the lines of one.                                         *)
(***************************************************************************)

(***************************************************************************)
(* ServerSockets is not inductive: a client that has not connected must    *)
(* have no end at the server, or connecting would put it into the queue a  *)
(* second time.                                                            *)
(***************************************************************************)
Socket(c) ==
    /\ Open(c) <=> scli = c \/ Queued(c) \/ Held(c)
    /\ Queued(c) => scli # c /\ ~Held(c)
    /\ cpc[c] = "start" => sEnd[c] = "none"

InQueueOnce == \A i, j \in DOMAIN backlog : backlog[i] = backlog[j] => i = j

Alive == spc \notin {"boot", "down", "killed"}

Listener ==
    /\ listening <=> Alive \/ SomeOrphan
    /\ backlog # <<>> => listening
    /\ spc = "boot" => ~SomeOrphan

SocketInv ==
    /\ spc \in Serving <=> scli # NoClient
    /\ \A c \in Clients : Socket(c)
    /\ InQueueOnce
    /\ Listener

-----------------------------------------------------------------------------
\* Who waits in a queue that grows at its end or is served at its front.
LEMMA QueueGrows ==
    ASSUME NetTypeOK, InQueueOnce, NEW c \in Clients, ~Queued(c),
           backlog' = Append(backlog, c)
    PROVE  InQueueOnce' /\ \A d \in Clients : Queued(d)' <=> Queued(d) \/ d = c
<1>1. backlog \in Seq(Clients)
  BY DEF NetTypeOK
<1>2. /\ Len(backlog') = Len(backlog) + 1 /\ backlog'[Len(backlog) + 1] = c
      /\ \A i \in 1..Len(backlog) : backlog'[i] = backlog[i]
      /\ DOMAIN backlog' = 1..Len(backlog) + 1 /\ DOMAIN backlog = 1..Len(backlog)
      /\ Len(backlog) \in Nat
  BY <1>1, AppendProperties, LenProperties
<1>3. \A d \in Clients : Queued(d)' <=> Queued(d) \/ d = c
  BY <1>2 DEF Queued
<1>4. InQueueOnce'
  <2> SUFFICES ASSUME NEW i \in DOMAIN backlog', NEW j \in DOMAIN backlog',
                      backlog'[i] = backlog'[j]
               PROVE  i = j
    BY DEF InQueueOnce
  <2>1. \A k \in 1..Len(backlog) : backlog'[k] # c
    BY <1>2 DEF Queued
  <2>2. i = Len(backlog) + 1 <=> j = Len(backlog) + 1
    BY <1>2, <2>1
  <2> QED
    BY <1>2, <2>2 DEF InQueueOnce
<1> QED
  BY <1>3, <1>4

LEMMA QueueServed ==
    ASSUME NetTypeOK, InQueueOnce, backlog # <<>>, backlog' = Tail(backlog)
    PROVE  /\ InQueueOnce' /\ Head(backlog) \in Clients /\ Queued(Head(backlog))
           /\ \A d \in Clients : Queued(d)' <=> Queued(d) /\ d # Head(backlog)
<1>1. backlog \in Seq(Clients)
  BY DEF NetTypeOK
<1>2. /\ Len(backlog') = Len(backlog) - 1 /\ Head(backlog) = backlog[1]
      /\ \A i \in 1..Len(backlog) - 1 : backlog'[i] = backlog[i + 1]
      /\ DOMAIN backlog' = 1..Len(backlog) - 1 /\ DOMAIN backlog = 1..Len(backlog)
      /\ Len(backlog) \in Nat \ {0} /\ Head(backlog) \in Clients
  BY <1>1, EmptySeq, HeadTailProperties, LenProperties
<1>3. ASSUME NEW d \in Clients, Queued(d)'
      PROVE  Queued(d) /\ d # Head(backlog)
  <2>1. PICK i \in 1..Len(backlog) - 1 : backlog'[i] = d
    BY <1>2, <1>3 DEF Queued
  <2>2. i + 1 \in DOMAIN backlog /\ backlog[i + 1] = d /\ i + 1 # 1 /\ 1 \in DOMAIN backlog
    BY <1>2, <2>1
  <2>3. backlog[1] # d
    BY <2>2 DEF InQueueOnce
  <2> QED
    BY <1>2, <2>2, <2>3 DEF Queued
<1>4. ASSUME NEW d \in Clients, Queued(d), d # Head(backlog)
      PROVE  Queued(d)'
  <2>1. PICK i \in 1..Len(backlog) : backlog[i] = d
    BY <1>2, <1>4 DEF Queued
  <2>2. i - 1 \in DOMAIN backlog' /\ backlog'[i - 1] = d
    BY <1>2, <1>4, <2>1
  <2> QED
    BY <2>2 DEF Queued
<1>5. InQueueOnce'
  <2> SUFFICES ASSUME NEW i \in DOMAIN backlog', NEW j \in DOMAIN backlog',
                      backlog'[i] = backlog'[j]
               PROVE  i = j
    BY DEF InQueueOnce
  <2>1. backlog[i + 1] = backlog[j + 1] /\ i + 1 \in DOMAIN backlog /\ j + 1 \in DOMAIN backlog
    BY <1>2
  <2> QED
    BY <1>2, <2>1 DEF InQueueOnce
<1>6. Queued(Head(backlog))
  BY <1>2 DEF Queued
<1> QED
  BY <1>2, <1>3, <1>4, <1>5, <1>6

-----------------------------------------------------------------------------
\* A step that leaves the queue, the session and the orphans alone, and neither
\* opens nor closes an end of the server.
SocketsAlone ==
    /\ backlog' = backlog /\ scli' = scli /\ listening' = listening /\ orphans' = orphans
    /\ (spc' \in Serving <=> spc \in Serving) /\ (Alive' <=> Alive) /\ (spc' = "boot" => spc = "boot")
    /\ \A d \in Clients : /\ Open(d)' <=> Open(d)
                          /\ cpc'[d] = "start" => sEnd'[d] = sEnd[d] /\ cpc[d] = "start"

LEMMA SocketsKept == ASSUME SocketInv, SocketsAlone PROVE SocketInv'
BY DEF SocketInv, SocketsAlone, Socket, Queued, InQueueOnce, Listener, Held, SomeOrphan

\* The peer's close, and a send, leave an open end of the server open.
LEMMA PeerCloseLeavesOpen ==
    ASSUME NetTypeOK, NEW c \in Clients, NEW unread, ClientCloses(c, unread)
    PROVE  /\ backlog' = backlog /\ listening' = listening
           /\ \A d \in Clients : /\ Open(d)' <=> Open(d)
                                 /\ d # c => sEnd'[d] = sEnd[d]
<1>1. PICK e \in AfterPeerClose(sEnd[c], unread) : sEnd' = [sEnd EXCEPT ![c] = e]
  BY DEF ClientCloses
<1>2. sEnd \in [Clients -> EndStates] /\ sEnd[c] \in EndStates
  BY DEF NetTypeOK
<1>3. (sEnd[c] = "up" => e \in Hung) /\ (sEnd[c] # "up" => e = sEnd[c])
  BY <1>1, <1>2, AfterPeerCloseType
<1> QED
  BY <1>1, <1>2, <1>3 DEF ClientCloses, Open

LEMMA SendLeavesOpen ==
    ASSUME NetTypeOK, NEW c \in Clients, NEW unit, ServerSends(c, unit), Open(c)
    PROVE  /\ backlog' = backlog /\ listening' = listening
           /\ \A d \in Clients : /\ Open(d)' <=> Open(d)
                                 /\ d # c => sEnd'[d] = sEnd[d]
<1>1. PICK e \in AfterSend(sEnd[c]) : sEnd' = [sEnd EXCEPT ![c] = e]
  BY DEF ServerSends
<1>2. e \in {"up"} \cup Hung /\ sEnd \in [Clients -> EndStates]
  BY <1>1 DEF AfterSend, Hung, NetTypeOK
<1> QED
  BY <1>1, <1>2 DEF ServerSends, Open

LEMMA ClientStepSockets ==
    ASSUME TypeOK, SocketInv, NEW c \in Clients, ClientStep(c), UNCHANGED serverVars
    PROVE  SocketInv'
<1>1. /\ spc' = spc /\ scli' = scli /\ orphans' = orphans /\ NetTypeOK /\ cpc \in [Clients -> ClientPcs]
      /\ sEnd \in [Clients -> EndStates]
  BY DEF serverVars, orphanVars, TypeOK, NetTypeOK, ClientTypeOK
<1>2. ASSUME NEW pc, pc # "start", cpc' = [cpc EXCEPT ![c] = pc] \/ cpc' = cpc,
             UNCHANGED <<listening, backlog, sEnd>>
      PROVE  SocketInv'
  <2>1. SocketsAlone
    BY <1>1, <1>2 DEF SocketsAlone, Open, Alive
  <2> QED
    BY <2>1, SocketsKept
<1>3. ASSUME NEW unread, ClientCloses(c, unread), NEW pc, pc # "start",
             cpc' = [cpc EXCEPT ![c] = pc]
      PROVE  SocketInv'
  <2>1. SocketsAlone
    BY <1>1, <1>3, PeerCloseLeavesOpen DEF SocketsAlone, Alive
  <2> QED
    BY <2>1, SocketsKept
<1>4. CASE NoMemory(c) \/ StartFails(c)
  BY <1>2, <1>4 DEF NoMemory, StartFails, GiveUp, netVars
<1>5. CASE StartClient(c)
  <2>1. /\ backlog' = Append(backlog, c) /\ sEnd' = [sEnd EXCEPT ![c] = "up"]
        /\ cpc[c] = "start" /\ cpc' = [cpc EXCEPT ![c] = "prompt"]
        /\ listening /\ listening' = listening
    BY <1>5 DEF StartClient, Establish
  <2>2. sEnd[c] = "none" /\ ~Queued(c) /\ scli # c /\ ~Held(c)
    BY <2>1 DEF SocketInv, Socket, Open, Hung
  <2>3. InQueueOnce' /\ \A d \in Clients : Queued(d)' <=> Queued(d) \/ d = c
    BY <1>1, <2>1, <2>2, QueueGrows DEF SocketInv
  <2>4. ASSUME NEW d \in Clients PROVE Socket(d)'
    <3>1. CASE d = c
      BY <1>1, <2>1, <2>2, <2>3, <3>1 DEF Socket, Open, Held
    <3>2. CASE d # c
      <4>1. sEnd'[d] = sEnd[d] /\ cpc'[d] = cpc[d] /\ (Queued(d)' <=> Queued(d)) /\ Socket(d)
        BY <1>1, <2>1, <2>3, <3>2 DEF SocketInv
      <4> QED
        BY <1>1, <4>1 DEF Socket, Open, Held
    <3> QED
      BY <3>1, <3>2
  <2> QED
    BY <1>1, <2>1, <2>3, <2>4 DEF SocketInv, Listener, Alive, SomeOrphan, Held
<1>6. CASE EndOfInput(c) \/ SendError(c) \/ SendKilled(c) \/ RecvClosed(c) \/ Kill(c)
  BY <1>3, <1>6 DEF EndOfInput, SendError, SendKilled, RecvClosed, Kill, Cleanup
<1>7. CASE \E line \in Lines : SendLine(c, line)
  BY <1>2, <1>7 DEF SendLine, ClientSends
<1>8. CASE \E n \in 1..Len(down[c]) : Recv(c, n)
  BY <1>2, <1>3, <1>8 DEF Recv, Cleanup
<1> QED
  BY <1>4, <1>5, <1>6, <1>7, <1>8 DEF ClientStep, ClientRuns

LEMMA ServerStepSockets ==
    ASSUME TypeOK, SocketInv, ServerStep, UNCHANGED clientVars
    PROVE  SocketInv'
<1>1. /\ cpc' = cpc /\ NetTypeOK /\ ServerTypeOK /\ NoClient \notin Clients
      /\ sEnd \in [Clients -> EndStates] /\ InQueueOnce /\ Listener
  BY ServerAssumption DEF clientVars, TypeOK, NetTypeOK, SocketInv
<1>2. ASSUME UNCHANGED <<listening, backlog, sEnd, scli, orphans>>,
             spc' \in Serving <=> spc \in Serving, Alive' <=> Alive, spc' = "boot" => spc = "boot"
      PROVE  SocketInv'
  <2>1. SocketsAlone
    BY <1>1, <1>2 DEF SocketsAlone, Open
  <2> QED
    BY <2>1, SocketsKept
<1>3. ASSUME NEW unit, spc \in Serving, ServerSends(scli, unit), scli' = scli, spc' \in Serving,
             UNCHANGED orphans
      PROVE  SocketInv'
  <2>1. scli \in Clients /\ Open(scli)
    BY <1>1, <1>3 DEF ServerTypeOK, SocketInv, Socket
  <2>2. Alive /\ Alive' /\ spc' # "boot"
    BY <1>3 DEF Alive, Serving, Sending
  <2>3. SocketsAlone
    <3> SUFFICES ASSUME NEW d \in Clients, cpc'[d] = "start"
                 PROVE  sEnd'[d] = sEnd[d]
      BY <1>1, <1>3, <2>1, <2>2, SendLeavesOpen DEF SocketsAlone
    <3>1. d # scli
      BY <1>1, <2>1 DEF SocketInv, Socket, Open, Hung
    <3> QED
      BY <1>1, <1>3, <2>1, <3>1, SendLeavesOpen
  <2> QED
    BY <2>3, SocketsKept
<1>4. ASSUME spc \in Serving, CloseConnection(scli), scli' = NoClient, spc' \notin Serving,
             UNCHANGED orphans, Alive' \/ SomeOrphan, spc' # "boot"
      PROVE  SocketInv'
  <2>1. /\ scli \in Clients /\ backlog' = backlog /\ listening' = listening
        /\ sEnd' = IF Held(scli) THEN sEnd ELSE [sEnd EXCEPT ![scli] = "closed"]
    BY <1>1, <1>4 DEF ServerTypeOK, CloseConnection, ServerCloses, netVars
  <2>2. ASSUME NEW d \in Clients PROVE Socket(d)'
    <3>1. /\ Socket(d) /\ (Queued(d)' <=> Queued(d)) /\ (Held(d)' <=> Held(d))
          /\ scli' # d /\ Socket(scli)
      BY <1>1, <1>4, <2>1 DEF SocketInv, Queued, Held
    <3>2. sEnd'[d] = IF d = scli /\ ~Held(scli) THEN "closed" ELSE sEnd[d]
      BY <1>1, <2>1
    <3>3. CASE d = scli
      BY <1>1, <3>1, <3>2, <3>3 DEF Socket, Open, Hung
    <3>4. CASE d # scli
      BY <1>1, <3>1, <3>2, <3>4 DEF Socket, Open
    <3> QED
      BY <3>3, <3>4
  <2>3. Alive /\ (SomeOrphan' <=> SomeOrphan)
    BY <1>4 DEF Alive, Serving, Sending, SomeOrphan, Held
  <2>4. Listener'
    BY <1>1, <1>4, <2>1, <2>3 DEF Listener
  <2> QED
    BY <1>4, <2>1, <2>2, <2>4 DEF SocketInv, InQueueOnce
<1>5. ASSUME NEW pc \in {"down", "killed"}, NEW rc, ServerEnds(pc, rc)
      PROVE  SocketInv'
  <2>1. /\ spc' = pc /\ spc' # "boot" /\ spc' \notin Serving /\ ~Alive' /\ scli' = NoClient /\ orphans' = orphans
    BY <1>5 DEF ServerEnds, Alive, Serving, Sending, orphanVars
  <2>2. CASE SomeOrphan /\ scli # NoClient
    <3>1. spc \in Serving /\ CloseConnection(scli)
      BY <1>5, <2>2 DEF ServerEnds, SocketInv
    <3> QED
      BY <1>4, <2>1, <2>2, <3>1
  <2>3. CASE SomeOrphan /\ scli = NoClient
    <3>1. UNCHANGED <<listening, backlog, sEnd>>
      BY <1>5, <2>3 DEF ServerEnds, netVars
    <3>2. ASSUME NEW d \in Clients PROVE Socket(d)'
      BY <1>1, <2>1, <2>3, <3>1 DEF SocketInv, Socket, Open, Queued, Held
    <3>3. Listener'
      BY <1>1, <2>1, <2>3, <3>1 DEF Listener, SomeOrphan, Held
    <3> QED
      BY <2>1, <3>1, <3>2, <3>3 DEF SocketInv, InQueueOnce
  <2>4. CASE ~SomeOrphan
    <3>1. /\ backlog' = <<>> /\ listening' = FALSE
          /\ \A d \in Clients : sEnd'[d] = IF d = scli \/ Queued(d) THEN "closed" ELSE sEnd[d]
      BY <1>5, <2>4 DEF ServerEnds, ListenerCloses, Queued
    <3>2. DOMAIN backlog' = {}
      BY <3>1
    <3>3. ASSUME NEW d \in Clients PROVE Socket(d)'
      <4>1. Socket(d) /\ ~Queued(d)' /\ scli' # d /\ ~Held(d) /\ ~Held(d)'
        BY <1>1, <2>1, <2>4, <3>2 DEF SocketInv, Queued, SomeOrphan, Held
      <4>2. ~Open(d)'
        BY <3>1, <4>1 DEF Socket, Open, Hung
      <4>3. cpc[d] = "start" => sEnd'[d] = "none"
        BY <3>1, <4>1 DEF Socket, Open, Hung
      <4> QED
        BY <1>1, <4>1, <4>2, <4>3 DEF Socket
    <3>4. Listener'
      BY <2>1, <2>4, <3>1 DEF Listener, SomeOrphan, Held
    <3> QED
      BY <2>1, <3>1, <3>2, <3>3, <3>4 DEF SocketInv, InQueueOnce
  <2> QED
    BY <2>2, <2>3, <2>4
<1>6. CASE BootServer
  <2>1. /\ listening' = TRUE /\ Alive' /\ spc' \notin Serving /\ spc \notin Serving
        /\ UNCHANGED <<backlog, sEnd, scli, orphans>>
    BY <1>6 DEF BootServer, ServerGoes, Alive, Serving, Sending, orphanVars
  <2>2. ASSUME NEW d \in Clients PROVE Socket(d)'
    BY <1>1, <2>1 DEF SocketInv, Socket, Open, Queued, Held
  <2> QED
    BY <1>1, <2>1, <2>2 DEF SocketInv, InQueueOnce, Listener, Alive
<1>7. CASE Accept
  <2>1. /\ backlog # <<>> /\ backlog' = Tail(backlog) /\ scli' = Head(backlog)
        /\ UNCHANGED <<listening, sEnd, orphans>>
        /\ spc = "accept" /\ spc' \in {"recv", "nomem"}
    BY <1>7 DEF Accept, orphanVars
  <2>2. scli = NoClient /\ spc' \in Serving /\ Alive /\ Alive'
    BY <2>1 DEF SocketInv, Serving, Sending, Alive
  <2>3. /\ InQueueOnce' /\ Head(backlog) \in Clients /\ Queued(Head(backlog))
        /\ \A d \in Clients : Queued(d)' <=> Queued(d) /\ d # Head(backlog)
    BY <1>1, <2>1, QueueServed
  <2>4. ASSUME NEW d \in Clients PROVE Socket(d)'
    <3>1. Socket(d) /\ scli # d /\ (Queued(d)' <=> Queued(d) /\ d # Head(backlog))
      BY <1>1, <2>2, <2>3 DEF SocketInv
    <3>2. (Held(d)' <=> Held(d)) /\ (Open(d)' <=> Open(d))
      BY <2>1 DEF Held, Open
    <3> QED
      BY <1>1, <2>1, <2>3, <3>1, <3>2 DEF Socket
  <2>5. Listener'
    BY <1>1, <2>1, <2>2 DEF Listener
  <2> QED
    BY <1>1, <2>1, <2>2, <2>3, <2>4, <2>5 DEF SocketInv
<1>8. CASE BootFails \/ AcceptFails \/ SendKillsServer \/ StopServer
  BY <1>5, <1>8 DEF BootFails, AcceptFails, SendKillsServer, StopServer
<1>9. CASE ServeNoMemory \/ RecvNothing \/ StopRequested
  BY <1>4, <1>9
     DEF ServeNoMemory, RecvNothing, StopRequested, HangUp, Serving, Sending, Alive, orphanVars
<1>10. CASE \E n \in 0..MaxCmds, split \in BOOLEAN : RecvLine(n, split)
  <2>1. /\ spc = "recv" /\ spc' \in {"stop", "perr", "exec", "fail"}
        /\ orphans' \in {orphans} \cup Orphaned(scli, cur'.line)
        /\ UNCHANGED <<listening, backlog, sEnd, scli>>
    BY <1>10 DEF RecvLine, Dispatch
  <2>2. spc \in Serving /\ spc' \in Serving /\ Alive /\ Alive' /\ scli \in Clients
    BY <1>1, <2>1 DEF Serving, Sending, Alive, ServerTypeOK
  <2>3. \A d \in Clients \ {scli} : orphans'[d] = orphans[d]
    BY <1>1, <2>1, <2>2, OrphanedType
  <2>4. ASSUME NEW d \in Clients PROVE Socket(d)'
    <3>1. Socket(d) /\ (Queued(d)' <=> Queued(d)) /\ (Open(d)' <=> Open(d))
      BY <2>1 DEF SocketInv, Queued, Open
    <3>2. d # scli => (Held(d)' <=> Held(d))
      BY <2>3 DEF Held
    <3> QED
      BY <1>1, <2>1, <3>1, <3>2 DEF Socket
  <2> QED
    BY <1>1, <2>1, <2>2, <2>4 DEF SocketInv, InQueueOnce, Listener
<1>11. CASE \E kind \in OutKinds : ChildWrites(kind)
  BY <1>3, <1>11 DEF ChildWrites, Serving, Sending, orphanVars
<1>12. CASE ChildReads
  BY <1>2, <1>12 DEF ChildReads, serverVars, orphanVars, Alive
<1>13. CASE \E status \in 0..1 : ChildExits(status)
  BY <1>2, <1>13 DEF ChildExits, ServerGoes, netVars, orphanVars, Serving, Sending, Alive
<1>14. CASE ServerSend
  <2>1. spc' \in {"perr_eof", "fail_eof", "eof", "recv"} /\ spc \in Sending
    BY <1>14 DEF ServerSend, ServerGoes, AfterOk, AfterError
  <2> QED
    BY <1>3, <1>14, <2>1 DEF ServerSend, ServerGoes, Serving, Sending, orphanVars
<1> QED
  BY <1>6, <1>7, <1>8, <1>9, <1>10, <1>11, <1>12, <1>13, <1>14 DEF ServerStep

\* The last descriptor of a connection, or of the listening socket, goes with
\* the last orphan.
LEMMA OrphanStepSockets ==
    ASSUME TypeOK, SocketInv, OrphanStep, UNCHANGED clientVars
    PROVE  SocketInv'
<1>1. /\ cpc' = cpc /\ NetTypeOK /\ ServerTypeOK /\ NoClient \notin Clients
      /\ sEnd \in [Clients -> EndStates] /\ InQueueOnce /\ Listener
  BY ServerAssumption DEF clientVars, TypeOK, NetTypeOK, SocketInv
<1>2. ASSUME NEW c \in Clients, OrphanReads(c)
      PROVE  SocketInv'
  <2>1. SocketsAlone
    BY <1>1, <1>2 DEF OrphanReads, SocketsAlone, Open, Alive
  <2> QED
    BY <2>1, SocketsKept
<1>3. ASSUME NEW c \in Clients, OrphansEnd(c)
      PROVE  SocketInv'
  <2>1. /\ Held(c) /\ scli' = scli /\ spc' = spc /\ (Alive' <=> Alive)
        /\ \A d \in Clients : Held(d)' <=> d # c /\ Held(d)
    BY <1>1, <1>3 DEF OrphansEnd, Held, ServerTypeOK, Alive
  <2>2. Socket(c) /\ Open(c) /\ ~Queued(c) /\ (SomeOrphan' <=> \E d \in Clients \ {c} : Held(d))
    BY <2>1 DEF SocketInv, Socket, SomeOrphan
  <2>3. CASE scli = c
    <3>1. UNCHANGED <<listening, backlog, sEnd>> /\ Alive
      BY <1>3, <2>3, <1>1 DEF OrphansEnd, netVars, Alive, SocketInv, Serving, Sending
    <3>2. ASSUME NEW d \in Clients PROVE Socket(d)'
      BY <1>1, <2>1, <2>3, <3>1 DEF SocketInv, Socket, Open, Queued
    <3> QED
      BY <1>1, <2>1, <3>1, <3>2 DEF SocketInv, InQueueOnce, Listener, Alive
  <2>4. CASE scli # c /\ ListenerCloses({c}) /\ ~Alive /\ ~SomeOrphan'
    <3>1. /\ backlog' = <<>> /\ listening' = FALSE
          /\ \A d \in Clients : sEnd'[d] = IF d = c \/ Queued(d) THEN "closed" ELSE sEnd[d]
      BY <2>4 DEF ListenerCloses, Queued
    <3>2. DOMAIN backlog' = {} /\ scli = NoClient
      BY <2>4, <3>1 DEF SocketInv, Alive, Serving, Sending
    <3>3. ASSUME NEW d \in Clients PROVE Socket(d)'
      <4>1. Socket(d) /\ ~Queued(d)' /\ scli # d /\ ~Held(d)' /\ (Held(d) => d = c)
        BY <1>1, <2>1, <2>4, <3>2 DEF SocketInv, Queued, SomeOrphan
      <4>2. ~Open(d)'
        BY <3>1, <4>1 DEF Socket, Open, Hung
      <4>3. cpc[d] = "start" => sEnd'[d] = "none"
        BY <2>2, <3>1, <4>1 DEF Socket, Open, Hung
      <4> QED
        BY <1>1, <2>1, <4>1, <4>2, <4>3 DEF Socket
    <3>4. Listener'
      BY <2>1, <2>4, <3>1 DEF Listener
    <3> QED
      BY <2>1, <3>1, <3>2, <3>3, <3>4 DEF SocketInv, InQueueOnce
  <2>5. CASE scli # c /\ ServerCloses(c) /\ (Alive \/ SomeOrphan')
    <3>1. /\ backlog' = backlog /\ listening' = listening
          /\ \A d \in Clients : sEnd'[d] = IF d = c THEN "closed" ELSE sEnd[d]
      BY <1>1, <2>5 DEF ServerCloses
    <3>2. ASSUME NEW d \in Clients PROVE Socket(d)'
      <4>1. Socket(d) /\ (Queued(d)' <=> Queued(d)) /\ (Held(d)' <=> d # c /\ Held(d))
        BY <2>1, <3>1 DEF SocketInv, Queued
      <4>2. CASE d = c
        BY <1>1, <2>1, <2>2, <2>5, <3>1, <4>1, <4>2 DEF Socket, Open, Hung
      <4>3. CASE d # c
        BY <1>1, <2>1, <3>1, <4>1, <4>3 DEF Socket, Open
      <4> QED
        BY <4>2, <4>3
    <3>3. SomeOrphan
      BY <2>1 DEF SomeOrphan
    <3>4. Listener'
      BY <1>1, <2>1, <2>5, <3>1, <3>3 DEF Listener
    <3> QED
      BY <2>1, <3>1, <3>2, <3>4 DEF SocketInv, InQueueOnce
  <2>6. SomeOrphan /\ spc # "boot"
    BY <1>1, <2>1 DEF SomeOrphan, Listener
  <2> QED
    BY <1>3, <2>1, <2>2, <2>3, <2>4, <2>5, <2>6 DEF OrphansEnd, Alive
<1> QED
  BY <1>2, <1>3 DEF OrphanStep

LEMMA SocketsInvariant == Spec => []SocketInv
<1>1. Init => SocketInv
  <2> SUFFICES ASSUME Init PROVE SocketInv
    OBVIOUS
  <2>1. DOMAIN backlog = {}
    BY DEF Init, NetInit
  <2> QED
    BY <2>1, ServerAssumption
       DEF Init, NetInit, ClientInit, ServerInit, SocketInv, Socket, InQueueOnce, Open, Hung,
           Queued, Serving, Sending, Listener, Alive, SomeOrphan, Held
<1>2. TypeOK /\ SocketInv /\ [Next]_vars => SocketInv'
  <2> SUFFICES ASSUME TypeOK, SocketInv, [Next]_vars PROVE SocketInv'
    OBVIOUS
  <2>1. CASE Next
    BY <2>1, ClientStepSockets, ServerStepSockets, OrphanStepSockets DEF Next
  <2>2. CASE UNCHANGED vars
    BY <2>2 DEF vars, netVars, clientVars, serverVars, orphanVars, SocketInv, Socket, InQueueOnce,
                Open, Queued, Listener, Alive, SomeOrphan, Held
  <2> QED
    BY <2>1, <2>2
<1> QED
  BY <1>1, <1>2, TypeCorrect, PTL DEF Spec

\* No return path of process_cli_requests or exec_client_requests leaks a
\* connection or forgets one, for any faults: what is open at the server is the
\* client it serves, those in the queue, each once, and what orphans hold
\* (rsh_server.c:199-222, 244-326, 453-466).
THEOREM SocketsAreOwned == Spec => []ServerSockets
<1>1. SocketInv => ServerSockets
  BY DEF SocketInv, Socket, InQueueOnce, ServerSockets, Listener, Alive
<1> QED
  BY <1>1, SocketsInvariant, PTL

-----------------------------------------------------------------------------
(***************************************************************************)
(* No client is stranded: DeliveryInv is inductive.  A step disturbs the   *)
(* connection of one client, or ends connections; the next two lemmas say  *)
(* what is left to show for a connection that it leaves alone, and for one *)
(* that is no longer up.                                                   *)
(***************************************************************************)
SameConnection(c) ==
    /\ up'[c] = up[c] /\ down'[c] = down[c]
    /\ cEnd'[c] = cEnd[c] /\ sEnd'[c] = sEnd[c]
    /\ cpc'[c] = cpc[c]

SameService(c) ==
    /\ (Busy(c)' <=> Busy(c)) /\ (Works(c)' <=> Works(c))
    /\ orphans'[c] = orphans[c] /\ (c \in robbed => c \in robbed')
    /\ Held(c) /\ scli # c => scli' # c

Ended(c) ==
    /\ cEnd'[c] # "up" /\ sEnd'[c] # "up"
    /\ cpc'[c] = "start" => cpc[c] = "start" /\ (cEnd[c] = "none" => cEnd'[c] = "none")
    /\ cEnd'[c] = "none" => cEnd[c] = "none"
    /\ down'[c] \in {down[c], <<>>}

LEMMA SameConnectionDelivers ==
    ASSUME NEW c \in Clients, Delivery(c), SameConnection(c), SameService(c)
    PROVE  Delivery(c)'
BY DEF Delivery, SameConnection, SameService, EndsAgree, NothingBeforeConnect, AnswersEnd,
       NotStranded, EofLast, Held

LEMMA EndedDelivers ==
    ASSUME NEW c \in Clients, Delivery(c), Ended(c)
    PROVE  Delivery(c)'
BY DEF Delivery, Ended, EndsAgree, NothingBeforeConnect, AnswersEnd, NotStranded

\* Closing an end ends the connection and leaves the others alone.
LEMMA ClientClosesEnds ==
    ASSUME NetTypeOK, NEW c \in Clients, NEW unread, ClientCloses(c, unread)
    PROVE  /\ cEnd'[c] = "closed" /\ sEnd'[c] # "up" /\ down'[c] = <<>>
           /\ \A d \in Clients \ {c} : /\ up'[d] = up[d] /\ down'[d] = down[d]
                                       /\ cEnd'[d] = cEnd[d] /\ sEnd'[d] = sEnd[d]
<1>1. PICK e \in AfterPeerClose(sEnd[c], unread) : sEnd' = [sEnd EXCEPT ![c] = e]
  BY DEF ClientCloses
<1>2. sEnd[c] \in EndStates
  BY DEF NetTypeOK
<1>3. e # "up"
  BY <1>1, <1>2, AfterPeerCloseType DEF Hung
<1> QED
  BY <1>1, <1>3 DEF NetTypeOK, ClientCloses

LEMMA ServerClosesEnds ==
    ASSUME NetTypeOK, NEW c \in Clients, ServerCloses(c)
    PROVE  /\ cEnd'[c] # "up" /\ sEnd'[c] = "closed" /\ down' = down
           /\ cEnd'[c] = "none" <=> cEnd[c] = "none"
           /\ \A d \in Clients \ {c} : /\ up'[d] = up[d]
                                       /\ cEnd'[d] = cEnd[d] /\ sEnd'[d] = sEnd[d]
<1>1. PICK e \in AfterPeerClose(cEnd[c], up[c]) : cEnd' = [cEnd EXCEPT ![c] = e]
  BY DEF ServerCloses
<1>2. cEnd[c] \in EndStates
  BY DEF NetTypeOK
<1>3. e # "up" /\ (e = "none" <=> cEnd[c] = "none")
  BY <1>1, <1>2, AfterPeerCloseType DEF Hung
<1> QED
  BY <1>1, <1>3 DEF NetTypeOK, ServerCloses

LEMMA ListenerClosesEnds ==
    ASSUME NetTypeOK, NEW mine, ListenerCloses(mine), NEW d \in Clients
    PROVE  /\ down' = down
           /\ \/ /\ d \notin mine
                 /\ up'[d] = up[d] /\ cEnd'[d] = cEnd[d] /\ sEnd'[d] = sEnd[d]
              \/ /\ cEnd'[d] # "up" /\ sEnd'[d] = "closed"
                 /\ cEnd'[d] = "none" <=> cEnd[d] = "none"
<1> DEFINE gone == mine \cup {backlog[i] : i \in DOMAIN backlog}
<1>1. cEnd'[d] \in IF d \in mine THEN AfterPeerClose(cEnd[d], up[d])
                    ELSE IF d \in gone /\ cEnd[d] = "up" THEN {"rst"}
                    ELSE {cEnd[d]}
  BY DEF ListenerCloses
<1>2. /\ down' = down
      /\ sEnd'[d] = IF d \in gone THEN "closed" ELSE sEnd[d]
      /\ up'[d] = IF d \in gone THEN <<>> ELSE up[d]
  BY DEF ListenerCloses
<1>3. CASE d \in mine
  <2>1. cEnd'[d] \in AfterPeerClose(cEnd[d], up[d]) /\ cEnd[d] \in EndStates
    BY <1>1, <1>3 DEF NetTypeOK
  <2>2. cEnd'[d] # "up" /\ (cEnd'[d] = "none" <=> cEnd[d] = "none")
    BY <2>1, AfterPeerCloseType DEF Hung
  <2> QED
    BY <1>2, <1>3, <2>2
<1>4. CASE d \notin mine /\ d \in gone
  BY <1>1, <1>2, <1>4
<1>5. CASE d \notin gone
  BY <1>1, <1>2, <1>5
<1> QED
  BY <1>3, <1>4, <1>5

LEMMA EofIsThere ==
    ASSUME NEW s \in Seq(Units), EofLast(s)
    PROVE  \E i \in DOMAIN s : s[i].kind = "eof"
<1>1. Len(s) \in Nat /\ DOMAIN s = 1..Len(s)
  BY LenProperties
<1>2. Len(s) # 0
  BY <1>1 DEF EofLast
<1> QED
  BY <1>1, <1>2 DEF EofLast

\* A prefix of an answer that does not end in the marker leaves the marker.
LEMMA RestEnds ==
    ASSUME NEW s \in Seq(Units), NEW n \in 1..Len(s)
    PROVE  LET rest == SubSeq(s, n + 1, Len(s))
           IN  /\ rest # <<>> => (EofLast(rest) <=> EofLast(s))
               /\ EofLast(s) /\ s[n].kind # "eof" => EofLast(rest)
<1> DEFINE rest == SubSeq(s, n + 1, Len(s))
<1>1. /\ rest \in Seq(Units)
      /\ Len(rest) = IF n + 1 <= Len(s) THEN Len(s) - n ELSE 0
      /\ \A i \in 1..Len(s) - n : rest[i] = s[n + i]
  BY SubSeqProperties
<1>2. CASE n = Len(s)
  <2>1. rest = <<>>
    BY <1>1, <1>2, EmptySeq
  <2> QED
    BY <1>2, <2>1 DEF EofLast
<1>3. CASE n < Len(s)
  <2> DEFINE m == Len(s) - n
  <2>0. Len(s) \in Nat /\ m \in 1..Len(s) - n /\ Len(rest) = m /\ n + m = Len(s)
    BY <1>1, <1>3, LenProperties
  <2>1. Len(rest) = Len(s) - n /\ rest[Len(rest)] = s[Len(s)]
    BY <1>1, <2>0
  <2>2. Len(rest) # 0 /\ Len(s) # 0 /\ Len(<<>>) = 0
    BY <2>1, <1>3, EmptySeq
  <2>3. rest # <<>> /\ s # <<>>
    BY <2>2
  <2> QED
    BY <2>1, <2>3 DEF EofLast
<1> QED
  BY <1>2, <1>3

LEMMA ClientStepDelivers ==
    ASSUME TypeOK, DeliveryInv, NEW c \in Clients, ClientStep(c), UNCHANGED serverVars
    PROVE  DeliveryInv'
<1> SUFFICES ASSUME NEW d \in Clients PROVE Delivery(d)'
  BY DEF DeliveryInv
<1>1. /\ Delivery(d) /\ SameService(d) /\ (Busy(d)' <=> Busy(d)) /\ (Works(d)' <=> Works(d))
      /\ NetTypeOK /\ UNCHANGED orphanVars /\ scli' = scli
  BY DEF DeliveryInv, TypeOK, Busy, Works, SameService, serverVars, orphanVars
<1>2. ASSUME NEW unread, ClientCloses(c, unread),
             NEW pc \in {"done", "killed"}, cpc' = [cpc EXCEPT ![c] = pc]
      PROVE  Delivery(d)'
  <2>1. CASE d = c
    <3>1. Ended(d)
      BY <1>1, <1>2, <2>1, ClientClosesEnds DEF Ended, TypeOK, ClientTypeOK
    <3> QED
      BY <1>1, <3>1, EndedDelivers
  <2>2. CASE d # c
    <3>1. SameConnection(d)
      BY <1>1, <1>2, <2>2, ClientClosesEnds DEF SameConnection, TypeOK, ClientTypeOK
    <3> QED
      BY <1>1, <3>1, SameConnectionDelivers
  <2> QED
    BY <2>1, <2>2
<1>3. ASSUME cpc' = [cpc EXCEPT ![c] = "done"], UNCHANGED netVars
      PROVE  Delivery(d)'
  BY <1>1, <1>3
     DEF TypeOK, ClientTypeOK, netVars, orphanVars, Delivery, EndsAgree, NothingBeforeConnect,
         AnswersEnd, NotStranded, EofLast, Held
<1>4. CASE NoMemory(c) \/ StartFails(c)
  BY <1>3, <1>4 DEF NoMemory, StartFails, GiveUp
<1>5. CASE StartClient(c)
  <2>1. CASE d = c
    <3>1. cEnd'[d] = "up" /\ sEnd'[d] = "up" /\ cpc'[d] = "prompt" /\ down'[d] = <<>>
      BY <1>1, <1>5, <2>1 DEF StartClient, Establish, TypeOK, NetTypeOK, ClientTypeOK,
                              Delivery, NothingBeforeConnect
    <3> QED
      BY <3>1 DEF Delivery, EndsAgree, NothingBeforeConnect, AnswersEnd, NotStranded
  <2>2. CASE d # c
    <3>1. SameConnection(d)
      BY <1>5, <2>2 DEF StartClient, Establish, TypeOK, NetTypeOK, ClientTypeOK, SameConnection
    <3> QED
      BY <1>1, <3>1, SameConnectionDelivers
  <2> QED
    BY <2>1, <2>2
<1>6. CASE EndOfInput(c) \/ SendError(c) \/ SendKilled(c) \/ RecvClosed(c) \/ Kill(c)
  BY <1>2, <1>6 DEF EndOfInput, SendError, SendKilled, RecvClosed, Kill, Cleanup
<1>7. ASSUME NEW line \in Lines, SendLine(c, line)
      PROVE  Delivery(d)'
  <2> DEFINE req == [line |-> line, id |-> sent[c] + 1]
  <2>1. PICK e \in AfterSend(cEnd[c]) : cEnd' = [cEnd EXCEPT ![c] = e]
    BY <1>7 DEF SendLine, ClientSends
  <2>2. e = "up" <=> cEnd[c] = "up"
    BY <2>1, AfterSendType DEF TypeOK, NetTypeOK
  <2>3. CASE d = c /\ cEnd[c] = "up"
    <3>1. sent[c] + 1 \in 1..MaxCmds
      BY <1>7, NetAssumption DEF SendLine, TypeOK, ClientTypeOK
    <3>2. req \in Requests
      BY <3>1 DEF Requests
    <3>3. up'[d] = Append(up[d], req) /\ up[d] \in Seq(Requests)
      BY <1>7, <2>3 DEF SendLine, ClientSends, TypeOK, NetTypeOK
    <3>4. up'[d] # <<>>
      BY <3>2, <3>3, AppendProperties
    <3>5. cEnd'[d] = "up" /\ sEnd'[d] = "up" /\ down'[d] = down[d] /\ cpc'[d] = "waiting"
      BY <1>1, <1>7, <2>1, <2>2, <2>3 DEF SendLine, ClientSends, TypeOK, NetTypeOK, ClientTypeOK,
                                          Delivery, EndsAgree
    <3> QED
      BY <1>1, <2>3, <3>4, <3>5
         DEF Delivery, EndsAgree, NothingBeforeConnect, AnswersEnd, NotStranded, EofLast
  <2>4. CASE d = c /\ cEnd[c] # "up"
    <3>1. Ended(d)
      BY <1>1, <1>7, <2>1, <2>2, <2>4 DEF SendLine, ClientSends, SendOk, AfterSend, Ended, TypeOK,
                                     NetTypeOK, ClientTypeOK, Delivery, EndsAgree
    <3> QED
      BY <1>1, <3>1, EndedDelivers
  <2>5. CASE d # c
    <3>1. SameConnection(d)
      BY <1>7, <2>1, <2>5 DEF SendLine, ClientSends, TypeOK, NetTypeOK, ClientTypeOK,
                              SameConnection
    <3> QED
      BY <1>1, <3>1, SameConnectionDelivers
  <2> QED
    BY <2>3, <2>4, <2>5
<1>8. ASSUME NEW n \in 1..Len(down[c]), Recv(c, n)
      PROVE  Delivery(d)'
  <2> DEFINE rest  == SubSeq(down[c], n + 1, Len(down[c]))
             isEof == down[c][n].kind = "eof"
  <2>1. CASE Cleanup(c, rest, OK)
    BY <1>2, <2>1 DEF Cleanup
  <2>2. CASE /\ down' = [down EXCEPT ![c] = rest]
             /\ cpc' = IF isEof THEN [cpc EXCEPT ![c] = "prompt"] ELSE cpc
             /\ UNCHANGED <<listening, backlog, up, cEnd, sEnd>>
    <3>1. CASE d # c
      <4>1. SameConnection(d)
        BY <2>2, <3>1 DEF TypeOK, NetTypeOK, ClientTypeOK, SameConnection
      <4> QED
        BY <1>1, <4>1, SameConnectionDelivers
    <3>2. CASE d = c
      <4>1. down[c] \in Seq(Units) /\ down[c] # <<>>
        BY <1>8, EmptySeq DEF TypeOK, NetTypeOK
      <4>2. /\ rest # <<>> => (EofLast(rest) <=> EofLast(down[c]))
            /\ EofLast(down[c]) /\ ~isEof => EofLast(rest)
            /\ rest \in Seq(Units)
        BY <4>1, RestEnds, SubSeqProperties
      <4>3. EofLast(rest) => \E i \in DOMAIN rest : rest[i].kind = "eof"
        BY <4>2, EofIsThere
      <4>4. /\ down'[d] = rest /\ up'[d] = up[d] /\ cEnd'[d] = cEnd[d] /\ sEnd'[d] = sEnd[d]
            /\ cpc'[d] = IF isEof THEN "prompt" ELSE "waiting"
        BY <1>8, <2>2, <3>2 DEF Recv, TypeOK, NetTypeOK, ClientTypeOK
      <4>5. EndsAgree(d)' /\ NothingBeforeConnect(d)'
        BY <1>1, <3>2, <4>1, <4>4 DEF Delivery, EndsAgree, NothingBeforeConnect
      <4>6. AnswersEnd(d)'
        BY <1>1, <3>2, <4>1, <4>2, <4>4 DEF Delivery, AnswersEnd, EofLast
      <4>7. NotStranded(d)'
        BY <1>1, <1>8, <3>2, <4>1, <4>2, <4>3, <4>4
           DEF Delivery, AnswersEnd, NotStranded, Works, Busy, Held, orphanVars, Recv
      <4> QED
        BY <4>5, <4>6, <4>7 DEF Delivery
    <3> QED
      BY <3>1, <3>2
  <2> QED
    BY <1>8, <2>1, <2>2 DEF Recv
<1> QED
  BY <1>4, <1>5, <1>6, <1>7, <1>8 DEF ClientStep, ClientRuns

LEMMA ServerStepDelivers ==
    ASSUME TypeOK, SocketInv, DeliveryInv, ServerStep, UNCHANGED clientVars
    PROVE  DeliveryInv'
<1> SUFFICES ASSUME NEW d \in Clients PROVE Delivery(d)'
  BY DEF DeliveryInv
<1>1. Delivery(d) /\ NetTypeOK /\ ServerTypeOK /\ cpc'[d] = cpc[d] /\ NoClient # d
  BY ServerAssumption DEF DeliveryInv, TypeOK, clientVars
<1>2. ASSUME scli \in Clients, CloseConnection(scli), scli' = NoClient, UNCHANGED orphanVars,
             Works(scli) => cEnd[scli] # "up"
      PROVE  Delivery(d)'
  <2>1. ~Busy(d)' /\ ~Works(d)' /\ orphans'[d] = orphans[d] /\ scli' # d /\ robbed' = robbed
    BY <1>1, <1>2 DEF Busy, Works, orphanVars
  <2>2. CASE d = scli /\ ~Held(scli)
    <3>1. Ended(d)
      BY <1>1, <1>2, <2>2, ServerClosesEnds DEF CloseConnection, Ended
    <3> QED
      BY <1>1, <3>1, EndedDelivers
  <2>3. CASE d = scli /\ Held(scli)
    <3>1. SameConnection(d) /\ Held(d)'
      BY <1>1, <1>2, <2>1, <2>3 DEF CloseConnection, SameConnection, Held, netVars
    <3> QED
      BY <1>1, <1>2, <2>1, <2>3, <3>1
         DEF Delivery, SameConnection, EndsAgree, NothingBeforeConnect, AnswersEnd, NotStranded,
             EofLast
  <2>4. CASE d # scli
    <3>1. SameConnection(d)
      BY <1>1, <1>2, <2>4, ServerClosesEnds DEF CloseConnection, SameConnection, netVars
    <3>2. SameService(d)
      BY <1>1, <2>1, <2>4 DEF SameService, Busy, Works
    <3> QED
      BY <1>1, <3>1, <3>2, SameConnectionDelivers
  <2> QED
    BY <2>2, <2>3, <2>4
<1>3. ASSUME NEW pc, NEW rc, ServerEnds(pc, rc),
             scli \in Clients /\ Works(scli) => cEnd[scli] # "up"
      PROVE  Delivery(d)'
  <2>1. /\ ~Busy(d)' /\ ~Works(d)' /\ orphans'[d] = orphans[d] /\ scli' # d /\ robbed' = robbed
        /\ scli' = NoClient /\ UNCHANGED orphanVars
    BY <1>1, <1>3 DEF ServerEnds, Busy, Works, orphanVars
  <2>2. CASE SomeOrphan /\ scli # NoClient
    <3>1. scli \in Clients /\ CloseConnection(scli)
      BY <1>1, <1>3, <2>2 DEF ServerEnds, ServerTypeOK
    <3> QED
      BY <1>2, <1>3, <2>1, <3>1
  <2>3. CASE SomeOrphan /\ scli = NoClient
    <3>1. SameConnection(d)
      BY <1>1, <1>3, <2>3 DEF ServerEnds, SameConnection, netVars
    <3>2. SameService(d)
      BY <1>1, <2>1, <2>3 DEF SameService, Busy, Works
    <3> QED
      BY <1>1, <3>1, <3>2, SameConnectionDelivers
  <2>4. CASE ~SomeOrphan
    <3>1. ListenerCloses({scli} \cap Clients)
      BY <1>3, <2>4 DEF ServerEnds
    <3>2. (d # scli /\ SameConnection(d)) \/ Ended(d)
      BY <1>1, <3>1, ListenerClosesEnds DEF SameConnection, Ended
    <3>3. d # scli => SameService(d)
      BY <1>1, <2>1 DEF SameService, Busy, Works
    <3> QED
      BY <1>1, <3>2, <3>3, SameConnectionDelivers, EndedDelivers
  <2> QED
    BY <2>2, <2>3, <2>4
<1>4. CASE BootServer \/ Accept
  <2>1. /\ SameConnection(d) /\ ~Busy(d) /\ ~Busy(d)' /\ ~Works(d) /\ ~Works(d)'
        /\ UNCHANGED orphanVars
    BY <1>1, <1>4
       DEF BootServer, Accept, ServerGoes, SameConnection, Busy, Works, Sending, orphanVars
  <2>2. scli' = scli \/ (scli' \in Clients /\ ~Held(scli'))
    <3>1. CASE BootServer
      BY <3>1 DEF BootServer, ServerGoes
    <3>2. CASE Accept
      <4>1. InQueueOnce /\ backlog # <<>> /\ backlog' = Tail(backlog) /\ scli' = Head(backlog)
        BY <3>2 DEF Accept, SocketInv
      <4>2. Head(backlog) \in Clients /\ Queued(Head(backlog))
        BY <1>1, <4>1, QueueServed
      <4> QED
        BY <4>1, <4>2 DEF SocketInv, Socket
    <3> QED
      BY <1>4, <3>1, <3>2
  <2>3. SameService(d)
    BY <2>1, <2>2 DEF SameService, orphanVars
  <2> QED
    BY <1>1, <2>1, <2>3, SameConnectionDelivers
<1>5. CASE BootFails \/ AcceptFails \/ StopServer
  BY <1>3, <1>5 DEF BootFails, AcceptFails, StopServer, Works, Sending
<1>14. CASE SendKillsServer
  <2>1. scli \in Clients /\ sEnd[scli] # "up"
    BY <1>1, <1>14 DEF SendKillsServer, SendKills, ServerTypeOK, Serving
  <2>2. cEnd[scli] # "up"
    BY <2>1 DEF DeliveryInv, Delivery, EndsAgree
  <2> QED
    BY <1>3, <1>14, <2>2 DEF SendKillsServer
<1>6. CASE ServeNoMemory \/ RecvNothing \/ StopRequested
  BY <1>1, <1>2, <1>6
     DEF ServeNoMemory, RecvNothing, StopRequested, HangUp, ServerTypeOK, Serving, Works, Sending
<1>7. ASSUME scli \in Clients, scli' = scli, NEW s, up' = [up EXCEPT ![scli] = s],
             UNCHANGED <<down, cEnd, sEnd, robbed>>, Busy(scli)', Works(scli) => Works(scli)',
             \A c \in Clients \ {scli} : orphans'[c] = orphans[c]
      PROVE  Delivery(d)'
  <2>1. CASE d = scli
    BY <1>1, <1>7, <2>1
       DEF Delivery, EndsAgree, NothingBeforeConnect, AnswersEnd, NotStranded, EofLast
  <2>2. CASE d # scli
    <3>1. SameConnection(d) /\ SameService(d)
      BY <1>1, <1>7, <2>2 DEF SameConnection, SameService, Busy, Works, NetTypeOK
    <3> QED
      BY <1>1, <3>1, SameConnectionDelivers
  <2> QED
    BY <2>1, <2>2
<1>8. ASSUME NEW n \in 0..MaxCmds, NEW split \in BOOLEAN, RecvLine(n, split)
      PROVE  Delivery(d)'
  <2>1. /\ spc = "recv" /\ spc' \in {"stop", "perr", "exec", "fail"} /\ scli \in Clients
        /\ orphans' \in {orphans} \cup Orphaned(scli, cur'.line) /\ scli' = scli
    BY <1>1, <1>8 DEF RecvLine, Dispatch, ServerTypeOK, Serving
  <2>2. Busy(scli)' /\ ~Works(scli)
    BY <2>1 DEF Busy, Works, Sending
  <2>3. \A c \in Clients \ {scli} : orphans'[c] = orphans[c]
    BY <1>1, <2>1, OrphanedType
  <2> QED
    BY <1>7, <1>8, <2>1, <2>2, <2>3 DEF RecvLine
<1>9. CASE ChildReads
  <2>1. /\ scli \in Clients /\ scli' = scli /\ Busy(scli)' /\ Works(scli)'
        /\ UNCHANGED orphanVars
    BY <1>1, <1>9 DEF ChildReads, serverVars, ServerTypeOK, Serving, Busy, Works
  <2> QED
    BY <1>7, <1>9, <2>1 DEF ChildReads, orphanVars
<1>10. ASSUME NEW status \in 0..1, ChildExits(status)
       PROVE  Delivery(d)'
  <2>1. SameConnection(d) /\ SameService(d)
    BY <1>1, <1>10
       DEF ChildExits, ServerGoes, netVars, SameConnection, SameService, Busy, Works, Sending,
           orphanVars
  <2> QED
    BY <1>1, <2>1, SameConnectionDelivers
<1>11. ASSUME scli \in Clients, scli' = scli, NEW unit \in Units, ServerSends(scli, unit),
              UNCHANGED orphanVars, sEnd[scli] = "up" => Works(scli)' \/ unit.kind = "eof"
       PROVE  Delivery(d)'
  <2>1. PICK e \in AfterSend(sEnd[scli]) : sEnd' = [sEnd EXCEPT ![scli] = e]
    BY <1>11 DEF ServerSends
  <2>2. e = "up" <=> sEnd[scli] = "up"
    BY <1>1, <1>11, <2>1, AfterSendType DEF NetTypeOK
  <2>3. CASE d # scli
    <3>1. SameConnection(d) /\ SameService(d)
      BY <1>1, <1>11, <2>1, <2>3
         DEF ServerSends, SameConnection, SameService, Busy, Works, NetTypeOK, orphanVars
    <3> QED
      BY <1>1, <3>1, SameConnectionDelivers
  <2>4. CASE d = scli /\ sEnd[d] # "up"
    <3>1. Ended(d)
      BY <1>1, <1>11, <2>1, <2>2, <2>4 DEF ServerSends, Ended, NetTypeOK, Delivery, EndsAgree
    <3> QED
      BY <1>1, <3>1, EndedDelivers
  <2>5. CASE d = scli /\ sEnd[d] = "up"
    <3>1. down[d] \in Seq(Units) /\ down'[d] = Append(down[d], unit)
      BY <1>1, <1>11, <2>5 DEF ServerSends, NetTypeOK
    <3>2. unit.kind = "eof" => EofLast(down'[d]) /\ down'[d] \in Seq(Units)
      BY <3>1, AppendProperties DEF EofLast
    <3>3. cEnd'[d] = "up" /\ sEnd'[d] = "up" /\ up'[d] = up[d] /\ cEnd[d] = "up"
      BY <1>1, <1>11, <2>1, <2>2, <2>5 DEF ServerSends, NetTypeOK, Delivery, EndsAgree
    <3>4. EndsAgree(d)' /\ NothingBeforeConnect(d)'
      BY <1>1, <3>3 DEF Delivery, EndsAgree, NothingBeforeConnect
    <3>5. AnswersEnd(d)'
      BY <1>11, <2>5, <3>2 DEF AnswersEnd, EofLast
    <3>6. EofLast(down'[d]) /\ down'[d] \in Seq(Units) =>
            \E i \in DOMAIN down'[d] : down'[d][i].kind = "eof"
      BY EofIsThere
    <3>7. NotStranded(d)'
      BY <1>11, <2>5, <3>2, <3>6 DEF NotStranded, Works, Busy
    <3> QED
      BY <3>4, <3>5, <3>7 DEF Delivery
  <2> QED
    BY <2>3, <2>4, <2>5
<1>12. ASSUME NEW kind \in OutKinds, ChildWrites(kind)
       PROVE  Delivery(d)'
  <2>1. scli \in Clients /\ scli' = scli /\ [kind |-> kind, id |-> cur.id] \in Units
    BY <1>1, <1>12, ServerAssumption DEF ChildWrites, ServerTypeOK, Serving, Units
  <2>2. Works(scli)' /\ UNCHANGED orphanVars
    BY <1>12, <2>1 DEF ChildWrites, Works, Sending
  <2> QED
    BY <1>11, <1>12, <2>1, <2>2 DEF ChildWrites
<1>13. CASE ServerSend
  <2> DEFINE unit == [kind |-> KindSent(spc), id |-> cur.id]
  <2>1. /\ scli \in Clients /\ scli' = scli /\ unit \in Units /\ ServerSends(scli, unit)
        /\ UNCHANGED orphanVars
    BY <1>1, <1>13 DEF ServerSend, ServerGoes, ServerTypeOK, Serving, Units, KindSent
  <2>2. sEnd[scli] = "up" => spc' = AfterOk(spc) /\ spc \in Sending
    BY <1>13 DEF ServerSend, ServerGoes, SendOk
  <2>3. sEnd[scli] = "up" => spc' \in Sending \/ unit.kind = "eof"
    BY <2>2 DEF AfterOk, KindSent, Sending
  <2>4. sEnd[scli] = "up" => Works(scli)' \/ unit.kind = "eof"
    BY <2>1, <2>3 DEF Works
  <2> QED
    BY <1>11, <2>1, <2>4
<1> QED
  BY <1>4, <1>5, <1>6, <1>8, <1>9, <1>10, <1>12, <1>13, <1>14 DEF ServerStep

\* An orphan takes a line and the client is robbed, or the last one ends and the
\* connection that only orphans held ends with it.
LEMMA OrphanStepDelivers ==
    ASSUME TypeOK, DeliveryInv, OrphanStep, UNCHANGED clientVars
    PROVE  DeliveryInv'
<1> SUFFICES ASSUME NEW d \in Clients PROVE Delivery(d)'
  BY DEF DeliveryInv
<1>1. Delivery(d) /\ NetTypeOK /\ ServerTypeOK /\ cpc'[d] = cpc[d]
  BY DEF DeliveryInv, TypeOK, clientVars
<1>2. ASSUME NEW c \in Clients, OrphanReads(c)
      PROVE  Delivery(d)'
  <2>1. CASE d = c
    BY <1>1, <1>2, <2>1
       DEF OrphanReads, Delivery, EndsAgree, NothingBeforeConnect, AnswersEnd, NotStranded,
           EofLast, Works
  <2>2. CASE d # c
    <3>1. SameConnection(d) /\ SameService(d)
      BY <1>1, <1>2, <2>2
         DEF OrphanReads, SameConnection, SameService, Busy, Works, NetTypeOK
    <3> QED
      BY <1>1, <3>1, SameConnectionDelivers
  <2> QED
    BY <2>1, <2>2
<1>3. ASSUME NEW c \in Clients, OrphansEnd(c)
      PROVE  Delivery(d)'
  <2>1. /\ spc' = spc /\ scli' = scli /\ robbed' = robbed /\ (Busy(d)' <=> Busy(d))
        /\ (Works(d)' <=> Works(d)) /\ (d # c => orphans'[d] = orphans[d])
    BY <1>1, <1>3 DEF OrphansEnd, Busy, Works, ServerTypeOK
  <2>2. d # c => SameService(d)
    BY <2>1 DEF SameService
  <2>3. CASE scli = c /\ UNCHANGED netVars
    <3>1. SameConnection(d)
      BY <1>1, <2>3 DEF SameConnection, netVars
    <3>2. CASE d = c
      BY <1>1, <2>1, <2>3, <3>1, <3>2
         DEF Delivery, SameConnection, EndsAgree, NothingBeforeConnect, AnswersEnd, NotStranded,
             EofLast
    <3> QED
      BY <1>1, <2>2, <3>1, <3>2, SameConnectionDelivers
  <2>4. CASE ListenerCloses({c})
    <3>1. (d # c /\ SameConnection(d)) \/ Ended(d)
      BY <1>1, <2>4, ListenerClosesEnds DEF SameConnection, Ended
    <3> QED
      BY <1>1, <2>2, <3>1, SameConnectionDelivers, EndedDelivers
  <2>5. CASE ServerCloses(c)
    <3>1. (d # c /\ SameConnection(d)) \/ (d = c /\ Ended(d))
      BY <1>1, <2>5, ServerClosesEnds DEF SameConnection, Ended
    <3> QED
      BY <1>1, <2>2, <3>1, SameConnectionDelivers, EndedDelivers
  <2> QED
    BY <1>3, <2>3, <2>4, <2>5 DEF OrphansEnd
<1> QED
  BY <1>2, <1>3 DEF OrphanStep

\* A client that waits for an answer on a live connection is never stranded, for
\* any clients, commands, faults and kills, but by an orphan: an end marker, a
\* line that a running server will read, or the server at work is always there,
\* unless an orphan has read a line of that client or keeps a connection up that
\* the server has left (rsh_server.c:265-322, 453-466, rsh_cli.c:117-165).
THEOREM NeverStranded == Spec => []NoStrandedClient
<1>1. Init => DeliveryInv
  BY DEF Init, NetInit, ClientInit, DeliveryInv, Delivery, EndsAgree, NothingBeforeConnect,
         AnswersEnd, NotStranded
<1>2. TypeOK /\ SocketInv /\ DeliveryInv /\ [Next]_vars => DeliveryInv'
  <2> SUFFICES ASSUME TypeOK, SocketInv, DeliveryInv, [Next]_vars PROVE DeliveryInv'
    OBVIOUS
  <2>1. CASE Next
    BY <2>1, ClientStepDelivers, ServerStepDelivers, OrphanStepDelivers DEF Next
  <2>2. CASE UNCHANGED vars
    BY <2>2 DEF vars, netVars, clientVars, serverVars, orphanVars, DeliveryInv, Delivery,
                EndsAgree, NothingBeforeConnect, AnswersEnd, NotStranded, Busy, Works, EofLast,
                Held
  <2> QED
    BY <2>1, <2>2
<1>3. DeliveryInv /\ ServerSockets => NoStrandedClient
  <2> SUFFICES ASSUME DeliveryInv, ServerSockets, NEW c \in Clients,
                      cpc[c] = "waiting", cEnd[c] = "up",
                      ~\E i \in DOMAIN down[c] : down[c][i].kind = "eof", ~Busy(c), c \notin robbed
               PROVE  \/ up[c] # <<>> /\ Expected(c)
                      \/ SomeOrphan /\ ~Expected(c)
    BY DEF NoStrandedClient
  <2>1. up[c] # <<>> \/ (Held(c) /\ scli # c)
    BY DEF DeliveryInv, Delivery, NotStranded
  <2>2. Open(c)
    BY DEF DeliveryInv, Delivery, EndsAgree, Open
  <2>3. CASE Held(c) /\ scli # c
    BY <2>3 DEF ServerSockets, Expected, SomeOrphan
  <2>4. CASE up[c] # <<>> /\ ~Held(c)
    <3>1. scli = c \/ Queued(c)
      BY <2>2, <2>4 DEF ServerSockets
    <3>2. Queued(c) => listening
      BY DEF ServerSockets, Queued
    <3> QED
      BY <2>4, <3>1, <3>2 DEF ServerSockets, Expected
  <2>5. CASE up[c] # <<>> /\ scli = c
    BY <2>5 DEF Expected
  <2> QED
    BY <2>1, <2>3, <2>4, <2>5
<1> QED
  BY <1>1, <1>2, <1>3, TypeCorrect, SocketsInvariant, SocketsAreOwned, PTL DEF Spec

-----------------------------------------------------------------------------
(***************************************************************************)
(* The order of the lines.  NeverRunsTwice speaks of one step; what makes  *)
(* it hold at every step is that the lines on their way carry the numbers  *)
(* in the order they were typed, none beyond the last one typed, and all   *)
(* beyond the one in io_buff, but for the rest of a line cut in two.       *)
(***************************************************************************)
Rising(s) == \A i, j \in DOMAIN s : i < j => s[i].id < s[j].id

InOrder(c) ==
    /\ \A i \in DOMAIN up[c] : up[c][i].id <= sent[c]
    /\ Rising(up[c])
    /\ scli = c => /\ cur.id <= sent[c]
                   /\ \A i \in DOMAIN up[c] :
                        up[c][i].id > cur.id \/ (i = 1 /\ up[c][i].line = "part")

OrderInv == \A c \in Clients : InOrder(c)

\* Every line carries a number.
LEMMA RequestIds ==
    ASSUME NEW s \in Seq(Requests)
    PROVE  \A i \in DOMAIN s : s[i] \in Requests /\ s[i].id \in Nat /\ s[i].id > 0
<1>1. ASSUME NEW i \in DOMAIN s PROVE s[i] \in Requests
  BY LenProperties, ElementOfSeq
<1>2. ASSUME NEW r \in Requests PROVE r.id \in Nat /\ r.id > 0
  BY NetAssumption DEF Requests
<1> QED
  BY <1>1, <1>2

\* What one recv leaves: the lines behind those it took, the first perhaps cut.
LEMMA UnreadLines ==
    ASSUME NEW s \in Seq(Requests), NEW n \in 0..Len(s), NEW split \in BOOLEAN,
           split => n < Len(s)
    PROVE  LET r == Unread(s, n, split)
           IN  /\ DOMAIN r = 1..Len(s) - n
               /\ \A i \in DOMAIN r : /\ r[i].id = s[n + i].id
                                      /\ split /\ i = 1 => r[i].line = "part"
<1>1. Len(s) \in Nat /\ \A i \in 1..Len(s) : s[i] \in Requests
  BY LenProperties, ElementOfSeq
<1>2. ASSUME NEW m \in 1..Len(s) + 1
      PROVE  /\ SubSeq(s, m, Len(s)) \in Seq(Requests)
             /\ Len(SubSeq(s, m, Len(s))) = Len(s) - m + 1
             /\ \A i \in 1..Len(s) - m + 1 : SubSeq(s, m, Len(s))[i] = s[m + i - 1]
  BY <1>1, SubSeqProperties
<1>3. CASE ~split
  <2>1. Unread(s, n, split) = SubSeq(s, n + 1, Len(s)) /\ n + 1 \in 1..Len(s) + 1
    BY <1>1, <1>3 DEF Unread
  <2>2. DOMAIN Unread(s, n, split) = 1..Len(s) - n
    BY <1>1, <1>2, <2>1, LenProperties
  <2>3. \A i \in 1..Len(s) - n : Unread(s, n, split)[i] = s[n + i]
    BY <1>1, <1>2, <2>1
  <2> QED
    BY <1>3, <2>2, <2>3
<1>4. CASE split
  <2> DEFINE part == [s[n + 1] EXCEPT !.line = "part"]
             rest == SubSeq(s, n + 2, Len(s))
  <2>1. n + 1 \in 1..Len(s) /\ n + 2 \in 1..Len(s) + 1 /\ s[n + 1] \in Requests
    BY <1>1, <1>4
  <2>2. part \in Requests /\ part.line = "part" /\ part.id = s[n + 1].id
    BY <2>1 DEF Requests
  <2>3. /\ rest \in Seq(Requests) /\ Len(rest) = Len(s) - n - 1
        /\ \A i \in 1..Len(s) - n - 1 : rest[i] = s[n + 1 + i]
    BY <1>1, <1>2, <2>1
  <2>4. Unread(s, n, split) = <<part>> \o rest
    BY <1>4 DEF Unread
  <2> HIDE DEF part, rest
  <2>5. <<part>> \in Seq(Requests) /\ Len(<<part>>) = 1 /\ <<part>>[1] = part
    BY <2>2
  <2>6. /\ <<part>> \o rest \in Seq(Requests) /\ Len(<<part>> \o rest) = Len(s) - n
        /\ (<<part>> \o rest)[1] = part
        /\ \A i \in 2..Len(s) - n : (<<part>> \o rest)[i] = rest[i - 1]
    BY <1>1, <2>1, <2>3, <2>5, ConcatProperties
  <2>7. \A i \in 2..Len(s) - n : (<<part>> \o rest)[i] = s[n + i]
    BY <1>1, <2>1, <2>3, <2>6
  <2>8. DOMAIN (<<part>> \o rest) = 1..Len(s) - n
    BY <2>6, LenProperties
  <2>9. \A i \in 1..Len(s) - n : /\ (<<part>> \o rest)[i].id = s[n + i].id
                                 /\ i = 1 => (<<part>> \o rest)[i].line = "part"
    BY <1>1, <2>1, <2>2, <2>6, <2>7
  <2> QED
    BY <2>4, <2>8, <2>9
<1> QED
  BY <1>3, <1>4

\* The order only depends on the lines, the session and the counter; a line
\* more keeps it if it carries the next number.
LEMMA OrderKept ==
    ASSUME NEW c \in Clients, InOrder(c), up'[c] = up[c] \/ up'[c] = <<>>, sent'[c] = sent[c],
           scli' = c => scli = c /\ cur' = cur
    PROVE  InOrder(c)'
<1>1. CASE up'[c] = up[c]
  BY <1>1 DEF InOrder, Rising
<1>2. CASE up'[c] = <<>>
  <2>1. DOMAIN up'[c] = {}
    BY <1>2
  <2> QED
    BY <2>1 DEF InOrder, Rising
<1> QED
  BY <1>1, <1>2

LEMMA ClientStepOrder ==
    ASSUME TypeOK, OrderInv, NEW c \in Clients, ClientStep(c), UNCHANGED serverVars
    PROVE  OrderInv'
<1> SUFFICES ASSUME NEW d \in Clients PROVE InOrder(d)'
  BY DEF OrderInv
<1>1. /\ scli' = scli /\ cur' = cur /\ InOrder(d) /\ up \in [Clients -> Seq(Requests)]
      /\ sent \in [Clients -> 0..MaxCmds] /\ cur.id \in 0..MaxCmds
  BY DEF serverVars, TypeOK, NetTypeOK, ClientTypeOK, ServerTypeOK, OrderInv
<1>2. ASSUME NEW line \in Lines, SendLine(c, line)
      PROVE  InOrder(d)'
  <2>1. /\ sent' = [sent EXCEPT ![c] = sent[c] + 1] /\ sent[c] \in Nat /\ MaxCmds \in Nat
        /\ sent[c] + 1 \in 1..MaxCmds
    BY <1>1, <1>2, NetAssumption DEF SendLine
  <2>2. up' = up \/ up' = [up EXCEPT ![c] = Append(up[c], [line |-> line, id |-> sent[c] + 1])]
    BY <1>2 DEF SendLine, ClientSends
  <2>3. CASE d = c /\ up' # up
    <3> DEFINE req == [line |-> line, id |-> sent[c] + 1]
    <3>1. req \in Requests /\ req.id = sent[c] + 1
      BY <2>1 DEF Requests
    <3> HIDE DEF req
    <3>2. up'[d] = Append(up[d], req) /\ up[d] \in Seq(Requests) /\ sent'[d] = sent[d] + 1
      BY <1>1, <2>1, <2>2, <2>3 DEF req
    <3>3. /\ DOMAIN up[d] = 1..Len(up[d]) /\ DOMAIN up'[d] = 1..Len(up[d]) + 1
          /\ Len(up[d]) \in Nat /\ up'[d][Len(up[d]) + 1] = req
          /\ \A i \in 1..Len(up[d]) : up'[d][i] = up[d][i] /\ up[d][i] \in Requests
      BY <3>1, <3>2, AppendProperties, LenProperties, ElementOfSeq
    <3>4. \A i \in 1..Len(up[d]) : up[d][i].id \in Nat /\ up[d][i].id <= sent[d]
      BY <1>1, <3>2, <3>3, RequestIds DEF InOrder
    <3>5. \A i \in DOMAIN up'[d] : up'[d][i].id <= sent'[d]
      BY <2>1, <2>3, <3>1, <3>2, <3>3, <3>4
    <3>6. Rising(up'[d])
      <4> SUFFICES ASSUME NEW i \in DOMAIN up'[d], NEW j \in DOMAIN up'[d], i < j
                   PROVE  up'[d][i].id < up'[d][j].id
        BY DEF Rising
      <4>1. CASE j = Len(up[d]) + 1 /\ i \in 1..Len(up[d])
        <5>1. up'[d][j] = req /\ up'[d][i] = up[d][i]
          BY <3>3, <4>1
        <5>2. req.id = sent[d] + 1 /\ sent[d] \in Nat
          BY <2>1, <2>3, <3>1
        <5>3. up[d][i].id \in Nat /\ up[d][i].id <= sent[d]
          BY <3>4, <4>1
        <5> QED
          BY ONLY <5>1, <5>2, <5>3
      <4>2. CASE j # Len(up[d]) + 1 /\ i \in 1..Len(up[d])
        BY <1>1, <3>3, <4>2 DEF InOrder, Rising
      <4> QED
        BY <3>3, <4>1, <4>2
    <3>7. scli' = d => /\ cur'.id <= sent'[d]
                       /\ \A i \in DOMAIN up'[d] :
                            up'[d][i].id > cur'.id \/ (i = 1 /\ up'[d][i].line = "part")
      <4> SUFFICES ASSUME scli = d
                   PROVE  /\ cur.id <= sent[d] + 1
                          /\ \A i \in DOMAIN up'[d] :
                               up'[d][i].id > cur.id \/ (i = 1 /\ up'[d][i].line = "part")
        BY <1>1, <3>2
      <4>1. cur.id \in Nat /\ cur.id <= sent[d] /\ sent[d] \in Nat
        BY <1>1, <2>1, NetAssumption DEF InOrder
      <4>2. \A i \in 1..Len(up[d]) : up[d][i].id > cur.id \/ (i = 1 /\ up[d][i].line = "part")
        BY <1>1, <3>3 DEF InOrder
      <4>3. req.id > cur.id
        BY <2>3, <3>1, <4>1
      <4>4. \A i \in DOMAIN up'[d] : up'[d][i].id > cur.id \/ (i = 1 /\ up'[d][i].line = "part")
        BY <3>3, <4>2, <4>3
      <4> QED
        BY <4>1, <4>4
    <3> QED
      BY <3>5, <3>6, <3>7 DEF InOrder, Rising
  <2>4. CASE d # c \/ up' = up
    <3>1. up'[d] = up[d] /\ sent[d] \in Nat /\ sent'[d] \in {sent[d], sent[d] + 1}
      BY <1>1, <2>1, <2>2, <2>4, NetAssumption
    <3>2. \A i \in DOMAIN up[d] : up[d][i].id \in Nat
      BY <1>1, RequestIds
    <3>3. /\ \A i \in DOMAIN up[d] : up[d][i].id <= sent'[d]
          /\ scli = d => cur.id <= sent'[d]
      BY <1>1, <3>1, <3>2, NetAssumption DEF InOrder
    <3> QED
      BY <1>1, <3>1, <3>3 DEF InOrder, Rising
  <2> QED
    BY <2>3, <2>4
<1>3. CASE UNCHANGED <<sent, up>>
  BY <1>1, <1>3, OrderKept
<1>4. CASE NoMemory(c) \/ StartFails(c) \/ StartClient(c)
  BY <1>3, <1>4 DEF NoMemory, StartFails, GiveUp, StartClient, Establish, netVars
<1>5. CASE EndOfInput(c) \/ SendError(c) \/ SendKilled(c) \/ RecvClosed(c) \/ Kill(c)
  BY <1>3, <1>5 DEF EndOfInput, SendError, SendKilled, RecvClosed, Kill, Cleanup, ClientCloses
<1>6. CASE \E n \in 1..Len(down[c]) : Recv(c, n)
  BY <1>3, <1>6 DEF Recv, Cleanup, ClientCloses
<1> QED
  BY <1>2, <1>4, <1>5, <1>6 DEF ClientStep, ClientRuns

\* One recv: the line in io_buff comes behind the one before it, and the lines
\* left come behind it, unless it is a part of a line.
LEMMA RecvLineOrder ==
    ASSUME TypeOK, OrderInv, NEW n \in 0..MaxCmds, NEW split \in BOOLEAN, RecvLine(n, split),
           UNCHANGED clientVars
    PROVE  OrderInv' /\ (cur'.id > cur.id \/ cur'.line = "part")
<1> DEFINE s == up[scli]
<1>1. /\ scli \in Clients /\ s \in Seq(Requests) /\ InOrder(scli) /\ scli' = scli /\ sent' = sent
      /\ sent[scli] \in Nat /\ up \in [Clients -> Seq(Requests)] /\ cur.id \in Nat
  BY NetAssumption DEF TypeOK, NetTypeOK, ClientTypeOK, ServerTypeOK, RecvLine, Serving, OrderInv,
                       clientVars
<1>2. /\ n \in 0..Len(s) /\ (split => n < Len(s)) /\ (~split => n > 0) /\ 1 \in 1..Len(s)
      /\ Len(s) \in Nat /\ DOMAIN s = 1..Len(s)
  BY <1>1, LenProperties DEF RecvLine
<1>3. cur' = FirstLine(s, n) /\ up' = [up EXCEPT ![scli] = Unread(s, n, split)]
  BY DEF RecvLine
<1>4. \A i \in 1..Len(s) : s[i] \in Requests /\ s[i].id \in Nat
  BY <1>1, <1>2, RequestIds
<1>5. cur'.id = s[1].id /\ (n = 0 => cur'.line = "part") /\ (n > 0 => cur' = s[1])
  BY <1>2, <1>3, <1>4 DEF FirstLine, Requests
<1>6. cur'.id > cur.id \/ cur'.line = "part"
  BY <1>1, <1>2, <1>5 DEF InOrder
<1>7. ASSUME NEW d \in Clients PROVE InOrder(d)'
  <2>1. CASE d # scli
    BY <1>1, <1>3, <1>7, <2>1, OrderKept DEF OrderInv
  <2>2. CASE d = scli
    <3> DEFINE r == Unread(s, n, split)
    <3>1. /\ DOMAIN r = 1..Len(s) - n
          /\ \A i \in DOMAIN r : r[i].id = s[n + i].id /\ (split /\ i = 1 => r[i].line = "part")
      BY <1>1, <1>2, UnreadLines
    <3>2. up'[d] = r
      BY <1>1, <1>3, <2>2
    <3> HIDE DEF r
    <3>3. \A i \in DOMAIN r : n + i \in DOMAIN s /\ n + i \in Nat /\ i \in Nat
      BY <1>2, <3>1
    <3>4. \A i \in DOMAIN r : r[i].id <= sent[d]
      BY <1>1, <2>2, <3>1, <3>3 DEF InOrder
    <3>5. Rising(r)
      <4> SUFFICES ASSUME NEW i \in DOMAIN r, NEW j \in DOMAIN r, i < j
                   PROVE  r[i].id < r[j].id
        BY DEF Rising
      <4>1. n + i < n + j /\ n + i \in DOMAIN s /\ n + j \in DOMAIN s
        BY <1>2, <3>3
      <4> QED
        BY <1>1, <3>1, <4>1 DEF InOrder, Rising
    <3>6. \A i \in DOMAIN r : r[i].id > cur'.id \/ (i = 1 /\ r[i].line = "part")
      <4> SUFFICES ASSUME NEW i \in DOMAIN r, ~(i = 1 /\ r[i].line = "part")
                   PROVE  r[i].id > cur'.id
        OBVIOUS
      <4>1. 1 < n + i /\ n + i \in DOMAIN s /\ 1 \in DOMAIN s
        BY <1>2, <3>1, <3>3
      <4>2. s[1].id < s[n + i].id
        BY <1>1, <4>1 DEF InOrder, Rising
      <4> QED
        BY <1>2, <1>4, <1>5, <3>1, <4>1, <4>2
    <3>7. cur'.id <= sent[d]
      BY <1>1, <1>2, <1>5, <2>2 DEF InOrder
    <3> QED
      BY <1>1, <3>2, <3>4, <3>5, <3>6, <3>7 DEF InOrder
  <2> QED
    BY <2>1, <2>2
<1> QED
  BY <1>6, <1>7 DEF OrderInv

\* The first line on its way is taken, by the server's child or by an orphan.
LEMMA TailOrder ==
    ASSUME TypeOK, OrderInv, NEW c \in Clients, up[c] # <<>>, up' = [up EXCEPT ![c] = Tail(@)],
           scli' = scli, cur' = cur, sent' = sent
    PROVE  OrderInv'
<1>1. NoClient \notin Clients /\ up \in [Clients -> Seq(Requests)] /\ up[c] \in Seq(Requests)
  BY ServerAssumption DEF TypeOK, NetTypeOK
<1>2. /\ Len(up[c]) \in Nat \ {0} /\ DOMAIN up[c] = 1..Len(up[c])
      /\ DOMAIN Tail(up[c]) = 1..Len(up[c]) - 1
      /\ \A i \in 1..Len(up[c]) - 1 : Tail(up[c])[i] = up[c][i + 1]
  BY <1>1, EmptySeq, HeadTailProperties, LenProperties
<1> SUFFICES ASSUME NEW d \in Clients PROVE InOrder(d)'
  BY DEF OrderInv
<1>3. CASE d # c
  BY <1>1, <1>3, OrderKept DEF OrderInv
<1>4. CASE d = c
  <2>1. InOrder(d) /\ up'[d] = Tail(up[d])
    BY <1>1, <1>4 DEF OrderInv
  <2> DEFINE s == up[c]
             t == up'[c]
  <2>2. /\ up'[d] = t /\ up[d] = s /\ DOMAIN t = 1..Len(s) - 1 /\ DOMAIN s = 1..Len(s)
        /\ Len(s) \in Nat \ {0} /\ \A i \in 1..Len(s) - 1 : t[i] = s[i + 1]
    BY <1>1, <1>2, <1>4
  <2>3. /\ \A i \in DOMAIN s : s[i].id <= sent[d] /\ (scli = d /\ i # 1 => s[i].id > cur.id)
        /\ \A i, j \in DOMAIN s : i < j => s[i].id < s[j].id
    BY <2>1, <2>2 DEF InOrder, Rising
  <2> HIDE DEF s, t
  <2>4. \A i \in DOMAIN t : /\ i \in Nat /\ i + 1 \in DOMAIN s /\ i + 1 # 1
                            /\ t[i] = s[i + 1]
    BY <2>2
  <2>5. \A i \in DOMAIN t : t[i].id <= sent[d] /\ (scli = d => t[i].id > cur.id)
    BY <2>3, <2>4
  <2>6. \A i, j \in DOMAIN t : i < j => t[i].id < t[j].id
    <3> SUFFICES ASSUME NEW i \in DOMAIN t, NEW j \in DOMAIN t, i < j
                 PROVE  t[i].id < t[j].id
      OBVIOUS
    <3>1. i + 1 \in DOMAIN s /\ j + 1 \in DOMAIN s /\ i + 1 < j + 1
      BY <2>4
    <3>2. s[i + 1].id < s[j + 1].id
      BY <2>3, <3>1
    <3> QED
      BY <2>4, <3>2
  <2>7. scli = d => cur.id <= sent[d]
    BY <2>1 DEF InOrder
  <2>8. Rising(t)
    BY <2>6 DEF Rising
  <2> QED
    BY <2>2, <2>5, <2>7, <2>8 DEF InOrder
<1> QED
  BY <1>3, <1>4

LEMMA ServerStepOrder ==
    ASSUME TypeOK, OrderInv, ServerStep, UNCHANGED clientVars
    PROVE  OrderInv'
<1>1. /\ sent' = sent /\ NoClient \notin Clients /\ up \in [Clients -> Seq(Requests)]
      /\ sent \in [Clients -> 0..MaxCmds]
  BY ServerAssumption DEF clientVars, TypeOK, NetTypeOK, ClientTypeOK
<1>2. ASSUME scli' \in {scli, NoClient}, cur' = cur, \A d \in Clients : up'[d] \in {up[d], <<>>}
      PROVE  OrderInv'
  BY <1>1, <1>2, OrderKept DEF OrderInv
<1>3. ASSUME CloseConnection(scli), scli' = NoClient, cur' = cur
      PROVE  OrderInv'
  BY <1>1, <1>2, <1>3 DEF CloseConnection, ServerCloses, netVars
<1>4. ASSUME NEW pc, NEW rc, ServerEnds(pc, rc)
      PROVE  OrderInv'
  <2>1. scli' = NoClient /\ cur' = cur
    BY <1>4 DEF ServerEnds
  <2>2. ListenerCloses({scli} \cap Clients) \/ UNCHANGED netVars \/ CloseConnection(scli)
    BY <1>4 DEF ServerEnds
  <2>3. ASSUME ListenerCloses({scli} \cap Clients) \/ UNCHANGED netVars
        PROVE  \A d \in Clients : up'[d] \in {up[d], <<>>}
    BY <2>3 DEF ListenerCloses, netVars
  <2> QED
    BY <1>2, <1>3, <2>1, <2>2, <2>3
<1>5. CASE BootServer
  BY <1>2, <1>5 DEF BootServer, ServerGoes
<1>6. CASE BootFails \/ AcceptFails \/ SendKillsServer \/ StopServer
  BY <1>4, <1>6 DEF BootFails, AcceptFails, SendKillsServer, StopServer
<1>7. CASE Accept
  <2> SUFFICES ASSUME NEW d \in Clients PROVE InOrder(d)'
    BY DEF OrderInv
  <2>1. up' = up /\ cur'.id = 0 /\ InOrder(d)
    BY <1>7 DEF Accept, NoRequest, OrderInv
  <2>2. \A i \in DOMAIN up[d] : up[d][i].id > 0
    BY <1>1, RequestIds
  <2>3. 0 <= sent[d]
    BY <1>1, NetAssumption
  <2> QED
    BY <1>1, <2>1, <2>2, <2>3 DEF InOrder
<1>8. CASE ServeNoMemory \/ RecvNothing \/ StopRequested
  BY <1>3, <1>8 DEF ServeNoMemory, RecvNothing, StopRequested, HangUp
<1>9. CASE \E n \in 0..MaxCmds, split \in BOOLEAN : RecvLine(n, split)
  BY <1>9, RecvLineOrder
<1>10. CASE \/ \E kind \in OutKinds : ChildWrites(kind)
            \/ ServerSend
            \/ \E status \in 0..1 : ChildExits(status)
  BY <1>2, <1>10 DEF ChildWrites, ServerSend, ServerSends, ServerGoes, ChildExits, netVars
<1>11. CASE ChildReads
  <2>1. scli \in Clients
    BY <1>11 DEF ChildReads, TypeOK, ServerTypeOK, Serving
  <2> QED
    BY <1>1, <1>11, <2>1, TailOrder DEF ChildReads, serverVars
<1> QED
  BY <1>5, <1>6, <1>7, <1>8, <1>9, <1>10, <1>11 DEF ServerStep

LEMMA OrphanStepOrder ==
    ASSUME TypeOK, OrderInv, OrphanStep, UNCHANGED clientVars
    PROVE  OrderInv'
<1>1. sent' = sent /\ NoClient \notin Clients /\ up \in [Clients -> Seq(Requests)]
  BY ServerAssumption DEF clientVars, TypeOK, NetTypeOK
<1>2. ASSUME NEW c \in Clients, OrphanReads(c)
      PROVE  OrderInv'
  BY <1>1, <1>2, TailOrder DEF OrphanReads
<1>3. ASSUME NEW c \in Clients, OrphansEnd(c)
      PROVE  OrderInv'
  <2>1. scli' = scli /\ cur' = cur /\ \A d \in Clients : up'[d] \in {up[d], <<>>}
    BY <1>1, <1>3 DEF OrphansEnd, ServerCloses, ListenerCloses, netVars
  <2> QED
    BY <1>1, <2>1, OrderKept DEF OrderInv
<1> QED
  BY <1>2, <1>3 DEF OrphanStep

\* In one session the commands run in the order they were typed and none runs
\* twice, however recv coalesces or cuts the lines (rsh_server.c:265-322).
THEOREM RunsInOrder == Spec => NeverRunsTwice
<1>1. Init => OrderInv
  BY NetAssumption, ServerAssumption
     DEF Init, NetInit, ClientInit, ServerInit, OrderInv, InOrder, Rising
<1>2. TypeOK /\ OrderInv /\ [Next]_vars => OrderInv'
  <2> SUFFICES ASSUME TypeOK, OrderInv, [Next]_vars PROVE OrderInv'
    OBVIOUS
  <2>1. CASE Next
    BY <2>1, ClientStepOrder, ServerStepOrder, OrphanStepOrder DEF Next
  <2>2. CASE UNCHANGED vars
    BY <2>2 DEF vars, netVars, clientVars, serverVars, OrderInv, InOrder
  <2> QED
    BY <2>1, <2>2
<1>3. TypeOK /\ OrderInv /\ [Next]_vars
        => [spc = "recv" /\ Busy(scli)' => cur'.id > cur.id \/ cur'.line = "part"]_vars
  <2> SUFFICES ASSUME TypeOK, OrderInv, Next, spc = "recv", Busy(scli)'
               PROVE  cur'.id > cur.id \/ cur'.line = "part"
    OBVIOUS
  <2>1. spc' # "recv" /\ spc' # "accept"
    BY DEF Busy, Sending
  <2>2. ServerStep /\ UNCHANGED clientVars
    BY <2>1 DEF Next, serverVars, OrphanStep, OrphanReads, OrphansEnd
  <2>3. \E n \in 0..MaxCmds, split \in BOOLEAN : RecvLine(n, split)
    BY <2>1, <2>2
       DEF ServerStep, BootServer, BootFails, Accept, AcceptFails, ServeNoMemory, RecvNothing,
           HangUp, ChildWrites, ChildReads, ChildExits, ServerSend, SendKillsServer,
           StopRequested, StopServer, Sending
  <2> QED
    BY <2>2, <2>3, RecvLineOrder
<1> QED
  BY <1>1, <1>2, <1>3, TypeCorrect, PTL DEF Spec, NeverRunsTwice

-----------------------------------------------------------------------------
(***************************************************************************)
(* The remote call, for any clients, lines and bounds: the protocol keeps  *)
(* client and server in step when every command succeeds; the server runs  *)
(* what was typed and survives when, besides, nobody kills a client; and   *)
(* the whole implements RemoteExec when, besides, no call of the server    *)
(* but the parser fails.                                                   *)
(***************************************************************************)
(***************************************************************************)
(* What keeps the answers in step with the lines: a command that fails is  *)
(* followed by two end markers, one that prints the marker ends its answer *)
(* early, one that reads takes the client's next line, and a recv that     *)
(* ends inside a line runs a part of it.  The run RshStaleAnswer shows     *)
(* what the first of these does.                                           *)
(***************************************************************************)
EveryCommandSucceeds ==
    /\ Results \subseteq {0} /\ "fork" \notin ServerFaults
    /\ OutKinds \subseteq {"out"}
    /\ Lines \cap {"exit", "cat"} = {}
    /\ ~Splits

NobodyIsKilled == Crashers = {}

OnlyParsingFails == ServerFaults \subseteq {"parse"}

(***************************************************************************)
(* Where a request is: not made, sent, with the server, answered, or cut   *)
(* off by the server.  Of a client that has left nothing is said.          *)
(***************************************************************************)
Quiet(c) == up[c] = <<>> /\ down[c] = <<>>

Connected(c) == cEnd[c] = "up" /\ sEnd[c] = "up"

Request(c) == [line |-> typed[c], id |-> sent[c]]

Idle(c) == Connected(c) /\ ~Busy(c) /\ Quiet(c)

Asked(c) == Connected(c) /\ ~Busy(c) /\ down[c] = <<>> /\ up[c] = <<Request(c)>>

Running(c) ==
    /\ Connected(c) /\ up[c] = <<>>
    /\ scli = c /\ spc \in {"exec", "perr", "perr_eof", "eof", "stop"}
    /\ cur = Request(c)
    /\ \A i \in DOMAIN down[c] : down[c][i].kind # "eof" /\ down[c][i].id = sent[c]
    /\ spc = "stop" => down[c] = <<>>

Answered(c) ==
    /\ Connected(c) /\ up[c] = <<>> /\ down[c] # <<>>
    /\ scli = c /\ spc = "recv"
    /\ \A i \in DOMAIN down[c] : /\ down[c][i].kind = "eof" <=> i = Len(down[c])
                                 /\ down[c][i].id = sent[c]

Cut(c) == cEnd[c] # "up" /\ sEnd[c] = "closed" /\ Quiet(c)

Left(c) == cpc[c] \in {"done", "killed"}

CallState(c) ==
    \/ cpc[c] = "start" /\ cEnd[c] = "none" /\ Quiet(c)
    \/ cpc[c] = "prompt" /\ (Idle(c) \/ Cut(c))
    \/ cpc[c] = "waiting" /\ (Asked(c) \/ Running(c) \/ Answered(c) \/ Cut(c))
    \/ Left(c)

CallInv == \A c \in Clients : CallState(c)

-----------------------------------------------------------------------------
\* A client that a step does not concern.
SameClient(c) == SameConnection(c) /\ typed'[c] = typed[c] /\ sent'[c] = sent[c]

SameSession(c) ==
    \/ scli # c /\ scli' # c
    \/ UNCHANGED <<scli, spc, cur>>

(***************************************************************************)
(* Where fork never fails there are no orphans, and the server alone holds *)
(* its sockets.                                                            *)
(***************************************************************************)
NoOrphans == \A c \in Clients : ~Held(c)

LEMMA AloneItCloses ==
    ASSUME NoOrphans
    PROVE  /\ \A c \in Clients : CloseConnection(c) => ServerCloses(c)
           /\ \A pc, rc : ServerEnds(pc, rc) => ListenerCloses({scli} \cap Clients)
BY DEF NoOrphans, CloseConnection, ServerEnds, SomeOrphan

LEMMA AloneItRuns == ASSUME NoOrphans PROVE ~OrphanStep
BY DEF NoOrphans, OrphanStep, OrphanReads, OrphansEnd, Held

LEMMA OrphansNever == ASSUME EveryCommandSucceeds PROVE Spec => []NoOrphans
<1>1. Init => NoOrphans
  BY DEF Init, ServerInit, NoOrphans, Held
<1>2. NoOrphans /\ [Next]_vars => NoOrphans'
  <2> SUFFICES ASSUME NoOrphans, [Next]_vars PROVE NoOrphans'
    OBVIOUS
  <2>1. orphans' = orphans
    <3>1. CASE UNCHANGED serverVars
      BY <3>1 DEF serverVars, orphanVars
    <3>2. CASE ServerStep
      <4>1. ASSUME NEW n \in 0..MaxCmds, NEW split \in BOOLEAN, RecvLine(n, split)
            PROVE  orphans' = orphans
        <5>1. spc' # "fail"
          BY <4>1 DEF RecvLine, Dispatch, EveryCommandSucceeds
        <5> QED
          BY <4>1, <5>1 DEF RecvLine
      <4> QED
        BY <3>2, <4>1
           DEF ServerStep, BootServer, BootFails, Accept, AcceptFails, ServeNoMemory, RecvNothing,
               HangUp, ChildWrites, ChildReads, ChildExits, ServerSend, SendKillsServer,
               StopRequested, StopServer, ServerEnds, ServerGoes, serverVars, orphanVars
    <3> QED
      BY <3>1, <3>2, AloneItRuns DEF Next, vars
  <2> QED
    BY <2>1 DEF NoOrphans, Held
<1> QED
  BY <1>1, <1>2, PTL DEF Spec

LEMMA CallKept ==
    ASSUME NEW c \in Clients, CallState(c), SameClient(c), SameSession(c)
    PROVE  CallState(c)'
BY DEF CallState, SameClient, SameConnection, SameSession, Quiet, Connected, Request, Idle,
       Asked, Running, Answered, Cut, Left, Busy

\* What the server may know of the client it serves.
LEMMA Served ==
    ASSUME TypeOK, SocketInv, CallInv, spc \in Serving
    PROVE  /\ scli \in Clients /\ CallState(scli) /\ Open(scli) /\ scli # NoClient
           /\ \/ Left(scli)
              \/ /\ Connected(scli) /\ ~Left(scli)
                 /\ \/ cpc[scli] = "prompt" /\ Idle(scli)
                    \/ cpc[scli] = "waiting" /\ (Asked(scli) \/ Running(scli) \/ Answered(scli))
<1>1. scli \in Clients /\ scli # NoClient
  BY ServerAssumption DEF TypeOK, ServerTypeOK
<1>2. CallState(scli) /\ Open(scli) /\ (cpc[scli] = "start" => sEnd[scli] = "none")
  BY <1>1 DEF CallInv, SocketInv, Socket
<1>3. ~Cut(scli) /\ cpc[scli] # "start"
  BY <1>2 DEF Cut, Open, Hung
<1> QED
  BY <1>1, <1>2, <1>3 DEF CallState, Idle, Asked, Running, Answered, Left

\* The server, or its end, cuts a client off.
LEMMA CallCut ==
    ASSUME NEW c \in Clients, CallState(c), cpc'[c] = cpc[c], Left(c) \/ down'[c] = <<>>,
           up'[c] = <<>>, cEnd'[c] # "up", sEnd'[c] = "closed", cpc[c] # "start"
    PROVE  CallState(c)'
BY DEF CallState, Cut, Quiet, Left

\* What one recv of the client leaves.
LEMMA RestOf ==
    ASSUME NEW s \in Seq(Units), NEW n \in 1..Len(s)
    PROVE  LET rest == SubSeq(s, n + 1, Len(s))
           IN  /\ rest \in Seq(Units) /\ Len(rest) = Len(s) - n /\ DOMAIN rest = 1..Len(s) - n
               /\ \A i \in 1..Len(s) - n : n + i \in DOMAIN s /\ rest[i] = s[n + i]
<1> DEFINE rest == SubSeq(s, n + 1, Len(s))
<1>1. /\ rest \in Seq(Units)
      /\ Len(rest) = IF n + 1 <= Len(s) THEN Len(s) - n ELSE 0
      /\ \A i \in 1..Len(s) - n : rest[i] = s[n + i]
  BY SubSeqProperties
<1> HIDE DEF rest
<1>2. Len(s) \in Nat /\ DOMAIN s = 1..Len(s)
  BY LenProperties
<1>3. Len(rest) = Len(s) - n
  <2>1. Len(s) \in Nat /\ n \in 1..Len(s)
    BY <1>2
  <2>2. CASE n = Len(s)
    BY <1>1, <2>1, <2>2
  <2>3. CASE n # Len(s)
    <3>1. n + 1 <= Len(s)
      BY <2>1, <2>3
    <3> QED
      BY <1>1, <3>1
  <2> QED
    BY <2>2, <2>3
<1>4. DOMAIN rest = 1..Len(s) - n
  BY <1>1, <1>3, LenProperties
<1>5. \A i \in 1..Len(s) - n : n + i \in DOMAIN s
  BY <1>2
<1> QED
  BY <1>1, <1>3, <1>4, <1>5 DEF rest

LEMMA ClientStepCalls ==
    ASSUME EveryCommandSucceeds, TypeOK, SocketInv, CallInv, NEW c \in Clients, ClientStep(c),
           UNCHANGED serverVars
    PROVE  CallInv'
<1> SUFFICES ASSUME NEW d \in Clients PROVE CallState(d)'
  BY DEF CallInv
<1>1. /\ scli' = scli /\ spc' = spc /\ cur' = cur /\ CallState(d) /\ NetTypeOK
      /\ cpc \in [Clients -> ClientPcs] /\ Busy(d)' = Busy(d)
      /\ typed \in [Clients -> Lines \cup {"blank"}] /\ sent \in [Clients -> 0..MaxCmds]
      /\ up \in [Clients -> Seq(Requests)] /\ down \in [Clients -> Seq(Units)]
      /\ cEnd \in [Clients -> EndStates] /\ sEnd \in [Clients -> EndStates]
  BY DEF serverVars, TypeOK, NetTypeOK, ClientTypeOK, CallInv, Busy
<1>2. ASSUME NEW unread, ClientCloses(c, unread), NEW pc \in {"done", "killed"},
             cpc' = [cpc EXCEPT ![c] = pc], UNCHANGED <<typed, sent>>
      PROVE  CallState(d)'
  <2>1. CASE d = c
    BY <1>1, <1>2, <2>1 DEF CallState, Left
  <2>2. CASE d # c
    <3>1. SameClient(d)
      BY <1>1, <1>2, <2>2, ClientClosesEnds DEF SameClient, SameConnection
    <3> QED
      BY <1>1, <3>1, CallKept DEF SameSession
  <2> QED
    BY <2>1, <2>2
<1>3. CASE NoMemory(c) \/ StartFails(c)
  <2>1. cpc' = [cpc EXCEPT ![c] = "done"] /\ UNCHANGED <<typed, sent, netVars>>
    BY <1>3 DEF NoMemory, StartFails, GiveUp
  <2>2. CASE d = c
    BY <1>1, <2>1, <2>2 DEF CallState, Left
  <2>3. CASE d # c
    BY <1>1, <2>1, <2>3, CallKept DEF SameClient, SameConnection, SameSession, netVars
  <2> QED
    BY <2>2, <2>3
<1>4. CASE StartClient(c)
  <2>1. /\ cpc[c] = "start" /\ cpc' = [cpc EXCEPT ![c] = "prompt"]
        /\ cEnd' = [cEnd EXCEPT ![c] = "up"] /\ sEnd' = [sEnd EXCEPT ![c] = "up"]
        /\ UNCHANGED <<up, down, typed, sent>>
    BY <1>4 DEF StartClient, Establish
  <2>2. CASE d = c
    <3>1. sEnd[c] = "none" /\ scli # c
      BY <2>1 DEF SocketInv, Socket, Open, Hung
    <3>2. Quiet(d)' /\ Connected(d)' /\ ~Busy(d)' /\ cpc'[d] = "prompt"
      BY <1>1, <2>1, <2>2, <3>1 DEF CallState, Left, Quiet, Connected, Busy
    <3> QED
      BY <3>2 DEF CallState, Idle
  <2>3. CASE d # c
    <3>1. SameClient(d)
      BY <1>1, <2>1, <2>3 DEF SameClient, SameConnection
    <3> QED
      BY <1>1, <3>1, CallKept DEF SameSession
  <2> QED
    BY <2>2, <2>3
<1>5. CASE EndOfInput(c) \/ SendError(c) \/ SendKilled(c) \/ RecvClosed(c) \/ Kill(c)
  BY <1>2, <1>5 DEF EndOfInput, SendError, SendKilled, RecvClosed, Kill, Cleanup
<1>6. ASSUME NEW line \in Lines, SendLine(c, line)
      PROVE  CallState(d)'
  <2> DEFINE req == [line |-> line, id |-> sent[c] + 1]
  <2>1. PICK e \in AfterSend(cEnd[c]) : cEnd' = [cEnd EXCEPT ![c] = e]
    BY <1>6 DEF SendLine, ClientSends
  <2>2. e = "up" <=> cEnd[c] = "up"
    BY <1>1, <2>1, AfterSendType
  <2>3. /\ cpc[c] = "prompt" /\ cpc' = [cpc EXCEPT ![c] = "waiting"] /\ UNCHANGED <<down, sEnd>>
        /\ typed' = [typed EXCEPT ![c] = line] /\ sent' = [sent EXCEPT ![c] = sent[c] + 1]
        /\ up' = IF cEnd[c] = "up" THEN [up EXCEPT ![c] = Append(up[c], req)] ELSE up
    BY <1>6 DEF SendLine, ClientSends
  <2>4. CASE d # c
    <3>1. SameClient(d)
      BY <1>1, <2>1, <2>3, <2>4 DEF SameClient, SameConnection
    <3> QED
      BY <1>1, <3>1, CallKept DEF SameSession
  <2>5. CASE d = c /\ Idle(d)
    <3>1. Connected(d)' /\ ~Busy(d)' /\ down'[d] = <<>> /\ cpc'[d] = "waiting"
      BY <1>1, <2>1, <2>2, <2>3, <2>5 DEF Idle, Connected, Quiet
    <3>2. up'[d] = <<req>> /\ req = Request(d)'
      BY <1>1, <2>3, <2>5 DEF Idle, Connected, Quiet, Request
    <3> QED
      BY <3>1, <3>2 DEF CallState, Asked
  <2>6. CASE d = c /\ Cut(d)
    <3>1. Cut(d)' /\ cpc'[d] = "waiting"
      BY <1>1, <2>1, <2>2, <2>3, <2>6 DEF Cut, Quiet
    <3> QED
      BY <3>1 DEF CallState
  <2> QED
    BY <1>1, <2>3, <2>4, <2>5, <2>6 DEF CallState, Left
<1>7. ASSUME NEW n \in 1..Len(down[c]), Recv(c, n)
      PROVE  CallState(d)'
  <2> DEFINE s     == down[c]
             rest  == SubSeq(s, n + 1, Len(s))
             isEof == s[n].kind = "eof"
  <2>1. typed[c] # "exit"
    BY <1>1 DEF EveryCommandSucceeds
  <2>2. /\ cpc[c] = "waiting" /\ down' = [down EXCEPT ![c] = rest]
        /\ cpc' = IF isEof THEN [cpc EXCEPT ![c] = "prompt"] ELSE cpc
        /\ UNCHANGED <<typed, sent, up, cEnd, sEnd>>
    BY <1>7, <2>1 DEF Recv
  <2>3. CASE d # c
    <3>1. SameClient(d)
      BY <1>1, <2>2, <2>3 DEF SameClient, SameConnection
    <3> QED
      BY <1>1, <3>1, CallKept DEF SameSession
  <2>4. CASE d = c
    <3>1. /\ s \in Seq(Units) /\ Len(s) \in Nat /\ DOMAIN s = 1..Len(s) /\ s # <<>>
          /\ \A i \in 1..Len(s) : s[i] \in Units
      BY <1>1, EmptySeq, LenProperties, ElementOfSeq
    <3>2. /\ rest \in Seq(Units) /\ Len(rest) = Len(s) - n /\ DOMAIN rest = 1..Len(s) - n
          /\ \A i \in 1..Len(s) - n : n + i \in DOMAIN s /\ rest[i] = s[n + i]
      BY <3>1, RestOf
    <3>3. down'[d] = rest /\ up'[d] = up[d] /\ cEnd'[d] = cEnd[d] /\ sEnd'[d] = sEnd[d]
      BY <1>1, <2>2, <2>4
    <3>4. n \in DOMAIN s /\ n \in 1..Len(s)
      BY <3>1
    <3>5. CASE Running(d)
      <4>1. ~isEof /\ cpc'[d] = "waiting"
        BY <1>1, <2>2, <2>4, <3>4, <3>5 DEF Running
      <4>2. \A i \in DOMAIN rest : rest[i].kind # "eof" /\ rest[i].id = sent[d]
        <5> HIDE DEF rest
        <5> QED
          BY <2>4, <3>2, <3>5 DEF Running
      <4>3. spc # "stop"
        BY <2>4, <3>1, <3>5 DEF Running
      <4> HIDE DEF rest
      <4>4. Running(d)'
        BY <1>1, <2>2, <2>4, <3>3, <3>5, <4>2, <4>3 DEF Running, Connected, Request
      <4> QED
        BY <4>1, <4>4 DEF CallState
    <3>6. CASE Answered(d) /\ isEof
      <4>1. n = Len(s)
        BY <2>4, <3>4, <3>6 DEF Answered
      <4>2. rest = <<>>
        BY <3>1, <3>2, <4>1, EmptySeq
      <4>3. Idle(d)' /\ cpc'[d] = "prompt"
        BY <1>1, <2>2, <2>4, <3>3, <3>6, <4>2 DEF Answered, Idle, Connected, Quiet, Busy, Sending
      <4> QED
        BY <4>3 DEF CallState
    <3>7. CASE Answered(d) /\ ~isEof
      <4>1. n # Len(s)
        BY <2>4, <3>4, <3>7 DEF Answered
      <4>2. /\ \A i \in DOMAIN rest : /\ rest[i].kind = "eof" <=> n + i = Len(s)
                                      /\ rest[i].id = sent[d]
            /\ Len(rest) # 0
        <5> HIDE DEF rest
        <5>1. \A i \in DOMAIN rest : /\ rest[i].kind = "eof" <=> n + i = Len(s)
                                     /\ rest[i].id = sent[d]
          <6>1. \A m \in DOMAIN s : /\ s[m].kind = "eof" <=> m = Len(s)
                                    /\ s[m].id = sent[d]
            BY <2>4, <3>7 DEF Answered
          <6> HIDE DEF s
          <6> QED
            BY <3>2, <6>1
        <5>2. Len(rest) # 0
          BY <3>1, <3>2, <4>1
        <5> QED
          BY <5>1, <5>2
      <4>3. rest # <<>> /\ \A i \in DOMAIN rest : n + i = Len(s) <=> i = Len(rest)
        <5> HIDE DEF rest
        <5>1. Len(<<>>) = 0
          BY EmptySeq
        <5>2. \A i \in 1..Len(s) - n : n + i = Len(s) <=> i = Len(s) - n
          BY <3>1
        <5> QED
          BY <3>2, <4>2, <5>1, <5>2
      <4> HIDE DEF rest
      <4>4. Answered(d)' /\ cpc'[d] = "waiting"
        BY <1>1, <2>2, <2>4, <3>3, <3>7, <4>2, <4>3 DEF Answered, Connected
      <4> QED
        BY <4>4 DEF CallState
    <3> QED
      BY <1>1, <2>2, <2>4, <3>1, <3>5, <3>6, <3>7 DEF CallState, Left, Asked, Cut, Quiet
  <2> QED
    BY <2>3, <2>4
<1> QED
  BY <1>3, <1>4, <1>5, <1>6, <1>7 DEF ClientStep, ClientRuns

\* A unit of an answer goes onto a connection; a marker ends it.
LEMMA AnswerGrows ==
    ASSUME NEW s \in Seq(Units), NEW unit \in Units, NEW k,
           \A i \in DOMAIN s : s[i].kind # "eof" /\ s[i].id = k, unit.id = k
    PROVE  LET t == Append(s, unit)
           IN  /\ t # <<>> /\ \A i \in DOMAIN t : t[i].id = k
               /\ unit.kind # "eof" => \A i \in DOMAIN t : t[i].kind # "eof"
               /\ unit.kind = "eof" => \A i \in DOMAIN t : t[i].kind = "eof" <=> i = Len(t)
<1> DEFINE t == Append(s, unit)
<1>1. /\ t \in Seq(Units) /\ Len(t) = Len(s) + 1 /\ Len(s) \in Nat /\ t[Len(s) + 1] = unit
      /\ \A i \in 1..Len(s) : t[i] = s[i]
      /\ DOMAIN s = 1..Len(s) /\ DOMAIN t = 1..Len(s) + 1
  BY AppendProperties, LenProperties
<1> HIDE DEF t
<1>2. t # <<>>
  BY <1>1, EmptySeq
<1>3. ASSUME NEW i \in DOMAIN t
      PROVE  /\ t[i].id = k /\ (i # Len(t) => t[i].kind # "eof")
             /\ i = Len(t) => t[i] = unit
  <2>1. CASE i = Len(s) + 1
    BY <1>1, <2>1
  <2>2. CASE i \in 1..Len(s)
    BY <1>1, <2>2
  <2> QED
    BY <1>1, <2>1, <2>2
<1> QED
  BY <1>2, <1>3 DEF t

LEMMA ServerStepCalls ==
    ASSUME EveryCommandSucceeds, NoOrphans, TypeOK, SocketInv, CallInv, ServerStep,
           UNCHANGED clientVars
    PROVE  CallInv'
<1> SUFFICES ASSUME NEW d \in Clients PROVE CallState(d)'
  BY DEF CallInv
<1>1. /\ cpc' = cpc /\ typed' = typed /\ sent' = sent /\ CallState(d) /\ NetTypeOK /\ Socket(d)
      /\ NoClient \notin Clients
      /\ typed \in [Clients -> Lines \cup {"blank"}] /\ sent \in [Clients -> 0..MaxCmds]
      /\ up \in [Clients -> Seq(Requests)] /\ down \in [Clients -> Seq(Units)]
      /\ cEnd \in [Clients -> EndStates] /\ sEnd \in [Clients -> EndStates]
  BY ServerAssumption
     DEF clientVars, TypeOK, NetTypeOK, ClientTypeOK, CallInv, SocketInv
<1>2. ASSUME d # scli, d # scli', SameConnection(d)
      PROVE  CallState(d)'
  BY <1>1, <1>2, CallKept DEF SameClient, SameSession
<1>3. ASSUME spc \in Serving, ServerCloses(scli), scli' = NoClient,
             Left(scli) \/ down[scli] = <<>>
      PROVE  CallState(d)'
  <2>1. scli \in Clients /\ CallState(scli) /\ (Left(scli) \/ Connected(scli))
    BY <1>3, Served
  <2>2. CASE d = scli
    <3>1. /\ cEnd'[d] # "up" /\ sEnd'[d] = "closed" /\ down'[d] = down[d] /\ up'[d] = <<>>
      BY <1>1, <1>3, <2>1, <2>2, ServerClosesEnds DEF ServerCloses
    <3>2. cpc[d] # "start"
      BY <2>1, <2>2 DEF CallState, Left, Connected
    <3> QED
      BY <1>1, <1>3, <2>2, <3>1, <3>2, CallCut
  <2>3. CASE d # scli
    BY <1>1, <1>2, <1>3, <2>1, <2>3, ServerClosesEnds DEF SameConnection
  <2> QED
    BY <2>2, <2>3
<1>4. ASSUME NEW pc, NEW rc, ServerEnds(pc, rc), scli \in Clients => Left(scli)
      PROVE  CallState(d)'
  <2> DEFINE mine == {scli} \cap Clients
  <2>1. ListenerCloses(mine) /\ scli' = NoClient
    BY <1>4, AloneItCloses DEF ServerEnds
  <2>2. /\ down' = down
        /\ sEnd'[d] = IF d = scli \/ Queued(d) THEN "closed" ELSE sEnd[d]
        /\ up'[d] = IF d = scli \/ Queued(d) THEN <<>> ELSE up[d]
    BY <2>1 DEF ListenerCloses, Queued
  <2>3. CASE d = scli
    BY <1>1, <1>4, <2>3 DEF CallState, Left
  <2>4. CASE d # scli /\ ~Queued(d)
    <3>1. cEnd'[d] = cEnd[d]
      BY <2>1, <2>4 DEF ListenerCloses, Queued
    <3> QED
      BY <1>1, <1>2, <2>1, <2>2, <2>4, <3>1 DEF SameConnection
  <2>5. CASE d # scli /\ Queued(d)
    <3>1. /\ Open(d) /\ cpc[d] # "start"
      BY <1>1, <2>5 DEF Socket, Open, Hung
    <3>2. Left(d) \/ down'[d] = <<>>
      BY <1>1, <2>2, <2>5, <3>1
         DEF CallState, Idle, Asked, Running, Answered, Cut, Quiet, Open, Hung
    <3>3. cEnd'[d] # "up"
      BY <2>1, <2>5 DEF ListenerCloses, Queued
    <3> QED
      BY <1>1, <2>2, <2>5, <3>1, <3>2, <3>3, CallCut
  <2> QED
    BY <2>3, <2>4, <2>5
<1>5. CASE BootServer
  <2>1. SameConnection(d) /\ ~Busy(d) /\ ~Busy(d)' /\ ~Answered(d) /\ ~Running(d)
    BY <1>1, <1>5
       DEF BootServer, ServerGoes, SameConnection, Busy, Sending, Answered, Running
  <2> QED
    BY <1>1, <2>1
       DEF CallState, SameConnection, Quiet, Connected, Request, Idle, Asked, Cut, Left
<1>6. CASE Accept
  <2>1. SameConnection(d) /\ ~Busy(d) /\ ~Busy(d)' /\ ~Answered(d) /\ ~Running(d)
    BY <1>1, <1>6 DEF Accept, SameConnection, Busy, Sending, Answered, Running
  <2> QED
    BY <1>1, <2>1
       DEF CallState, SameConnection, Quiet, Connected, Request, Idle, Asked, Cut, Left
<1>7. CASE BootFails \/ AcceptFails \/ StopServer
  <2>1. scli \notin Clients
    BY <1>1, <1>7 DEF BootFails, AcceptFails, StopServer, SocketInv, Serving, Sending
  <2> QED
    BY <1>4, <1>7, <2>1 DEF BootFails, AcceptFails, StopServer
<1>8. CASE SendKillsServer
  <2>1. spc \in Serving /\ sEnd[scli] = "broken"
    BY <1>8 DEF SendKillsServer, SendKills, Serving
  <2>2. Left(scli)
    BY <2>1, Served DEF Connected
  <2> QED
    BY <1>4, <1>8, <2>2 DEF SendKillsServer
<1>9. CASE ServeNoMemory
  <2>1. spc = "nomem" /\ ServerCloses(scli) /\ scli' = NoClient
    BY <1>9, AloneItCloses DEF ServeNoMemory, HangUp, TypeOK, ServerTypeOK, Serving
  <2>2. Left(scli) \/ Idle(scli) \/ Asked(scli)
    BY <2>1, Served DEF Serving, Running, Answered
  <2> QED
    BY <1>3, <2>1, <2>2 DEF Idle, Asked, Quiet, Serving
<1>10. CASE RecvNothing
  <2>1. spc = "recv" /\ ServerCloses(scli) /\ scli' = NoClient /\ sEnd[scli] # "up"
    BY <1>10, AloneItCloses DEF RecvNothing, HangUp, Hung, TypeOK, ServerTypeOK, Serving
  <2>2. Left(scli)
    BY <2>1, Served DEF Serving, Connected
  <2> QED
    BY <1>3, <2>1, <2>2 DEF Serving
<1>11. CASE StopRequested
  <2>1. spc = "stop" /\ ServerCloses(scli) /\ scli' = NoClient
    BY <1>11, AloneItCloses DEF StopRequested, TypeOK, ServerTypeOK, Serving
  <2>2. Left(scli) \/ Running(scli)
    BY <2>1, Served DEF Serving, Idle, Asked, Answered, Busy
  <2> QED
    BY <1>3, <2>1, <2>2 DEF Running, Serving
<1>12. ASSUME NEW n \in 0..MaxCmds, NEW split \in BOOLEAN, RecvLine(n, split)
       PROVE  CallState(d)'
  <2> DEFINE s == up[scli]
  <2>1. /\ spc = "recv" /\ ~split /\ n \in 1..Len(s) /\ cur' = FirstLine(s, n) /\ scli' = scli
        /\ up' = [up EXCEPT ![scli] = Unread(s, n, split)] /\ spc' \in Dispatch(cur')
        /\ UNCHANGED <<down, cEnd, sEnd>>
    BY <1>12 DEF RecvLine, EveryCommandSucceeds
  <2>2. scli \in Clients
    BY <2>1, Served DEF Serving
  <2>3. CASE d # scli
    BY <1>1, <1>2, <2>1, <2>2, <2>3 DEF SameConnection
  <2>4. CASE d = scli /\ Left(d)
    BY <1>1, <2>4 DEF CallState, Left
  <2>5. CASE d = scli /\ ~Left(d)
    <3>1. s # <<>>
      BY <2>1, EmptySeq
    <3>2. Asked(d) /\ cpc[d] = "waiting"
      BY <2>1, <2>5, <3>1, Served DEF Serving, Idle, Quiet, Running, Answered
    <3>3. s = <<Request(d)>> /\ n = 1 /\ Len(s) = 1
      BY <2>1, <2>5, <3>2 DEF Asked
    <3>4. cur' = Request(d) /\ Request(d)' = Request(d)
      BY <1>1, <2>1, <3>3 DEF FirstLine, Request
    <3>5. up'[d] = <<>>
      BY <1>1, <2>1, <2>2, <2>5, <3>3, SubSeqEmpty DEF Unread
    <3>6. spc' \in {"stop", "perr", "exec"}
      BY <2>1 DEF Dispatch, EveryCommandSucceeds
    <3>7. Connected(d)' /\ down'[d] = <<>>
      BY <2>1, <3>2 DEF Asked, Connected
    <3>8. DOMAIN down'[d] = {}
      BY <3>7
    <3> QED
      BY <1>1, <2>1, <2>5, <3>2, <3>4, <3>5, <3>6, <3>7, <3>8 DEF CallState, Running
  <2> QED
    BY <2>3, <2>4, <2>5
<1>13. ASSUME spc \in Serving, NEW unit \in Units, ServerSends(scli, unit), scli' = scli,
              cur' = cur, ~Left(scli) => Running(scli) /\ unit.id = cur.id,
              sEnd[scli] = "up" /\ unit.kind = "eof" => spc' = "recv",
              sEnd[scli] = "up" /\ unit.kind # "eof" => spc' \in {"exec", "perr_eof", "eof"}
       PROVE  CallState(d)'
  <2>1. scli \in Clients
    BY <1>13, Served
  <2>2. CASE d # scli
    BY <1>1, <1>2, <1>13, <2>1, <2>2 DEF SameConnection, ServerSends
  <2>3. CASE d = scli /\ Left(d)
    BY <1>1, <2>3 DEF CallState, Left
  <2>4. CASE d = scli /\ ~Left(d)
    <3>1. Running(d) /\ unit.id = sent[d] /\ sEnd[d] = "up" /\ cEnd[d] = "up"
      BY <1>13, <2>4 DEF Running, Request, Connected
    <3>2. down'[d] = Append(down[d], unit)
      BY <1>1, <1>13, <2>1, <2>4, <3>1 DEF ServerSends
    <3>3. sEnd'[d] = "up" /\ cEnd'[d] = "up" /\ up'[d] = <<>>
      BY <1>1, <1>13, <2>1, <2>4, <3>1 DEF ServerSends, AfterSend, Running
    <3>4. \A i \in DOMAIN down[d] : down[d][i].kind # "eof" /\ down[d][i].id = sent[d]
      BY <3>1 DEF Running
    <3>5. down[d] \in Seq(Units)
      BY <1>1
    <3> DEFINE t == Append(down[d], unit)
    <3>6. /\ t # <<>> /\ \A i \in DOMAIN t : t[i].id = sent[d]
          /\ unit.kind # "eof" => \A i \in DOMAIN t : t[i].kind # "eof"
          /\ unit.kind = "eof" => \A i \in DOMAIN t : t[i].kind = "eof" <=> i = Len(t)
      BY <3>1, <3>4, <3>5, AnswerGrows
    <3> HIDE DEF t
    <3>7. down'[d] = t /\ cpc[d] = "waiting" /\ Request(d)' = Request(d)
      BY <1>1, <1>13, <2>4, <3>1, <3>2, Served
         DEF t, Running, Request, Idle, Busy, Sending
    <3>8. CASE unit.kind = "eof"
      <4>1. Answered(d)'
        BY <1>1, <1>13, <2>4, <3>1, <3>3, <3>6, <3>7, <3>8 DEF Answered, Connected
      <4> QED
        BY <1>1, <3>7, <4>1 DEF CallState
    <3>9. CASE unit.kind # "eof"
      <4>1. spc' \in {"exec", "perr_eof", "eof"} /\ cur' = Request(d)'
        BY <1>13, <2>4, <3>1, <3>7, <3>9 DEF Running
      <4>2. Running(d)'
        BY <1>1, <1>13, <2>4, <3>3, <3>6, <3>7, <3>9, <4>1 DEF Running, Connected
      <4> QED
        BY <1>1, <3>7, <4>2 DEF CallState
    <3> QED
      BY <3>8, <3>9
  <2> QED
    BY <2>2, <2>3, <2>4
<1>14. ASSUME NEW kind \in OutKinds, ChildWrites(kind)
       PROVE  CallState(d)'
  <2>1. /\ spc = "exec" /\ kind = "out" /\ ServerSends(scli, [kind |-> kind, id |-> cur.id])
        /\ scli' = scli /\ cur' = cur /\ (sEnd[scli] = "up" => spc' = "exec")
    BY <1>14 DEF ChildWrites, EveryCommandSucceeds, SendKills
  <2>2. Left(scli) \/ Running(scli)
    BY <2>1, Served DEF Serving, Idle, Asked, Answered, Busy
  <2>3. [kind |-> kind, id |-> cur.id] \in Units
    BY <2>1 DEF TypeOK, ServerTypeOK, Serving, Units
  <2> QED
    BY <1>13, <2>1, <2>2, <2>3 DEF Serving
<1>15. CASE ServerSend
  <2> DEFINE unit == [kind |-> KindSent(spc), id |-> cur.id]
  <2>1. /\ spc \in Sending /\ ServerSends(scli, unit) /\ scli' = scli /\ cur' = cur
        /\ sEnd[scli] = "up" => spc' = AfterOk(spc)
    BY <1>15 DEF ServerSend, ServerGoes, SendOk
  <2>2. Left(scli) \/ Running(scli)
    BY <2>1, Served DEF Serving, Idle, Asked, Answered, Busy, Sending
  <2>3. unit \in Units
    BY <2>1 DEF TypeOK, ServerTypeOK, Serving, Units, KindSent
  <2>4. CASE Left(scli)
    <3>1. CASE d = scli
      BY <1>1, <2>4, <3>1 DEF CallState, Left
    <3>2. CASE d # scli
      BY <1>1, <1>2, <2>1, <3>2, Served DEF SameConnection, ServerSends, Serving
    <3> QED
      BY <3>1, <3>2
  <2>5. CASE Running(scli)
    <3>1. /\ spc \in {"perr", "perr_eof", "eof"}
          /\ spc = "perr" => KindSent(spc) = "msg" /\ AfterOk(spc) = "perr_eof"
          /\ spc # "perr" => KindSent(spc) = "eof" /\ AfterOk(spc) = "recv"
      BY <2>1, <2>5 DEF Running, Sending, KindSent, AfterOk
    <3>2. /\ sEnd[scli] = "up" /\ unit.kind = "eof" => spc' = "recv"
          /\ sEnd[scli] = "up" /\ unit.kind # "eof" => spc' \in {"exec", "perr_eof", "eof"}
          /\ unit.id = cur.id /\ spc \in Serving
      BY <2>1, <3>1 DEF Serving
    <3> HIDE DEF unit
    <3> QED
      BY <1>13, <2>1, <2>3, <2>5, <3>2
  <2> QED
    BY <2>2, <2>4, <2>5
<1>16. CASE ChildReads
  <2>1. /\ spc = "exec" /\ cur.line \in {"cat", "part"} /\ UNCHANGED serverVars
        /\ UNCHANGED <<down, cEnd, sEnd>>
    BY <1>16 DEF ChildReads
  <2>2. Left(scli) \/ Running(scli)
    BY <2>1, Served DEF Serving, Idle, Asked, Answered, Busy
  <2>3. scli \in Clients
    BY <2>1, Served DEF Serving
  <2>4. Left(scli)
    <3>1. typed[scli] \notin {"cat", "part"}
      BY <1>1, <2>3, NetAssumption DEF EveryCommandSucceeds
    <3>2. Running(scli) => cur.line = typed[scli]
      BY DEF Running, Request
    <3> QED
      BY <2>1, <2>2, <3>1, <3>2
  <2>5. up'[d] = up[d] \/ d = scli
    BY <1>1, <1>16, <2>3 DEF ChildReads
  <2> QED
    BY <1>1, <1>2, <2>1, <2>4, <2>5 DEF SameConnection, serverVars, CallState, Left
<1>17. ASSUME NEW status \in 0..1, ChildExits(status)
       PROVE  CallState(d)'
  <2>1. spc = "exec" /\ UNCHANGED <<scli, cur, netVars>> /\ scli \in Clients
    BY <1>17, Served DEF ChildExits, ServerGoes, Serving
  <2>2. CASE d # scli
    BY <1>2, <1>1, <2>1, <2>2 DEF SameConnection, netVars
  <2>3. CASE d = scli /\ Left(d)
    BY <1>1, <2>3 DEF CallState, Left
  <2>4. CASE d = scli /\ ~Left(d)
    <3>1. Running(d) /\ cpc[d] = "waiting"
      BY <2>1, <2>4, Served DEF Serving, Idle, Asked, Answered, Busy
    <3>2. cur.line \in {"stop-server", "blank", "run"}
      BY <1>1, <3>1, NetAssumption DEF Running, Request, EveryCommandSucceeds
    <3>3. status = 0
      BY <1>17, <3>2 DEF ChildExits, EveryCommandSucceeds
    <3>4. spc' = "eof"
      BY <1>17, <3>3 DEF ChildExits, ServerGoes
    <3>5. Running(d)'
      BY <1>1, <2>1, <2>4, <3>1, <3>4 DEF Running, Connected, Request, netVars
    <3> QED
      BY <1>1, <3>1, <3>5 DEF CallState
  <2> QED
    BY <2>2, <2>3, <2>4
<1> QED
  BY <1>5, <1>6, <1>7, <1>8, <1>9, <1>10, <1>11, <1>12, <1>14, <1>15, <1>16, <1>17
     DEF ServerStep

LEMMA CallsInvariant == ASSUME EveryCommandSucceeds PROVE Spec => []CallInv
<1>1. Init => CallInv
  BY DEF Init, NetInit, ClientInit, CallInv, CallState, Quiet
<1>2. TypeOK /\ NoOrphans /\ SocketInv /\ CallInv /\ [Next]_vars => CallInv'
  <2> SUFFICES ASSUME TypeOK, NoOrphans, SocketInv, CallInv, [Next]_vars PROVE CallInv'
    OBVIOUS
  <2>1. CASE Next
    BY <2>1, ClientStepCalls, ServerStepCalls, AloneItRuns DEF Next
  <2>2. CASE UNCHANGED vars
    <3>1. \A c \in Clients : SameClient(c) /\ SameSession(c) /\ CallState(c)
      BY <2>2 DEF vars, netVars, clientVars, serverVars, SameClient, SameConnection, SameSession,
                  CallInv
    <3> QED
      BY <3>1, CallKept DEF CallInv
  <2> QED
    BY <2>1, <2>2
<1> QED
  BY <1>1, <1>2, TypeCorrect, OrphansNever, SocketsInvariant, PTL DEF Spec

\* When every command succeeds, what a client reads answers the line it has
\* sent last, whoever is killed and whichever calls fail (rsh_cli.c:60-67).
THEOREM AnswersInStep == ASSUME EveryCommandSucceeds PROVE Spec => []AnswersMatchRequests
<1>1. SocketInv /\ CallInv => AnswersMatchRequests
  <2> SUFFICES ASSUME SocketInv, CallInv, NEW c \in Clients
               PROVE  /\ cpc[c] = "waiting" => \A i \in DOMAIN down[c] : down[c][i].id = sent[c]
                      /\ cpc[c] = "prompt" => down[c] = <<>> /\ up[c] = <<>> /\ ~Busy(c)
    BY DEF AnswersMatchRequests
  <2>1. CallState(c) /\ Socket(c) /\ (spc \in Serving => scli # NoClient)
    BY DEF CallInv, SocketInv
  <2>2. CASE cpc[c] = "waiting"
    <3>1. DOMAIN <<>> = {}
      OBVIOUS
    <3> QED
      BY <2>1, <2>2, <3>1 DEF CallState, Left, Asked, Running, Answered, Cut, Quiet
  <2>3. CASE cpc[c] = "prompt"
    <3>1. Cut(c) => scli # c
      BY <2>1 DEF Cut, Socket, Open, Hung
    <3> QED
      BY <2>1, <2>3, <3>1 DEF CallState, Left, Idle, Cut, Quiet, Busy
  <2> QED
    BY <2>2, <2>3
<1> QED
  BY <1>1, CallsInvariant, SocketsInvariant, PTL

-----------------------------------------------------------------------------
(***************************************************************************)
(* If nobody is killed, a client leaves only when its request is answered  *)
(* or cut off: the server owes it nothing, and has nothing of it to read.  *)
(***************************************************************************)
LeaveState(c) ==
    Left(c) => ~Busy(c) /\ sEnd[c] \in {"none", "fin", "closed"} /\ up[c] = <<>>

LeaveInv == \A c \in Clients : LeaveState(c)

\* A client that closes a connection on which nothing is under way.
LEMMA QuietLeave ==
    ASSUME NetTypeOK, NEW c \in Clients, ClientCloses(c, <<>>), UNCHANGED serverVars,
           up[c] = <<>>, ~Busy(c), sEnd[c] \in {"up", "closed"}
    PROVE  LeaveState(c)'
<1>1. PICK e \in AfterPeerClose(sEnd[c], <<>>) : sEnd' = [sEnd EXCEPT ![c] = e]
  BY DEF ClientCloses
<1>2. e \in {"fin", "closed"}
  BY <1>1 DEF AfterPeerClose
<1>3. sEnd'[c] \in {"fin", "closed"} /\ up'[c] = <<>>
  BY <1>1, <1>2 DEF ClientCloses, NetTypeOK
<1> QED
  BY <1>3 DEF LeaveState, Busy, serverVars

LEMMA ClientStepLeaves ==
    ASSUME EveryCommandSucceeds, NobodyIsKilled, TypeOK, SocketInv, CallInv, LeaveInv,
           NEW c \in Clients, ClientStep(c), UNCHANGED serverVars
    PROVE  LeaveInv'
<1> SUFFICES ASSUME NEW d \in Clients PROVE LeaveState(d)'
  BY DEF LeaveInv
<1>1. /\ CallState(c) /\ Socket(c) /\ LeaveState(d) /\ NetTypeOK /\ Busy(d)' = Busy(d)
      /\ (spc \in Serving => scli # NoClient)
      /\ cpc \in [Clients -> ClientPcs] /\ typed \in [Clients -> Lines \cup {"blank"}]
      /\ up \in [Clients -> Seq(Requests)] /\ sEnd \in [Clients -> EndStates]
  BY DEF serverVars, TypeOK, NetTypeOK, ClientTypeOK, CallInv, SocketInv, LeaveInv, Busy
<1>2. ASSUME cpc' = [cpc EXCEPT ![c] = "prompt"] \/ cpc' = [cpc EXCEPT ![c] = "waiting"],
             d # c => up'[d] = up[d] /\ sEnd'[d] = sEnd[d]
      PROVE  LeaveState(d)'
  BY <1>1, <1>2 DEF LeaveState, Left
<1>3. ASSUME ClientCloses(c, <<>>), NEW pc, cpc' = [cpc EXCEPT ![c] = pc],
             up[c] = <<>>, ~Busy(c), sEnd[c] \in {"up", "closed"}
      PROVE  LeaveState(d)'
  <2>1. CASE d = c
    BY <1>1, <1>3, <2>1, QuietLeave
  <2>2. CASE d # c
    <3>1. up'[d] = up[d] /\ sEnd'[d] = sEnd[d] /\ cpc'[d] = cpc[d]
      BY <1>1, <1>3, <2>2, ClientClosesEnds
    <3> QED
      BY <1>1, <3>1 DEF LeaveState, Left
  <2> QED
    BY <2>1, <2>2
<1>4. CASE NoMemory(c) \/ StartFails(c)
  <2>1. cpc[c] = "start" /\ cpc' = [cpc EXCEPT ![c] = "done"] /\ UNCHANGED netVars
    BY <1>4 DEF NoMemory, StartFails, GiveUp
  <2>2. up[c] = <<>> /\ sEnd[c] = "none" /\ ~Busy(c)
    BY <1>1, <2>1 DEF CallState, Left, Quiet, Socket, Open, Hung, Busy
  <2> QED
    BY <1>1, <2>1, <2>2 DEF LeaveState, Left, netVars
<1>5. CASE StartClient(c)
  BY <1>1, <1>2, <1>5 DEF StartClient, Establish
<1>6. CASE EndOfInput(c) \/ SendError(c) \/ SendKilled(c)
  <2>1. /\ cpc[c] = "prompt" /\ ClientCloses(c, down[c])
        /\ \E pc \in {"done", "killed"} : cpc' = [cpc EXCEPT ![c] = pc]
    BY <1>6 DEF EndOfInput, SendError, SendKilled, Cleanup
  <2>2. Idle(c) \/ Cut(c)
    BY <1>1, <2>1 DEF CallState, Left
  <2>3. up[c] = <<>> /\ down[c] = <<>> /\ ~Busy(c) /\ sEnd[c] \in {"up", "closed"}
    BY <1>1, <2>2 DEF Idle, Cut, Quiet, Connected, Busy, Socket, Open, Hung
  <2> QED
    BY <1>3, <2>1, <2>3
<1>7. CASE RecvClosed(c)
  <2>1. /\ cpc[c] = "waiting" /\ ClientCloses(c, <<>>) /\ cEnd[c] # "up"
        /\ cpc' = [cpc EXCEPT ![c] = "done"]
    BY <1>7 DEF RecvClosed, Cleanup, Hung
  <2>2. Cut(c)
    BY <1>1, <2>1 DEF CallState, Left, Asked, Running, Answered, Connected
  <2>3. up[c] = <<>> /\ ~Busy(c) /\ sEnd[c] = "closed"
    BY <1>1, <2>2 DEF Cut, Quiet, Busy, Socket, Open, Hung
  <2> QED
    BY <1>3, <2>1, <2>3
<1>8. CASE \E line \in Lines : SendLine(c, line)
  BY <1>1, <1>2, <1>8 DEF SendLine, ClientSends
<1>9. ASSUME NEW n \in 1..Len(down[c]), Recv(c, n)
      PROVE  LeaveState(d)'
  <2>1. typed[c] # "exit"
    BY <1>1 DEF EveryCommandSucceeds
  <2>2. /\ cpc[c] = "waiting" /\ UNCHANGED <<up, sEnd>>
        /\ cpc' = [cpc EXCEPT ![c] = "prompt"] \/ cpc' = cpc
    BY <1>9, <2>1 DEF Recv
  <2> QED
    BY <1>1, <1>2, <2>2 DEF LeaveState, Left
<1>10. ~Kill(c)
  BY DEF Kill, NobodyIsKilled
<1> QED
  BY <1>4, <1>5, <1>6, <1>7, <1>8, <1>9, <1>10 DEF ClientStep, ClientRuns

LEMMA ServerStepLeaves ==
    ASSUME TypeOK, NoOrphans, SocketInv, LeaveInv, ServerStep, UNCHANGED clientVars
    PROVE  LeaveInv'
<1> SUFFICES ASSUME NEW d \in Clients, Left(d) PROVE LeaveState(d)'
  BY DEF LeaveInv, LeaveState, Left, clientVars
<1>1. /\ ~Busy(d) /\ sEnd[d] \in {"none", "fin", "closed"} /\ up[d] = <<>> /\ NetTypeOK
      /\ NoClient \notin Clients /\ up \in [Clients -> Seq(Requests)]
      /\ sEnd \in [Clients -> EndStates] /\ (spc \in Serving => scli \in Clients)
  BY ServerAssumption DEF LeaveInv, LeaveState, TypeOK, NetTypeOK, ServerTypeOK
<1>2. ASSUME ~Busy(d)', sEnd'[d] \in {sEnd[d], "closed"}, up'[d] \in {up[d], <<>>}
      PROVE  LeaveState(d)'
  BY <1>1, <1>2 DEF LeaveState
<1>3. ASSUME scli \in Clients, ServerCloses(scli), scli' = NoClient
      PROVE  LeaveState(d)'
  BY <1>1, <1>2, <1>3 DEF ServerCloses, Busy
<1>4. ASSUME NEW pc, NEW rc, ServerEnds(pc, rc)
      PROVE  LeaveState(d)'
  <2>1. ListenerCloses({scli} \cap Clients) /\ scli' = NoClient
    BY <1>4, AloneItCloses DEF ServerEnds
  <2> QED
    BY <1>1, <1>2, <2>1 DEF ListenerCloses, Busy
<1>5. CASE BootServer \/ Accept
  BY <1>1, <1>2, <1>5 DEF BootServer, Accept, ServerGoes, Busy, Sending
<1>6. CASE BootFails \/ AcceptFails \/ SendKillsServer \/ StopServer
  BY <1>4, <1>6 DEF BootFails, AcceptFails, SendKillsServer, StopServer
<1>7. CASE ServeNoMemory \/ RecvNothing \/ StopRequested
  BY <1>1, <1>3, <1>7, AloneItCloses
     DEF ServeNoMemory, RecvNothing, StopRequested, HangUp, Serving, Sending
<1>8. ASSUME NEW n \in 0..MaxCmds, NEW split \in BOOLEAN, RecvLine(n, split)
      PROVE  LeaveState(d)'
  <2>1. up[scli] # <<>> /\ scli' = scli /\ scli \in Clients
    BY <1>1, <1>8, EmptySeq DEF RecvLine, Serving
  <2>2. d # scli
    BY <1>1, <2>1
  <2> QED
    BY <1>1, <1>2, <1>8, <2>1, <2>2 DEF RecvLine, Busy
<1>9. ASSUME spc \in Sending \cup {"exec"}, scli' = scli,
             \A c \in Clients \ {scli} : up'[c] = up[c] /\ sEnd'[c] = sEnd[c]
      PROVE  LeaveState(d)'
  BY <1>1, <1>2, <1>9 DEF Busy
<1>10. CASE (\E kind \in OutKinds : ChildWrites(kind)) \/ ServerSend
  BY <1>1, <1>9, <1>10 DEF ChildWrites, ServerSend, ServerSends, ServerGoes
<1>11. CASE ChildReads \/ \E status \in 0..1 : ChildExits(status)
  BY <1>1, <1>9, <1>11 DEF ChildReads, ChildExits, ServerGoes, serverVars, netVars
<1> QED
  BY <1>5, <1>6, <1>7, <1>8, <1>10, <1>11 DEF ServerStep

LEMMA LeavesInvariant ==
    ASSUME EveryCommandSucceeds, NobodyIsKilled PROVE Spec => []LeaveInv
<1>1. Init => LeaveInv
  BY DEF Init, ClientInit, LeaveInv, LeaveState, Left
<1>2. TypeOK /\ NoOrphans /\ SocketInv /\ CallInv /\ LeaveInv /\ [Next]_vars => LeaveInv'
  <2> SUFFICES ASSUME TypeOK, NoOrphans, SocketInv, CallInv, LeaveInv, [Next]_vars PROVE LeaveInv'
    OBVIOUS
  <2>1. CASE Next
    BY <2>1, ClientStepLeaves, ServerStepLeaves, AloneItRuns DEF Next
  <2>2. CASE UNCHANGED vars
    BY <2>2 DEF vars, netVars, clientVars, serverVars, LeaveInv, LeaveState, Left, Busy
  <2> QED
    BY <2>1, <2>2
<1> QED
  BY <1>1, <1>2, TypeCorrect, OrphansNever, SocketsInvariant, CallsInvariant, PTL DEF Spec

\* If, besides, nobody is killed, the command that runs is the last line its
\* client has typed, and the client waits for it (rsh_server.c:265-322).
THEOREM RunsTheLineTyped ==
    ASSUME EveryCommandSucceeds, NobodyIsKilled PROVE Spec => []RunsWhatWasTyped
<1>1. TypeOK /\ SocketInv /\ CallInv /\ LeaveInv => RunsWhatWasTyped
  <2> SUFFICES ASSUME TypeOK, SocketInv, CallInv, LeaveInv, spc = "exec"
               PROVE  cur = Request(scli) /\ cpc[scli] = "waiting"
    BY DEF RunsWhatWasTyped, Request
  <2>1. scli \in Clients /\ Busy(scli)
    BY Served DEF Serving, Busy
  <2>2. ~Left(scli)
    BY <2>1 DEF LeaveInv, LeaveState
  <2> QED
    BY <2>1, <2>2, Served DEF Serving, Idle, Asked, Answered, Running
<1> QED
  BY <1>1, TypeCorrect, SocketsInvariant, CallsInvariant, LeavesInvariant, PTL

\* And the server ends only when it is asked to or its own calls fail: it
\* never sends to a client that has gone (rsh_server.c:39-41).
THEOREM NeverKilled ==
    ASSUME EveryCommandSucceeds, NobodyIsKilled PROVE Spec => []ServerSurvives
<1>1. Init => ServerSurvives
  BY DEF Init, ServerInit, ServerSurvives
<1>2. TypeOK /\ SocketInv /\ CallInv /\ LeaveInv /\ ServerSurvives /\ [Next]_vars
        => ServerSurvives'
  <2> SUFFICES ASSUME TypeOK, SocketInv, CallInv, LeaveInv, ServerSurvives, [Next]_vars,
                      spc' = "killed"
               PROVE  FALSE
    BY DEF ServerSurvives
  <2>1. ServerStep
    BY DEF Next, vars, serverVars, ServerSurvives, OrphanStep, OrphanReads, OrphansEnd
  <2>2. ~SendKillsServer
    <3> SUFFICES ASSUME SendKillsServer PROVE FALSE
      OBVIOUS
    <3>1. spc \in Sending /\ sEnd[scli] = "broken"
      BY DEF SendKillsServer, SendKills
    <3>2. scli \in Clients /\ (Left(scli) \/ Connected(scli))
      BY <3>1, Served DEF Serving
    <3>3. Busy(scli)
      BY <3>1 DEF Busy
    <3> QED
      BY <3>1, <3>2, <3>3 DEF LeaveInv, LeaveState, Connected
  <2> QED
    BY <2>1, <2>2
       DEF ServerStep, BootServer, BootFails, Accept, AcceptFails, ServeNoMemory, RecvLine,
           Dispatch, RecvNothing, HangUp, ChildWrites, ChildReads, ChildExits, ServerSend,
           StopRequested, StopServer, ServerEnds, ServerGoes, AfterOk, AfterError, serverVars,
           ServerSurvives
<1> QED
  BY <1>1, <1>2, TypeCorrect, SocketsInvariant, CallsInvariant, LeavesInvariant, PTL DEF Spec

-----------------------------------------------------------------------------
(***************************************************************************)
(* If no call of the server fails but the parser, a client is cut off only *)
(* because the server stopped: the client that asked for it, waiting, sees *)
(* the connection closed, and those in the queue see it reset.             *)
(***************************************************************************)
CutState(c) ==
    cpc[c] \in {"prompt", "waiting"} /\ cEnd[c] # "up" =>
        \/ cEnd[c] = "rst" /\ spc = "down"
        \/ cpc[c] = "waiting" /\ cEnd[c] = "fin" /\ spc \in {"unlisten", "down"}

CutInv == spc \notin {"nomem", "killed"} /\ \A c \in Clients : CutState(c)

AllInv == TypeOK /\ NoOrphans /\ SocketInv /\ CallInv /\ LeaveInv /\ CutInv

\* A step of a client concerns no other client.
LEMMA ClientStepAlone ==
    ASSUME TypeOK, NEW c \in Clients, ClientStep(c), NEW d \in Clients \ {c}
    PROVE  SameConnection(d)
<1>1. /\ NetTypeOK /\ cpc \in [Clients -> ClientPcs]
      /\ up \in [Clients -> Seq(Requests)] /\ down \in [Clients -> Seq(Units)]
      /\ cEnd \in [Clients -> EndStates] /\ sEnd \in [Clients -> EndStates]
  BY DEF TypeOK, NetTypeOK, ClientTypeOK
<1>2. ASSUME NEW unread, ClientCloses(c, unread), NEW pc, cpc' = [cpc EXCEPT ![c] = pc]
      PROVE  SameConnection(d)
  BY <1>1, <1>2, ClientClosesEnds DEF SameConnection
<1>3. CASE NoMemory(c) \/ StartFails(c)
  BY <1>1, <1>3 DEF NoMemory, StartFails, GiveUp, netVars, SameConnection
<1>4. CASE StartClient(c)
  BY <1>1, <1>4 DEF StartClient, Establish, SameConnection
<1>5. CASE EndOfInput(c) \/ SendError(c) \/ SendKilled(c) \/ RecvClosed(c) \/ Kill(c)
  BY <1>2, <1>5 DEF EndOfInput, SendError, SendKilled, RecvClosed, Kill, Cleanup
<1>6. CASE \E line \in Lines : SendLine(c, line)
  BY <1>1, <1>6 DEF SendLine, ClientSends, SameConnection
<1>7. ASSUME NEW n \in 1..Len(down[c]), Recv(c, n)
      PROVE  SameConnection(d)
  <2> DEFINE rest == SubSeq(down[c], n + 1, Len(down[c]))
  <2>1. CASE Cleanup(c, rest, OK)
    BY <1>2, <2>1 DEF Cleanup
  <2>2. CASE /\ down' = [down EXCEPT ![c] = rest]
             /\ cpc' = [cpc EXCEPT ![c] = "prompt"] \/ cpc' = cpc
             /\ UNCHANGED <<up, cEnd, sEnd>>
    BY <1>1, <2>2 DEF SameConnection
  <2> QED
    BY <1>7, <2>1, <2>2 DEF Recv
<1> QED
  BY <1>3, <1>4, <1>5, <1>6, <1>7 DEF ClientStep, ClientRuns

LEMMA ClientStepCuts ==
    ASSUME EveryCommandSucceeds, AllInv, NEW c \in Clients, ClientStep(c), UNCHANGED serverVars
    PROVE  CutInv'
<1> USE DEF AllInv
<1> SUFFICES ASSUME NEW d \in Clients PROVE CutState(d)'
  BY DEF CutInv, serverVars
<1>1. /\ CallState(c) /\ CutState(c) /\ CutState(d) /\ spc' = spc /\ TypeOK
      /\ cpc \in [Clients -> ClientPcs] /\ cEnd \in [Clients -> EndStates]
      /\ typed \in [Clients -> Lines \cup {"blank"}]
  BY DEF CallInv, CutInv, serverVars, TypeOK, NetTypeOK, ClientTypeOK
<1>2. CASE d # c
  <2>1. SameConnection(d)
    BY <1>1, <1>2, ClientStepAlone
  <2> QED
    BY <1>1, <2>1 DEF SameConnection, CutState
<1>3. ASSUME NEW pc \in {"done", "killed"}, cpc' = [cpc EXCEPT ![c] = pc], d = c
      PROVE  CutState(d)'
  BY <1>1, <1>3 DEF CutState
<1>4. CASE d = c /\ (NoMemory(c) \/ StartFails(c))
  BY <1>3, <1>4 DEF NoMemory, StartFails, GiveUp
<1>5. CASE d = c /\ StartClient(c)
  BY <1>1, <1>5 DEF StartClient, Establish, CutState
<1>6. CASE d = c /\ (EndOfInput(c) \/ SendError(c) \/ SendKilled(c) \/ RecvClosed(c) \/ Kill(c))
  BY <1>3, <1>6 DEF EndOfInput, SendError, SendKilled, RecvClosed, Kill, Cleanup
<1>7. CASE d = c /\ \E line \in Lines : SendLine(c, line)
  <2>1. /\ cpc[c] = "prompt" /\ SendOk(cEnd[c])
        /\ \E e \in AfterSend(cEnd[c]) : cEnd' = [cEnd EXCEPT ![c] = e]
    BY <1>7 DEF SendLine, ClientSends
  <2>2. cEnd[c] = "up"
    BY <1>1, <2>1 DEF CutState, SendOk
  <2> QED
    BY <1>1, <1>7, <2>1, <2>2 DEF AfterSend, CutState
<1>8. ASSUME d = c, NEW n \in 1..Len(down[c]), Recv(c, n)
      PROVE  CutState(d)'
  <2>1. /\ cpc[c] = "waiting" /\ cEnd' = cEnd
        /\ cpc' = [cpc EXCEPT ![c] = "prompt"] \/ cpc' = cpc
    BY <1>1, <1>8 DEF Recv, EveryCommandSucceeds
  <2>2. down[c] # <<>>
    BY <1>8, EmptySeq
  <2>3. cEnd[c] = "up"
    BY <1>1, <2>1, <2>2 DEF CallState, Left, Asked, Running, Answered, Cut, Quiet, Connected
  <2> QED
    BY <1>1, <1>8, <2>1, <2>3 DEF CutState
<1> QED
  BY <1>2, <1>4, <1>5, <1>6, <1>7, <1>8 DEF ClientStep, ClientRuns

\* Nothing but a request to stop makes the server close on a client that waits.
LEMMA ClosedOnlyByStop ==
    ASSUME AllInv, ServerStep, NEW d \in Clients, ~Left(d), OnlyParsingFails
    PROVE  \/ cEnd'[d] = cEnd[d]
           \/ StopRequested /\ d = scli /\ Running(d) /\ cEnd'[d] = "fin"
           \/ StopServer /\ Queued(d) /\ cEnd[d] = "up" /\ cEnd'[d] = "rst"
<1> USE DEF AllInv
<1>1. NetTypeOK /\ cEnd \in [Clients -> EndStates] /\ NoClient \notin Clients
  BY ServerAssumption DEF TypeOK, NetTypeOK
<1>2. ~BootFails /\ ~AcceptFails /\ ~ServeNoMemory
  BY DEF OnlyParsingFails, BootFails, AcceptFails, ServeNoMemory, CutInv
<1>3. ~SendKillsServer
  <2> SUFFICES ASSUME SendKillsServer PROVE FALSE
    OBVIOUS
  <2>1. spc \in Sending /\ sEnd[scli] = "broken"
    BY DEF SendKillsServer, SendKills
  <2>2. scli \in Clients /\ (Left(scli) \/ Connected(scli)) /\ Busy(scli)
    BY <2>1, Served DEF Serving, Busy
  <2> QED
    BY <2>1, <2>2 DEF LeaveInv, LeaveState, Connected
<1>4. CASE RecvNothing
  <2>1. spc = "recv" /\ sEnd[scli] # "up" /\ ServerCloses(scli)
    BY <1>4, AloneItCloses DEF RecvNothing, Hung, HangUp, TypeOK, ServerTypeOK, Serving
  <2>2. scli \in Clients /\ Left(scli)
    BY <2>1, Served DEF Serving, Connected
  <2> QED
    BY <1>1, <2>1, <2>2, ServerClosesEnds
<1>5. CASE StopRequested
  <2>1. spc = "stop" /\ ServerCloses(scli)
    BY <1>5, AloneItCloses DEF StopRequested, TypeOK, ServerTypeOK, Serving
  <2>2. scli \in Clients /\ (Left(scli) \/ Running(scli))
    BY <2>1, Served DEF Serving, Idle, Asked, Answered, Busy
  <2>3. CASE d # scli
    BY <1>1, <2>1, <2>2, <2>3, ServerClosesEnds
  <2>4. CASE d = scli
    BY <1>1, <1>5, <2>1, <2>2, <2>4 DEF ServerCloses, Running, Connected, AfterPeerClose
  <2> QED
    BY <2>3, <2>4
<1>6. CASE StopServer
  <2>1. scli \notin Clients
    BY <1>1, <1>6 DEF StopServer, SocketInv, Serving, Sending
  <2>2. cEnd'[d] \in IF Queued(d) /\ cEnd[d] = "up" THEN {"rst"} ELSE {cEnd[d]}
    <3>1. ListenerCloses({scli} \cap Clients)
      BY <1>6, AloneItCloses DEF StopServer
    <3> QED
      BY <2>1, <3>1 DEF ListenerCloses, Queued
  <2> QED
    BY <1>6, <2>2
<1>7. CASE \/ BootServer \/ Accept \/ ChildReads \/ ServerSend
           \/ \E n \in 0..MaxCmds, split \in BOOLEAN : RecvLine(n, split)
           \/ \E kind \in OutKinds : ChildWrites(kind)
           \/ \E status \in 0..1 : ChildExits(status)
  BY <1>7 DEF BootServer, Accept, ChildReads, ServerSend, ServerSends, RecvLine, ChildWrites,
              ChildExits, netVars
<1> QED
  BY <1>2, <1>3, <1>4, <1>5, <1>6, <1>7 DEF ServerStep

\* The server has stopped, or is about to, or goes on.
LEMMA StopsOnce ==
    ASSUME CutInv, ServerStep, OnlyParsingFails, ~SendKillsServer
    PROVE  /\ spc # "down" /\ spc' \notin {"nomem", "killed"}
           /\ spc = "unlisten" <=> StopServer
           /\ spc' = "unlisten" <=> StopRequested
           /\ spc' = "down" <=> StopServer
BY DEF CutInv, OnlyParsingFails, ServerStep, BootServer, BootFails, Accept, AcceptFails,
       ServeNoMemory, RecvLine, Dispatch, RecvNothing, HangUp, ChildWrites, ChildReads,
       ChildExits, ServerSend, StopRequested, StopServer, ServerEnds, ServerGoes, AfterOk,
       AfterError, serverVars, Sending

LEMMA ServerStepCuts ==
    ASSUME AllInv, ServerStep, OnlyParsingFails, UNCHANGED clientVars, ~SendKillsServer
    PROVE  CutInv'
<1>1. /\ spc # "down" /\ spc' \notin {"nomem", "killed"}
      /\ spc = "unlisten" <=> StopServer
      /\ spc' = "unlisten" <=> StopRequested
      /\ spc' = "down" <=> StopServer
  BY StopsOnce DEF AllInv
<1>2. ASSUME NEW d \in Clients PROVE CutState(d)'
  <2>1. CutState(d) /\ cpc' = cpc /\ (Running(d) /\ ~Left(d) => cpc[d] = "waiting")
    BY DEF AllInv, CutInv, CallInv, CallState, clientVars, Running, Idle, Cut, Connected, Quiet,
           Busy, Sending
  <2>2. CASE Left(d)
    BY <2>1, <2>2 DEF CutState, Left
  <2>3. CASE ~Left(d)
    BY <1>1, <2>1, <2>3, ClosedOnlyByStop DEF CutState
  <2> QED
    BY <2>2, <2>3
<1> QED
  BY <1>1, <1>2 DEF CutInv

-----------------------------------------------------------------------------
(***************************************************************************)
(* The refinement: which phase a client's state stands for, and which step *)
(* of RemoteExec a step of the shell takes.                                *)
(***************************************************************************)
PhaseOf(c) ==
    /\ Left(c) => Phase(c) = "gone"
    /\ cpc[c] \in {"start", "prompt"} => Phase(c) = "idle"
    /\ cpc[c] = "waiting" /\ Asked(c)    => Phase(c) = "asked"
    /\ cpc[c] = "waiting" /\ Running(c)  => Phase(c) = "running"
    /\ cpc[c] = "waiting" /\ Answered(c) => Phase(c) = "answered"
    /\ cpc[c] = "waiting" /\ Cut(c) => IF cEnd[c] = "rst" THEN Phase(c) = "asked" /\ spc = "down"
                                                          ELSE Phase(c) = "gone"

LEMMA PhasesFit ==
    ASSUME TypeOK, CutInv, NEW c \in Clients
    PROVE  PhaseOf(c)
<1>1. down[c] \in Seq(Units) /\ CutState(c)
  BY DEF TypeOK, NetTypeOK, CutInv
<1>2. Len(down[c]) \in Nat /\ DOMAIN down[c] = 1..Len(down[c]) /\ (down[c] # <<>> => Len(down[c]) # 0)
  BY <1>1, LenProperties, EmptySeq
<1>3. down[c] # <<>> => Len(down[c]) \in DOMAIN down[c]
  BY <1>2
<1>4. Running(c) => ~EofLast(down[c])
  BY <1>3 DEF Running, EofLast
<1>5. Answered(c) => EofLast(down[c])
  BY <1>3 DEF Answered, EofLast
<1>6. Asked(c) => up[c] # <<>> /\ cEnd[c] = "up"
  BY DEF Asked, Connected
<1>7. cpc[c] = "waiting" /\ Cut(c) => \/ cEnd[c] = "fin"
                                      \/ cEnd[c] = "rst" /\ spc = "down"
  BY <1>1 DEF Cut, CutState
<1>8. CASE cpc[c] # "waiting"
  BY <1>8 DEF PhaseOf, Phase, Left
<1>9. CASE cpc[c] = "waiting"
  <2>1. /\ Asked(c) => Phase(c) = "asked"
        /\ Running(c) => Phase(c) = "running"
        /\ Answered(c) => Phase(c) = "answered"
    BY <1>4, <1>5, <1>6, <1>9 DEF Phase, Running, Answered, Connected
  <2>2. Cut(c) => IF cEnd[c] = "rst" THEN Phase(c) = "asked" /\ spc = "down"
                                     ELSE Phase(c) = "gone"
    BY <1>7, <1>9 DEF Phase
  <2> QED
    BY <1>9, <2>1, <2>2 DEF PhaseOf, Left
<1> QED
  BY <1>8, <1>9

LEMMA PhasesFitNext ==
    (TypeOK /\ CutInv => \A c \in Clients : PhaseOf(c))'
<1>1. TypeOK /\ CutInv => \A c \in Clients : PhaseOf(c)
  BY PhasesFit
<1> QED
  BY <1>1, PTL

LEMMA PhaseKept ==
    ASSUME NEW c \in Clients, SameConnection(c)
    PROVE  Phase(c)' = Phase(c)
BY DEF SameConnection, Phase, EofLast

\* One client's phase changes.
LEMMA PhaseMoves ==
    ASSUME NEW c \in Clients, NEW from, NEW to, Phase(c) = from, Phase(c)' = to,
           \A d \in Clients \ {c} : Phase(d)' = Phase(d)
    PROVE  Exec!Moves(c, from, to)
<1> DEFINE old == [d \in Clients |-> Phase(d)]
           new == [d \in Clients |-> Phase(d)']
<1>1. new = [old EXCEPT ![c] = to]
  OBVIOUS
<1>2. [d \in Clients |-> Phase(d)]' = new
  OBVIOUS
<1> QED
  BY <1>1, <1>2 DEF Exec!Moves

LEMMA PhasesStand ==
    ASSUME \A d \in Clients : Phase(d)' = Phase(d),
           spc' \in {"unlisten", "down"} <=> spc \in {"unlisten", "down"}
    PROVE  [Exec!ExecNext]_Exec!execVars
<1>1. [d \in Clients |-> Phase(d)]' = [d \in Clients |-> Phase(d)]
  OBVIOUS
<1> QED
  BY <1>1 DEF Exec!execVars

LEMMA ClientStepRefines ==
    ASSUME EveryCommandSucceeds, NobodyIsKilled, AllInv, AllInv', NEW c \in Clients,
           ClientStep(c), UNCHANGED serverVars
    PROVE  [Exec!ExecNext]_Exec!execVars
<1> USE DEF AllInv
<1>1. /\ CallState(c) /\ CallState(c)' /\ CutState(c) /\ PhaseOf(c) /\ PhaseOf(c)' /\ spc' = spc
      /\ \A d \in Clients \ {c} : Phase(d)' = Phase(d)
      /\ cpc \in [Clients -> ClientPcs] /\ typed \in [Clients -> Lines \cup {"blank"}]
  BY PhasesFit, PhasesFitNext, ClientStepAlone, PhaseKept
     DEF CallInv, CutInv, serverVars, TypeOK, ClientTypeOK
<1>2. ASSUME Phase(c)' = Phase(c)
      PROVE  [Exec!ExecNext]_Exec!execVars
  <2>1. \A d \in Clients : Phase(d)' = Phase(d)
    BY <1>1, <1>2
  <2> QED
    BY <1>1, <2>1, PhasesStand
<1>3. ASSUME cpc[c] \in {"start", "prompt"}, NEW pc \in {"done", "killed"},
             cpc' = [cpc EXCEPT ![c] = pc]
      PROVE  [Exec!ExecNext]_Exec!execVars
  <2>1. Phase(c) = "idle" /\ Phase(c)' = "gone"
    BY <1>1, <1>3 DEF PhaseOf, Left
  <2>2. Exec!Moves(c, "idle", "gone")
    BY <1>1, <2>1, PhaseMoves
  <2> QED
    BY <1>1, <2>2 DEF Exec!ExecNext, Exec!Leave
<1>4. CASE NoMemory(c) \/ StartFails(c)
  BY <1>3, <1>4 DEF NoMemory, StartFails, GiveUp
<1>5. CASE StartClient(c)
  <2>1. cpc[c] = "start" /\ cpc'[c] = "prompt"
    BY <1>1, <1>5 DEF StartClient
  <2> QED
    BY <1>1, <1>2, <2>1 DEF PhaseOf
<1>6. CASE EndOfInput(c) \/ SendError(c) \/ SendKilled(c)
  BY <1>3, <1>6 DEF EndOfInput, SendError, SendKilled, Cleanup
<1>7. CASE \E line \in Lines : SendLine(c, line)
  <2>1. cpc[c] = "prompt" /\ cpc'[c] = "waiting" /\ SendOk(cEnd[c])
    BY <1>1, <1>7 DEF SendLine
  <2>2. Idle(c) /\ cEnd[c] = "up"
    BY <1>1, <2>1 DEF CallState, Left, CutState, Cut, SendOk
  <2>3. ~Busy(c)' /\ cEnd'[c] = "up" /\ scli' = scli
    BY <1>7, <2>2 DEF SendLine, ClientSends, AfterSend, Idle, Busy, serverVars, TypeOK, NetTypeOK
  <2>4. down'[c] = <<>>
    BY <1>7, <2>2 DEF SendLine, ClientSends, Idle, Quiet
  <2>5. Asked(c)'
    BY <1>1, <2>1, <2>3, <2>4 DEF CallState, Left, Running, Answered, Cut, Busy, Sending
  <2>6. Phase(c) = "idle" /\ Phase(c)' = "asked"
    BY <1>1, <2>1, <2>5 DEF PhaseOf
  <2>7. Exec!Moves(c, "idle", "asked")
    BY <1>1, <2>6, PhaseMoves
  <2> QED
    BY <1>1, <2>7 DEF Exec!ExecNext, Exec!Ask
<1>8. ASSUME NEW n \in 1..Len(down[c]), Recv(c, n)
      PROVE  [Exec!ExecNext]_Exec!execVars
  <2> DEFINE s     == down[c]
             rest  == SubSeq(s, n + 1, Len(s))
             isEof == s[n].kind = "eof"
  <2>1. typed[c] # "exit"
    BY <1>1 DEF EveryCommandSucceeds
  <2>2. /\ cpc[c] = "waiting" /\ down' = [down EXCEPT ![c] = rest] /\ UNCHANGED <<up, cEnd>>
        /\ cpc' = IF isEof THEN [cpc EXCEPT ![c] = "prompt"] ELSE cpc
    BY <1>8, <2>1 DEF Recv
  <2>3. s \in Seq(Units) /\ s # <<>> /\ n \in DOMAIN s
    BY EmptySeq, LenProperties DEF TypeOK, NetTypeOK
  <2>4. CASE isEof
    <3>1. Answered(c)
      BY <1>1, <2>2, <2>3, <2>4 DEF CallState, Left, Asked, Running, Cut, Quiet
    <3>2. Phase(c) = "answered" /\ Phase(c)' = "idle"
      BY <1>1, <2>2, <2>4, <3>1 DEF PhaseOf
    <3>3. Exec!Moves(c, "answered", "idle")
      BY <1>1, <3>2, PhaseMoves
    <3> QED
      BY <1>1, <3>3 DEF Exec!ExecNext, Exec!Read
  <2>5. CASE ~isEof
    <3>1. EofLast(rest) <=> EofLast(s)
      BY <2>3, <2>5, RestEnds DEF EofLast
    <3>2. cpc' = cpc /\ down'[c] = rest
      BY <2>2, <2>5 DEF TypeOK, NetTypeOK
    <3> HIDE DEF rest
    <3>3. Phase(c)' = Phase(c)
      BY <2>2, <3>1, <3>2 DEF Phase, EofLast
    <3> QED
      BY <1>2, <3>3
  <2> QED
    BY <2>4, <2>5
<1>9. CASE RecvClosed(c)
  <2>1. cpc[c] = "waiting" /\ cpc'[c] = "done" /\ cEnd[c] # "up"
    BY <1>1, <1>9 DEF RecvClosed, Cleanup, Hung
  <2>2. Cut(c) /\ Phase(c)' = "gone"
    BY <1>1, <2>1 DEF CallState, Left, Asked, Running, Answered, Connected, PhaseOf
  <2>3. CASE cEnd[c] # "rst"
    BY <1>1, <1>2, <2>1, <2>2, <2>3 DEF PhaseOf
  <2>4. CASE cEnd[c] = "rst"
    <3>1. Phase(c) = "asked" /\ spc = "down"
      BY <1>1, <2>1, <2>2, <2>4 DEF PhaseOf
    <3>2. Exec!Moves(c, "asked", "gone")
      BY <1>1, <2>2, <3>1, PhaseMoves
    <3> QED
      BY <1>1, <3>1, <3>2 DEF Exec!ExecNext, Exec!Leave
  <2> QED
    BY <2>3, <2>4
<1>10. ~Kill(c)
  BY DEF Kill, NobodyIsKilled
<1> QED
  BY <1>4, <1>5, <1>6, <1>7, <1>8, <1>9, <1>10 DEF ClientStep, ClientRuns

LEMMA ServerStepRefines ==
    ASSUME EveryCommandSucceeds, OnlyParsingFails, AllInv, AllInv', ServerStep,
           ~SendKillsServer, UNCHANGED clientVars
    PROVE  [Exec!ExecNext]_Exec!execVars
<1> USE DEF AllInv
<1>1. /\ cpc' = cpc /\ typed' = typed /\ sent' = sent /\ NetTypeOK /\ NoClient \notin Clients
      /\ up \in [Clients -> Seq(Requests)] /\ cEnd \in [Clients -> EndStates]
  BY ServerAssumption DEF clientVars, TypeOK, NetTypeOK
<1>2. \A d \in Clients : CallState(d) /\ CallState(d)' /\ PhaseOf(d) /\ PhaseOf(d)' /\ Socket(d)
  BY PhasesFit, PhasesFitNext DEF CallInv, SocketInv
<1>3. /\ spc # "down"
      /\ spc = "unlisten" <=> StopServer
      /\ spc' = "unlisten" <=> StopRequested
      /\ spc' = "down" <=> StopServer
  BY StopsOnce
<1>4. spc \in Serving =>
        /\ scli \in Clients
        /\ \/ Left(scli)
           \/ cpc[scli] = "prompt" /\ Idle(scli)
           \/ cpc[scli] = "waiting" /\ (Asked(scli) \/ Running(scli) \/ Answered(scli))
  BY Served
<1>5. ASSUME \A d \in Clients \ {scli} : SameConnection(d), ~StopRequested, ~StopServer,
             \A d \in Clients : d = scli => Phase(d)' = Phase(d)
      PROVE  [Exec!ExecNext]_Exec!execVars
  <2>1. \A d \in Clients : Phase(d)' = Phase(d)
    BY <1>5, PhaseKept
  <2> QED
    BY <1>3, <1>5, <2>1, PhasesStand
<1>6. CASE BootServer \/ Accept
  <2>1. \A d \in Clients : SameConnection(d)
    BY <1>1, <1>6 DEF BootServer, Accept, SameConnection
  <2>2. ~StopRequested /\ ~StopServer
    BY <1>6 DEF BootServer, Accept, StopRequested, StopServer
  <2> QED
    BY <1>5, <2>1, <2>2, PhaseKept
<1>7. ~BootFails /\ ~AcceptFails /\ ~ServeNoMemory
  BY DEF OnlyParsingFails, BootFails, AcceptFails, ServeNoMemory, CutInv
<1>8. ASSUME NEW n \in 0..MaxCmds, NEW split \in BOOLEAN, RecvLine(n, split)
      PROVE  [Exec!ExecNext]_Exec!execVars
  <2>1. /\ spc = "recv" /\ up[scli] # <<>> /\ scli' = scli /\ UNCHANGED <<down, cEnd, sEnd>>
        /\ up' = [up EXCEPT ![scli] = Unread(@, n, split)]
        /\ spc' \in {"stop", "perr", "exec", "fail"}
    <3>1. /\ spc = "recv" /\ scli' = scli /\ UNCHANGED <<down, cEnd, sEnd>>
          /\ up' = [up EXCEPT ![scli] = Unread(@, n, split)] /\ spc' \in Dispatch(cur')
          /\ n \in 0..Len(up[scli]) /\ (split => n < Len(up[scli])) /\ (~split => n > 0)
      BY <1>8 DEF RecvLine
    <3>2. up[scli] # <<>>
      BY <3>1, EmptySeq
    <3>3. spc' \in {"stop", "perr", "exec", "fail"}
      BY <3>1 DEF Dispatch
    <3> QED
      BY <3>1, <3>2, <3>3
  <2>2. cpc[scli] = "waiting" /\ Asked(scli) /\ scli \in Clients
    BY <1>4, <2>1 DEF Serving, LeaveInv, LeaveState, Idle, Quiet, Running, Answered
  <2> SUFFICES ASSUME NEW c \in Clients, c = scli PROVE [Exec!ExecNext]_Exec!execVars
    BY <2>2
  <2>3. Running(c)' /\ cpc'[c] = "waiting"
    BY <1>1, <1>2, <2>1, <2>2
       DEF CallState, Left, Asked, Connected, Answered, Cut, Busy, Sending
  <2>4. Phase(c) = "asked" /\ Phase(c)' = "running"
    BY <1>2, <2>2, <2>3 DEF PhaseOf
  <2>5. \A d \in Clients \ {c} : Phase(d)' = Phase(d)
    <3>1. \A d \in Clients \ {c} : SameConnection(d)
      BY <1>1, <2>1, <2>2 DEF SameConnection
    <3> QED
      BY <3>1, PhaseKept
  <2>6. \A d \in Clients : Phase(d) # "running"
    <3> SUFFICES ASSUME NEW d \in Clients, Phase(d) = "running" PROVE FALSE
      OBVIOUS
    <3>1. ~Running(d)
      BY <2>1 DEF Running
    <3> QED
      BY <1>2, <3>1 DEF CallState, PhaseOf, Left
  <2>7. Exec!Moves(c, "asked", "running")
    BY <2>4, <2>5, PhaseMoves
  <2>8. \A d \in Clients : [e \in Clients |-> Phase(e)][d] # "running"
    BY <2>6
  <2> QED
    BY <2>1, <2>7, <2>8 DEF Exec!ExecNext, Exec!Run
<1>9. CASE RecvNothing
  <2>1. /\ spc = "recv" /\ sEnd[scli] # "up" /\ ServerCloses(scli)
    BY <1>9, AloneItCloses DEF RecvNothing, Hung, HangUp, TypeOK, ServerTypeOK, Serving
  <2>2. scli \in Clients /\ Left(scli)
    BY <1>4, <2>1 DEF Serving, Idle, Asked, Running, Answered, Connected
  <2>3. \A d \in Clients \ {scli} : SameConnection(d)
    BY <1>1, <2>1, <2>2, ServerClosesEnds DEF SameConnection
  <2>4. \A d \in Clients : d = scli => Phase(d)' = Phase(d)
    BY <1>1, <1>2, <2>2 DEF PhaseOf, Left
  <2> QED
    BY <1>5, <1>9, <2>2, <2>3, <2>4 DEF RecvNothing, StopRequested, StopServer
<1>10. ASSUME spc \in Sending \cup {"exec"}, scli' = scli, cEnd' = cEnd, ~ChildReads,
              \A d \in Clients \ {scli} : SameConnection(d), up' = up,
              ~StopRequested, ~StopServer
       PROVE  [Exec!ExecNext]_Exec!execVars
  <2>1. scli \in Clients /\ Busy(scli)
    BY <1>4, <1>10 DEF Serving, Busy
  <2>2. Running(scli) /\ cpc[scli] = "waiting"
    BY <1>4, <1>10, <2>1 DEF Serving, LeaveInv, LeaveState, Idle, Asked, Answered, Sending
  <2> SUFFICES ASSUME NEW c \in Clients, c = scli PROVE [Exec!ExecNext]_Exec!execVars
    BY <2>1
  <2>3. Phase(c) = "running" /\ cpc'[c] = "waiting" /\ cEnd'[c] = "up" /\ up'[c] = <<>>
    BY <1>1, <1>2, <1>10, <2>2 DEF PhaseOf, Running, Connected
  <2>4. Running(c)' \/ Answered(c)'
    BY <1>2, <2>3 DEF CallState, Left, Asked, Cut
  <2>5. CASE Running(c)'
    BY <1>2, <1>5, <1>10, <2>3, <2>5 DEF PhaseOf
  <2>6. CASE Answered(c)'
    <3>1. Phase(c)' = "answered"
      BY <1>2, <2>3, <2>6 DEF PhaseOf
    <3>2. Exec!Moves(c, "running", "answered")
      BY <1>10, <2>3, <3>1, PhaseMoves, PhaseKept
    <3>3. spc \notin {"unlisten", "down"} /\ spc' \notin {"unlisten", "down"}
      BY <1>3, <1>10
    <3> QED
      BY <3>2, <3>3 DEF Exec!ExecNext, Exec!Answer
  <2> QED
    BY <2>4, <2>5, <2>6
<1>11. CASE (\E kind \in OutKinds : ChildWrites(kind)) \/ ServerSend
  <2>1. /\ spc \in Sending \cup {"exec"} /\ scli' = scli /\ UNCHANGED <<up, cEnd>>
        /\ \E unit : ServerSends(scli, unit)
    BY <1>11 DEF ChildWrites, ServerSend, ServerSends, ServerGoes
  <2>2. scli \in Clients /\ \A d \in Clients \ {scli} : SameConnection(d)
    BY <1>1, <1>4, <2>1 DEF Serving, ServerSends, SameConnection
  <2>3. ~StopRequested /\ ~StopServer
    BY <2>1 DEF Sending, StopRequested, StopServer
  <2>4. ~ChildReads
    BY <1>4, <2>1, <2>2 DEF ChildReads, Serving, LeaveInv, LeaveState, Busy, Idle, Asked,
                            Running, Answered, Sending
  <2> QED
    BY <1>10, <2>1, <2>2, <2>3, <2>4
<1>12. CASE \E status \in 0..1 : ChildExits(status)
  <2>1. spc = "exec" /\ scli' = scli /\ UNCHANGED netVars
    BY <1>12 DEF ChildExits, ServerGoes
  <2>2. \A d \in Clients : SameConnection(d)
    BY <1>1, <2>1 DEF SameConnection, netVars
  <2>3. ~StopRequested /\ ~StopServer
    BY <2>1 DEF StopRequested, StopServer
  <2> QED
    BY <1>5, <2>2, <2>3, PhaseKept
<1>13. ~ChildReads
  <2> SUFFICES ASSUME ChildReads PROVE FALSE
    OBVIOUS
  <2>1. spc = "exec" /\ up[scli] # <<>>
    BY DEF ChildReads
  <2> QED
    BY <1>4, <2>1 DEF Serving, LeaveInv, LeaveState, Busy, Idle, Asked, Running, Answered
<1>14. CASE StopRequested
  <2>1. spc = "stop" /\ ServerCloses(scli)
    BY <1>14, AloneItCloses DEF StopRequested, TypeOK, ServerTypeOK, Serving
  <2>2. scli \in Clients /\ Running(scli) /\ cpc[scli] = "waiting"
    BY <1>4, <2>1 DEF Serving, LeaveInv, LeaveState, Busy, Idle, Asked, Answered
  <2> SUFFICES ASSUME NEW c \in Clients, c = scli PROVE [Exec!ExecNext]_Exec!execVars
    BY <2>2
  <2>3. \A d \in Clients \ {c} : Phase(d)' = Phase(d)
    BY <1>1, <2>1, <2>2, ServerClosesEnds, PhaseKept DEF SameConnection
  <2>4. /\ ~Left(c)
        /\ \/ StopRequested /\ c = scli /\ Running(c) /\ cEnd'[c] = "fin"
           \/ cEnd'[c] = cEnd[c]
    BY <1>14, <2>2, ClosedOnlyByStop DEF Left, StopServer, StopRequested
  <2>5. cEnd'[c] # "up"
    BY <1>1, <2>1, <2>2, ServerClosesEnds
  <2>6. cEnd'[c] = "fin" /\ cpc'[c] = "waiting"
    BY <1>1, <2>2, <2>4, <2>5 DEF Running, Connected
  <2>7. Phase(c) = "running" /\ Phase(c)' = "gone"
    <3>1. Phase(c) = "running"
      BY <1>2, <2>2 DEF PhaseOf
    <3> QED
      BY <2>6, <3>1 DEF Phase
  <2>8. Exec!Moves(c, "running", "gone")
    BY <2>3, <2>7, PhaseMoves
  <2> QED
    BY <1>3, <1>14, <2>8 DEF Exec!ExecNext, Exec!Stop
<1>15. CASE StopServer
  <2>1. scli \notin Clients /\ spc = "unlisten"
    BY <1>1, <1>15 DEF StopServer, SocketInv, Serving, Sending
  <2>2. ListenerCloses({scli} \cap Clients)
    BY <1>15, AloneItCloses DEF StopServer
  <2>3. ASSUME NEW d \in Clients PROVE Phase(d)' = Phase(d)
    <3>1. CASE Queued(d) /\ cpc[d] = "waiting"
      <4>1. Asked(d)
        BY <1>2, <2>1, <3>1
           DEF CallState, Left, Running, Answered, Cut, Socket, Open, Hung
      <4>2. cEnd'[d] = "rst" /\ cpc'[d] = "waiting"
        BY <1>1, <2>1, <2>2, <3>1, <4>1 DEF ListenerCloses, Queued, Asked, Connected
      <4> QED
        BY <1>2, <3>1, <4>1, <4>2 DEF PhaseOf, Phase
    <3>2. CASE cpc[d] # "waiting"
      <4>1. cpc[d] \in ClientPcs /\ cpc'[d] = cpc[d]
        BY <1>1 DEF TypeOK, ClientTypeOK
      <4> QED
        BY <3>2, <4>1 DEF Phase, ClientPcs
    <3>3. CASE ~Queued(d)
      <4>1. SameConnection(d)
        BY <1>1, <2>1, <2>2, <3>3 DEF ListenerCloses, Queued, SameConnection
      <4> QED
        BY <4>1, PhaseKept
    <3> QED
      BY <3>1, <3>2, <3>3
  <2> QED
    BY <1>3, <1>15, <2>1, <2>3, PhasesStand
<1> QED
  BY <1>6, <1>7, <1>8, <1>9, <1>11, <1>12, <1>13, <1>14, <1>15 DEF ServerStep

\* Then the shell is a remote call: every line is run once, one at a time over
\* all clients, and answered before the next, until a client stops the server.
THEOREM ImplementsRemoteExec ==
    ASSUME EveryCommandSucceeds, NobodyIsKilled, OnlyParsingFails
    PROVE  Spec => IsRemoteExec
<1>1. Init => CutInv /\ ServerSurvives /\ Exec!ExecInit
  <2> SUFFICES ASSUME Init PROVE CutInv /\ ServerSurvives /\ Exec!ExecInit
    OBVIOUS
  <2>1. spc = "boot" /\ \A c \in Clients : cpc[c] = "start"
    BY DEF Init, ClientInit, ServerInit
  <2>2. \A c \in Clients : Phase(c) = "idle"
    BY <2>1 DEF Phase
  <2> QED
    BY <2>1, <2>2 DEF CutInv, CutState, ServerSurvives, Exec!ExecInit
<1>2. AllInv /\ ServerSurvives' /\ [Next]_vars => CutInv'
  <2> SUFFICES ASSUME AllInv, ServerSurvives', [Next]_vars PROVE CutInv'
    OBVIOUS
  <2>1. ~SendKillsServer
    BY DEF SendKillsServer, ServerEnds, ServerSurvives
  <2>2. CASE Next
    BY <2>1, <2>2, ClientStepCuts, ServerStepCuts, AloneItRuns DEF Next, AllInv
  <2>3. CASE UNCHANGED vars
    BY <2>3 DEF vars, netVars, clientVars, serverVars, AllInv, CutInv, CutState
  <2> QED
    BY <2>2, <2>3
<1>3. AllInv /\ AllInv' /\ ServerSurvives' /\ [Next]_vars => [Exec!ExecNext]_Exec!execVars
  <2> SUFFICES ASSUME AllInv, AllInv', ServerSurvives', [Next]_vars
               PROVE  [Exec!ExecNext]_Exec!execVars
    OBVIOUS
  <2>1. ~SendKillsServer
    BY DEF SendKillsServer, ServerEnds, ServerSurvives
  <2>2. CASE Next
    BY <2>1, <2>2, ClientStepRefines, ServerStepRefines, AloneItRuns DEF Next, AllInv
  <2>3. CASE UNCHANGED vars
    <3>1. \A d \in Clients : Phase(d)' = Phase(d)
      BY <2>3, PhaseKept DEF vars, netVars, clientVars, SameConnection
    <3> QED
      BY <2>3, <3>1, PhasesStand DEF vars, serverVars
  <2> QED
    BY <2>2, <2>3
<1>4. AllInv <=> TypeOK /\ NoOrphans /\ SocketInv /\ CallInv /\ LeaveInv /\ CutInv
  BY DEF AllInv
<1> QED
  BY <1>1, <1>2, <1>3, <1>4, TypeCorrect, OrphansNever, SocketsInvariant, CallsInvariant,
     LeavesInvariant, NeverKilled, PTL DEF Spec, IsRemoteExec, Exec!ExecSpec
=============================================================================
