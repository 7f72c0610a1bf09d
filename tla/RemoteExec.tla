------------------------------ MODULE RemoteExec ------------------------------
(***************************************************************************)
(* What the remote shell promises: a line a client asks for is run once,   *)
(* one at a time over all clients, and answered before the client asks for *)
(* the next; a client loses its request only because the server stopped.   *)
(***************************************************************************)
CONSTANT Clients

VARIABLES
    phase,      \* phase[c]: idle, asked, running, answered or gone
    serving     \* the server has not been asked to stop

execVars == <<phase, serving>>

Phases == {"idle", "asked", "running", "answered", "gone"}

Moves(c, from, to) == phase[c] = from /\ phase' = [phase EXCEPT ![c] = to]

ExecInit == phase = [c \in Clients |-> "idle"] /\ serving = TRUE

Ask(c) == Moves(c, "idle", "asked") /\ UNCHANGED serving

Run(c) ==
    /\ serving
    /\ \A d \in Clients : phase[d] # "running"
    /\ Moves(c, "asked", "running")
    /\ UNCHANGED serving

Answer(c) == Moves(c, "running", "answered") /\ UNCHANGED serving

Read(c) == Moves(c, "answered", "idle") /\ UNCHANGED serving

\* The command of client c is the request to stop: it is not answered.
Stop(c) == Moves(c, "running", "gone") /\ serving' = FALSE

Leave(c) ==
    /\ Moves(c, "idle", "gone") \/ (Moves(c, "asked", "gone") /\ ~serving)
    /\ UNCHANGED serving

ExecNext ==
    \E c \in Clients :
        Ask(c) \/ Run(c) \/ Answer(c) \/ Read(c) \/ Stop(c) \/ Leave(c)

ExecSpec == ExecInit /\ [][ExecNext]_execVars
=============================================================================
