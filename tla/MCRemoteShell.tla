---------------------------- MODULE MCRemoteShell ----------------------------
(***************************************************************************)
(* Instances of RemoteShell for TLC.                                       *)
(***************************************************************************)
EXTENDS RemoteShell, TLC

CONSTANTS c1, c2, c3

\* Safety runs without temporal properties may exchange the clients when the
\* constants treat them alike.
ClientSymmetry == Permutations(Clients)
=============================================================================
