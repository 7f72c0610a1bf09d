----------------------------- MODULE MCStudentDB -----------------------------
(***************************************************************************)
(* Instances of StudentDB for TLC.                                         *)
(***************************************************************************)
EXTENDS StudentDB

CONSTANTS p1, p2, f1, f2, f3, ann, bob

\* The record on del_student's stack: zero, as on a fresh page, or what an
\* earlier call left there.
ZeroStack == {Empty}
AnyStack == {Empty} \cup Records
=============================================================================
