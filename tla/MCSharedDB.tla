------------------------------ MODULE MCSharedDB ------------------------------
(***************************************************************************)
(* Instances of StudentDB with several processes at a time, at most one of *)
(* them compressing, and a history of what was in the database while each  *)
(* of them ran.  (Two compressions at a time write to the same temporary   *)
(* file, over each other's students.)                                      *)
(***************************************************************************)
EXTENDS MCStudentDB, FiniteSets

VARIABLES
    always,     \* always[p]: the students present since p opened the file
    ever,       \* ever[p]: the students present at some time since then
    packed      \* a compression has succeeded

histVars == <<dbVars, always, ever, packed>>

HistInit ==
    /\ DbInit
    /\ always = [p \in Procs |-> {}]
    /\ ever = [p \in Procs |-> {}]
    /\ packed = FALSE

\* A process that starts sees the students of that moment.
Watch(f(_), p) == IF proc'[p].pc = "idle" THEN {}
                  ELSE IF proc[p].pc = "idle" THEN Students' ELSE f(p)

Compressing == {p \in Procs : proc[p].cmd = "x"}

HistNext ==
    /\ DbNext
    /\ Cardinality(Compressing') <= 1
    /\ always' = [p \in Procs |-> Watch(LAMBDA q : always[q] \cap Students', p)]
    /\ ever' = [p \in Procs |-> Watch(LAMBDA q : ever[q] \cup Students', p)]
    /\ packed' = (packed \/ (db # NoFile /\ db' # db))

HistSpec == HistInit /\ [][HistNext]_histVars

\* Until a compression a slot holds nobody but its own student, however the
\* system calls of several processes interleave (sdbsc.c:113-213).
SlotOwnsItsStudent == packed \/ InPlace

\* A count that runs while others add and delete misses no student who was
\* there all along and reports none who never was (sdbsc.c:240-263).
CountIsPlausible ==
    [][\A p \in Procs : ~packed /\ proc[p].pc = "scan" /\ proc'[p].pc = "idle" =>
        /\ Cardinality(always[p]) <= Len(proc[p].seen)
        /\ Len(proc[p].seen) <= Cardinality(ever[p])]_histVars

\* A compression that runs while others add, delete and zero puts in place a
\* file with every student who was there all along and none who never was, even
\* if an earlier compression has moved them; those added or deleted meanwhile
\* may be lost or come back (sdbsc.c:434-479).
CompressAmongWriters ==
    [][\A p \in Compressing : db # NoFile /\ db' # db =>
        /\ always[p] \subseteq Students'
        /\ Students' \subseteq ever[p]]_histVars
=============================================================================
