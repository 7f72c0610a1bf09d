----------------------------- MODULE StudentStore -----------------------------
(***************************************************************************)
(* What the student database promises to someone who runs sdbsc commands   *)
(* one after another: a map from ids to students, each command answering   *)
(* for the map as it is when the command takes effect.  Compressing a map  *)
(* with students in it makes it go astray: from then on ids no longer lead *)
(* to their students and nothing is promised, until -z starts afresh.      *)
(***************************************************************************)
EXTENDS Integers, FiniteSets

CONSTANTS
    Ids,            \* the valid student ids
    AskedIds,       \* the ids a user may ask for, valid or not
    Names, NoName   \* the data of a student, and its absence

VARIABLES
    store,          \* store[i]: the student with id i, or NoName
    astray,         \* the students do not sit where their ids say
    answer          \* the last command that answered: command, id, code, data

storeVars == <<store, astray, answer>>

NO_ERROR == 0
ERR_DB_FILE == -1
ERR_DB_OP == -2
SRCH_NOT_FOUND == -3

NoAnswer == [cmd |-> "none", id |-> 0, rc |-> NO_ERROR, data |-> {}]

Maps == [Ids -> Names \cup {NoName}]

Present == {i \in Ids : store[i] # NoName}

Student(i) == [id |-> i, name |-> store[i]]

\* A command that is killed may have taken effect without a word.
Answers(cmd, i, rc, data) ==
    \/ answer' = [cmd |-> cmd, id |-> i, rc |-> rc, data |-> data]
    \/ UNCHANGED answer

StoreInit == store = [i \in Ids |-> NoName] /\ astray = FALSE /\ answer = NoAnswer

Add(i, n) ==
    \/ /\ i \notin Present
       /\ store' = [store EXCEPT ![i] = n]
       /\ Answers("a", i, NO_ERROR, {})
    \/ /\ i \in Present
       /\ UNCHANGED store
       /\ Answers("a", i, ERR_DB_OP, {})

Delete(i) ==
    \/ /\ i \in Present
       /\ store' = [store EXCEPT ![i] = NoName]
       /\ Answers("d", i, NO_ERROR, {})
    \/ /\ i \notin Present
       /\ UNCHANGED store
       /\ Answers("d", i, ERR_DB_OP, {})

Find(i) ==
    /\ UNCHANGED store
    /\ IF i \in Present THEN Answers("f", i, NO_ERROR, {Student(i)})
                        ELSE Answers("f", i, SRCH_NOT_FOUND, {})

\* A command fails on a system call, or on an id that is no offset in a file,
\* and changes nothing.
Fail(cmd, i) == UNCHANGED store /\ Answers(cmd, i, ERR_DB_FILE, {})

Count == UNCHANGED store /\ Answers("c", 0, Cardinality(Present), {})

PrintAll == UNCHANGED store /\ Answers("p", 0, NO_ERROR, {Student(i) : i \in Present})

Zero ==
    /\ store' = [i \in Ids |-> NoName]
    /\ Answers("z", 0, NO_ERROR, {})

\* The students are written one after another from slot 0, which is nobody's.
Compress ==
    /\ Answers("x", 0, NO_ERROR, {})
    /\ astray' = (Present # {})
    /\ IF Present = {} THEN UNCHANGED store ELSE store' \in Maps

\* A command on the map as it should be.
Command ==
    \/ \E i \in Ids, n \in Names : Add(i, n)
    \/ \E i \in AskedIds : Delete(i) \/ Find(i)
    \/ \E cmd \in {"a", "d", "f", "x", "z"}, i \in AskedIds : Fail(cmd, i)
    \/ Count
    \/ PrintAll
    \/ Zero

\* A command on a map gone astray: it may even come right again by itself, and
\* does so for certain with a -z that succeeds.
Stray ==
    /\ store' \in Maps /\ astray' \in BOOLEAN
    /\ answer'.cmd = "z" /\ answer'.rc = NO_ERROR /\ answer' # answer =>
           store' = [i \in Ids |-> NoName] /\ ~astray'

StoreNext ==
    \/ ~astray /\ (Compress \/ (Command /\ UNCHANGED astray))
    \/ astray /\ Stray

StoreSpec == StoreInit /\ [][StoreNext]_storeVars
=============================================================================
