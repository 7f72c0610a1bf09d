------------------------------ MODULE StudentDB ------------------------------
(***************************************************************************)
(* The student database of 2-StudentDB/sdbsc.c: a file of 64-byte slots,   *)
(* the student with id i in slot i, a zero slot being empty.  Each command *)
(* of a user is one process that opens the file, does its system calls and *)
(* exits; nothing locks the file.                                          *)
(***************************************************************************)
EXTENDS Integers, FiniteSets, Sequences, SequencesExt

CONSTANTS
    Procs,          \* processes that may run at the same time
    Inodes,         \* files the disk has room for
    NoFile,         \* no such file
    MaxId,          \* bound: MAX_STD_ID
    Names, NoName,  \* the names and gpa of a student, and those of a zero slot
    Commands,       \* the options users give: a, d, f, c, p, x, z
    MaxRuns,        \* bound: commands started
    Exclusive,      \* commands are run one after another, as in test.sh
    Crashes,        \* a process may be killed
    Uninitialised,  \* what the record on del_student's stack may look like
    Faults          \* system calls that may fail ("scan": the reads of the
                    \* loops over the whole file)

ASSUME StudentDBAssumption ==
    /\ MaxId \in Nat \ {0}
    /\ MaxRuns \in Nat
    /\ NoFile \notin Inodes
    /\ NoName \notin Names
    /\ Commands \subseteq {"a", "d", "f", "c", "p", "x", "z"}
    /\ Exclusive \in BOOLEAN /\ Crashes \in BOOLEAN
    /\ Faults \subseteq {"open", "read", "scan", "write", "rename"}
    /\ Uninitialised # {}

VARIABLES
    disk,           \* disk[f]: the slots of file f, slot k at index k + 1
    db, tmp,        \* the files named DB_FILE and TMP_DB_FILE
    proc,           \* proc[p]: the local state of a process
    runs,           \* commands started so far
    reply           \* the last answer: command, id, return code, records

dbVars == <<disk, db, tmp, proc, runs, reply>>

Ids == 1..MaxId
AskedIds == -1..MaxId + 1       \* -d and -f do not validate the id

NO_ERROR == 0
ERR_DB_FILE == -1
ERR_DB_OP == -2
SRCH_NOT_FOUND == -3

Records == [id : Ids, name : Names]
Empty == [id |-> 0, name |-> NoName]        \* EMPTY_STUDENT_RECORD

Idle == [pc |-> "idle", cmd |-> "none", rec |-> Empty, fd |-> NoFile, tfd |-> NoFile,
         pos |-> 0, seen |-> <<>>]

NoReply == [cmd |-> "none", id |-> 0, rc |-> NO_ERROR, data |-> {}]

-----------------------------------------------------------------------------
\* The file system: read of slot k, write of slot k (a gap reads as zeros).
HasSlot(f, k) == k >= 0 /\ k < Len(disk[f])
Slot(f, k) == disk[f][k + 1]

Written(s, k, r) ==
    [i \in 1..(IF k < Len(s) THEN Len(s) ELSE k + 1) |->
        IF i = k + 1 THEN r ELSE IF i <= Len(s) THEN s[i] ELSE Empty]

\* A file nobody can reach, to be given to the next one created.
Free(f) == f \notin {db, tmp} /\ \A p \in Procs : f \notin {proc[p].fd, proc[p].tfd}
NewFile == CHOOSE f \in Inodes : Free(f)

RoomOnDisk == \E f \in Inodes : Free(f)

DbInit ==
    /\ disk = [f \in Inodes |-> <<>>]
    /\ db = NoFile /\ tmp = NoFile
    /\ proc = [p \in Procs |-> Idle]
    /\ runs = 0
    /\ reply = NoReply

Go(p, s) == proc' = [proc EXCEPT ![p] = s]

\* The function returns rc, having shown `data`; main closes the file and exits.
\* Or the process is killed after its last system call that matters.
Exit(p, rc, data) ==
    /\ Go(p, Idle)
    /\ \/ reply' = [cmd |-> proc[p].cmd, id |-> proc[p].rec.id, rc |-> rc, data |-> data]
       \/ Crashes /\ UNCHANGED reply

-----------------------------------------------------------------------------
\* main: open_db creates the file if there is none, then the option is
\* dispatched.  For "a" the id and gpa are validated, for "d" and "f" not.
Entry == [a |-> "check", d |-> "find", f |-> "find", c |-> "scan", p |-> "scan",
          x |-> "mktmp", z |-> "trunc"]

Start(p, cmd, i, n) ==
    /\ proc[p].pc = "idle"
    /\ Exclusive => \A q \in Procs : proc[q].pc = "idle"
    /\ runs < MaxRuns
    /\ runs' = runs + 1
    /\ IF db # NoFile THEN UNCHANGED <<db, disk>>
       ELSE RoomOnDisk /\ db' = NewFile /\ disk' = [disk EXCEPT ![db'] = <<>>]
    /\ Go(p, [Idle EXCEPT !.pc = Entry[cmd], !.cmd = cmd, !.fd = db',
                          !.rec = [id |-> i, name |-> n]])
    /\ UNCHANGED <<tmp, reply>>

\* Mutant: no check that the slot is empty.
AddUnchecked(p) ==
    /\ proc[p].pc = "check"
    /\ Go(p, [proc[p] EXCEPT !.pc = "write"])
    /\ UNCHANGED <<disk, db, tmp, runs, reply>>

\* add_student, its lseek and read: is the slot empty, or past the end?
AddCheck(p) ==
    LET me == proc[p] IN
    /\ me.pc = "check"
    /\ IF HasSlot(me.fd, me.rec.id) /\ Slot(me.fd, me.rec.id) # Empty
       THEN Exit(p, ERR_DB_OP, {})
       ELSE Go(p, [me EXCEPT !.pc = "write"]) /\ UNCHANGED reply
    /\ UNCHANGED <<disk, db, tmp, runs>>

\* Mutants: the id is kept in a deleted slot; the offset is not set again
\* after the read.
WriteKeepsId(p) ==
    /\ proc[p].pc = "write"
    /\ disk' = [disk EXCEPT ![proc[p].fd] = Written(@, proc[p].rec.id, proc[p].rec)]
    /\ Exit(p, NO_ERROR, {})
    /\ UNCHANGED <<db, tmp, runs>>

WriteNoSeek(p) ==
    LET me == proc[p]
        r  == IF me.cmd = "a" THEN me.rec ELSE Empty IN
    /\ me.pc = "write"
    /\ disk' = [disk EXCEPT ![me.fd] = Written(@, me.rec.id + 1, r)]
    /\ Exit(p, NO_ERROR, {})
    /\ UNCHANGED <<db, tmp, runs>>

\* add_student and del_student, their second lseek and the write.
WriteSlot(p) ==
    LET me == proc[p]
        r  == IF me.cmd = "a" THEN me.rec ELSE Empty IN
    /\ me.pc = "write"
    /\ disk' = [disk EXCEPT ![me.fd] = Written(@, me.rec.id, r)]
    /\ Exit(p, NO_ERROR, {})
    /\ UNCHANGED <<db, tmp, runs>>

(***************************************************************************)
(* get_student, for "-f" and for del_student.  A read past the end leaves  *)
(* the caller's record as it was: zero in main, and uninitialised stack in *)
(* del_student, which looks like no student if it happens to be zero.      *)
(***************************************************************************)
GetStudent(p) ==
    LET me   == proc[p]
        i    == me.rec.id
        read == IF HasSlot(me.fd, i) THEN {Slot(me.fd, i)}
                ELSE IF me.cmd = "f" THEN {Empty} ELSE Uninitialised IN
    /\ me.pc = "find"
    /\ IF i < 0 THEN Exit(p, ERR_DB_FILE, {})
       ELSE \E r \in read :
            IF r = Empty THEN Exit(p, IF me.cmd = "f" THEN SRCH_NOT_FOUND ELSE ERR_DB_OP, {})
            ELSE IF me.cmd = "f" THEN Exit(p, NO_ERROR, {r})
            ELSE Go(p, [me EXCEPT !.pc = "write"]) /\ UNCHANGED reply
    /\ UNCHANGED <<disk, db, tmp, runs>>

\* Mutant: the loops end at the first empty slot.
EndsAtGap(f, k) == HasSlot(f, k) => Slot(f, k) = Empty

\* count_db_records and print_db: one read, then the end of the file.  Their
\* loop, and that of compress_db, takes a failed read for the end.
LooksLikeEnd(f, k) == ~HasSlot(f, k) \/ "scan" \in Faults

\* Mutant: empty slots are counted.
ScanAll(p) ==
    LET me == proc[p] IN
    /\ me.pc = "scan"
    /\ HasSlot(me.fd, me.pos)
    /\ Go(p, [me EXCEPT !.pos = @ + 1, !.seen = Append(@, Slot(me.fd, me.pos))])
    /\ UNCHANGED <<disk, db, tmp, runs, reply>>

Scan(p) ==
    LET me == proc[p] IN
    /\ me.pc = "scan"
    /\ HasSlot(me.fd, me.pos)
    /\ LET r == Slot(me.fd, me.pos)
       IN  Go(p, [me EXCEPT !.pos = @ + 1,
                            !.seen = IF r = Empty THEN @ ELSE Append(@, r)])
    /\ UNCHANGED <<disk, db, tmp, runs, reply>>

ScanEnd(p) ==
    LET me == proc[p] IN
    /\ me.pc = "scan"
    /\ LooksLikeEnd(me.fd, me.pos)
    /\ IF me.cmd = "c" THEN Exit(p, Len(me.seen), {})
                       ELSE Exit(p, NO_ERROR, ToSet(me.seen))
    /\ UNCHANGED <<disk, db, tmp, runs>>

-----------------------------------------------------------------------------
\* Mutant: the temporary file is opened without O_TRUNC.
MakeTmpAsIs(p) ==
    /\ proc[p].pc = "mktmp"
    /\ tmp # NoFile \/ RoomOnDisk
    /\ tmp' = IF tmp # NoFile THEN tmp ELSE NewFile
    /\ Go(p, [proc[p] EXCEPT !.pc = "copy", !.tfd = tmp'])
    /\ UNCHANGED <<disk, db, runs, reply>>

\* compress_db: open the temporary file, emptied if a former run left one.
MakeTmp(p) ==
    /\ proc[p].pc = "mktmp"
    /\ tmp # NoFile \/ RoomOnDisk
    /\ tmp' = IF tmp # NoFile THEN tmp ELSE NewFile
    /\ disk' = [disk EXCEPT ![tmp'] = <<>>]
    /\ Go(p, [proc[p] EXCEPT !.pc = "copy", !.tfd = tmp'])
    /\ UNCHANGED <<db, runs, reply>>

\* One turn of its loop: a read, and the write of a slot that is not empty at
\* the end of what this process has written.
Copy(p) ==
    LET me == proc[p] IN
    /\ me.pc = "copy"
    /\ HasSlot(me.fd, me.pos)
    /\ LET r == Slot(me.fd, me.pos)
       IN  IF r = Empty
           THEN Go(p, [me EXCEPT !.pos = @ + 1]) /\ UNCHANGED disk
           ELSE /\ disk' = [disk EXCEPT ![me.tfd] = Written(@, Len(me.seen), r)]
                /\ Go(p, [me EXCEPT !.pos = @ + 1, !.seen = Append(@, r)])
    /\ UNCHANGED <<db, tmp, runs, reply>>

\* The end of the file: close it, rename the temporary file over it.
Swap(p) ==
    LET me == proc[p] IN
    /\ me.pc = "copy"
    /\ LooksLikeEnd(me.fd, me.pos)
    /\ \/ /\ tmp # NoFile
          /\ Exit(p, NO_ERROR, {}) /\ db' = tmp /\ tmp' = NoFile
       \/ /\ tmp = NoFile \/ "rename" \in Faults
          /\ Exit(p, ERR_DB_FILE, {}) /\ UNCHANGED <<db, tmp>>
    /\ UNCHANGED <<disk, runs>>

\* "-z": the file is closed and opened again with O_TRUNC.
Truncate(p) ==
    /\ proc[p].pc = "trunc"
    /\ db # NoFile
    /\ disk' = [disk EXCEPT ![db] = <<>>]
    /\ Exit(p, NO_ERROR, {})
    /\ UNCHANGED <<db, tmp, runs>>

\* An open, read or write returns -1: the function returns ERR_DB_FILE.
CallFails(p) ==
    LET me == proc[p] IN
    /\ \/ me.pc \in {"check", "find"} /\ "read" \in Faults
       \/ me.pc = "write" /\ "write" \in Faults
       \/ me.pc \in {"mktmp", "trunc"} /\ "open" \in Faults
       \/ /\ me.pc = "copy" /\ "write" \in Faults
          /\ HasSlot(me.fd, me.pos) /\ Slot(me.fd, me.pos) # Empty
    /\ Exit(p, ERR_DB_FILE, {})
    /\ UNCHANGED <<disk, db, tmp, runs>>

\* The process is killed between two system calls; the files stay.
Crash(p) ==
    /\ Crashes
    /\ proc[p].pc # "idle"
    /\ Go(p, Idle)
    /\ UNCHANGED <<disk, db, tmp, runs, reply>>

AskedOf(cmd) == CASE cmd = "a" -> Ids
                  [] cmd \in {"d", "f"} -> AskedIds
                  [] OTHER -> {0}

DbNext ==
    \E p \in Procs :
        \/ \E cmd \in Commands : \E i \in AskedOf(cmd) :
             \E n \in (IF cmd = "a" THEN Names ELSE {NoName}) : Start(p, cmd, i, n)
        \/ AddCheck(p)
        \/ WriteSlot(p)
        \/ GetStudent(p)
        \/ Scan(p)
        \/ ScanEnd(p)
        \/ MakeTmp(p)
        \/ Copy(p)
        \/ Swap(p)
        \/ Truncate(p)
        \/ CallFails(p)
        \/ Crash(p)

DbSpec == DbInit /\ [][DbNext]_dbVars

-----------------------------------------------------------------------------
DbTypeOK ==
    /\ disk \in [Inodes -> Seq(Records \cup {Empty})]
    /\ db \in Inodes \cup {NoFile} /\ tmp \in Inodes \cup {NoFile}
    /\ db # NoFile => db # tmp
    /\ \A p \in Procs :
         /\ proc[p].pc \in {"idle", "check", "find", "write", "scan", "mktmp", "copy", "trunc"}
         /\ proc[p].rec \in [id : AskedIds \cup {0}, name : Names \cup {NoName}]
         /\ proc[p].pc # "idle" => proc[p].fd \in Inodes
         /\ proc[p].seen \in Seq(Records)
    /\ runs \in 0..MaxRuns

\* The students in the file that the name DB_FILE stands for.
Students == IF db = NoFile THEN {} ELSE ToSet(disk[db]) \ {Empty}

(***************************************************************************)
(* One command after another: a StudentStore.                              *)
(***************************************************************************)
InPlace == db # NoFile => \A k \in DOMAIN disk[db] : disk[db][k] # Empty => disk[db][k].id = k - 1

StoredName(i) == IF db # NoFile /\ HasSlot(db, i) THEN Slot(db, i).name ELSE NoName

Stored == [i \in Ids |-> StoredName(i)]

Store == INSTANCE StudentStore WITH store <- Stored, astray <- ~InPlace, answer <- reply

\* Commands run one after another, killed or not, answer and change the file
\* as the map of StudentStore; a compression that fails or is killed leaves it
\* alone, one that succeeds leads it astray (sdbsc.c:113-338, 434-479, 631-714).
IsStudentStore == Store!StoreSpec

\* The claim of sdbsc.c:172-179: a delete that reports success has found the
\* student it was asked for.
DeleteFindsAsked ==
    [][reply' # reply /\ reply'.cmd = "d" /\ reply'.rc = NO_ERROR =>
        \E r \in Students : r.id = reply'.id]_dbVars

\* Nothing but an add, a delete and a zero changes who is in the database, and
\* each of them only as asked: in particular neither compress_db nor a kill in
\* the middle of it loses a student or brings one back (sdbsc.c:434-479).  After
\* a compression a delete may take another student than it was asked for, the
\* one in that slot (FindReturnsAsked), but never more than one.
OnlyAsAsked ==
    [][\/ Students' = Students
       \/ \E p \in Procs :
            \/ proc[p].pc = "write" /\ proc[p].cmd = "a" /\ Students' = Students \cup {proc[p].rec}
            \/ /\ proc[p].pc = "write" /\ proc[p].cmd = "d"
               /\ IF InPlace THEN Students' = {r \in Students : r.id # proc[p].rec.id}
                  ELSE \E r \in Students : Students' = Students \ {r}
            \/ proc[p].pc = "trunc" /\ Students' = {}]_dbVars

\* The slots up to the k-th that hold a student.
Taken(slots, k) == {i \in 1..k : slots[i] # Empty}

\* compress_db replaces the file by its students in their order, with no gap,
\* whatever an earlier, killed compression left in the temporary file: the
\* student of the n-th slot taken is in the n-th slot (sdbsc.c:434-479).
CompressIsExact ==
    [][db' # db /\ db # NoFile =>
        LET old == disk[db]
            new == disk'[db'] IN
        /\ Len(new) = Cardinality(Taken(old, Len(old)))
        /\ \A k \in Taken(old, Len(old)) : new[Cardinality(Taken(old, k))] = old[k]]_dbVars

\* get_student returns the student with the id it is asked for (sdbsc.c:50-61).
FindReturnsAsked ==
    reply.cmd = "f" /\ reply.rc = NO_ERROR => \A r \in reply.data : r.id = reply.id
=============================================================================
