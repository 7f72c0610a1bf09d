--------------------------- MODULE StudentDBProofs ---------------------------
(***************************************************************************)
(* Proofs about StudentDB, for any number of processes, files, students    *)
(* and commands, and any failing calls: first of a process that runs alone *)
(* (StudentDB and the abstract StudentStore), then of any finite number of *)
(* processes at a time, at most one of them compressing (MCSharedDB).      *)
(***************************************************************************)
EXTENDS MCSharedDB, SequenceTheorems, FiniteSetTheorems, TLAPS

Slots == Records \cup {Empty}

Locals ==
    [pc : {"idle", "check", "find", "write", "scan", "mktmp", "copy", "trunc"},
     cmd : {"none", "a", "d", "f", "c", "p", "x", "z"},
     rec : [id : AskedIds, name : Names \cup {NoName}],
     fd : Inodes \cup {NoFile}, tfd : Inodes \cup {NoFile},
     pos : Nat, seen : Seq(Records)]

\* Where a process is says which command it runs and what it has opened.
LocalOK(s) ==
    /\ s.pc = "idle" => s = Idle
    /\ s.pc # "idle" => s.fd \in Inodes
    /\ s.pc = "check" => s.cmd = "a"
    /\ s.pc = "find" => s.cmd \in {"d", "f"}
    /\ s.pc = "write" => s.cmd \in {"a", "d"} /\ s.rec.id >= 0
    /\ s.pc = "scan" => s.cmd \in {"c", "p"}
    /\ s.pc \in {"mktmp", "copy"} => s.cmd = "x"
    /\ s.pc = "mktmp" => s.pos = 0 /\ s.seen = <<>>
    /\ s.pc = "trunc" => s.cmd = "z"
    /\ s.pc = "copy" => s.tfd \in Inodes
    /\ s.cmd = "a" => s.rec \in Records
    /\ s.cmd \in {"c", "p", "x", "z"} => s.rec.id = 0

DbTyped ==
    /\ disk \in [Inodes -> Seq(Slots)]
    /\ db \in Inodes \cup {NoFile} /\ tmp \in Inodes \cup {NoFile}
    /\ db # NoFile => db # tmp
    /\ proc \in [Procs -> Locals]
    /\ \A p \in Procs : LocalOK(proc[p])
    /\ runs \in 0..MaxRuns

-----------------------------------------------------------------------------
\* A write within the file replaces a slot, one behind it leaves a gap of zeros.
LEMMA WrittenIs ==
    ASSUME NEW s \in Seq(Slots), NEW k \in Nat, NEW r \in Slots
    PROVE  /\ Written(s, k, r) \in Seq(Slots)
           /\ Len(Written(s, k, r)) = IF k < Len(s) THEN Len(s) ELSE k + 1
           /\ \A i \in 1..Len(Written(s, k, r)) :
                Written(s, k, r)[i] = IF i = k + 1 THEN r ELSE IF i <= Len(s) THEN s[i] ELSE Empty
  <1> DEFINE n == IF k < Len(s) THEN Len(s) ELSE k + 1
  <1>1. n \in Nat
    BY LenProperties
  <1>2. \A i \in 1..n : Written(s, k, r)[i] = IF i = k + 1 THEN r ELSE IF i <= Len(s) THEN s[i] ELSE Empty
    BY DEF Written
  <1>3. Empty \in Slots
    BY DEF Slots
  <1>4. \A i \in 1..n : Written(s, k, r)[i] \in Slots
    BY <1>1, <1>2, <1>3, LenProperties, ElementOfSeq
  <1>5. Written(s, k, r) \in [1..n -> Slots]
    BY <1>4 DEF Written
  <1>6. Written(s, k, r) \in Seq(Slots) /\ Len(Written(s, k, r)) = n
    BY <1>1, <1>5, LenProperties, SeqDef
  <1> QED
    BY <1>2, <1>6

LEMMA NewFileIsFree ==
    ASSUME RoomOnDisk
    PROVE  NewFile \in Inodes /\ Free(NewFile)
  BY DEF RoomOnDisk, NewFile

LEMMA SlotType ==
    ASSUME DbTyped, NEW f \in Inodes, NEW k \in Int, HasSlot(f, k)
    PROVE  /\ k + 1 \in 1..Len(disk[f]) /\ k + 1 \in DOMAIN disk[f]
           /\ Slot(f, k) \in Slots
  <1>1. disk[f] \in Seq(Slots)
    BY DEF DbTyped
  <1> QED
    BY <1>1, LenProperties, ElementOfSeq DEF HasSlot, Slot

\* A process that moves to a typed state keeps all processes typed.
LEMMA GoTyped ==
    ASSUME DbTyped, NEW p \in Procs, NEW s \in Locals, LocalOK(s), Go(p, s)
    PROVE  proc' \in [Procs -> Locals] /\ \A q \in Procs : LocalOK(proc'[q])
  <1>1. proc' = [proc EXCEPT ![p] = s] /\ proc \in [Procs -> Locals]
    BY DEF DbTyped, Go
  <1>2. \A q \in Procs : proc'[q] = IF q = p THEN s ELSE proc[q]
    BY <1>1
  <1> QED
    BY <1>1, <1>2 DEF DbTyped

LEMMA IdleTyped == Idle \in Locals /\ LocalOK(Idle)
  <1>1. Empty \in [id : AskedIds, name : Names \cup {NoName}]
    BY StudentDBAssumption DEF Empty, AskedIds
  <1>2. <<>> \in Seq(Records)
    BY EmptySeq
  <1> QED
    BY <1>1, <1>2 DEF Idle, Locals, LocalOK

LEMMA ExitTyped ==
    ASSUME DbTyped, NEW p \in Procs, NEW rc, NEW data, Exit(p, rc, data)
    PROVE  proc' \in [Procs -> Locals] /\ \A q \in Procs : LocalOK(proc'[q])
  BY GoTyped, IdleTyped DEF Exit

LEMMA InitTyped ==
    ASSUME DbInit
    PROVE  DbTyped
  BY IdleTyped, EmptySeq, StudentDBAssumption DEF DbInit, DbTyped

\* What a new process looks like, and the file it finds or makes.
LEMMA Started ==
    ASSUME DbTyped, NEW p \in Procs, NEW cmd \in Commands, NEW i \in AskedOf(cmd),
           NEW n \in (IF cmd = "a" THEN Names ELSE {NoName}), Start(p, cmd, i, n)
    PROVE  /\ proc' = [proc EXCEPT ![p] = proc'[p]]
           /\ proc'[p] \in Locals /\ LocalOK(proc'[p])
           /\ proc'[p].pc \notin {"idle", "write", "copy"}
           /\ proc'[p].fd = db' /\ proc'[p].pos = 0 /\ proc'[p].seen = <<>>
           /\ proc'[p].cmd = cmd
           /\ db # NoFile => db' = db /\ disk' = disk
           /\ db = NoFile => Free(db') /\ disk' = [disk EXCEPT ![db'] = <<>>]
           /\ db' \in Inodes /\ db' # tmp /\ disk' \in [Inodes -> Seq(Slots)]
  <1>1. PICK s : /\ s = [Idle EXCEPT !.pc = Entry[cmd], !.cmd = cmd, !.fd = db', !.rec = [id |-> i, name |-> n]]
                 /\ Go(p, s)
    BY DEF Start
  <1>2. cmd \in {"a", "d", "f", "c", "p", "x", "z"}
    BY StudentDBAssumption
  <1>3. i \in AskedIds /\ (cmd = "a" => i \in Ids) /\ (cmd \in {"c", "p", "x", "z"} => i = 0)
    BY <1>2, StudentDBAssumption DEF AskedOf, AskedIds, Ids
  <1>4. /\ db # NoFile => db' = db /\ disk' = disk
        /\ db = NoFile => NewFile \in Inodes /\ Free(NewFile) /\ db' = NewFile /\ disk' = [disk EXCEPT ![db'] = <<>>]
    BY NewFileIsFree DEF Start
  <1>5. db' \in Inodes /\ db' # tmp /\ disk' \in [Inodes -> Seq(Slots)]
    <2>1. CASE db # NoFile
      BY <1>4, <2>1 DEF DbTyped
    <2>2. CASE db = NoFile
      <3>1. db' \in Inodes /\ Free(db') /\ disk' = [disk EXCEPT ![db'] = <<>>]
        BY <1>4, <2>2
      <3>2. db' # tmp
        BY <3>1 DEF Free
      <3>3. disk' \in [Inodes -> Seq(Slots)]
        BY <3>1, EmptySeq DEF DbTyped
      <3> QED
        BY <3>1, <3>2, <3>3
    <2> QED
      BY <2>1, <2>2
  <1>6. /\ Entry[cmd] \in {"check", "find", "scan", "mktmp", "trunc"}
        /\ Entry[cmd] = "check" => cmd = "a"
        /\ Entry[cmd] = "find" => cmd \in {"d", "f"}
        /\ Entry[cmd] = "scan" => cmd \in {"c", "p"}
        /\ Entry[cmd] = "mktmp" => cmd = "x"
        /\ Entry[cmd] = "trunc" => cmd = "z"
    BY <1>2 DEF Entry
  <1>7. /\ [id |-> i, name |-> n] \in [id : AskedIds, name : Names \cup {NoName}]
        /\ cmd = "a" => [id |-> i, name |-> n] \in Records
    BY <1>3 DEF Records
  <1>8. Idle.pos = 0 /\ Idle.seen = <<>>
    BY DEF Idle
  <1>9. /\ s \in Locals /\ s.pc = Entry[cmd] /\ s.cmd = cmd /\ s.fd = db' /\ s.rec = [id |-> i, name |-> n]
        /\ s.pos = 0 /\ s.seen = <<>>
    <2>1. /\ Entry[cmd] \in {"idle", "check", "find", "write", "scan", "mktmp", "copy", "trunc"}
          /\ cmd \in {"none", "a", "d", "f", "c", "p", "x", "z"}
      BY <1>2, <1>6
    <2> QED
      BY <1>1, <1>5, <1>7, <1>8, <2>1, IdleTyped DEF Locals
  <1>10. LocalOK(s)
    BY <1>3, <1>5, <1>6, <1>7, <1>9 DEF LocalOK
  <1>11. proc' = [proc EXCEPT ![p] = s] /\ proc'[p] = s
    BY <1>1 DEF Go, DbTyped
  <1> QED
    BY <1>4, <1>5, <1>6, <1>9, <1>10, <1>11

LEMMA StartTyped ==
    ASSUME DbTyped, NEW p \in Procs, NEW cmd \in Commands, NEW i \in AskedOf(cmd),
           NEW n \in (IF cmd = "a" THEN Names ELSE {NoName}), Start(p, cmd, i, n)
    PROVE  DbTyped'
  <1>1. proc' \in [Procs -> Locals] /\ \A q \in Procs : LocalOK(proc'[q])
    BY Started, GoTyped DEF Go
  <1>2. runs' \in 0..MaxRuns
    BY StudentDBAssumption DEF Start, DbTyped
  <1>3. /\ db' \in Inodes /\ db' # tmp /\ disk' \in [Inodes -> Seq(Slots)] /\ tmp' = tmp
    BY Started DEF Start
  <1> QED
    BY <1>1, <1>2, <1>3 DEF DbTyped

LEMMA AddCheckTyped ==
    ASSUME DbTyped, NEW p \in Procs, AddCheck(p)
    PROVE  DbTyped'
  <1> PICK s : s = [proc[p] EXCEPT !.pc = "write"]
    OBVIOUS
  <1>1. proc' \in [Procs -> Locals] /\ \A q \in Procs : LocalOK(proc'[q])
    <2>1. CASE Exit(p, ERR_DB_OP, {})
      BY <2>1, ExitTyped
    <2>2. CASE Go(p, s)
      <3>1. s \in Locals
        BY DEF DbTyped, Locals
      <3>2. s.rec.id >= 0
        BY StudentDBAssumption DEF DbTyped, LocalOK, AddCheck, Records, Ids, Locals
      <3>3. LocalOK(s)
        BY <3>2 DEF AddCheck, DbTyped, LocalOK, Locals
      <3> QED
        BY <2>2, <3>1, <3>3, GoTyped
    <2> QED
      BY <2>1, <2>2 DEF AddCheck
  <1> QED
    BY <1>1 DEF AddCheck, DbTyped

LEMMA WriteSlotTyped ==
    ASSUME DbTyped, NEW p \in Procs, WriteSlot(p)
    PROVE  DbTyped'
  <1> DEFINE me == proc[p]
             r == IF me.cmd = "a" THEN me.rec ELSE Empty
  <1>1. /\ proc' \in [Procs -> Locals] /\ \A q \in Procs : LocalOK(proc'[q])
    BY ExitTyped DEF WriteSlot
  <1>2. me.fd \in Inodes /\ r \in Slots /\ me.rec.id \in Nat
    BY StudentDBAssumption DEF WriteSlot, DbTyped, LocalOK, Locals, Slots, AskedIds
  <1>3. disk' \in [Inodes -> Seq(Slots)]
    <2>1. Written(disk[me.fd], me.rec.id, r) \in Seq(Slots)
      BY <1>2, WrittenIs DEF DbTyped, Slots
    <2> QED
      BY <2>1, <1>2 DEF WriteSlot, DbTyped
  <1> QED
    BY <1>1, <1>3 DEF WriteSlot, DbTyped

LEMMA GetStudentTyped ==
    ASSUME DbTyped, NEW p \in Procs, GetStudent(p)
    PROVE  DbTyped'
  <1> PICK s : s = [proc[p] EXCEPT !.pc = "write"]
    OBVIOUS
  <1>1. proc[p] \in Locals /\ LocalOK(proc[p]) /\ proc[p].rec.id \in Int
    BY StudentDBAssumption DEF DbTyped, Locals, AskedIds
  <1>2. proc' \in [Procs -> Locals] /\ \A q \in Procs : LocalOK(proc'[q])
    <2>1. CASE \E rc, data : Exit(p, rc, data)
      BY <2>1, ExitTyped
    <2>2. CASE Go(p, s) /\ proc[p].cmd # "f" /\ proc[p].rec.id >= 0
      <3>1. s \in Locals
        BY <1>1 DEF Locals
      <3>2. LocalOK(s)
        BY <1>1, <2>2 DEF GetStudent, LocalOK, Locals
      <3> QED
        BY <2>2, <3>1, <3>2, GoTyped
    <2>3. CASE proc[p].rec.id < 0
      BY <2>1, <2>3 DEF GetStudent
    <2>4. CASE ~(proc[p].rec.id < 0)
      <3>1. PICK r : \/ Exit(p, IF proc[p].cmd = "f" THEN SRCH_NOT_FOUND ELSE ERR_DB_OP, {})
                     \/ Exit(p, NO_ERROR, {r})
                     \/ proc[p].cmd # "f" /\ Go(p, s)
        BY <2>4 DEF GetStudent
      <3> QED
        BY <1>1, <2>1, <2>2, <2>4, <3>1
    <2> QED
      BY <2>3, <2>4
  <1> QED
    BY <1>2 DEF GetStudent, DbTyped

LEMMA Moved ==
    ASSUME NEW m \in Locals, NEW q \in Seq(Records)
    PROVE  [m EXCEPT !.pos = @ + 1, !.seen = q] \in Locals
  <1>1. m.pos + 1 \in Nat
    BY DEF Locals
  <1> QED
    BY <1>1 DEF Locals

LEMMA ScanTyped ==
    ASSUME DbTyped, NEW p \in Procs, Scan(p)
    PROVE  DbTyped'
  <1> DEFINE r == Slot(proc[p].fd, proc[p].pos)
  <1> PICK s : s = [proc[p] EXCEPT !.pos = @ + 1, !.seen = IF r = Empty THEN @ ELSE Append(@, r)]
    OBVIOUS
  <1>1. proc[p] \in Locals /\ LocalOK(proc[p])
    BY DEF DbTyped
  <1>2. r = Empty \/ r \in Records
    BY <1>1, SlotType DEF Scan, LocalOK, Locals, Slots
  <1>3. (IF r = Empty THEN proc[p].seen ELSE Append(proc[p].seen, r)) \in Seq(Records)
    BY <1>1, <1>2, AppendProperties DEF Locals
  <1>4. s \in Locals
    BY <1>1, <1>3, Moved
  <1>5. LocalOK(s)
    BY <1>1 DEF Scan, LocalOK, Locals
  <1>6. proc' \in [Procs -> Locals] /\ \A q \in Procs : LocalOK(proc'[q])
    BY <1>4, <1>5, GoTyped DEF Scan
  <1> QED
    BY <1>6 DEF Scan, DbTyped

LEMMA MakeTmpTyped ==
    ASSUME DbTyped, NEW p \in Procs, MakeTmp(p)
    PROVE  /\ DbTyped'
           /\ tmp' \in Inodes /\ (db # NoFile => tmp' # db)
           /\ tmp # NoFile => tmp' = tmp
           /\ tmp = NoFile => Free(tmp')
  <1> PICK s : s = [proc[p] EXCEPT !.pc = "copy", !.tfd = tmp']
    OBVIOUS
  <1>1. proc[p] \in Locals /\ LocalOK(proc[p])
    BY DEF DbTyped
  <1>2. /\ tmp' \in Inodes /\ (db # NoFile => tmp' # db)
        /\ tmp # NoFile => tmp' = tmp
        /\ tmp = NoFile => Free(tmp')
    BY NewFileIsFree DEF MakeTmp, DbTyped, Free
  <1>3. s \in Locals
    BY <1>1, <1>2 DEF Locals
  <1>4. LocalOK(s)
    BY <1>1, <1>2 DEF MakeTmp, LocalOK, Locals
  <1>5. proc' \in [Procs -> Locals] /\ \A q \in Procs : LocalOK(proc'[q])
    BY <1>3, <1>4, GoTyped DEF MakeTmp
  <1>6. disk' \in [Inodes -> Seq(Slots)]
    BY EmptySeq, <1>2 DEF MakeTmp, DbTyped
  <1> QED
    BY <1>2, <1>5, <1>6 DEF MakeTmp, DbTyped

LEMMA CopyTyped ==
    ASSUME DbTyped, NEW p \in Procs, Copy(p)
    PROVE  DbTyped'
  <1> DEFINE r == Slot(proc[p].fd, proc[p].pos)
  <1>1. proc[p] \in Locals /\ LocalOK(proc[p])
    BY DEF DbTyped
  <1>2. r = Empty \/ r \in Records
    BY <1>1, SlotType DEF Copy, LocalOK, Locals, Slots
  <1>3. proc[p].tfd \in Inodes /\ Len(proc[p].seen) \in Nat
    BY <1>1, LenProperties DEF Copy, LocalOK, Locals
  <1>4. CASE r = Empty
    <2> PICK s : s = [proc[p] EXCEPT !.pos = @ + 1]
      OBVIOUS
    <2>1. s \in Locals
      BY <1>1 DEF Locals
    <2>2. LocalOK(s)
      BY <1>1 DEF Copy, LocalOK, Locals
    <2>3. proc' \in [Procs -> Locals] /\ \A q \in Procs : LocalOK(proc'[q])
      BY <1>4, <2>1, <2>2, GoTyped DEF Copy
    <2> QED
      BY <1>4, <2>3 DEF Copy, DbTyped
  <1>5. CASE r # Empty
    <2> PICK s : s = [proc[p] EXCEPT !.pos = @ + 1, !.seen = Append(@, r)]
      OBVIOUS
    <2>1. Append(proc[p].seen, r) \in Seq(Records)
      BY <1>1, <1>2, <1>5, AppendProperties DEF Locals
    <2>2. s \in Locals
      BY <1>1, <2>1, Moved
    <2>3. LocalOK(s)
      BY <1>1 DEF Copy, LocalOK, Locals
    <2>4. proc' \in [Procs -> Locals] /\ \A q \in Procs : LocalOK(proc'[q])
      BY <1>5, <2>2, <2>3, GoTyped DEF Copy
    <2>5. Written(disk[proc[p].tfd], Len(proc[p].seen), r) \in Seq(Slots)
      BY <1>2, <1>3, <1>5, WrittenIs DEF DbTyped, Slots
    <2>6. disk' \in [Inodes -> Seq(Slots)]
      BY <1>3, <1>5, <2>5 DEF Copy, DbTyped
    <2> QED
      BY <1>5, <2>4, <2>6 DEF Copy, DbTyped
  <1> QED
    BY <1>4, <1>5

\* The steps that end a process.
LEMMA EndingTyped ==
    ASSUME DbTyped, NEW p \in Procs,
           ScanEnd(p) \/ Swap(p) \/ Truncate(p) \/ CallFails(p) \/ Crash(p)
    PROVE  DbTyped'
  <1>1. proc' \in [Procs -> Locals] /\ \A q \in Procs : LocalOK(proc'[q])
    BY ExitTyped, GoTyped, IdleTyped DEF ScanEnd, Swap, Truncate, CallFails, Crash
  <1>2. CASE ScanEnd(p)
    BY <1>1, <1>2 DEF ScanEnd, DbTyped
  <1>3. CASE Swap(p)
    BY <1>1, <1>3 DEF Swap, DbTyped
  <1>4. CASE Truncate(p)
    BY <1>1, <1>4, EmptySeq DEF Truncate, DbTyped
  <1>5. CASE CallFails(p)
    BY <1>1, <1>5 DEF CallFails, DbTyped
  <1>6. CASE Crash(p)
    BY <1>1, <1>6 DEF Crash, DbTyped
  <1> QED
    BY <1>2, <1>3, <1>4, <1>5, <1>6

LEMMA StepTyped == DbTyped /\ [DbNext]_dbVars => DbTyped'
  <1> SUFFICES ASSUME DbTyped, [DbNext]_dbVars PROVE DbTyped'
    OBVIOUS
  <1>1. CASE UNCHANGED dbVars
    BY <1>1 DEF dbVars, DbTyped
  <1>2. ASSUME NEW p \in Procs, NEW cmd \in Commands, NEW i \in AskedOf(cmd),
               NEW n \in (IF cmd = "a" THEN Names ELSE {NoName}), Start(p, cmd, i, n)
        PROVE  DbTyped'
    BY <1>2, StartTyped
  <1>3. ASSUME NEW p \in Procs,
               \/ AddCheck(p) \/ WriteSlot(p) \/ GetStudent(p) \/ Scan(p) \/ ScanEnd(p) \/ MakeTmp(p)
               \/ Copy(p) \/ Swap(p) \/ Truncate(p) \/ CallFails(p) \/ Crash(p)
        PROVE  DbTyped'
    BY <1>3, AddCheckTyped, WriteSlotTyped, GetStudentTyped, ScanTyped, MakeTmpTyped, CopyTyped, EndingTyped
  <1> QED
    BY <1>1, <1>2, <1>3 DEF DbNext

LEMMA DbTypedHolds == DbSpec => []DbTyped
  BY InitTyped, StepTyped, PTL DEF DbSpec

\* Every variable has its type, and the names db and tmp never stand for one
\* file (sdbsc.c, all its commands).
THEOREM TypeCorrect == DbSpec => []DbTypeOK
  <1>1. DbTyped => DbTypeOK
    BY DEF DbTyped, DbTypeOK, Slots, Locals, LocalOK
  <1> QED
    BY <1>1, DbTypedHolds, PTL

-----------------------------------------------------------------------------
(***************************************************************************)
(* One command after another, and no read of the loops over the file fails *)
(* ("scan"): what the single process that runs knows of the file.          *)
(***************************************************************************)
StudentsUpTo(n) == {disk[db][k] : k \in 1..n} \ {Empty}

\* The students seen so far, each of them once while the slots are their own.
KnowsFile(s) ==
    /\ s.pos <= Len(disk[db])
    /\ ToSet(s.seen) = StudentsUpTo(s.pos)

SeenOnce(s) ==
    \A i \in 1..Len(s.seen) : /\ s.seen[i].id < s.pos
                              /\ \A j \in 1..Len(s.seen) : s.seen[i].id = s.seen[j].id => i = j

\* The student of the n-th slot taken is the n-th one copied.
CopiedInOrder(s) ==
    /\ Len(s.seen) = Cardinality(Taken(disk[db], s.pos))
    /\ \A k \in Taken(disk[db], s.pos) : s.seen[Cardinality(Taken(disk[db], k))] = disk[db][k]

Solo(s) ==
    /\ s.pc # "idle" => db # NoFile /\ s.fd = db
    /\ s.pc = "write" /\ s.cmd = "a" /\ HasSlot(db, s.rec.id) => Slot(db, s.rec.id) = Empty
    /\ s.pc = "write" /\ s.cmd = "d" /\ Uninitialised = {Empty} =>
           HasSlot(db, s.rec.id) /\ Slot(db, s.rec.id) # Empty
    /\ s.pc \in {"scan", "copy"} => KnowsFile(s)
    /\ s.pc = "scan" /\ InPlace => SeenOnce(s)
    /\ s.pc = "copy" => tmp # NoFile /\ s.tfd = tmp /\ disk[tmp] = s.seen /\ CopiedInOrder(s)

OneAtATime == \A p, q \in Procs : proc[p].pc # "idle" /\ proc[q].pc # "idle" => p = q

SoloInv == OneAtATime /\ \A p \in Procs : Solo(proc[p])

LEMMA ToSetAppend ==
    ASSUME NEW S, NEW s \in Seq(S), NEW r \in S
    PROVE  ToSet(Append(s, r)) = ToSet(s) \cup {r}
  <1>1. /\ DOMAIN s = 1..Len(s) /\ Len(s) \in Nat
        /\ DOMAIN Append(s, r) = 1..Len(s) + 1
        /\ \A i \in 1..Len(s) : Append(s, r)[i] = s[i]
        /\ Append(s, r)[Len(s) + 1] = r
    BY AppendProperties, LenProperties
  <1> QED
    BY <1>1 DEF ToSet

LEMMA ToSetEmpty == ToSet(<<>>) = {}
  BY DEF ToSet

\* One more slot has been looked at.
LEMMA OneSlotMore ==
    ASSUME NEW f \in Inodes, disk[f] \in Seq(Slots), f = db, NEW k \in Nat, HasSlot(f, k)
    PROVE  /\ k + 1 <= Len(disk[db])
           /\ StudentsUpTo(k + 1) = StudentsUpTo(k) \cup ({Slot(f, k)} \ {Empty})
  <1>1. 1..k + 1 = (1..k) \cup {k + 1}
    OBVIOUS
  <1>2. Len(disk[f]) \in Nat
    BY LenProperties
  <1> QED
    BY <1>1, <1>2 DEF StudentsUpTo, HasSlot, Slot

LEMMA AllSlots ==
    ASSUME DbTyped, db # NoFile, NEW k \in Nat, k <= Len(disk[db]), ~HasSlot(db, k)
    PROVE  k = Len(disk[db]) /\ StudentsUpTo(k) = Students
  <1>1. disk[db] \in Seq(Slots) /\ Len(disk[db]) \in Nat /\ DOMAIN disk[db] = 1..Len(disk[db])
    BY LenProperties DEF DbTyped
  <1>2. k = Len(disk[db])
    BY <1>1 DEF HasSlot
  <1> QED
    BY <1>1, <1>2 DEF StudentsUpTo, Students, ToSet

\* Only the process that runs changes.
LEMMA OnlyOneMoves ==
    ASSUME DbTyped, NEW p \in Procs, proc' = [proc EXCEPT ![p] = proc'[p]],
           \A q \in Procs : q # p => proc[q].pc = "idle", Solo(proc[p])'
    PROVE  SoloInv'
  <1>1. \A q \in Procs : q # p => proc'[q].pc = "idle"
    BY DEF DbTyped
  <1>2. OneAtATime'
    BY <1>1 DEF OneAtATime
  <1>3. ASSUME NEW q \in Procs, q # p
        PROVE  Solo(proc[q])'
    BY <1>1, <1>3 DEF Solo
  <1> QED
    BY <1>2, <1>3 DEF SoloInv

LEMMA OthersIdle ==
    ASSUME SoloInv, NEW p \in Procs, proc[p].pc # "idle"
    PROVE  \A q \in Procs : q # p => proc[q].pc = "idle"
  BY DEF SoloInv, OneAtATime

LEMMA GoMoves ==
    ASSUME DbTyped, NEW p \in Procs, NEW s, Go(p, s)
    PROVE  proc'[p] = s /\ proc' = [proc EXCEPT ![p] = proc'[p]]
  BY DEF DbTyped, Go

\* The process ends, and with it everything there was to know.
LEMMA ProcessEnds ==
    ASSUME DbTyped, SoloInv, NEW p \in Procs, proc[p].pc # "idle", Go(p, Idle)
    PROVE  SoloInv'
  <1>1. proc'[p].pc = "idle"
    BY GoMoves DEF Idle
  <1>2. Solo(proc[p])'
    BY <1>1 DEF Solo
  <1> QED
    BY <1>2, GoMoves, OthersIdle, OnlyOneMoves

LEMMA StartSolo ==
    ASSUME Exclusive, DbTyped, SoloInv,
           NEW p \in Procs, NEW cmd \in Commands, NEW i \in AskedOf(cmd),
           NEW n \in (IF cmd = "a" THEN Names ELSE {NoName}), Start(p, cmd, i, n)
    PROVE  SoloInv'
  <1>1. \A q \in Procs : proc[q].pc = "idle"
    BY DEF Start
  <1>2. KnowsFile(proc[p])'
    <2>1. Len(disk[db])' \in Nat
      BY Started, LenProperties
    <2>2. \A k : k \notin 1..0
      OBVIOUS
    <2> QED
      BY <2>1, <2>2, Started, ToSetEmpty DEF KnowsFile, StudentsUpTo
  <1>3. SeenOnce(proc[p])'
    BY Started DEF SeenOnce
  <1>4. db' # NoFile
    BY Started, StudentDBAssumption
  <1>5. Solo(proc[p])'
    BY <1>2, <1>3, <1>4, Started DEF Solo
  <1> QED
    BY <1>1, <1>5, Started, OnlyOneMoves

LEMMA AddCheckSolo ==
    ASSUME DbTyped, SoloInv, NEW p \in Procs, AddCheck(p)
    PROVE  SoloInv'
  <1> PICK s : s = [proc[p] EXCEPT !.pc = "write"]
    OBVIOUS
  <1>1. CASE Exit(p, ERR_DB_OP, {})
    BY <1>1, ProcessEnds DEF AddCheck, Exit
  <1>2. CASE Go(p, s) /\ ~(HasSlot(proc[p].fd, proc[p].rec.id) /\ Slot(proc[p].fd, proc[p].rec.id) # Empty)
    <2>1. proc[p] \in Locals /\ Solo(proc[p]) /\ proc[p].pc = "check" /\ proc[p].cmd = "a"
      BY DEF AddCheck, DbTyped, LocalOK, SoloInv
    <2>2. s.pc = "write" /\ s.cmd = "a" /\ s.fd = proc[p].fd /\ s.rec = proc[p].rec
      BY <2>1 DEF Locals
    <2>3. proc'[p] = s
      BY <1>2, GoMoves
    <2>4. disk' = disk /\ db' = db
      BY DEF AddCheck
    <2>5. Solo(proc[p])'
      BY <1>2, <2>1, <2>2, <2>3, <2>4 DEF Solo, HasSlot, Slot
    <2> QED
      BY <1>2, <2>1, <2>5, GoMoves, OthersIdle, OnlyOneMoves
  <1> QED
    BY <1>1, <1>2 DEF AddCheck

LEMMA GetStudentSolo ==
    ASSUME DbTyped, SoloInv, NEW p \in Procs, GetStudent(p)
    PROVE  SoloInv'
  <1> PICK s : s = [proc[p] EXCEPT !.pc = "write"]
    OBVIOUS
  <1>1. proc[p] \in Locals /\ Solo(proc[p]) /\ LocalOK(proc[p]) /\ proc[p].pc = "find"
    BY DEF GetStudent, DbTyped, SoloInv
  <1>2. CASE Go(p, Idle)
    BY <1>1, <1>2, ProcessEnds
  <1>3. CASE /\ Go(p, s) /\ proc[p].cmd = "d"
             /\ Uninitialised = {Empty} => HasSlot(proc[p].fd, proc[p].rec.id)
                                           /\ Slot(proc[p].fd, proc[p].rec.id) # Empty
    <2>1. s.pc = "write" /\ s.cmd = "d" /\ s.fd = proc[p].fd /\ s.rec = proc[p].rec
      BY <1>1, <1>3 DEF Locals
    <2>2. disk' = disk /\ db' = db /\ db # NoFile /\ proc[p].fd = db
      BY <1>1 DEF GetStudent, Solo
    <2>3. proc'[p] = s
      BY <1>1, <1>3, GoMoves
    <2>4. Solo(proc[p])'
      BY <1>3, <2>1, <2>2, <2>3 DEF Solo, HasSlot, Slot
    <2> QED
      BY <1>1, <1>3, <2>4, GoMoves, OthersIdle, OnlyOneMoves
  <1>4. CASE proc[p].rec.id < 0
    BY <1>2, <1>4 DEF GetStudent, Exit
  <1>5. CASE \E r \in IF HasSlot(proc[p].fd, proc[p].rec.id) THEN {Slot(proc[p].fd, proc[p].rec.id)}
                            ELSE IF proc[p].cmd = "f" THEN {Empty} ELSE Uninitialised :
                   IF r = Empty THEN Exit(p, IF proc[p].cmd = "f" THEN SRCH_NOT_FOUND ELSE ERR_DB_OP, {})
                   ELSE IF proc[p].cmd = "f" THEN Exit(p, NO_ERROR, {r})
                   ELSE Go(p, [proc[p] EXCEPT !.pc = "write"]) /\ UNCHANGED reply
    <2>1. PICK r \in IF HasSlot(proc[p].fd, proc[p].rec.id) THEN {Slot(proc[p].fd, proc[p].rec.id)}
                     ELSE IF proc[p].cmd = "f" THEN {Empty} ELSE Uninitialised :
                IF r = Empty THEN Exit(p, IF proc[p].cmd = "f" THEN SRCH_NOT_FOUND ELSE ERR_DB_OP, {})
                ELSE IF proc[p].cmd = "f" THEN Exit(p, NO_ERROR, {r})
                ELSE Go(p, [proc[p] EXCEPT !.pc = "write"]) /\ UNCHANGED reply
      BY <1>5
    <2>2. /\ HasSlot(proc[p].fd, proc[p].rec.id) => r = Slot(proc[p].fd, proc[p].rec.id)
          /\ ~HasSlot(proc[p].fd, proc[p].rec.id) => r = Empty \/ r \in Uninitialised
      BY <2>1
    <2>3. \/ Exit(p, IF proc[p].cmd = "f" THEN SRCH_NOT_FOUND ELSE ERR_DB_OP, {})
          \/ Exit(p, NO_ERROR, {r})
          \/ r # Empty /\ proc[p].cmd # "f" /\ Go(p, s)
      BY <2>1
    <2>4. proc[p].cmd \in {"d", "f"}
      BY <1>1 DEF LocalOK
    <2>5. CASE \E rc, data : Exit(p, rc, data)
      BY <1>2, <2>5 DEF Exit
    <2>6. CASE r # Empty /\ proc[p].cmd # "f" /\ Go(p, s)
      BY <1>3, <2>2, <2>4, <2>6
    <2> QED
      BY <2>3, <2>5, <2>6
  <1>6. \/ proc[p].rec.id < 0
        \/ \E r \in IF HasSlot(proc[p].fd, proc[p].rec.id) THEN {Slot(proc[p].fd, proc[p].rec.id)}
                            ELSE IF proc[p].cmd = "f" THEN {Empty} ELSE Uninitialised :
                   IF r = Empty THEN Exit(p, IF proc[p].cmd = "f" THEN SRCH_NOT_FOUND ELSE ERR_DB_OP, {})
                   ELSE IF proc[p].cmd = "f" THEN Exit(p, NO_ERROR, {r})
                   ELSE Go(p, [proc[p] EXCEPT !.pc = "write"]) /\ UNCHANGED reply
    BY DEF GetStudent
  <1> QED
    BY <1>4, <1>5, <1>6

LEMMA SeenOnceMore ==
    ASSUME DbTyped, NEW m \in Locals, SeenOnce(m), NEW s \in Locals, s.pos = m.pos + 1,
           \/ s.seen = m.seen
           \/ \E r \in Records : r.id = m.pos /\ s.seen = Append(m.seen, r)
    PROVE  SeenOnce(s)
  <1>1. /\ m.pos \in Nat /\ Len(m.seen) \in Nat
        /\ \A i \in 1..Len(m.seen) : m.seen[i] \in Records
    BY LenProperties, ElementOfSeq DEF Locals
  <1>2. \A q \in Records : q.id \in Int
    BY StudentDBAssumption DEF Records, Ids
  <1>3. CASE s.seen = m.seen
    BY <1>1, <1>2, <1>3 DEF SeenOnce
  <1>4. CASE \E r \in Records : r.id = m.pos /\ s.seen = Append(m.seen, r)
    <2> PICK r \in Records : r.id = m.pos /\ s.seen = Append(m.seen, r)
      BY <1>4
    <2>1. /\ Len(s.seen) = Len(m.seen) + 1
          /\ \A i \in 1..Len(m.seen) : s.seen[i] = m.seen[i]
          /\ s.seen[Len(m.seen) + 1] = r
      BY AppendProperties DEF Locals
    <2>2. \A i \in 1..Len(s.seen) : i \in 1..Len(m.seen) \/ i = Len(m.seen) + 1
      BY <1>1, <2>1
    <2>3. \A i \in 1..Len(s.seen) : s.seen[i].id < s.pos
      BY <1>1, <1>2, <2>1, <2>2 DEF SeenOnce
    <2>4. ASSUME NEW i \in 1..Len(s.seen), NEW j \in 1..Len(s.seen), s.seen[i].id = s.seen[j].id
          PROVE  i = j
      <3>1. \A k \in 1..Len(m.seen) : m.seen[k].id # r.id
        BY <1>1, <1>2 DEF SeenOnce
      <3>2. CASE i \in 1..Len(m.seen) /\ j \in 1..Len(m.seen)
        BY <2>1, <2>4, <3>2 DEF SeenOnce
      <3> QED
        BY <2>1, <2>2, <2>4, <3>1, <3>2
    <2> QED
      BY <2>3, <2>4 DEF SeenOnce
  <1> QED
    BY <1>3, <1>4

LEMMA ScanSolo ==
    ASSUME DbTyped, SoloInv, NEW p \in Procs, Scan(p)
    PROVE  SoloInv'
  <1> DEFINE m == proc[p]
             r == Slot(m.fd, m.pos)
  <1> PICK s : s = [proc[p] EXCEPT !.pos = @ + 1, !.seen = IF r = Empty THEN @ ELSE Append(@, r)]
    OBVIOUS
  <1>1. /\ m \in Locals /\ Solo(m) /\ m.pc = "scan" /\ HasSlot(m.fd, m.pos)
        /\ Go(p, s) /\ disk' = disk /\ db' = db
    BY DEF Scan, DbTyped, SoloInv
  <1>2. m.fd = db /\ db \in Inodes /\ disk[db] \in Seq(Slots) /\ m.pos \in Nat
    BY <1>1 DEF Solo, DbTyped, Locals
  <1>3. m.pos + 1 \in DOMAIN disk[db] /\ r \in Slots
    BY <1>1, <1>2, SlotType DEF DbTyped
  <1>4. proc'[p] = s /\ s \in Locals
    BY <1>1, GoMoves, ScanTyped DEF DbTyped
  <1>5. /\ s.pc = "scan" /\ s.fd = db /\ s.pos = m.pos + 1
        /\ s.seen = IF r = Empty THEN m.seen ELSE Append(m.seen, r)
    BY <1>1, <1>2 DEF Locals
  <1>6. KnowsFile(s)
    <2>1. r # Empty => r \in Records /\ ToSet(Append(m.seen, r)) = ToSet(m.seen) \cup {r}
      BY <1>1, <1>3, ToSetAppend DEF Slots, Locals
    <2>2. /\ m.pos + 1 <= Len(disk[db])
          /\ StudentsUpTo(m.pos + 1) = StudentsUpTo(m.pos) \cup ({r} \ {Empty})
      BY <1>1, <1>2, OneSlotMore
    <2>3. ToSet(m.seen) = StudentsUpTo(m.pos)
      BY <1>1 DEF Solo, KnowsFile
    <2>4. ToSet(s.seen) = ToSet(m.seen) \cup ({r} \ {Empty})
      BY <1>5, <2>1
    <2> QED
      BY <1>5, <2>2, <2>3, <2>4 DEF KnowsFile
  <1>7. InPlace => SeenOnce(s)
    <2> SUFFICES ASSUME InPlace PROVE SeenOnce(s)
      OBVIOUS
    <2>1. r # Empty => r \in Records /\ r.id = m.pos
      <3>1. db # NoFile
        BY <1>2, StudentDBAssumption
      <3>2. r = disk[db][m.pos + 1]
        BY <1>2 DEF Slot
      <3>3. r # Empty => r.id = (m.pos + 1) - 1
        BY <1>3, <3>1, <3>2 DEF InPlace
      <3> QED
        BY <1>2, <1>3, <3>3 DEF Slots
    <2> QED
      BY <1>1, <1>4, <1>5, <2>1, SeenOnceMore DEF Solo
  <1>8. Solo(proc[p])'
    <2>1. InPlace' <=> InPlace
      BY <1>1 DEF InPlace
    <2>2. KnowsFile(proc[p])'
      BY <1>1, <1>4, <1>6 DEF KnowsFile, StudentsUpTo
    <2>3. InPlace => SeenOnce(proc[p])'
      BY <1>4, <1>7 DEF SeenOnce
    <2>4. db' # NoFile
      BY <1>1, <1>2, StudentDBAssumption
    <2> QED
      BY <1>1, <1>4, <1>5, <2>1, <2>2, <2>3, <2>4 DEF Solo
  <1> QED
    BY <1>1, <1>8, GoMoves, OthersIdle, OnlyOneMoves

LEMMA TakenMore ==
    ASSUME NEW slots \in Seq(Slots), NEW k \in Nat, k + 1 <= Len(slots)
    PROVE  /\ Cardinality(Taken(slots, k)) \in Nat
           /\ slots[k + 1] = Empty => Taken(slots, k + 1) = Taken(slots, k)
           /\ slots[k + 1] # Empty =>
                /\ Taken(slots, k + 1) = Taken(slots, k) \cup {k + 1}
                /\ Cardinality(Taken(slots, k + 1)) = Cardinality(Taken(slots, k)) + 1
           /\ \A i \in Taken(slots, k) : Cardinality(Taken(slots, i)) \in 1..Cardinality(Taken(slots, k))
  <1>1. IsFiniteSet(1..k) /\ Taken(slots, k) \subseteq 1..k
    BY FS_Interval DEF Taken
  <1>2. IsFiniteSet(Taken(slots, k)) /\ Cardinality(Taken(slots, k)) \in Nat
    BY <1>1, FS_Subset, FS_CardinalityType
  <1>3. 1..k + 1 = (1..k) \cup {k + 1} /\ k + 1 \notin 1..k
    OBVIOUS
  <1>4. slots[k + 1] = Empty => Taken(slots, k + 1) = Taken(slots, k)
    BY <1>3 DEF Taken
  <1>5. ASSUME slots[k + 1] # Empty
        PROVE  /\ Taken(slots, k + 1) = Taken(slots, k) \cup {k + 1}
               /\ Cardinality(Taken(slots, k + 1)) = Cardinality(Taken(slots, k)) + 1
    <2>1. Taken(slots, k + 1) = Taken(slots, k) \cup {k + 1} /\ k + 1 \notin Taken(slots, k)
      BY <1>3, <1>5 DEF Taken
    <2> QED
      BY <1>2, <2>1, FS_AddElement
  <1>6. ASSUME NEW i \in Taken(slots, k)
        PROVE  Cardinality(Taken(slots, i)) \in 1..Cardinality(Taken(slots, k))
    <2>1. i \in 1..k /\ i \in Taken(slots, i) /\ Taken(slots, i) \subseteq Taken(slots, k)
      BY DEF Taken
    <2>2. /\ IsFiniteSet(Taken(slots, i))
          /\ Cardinality(Taken(slots, i)) \in Nat
          /\ Cardinality(Taken(slots, i)) <= Cardinality(Taken(slots, k))
      BY <1>2, <2>1, FS_Subset, FS_CardinalityType
    <2>3. Cardinality(Taken(slots, i)) # 0
      BY <2>1, <2>2, FS_EmptySet
    <2> QED
      BY <1>2, <2>2, <2>3
  <1> QED
    BY <1>2, <1>4, <1>5, <1>6

LEMMA NoneTaken ==
    ASSUME NEW slots
    PROVE  Taken(slots, 0) = {} /\ Cardinality({}) = 0
  <1>1. \A k : k \notin 1..0
    OBVIOUS
  <1> QED
    BY <1>1, FS_EmptySet DEF Taken

LEMMA MakeTmpSolo ==
    ASSUME DbTyped, SoloInv, NEW p \in Procs, MakeTmp(p)
    PROVE  SoloInv' /\ disk'[db] = disk[db]
  <1> DEFINE m == proc[p]
  <1> PICK s : s = [proc[p] EXCEPT !.pc = "copy", !.tfd = tmp']
    OBVIOUS
  <1>1. /\ m \in Locals /\ Solo(m) /\ LocalOK(m) /\ m.pc = "mktmp"
        /\ Go(p, s) /\ disk' = [disk EXCEPT ![tmp'] = <<>>] /\ db' = db
    BY DEF MakeTmp, DbTyped, SoloInv
  <1>2. m.fd = db /\ db \in Inodes /\ db # NoFile
    BY <1>1 DEF Solo, DbTyped
  <1>3. tmp' \in Inodes /\ tmp' # db
    BY <1>2, MakeTmpTyped
  <1>4. disk'[db] = disk[db] /\ disk'[tmp'] = <<>>
    BY <1>1, <1>2, <1>3 DEF DbTyped
  <1>5. m.pos = 0 /\ m.seen = <<>>
    BY <1>1 DEF LocalOK
  <1>6. s.pc = "copy" /\ s.fd = db /\ s.tfd = tmp' /\ s.pos = 0 /\ s.seen = <<>>
    BY <1>1, <1>2, <1>3, <1>5 DEF Locals
  <1>7. proc'[p] = s
    BY <1>1, GoMoves
  <1>8. KnowsFile(proc[p])'
    <2>1. Len(disk[db]) \in Nat
      BY <1>2, LenProperties DEF DbTyped
    <2>2. \A k : k \notin 1..0
      OBVIOUS
    <2> QED
      BY <1>1, <1>4, <1>6, <1>7, <2>1, <2>2, ToSetEmpty DEF KnowsFile, StudentsUpTo
  <1>9. CopiedInOrder(proc[p])'
    <2>1. Len(proc'[p].seen) = 0 /\ proc'[p].pos = 0
      BY <1>6, <1>7, EmptySeq
    <2>2. Taken(disk'[db'], 0) = {} /\ Cardinality({}) = 0
      BY NoneTaken
    <2> QED
      BY <2>1, <2>2 DEF CopiedInOrder
  <1>10. Solo(proc[p])'
    BY <1>1, <1>2, <1>3, <1>4, <1>6, <1>7, <1>8, <1>9, StudentDBAssumption DEF Solo
  <1> QED
    BY <1>1, <1>4, <1>10, GoMoves, OthersIdle, OnlyOneMoves

\* A write right behind the last slot lengthens the file by one.
LEMMA WrittenBehind ==
    ASSUME NEW s \in Seq(Slots), NEW r \in Slots
    PROVE  Written(s, Len(s), r) = Append(s, r)
  <1>1. Len(s) \in Nat
    BY LenProperties
  <1>2. /\ Written(s, Len(s), r) \in Seq(Slots)
        /\ Len(Written(s, Len(s), r)) = Len(s) + 1
        /\ \A i \in 1..Len(s) + 1 : Written(s, Len(s), r)[i] = IF i = Len(s) + 1 THEN r ELSE s[i]
    <2>1. Len(Written(s, Len(s), r)) = Len(s) + 1 /\ Written(s, Len(s), r) \in Seq(Slots)
      BY <1>1, WrittenIs
    <2>2. \A i \in 1..Len(Written(s, Len(s), r)) : Written(s, Len(s), r)[i] =
            IF i = Len(s) + 1 THEN r ELSE IF i <= Len(s) THEN s[i] ELSE Empty
      <3>1. ASSUME NEW k \in Nat
            PROVE  \A i \in 1..Len(Written(s, k, r)) : Written(s, k, r)[i] =
                     IF i = k + 1 THEN r ELSE IF i <= Len(s) THEN s[i] ELSE Empty
        BY WrittenIs
      <3> QED
        BY <1>1, <3>1, Zenon
    <2> QED
      BY <1>1, <2>1, <2>2
  <1>3. /\ Append(s, r) \in Seq(Slots) /\ Len(Append(s, r)) = Len(s) + 1
        /\ \A i \in 1..Len(s) + 1 : Append(s, r)[i] = IF i = Len(s) + 1 THEN r ELSE s[i]
    BY <1>1, AppendProperties
  <1> QED
    BY <1>2, <1>3, SeqEqual

LEMMA CopySolo ==
    ASSUME DbTyped, SoloInv, NEW p \in Procs, Copy(p)
    PROVE  SoloInv' /\ disk'[db] = disk[db]
  <1> DEFINE m == proc[p]
             r == Slot(m.fd, m.pos)
  <1>1. /\ m \in Locals /\ Solo(m) /\ LocalOK(m) /\ m.pc = "copy" /\ HasSlot(m.fd, m.pos)
        /\ db' = db /\ tmp' = tmp
    BY DEF Copy, DbTyped, SoloInv
  <1>2. m.fd = db /\ db \in Inodes /\ disk[db] \in Seq(Slots) /\ m.pos \in Nat
    BY <1>1 DEF Solo, DbTyped, Locals
  <1>3. r \in Slots
    BY <1>1, <1>2, SlotType DEF DbTyped
  <1>4. m.tfd = tmp /\ tmp \in Inodes /\ tmp # db /\ disk[tmp] = m.seen
    BY <1>1, <1>2, StudentDBAssumption DEF Solo, DbTyped, LocalOK
  <1>5. /\ proc' = [proc EXCEPT ![p] = proc'[p]]
        /\ proc'[p].pc = "copy" /\ proc'[p].fd = db /\ proc'[p].tfd = tmp /\ proc'[p].pos = m.pos + 1
        /\ proc'[p].seen = IF r = Empty THEN m.seen ELSE Append(m.seen, r)
        /\ disk' = IF r = Empty THEN disk ELSE [disk EXCEPT ![tmp] = Append(m.seen, r)]
    <2>1. CASE r = Empty
      <3> PICK s : s = [m EXCEPT !.pos = @ + 1]
        OBVIOUS
      <3>1. Go(p, s) /\ disk' = disk
        BY <2>1 DEF Copy
      <3>2. s.pc = "copy" /\ s.fd = db /\ s.tfd = tmp /\ s.pos = m.pos + 1 /\ s.seen = m.seen
        BY <1>1, <1>2, <1>4 DEF Locals
      <3> QED
        BY <2>1, <3>1, <3>2, GoMoves
    <2>2. CASE r # Empty
      <3> PICK s : s = [m EXCEPT !.pos = @ + 1, !.seen = Append(@, r)]
        OBVIOUS
      <3>1. Go(p, s) /\ disk' = [disk EXCEPT ![m.tfd] = Written(@, Len(m.seen), r)]
        BY <2>2 DEF Copy
      <3>2. s.pc = "copy" /\ s.fd = db /\ s.tfd = tmp /\ s.pos = m.pos + 1 /\ s.seen = Append(m.seen, r)
        BY <1>1, <1>2, <1>4 DEF Locals
      <3>3. Written(disk[tmp], Len(m.seen), r) = Append(m.seen, r)
        <4>1. disk[tmp] \in Seq(Slots)
          BY <1>4 DEF DbTyped
        <4>2. Written(disk[tmp], Len(disk[tmp]), r) = Append(disk[tmp], r)
          BY <1>3, <4>1, WrittenBehind DEF Slots
        <4> QED
          BY <1>4, <4>2
      <3>4. disk' = [disk EXCEPT ![tmp] = Append(m.seen, r)]
        BY <1>4, <3>1, <3>3
      <3> QED
        BY <2>2, <3>1, <3>2, <3>4, GoMoves
    <2> QED
      BY <2>1, <2>2
  <1>6. disk'[db] = disk[db] /\ disk'[tmp] = proc'[p].seen
    BY <1>2, <1>4, <1>5 DEF DbTyped
  <1>7. KnowsFile(proc[p])'
    <2>1. r # Empty => ToSet(Append(m.seen, r)) = ToSet(m.seen) \cup {r}
      BY <1>1, <1>3, ToSetAppend DEF Slots, Locals
    <2>2. /\ m.pos + 1 <= Len(disk[db])
          /\ StudentsUpTo(m.pos + 1) = StudentsUpTo(m.pos) \cup ({r} \ {Empty})
      BY <1>1, <1>2, OneSlotMore
    <2>3. ToSet(m.seen) = StudentsUpTo(m.pos)
      BY <1>1 DEF Solo, KnowsFile
    <2>4. ToSet(proc'[p].seen) = StudentsUpTo(m.pos + 1)
      BY <1>5, <2>1, <2>2, <2>3
    <2>5. StudentsUpTo(m.pos + 1) = {disk'[db][k] : k \in 1..m.pos + 1} \ {Empty}
      BY <1>6 DEF StudentsUpTo
    <2>6. proc'[p].pos = m.pos + 1 /\ db' = db
      BY <1>1, <1>5
    <2> QED
      BY <1>6, <2>2, <2>4, <2>5, <2>6 DEF KnowsFile, StudentsUpTo
  <1>8. CopiedInOrder(proc[p])'
    <2> DEFINE slots == disk[db]
               n(k) == Cardinality(Taken(slots, k))
    <2>1. /\ Len(m.seen) = n(m.pos) /\ Len(m.seen) \in Nat
          /\ \A k \in Taken(slots, m.pos) : m.seen[n(k)] = slots[k]
      BY <1>1, LenProperties DEF Solo, CopiedInOrder, Locals
    <2>2. r = slots[m.pos + 1] /\ m.pos + 1 <= Len(slots) /\ m.pos + 1 \in Nat
      BY <1>1, <1>2, OneSlotMore DEF Slot
    <2>3. disk'[db'] = slots /\ proc'[p].pos = m.pos + 1
      BY <1>1, <1>5, <1>6
    <2>4. \A k \in Taken(slots, m.pos) : n(k) \in 1..Len(m.seen)
      BY <1>2, <2>1, <2>2, TakenMore
    <2>5. Len(proc'[p].seen) = n(m.pos + 1)
      <3>1. CASE r = Empty
        BY <1>2, <1>5, <2>1, <2>2, <3>1, TakenMore
      <3>2. CASE r # Empty
        <4>1. n(m.pos + 1) = n(m.pos) + 1
          BY <1>2, <2>2, <3>2, TakenMore
        <4>2. Len(Append(m.seen, r)) = Len(m.seen) + 1
          BY <1>1, <1>3, <3>2, AppendProperties DEF Slots, Locals
        <4> QED
          BY <1>5, <2>1, <3>2, <4>1, <4>2
      <3> QED
        BY <3>1, <3>2
    <2>6. ASSUME NEW k \in Taken(slots, m.pos + 1)
          PROVE  proc'[p].seen[n(k)] = slots[k]
      <3>1. CASE r = Empty
        BY <1>2, <1>5, <2>1, <2>2, <2>6, <3>1, TakenMore
      <3>2. CASE r # Empty
        <4>1. k \in Taken(slots, m.pos) \/ k = m.pos + 1
          BY <1>2, <2>2, <2>6, <3>2, TakenMore
        <4>2. /\ \A i \in 1..Len(m.seen) : Append(m.seen, r)[i] = m.seen[i]
              /\ Append(m.seen, r)[Len(m.seen) + 1] = r
          BY <1>1, <1>3, <3>2, AppendProperties DEF Slots, Locals
        <4>3. CASE k \in Taken(slots, m.pos)
          BY <1>5, <2>1, <2>4, <3>2, <4>2, <4>3
        <4>4. CASE k = m.pos + 1
          <5>1. n(k) = Len(m.seen) + 1
            BY <1>2, <2>1, <2>2, <3>2, <4>4, TakenMore
          <5> QED
            BY <1>5, <2>2, <3>2, <4>2, <4>4, <5>1
        <4> QED
          BY <4>1, <4>3, <4>4
      <3> QED
        BY <3>1, <3>2
    <2> QED
      BY <2>3, <2>5, <2>6 DEF CopiedInOrder
  <1>9. Solo(proc[p])'
    BY <1>1, <1>2, <1>4, <1>5, <1>6, <1>7, <1>8, StudentDBAssumption DEF Solo
  <1> QED
    BY <1>1, <1>5, <1>6, <1>9, OthersIdle, OnlyOneMoves

LEMMA InitSolo ==
    ASSUME DbInit
    PROVE  SoloInv
  BY DEF DbInit, SoloInv, OneAtATime, Solo, Idle

LEMMA StepSolo ==
    ASSUME Exclusive, DbTyped, SoloInv, [DbNext]_dbVars
    PROVE  SoloInv'
  <1>1. CASE UNCHANGED dbVars
    <2>1. ASSUME NEW p \in Procs
          PROVE  Solo(proc[p])'
      <3>1. Solo(proc[p]) /\ proc' = proc /\ db' = db /\ tmp' = tmp /\ disk' = disk
        BY <1>1 DEF dbVars, SoloInv
      <3>2. KnowsFile(proc[p]) => KnowsFile(proc[p])'
        BY <3>1 DEF KnowsFile, StudentsUpTo
      <3>3. SeenOnce(proc[p]) => SeenOnce(proc[p])'
        BY <3>1 DEF SeenOnce
      <3>4. CopiedInOrder(proc[p]) => CopiedInOrder(proc[p])'
        BY <3>1 DEF CopiedInOrder
      <3>5. InPlace' <=> InPlace
        BY <3>1 DEF InPlace
      <3> QED
        BY <3>1, <3>2, <3>3, <3>4, <3>5 DEF Solo, HasSlot, Slot
    <2>2. OneAtATime'
      BY <1>1 DEF dbVars, SoloInv, OneAtATime
    <2> QED
      BY <2>1, <2>2 DEF SoloInv
  <1>2. ASSUME NEW p \in Procs, NEW cmd \in Commands, NEW i \in AskedOf(cmd),
               NEW n \in (IF cmd = "a" THEN Names ELSE {NoName}), Start(p, cmd, i, n)
        PROVE  SoloInv'
    BY <1>2, StartSolo
  <1>3. ASSUME NEW p \in Procs, WriteSlot(p) \/ ScanEnd(p) \/ Swap(p) \/ Truncate(p) \/ CallFails(p) \/ Crash(p)
        PROVE  SoloInv'
    <2>1. proc[p].pc # "idle" /\ Go(p, Idle)
      BY <1>3 DEF WriteSlot, ScanEnd, Swap, Truncate, CallFails, Crash, Exit
    <2> QED
      BY <2>1, ProcessEnds
  <1>4. ASSUME NEW p \in Procs, AddCheck(p) \/ GetStudent(p) \/ Scan(p) \/ MakeTmp(p) \/ Copy(p)
        PROVE  SoloInv'
    BY <1>4, AddCheckSolo, GetStudentSolo, ScanSolo, MakeTmpSolo, CopySolo
  <1> QED
    BY <1>1, <1>2, <1>3, <1>4 DEF DbNext

LEMMA SoloHolds ==
    ASSUME Exclusive
    PROVE  DbSpec => [](DbTyped /\ SoloInv)
  <1>1. DbTyped /\ SoloInv /\ [DbNext]_dbVars => (DbTyped /\ SoloInv)'
    BY StepTyped, StepSolo
  <1> QED
    BY <1>1, InitTyped, InitSolo, PTL DEF DbSpec

\* What a compression that reaches the rename puts in place.
LEMMA SwapIsComplete ==
    ASSUME DbTyped, SoloInv, "scan" \notin Faults, NEW p \in Procs, Swap(p)
    PROVE  /\ disk' = disk /\ db # NoFile /\ db \in Inodes
           /\ db' # db => tmp \in Inodes /\ db' = tmp /\ disk[tmp] = proc[p].seen
           /\ proc[p].pos = Len(disk[db]) /\ KnowsFile(proc[p]) /\ CopiedInOrder(proc[p])
           /\ ToSet(proc[p].seen) = Students
  <1>1. /\ proc[p].pc = "copy" /\ Solo(proc[p]) /\ proc[p] \in Locals
        /\ LooksLikeEnd(proc[p].fd, proc[p].pos) /\ disk' = disk
        /\ db' # db => db' = tmp /\ tmp # NoFile
    BY DEF Swap, SoloInv, DbTyped
  <1>2. /\ db # NoFile /\ db \in Inodes /\ proc[p].fd = db /\ proc[p].pos \in Nat
        /\ KnowsFile(proc[p]) /\ CopiedInOrder(proc[p]) /\ disk[tmp] = proc[p].seen
    BY <1>1 DEF Solo, DbTyped, Locals
  <1>3. ~HasSlot(db, proc[p].pos)
    BY <1>1, <1>2 DEF LooksLikeEnd
  <1>4. proc[p].pos = Len(disk[db]) /\ ToSet(proc[p].seen) = Students
    BY <1>2, <1>3, AllSlots DEF KnowsFile
  <1> QED
    BY <1>1, <1>2, <1>4 DEF DbTyped

\* Commands run one after another, and the loops over the file read it to its
\* end: a compression, whatever an earlier and killed one left behind, puts the
\* students in place in their order and without a gap (sdbsc.c:434-479).
THEOREM CompressExact ==
    ASSUME Exclusive, "scan" \notin Faults
    PROVE  DbSpec => CompressIsExact
  <1>1. ASSUME DbTyped, SoloInv, DbNext, db' # db, db # NoFile
        PROVE  /\ Len(disk'[db']) = Cardinality(Taken(disk[db], Len(disk[db])))
               /\ \A k \in Taken(disk[db], Len(disk[db])) :
                    disk'[db'][Cardinality(Taken(disk[db], k))] = disk[db][k]
    <2>1. PICK p \in Procs : Swap(p)
      BY <1>1 DEF DbNext, Start, AddCheck, WriteSlot, GetStudent, Scan, ScanEnd, MakeTmp, Copy,
                  Truncate, CallFails, Crash
    <2> QED
      BY <1>1, <2>1, SwapIsComplete DEF CopiedInOrder
  <1>2. DbTyped /\ SoloInv /\ [DbNext]_dbVars =>
          [db' # db /\ db # NoFile =>
             LET old == disk[db]
                 new == disk'[db'] IN
             /\ Len(new) = Cardinality(Taken(old, Len(old)))
             /\ \A k \in Taken(old, Len(old)) : new[Cardinality(Taken(old, k))] = old[k]]_dbVars
    BY <1>1 DEF dbVars
  <1> QED
    BY <1>2, SoloHolds, PTL DEF DbSpec, CompressIsExact

\* How a step that leaves the file alone leaves its students alone.
LEMMA StudentsStay ==
    ASSUME db' = db, disk'[db] = disk[db]
    PROVE  Students' = Students
  BY DEF Students

AsAsked(p) ==
    \/ proc[p].pc = "write" /\ proc[p].cmd = "a" /\ Students' = Students \cup {proc[p].rec}
    \/ /\ proc[p].pc = "write" /\ proc[p].cmd = "d"
       /\ IF InPlace THEN Students' = {r \in Students : r.id # proc[p].rec.id}
          ELSE \E r \in Students : Students' = Students \ {r}
    \/ proc[p].pc = "trunc" /\ Students' = {}

LEMMA StartStudents ==
    ASSUME DbTyped, NEW p \in Procs, NEW cmd \in Commands, NEW i \in AskedOf(cmd),
           NEW n \in (IF cmd = "a" THEN Names ELSE {NoName}), Start(p, cmd, i, n)
    PROVE  Students' = Students
  <1>1. CASE db # NoFile
    BY <1>1, Started, StudentsStay
  <1>2. CASE db = NoFile
    <2>1. disk'[db'] = <<>> /\ db' # NoFile
      BY <1>2, Started, StudentDBAssumption DEF DbTyped
    <2> QED
      BY <1>2, <2>1, ToSetEmpty DEF Students
  <1> QED
    BY <1>1, <1>2

LEMMA WriteStudents ==
    ASSUME DbTyped, SoloInv, NEW p \in Procs, WriteSlot(p)
    PROVE  Students' = Students \/ AsAsked(p)
  <1> DEFINE me == proc[p]
             k == me.rec.id
             r == IF me.cmd = "a" THEN me.rec ELSE Empty
             s == disk[db]
             w == Written(s, k, r)
  <1>1. /\ me.pc = "write" /\ Solo(me) /\ LocalOK(me) /\ me \in Locals /\ me.cmd \in {"a", "d"}
        /\ disk' = [disk EXCEPT ![me.fd] = Written(@, k, r)] /\ db' = db
    BY DEF WriteSlot, DbTyped, SoloInv, LocalOK
  <1>2. db \in Inodes /\ db # NoFile /\ me.fd = db /\ k \in Nat /\ r \in Slots /\ s \in Seq(Slots)
    BY <1>1, StudentDBAssumption DEF Solo, DbTyped, LocalOK, Locals, Slots, AskedIds
  <1>3. disk'[db] = w
    BY <1>1, <1>2 DEF DbTyped
  <1>4. /\ Len(s) \in Nat /\ DOMAIN s = 1..Len(s) /\ w \in Seq(Slots)
        /\ Len(w) = (IF k < Len(s) THEN Len(s) ELSE k + 1) /\ DOMAIN w = 1..Len(w)
    <2> HIDE DEF k, r, s
    <2>1. w \in Seq(Slots) /\ Len(w) = IF k < Len(s) THEN Len(s) ELSE k + 1
      BY <1>2, WrittenIs
    <2> QED
      BY <1>2, <2>1, LenProperties
  <1>5. \A i \in 1..Len(w) : w[i] = IF i = k + 1 THEN r ELSE IF i <= Len(s) THEN s[i] ELSE Empty
    <2> HIDE DEF k, r, s
    <2> QED
      BY <1>2, WrittenIs
  <1>6. Students = ToSet(s) \ {Empty} /\ Students' = ToSet(w) \ {Empty}
    BY <1>1, <1>2, <1>3 DEF Students
  <1>7. \A x : x \in Students' <=> x # Empty /\ \E i \in 1..Len(w) : w[i] = x
    BY <1>4, <1>6 DEF ToSet
  <1>8. \A x : x \in Students <=> x # Empty /\ \E i \in 1..Len(s) : s[i] = x
    BY <1>4, <1>6 DEF ToSet
  <1>9. \A i \in 1..Len(s) : i \in 1..Len(w) /\ (i # k + 1 => w[i] = s[i])
    <2> HIDE DEF k, r, s, w
    <2> QED
      BY <1>2, <1>4, <1>5
  <1>10. \A i \in 1..Len(w) : i = k + 1 \/ w[i] = Empty \/ (i \in 1..Len(s) /\ w[i] = s[i])
    <2> HIDE DEF k, r, s, w
    <2> QED
      BY <1>2, <1>4, <1>5
  <1>11. k + 1 \in 1..Len(w) /\ w[k + 1] = r
    BY <1>2, <1>4, <1>5
  <1>12. CASE me.cmd = "a"
    <2>1. r = me.rec /\ r # Empty
      BY <1>1, <1>12, StudentDBAssumption DEF LocalOK, Records, Empty, Ids
    <2>2. k + 1 \in 1..Len(s) => s[k + 1] = Empty
      BY <1>1, <1>2, <1>4, <1>12 DEF Solo, HasSlot, Slot
    <2>3. \A x : x \in Students' <=> x \in Students \cup {r}
      BY <1>7, <1>8, <1>9, <1>10, <1>11, <2>1, <2>2
    <2> QED
      BY <1>1, <1>12, <2>1, <2>3 DEF AsAsked
  <1>13. CASE me.cmd = "d"
    <2>1. r = Empty
      BY <1>13
    <2>2. CASE k + 1 \in 1..Len(s) /\ s[k + 1] # Empty
      <3>1. s[k + 1] \in Students
        BY <1>8, <2>2
      <3>2. \A x : x \in Students' => x \in Students
        BY <1>7, <1>8, <1>10, <1>11, <2>1
      <3>3. \A x : x \in Students /\ x # s[k + 1] => x \in Students'
        BY <1>7, <1>8, <1>9
      <3>4. CASE InPlace
        <4>1. \A i \in 1..Len(s) : s[i] # Empty => s[i].id = i - 1
          BY <1>2, <1>4, <3>4 DEF InPlace
        <4>2. ASSUME NEW x PROVE x \in Students' <=> x \in Students /\ x.id # k
          <5>1. ASSUME x \in Students' PROVE x \in Students /\ x.id # k
            <6>1. PICK i \in 1..Len(w) : w[i] = x /\ x # Empty
              BY <1>7, <5>1
            <6>2. i # k + 1 /\ i \in 1..Len(s) /\ s[i] = x
              BY <1>10, <1>11, <2>1, <6>1
            <6>3. x.id = i - 1
              BY <4>1, <6>1, <6>2
            <6> HIDE DEF k, s, w
            <6> QED
              BY <1>2, <1>4, <3>2, <5>1, <6>2, <6>3
          <5>2. ASSUME x \in Students, x.id # k PROVE x \in Students'
            <6>1. s[k + 1].id = k
              <7> HIDE DEF k, s, w
              <7> QED
                BY <1>2, <2>2, <4>1
            <6> QED
              BY <3>3, <5>2, <6>1
          <5> QED
            BY <5>1, <5>2
        <4>3. Students' = {x \in Students : x.id # k}
          BY <4>2
        <4> QED
          BY <1>1, <1>13, <3>4, <4>3 DEF AsAsked
      <3>5. CASE ~InPlace
        <4>1. Students' = Students \/ Students' = Students \ {s[k + 1]}
          BY <3>1, <3>2, <3>3
        <4> QED
          BY <1>1, <1>13, <3>1, <3>5, <4>1 DEF AsAsked
      <3> QED
        BY <3>4, <3>5
    <2>3. CASE ~(k + 1 \in 1..Len(s) /\ s[k + 1] # Empty)
      <3>1. \A x : x \in Students' <=> x \in Students
        BY <1>7, <1>8, <1>9, <1>10, <1>11, <2>1, <2>3
      <3> QED
        BY <3>1
    <2> QED
      BY <2>2, <2>3
  <1> QED
    BY <1>1, <1>12, <1>13

LEMMA StepStudents ==
    ASSUME DbTyped, SoloInv, "scan" \notin Faults, DbNext
    PROVE  Students' = Students \/ \E p \in Procs : AsAsked(p)
  <1>1. ASSUME NEW p \in Procs, NEW cmd \in Commands, NEW i \in AskedOf(cmd),
               NEW n \in (IF cmd = "a" THEN Names ELSE {NoName}), Start(p, cmd, i, n)
        PROVE  Students' = Students
    BY <1>1, StartStudents
  <1>2. ASSUME NEW p \in Procs,
               AddCheck(p) \/ GetStudent(p) \/ Scan(p) \/ ScanEnd(p) \/ CallFails(p) \/ Crash(p)
        PROVE  Students' = Students
    BY <1>2, StudentsStay DEF AddCheck, GetStudent, Scan, ScanEnd, CallFails, Crash
  <1>3. ASSUME NEW p \in Procs, MakeTmp(p) \/ Copy(p)
        PROVE  Students' = Students
    BY <1>3, MakeTmpSolo, CopySolo, StudentsStay DEF MakeTmp, Copy
  <1>4. ASSUME NEW p \in Procs, Swap(p)
        PROVE  Students' = Students
    <2>1. CASE db' = db
      BY <1>4, <2>1, StudentsStay DEF Swap
    <2>2. CASE db' # db
      <3>1. /\ disk'[db'] = proc[p].seen /\ proc[p].seen \in Seq(Records) /\ db' # NoFile
            /\ ToSet(proc[p].seen) = Students
        BY <1>4, <2>2, SwapIsComplete, StudentDBAssumption DEF DbTyped, Locals
      <3>2. Empty \notin Students
        BY DEF Students
      <3> QED
        BY <3>1, <3>2 DEF Students
    <2> QED
      BY <2>1, <2>2
  <1>5. ASSUME NEW p \in Procs, Truncate(p)
        PROVE  AsAsked(p)
    <2>1. disk'[db'] = <<>> /\ db' # NoFile /\ proc[p].pc = "trunc"
      BY <1>5 DEF Truncate, DbTyped
    <2> QED
      BY <2>1, ToSetEmpty DEF Students, AsAsked
  <1>6. ASSUME NEW p \in Procs, WriteSlot(p)
        PROVE  Students' = Students \/ AsAsked(p)
    BY <1>6, WriteStudents
  <1> QED
    BY <1>1, <1>2, <1>3, <1>4, <1>5, <1>6 DEF DbNext

\* Commands run one after another, and the loops over the file read it to its
\* end: only an add, a delete and a zero change who is in the database, each as
\* asked, whatever fails or is killed between them (sdbsc.c:434-479).
THEOREM ChangesAsAsked ==
    ASSUME Exclusive, "scan" \notin Faults
    PROVE  DbSpec => OnlyAsAsked
  <1>1. DbTyped /\ SoloInv /\ [DbNext]_dbVars =>
          [\/ Students' = Students
           \/ \E p \in Procs :
                \/ proc[p].pc = "write" /\ proc[p].cmd = "a" /\ Students' = Students \cup {proc[p].rec}
                \/ /\ proc[p].pc = "write" /\ proc[p].cmd = "d"
                   /\ IF InPlace THEN Students' = {r \in Students : r.id # proc[p].rec.id}
                      ELSE \E r \in Students : Students' = Students \ {r}
                \/ proc[p].pc = "trunc" /\ Students' = {}]_dbVars
    BY StepStudents DEF AsAsked
  <1> QED
    BY <1>1, SoloHolds, PTL DEF DbSpec, OnlyAsAsked

-----------------------------------------------------------------------------
(***************************************************************************)
(* The refinement: each step is one of StudentStore or changes nothing     *)
(* there.                                                                  *)
(***************************************************************************)
LEMMA StoredType ==
    ASSUME DbTyped
    PROVE  Stored \in [Ids -> Names \cup {NoName}]
  <1>1. ASSUME NEW i \in Ids
        PROVE  StoredName(i) \in Names \cup {NoName}
    <2>1. CASE db # NoFile /\ HasSlot(db, i)
      <3>1. Slot(db, i) \in Slots
        BY <2>1, SlotType, StudentDBAssumption DEF DbTyped, Ids
      <3> QED
        BY <2>1, <3>1 DEF StoredName, Slots, Records, Empty
    <2>2. CASE ~(db # NoFile /\ HasSlot(db, i))
      BY <2>2 DEF StoredName
    <2> QED
      BY <2>1, <2>2
  <1> QED
    BY <1>1 DEF Stored

\* In its place, a slot is what the map says of its id.
LEMMA SlotIsStored ==
    ASSUME DbTyped, InPlace, db # NoFile, NEW i \in AskedIds, i >= 0
    PROVE  /\ i \in Ids => Stored[i] = StoredName(i)
           /\ i \in Ids /\ Stored[i] # NoName <=> HasSlot(db, i) /\ Slot(db, i) # Empty
           /\ HasSlot(db, i) /\ Slot(db, i) # Empty => Slot(db, i) = [id |-> i, name |-> Stored[i]]
  <1>1. i \in Int /\ db \in Inodes
    BY StudentDBAssumption DEF AskedIds, DbTyped
  <1>2. i \in Ids => Stored[i] = StoredName(i)
    BY DEF Stored
  <1>3. CASE HasSlot(db, i)
    <2>1. Slot(db, i) \in Slots /\ i + 1 \in DOMAIN disk[db] /\ Slot(db, i) = disk[db][i + 1]
      BY <1>1, <1>3, SlotType DEF Slot
    <2>2. CASE Slot(db, i) = Empty
      BY <1>2, <2>2 DEF StoredName, Empty
    <2>3. CASE Slot(db, i) # Empty
      <3>1. Slot(db, i) \in Records /\ Slot(db, i).id = i
        BY <1>1, <2>1, <2>3 DEF InPlace, Slots
      <3>2. i \in Ids /\ Slot(db, i).name \in Names /\ Slot(db, i) = [id |-> i, name |-> Slot(db, i).name]
        BY <3>1 DEF Records
      <3>3. Stored[i] = Slot(db, i).name
        BY <1>2, <1>3, <3>2 DEF StoredName
      <3> QED
        BY <1>2, <1>3, <2>3, <3>2, <3>3, StudentDBAssumption
    <2> QED
      BY <2>2, <2>3
  <1>4. CASE ~HasSlot(db, i)
    BY <1>2, <1>4 DEF StoredName
  <1> QED
    BY <1>2, <1>3, <1>4

LEMMA MapStays ==
    ASSUME db' = db, disk'[db] = disk[db]
    PROVE  Stored' = Stored /\ (InPlace' <=> InPlace)
  BY DEF Stored, StoredName, HasSlot, Slot, InPlace

\* The answer of the process that ends, or nothing if it is killed.
LEMMA ExitAnswers ==
    ASSUME NEW p \in Procs, NEW rc, NEW data, Exit(p, rc, data)
    PROVE  Store!Answers(proc[p].cmd, proc[p].rec.id, rc, data)
  BY DEF Exit, Store!Answers

LEMMA AddCheckMaps ==
    ASSUME DbTyped, SoloInv, InPlace, NEW p \in Procs, AddCheck(p)
    PROVE  Store!Command \/ UNCHANGED reply
  <1>1. /\ proc[p] \in Locals /\ LocalOK(proc[p]) /\ Solo(proc[p]) /\ proc[p].pc = "check"
        /\ proc[p].cmd = "a" /\ db' = db /\ disk' = disk
    BY DEF AddCheck, DbTyped, SoloInv, LocalOK
  <1>2. db # NoFile /\ proc[p].fd = db /\ proc[p].rec.id \in Ids /\ proc[p].rec.id \in AskedIds /\ proc[p].rec.id >= 0
        /\ proc[p].rec.name \in Names
    BY <1>1, StudentDBAssumption DEF Solo, LocalOK, Records, Ids, AskedIds
  <1>3. CASE UNCHANGED reply
    BY <1>3
  <1>4. CASE HasSlot(db, proc[p].rec.id) /\ Slot(db, proc[p].rec.id) # Empty /\ Exit(p, ERR_DB_OP, {})
    <2>1. Stored[proc[p].rec.id] # NoName
      BY <1>2, <1>4, SlotIsStored
    <2>2. Store!Answers("a", proc[p].rec.id, ERR_DB_OP, {})
      BY <1>1, <1>4, ExitAnswers
    <2>3. Store!Add(proc[p].rec.id, proc[p].rec.name)
      BY <1>1, <1>2, <2>1, <2>2, MapStays DEF Store!Add, Store!Present, ERR_DB_OP, Store!ERR_DB_OP
    <2> QED
      BY <1>2, <2>3 DEF Store!Command
  <1> QED
    BY <1>2, <1>3, <1>4 DEF AddCheck

LEMMA GetStudentMaps ==
    ASSUME DbTyped, SoloInv, InPlace, NEW p \in Procs, GetStudent(p)
    PROVE  Store!Command \/ UNCHANGED reply
  <1> DEFINE i == proc[p].rec.id
  <1>1. /\ proc[p] \in Locals /\ LocalOK(proc[p]) /\ Solo(proc[p]) /\ proc[p].pc = "find"
        /\ proc[p].cmd \in {"d", "f"} /\ db' = db /\ disk' = disk
    BY DEF GetStudent, DbTyped, SoloInv, LocalOK
  <1>2. db # NoFile /\ proc[p].fd = db /\ i \in AskedIds /\ Stored' = Stored
    BY <1>1, MapStays DEF Solo, Locals
  <1>3. CASE i < 0
    <2>1. Store!Answers(proc[p].cmd, i, ERR_DB_FILE, {})
      BY <1>3, ExitAnswers DEF GetStudent
    <2>2. Store!Fail(proc[p].cmd, i)
      BY <1>2, <2>1 DEF Store!Fail, ERR_DB_FILE, Store!ERR_DB_FILE
    <2> QED
      BY <1>1, <1>2, <2>2 DEF Store!Command
  <1>4. CASE ~(i < 0)
    <2>1. i >= 0
      BY <1>2, <1>4, StudentDBAssumption DEF AskedIds
    <2>2. PICK r : /\ HasSlot(db, i) => r = Slot(db, i)
                   /\ ~HasSlot(db, i) /\ proc[p].cmd = "f" => r = Empty
                   /\ \/ r = Empty /\ Exit(p, IF proc[p].cmd = "f" THEN SRCH_NOT_FOUND ELSE ERR_DB_OP, {})
                      \/ r # Empty /\ proc[p].cmd = "f" /\ Exit(p, NO_ERROR, {r})
                      \/ UNCHANGED reply
      BY <1>2, <1>4 DEF GetStudent
    <2>3. CASE r = Empty /\ Exit(p, IF proc[p].cmd = "f" THEN SRCH_NOT_FOUND ELSE ERR_DB_OP, {})
      <3>1. i \notin Store!Present
        BY <1>2, <2>1, <2>2, <2>3, SlotIsStored DEF Store!Present
      <3>2. CASE proc[p].cmd = "f"
        <4>1. Store!Answers("f", i, SRCH_NOT_FOUND, {})
          BY <2>3, <3>2, ExitAnswers
        <4>2. Store!Find(i)
          BY <1>2, <3>1, <4>1 DEF Store!Find, SRCH_NOT_FOUND, Store!SRCH_NOT_FOUND
        <4> QED
          BY <1>2, <4>2 DEF Store!Command
      <3>3. CASE proc[p].cmd = "d"
        <4>1. Store!Answers("d", i, ERR_DB_OP, {})
          BY <2>3, <3>3, ExitAnswers
        <4>2. Store!Delete(i)
          BY <1>2, <3>1, <4>1 DEF Store!Delete, ERR_DB_OP, Store!ERR_DB_OP
        <4> QED
          BY <1>2, <4>2 DEF Store!Command
      <3> QED
        BY <1>1, <3>2, <3>3
    <2>4. CASE r # Empty /\ proc[p].cmd = "f" /\ Exit(p, NO_ERROR, {r})
      <3>1. HasSlot(db, i) /\ Slot(db, i) = r
        BY <2>2, <2>4
      <3>2. i \in Store!Present /\ r = Store!Student(i)
        BY <1>2, <2>1, <2>4, <3>1, SlotIsStored DEF Store!Present, Store!Student
      <3>3. Store!Answers("f", i, NO_ERROR, {r})
        BY <2>4, ExitAnswers
      <3>4. Store!Find(i)
        BY <1>2, <3>2, <3>3 DEF Store!Find, NO_ERROR, Store!NO_ERROR
      <3> QED
        BY <1>2, <3>4 DEF Store!Command
    <2> QED
      BY <2>2, <2>3, <2>4
  <1> QED
    BY <1>3, <1>4

\* A failing call changes nothing, and its command is one that may fail.
LEMMA CallFailsMaps ==
    ASSUME DbTyped, SoloInv, NEW p \in Procs, CallFails(p)
    PROVE  Store!Command
  <1>1. /\ proc[p] \in Locals /\ LocalOK(proc[p]) /\ db' = db /\ disk' = disk
        /\ proc[p].pc \in {"check", "find", "write", "mktmp", "trunc", "copy"}
    BY DEF CallFails, DbTyped, SoloInv
  <1>2. proc[p].cmd \in {"a", "d", "f", "x", "z"} /\ proc[p].rec.id \in AskedIds
    BY <1>1 DEF LocalOK, Locals
  <1>3. Store!Answers(proc[p].cmd, proc[p].rec.id, ERR_DB_FILE, {})
    BY ExitAnswers DEF CallFails
  <1>4. Store!Fail(proc[p].cmd, proc[p].rec.id)
    BY <1>1, <1>3, MapStays DEF Store!Fail, ERR_DB_FILE, Store!ERR_DB_FILE
  <1> QED
    BY <1>2, <1>4 DEF Store!Command

LEMMA TruncateMaps ==
    ASSUME DbTyped, SoloInv, NEW p \in Procs, Truncate(p)
    PROVE  /\ InPlace' /\ Stored' = [i \in Ids |-> NoName]
           /\ Store!Zero
  <1>1. /\ proc[p].cmd = "z" /\ proc[p].rec.id = 0 /\ db' = db /\ disk'[db] = <<>>
    BY DEF Truncate, DbTyped, LocalOK
  <1>2. InPlace' /\ Stored' = [i \in Ids |-> NoName]
    BY <1>1, StudentDBAssumption DEF InPlace, Stored, StoredName, HasSlot, Ids
  <1>3. Store!Answers("z", 0, NO_ERROR, {})
    BY <1>1, ExitAnswers DEF Truncate
  <1> QED
    BY <1>2, <1>3 DEF Store!Zero, NO_ERROR, Store!NO_ERROR

LEMMA StartMaps ==
    ASSUME DbTyped, NEW p \in Procs, NEW cmd \in Commands, NEW i \in AskedOf(cmd),
           NEW n \in (IF cmd = "a" THEN Names ELSE {NoName}), Start(p, cmd, i, n)
    PROVE  Stored' = Stored /\ (InPlace' <=> InPlace)
  <1>1. CASE db # NoFile
    BY <1>1, Started, MapStays
  <1>2. CASE db = NoFile
    <2>1. disk'[db'] = <<>>
      BY <1>2, Started DEF DbTyped
    <2> QED
      BY <1>2, <2>1, StudentDBAssumption DEF InPlace, Stored, StoredName, HasSlot, Ids
  <1> QED
    BY <1>1, <1>2

LEMMA WriteSlotMaps ==
    ASSUME DbTyped, SoloInv, InPlace, Uninitialised = {Empty}, NEW p \in Procs, WriteSlot(p)
    PROVE  Store!Command /\ InPlace'
  <1> DEFINE me == proc[p]
             k == me.rec.id
             r == IF me.cmd = "a" THEN me.rec ELSE Empty
             s == disk[db]
             w == Written(s, k, r)
  <1>1. /\ me.pc = "write" /\ Solo(me) /\ LocalOK(me) /\ me \in Locals /\ me.cmd \in {"a", "d"}
        /\ disk' = [disk EXCEPT ![me.fd] = Written(@, k, r)] /\ db' = db
        /\ Exit(p, NO_ERROR, {})
    BY DEF WriteSlot, DbTyped, SoloInv, LocalOK
  <1>2. /\ db \in Inodes /\ db # NoFile /\ me.fd = db /\ k \in Nat /\ k \in AskedIds
        /\ r \in Slots /\ s \in Seq(Slots)
    BY <1>1, StudentDBAssumption DEF Solo, DbTyped, LocalOK, Locals, Slots, AskedIds
  <1>3. disk'[db] = w
    BY <1>1, <1>2 DEF DbTyped
  <1>4. /\ Len(s) \in Nat /\ DOMAIN s = 1..Len(s) /\ w \in Seq(Slots)
        /\ Len(w) = (IF k < Len(s) THEN Len(s) ELSE k + 1) /\ DOMAIN w = 1..Len(w)
    <2> HIDE DEF k, r, s
    <2>1. w \in Seq(Slots) /\ Len(w) = IF k < Len(s) THEN Len(s) ELSE k + 1
      BY <1>2, WrittenIs
    <2> QED
      BY <1>2, <2>1, LenProperties
  <1>5. \A i \in 1..Len(w) : w[i] = IF i = k + 1 THEN r ELSE IF i <= Len(s) THEN s[i] ELSE Empty
    <2> HIDE DEF k, r, s
    <2> QED
      BY <1>2, WrittenIs
  <1>6. r # Empty => r.id = k
    BY DEF Empty
  <1>7. InPlace'
    <2>1. ASSUME NEW i \in DOMAIN w, w[i] # Empty
          PROVE  w[i].id = i - 1
      <3>1. CASE i = k + 1
        BY <1>2, <1>4, <1>5, <1>6, <2>1, <3>1
      <3>2. CASE i # k + 1
        <4>1. i \in DOMAIN s /\ w[i] = s[i]
          BY <1>2, <1>4, <1>5, <2>1, <3>2
        <4> QED
          BY <1>2, <2>1, <4>1 DEF InPlace
      <3> QED
        BY <3>1, <3>2
    <2> QED
      BY <1>1, <1>3, <2>1 DEF InPlace
  <1>8. \A j \in Ids : Stored'[j] = IF j = k THEN r.name ELSE Stored[j]
    <2> SUFFICES ASSUME NEW j \in Ids
                 PROVE  Stored'[j] = IF j = k THEN r.name ELSE Stored[j]
      OBVIOUS
    <2>1. j \in Nat /\ j + 1 \in Nat
      BY StudentDBAssumption DEF Ids
    <2>2. Stored'[j] = (IF j < Len(w) THEN w[j + 1].name ELSE NoName)
      BY <1>1, <1>2, <1>3, <2>1 DEF Stored, StoredName, HasSlot, Slot
    <2>3. Stored[j] = (IF j < Len(s) THEN s[j + 1].name ELSE NoName)
      BY <1>2, <2>1 DEF Stored, StoredName, HasSlot, Slot
    <2>4. Empty.name = NoName
      BY DEF Empty
    <2>5. j < Len(w) => w[j + 1] = IF j + 1 = k + 1 THEN r ELSE IF j + 1 <= Len(s) THEN s[j + 1] ELSE Empty
      BY <1>4, <1>5, <2>1
    <2>6. CASE j = k
      BY <1>2, <1>4, <2>1, <2>2, <2>5, <2>6
    <2>7. CASE j # k
      BY <1>2, <1>4, <2>1, <2>2, <2>3, <2>4, <2>5, <2>7
    <2> QED
      BY <2>6, <2>7
  <1>9. Stored = [j \in Ids |-> Stored[j]] /\ Stored' = [j \in Ids |-> Stored'[j]]
    BY DEF Stored
  <1>10. Store!Answers(me.cmd, k, NO_ERROR, {})
    BY <1>1, ExitAnswers
  <1>11. CASE me.cmd = "a"
    <2>1. r = me.rec /\ k \in Ids /\ r.name \in Names /\ k >= 0
      BY <1>1, <1>2, <1>11 DEF LocalOK, Records
    <2>2. Stored[k] = NoName
      BY <1>1, <1>2, <1>11, <2>1, SlotIsStored DEF Solo
    <2>3. Stored' = [Stored EXCEPT ![k] = r.name]
      BY <1>8, <1>9, <2>1, Zenon
    <2>4. Store!Add(k, r.name)
      BY <1>10, <1>11, <2>2, <2>3 DEF Store!Add, Store!Present, NO_ERROR, Store!NO_ERROR
    <2> QED
      BY <1>7, <2>1, <2>4 DEF Store!Command
  <1>12. CASE me.cmd = "d"
    <2>1. r.name = NoName
      BY <1>12 DEF Empty
    <2>2. k \in Store!Present
      <3>1. HasSlot(db, k) /\ Slot(db, k) # Empty /\ k >= 0
        BY <1>1, <1>2, <1>12 DEF Solo
      <3> QED
        BY <1>2, <3>1, SlotIsStored DEF Store!Present
    <2>3. Stored' = [Stored EXCEPT ![k] = NoName]
      BY <1>8, <1>9, <2>1, <2>2 DEF Store!Present
    <2> QED
      BY <1>2, <1>7, <1>10, <1>12, <2>2, <2>3 DEF Store!Command, Store!Delete, NO_ERROR, Store!NO_ERROR
  <1> QED
    BY <1>1, <1>11, <1>12

LEMMA StoredTypeNext == (DbTyped => Stored \in [Ids -> Names \cup {NoName}])'
  <1>1. DbTyped => Stored \in [Ids -> Names \cup {NoName}]
    BY StoredType
  <1> QED
    BY <1>1, PTL

\* In its place, the file holds exactly the students of the map.
LEMMA StudentsAreStored ==
    ASSUME DbTyped, InPlace, db # NoFile
    PROVE  /\ \A r \in Students : r \in Records /\ r.id \in Store!Present /\ r = Store!Student(r.id)
           /\ \A i \in Store!Present : Store!Student(i) \in Students
  <1>1. /\ db \in Inodes /\ disk[db] \in Seq(Slots) /\ Len(disk[db]) \in Nat
        /\ DOMAIN disk[db] = 1..Len(disk[db]) /\ Students = ToSet(disk[db]) \ {Empty}
    BY LenProperties DEF DbTyped, Students
  <1>2. ASSUME NEW r \in Students
        PROVE  r \in Records /\ r.id \in Store!Present /\ r = Store!Student(r.id)
    <2>1. PICK k \in 1..Len(disk[db]) : r = disk[db][k] /\ r # Empty
      BY <1>1 DEF ToSet
    <2>2. r \in Records /\ r.id = k - 1
      BY <1>1, <2>1, ElementOfSeq DEF Slots, InPlace
    <2>3. /\ r.id \in Ids /\ r.id \in AskedIds /\ r.id >= 0
          /\ HasSlot(db, r.id) /\ Slot(db, r.id) = r
      <3>1. r.id \in Ids
        BY <2>2 DEF Records
      <3> QED
        BY <1>1, <2>1, <2>2, <3>1, StudentDBAssumption DEF Ids, AskedIds, HasSlot, Slot
    <2> QED
      BY <2>1, <2>2, <2>3, SlotIsStored DEF Store!Present, Store!Student
  <1>3. ASSUME NEW i \in Store!Present
        PROVE  Store!Student(i) \in Students
    <2>1. i \in Ids /\ i \in AskedIds /\ i >= 0 /\ Stored[i] # NoName
      BY StudentDBAssumption DEF Store!Present, Ids, AskedIds
    <2>2. HasSlot(db, i) /\ Slot(db, i) # Empty /\ Slot(db, i) = Store!Student(i)
      BY <2>1, SlotIsStored DEF Store!Student
    <2>3. i + 1 \in 1..Len(disk[db])
      BY <1>1, <2>1, <2>2, StudentDBAssumption DEF HasSlot, Ids
    <2> QED
      BY <1>1, <2>2, <2>3 DEF ToSet, Slot
  <1> QED
    BY <1>2, <1>3

LEMMA ScanEndMaps ==
    ASSUME DbTyped, SoloInv, InPlace, "scan" \notin Faults, NEW p \in Procs, ScanEnd(p)
    PROVE  Store!Command \/ UNCHANGED reply
  <1> DEFINE me == proc[p]
  <1>1. /\ me \in Locals /\ LocalOK(me) /\ Solo(me) /\ me.pc = "scan" /\ me.cmd \in {"c", "p"}
        /\ me.rec.id = 0 /\ db' = db /\ disk' = disk /\ LooksLikeEnd(me.fd, me.pos)
        /\ IF me.cmd = "c" THEN Exit(p, Len(me.seen), {}) ELSE Exit(p, NO_ERROR, ToSet(me.seen))
    BY DEF ScanEnd, DbTyped, SoloInv, LocalOK
  <1>2. db # NoFile /\ me.fd = db /\ KnowsFile(me) /\ SeenOnce(me) /\ me.pos \in Nat /\ Stored' = Stored
    BY <1>1, MapStays DEF Solo, Locals
  <1>3. ToSet(me.seen) = Students
    <2>1. ~HasSlot(db, me.pos)
      BY <1>1, <1>2 DEF LooksLikeEnd
    <2> QED
      BY <1>2, <2>1, AllSlots DEF KnowsFile
  <1>4. CASE me.cmd = "c"
    <2> DEFINE n == Len(me.seen)
               f == [k \in 1..n |-> me.seen[k].id]
    <2>1. n \in Nat /\ DOMAIN me.seen = 1..n
      BY <1>1, LenProperties DEF Locals
    <2>2. \A k \in 1..n : me.seen[k] \in Students
      BY <1>3, <2>1 DEF ToSet
    <2>3. f \in [1..n -> Store!Present]
      BY <1>2, <2>2, StudentsAreStored
    <2>4. \A i \in Store!Present : \E k \in 1..n : f[k] = i
      <3> SUFFICES ASSUME NEW i \in Store!Present PROVE \E k \in 1..n : f[k] = i
        OBVIOUS
      <3>1. Store!Student(i) \in ToSet(me.seen)
        BY <1>2, <1>3, StudentsAreStored
      <3>2. PICK k \in 1..n : me.seen[k] = Store!Student(i)
        BY <2>1, <3>1 DEF ToSet
      <3>3. me.seen[k].id = i
        BY <3>2 DEF Store!Student
      <3> QED
        BY <3>3
    <2>5. \A j, k \in 1..n : f[j] = f[k] => j = k
      BY <1>2 DEF SeenOnce
    <2>6. f \in Bijection(1..n, Store!Present)
      BY <2>3, <2>4, <2>5 DEF Bijection, Injection, Surjection, IsInjective
    <2>7. Cardinality(Store!Present) = n
      BY <2>1, <2>6, FS_CountingElements DEF ExistsBijection
    <2>8. Store!Answers("c", 0, Cardinality(Store!Present), {})
      BY <1>1, <1>4, <2>7, ExitAnswers
    <2>9. Store!Count
      BY <1>2, <2>8 DEF Store!Count, Store!Cardinality, Cardinality
    <2> QED
      BY <2>9 DEF Store!Command
  <1>5. CASE me.cmd = "p"
    <2>1. Students = {Store!Student(i) : i \in Store!Present}
      BY <1>2, StudentsAreStored
    <2>2. Store!Answers("p", 0, NO_ERROR, Students)
      BY <1>1, <1>3, <1>5, ExitAnswers
    <2>3. Store!PrintAll
      BY <1>2, <2>1, <2>2 DEF Store!PrintAll, NO_ERROR, Store!NO_ERROR
    <2> QED
      BY <2>3 DEF Store!Command
  <1> QED
    BY <1>1, <1>4, <1>5

LEMMA SwapMaps ==
    ASSUME DbTyped, DbTyped', SoloInv, InPlace, "scan" \notin Faults, NEW p \in Procs, Swap(p)
    PROVE  Store!Compress \/ (Store!Command /\ (InPlace' <=> InPlace))
  <1> DEFINE seen == proc[p].seen
  <1>1. /\ proc[p].cmd = "x" /\ proc[p].rec.id = 0 /\ seen \in Seq(Records) /\ db # NoFile
        /\ tmp # NoFile /\ disk' = disk
    BY SwapIsComplete DEF Swap, DbTyped, LocalOK, Locals, SoloInv, Solo
  <1>2. CASE Exit(p, ERR_DB_FILE, {}) /\ UNCHANGED <<db, tmp>>
    <2>1. Store!Answers("x", 0, ERR_DB_FILE, {})
      BY <1>1, <1>2, ExitAnswers
    <2>2. Stored' = Stored /\ (InPlace' <=> InPlace)
      BY <1>1, <1>2, MapStays
    <2>3. Store!Fail("x", 0)
      BY <2>1, <2>2 DEF Store!Fail, ERR_DB_FILE, Store!ERR_DB_FILE
    <2> QED
      BY <2>2, <2>3, StudentDBAssumption DEF Store!Command, AskedIds
  <1>3. CASE Exit(p, NO_ERROR, {}) /\ db' = tmp
    <2>1. db' # db
      BY <1>1, <1>3 DEF DbTyped
    <2>2. disk'[db'] = seen /\ ToSet(seen) = Students /\ db' # NoFile
      BY <1>1, <1>3, <2>1, SwapIsComplete
    <2>3. Len(seen) \in Nat /\ DOMAIN seen = 1..Len(seen)
      BY <1>1, LenProperties
    <2>4. Store!Answers("x", 0, NO_ERROR, {})
      BY <1>1, <1>3, ExitAnswers
    <2>5. CASE Store!Present = {}
      <3>1. Len(seen) = 0
        <4>1. ToSet(seen) = {}
          BY <1>1, <2>2, <2>5, StudentsAreStored
        <4>2. \A k \in 1..Len(seen) : seen[k] \in ToSet(seen)
          BY <2>3 DEF ToSet
        <4>3. 1 \notin 1..Len(seen)
          BY <4>1, <4>2
        <4> QED
          BY <2>3, <4>3
      <3>2. InPlace'
        BY <2>2, <2>3, <3>1 DEF InPlace
      <3>3. \A i \in Ids : StoredName(i)' = NoName /\ Stored[i] = NoName
        BY <2>2, <2>5, <3>1, StudentDBAssumption DEF StoredName, HasSlot, Ids, Store!Present
      <3>4. Stored' = Stored
        BY <3>3 DEF Stored
      <3> QED
        BY <2>4, <2>5, <3>2, <3>4 DEF Store!Compress, NO_ERROR, Store!NO_ERROR
    <2>6. CASE Store!Present # {}
      <3>1. PICK i \in Store!Present : TRUE
        BY <2>6
      <3>2. Store!Student(i) \in ToSet(seen)
        BY <1>1, <2>2, StudentsAreStored
      <3>3. 1 \in 1..Len(seen)
        BY <2>3, <3>2 DEF ToSet
      <3>4. seen[1] \in Records
        BY <1>1, <3>3, ElementOfSeq
      <3>5. seen[1].id # 1 - 1 /\ seen[1] # Empty
        BY <3>4, StudentDBAssumption DEF Records, Ids, Empty
      <3>6. ~InPlace'
        BY <2>2, <2>3, <3>3, <3>5 DEF InPlace
      <3>7. Stored' \in Store!Maps
        BY StoredTypeNext DEF Store!Maps
      <3> QED
        BY <2>4, <2>6, <3>6, <3>7 DEF Store!Compress, NO_ERROR, Store!NO_ERROR
    <2> QED
      BY <2>5, <2>6
  <1> QED
    BY <1>2, <1>3 DEF Swap

\* On a map gone astray anything may happen but a -z that does not start afresh.
LEMMA StrayMaps ==
    ASSUME DbTyped, DbTyped', SoloInv, ~InPlace, DbNext
    PROVE  Store!Stray
  <1>1. Stored' \in Store!Maps /\ (~InPlace') \in BOOLEAN
    BY StoredTypeNext DEF Store!Maps
  <1>2. ASSUME reply'.cmd = "z", reply'.rc = NO_ERROR, reply' # reply
        PROVE  \E p \in Procs : Truncate(p)
    <2>1. ASSUME NEW p \in Procs, NEW rc, NEW data, Exit(p, rc, data)
          PROVE  proc[p].cmd = "z" /\ rc = NO_ERROR
      BY <1>2, <2>1 DEF Exit
    <2>2. \A p \in Procs : LocalOK(proc[p])
      BY DEF DbTyped
    <2>3. ASSUME NEW p \in Procs, AddCheck(p) \/ WriteSlot(p) \/ GetStudent(p) \/ ScanEnd(p) \/ Swap(p)
          PROVE  FALSE
      <3>1. proc[p].pc \in {"check", "write", "find", "scan", "copy"}
        BY <2>3 DEF AddCheck, WriteSlot, GetStudent, ScanEnd, Swap
      <3>2. \E rc, data : Exit(p, rc, data)
        BY <1>2, <2>3 DEF AddCheck, WriteSlot, GetStudent, ScanEnd, Swap
      <3> QED
        BY <2>1, <2>2, <3>1, <3>2 DEF LocalOK
    <2>4. ASSUME NEW p \in Procs, CallFails(p)
          PROVE  FALSE
      BY <2>1, <2>4 DEF CallFails, NO_ERROR, ERR_DB_FILE
    <2> QED
      BY <1>2, <2>3, <2>4 DEF DbNext, Start, Scan, MakeTmp, Copy, Crash
  <1> QED
    BY <1>1, <1>2, TruncateMaps DEF Store!Stray, NO_ERROR, Store!NO_ERROR

LEMMA StepMaps ==
    ASSUME DbTyped, DbTyped', SoloInv, "scan" \notin Faults, Uninitialised = {Empty}, DbNext
    PROVE  Store!StoreNext \/ UNCHANGED <<Stored, ~InPlace, reply>>
  <1>1. CASE ~InPlace
    BY <1>1, StrayMaps DEF Store!StoreNext
  <1>2. CASE InPlace
    <2>1. ASSUME NEW p \in Procs, NEW cmd \in Commands, NEW i \in AskedOf(cmd),
                 NEW n \in (IF cmd = "a" THEN Names ELSE {NoName}), Start(p, cmd, i, n)
          PROVE  UNCHANGED <<Stored, ~InPlace, reply>>
      BY <2>1, StartMaps DEF Start
    <2>2. ASSUME NEW p \in Procs, AddCheck(p) \/ GetStudent(p) \/ ScanEnd(p)
          PROVE  /\ Store!Command \/ UNCHANGED reply
                 /\ Stored' = Stored /\ (InPlace' <=> InPlace)
      BY <1>2, <2>2, AddCheckMaps, GetStudentMaps, ScanEndMaps, MapStays DEF AddCheck, GetStudent, ScanEnd
    <2>3. ASSUME NEW p \in Procs, Scan(p) \/ MakeTmp(p) \/ Copy(p) \/ Crash(p)
          PROVE  UNCHANGED reply /\ Stored' = Stored /\ (InPlace' <=> InPlace)
      BY <2>3, MakeTmpSolo, CopySolo, MapStays DEF Scan, MakeTmp, Copy, Crash
    <2>4. ASSUME NEW p \in Procs, CallFails(p)
          PROVE  Store!Command /\ (InPlace' <=> InPlace)
      BY <2>4, CallFailsMaps, MapStays DEF CallFails
    <2>5. ASSUME NEW p \in Procs, WriteSlot(p)
          PROVE  Store!Command /\ (InPlace' <=> InPlace)
      BY <1>2, <2>5, WriteSlotMaps
    <2>6. ASSUME NEW p \in Procs, Truncate(p)
          PROVE  Store!Command /\ (InPlace' <=> InPlace)
      BY <1>2, <2>6, TruncateMaps DEF Store!Command
    <2>7. ASSUME NEW p \in Procs, Swap(p)
          PROVE  Store!Compress \/ (Store!Command /\ (InPlace' <=> InPlace))
      BY <1>2, <2>7, SwapMaps
    <2>8. \/ Store!Compress
          \/ Store!Command /\ (InPlace' <=> InPlace)
          \/ UNCHANGED <<Stored, ~InPlace, reply>>
      BY <2>1, <2>2, <2>3, <2>4, <2>5, <2>6, <2>7 DEF DbNext
    <2> QED
      BY <1>2, <2>8 DEF Store!StoreNext
  <1> QED
    BY <1>1, <1>2

\* Commands run one after another, and the loops over the file read it to its
\* end: the database is a StudentStore, whatever other calls fail and whichever
\* process is killed, as long as the record on del_student's stack is zero
\* (sdbsc.c, all its commands).
THEOREM ImplementsStore ==
    ASSUME Exclusive, "scan" \notin Faults, Uninitialised = {Empty}
    PROVE  DbSpec => IsStudentStore
  <1>1. DbInit => Store!StoreInit
    BY DEF DbInit, Store!StoreInit, Stored, StoredName, InPlace, NoReply, Store!NoAnswer,
           NO_ERROR, Store!NO_ERROR
  <1>2. DbTyped /\ DbTyped' /\ SoloInv /\ [DbNext]_dbVars => [Store!StoreNext]_(Store!storeVars)
    <2>1. UNCHANGED dbVars => UNCHANGED <<Stored, ~InPlace, reply>>
      BY MapStays DEF dbVars
    <2> QED
      BY <2>1, StepMaps DEF Store!storeVars
  <1> QED
    BY <1>1, <1>2, SoloHolds, PTL DEF DbSpec, IsStudentStore, Store!StoreSpec

-----------------------------------------------------------------------------
(***************************************************************************)
(* Several processes at a time, and the history MCSharedDB keeps of them.  *)
(***************************************************************************)

HistTyped ==
    /\ DbTyped
    /\ always \in [Procs -> SUBSET Records] /\ ever \in [Procs -> SUBSET Records]
    /\ packed \in BOOLEAN

\* Who has which file open: nobody the temporary file but the one process that
\* compresses, whose file is still the database; and until a compression all
\* have the same one.
Files ==
    /\ \A p, q \in Procs : proc[p].cmd = "x" /\ proc[q].cmd = "x" => p = q
    /\ \A p \in Procs :
         /\ proc[p].pc # "idle" => db # NoFile
         /\ tmp # NoFile => proc[p].fd # tmp
         /\ proc[p].cmd = "x" => proc[p].fd = db
         /\ proc[p].pc = "copy" => tmp # NoFile /\ proc[p].tfd = tmp /\ disk[tmp] = proc[p].seen
         /\ ~packed /\ proc[p].pc # "idle" => proc[p].fd = db

\* Compressing moves students towards the front only.
InOrder ==
    /\ db # NoFile => \A k \in DOMAIN disk[db] : disk[db][k] # Empty => disk[db][k].id >= k - 1
    /\ ~packed => InPlace

Watching ==
    \A p \in Procs : proc[p].pc # "idle" =>
        always[p] \subseteq Students /\ Students \subseteq ever[p] /\ IsFiniteSet(ever[p])

\* A count has seen everyone who was there all along and whose slot it has passed.
Counting(p) ==
    ~packed /\ proc[p].pc = "scan" =>
        /\ SeenOnce(proc[p])
        /\ ToSet(proc[p].seen) \subseteq ever[p]
        /\ \A r \in always[p] : r.id < proc[p].pos => r \in ToSet(proc[p].seen)

\* A compression has copied everyone who was there all along, or has them ahead;
\* behind it are students copied and students added since, in their own slots.
Packing(p) ==
    proc[p].pc = "copy" =>
        LET me == proc[p] IN
        /\ ToSet(me.seen) \subseteq ever[p]
        /\ Len(me.seen) <= me.pos
        /\ \A i \in 1..Len(me.seen) : me.seen[i].id >= i - 1
        /\ \A i \in DOMAIN disk[db] : i <= me.pos /\ disk[db][i] # Empty =>
             disk[db][i] \in ToSet(me.seen) \/ disk[db][i].id = i - 1
        /\ \A r \in always[p] : r \in ToSet(me.seen) \/ \E i \in DOMAIN disk[db] : i > me.pos /\ disk[db][i] = r

HistInv == HistTyped /\ Files /\ InOrder /\ Watching /\ \A p \in Procs : Counting(p) /\ Packing(p)

-----------------------------------------------------------------------------
LEMMA StudentsTypeNext == (DbTyped => Students \subseteq Records /\ IsFiniteSet(Students))'
  <1>1. ASSUME DbTyped
        PROVE  Students \subseteq Records /\ IsFiniteSet(Students)
    <2>1. CASE db = NoFile
      BY <2>1, FS_EmptySet DEF Students
    <2>2. CASE db # NoFile
      <3> DEFINE s == disk[db]
      <3>1. s \in Seq(Slots) /\ Len(s) \in Nat /\ DOMAIN s = 1..Len(s)
        BY <1>1, <2>2, LenProperties DEF DbTyped
      <3>2. s \in Surjection(1..Len(s), ToSet(s))
        BY <3>1 DEF Surjection, ToSet
      <3>3. IsFiniteSet(ToSet(s))
        BY <3>1, <3>2, FS_Interval, FS_Surjection
      <3>4. ToSet(s) \subseteq Slots
        BY <3>1, ElementOfSeq DEF ToSet
      <3> QED
        BY <2>2, <3>3, <3>4, FS_Subset DEF Students, Slots
    <2> QED
      BY <2>1, <2>2
  <1>2. DbTyped => Students \subseteq Records /\ IsFiniteSet(Students)
    BY <1>1
  <1> QED
    BY <1>2, PTL

\* What the histories record.
LEMMA Watched ==
    ASSUME HistNext, NEW p \in Procs
    PROVE  /\ always'[p] = IF proc'[p].pc = "idle" THEN {}
                           ELSE IF proc[p].pc = "idle" THEN Students' ELSE always[p] \cap Students'
           /\ ever'[p] = IF proc'[p].pc = "idle" THEN {}
                         ELSE IF proc[p].pc = "idle" THEN Students' ELSE ever[p] \cup Students'
  BY DEF HistNext, Watch

LEMMA StepHistTyped ==
    ASSUME HistTyped, HistNext
    PROVE  HistTyped'
  <1>1. DbTyped'
    BY StepTyped DEF HistTyped, HistNext
  <1>2. \A p \in Procs : always'[p] \subseteq Records /\ ever'[p] \subseteq Records
    BY <1>1, StudentsTypeNext, Watched DEF HistTyped
  <1>3. /\ always' = [p \in Procs |-> always'[p]] /\ ever' = [p \in Procs |-> ever'[p]]
    BY DEF HistNext
  <1>4. always' \in [Procs -> SUBSET Records] /\ ever' \in [Procs -> SUBSET Records]
    BY <1>2, <1>3
  <1>5. packed' \in BOOLEAN
    BY DEF HistNext, HistTyped
  <1> QED
    BY <1>1, <1>4, <1>5 DEF HistTyped

LEMMA StepWatching ==
    ASSUME HistTyped, Watching, HistNext
    PROVE  Watching'
  <1>1. IsFiniteSet(Students')
    BY StepHistTyped, StudentsTypeNext DEF HistTyped
  <1>2. ASSUME NEW p \in Procs, proc'[p].pc # "idle"
        PROVE  always'[p] \subseteq Students' /\ Students' \subseteq ever'[p] /\ IsFiniteSet(ever'[p])
    <2>1. CASE proc[p].pc = "idle"
      BY <1>1, <1>2, <2>1, Watched
    <2>2. CASE proc[p].pc # "idle"
      <3>1. IsFiniteSet(ever[p])
        BY <2>2 DEF Watching
      <3>2. IsFiniteSet(ever[p] \cup Students')
        BY <1>1, <3>1, FS_Union
      <3> QED
        BY <1>2, <2>2, <3>2, Watched
    <2> QED
      BY <2>1, <2>2
  <1> QED
    BY <1>2 DEF Watching

-----------------------------------------------------------------------------
\* How a step may change the database: its slots stay, or are emptied, or get
\* their own student; or the file is made; or a compression replaces it.
Harmless ==
    /\ db' = db /\ db # NoFile
    /\ \A i \in DOMAIN disk'[db] : disk'[db][i] # Empty =>
         disk'[db][i].id = i - 1 \/ (i \in DOMAIN disk[db] /\ disk'[db][i] = disk[db][i])

Born == db = NoFile /\ db' # NoFile /\ disk'[db'] = <<>>

LEMMA StaysHarmless ==
    ASSUME db' = db, db # NoFile, disk'[db] = disk[db]
    PROVE  Harmless
  BY DEF Harmless

LEMMA WriteHarmless ==
    ASSUME DbTyped, Files, NEW p \in Procs, WriteSlot(p)
    PROVE  Harmless
  <1> DEFINE me == proc[p]
             k == me.rec.id
             r == IF me.cmd = "a" THEN me.rec ELSE Empty
             s == disk[me.fd]
             w == Written(s, k, r)
  <1>1. /\ me.pc = "write" /\ LocalOK(me) /\ me \in Locals /\ db # NoFile /\ db' = db
        /\ disk' = [disk EXCEPT ![me.fd] = Written(@, k, r)]
    BY DEF WriteSlot, DbTyped, Files
  <1>2. db \in Inodes /\ me.fd \in Inodes /\ k \in Nat /\ r \in Slots /\ s \in Seq(Slots)
    BY <1>1, StudentDBAssumption DEF DbTyped, LocalOK, Locals, Slots, AskedIds
  <1>3. CASE me.fd # db
    BY <1>1, <1>2, <1>3, StaysHarmless DEF DbTyped
  <1>4. CASE me.fd = db
    <2>1. disk'[db] = w /\ disk[db] = s
      BY <1>1, <1>2, <1>4 DEF DbTyped
    <2>2. w \in Seq(Slots) /\ \A i \in 1..Len(w) : w[i] = IF i = k + 1 THEN r ELSE IF i <= Len(s) THEN s[i] ELSE Empty
      <3> HIDE DEF k, r, s
      <3> QED
        BY <1>2, WrittenIs
    <2>3. r # Empty => r.id = k
      BY DEF Empty
    <2>4. DOMAIN w = 1..Len(w) /\ DOMAIN s = 1..Len(s) /\ Len(w) \in Nat /\ Len(s) \in Nat
      BY <1>2, <2>2, LenProperties
    <2>5. ASSUME NEW i \in DOMAIN w, w[i] # Empty
          PROVE  w[i].id = i - 1 \/ (i \in DOMAIN s /\ w[i] = s[i])
      <3> HIDE DEF k, r, s, w
      <3>1. CASE i = k + 1
        BY <1>2, <2>2, <2>3, <2>4, <2>5, <3>1
      <3>2. CASE i # k + 1
        BY <1>2, <2>2, <2>4, <2>5, <3>2
      <3> QED
        BY <3>1, <3>2
    <2> QED
      BY <1>1, <2>1, <2>5 DEF Harmless
  <1> QED
    BY <1>3, <1>4

LEMMA FileEffect ==
    ASSUME DbTyped, Files, DbNext
    PROVE  Harmless \/ Born \/ \E p \in Procs : Swap(p) /\ db' # db
  <1>1. ASSUME NEW p \in Procs, NEW cmd \in Commands, NEW i \in AskedOf(cmd),
               NEW n \in (IF cmd = "a" THEN Names ELSE {NoName}), Start(p, cmd, i, n)
        PROVE  Harmless \/ Born
    <2>1. CASE db # NoFile
      BY <1>1, <2>1, Started, StaysHarmless
    <2>2. CASE db = NoFile
      BY <1>1, <2>2, Started, StudentDBAssumption DEF Born, DbTyped
    <2> QED
      BY <2>1, <2>2
  <1>2. ASSUME NEW p \in Procs,
               AddCheck(p) \/ GetStudent(p) \/ Scan(p) \/ ScanEnd(p) \/ CallFails(p) \/ Crash(p)
        PROVE  Harmless
    <2>1. db # NoFile
      BY <1>2 DEF AddCheck, GetStudent, Scan, ScanEnd, CallFails, Crash, Files
    <2> QED
      BY <1>2, <2>1, StaysHarmless DEF AddCheck, GetStudent, Scan, ScanEnd, CallFails, Crash
  <1>3. ASSUME NEW p \in Procs, MakeTmp(p)
        PROVE  Harmless
    <2>1. db # NoFile /\ db' = db /\ disk' = [disk EXCEPT ![tmp'] = <<>>]
      BY <1>3 DEF MakeTmp, Files
    <2>2. tmp' # db
      BY <1>3, <2>1, MakeTmpTyped
    <2> QED
      BY <2>1, <2>2, StaysHarmless DEF DbTyped
  <1>4. ASSUME NEW p \in Procs, Copy(p)
        PROVE  Harmless
    <2>1. proc[p].tfd # db /\ db # NoFile /\ db' = db
      BY <1>4 DEF Copy, Files, DbTyped
    <2>2. disk'[db] = disk[db]
      BY <1>4, <2>1 DEF Copy, DbTyped
    <2> QED
      BY <2>1, <2>2, StaysHarmless
  <1>5. ASSUME NEW p \in Procs, Swap(p), db' = db
        PROVE  Harmless
    BY <1>5, StaysHarmless DEF Swap, Files
  <1>6. ASSUME NEW p \in Procs, Truncate(p)
        PROVE  Harmless
    <2>1. db' = db /\ db # NoFile /\ disk'[db] = <<>>
      BY <1>6 DEF Truncate, DbTyped
    <2>2. DOMAIN disk'[db] = {}
      BY <2>1
    <2> QED
      BY <2>1, <2>2 DEF Harmless
  <1> QED
    BY <1>1, <1>2, <1>3, <1>4, <1>5, <1>6, WriteHarmless DEF DbNext

\* Where a step takes its process.
LEMMA IdleMoves ==
    ASSUME DbTyped, NEW p \in Procs, Go(p, Idle)
    PROVE  proc'[p] = Idle /\ proc' = [proc EXCEPT ![p] = proc'[p]]
  BY GoMoves

LEMMA WriteMoves ==
    ASSUME DbTyped, NEW p \in Procs, AddCheck(p) \/ GetStudent(p)
    PROVE  /\ proc' = [proc EXCEPT ![p] = proc'[p]]
           /\ \/ proc'[p] = Idle
              \/ /\ proc'[p].fd = proc[p].fd /\ proc'[p].cmd = proc[p].cmd
                 /\ proc'[p].pc = "write"
  <1> PICK s : s = [proc[p] EXCEPT !.pc = "write"]
    OBVIOUS
  <1>1. s.fd = proc[p].fd /\ s.cmd = proc[p].cmd /\ s.pc = "write"
    BY DEF DbTyped, Locals
  <1>2. Go(p, Idle) \/ Go(p, s)
    <2>1. CASE AddCheck(p)
      BY <2>1 DEF AddCheck, Exit
    <2>2. CASE GetStudent(p) /\ proc[p].rec.id < 0
      BY <2>2 DEF GetStudent, Exit
    <2>3. CASE GetStudent(p) /\ ~(proc[p].rec.id < 0)
      <3>1. PICK r : \/ Exit(p, IF proc[p].cmd = "f" THEN SRCH_NOT_FOUND ELSE ERR_DB_OP, {})
                     \/ Exit(p, NO_ERROR, {r})
                     \/ Go(p, s)
        BY <2>3 DEF GetStudent
      <3> QED
        BY <3>1 DEF Exit
    <2> QED
      BY <2>1, <2>2, <2>3
  <1> QED
    BY <1>1, <1>2, GoMoves

LEMMA ScanMoves ==
    ASSUME DbTyped, NEW p \in Procs, Scan(p)
    PROVE  LET r == Slot(proc[p].fd, proc[p].pos) IN
           /\ proc' = [proc EXCEPT ![p] = proc'[p]]
           /\ proc'[p].fd = proc[p].fd /\ proc'[p].cmd = proc[p].cmd /\ proc'[p].pc = "scan"
           /\ proc'[p].pos = proc[p].pos + 1
           /\ proc'[p].seen = IF r = Empty THEN proc[p].seen ELSE Append(proc[p].seen, r)
  <1> DEFINE r == Slot(proc[p].fd, proc[p].pos)
  <1> PICK s : s = [proc[p] EXCEPT !.pos = @ + 1, !.seen = IF r = Empty THEN @ ELSE Append(@, r)]
    OBVIOUS
  <1>1. /\ s.fd = proc[p].fd /\ s.cmd = proc[p].cmd /\ s.pc = "scan" /\ s.pos = proc[p].pos + 1
        /\ s.seen = IF r = Empty THEN proc[p].seen ELSE Append(proc[p].seen, r)
    BY DEF Scan, DbTyped, Locals
  <1> QED
    BY <1>1, GoMoves DEF Scan

LEMMA MakeTmpMoves ==
    ASSUME DbTyped, NEW p \in Procs, MakeTmp(p)
    PROVE  /\ proc' = [proc EXCEPT ![p] = proc'[p]]
           /\ proc'[p].fd = proc[p].fd /\ proc'[p].cmd = proc[p].cmd /\ proc'[p].pc = "copy"
           /\ proc'[p].tfd = tmp' /\ proc'[p].pos = 0 /\ proc'[p].seen = <<>>
  <1> PICK s : s = [proc[p] EXCEPT !.pc = "copy", !.tfd = tmp']
    OBVIOUS
  <1>1. /\ s.fd = proc[p].fd /\ s.cmd = proc[p].cmd /\ s.pc = "copy" /\ s.tfd = tmp'
        /\ s.pos = 0 /\ s.seen = <<>>
    BY DEF MakeTmp, DbTyped, Locals, LocalOK
  <1> QED
    BY <1>1, GoMoves DEF MakeTmp

LEMMA CopyMoves ==
    ASSUME DbTyped, NEW p \in Procs, Copy(p)
    PROVE  LET r == Slot(proc[p].fd, proc[p].pos) IN
           /\ proc' = [proc EXCEPT ![p] = proc'[p]]
           /\ proc'[p].fd = proc[p].fd /\ proc'[p].cmd = proc[p].cmd /\ proc'[p].pc = "copy"
           /\ proc'[p].tfd = proc[p].tfd /\ proc'[p].pos = proc[p].pos + 1
           /\ proc'[p].seen = IF r = Empty THEN proc[p].seen ELSE Append(proc[p].seen, r)
           /\ disk' = IF r = Empty THEN disk
                      ELSE [disk EXCEPT ![proc[p].tfd] = Written(@, Len(proc[p].seen), r)]
  <1> DEFINE r == Slot(proc[p].fd, proc[p].pos)
  <1>1. CASE r = Empty
    <2> PICK s : s = [proc[p] EXCEPT !.pos = @ + 1]
      OBVIOUS
    <2>1. /\ s.fd = proc[p].fd /\ s.cmd = proc[p].cmd /\ s.pc = "copy" /\ s.tfd = proc[p].tfd
          /\ s.pos = proc[p].pos + 1 /\ s.seen = proc[p].seen
      BY DEF Copy, DbTyped, Locals
    <2> QED
      BY <1>1, <2>1, GoMoves DEF Copy
  <1>2. CASE r # Empty
    <2> PICK s : s = [proc[p] EXCEPT !.pos = @ + 1, !.seen = Append(@, r)]
      OBVIOUS
    <2>1. /\ s.fd = proc[p].fd /\ s.cmd = proc[p].cmd /\ s.pc = "copy" /\ s.tfd = proc[p].tfd
          /\ s.pos = proc[p].pos + 1 /\ s.seen = Append(proc[p].seen, r)
      BY DEF Copy, DbTyped, Locals
    <2> QED
      BY <1>2, <2>1, GoMoves DEF Copy
  <1> QED
    BY <1>1, <1>2

\* Where a counting and a copying process come from.
LEMMA WhereFrom ==
    ASSUME DbTyped, DbNext, NEW q \in Procs
    PROVE  /\ proc'[q].pc = "scan" =>
                proc'[q] = proc[q] \/ Scan(q) \/ (proc'[q].pos = 0 /\ proc'[q].seen = <<>>)
           /\ proc'[q].pc = "copy" => proc'[q] = proc[q] \/ Copy(q) \/ MakeTmp(q)
  <1>1. ASSUME NEW p \in Procs, proc' = [proc EXCEPT ![p] = proc'[p]], p # q
        PROVE  proc'[q] = proc[q]
    BY <1>1 DEF DbTyped
  <1>2. ASSUME NEW p \in Procs, NEW cmd \in Commands, NEW i \in AskedOf(cmd),
               NEW n \in (IF cmd = "a" THEN Names ELSE {NoName}), Start(p, cmd, i, n)
        PROVE  proc'[q] = proc[q] \/ (proc'[q].pc # "copy" /\ proc'[q].pos = 0 /\ proc'[q].seen = <<>>)
    BY <1>1, <1>2, Started
  <1>3. ASSUME NEW p \in Procs, Scan(p)
        PROVE  proc'[q] = proc[q] \/ (Scan(q) /\ proc'[q].pc = "scan")
    BY <1>1, <1>3, ScanMoves
  <1>4. ASSUME NEW p \in Procs, MakeTmp(p) \/ Copy(p)
        PROVE  proc'[q] = proc[q] \/ (MakeTmp(q) /\ proc'[q].pc = "copy") \/ (Copy(q) /\ proc'[q].pc = "copy")
    BY <1>1, <1>4, MakeTmpMoves, CopyMoves
  <1>5. ASSUME NEW p \in Procs, AddCheck(p) \/ GetStudent(p)
        PROVE  proc'[q] = proc[q] \/ proc'[q].pc \in {"idle", "write"}
    BY <1>1, <1>5, WriteMoves DEF Idle
  <1>6. ASSUME NEW p \in Procs, WriteSlot(p) \/ ScanEnd(p) \/ Swap(p) \/ Truncate(p) \/ CallFails(p) \/ Crash(p)
        PROVE  proc'[q] = proc[q] \/ proc'[q].pc = "idle"
    <2>1. Go(p, Idle)
      BY <1>6 DEF WriteSlot, ScanEnd, Swap, Truncate, CallFails, Crash, Exit
    <2> QED
      BY <1>1, <2>1, IdleMoves DEF Idle
  <1> QED
    BY <1>2, <1>3, <1>4, <1>5, <1>6 DEF DbNext

-----------------------------------------------------------------------------
\* A file that a compression puts in place.
LEMMA SwapPutsSeen ==
    ASSUME HistTyped, Files, NEW p \in Procs, Swap(p), db' # db
    PROVE  /\ proc[p].pc = "copy" /\ proc[p].cmd = "x" /\ proc[p].fd = db /\ db # NoFile
           /\ db' # NoFile /\ disk' = disk /\ disk'[db'] = proc[p].seen /\ proc[p].seen \in Seq(Records)
           /\ LooksLikeEnd(db, proc[p].pos) /\ proc'[p].pc = "idle"
  <1>1. /\ proc[p].pc = "copy" /\ proc[p].cmd = "x" /\ disk' = disk /\ LooksLikeEnd(proc[p].fd, proc[p].pos)
        /\ db' = tmp /\ tmp # NoFile /\ proc[p].seen \in Seq(Records) /\ Go(p, Idle)
    BY DEF Swap, HistTyped, DbTyped, LocalOK, Locals, Exit
  <1>2. proc[p].fd = db /\ disk[tmp] = proc[p].seen /\ db # NoFile
    BY <1>1 DEF Files
  <1>3. proc'[p].pc = "idle"
    BY <1>1, IdleMoves DEF Idle, HistTyped
  <1> QED
    BY <1>1, <1>2, <1>3

LEMMA StepInOrder ==
    ASSUME HistTyped, Files, InOrder, \A p \in Procs : Packing(p), HistNext
    PROVE  InOrder'
  <1>1. packed' = (packed \/ (db # NoFile /\ db' # db)) /\ DbNext /\ DbTyped /\ packed \in BOOLEAN
    BY DEF HistNext, HistTyped
  <1>2. CASE Harmless
    <2>1. ASSUME NEW i \in DOMAIN disk'[db], disk'[db][i] # Empty
          PROVE  /\ disk'[db][i].id >= i - 1
                 /\ ~packed => disk'[db][i].id = i - 1
      <3>1. CASE disk'[db][i].id = i - 1
        <4>1. i \in Int
          <5>1. DbTyped'
            BY StepHistTyped DEF HistTyped
          <5>2. disk'[db] \in Seq(Slots)
            BY <1>2, <5>1 DEF Harmless, DbTyped
          <5> QED
            BY <5>2, LenProperties
        <4> QED
          BY <3>1, <4>1
      <3>2. CASE i \in DOMAIN disk[db] /\ disk'[db][i] = disk[db][i]
        BY <1>2, <2>1, <3>2 DEF InOrder, InPlace, Harmless
      <3> QED
        BY <1>2, <2>1, <3>1, <3>2 DEF Harmless
    <2> QED
      BY <1>1, <1>2, <2>1 DEF InOrder, InPlace, Harmless
  <1>3. CASE Born
    <2>1. DOMAIN disk'[db'] = {}
      BY <1>3 DEF Born
    <2> QED
      BY <2>1 DEF InOrder, InPlace
  <1>4. ASSUME NEW p \in Procs, Swap(p), db' # db
        PROVE  InOrder'
    <2>1. /\ proc[p].pc = "copy" /\ db # NoFile /\ disk'[db'] = proc[p].seen /\ proc[p].seen \in Seq(Records)
      BY <1>4, SwapPutsSeen
    <2>2. packed'
      BY <1>1, <1>4, <2>1
    <2>3. \A i \in DOMAIN proc[p].seen : proc[p].seen[i].id >= i - 1
      BY <2>1, LenProperties DEF Packing
    <2> QED
      BY <2>1, <2>2, <2>3 DEF InOrder
  <1> QED
    BY <1>1, <1>2, <1>3, <1>4, FileEffect

\* The histories of a process that keeps running.
LEMMA HistoriesGrow ==
    ASSUME HistNext, NEW p \in Procs, proc[p].pc # "idle", proc'[p].pc # "idle"
    PROVE  always'[p] = always[p] \cap Students' /\ ever'[p] = ever[p] \cup Students'
  BY Watched

LEMMA ScanKeepsCounting ==
    ASSUME HistTyped, Files, InOrder, Watching, HistNext, NEW p \in Procs, Counting(p),
           Scan(p), ~packed
    PROVE  Counting(p)'
  <1> DEFINE m == proc[p]
             r == Slot(m.fd, m.pos)
  <1>1. /\ m \in Locals /\ LocalOK(m) /\ m.pc = "scan" /\ HasSlot(m.fd, m.pos) /\ DbTyped
        /\ db' = db /\ disk' = disk
    BY DEF Scan, HistTyped, DbTyped
  <1>2. m.fd = db /\ db # NoFile /\ db \in Inodes /\ disk[db] \in Seq(Slots) /\ m.pos \in Nat /\ InPlace
    BY <1>1 DEF Files, DbTyped, Locals, InOrder
  <1>3. m.pos + 1 \in DOMAIN disk[db] /\ r \in Slots /\ r = disk[db][m.pos + 1]
    BY <1>1, <1>2, SlotType DEF Slot
  <1>4. /\ proc'[p].pc = "scan" /\ proc'[p].pos = m.pos + 1
        /\ proc'[p].seen = IF r = Empty THEN m.seen ELSE Append(m.seen, r)
    BY <1>1, ScanMoves
  <1>5. Students' = Students
    BY <1>1, StudentsStay
  <1>6. always'[p] \subseteq always[p] /\ always'[p] \subseteq Students /\ ever[p] \subseteq ever'[p] /\ Students \subseteq ever'[p]
    BY <1>1, <1>4, <1>5, HistoriesGrow
  <1>7. r # Empty => r \in Records /\ r.id = m.pos /\ r \in Students
    <2>1. r # Empty => r.id = (m.pos + 1) - 1
      BY <1>2, <1>3 DEF InPlace
    <2> QED
      BY <1>2, <1>3, <2>1 DEF Slots, Students, ToSet
  <1>8. proc'[p] \in Locals
    BY StepHistTyped DEF HistTyped, DbTyped
  <1>9. SeenOnce(proc'[p])
    BY <1>1, <1>4, <1>7, <1>8, SeenOnceMore DEF Counting
  <1>10. ToSet(proc'[p].seen) = ToSet(m.seen) \cup ({r} \ {Empty})
    <2>1. r # Empty => ToSet(Append(m.seen, r)) = ToSet(m.seen) \cup {r}
      BY <1>1, <1>7, ToSetAppend DEF Locals
    <2> QED
      BY <1>4, <2>1
  <1>11. ToSet(proc'[p].seen) \subseteq ever'[p]
    BY <1>1, <1>6, <1>7, <1>10 DEF Counting
  <1>12. ASSUME NEW x \in always'[p], x.id < m.pos + 1
         PROVE  x \in ToSet(proc'[p].seen)
    <2>1. PICK k \in DOMAIN disk[db] : x = disk[db][k] /\ x # Empty
      BY <1>2, <1>6 DEF Students, ToSet
    <2>2. x.id = k - 1 /\ k \in Nat /\ k \in Int
      BY <1>2, <2>1, LenProperties DEF InPlace
    <2>3. CASE x.id < m.pos
      BY <1>1, <1>6, <1>10, <2>3 DEF Counting
    <2>4. CASE ~(x.id < m.pos)
      <3>1. k = m.pos + 1
        BY <1>2, <1>12, <2>2, <2>4
      <3> QED
        BY <1>3, <1>10, <2>1, <3>1
    <2> QED
      BY <2>3, <2>4
  <1> QED
    BY <1>4, <1>9, <1>11, <1>12 DEF Counting, SeenOnce

LEMMA StepCounting ==
    ASSUME HistTyped, Files, InOrder, Watching, HistNext, NEW p \in Procs, Counting(p)
    PROVE  Counting(p)'
  <1> SUFFICES ASSUME ~packed', proc'[p].pc = "scan"
               PROVE  Counting(p)'
    BY DEF Counting
  <1>1. ~packed /\ DbTyped /\ DbNext
    BY DEF HistNext, HistTyped
  <1>2. CASE proc'[p] = proc[p]
    <2>1. always'[p] \subseteq always[p] /\ ever[p] \subseteq ever'[p]
      BY <1>2, HistoriesGrow
    <2> QED
      BY <1>1, <1>2, <2>1 DEF Counting, SeenOnce
  <1>3. CASE Scan(p)
    BY <1>1, <1>3, ScanKeepsCounting
  <1>4. CASE proc'[p].pos = 0 /\ proc'[p].seen = <<>>
    <2>1. \A r \in always'[p] : ~(r.id < 0)
      <3>1. always'[p] \subseteq Records
        BY StepHistTyped DEF HistTyped
      <3> QED
        BY <3>1, StudentDBAssumption DEF Records, Ids
    <2>2. SeenOnce(proc'[p])
      BY <1>4 DEF SeenOnce
    <2> QED
      BY <1>4, <2>1, <2>2, ToSetEmpty DEF Counting, SeenOnce
  <1> QED
    BY <1>1, <1>2, <1>3, <1>4, WhereFrom

LEMMA IdleIs == Idle.pc = "idle" /\ Idle.cmd = "none" /\ Idle.fd = NoFile
  BY DEF Idle

\* A process keeps the file it has opened until it ends.
LEMMA FdStays ==
    ASSUME DbTyped, DbNext, NEW q \in Procs
    PROVE  \/ proc'[q] = Idle
           \/ proc'[q] = proc[q]
           \/ proc'[q].fd = proc[q].fd /\ proc'[q].cmd = proc[q].cmd /\ proc[q].pc # "idle"
           \/ proc'[q].fd = db' /\ tmp' = tmp /\ db' # tmp /\ db' # NoFile
  <1>1. ASSUME NEW p \in Procs, proc' = [proc EXCEPT ![p] = proc'[p]], p # q
        PROVE  proc'[q] = proc[q]
    BY <1>1 DEF DbTyped
  <1>2. ASSUME NEW p \in Procs, NEW cmd \in Commands, NEW i \in AskedOf(cmd),
               NEW n \in (IF cmd = "a" THEN Names ELSE {NoName}), Start(p, cmd, i, n)
        PROVE  proc'[q] = proc[q] \/ (proc'[q].fd = db' /\ tmp' = tmp /\ db' # tmp /\ db' # NoFile)
    BY <1>1, <1>2, Started, StudentDBAssumption DEF Start
  <1>3. ASSUME NEW p \in Procs, AddCheck(p) \/ GetStudent(p) \/ Scan(p) \/ MakeTmp(p) \/ Copy(p)
        PROVE  \/ proc'[q] = Idle
               \/ proc'[q] = proc[q]
               \/ proc'[q].fd = proc[q].fd /\ proc'[q].cmd = proc[q].cmd /\ proc[q].pc # "idle"
    <2>1. proc[p].pc # "idle"
      BY <1>3 DEF AddCheck, GetStudent, Scan, MakeTmp, Copy
    <2> QED
      BY <1>1, <1>3, <2>1, WriteMoves, ScanMoves, MakeTmpMoves, CopyMoves
  <1>4. ASSUME NEW p \in Procs, WriteSlot(p) \/ ScanEnd(p) \/ Swap(p) \/ Truncate(p) \/ CallFails(p) \/ Crash(p)
        PROVE  proc'[q] = proc[q] \/ proc'[q] = Idle
    <2>1. Go(p, Idle)
      BY <1>4 DEF WriteSlot, ScanEnd, Swap, Truncate, CallFails, Crash, Exit
    <2> QED
      BY <1>1, <2>1, IdleMoves
  <1> QED
    BY <1>2, <1>3, <1>4 DEF DbNext

\* The name of the temporary file is given up, kept, or given to a new file.
LEMMA TmpEffect ==
    ASSUME DbTyped, DbNext
    PROVE  \/ tmp' = tmp
           \/ tmp' = NoFile
           \/ /\ tmp = NoFile /\ Free(tmp')
              /\ \A q \in Procs : proc'[q].fd = proc[q].fd
  <1>1. ASSUME NEW p \in Procs, MakeTmp(p), tmp = NoFile
        PROVE  Free(tmp') /\ \A q \in Procs : proc'[q].fd = proc[q].fd
    BY <1>1, MakeTmpTyped, MakeTmpMoves DEF DbTyped
  <1>2. ASSUME NEW p \in Procs, MakeTmp(p), tmp # NoFile
        PROVE  tmp' = tmp
    BY <1>2 DEF MakeTmp
  <1> QED
    BY <1>1, <1>2 DEF DbNext, Start, AddCheck, WriteSlot, GetStudent, Scan, ScanEnd, Copy, Swap,
                      Truncate, CallFails, Crash

\* Nobody but the process that compresses writes to the temporary file.
LEMMA TmpStays ==
    ASSUME DbTyped, Files, DbNext, NEW p \in Procs, proc[p].pc = "copy", proc'[p].pc = "copy", ~Copy(p)
    PROVE  tmp' = tmp /\ disk'[tmp] = disk[tmp]
  <1>1. /\ proc[p].cmd = "x" /\ db # NoFile /\ tmp # NoFile /\ tmp # db
        /\ \A q \in Procs : proc[q].cmd = "x" => q = p
    BY DEF DbTyped, LocalOK, Files
  <1>2. ASSUME NEW q \in Procs, NEW cmd \in Commands, NEW i \in AskedOf(cmd),
               NEW n \in (IF cmd = "a" THEN Names ELSE {NoName}), Start(q, cmd, i, n)
        PROVE  tmp' = tmp /\ disk'[tmp] = disk[tmp]
    BY <1>1, <1>2, Started DEF Start
  <1>3. ASSUME NEW q \in Procs, WriteSlot(q)
        PROVE  tmp' = tmp /\ disk'[tmp] = disk[tmp]
    <2>1. proc[q].fd # tmp
      BY <1>1 DEF Files
    <2> QED
      BY <1>3, <2>1 DEF WriteSlot, DbTyped
  <1>4. ASSUME NEW q \in Procs, Truncate(q)
        PROVE  tmp' = tmp /\ disk'[tmp] = disk[tmp]
    BY <1>1, <1>4 DEF Truncate, DbTyped
  <1>5. ASSUME NEW q \in Procs, MakeTmp(q) \/ Copy(q) \/ Swap(q)
        PROVE  FALSE
    <2>1. q = p
      BY <1>1, <1>5 DEF MakeTmp, Copy, Swap, DbTyped, LocalOK
    <2>2. Swap(p)
      BY <1>5, <2>1 DEF MakeTmp
    <2>3. proc'[p] = Idle
      BY <2>2, IdleMoves DEF Swap, Exit
    <2> QED
      BY <2>3, IdleIs
  <1> QED
    BY <1>2, <1>3, <1>4, <1>5 DEF DbNext, AddCheck, GetStudent, Scan, ScanEnd, CallFails, Crash

\* While it copies, the file a process writes is what it has seen.
LEMMA CopyWritesSeen ==
    ASSUME HistTyped, Files, NEW p \in Procs, Copy(p)
    PROVE  /\ tmp' = tmp /\ proc'[p].tfd = tmp /\ disk'[tmp] = proc'[p].seen
           /\ db' = db /\ db # NoFile /\ disk'[db] = disk[db]
  <1> DEFINE m == proc[p]
             r == Slot(m.fd, m.pos)
  <1>1. /\ m \in Locals /\ LocalOK(m) /\ m.pc = "copy" /\ HasSlot(m.fd, m.pos) /\ DbTyped
        /\ db' = db /\ tmp' = tmp
    BY DEF Copy, HistTyped, DbTyped
  <1>2. /\ m.fd = db /\ db # NoFile /\ db \in Inodes /\ m.tfd = tmp /\ tmp \in Inodes /\ tmp # db
        /\ disk[tmp] = m.seen /\ disk[tmp] \in Seq(Slots)
    BY <1>1 DEF Files, DbTyped, LocalOK
  <1>3. r \in Slots
    BY <1>1, <1>2, SlotType DEF Locals
  <1>4. Written(disk[tmp], Len(m.seen), r) = Append(m.seen, r)
    BY <1>2, <1>3, WrittenBehind
  <1>5. /\ proc'[p].tfd = tmp
        /\ proc'[p].seen = IF r = Empty THEN m.seen ELSE Append(m.seen, r)
        /\ disk' = IF r = Empty THEN disk ELSE [disk EXCEPT ![tmp] = Written(@, Len(m.seen), r)]
    BY <1>1, <1>2, CopyMoves
  <1>6. disk'[tmp] = proc'[p].seen /\ disk'[db] = disk[db]
    BY <1>1, <1>2, <1>4, <1>5 DEF DbTyped
  <1> QED
    BY <1>1, <1>2, <1>5, <1>6

LEMMA OneCompresses ==
    ASSUME IsFiniteSet(Procs), HistNext
    PROVE  \A p, q \in Procs : proc'[p].cmd = "x" /\ proc'[q].cmd = "x" => p = q
  <1> SUFFICES ASSUME NEW p \in Procs, NEW q \in Procs, proc'[p].cmd = "x", proc'[q].cmd = "x", p # q
               PROVE  FALSE
    OBVIOUS
  <1>1. Compressing' \subseteq Procs /\ {p, q} \subseteq Compressing' /\ Cardinality(Compressing') <= 1
    BY DEF Compressing, HistNext
  <1>2. IsFiniteSet(Compressing')
    BY <1>1, FS_Subset
  <1>3. Cardinality({p, q}) <= Cardinality(Compressing') /\ Cardinality(Compressing') \in Nat
    BY <1>1, <1>2, FS_Subset, FS_CardinalityType
  <1>4. Cardinality({p, q}) = 2
    <2>1. Cardinality({p}) = 1 /\ IsFiniteSet({p})
      BY FS_Singleton
    <2>2. Cardinality({p} \cup {q}) = 1 + 1
      BY <2>1, FS_AddElement
    <2> QED
      BY <2>2
  <1> QED
    BY <1>1, <1>3, <1>4

LEMMA StepFiles ==
    ASSUME IsFiniteSet(Procs), HistTyped, Files, HistNext
    PROVE  Files'
  <1>1. DbTyped /\ DbTyped' /\ DbNext /\ packed' = (packed \/ (db # NoFile /\ db' # db)) /\ packed \in BOOLEAN
    BY StepHistTyped DEF HistTyped, HistNext
  <1>2. db' # NoFile
    BY <1>1, FileEffect, SwapPutsSeen DEF Harmless, Born
  <1>3. ASSUME NEW q \in Procs, tmp' # NoFile
        PROVE  proc'[q].fd # tmp'
    <2>1. CASE proc'[q] = Idle
      BY <1>3, <2>1, IdleIs
    <2>2. CASE proc'[q].fd = proc[q].fd
      <3>1. CASE tmp' = tmp
        BY <1>3, <2>2, <3>1 DEF Files
      <3>2. CASE Free(tmp')
        BY <2>2, <3>2 DEF Free
      <3> QED
        BY <1>1, <1>3, <3>1, <3>2, TmpEffect
    <2>3. CASE proc'[q].fd = db' /\ tmp' = tmp /\ db' # tmp
      BY <2>3
    <2> QED
      BY <1>1, <2>1, <2>2, <2>3, FdStays
  <1>4. ASSUME NEW q \in Procs, proc'[q].pc # "idle", proc'[q].cmd = "x" \/ ~packed'
        PROVE  proc'[q].fd = db'
    <2>1. CASE proc'[q] = Idle
      BY <1>4, <2>1, IdleIs
    <2>2. CASE proc'[q].fd = proc[q].fd /\ proc'[q].cmd = proc[q].cmd /\ proc[q].pc # "idle"
      <3>1. proc[q].fd = db /\ db # NoFile
        BY <1>1, <1>4, <2>2 DEF Files
      <3>2. CASE Harmless
        BY <2>2, <3>1, <3>2 DEF Harmless
      <3>3. ASSUME NEW p \in Procs, Swap(p), db' # db
            PROVE  FALSE
        <4>1. proc[p].cmd = "x" /\ proc'[p].pc = "idle" /\ packed'
          BY <1>1, <3>1, <3>3, SwapPutsSeen
        <4>2. p = q
          BY <1>4, <2>2, <4>1 DEF Files
        <4> QED
          BY <1>4, <4>1, <4>2
      <3> QED
        BY <1>1, <3>1, <3>2, <3>3, FileEffect DEF Born
    <2>3. CASE proc'[q] = proc[q]
      <3>1. proc[q].pc # "idle"
        BY <1>4, <2>3
      <3> QED
        BY <2>2, <2>3, <3>1
    <2> QED
      BY <1>1, <2>1, <2>2, <2>3, FdStays
  <1>5. ASSUME NEW q \in Procs, proc'[q].pc = "copy"
        PROVE  tmp' # NoFile /\ proc'[q].tfd = tmp' /\ disk'[tmp'] = proc'[q].seen
    <2>1. CASE Copy(q)
      BY <2>1, CopyWritesSeen DEF Files, Copy
    <2>2. CASE MakeTmp(q)
      <3>1. tmp' \in Inodes /\ proc'[q].tfd = tmp' /\ proc'[q].seen = <<>>
        BY <1>1, <2>2, MakeTmpTyped, MakeTmpMoves
      <3>2. disk'[tmp'] = <<>>
        BY <1>1, <2>2, <3>1 DEF MakeTmp, DbTyped
      <3> QED
        BY <3>1, <3>2, StudentDBAssumption
    <2>3. CASE proc'[q] = proc[q] /\ ~Copy(q)
      BY <1>1, <1>5, <2>3, TmpStays DEF Files
    <2> QED
      BY <1>1, <1>5, <2>1, <2>2, <2>3, WhereFrom
  <1>6. ASSUME NEW q \in Procs, proc'[q].cmd = "x"
        PROVE  proc'[q].pc # "idle"
    BY <1>1, <1>6, IdleIs DEF DbTyped, LocalOK
  <1> QED
    BY <1>2, <1>3, <1>4, <1>5, <1>6, OneCompresses DEF Files

\* A step of another process cannot move a student behind the one that copies.
LEMMA OthersKeepPacking ==
    ASSUME HistTyped, Files, InOrder, HistNext, NEW p \in Procs, Packing(p), proc[p].pc = "copy",
           proc'[p] = proc[p]
    PROVE  Packing(p)'
  <1> DEFINE m == proc[p]
  <1>1. /\ DbTyped /\ DbTyped' /\ DbNext /\ m \in Locals /\ m.cmd = "x" /\ db # NoFile /\ m.fd = db
    BY StepHistTyped DEF HistTyped, HistNext, DbTyped, LocalOK, Files
  <1>2. Harmless
    <2>1. ASSUME NEW q \in Procs, Swap(q), db' # db
          PROVE  FALSE
      <3>1. proc[q].cmd = "x" /\ proc'[q].pc = "idle"
        BY <2>1, SwapPutsSeen
      <3>2. q = p
        BY <1>1, <3>1 DEF Files
      <3> QED
        BY <3>1, <3>2
    <2> QED
      BY <1>1, <2>1, FileEffect DEF Born
  <1>3. /\ db' = db /\ m.pos \in Nat
        /\ disk[db] \in Seq(Slots) /\ DOMAIN disk[db] = 1..Len(disk[db]) /\ Len(disk[db]) \in Nat
        /\ disk'[db] \in Seq(Slots) /\ DOMAIN disk'[db] = 1..Len(disk'[db]) /\ Len(disk'[db]) \in Nat
    <2>1. db' = db /\ m.pos \in Nat /\ disk[db] \in Seq(Slots) /\ disk'[db] \in Seq(Slots)
      BY <1>1, <1>2 DEF Harmless, DbTyped, Locals
    <2> QED
      BY <2>1, LenProperties
  <1>4. always'[p] \subseteq always[p] /\ always'[p] \subseteq Students' /\ ever[p] \subseteq ever'[p]
    BY HistoriesGrow
  <1>5. ASSUME NEW i \in DOMAIN disk'[db], i <= m.pos, disk'[db][i] # Empty
        PROVE  disk'[db][i] \in ToSet(m.seen) \/ disk'[db][i].id = i - 1
    BY <1>2, <1>5 DEF Harmless, Packing
  <1>6. ASSUME NEW r \in always'[p], r \notin ToSet(m.seen)
        PROVE  \E i \in DOMAIN disk'[db] : i > m.pos /\ disk'[db][i] = r
    <2>1. PICK j \in DOMAIN disk[db] : j > m.pos /\ disk[db][j] = r
      BY <1>4, <1>6 DEF Packing
    <2>2. PICK i \in DOMAIN disk'[db] : disk'[db][i] = r /\ r # Empty
      BY <1>1, <1>3, <1>4 DEF Students, ToSet
    <2>3. r.id >= j - 1 /\ r.id \in Int
      <3>1. r \in Records
        BY <1>4, StepHistTyped DEF HistTyped
      <3> QED
        BY <1>1, <2>1, <2>2, <3>1, StudentDBAssumption DEF InOrder, Records, Ids
    <2>4. CASE i > m.pos
      BY <2>2, <2>4
    <2>5. CASE ~(i > m.pos)
      <3>1. r.id = i - 1
        BY <1>3, <1>5, <1>6, <2>2, <2>5
      <3> QED
        BY <1>3, <2>1, <2>2, <2>3, <2>5, <3>1
    <2> QED
      BY <2>4, <2>5
  <1> QED
    BY <1>3, <1>4, <1>5, <1>6 DEF Packing

LEMMA CopyKeepsPacking ==
    ASSUME HistTyped, Files, InOrder, Watching, HistNext, NEW p \in Procs, Packing(p), Copy(p)
    PROVE  Packing(p)'
  <1> DEFINE m == proc[p]
             r == Slot(m.fd, m.pos)
             s == proc'[p]
  <1>1. /\ DbTyped /\ m \in Locals /\ m.pc = "copy" /\ m.cmd = "x" /\ HasSlot(m.fd, m.pos)
        /\ m.fd = db /\ db # NoFile /\ db' = db /\ disk'[db] = disk[db]
    BY CopyWritesSeen DEF HistTyped, DbTyped, LocalOK, Copy, Files
  <1>2. /\ db \in Inodes /\ disk[db] \in Seq(Slots) /\ m.pos \in Nat /\ m.seen \in Seq(Records)
        /\ DOMAIN disk[db] = 1..Len(disk[db]) /\ Len(disk[db]) \in Nat /\ Len(m.seen) \in Nat
    BY <1>1, LenProperties DEF DbTyped, Locals
  <1>3. m.pos + 1 \in DOMAIN disk[db] /\ r \in Slots /\ r = disk[db][m.pos + 1]
    BY <1>1, <1>2, SlotType DEF Slot
  <1>4. s.pc = "copy" /\ s.pos = m.pos + 1 /\ s.seen = IF r = Empty THEN m.seen ELSE Append(m.seen, r)
    BY <1>1, CopyMoves
  <1>5. Students' = Students
    BY <1>1, StudentsStay
  <1>6. always'[p] \subseteq always[p] /\ ever[p] \subseteq ever'[p] /\ Students \subseteq ever'[p]
    BY <1>1, <1>4, <1>5, HistoriesGrow
  <1>7. r # Empty => r \in Records /\ r.id >= (m.pos + 1) - 1 /\ r.id \in Int /\ r \in Students
    <2>1. r # Empty => r \in Records
      BY <1>3 DEF Slots
    <2>2. r # Empty => r.id >= (m.pos + 1) - 1
      BY <1>1, <1>3 DEF InOrder
    <2> QED
      BY <1>1, <1>3, <2>1, <2>2, StudentDBAssumption DEF Students, ToSet, Records, Ids
  <1>8. ToSet(s.seen) = ToSet(m.seen) \cup ({r} \ {Empty})
    <2>1. r # Empty => ToSet(Append(m.seen, r)) = ToSet(m.seen) \cup {r}
      BY <1>2, <1>7, ToSetAppend
    <2> QED
      BY <1>4, <2>1
  <1>9. ToSet(s.seen) \subseteq ever'[p]
    BY <1>1, <1>6, <1>7, <1>8 DEF Packing
  <1>10. /\ Len(m.seen) <= m.pos
         /\ \A i \in 1..Len(m.seen) : m.seen[i].id >= i - 1
    BY <1>1 DEF Packing
  <1>11. Len(s.seen) <= s.pos /\ \A i \in 1..Len(s.seen) : s.seen[i].id >= i - 1
    <2>1. CASE r = Empty
      BY <1>2, <1>4, <1>10, <2>1
    <2>2. CASE r # Empty
      <3>1. /\ Len(s.seen) = Len(m.seen) + 1
            /\ \A i \in 1..Len(m.seen) : s.seen[i] = m.seen[i]
            /\ s.seen[Len(m.seen) + 1] = r
        BY <1>2, <1>4, <1>7, <2>2, AppendProperties
      <3>2. r.id >= (Len(m.seen) + 1) - 1
        BY <1>2, <1>7, <1>10, <2>2
      <3>3. ASSUME NEW i \in 1..Len(s.seen)
            PROVE  s.seen[i].id >= i - 1
        <4>1. i \in 1..Len(m.seen) \/ i = Len(m.seen) + 1
          BY <1>2, <3>1
        <4> QED
          BY <1>10, <3>1, <3>2, <4>1
      <3> QED
        BY <1>2, <1>4, <1>10, <3>1, <3>3
    <2> QED
      BY <2>1, <2>2
  <1>12. ASSUME NEW i \in DOMAIN disk[db], i <= m.pos + 1, disk[db][i] # Empty
         PROVE  disk[db][i] \in ToSet(s.seen) \/ disk[db][i].id = i - 1
    <2>1. CASE i = m.pos + 1
      BY <1>3, <1>8, <1>12, <2>1
    <2>2. CASE i # m.pos + 1
      <3>1. i <= m.pos
        BY <1>2, <1>12, <2>2
      <3> QED
        BY <1>1, <1>8, <1>12, <3>1 DEF Packing
    <2> QED
      BY <2>1, <2>2
  <1>13. ASSUME NEW x \in always'[p], x \notin ToSet(s.seen)
         PROVE  \E i \in DOMAIN disk[db] : i > m.pos + 1 /\ disk[db][i] = x
    <2>1. PICK i \in DOMAIN disk[db] : i > m.pos /\ disk[db][i] = x
      BY <1>1, <1>6, <1>8, <1>13 DEF Packing
    <2>2. x # Empty
      <3>1. x \in Records
        BY <1>6 DEF HistTyped
      <3> QED
        BY <3>1, StudentDBAssumption DEF Records, Empty, Ids
    <2>3. i # m.pos + 1
      BY <1>3, <1>8, <1>13, <2>1, <2>2
    <2> QED
      BY <1>2, <2>1, <2>3
  <1> QED
    BY <1>1, <1>4, <1>9, <1>11, <1>12, <1>13 DEF Packing

LEMMA MakeTmpStartsPacking ==
    ASSUME HistTyped, Files, Watching, HistNext, NEW p \in Procs, MakeTmp(p)
    PROVE  Packing(p)'
  <1>1. /\ DbTyped /\ proc[p].pc = "mktmp" /\ db # NoFile /\ db' = db
    BY DEF HistTyped, MakeTmp, Files
  <1>2. proc'[p].pc = "copy" /\ proc'[p].pos = 0 /\ proc'[p].seen = <<>>
    BY <1>1, MakeTmpMoves
  <1>3. always'[p] \subseteq Students'
    BY <1>1, <1>2, HistoriesGrow
  <1>4. DbTyped'
    BY StepHistTyped DEF HistTyped
  <1>5. disk'[db'] \in Seq(Slots) /\ DOMAIN disk'[db'] = 1..Len(disk'[db']) /\ Len(disk'[db']) \in Nat
    BY <1>1, <1>4, LenProperties DEF DbTyped
  <1>6. \A r \in always'[p] : \E i \in DOMAIN disk'[db'] : i > 0 /\ disk'[db'][i] = r
    BY <1>1, <1>3, <1>5 DEF Students, ToSet
  <1>7. \A i \in DOMAIN disk'[db'] : ~(i <= 0)
    BY <1>5
  <1>8. Len(<<>>) = 0 /\ \A i : i \notin 1..0
    OBVIOUS
  <1> QED
    BY <1>2, <1>6, <1>7, <1>8, ToSetEmpty DEF Packing

LEMMA StepPacking ==
    ASSUME HistTyped, Files, InOrder, Watching, HistNext, NEW p \in Procs, Packing(p)
    PROVE  Packing(p)'
  <1>1. CASE proc'[p].pc # "copy"
    BY <1>1 DEF Packing
  <1>2. CASE proc'[p].pc = "copy"
    <2>1. proc'[p] = proc[p] \/ Copy(p) \/ MakeTmp(p)
      BY <1>2, WhereFrom DEF HistNext, HistTyped
    <2> QED
      BY <1>2, <2>1, OthersKeepPacking, CopyKeepsPacking, MakeTmpStartsPacking
  <1> QED
    BY <1>1, <1>2

LEMMA InitHist ==
    ASSUME HistInit
    PROVE  HistInv
  <1>1. DbTyped /\ \A p \in Procs : proc[p] = Idle
    BY InitTyped DEF HistInit, DbInit
  <1>2. HistTyped
    BY <1>1 DEF HistInit, HistTyped
  <1> QED
    BY <1>1, <1>2, IdleIs DEF HistInit, DbInit, HistInv, Files, InOrder, InPlace, Watching, Counting, Packing

LEMMA StepHist ==
    ASSUME IsFiniteSet(Procs), HistInv, [HistNext]_histVars
    PROVE  HistInv'
  <1>1. CASE HistNext
    <2>1. \A p \in Procs : Counting(p)' /\ Packing(p)'
      BY <1>1, StepCounting, StepPacking DEF HistInv
    <2> QED
      BY <1>1, <2>1, StepHistTyped, StepFiles, StepInOrder, StepWatching DEF HistInv
  <1>2. CASE UNCHANGED histVars
    <2>1. /\ disk' = disk /\ db' = db /\ tmp' = tmp /\ proc' = proc /\ runs' = runs
          /\ always' = always /\ ever' = ever /\ packed' = packed
      BY <1>2 DEF histVars, dbVars
    <2>2. HistTyped' /\ Files' /\ InOrder' /\ Watching'
      BY <2>1 DEF HistInv, HistTyped, DbTyped, Files, InOrder, InPlace, Watching, Students
    <2>3. \A p \in Procs : Counting(p)' /\ Packing(p)'
      BY <2>1 DEF HistInv, Counting, Packing, SeenOnce
    <2> QED
      BY <2>2, <2>3 DEF HistInv
  <1> QED
    BY <1>1, <1>2

LEMMA HistInvHolds ==
    ASSUME IsFiniteSet(Procs)
    PROVE  HistSpec => []HistInv
  <1>1. HistInv /\ [HistNext]_histVars => HistInv'
    BY StepHist
  <1> QED
    BY <1>1, InitHist, PTL DEF HistSpec

-----------------------------------------------------------------------------
\* However the system calls of any number of processes interleave, fail, and are
\* cut short by kills, a slot holds nobody but its own student until a
\* compression (sdbsc.c:113-213).
THEOREM SlotsAreOwn ==
    ASSUME IsFiniteSet(Procs)
    PROVE  HistSpec => []SlotOwnsItsStudent
  <1>1. HistInv => SlotOwnsItsStudent
    BY DEF HistInv, InOrder, SlotOwnsItsStudent
  <1> QED
    BY <1>1, HistInvHolds, PTL

LEMMA CountFacts ==
    ASSUME HistInv, "scan" \notin Faults, NEW p \in Procs, ~packed, proc[p].pc = "scan", ScanEnd(p)
    PROVE  /\ Cardinality(always[p]) <= Len(proc[p].seen)
           /\ Len(proc[p].seen) <= Cardinality(ever[p])
  <1> DEFINE seen == proc[p].seen
             n == Len(seen)
             f == [k \in 1..n |-> seen[k]]
  <1>1. /\ DbTyped /\ proc[p] \in Locals /\ proc[p].fd = db /\ db # NoFile /\ db \in Inodes /\ InPlace
        /\ seen \in Seq(Records) /\ proc[p].pos \in Nat
    BY DEF HistInv, HistTyped, DbTyped, Locals, Files, InOrder
  <1>2. /\ SeenOnce(proc[p]) /\ ToSet(seen) \subseteq ever[p]
        /\ \A r \in always[p] : r.id < proc[p].pos => r \in ToSet(seen)
    BY DEF HistInv, Counting
  <1>3. always[p] \subseteq Students /\ IsFiniteSet(ever[p])
    BY DEF HistInv, Watching
  <1>4. n \in Nat /\ DOMAIN seen = 1..n /\ f \in [1..n -> ToSet(seen)]
    BY <1>1, LenProperties DEF ToSet
  <1>5. IsFiniteSet(1..n) /\ Cardinality(1..n) = n
    BY <1>4, FS_Interval
  <1>6. always[p] \subseteq ToSet(seen)
    <2> SUFFICES ASSUME NEW r \in always[p] PROVE r \in ToSet(seen)
      OBVIOUS
    <2>1. disk[db] \in Seq(Slots) /\ Len(disk[db]) \in Nat /\ DOMAIN disk[db] = 1..Len(disk[db])
      BY <1>1, LenProperties DEF DbTyped
    <2>2. PICK k \in 1..Len(disk[db]) : r = disk[db][k] /\ r # Empty
      BY <1>1, <1>3, <2>1 DEF Students, ToSet
    <2>3. r.id = k - 1
      BY <1>1, <2>1, <2>2 DEF InPlace
    <2>4. ~HasSlot(db, proc[p].pos)
      BY <1>1 DEF ScanEnd, LooksLikeEnd
    <2>5. r.id < proc[p].pos
      BY <1>1, <2>1, <2>2, <2>3, <2>4 DEF HasSlot
    <2> QED
      BY <1>2, <2>5
  <1>7. IsFiniteSet(ToSet(seen)) /\ Cardinality(ToSet(seen)) <= n
    <2>1. f \in Surjection(1..n, ToSet(seen))
      BY <1>4 DEF Surjection, ToSet
    <2> QED
      BY <1>5, <2>1, FS_Surjection
  <1>8. Cardinality(always[p]) <= Cardinality(ToSet(seen))
    BY <1>6, <1>7, FS_Subset
  <1>9. n <= Cardinality(ever[p])
    <2>1. f \in [1..n -> ever[p]]
      BY <1>2, <1>4
    <2>2. \A i, j \in 1..n : f[i] = f[j] => i = j
      BY <1>2 DEF SeenOnce
    <2>3. f \in Injection(1..n, ever[p])
      BY <2>1, <2>2 DEF Injection, IsInjective
    <2> QED
      BY <1>3, <1>5, <2>3, FS_Injection
  <1>10. IsFiniteSet(always[p])
    BY <1>6, <1>7, FS_Subset
  <1>11. Cardinality(always[p]) \in Nat /\ Cardinality(ToSet(seen)) \in Nat
    BY <1>7, <1>10, FS_CardinalityType
  <1> QED
    BY <1>4, <1>7, <1>8, <1>9, <1>11

\* No process is killed and the loops over the file read it to its end: a count
\* that runs while any number of processes add and delete misses no student who
\* was there all along and reports none who never was (sdbsc.c:240-263).
THEOREM CountsArePlausible ==
    ASSUME IsFiniteSet(Procs), ~Crashes, "scan" \notin Faults
    PROVE  HistSpec => CountIsPlausible
  <1>1. ASSUME HistInv, HistNext, NEW p \in Procs, ~packed, proc[p].pc = "scan", proc'[p].pc = "idle"
        PROVE  ScanEnd(p)
    <2>1. ASSUME NEW q \in Procs, proc' = [proc EXCEPT ![q] = proc'[q]]
          PROVE  q = p
      BY <1>1, <2>1 DEF HistInv, HistTyped, DbTyped
    <2>2. DbTyped /\ DbNext
      BY <1>1 DEF HistInv, HistTyped, HistNext
    <2>3. ASSUME NEW q \in Procs, NEW cmd \in Commands, NEW i \in AskedOf(cmd),
                 NEW n \in (IF cmd = "a" THEN Names ELSE {NoName}), Start(q, cmd, i, n)
          PROVE  FALSE
      <3>1. q = p
        BY <2>1, <2>2, <2>3, Started
      <3> QED
        BY <1>1, <2>3, <3>1 DEF Start
    <2>4. ASSUME NEW q \in Procs, AddCheck(q) \/ GetStudent(q) \/ MakeTmp(q) \/ Copy(q)
          PROVE  FALSE
      <3>1. q = p
        BY <2>1, <2>2, <2>4, WriteMoves, MakeTmpMoves, CopyMoves
      <3> QED
        BY <1>1, <2>4, <3>1 DEF AddCheck, GetStudent, MakeTmp, Copy
    <2>5. ASSUME NEW q \in Procs, Scan(q)
          PROVE  FALSE
      <3>1. q = p /\ proc'[q].pc = "scan"
        BY <2>1, <2>2, <2>5, ScanMoves
      <3> QED
        BY <1>1, <3>1
    <2>6. ASSUME NEW q \in Procs, WriteSlot(q) \/ Swap(q) \/ Truncate(q) \/ CallFails(q) \/ Crash(q)
          PROVE  FALSE
      <3>1. Go(q, Idle)
        BY <2>6 DEF WriteSlot, Swap, Truncate, CallFails, Crash, Exit
      <3>2. q = p
        BY <2>1, <2>2, <3>1, IdleMoves
      <3> QED
        BY <1>1, <2>6, <3>2 DEF WriteSlot, Swap, Truncate, CallFails, Crash
    <2>7. ASSUME NEW q \in Procs, ScanEnd(q)
          PROVE  ScanEnd(p)
      <3>1. Go(q, Idle)
        BY <2>7 DEF ScanEnd, Exit
      <3> QED
        BY <2>1, <2>2, <2>7, <3>1, IdleMoves
    <2> QED
      BY <2>2, <2>3, <2>4, <2>5, <2>6, <2>7 DEF DbNext
  <1>2. HistInv /\ [HistNext]_histVars =>
          [\A p \in Procs : ~packed /\ proc[p].pc = "scan" /\ proc'[p].pc = "idle" =>
             /\ Cardinality(always[p]) <= Len(proc[p].seen)
             /\ Len(proc[p].seen) <= Cardinality(ever[p])]_histVars
    BY <1>1, CountFacts
  <1> QED
    BY <1>2, HistInvHolds, PTL DEF HistSpec, CountIsPlausible

\* The loops over the file read it to its end: a compression that runs while any
\* number of processes add, delete and zero puts in place every student who was
\* there all along and none who never was, whatever is killed meanwhile
\* (sdbsc.c:434-479).
THEOREM CompressesAmongWriters ==
    ASSUME IsFiniteSet(Procs), "scan" \notin Faults
    PROVE  HistSpec => CompressAmongWriters
  <1>1. ASSUME HistInv, HistNext, NEW p \in Compressing, db # NoFile, db' # db
        PROVE  always[p] \subseteq Students' /\ Students' \subseteq ever[p]
    <2>1. /\ HistTyped /\ DbTyped /\ Files /\ DbNext /\ p \in Procs /\ proc[p].cmd = "x"
      BY <1>1 DEF HistInv, HistTyped, HistNext, Compressing
    <2>2. PICK q \in Procs : Swap(q)
      BY <1>1, <2>1, FileEffect DEF Harmless, Born
    <2>3. /\ proc[q].cmd = "x" /\ proc[q].pc = "copy" /\ db' # NoFile /\ disk'[db'] = proc[q].seen
          /\ proc[q].seen \in Seq(Records) /\ LooksLikeEnd(db, proc[q].pos)
      BY <1>1, <2>1, <2>2, SwapPutsSeen
    <2>4. q = p
      BY <2>1, <2>3 DEF Files
    <2>5. Students' = ToSet(proc[p].seen)
      <3>1. Empty \notin Records
        BY StudentDBAssumption DEF Records, Empty, Ids
      <3>2. Empty \notin ToSet(proc[p].seen)
        BY <2>3, <2>4, <3>1, LenProperties, ElementOfSeq DEF ToSet
      <3> QED
        BY <2>3, <2>4, <3>2 DEF Students
    <2>6. \A i \in DOMAIN disk[db] : ~(i > proc[p].pos)
      <3>1. disk[db] \in Seq(Slots) /\ Len(disk[db]) \in Nat /\ DOMAIN disk[db] = 1..Len(disk[db])
            /\ proc[p].pos \in Nat
        BY <1>1, <2>1, LenProperties DEF DbTyped, Locals
      <3> QED
        BY <2>3, <2>4, <3>1 DEF LooksLikeEnd, HasSlot
    <2> QED
      BY <1>1, <2>1, <2>3, <2>4, <2>5, <2>6 DEF HistInv, Packing
  <1>2. HistInv /\ [HistNext]_histVars =>
          [\A p \in Compressing : db # NoFile /\ db' # db =>
             /\ always[p] \subseteq Students'
             /\ Students' \subseteq ever[p]]_histVars
    BY <1>1
  <1> QED
    BY <1>2, HistInvHolds, PTL DEF HistSpec, CompressAmongWriters
===============================================================================
