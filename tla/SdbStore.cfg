\* One command at a time, compressions among them, any of them killed; the
\* record on del_student's stack is zero.
CONSTANTS
    p1 = p1
    p2 = p2
    f1 = f1
    f2 = f2
    f3 = f3
    ann = ann
    bob = bob
    NoFile = NoFile
    NoName = NoName
    Procs = {p1}
    Inodes = {f1, f2, f3}
    MaxId = 3
    Names = {ann, bob}
    Uninitialised <- ZeroStack
    Commands = {"a", "d", "f", "c", "p", "x", "z"}
    MaxRuns = 5
    Exclusive = TRUE
    Crashes = TRUE
    Faults = {"open", "read", "write", "rename"}
SPECIFICATION DbSpec
CHECK_DEADLOCK FALSE
INVARIANTS DbTypeOK
PROPERTIES IsStudentStore OnlyAsAsked CompressIsExact
