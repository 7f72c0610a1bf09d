\* Two processes at a time on the same file, one of them may compress it.
CONSTANTS
    p1 = p1
    p2 = p2
    f1 = f1
    f2 = f2
    f3 = f3
    ann = ann
    bob = bob
    NoFile = NoFile
    NoName = NoName
    Procs = {p1, p2}
    Inodes = {f1, f2, f3}
    MaxId = 2
    Names = {ann, bob}
    Uninitialised <- AnyStack
    Commands = {"a", "d", "c", "x", "z"}
    MaxRuns = 5
    Exclusive = FALSE
    Crashes = FALSE
    Faults = {}
SPECIFICATION HistSpec
CHECK_DEADLOCK FALSE
INVARIANT SlotOwnsItsStudent
PROPERTIES CountIsPlausible CompressAmongWriters
