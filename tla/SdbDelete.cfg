\* A delete of a student who is not there.
CONSTANTS
    p1 = p1
    p2 = p2
    f1 = f1
    f2 = f2
    f3 = f3
    ann = ann
    bob = bob
    NoFile = NoFile
    NoName = NoName
    Procs = {p1}
    Inodes = {f1, f2, f3}
    MaxId = 2
    Names = {ann}
    Uninitialised <- AnyStack
    Commands = {"a", "d", "f"}
    MaxRuns = 4
    Exclusive = TRUE
    Crashes = FALSE
    Faults = {}
SPECIFICATION DbSpec
CHECK_DEADLOCK FALSE
PROPERTY DeleteFindsAsked
