\* Two clients; commands, system calls and clients fail.  A cut line may be blank.
CONSTANTS
    c1 = c1
    c2 = c2
    c3 = c3
    NoClient = NoClient
    Clients = {c1, c2}
    Lines = {"stop-server", "exit", "run", "cat"}
    MaxCmds = 2
    Backlog = 1
    Crashers = {c1, c2}
    ClientFaults = {c1, c2}
    Results = {0, 1}
    ServerFaults = {"boot", "accept", "malloc", "fork"}
    OutKinds = {"eof"}
    MaxOut = 1
    MaxOrphaned = 1
    Splits = TRUE
SPECIFICATION Spec
SYMMETRY ClientSymmetry
CHECK_DEADLOCK FALSE
INVARIANTS TypeOK ServerSockets NoStrandedClient
PROPERTY NeverRunsTwice
