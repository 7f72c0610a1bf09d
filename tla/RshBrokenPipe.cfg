\* One client may be killed; every command succeeds.
CONSTANTS
    c1 = c1
    c2 = c2
    c3 = c3
    NoClient = NoClient
    Clients = {c1}
    Lines = {"run"}
    MaxCmds = 2
    Backlog = 1
    Crashers = {c1}
    ClientFaults = {}
    Results = {0}
    ServerFaults = {}
    OutKinds = {"out"}
    MaxOut = 1
    MaxOrphaned = 1
    Splits = FALSE
SPECIFICATION Spec
CHECK_DEADLOCK FALSE
INVARIANT ServerSurvives
