\* Every command succeeds and nothing else fails: the protocol as it is meant.
CONSTANTS
    c1 = c1
    c2 = c2
    c3 = c3
    NoClient = NoClient
    Clients = {c1, c2, c3}
    Lines = {"stop-server", "blank", "run"}
    MaxCmds = 2
    Backlog = 2
    Crashers = {}
    ClientFaults = {}
    Results = {0}
    ServerFaults = {"parse"}
    OutKinds = {"out"}
    MaxOut = 2
    MaxOrphaned = 1
    Splits = FALSE
SPECIFICATION LiveSpec
CHECK_DEADLOCK FALSE
INVARIANTS AnswersMatchRequests RunsWhatWasTyped ServerSurvives
PROPERTIES IsRemoteExec EveryClientEnds
