\* Pipelines of one to three commands of every kind; pipe, fork and dup2 may fail.
CONSTANTS
    MaxStages = 3
    Capacity = 1
    Amount = 2
    Kinds = {"source", "yes", "filter", "head", "crash", "bad"}
    CallError <- ERR_RDSH_COMMUNICATION
    Faults = {"pipe", "fork", "dup"}
SPECIFICATION Spec
CHECK_DEADLOCK FALSE
INVARIANTS TypeOK OnlyOwnEnds ReturnsClean NeverStuck
PROPERTY PipelineEnds
