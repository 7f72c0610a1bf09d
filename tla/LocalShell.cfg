\* Every input of at most six symbols; two commands and two arguments fit.
CONSTANTS
    CMD_MAX = 2
    CMD_ARGV_MAX = 3
    EXE_MAX = 4
    ARG_MAX = 5
    Symbols = {"a", "e", "c", "blank", "tab", "pipe", "quote", "newline"}
    MaxTyped = 6
    SH_CMD_MAX = 6
SPECIFICATION Spec
CHECK_DEADLOCK FALSE
INVARIANTS TypeOK ParsedAsWritten ArgvFits PartsAgree NoArgumentLeaks EndsOnlyWhenTold
