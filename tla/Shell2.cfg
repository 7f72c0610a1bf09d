\* Scripts of up to three lines on a console, through a pipe and from a file.
CONSTANTS
    CMD_MAX = 2
    CMD_ARGV_MAX = 2
    EXE_MAX = 4
    ARG_MAX = 6
    Scripts <- MCScripts
    Inputs = {"console", "pipe", "file"}
    Existing <- MCExisting
    Statuses = {0, 2}
    SH_CMD_MAX = 6
    MaxTaken = 20
SPECIFICATION Shell2Spec
CHECK_DEADLOCK FALSE
INVARIANTS Shell2TypeOK ExecvpGetsLine ReadsEachOnce WritesEachOnce DiesOnlyWordless
PROPERTY ShellEnds
