\* Every string of up to six symbols for a buffer of five, every old text of
\* up to two and every new one of up to three; the dot is one of the letters.
CONSTANTS
    BUFFER_SZ = 5
    Letters = {"a", "."}
    MaxOld = 2
    MaxNew = 3
SPECIFICATION StringSpec
CHECK_DEADLOCK FALSE
INVARIANTS StringTypeOK SetupNormalises WordsAgree ReverseExact ReplaceExact BehindTheBuffer
