------------------------------ MODULE StringFun ------------------------------
(***************************************************************************)
(* The string functions of 1-C-Refresher/stringfun.c: a program that puts  *)
(* its argument into a buffer of BUFFER_SZ cells, padded with dots, counts *)
(* or prints its words, reverses it, or replaces a part of it in place.    *)
(* The cells are numbered from 0 as in the code; cell BUFFER_SZ is the     *)
(* byte behind the buffer, which belongs to the heap.                      *)
(***************************************************************************)
EXTENDS Positions, SequencesExt

CONSTANTS
    BUFFER_SZ,      \* cells of the buffer
    Letters,        \* what words are made of; a dot may be one of them
    MaxOld, MaxNew  \* bounds: symbols of the arguments of -x

Blank == "blank"        \* a space, a tab or a newline
Dot == "."              \* the padding, and an ordinary symbol of an argument
Behind == "behind"      \* what the heap has behind the buffer

ASSUME StringFunAssumption ==
    /\ BUFFER_SZ \in Nat \ {0}
    /\ MaxOld \in Nat /\ MaxNew \in Nat
    /\ {Blank, Behind} \cap Letters = {}

VARIABLES
    pc,             \* "args", "buffered", "exited"
    opt,            \* the option letter
    input,          \* the arguments: the string, and what to replace by what
    old_str, new_str,
    buff, str_len,  \* the buffer, and how many of its cells are in use
    rc,             \* what the function of the option returned
    shown,          \* the words printed, or what was printed as one text
    code            \* the exit status

strVars == <<pc, opt, input, old_str, new_str, buff, str_len, rc, shown, code>>

Options == {"h", "c", "r", "w", "x", "z"}       \* z: an option it does not have
Text(symbols, n) == UNION {[1..m -> symbols] : m \in 0..n}
Cells == 0..BUFFER_SZ
Missing == <<"missing">>                        \* an argument that is not given

\* One symbol more than fits is enough for a string that is too long.
StringInit ==
    /\ pc = "args" /\ opt \in Options
    /\ input \in Text(Letters \cup {Blank}, BUFFER_SZ + 1) \cup {Missing}
    /\ old_str \in IF opt = "x" THEN Text(Letters \cup {Blank}, MaxOld) ELSE {Missing}
    /\ new_str \in IF opt = "x" THEN Text(Letters \cup {Blank}, MaxNew) \cup {Missing} ELSE {Missing}
    /\ buff = [k \in Cells |-> Behind] /\ str_len = 0
    /\ rc = 0 /\ shown = <<>> /\ code = -1

\* The program prints what `show` holds and exits.
Exits(status, show) ==
    /\ pc' = "exited" /\ code' = status /\ shown' = show
    /\ UNCHANGED <<opt, input, old_str, new_str, str_len>>

Shown(b, n) == [k \in 1..n |-> b[k - 1]]

-----------------------------------------------------------------------------
\* Mutant: the usage message without the exit.
UsageGoesOn ==
    /\ pc = "args" /\ (opt = "h" \/ input = Missing) /\ code = -1
    /\ code' = 1
    /\ UNCHANGED <<pc, opt, input, old_str, new_str, buff, str_len, rc, shown>>

\* -h, or no string: the usage message.
Usage ==
    /\ pc = "args" /\ (opt = "h" \/ input = Missing)
    /\ Exits(IF opt = "h" THEN 0 ELSE 1, <<>>)
    /\ UNCHANGED <<buff, rc>>

NoMemory ==
    /\ pc = "args" /\ opt # "h" /\ input # Missing
    /\ Exits(99, <<>>)
    /\ UNCHANGED <<buff, rc>>

\* Mutant: leading blanks are kept.
SetupCharLeading(s, ch) ==
    IF ch # Blank THEN [text |-> Append(s.text, ch), found_space |-> FALSE]
    ELSE IF s.found_space THEN s
    ELSE [text |-> Append(s.text, Blank), found_space |-> TRUE]

\* One turn of the loop of setup_buff.
SetupChar(s, ch) ==
    IF ch # Blank THEN [text |-> Append(s.text, ch), found_space |-> FALSE]
    ELSE IF s.found_space \/ s.text = <<>> THEN s
    ELSE [text |-> Append(s.text, Blank), found_space |-> TRUE]

\* What setup_buff copies: less a trailing blank.
Copied(user_str) ==
    LET s == FoldLeft(SetupChar, [text |-> <<>>, found_space |-> FALSE], user_str)
    IN  IF s.found_space THEN Front(s.text) ELSE s.text

\* Mutant: the padding goes one cell too far.
PaddedTooFar == 0..BUFFER_SZ

Padded == 0..BUFFER_SZ - 1

\* The string as typed is too long, or the buffer is filled and padded; after
\* the first check the loop's own check of the room cannot fail.
setup_buff ==
    /\ pc = "args" /\ opt # "h" /\ input # Missing
    /\ IF Len(input) > BUFFER_SZ
       THEN /\ rc' = -1
            /\ Exits(3, <<>>)
            /\ UNCHANGED buff
       ELSE LET text == Copied(input) IN
            /\ str_len' = Len(text)
            /\ buff' = [k \in Cells |-> IF k < Len(text) THEN text[k + 1]
                                        ELSE IF k \in Padded THEN Dot ELSE buff[k]]
            /\ pc' = "buffered"
            /\ UNCHANGED <<opt, input, old_str, new_str, rc, shown, code>>

-----------------------------------------------------------------------------
\* Mutant: the end of a word is not noticed.
CountCharOnce(s, ch) ==
    IF ch = Blank \/ s.in_word THEN s ELSE [words |-> s.words + 1, in_word |-> TRUE]

CountChar(s, ch) ==
    IF ch = Blank THEN [s EXCEPT !.in_word = FALSE]
    ELSE IF s.in_word THEN s ELSE [words |-> s.words + 1, in_word |-> TRUE]

count_words ==
    /\ pc = "buffered" /\ opt = "c"
    /\ rc' = FoldLeft(CountChar, [words |-> 0, in_word |-> FALSE], Shown(buff, str_len)).words
    /\ Exits(0, <<>>)
    /\ UNCHANGED buff

\* Mutant: the two ends go past each other and swap everything back.
SwapsAll == str_len

\* The swaps until start meets end.
Swaps == str_len \div 2

Swap(b, n) == [b EXCEPT ![n - 1] = b[str_len - n], ![str_len - n] = b[n - 1]]

reverse_string ==
    /\ pc = "buffered" /\ opt = "r"
    /\ IF str_len < 1 THEN rc' = -1 /\ Exits(3, <<>>) /\ UNCHANGED buff
       ELSE /\ buff' = FoldLeft(Swap, buff, [n \in 1..Swaps |-> n])
            /\ rc' = 0
            /\ Exits(0, Shown(buff', str_len))

\* One turn of the loop of word_print: a blank ends a word and prints it.
WordChar(s, ch) ==
    IF ch # Blank THEN [s EXCEPT !.word = Append(@, ch)]
    ELSE IF s.word = <<>> THEN s
    ELSE [out |-> Append(s.out, s.word), word |-> <<>>]

\* The last word is printed after the loop.
word_print ==
    /\ pc = "buffered" /\ opt = "w"
    /\ IF str_len < 1 THEN rc' = -1 /\ Exits(3, <<>>)
       ELSE LET s == WordChar(FoldLeft(WordChar, [out |-> <<>>, word |-> <<>>],
                                       Shown(buff, str_len)), Blank) IN
            /\ rc' = Len(s.out)
            /\ Exits(0, s.out)
    /\ UNCHANGED buff

-----------------------------------------------------------------------------
OccursAt(i) == \A j \in DOMAIN old_str : buff[i + j - 1] = old_str[j]
Occurs == {i \in 0..str_len - Len(old_str) : OccursAt(i)}

Put(b, i, s) == [k \in Cells |-> IF k - i + 1 \in DOMAIN s THEN s[k - i + 1] ELSE b[k]]

\* Too long: as much of new_str as the buffer had room left, and dots from
\* that room's length on, whatever was there.
Overflowed(i) ==
    LET room == BUFFER_SZ - str_len
        b    == Put(buff, i, SubSeq(new_str, 1, room))
    IN  [k \in Cells |-> IF k \in room..BUFFER_SZ - 1 THEN Dot ELSE b[k]]

\* Mutant: the tail is moved from its beginning.
MovesUp(i) == [n \in 1..str_len - i - Len(old_str) + 1 |-> i + Len(old_str) + n - 1]

\* The tail is moved cell by cell from its end, the cell behind it first.
Moves(i) == [n \in 1..str_len - i - Len(old_str) + 1 |-> str_len - n + 1]

Shift == Len(new_str) - Len(old_str)

Move(b, k) == [b EXCEPT ![k + Shift] = b[k]]

Replaced(i) == Put(FoldLeft(Move, buff, Moves(i)), i, new_str)

TooLong == str_len + Shift > BUFFER_SZ

\* "Modified String" stops at the first dot, wherever that comes from.
Modified(b) ==
    LET n == SelectInSeq(Shown(b, BUFFER_SZ), LAMBDA ch : ch = Dot)
    IN  Shown(b, IF n = 0 THEN BUFFER_SZ ELSE n - 1)

find_replace ==
    /\ pc = "buffered" /\ opt = "x" /\ new_str # Missing
    /\ IF old_str = <<>> THEN rc' = -1 /\ UNCHANGED buff /\ Exits(0, <<>>)
       ELSE IF Occurs = {} THEN rc' = 1 /\ UNCHANGED buff /\ Exits(0, <<>>)
       ELSE LET i == CHOOSE m \in Occurs : \A n \in Occurs : m <= n IN
            IF TooLong THEN rc' = -2 /\ buff' = Overflowed(i) /\ Exits(0, <<>>)
            ELSE rc' = 0 /\ buff' = Replaced(i) /\ Exits(0, Modified(buff'))

\* -x without its arguments, or an option there is none of: after the buffer
\* has been set up.
BadArguments ==
    /\ pc = "buffered" /\ (opt = "z" \/ (opt = "x" /\ new_str = Missing))
    /\ Exits(1, <<>>)
    /\ UNCHANGED <<buff, rc>>

StringNext ==
    \/ Usage
    \/ NoMemory
    \/ setup_buff
    \/ count_words
    \/ reverse_string
    \/ word_print
    \/ find_replace
    \/ BadArguments

StringSpec == StringInit /\ [][StringNext]_strVars

-----------------------------------------------------------------------------
StringTypeOK ==
    /\ pc \in {"args", "buffered", "exited"}
    /\ buff \in [Cells -> Letters \cup {Blank, Dot, Behind}]
    /\ str_len \in 0..BUFFER_SZ
    /\ rc \in -2..BUFFER_SZ
    /\ pc = "exited" <=> code # -1

(***************************************************************************)
(* What an argument says, by position.  Its text has its letters, and the  *)
(* blanks directly behind a letter when another letter comes later.  A     *)
(* word starts at a letter with no letter before it, and has the letters   *)
(* up to where the next one starts.                                        *)
(***************************************************************************)
Kept(s, k) ==
    s[k] # Blank \/ (k > 1 /\ s[k - 1] # Blank /\ \E j \in k + 1..Len(s) : s[j] # Blank)

TextOf(s) == Pick(s, {k \in DOMAIN s : Kept(s, k)})

Starts(s, k) == s[k] # Blank /\ (k = 1 \/ s[k - 1] = Blank)

Started(s, k) == Cardinality({j \in 1..k : Starts(s, j)})

WordsOf(s) ==
    [n \in 1..Started(s, Len(s)) |->
        Pick(s, {k \in DOMAIN s : s[k] # Blank /\ Started(s, k) = n})]

\* The text of the buffer, when `text` is what it should hold, and it is padded.
Holds(text) ==
    /\ Len(text) <= BUFFER_SZ
    /\ \A k \in 0..BUFFER_SZ - 1 : buff[k] = IF k < Len(text) THEN text[k + 1] ELSE Dot

\* setup_buff leaves the words of the string with one blank between two of them
\* and nothing else in the buffer, wherever the blanks were (stringfun.c:36-68).
SetupNormalises ==
    pc = "buffered" => Holds(TextOf(input))

\* count_words and word_print, two loops that look for the same thing, agree
\* with the words of the argument as typed, and leave the buffer alone; only
\* an empty text is an error for one and no error for the other
\* (stringfun.c:82-97, 118-166).
WordsAgree ==
    pc = "exited" /\ code # 99 /\ opt \in {"c", "w"} /\ input # Missing /\ Len(input) <= BUFFER_SZ =>
        LET words == WordsOf(input) IN
        /\ Holds(TextOf(input))
        /\ opt = "c" => rc = Len(words) /\ code = 0
        /\ opt = "w" => IF words = <<>> THEN code = 3 ELSE rc = Len(words) /\ shown = words

\* Reversing turns the text round and neither moves nor prints the padding
\* (stringfun.c:102-115).
ReverseExact ==
    pc = "exited" /\ opt = "r" /\ code = 0 =>
        /\ Holds(Reverse(TextOf(input)))
        /\ shown = Reverse(TextOf(input))

(***************************************************************************)
(* The text with its first occurrence of old_str replaced.                 *)
(***************************************************************************)
Before == TextOf(input)
Places == {i \in 0..Len(Before) - Len(old_str) : SubSeq(Before, i + 1, i + Len(old_str)) = old_str}
After(i) == SubSeq(Before, 1, i) \o new_str \o SubSeq(Before, i + Len(old_str) + 1, Len(Before))
Wanted == After(CHOOSE i \in Places : \A j \in Places : i <= j)

\* A string is reported as not found only if it is not there, which leaves the
\* text alone, and as replaced only if it is; a replacement that fits, down to
\* the last cell, is made; and one that is not shorter than what it replaces
\* gives the text with the first occurrence replaced, padded, all of it printed
\* if it has no dot.  Nothing is said of what does not fit, nor of what a shorter
\* one leaves, which is not what test.sh:84-100 expects (stringfun.c:184-217,
\* 324-329).
ReplaceExact ==
    pc = "exited" /\ opt = "x" /\ code = 0 /\ old_str # <<>> =>
        /\ rc = 1 => Places = {}
        /\ rc = 1 => Holds(Before)
        /\ rc = 0 => Places # {}
        /\ Places # {} /\ Len(Wanted) <= BUFFER_SZ => rc = 0
        /\ rc = 0 /\ Len(new_str) >= Len(old_str) => Holds(Wanted)
        /\ rc = 0 /\ Len(new_str) >= Len(old_str) /\ Dot \notin ToSet(Wanted) => shown = Wanted

\* The byte behind the buffer is overwritten only by a replacement that fills
\* the buffer to the last cell, and gets into the buffer only by one that
\* shortens a text that did (stringfun.c:207-209).
BehindTheBuffer ==
    /\ buff[BUFFER_SZ] # Behind =>
           pc = "exited" /\ opt = "x" /\ rc = 0 /\ str_len < BUFFER_SZ /\ Len(Wanted) = BUFFER_SZ
    /\ code = 0 /\ opt # "h" /\ (\E k \in 0..BUFFER_SZ - 1 : buff[k] = Behind) =>
           rc = 0 /\ opt = "x" /\ str_len = BUFFER_SZ /\ Len(new_str) < Len(old_str)
=============================================================================
