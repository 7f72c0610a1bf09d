------------------------------ MODULE MCShell2 ------------------------------
(***************************************************************************)
(* Instances of Shell2 for TLC: scripts of up to two lines of every kind   *)
(* the code treats in its own way, the last one with or without newline,   *)
(* and of three lines of the kinds that change what later lines find.      *)
(***************************************************************************)
EXTENDS Shell2

Kinds == {
    <<>>,                                   \* empty
    <<Blank>>, <<Quote, Quote>>,            \* without a word
    <<"e">>, <<Tab, "c">>, <<"r">>,         \* built-in
    <<"a">>, <<Quote, "a", Quote>>,         \* a command there is
    <<"b">>, <<"a", Pipe, "b">>,            \* commands there are not
    <<"a", Blank, "b">>,                    \* as many words as argv has entries
    <<"a", Blank, "b", Blank, "c">>}        \* one more

Core == {<<Blank>>, <<"e">>, <<"r">>, <<"a">>, <<"b">>,
         <<"a", Blank, "b">>, <<"a", Blank, "b", Blank, "c">>}

Script(lines) == FlattenSeq([i \in DOMAIN lines |-> Append(lines[i], NewLine)])

MCScripts ==
    LET two   == {Script(lines) : lines \in UNION {[1..n -> Kinds] : n \in 0..2}}
        three == {Script(lines) : lines \in [1..3 -> Core]}
    IN  two \cup {Front(s) : s \in two \ {<<>>}} \cup three

MCExisting == {<<"a">>}
=============================================================================
