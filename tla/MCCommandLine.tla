----------------------------- MODULE MCCommandLine -----------------------------
(* Files, words and lines for the run of CommandLine.                          *)
EXTENDS CommandLine

CharsByCode ==
    <<" ", "!", "\"", "'", "*", "-", ".", "/", ":", "?", "[", "\\", "]", "a", "b", "d", "x">>

A == <<"a">>
B == <<"b">>
D == <<"d">>
DotA == <<".", "a">>

AllFiles == {<<A>>, <<B>>, <<DotA>>, <<D>>, <<D, A>>}
AllDirectories == {<<D>>}
Trees == {{<<A>>, <<B>>, <<D>>, <<DotA>>}, {<<D>>, <<D, A>>, <<DotA>>}}
AFileAndADirectory == {<<A>>, <<D>>}

Read(w) == [i \in DOMAIN w |->
    [text |-> <<w[i]>>, takes |-> {w[i]}, any |-> FALSE, magic |-> FALSE]]
One(text, takes) == [text |-> text, takes |-> takes, any |-> FALSE, magic |-> TRUE]
Star == [text |-> <<"*">>, takes |-> {}, any |-> TRUE, magic |-> TRUE]
AnyOne == One(<<"?">>, Chars)

Word(segments) == [quote |-> "none", segments |-> segments]
Plain(w) == Word(<<Read(w)>>)
InQuotes(q, w) == [quote |-> q, segments |-> <<Read(w)>>]

Patterns == {
    Word(<< <<Star>> >>), Word(<< <<AnyOne>> >>), Word(<< <<Star, Star>> \o Read(<<"b">>) >>),
    Word(<< <<One(<<"[", "a", "-", "b", "]">>, {"a", "b"}), Star>> >>),
    Word(<< <<One(<<"[", "!", "a", "]">>, Chars \ {"a"})>> >>),
    Word(<< <<One(<<"[", ".", "]">>, {"."})>> \o Read(<<"a">>) >>),
    Word(<<Read(<<".">>) \o <<Star>> >>),
    Word(<< <<Star>>, Read(A)>>), Word(<<Read(D), <<Star>> >>),
    Word(<< <<Star>>, <<Star>> >>), Word(<<Read(<<"x">>), <<Star>> >>)}

Texts == {
    Plain(A), Plain(<<"[", "a">>), InQuotes("\"", <<"a", " ", "*">>),
    InQuotes("'", <<"*">>), InQuotes("\"", <<"'">>), InQuotes("'", <<>>)}

Options == {
    Plain(<<"-", "a">>), Plain(<<"-", "a", "x">>), Plain(<<"-", "b", "a">>),
    Plain(<<"-", "a", "b">>), Plain(<<"-", "a", "-", "b">>), Plain(<<"-">>), Plain(<<"-", "-">>), Plain(<<"-", "-", "a">>),
    InQuotes("'", <<"-", ":">>), Plain(A)}

FollowingOptions == {
    Plain(<<"-", "a">>), Plain(<<"-", "a", "b">>), Plain(<<"-", "-">>), InQuotes("'", <<>>)}

MCLines ==
    {<<>>} \cup {<<w>> : w \in Patterns \cup Options}
    \cup {<<v, w>> : v \in Texts, w \in Patterns \cup {InQuotes("\"", <<"'">>)}}
    \cup {<<w, InQuotes("'", <<"*">>)>> : w \in Patterns}
    \cup {<<u, v, Plain(<<"-", "a">>)>> : u \in Options, v \in FollowingOptions}

MCBlanks == {<<" ", " ">>}
MCProgram == <<"\\", "x">>
MCOptStrings == {<<"a", "b", ":">>, <<":", "a", "b", ":">>, <<"-", "a", ":">>}
==============================================================================
