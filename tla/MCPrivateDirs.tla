--------------------------- MODULE MCPrivateDirs ---------------------------
\* Directories below each other, the home itself, paths that are refused, and
\* the ways to give the option: with items, without, twice, not at all.
EXTENDS PrivateDirs

A == <<"a">>
AB == <<"a", "/", "b">>
Home == <<".">>
Arg(kind, items) == [kind |-> kind, items |-> items]
MCCommands == {
    <<Arg("+", <<A>>)>>, <<Arg("+", <<AB, A>>)>>, <<Arg("+", <<AB, AB>>)>>,
    <<Arg("+", <<Home>>)>>, <<Arg("+", <<<<".", "/">>>>)>>,
    <<Arg("-", <<A>>)>>, <<Arg("-", <<AB>>)>>,
    <<Arg(":", <<AB>>)>>, <<Arg(":", <<>>)>>, <<Arg("+", <<>>), Arg("", <<>>)>>,
    <<Arg("+", <<A>>), Arg("+", <<AB>>)>>, <<Arg("+", <<A>>), Arg(":", <<>>)>>,
    <<Arg("+", <<A, <<"/", "a">>>>)>>, <<Arg("+", <<<<".", ".">>>>)>>,
    <<Arg(":", <<<<"a", "/", ".", ".", "/", "b">>>>)>>,
    <<Arg(":", <<<<"b", ".", "a">>>>)>>, <<Arg("+", <<<<>>, A>>)>>,
    <<Arg("?", <<A>>)>>}
=============================================================================
