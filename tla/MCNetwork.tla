----------------------------- MODULE MCNetwork -----------------------------
\* Two containers whose names begin in the same way, and a third; the last
\* one's name, and one that may be made up from it, are names of other links.
EXTENDS Network

MCContainers == {<<"a", "a", "a", "a">>, <<"a", "a", "a", "b">>, <<"b", "b">>}
MCOthers == {<<"b", "b">>, <<"b", "a">>}
=============================================================================
