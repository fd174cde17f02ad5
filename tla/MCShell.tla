------------------------------- MODULE MCShell -------------------------------
(* Lines of no word, of fewer words than argv has places, of as many and of *)
(* more, so that a short line follows a long one.                           *)
EXTENDS Shell

MCCommandLines == {<< >>, <<"ls">>, <<"ls", "a">>, <<"b">>, <<"b", "a", "a">>,
                   <<"ls", "b", "a", "a">>}
=============================================================================
