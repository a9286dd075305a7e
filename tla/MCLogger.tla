------------------------------ MODULE MCLogger ------------------------------
(* LoggerHistory on a category with a child and a grandchild.              *)
EXTENDS LoggerHistory

MCNames == {<<"a">>, <<"a", "b">>, <<"a", "b", "c">>}

MCNoName == <<>>

LoggerSymmetry == Permutations(Threads) \cup Permutations(Paths)

=============================================================================
