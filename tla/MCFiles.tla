-------------------------------- MODULE MCFiles --------------------------------
EXTENDS FileProperties, TLC
CONSTANTS p1, p2
MCPaths == {<<>>, <<"a">>, <<"b">>, <<"a", "b">>}
OnePath == {<<"a">>}
MCTargets == {<<>>, <<"b">>}
Sym == Permutations({p1, p2})
================================================================================
