---- MODULE MCFs ----
(* Fs with two names, three nodes, paths of up to three components (some   *)
(* that go up or stay) and contents of up to two cells.                    *)
EXTENDS Fs

MCPaths ==
    {<<>>, <<"a">>, <<"b">>, <<"a", "b">>, <<"a", "b", "a">>,
     <<"a", Dot>>, <<"a", DotDot, "b">>}

MCContents == {<<1>>, <<2, 2>>}

====
