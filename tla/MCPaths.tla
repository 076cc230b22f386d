------------------------------ MODULE MCPaths ------------------------------
(* Texts over two letters, a slash and a space, for TLC.                    *)
EXTENDS Paths

MCUpper == [a |-> "A"]
MCDelims == {<<"/">>, <<" ">>, <<"a", "a">>, <<"/", "b">>}
MCDirs == {<<"/">>, <<"/", "a">>, <<"/", "b", "/", "a">>}

=============================================================================
