----------------------------- MODULE MCDatalake -----------------------------
(* Small data lakes for TLC.                                               *)
EXTENDS Datalake

TwoPaths   == {<<"d1", "a">>, <<"d2", "a">>}
ThreePaths == {<<"d1", "a">>, <<"d1", "b">>, <<"d2", "a">>}
AllOps     == {"initialize", "insert", "remove", "purge", "list"}
=============================================================================
