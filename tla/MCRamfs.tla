------------------------------ MODULE MCRamfs -------------------------------
(***************************************************************************)
(* Ramfs with two files in the root, two in a directory, and two buckets,  *)
(* one of which has to hold three of them.                                 *)
(***************************************************************************)
EXTENDS Ramfs

MCPaths == {<<"a">>, <<"b">>, <<"d", "a">>, <<"d", "b">>}
RootDir == {<<>>}
MCHash(p) == IF p = <<"b">> THEN 1 ELSE 0
=============================================================================
