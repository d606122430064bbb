---------------------------- MODULE MCRamfsFile -----------------------------
(***************************************************************************)
(* RamfsFile with pages of two bytes.                                      *)
(***************************************************************************)
EXTENDS RamfsFile

\* Empty, and less than a page.
SmallFiles == {<<>>, <<1>>}

\* More than a page.
LargeFile == {<<1, 1, 1>>}
=============================================================================
