----------------------------- MODULE MCProcess ------------------------------
(***************************************************************************)
(* Process with three slots.                                               *)
(***************************************************************************)
EXTENDS Process, TLC

CONSTANTS r1, r2, r3, r4

\* One more root than there are slots: execve needs two for a moment.
MCRoots == {r1, r2, r3, r4}

\* An exit code that does not fit the byte of the status word.
MCExitCodes == {511}

RootSymmetry == Permutations(MCRoots)
=============================================================================
