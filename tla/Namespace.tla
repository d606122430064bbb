----------------------------- MODULE Namespace ------------------------------
(***************************************************************************)
(* What ramfs promises about names: a set of paths that have a file, and   *)
(* descriptors that stay with the file they opened, whatever it is called  *)
(* by now.  There are no slots and no hash chains here.  What ramfs does   *)
(* not promise is what becomes of a descriptor whose file has been         *)
(* removed: it may have a file open that was made since (Reuse).           *)
(***************************************************************************)
CONSTANTS
    Paths,
    Handles,   \* open file descriptors, of whichever process
    Closed,    \* in the place of a path: the descriptor is not open
    Deleted,   \* the file has been unlinked, or replaced by a rename
    Reuse      \* whether descriptors of removed files may get others

VARIABLES
    exists,  \* the paths that have a file
    refers   \* refers[h]: the path of the file that descriptor h has open

vars == <<exists, refers>>

Init ==
    /\ exists \in SUBSET Paths
    /\ refers = [h \in Handles |-> Closed]

\* The descriptors once the file at p is gone.
Orphaned(p) == [h \in Handles |-> IF refers[h] = p THEN Deleted ELSE refers[h]]

\* The descriptors of removed files that a new file at p is open on.
Adoptions(p) ==
    {A \in SUBSET {h \in Handles : refers[h] = Deleted} : A # {} => Reuse /\ p \notin exists}
Adopted(A, p) == [h \in Handles |-> IF h \in A THEN p ELSE refers[h]]

Create(p) ==
    /\ exists' = exists \cup {p}
    /\ \E A \in Adoptions(p) : refers' = Adopted(A, p)

Open(h, p) ==
    /\ refers[h] = Closed
    /\ exists' = exists \cup {p}
    /\ \E A \in Adoptions(p) : refers' = [Adopted(A, p) EXCEPT ![h] = p]

Close(h) ==
    /\ refers' = [refers EXCEPT ![h] = Closed]
    /\ UNCHANGED exists

Unlink(p) ==
    /\ exists' = exists \ {p}
    /\ refers' = Orphaned(p)

\* What was at q is gone; to rename a file to its own name changes nothing.
Rename(p, q) ==
    /\ p # q /\ p \in exists
    /\ exists' = (exists \ {p}) \cup {q}
    /\ refers' = [h \in Handles |-> IF refers[h] = p THEN q ELSE Orphaned(q)[h]]

Next ==
    \/ \E p \in Paths : Create(p) \/ Unlink(p)
    \/ \E h \in Handles : Close(h) \/ \E p \in Paths : Open(h, p)
    \/ \E p, q \in Paths : Rename(p, q)

Spec == Init /\ [][Next]_vars
=============================================================================
