----------------------------- MODULE SparseFile -----------------------------
(***************************************************************************)
(* What a file promises to the descriptors open on it: a string of bytes   *)
(* that holds at each place what was written there last, and zero where    *)
(* nothing was written since the file was last emptied.  It has no buffer  *)
(* and no capacity.                                                        *)
(***************************************************************************)
EXTENDS Integers, Sequences

CONSTANTS
    Bytes,      \* 0 among them
    Contents,   \* what the file may hold at first
    MaxOffset,  \* bound on the size of the file and on positions in it
    Fds         \* descriptors

VARIABLES
    content,  \* the bytes of the file
    pos,      \* pos[d]: the position of descriptor d, or Closed
    out       \* what the last read returned

vars == <<content, pos, out>>

Closed == -1

Init ==
    /\ content \in Contents
    /\ pos = [d \in Fds |-> Closed]
    /\ out = <<>>

Open(d) ==
    /\ pos[d] = Closed
    /\ content' \in {content, <<>>}
    /\ pos' \in {[pos EXCEPT ![d] = 0], [pos EXCEPT ![d] = Len(content')]}
    /\ UNCHANGED out

Close(d) ==
    /\ pos' = [pos EXCEPT ![d] = Closed]
    /\ UNCHANGED <<content, out>>

\* c, followed by zeros if it is shorter than n.
Padded(c, n) == [i \in 1 .. (IF Len(c) < n THEN n ELSE Len(c)) |->
                    IF i <= Len(c) THEN c[i] ELSE 0]

\* n bytes x.
Write(d, n, x) ==
    /\ pos[d] # Closed
    /\ content' = LET c == Padded(content, pos[d] + n)
                  IN  [i \in DOMAIN c |-> IF i > pos[d] /\ i <= pos[d] + n THEN x ELSE c[i]]
    /\ pos' = [pos EXCEPT ![d] = @ + n]
    /\ UNCHANGED out

\* At most n bytes, none at the end of the file.
Read(d, n) ==
    /\ pos[d] # Closed
    /\ out' = SubSeq(content, pos[d] + 1, IF pos[d] + n < Len(content) THEN pos[d] + n ELSE Len(content))
    /\ pos' = [pos EXCEPT ![d] = @ + Len(out')]
    /\ UNCHANGED content

Seek(d) ==
    /\ pos[d] # Closed
    /\ \E n \in 0 .. MaxOffset : pos' = [pos EXCEPT ![d] = n]
    /\ UNCHANGED <<content, out>>

Remove ==
    /\ content' = <<>>
    /\ UNCHANGED <<pos, out>>

Next ==
    \/ \E d \in Fds : Open(d) \/ Close(d) \/ Seek(d)
    \/ \E d \in Fds, n \in 1 .. MaxOffset : Read(d, n) \/ \E x \in Bytes : Write(d, n, x)
    \/ Remove

Spec == Init /\ [][Next]_vars
=============================================================================
