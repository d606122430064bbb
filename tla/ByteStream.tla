----------------------------- MODULE ByteStream -----------------------------
(***************************************************************************)
(* What a pipe promises: a bounded queue of bytes.  Whoever writes, a byte *)
(* goes to the end; whoever reads gets the oldest one; none is lost, made  *)
(* up, delivered twice or overtaken.                                       *)
(***************************************************************************)
EXTENDS Naturals, Sequences

CONSTANTS
    Bytes,     \* the byte values
    Capacity   \* how many the queue can hold

VARIABLES
    queue,  \* the bytes written and not yet read, oldest first
    out     \* the last byte put in a reader's buffer

vars == <<queue, out>>

Init ==
    /\ queue = <<>>
    /\ out \in Bytes

Put(b) ==
    /\ Len(queue) < Capacity
    /\ queue' = Append(queue, b)
    /\ UNCHANGED out

Get ==
    /\ queue # <<>>
    /\ out' = Head(queue)
    /\ queue' = Tail(queue)

Next == Get \/ \E b \in Bytes : Put(b)

Spec == Init /\ [][Next]_vars
=============================================================================
