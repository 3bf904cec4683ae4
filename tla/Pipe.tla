--------------------------------- MODULE Pipe ---------------------------------
(***************************************************************************)
(* What the encrypted streams promise the code above them: a reliable      *)
(* stream of bytes.  A byte is its offset in the plaintext, and clear.     *)
(***************************************************************************)
EXTENDS Integers, Sequences

VARIABLES
    written,        \* how many bytes the writer's caller knows to be written
    delivered       \* the bytes the reader's caller has got

pipeVars == <<written, delivered>>

Byte(off) == [off |-> off, clear |-> TRUE]

Init ==
    /\ written = 0
    /\ delivered = <<>>

\* Some bytes more are written.
Write ==
    /\ written' \in Nat
    /\ written' > written
    /\ UNCHANGED delivered

\* Some of the written bytes are delivered, the next ones in order.
Read ==
    LET n == Len(delivered') - Len(delivered)
    IN  /\ n > 0
        /\ Len(delivered') <= written
        /\ delivered' = delivered \o [i \in 1..n |-> Byte(Len(delivered) + i - 1)]
        /\ UNCHANGED written

Next == Write \/ Read

Spec == Init /\ [][Next]_pipeVars

=============================================================================
