------------------------------- MODULE RWBuffer -------------------------------
(***************************************************************************)
(* The buffer between a socket and a parser (src/src/buf.rs): bytes        *)
(* read..write of a vector are to be parsed, the rest is to be filled.     *)
(***************************************************************************)
EXTENDS Integers, Sequences

\* A buffer is [cells, read, write]; new cells hold 0.
NewBuffer(len) == [cells |-> [i \in 1..len |-> 0], read |-> 0, write |-> 0]

ReadBuf(b) == SubSeq(b.cells, b.read + 1, b.write)

\* advance_read; an empty buffer starts over at the front.
AdvanceRead(b, n) ==
    IF b.read + n = b.write THEN [b EXCEPT !.read = 0, !.write = 0]
    ELSE [b EXCEPT !.read = @ + n]

\* Mutant of Grown: the vector is replaced and not resized.
GrownAnew(b) == [b EXCEPT !.cells = [i \in 1..((Len(@) * 15) \div 10) |-> 0]]

\* grow, to one and a half times the length.
Grown(b) ==
    LET len == Len(b.cells)
    IN  [b EXCEPT !.cells = [i \in 1..((len * 15) \div 10) |-> IF i <= len THEN @[i] ELSE 0]]

\* write_buf grows a buffer that is full up to its end, whatever was read already.
ForWriting(b) == IF b.write = Len(b.cells) THEN Grown(b) ELSE b

\* How much a socket can put into write_buf.
Room(b) == LET w == ForWriting(b) IN Len(w.cells) - w.write

\* A read of the bytes d into write_buf, then advance_write.
Filled(b, d) ==
    LET w == ForWriting(b)
    IN  [w EXCEPT !.cells = [i \in DOMAIN @ |->
                               IF i \in w.write + 1 .. w.write + Len(d)
                               THEN d[i - w.write] ELSE @[i]],
                  !.write = @ + Len(d)]

=============================================================================
