------------------------------- MODULE UdpSink -------------------------------
(***************************************************************************)
(* A stream of datagrams forwarded to a UDP socket: Forward, With and      *)
(* SplitSink of the futures library on top of UdpSocketSinkStream          *)
(* (src/src/io/udp.rs).                                                    *)
(*                                                                         *)
(* item is the datagram Forward has taken and not passed on, state the one *)
(* in With, slot the one in SplitSink, each a sequence of at most one;     *)
(* buffers are those of UdpSocketSinkStream.  With and SplitSink move on   *)
(* what they hold when they are polled, never on their own.                *)
(***************************************************************************)
EXTENDS Integers, Sequences

CONSTANT MaxBuffer      \* MAX_BUFFER_SIZE

NewForward == [item |-> <<>>, state |-> <<>>, slot |-> <<>>, buffers |-> <<>>]

Held(f) == f.buffers \o f.slot \o f.state \o f.item

\* With::poll: what is ready goes on with start_send, which fills the slot.
MoveState(f) == IF f.state = <<>> THEN f ELSE [f EXCEPT !.slot = f.state, !.state = <<>>]

\* poll_ready of UdpSocketSinkStream.
SocketReady(f) == Len(f.buffers) < MaxBuffer

\* SplitSink::poll_flush_slot, with start_send of UdpSocketSinkStream.
MoveSlot(f) ==
    IF f.slot # <<>> /\ SocketReady(f) THEN [f EXCEPT !.buffers = @ \o f.slot, !.slot = <<>>]
    ELSE f

\* poll_ready of the whole, and whether it is ready then.
Polled(f) == MoveSlot(MoveState(f))
Ready(f) == Polled(f).slot = <<>>

\* Forward starts to send the item; With makes it x.
Pushed(f, x) == [Polled(f) EXCEPT !.state = <<x>>, !.item = <<>>]

\* Mutant of FlushReady: SplitSink flushes whether its slot is empty or not.
FlushReadyAlways(f) == TRUE

\* SplitSink flushes the socket only if its own slot is empty.
FlushReady(f) == Ready(f)

\* Forward flushes when its source is pending: poll_flush of UdpSocketSinkStream
\* sends n datagrams, and the socket takes no more for now.
Flushed(f, n) == [Polled(f) EXCEPT !.buffers = SubSeq(@, n + 1, Len(@))]
FlushSends(f, n) == SubSeq(Polled(f).buffers, 1, n)

\* The buffers are full and another datagram waits in front of them.
Jammed(f) == Len(f.buffers) >= MaxBuffer /\ f.slot \o f.state # <<>>

=============================================================================
