----------------------------- MODULE PacketStream -----------------------------
(***************************************************************************)
(* What loop() may expect of readPacket(), without bytes, records or a     *)
(* socket: the packets of the broker are handed on one by one, each whole, *)
(* in the order they were sent, and only a packet that does not fit the    *)
(* buffer is left out.                                                     *)
(***************************************************************************)
EXTENDS Naturals, Sequences

CONSTANTS
    Sizes,    \* the sizes a packet can have
    Limit     \* the size of the buffer

VARIABLES
    sizes,    \* the sizes of the packets sent, in order
    handed    \* the numbers of the packets loop() has acted on, in order

stream == <<sizes, handed>>

Newest == IF handed = <<>> THEN 0 ELSE handed[Len(handed)]

Init == sizes = <<>> /\ handed = <<>>

Send(s) ==
    /\ sizes' = Append(sizes, s)
    /\ UNCHANGED handed

\* Packet n is next: whatever lies between it and the last one did not fit.
Hand(n) ==
    /\ n > Newest
    /\ sizes[n] <= Limit
    /\ \A m \in (Newest + 1)..(n - 1) : sizes[m] > Limit
    /\ handed' = Append(handed, n)
    /\ UNCHANGED sizes

Next ==
    \/ \E s \in Sizes : Send(s)
    \/ \E n \in 1..Len(sizes) : Hand(n)

Spec == Init /\ [][Next]_stream
==============================================================================
