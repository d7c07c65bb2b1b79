---------------------------- MODULE MCPacketReader ----------------------------
(***************************************************************************)
(* Values of PacketReader's constants for TLC.                             *)
(***************************************************************************)
EXTENDS PacketReader

Pub(r) == [publish |-> TRUE, rest |-> r]
Other(r) == [publish |-> FALSE, rest |-> r]

\* With Base 4 and MaxPacket 7: a PINGRESP, a PUBLISH with one digit, one with
\* two digits that just fits, and one that does not.
Traffic == {Other(0), Pub(3), Pub(4), Pub(5)}

\* Two of them are enough where only the end of the connection matters.
Short == {Other(2), Pub(3)}

\* With Width 8: a remaining length that does not fit the counters.
Long == {Other(9)}
==============================================================================
