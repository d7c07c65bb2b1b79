----------------------------- MODULE PacketBuffer -----------------------------
(***************************************************************************)
(* What packets are built in and read into, and the remaining length that  *)
(* each of them begins with: write(), readPacket() and the member buffer   *)
(* of src/MQTT-TLS.cpp.                                                    *)
(***************************************************************************)
EXTENDS Naturals

CONSTANTS
    Base,         \* 128: the base of the remaining length
    MaxPacket     \* maxpacketsize

ASSUME BufferAssumption ==
    /\ Base \in Nat \ {0, 1}
    /\ MaxPacket \in Nat

VARIABLE buffer

\* What is left of a remaining length behind k of its digits, of which MQTT has
\* four at most.
Quotient(r, k) ==
    CASE k = 0 -> r
      [] k = 1 -> r \div Base
      [] k = 2 -> (r \div Base) \div Base
      [] k = 3 -> ((r \div Base) \div Base) \div Base

DigitCount(r) == CHOOSE k \in 1..4 :
    /\ k < 4 => Quotient(r, k) = 0
    /\ \A j \in 1..(k - 1) : Quotient(r, j) > 0

\* The digits, the least significant ones first, all but the last marked.
Digits(r) == [k \in 1..DigitCount(r) |->
    (Quotient(r, k - 1) % Base) + (IF k < DigitCount(r) THEN Base ELSE 0)]
==============================================================================
