---------------------------- MODULE MCPacketWriter ----------------------------
(***************************************************************************)
(* Values of PacketWriter's constants for TLC: with Base 4 a remaining     *)
(* length has two digits from 4 on and three from 16 on.                   *)
(***************************************************************************)
EXTENDS PacketWriter

\* Strings that are there, empty and missing.
SomeConnects ==
    [id : {0, 3}, will : {-1, 1}, message : {0}, willQos : {2}, willRetain : {1},
     user : {-1, 2}, pass : {-1, 1}, clean : BOOLEAN, keepalive : {15}]

\* Remaining lengths of one, two and three digits; a payload that just fits and
\* one that does not.
PublishArgs(topics, payloads) ==
    [topic : topics, payload : payloads, qos : 0..2, dup : {0}, retain : {1}, asks : BOOLEAN]
SomePublishes == PublishArgs({0, 6}, {0, 1, 10, 19, 20})

\* A topic longer than the buffer.
NoConnects == {}
LongPublishes == PublishArgs({30}, {1})
==============================================================================
