---------------------------- MODULE MCPacketSender ----------------------------
(***************************************************************************)
(* Values of PacketSender's constants for TLC: sockets and applications.   *)
(***************************************************************************)
EXTENDS PacketSender

\* TLS on a socket that takes nothing or a part.
Busy == [tls |-> TRUE, full |-> TRUE, partial |-> TRUE, repeats |-> TRUE,
         newIds |-> FALSE, replies |-> FALSE]
\* TCP on a socket that takes packets whole.
Plain == [tls |-> FALSE, full |-> FALSE, partial |-> FALSE, repeats |-> FALSE,
          newIds |-> FALSE, replies |-> TRUE]

GoodSetups == {s \in Setup : Orderly(s)}
WithReplies == {[Busy EXCEPT !.replies = TRUE]}
OverTls == {[Plain EXCEPT !.tls = TRUE]}
WithIds == {[Busy EXCEPT !.newIds = TRUE]}
==============================================================================
