----------------------------- MODULE PacketSender -----------------------------
(***************************************************************************)
(* A packet on its way to the broker: netWrite() and what write() makes of *)
(* its result, with mbedtls_ssl_write(), the one record mbedTLS keeps when *)
(* the socket takes only a part of it, and send_Tls().                     *)
(*                                                                         *)
(* A packet is its number and its size, and a byte of it is the packet and *)
(* a position.  Encryption is left out: a record is the bytes it carries.  *)
(* The connection holds; Session and TlsLink have what happens when not.   *)
(***************************************************************************)
EXTENDS Naturals, SequencesExt

CONSTANTS
    Sizes,      \* sizes of the packets written
    Setups,     \* the sockets and applications looked at
    MaxRecord,  \* TLS: MBEDTLS_SSL_OUT_CONTENT_LEN
    MaxPackets  \* bound: packets

Setup ==
    [tls : BOOLEAN,      \* whether enableTls() was called
     full : BOOLEAN,     \* whether TCPClient::write() may take nothing
     partial : BOOLEAN,  \* whether TCPClient::write() may take a part
     repeats : BOOLEAN,  \* the application repeats a call that returned false, at
                         \* once and with the same arguments, until it returns true
     newIds : BOOLEAN,   \* whether its calls hand out packet ids (QoS 1 and 2)
     replies : BOOLEAN]  \* whether loop() writes packets of its own

\* The setups in which netWrite() can be relied upon: without TLS the socket takes
\* no packet in part; where it may take nothing, the application repeats its
\* calls, they hand out no ids, and loop() writes nothing.
Orderly(s) ==
    /\ s.partial => s.tls
    /\ s.full => s.repeats /\ ~s.newIds /\ ~s.replies

ASSUME SenderAssumption ==
    /\ Sizes \subseteq Nat \ {0, 1}
    /\ Setups \subseteq Setup
    /\ MaxRecord \in Nat \ {0}
    /\ MaxPackets \in Nat

VARIABLES
    setup,      \* one of Setups, for good
    packets,    \* the sizes of the packets written so far
    pending,    \* TLS: what is left of the record in mbedTLS's out buffer
    stream,     \* bytes on their way to the broker
    received,   \* the packets the broker has read, 0 for bytes that are none
    reported,   \* the packets for which a call has returned true
    owed        \* the packet whose last call returned false, 0 if none

vars == <<setup, packets, pending, stream, received, reported, owed>>

------------------------------------------------------------------------------
Bytes(n, size) == [i \in 1..size |-> [packet |-> n, at |-> i]]

Least(a, b) == IF a < b THEN a ELSE b

\* How many of count bytes a single TCPClient::write() takes.
Takes(count) ==
    {k \in 0..count : k = count \/ (k = 0 /\ setup.full) \/ (k \in 1..(count - 1) /\ setup.partial)}

\* mbedtls_ssl_flush_output() goes on until nothing is left or the socket takes
\* nothing, which send_Tls() makes MBEDTLS_ERR_SSL_WANT_WRITE.
FlushTakes(count) == IF setup.full THEN Takes(count) ELSE {count}

TypeOK ==
    /\ setup \in Setups
    /\ packets \in Seq(Sizes)
    /\ Len(packets) <= MaxPackets
    /\ \A i \in 1..Len(pending) :
        pending[i].at \in 1..Least(packets[pending[i].packet], MaxRecord)
    /\ Range(received) \subseteq 0..Len(packets)
    /\ reported \subseteq 1..Len(packets)
    /\ owed \in 0..Len(packets)
    \* a record is kept only for a call that has not returned true
    /\ pending /= <<>> => setup.tls /\ pending[1].packet \notin reported

Init ==
    /\ setup \in Setups
    /\ packets = <<>>
    /\ pending = <<>>
    /\ stream = <<>>
    /\ received = <<>>
    /\ reported = {}
    /\ owed = 0

------------------------------------------------------------------------------
(* netWrite(): puts bytes on the way; rc is its result. *)

\* Without TLS: TCPClient::write().
WritePlain(n, size, rc) ==
    /\ rc \in Takes(size)
    /\ stream' = stream \o SubSeq(Bytes(n, size), 1, rc)
    /\ UNCHANGED pending

\* Seeded fault: a record that is still in the buffer is overwritten.
WriteTlsOver(n, size, rc) ==
    LET record == Bytes(n, Least(size, MaxRecord))
    IN  \E k \in FlushTakes(Len(record)) :
            /\ stream' = stream \o SubSeq(record, 1, k)
            /\ pending' = SubSeq(record, k + 1, Len(record))
            /\ rc = IF pending' = <<>> THEN Least(size, MaxRecord) ELSE 0

\* Seeded fault: what the socket has not taken does not count.
WriteTlsHopeful(n, size, rc) ==
    LET record == IF pending /= <<>> THEN pending ELSE Bytes(n, Least(size, MaxRecord))
    IN  \E k \in FlushTakes(Len(record)) :
            /\ stream' = stream \o SubSeq(record, 1, k)
            /\ pending' = SubSeq(record, k + 1, Len(record))
            /\ rc = Least(size, MaxRecord)

\* mbedtls_ssl_write(): a record still in the buffer is all that is sent, in
\* place of the packet and as if it were the packet.  0 stands for WANT_WRITE.
WriteTls(n, size, rc) ==
    LET record == IF pending /= <<>> THEN pending ELSE Bytes(n, Least(size, MaxRecord))
    IN  \E k \in FlushTakes(Len(record)) :
            /\ stream' = stream \o SubSeq(record, 1, k)
            /\ pending' = SubSeq(record, k + 1, Len(record))
            /\ rc = IF pending' = <<>> THEN Least(size, MaxRecord) ELSE 0

NetWrite(n, size, rc) ==
    IF setup.tls THEN WriteTls(n, size, rc) ELSE WritePlain(n, size, rc)

------------------------------------------------------------------------------
(* The client *)

\* Seeded fault: any result but an error is good.
CallAnyResult(n, size) ==
    \E rc \in 0..size :
        /\ NetWrite(n, size, rc)
        /\ reported' = IF rc >= 0 THEN reported \union {n} ELSE reported
        /\ owed' = 0

\* write(), for publish(), subscribe() and unsubscribe(): true if the result is
\* the packet's size.
Call(n, size) ==
    \E rc \in 0..size :
        /\ NetWrite(n, size, rc)
        /\ reported' = IF rc = size THEN reported \union {n} ELSE reported
        /\ owed' = IF rc = size THEN 0 ELSE n

Publish(size) ==
    /\ Len(packets) < MaxPackets
    /\ setup.repeats => owed = 0
    /\ packets' = Append(packets, size)
    /\ Call(Len(packets) + 1, size)
    /\ UNCHANGED <<setup, received>>

\* The application repeats its call.  publish() builds the packet again: the
\* same one without an id, another one with the next id.
Repeat ==
    /\ setup.repeats
    /\ owed /= 0
    /\ IF setup.newIds
       THEN /\ Len(packets) < MaxPackets
            /\ packets' = Append(packets, packets[owed])
            /\ Call(Len(packets) + 1, packets[owed])
       ELSE Call(owed, packets[owed]) /\ UNCHANGED packets
    /\ UNCHANGED <<setup, received>>

\* loop() answers a packet, or pings; nobody looks at the result.
Reply(size) ==
    /\ setup.replies
    /\ Len(packets) < MaxPackets
    /\ setup.repeats => owed = 0
    /\ packets' = Append(packets, size)
    /\ \E rc \in 0..size : NetWrite(Len(packets) + 1, size, rc)
    /\ UNCHANGED <<setup, received, reported, owed>>

------------------------------------------------------------------------------
(* The broker takes its bytes for packets, as long as they are some. *)

BrokerReads ==
    /\ stream /= <<>>
    /\ \A i \in 1..Len(received) : received[i] /= 0
    /\ LET n == stream[1].packet
           size == packets[n]
           whole == IsPrefix(Bytes(n, size), stream)
       IN  IF stream[1].at /= 1
           THEN received' = Append(received, 0) /\ stream' = <<>>
           ELSE /\ Len(stream) >= size
                /\ received' = Append(received, IF whole THEN n ELSE 0)
                /\ stream' = SubSeq(stream, size + 1, Len(stream))
    /\ UNCHANGED <<setup, packets, pending, reported, owed>>

Next ==
    \/ \E size \in Sizes : Publish(size)
    \/ Repeat
    \/ \E size \in Sizes : Reply(size)
    \/ BrokerReads

Spec == Init /\ [][Next]_vars

\* A call that is repeated for ever succeeds in the end: what was in the socket
\* goes out, and its room is free for the rest.
FairSpec ==
    /\ Spec
    /\ WF_vars(BrokerReads)
    /\ WF_vars(Repeat)
    /\ SF_vars(Repeat /\ owed' = 0)

------------------------------------------------------------------------------
(* Properties *)

\* The broker reads the packets written, each whole, each once, in order, and
\* none is left out (netWrite(), mbedtls_ssl_write()).
Biggest == CHOOSE s \in Sizes : \A t \in Sizes : t <= s
Packets == INSTANCE PacketStream WITH
    Limit <- Biggest,
    sizes <- packets,
    handed <- received
BrokerGetsTheStream == Packets!Spec

\* A call that returned true has put its packet on the way to the broker: all
\* of it, and not the rest of another one (write(), netWrite()).
OnItsWay(n) ==
    \/ \E i \in 1..Len(received) : received[i] = n
    \/ \A b \in Range(Bytes(n, packets[n])) : \E i \in 1..Len(stream) : stream[i] = b
ReportedIsSent == \A n \in reported : OnItsWay(n)

\* A call that is repeated until it returns true gets its packet to the broker
\* (write(), netWrite()).
PublishedArrives ==
    \A n \in 1..MaxPackets :
        Len(packets) >= n ~> \E i \in 1..Len(received) : received[i] = n
==============================================================================
