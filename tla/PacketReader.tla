----------------------------- MODULE PacketReader -----------------------------
(***************************************************************************)
(* loop() taking a packet off the connection: available(), readByte() and  *)
(* readPacket() of src/MQTT-TLS.cpp, with recv_Tls() and what              *)
(* mbedtls_ssl_read() does with the records it reads.                      *)
(*                                                                         *)
(* The bytes of a packet are told apart by the packet and the position     *)
(* they come from; only the header and the digits of the remaining length  *)
(* have values.  The base of those digits (128) and the width of           *)
(* readPacket()'s counters (2^16) are constants.  What arrives is a        *)
(* sequence of records.  Without TLS a record is a single byte; with TLS   *)
(* it is what one decryption yields, possibly nothing (an alert that is    *)
(* ignored, a HelloRequest), or the broker's close_notify.                 *)
(*                                                                         *)
(* Every readByte() is a step, so the network and the broker move on       *)
(* between two bytes of a packet, and while readByte() waits for the next. *)
(***************************************************************************)
EXTENDS PacketBuffer, SequencesExt

CONSTANTS
    Width,        \* 2^16: len and length are uint16_t
    Packets,      \* the packets a broker sends: PUBLISH or not, remaining length
    Tls,          \* whether enableTls() was called: the cases looked at
    RecordSizes,  \* TLS: how many bytes a record may hold
    OnePerRecord, \* TLS: whether the broker keeps two packets out of one record
    CutInside,    \* whether the connection may break inside a packet
    Notify,       \* TLS: whether the broker's close_notify precedes the end
    MaxSent       \* bound: packets sent

ASSUME ReaderAssumption ==
    /\ Width \in Nat \ {0, 1}
    /\ MaxPacket >= 7
    /\ Packets \subseteq [publish : BOOLEAN, rest : Nat]
    /\ \A p \in Packets : p.rest < Base * Base * Base * Base
    /\ \A p \in Packets : p.publish => p.rest >= 2
    /\ Tls \subseteq BOOLEAN
    /\ {OnePerRecord, CutInside, Notify} \subseteq BOOLEAN
    /\ RecordSizes \subseteq Nat
    /\ MaxSent \in Nat

VARIABLES
    sent,      \* the packets sent so far
    wire,      \* bytes on their way
    socket,    \* records the TCP socket holds
    sock,      \* tcpClient: "open", "eof" once the peer is gone, "closed"
    tls,
    opened,    \* bytes of the record mbedTLS has opened and not yet given out
    pc,        \* where loop() is
    len, length, multiplier,
    todo,      \* bytes of the body still to be read
    handed     \* what loop() acted on: a packet's number, 0 if it is none

network == <<sent, wire>>
link == <<socket, sock, tls, opened>>
locals == <<len, length, multiplier, todo>>
vars == <<network, link, pc, locals, buffer, handed>>

------------------------------------------------------------------------------
(* Packets and bytes *)

SizeOf(p) == 1 + DigitCount(p.rest) + p.rest

Byte(n, i) == [packet |-> n, at |-> i]

\* Not bytes of a packet: the result -1 of readByte(), what disconnect() writes
\* into the buffer, what is in it before, and the broker's close_notify.
MinusOne == Byte(0, 1)
Disconnecting == Byte(0, 2)
Unset == Byte(0, 3)
CloseNotify == Byte(0, 4)

\* MinusOne is 255 as a digit: another one follows.
Digit(b) ==
    IF b.packet = 0 THEN 2 * Base - 1
    ELSE LET ds == Digits(sent[b.packet].rest)
         IN  IF b.at - 1 \in 1..Len(ds) THEN ds[b.at - 1] ELSE 0

IsPublish(b) == b.packet > 0 /\ b.at = 1 /\ sent[b.packet].publish

------------------------------------------------------------------------------
(* The connection *)

\* Seeded fault: what has arrived is dropped when the peer closes.
IsOpen == sock = "open"

\* TCPClient::connected() and isConnected(): true while bytes are unread.
IsConnected == sock = "open" \/ (sock = "eof" /\ socket /= <<>>)

\* available() asks the TCP socket only.
Available == socket /= <<>>

\* disconnect(): the link is gone, and its last packet was built in the buffer.
Farewell == [buffer EXCEPT ![0] = Disconnecting, ![1] = Disconnecting]

DropLink ==
    /\ sock' = "closed"
    /\ tls' = FALSE
    /\ socket' = <<>>
    /\ opened' = <<>>

\* The next byte of application data: mbedTLS opens a record when the last one
\* is used up.
HasByte ==
    \/ opened /= <<>>
    \/ socket /= <<>> /\ socket[1] \notin {<<>>, <<CloseNotify>>}

NextByte == IF opened /= <<>> THEN opened[1] ELSE socket[1][1]

Consume ==
    /\ IF opened /= <<>>
       THEN opened' = Tail(opened) /\ UNCHANGED socket
       ELSE opened' = Tail(socket[1]) /\ socket' = Tail(socket)
    /\ UNCHANGED <<sock, tls>>

\* mbedtls_ssl_read() fails, and not because nothing has arrived yet.
ReadFails ==
    /\ tls
    /\ opened = <<>>
    /\ \/ socket = <<>> /\ sock /= "open"
       \/ socket /= <<>> /\ socket[1] = <<CloseNotify>>

\* Seeded fault: the last place of the buffer is left out.
StoreBelow(buf, pos, b) == IF pos < MaxPacket - 1 THEN [buf EXCEPT ![pos] = b] ELSE buf

Store(buf, pos, b) == IF pos < MaxPacket THEN [buf EXCEPT ![pos] = b] ELSE buf

\* readByte(), its result stored at pos.  With neither a byte nor an error it
\* goes on waiting, for ever on a socket that is gone and without TLS.
ReadByte(b, pos) ==
    \/ HasByte /\ b = NextByte /\ Consume /\ buffer' = Store(buffer, pos, b)
    \/ ReadFails /\ b = MinusOne /\ DropLink /\ buffer' = Store(Farewell, pos, b)

ReadResult == {MinusOne} \union (IF HasByte THEN {NextByte} ELSE {})

------------------------------------------------------------------------------
TypeOK ==
    /\ sent \in Seq(Packets)
    /\ sock \in {"open", "eof", "closed"}
    /\ tls \in BOOLEAN
    /\ pc \in {"idle", "header", "check", "digit", "topic", "body"}
    /\ len \in 0..(Width - 1)
    /\ length \in 0..(Width - 1)
    /\ todo \in 0..(Width - 1)
    /\ \A i \in 1..Len(handed) : handed[i] \in 0..Len(sent)
    \* what is stored without a look at maxpacketsize stays below it
    /\ pc \in {"header", "check", "digit"} => len < MaxPacket
    /\ pc = "topic" => len + todo < MaxPacket

Init ==
    /\ sent = <<>>
    /\ wire = <<>>
    /\ socket = <<>>
    /\ sock = "open"
    /\ tls \in Tls
    /\ opened = <<>>
    /\ pc = "idle"
    /\ len = 0
    /\ length = 0
    /\ multiplier = 1
    /\ todo = 0
    /\ buffer = [i \in 0..(MaxPacket - 1) |-> Unset]
    /\ handed = <<>>

------------------------------------------------------------------------------
(* The broker and the network *)

Send(p) ==
    /\ sock = "open"
    /\ Len(sent) < MaxSent
    /\ sent' = Append(sent, p)
    /\ wire' = wire \o [i \in 1..SizeOf(p) |-> Byte(Len(sent) + 1, i)]
    /\ UNCHANGED <<link, pc, locals, buffer, handed>>

\* The next k bytes arrive as one record.
Arrive(k) ==
    /\ sock = "open"
    /\ k \in 1..Len(wire)
    /\ OnePerRecord => wire[1].packet = wire[k].packet
    /\ socket' = Append(socket, SubSeq(wire, 1, k))
    /\ wire' = SubSeq(wire, k + 1, Len(wire))
    /\ UNCHANGED <<sent, sock, tls, opened, pc, locals, buffer, handed>>

\* Bytes arrive that hold no application data.
ArriveEmpty ==
    /\ sock = "open"
    /\ tls
    /\ 0 \in RecordSizes
    /\ socket = <<>>
    /\ socket' = <<<<>>>>
    /\ UNCHANGED <<network, sock, tls, opened, pc, locals, buffer, handed>>

PeerCloses ==
    /\ sock = "open"
    /\ CutInside \/ wire = <<>>
    /\ sock' = "eof"
    /\ socket' = IF tls /\ Notify THEN Append(socket, <<CloseNotify>>) ELSE socket
    /\ wire' = <<>>
    /\ UNCHANGED <<sent, tls, opened, pc, locals, buffer, handed>>

------------------------------------------------------------------------------
(* loop() and readPacket() *)

\* Seeded fault: len goes on from the last packet.
LoopStartKeepsLen ==
    /\ pc = "idle"
    /\ IsConnected
    /\ Available
    /\ pc' = "header"
    /\ length' = 0
    /\ multiplier' = 1
    /\ UNCHANGED <<network, link, len, todo, buffer, handed>>

\* loop() finds something to read.
LoopStart ==
    /\ pc = "idle"
    /\ IsConnected
    /\ Available
    /\ pc' = "header"
    /\ len' = 0
    /\ length' = 0
    /\ multiplier' = 1
    /\ UNCHANGED <<network, link, todo, buffer, handed>>

\* While readByte() waits mbedTLS takes in what holds no application data.
SkipEmpty ==
    /\ pc \in {"header", "digit", "topic"} \/ (pc = "body" /\ todo > 0)
    /\ opened = <<>>
    /\ socket /= <<>>
    /\ socket[1] = <<>>
    /\ socket' = Tail(socket)
    /\ UNCHANGED <<network, sock, tls, opened, pc, locals, buffer, handed>>

ReadHeader ==
    /\ pc = "header"
    /\ \E b \in ReadResult : ReadByte(b, 0)
    /\ len' = 1
    /\ pc' = "check"
    /\ UNCHANGED <<network, length, multiplier, todo, handed>>

\* The digits of the remaining length end at one below the base.
ReadDigit ==
    /\ pc = "digit"
    /\ \E b \in ReadResult :
        /\ ReadByte(b, len)
        /\ LET more == Digit(b) >= Base
               sum == (length + (Digit(b) % Base) * multiplier) % Width
               start == IF IsPublish(buffer[0]) THEN 2 ELSE 0
           IN  /\ length' = sum
               /\ pc' = IF more THEN "check" ELSE IF start = 2 THEN "topic" ELSE "body"
               /\ todo' = IF more THEN todo ELSE IF start = 2 THEN 1 ELSE sum
    /\ len' = len + 1
    /\ multiplier' = multiplier * Base
    /\ UNCHANGED <<network, handed>>

\* Before each digit: a connection that is gone makes readPacket() return -1,
\* 65535 to loop(), which acts on a PUBLISH header with whatever else is in the
\* buffer.  (Other packets make it write on a connection that is gone.)
Check ==
    /\ pc = "check"
    /\ IF IsConnected
       THEN pc' = "digit" /\ UNCHANGED handed
       ELSE /\ pc' = "idle"
            /\ handed' = IF IsPublish(buffer[0]) THEN Append(handed, 0) ELSE handed
    /\ UNCHANGED <<network, link, locals, buffer>>

\* Seeded fault: the topic's length is read again as part of the body.
ReadTopicLengthTwice ==
    /\ pc = "topic"
    /\ \E b \in ReadResult : ReadByte(b, len)
    /\ len' = len + 1
    /\ IF todo = 1
       THEN pc' = pc /\ todo' = 0
       ELSE pc' = "body" /\ todo' = length
    /\ UNCHANGED <<network, length, multiplier, handed>>

\* The two bytes of a PUBLISH's topic length; todo counts the second.
ReadTopicLength ==
    /\ pc = "topic"
    /\ \E b \in ReadResult : ReadByte(b, len)
    /\ len' = len + 1
    /\ IF todo = 1
       THEN pc' = pc /\ todo' = 0
       ELSE pc' = "body" /\ todo' = IF length > 2 THEN length - 2 ELSE 0
    /\ UNCHANGED <<network, length, multiplier, handed>>

ReadBody ==
    /\ pc = "body"
    /\ todo > 0
    /\ \E b \in ReadResult : ReadByte(b, len)
    /\ len' = (len + 1) % Width
    /\ todo' = todo - 1
    /\ UNCHANGED <<network, pc, length, multiplier, handed>>

\* len as readPacket() leaves it: 0 stands for a packet to be ignored.
Fits(count) == count \in 1..MaxPacket

\* Packet n is what the first count bytes of the buffer hold.
Holds(n, count) ==
    count = SizeOf(sent[n]) /\ \A i \in 1..count : buffer[i - 1] = Byte(n, i)

\* readPacket() returns: 0, which loop() ignores, for a packet that is too
\* long.  A DISCONNECT, which disconnect() left in the buffer, does nothing.
Finish ==
    /\ pc = "body"
    /\ todo = 0
    /\ pc' = "idle"
    /\ handed' = IF ~Fits(len) \/ buffer[0] = Disconnecting THEN handed
                 ELSE LET whole == {n \in 1..Len(sent) : Holds(n, len)}
                      IN  Append(handed, IF whole = {} THEN 0 ELSE CHOOSE n \in whole : TRUE)
    /\ UNCHANGED <<network, link, locals, buffer>>

------------------------------------------------------------------------------
ReaderStep ==
    \/ LoopStart
    \/ SkipEmpty
    \/ ReadHeader
    \/ ReadDigit
    \/ Check
    \/ ReadTopicLength
    \/ ReadBody
    \/ Finish

DataArrives == \E k \in IF tls THEN RecordSizes ELSE {1} : Arrive(k)

Next ==
    \/ \E p \in Packets : Send(p)
    \/ DataArrives
    \/ ArriveEmpty
    \/ PeerCloses
    \/ ReaderStep

Spec == Init /\ [][Next]_vars

\* The sketches call loop() for as long as they run; the network delivers.
FairSpec == Spec /\ WF_vars(ReaderStep) /\ WF_vars(DataArrives)

------------------------------------------------------------------------------
(* Properties *)

\* What loop() acts on are the broker's packets, whole and in order, and the
\* ones left out are too long for the buffer (readPacket(), loop()).
HandedSize(n) == SizeOf(sent[n])
Stream == INSTANCE PacketStream WITH
    Sizes <- {SizeOf(p) : p \in Packets},
    Limit <- MaxPacket,
    sizes <- [n \in 1..Len(sent) |-> HandedSize(n)]
ReadsTheStream == Stream!Spec

\* readPacket() does not keep loop() for ever once it has the first byte of a
\* packet, whatever becomes of the connection.
LoopReturns == pc \notin {"idle", "header"} ~> pc = "idle"

Arrived(n) ==
    /\ n <= Len(sent)
    /\ SizeOf(sent[n]) <= MaxPacket
    /\ \A i \in 1..Len(wire) : wire[i].packet /= n

\* A packet that has arrived whole is acted on, without another one having to
\* arrive first and also if the peer has closed the connection behind it
\* (available(), readPacket()).
ArrivedIsHanded ==
    \A n \in 1..MaxSent :
        Arrived(n) ~> \E i \in 1..Len(handed) : handed[i] = n
==============================================================================
