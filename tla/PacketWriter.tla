----------------------------- MODULE PacketWriter -----------------------------
(***************************************************************************)
(* How a packet is built in the buffer: connect(), publish(), subscribe()  *)
(* and unsubscribe() with writeString() and write(), publishRelease(),     *)
(* publishComplete() and the PUBACK and PUBREC of loop(), and how packets  *)
(* of those forms are read: a PUBLISH and an acknowledgement as loop()     *)
(* reads its own, a CONNECT or SUBSCRIBE as a broker does.                 *)
(*                                                                         *)
(* A cell of the buffer is a number or a character, told apart by the      *)
(* string it belongs to and its place there.  A byte is 2 * Base values    *)
(* wide: its upper half marks a digit of the remaining length that another *)
(* one follows.  Headers and CONNECT flags keep their real bits.           *)
(***************************************************************************)
EXTENDS PacketBuffer, Integers, SequencesExt

CONSTANTS
    Beyond,     \* bound: memory looked at after the end of the buffer
    Connects,   \* the arguments of connect()
    Publishes,  \* the arguments of publish()
    Filters,    \* lengths of topic filters
    Ids,        \* message ids: where the counter stands, what a broker uses
    MaxCalls    \* bound: calls

\* A string is given by its length; -1 in one of connect()'s stands for NULL.
ASSUME WriterAssumption ==
    \* the length of an acknowledgement is one digit
    /\ Base > 2
    \* what a CONNECT with all its strings can go over
    /\ Beyond \in Nat /\ Beyond >= 27
    \* maxpacketsize has 16 bits, three digits at most
    /\ MaxPacket + Beyond <= Base * Base * Base
    /\ Connects \subseteq
        [id : Nat, will : Nat \union {-1}, message : Nat, willQos : 0..2, willRetain : 0..1,
         user : Nat \union {-1}, pass : Nat \union {-1}, clean : BOOLEAN,
         keepalive : 0..(4 * Base * Base - 1)]
    /\ Publishes \subseteq
        [topic : Nat, payload : Nat, qos : 0..2, dup : 0..1, retain : 0..1, asks : BOOLEAN]
    /\ Filters \subseteq Nat
    /\ Ids \subseteq 0..(4 * Base * Base - 1)
    /\ MaxCalls \in Nat

VARIABLES
    nextMsgId,
    call,     \* the last call and its arguments
    told,     \* the message id it gave the application, or was given
    packet,   \* the bytes it handed to netWrite()
    top,      \* the first place of the buffer it left free
    calls     \* number of calls

written == <<buffer, nextMsgId, call, told, packet, top, calls>>

ByteSpace == 2 * Base
IdSpace == ByteSpace * ByteSpace

------------------------------------------------------------------------------
(* The buffer; a cursor is a buffer and the place the next byte goes to. *)

Number(n) == [of |-> "number", val |-> n]
Chars(name, count) == [i \in 1..count |-> [of |-> name, val |-> i]]

Word(n) == <<Number(n \div ByteSpace), Number(n % ByteSpace)>>

Put(cursor, cells) ==
    [buf |-> [i \in DOMAIN cursor.buf |->
                 IF i \in cursor.pos..(cursor.pos + Len(cells) - 1)
                 THEN cells[i - cursor.pos + 1] ELSE cursor.buf[i]],
     pos |-> cursor.pos + Len(cells)]

PutIf(condition, cursor, cells) == IF condition THEN Put(cursor, cells) ELSE cursor

\* Seeded fault: one place too many.
RoomOver(pos, count) ==
    IF pos + count <= MaxPacket + 1 THEN count
    ELSE IF pos < MaxPacket THEN MaxPacket - pos ELSE 0

\* How many of count characters go in from pos on.
Room(pos, count) ==
    IF pos + count <= MaxPacket THEN count
    ELSE IF pos < MaxPacket THEN MaxPacket - pos ELSE 0

\* writeString()
WriteString(cursor, name, count) ==
    LET n == Room(cursor.pos + 2, count)
    IN  Put(cursor, Word(n) \o Chars(name, n))

WriteStringIf(condition, cursor, name, count) ==
    IF condition THEN WriteString(cursor, name, count) ELSE cursor

\* Seeded fault: the digits come with the most significant one first.
LengthCellsReversed(length) == [i \in 1..DigitCount(length) |-> Number(Reverse(Digits(length))[i])]

\* The remaining length: seven bits to a byte, the least significant ones first.
LengthCells(length) == [i \in 1..DigitCount(length) |-> Number(Digits(length)[i])]

\* write(): header and length go right in front of what begins at place 5.
Write(header, cursor) ==
    LET cells == <<Number(header)>> \o LengthCells(cursor.pos - 5)
        start == 5 - Len(cells)
        whole == Put([buf |-> cursor.buf, pos |-> start], cells).buf
    IN  /\ buffer' = whole
        /\ packet' = [i \in 1..(cursor.pos - start) |-> whole[start + i - 1]]
        /\ top' = cursor.pos

------------------------------------------------------------------------------
(* The calls *)

Qos(header) == (header \div 2) % 4

Start == [buf |-> buffer, pos |-> 5]

\* connect() sets the counter to 1, calls take it anywhere, and publish() takes
\* it over 65535 to 0.
WriterInit ==
    /\ buffer = [i \in 0..(MaxPacket + Beyond - 1) |-> Number(0)]
    /\ nextMsgId \in Ids
    /\ call = [kind |-> "none"]
    /\ told = 0
    /\ packet = <<>>
    /\ top = 0
    /\ calls = 0

\* A call with its number counted.
Called(c) == calls < MaxCalls /\ calls' = calls + 1 /\ call' = c

ConnectFlags(c) ==
    (IF c.will >= 0 THEN 4 + 8 * c.willQos + 32 * c.willRetain ELSE 0)
    + (IF c.clean THEN 2 ELSE 0)
    + (IF c.user >= 0 THEN 128 + (IF c.pass >= 0 THEN 64 ELSE 0) ELSE 0)

\* Seeded fault: the password is written without a user name too.
WritesPassAlone(c) == c.pass >= 0

\* There is no password without a user name.
WritesPass(c) == c.user >= 0 /\ c.pass >= 0

\* connect() up to its write(); the protocol name is that of MQTT_V311.
ConnectCall(c) ==
    /\ Called([kind |-> "connect", args |-> c])
    /\ nextMsgId' = 1
    /\ told' = 0
    /\ LET head == Put(Start, Word(4) \o Chars("MQTT", 4)
                              \o <<Number(4), Number(ConnectFlags(c))>> \o Word(c.keepalive))
           id == WriteString(head, "id", c.id)
           will == WriteStringIf(c.will >= 0, id, "will", c.will)
           message == WriteStringIf(c.will >= 0, will, "message", c.message)
           user == WriteStringIf(c.user >= 0, message, "user", c.user)
       IN  Write(16, WriteStringIf(WritesPass(c), user, "pass", c.pass))

PublishId == (nextMsgId + 1) % IdSpace

\* Seeded fault: the counter is told after it has been advanced.
ToldLate(p) == IF p.qos > 0 /\ p.asks THEN (PublishId + 1) % IdSpace ELSE 0

\* What *messageid is set to; 0 stands for nothing.
Told(p) == IF p.qos > 0 /\ p.asks THEN PublishId ELSE 0

\* publish(): with messageid the counter is advanced twice.
PublishCall(p) ==
    LET clear == [buf |-> [i \in DOMAIN buffer |-> IF i < MaxPacket THEN Number(0) ELSE buffer[i]],
                  pos |-> 5]
        topic == WriteString(clear, "topic", p.topic)
        body == PutIf(p.qos > 0, topic, Word(PublishId))
    IN  /\ Called([kind |-> "publish", args |-> p])
        /\ nextMsgId' = IF p.qos = 0 THEN nextMsgId
                        ELSE IF p.asks THEN (PublishId + 1) % IdSpace ELSE PublishId
        /\ told' = Told(p)
        /\ Write(48 + 8 * p.dup + 2 * p.qos + p.retain,
                 Put(body, Chars("payload", Room(body.pos, p.payload))))

\* Seeded fault: the counter's zero is used.
FilterIdOrZero == (nextMsgId + 1) % IdSpace

\* The next id of subscribe() and unsubscribe(), which leaves 0 out.
FilterId == IF (nextMsgId + 1) % IdSpace = 0 THEN 1 ELSE (nextMsgId + 1) % IdSpace

\* subscribe()
SubscribeCall(t, qos) ==
    LET filter == WriteString(Put(Start, Word(FilterId)), "topic", t)
    IN  /\ Called([kind |-> "subscribe", topic |-> t, qos |-> qos])
        /\ nextMsgId' = FilterId
        /\ told' = 0
        /\ Write(130, Put(filter, <<Number(qos)>>))

\* unsubscribe()
UnsubscribeCall(t) ==
    /\ Called([kind |-> "unsubscribe", topic |-> t])
    /\ nextMsgId' = FilterId
    /\ told' = 0
    /\ Write(162, WriteString(Put(Start, Word(FilterId)), "topic", t))

\* The headers of the packets that carry an id and nothing else: what loop()
\* writes for a PUBLISH with QoS 1 and 2, publishRelease(), publishComplete().
AckHeaders == [puback |-> 64, pubrec |-> 80, pubrel |-> 98, pubcomp |-> 114]

Acknowledge(kind, id) ==
    LET done == Put([buf |-> buffer, pos |-> 0],
                    <<Number(AckHeaders[kind]), Number(2)>> \o Word(id))
    IN  /\ Called([kind |-> kind])
        /\ told' = id
        /\ buffer' = done.buf
        /\ packet' = SubSeq([i \in 1..4 |-> done.buf[i - 1]], 1, 4)
        /\ top' = done.pos
        /\ UNCHANGED nextMsgId

WriterNext ==
    \/ \E c \in Connects : ConnectCall(c)
    \/ \E p \in Publishes : PublishCall(p)
    \/ \E t \in Filters, qos \in 0..2 : SubscribeCall(t, qos)
    \/ \E t \in Filters : UnsubscribeCall(t)
    \/ \E kind \in DOMAIN AckHeaders, id \in Ids : Acknowledge(kind, id)

WriterSpec == WriterInit /\ [][WriterNext]_written

------------------------------------------------------------------------------
(* Reading: p is a packet as it comes off the connection *)

\* readPacket(): the number of digits and their value.
LengthLength(p) == CHOOSE k \in 1..4 :
    p[k + 1].val < Base /\ \A j \in 1..(k - 1) : p[j + 1].val >= Base
Place(k) == IF k = 1 THEN 1 ELSE IF k = 2 THEN Base ELSE Base * Base
Remaining(p) ==
    LET digit(k) == (p[k + 1].val % Base) * Place(k)
        llen == LengthLength(p)
    IN  digit(1) + (IF llen > 1 THEN digit(2) ELSE 0) + (IF llen > 2 THEN digit(3) ELSE 0)

WordAt(p, i) == p[i].val * ByteSpace + p[i + 1].val

\* loop() on a PUBLISH; position i of p is buffer[i - 1].
ReadPublish(p) ==
    LET llen == LengthLength(p)
        tl == WordAt(p, llen + 2)
        qos == Qos(p[1].val)
        body == llen + 4 + tl + (IF qos \in {1, 2} THEN 2 ELSE 0)
    IN  [topic |-> SubSeq(p, llen + 4, llen + 3 + tl),
         qos |-> qos,
         id |-> IF qos \in {1, 2} THEN WordAt(p, llen + 4 + tl) ELSE 0,
         payload |-> SubSeq(p, body, 1 + llen + Remaining(p))]

\* The string at place i, and the place behind it.
StringAt(p, i) == SubSeq(p, i + 2, i + 1 + WordAt(p, i))
Behind(p, i) == i + 2 + WordAt(p, i)

\* A broker reads the strings of a CONNECT one after the other, those whose
\* flag is set.
ReadConnect(p) ==
    LET llen == LengthLength(p)
        flags == p[llen + 9].val
        hasWill == (flags \div 4) % 2 = 1
        hasUser == flags \div 128 = 1
        hasPass == (flags \div 64) % 2 = 1
        id == llen + 12
        will == Behind(p, id)
        message == Behind(p, will)
        user == IF hasWill THEN Behind(p, message) ELSE will
        pass == IF hasUser THEN Behind(p, user) ELSE user
    IN  [clean |-> (flags \div 2) % 2 = 1,
         id |-> StringAt(p, id),
         will |-> IF hasWill THEN <<StringAt(p, will), StringAt(p, message)>> ELSE <<>>,
         user |-> IF hasUser THEN <<StringAt(p, user)>> ELSE <<>>,
         pass |-> IF hasPass THEN <<StringAt(p, pass)>> ELSE <<>>,
         end |-> IF hasPass THEN Behind(p, pass) ELSE pass]

------------------------------------------------------------------------------
(* Properties *)

\* What a call needs; the buffer keeps five places for header and length.
StringNeed(n) == IF n >= 0 THEN 2 + n ELSE 0
ConnectBody(c) ==
    12 + c.id + (IF c.will >= 0 THEN StringNeed(c.will) + StringNeed(c.message) ELSE 0)
    + (IF c.user >= 0 THEN StringNeed(c.user) + StringNeed(c.pass) ELSE 0)
PublishBody(p) == 2 + p.topic + (IF p.qos > 0 THEN 2 ELSE 0) + p.payload
Body ==
    IF call.kind = "publish" THEN PublishBody(call.args)
    ELSE IF call.kind = "subscribe" THEN 5 + call.topic
    ELSE IF call.kind = "unsubscribe" THEN 4 + call.topic
    ELSE IF call.kind = "connect" THEN ConnectBody(call.args)
    ELSE 0
CallFits == 5 + Body <= MaxPacket

WriterTypeOK ==
    /\ nextMsgId \in 0..(IdSpace - 1)
    /\ told \in 0..(IdSpace - 1)
    /\ calls \in 0..MaxCalls
    /\ packet /= <<>> => Len(packet) = 1 + LengthLength(packet) + Remaining(packet)

\* A message that fits the buffer is read with the topic, the payload, the QoS
\* and the id it was published with, by a client of this kind as well, and that
\* id is the one the application was told (publish(), write(), loop()).
PublishIsRead ==
    call.kind = "publish" /\ CallFits =>
        LET p == call.args
            read == ReadPublish(packet)
        IN  /\ read.topic = Chars("topic", p.topic)
            /\ read.payload = Chars("payload", p.payload)
            /\ read.qos = p.qos
            /\ p.qos > 0 /\ p.asks => read.id = told

\* A broker finds in a CONNECT that fits the strings its flags announce, each is
\* what connect() was given for it, and nothing is left over (connect(),
\* writeString()).
ConnectIsRead ==
    call.kind = "connect" /\ CallFits =>
        LET c == call.args
            read == ReadConnect(packet)
        IN  /\ read.clean = c.clean
            /\ read.id = Chars("id", c.id)
            /\ read.will = IF c.will >= 0
                           THEN <<Chars("will", c.will), Chars("message", c.message)>> ELSE <<>>
            /\ read.user = IF c.user >= 0 THEN <<Chars("user", c.user)>> ELSE <<>>
            /\ read.pass = IF c.user >= 0 /\ c.pass >= 0
                           THEN <<Chars("pass", c.pass)>> ELSE <<>>
            /\ read.end = Len(packet) + 1

\* A broker finds in a SUBSCRIBE or UNSUBSCRIBE that fits one filter, the one
\* asked for, its QoS, and an id that is not 0 (subscribe(), unsubscribe()).
FilterIsRead ==
    call.kind \in {"subscribe", "unsubscribe"} /\ CallFits =>
        LET llen == LengthLength(packet)
            behind == Behind(packet, llen + 4)
        IN  /\ WordAt(packet, llen + 2) = nextMsgId /\ nextMsgId /= 0
            /\ StringAt(packet, llen + 4) = Chars("topic", call.topic)
            /\ IF call.kind = "subscribe"
               THEN behind = Len(packet) /\ packet[behind] = Number(call.qos)
               ELSE behind = Len(packet) + 1

\* An acknowledgement the client writes is one that its own loop() reads: the
\* header's flags are 0 for those whose flags loop() looks at (publishComplete()).
AcknowledgementIsRead ==
    call.kind \in {"puback", "pubcomp"} =>
        Len(packet) = 4 /\ Qos(packet[1].val) = 0 /\ WordAt(packet, 3) = told

\* No packet is longer than maxpacketsize, five bytes counted for header and
\* length (MQTT_MAX_PACKET_SIZE in MQTT-TLS.h).
WithinMaximum == top <= MaxPacket
==============================================================================
