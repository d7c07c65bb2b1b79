------------------------------- MODULE Session -------------------------------
(***************************************************************************)
(* The MQTT session of src/MQTT-TLS.cpp: connect(), publish(),             *)
(* subscribe(), unsubscribe(), disconnect(), loop() with its dispatch on   *)
(* every packet type, the two-phase QoS 2 exchanges and the message        *)
(* callback, over a connection that may break and on a device that may     *)
(* reset.                                                                  *)
(*                                                                         *)
(* The library runs on one thread: an action is one library call, except   *)
(* where the call gives control away.  connect() blocks for the CONNACK    *)
(* while the broker and the network move on (ConnectStart, then            *)
(* ConnectFinish or ConnectTimeout), and loop() runs the application's     *)
(* message callback, in which the application may call the library again   *)
(* before loop() sends the acknowledgment (LoopDeliver pushes a frame,     *)
(* CallbackReturn pops it).                                                *)
(*                                                                         *)
(* A packet is a record; bytes, lengths and TLS records are abstracted, a  *)
(* PUBLISH longer than maxpacketsize is a member of Oversized, and "the    *)
(* keep-alive interval has expired" is a choice of loop().  The broker and *)
(* the TCP connection are external: they are what src/ relies on.          *)
(***************************************************************************)
EXTENDS Naturals, SequencesExt

CONSTANTS
    InMsgs,        \* messages other clients publish to this one
    NoMsg,         \* not a message: the body of a packet without one
    InQos,         \* the quality of service of each message
    Oversized,     \* the messages longer than maxpacketsize
    IdMod,         \* 2^16: nextMsgId is a uint16_t
    BrokerIds,     \* the packet ids the broker uses for what it sends
    CleanSession,  \* the cleanSession argument of connect()
    WantIds,       \* whether publish() is given a messageid pointer: TRUE, FALSE or both
    CallbackMayReconnect,  \* whether the message callback calls connect()
    MaxCalls,      \* bound: publish() calls
    MaxSubs,       \* bound: subscribe() and unsubscribe() calls
    MaxConnects,   \* bound: connections opened
    MaxPings,      \* bound: PINGREQ packets
    MaxResets,     \* bound: resets of the device
    MaxDepth       \* bound: message callbacks on the stack

ASSUME SessionAssumption ==
    /\ NoMsg \notin InMsgs
    /\ InQos \in [InMsgs -> 0..2]
    /\ Oversized \subseteq InMsgs
    /\ IdMod \in Nat /\ IdMod > 1
    /\ BrokerIds \subseteq 1..(IdMod - 1)
    /\ CleanSession \in BOOLEAN
    /\ WantIds \subseteq BOOLEAN
    /\ CallbackMayReconnect \in BOOLEAN
    /\ MaxCalls \in Nat
    /\ MaxSubs \in Nat
    /\ MaxConnects \in Nat
    /\ MaxPings \in Nat
    /\ MaxResets \in Nat
    /\ MaxDepth \in Nat

VARIABLES
    \* the client
    sock,             \* tcpClient: "closed", "open", or "eof" once the peer is gone
    waiting,          \* connect() is blocked until the CONNACK arrives
    frames,           \* acknowledgments owed by callbacks still on the stack
    nextMsgId,
    pingOutstanding,
    qoscallback,      \* whether addQosCallback() was called
    \* the connection
    c2s,              \* packets on their way to the broker
    s2c,              \* packets on their way to the client
    \* the broker
    online,           \* it has accepted the CONNECT of this connection
    subscribed,
    inflight,         \* messages sent to the client and not yet acknowledged
    received,         \* QoS 2 ids it has seen a PUBLISH for and no PUBREL
    \* what the application and an observer know
    callOf,           \* the latest publish() call that was given each id
    submitted, stored, confirmed,
    offered, delivered, settled,
    used              \* what is left of the bounds

client == <<sock, waiting, frames, nextMsgId, pingOutstanding, qoscallback>>
broker == <<online, subscribed, inflight, received>>
outward == <<submitted, stored, confirmed>>
inward == <<offered, delivered, settled>>
vars == <<client, c2s, s2c, broker, callOf, outward, inward, used>>

Calls == 1..MaxCalls
MsgIds == 0..(IdMod - 1)
NoCalls == [i \in MsgIds |-> 0]

------------------------------------------------------------------------------
(* Packets and the connection *)

Publish(q, id, body) == [type |-> "PUBLISH", qos |-> q, id |-> id, body |-> body]
Control(t, id) == [type |-> t, qos |-> 0, id |-> id, body |-> NoMsg]

ClientTypes == {"CONNECT", "SUBSCRIBE", "UNSUBSCRIBE", "PUBACK", "PUBREC",
                "PUBREL", "PUBCOMP", "PINGREQ", "PINGRESP", "DISCONNECT"}
BrokerTypes == {"CONNACK", "SUBACK", "UNSUBACK", "PUBACK", "PUBREC",
                "PUBREL", "PUBCOMP", "PINGREQ", "PINGRESP"}

ClientPackets ==
    [type : ClientTypes, qos : {0}, id : MsgIds, body : {NoMsg}]
        \union [type : {"PUBLISH"}, qos : 0..2, id : MsgIds, body : Calls]
BrokerPackets ==
    [type : BrokerTypes, qos : {0}, id : MsgIds, body : {NoMsg}]
        \union [type : {"PUBLISH"}, qos : 0..2, id : MsgIds, body : InMsgs]

\* The packets readPacket() returns length 4 for; their fourth byte is the low
\* byte of the id, or the return code of a CONNACK, kept in the same field.
FourBytes == {"CONNACK", "UNSUBACK", "PUBACK", "PUBREC", "PUBREL", "PUBCOMP"}
FourthByte(p) == p.id % 256

\* TCPClient::connected() holds while unread bytes remain after the peer left.
IsConnected == sock = "open" \/ (sock = "eof" /\ s2c /= <<>>)

\* netWrite(): on a connection that is gone the packets are gone too.
NetWrite(ps) == IF sock = "open" THEN c2s \o ps ELSE c2s

\* The broker's write.
ToClient(p) == IF sock = "open" THEN Append(s2c, p) ELSE s2c

\* disconnect(): the last packet, then tcpClient.stop().
Close ==
    /\ c2s' = NetWrite(<<Control("DISCONNECT", 0)>>)
    /\ sock' = "closed"
    /\ s2c' = <<>>

------------------------------------------------------------------------------
Frames == [type : {"PUBACK", "PUBREC"}, qos : {0}, id : MsgIds, body : {NoMsg}]
Flights == [msg : InMsgs, id : BrokerIds, phase : {"pub", "rel"}, sent : BOOLEAN]

Budget == [calls : 0..MaxCalls, subs : 0..MaxSubs, connects : 0..MaxConnects,
           pings : 0..MaxPings, resets : 0..MaxResets]

ClientTypeOK ==
    /\ sock \in {"closed", "open", "eof"}
    /\ waiting \in BOOLEAN
    /\ frames \in Seq(Frames)
    /\ nextMsgId \in MsgIds
    /\ pingOutstanding \in BOOLEAN
    /\ qoscallback \in BOOLEAN

NetTypeOK ==
    /\ c2s \in Seq(ClientPackets)
    /\ s2c \in Seq(BrokerPackets)

BrokerTypeOK ==
    /\ online \in BOOLEAN
    /\ subscribed \in BOOLEAN
    /\ inflight \subseteq Flights
    /\ received \subseteq MsgIds

RecordTypeOK ==
    /\ callOf \in [MsgIds -> 0..MaxCalls]
    /\ submitted \subseteq Calls
    /\ stored \subseteq Calls
    /\ confirmed \subseteq Calls
    /\ offered \subseteq InMsgs
    /\ delivered \in [InMsgs -> Nat]
    /\ settled \subseteq InMsgs
    /\ used \in Budget

TypeOK == ClientTypeOK /\ NetTypeOK /\ BrokerTypeOK /\ RecordTypeOK

\* pingOutstanding and nextMsgId are not set by any constructor.
Init ==
    /\ sock = "closed"
    /\ waiting = FALSE
    /\ frames = <<>>
    /\ nextMsgId \in MsgIds
    /\ pingOutstanding \in BOOLEAN
    /\ qoscallback = FALSE
    /\ c2s = <<>>
    /\ s2c = <<>>
    /\ online = FALSE
    /\ subscribed = FALSE
    /\ inflight = {}
    /\ received = {}
    /\ callOf = NoCalls
    /\ submitted = {}
    /\ stored = {}
    /\ confirmed = {}
    /\ offered = {}
    /\ delivered = [m \in InMsgs |-> 0]
    /\ settled = {}
    /\ used = [calls |-> 0, subs |-> 0, connects |-> 0, pings |-> 0, resets |-> 0]

------------------------------------------------------------------------------
(* The application's calls.  None is possible while connect() is blocked. *)

AddQosCallback ==
    /\ ~waiting
    /\ qoscallback' = TRUE
    /\ UNCHANGED <<sock, waiting, frames, nextMsgId, pingOutstanding, c2s, s2c,
                   broker, callOf, outward, inward, used>>

\* connect() up to the wait: a new connection, on which nothing of an older
\* one can arrive, and the CONNECT packet on it.  An application that asks for
\* a clean session drops the ids of the last one: no answer to them can come.
ConnectStart ==
    /\ ~waiting
    /\ ~IsConnected
    /\ frames = <<>> \/ CallbackMayReconnect
    /\ used.connects < MaxConnects
    /\ used' = [used EXCEPT !.connects = @ + 1]
    /\ sock' = "open"
    /\ nextMsgId' = 1
    /\ waiting' = TRUE
    /\ c2s' = <<Control("CONNECT", 0)>>
    /\ s2c' = <<>>
    /\ online' = FALSE
    /\ callOf' = IF CleanSession THEN NoCalls ELSE callOf
    /\ UNCHANGED <<frames, pingOutstanding, qoscallback, subscribed, inflight,
                   received, outward, inward>>

\* connect() when TCP or the TLS handshake fails: disconnect() and false.
ConnectFail ==
    /\ ~waiting
    /\ ~IsConnected
    /\ sock' = "closed"
    /\ UNCHANGED <<waiting, frames, nextMsgId, pingOutstanding, qoscallback, c2s,
                   s2c, broker, callOf, outward, inward, used>>

\* The end of connect(): one packet was read, and only its length and its
\* fourth byte are looked at.
ConnectFinish ==
    /\ waiting
    /\ s2c /= <<>>
    /\ waiting' = FALSE
    /\ LET p == Head(s2c) IN
        IF p.type \in FourBytes /\ FourthByte(p) = 0
        THEN /\ pingOutstanding' = FALSE
             /\ s2c' = Tail(s2c)
             /\ UNCHANGED <<sock, c2s>>
        ELSE /\ Close
             /\ UNCHANGED pingOutstanding
    /\ UNCHANGED <<frames, nextMsgId, qoscallback, broker, callOf, outward,
                   inward, used>>

\* connect() gives up after keepalive seconds without an answer.
ConnectTimeout ==
    /\ waiting
    /\ s2c = <<>>
    /\ waiting' = FALSE
    /\ Close
    /\ UNCHANGED <<frames, nextMsgId, pingOutstanding, qoscallback, broker,
                   callOf, outward, inward, used>>

Disconnect ==
    /\ ~waiting
    /\ Close
    /\ UNCHANGED <<waiting, frames, nextMsgId, pingOutstanding, qoscallback,
                   broker, callOf, outward, inward, used>>

\* Seeded fault: publish() uses nextMsgId without counting it up.
CurrentMsgId == nextMsgId

\* The id of the next QoS 1 or 2 publish: a uint16_t, with no guard against 0.
NewMsgId == (nextMsgId + 1) % IdMod

\* publish(): nextMsgId goes up by one for a QoS 1 or 2 message, and by one
\* more when the caller asks for the id.  Only then does the application know
\* which call a later qoscallback(id) is about.
PublishCall(q, wantId) ==
    /\ ~waiting
    /\ IsConnected
    /\ used.calls < MaxCalls
    /\ LET n == used.calls + 1
           id == IF q = 0 THEN 0 ELSE NewMsgId
       IN  /\ used' = [used EXCEPT !.calls = n]
           /\ submitted' = submitted \union {n}
           /\ c2s' = NetWrite(<<Publish(q, id, n)>>)
           /\ nextMsgId' = IF q = 0 THEN nextMsgId
                           ELSE IF wantId THEN (id + 1) % IdMod ELSE id
           /\ callOf' = IF q > 0 /\ wantId THEN [callOf EXCEPT ![id] = n] ELSE callOf
    /\ UNCHANGED <<sock, waiting, frames, pingOutstanding, qoscallback, s2c, broker,
                   stored, confirmed, inward>>

\* subscribe() and unsubscribe() skip id 0 when nextMsgId wraps.
FilterCall(t) ==
    /\ ~waiting
    /\ IsConnected
    /\ used.subs < MaxSubs
    /\ LET next == (nextMsgId + 1) % IdMod
           id == IF next = 0 THEN 1 ELSE next
       IN  /\ nextMsgId' = id
           /\ c2s' = NetWrite(<<Control(t, id)>>)
    /\ used' = [used EXCEPT !.subs = @ + 1]
    /\ UNCHANGED <<sock, waiting, frames, pingOutstanding, qoscallback, s2c, broker,
                   callOf, outward, inward>>

Subscribe == FilterCall("SUBSCRIBE")
Unsubscribe == FilterCall("UNSUBSCRIBE")

------------------------------------------------------------------------------
(* loop() *)

\* Where loop() may start.
LoopReady == ~waiting /\ IsConnected /\ Len(frames) < MaxDepth

\* The interval expired again before a PINGRESP was read.
LoopTimeout ==
    /\ LoopReady
    /\ pingOutstanding
    /\ Close
    /\ UNCHANGED <<waiting, frames, nextMsgId, pingOutstanding, qoscallback,
                   broker, callOf, outward, inward, used>>

\* The first half of loop() when it does not disconnect: a PINGREQ if the
\* interval has expired.
Ping(expired) == IF expired THEN <<Control("PINGREQ", 0)>> ELSE <<>>

MayPing(expired) ==
    /\ expired => ~pingOutstanding /\ used.pings < MaxPings
    /\ used' = IF expired THEN [used EXCEPT !.pings = @ + 1] ELSE used

\* loop() that finds nothing to read.
LoopIdle ==
    /\ LoopReady
    /\ s2c = <<>>
    /\ \E expired \in BOOLEAN :
        /\ MayPing(expired)
        /\ c2s' = NetWrite(Ping(expired))
        /\ pingOutstanding' = (pingOutstanding \/ expired)
    /\ UNCHANGED <<sock, waiting, frames, nextMsgId, qoscallback, s2c, broker,
                   callOf, outward, inward>>

\* Seeded fault: an ignored message is acknowledged all the same.
DeliverOrAck(p) ==
    IF p.type = "PUBLISH"
    THEN /\ delivered' = IF p.body \in Oversized THEN delivered
                         ELSE [delivered EXCEPT ![p.body] = @ + 1]
         /\ frames' = IF p.qos = 0 THEN frames
                      ELSE Append(frames, Control(IF p.qos = 1 THEN "PUBACK" ELSE "PUBREC", p.id))
    ELSE UNCHANGED <<delivered, frames>>

\* Seeded fault: on a later connection of the session a message is taken for one
\* that was delivered before and is only acknowledged.
DeliverOnFirst(p) ==
    IF p.type = "PUBLISH" /\ p.body \notin Oversized
    THEN /\ delivered' = IF used.connects > 1 THEN delivered
                         ELSE [delivered EXCEPT ![p.body] = @ + 1]
         /\ frames' = IF p.qos = 0 THEN frames
                      ELSE Append(frames, Control(IF p.qos = 1 THEN "PUBACK" ELSE "PUBREC", p.id))
    ELSE UNCHANGED <<delivered, frames>>

\* The message callback runs; the acknowledgment of a QoS 1 or 2 message is
\* sent when it returns.  The payload of an oversized message is ignored.
Deliver(p) ==
    IF p.type = "PUBLISH" /\ p.body \notin Oversized
    THEN /\ delivered' = [delivered EXCEPT ![p.body] = @ + 1]
         /\ frames' = IF p.qos = 0 THEN frames
                      ELSE Append(frames, Control(IF p.qos = 1 THEN "PUBACK" ELSE "PUBREC", p.id))
    ELSE UNCHANGED <<delivered, frames>>

\* PUBACK and PUBCOMP end a publish: qoscallback(id), if there is one.
Report(p) ==
    confirmed' = IF p.type \in {"PUBACK", "PUBCOMP"} /\ qoscallback /\ callOf[p.id] > 0
                 THEN confirmed \union {callOf[p.id]}
                 ELSE confirmed

\* Seeded fault: PUBREC is taken for the end of a QoS 2 publish.
ReplyWithoutRelease(p) ==
    CASE p.type = "PUBREL" -> <<Control("PUBCOMP", p.id)>>
      [] p.type = "PINGREQ" -> <<Control("PINGRESP", 0)>>
      [] OTHER -> <<>>

\* Seeded fault: PUBREL is not answered.
ReplyWithoutComplete(p) ==
    CASE p.type = "PUBREC" -> <<Control("PUBREL", p.id)>>
      [] p.type = "PINGREQ" -> <<Control("PINGRESP", 0)>>
      [] OTHER -> <<>>

\* What loop() answers at once: publishRelease(), publishComplete(), PINGRESP.
Reply(p) ==
    CASE p.type = "PUBREC" -> <<Control("PUBREL", p.id)>>
      [] p.type = "PUBREL" -> <<Control("PUBCOMP", p.id)>>
      [] p.type = "PINGREQ" -> <<Control("PINGRESP", 0)>>
      [] OTHER -> <<>>

\* loop() that reads one packet.
LoopRead ==
    /\ LoopReady
    /\ s2c /= <<>>
    /\ s2c' = Tail(s2c)
    /\ LET p == Head(s2c) IN
        /\ \E expired \in BOOLEAN :
            /\ MayPing(expired)
            /\ c2s' = NetWrite(Ping(expired) \o Reply(p))
            /\ pingOutstanding' = ((pingOutstanding \/ expired) /\ p.type /= "PINGRESP")
        /\ Deliver(p)
        /\ Report(p)
    /\ UNCHANGED <<sock, waiting, nextMsgId, qoscallback, broker, callOf,
                   submitted, stored, offered, settled>>

\* The callback returns to loop(), which acknowledges on whatever connection
\* the client has by then.
CallbackReturn ==
    /\ ~waiting
    /\ frames /= <<>>
    /\ c2s' = NetWrite(<<Last(frames)>>)
    /\ frames' = Front(frames)
    /\ UNCHANGED <<sock, waiting, nextMsgId, pingOutstanding, qoscallback, s2c,
                   broker, callOf, outward, inward, used>>

------------------------------------------------------------------------------
(* Faults *)

\* The connection breaks: what the broker had sent arrives up to a point.
Drop ==
    /\ sock = "open" \/ c2s /= <<>>
    /\ sock' = IF sock = "open" THEN "eof" ELSE sock
    /\ c2s' = <<>>
    /\ \E k \in 0..Len(s2c) : s2c' = SubSeq(s2c, 1, k)
    /\ online' = FALSE
    /\ UNCHANGED <<waiting, frames, nextMsgId, pingOutstanding, qoscallback,
                   subscribed, inflight, received, callOf, outward, inward, used>>

\* The device resets: the library's state and the application's are gone.
Reset ==
    /\ used.resets < MaxResets
    /\ used' = [used EXCEPT !.resets = @ + 1]
    /\ sock' = "closed"
    /\ waiting' = FALSE
    /\ frames' = <<>>
    /\ nextMsgId' \in MsgIds
    /\ pingOutstanding' \in BOOLEAN
    /\ qoscallback' = FALSE
    /\ s2c' = <<>>
    /\ callOf' = NoCalls
    /\ UNCHANGED <<c2s, broker, outward, inward>>

------------------------------------------------------------------------------
(* The broker *)

\* It takes the next packet off the connection.
Receives(t) ==
    /\ c2s /= <<>>
    /\ Head(c2s).type = t
    /\ c2s' = Tail(c2s)

BrokerKeeps ==
    UNCHANGED <<client, callOf, submitted, confirmed, offered, delivered, used>>

\* CONNECT accepted: a clean session forgets everything, a kept one sends
\* again what was not acknowledged.
BrokerAccept ==
    /\ Receives("CONNECT")
    /\ online' = TRUE
    /\ s2c' = ToClient(Control("CONNACK", 0))
    /\ IF CleanSession
       THEN subscribed' = FALSE /\ inflight' = {} /\ received' = {}
       ELSE /\ inflight' = {[f EXCEPT !.sent = FALSE] : f \in inflight}
            /\ UNCHANGED <<subscribed, received>>
    /\ UNCHANGED <<stored, settled>>
    /\ BrokerKeeps

BrokerRefuse ==
    /\ Receives("CONNECT")
    /\ s2c' = ToClient(Control("CONNACK", 1))
    /\ UNCHANGED <<broker, stored, settled>>
    /\ BrokerKeeps

\* What arrives without an accepted CONNECT is dropped.
BrokerIgnore ==
    /\ ~online
    /\ c2s /= <<>>
    /\ Head(c2s).type /= "CONNECT"
    /\ c2s' = Tail(c2s)
    /\ UNCHANGED <<s2c, broker, stored, settled>>
    /\ BrokerKeeps

\* PUBLISH: a QoS 2 id seen before is the same message again.
BrokerStore ==
    /\ online
    /\ Receives("PUBLISH")
    /\ LET p == Head(c2s)
           repeated == p.qos = 2 /\ p.id \in received
       IN  /\ stored' = IF repeated THEN stored ELSE stored \union {p.body}
           /\ received' = IF p.qos = 2 THEN received \union {p.id} ELSE received
           /\ s2c' = CASE p.qos = 0 -> s2c
                       [] p.qos = 1 -> ToClient(Control("PUBACK", p.id))
                       [] p.qos = 2 -> ToClient(Control("PUBREC", p.id))
    /\ UNCHANGED <<online, subscribed, inflight, settled>>
    /\ BrokerKeeps

BrokerRelease ==
    /\ online
    /\ Receives("PUBREL")
    /\ received' = received \ {Head(c2s).id}
    /\ s2c' = ToClient(Control("PUBCOMP", Head(c2s).id))
    /\ UNCHANGED <<online, subscribed, inflight, stored, settled>>
    /\ BrokerKeeps

\* The message of its own that an acknowledgment of type t is for, if any.
Acknowledges(p, f) ==
    /\ f.id = p.id
    /\ f.sent
    /\ CASE p.type = "PUBACK" -> f.phase = "pub" /\ InQos[f.msg] = 1
         [] p.type = "PUBREC" -> f.phase = "pub" /\ InQos[f.msg] = 2
         [] p.type = "PUBCOMP" -> f.phase = "rel"

\* PUBACK and PUBCOMP end a delivery.
BrokerSettle(t) ==
    /\ online
    /\ Receives(t)
    /\ LET done == {f \in inflight : Acknowledges(Head(c2s), f)} IN
        /\ inflight' = inflight \ done
        /\ settled' = settled \union {f.msg : f \in done}
    /\ UNCHANGED <<s2c, online, subscribed, received, stored>>
    /\ BrokerKeeps

\* PUBREC: the second half of a QoS 2 delivery starts.
BrokerPubrec ==
    /\ online
    /\ Receives("PUBREC")
    /\ LET p == Head(c2s)
           got == {f \in inflight : Acknowledges(p, f)}
       IN  /\ inflight' = (inflight \ got) \union {[f EXCEPT !.phase = "rel"] : f \in got}
           /\ s2c' = IF got = {} THEN s2c ELSE ToClient(Control("PUBREL", p.id))
    /\ UNCHANGED <<online, subscribed, received, stored, settled>>
    /\ BrokerKeeps

BrokerFilter(t, ack) ==
    /\ online
    /\ Receives(t)
    /\ subscribed' = (t = "SUBSCRIBE")
    /\ s2c' = ToClient(Control(ack, Head(c2s).id))
    /\ UNCHANGED <<online, inflight, received, stored, settled>>
    /\ BrokerKeeps

BrokerPingreq ==
    /\ online
    /\ Receives("PINGREQ")
    /\ s2c' = ToClient(Control("PINGRESP", 0))
    /\ UNCHANGED <<broker, stored, settled>>
    /\ BrokerKeeps

\* The answer to the broker's own PINGREQ.
BrokerPingresp ==
    /\ online
    /\ Receives("PINGRESP")
    /\ UNCHANGED <<s2c, broker, stored, settled>>
    /\ BrokerKeeps

BrokerDisconnect ==
    /\ online
    /\ Receives("DISCONNECT")
    /\ online' = FALSE
    /\ UNCHANGED <<s2c, subscribed, inflight, received, stored, settled>>
    /\ BrokerKeeps

\* A message for the client is sent to it, with an id no other one has.
BrokerPublish(m) ==
    /\ online
    /\ subscribed
    /\ m \notin offered
    /\ offered' = offered \union {m}
    /\ IF InQos[m] = 0
       THEN /\ s2c' = ToClient(Publish(0, 0, m))
            /\ UNCHANGED inflight
       ELSE \E id \in BrokerIds \ {f.id : f \in inflight} :
            /\ s2c' = ToClient(Publish(InQos[m], id, m))
            /\ inflight' = inflight \union {[msg |-> m, id |-> id, phase |-> "pub", sent |-> TRUE]}
    /\ UNCHANGED <<client, c2s, online, subscribed, received, callOf, outward,
                   delivered, settled, used>>

\* A kept session: what was not acknowledged before is sent again.
BrokerResend(f) ==
    /\ online
    /\ ~f.sent
    /\ inflight' = (inflight \ {f}) \union {[f EXCEPT !.sent = TRUE]}
    /\ s2c' = ToClient(IF f.phase = "pub" THEN Publish(InQos[f.msg], f.id, f.msg)
                       ELSE Control("PUBREL", f.id))
    /\ UNCHANGED <<client, c2s, online, subscribed, received, callOf, outward,
                   inward, used>>

BrokerPing ==
    /\ online
    /\ used.pings < MaxPings
    /\ used' = [used EXCEPT !.pings = @ + 1]
    /\ s2c' = ToClient(Control("PINGREQ", 0))
    /\ UNCHANGED <<client, c2s, broker, callOf, outward, inward>>

------------------------------------------------------------------------------
ConnectEnd == ConnectFinish \/ ConnectTimeout

ApplicationStep ==
    \/ AddQosCallback
    \/ ConnectStart
    \/ ConnectFail
    \/ Disconnect
    \/ \E q \in 0..2, wantId \in WantIds : PublishCall(q, wantId)
    \/ Subscribe
    \/ Unsubscribe

BrokerReceive ==
    \/ BrokerAccept
    \/ BrokerRefuse
    \/ BrokerIgnore
    \/ BrokerStore
    \/ BrokerRelease
    \/ BrokerPubrec
    \/ BrokerSettle("PUBACK")
    \/ BrokerSettle("PUBCOMP")
    \/ BrokerFilter("SUBSCRIBE", "SUBACK")
    \/ BrokerFilter("UNSUBSCRIBE", "UNSUBACK")
    \/ BrokerPingreq
    \/ BrokerPingresp
    \/ BrokerDisconnect

BrokerSend ==
    \/ \E m \in InMsgs : BrokerPublish(m)
    \/ \E f \in inflight : BrokerResend(f)
    \/ BrokerPing

Next ==
    \/ ApplicationStep
    \/ ConnectEnd
    \/ LoopTimeout
    \/ LoopIdle
    \/ LoopRead
    \/ CallbackReturn
    \/ Drop
    \/ Reset
    \/ BrokerReceive
    \/ BrokerSend

Spec == Init /\ [][Next]_vars

\* The application keeps calling loop() (the sketches do so in their own
\* loop()), its message callback returns, connect() either reads or times
\* out, and the broker keeps reading and sends again what it owes.
Fairness ==
    /\ WF_vars(ConnectEnd)
    /\ WF_vars(LoopRead)
    /\ WF_vars(CallbackReturn)
    /\ WF_vars(BrokerReceive)
    /\ WF_vars(\E f \in inflight : BrokerResend(f))

FairSpec == Spec /\ Fairness

------------------------------------------------------------------------------
(* Properties *)

\* qoscallback reports only publishes the broker has stored, whatever the
\* order of reconnects, resets and lost packets (loop(), PUBACK and PUBCOMP).
ConfirmedIsStored == confirmed \subseteq stored

\* The broker is only ever let go of a message, by PUBACK or PUBREC, after the
\* message callback ran for it, also when the connection or the device failed
\* in between: loop() acknowledges last.
ReleasedWasDelivered ==
    /\ \A m \in settled : delivered[m] > 0
    /\ \A f \in inflight : f.phase = "rel" => delivered[f.msg] > 0

\* A message of QoS 2 reaches the message callback once at most.
Qos2AtMostOnce == \A m \in InMsgs : InQos[m] = 2 => delivered[m] <= 1

Allocated(p) == p.type \in {"SUBSCRIBE", "UNSUBSCRIBE"} \/ (p.type = "PUBLISH" /\ p.qos > 0)

\* publish(), subscribe() and unsubscribe() share one id counter that connect()
\* restarts: no request on the wire bears the id of an earlier one, nor one
\* under which the broker still holds a QoS 2 message and would take the new
\* message for a repetition.
FreshIds ==
    \A j \in 1..Len(c2s) : Allocated(c2s[j]) =>
        /\ \A i \in 1..(j - 1) :
            Allocated(c2s[i]) \/ c2s[i].type = "PUBREL" => c2s[i].id /= c2s[j].id
        /\ c2s[j].type = "PUBLISH" => c2s[j].id \notin received

\* The client implements what Assurance promises.
Promised == INSTANCE Assurance
Promise == Promised!Spec

------------------------------------------------------------------------------
(* Liveness, under FairSpec *)

OnTheWire(n) ==
    /\ sock = "open"
    /\ qoscallback
    /\ \E i \in 1..Len(c2s) :
        c2s[i].type = "PUBLISH" /\ c2s[i].body = n /\ c2s[i].qos > 0 /\ callOf[c2s[i].id] = n

\* A QoS 1 or 2 publish whose id the application kept is reported complete,
\* unless the connection is lost first: no exchange of loop() gets stuck.
PublishIsReported ==
    \A n \in Calls : OnTheWire(n) ~> (n \in confirmed \/ sock /= "open")

\* A message sent to the client that is not too long is acknowledged to the
\* end, unless the connection is lost first.
MessageIsSettled ==
    \A m \in InMsgs \ Oversized :
        (sock = "open" /\ online /\ \E f \in inflight : f.msg = m)
            ~> (m \in settled \/ sock /= "open")
==============================================================================
