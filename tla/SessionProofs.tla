---------------------------- MODULE SessionProofs ----------------------------
(***************************************************************************)
(* Session for every value of its constants, with kept and with clean      *)
(* sessions: the types, and that a connection is used only once accepted.  *)
(*                                                                         *)
(* With clean sessions, and as long as the packet ids do not run out:      *)
(* nothing is reported complete to the application that the broker has not *)
(* stored, and no request bears the id of an earlier one.                  *)
(*                                                                         *)
(* Then what becomes of the broker's messages, and that Session implements *)
(* Assurance.                                                              *)
(***************************************************************************)
EXTENDS Session, QueueLemmas

------------------------------------------------------------------------------
(* Packets and queues *)

LEMMA ClientPacketType ==
    /\ \A t \in ClientTypes, id \in MsgIds : Control(t, id) \in ClientPackets
    /\ \A q \in 0..2, id \in MsgIds, n \in Calls : Publish(q, id, n) \in ClientPackets
    /\ 0 \in MsgIds /\ 1 \in MsgIds
BY SessionAssumption DEF Control, Publish, ClientPackets, MsgIds

LEMMA BrokerPacketType ==
    /\ \A t \in BrokerTypes, id \in MsgIds : Control(t, id) \in BrokerPackets
    /\ \A q \in 0..2, id \in MsgIds, m \in InMsgs : Publish(q, id, m) \in BrokerPackets
BY DEF Control, Publish, BrokerPackets

\* What a write leaves on the way to the broker.
LEMMA NetWriteHolds ==
    ASSUME c2s \in Seq(ClientPackets), NEW ps \in Seq(ClientPackets)
    PROVE  /\ NetWrite(ps) \in Seq(ClientPackets)
           /\ ToSet(NetWrite(ps)) \subseteq ToSet(c2s) \union ToSet(ps)
BY HeldByConcat DEF NetWrite

\* What the broker's write leaves on the way to the client.
LEMMA ToClientHolds ==
    ASSUME s2c \in Seq(BrokerPackets), NEW p \in BrokerPackets
    PROVE  /\ ToClient(p) \in Seq(BrokerPackets)
           /\ ToSet(ToClient(p)) \subseteq ToSet(s2c) \union {p}
           /\ sock /= "open" => ToClient(p) = s2c
BY HeldByAppend DEF ToClient

\* disconnect() adds nothing but its DISCONNECT packet.
LEMMA CloseHolds ==
    ASSUME c2s \in Seq(ClientPackets), Close
    PROVE  /\ c2s' \in Seq(ClientPackets)
           /\ ToSet(c2s') \subseteq ToSet(c2s) \union {Control("DISCONNECT", 0)}
           /\ s2c' = <<>> /\ s2c' \in Seq(BrokerPackets)
           /\ sock' = "closed"
<1> DEFINE bye == Control("DISCONNECT", 0)
<1>1. bye \in ClientPackets
  BY ClientPacketType DEF ClientTypes
<1>2. <<bye>> \in Seq(ClientPackets) /\ c2s' = NetWrite(<<bye>>)
  BY <1>1 DEF Close
<1> HIDE DEF bye
<1>3. c2s' \in Seq(ClientPackets) /\ ToSet(c2s') \subseteq ToSet(c2s) \union {bye}
  BY <1>2, NetWriteHolds, HeldByOne
<1> QED
  BY <1>3 DEF Close, bye

\* A packet taken off a queue was on it.
LEMMA Received ==
    ASSUME c2s \in Seq(ClientPackets), c2s /= <<>>
    PROVE  /\ Tail(c2s) \in Seq(ClientPackets)
           /\ Head(c2s) \in ClientPackets
           /\ Head(c2s) \in ToSet(c2s)
           /\ ToSet(Tail(c2s)) \subseteq ToSet(c2s)
           /\ Head(c2s).id \in MsgIds
<1>1. /\ Tail(c2s) \in Seq(ClientPackets)
      /\ Head(c2s) \in ClientPackets
      /\ Head(c2s) \in ToSet(c2s)
      /\ ToSet(Tail(c2s)) \subseteq ToSet(c2s)
  BY HeldByTail
<1> QED
  BY <1>1 DEF ClientPackets

LEMMA Read ==
    ASSUME s2c \in Seq(BrokerPackets), s2c /= <<>>
    PROVE  /\ Tail(s2c) \in Seq(BrokerPackets)
           /\ Head(s2c) \in BrokerPackets
           /\ Head(s2c) \in ToSet(s2c)
           /\ ToSet(Tail(s2c)) \subseteq ToSet(s2c)
           /\ Head(s2c).id \in MsgIds
<1>1. /\ Tail(s2c) \in Seq(BrokerPackets)
      /\ Head(s2c) \in BrokerPackets
      /\ Head(s2c) \in ToSet(s2c)
      /\ ToSet(Tail(s2c)) \subseteq ToSet(s2c)
  BY HeldByTail
<1> QED
  BY <1>1 DEF BrokerPackets
------------------------------------------------------------------------------
(* Types *)

LEMMA InitTypeOK == Init => TypeOK
<1> SUFFICES ASSUME Init PROVE TypeOK
  OBVIOUS
<1> USE SessionAssumption
<1>1. ClientTypeOK
  <2>1. waiting \in BOOLEAN /\ qoscallback \in BOOLEAN
    BY DEF Init
  <2>2. frames \in Seq(Frames) /\ sock \in {"closed", "open", "eof"}
    BY DEF Init
  <2> QED
    BY <2>1, <2>2 DEF Init, ClientTypeOK
<1>2. NetTypeOK
  BY DEF Init, NetTypeOK
<1>3. BrokerTypeOK
  <2>1. online \in BOOLEAN /\ subscribed \in BOOLEAN
    BY DEF Init
  <2> QED
    BY <2>1 DEF Init, BrokerTypeOK
<1>4. RecordTypeOK
  BY DEF Init, RecordTypeOK, NoCalls, Budget
<1> QED
  BY <1>1, <1>2, <1>3, <1>4 DEF TypeOK

\* Each bounded call stays within its bound.
LEMMA Budgeted ==
    ASSUME used \in Budget
    PROVE  /\ used.calls < MaxCalls =>
               /\ [used EXCEPT !.calls = used.calls + 1] \in Budget
               /\ used.calls + 1 \in Calls
           /\ used.subs < MaxSubs => [used EXCEPT !.subs = @ + 1] \in Budget
           /\ used.connects < MaxConnects => [used EXCEPT !.connects = @ + 1] \in Budget
           /\ used.pings < MaxPings => [used EXCEPT !.pings = @ + 1] \in Budget
           /\ used.resets < MaxResets => [used EXCEPT !.resets = @ + 1] \in Budget
<1> USE SessionAssumption DEF Budget
<1>1. used.calls < MaxCalls =>
          /\ [used EXCEPT !.calls = used.calls + 1] \in Budget
          /\ used.calls + 1 \in Calls
  BY DEF Calls
<1>2. used.subs < MaxSubs => [used EXCEPT !.subs = @ + 1] \in Budget
  OBVIOUS
<1>3. used.connects < MaxConnects => [used EXCEPT !.connects = @ + 1] \in Budget
  OBVIOUS
<1>4. used.pings < MaxPings => [used EXCEPT !.pings = @ + 1] \in Budget
  OBVIOUS
<1>5. used.resets < MaxResets => [used EXCEPT !.resets = @ + 1] \in Budget
  OBVIOUS
<1> QED
  BY <1>1, <1>2, <1>3, <1>4, <1>5

LEMMA AddQosCallbackTypeOK == TypeOK /\ AddQosCallback => TypeOK'
<1> SUFFICES ASSUME TypeOK, AddQosCallback PROVE TypeOK'
  OBVIOUS
<1>1. ClientTypeOK'
  BY DEF TypeOK, ClientTypeOK, AddQosCallback
<1>2. NetTypeOK' /\ BrokerTypeOK' /\ RecordTypeOK'
  BY DEF TypeOK, NetTypeOK, BrokerTypeOK, RecordTypeOK, AddQosCallback,
         broker, outward, inward
<1> QED
  BY <1>1, <1>2 DEF TypeOK

LEMMA ConnectStartTypeOK == TypeOK /\ ConnectStart => TypeOK'
<1> SUFFICES ASSUME TypeOK, ConnectStart PROVE TypeOK'
  OBVIOUS
<1> USE SessionAssumption
<1>1. ClientTypeOK'
  BY ClientPacketType DEF TypeOK, ClientTypeOK, ConnectStart
<1>2. NetTypeOK'
  <2>1. Control("CONNECT", 0) \in ClientPackets
    BY ClientPacketType DEF ClientTypes
  <2> QED
    BY <2>1 DEF NetTypeOK, ConnectStart
<1>3. BrokerTypeOK'
  <2>1. online' \in BOOLEAN
    BY DEF ConnectStart
  <2> QED
    BY <2>1 DEF TypeOK, BrokerTypeOK, ConnectStart
<1>4. RecordTypeOK'
  <2>1. callOf' \in [MsgIds -> 0..MaxCalls]
    BY DEF TypeOK, RecordTypeOK, ConnectStart, NoCalls
  <2>2. used' \in Budget
    BY Budgeted DEF TypeOK, RecordTypeOK, ConnectStart
  <2> QED
    BY <2>1, <2>2 DEF TypeOK, RecordTypeOK, ConnectStart, outward, inward
<1> QED
  BY <1>1, <1>2, <1>3, <1>4 DEF TypeOK

LEMMA ConnectFailTypeOK == TypeOK /\ ConnectFail => TypeOK'
<1> SUFFICES ASSUME TypeOK, ConnectFail PROVE TypeOK'
  OBVIOUS
<1>1. ClientTypeOK'
  BY DEF TypeOK, ClientTypeOK, ConnectFail
<1>2. NetTypeOK' /\ BrokerTypeOK' /\ RecordTypeOK'
  BY DEF TypeOK, NetTypeOK, BrokerTypeOK, RecordTypeOK, ConnectFail,
         broker, outward, inward
<1> QED
  BY <1>1, <1>2 DEF TypeOK

LEMMA ConnectFinishTypeOK == TypeOK /\ ConnectFinish => TypeOK'
<1> SUFFICES ASSUME TypeOK, ConnectFinish PROVE TypeOK'
  OBVIOUS
<1>1. BrokerTypeOK' /\ RecordTypeOK'
  BY DEF TypeOK, BrokerTypeOK, RecordTypeOK, ConnectFinish, broker, outward, inward
<1>2. waiting' \in BOOLEAN /\ pingOutstanding' \in BOOLEAN
  BY DEF TypeOK, ClientTypeOK, ConnectFinish
<1>3. NetTypeOK' /\ sock' \in {"closed", "open", "eof"}
  <2>1. CASE Close
    BY <2>1, CloseHolds DEF TypeOK, NetTypeOK
  <2>2. CASE s2c' = Tail(s2c) /\ UNCHANGED <<sock, c2s>>
    BY <2>2, Read DEF TypeOK, ClientTypeOK, NetTypeOK, ConnectFinish
  <2> QED
    BY <2>1, <2>2 DEF ConnectFinish
<1>4. ClientTypeOK'
  BY <1>2, <1>3 DEF TypeOK, ClientTypeOK, ConnectFinish
<1> QED
  BY <1>1, <1>3, <1>4 DEF TypeOK

\* connect() that times out, disconnect(), and loop() that gives up.
LEMMA CloseTypeOK ==
    TypeOK /\ (ConnectTimeout \/ Disconnect \/ LoopTimeout) => TypeOK'
<1> SUFFICES ASSUME TypeOK, ConnectTimeout \/ Disconnect \/ LoopTimeout PROVE TypeOK'
  OBVIOUS
<1>1. Close
  BY DEF ConnectTimeout, Disconnect, LoopTimeout
<1>2. NetTypeOK' /\ sock' \in {"closed", "open", "eof"}
  BY <1>1, CloseHolds DEF TypeOK, NetTypeOK
<1>3. waiting' \in BOOLEAN
  BY DEF TypeOK, ClientTypeOK, ConnectTimeout, Disconnect, LoopTimeout
<1>4. ClientTypeOK'
  BY <1>2, <1>3 DEF TypeOK, ClientTypeOK, ConnectTimeout, Disconnect, LoopTimeout
<1>5. BrokerTypeOK' /\ RecordTypeOK'
  BY DEF TypeOK, BrokerTypeOK, RecordTypeOK, ConnectTimeout, Disconnect, LoopTimeout,
         broker, outward, inward
<1> QED
  BY <1>2, <1>4, <1>5 DEF TypeOK

LEMMA PublishCallTypeOK ==
    ASSUME TypeOK, NEW q \in 0..2, NEW wantId \in WantIds, PublishCall(q, wantId)
    PROVE  TypeOK'
<1> DEFINE n == used.calls + 1
           id == IF q = 0 THEN 0 ELSE NewMsgId
<1> USE SessionAssumption
<1>1. n \in Calls /\ used' \in Budget
  BY Budgeted DEF TypeOK, RecordTypeOK, PublishCall
<1>2. id \in MsgIds /\ (id + 1) % IdMod \in MsgIds
  <2>1. nextMsgId + 1 \in Nat
    BY DEF TypeOK, ClientTypeOK, MsgIds
  <2>2. NewMsgId \in MsgIds
    BY <2>1 DEF NewMsgId, MsgIds
  <2>3. id \in MsgIds
    BY <2>2, ClientPacketType
  <2> HIDE DEF id
  <2>4. id + 1 \in Nat
    BY <2>3 DEF MsgIds
  <2> QED
    BY <2>3, <2>4 DEF MsgIds
<1>3. nextMsgId' \in MsgIds
  BY <1>2 DEF TypeOK, ClientTypeOK, PublishCall
<1>4. callOf' \in [MsgIds -> 0..MaxCalls]
  <2>1. n \in 0..MaxCalls
    BY <1>1 DEF Calls
  <2>2. callOf' = IF q > 0 /\ wantId THEN [callOf EXCEPT ![id] = n] ELSE callOf
    BY DEF PublishCall
  <2> QED
    BY <2>1, <2>2 DEF TypeOK, RecordTypeOK
<1>5. NetTypeOK'
  <2>1. Publish(q, id, n) \in ClientPackets
    BY <1>1, <1>2, ClientPacketType
  <2>2. <<Publish(q, id, n)>> \in Seq(ClientPackets)
    BY <2>1
  <2>3. c2s' = NetWrite(<<Publish(q, id, n)>>) /\ s2c' = s2c
    BY DEF PublishCall
  <2> QED
    BY <2>2, <2>3, NetWriteHolds DEF TypeOK, NetTypeOK
<1>6. submitted' \subseteq Calls
  BY <1>1 DEF TypeOK, RecordTypeOK, PublishCall
<1>7. ClientTypeOK'
  BY <1>3 DEF TypeOK, ClientTypeOK, PublishCall
<1>8. BrokerTypeOK'
  BY DEF TypeOK, BrokerTypeOK, PublishCall, broker
<1>9. RecordTypeOK'
  BY <1>1, <1>4, <1>6 DEF TypeOK, RecordTypeOK, PublishCall, inward
<1> QED
  BY <1>5, <1>7, <1>8, <1>9 DEF TypeOK

LEMMA FilterCallTypeOK ==
    ASSUME TypeOK, NEW t \in {"SUBSCRIBE", "UNSUBSCRIBE"}, FilterCall(t)
    PROVE  TypeOK'
<1> DEFINE next == (nextMsgId + 1) % IdMod
           id == IF next = 0 THEN 1 ELSE next
<1> USE SessionAssumption
<1>1. id \in MsgIds
  <2>1. next \in MsgIds
    BY DEF TypeOK, ClientTypeOK, MsgIds
  <2> QED
    BY <2>1, ClientPacketType
<1>2. nextMsgId' = id /\ c2s' = NetWrite(<<Control(t, id)>>) /\ s2c' = s2c
  BY DEF FilterCall
<1> HIDE DEF id
<1>3. NetTypeOK'
  <2>1. Control(t, id) \in ClientPackets
    BY <1>1, ClientPacketType DEF ClientTypes
  <2>2. <<Control(t, id)>> \in Seq(ClientPackets)
    BY <2>1
  <2> QED
    BY <1>2, <2>2, NetWriteHolds DEF TypeOK, NetTypeOK
<1>4. used' \in Budget
  BY Budgeted DEF TypeOK, RecordTypeOK, FilterCall
<1>5. ClientTypeOK'
  BY <1>1, <1>2 DEF TypeOK, ClientTypeOK, FilterCall
<1>6. BrokerTypeOK'
  BY DEF TypeOK, BrokerTypeOK, FilterCall, broker
<1>7. RecordTypeOK'
  BY <1>4 DEF TypeOK, RecordTypeOK, FilterCall, outward, inward
<1> QED
  BY <1>3, <1>5, <1>6, <1>7 DEF TypeOK

\* The first half of loop().
LEMMA Pinged ==
    ASSUME TypeOK, NEW expired \in BOOLEAN, MayPing(expired)
    PROVE  /\ used' \in Budget
           /\ used'.calls = used.calls /\ used'.subs = used.subs
           /\ Ping(expired) \in Seq(ClientPackets)
           /\ ToSet(Ping(expired)) \subseteq {Control("PINGREQ", 0)}
<1>1. Control("PINGREQ", 0) \in ClientPackets
  BY ClientPacketType DEF ClientTypes
<1>2. used' \in Budget
  BY Budgeted DEF TypeOK, RecordTypeOK, MayPing
<1>3. used'.calls = used.calls /\ used'.subs = used.subs
  BY DEF TypeOK, RecordTypeOK, Budget, MayPing
<1> QED
  BY <1>1, <1>2, <1>3, HeldByOne, HeldByEmpty DEF Ping

LEMMA LoopIdleTypeOK == TypeOK /\ LoopIdle => TypeOK'
<1> SUFFICES ASSUME TypeOK, LoopIdle PROVE TypeOK'
  OBVIOUS
<1>1. PICK expired \in BOOLEAN :
        /\ MayPing(expired)
        /\ c2s' = NetWrite(Ping(expired))
        /\ pingOutstanding' = (pingOutstanding \/ expired)
  BY DEF LoopIdle
<1>2. used' \in Budget /\ Ping(expired) \in Seq(ClientPackets)
  BY <1>1, Pinged
<1>3. NetTypeOK'
  BY <1>1, <1>2, NetWriteHolds DEF TypeOK, NetTypeOK, LoopIdle
<1>4. pingOutstanding' \in BOOLEAN
  BY <1>1 DEF TypeOK, ClientTypeOK
<1>5. ClientTypeOK'
  BY <1>4 DEF TypeOK, ClientTypeOK, LoopIdle
<1>6. BrokerTypeOK' /\ RecordTypeOK'
  BY <1>2 DEF TypeOK, BrokerTypeOK, RecordTypeOK, LoopIdle, broker, outward, inward
<1> QED
  BY <1>3, <1>5, <1>6 DEF TypeOK

\* What loop() makes of the packet it reads.
LEMMA Answered ==
    ASSUME TypeOK, NEW p \in BrokerPackets
    PROVE  /\ Reply(p) \in Seq(ClientPackets)
           /\ ToSet(Reply(p)) \subseteq
                {Control("PINGRESP", 0)}
                    \union (IF p.type = "PUBREC" THEN {Control("PUBREL", p.id)} ELSE {})
                    \union (IF p.type = "PUBREL" THEN {Control("PUBCOMP", p.id)} ELSE {})
<1>1. p.id \in MsgIds /\ 0 \in MsgIds
  BY ClientPacketType DEF BrokerPackets
<1>2. /\ Control("PUBREL", p.id) \in ClientPackets
      /\ Control("PUBCOMP", p.id) \in ClientPackets
      /\ Control("PINGRESP", 0) \in ClientPackets
  BY <1>1, ClientPacketType DEF ClientTypes
<1> QED
  BY <1>2, HeldByOne, HeldByEmpty DEF Reply

LEMMA DeliveredType ==
    ASSUME TypeOK, NEW p \in BrokerPackets, Deliver(p)
    PROVE  delivered' \in [InMsgs -> Nat] /\ frames' \in Seq(Frames)
<1>1. CASE ~(p.type = "PUBLISH" /\ p.body \notin Oversized)
  BY <1>1 DEF TypeOK, ClientTypeOK, RecordTypeOK, Deliver
<1>2. CASE p.type = "PUBLISH" /\ p.body \notin Oversized
  <2>1. p.body \in InMsgs /\ p.id \in MsgIds
    BY <1>2 DEF BrokerPackets, BrokerTypes
  <2>2. delivered' = [delivered EXCEPT ![p.body] = @ + 1]
    BY <1>2 DEF Deliver
  <2>3. delivered' \in [InMsgs -> Nat]
    BY <2>1, <2>2 DEF TypeOK, RecordTypeOK
  <2>4. Control(IF p.qos = 1 THEN "PUBACK" ELSE "PUBREC", p.id) \in Frames
    BY <2>1 DEF Control, Frames
  <2>5. frames' \in Seq(Frames)
    BY <1>2, <2>4, HeldByAppend DEF Deliver, TypeOK, ClientTypeOK
  <2> QED
    BY <2>3, <2>5
<1> QED
  BY <1>1, <1>2

LEMMA ReportedType ==
    ASSUME TypeOK, NEW p \in BrokerPackets, Report(p)
    PROVE  confirmed' \subseteq Calls
<1>1. callOf[p.id] \in 0..MaxCalls
  BY DEF BrokerPackets, TypeOK, RecordTypeOK
<1>2. callOf[p.id] > 0 => callOf[p.id] \in Calls
  BY <1>1, SessionAssumption DEF Calls
<1>3. \/ confirmed' = confirmed
      \/ callOf[p.id] > 0 /\ confirmed' = confirmed \union {callOf[p.id]}
  BY Zenon DEF Report
<1> QED
  BY <1>2, <1>3 DEF TypeOK, RecordTypeOK

LEMMA LoopReadTypeOK == TypeOK /\ LoopRead => TypeOK'
<1> SUFFICES ASSUME TypeOK, LoopRead PROVE TypeOK'
  OBVIOUS
<1> DEFINE p == Head(s2c)
<1>1. p \in BrokerPackets /\ Tail(s2c) \in Seq(BrokerPackets)
  BY Read DEF LoopRead, TypeOK, NetTypeOK
<1>2. Deliver(p) /\ Report(p)
  BY DEF LoopRead
<1>3. PICK expired \in BOOLEAN :
        /\ MayPing(expired)
        /\ c2s' = NetWrite(Ping(expired) \o Reply(p))
        /\ pingOutstanding' = ((pingOutstanding \/ expired) /\ p.type /= "PINGRESP")
  BY DEF LoopRead
<1>4. s2c' = Tail(s2c)
  BY DEF LoopRead
<1> HIDE DEF p
<1>5. used' \in Budget /\ Ping(expired) \o Reply(p) \in Seq(ClientPackets)
  BY <1>1, <1>3, Pinged, Answered, HeldByConcat
<1>6. NetTypeOK'
  BY <1>1, <1>3, <1>4, <1>5, NetWriteHolds DEF TypeOK, NetTypeOK
<1>7. pingOutstanding' \in BOOLEAN
  BY <1>3
<1>8. delivered' \in [InMsgs -> Nat] /\ frames' \in Seq(Frames) /\ confirmed' \subseteq Calls
  BY <1>1, <1>2, DeliveredType, ReportedType
<1>9. ClientTypeOK'
  <2>1. UNCHANGED <<sock, waiting, nextMsgId, qoscallback>>
    BY DEF LoopRead
  <2> QED
    BY <1>7, <1>8, <2>1 DEF TypeOK, ClientTypeOK
<1>10. BrokerTypeOK'
  BY DEF TypeOK, BrokerTypeOK, LoopRead, broker
<1>11. RecordTypeOK'
  BY <1>5, <1>8 DEF TypeOK, RecordTypeOK, LoopRead
<1> QED
  BY <1>6, <1>9, <1>10, <1>11 DEF TypeOK

LEMMA CallbackReturnTypeOK == TypeOK /\ CallbackReturn => TypeOK'
<1> SUFFICES ASSUME TypeOK, CallbackReturn PROVE TypeOK'
  OBVIOUS
<1>1. frames' \in Seq(Frames) /\ Last(frames) \in Frames
  BY PopProperties DEF TypeOK, ClientTypeOK, CallbackReturn
<1>2. Last(frames) \in ClientPackets
  BY <1>1 DEF Frames, ClientPackets, ClientTypes
<1>3. <<Last(frames)>> \in Seq(ClientPackets)
  BY <1>2
<1>4. NetTypeOK'
  BY <1>3, NetWriteHolds DEF TypeOK, NetTypeOK, CallbackReturn
<1>5. ClientTypeOK'
  BY <1>1 DEF TypeOK, ClientTypeOK, CallbackReturn
<1>6. BrokerTypeOK' /\ RecordTypeOK'
  BY DEF TypeOK, BrokerTypeOK, RecordTypeOK, CallbackReturn, broker, outward, inward
<1> QED
  BY <1>4, <1>5, <1>6 DEF TypeOK

LEMMA DropTypeOK == TypeOK /\ Drop => TypeOK'
<1> SUFFICES ASSUME TypeOK, Drop PROVE TypeOK'
  OBVIOUS
<1>1. PICK k \in 0..Len(s2c) : s2c' = SubSeq(s2c, 1, k)
  BY DEF Drop
<1>2. NetTypeOK'
  BY <1>1, HeldByPrefix DEF TypeOK, NetTypeOK, Drop
<1>3. ClientTypeOK'
  BY DEF TypeOK, ClientTypeOK, Drop
<1>4. online' \in BOOLEAN
  BY DEF Drop
<1>5. BrokerTypeOK' /\ RecordTypeOK'
  BY <1>4 DEF TypeOK, BrokerTypeOK, RecordTypeOK, Drop, outward, inward
<1> QED
  BY <1>2, <1>3, <1>5 DEF TypeOK

LEMMA ResetTypeOK == TypeOK /\ Reset => TypeOK'
<1> SUFFICES ASSUME TypeOK, Reset PROVE TypeOK'
  OBVIOUS
<1>1. waiting' \in BOOLEAN /\ pingOutstanding' \in BOOLEAN /\ qoscallback' \in BOOLEAN
  BY DEF Reset
<1>2. ClientTypeOK'
  BY <1>1 DEF ClientTypeOK, Reset
<1>3. NetTypeOK'
  BY DEF TypeOK, NetTypeOK, Reset
<1>4. used' \in Budget
  BY Budgeted DEF TypeOK, RecordTypeOK, Reset
<1>5. callOf' \in [MsgIds -> 0..MaxCalls]
  BY SessionAssumption DEF Reset, NoCalls
<1>6. BrokerTypeOK' /\ RecordTypeOK'
  BY <1>4, <1>5 DEF TypeOK, BrokerTypeOK, RecordTypeOK, Reset, broker, outward, inward
<1> QED
  BY <1>2, <1>3, <1>6 DEF TypeOK

\* A step of the broker that reads leaves the client as it is.
LEMMA BrokerKeepsTypeOK ==
    ASSUME TypeOK, BrokerKeeps, NetTypeOK', BrokerTypeOK',
           stored' \subseteq Calls, settled' \subseteq InMsgs
    PROVE  TypeOK'
<1>1. ClientTypeOK'
  BY DEF TypeOK, ClientTypeOK, BrokerKeeps, client
<1>2. RecordTypeOK'
  BY DEF TypeOK, RecordTypeOK, BrokerKeeps
<1> QED
  BY <1>1, <1>2 DEF TypeOK

LEMMA ReceivesTypeOK ==
    ASSUME TypeOK, NEW t, Receives(t)
    PROVE  /\ c2s' \in Seq(ClientPackets)
           /\ Head(c2s) \in ClientPackets
           /\ Head(c2s).id \in MsgIds
           /\ Head(c2s).type = t
BY Received DEF Receives, TypeOK, NetTypeOK

\* What the broker answers with.
LEMMA AnswerTypeOK ==
    ASSUME TypeOK, NEW t \in BrokerTypes, NEW id \in MsgIds
    PROVE  ToClient(Control(t, id)) \in Seq(BrokerPackets)
BY BrokerPacketType, ToClientHolds DEF TypeOK, NetTypeOK

LEMMA FlightsSent ==
    ASSUME NEW F, F \subseteq Flights
    PROVE  /\ {[f EXCEPT !.sent = FALSE] : f \in F} \subseteq Flights
           /\ {[f EXCEPT !.phase = "rel"] : f \in F} \subseteq Flights
           /\ \A f \in F : [f EXCEPT !.sent = TRUE] \in Flights
BY DEF Flights

LEMMA BrokerSessionTypeOK == TypeOK /\ (BrokerAccept \/ BrokerRefuse) => TypeOK'
<1> SUFFICES ASSUME TypeOK, BrokerAccept \/ BrokerRefuse PROVE TypeOK'
  OBVIOUS
<1>1. BrokerKeeps /\ UNCHANGED <<stored, settled>> /\ Receives("CONNECT")
  BY DEF BrokerAccept, BrokerRefuse
<1>2. stored' \subseteq Calls /\ settled' \subseteq InMsgs
  BY <1>1 DEF TypeOK, RecordTypeOK
<1>3. NetTypeOK'
  <2>1. c2s' \in Seq(ClientPackets)
    BY <1>1, ReceivesTypeOK
  <2>2. "CONNACK" \in BrokerTypes
    BY DEF BrokerTypes
  <2>3. s2c' \in Seq(BrokerPackets)
    BY <2>2, AnswerTypeOK, ClientPacketType DEF BrokerAccept, BrokerRefuse
  <2> QED
    BY <2>1, <2>3 DEF NetTypeOK
<1>4. BrokerTypeOK'
  <2>1. CASE BrokerAccept
    <3>1. online' \in BOOLEAN /\ subscribed' \in BOOLEAN
      BY <2>1 DEF BrokerAccept, TypeOK, BrokerTypeOK
    <3>2. inflight' \subseteq Flights /\ received' \subseteq MsgIds
      BY <2>1, FlightsSent DEF BrokerAccept, TypeOK, BrokerTypeOK
    <3> QED
      BY <3>1, <3>2 DEF BrokerTypeOK
  <2>2. CASE BrokerRefuse
    BY <2>2 DEF BrokerRefuse, TypeOK, BrokerTypeOK, broker
  <2> QED
    BY <2>1, <2>2
<1> QED
  BY <1>1, <1>2, <1>3, <1>4, BrokerKeepsTypeOK

LEMMA BrokerIgnoreTypeOK == TypeOK /\ BrokerIgnore => TypeOK'
<1> SUFFICES ASSUME TypeOK, BrokerIgnore PROVE TypeOK'
  OBVIOUS
<1>1. NetTypeOK'
  BY Received DEF BrokerIgnore, TypeOK, NetTypeOK
<1>2. BrokerTypeOK' /\ stored' \subseteq Calls /\ settled' \subseteq InMsgs
  BY DEF BrokerIgnore, TypeOK, BrokerTypeOK, RecordTypeOK, broker
<1> QED
  BY <1>1, <1>2, BrokerKeepsTypeOK DEF BrokerIgnore

LEMMA BrokerStoreTypeOK == TypeOK /\ BrokerStore => TypeOK'
<1> SUFFICES ASSUME TypeOK, BrokerStore PROVE TypeOK'
  OBVIOUS
<1> DEFINE p == Head(c2s)
<1>1. /\ c2s' \in Seq(ClientPackets) /\ p \in ClientPackets /\ p.id \in MsgIds
      /\ p.type = "PUBLISH"
  BY ReceivesTypeOK DEF BrokerStore
<1>2. p.body \in Calls /\ p.qos \in 0..2
  BY <1>1 DEF ClientPackets, ClientTypes
<1>3. s2c' \in Seq(BrokerPackets)
  <2>1. /\ ToClient(Control("PUBACK", p.id)) \in Seq(BrokerPackets)
        /\ ToClient(Control("PUBREC", p.id)) \in Seq(BrokerPackets)
    BY <1>1, AnswerTypeOK DEF BrokerTypes
  <2>2. s2c' = CASE p.qos = 0 -> s2c
                 [] p.qos = 1 -> ToClient(Control("PUBACK", p.id))
                 [] p.qos = 2 -> ToClient(Control("PUBREC", p.id))
    BY DEF BrokerStore
  <2> HIDE DEF p
  <2>3. p.qos = 0 \/ p.qos = 1 \/ p.qos = 2
    BY <1>2
  <2>4. s2c' \in {s2c, ToClient(Control("PUBACK", p.id)), ToClient(Control("PUBREC", p.id))}
    BY <2>2, <2>3
  <2> QED
    BY <2>1, <2>4 DEF TypeOK, NetTypeOK
<1>4. stored' \subseteq Calls /\ received' \subseteq MsgIds
  BY <1>1, <1>2 DEF BrokerStore, TypeOK, BrokerTypeOK, RecordTypeOK
<1>5. BrokerTypeOK' /\ settled' \subseteq InMsgs
  BY <1>4 DEF BrokerStore, TypeOK, BrokerTypeOK, RecordTypeOK
<1>6. NetTypeOK'
  BY <1>1, <1>3 DEF NetTypeOK
<1> QED
  BY <1>4, <1>5, <1>6, BrokerKeepsTypeOK DEF BrokerStore

LEMMA BrokerReleaseTypeOK == TypeOK /\ BrokerRelease => TypeOK'
<1> SUFFICES ASSUME TypeOK, BrokerRelease PROVE TypeOK'
  OBVIOUS
<1>1. c2s' \in Seq(ClientPackets) /\ Head(c2s).id \in MsgIds
  BY ReceivesTypeOK DEF BrokerRelease
<1>2. s2c' \in Seq(BrokerPackets)
  BY <1>1, AnswerTypeOK DEF BrokerRelease, BrokerTypes
<1>3. BrokerTypeOK' /\ stored' \subseteq Calls /\ settled' \subseteq InMsgs
  BY DEF BrokerRelease, TypeOK, BrokerTypeOK, RecordTypeOK
<1>4. NetTypeOK'
  BY <1>1, <1>2 DEF NetTypeOK
<1> QED
  BY <1>3, <1>4, BrokerKeepsTypeOK DEF BrokerRelease

LEMMA BrokerPubrecTypeOK == TypeOK /\ BrokerPubrec => TypeOK'
<1> SUFFICES ASSUME TypeOK, BrokerPubrec PROVE TypeOK'
  OBVIOUS
<1> DEFINE p == Head(c2s)
           got == {f \in inflight : Acknowledges(p, f)}
<1>1. c2s' \in Seq(ClientPackets) /\ p.id \in MsgIds
  BY ReceivesTypeOK DEF BrokerPubrec
<1>2. s2c' = IF got = {} THEN s2c ELSE ToClient(Control("PUBREL", p.id))
  BY DEF BrokerPubrec
<1>3. inflight' = (inflight \ got) \union {[f EXCEPT !.phase = "rel"] : f \in got}
  BY DEF BrokerPubrec
<1>4. got \subseteq inflight /\ inflight \subseteq Flights
  BY DEF TypeOK, BrokerTypeOK
<1> HIDE DEF got, p
<1>5. s2c' \in Seq(BrokerPackets)
  BY <1>1, <1>2, AnswerTypeOK DEF BrokerTypes, TypeOK, NetTypeOK
<1>6. inflight' \subseteq Flights
  BY <1>3, <1>4, FlightsSent
<1>7. BrokerTypeOK'
  BY <1>6 DEF BrokerPubrec, TypeOK, BrokerTypeOK
<1>8. stored' \subseteq Calls /\ settled' \subseteq InMsgs
  BY DEF BrokerPubrec, TypeOK, RecordTypeOK
<1>9. NetTypeOK'
  BY <1>1, <1>5 DEF NetTypeOK
<1> QED
  BY <1>7, <1>8, <1>9, BrokerKeepsTypeOK DEF BrokerPubrec

LEMMA BrokerSettleTypeOK ==
    ASSUME TypeOK, NEW t, BrokerSettle(t)
    PROVE  TypeOK'
<1> DEFINE done == {f \in inflight : Acknowledges(Head(c2s), f)}
<1>1. c2s' \in Seq(ClientPackets) /\ s2c' = s2c
  BY ReceivesTypeOK DEF BrokerSettle
<1>2. inflight' = inflight \ done /\ settled' = settled \union {f.msg : f \in done}
  BY DEF BrokerSettle
<1>3. done \subseteq inflight /\ inflight \subseteq Flights
  BY DEF TypeOK, BrokerTypeOK
<1> HIDE DEF done
<1>4. {f.msg : f \in done} \subseteq InMsgs
  BY <1>3 DEF Flights
<1>5. settled' \subseteq InMsgs /\ stored' \subseteq Calls
  BY <1>2, <1>4 DEF BrokerSettle, TypeOK, RecordTypeOK
<1>6. BrokerTypeOK'
  BY <1>2, <1>3 DEF BrokerSettle, TypeOK, BrokerTypeOK
<1>7. NetTypeOK'
  BY <1>1 DEF TypeOK, NetTypeOK
<1> QED
  BY <1>5, <1>6, <1>7, BrokerKeepsTypeOK DEF BrokerSettle

LEMMA BrokerFilterTypeOK ==
    ASSUME TypeOK, NEW t, NEW ack \in BrokerTypes, BrokerFilter(t, ack)
    PROVE  TypeOK'
<1>1. c2s' \in Seq(ClientPackets) /\ Head(c2s).id \in MsgIds
  BY ReceivesTypeOK DEF BrokerFilter
<1>2. s2c' \in Seq(BrokerPackets)
  BY <1>1, AnswerTypeOK DEF BrokerFilter
<1>3. subscribed' \in BOOLEAN
  BY DEF BrokerFilter
<1>4. BrokerTypeOK' /\ stored' \subseteq Calls /\ settled' \subseteq InMsgs
  BY <1>3 DEF BrokerFilter, TypeOK, BrokerTypeOK, RecordTypeOK
<1>5. NetTypeOK'
  BY <1>1, <1>2 DEF NetTypeOK
<1> QED
  BY <1>4, <1>5, BrokerKeepsTypeOK DEF BrokerFilter

LEMMA BrokerOthersTypeOK ==
    TypeOK /\ (BrokerPingreq \/ BrokerPingresp \/ BrokerDisconnect) => TypeOK'
<1> SUFFICES ASSUME TypeOK, BrokerPingreq \/ BrokerPingresp \/ BrokerDisconnect PROVE TypeOK'
  OBVIOUS
<1>1. c2s' \in Seq(ClientPackets)
  BY ReceivesTypeOK DEF BrokerPingreq, BrokerPingresp, BrokerDisconnect
<1>2. s2c' \in Seq(BrokerPackets)
  <2>1. ToClient(Control("PINGRESP", 0)) \in Seq(BrokerPackets)
    BY AnswerTypeOK, ClientPacketType DEF BrokerTypes
  <2> QED
    BY <2>1 DEF BrokerPingreq, BrokerPingresp, BrokerDisconnect, TypeOK, NetTypeOK
<1>3. BrokerTypeOK'
  <2>1. CASE BrokerPingreq \/ BrokerPingresp
    BY <2>1 DEF BrokerPingreq, BrokerPingresp, TypeOK, BrokerTypeOK, broker
  <2>2. CASE BrokerDisconnect
    <3>1. online' \in BOOLEAN
      BY <2>2 DEF BrokerDisconnect
    <3> QED
      BY <2>2, <3>1 DEF BrokerDisconnect, TypeOK, BrokerTypeOK
  <2> QED
    BY <2>1, <2>2
<1>4. stored' \subseteq Calls /\ settled' \subseteq InMsgs
  BY DEF BrokerPingreq, BrokerPingresp, BrokerDisconnect, TypeOK, RecordTypeOK
<1>5. NetTypeOK'
  BY <1>1, <1>2 DEF NetTypeOK
<1>6. BrokerKeeps
  BY DEF BrokerPingreq, BrokerPingresp, BrokerDisconnect
<1> QED
  BY <1>3, <1>4, <1>5, <1>6, BrokerKeepsTypeOK

\* What the broker has in flight bears ids of its own.
LEMMA BrokerPublishTypeOK ==
    ASSUME TypeOK, NEW m \in InMsgs, BrokerPublish(m)
    PROVE  TypeOK'
<1> USE SessionAssumption
<1>1. 0 \in MsgIds /\ BrokerIds \subseteq MsgIds /\ InQos[m] \in 0..2
  BY ClientPacketType DEF MsgIds
<1>2. s2c' \in Seq(BrokerPackets) /\ inflight' \subseteq Flights
  <2>1. CASE InQos[m] = 0
    <3>1. Publish(0, 0, m) \in BrokerPackets
      BY <1>1, BrokerPacketType
    <3> QED
      BY <2>1, <3>1, ToClientHolds DEF BrokerPublish, TypeOK, NetTypeOK, BrokerTypeOK
  <2>2. CASE InQos[m] /= 0
    <3>1. PICK id \in BrokerIds :
            /\ s2c' = ToClient(Publish(InQos[m], id, m))
            /\ inflight' = inflight \union
                  {[msg |-> m, id |-> id, phase |-> "pub", sent |-> TRUE]}
      BY <2>2 DEF BrokerPublish
    <3>2. Publish(InQos[m], id, m) \in BrokerPackets
      BY <1>1, BrokerPacketType
    <3>3. [msg |-> m, id |-> id, phase |-> "pub", sent |-> TRUE] \in Flights
      BY DEF Flights
    <3> QED
      BY <3>1, <3>2, <3>3, ToClientHolds DEF TypeOK, NetTypeOK, BrokerTypeOK
  <2> QED
    BY <2>1, <2>2
<1>3. NetTypeOK'
  BY <1>2 DEF BrokerPublish, TypeOK, NetTypeOK
<1>4. ClientTypeOK'
  BY DEF BrokerPublish, TypeOK, ClientTypeOK, client
<1>5. BrokerTypeOK'
  BY <1>2 DEF BrokerPublish, TypeOK, BrokerTypeOK
<1>6. RecordTypeOK'
  BY DEF BrokerPublish, TypeOK, RecordTypeOK, outward
<1> QED
  BY <1>3, <1>4, <1>5, <1>6 DEF TypeOK

LEMMA BrokerResendTypeOK ==
    ASSUME TypeOK, NEW f \in inflight, BrokerResend(f)
    PROVE  TypeOK'
<1> USE SessionAssumption
<1>1. /\ f \in Flights /\ f.id \in MsgIds /\ f.msg \in InMsgs /\ InQos[f.msg] \in 0..2
  <2>1. f \in Flights
    BY DEF TypeOK, BrokerTypeOK
  <2>2. f.id \in BrokerIds /\ f.msg \in InMsgs
    BY <2>1 DEF Flights
  <2>3. BrokerIds \subseteq MsgIds
    BY DEF MsgIds
  <2> QED
    BY <2>1, <2>2, <2>3
<1>2. inflight' \subseteq Flights
  BY <1>1, FlightsSent DEF BrokerResend, TypeOK, BrokerTypeOK
<1>3. s2c' \in Seq(BrokerPackets)
  <2>1. Publish(InQos[f.msg], f.id, f.msg) \in BrokerPackets
    BY <1>1, BrokerPacketType
  <2>2. Control("PUBREL", f.id) \in BrokerPackets
    BY <1>1, BrokerPacketType DEF BrokerTypes
  <2> QED
    BY <2>1, <2>2, ToClientHolds DEF BrokerResend, TypeOK, NetTypeOK
<1>4. NetTypeOK'
  BY <1>3 DEF BrokerResend, TypeOK, NetTypeOK
<1>5. ClientTypeOK'
  BY DEF BrokerResend, TypeOK, ClientTypeOK, client
<1>6. BrokerTypeOK'
  BY <1>2 DEF BrokerResend, TypeOK, BrokerTypeOK
<1>7. RecordTypeOK'
  BY DEF BrokerResend, TypeOK, RecordTypeOK, outward, inward
<1> QED
  BY <1>4, <1>5, <1>6, <1>7 DEF TypeOK

LEMMA BrokerPingTypeOK == TypeOK /\ BrokerPing => TypeOK'
<1> SUFFICES ASSUME TypeOK, BrokerPing PROVE TypeOK'
  OBVIOUS
<1>1. s2c' \in Seq(BrokerPackets)
  BY AnswerTypeOK, ClientPacketType DEF BrokerPing, BrokerTypes
<1>2. NetTypeOK'
  BY <1>1 DEF BrokerPing, TypeOK, NetTypeOK
<1>3. used' \in Budget
  BY Budgeted DEF BrokerPing, TypeOK, RecordTypeOK
<1>4. ClientTypeOK'
  BY DEF BrokerPing, TypeOK, ClientTypeOK, client
<1>5. BrokerTypeOK' /\ RecordTypeOK'
  BY <1>3 DEF BrokerPing, TypeOK, BrokerTypeOK, RecordTypeOK, broker, outward, inward
<1> QED
  BY <1>2, <1>4, <1>5 DEF TypeOK

\* One step per action of Next.
LEMMA NextTypeOK == TypeOK /\ [Next]_vars => TypeOK'
<1> SUFFICES ASSUME TypeOK, [Next]_vars PROVE TypeOK'
  OBVIOUS
<1>1. CASE ApplicationStep
  <2>1. CASE AddQosCallback \/ ConnectStart \/ ConnectFail \/ Disconnect
    BY <2>1, AddQosCallbackTypeOK, ConnectStartTypeOK, ConnectFailTypeOK, CloseTypeOK
  <2>2. CASE \E q \in 0..2, wantId \in WantIds : PublishCall(q, wantId)
    BY <2>2, PublishCallTypeOK
  <2>3. CASE Subscribe \/ Unsubscribe
    BY <2>3, FilterCallTypeOK DEF Subscribe, Unsubscribe
  <2> QED
    BY <1>1, <2>1, <2>2, <2>3 DEF ApplicationStep
<1>2. CASE ConnectEnd \/ LoopTimeout
  BY <1>2, ConnectFinishTypeOK, CloseTypeOK DEF ConnectEnd
<1>3. CASE LoopIdle \/ LoopRead \/ CallbackReturn
  BY <1>3, LoopIdleTypeOK, LoopReadTypeOK, CallbackReturnTypeOK
<1>4. CASE Drop \/ Reset
  BY <1>4, DropTypeOK, ResetTypeOK
<1>5. CASE BrokerReceive
  <2>1. "SUBACK" \in BrokerTypes /\ "UNSUBACK" \in BrokerTypes
    BY DEF BrokerTypes
  <2> QED
    BY <1>5, <2>1, BrokerSessionTypeOK, BrokerIgnoreTypeOK, BrokerStoreTypeOK,
       BrokerReleaseTypeOK, BrokerPubrecTypeOK, BrokerSettleTypeOK, BrokerFilterTypeOK,
       BrokerOthersTypeOK DEF BrokerReceive
<1>6. CASE BrokerSend
  BY <1>6, BrokerPublishTypeOK, BrokerResendTypeOK, BrokerPingTypeOK DEF BrokerSend
<1>7. CASE UNCHANGED vars
  <2>1. ClientTypeOK'
    BY <1>7 DEF TypeOK, ClientTypeOK, vars, client
  <2>2. NetTypeOK' /\ BrokerTypeOK' /\ RecordTypeOK'
    BY <1>7 DEF TypeOK, NetTypeOK, BrokerTypeOK, RecordTypeOK, vars, broker, outward, inward
  <2> QED
    BY <2>1, <2>2 DEF TypeOK
<1> QED
  BY <1>1, <1>2, <1>3, <1>4, <1>5, <1>6, <1>7 DEF Next

\* Every variable has its type, and every packet on the wire in either
\* direction is one its sender can build, whatever the reconnects, resets and
\* lost packets (all of connect(), publish(), loop() and the callback).
THEOREM SessionTypeOK == Spec => []TypeOK
<1>1. Init => TypeOK
  BY InitTypeOK
<1>2. TypeOK /\ [Next]_vars => TypeOK'
  BY NextTypeOK
<1> QED
  BY <1>1, <1>2, PTL DEF Spec
------------------------------------------------------------------------------
(* One connection *)

Hello == Control("CONNECT", 0)

\* While CONNECT is under way nothing but it and a DISCONNECT is, in either
\* direction: connect() has the client wait.
OpeningInv ==
    /\ Once(c2s, {Hello})
    /\ \A p \in ToSet(c2s) : p.type = "CONNECT" =>
        /\ p = Hello
        /\ \A q \in ToSet(c2s) : q.type \in {"CONNECT", "DISCONNECT"}
        /\ ~online
        /\ s2c = <<>>
        /\ sock = "open" => waiting

\* connect() returns true only after the broker has accepted the client.
AcceptedInv ==
    sock = "open" /\ ~online =>
        /\ waiting
        /\ \/ c2s /= <<>> /\ Head(c2s).type = "CONNECT"
           \/ s2c /= <<>> /\ Head(s2c) = Control("CONNACK", 1)

\* disconnect() closes the connection.
ClosingInv == \A p \in ToSet(c2s) : p.type = "DISCONNECT" => sock /= "open"

ConnectionInv == OpeningInv /\ AcceptedInv /\ ClosingInv

LEMMA InitConnectionInv == Init => ConnectionInv
BY HeldByEmpty, KeptByEmpty DEF Init, ConnectionInv, OpeningInv, AcceptedInv, ClosingInv

\* disconnect(), wherever it is called.
LEMMA CloseConnectionInv ==
    ASSUME TypeOK, ConnectionInv, Close, UNCHANGED online
    PROVE  ConnectionInv'
<1> DEFINE bye == Control("DISCONNECT", 0)
<1>1. /\ ToSet(c2s') \subseteq ToSet(c2s) \union {bye}
      /\ s2c' = <<>> /\ sock' = "closed"
  BY CloseHolds DEF TypeOK, NetTypeOK
<1>2. bye.type = "DISCONNECT" /\ bye /= Hello
  BY DEF Control, Hello
<1>3. Once(c2s', {Hello})
  <2>1. bye \in ClientPackets
    BY ClientPacketType DEF ClientTypes
  <2>2. <<bye>> \in Seq(ClientPackets) /\ ToSet(<<bye>>) \intersect {Hello} = {}
    BY <1>2, <2>1, HeldByOne
  <2>3. Kept(c2s \o <<bye>>, c2s, {Hello})
    BY <2>2, KeptByConcat DEF TypeOK, NetTypeOK
  <2>4. c2s' = c2s \/ c2s' = c2s \o <<bye>>
    BY DEF Close, NetWrite
  <2> QED
    BY <2>3, <2>4 DEF ConnectionInv, OpeningInv, Kept
<1> HIDE DEF bye
<1>4. OpeningInv'
  BY <1>1, <1>2, <1>3 DEF ConnectionInv, OpeningInv
<1> QED
  BY <1>1, <1>4 DEF ConnectionInv, AcceptedInv, ClosingInv

\* The client writes only once it no longer waits.
LEMMA WriteConnectionInv ==
    ASSUME TypeOK, ConnectionInv, ~waiting, UNCHANGED <<sock, waiting, online>>,
           NEW ps \in Seq(ClientPackets), c2s' = NetWrite(ps),
           \A p \in ToSet(ps) : p.type \notin {"CONNECT", "DISCONNECT"},
           s2c = <<>> => s2c' = <<>>
    PROVE  ConnectionInv'
<1>1. CASE sock /= "open"
  <2>1. c2s' = c2s
    BY <1>1 DEF NetWrite
  <2> QED
    BY <1>1, <2>1 DEF ConnectionInv, OpeningInv, AcceptedInv, ClosingInv
<1>2. CASE sock = "open"
  <2>1. \A p \in ToSet(c2s) : p.type \notin {"CONNECT", "DISCONNECT"}
    BY <1>2 DEF ConnectionInv, OpeningInv, ClosingInv
  <2>2. ToSet(c2s') \subseteq ToSet(c2s) \union ToSet(ps)
    BY NetWriteHolds DEF TypeOK, NetTypeOK
  <2>3. \A p \in ToSet(c2s') : p.type \notin {"CONNECT", "DISCONNECT"}
    BY <2>1, <2>2
  <2>4. Once(c2s', {Hello})
    <3>1. Hello.type = "CONNECT"
      BY DEF Hello, Control
    <3>2. ToSet(ps) \intersect {Hello} = {}
      BY <3>1
    <3>3. Kept(c2s \o ps, c2s, {Hello})
      BY <3>2, KeptByConcat DEF TypeOK, NetTypeOK
    <3> QED
      BY <1>2, <3>3 DEF NetWrite, ConnectionInv, OpeningInv, Kept
  <2>5. online
    BY <1>2 DEF ConnectionInv, AcceptedInv
  <2> QED
    BY <1>2, <2>3, <2>4, <2>5 DEF ConnectionInv, OpeningInv, AcceptedInv, ClosingInv
<1> QED
  BY <1>1, <1>2

\* The broker goes on with a client it has accepted, until it disconnects.
LEMMA OnlineConnectionInv ==
    ASSUME TypeOK, ConnectionInv, online, UNCHANGED <<sock, waiting>>,
           c2s' = c2s \/ (c2s /= <<>> /\ c2s' = Tail(c2s)),
           online' \/ sock /= "open"
    PROVE  ConnectionInv'
<1>1. Kept(c2s', c2s, {Hello}) /\ ToSet(c2s') \subseteq ToSet(c2s)
  <2>1. CASE c2s' = c2s
    BY <2>1, KeptSame
  <2>2. CASE c2s /= <<>> /\ c2s' = Tail(c2s)
    BY <2>2, KeptByTail, HeldByTail DEF TypeOK, NetTypeOK
  <2> QED
    BY <2>1, <2>2
<1>2. \A p \in ToSet(c2s) : p.type /= "CONNECT"
  BY DEF ConnectionInv, OpeningInv
<1>3. OpeningInv'
  BY <1>1, <1>2 DEF ConnectionInv, OpeningInv, Kept
<1> QED
  BY <1>1, <1>3 DEF ConnectionInv, AcceptedInv, ClosingInv

LEMMA OfflineConnectionInv ==
    TypeOK /\ ConnectionInv /\ (BrokerAccept \/ BrokerRefuse \/ BrokerIgnore) => ConnectionInv'
<1> SUFFICES ASSUME TypeOK, ConnectionInv, BrokerAccept \/ BrokerRefuse \/ BrokerIgnore
             PROVE  ConnectionInv'
  OBVIOUS
<1>1. /\ c2s /= <<>> /\ c2s' = Tail(c2s) /\ UNCHANGED <<sock, waiting>>
  BY DEF BrokerAccept, BrokerRefuse, BrokerIgnore, Receives, BrokerKeeps, client
<1>2. /\ ToSet(c2s') \subseteq ToSet(c2s) /\ Head(c2s) \in ToSet(c2s)
      /\ Once(c2s', {Hello})
      /\ Head(c2s) = Hello => Hello.id \notin IdsOf(c2s', {Hello})
  BY <1>1, KeptByTail, HeldByTail DEF TypeOK, NetTypeOK, ConnectionInv, OpeningInv, Kept
<1>3. CASE BrokerAccept \/ BrokerRefuse
  <2>1. Head(c2s).type = "CONNECT"
    BY <1>3 DEF BrokerAccept, BrokerRefuse, Receives
  <2>2. Head(c2s) = Hello /\ s2c = <<>>
    BY <1>2, <2>1 DEF ConnectionInv, OpeningInv
  <2>3. \A p \in ToSet(c2s') : p.type /= "CONNECT"
    BY <1>2, <2>2 DEF ConnectionInv, OpeningInv, IdsOf
  <2>4. AcceptedInv'
    <3>1. CASE BrokerAccept
      BY <3>1 DEF BrokerAccept, AcceptedInv
    <3>2. CASE BrokerRefuse
      <4>1. SUFFICES ASSUME sock = "open" PROVE waiting /\ s2c' = <<Control("CONNACK", 1)>>
        BY <1>1, <3>2 DEF AcceptedInv
      <4>2. s2c' = <<Control("CONNACK", 1)>>
        BY <2>2, <3>2, <4>1 DEF BrokerRefuse, ToClient
      <4> QED
        BY <1>2, <2>1, <4>1, <4>2 DEF ConnectionInv, OpeningInv
    <3> QED
      BY <1>3, <3>1, <3>2
  <2> QED
    BY <1>1, <1>2, <2>3, <2>4 DEF ConnectionInv, OpeningInv, ClosingInv
<1>4. CASE BrokerIgnore
  <2>1. UNCHANGED <<s2c, online>> /\ Head(c2s).type /= "CONNECT"
    BY <1>4 DEF BrokerIgnore, broker
  <2> QED
    BY <1>1, <1>2, <2>1 DEF ConnectionInv, OpeningInv, AcceptedInv, ClosingInv
<1> QED
  BY <1>3, <1>4

LEMMA ConnectConnectionInv ==
    TypeOK /\ ConnectionInv /\ (ConnectStart \/ ConnectFail \/ ConnectFinish) => ConnectionInv'
<1> SUFFICES ASSUME TypeOK, ConnectionInv, ConnectStart \/ ConnectFail \/ ConnectFinish
             PROVE  ConnectionInv'
  OBVIOUS
<1>1. CASE ConnectStart
  <2>1. /\ c2s' = <<Hello>> /\ s2c' = <<>> /\ ~online' /\ waiting'
    BY <1>1 DEF ConnectStart, Hello
  <2>2. Hello.type = "CONNECT"
    BY DEF Hello, Control
  <2>3. ToSet(c2s') = {Hello} /\ c2s' /= <<>> /\ Head(c2s') = Hello
    BY <2>1, HeldByOne
  <2>4. Once(c2s', {Hello})
    BY <2>1 DEF Once
  <2> QED
    BY <2>1, <2>2, <2>3, <2>4 DEF ConnectionInv, OpeningInv, AcceptedInv, ClosingInv
<1>2. CASE ConnectFail
  <2>1. sock' = "closed" /\ UNCHANGED <<c2s, s2c, online, waiting>>
    BY <1>2 DEF ConnectFail, broker
  <2> QED
    BY <2>1 DEF ConnectionInv, OpeningInv, AcceptedInv, ClosingInv
<1>3. CASE ConnectFinish
  <2>1. UNCHANGED online /\ s2c /= <<>>
    BY <1>3 DEF ConnectFinish, broker
  <2>2. CASE Close
    BY <2>1, <2>2, CloseConnectionInv
  <2>3. CASE ~Close
    <3>1. /\ UNCHANGED <<sock, c2s>> /\ ~waiting' /\ FourthByte(Head(s2c)) = 0
      BY <1>3, <2>3 DEF ConnectFinish
    <3>2. Head(s2c) /= Control("CONNACK", 1)
      BY <3>1 DEF FourthByte, Control
    <3>3. \A p \in ToSet(c2s) : p.type /= "CONNECT"
      BY <2>1 DEF ConnectionInv, OpeningInv
    <3>4. c2s /= <<>> => Head(c2s) \in ToSet(c2s)
      BY HeldByTail DEF TypeOK, NetTypeOK
    <3>5. sock = "open" => online
      BY <3>2, <3>3, <3>4 DEF ConnectionInv, AcceptedInv
    <3> QED
      BY <2>1, <3>1, <3>3, <3>5 DEF ConnectionInv, OpeningInv, AcceptedInv, ClosingInv
  <2> QED
    BY <2>2, <2>3
<1> QED
  BY <1>1, <1>2, <1>3

\* What the application's calls, and a loop() with nothing to read, write.
LEMMA CallWrites ==
    ASSUME TypeOK,
           \/ \E q \in 0..2, wantId \in WantIds : PublishCall(q, wantId)
           \/ Subscribe \/ Unsubscribe \/ LoopIdle
    PROVE  \E ps \in Seq(ClientPackets) :
             /\ c2s' = NetWrite(ps)
             /\ \A p \in ToSet(ps) : p.type \in {"PUBLISH", "SUBSCRIBE", "UNSUBSCRIBE", "PINGREQ"}
<1>1. CASE \E q \in 0..2, wantId \in WantIds : PublishCall(q, wantId)
  <2>1. PICK q \in 0..2, wantId \in WantIds : PublishCall(q, wantId)
    BY <1>1
  <2>2. PICK p : /\ p = Publish(q, IF q = 0 THEN 0 ELSE NewMsgId, used.calls + 1)
                 /\ c2s' = NetWrite(<<p>>)
    BY <2>1 DEF PublishCall
  <2>3. p \in ClientPackets
    <3>1. used.calls + 1 \in Calls
      BY <2>1, Budgeted DEF PublishCall, TypeOK, RecordTypeOK
    <3>2. nextMsgId + 1 \in Nat
      BY SessionAssumption DEF TypeOK, ClientTypeOK, MsgIds
    <3>3. NewMsgId \in MsgIds
      BY <3>2, SessionAssumption DEF NewMsgId, MsgIds
    <3> QED
      BY <2>2, <3>1, <3>3, ClientPacketType
  <2>4. p.type = "PUBLISH"
    BY <2>2 DEF Publish
  <2>5. <<p>> \in Seq(ClientPackets) /\ ToSet(<<p>>) = {p}
    BY <2>3, HeldByOne
  <2> QED
    BY <2>2, <2>4, <2>5
<1>2. CASE Subscribe \/ Unsubscribe
  <2>1. PICK t \in {"SUBSCRIBE", "UNSUBSCRIBE"} : FilterCall(t)
    BY <1>2 DEF Subscribe, Unsubscribe
  <2>2. PICK p : p = Control(t, nextMsgId') /\ c2s' = NetWrite(<<p>>)
    BY <2>1 DEF FilterCall
  <2>3. nextMsgId' \in MsgIds
    BY <2>1, FilterCallTypeOK DEF TypeOK, ClientTypeOK
  <2>4. p \in ClientPackets /\ p.type = t
    BY <2>2, <2>3, ClientPacketType DEF ClientTypes, Control
  <2>5. <<p>> \in Seq(ClientPackets) /\ ToSet(<<p>>) = {p}
    BY <2>4, HeldByOne
  <2> QED
    BY <2>2, <2>4, <2>5
<1>3. CASE LoopIdle
  <2>1. PICK expired \in BOOLEAN : MayPing(expired) /\ c2s' = NetWrite(Ping(expired))
    BY <1>3 DEF LoopIdle
  <2>2. Control("PINGREQ", 0).type = "PINGREQ"
    BY DEF Control
  <2> QED
    BY <2>1, <2>2, Pinged
<1> QED
  BY <1>1, <1>2, <1>3

\* What a loop() that reads a packet writes: PUBREL only for PUBREC.
LEMMA LoopReadWrites ==
    ASSUME TypeOK, LoopRead
    PROVE  \E ps \in Seq(ClientPackets) :
             /\ c2s' = NetWrite(ps)
             /\ \A p \in ToSet(ps) :
                    /\ p.type \in {"PINGREQ", "PINGRESP", "PUBREL", "PUBCOMP"}
                    /\ p.type = "PUBREL" => Head(s2c).type = "PUBREC" /\ p.id = Head(s2c).id
<1>1. PICK p \in BrokerPackets : p = Head(s2c)
  BY Read DEF LoopRead, TypeOK, NetTypeOK
<1>2. PICK expired \in BOOLEAN :
        MayPing(expired) /\ c2s' = NetWrite(Ping(expired) \o Reply(p))
  BY <1>1 DEF LoopRead
<1>3. /\ Control("PUBREL", p.id).type = "PUBREL" /\ Control("PUBREL", p.id).id = p.id
      /\ Control("PUBCOMP", p.id).type = "PUBCOMP"
      /\ Control("PINGREQ", 0).type = "PINGREQ" /\ Control("PINGRESP", 0).type = "PINGRESP"
  BY DEF Control
<1>4. /\ Ping(expired) \o Reply(p) \in Seq(ClientPackets)
      /\ ToSet(Ping(expired) \o Reply(p)) = ToSet(Ping(expired)) \union ToSet(Reply(p))
  BY <1>2, Pinged, Answered, HeldByConcat
<1>5. \A a \in ToSet(Ping(expired) \o Reply(p)) :
        /\ a.type \in {"PINGREQ", "PINGRESP", "PUBREL", "PUBCOMP"}
        /\ a.type = "PUBREL" => p.type = "PUBREC" /\ a.id = p.id
  BY <1>2, <1>3, <1>4, Pinged, Answered
<1> QED
  BY <1>1, <1>2, <1>4, <1>5

LEMMA CallConnectionInv ==
    ASSUME TypeOK, ConnectionInv,
           \/ \E q \in 0..2, wantId \in WantIds : PublishCall(q, wantId)
           \/ Subscribe \/ Unsubscribe \/ LoopIdle \/ LoopRead \/ CallbackReturn
    PROVE  ConnectionInv'
<1>1. ~waiting /\ UNCHANGED <<sock, waiting, online>> /\ (s2c = <<>> => s2c' = <<>>)
  BY DEF PublishCall, Subscribe, Unsubscribe, FilterCall, LoopIdle, LoopRead, LoopReady,
     CallbackReturn, broker
<1>2. \E ps \in Seq(ClientPackets) :
        /\ c2s' = NetWrite(ps)
        /\ \A p \in ToSet(ps) : p.type \notin {"CONNECT", "DISCONNECT"}
  <2>1. CASE CallbackReturn
    <3>1. Last(frames) \in Frames /\ c2s' = NetWrite(<<Last(frames)>>)
      BY <2>1, PopProperties DEF TypeOK, ClientTypeOK, CallbackReturn
    <3>2. Last(frames) \in ClientPackets /\ Last(frames).type \in {"PUBACK", "PUBREC"}
      BY <3>1 DEF Frames, ClientPackets, ClientTypes
    <3>3. <<Last(frames)>> \in Seq(ClientPackets) /\ ToSet(<<Last(frames)>>) = {Last(frames)}
      BY <3>2, HeldByOne
    <3> QED
      BY <3>1, <3>2, <3>3
  <2>2. CASE LoopRead
    BY <2>2, LoopReadWrites
  <2>3. CASE \/ \E q \in 0..2, wantId \in WantIds : PublishCall(q, wantId)
             \/ Subscribe \/ Unsubscribe \/ LoopIdle
    BY <2>3, CallWrites
  <2> QED
    BY <2>1, <2>2, <2>3
<1> QED
  BY <1>1, <1>2, WriteConnectionInv

LEMMA FaultConnectionInv ==
    TypeOK /\ ConnectionInv /\ (Drop \/ Reset) => ConnectionInv'
<1> SUFFICES ASSUME TypeOK, ConnectionInv, Drop \/ Reset PROVE ConnectionInv'
  OBVIOUS
<1>1. CASE Drop
  <2>1. c2s' = <<>> /\ sock' /= "open"
    BY <1>1 DEF Drop
  <2> QED
    BY <2>1, HeldByEmpty, KeptByEmpty
       DEF ConnectionInv, OpeningInv, AcceptedInv, ClosingInv
<1>2. CASE Reset
  <2>1. sock' = "closed" /\ s2c' = <<>> /\ UNCHANGED <<c2s, online>>
    BY <1>2 DEF Reset, broker
  <2> QED
    BY <2>1 DEF ConnectionInv, OpeningInv, AcceptedInv, ClosingInv
<1> QED
  BY <1>1, <1>2

LEMMA BrokerConnectionInv ==
    TypeOK /\ ConnectionInv /\ (BrokerReceive \/ BrokerSend) => ConnectionInv'
<1> SUFFICES ASSUME TypeOK, ConnectionInv, BrokerReceive \/ BrokerSend PROVE ConnectionInv'
  OBVIOUS
<1>1. CASE BrokerAccept \/ BrokerRefuse \/ BrokerIgnore
  BY <1>1, OfflineConnectionInv
<1>2. CASE BrokerDisconnect
  <2>1. /\ online /\ UNCHANGED <<sock, waiting>> /\ c2s /= <<>> /\ c2s' = Tail(c2s)
        /\ Head(c2s).type = "DISCONNECT"
    BY <1>2 DEF BrokerDisconnect, Receives, BrokerKeeps, client
  <2>2. sock /= "open"
    BY <2>1, HeldByTail DEF TypeOK, NetTypeOK, ConnectionInv, ClosingInv
  <2> QED
    BY <2>1, <2>2, OnlineConnectionInv
<1>3. CASE /\ BrokerReceive
           /\ ~(BrokerAccept \/ BrokerRefuse \/ BrokerIgnore \/ BrokerDisconnect)
  <2>1. online /\ online' = online /\ UNCHANGED <<sock, waiting>>
    BY <1>3 DEF BrokerReceive, BrokerStore, BrokerRelease, BrokerPubrec, BrokerSettle,
       BrokerFilter, BrokerPingreq, BrokerPingresp, BrokerKeeps, client, broker
  <2>2. c2s /= <<>> /\ c2s' = Tail(c2s)
    BY <1>3 DEF BrokerReceive, BrokerStore, BrokerRelease, BrokerPubrec, BrokerSettle,
       BrokerFilter, BrokerPingreq, BrokerPingresp, Receives
  <2> QED
    BY <2>1, <2>2, OnlineConnectionInv
<1>4. CASE BrokerSend
  <2>1. online /\ online' = online /\ UNCHANGED <<sock, waiting, c2s>>
    BY <1>4 DEF BrokerSend, BrokerPublish, BrokerResend, BrokerPing, client, broker
  <2> QED
    BY <2>1, OnlineConnectionInv
<1> QED
  BY <1>1, <1>2, <1>3, <1>4

LEMMA NextConnectionInv == TypeOK /\ ConnectionInv /\ [Next]_vars => ConnectionInv'
<1> SUFFICES ASSUME TypeOK, ConnectionInv, [Next]_vars PROVE ConnectionInv'
  OBVIOUS
<1>1. CASE AddQosCallback \/ UNCHANGED vars
  <2>1. UNCHANGED <<sock, waiting, c2s, s2c, online>>
    BY <1>1 DEF AddQosCallback, vars, client, broker
  <2> QED
    BY <2>1 DEF ConnectionInv, OpeningInv, AcceptedInv, ClosingInv
<1>2. CASE Disconnect \/ ConnectTimeout \/ LoopTimeout
  <2>1. Close /\ UNCHANGED online
    BY <1>2 DEF Disconnect, ConnectTimeout, LoopTimeout, broker
  <2> QED
    BY <2>1, CloseConnectionInv
<1>3. CASE ConnectStart \/ ConnectFail \/ ConnectFinish
  BY <1>3, ConnectConnectionInv
<1>4. CASE \/ \E q \in 0..2, wantId \in WantIds : PublishCall(q, wantId)
           \/ Subscribe \/ Unsubscribe \/ LoopIdle \/ LoopRead \/ CallbackReturn
  BY <1>4, CallConnectionInv
<1>5. CASE Drop \/ Reset
  BY <1>5, FaultConnectionInv
<1>6. CASE BrokerReceive \/ BrokerSend
  BY <1>6, BrokerConnectionInv
<1> QED
  BY <1>1, <1>2, <1>3, <1>4, <1>5, <1>6 DEF Next, ApplicationStep, ConnectEnd

\* What is under way belongs to the current connection: the broker has
\* accepted it before the client sends anything else, and nothing follows the
\* DISCONNECT (the order of connect() and disconnect()).
THEOREM ConnectionIsAccepted == Spec => []ConnectionInv
<1>1. Init => TypeOK /\ ConnectionInv
  BY InitTypeOK, InitConnectionInv
<1>2. TypeOK /\ ConnectionInv /\ [Next]_vars => (TypeOK /\ ConnectionInv)'
  BY NextTypeOK, NextConnectionInv
<1> QED
  BY <1>1, <1>2, PTL DEF Spec

------------------------------------------------------------------------------
(* The queues, by the kinds of packets they hold *)

\* The packets that bear the id of a message of QoS 1 or 2.  The
\* acknowledgments of them are the members of Frames.
Messages == [type : {"PUBLISH"}, qos : 1..2, id : MsgIds, body : InMsgs]

LEMMA NotFrames ==
    /\ \A t, id : t \notin {"PUBACK", "PUBREC"} => Control(t, id) \notin Frames
    /\ \A q, id, body : Publish(q, id, body) \notin Frames
    /\ \A t, id : t /= "PUBLISH" => Control(t, id) \notin Messages
    /\ \A id, body : Publish(0, id, body) \notin Messages
    /\ Hello \notin Frames /\ Hello.type = "CONNECT"
    /\ Frames \subseteq ClientPackets
BY DEF Control, Publish, Frames, Messages, Hello, ClientPackets, ClientTypes

LEMMA FlightType ==
    ASSUME NEW f \in Flights
    PROVE  /\ f.msg \in InMsgs /\ f.id \in MsgIds /\ InQos[f.msg] \in 0..2
<1>1. f.msg \in InMsgs /\ f.id \in BrokerIds
  BY DEF Flights
<1>2. BrokerIds \subseteq MsgIds
  BY SessionAssumption DEF MsgIds
<1>3. InQos[f.msg] \in 0..2
  BY <1>1, SessionAssumption
<1> QED
  BY <1>1, <1>2, <1>3

LEMMA NetWriteKept ==
    ASSUME TypeOK, NEW ps \in Seq(ClientPackets), NEW P, ToSet(ps) \intersect P = {}
    PROVE  Kept(NetWrite(ps), c2s, P)
<1>1. Kept(c2s \o ps, c2s, P)
  BY KeptByConcat DEF TypeOK, NetTypeOK
<1> QED
  BY <1>1, KeptSame DEF NetWrite

LEMMA ToClientKept ==
    ASSUME TypeOK, NEW p \in BrokerPackets, NEW P, p \notin P
    PROVE  Kept(ToClient(p), s2c, P)
BY KeptByAppend, KeptSame DEF ToClient, TypeOK, NetTypeOK

\* disconnect() writes one packet, a DISCONNECT.
LEMMA CloseWrites ==
    ASSUME TypeOK, Close, NEW P, \A p \in P : p.type /= "DISCONNECT"
    PROVE  Kept(c2s', c2s, P)
<1>1. PICK bye : bye = Control("DISCONNECT", 0) /\ c2s' = NetWrite(<<bye>>)
  BY DEF Close
<1>2. bye \in ClientPackets /\ bye.type = "DISCONNECT"
  BY <1>1, ClientPacketType DEF ClientTypes, Control
<1>3. <<bye>> \in Seq(ClientPackets) /\ ToSet(<<bye>>) = {bye}
  BY <1>2, HeldByOne
<1> QED
  BY <1>1, <1>2, <1>3, NetWriteKept

------------------------------------------------------------------------------
(* What is reported to the application is stored.                          *)
(*                                                                         *)
(* The property is not inductive: it rests on what the packets under way   *)
(* and the broker's QoS 2 ids mean.  An acknowledgment on its way to the   *)
(* client bears a safe id, one whose publish() call is stored; the PUBREL  *)
(* that answers it too, and so does an id the broker would take for that   *)
(* of a repetition; and an id still to be given to a publish() is on no    *)
(* packet, which is what the counter of connect() and publish() is for.    *)

\* A connection needs at most two ids for each publish() and one for each
\* subscribe() and unsubscribe(), counted from 1.
IdsSuffice == 2 * MaxCalls + MaxSubs + 1 < IdMod

\* The publish() call the application takes this id for is stored.
SafeId(i) == callOf[i] > 0 => callOf[i] \in stored

\* An id of the current connection.
Given(i) == sock /= "closed" => i <= nextMsgId

SafeRequest(p) ==
    /\ p.type = "PUBLISH" /\ p.qos > 0 => Given(p.id) /\ callOf[p.id] \in {0, p.body}
    /\ p.type = "PUBREL" => Given(p.id) /\ SafeId(p.id)

SafeAnswer(p) ==
    p.type \in {"PUBACK", "PUBREC", "PUBCOMP"} => Given(p.id) /\ SafeId(p.id)

ClosedInv == sock = "closed" => s2c = <<>>

CounterInv ==
    sock /= "closed" =>
        /\ nextMsgId <= 1 + 2 * used.calls + used.subs
        /\ \A i \in MsgIds : i > nextMsgId => callOf[i] = 0

RequestInv == \A p \in ToSet(c2s) : SafeRequest(p)

AnswerInv == \A p \in ToSet(s2c) : SafeAnswer(p)

ReceivedInv == online => \A i \in received : Given(i) /\ SafeId(i)

IInv ==
    /\ TypeOK
    /\ ClosedInv
    /\ CounterInv
    /\ RequestInv
    /\ AnswerInv
    /\ ReceivedInv
    /\ ConfirmedIsStored

------------------------------------------------------------------------------
(* Steps that give no id *)

LEMMA InitIInv == Init => IInv
<1> SUFFICES ASSUME Init PROVE IInv
  OBVIOUS
<1>1. /\ sock = "closed" /\ c2s = <<>> /\ s2c = <<>> /\ ~online
      /\ confirmed = {} /\ stored = {}
  BY DEF Init
<1> QED
  BY <1>1, InitTypeOK, HeldByEmpty DEF IInv, ClosedInv, CounterInv, RequestInv, AnswerInv,
     ReceivedInv, ConfirmedIsStored

\* What was safe stays safe as long as no id is given away.
LEMMA StillSafe ==
    ASSUME UNCHANGED <<callOf, nextMsgId>>, stored \subseteq stored',
           sock = "closed" => sock' = "closed"
    PROVE  /\ \A i : SafeId(i) => SafeId(i)'
           /\ \A i : Given(i) => Given(i)'
           /\ \A p : SafeRequest(p) => SafeRequest(p)'
           /\ \A p : SafeAnswer(p) => SafeAnswer(p)'
<1>1. \A i : SafeId(i) => SafeId(i)'
  BY DEF SafeId
<1>2. \A i : Given(i) => Given(i)'
  BY DEF Given
<1>3. \A p : SafeRequest(p) => SafeRequest(p)'
  BY <1>1, <1>2 DEF SafeRequest
<1> QED
  BY <1>1, <1>2, <1>3 DEF SafeAnswer

\* A step that gives no id preserves the invariant when what it puts on the
\* wire, what it reports and what the broker holds after it are safe.
LEMMA SafeStep ==
    ASSUME IInv, TypeOK',
           UNCHANGED <<callOf, nextMsgId>>, stored \subseteq stored',
           sock = "closed" => sock' = "closed",
           used'.calls = used.calls, used'.subs = used.subs,
           ClosedInv',
           \A p \in ToSet(c2s') : p \in ToSet(c2s) \/ SafeRequest(p)',
           \A p \in ToSet(s2c') : p \in ToSet(s2c) \/ SafeAnswer(p)',
           ReceivedInv',
           ConfirmedIsStored'
    PROVE  IInv'
<1>1. CounterInv'
  BY DEF IInv, CounterInv
<1>2. RequestInv'
  BY StillSafe DEF IInv, RequestInv
<1>3. AnswerInv'
  BY StillSafe DEF IInv, AnswerInv
<1> QED
  BY <1>1, <1>2, <1>3 DEF IInv

\* Packets that bear no id of a publish() the client has under way.
Harmless(p) == p.type \notin {"PUBLISH", "PUBREL"}
HarmlessAnswer(p) == p.type \notin {"PUBACK", "PUBREC", "PUBCOMP"}

\* A step that has nothing to do with the publishes of the client.
LEMMA QuietStep ==
    ASSUME IInv, TypeOK',
           UNCHANGED <<callOf, nextMsgId, confirmed, stored>>,
           sock = "closed" => sock' = "closed",
           used'.calls = used.calls, used'.subs = used.subs,
           ClosedInv',
           \A p \in ToSet(c2s') : p \in ToSet(c2s) \/ Harmless(p),
           \A p \in ToSet(s2c') : p \in ToSet(s2c) \/ HarmlessAnswer(p),
           online' => received' \subseteq received /\ (online \/ received' = {})
    PROVE  IInv'
<1>1. \A p : Harmless(p) => SafeRequest(p)'
  BY DEF Harmless, SafeRequest
<1>2. \A p : HarmlessAnswer(p) => SafeAnswer(p)'
  BY DEF HarmlessAnswer, SafeAnswer
<1>3. ReceivedInv'
  BY StillSafe DEF IInv, ReceivedInv
<1>4. ConfirmedIsStored'
  BY DEF IInv, ConfirmedIsStored
<1> QED
  BY <1>1, <1>2, <1>3, <1>4, SafeStep

LEMMA AddQosCallbackIInv == IInv /\ TypeOK' /\ AddQosCallback => IInv'
<1> SUFFICES ASSUME IInv, TypeOK', AddQosCallback PROVE IInv'
  OBVIOUS
<1>1. UNCHANGED <<sock, nextMsgId, c2s, s2c, online, received, callOf, confirmed, stored, used>>
  BY DEF AddQosCallback, broker, outward
<1> QED
  BY <1>1, QuietStep DEF IInv, ClosedInv

\* disconnect(), wherever it is called.
LEMMA CloseIInv ==
    IInv /\ TypeOK' /\ (ConnectTimeout \/ Disconnect \/ LoopTimeout) => IInv'
<1> SUFFICES ASSUME IInv, TypeOK', ConnectTimeout \/ Disconnect \/ LoopTimeout PROVE IInv'
  OBVIOUS
<1>1. UNCHANGED <<nextMsgId, online, received, callOf, confirmed, stored, used>>
  BY DEF ConnectTimeout, Disconnect, LoopTimeout, broker, outward
<1>2. Close
  BY DEF ConnectTimeout, Disconnect, LoopTimeout
<1>3. /\ ToSet(c2s') \subseteq ToSet(c2s) \union {Control("DISCONNECT", 0)}
      /\ s2c' = <<>> /\ sock' = "closed"
  BY <1>2, CloseHolds DEF IInv, TypeOK, NetTypeOK
<1>4. Harmless(Control("DISCONNECT", 0))
  BY DEF Harmless, Control
<1> QED
  BY <1>1, <1>3, <1>4, QuietStep, HeldByEmpty DEF ClosedInv

LEMMA ConnectFailIInv == IInv /\ TypeOK' /\ ConnectFail => IInv'
<1> SUFFICES ASSUME IInv, TypeOK', ConnectFail PROVE IInv'
  OBVIOUS
<1>1. UNCHANGED <<nextMsgId, c2s, s2c, online, received, callOf, confirmed, stored, used>>
  BY DEF ConnectFail, broker, outward
<1>2. sock' = "closed" /\ s2c = <<>>
  BY DEF ConnectFail, IsConnected, IInv, TypeOK, ClientTypeOK, ClosedInv
<1> QED
  BY <1>1, <1>2, QuietStep DEF ClosedInv

LEMMA ConnectFinishIInv == IInv /\ TypeOK' /\ ConnectFinish => IInv'
<1> SUFFICES ASSUME IInv, TypeOK', ConnectFinish PROVE IInv'
  OBVIOUS
<1>1. UNCHANGED <<nextMsgId, online, received, callOf, confirmed, stored, used>>
  BY DEF ConnectFinish, broker, outward
<1>2. s2c /= <<>>
  BY DEF ConnectFinish
<1>3. CASE Close
  <2>1. /\ ToSet(c2s') \subseteq ToSet(c2s) \union {Control("DISCONNECT", 0)}
        /\ s2c' = <<>> /\ sock' = "closed"
    BY <1>3, CloseHolds DEF IInv, TypeOK, NetTypeOK
  <2>2. Harmless(Control("DISCONNECT", 0))
    BY DEF Harmless, Control
  <2> QED
    BY <1>1, <2>1, <2>2, QuietStep, HeldByEmpty DEF ClosedInv
<1>4. CASE s2c' = Tail(s2c) /\ UNCHANGED <<sock, c2s>>
  <2>1. ToSet(s2c') \subseteq ToSet(s2c) /\ sock /= "closed"
    BY <1>2, <1>4, Read DEF IInv, TypeOK, NetTypeOK, ClosedInv
  <2> QED
    BY <1>1, <1>4, <2>1, QuietStep DEF ClosedInv
<1> QED
  BY <1>3, <1>4 DEF ConnectFinish

LEMMA LoopIdleIInv == IInv /\ TypeOK' /\ LoopIdle => IInv'
<1> SUFFICES ASSUME IInv, TypeOK', LoopIdle PROVE IInv'
  OBVIOUS
<1>1. UNCHANGED <<sock, nextMsgId, s2c, online, received, callOf, confirmed, stored>>
  BY DEF LoopIdle, broker, outward
<1>2. PICK expired \in BOOLEAN : MayPing(expired) /\ c2s' = NetWrite(Ping(expired))
  BY DEF LoopIdle
<1>3. /\ used'.calls = used.calls /\ used'.subs = used.subs
      /\ Ping(expired) \in Seq(ClientPackets)
      /\ ToSet(Ping(expired)) \subseteq {Control("PINGREQ", 0)}
  BY <1>2, Pinged DEF IInv
<1>4. ToSet(c2s') \subseteq ToSet(c2s) \union {Control("PINGREQ", 0)}
  BY <1>2, <1>3, NetWriteHolds DEF IInv, TypeOK, NetTypeOK
<1>5. Harmless(Control("PINGREQ", 0))
  BY DEF Harmless, Control
<1> QED
  BY <1>1, <1>3, <1>4, <1>5, QuietStep DEF IInv, ClosedInv

LEMMA CallbackReturnIInv == IInv /\ TypeOK' /\ CallbackReturn => IInv'
<1> SUFFICES ASSUME IInv, TypeOK', CallbackReturn PROVE IInv'
  OBVIOUS
<1>1. UNCHANGED <<sock, nextMsgId, s2c, online, received, callOf, confirmed, stored, used>>
  BY DEF CallbackReturn, broker, outward
<1>2. Last(frames) \in Frames
  BY PopProperties DEF IInv, TypeOK, ClientTypeOK, CallbackReturn
<1>3. Last(frames) \in ClientPackets /\ Harmless(Last(frames))
  BY <1>2 DEF Frames, ClientPackets, ClientTypes, Harmless
<1>4. ToSet(c2s') \subseteq ToSet(c2s) \union {Last(frames)}
  <2>1. c2s' = NetWrite(<<Last(frames)>>)
    BY DEF CallbackReturn
  <2>2. <<Last(frames)>> \in Seq(ClientPackets)
    BY <1>3
  <2> QED
    BY <2>1, <2>2, NetWriteHolds, HeldByOne DEF IInv, TypeOK, NetTypeOK
<1> QED
  BY <1>1, <1>3, <1>4, QuietStep DEF IInv, ClosedInv

LEMMA DropIInv == IInv /\ TypeOK' /\ Drop => IInv'
<1> SUFFICES ASSUME IInv, TypeOK', Drop PROVE IInv'
  OBVIOUS
<1>1. UNCHANGED <<nextMsgId, received, callOf, confirmed, stored, used>>
  BY DEF Drop, outward
<1>2. PICK k \in 0..Len(s2c) : s2c' = SubSeq(s2c, 1, k)
  BY DEF Drop
<1>3. ToSet(s2c') \subseteq ToSet(s2c)
  BY <1>2, HeldByPrefix DEF IInv, TypeOK, NetTypeOK
<1>4. c2s' = <<>> /\ ~online' /\ (sock = "closed" <=> sock' = "closed")
  BY DEF Drop, IInv, TypeOK, ClientTypeOK
<1>5. ClosedInv'
  <2> SUFFICES ASSUME sock = "closed" PROVE s2c' = <<>>
    BY <1>4 DEF ClosedInv
  <2>1. s2c = <<>> /\ k = 0
    BY DEF IInv, ClosedInv
  <2> QED
    BY <1>2, <2>1
<1> QED
  BY <1>1, <1>3, <1>4, <1>5, QuietStep, HeldByEmpty

------------------------------------------------------------------------------
(* The broker *)

\* What the broker writes.
LEMMA ToClientStep ==
    ASSUME IInv, NEW p \in BrokerPackets, s2c' = ToClient(p), sock' = sock
    PROVE  ClosedInv' /\ ToSet(s2c') \subseteq ToSet(s2c) \union {p}
BY ToClientHolds DEF IInv, TypeOK, NetTypeOK, ClosedInv

LEMMA ReceivesHolds ==
    ASSUME IInv, NEW t, Receives(t)
    PROVE  /\ ToSet(c2s') \subseteq ToSet(c2s)
           /\ Head(c2s) \in ToSet(c2s) /\ SafeRequest(Head(c2s))
           /\ Head(c2s) \in ClientPackets /\ Head(c2s).type = t
           /\ Head(c2s).id \in MsgIds
BY Received DEF Receives, IInv, TypeOK, NetTypeOK, RequestInv

\* The broker does nothing about the publishes of the client.
LEMMA QuietBroker ==
    ASSUME IInv, TypeOK',
           UNCHANGED <<client, callOf, confirmed, stored>>,
           used'.calls = used.calls, used'.subs = used.subs,
           ToSet(c2s') \subseteq ToSet(c2s),
           \/ s2c' = s2c
           \/ \E p \in BrokerPackets : s2c' = ToClient(p) /\ HarmlessAnswer(p),
           online' => received' \subseteq received /\ (online \/ received' = {})
    PROVE  IInv'
<1>1. UNCHANGED <<sock, nextMsgId>>
  BY DEF client
<1>2. ClosedInv' /\ \A p \in ToSet(s2c') : p \in ToSet(s2c) \/ HarmlessAnswer(p)
  <2>1. CASE s2c' = s2c
    BY <1>1, <2>1 DEF IInv, ClosedInv
  <2>2. CASE \E p \in BrokerPackets : s2c' = ToClient(p) /\ HarmlessAnswer(p)
    BY <1>1, <2>2, ToClientStep
  <2> QED
    BY <2>1, <2>2
<1> QED
  BY <1>1, <1>2, QuietStep

LEMMA BrokerSessionIInv ==
    CleanSession /\ IInv /\ TypeOK' /\ (BrokerAccept \/ BrokerRefuse) => IInv'
<1> SUFFICES ASSUME CleanSession, IInv, TypeOK', BrokerAccept \/ BrokerRefuse PROVE IInv'
  OBVIOUS
<1>1. UNCHANGED <<client, callOf, confirmed, stored, used>> /\ Receives("CONNECT")
  BY DEF BrokerAccept, BrokerRefuse, BrokerKeeps
<1>2. \E p \in BrokerPackets : s2c' = ToClient(p) /\ HarmlessAnswer(p)
  <2>1. /\ Control("CONNACK", 0) \in BrokerPackets /\ HarmlessAnswer(Control("CONNACK", 0))
        /\ Control("CONNACK", 1) \in BrokerPackets /\ HarmlessAnswer(Control("CONNACK", 1))
    BY BrokerPacketType, ClientPacketType DEF BrokerTypes, HarmlessAnswer, Control
  <2> QED
    BY <2>1 DEF BrokerAccept, BrokerRefuse
<1>3. online' => received' \subseteq received /\ (online \/ received' = {})
  BY DEF BrokerAccept, BrokerRefuse, broker
<1> QED
  BY <1>1, <1>2, <1>3, ReceivesHolds, QuietBroker

LEMMA BrokerIgnoreIInv == IInv /\ TypeOK' /\ BrokerIgnore => IInv'
<1> SUFFICES ASSUME IInv, TypeOK', BrokerIgnore PROVE IInv'
  OBVIOUS
<1>1. UNCHANGED <<client, callOf, confirmed, stored, used, s2c, online, received>>
  BY DEF BrokerIgnore, BrokerKeeps, broker
<1>2. ToSet(c2s') \subseteq ToSet(c2s)
  BY Received DEF BrokerIgnore, IInv, TypeOK, NetTypeOK
<1> QED
  BY <1>1, <1>2, QuietBroker

\* A publish() is stored before it is answered, unless it bears an id whose
\* publish() is stored already.
LEMMA BrokerStoreIInv == IInv /\ TypeOK' /\ BrokerStore => IInv'
<1> SUFFICES ASSUME IInv, TypeOK', BrokerStore PROVE IInv'
  OBVIOUS
<1>0. PICK p : p = Head(c2s)
  OBVIOUS
<1> DEFINE repeated == p.qos = 2 /\ p.id \in received
<1>1. UNCHANGED <<sock, nextMsgId, callOf, confirmed, used, online>>
  BY DEF BrokerStore, BrokerKeeps, client
<1>2. /\ ToSet(c2s') \subseteq ToSet(c2s) /\ SafeRequest(p) /\ p \in ClientPackets
      /\ p.type = "PUBLISH" /\ p.id \in MsgIds
  BY <1>0, ReceivesHolds DEF BrokerStore
<1>3. p.qos \in 0..2
  BY <1>2 DEF ClientPackets, ClientTypes
<1>4. /\ online
      /\ stored' = IF repeated THEN stored ELSE stored \union {p.body}
      /\ received' = IF p.qos = 2 THEN received \union {p.id} ELSE received
      /\ s2c' = CASE p.qos = 0 -> s2c
                  [] p.qos = 1 -> ToClient(Control("PUBACK", p.id))
                  [] p.qos = 2 -> ToClient(Control("PUBREC", p.id))
  BY <1>0 DEF BrokerStore
<1>5. stored \subseteq stored'
  BY <1>4
<1>6. p.qos > 0 => Given(p.id)' /\ SafeId(p.id)'
  <2>1. SUFFICES ASSUME p.qos > 0 PROVE Given(p.id)' /\ SafeId(p.id)'
    OBVIOUS
  <2>2. Given(p.id)' /\ callOf[p.id] \in {0, p.body}
    BY <1>1, <1>2, <2>1 DEF SafeRequest, Given
  <2>3. CASE repeated
    BY <1>4, <1>1, <2>2, <2>3, StillSafe DEF IInv, ReceivedInv, SafeId
  <2>4. CASE ~repeated
    BY <1>1, <1>4, <2>2, <2>4 DEF SafeId
  <2> QED
    BY <2>2, <2>3, <2>4
<1>7. ClosedInv' /\ \A a \in ToSet(s2c') : a \in ToSet(s2c) \/ SafeAnswer(a)'
  <2>1. CASE p.qos = 0
    <3>1. s2c' = s2c
      BY <1>4, <2>1
    <3> QED
      BY <1>1, <3>1 DEF IInv, ClosedInv
  <2>2. CASE p.qos > 0
    <3>1. PICK t \in {"PUBACK", "PUBREC"} : s2c' = ToClient(Control(t, p.id))
      BY <1>3, <1>4, <2>2
    <3>2. Control(t, p.id) \in BrokerPackets
      BY <1>2, BrokerPacketType DEF BrokerTypes
    <3>3. SafeAnswer(Control(t, p.id))'
      BY <1>6, <2>2 DEF SafeAnswer, Control
    <3> QED
      BY <1>1, <3>1, <3>2, <3>3, ToClientStep
  <2> QED
    BY <1>3, <2>1, <2>2
<1>8. ReceivedInv'
  <2>1. \A i \in received : Given(i)' /\ SafeId(i)'
    BY <1>1, <1>4, <1>5, StillSafe DEF IInv, ReceivedInv
  <2> QED
    BY <1>3, <1>4, <1>6, <2>1 DEF ReceivedInv
<1>9. ConfirmedIsStored'
  BY <1>1, <1>5 DEF IInv, ConfirmedIsStored
<1> QED
  BY <1>1, <1>2, <1>5, <1>7, <1>8, <1>9, SafeStep

LEMMA BrokerReleaseIInv == IInv /\ TypeOK' /\ BrokerRelease => IInv'
<1> SUFFICES ASSUME IInv, TypeOK', BrokerRelease PROVE IInv'
  OBVIOUS
<1>0. PICK p : p = Head(c2s)
  OBVIOUS
<1>1. UNCHANGED <<sock, nextMsgId, callOf, confirmed, stored, used, online>>
  BY DEF BrokerRelease, BrokerKeeps, client
<1>2. /\ ToSet(c2s') \subseteq ToSet(c2s) /\ SafeRequest(p)
      /\ p.type = "PUBREL" /\ p.id \in MsgIds
  BY <1>0, ReceivesHolds DEF BrokerRelease
<1>3. received' \subseteq received /\ s2c' = ToClient(Control("PUBCOMP", p.id))
  BY <1>0 DEF BrokerRelease
<1>4. Given(p.id)' /\ SafeId(p.id)'
  BY <1>1, <1>2 DEF SafeRequest, Given, SafeId
<1>5. ClosedInv' /\ \A a \in ToSet(s2c') : a \in ToSet(s2c) \/ SafeAnswer(a)'
  <2>1. Control("PUBCOMP", p.id) \in BrokerPackets
    BY <1>2, BrokerPacketType DEF BrokerTypes
  <2>2. SafeAnswer(Control("PUBCOMP", p.id))'
    BY <1>4 DEF SafeAnswer, Control
  <2> QED
    BY <1>1, <1>3, <2>1, <2>2, ToClientStep
<1>6. ReceivedInv'
  BY <1>1, <1>3, StillSafe DEF IInv, ReceivedInv
<1>7. ConfirmedIsStored'
  BY <1>1 DEF IInv, ConfirmedIsStored
<1> QED
  BY <1>1, <1>2, <1>5, <1>6, <1>7, SafeStep

\* The rest of what the broker reads.
LEMMA BrokerReadIInv ==
    ASSUME IInv, TypeOK',
           \/ BrokerPubrec
           \/ BrokerSettle("PUBACK")
           \/ BrokerSettle("PUBCOMP")
           \/ BrokerFilter("SUBSCRIBE", "SUBACK")
           \/ BrokerFilter("UNSUBSCRIBE", "UNSUBACK")
           \/ BrokerPingreq
           \/ BrokerPingresp
           \/ BrokerDisconnect
    PROVE  IInv'
<1>1. UNCHANGED <<client, callOf, confirmed, stored, used, received>>
  BY DEF BrokerPubrec, BrokerSettle, BrokerFilter, BrokerPingreq, BrokerPingresp,
     BrokerDisconnect, BrokerKeeps, broker
<1>2. online /\ \E t : Receives(t)
  BY DEF BrokerPubrec, BrokerSettle, BrokerFilter, BrokerPingreq, BrokerPingresp,
     BrokerDisconnect
<1>3. ToSet(c2s') \subseteq ToSet(c2s) /\ Head(c2s).id \in MsgIds
  BY <1>2, ReceivesHolds
<1>4. \/ s2c' = s2c
      \/ \E t \in {"PUBREL", "SUBACK", "UNSUBACK", "PINGRESP"}, id \in MsgIds :
            s2c' = ToClient(Control(t, id))
  BY <1>3, ClientPacketType DEF BrokerPubrec, BrokerSettle, BrokerFilter, BrokerPingreq,
     BrokerPingresp, BrokerDisconnect
<1>5. \A t \in {"PUBREL", "SUBACK", "UNSUBACK", "PINGRESP"}, id \in MsgIds :
        Control(t, id) \in BrokerPackets /\ HarmlessAnswer(Control(t, id))
  BY BrokerPacketType DEF BrokerTypes, HarmlessAnswer, Control
<1> QED
  BY <1>1, <1>2, <1>3, <1>4, <1>5, QuietBroker

\* What the broker sends of its own: never an acknowledgment.
LEMMA BrokerSendIInv == IInv /\ TypeOK' /\ BrokerSend => IInv'
<1> SUFFICES ASSUME IInv, TypeOK', BrokerSend PROVE IInv'
  OBVIOUS
<1> USE SessionAssumption
<1>1. /\ UNCHANGED <<client, callOf, confirmed, stored, c2s, online, received>>
      /\ used'.calls = used.calls /\ used'.subs = used.subs
  <2>1. CASE (\E m \in InMsgs : BrokerPublish(m)) \/ (\E f \in inflight : BrokerResend(f))
    BY <2>1 DEF BrokerPublish, BrokerResend, outward
  <2>2. CASE BrokerPing
    <3>1. used' = [used EXCEPT !.pings = @ + 1] /\ used \in Budget
      BY <2>2 DEF BrokerPing, IInv, TypeOK, RecordTypeOK
    <3>2. used'.calls = used.calls /\ used'.subs = used.subs
      BY <3>1 DEF Budget
    <3> QED
      BY <2>2, <3>2 DEF BrokerPing, outward, broker
  <2> QED
    BY <2>1, <2>2 DEF BrokerSend
<1>2. \E a \in BrokerPackets : s2c' = ToClient(a) /\ HarmlessAnswer(a)
  <2>1. CASE \E m \in InMsgs : BrokerPublish(m)
    <3>1. PICK m \in InMsgs : BrokerPublish(m)
      BY <2>1
    <3>2. PICK q \in 0..2, id \in MsgIds : s2c' = ToClient(Publish(q, id, m))
      <4>1. 0 \in MsgIds /\ BrokerIds \subseteq MsgIds /\ InQos[m] \in 0..2
        BY ClientPacketType DEF MsgIds
      <4>2. CASE InQos[m] = 0
        BY <3>1, <4>1, <4>2 DEF BrokerPublish
      <4>3. CASE InQos[m] /= 0
        BY <3>1, <4>1, <4>3 DEF BrokerPublish
      <4> QED
        BY <4>2, <4>3
    <3> QED
      BY <3>2, BrokerPacketType DEF HarmlessAnswer, Publish
  <2>2. CASE \E f \in inflight : BrokerResend(f)
    <3>1. PICK f \in inflight : BrokerResend(f)
      BY <2>2
    <3>2. f.id \in MsgIds /\ f.msg \in InMsgs /\ InQos[f.msg] \in 0..2
      <4>1. f \in Flights
        BY DEF IInv, TypeOK, BrokerTypeOK
      <4>2. f.id \in BrokerIds /\ f.msg \in InMsgs /\ BrokerIds \subseteq MsgIds
        BY <4>1 DEF Flights, MsgIds
      <4> QED
        BY <4>2
    <3>3. /\ Publish(InQos[f.msg], f.id, f.msg) \in BrokerPackets
          /\ Control("PUBREL", f.id) \in BrokerPackets
      BY <3>2, BrokerPacketType DEF BrokerTypes
    <3>4. /\ HarmlessAnswer(Publish(InQos[f.msg], f.id, f.msg))
          /\ HarmlessAnswer(Control("PUBREL", f.id))
      BY DEF HarmlessAnswer, Publish, Control
    <3> QED
      BY <3>1, <3>3, <3>4 DEF BrokerResend
  <2>3. CASE BrokerPing
    <3>1. Control("PINGREQ", 0) \in BrokerPackets /\ HarmlessAnswer(Control("PINGREQ", 0))
      BY BrokerPacketType, ClientPacketType DEF BrokerTypes, HarmlessAnswer, Control
    <3> QED
      BY <2>3, <3>1 DEF BrokerPing
  <2> QED
    BY <2>1, <2>2, <2>3 DEF BrokerSend
<1> QED
  BY <1>1, <1>2, QuietBroker

------------------------------------------------------------------------------
(* loop() reading a packet, and the calls that give or forget ids *)

\* An acknowledgment is reported only for a safe id, and a PUBREC answered
\* with a PUBREL that bears it.
LEMMA LoopReadIInv == IInv /\ TypeOK' /\ LoopRead => IInv'
<1> SUFFICES ASSUME IInv, TypeOK', LoopRead PROVE IInv'
  OBVIOUS
<1>0. PICK p : p = Head(s2c)
  OBVIOUS
<1>1. UNCHANGED <<sock, nextMsgId, online, received, callOf, stored>>
  BY DEF LoopRead, broker
<1>2. /\ p \in BrokerPackets /\ p \in ToSet(s2c) /\ p.id \in MsgIds
      /\ ToSet(s2c') \subseteq ToSet(s2c)
      /\ s2c /= <<>>
  BY <1>0, Read DEF LoopRead, IInv, TypeOK, NetTypeOK
<1>3. SafeAnswer(p)
  BY <1>2 DEF IInv, AnswerInv
<1>4. PICK expired \in BOOLEAN :
        MayPing(expired) /\ c2s' = NetWrite(Ping(expired) \o Reply(p))
  BY <1>0 DEF LoopRead
<1>5. /\ used'.calls = used.calls /\ used'.subs = used.subs
      /\ Ping(expired) \in Seq(ClientPackets)
      /\ ToSet(Ping(expired)) \subseteq {Control("PINGREQ", 0)}
  BY <1>4, Pinged DEF IInv
<1>6. /\ Reply(p) \in Seq(ClientPackets)
      /\ ToSet(Reply(p)) \subseteq
            {Control("PINGRESP", 0)}
                \union (IF p.type = "PUBREC" THEN {Control("PUBREL", p.id)} ELSE {})
                \union (IF p.type = "PUBREL" THEN {Control("PUBCOMP", p.id)} ELSE {})
  BY <1>2, Answered DEF IInv
<1>7. \A a \in ToSet(c2s') : a \in ToSet(c2s) \/ SafeRequest(a)'
  <2>1. /\ Ping(expired) \o Reply(p) \in Seq(ClientPackets)
        /\ ToSet(Ping(expired) \o Reply(p)) = ToSet(Ping(expired)) \union ToSet(Reply(p))
    BY <1>5, <1>6, HeldByConcat
  <2>2. ToSet(c2s') \subseteq ToSet(c2s) \union ToSet(Ping(expired)) \union ToSet(Reply(p))
    BY <1>4, <2>1, NetWriteHolds DEF IInv, TypeOK, NetTypeOK
  <2>3. \A t \in {"PINGREQ", "PINGRESP", "PUBCOMP"} : \A id : SafeRequest(Control(t, id))'
    BY DEF SafeRequest, Control
  <2>4. p.type = "PUBREC" => SafeRequest(Control("PUBREL", p.id))'
    <3>1. p.type = "PUBREC" => Given(p.id)' /\ SafeId(p.id)'
      BY <1>1, <1>3 DEF SafeAnswer, Given, SafeId
    <3> QED
      BY <3>1 DEF SafeRequest, Control
  <2> QED
    BY <1>5, <1>6, <2>2, <2>3, <2>4
<1>8. ConfirmedIsStored'
  <2>1. Report(p)
    BY <1>0 DEF LoopRead
  <2>2. \/ confirmed' = confirmed
        \/ /\ p.type \in {"PUBACK", "PUBCOMP"} /\ callOf[p.id] > 0
           /\ confirmed' = confirmed \union {callOf[p.id]}
    BY <2>1, Zenon DEF Report
  <2> QED
    BY <1>1, <1>3, <2>2 DEF IInv, ConfirmedIsStored, SafeAnswer, SafeId
<1>9. ReceivedInv'
  BY <1>1, StillSafe DEF IInv, ReceivedInv
<1>10. ClosedInv'
  BY <1>1, <1>2 DEF IInv, ClosedInv
<1> QED
  BY <1>1, <1>2, <1>5, <1>7, <1>8, <1>9, <1>10, SafeStep

\* A clean session starts with no id given and nothing on the wire.
LEMMA ConnectStartIInv == CleanSession /\ IInv /\ TypeOK' /\ ConnectStart => IInv'
<1> SUFFICES ASSUME CleanSession, IInv, TypeOK', ConnectStart PROVE IInv'
  OBVIOUS
<1>1. /\ sock' = "open" /\ nextMsgId' = 1 /\ c2s' = <<Control("CONNECT", 0)>>
      /\ s2c' = <<>> /\ ~online' /\ callOf' = NoCalls
      /\ UNCHANGED <<stored, confirmed>>
  BY DEF ConnectStart, outward
<1>2. CounterInv'
  <2>1. used'.calls \in Nat /\ used'.subs \in Nat
    BY SessionAssumption DEF TypeOK, RecordTypeOK, Budget
  <2>2. \A i \in MsgIds : callOf'[i] = 0
    BY <1>1 DEF NoCalls
  <2> QED
    BY <1>1, <2>1, <2>2 DEF CounterInv
<1>3. RequestInv'
  BY <1>1, HeldByOne DEF RequestInv, SafeRequest, Control
<1>4. ClosedInv' /\ AnswerInv' /\ ReceivedInv'
  BY <1>1, HeldByEmpty DEF ClosedInv, AnswerInv, ReceivedInv
<1>5. ConfirmedIsStored'
  BY <1>1 DEF IInv, ConfirmedIsStored
<1> QED
  BY <1>2, <1>3, <1>4, <1>5 DEF IInv

\* After a reset the application knows no id.
LEMMA ResetIInv == IInv /\ TypeOK' /\ Reset => IInv'
<1> SUFFICES ASSUME IInv, TypeOK', Reset PROVE IInv'
  OBVIOUS
<1>1. /\ sock' = "closed" /\ s2c' = <<>> /\ callOf' = NoCalls
      /\ UNCHANGED <<c2s, online, received, stored, confirmed>>
  BY DEF Reset, broker, outward
<1>2. \A i \in MsgIds : Given(i)' /\ SafeId(i)' /\ callOf'[i] = 0
  BY <1>1 DEF Given, SafeId, NoCalls
<1>3. RequestInv'
  <2> SUFFICES ASSUME NEW p \in ToSet(c2s) PROVE SafeRequest(p)'
    BY <1>1 DEF RequestInv
  <2>1. p.id \in MsgIds
    <3>1. p \in ClientPackets
      BY HeldByIndex DEF IInv, TypeOK, NetTypeOK
    <3> QED
      BY <3>1 DEF ClientPackets
  <2> QED
    BY <1>2, <2>1 DEF SafeRequest
<1>4. ReceivedInv'
  BY <1>1, <1>2 DEF ReceivedInv, IInv, TypeOK, BrokerTypeOK
<1>5. ClosedInv' /\ CounterInv' /\ AnswerInv'
  BY <1>1, HeldByEmpty DEF ClosedInv, CounterInv, AnswerInv
<1>6. ConfirmedIsStored'
  BY <1>1 DEF IInv, ConfirmedIsStored
<1> QED
  BY <1>3, <1>4, <1>5, <1>6 DEF IInv

\* The ids of one connection do not reach IdMod.
LEMMA NextIds ==
    ASSUME IdsSuffice, IInv, sock /= "closed"
    PROVE  /\ nextMsgId \in Nat
           /\ used.calls < MaxCalls =>
                /\ NewMsgId = nextMsgId + 1
                /\ (NewMsgId + 1) % IdMod = nextMsgId + 2
           /\ used.subs < MaxSubs => (nextMsgId + 1) % IdMod = nextMsgId + 1
<1> USE SessionAssumption
<1>1. \A a \in Nat : a < IdMod => a % IdMod = a
  OBVIOUS
<1>2. /\ nextMsgId \in Nat /\ used.calls \in 0..MaxCalls /\ used.subs \in 0..MaxSubs
      /\ nextMsgId <= 1 + 2 * used.calls + used.subs
  BY DEF IInv, TypeOK, ClientTypeOK, RecordTypeOK, Budget, MsgIds, CounterInv
<1>3. used.calls < MaxCalls => nextMsgId + 1 < IdMod /\ nextMsgId + 2 < IdMod
  BY <1>2 DEF IdsSuffice
<1>4. used.subs < MaxSubs => nextMsgId + 1 < IdMod
  BY <1>2 DEF IdsSuffice
<1>5. used.calls < MaxCalls => NewMsgId = nextMsgId + 1
  BY <1>1, <1>2, <1>3 DEF NewMsgId
<1>6. used.calls < MaxCalls => (nextMsgId + 2) % IdMod = nextMsgId + 2
  BY <1>1, <1>2, <1>3
<1>7. used.subs < MaxSubs => (nextMsgId + 1) % IdMod = nextMsgId + 1
  BY <1>1, <1>2, <1>4
<1>8. nextMsgId + 1 + 1 = nextMsgId + 2
  BY <1>2
<1> QED
  BY <1>2, <1>5, <1>6, <1>7, <1>8

\* The id of a new publish() is on no packet under way and not known to the
\* broker: no answer can be taken for its own before the broker stored it.
LEMMA PublishCallIInv ==
    ASSUME IdsSuffice, IInv, TypeOK',
           NEW q \in 0..2, NEW wantId \in WantIds, PublishCall(q, wantId)
    PROVE  IInv'
<1>0. PICK n, id : n = used.calls + 1 /\ id = IF q = 0 THEN 0 ELSE NewMsgId
  OBVIOUS
<1>1. /\ sock /= "closed" /\ sock' = sock /\ used.calls < MaxCalls
      /\ UNCHANGED <<s2c, online, received, stored, confirmed>>
  BY DEF PublishCall, IsConnected, broker
<1>2. /\ used' = [used EXCEPT !.calls = n]
      /\ c2s' = NetWrite(<<Publish(q, id, n)>>)
      /\ nextMsgId' = IF q = 0 THEN nextMsgId ELSE IF wantId THEN (id + 1) % IdMod ELSE id
      /\ callOf' = IF q > 0 /\ wantId THEN [callOf EXCEPT ![id] = n] ELSE callOf
  BY <1>0 DEF PublishCall
<1>3. nextMsgId \in Nat /\ (q > 0 => id = nextMsgId + 1 /\ (id + 1) % IdMod = nextMsgId + 2)
  BY <1>0, <1>1, NextIds
<1>4. n \in Calls /\ n > 0 /\ id \in MsgIds /\ callOf \in [MsgIds -> 0..MaxCalls]
  <2>1. n \in Calls
    BY <1>0, <1>1, Budgeted DEF IInv, TypeOK, RecordTypeOK
  <2>2. nextMsgId + 1 \in Nat
    BY <1>3
  <2>3. NewMsgId \in MsgIds
    BY <2>2, SessionAssumption DEF NewMsgId, MsgIds
  <2> QED
    BY <1>0, <2>1, <2>3, ClientPacketType DEF Calls, IInv, TypeOK, RecordTypeOK
<1>5. nextMsgId' >= nextMsgId /\ nextMsgId' <= nextMsgId + 2
  BY <1>2, <1>3
<1>6. \A i \in MsgIds : i <= nextMsgId => i <= nextMsgId' /\ callOf'[i] = callOf[i]
  BY <1>2, <1>3, <1>4, <1>5 DEF MsgIds
<1>7. \A i \in MsgIds : i <= nextMsgId /\ SafeId(i) => Given(i)' /\ SafeId(i)'
  BY <1>1, <1>6 DEF SafeId, Given
<1>8. CounterInv'
  <2>1. used' \in Budget /\ used'.calls = used.calls + 1 /\ used'.subs = used.subs
    BY <1>0, <1>2 DEF TypeOK, IInv, RecordTypeOK, Budget
  <2>2. nextMsgId <= 1 + 2 * used.calls + used.subs /\ used.calls \in Nat /\ used.subs \in Nat
    BY <1>1, SessionAssumption DEF IInv, CounterInv, TypeOK, RecordTypeOK, Budget
  <2>3. nextMsgId' <= 1 + 2 * used'.calls + used'.subs
    BY <1>2, <1>3, <1>5, <2>1, <2>2
  <2>4. ASSUME NEW i \in MsgIds, i > nextMsgId' PROVE callOf'[i] = 0
    <3>1. i > nextMsgId
      BY <1>2, <1>3, <1>5, <2>4 DEF MsgIds
    <3>2. q > 0 => i /= id
      BY <1>2, <1>3, <2>4 DEF MsgIds
    <3> QED
      BY <1>1, <1>2, <1>4, <3>1, <3>2 DEF IInv, CounterInv
  <2> QED
    BY <2>3, <2>4 DEF CounterInv
<1>9. SafeRequest(Publish(q, id, n))'
  <2> SUFFICES ASSUME q > 0 PROVE Given(id)' /\ callOf'[id] \in {0, n}
    BY DEF SafeRequest, Publish
  <2>1. id > nextMsgId /\ id <= nextMsgId'
    BY <1>2, <1>3
  <2>2. callOf[id] = 0
    BY <1>1, <1>4, <2>1 DEF IInv, CounterInv
  <2> QED
    BY <1>2, <1>4, <2>1, <2>2 DEF Given
<1>10. RequestInv'
  <2>1. <<Publish(q, id, n)>> \in Seq(ClientPackets)
    BY <1>4, ClientPacketType
  <2>2. ToSet(c2s') \subseteq ToSet(c2s) \union {Publish(q, id, n)}
    BY <1>2, <2>1, NetWriteHolds, HeldByOne DEF IInv, TypeOK, NetTypeOK
  <2>3. ASSUME NEW p \in ToSet(c2s) PROVE SafeRequest(p)'
    <3>1. p.id \in MsgIds /\ SafeRequest(p)
      <4>1. p \in ClientPackets
        BY HeldByIndex DEF IInv, TypeOK, NetTypeOK
      <4> QED
        BY <4>1 DEF ClientPackets, IInv, RequestInv
    <3>2. CASE p.type = "PUBLISH" /\ p.qos > 0
      <4>1. p.id <= nextMsgId /\ callOf[p.id] \in {0, p.body}
        BY <1>1, <3>1, <3>2 DEF SafeRequest, Given
      <4>2. Given(p.id)' /\ callOf'[p.id] \in {0, p.body}
        BY <1>6, <3>1, <4>1 DEF Given
      <4> QED
        BY <3>2, <4>2 DEF SafeRequest
    <3>3. CASE p.type = "PUBREL"
      <4>1. p.id <= nextMsgId /\ SafeId(p.id)
        BY <1>1, <3>1, <3>3 DEF SafeRequest, Given
      <4> QED
        BY <1>7, <3>1, <3>3, <4>1 DEF SafeRequest
    <3> QED
      BY <3>2, <3>3 DEF SafeRequest
  <2> QED
    BY <1>9, <2>2, <2>3 DEF RequestInv
<1>11. AnswerInv'
  <2> SUFFICES ASSUME NEW p \in ToSet(s2c) PROVE SafeAnswer(p)'
    BY <1>1 DEF AnswerInv
  <2>1. p.id \in MsgIds /\ SafeAnswer(p)
    <3>1. p \in BrokerPackets
      BY HeldByIndex DEF IInv, TypeOK, NetTypeOK
    <3> QED
      BY <3>1 DEF BrokerPackets, IInv, AnswerInv
  <2> QED
    BY <1>1, <1>7, <2>1 DEF SafeAnswer, Given
<1>12. ReceivedInv'
  <2>1. received \subseteq MsgIds
    BY DEF IInv, TypeOK, BrokerTypeOK
  <2> QED
    BY <1>1, <1>7, <2>1 DEF IInv, ReceivedInv, Given
<1>13. ClosedInv' /\ ConfirmedIsStored'
  BY <1>1 DEF IInv, ClosedInv, ConfirmedIsStored
<1> QED
  BY <1>8, <1>10, <1>11, <1>12, <1>13 DEF IInv

\* subscribe() and unsubscribe() take an id out of the same count.
LEMMA FilterCallIInv ==
    ASSUME IdsSuffice, IInv, TypeOK',
           NEW t \in {"SUBSCRIBE", "UNSUBSCRIBE"}, FilterCall(t)
    PROVE  IInv'
<1>1. /\ sock /= "closed" /\ sock' = sock /\ used.subs < MaxSubs
      /\ UNCHANGED <<s2c, online, received, callOf, stored, confirmed>>
      /\ used' = [used EXCEPT !.subs = @ + 1]
  BY DEF FilterCall, IsConnected, broker, outward
<1>2. nextMsgId \in Nat /\ (nextMsgId + 1) % IdMod = nextMsgId + 1
  BY <1>1, NextIds
<1>3. nextMsgId' = nextMsgId + 1 /\ c2s' = NetWrite(<<Control(t, nextMsgId + 1)>>)
  BY <1>2 DEF FilterCall
<1>4. \A i \in MsgIds : Given(i) => Given(i)'
  BY <1>1, <1>2, <1>3 DEF Given, MsgIds
<1>5. \A i : SafeId(i) => SafeId(i)'
  BY <1>1 DEF SafeId
<1>6. CounterInv'
  <2>1. used'.calls = used.calls /\ used'.subs = used.subs + 1
    BY <1>1 DEF IInv, TypeOK, RecordTypeOK, Budget
  <2>2. nextMsgId <= 1 + 2 * used.calls + used.subs /\ used.calls \in Nat /\ used.subs \in Nat
    BY <1>1, SessionAssumption DEF IInv, CounterInv, TypeOK, RecordTypeOK, Budget
  <2>3. nextMsgId' <= 1 + 2 * used'.calls + used'.subs
    BY <1>2, <1>3, <2>1, <2>2
  <2>4. \A i \in MsgIds : i > nextMsgId' => i > nextMsgId
    BY <1>2, <1>3 DEF MsgIds
  <2> QED
    BY <1>1, <2>3, <2>4 DEF IInv, CounterInv
<1>7. RequestInv'
  <2>1. nextMsgId + 1 \in MsgIds
    BY <1>3 DEF TypeOK, ClientTypeOK
  <2>2. Control(t, nextMsgId + 1) \in ClientPackets
    BY <2>1, ClientPacketType DEF ClientTypes
  <2>3. <<Control(t, nextMsgId + 1)>> \in Seq(ClientPackets)
    BY <2>2
  <2>4. ToSet(c2s') \subseteq ToSet(c2s) \union {Control(t, nextMsgId + 1)}
    BY <1>3, <2>3, NetWriteHolds, HeldByOne DEF IInv, TypeOK, NetTypeOK
  <2>5. ASSUME NEW p \in ToSet(c2s') PROVE SafeRequest(p)'
    <3>1. CASE p \in ToSet(c2s)
      <4>1. p \in ClientPackets
        BY <3>1, HeldByIndex DEF IInv, TypeOK, NetTypeOK
      <4>2. p.id \in MsgIds /\ SafeRequest(p)
        BY <3>1, <4>1 DEF ClientPackets, IInv, RequestInv
      <4> QED
        BY <1>1, <1>4, <1>5, <4>2 DEF SafeRequest
    <3>2. CASE p = Control(t, nextMsgId + 1)
      <4>1. p.type = t
        BY <3>2 DEF Control
      <4> QED
        BY <4>1 DEF SafeRequest
    <3> QED
      BY <2>4, <3>1, <3>2
  <2> QED
    BY <2>5 DEF RequestInv
<1>8. AnswerInv'
  <2> SUFFICES ASSUME NEW p \in ToSet(s2c) PROVE SafeAnswer(p)'
    BY <1>1 DEF AnswerInv
  <2>1. p \in BrokerPackets
    BY HeldByIndex DEF IInv, TypeOK, NetTypeOK
  <2>2. p.id \in MsgIds /\ SafeAnswer(p)
    BY <2>1 DEF BrokerPackets, IInv, AnswerInv
  <2> QED
    BY <1>4, <1>5, <2>2 DEF SafeAnswer
<1>9. ReceivedInv'
  <2>1. received \subseteq MsgIds
    BY DEF IInv, TypeOK, BrokerTypeOK
  <2> QED
    BY <1>1, <1>4, <1>5, <2>1 DEF IInv, ReceivedInv
<1>10. ClosedInv' /\ ConfirmedIsStored'
  BY <1>1 DEF IInv, ClosedInv, ConfirmedIsStored
<1> QED
  BY <1>6, <1>7, <1>8, <1>9, <1>10 DEF IInv

------------------------------------------------------------------------------
\* One step per action of Next.
LEMMA NextIInv ==
    ASSUME CleanSession, IdsSuffice, IInv, [Next]_vars
    PROVE  IInv'
<1>0. TypeOK'
  BY NextTypeOK DEF IInv
<1>1. CASE ApplicationStep
  <2>1. CASE AddQosCallback \/ ConnectStart \/ ConnectFail \/ Disconnect
    BY <1>0, <2>1, AddQosCallbackIInv, ConnectStartIInv, ConnectFailIInv, CloseIInv
  <2>2. CASE \E q \in 0..2, wantId \in WantIds : PublishCall(q, wantId)
    BY <1>0, <2>2, PublishCallIInv
  <2>3. CASE Subscribe \/ Unsubscribe
    BY <1>0, <2>3, FilterCallIInv DEF Subscribe, Unsubscribe
  <2> QED
    BY <1>1, <2>1, <2>2, <2>3 DEF ApplicationStep
<1>2. CASE ConnectEnd \/ LoopTimeout
  BY <1>0, <1>2, ConnectFinishIInv, CloseIInv DEF ConnectEnd
<1>3. CASE LoopIdle \/ LoopRead \/ CallbackReturn
  BY <1>0, <1>3, LoopIdleIInv, LoopReadIInv, CallbackReturnIInv
<1>4. CASE Drop \/ Reset
  BY <1>0, <1>4, DropIInv, ResetIInv
<1>5. CASE BrokerReceive
  <2>1. CASE BrokerAccept \/ BrokerRefuse \/ BrokerIgnore
    BY <1>0, <2>1, BrokerSessionIInv, BrokerIgnoreIInv
  <2>2. CASE BrokerStore \/ BrokerRelease
    BY <1>0, <2>2, BrokerStoreIInv, BrokerReleaseIInv
  <2>3. CASE ~(BrokerAccept \/ BrokerRefuse \/ BrokerIgnore \/ BrokerStore \/ BrokerRelease)
    BY <1>0, <1>5, <2>3, BrokerReadIInv DEF BrokerReceive
  <2> QED
    BY <2>1, <2>2, <2>3
<1>6. CASE BrokerSend
  BY <1>0, <1>6, BrokerSendIInv
<1>7. CASE UNCHANGED vars
  <2>1. UNCHANGED <<sock, nextMsgId, c2s, s2c, online, received, callOf, confirmed,
                    stored, used>>
    BY <1>7 DEF vars, client, broker, outward
  <2> QED
    BY <1>0, <2>1, QuietStep DEF IInv, ClosedInv
<1> QED
  BY <1>1, <1>2, <1>3, <1>4, <1>5, <1>6, <1>7 DEF Next

LEMMA ConfirmInvariant == ASSUME CleanSession, IdsSuffice PROVE Spec => []IInv
<1>1. Init => IInv
  BY InitIInv
<1>2. IInv /\ [Next]_vars => IInv'
  BY NextIInv
<1> QED
  BY <1>1, <1>2, PTL DEF Spec

\* With clean sessions and enough ids, qoscallback reports only publishes the
\* broker has stored, however connections break, the device resets and answers
\* are lost (publish(), connect() and the PUBACK, PUBREC and PUBCOMP branches
\* of loop()).
THEOREM ReportedIsStored ==
    ASSUME CleanSession, IdsSuffice
    PROVE  Spec => []ConfirmedIsStored
<1>1. IInv => ConfirmedIsStored
  BY DEF IInv
<1> QED
  BY <1>1, ConfirmInvariant, PTL

------------------------------------------------------------------------------
(* The ids of requests *)

Requests == {p \in ClientPackets : Allocated(p)}
Pubrels == {p \in ClientPackets : p.type = "PUBREL"}
Pubrecs == {p \in BrokerPackets : p.type = "PUBREC"}

\* The ids of the QoS 2 publishes that are between PUBLISH and PUBCOMP.
Handled == received \union IdsOf(s2c, Pubrecs) \union IdsOf(c2s, Pubrels)

\* A request on its way bears an id of this connection that no other request
\* bears, and whose publish the broker has not seen.
FreshInv ==
    /\ Once(c2s, Requests)
    /\ \A id \in IdsOf(c2s, Requests) : Given(id) /\ id \notin Handled

LEMMA InitFreshInv == Init => FreshInv
<1> SUFFICES ASSUME Init PROVE FreshInv
  OBVIOUS
<1>1. c2s = <<>>
  BY DEF Init
<1> QED
  BY <1>1, KeptByEmpty DEF FreshInv

\* FreshInv is what keeps a new message from being taken for a repetition.
LEMMA FreshInvIsFresh == TypeOK /\ FreshInv => FreshIds
<1> SUFFICES ASSUME TypeOK, FreshInv, NEW j \in 1..Len(c2s), Allocated(c2s[j])
             PROVE  /\ \A i \in 1..(j - 1) :
                         Allocated(c2s[i]) \/ c2s[i].type = "PUBREL" => c2s[i].id /= c2s[j].id
                    /\ c2s[j].type = "PUBLISH" => c2s[j].id \notin received
  BY DEF FreshIds
<1>1. \A i \in 1..Len(c2s) : c2s[i] \in ClientPackets /\ c2s[i] \in ToSet(c2s)
  BY HeldByIndex DEF TypeOK, NetTypeOK
<1>2. c2s[j] \in Requests /\ c2s[j].id \in IdsOf(c2s, Requests)
  BY <1>1 DEF Requests, IdsOf
<1>3. ASSUME NEW i \in 1..(j - 1), Allocated(c2s[i]) \/ c2s[i].type = "PUBREL"
      PROVE  c2s[i].id /= c2s[j].id
  <2>1. i \in 1..Len(c2s) /\ i /= j
    BY DEF TypeOK, NetTypeOK
  <2>2. CASE Allocated(c2s[i])
    BY <1>1, <1>2, <2>1, <2>2 DEF FreshInv, Once, Requests
  <2>3. CASE c2s[i].type = "PUBREL"
    <3>1. c2s[i].id \in Handled
      BY <1>1, <2>1, <2>3 DEF Handled, IdsOf, Pubrels
    <3> QED
      BY <1>2, <3>1 DEF FreshInv
  <2> QED
    BY <1>3, <2>2, <2>3
<1> QED
  BY <1>2, <1>3 DEF FreshInv, Handled

\* A step that sends no request and gives no id away.
LEMMA FreshStep ==
    ASSUME FreshInv, Kept(c2s', c2s, Requests),
           \A id \in IdsOf(c2s', Requests) : id \notin Handled => id \notin Handled',
           \A id \in IdsOf(c2s', Requests) : Given(id) => Given(id)'
    PROVE  FreshInv'
BY KeptIds DEF FreshInv, Kept

\* What the kinds of packets have to do with each other.
LEMMA Kinds ==
    /\ \A p \in Requests : p.type \in {"SUBSCRIBE", "UNSUBSCRIBE", "PUBLISH"}
    /\ \A p \in Pubrels : p.type = "PUBREL"
    /\ \A p \in Pubrecs : p.type = "PUBREC"
    /\ \A id, n : Publish(0, id, n) \notin Requests
BY DEF Requests, Pubrels, Pubrecs, Allocated, Publish

\* What a write to the broker other than a request leaves of the two kinds.
LEMMA WriteFresh ==
    ASSUME TypeOK, FreshInv, NEW ps \in Seq(ClientPackets), c2s' = NetWrite(ps),
           ToSet(ps) \intersect Requests = {},
           \A p \in ToSet(ps) : p.type = "PUBREL" => p.id \in Handled,
           UNCHANGED <<sock, nextMsgId, received>>,
           Kept(s2c', s2c, Pubrecs)
    PROVE  FreshInv'
<1>1. Kept(c2s', c2s, Requests)
  BY NetWriteKept
<1>2. ToSet(c2s') \subseteq ToSet(c2s) \union ToSet(ps)
  BY NetWriteHolds DEF TypeOK, NetTypeOK
<1>3. IdsOf(c2s', Pubrels) \subseteq Handled
  <2> SUFFICES ASSUME NEW p \in ToSet(c2s') \intersect Pubrels PROVE p.id \in Handled
    BY DEF IdsOf
  <2>1. CASE p \in ToSet(c2s)
    BY <2>1 DEF Handled, IdsOf
  <2>2. CASE p \in ToSet(ps)
    BY <2>2, Kinds
  <2> QED
    BY <1>2, <2>1, <2>2
<1>4. IdsOf(s2c', Pubrecs) \subseteq IdsOf(s2c, Pubrecs)
  BY KeptIds
<1>5. Handled' \subseteq Handled
  BY <1>3, <1>4 DEF Handled
<1> QED
  BY <1>1, <1>5, FreshStep DEF Given

\* The connection is closed, and what is under way, and what the broker holds,
\* is some of what was before.
LEMMA LessFresh ==
    ASSUME TypeOK, FreshInv, ToSet(s2c') \subseteq ToSet(s2c),
           Kept(c2s', c2s, Requests), Kept(c2s', c2s, Pubrels),
           received' \subseteq received, sock' = "closed"
    PROVE  FreshInv'
<1>1. Handled' \subseteq Handled
  <2>1. IdsOf(s2c', Pubrecs) \subseteq IdsOf(s2c, Pubrecs)
    BY DEF IdsOf
  <2>2. IdsOf(c2s', Pubrels) \subseteq IdsOf(c2s, Pubrels)
    BY KeptIds
  <2> QED
    BY <2>1, <2>2 DEF Handled
<1> QED
  BY <1>1, FreshStep DEF Given

\* The application, the faults and connect().
LEMMA QuietStepFresh ==
    ASSUME TypeOK, FreshInv,
           \/ AddQosCallback \/ ConnectStart \/ ConnectFail \/ ConnectEnd \/ Disconnect
           \/ LoopTimeout \/ Drop \/ Reset \/ UNCHANGED vars
    PROVE  FreshInv'
<1>1. CASE AddQosCallback \/ UNCHANGED vars
  <2>1. UNCHANGED <<c2s, s2c, received, sock, nextMsgId>>
    BY <1>1 DEF AddQosCallback, vars, client, broker
  <2> QED
    BY <2>1 DEF FreshInv, Handled, Given
<1>2. CASE ConnectStart
  <2>1. c2s' = <<Hello>>
    BY <1>2 DEF ConnectStart, Hello
  <2>2. ToSet(c2s') \intersect Requests = {}
    BY <2>1, HeldByOne, Kinds, NotFrames
  <2>3. Once(c2s', Requests)
    BY <2>1 DEF Once
  <2> QED
    BY <2>2, <2>3 DEF FreshInv, IdsOf
<1>3. CASE ConnectFail \/ Reset
  <2>1. /\ sock' = "closed" /\ ToSet(s2c') \subseteq ToSet(s2c)
        /\ c2s' = c2s /\ received' = received
    BY <1>3, HeldByEmpty DEF ConnectFail, Reset, broker
  <2> QED
    BY <2>1, KeptSame, LessFresh
<1>4. CASE ConnectEnd \/ Disconnect \/ LoopTimeout
  <2>1. UNCHANGED <<nextMsgId, received>>
    BY <1>4 DEF ConnectEnd, ConnectFinish, ConnectTimeout, Disconnect, LoopTimeout, broker
  <2>2. CASE Close
    <3>1. s2c' = <<>> /\ sock' = "closed"
      BY <2>2 DEF Close
    <3>2. Kept(c2s', c2s, Requests) /\ Kept(c2s', c2s, Pubrels)
      <4>1. /\ \A p \in Requests : p.type /= "DISCONNECT"
            /\ \A p \in Pubrels : p.type /= "DISCONNECT"
        BY Kinds
      <4> QED
        BY <2>2, <4>1, CloseWrites
    <3> QED
      BY <2>1, <3>1, <3>2, HeldByEmpty, LessFresh
  <2>3. CASE ~Close
    <3>1. UNCHANGED <<sock, c2s>> /\ s2c /= <<>> /\ s2c' = Tail(s2c)
      BY <1>4, <2>3 DEF ConnectEnd, ConnectFinish, ConnectTimeout, Disconnect, LoopTimeout
    <3>2. Kept(s2c', s2c, Pubrecs)
      BY <3>1, KeptByTail DEF TypeOK, NetTypeOK
    <3>3. Handled' \subseteq Handled
      BY <2>1, <3>1, <3>2, KeptIds DEF Handled
    <3> QED
      BY <2>1, <3>1, <3>3 DEF FreshInv, Given
  <2> QED
    BY <2>2, <2>3
<1>5. CASE Drop
  BY <1>5, KeptByEmpty DEF Drop, FreshInv
<1> QED
  BY <1>1, <1>2, <1>3, <1>4, <1>5
\* A request under the next id, which no packet and no publish under way has.
LEMMA NewRequest ==
    ASSUME IInv, ConnectionInv, FreshInv, sock = "open", ~waiting,
           NEW p, p \in Requests, p.id = nextMsgId + 1, c2s' = NetWrite(<<p>>),
           nextMsgId \in Nat, nextMsgId' \in Nat, nextMsgId' > nextMsgId,
           UNCHANGED <<sock, s2c, received>>
    PROVE  FreshInv'
<1>1. online
  BY DEF ConnectionInv, AcceptedInv
<1>2. \A id \in IdsOf(c2s, Requests) \union Handled : id \in Nat /\ id <= nextMsgId
  <2>1. \A id \in MsgIds : id \in Nat
    BY DEF MsgIds
  <2>2. \A id \in received : id \in MsgIds /\ id <= nextMsgId
    BY <1>1 DEF IInv, TypeOK, BrokerTypeOK, ReceivedInv, Given
  <2>3. \A a \in ToSet(s2c) : a \in BrokerPackets /\ a.id \in MsgIds
    BY HeldByIndex DEF IInv, TypeOK, NetTypeOK, BrokerPackets
  <2>4. \A a \in ToSet(s2c) : a.type = "PUBREC" => a.id <= nextMsgId
    BY DEF IInv, AnswerInv, SafeAnswer, Given
  <2>5. \A a \in ToSet(c2s) : a \in ClientPackets /\ a.id \in MsgIds
    BY HeldByIndex DEF IInv, TypeOK, NetTypeOK, ClientPackets
  <2>6. \A a \in ToSet(c2s) : a.type = "PUBREL" => a.id <= nextMsgId
    BY DEF IInv, RequestInv, SafeRequest, Given
  <2>7. \A id \in IdsOf(c2s, Requests) : id \in MsgIds /\ id <= nextMsgId
    BY <2>5 DEF IdsOf, FreshInv, Given
  <2> QED
    BY <2>1, <2>2, <2>3, <2>4, <2>5, <2>6, <2>7, Kinds DEF Handled, IdsOf
<1>3. c2s \in Seq(ClientPackets) /\ p \in ClientPackets
  BY DEF IInv, TypeOK, NetTypeOK, Requests
<1>4. c2s' = Append(c2s, p)
  BY <1>3 DEF NetWrite
<1>5. p.id \notin IdsOf(c2s, Requests) /\ p.id \notin Handled
  BY <1>2
<1>6. /\ Once(c2s', Requests)
      /\ IdsOf(c2s', Requests) \subseteq IdsOf(c2s, Requests) \union {p.id}
      /\ ToSet(c2s') = ToSet(c2s) \union {p}
  <2>1. /\ Once(Append(c2s, p), Requests)
        /\ IdsOf(Append(c2s, p), Requests) \subseteq IdsOf(c2s, Requests) \union {p.id}
        /\ ToSet(Append(c2s, p)) = ToSet(c2s) \union {p}
    <3>1. Once(c2s, Requests)
      BY DEF FreshInv
    <3> QED
      BY <1>3, <1>5, <3>1, KeptByAppend, HeldByAppend
  <2> QED
    BY <1>4, <2>1
<1>7. Handled' = Handled
  <2>1. p \notin Pubrels
    BY Kinds
  <2> QED
    BY <1>6, <2>1 DEF Handled, IdsOf
<1>8. \A id \in IdsOf(c2s', Requests) : Given(id)'
  BY <1>2, <1>6 DEF Given
<1> QED
  BY <1>5, <1>6, <1>7, <1>8 DEF FreshInv

LEMMA PublishCallFresh ==
    ASSUME IdsSuffice, IInv, TypeOK', ConnectionInv, FreshInv,
           NEW q \in 0..2, NEW wantId \in WantIds, PublishCall(q, wantId)
    PROVE  FreshInv'
<1>1. PICK p : /\ p = Publish(q, IF q = 0 THEN 0 ELSE NewMsgId, used.calls + 1)
               /\ c2s' = NetWrite(<<p>>)
  BY DEF PublishCall
<1>2. /\ ~waiting /\ used.calls < MaxCalls /\ sock /= "closed"
      /\ UNCHANGED <<sock, s2c, received>>
      /\ nextMsgId' = IF q = 0 THEN nextMsgId
                      ELSE IF wantId THEN (NewMsgId + 1) % IdMod ELSE NewMsgId
  BY DEF PublishCall, IsConnected, broker
<1>3. /\ nextMsgId \in Nat
      /\ NewMsgId = nextMsgId + 1 /\ (NewMsgId + 1) % IdMod = nextMsgId + 2
  BY <1>2, NextIds
<1>4. p \in ClientPackets
  <2>1. used.calls + 1 \in Calls
    BY <1>2, Budgeted DEF IInv, TypeOK, RecordTypeOK
  <2>2. NewMsgId \in MsgIds
    BY <1>3, SessionAssumption DEF NewMsgId, MsgIds
  <2> QED
    BY <1>1, <2>1, <2>2, ClientPacketType
<1>5. CASE q = 0 \/ sock /= "open"
  <2>1. CASE q = 0
    <3>1. <<p>> \in Seq(ClientPackets) /\ ToSet(<<p>>) = {p}
      BY <1>4, HeldByOne
    <3>2. p \notin Requests /\ p.type = "PUBLISH"
      BY <1>1, <2>1, Kinds DEF Publish
    <3> QED
      BY <1>1, <1>2, <2>1, <3>1, <3>2, KeptSame, WriteFresh DEF IInv
  <2>2. CASE sock /= "open"
    <3>1. c2s' = c2s
      BY <1>1, <2>2 DEF NetWrite
    <3>2. nextMsgId' \in Nat /\ nextMsgId' >= nextMsgId
      BY <1>2, <1>3
    <3>3. \A id \in IdsOf(c2s, Requests) : id \in Nat
      <4>1. \A a \in ToSet(c2s) : a \in ClientPackets
        BY HeldByIndex DEF IInv, TypeOK, NetTypeOK
      <4> QED
        BY <4>1 DEF IdsOf, ClientPackets, MsgIds
    <3> QED
      BY <1>2, <1>3, <3>1, <3>2, <3>3 DEF FreshInv, Handled, Given
  <2> QED
    BY <1>5, <2>1, <2>2
<1>6. CASE q /= 0 /\ sock = "open"
  <2>1. p \in Requests /\ p.id = nextMsgId + 1
    BY <1>1, <1>3, <1>4, <1>6 DEF Requests, Allocated, Publish
  <2>2. nextMsgId' \in Nat /\ nextMsgId' > nextMsgId
    BY <1>2, <1>3, <1>6
  <2> QED
    BY <1>1, <1>2, <1>3, <1>6, <2>1, <2>2, NewRequest
<1> QED
  BY <1>5, <1>6

LEMMA FilterCallFresh ==
    ASSUME IdsSuffice, IInv, TypeOK', ConnectionInv, FreshInv,
           NEW t \in {"SUBSCRIBE", "UNSUBSCRIBE"}, FilterCall(t)
    PROVE  FreshInv'
<1>1. /\ ~waiting /\ used.subs < MaxSubs /\ sock /= "closed"
      /\ UNCHANGED <<sock, s2c, received>>
  BY DEF FilterCall, IsConnected, broker
<1>2. nextMsgId \in Nat /\ (nextMsgId + 1) % IdMod = nextMsgId + 1
  BY <1>1, NextIds
<1>3. PICK p : p = Control(t, nextMsgId + 1) /\ c2s' = NetWrite(<<p>>)
               /\ nextMsgId' = nextMsgId + 1
  BY <1>2 DEF FilterCall
<1>4. p \in Requests /\ p.id = nextMsgId + 1
  <2>1. nextMsgId + 1 \in MsgIds
    BY <1>3 DEF TypeOK, ClientTypeOK
  <2>2. p \in ClientPackets
    BY <1>3, <2>1, ClientPacketType DEF ClientTypes
  <2> QED
    BY <1>3, <2>2 DEF Requests, Allocated, Control
<1>5. CASE sock = "open"
  BY <1>1, <1>2, <1>3, <1>4, <1>5, NewRequest
<1>6. CASE sock /= "open"
  <2>1. c2s' = c2s
    BY <1>3, <1>6 DEF NetWrite
  <2>2. \A id \in IdsOf(c2s, Requests) : id \in Nat
    <3>1. \A a \in ToSet(c2s) : a \in ClientPackets
      BY HeldByIndex DEF IInv, TypeOK, NetTypeOK
    <3> QED
      BY <3>1 DEF IdsOf, ClientPackets, MsgIds
  <2>3. \A id \in IdsOf(c2s, Requests) : Given(id)'
    BY <1>1, <1>2, <1>3, <2>2 DEF FreshInv, Given
  <2>4. Handled' = Handled
    BY <1>1, <2>1 DEF Handled
  <2> QED
    BY <2>1, <2>3, <2>4 DEF FreshInv
<1> QED
  BY <1>5, <1>6

\* loop() and the acknowledgments: PUBREL takes over the id of the PUBREC read.
LEMMA LoopFresh ==
    TypeOK /\ FreshInv /\ (LoopIdle \/ LoopRead \/ CallbackReturn) => FreshInv'
<1> SUFFICES ASSUME TypeOK, FreshInv, LoopIdle \/ LoopRead \/ CallbackReturn PROVE FreshInv'
  OBVIOUS
<1>1. UNCHANGED <<sock, nextMsgId, received>>
  BY DEF LoopIdle, LoopRead, CallbackReturn, broker
<1>2. CASE LoopIdle
  <2>1. PICK expired \in BOOLEAN : MayPing(expired) /\ c2s' = NetWrite(Ping(expired))
    BY <1>2 DEF LoopIdle
  <2>2. /\ Ping(expired) \in Seq(ClientPackets)
        /\ \A p \in ToSet(Ping(expired)) : p.type = "PINGREQ"
    BY <2>1, Pinged DEF Control
  <2>3. ToSet(Ping(expired)) \intersect Requests = {}
    BY <2>2, Kinds
  <2>4. s2c' = s2c
    BY <1>2 DEF LoopIdle
  <2> QED
    BY <1>1, <2>1, <2>2, <2>3, <2>4, KeptSame, WriteFresh
<1>3. CASE LoopRead
  <2>1. PICK ps \in Seq(ClientPackets) :
          /\ c2s' = NetWrite(ps)
          /\ \A p \in ToSet(ps) :
                /\ p.type \in {"PINGREQ", "PINGRESP", "PUBREL", "PUBCOMP"}
                /\ p.type = "PUBREL" => Head(s2c).type = "PUBREC" /\ p.id = Head(s2c).id
    BY <1>3, LoopReadWrites
  <2>2. s2c /= <<>> /\ s2c' = Tail(s2c)
    BY <1>3 DEF LoopRead
  <2>3. ToSet(ps) \intersect Requests = {}
    BY <2>1, Kinds
  <2>4. \A p \in ToSet(ps) : p.type = "PUBREL" => p.id \in Handled
    <3>1. Head(s2c) \in ToSet(s2c) /\ Head(s2c) \in BrokerPackets
      BY <2>2, Read DEF TypeOK, NetTypeOK
    <3>2. Head(s2c).type = "PUBREC" => Head(s2c).id \in IdsOf(s2c, Pubrecs)
      BY <3>1 DEF IdsOf, Pubrecs
    <3> QED
      BY <2>1, <3>2 DEF Handled
  <2>5. Kept(s2c', s2c, Pubrecs)
    BY <2>2, KeptByTail DEF TypeOK, NetTypeOK
  <2> QED
    BY <1>1, <2>1, <2>3, <2>4, <2>5, WriteFresh
<1>4. CASE CallbackReturn
  <2>1. Last(frames) \in Frames /\ c2s' = NetWrite(<<Last(frames)>>) /\ s2c' = s2c
    BY <1>4, PopProperties DEF TypeOK, ClientTypeOK, CallbackReturn
  <2>2. Last(frames) \in ClientPackets /\ Last(frames).type \in {"PUBACK", "PUBREC"}
    BY <2>1, NotFrames DEF Frames
  <2>3. <<Last(frames)>> \in Seq(ClientPackets) /\ ToSet(<<Last(frames)>>) = {Last(frames)}
    BY <2>2, HeldByOne
  <2>4. ToSet(<<Last(frames)>>) \intersect Requests = {}
    BY <2>2, <2>3, Kinds
  <2> QED
    BY <1>1, <2>1, <2>2, <2>3, <2>4, KeptSame, WriteFresh
<1> QED
  BY <1>2, <1>3, <1>4

\* The broker: an id it has seen the PUBLISH of is off the wire.
LEMMA BrokerReceiveFresh == TypeOK /\ FreshInv /\ BrokerReceive => FreshInv'
<1> SUFFICES ASSUME TypeOK, FreshInv, BrokerReceive PROVE FreshInv'
  OBVIOUS
<1>1. PICK p : p = Head(c2s)
  OBVIOUS
<1>2. c2s /= <<>> /\ c2s' = Tail(c2s)
  BY DEF BrokerReceive, BrokerAccept, BrokerRefuse, BrokerIgnore, BrokerStore, BrokerRelease,
     BrokerPubrec, BrokerSettle, BrokerFilter, BrokerPingreq, BrokerPingresp,
     BrokerDisconnect, Receives
<1>3. UNCHANGED <<sock, nextMsgId>>
  BY DEF BrokerReceive, BrokerAccept, BrokerRefuse, BrokerIgnore, BrokerStore, BrokerRelease,
     BrokerPubrec, BrokerSettle, BrokerFilter, BrokerPingreq, BrokerPingresp,
     BrokerDisconnect, BrokerKeeps, client
<1>4. /\ Kept(c2s', c2s, Requests) /\ Kept(c2s', c2s, Pubrels)
      /\ p \in Requests => p.id \notin IdsOf(c2s', Requests)
      /\ p \in ClientPackets /\ p.id \in MsgIds
  BY <1>1, <1>2, KeptByTail, Received DEF TypeOK, NetTypeOK, FreshInv
<1>5. Handled' \subseteq Handled \union (IF p \in Requests THEN {p.id} ELSE {})
  <2>1. CASE BrokerStore
    <3>1. p.type = "PUBLISH" /\ p.qos \in 0..2
      BY <1>1, <1>4, <2>1 DEF BrokerStore, Receives, ClientPackets, ClientTypes
    <3>2. p.qos > 0 => p \in Requests
      BY <1>4, <3>1 DEF Requests, Allocated
    <3>3. received' \subseteq received \union (IF p \in Requests THEN {p.id} ELSE {})
      BY <1>1, <2>1, <3>2 DEF BrokerStore
    <3>4. IdsOf(s2c', Pubrecs) \subseteq
            IdsOf(s2c, Pubrecs) \union (IF p \in Requests THEN {p.id} ELSE {})
      <4>1. s2c' = CASE p.qos = 0 -> s2c
                     [] p.qos = 1 -> ToClient(Control("PUBACK", p.id))
                     [] p.qos = 2 -> ToClient(Control("PUBREC", p.id))
        BY <1>1, <2>1 DEF BrokerStore
      <4>2. /\ Control("PUBACK", p.id) \in BrokerPackets /\ Control("PUBREC", p.id) \in BrokerPackets
            /\ Control("PUBREC", p.id).id = p.id /\ Control("PUBACK", p.id).id = p.id
        BY <1>4, BrokerPacketType DEF BrokerTypes, Control
      <4>3. \/ ToSet(s2c') \subseteq ToSet(s2c)
            \/ p \in Requests /\ \E a \in BrokerPackets :
                  a.id = p.id /\ ToSet(s2c') \subseteq ToSet(s2c) \union {a}
        BY <3>1, <3>2, <4>1, <4>2, ToClientHolds DEF TypeOK, NetTypeOK
      <4> QED
        BY <4>3 DEF IdsOf
    <3> QED
      BY <1>4, <3>3, <3>4, KeptIds DEF Handled
  <2>2. CASE ~BrokerStore
    <3>1. received' \subseteq received
      BY <2>2 DEF BrokerReceive, BrokerAccept, BrokerRefuse, BrokerIgnore, BrokerRelease,
         BrokerPubrec, BrokerSettle, BrokerFilter, BrokerPingreq, BrokerPingresp,
         BrokerDisconnect, broker
    <3>2. s2c' = s2c \/ \E t \in BrokerTypes \ {"PUBREC"}, id \in MsgIds : s2c' = ToClient(Control(t, id))
      <4>1. {"CONNACK", "PUBREL", "PUBCOMP", "SUBACK", "UNSUBACK", "PINGRESP"}
              \subseteq BrokerTypes \ {"PUBREC"}
        BY DEF BrokerTypes
      <4> QED
        BY <1>1, <1>4, <2>2, <4>1, ClientPacketType
           DEF BrokerReceive, BrokerAccept, BrokerRefuse, BrokerIgnore, BrokerRelease,
               BrokerPubrec, BrokerSettle, BrokerFilter, BrokerPingreq, BrokerPingresp,
               BrokerDisconnect
    <3>3. Kept(s2c', s2c, Pubrecs)
      <4>1. ASSUME NEW t \in BrokerTypes \ {"PUBREC"}, NEW id \in MsgIds
            PROVE  Kept(ToClient(Control(t, id)), s2c, Pubrecs)
        <5>1. Control(t, id) \in BrokerPackets /\ Control(t, id).type /= "PUBREC"
          BY BrokerPacketType DEF Control
        <5> QED
          BY <5>1, Kinds, ToClientKept
      <4> QED
        BY <3>2, <4>1, KeptSame
    <3> QED
      BY <1>4, <3>1, <3>3, KeptIds DEF Handled
  <2> QED
    BY <2>1, <2>2
<1> QED
  BY <1>3, <1>4, <1>5, FreshStep DEF Given

LEMMA BrokerSendFresh == TypeOK /\ FreshInv /\ BrokerSend => FreshInv'
<1> SUFFICES ASSUME TypeOK, FreshInv, BrokerSend PROVE FreshInv'
  OBVIOUS
<1>1. UNCHANGED <<c2s, received, sock, nextMsgId>>
  BY DEF BrokerSend, BrokerPublish, BrokerResend, BrokerPing, client, broker
<1>2. \E p \in BrokerPackets : p.type /= "PUBREC" /\ s2c' = ToClient(p)
  <2>1. \A q, id, m : Publish(q, id, m).type = "PUBLISH"
    BY DEF Publish
  <2>2. \A t, id : Control(t, id).type = t
    BY DEF Control
  <2>3. CASE \E m \in InMsgs : BrokerPublish(m)
    <3>1. PICK m \in InMsgs : BrokerPublish(m)
      BY <2>3
    <3>2. PICK id : s2c' = ToClient(Publish(InQos[m], id, m)) /\ id \in MsgIds
      <4>1. BrokerIds \subseteq MsgIds /\ 0 \in MsgIds
        BY SessionAssumption DEF MsgIds
      <4> QED
        BY <3>1, <4>1 DEF BrokerPublish
    <3>3. Publish(InQos[m], id, m) \in BrokerPackets
      BY <3>2, SessionAssumption, BrokerPacketType
    <3> QED
      BY <2>1, <3>2, <3>3
  <2>4. CASE \E f \in inflight : BrokerResend(f)
    <3>1. PICK f \in inflight : BrokerResend(f)
      BY <2>4
    <3>2. f.msg \in InMsgs /\ f.id \in MsgIds /\ InQos[f.msg] \in 0..2
      BY FlightType DEF TypeOK, BrokerTypeOK
    <3>3. /\ Publish(InQos[f.msg], f.id, f.msg) \in BrokerPackets
          /\ Control("PUBREL", f.id) \in BrokerPackets
      BY <3>2, BrokerPacketType DEF BrokerTypes
    <3> QED
      BY <2>1, <2>2, <3>1, <3>3 DEF BrokerResend
  <2>5. CASE BrokerPing
    <3>1. Control("PINGREQ", 0) \in BrokerPackets
      BY BrokerPacketType, ClientPacketType DEF BrokerTypes
    <3> QED
      BY <2>2, <2>5, <3>1 DEF BrokerPing
  <2> QED
    BY <2>3, <2>4, <2>5 DEF BrokerSend
<1>3. Kept(s2c', s2c, Pubrecs)
  BY <1>2, Kinds, ToClientKept
<1>4. Handled' \subseteq Handled
  BY <1>1, <1>3, KeptIds DEF Handled
<1> QED
  BY <1>1, <1>4 DEF FreshInv, Given

LEMMA NextFreshInv ==
    ASSUME IdsSuffice, IInv, TypeOK', ConnectionInv, FreshInv, [Next]_vars
    PROVE  FreshInv'
<1> USE DEF IInv
<1>1. CASE \/ AddQosCallback \/ ConnectStart \/ ConnectFail \/ ConnectEnd \/ Disconnect
           \/ LoopTimeout \/ Drop \/ Reset \/ UNCHANGED vars
  BY <1>1, QuietStepFresh
<1>2. CASE \E q \in 0..2, wantId \in WantIds : PublishCall(q, wantId)
  BY <1>2, PublishCallFresh
<1>3. CASE Subscribe \/ Unsubscribe
  BY <1>3, FilterCallFresh DEF Subscribe, Unsubscribe
<1>4. CASE LoopIdle \/ LoopRead \/ CallbackReturn
  BY <1>4, LoopFresh
<1>5. CASE BrokerReceive \/ BrokerSend
  BY <1>5, BrokerReceiveFresh, BrokerSendFresh
<1> QED
  BY <1>1, <1>2, <1>3, <1>4, <1>5 DEF Next, ApplicationStep

\* With clean sessions and enough ids, whatever breaks or resets: no request
\* on its way bears the id of an earlier one, nor that of a QoS 2 publish the
\* broker holds, though publish(), subscribe() and unsubscribe() share one
\* counter and connect() restarts it.
THEOREM RequestIdsAreFresh ==
    ASSUME CleanSession, IdsSuffice
    PROVE  Spec => []FreshIds
<1>1. Init => ConnectionInv /\ FreshInv
  BY InitConnectionInv, InitFreshInv
<1>2. IInv /\ ConnectionInv /\ FreshInv /\ [Next]_vars => (ConnectionInv /\ FreshInv)'
  <2>1. IInv => TypeOK
    BY DEF IInv
  <2> QED
    BY <2>1, NextTypeOK, NextConnectionInv, NextFreshInv
<1>3. IInv /\ FreshInv => FreshIds
  BY FreshInvIsFresh DEF IInv
<1> QED
  BY <1>1, <1>2, <1>3, ConfirmInvariant, PTL DEF Spec

------------------------------------------------------------------------------
(***************************************************************************)
(* When the message callback opens no new connection, the broker is let go *)
(* only of messages the callback ran for; and with clean sessions and ids  *)
(* that suffice besides, Session implements Assurance: every step is one   *)
(* of its steps or changes none of its variables.                          *)
(*                                                                         *)
(* An acknowledgment names a packet id and not a message, and the broker   *)
(* uses an id again once its message is settled.  The first property thus  *)
(* rests on where the ids are: each is on one PUBLISH on its way to the    *)
(* client, or owed by one callback on the stack, or on one acknowledgment  *)
(* on its way to the broker, never on two of them; the message it stands   *)
(* for is in flight and has been sent on this connection; and from the     *)
(* callback on it has been delivered.                                      *)
(***************************************************************************)

FlightInv ==
    /\ \A f, g \in inflight : f.id = g.id \/ f.msg = g.msg => f = g
    /\ \A f \in inflight : f.msg \in offered \ settled /\ InQos[f.msg] > 0
    /\ settled \subseteq offered

\* No callback is on the stack while a connection is opened.
StackInv == Hello \in ToSet(c2s) => frames = <<>>

OnceInv ==
    /\ Once(s2c, Messages) /\ Once(frames, Frames) /\ Once(c2s, Frames)
    /\ IdsOf(s2c, Messages) \intersect IdsOf(frames, Frames) = {}
    /\ IdsOf(s2c, Messages) \intersect IdsOf(c2s, Frames) = {}
    /\ IdsOf(frames, Frames) \intersect IdsOf(c2s, Frames) = {}

\* A flight of which the client holds, or is about to get, the message.
Sent(id) == {f \in inflight : f.id = id /\ f.phase = "pub" /\ f.sent}

MessageInv ==
    \A p \in ToSet(s2c) \intersect Messages : \E f \in Sent(p.id) : f.msg = p.body

AckInv ==
    \A p \in (ToSet(frames) \union ToSet(c2s)) \intersect Frames :
        \E f \in Sent(p.id) : delivered[f.msg] > 0

DInv ==
    /\ FlightInv
    /\ StackInv
    /\ OnceInv
    /\ MessageInv
    /\ AckInv
    /\ ReleasedWasDelivered

LEMMA InitDInv == Init => DInv
<1> SUFFICES ASSUME Init PROVE DInv
  OBVIOUS
<1>1. c2s = <<>> /\ s2c = <<>> /\ frames = <<>> /\ inflight = {} /\ settled = {}
  BY DEF Init
<1> QED
  BY <1>1, KeptByEmpty, HeldByEmpty DEF DInv, FlightInv, StackInv, OnceInv, MessageInv,
     AckInv, ReleasedWasDelivered, Sent

------------------------------------------------------------------------------
(* Steps that neither send nor acknowledge a message *)

LEMMA CloseKept ==
    ASSUME TypeOK, Close
    PROVE  /\ Kept(c2s', c2s, Frames) /\ Kept(s2c', s2c, Messages)
           /\ Hello \in ToSet(c2s') => Hello \in ToSet(c2s)
<1> DEFINE bye == Control("DISCONNECT", 0)
<1>1. bye \in ClientPackets /\ bye.type = "DISCONNECT"
  BY ClientPacketType DEF ClientTypes, Control
<1>2. <<bye>> \in Seq(ClientPackets) /\ ToSet(<<bye>>) = {bye}
  BY <1>1, HeldByOne
<1>3. bye \notin Frames /\ bye /= Hello
  BY <1>1, NotFrames
<1>4. c2s' = NetWrite(<<bye>>) /\ s2c' = <<>>
  BY DEF Close
<1> HIDE DEF bye
<1>5. Kept(c2s', c2s, Frames) /\ Kept(s2c', s2c, Messages)
  BY <1>2, <1>3, <1>4, NetWriteKept, KeptByEmpty
<1>6. ToSet(c2s') \subseteq ToSet(c2s) \union {bye}
  BY <1>2, <1>4, NetWriteHolds DEF TypeOK, NetTypeOK
<1> QED
  BY <1>3, <1>5, <1>6

\* A step that leaves the flights alone and puts neither a message nor an
\* acknowledgment on a queue.
LEMMA QuietDelivery ==
    ASSUME DInv,
           UNCHANGED <<inflight, settled>>, offered \subseteq offered',
           \A m \in InMsgs : delivered[m] > 0 => delivered'[m] > 0,
           inflight \subseteq Flights, settled \subseteq InMsgs,
           Kept(s2c', s2c, Messages), Kept(c2s', c2s, Frames), Kept(frames', frames, Frames),
           StackInv'
    PROVE  DInv'
<1>1. FlightInv'
  BY DEF DInv, FlightInv
<1>2. OnceInv'
  <2>1. /\ IdsOf(s2c', Messages) \subseteq IdsOf(s2c, Messages)
        /\ IdsOf(c2s', Frames) \subseteq IdsOf(c2s, Frames)
        /\ IdsOf(frames', Frames) \subseteq IdsOf(frames, Frames)
    BY KeptIds
  <2>2. Once(s2c', Messages) /\ Once(frames', Frames) /\ Once(c2s', Frames)
    BY DEF DInv, OnceInv, Kept
  <2>3. /\ IdsOf(s2c', Messages) \intersect IdsOf(frames', Frames) = {}
        /\ IdsOf(s2c', Messages) \intersect IdsOf(c2s', Frames) = {}
        /\ IdsOf(frames', Frames) \intersect IdsOf(c2s', Frames) = {}
    BY <2>1 DEF DInv, OnceInv
  <2> QED
    BY <2>2, <2>3 DEF OnceInv
<1>3. \A id : Sent(id)' = Sent(id)
  BY DEF Sent
<1>4. MessageInv'
  BY <1>3 DEF DInv, MessageInv, Kept
<1>5. \A f \in inflight : f.msg \in InMsgs
  BY DEF Flights
<1>6. AckInv'
  <2> SUFFICES ASSUME NEW p \in (ToSet(frames') \union ToSet(c2s')) \intersect Frames
               PROVE  \E f \in Sent(p.id)' : delivered'[f.msg] > 0
    BY DEF AckInv
  <2>1. PICK f \in Sent(p.id) : delivered[f.msg] > 0
    BY DEF DInv, AckInv, Kept
  <2> QED
    BY <1>3, <1>5, <2>1 DEF Sent
<1>7. ReleasedWasDelivered'
  BY <1>5 DEF DInv, ReleasedWasDelivered
<1> QED
  BY <1>1, <1>2, <1>4, <1>6, <1>7 DEF DInv

\* The application, the faults and connect().
LEMMA QuietStepDInv ==
    ASSUME TypeOK, ConnectionInv, DInv, ~CallbackMayReconnect,
           \/ AddQosCallback \/ ConnectStart \/ ConnectFail \/ ConnectEnd \/ Disconnect
           \/ LoopTimeout \/ Drop \/ Reset \/ UNCHANGED vars
    PROVE  DInv'
<1>1. UNCHANGED <<inflight, settled, offered, delivered>>
  BY DEF AddQosCallback, ConnectStart, ConnectFail, ConnectEnd, ConnectFinish,
     ConnectTimeout, Disconnect, LoopTimeout, Drop, Reset, broker, inward, vars
<1>2. inflight \subseteq Flights /\ settled \subseteq InMsgs
  BY DEF TypeOK, BrokerTypeOK, RecordTypeOK
<1>3. CASE AddQosCallback \/ ConnectFail \/ UNCHANGED vars
  <2>1. UNCHANGED <<c2s, s2c, frames>>
    BY <1>3 DEF AddQosCallback, ConnectFail, vars, client
  <2> QED
    BY <1>1, <1>2, <2>1, KeptSame, QuietDelivery DEF DInv, StackInv
<1>4. CASE ConnectStart
  <2>1. c2s' = <<Hello>> /\ s2c' = <<>> /\ frames = <<>> /\ frames' = frames
    BY <1>4 DEF ConnectStart, Hello
  <2>2. Kept(s2c', s2c, Messages) /\ Kept(frames', frames, Frames)
    BY <2>1, KeptByEmpty, KeptSame
  <2>3. Kept(c2s', c2s, Frames)
    BY <2>1, NotFrames, HeldByOne DEF Kept, Once
  <2> QED
    BY <1>1, <1>2, <2>1, <2>2, <2>3, QuietDelivery DEF StackInv
<1>5. CASE ConnectEnd \/ Disconnect \/ LoopTimeout
  <2>1. frames' = frames
    BY <1>5 DEF ConnectEnd, ConnectFinish, ConnectTimeout, Disconnect, LoopTimeout
  <2>2. Close \/ (s2c /= <<>> /\ s2c' = Tail(s2c) /\ c2s' = c2s)
    BY <1>5 DEF ConnectEnd, ConnectFinish, ConnectTimeout, Disconnect, LoopTimeout
  <2>3. /\ Kept(c2s', c2s, Frames) /\ Kept(s2c', s2c, Messages)
        /\ Hello \in ToSet(c2s') => Hello \in ToSet(c2s)
    BY <2>2, CloseKept, KeptSame, KeptByTail DEF TypeOK, NetTypeOK
  <2> QED
    BY <1>1, <1>2, <2>1, <2>3, KeptSame, QuietDelivery DEF DInv, StackInv
<1>6. CASE Drop
  <2>1. PICK k \in 0..Len(s2c) : s2c' = SubSeq(s2c, 1, k)
    BY <1>6 DEF Drop
  <2>2. c2s' = <<>> /\ frames' = frames
    BY <1>6 DEF Drop
  <2> QED
    BY <1>1, <1>2, <2>1, <2>2, KeptSame, KeptByEmpty, HeldByEmpty, KeptByPrefix, QuietDelivery
       DEF TypeOK, NetTypeOK, StackInv
<1>7. CASE Reset
  <2>1. c2s' = c2s /\ s2c' = <<>> /\ frames' = <<>>
    BY <1>7 DEF Reset
  <2> QED
    BY <1>1, <1>2, <2>1, KeptSame, KeptByEmpty, QuietDelivery DEF StackInv
<1> QED
  BY <1>3, <1>4, <1>5, <1>6, <1>7

\* publish(), subscribe(), unsubscribe(), and a loop() with nothing to read.
LEMMA CallDInv ==
    ASSUME TypeOK, DInv,
           \/ \E q \in 0..2, wantId \in WantIds : PublishCall(q, wantId)
           \/ Subscribe \/ Unsubscribe \/ LoopIdle
    PROVE  DInv'
<1>1. UNCHANGED <<inflight, settled, offered, delivered, s2c, frames>>
  BY DEF PublishCall, Subscribe, Unsubscribe, FilterCall, LoopIdle, broker, inward
<1>2. PICK ps \in Seq(ClientPackets) :
        /\ c2s' = NetWrite(ps)
        /\ \A p \in ToSet(ps) : p.type \in {"PUBLISH", "SUBSCRIBE", "UNSUBSCRIBE", "PINGREQ"}
  BY CallWrites
<1>3. ToSet(ps) \intersect Frames = {} /\ Hello \notin ToSet(ps)
  BY <1>2, NotFrames DEF Frames
<1>4. Kept(c2s', c2s, Frames) /\ ToSet(c2s') \subseteq ToSet(c2s) \union ToSet(ps)
  BY <1>2, <1>3, NetWriteKept, NetWriteHolds DEF TypeOK, NetTypeOK
<1>5. StackInv'
  BY <1>1, <1>3, <1>4 DEF DInv, StackInv
<1> QED
  BY <1>1, <1>4, <1>5, KeptSame, QuietDelivery DEF TypeOK, BrokerTypeOK, RecordTypeOK
------------------------------------------------------------------------------
(* From the PUBLISH to the acknowledgment *)

\* A message has been read: its id is nowhere else.
LEMMA IdTaken ==
    ASSUME TypeOK, DInv, s2c /= <<>>, Head(s2c) \in Messages
    PROVE  /\ Head(s2c).id \notin IdsOf(Tail(s2c), Messages)
           /\ Head(s2c).id \notin IdsOf(frames, Frames)
           /\ Head(s2c).id \notin IdsOf(c2s, Frames)
<1>1. Head(s2c) \in ToSet(s2c)
  BY Read DEF TypeOK, NetTypeOK
<1>2. Head(s2c).id \in IdsOf(s2c, Messages)
  BY <1>1 DEF IdsOf
<1>3. Head(s2c).id \notin IdsOf(Tail(s2c), Messages)
  BY KeptByTail DEF TypeOK, NetTypeOK, DInv, OnceInv
<1> QED
  BY <1>2, <1>3 DEF DInv, OnceInv

\* The callback ran; the acknowledgment it owes takes the id over.
LEMMA DeliverDInv ==
    ASSUME TypeOK, DInv, s2c /= <<>>, s2c' = Tail(s2c),
           UNCHANGED <<inflight, settled, offered>>,
           Kept(c2s', c2s, Frames), StackInv',
           NEW p, p = Head(s2c), p \in Messages, p.body \notin Oversized, Deliver(p)
    PROVE  DInv'
<1> DEFINE ack == Control(IF p.qos = 1 THEN "PUBACK" ELSE "PUBREC", p.id)
<1>1. /\ p.body \in InMsgs /\ p.id \in MsgIds /\ p.type = "PUBLISH" /\ p.qos /= 0
      /\ p \in ToSet(s2c)
  BY Read DEF Messages, TypeOK, NetTypeOK
<1>2. /\ delivered' = [delivered EXCEPT ![p.body] = @ + 1]
      /\ frames' = Append(frames, ack)
  BY <1>1 DEF Deliver
<1>3. ack \in Frames /\ ack.id = p.id
  BY <1>1 DEF Control, Frames
<1> HIDE DEF ack
<1>4. \A m \in InMsgs : delivered'[m] >= delivered[m] /\ delivered[m] \in Nat /\ delivered'[m] \in Nat
  BY <1>1, <1>2 DEF TypeOK, RecordTypeOK
<1>5. delivered'[p.body] > 0
  BY <1>1, <1>2 DEF TypeOK, RecordTypeOK
<1>6. \A f \in inflight : f.msg \in InMsgs
  BY DEF TypeOK, BrokerTypeOK, Flights
<1>7. /\ p.id \notin IdsOf(s2c', Messages) /\ p.id \notin IdsOf(frames, Frames)
      /\ p.id \notin IdsOf(c2s, Frames)
  BY IdTaken
<1>8. FlightInv'
  BY DEF DInv, FlightInv
<1>9. OnceInv'
  <2>1. /\ Once(frames', Frames)
        /\ IdsOf(frames', Frames) \subseteq IdsOf(frames, Frames) \union {p.id}
    BY <1>2, <1>3, <1>7, KeptByAppend DEF TypeOK, ClientTypeOK, DInv, OnceInv
  <2>2. Kept(s2c', s2c, Messages)
    BY KeptByTail DEF TypeOK, NetTypeOK
  <2>3. Once(s2c', Messages) /\ Once(c2s', Frames)
    BY <2>2 DEF DInv, OnceInv, Kept
  <2>4. /\ IdsOf(s2c', Messages) \subseteq IdsOf(s2c, Messages)
        /\ IdsOf(c2s', Frames) \subseteq IdsOf(c2s, Frames)
    BY <2>2, KeptIds
  <2> QED
    BY <1>7, <2>1, <2>3, <2>4 DEF DInv, OnceInv
<1>10. \A id : Sent(id)' = Sent(id)
  BY DEF Sent
<1>11. MessageInv'
  BY <1>10, HeldByTail DEF TypeOK, NetTypeOK, DInv, MessageInv
<1>12. AckInv'
  <2> SUFFICES ASSUME NEW a \in (ToSet(frames') \union ToSet(c2s')) \intersect Frames
               PROVE  \E f \in Sent(a.id) : delivered'[f.msg] > 0
    BY <1>10 DEF AckInv
  <2>1. ToSet(frames') = ToSet(frames) \union {ack}
    BY <1>2, <1>3, HeldByAppend DEF TypeOK, ClientTypeOK
  <2>2. CASE a = ack
    <3>1. PICK f \in Sent(p.id) : f.msg = p.body
      BY <1>1 DEF DInv, MessageInv
    <3> QED
      BY <1>3, <1>5, <2>2, <3>1
  <2>3. CASE a /= ack
    <3>1. a \in (ToSet(frames) \union ToSet(c2s)) \intersect Frames
      BY <2>1, <2>3 DEF Kept
    <3>2. PICK f \in Sent(a.id) : delivered[f.msg] > 0
      BY <3>1 DEF DInv, AckInv
    <3>3. f.msg \in InMsgs
      BY <1>6, <3>2 DEF Sent
    <3> QED
      BY <1>4, <3>2, <3>3
  <2> QED
    BY <2>2, <2>3
<1>13. ReleasedWasDelivered'
  <2>1. settled \subseteq InMsgs
    BY DEF TypeOK, RecordTypeOK
  <2>2. \A m \in InMsgs : delivered[m] > 0 => delivered'[m] > 0
    BY <1>4
  <2> QED
    BY <1>6, <2>1, <2>2 DEF DInv, ReleasedWasDelivered
<1> QED
  BY <1>8, <1>9, <1>11, <1>12, <1>13 DEF DInv

LEMMA LoopReadDInv ==
    TypeOK /\ ConnectionInv /\ DInv /\ LoopRead => DInv'
<1> SUFFICES ASSUME TypeOK, ConnectionInv, DInv, LoopRead PROVE DInv'
  OBVIOUS
<1>1. PICK p \in BrokerPackets : p = Head(s2c)
  BY Read DEF LoopRead, TypeOK, NetTypeOK
<1>2. /\ UNCHANGED <<inflight, settled, offered>> /\ s2c /= <<>> /\ s2c' = Tail(s2c)
      /\ Deliver(p)
  BY <1>1 DEF LoopRead, broker
<1>3. PICK ps \in Seq(ClientPackets) :
        /\ c2s' = NetWrite(ps)
        /\ \A a \in ToSet(ps) : a.type \in {"PINGREQ", "PINGRESP", "PUBREL", "PUBCOMP"}
  BY LoopReadWrites
<1>4. ToSet(ps) \intersect Frames = {} /\ Hello \notin ToSet(ps)
  BY <1>3, NotFrames DEF Frames
<1>5. Kept(c2s', c2s, Frames) /\ ToSet(c2s') \subseteq ToSet(c2s) \union ToSet(ps)
  BY <1>3, <1>4, NetWriteKept, NetWriteHolds DEF TypeOK, NetTypeOK
<1>6. StackInv'
  <2>1. Hello \notin ToSet(c2s)
    BY <1>2, NotFrames DEF ConnectionInv, OpeningInv
  <2> QED
    BY <1>4, <1>5, <2>1 DEF StackInv
<1>7. CASE p \in Messages /\ p.body \notin Oversized
  BY <1>1, <1>2, <1>5, <1>6, <1>7, DeliverDInv
<1>8. CASE ~(p \in Messages /\ p.body \notin Oversized)
  <2>1. frames' = frames
    <3>1. CASE p.type = "PUBLISH" /\ p.body \notin Oversized
      <4>1. p.qos = 0
        BY <1>8, <3>1 DEF Messages, BrokerPackets, BrokerTypes
      <4> QED
        BY <1>2, <3>1, <4>1 DEF Deliver
    <3>2. CASE ~(p.type = "PUBLISH" /\ p.body \notin Oversized)
      BY <1>2, <3>2 DEF Deliver
    <3> QED
      BY <3>1, <3>2
  <2>2. \A m \in InMsgs : delivered[m] > 0 => delivered'[m] > 0
    <3>1. CASE p.type = "PUBLISH" /\ p.body \notin Oversized
      <4>1. p.body \in InMsgs
        BY <3>1 DEF BrokerPackets, BrokerTypes
      <4>2. delivered' = [delivered EXCEPT ![p.body] = @ + 1]
        BY <1>2, <3>1 DEF Deliver
      <4> QED
        BY <4>1, <4>2 DEF TypeOK, RecordTypeOK
    <3>2. CASE ~(p.type = "PUBLISH" /\ p.body \notin Oversized)
      BY <1>2, <3>2 DEF Deliver
    <3> QED
      BY <3>1, <3>2
  <2>3. Kept(s2c', s2c, Messages)
    BY <1>2, KeptByTail DEF TypeOK, NetTypeOK
  <2> QED
    BY <1>2, <1>5, <1>6, <2>1, <2>2, <2>3, KeptSame, QuietDelivery
       DEF TypeOK, BrokerTypeOK, RecordTypeOK
<1> QED
  BY <1>7, <1>8

\* The acknowledgment takes the id from the stack to the wire, or is lost.
LEMMA CallbackReturnDInv ==
    TypeOK /\ ConnectionInv /\ DInv /\ CallbackReturn => DInv'
<1> SUFFICES ASSUME TypeOK, ConnectionInv, DInv, CallbackReturn PROVE DInv'
  OBVIOUS
<1>1. PICK a : a = Last(frames)
  OBVIOUS
<1>2. /\ UNCHANGED <<inflight, settled, offered, delivered, s2c>>
      /\ frames /= <<>> /\ frames' = Front(frames) /\ c2s' = NetWrite(<<a>>)
  BY <1>1 DEF CallbackReturn, broker, inward
<1>3. a \in Frames /\ frames \in Seq(Frames)
  BY <1>1, <1>2, PopProperties DEF TypeOK, ClientTypeOK
<1>4. /\ a \in ToSet(frames) /\ Kept(frames', frames, Frames)
      /\ a.id \notin IdsOf(frames', Frames)
      /\ ToSet(frames') \subseteq ToSet(frames)
  BY <1>1, <1>2, <1>3, KeptByFront DEF DInv, OnceInv
<1>5. a.id \in IdsOf(frames, Frames)
  BY <1>3, <1>4 DEF IdsOf
<1>6. a.id \notin IdsOf(c2s, Frames) /\ a.id \notin IdsOf(s2c, Messages)
  BY <1>5 DEF DInv, OnceInv
<1>7. c2s \in Seq(ClientPackets) /\ a \in ClientPackets
  BY <1>3, NotFrames DEF TypeOK, NetTypeOK
<1>8. c2s' = c2s \/ c2s' = Append(c2s, a)
  BY <1>2, <1>7 DEF NetWrite
<1>9. /\ Once(c2s', Frames)
      /\ IdsOf(c2s', Frames) \subseteq IdsOf(c2s, Frames) \union {a.id}
      /\ ToSet(c2s') \subseteq ToSet(c2s) \union {a}
  <2>1. Once(c2s, Frames)
    BY DEF DInv, OnceInv
  <2>2. /\ Once(Append(c2s, a), Frames)
        /\ IdsOf(Append(c2s, a), Frames) \subseteq IdsOf(c2s, Frames) \union {a.id}
        /\ ToSet(Append(c2s, a)) = ToSet(c2s) \union {a}
    BY <1>6, <1>7, <2>1, KeptByAppend, HeldByAppend
  <2> QED
    BY <1>8, <2>1, <2>2
<1>10. OnceInv'
  <2>1. IdsOf(frames', Frames) \subseteq IdsOf(frames, Frames) /\ Once(frames', Frames)
    BY <1>4, KeptIds DEF DInv, OnceInv, Kept
  <2> QED
    BY <1>2, <1>4, <1>6, <1>9, <2>1 DEF DInv, OnceInv
<1>11. FlightInv' /\ MessageInv' /\ ReleasedWasDelivered'
  BY <1>2 DEF DInv, FlightInv, MessageInv, ReleasedWasDelivered, Sent
<1>12. AckInv'
  <2>1. \A id : Sent(id)' = Sent(id)
    BY <1>2 DEF Sent
  <2> QED
    BY <1>2, <1>4, <1>9, <2>1 DEF DInv, AckInv
<1>13. StackInv'
  BY <1>2, <1>3, <1>9, NotFrames DEF DInv, StackInv
<1> QED
  BY <1>10, <1>11, <1>12, <1>13 DEF DInv

------------------------------------------------------------------------------
(* The broker *)

LEMMA ReceiveKept ==
    ASSUME TypeOK, ConnectionInv, DInv, c2s /= <<>>, c2s' = Tail(c2s), UNCHANGED frames
    PROVE  /\ Kept(c2s', c2s, Frames)
           /\ Head(c2s) \in ToSet(c2s) /\ Head(c2s) \in ClientPackets
           /\ ToSet(c2s') \subseteq ToSet(c2s)
           /\ StackInv'
<1>1. /\ Kept(c2s', c2s, Frames)
      /\ Head(c2s) \in ToSet(c2s) /\ Head(c2s) \in ClientPackets
      /\ ToSet(c2s') \subseteq ToSet(c2s)
  BY Received, KeptByTail DEF TypeOK, NetTypeOK
<1>2. StackInv'
  BY <1>1 DEF DInv, StackInv
<1> QED
  BY <1>1, <1>2

\* What the broker does for the packets that acknowledge no message.
LEMMA QuietBrokerDInv ==
    ASSUME TypeOK, ConnectionInv, DInv,
           \/ BrokerRefuse \/ BrokerIgnore \/ BrokerStore \/ BrokerRelease
           \/ BrokerFilter("SUBSCRIBE", "SUBACK") \/ BrokerFilter("UNSUBSCRIBE", "UNSUBACK")
           \/ BrokerPingreq \/ BrokerPingresp \/ BrokerDisconnect
    PROVE  DInv'
<1>1. UNCHANGED <<inflight, settled, offered, delivered, frames>>
  BY DEF BrokerRefuse, BrokerIgnore, BrokerStore, BrokerRelease, BrokerFilter, BrokerPingreq,
     BrokerPingresp, BrokerDisconnect, BrokerKeeps, broker, client
<1>2. c2s /= <<>> /\ c2s' = Tail(c2s)
  BY DEF BrokerRefuse, BrokerIgnore, BrokerStore, BrokerRelease, BrokerFilter, BrokerPingreq,
     BrokerPingresp, BrokerDisconnect, Receives
<1>3. PICK p : p = Head(c2s)
  OBVIOUS
<1>4. p.id \in MsgIds /\ 0 \in MsgIds /\ 1 \in MsgIds
  BY <1>2, <1>3, Received, ClientPacketType DEF TypeOK, NetTypeOK
<1>5. s2c' = s2c \/ \E t \in BrokerTypes, id \in MsgIds : s2c' = ToClient(Control(t, id))
  <2>1. CASE BrokerStore
    <3>1. p.qos \in 0..2
      BY <1>2, <1>3, <2>1, Received
         DEF BrokerStore, Receives, TypeOK, NetTypeOK, ClientPackets, ClientTypes
    <3>2. "PUBACK" \in BrokerTypes /\ "PUBREC" \in BrokerTypes
      BY DEF BrokerTypes
    <3>3. s2c' = CASE p.qos = 0 -> s2c
                   [] p.qos = 1 -> ToClient(Control("PUBACK", p.id))
                   [] p.qos = 2 -> ToClient(Control("PUBREC", p.id))
      BY <1>3, <2>1 DEF BrokerStore
    <3> QED
      BY <1>4, <3>1, <3>2, <3>3
  <2>2. CASE ~BrokerStore
    <3>1. {"CONNACK", "PUBCOMP", "SUBACK", "UNSUBACK", "PINGRESP"} \subseteq BrokerTypes
      BY DEF BrokerTypes
    <3> QED
      BY <1>3, <1>4, <2>2, <3>1 DEF BrokerRefuse, BrokerIgnore, BrokerRelease, BrokerFilter,
         BrokerPingreq, BrokerPingresp, BrokerDisconnect
  <2> QED
    BY <2>1, <2>2
<1>6. Kept(s2c', s2c, Messages)
  <2>1. ASSUME NEW t \in BrokerTypes, NEW id \in MsgIds
        PROVE  Kept(ToClient(Control(t, id)), s2c, Messages)
    BY BrokerPacketType, NotFrames, ToClientKept DEF BrokerTypes
  <2> QED
    BY <1>5, <2>1, KeptSame
<1>7. Kept(c2s', c2s, Frames) /\ StackInv'
  BY <1>1, <1>2, ReceiveKept
<1> QED
  BY <1>1, <1>6, <1>7, KeptSame, QuietDelivery DEF TypeOK, BrokerTypeOK, RecordTypeOK

\* A session that starts over, or goes on: no id is in use on the connection.
LEMMA BrokerAcceptDInv ==
    TypeOK /\ ConnectionInv /\ DInv /\ BrokerAccept => DInv'
<1> SUFFICES ASSUME TypeOK, ConnectionInv, DInv, BrokerAccept PROVE DInv'
  OBVIOUS
<1>1. /\ c2s /= <<>> /\ c2s' = Tail(c2s) /\ Head(c2s).type = "CONNECT"
      /\ UNCHANGED <<settled, offered, delivered, frames>>
      /\ s2c' = ToClient(Control("CONNACK", 0))
      /\ inflight' = {} \/ inflight' = {[f EXCEPT !.sent = FALSE] : f \in inflight}
  BY DEF BrokerAccept, Receives, BrokerKeeps, client
<1>2. Kept(c2s', c2s, Frames) /\ StackInv' /\ Head(c2s) \in ToSet(c2s)
      /\ ToSet(c2s') \subseteq ToSet(c2s)
  BY <1>1, ReceiveKept
<1>3. /\ Hello \in ToSet(c2s) /\ s2c = <<>> /\ frames = <<>>
      /\ \A q \in ToSet(c2s) : q.type \in {"CONNECT", "DISCONNECT"}
  BY <1>1, <1>2 DEF ConnectionInv, OpeningInv, DInv, StackInv
<1>4. Kept(s2c', s2c, Messages)
  <2>1. Control("CONNACK", 0) \in BrokerPackets /\ Control("CONNACK", 0) \notin Messages
    BY BrokerPacketType, ClientPacketType, NotFrames DEF BrokerTypes
  <2> QED
    BY <1>1, <2>1, ToClientKept
<1>5. /\ ToSet(s2c') \intersect Messages = {}
      /\ ToSet(frames') \intersect Frames = {}
      /\ ToSet(c2s') \intersect Frames = {}
  BY <1>1, <1>2, <1>3, <1>4, HeldByEmpty DEF Kept, Frames
<1>6. OnceInv'
  <2>1. /\ IdsOf(s2c', Messages) = {} /\ IdsOf(frames', Frames) = {}
        /\ IdsOf(c2s', Frames) = {}
    BY <1>5 DEF IdsOf
  <2>2. Once(s2c', Messages) /\ Once(frames', Frames) /\ Once(c2s', Frames)
    BY <1>1, <1>2, <1>4 DEF DInv, OnceInv, Kept
  <2> QED
    BY <2>1, <2>2 DEF OnceInv
<1>7. MessageInv' /\ AckInv'
  BY <1>5 DEF MessageInv, AckInv
<1>8. \A g \in inflight' : \E f \in inflight :
        g = [f EXCEPT !.sent = FALSE] /\ g.id = f.id /\ g.msg = f.msg /\ g.phase = f.phase
  <2>1. \A f \in inflight : f \in Flights
    BY DEF TypeOK, BrokerTypeOK
  <2> QED
    BY <1>1, <2>1 DEF Flights
<1>9. FlightInv'
  <2>1. ASSUME NEW f \in inflight', NEW g \in inflight', f.id = g.id \/ f.msg = g.msg
        PROVE  f = g
    <3>1. PICK ff \in inflight : f = [ff EXCEPT !.sent = FALSE] /\ f.id = ff.id /\ f.msg = ff.msg
      BY <1>8
    <3>2. PICK gg \in inflight : g = [gg EXCEPT !.sent = FALSE] /\ g.id = gg.id /\ g.msg = gg.msg
      BY <1>8
    <3>3. ff = gg
      BY <2>1, <3>1, <3>2 DEF DInv, FlightInv
    <3> QED
      BY <3>1, <3>2, <3>3
  <2>2. \A f \in inflight' : f.msg \in offered' \ settled' /\ InQos[f.msg] > 0
    BY <1>1, <1>8 DEF DInv, FlightInv
  <2>3. settled' \subseteq offered'
    BY <1>1 DEF DInv, FlightInv
  <2> QED
    BY <2>1, <2>2, <2>3 DEF FlightInv
<1>10. ReleasedWasDelivered'
  BY <1>1, <1>8 DEF DInv, ReleasedWasDelivered
<1> QED
  BY <1>2, <1>6, <1>7, <1>9, <1>10 DEF DInv
\* An acknowledgment under way is the only bearer of its id.
LEMMA AckTaken ==
    ASSUME TypeOK, DInv, c2s /= <<>>, Head(c2s) \in Frames
    PROVE  /\ Head(c2s).id \notin IdsOf(s2c, Messages)
           /\ Head(c2s).id \notin IdsOf(frames, Frames)
           /\ Head(c2s).id \notin IdsOf(Tail(c2s), Frames)
           /\ \A f \in inflight : f.id = Head(c2s).id => f \in Sent(f.id) /\ delivered[f.msg] > 0
<1>1. Head(c2s) \in ToSet(c2s)
  BY Received DEF TypeOK, NetTypeOK
<1>2. Head(c2s).id \in IdsOf(c2s, Frames)
  BY <1>1 DEF IdsOf
<1>3. Head(c2s).id \notin IdsOf(Tail(c2s), Frames)
  BY KeptByTail DEF TypeOK, NetTypeOK, DInv, OnceInv
<1>4. PICK g \in Sent(Head(c2s).id) : delivered[g.msg] > 0
  BY <1>1 DEF DInv, AckInv
<1>5. \A f \in inflight : f.id = Head(c2s).id => f = g
  BY <1>4 DEF DInv, FlightInv, Sent
<1> QED
  BY <1>2, <1>3, <1>4, <1>5 DEF DInv, OnceInv, Sent

\* Where the ids under way are, as far as it concerns the flights.
UnderWay == IdsOf(s2c, Messages) \union IdsOf(frames, Frames) \union IdsOf(c2s, Frames)

\* A step of the broker that puts neither a message nor an acknowledgment on
\* a queue and leaves the flights of the ids under way alone.
LEMMA KeepDInv ==
    ASSUME DInv, UNCHANGED <<frames, offered, delivered>>,
           Kept(c2s', c2s, Frames), StackInv', Kept(s2c', s2c, Messages),
           \A id \in UnderWay' : Sent(id) \subseteq Sent(id)',
           FlightInv', ReleasedWasDelivered'
    PROVE  DInv'
<1>1. OnceInv'
  <2>1. /\ IdsOf(s2c', Messages) \subseteq IdsOf(s2c, Messages)
        /\ IdsOf(c2s', Frames) \subseteq IdsOf(c2s, Frames)
    BY KeptIds
  <2>2. Once(s2c', Messages) /\ Once(frames', Frames) /\ Once(c2s', Frames)
    BY DEF DInv, OnceInv, Kept
  <2> QED
    BY <2>1, <2>2 DEF DInv, OnceInv
<1>2. MessageInv'
  <2> SUFFICES ASSUME NEW p \in ToSet(s2c') \intersect Messages
               PROVE  \E f \in Sent(p.id)' : f.msg = p.body
    BY DEF MessageInv
  <2>1. p.id \in UnderWay'
    BY DEF UnderWay, IdsOf
  <2>2. \E f \in Sent(p.id) : f.msg = p.body
    BY DEF DInv, MessageInv, Kept
  <2> QED
    BY <2>1, <2>2
<1>3. AckInv'
  <2> SUFFICES ASSUME NEW p \in (ToSet(frames') \union ToSet(c2s')) \intersect Frames
               PROVE  \E f \in Sent(p.id)' : delivered'[f.msg] > 0
    BY DEF AckInv
  <2>1. p.id \in UnderWay'
    BY DEF UnderWay, IdsOf
  <2>2. \E f \in Sent(p.id) : delivered[f.msg] > 0
    BY DEF DInv, AckInv, Kept
  <2> QED
    BY <2>1, <2>2
<1> QED
  BY <1>1, <1>2, <1>3 DEF DInv

\* PUBACK and PUBCOMP: the message the broker is let go of was delivered.
LEMMA BrokerSettleDInv ==
    ASSUME TypeOK, ConnectionInv, DInv, NEW t \in {"PUBACK", "PUBCOMP"}, BrokerSettle(t)
    PROVE  DInv'
<1>1. PICK p : p = Head(c2s)
  OBVIOUS
<1>2. PICK done : done = {f \in inflight : Acknowledges(p, f)}
  OBVIOUS
<1>3. /\ c2s /= <<>> /\ c2s' = Tail(c2s) /\ p.type = t
      /\ UNCHANGED <<frames, offered, delivered, s2c>>
      /\ inflight' = inflight \ done /\ settled' = settled \union {f.msg : f \in done}
  BY <1>1, <1>2 DEF BrokerSettle, Receives, BrokerKeeps, client
<1>4. p \in ClientPackets /\ ToSet(c2s') \subseteq ToSet(c2s)
  BY <1>1, <1>3, Received DEF TypeOK, NetTypeOK
<1>5. t = "PUBACK" => p \in Frames
  BY <1>3, <1>4 DEF ClientPackets, ClientTypes, Frames
<1>6. \A f \in done : delivered[f.msg] > 0
  <2>1. CASE t = "PUBACK"
    BY <1>1, <1>2, <1>3, <1>5, <2>1, AckTaken DEF Acknowledges
  <2>2. CASE t = "PUBCOMP"
    BY <1>2, <1>3, <2>2 DEF Acknowledges, DInv, ReleasedWasDelivered
  <2> QED
    BY <2>1, <2>2
<1>7. ASSUME NEW id \in UnderWay' PROVE Sent(id) \subseteq Sent(id)'
  <2>1. CASE t = "PUBACK"
    <3>1. p.id \notin UnderWay'
      BY <1>1, <1>3, <1>5, <2>1, AckTaken DEF UnderWay
    <3>2. \A f \in done : f.id /= id
      BY <1>2, <1>7, <3>1 DEF Acknowledges
    <3> QED
      BY <1>3, <3>2 DEF Sent
  <2>2. CASE t = "PUBCOMP"
    <3>1. \A f \in done : f.phase = "rel"
      BY <1>2, <1>3, <2>2 DEF Acknowledges
    <3> QED
      BY <1>3, <3>1 DEF Sent
  <2> QED
    BY <2>1, <2>2
<1>8. FlightInv'
  BY <1>2, <1>3 DEF DInv, FlightInv
<1>9. ReleasedWasDelivered'
  BY <1>3, <1>6 DEF DInv, ReleasedWasDelivered
<1> QED
  BY <1>3, <1>7, <1>8, <1>9, KeptSame, ReceiveKept, KeepDInv

\* PUBREC: so was the message that the broker now asks to release.
LEMMA BrokerPubrecDInv ==
    TypeOK /\ ConnectionInv /\ DInv /\ BrokerPubrec => DInv'
<1> SUFFICES ASSUME TypeOK, ConnectionInv, DInv, BrokerPubrec PROVE DInv'
  OBVIOUS
<1> DEFINE Released(f) == [f EXCEPT !.phase = "rel"]
<1>1. PICK p : p = Head(c2s)
  OBVIOUS
<1>2. PICK got : got = {f \in inflight : Acknowledges(p, f)}
  OBVIOUS
<1>3. /\ c2s /= <<>> /\ c2s' = Tail(c2s) /\ p.type = "PUBREC"
      /\ UNCHANGED <<frames, offered, delivered, settled>>
      /\ inflight' = (inflight \ got) \union {Released(f) : f \in got}
      /\ s2c' = s2c \/ s2c' = ToClient(Control("PUBREL", p.id))
  BY <1>1, <1>2 DEF BrokerPubrec, Receives, BrokerKeeps, client
<1>4. p \in ClientPackets /\ p.id \in MsgIds
  BY <1>1, <1>3, Received DEF TypeOK, NetTypeOK
<1>5. p \in Frames
  BY <1>3, <1>4 DEF ClientPackets, ClientTypes, Frames
<1>6. Kept(s2c', s2c, Messages)
  <2>1. Control("PUBREL", p.id) \in BrokerPackets /\ Control("PUBREL", p.id) \notin Messages
    BY <1>4, BrokerPacketType, NotFrames DEF BrokerTypes
  <2> QED
    BY <1>3, <2>1, ToClientKept, KeptSame
<1>7. \A f \in got : f \in inflight /\ f.id = p.id /\ delivered[f.msg] > 0
  BY <1>1, <1>2, <1>3, <1>5, AckTaken DEF Acknowledges
<1>8. \A f \in got : Released(f).id = f.id /\ Released(f).msg = f.msg
  BY <1>7 DEF TypeOK, BrokerTypeOK, Flights
<1> HIDE DEF Released
<1>9. ASSUME NEW id \in UnderWay' PROVE Sent(id) \subseteq Sent(id)'
  <2>1. p.id \notin UnderWay'
    <3>1. IdsOf(s2c', Messages) \subseteq IdsOf(s2c, Messages)
      BY <1>6, KeptIds
    <3> QED
      BY <1>1, <1>3, <1>5, <3>1, AckTaken DEF UnderWay
  <2>2. \A f \in got : f.id /= id
    BY <1>7, <1>9, <2>1
  <2> QED
    BY <1>3, <2>2 DEF Sent
<1>10. \A f \in inflight' : \/ f \in inflight \ got
                            \/ \E g \in got : f = Released(g) /\ f.id = g.id /\ f.msg = g.msg
  BY <1>3, <1>8
<1>11. FlightInv'
  <2>1. ASSUME NEW f \in inflight', NEW g \in inflight', f.id = g.id \/ f.msg = g.msg
        PROVE  f = g
    <3>1. PICK ff \in inflight : /\ f.id = ff.id /\ f.msg = ff.msg
                                 /\ f = IF ff \in got THEN Released(ff) ELSE ff
      BY <1>7, <1>10
    <3>2. PICK gg \in inflight : /\ g.id = gg.id /\ g.msg = gg.msg
                                 /\ g = IF gg \in got THEN Released(gg) ELSE gg
      BY <1>7, <1>10
    <3>3. ff = gg
      BY <2>1, <3>1, <3>2 DEF DInv, FlightInv
    <3> QED
      BY <3>1, <3>2, <3>3
  <2>2. \A f \in inflight' : f.msg \in offered' \ settled' /\ InQos[f.msg] > 0
    BY <1>3, <1>7, <1>10 DEF DInv, FlightInv
  <2>3. settled' \subseteq offered'
    BY <1>3 DEF DInv, FlightInv
  <2> QED
    BY <2>1, <2>2, <2>3 DEF FlightInv
<1>12. ReleasedWasDelivered'
  BY <1>3, <1>7, <1>10 DEF DInv, ReleasedWasDelivered
<1> QED
  BY <1>3, <1>6, <1>9, <1>11, <1>12, ReceiveKept, KeepDInv

\* The broker sends a message under an id that nothing under way bears.
LEMMA SendDInv ==
    ASSUME TypeOK, DInv,
           UNCHANGED <<c2s, frames, delivered, settled>>, offered \subseteq offered',
           NEW f, f \in Flights, f.phase = "pub", f.sent,
           s2c' = ToClient(Publish(InQos[f.msg], f.id, f.msg)),
           f.id \notin UnderWay,
           \A g \in inflight : g.id = f.id => ~g.sent,
           inflight' = {g \in inflight : g.id /= f.id} \union {f},
           FlightInv'
    PROVE  DInv'
<1>1. PICK p : p = Publish(InQos[f.msg], f.id, f.msg)
  OBVIOUS
<1>2. /\ f.msg \in InMsgs /\ f.id \in MsgIds /\ InQos[f.msg] \in 0..2
      /\ p.id = f.id /\ p.body = f.msg
  BY <1>1, FlightType DEF Publish
<1>3. p \in BrokerPackets
  BY <1>1, <1>2, BrokerPacketType
<1>4. /\ Once(s2c', Messages)
      /\ IdsOf(s2c', Messages) \subseteq IdsOf(s2c, Messages) \union {f.id}
      /\ ToSet(s2c') \subseteq ToSet(s2c) \union {p}
  <2>1. /\ Once(Append(s2c, p), Messages)
        /\ IdsOf(Append(s2c, p), Messages) \subseteq IdsOf(s2c, Messages) \union {p.id}
        /\ ToSet(Append(s2c, p)) = ToSet(s2c) \union {p}
    <3>1. Once(s2c, Messages) /\ p.id \notin IdsOf(s2c, Messages)
      BY <1>2 DEF DInv, OnceInv, UnderWay
    <3> QED
      BY <1>3, <3>1, KeptByAppend, HeldByAppend DEF TypeOK, NetTypeOK
  <2>2. s2c' = s2c \/ s2c' = Append(s2c, p)
    BY <1>1 DEF ToClient
  <2> QED
    BY <1>2, <2>1, <2>2 DEF DInv, OnceInv
<1>5. OnceInv'
  BY <1>4 DEF DInv, OnceInv, UnderWay
<1>6. \A id : id /= f.id => Sent(id) \subseteq Sent(id)'
  BY DEF Sent
<1>7. f \in Sent(f.id)'
  BY DEF Sent
<1>8. MessageInv'
  <2> SUFFICES ASSUME NEW a \in ToSet(s2c') \intersect Messages
               PROVE  \E g \in Sent(a.id)' : g.msg = a.body
    BY DEF MessageInv
  <2>1. CASE a = p
    BY <1>2, <1>7, <2>1
  <2>2. CASE a /= p
    <3>1. a \in ToSet(s2c) \intersect Messages
      BY <1>4, <2>2
    <3>2. a.id /= f.id
      BY <3>1 DEF UnderWay, IdsOf
    <3> QED
      BY <1>6, <3>1, <3>2 DEF DInv, MessageInv
  <2> QED
    BY <2>1, <2>2
<1>9. AckInv'
  <2> SUFFICES ASSUME NEW a \in (ToSet(frames) \union ToSet(c2s)) \intersect Frames
               PROVE  \E g \in Sent(a.id)' : delivered[g.msg] > 0
    BY DEF AckInv
  <2>1. a.id /= f.id
    BY DEF UnderWay, IdsOf
  <2> QED
    BY <1>6, <2>1 DEF DInv, AckInv
<1>10. ReleasedWasDelivered'
  BY DEF DInv, ReleasedWasDelivered
<1>11. StackInv'
  BY DEF DInv, StackInv
<1> QED
  BY <1>5, <1>8, <1>9, <1>10, <1>11 DEF DInv

\* Each id under way belongs to a flight that has been sent.
LEMMA UnderWaySent ==
    ASSUME DInv, NEW id \in UnderWay
    PROVE  Sent(id) /= {}
<1>1. CASE id \in IdsOf(s2c, Messages)
  BY <1>1 DEF IdsOf, DInv, MessageInv
<1>2. CASE id \in IdsOf(frames, Frames) \union IdsOf(c2s, Frames)
  BY <1>2 DEF IdsOf, DInv, AckInv
<1> QED
  BY <1>1, <1>2 DEF UnderWay

LEMMA BrokerPublishDInv ==
    ASSUME TypeOK, DInv, NEW m \in InMsgs, BrokerPublish(m)
    PROVE  DInv'
<1>1. /\ UNCHANGED <<c2s, frames, delivered, settled>>
      /\ m \notin offered /\ offered' = offered \union {m}
  BY DEF BrokerPublish, client
<1>2. CASE InQos[m] = 0
  <2>1. s2c' = ToClient(Publish(0, 0, m)) /\ inflight' = inflight
    BY <1>2 DEF BrokerPublish
  <2>2. Publish(0, 0, m) \in BrokerPackets /\ Publish(0, 0, m) \notin Messages
    BY BrokerPacketType, ClientPacketType, NotFrames
  <2>3. Kept(s2c', s2c, Messages)
    BY <2>1, <2>2, ToClientKept
  <2> QED
    BY <1>1, <2>1, <2>3, KeptSame, QuietDelivery
       DEF TypeOK, BrokerTypeOK, RecordTypeOK, DInv, StackInv
<1>3. CASE InQos[m] /= 0
  <2>1. PICK id \in BrokerIds \ {f.id : f \in inflight} :
          /\ s2c' = ToClient(Publish(InQos[m], id, m))
          /\ inflight' = inflight \union {[msg |-> m, id |-> id, phase |-> "pub", sent |-> TRUE]}
    BY <1>3 DEF BrokerPublish
  <2>2. PICK f : f = [msg |-> m, id |-> id, phase |-> "pub", sent |-> TRUE]
    OBVIOUS
  <2>3. f \in Flights /\ f.msg = m /\ f.id = id /\ f.phase = "pub" /\ f.sent
    BY <2>2 DEF Flights
  <2>4. \A g \in inflight : g.id /= id
    BY <2>1
  <2>5. inflight' = {g \in inflight : g.id /= f.id} \union {f}
    BY <2>1, <2>2, <2>3, <2>4
  <2>6. id \notin UnderWay
    BY <2>4, UnderWaySent DEF Sent
  <2>7. \A g \in inflight : g.msg /= m
    BY <1>1 DEF DInv, FlightInv
  <2>8. InQos[m] > 0
    BY <1>3, SessionAssumption
  <2>9. FlightInv'
    <3>1. \A g \in inflight' : g \in inflight \/ g = f
      BY <2>1, <2>2
    <3>2. \A g, h \in inflight' : g.id = h.id \/ g.msg = h.msg => g = h
      BY <2>3, <2>4, <2>7, <3>1 DEF DInv, FlightInv
    <3>3. \A g \in inflight' : g.msg \in offered' \ settled' /\ InQos[g.msg] > 0
      BY <1>1, <2>3, <2>8, <3>1 DEF DInv, FlightInv
    <3>4. settled' \subseteq offered'
      BY <1>1 DEF DInv, FlightInv
    <3> QED
      BY <3>2, <3>3, <3>4 DEF FlightInv
  <2> QED
    BY <1>1, <2>1, <2>3, <2>4, <2>5, <2>6, <2>9, SendDInv
<1> QED
  BY <1>2, <1>3

\* A kept session: what had not been acknowledged on the last connection has
\* nothing under way on this one.
LEMMA BrokerResendDInv ==
    ASSUME TypeOK, DInv, NEW f \in inflight, BrokerResend(f)
    PROVE  DInv'
<1>1. PICK g : g = [f EXCEPT !.sent = TRUE]
  OBVIOUS
<1>2. f \in Flights
  BY DEF TypeOK, BrokerTypeOK
<1>3. /\ g \in Flights /\ g.id = f.id /\ g.msg = f.msg /\ g.phase = f.phase /\ g.sent
      /\ f.id \in MsgIds
  BY <1>1, <1>2, FlightType DEF Flights
<1>4. /\ UNCHANGED <<c2s, frames, delivered, settled, offered>> /\ ~f.sent
      /\ inflight' = (inflight \ {f}) \union {g}
  BY <1>1 DEF BrokerResend, client, inward
<1>5. \A h \in inflight : h.id = f.id \/ h.msg = f.msg => h = f
  BY DEF DInv, FlightInv
<1>6. f.id \notin UnderWay
  BY <1>4, <1>5, UnderWaySent DEF Sent
<1>7. FlightInv'
  <2>1. \A h \in inflight' : \/ h \in inflight /\ h /= f
                             \/ h = g
    BY <1>4
  <2> QED
    BY <1>3, <1>4, <1>5, <2>1 DEF DInv, FlightInv
<1>8. CASE f.phase = "pub"
  <2>1. s2c' = ToClient(Publish(InQos[g.msg], g.id, g.msg))
    BY <1>3, <1>8 DEF BrokerResend
  <2>2. inflight' = {h \in inflight : h.id /= g.id} \union {g}
    BY <1>3, <1>4, <1>5
  <2>3. \A h \in inflight : h.id = g.id => ~h.sent
    BY <1>3, <1>4, <1>5
  <2> QED
    BY <1>3, <1>4, <1>6, <1>7, <1>8, <2>1, <2>2, <2>3, SendDInv
<1>9. CASE f.phase /= "pub"
  <2>1. s2c' = ToClient(Control("PUBREL", f.id))
    BY <1>9 DEF BrokerResend
  <2>2. Control("PUBREL", f.id) \in BrokerPackets /\ Control("PUBREL", f.id) \notin Messages
    BY <1>3, BrokerPacketType, NotFrames DEF BrokerTypes
  <2>3. Kept(s2c', s2c, Messages)
    BY <2>1, <2>2, ToClientKept
  <2>4. \A id : Sent(id) \subseteq Sent(id)'
    BY <1>4, <1>9 DEF Sent
  <2>5. ReleasedWasDelivered'
    BY <1>3, <1>4 DEF DInv, ReleasedWasDelivered
  <2>6. StackInv'
    BY <1>4 DEF DInv, StackInv
  <2> QED
    BY <1>4, <1>7, <2>3, <2>4, <2>5, <2>6, KeptSame, KeepDInv
<1> QED
  BY <1>8, <1>9

LEMMA BrokerPingDInv == TypeOK /\ DInv /\ BrokerPing => DInv'
<1> SUFFICES ASSUME TypeOK, DInv, BrokerPing PROVE DInv'
  OBVIOUS
<1>1. /\ UNCHANGED <<c2s, frames, delivered, settled, offered, inflight>>
      /\ s2c' = ToClient(Control("PINGREQ", 0))
  BY DEF BrokerPing, client, broker, inward
<1>2. Control("PINGREQ", 0) \in BrokerPackets /\ Control("PINGREQ", 0) \notin Messages
  BY BrokerPacketType, ClientPacketType, NotFrames DEF BrokerTypes
<1>3. Kept(s2c', s2c, Messages)
  BY <1>1, <1>2, ToClientKept
<1> QED
  BY <1>1, <1>3, KeptSame, QuietDelivery
     DEF TypeOK, BrokerTypeOK, RecordTypeOK, DInv, StackInv

------------------------------------------------------------------------------
\* One step per group of actions.
LEMMA NextDInv ==
    ASSUME ~CallbackMayReconnect, TypeOK, ConnectionInv, DInv, [Next]_vars
    PROVE  DInv'
<1>1. CASE \/ AddQosCallback \/ ConnectStart \/ ConnectFail \/ ConnectEnd \/ Disconnect
           \/ LoopTimeout \/ Drop \/ Reset \/ UNCHANGED vars
  BY <1>1, QuietStepDInv
<1>2. CASE \/ \E q \in 0..2, wantId \in WantIds : PublishCall(q, wantId)
           \/ Subscribe \/ Unsubscribe \/ LoopIdle
  BY <1>2, CallDInv
<1>3. CASE LoopRead \/ CallbackReturn
  BY <1>3, LoopReadDInv, CallbackReturnDInv
<1>4. CASE BrokerReceive
  <2>1. CASE BrokerAccept
    BY <2>1, BrokerAcceptDInv
  <2>2. CASE BrokerSettle("PUBACK") \/ BrokerSettle("PUBCOMP")
    BY <2>2, BrokerSettleDInv
  <2>3. CASE BrokerPubrec
    BY <2>3, BrokerPubrecDInv
  <2>4. CASE ~(BrokerAccept \/ BrokerSettle("PUBACK") \/ BrokerSettle("PUBCOMP") \/ BrokerPubrec)
    BY <1>4, <2>4, QuietBrokerDInv DEF BrokerReceive
  <2> QED
    BY <2>1, <2>2, <2>3, <2>4
<1>5. CASE BrokerSend
  BY <1>5, BrokerPublishDInv, BrokerResendDInv, BrokerPingDInv DEF BrokerSend
<1> QED
  BY <1>1, <1>2, <1>3, <1>4, <1>5 DEF Next, ApplicationStep

LEMMA DeliveryInvariant ==
    ASSUME ~CallbackMayReconnect
    PROVE  Spec => [](TypeOK /\ ConnectionInv /\ DInv)
<1>1. Init => TypeOK /\ ConnectionInv /\ DInv
  BY InitTypeOK, InitConnectionInv, InitDInv
<1>2. TypeOK /\ ConnectionInv /\ DInv /\ [Next]_vars => (TypeOK /\ ConnectionInv /\ DInv)'
  BY NextTypeOK, NextConnectionInv, NextDInv
<1> QED
  BY <1>1, <1>2, PTL DEF Spec

\* For kept and for clean sessions, and whatever connections break, devices
\* reset and packets are lost: the broker lets go of a message only after the
\* message callback ran for it, as long as the callback does not open a new
\* connection (loop() acknowledges after the callback returns).
THEOREM ReleasedIsDelivered ==
    ASSUME ~CallbackMayReconnect
    PROVE  Spec => []ReleasedWasDelivered
<1>1. DInv => ReleasedWasDelivered
  BY DEF DInv
<1> QED
  BY <1>1, DeliveryInvariant, PTL

------------------------------------------------------------------------------
(* Session implements Assurance *)

Offers == {p \in BrokerPackets : p.type = "PUBLISH"}
Submissions == {p \in ClientPackets : p.type = "PUBLISH"}

\* A message of QoS 2 that is still on its way has not been delivered.
OfferInv ==
    /\ \A p \in ToSet(s2c) \intersect Offers :
          /\ p.body \in offered
          /\ p.qos = InQos[p.body]
          /\ p.qos = 2 => delivered[p.body] = 0
    /\ \A m \in InMsgs : delivered[m] > 0 => m \in offered

SubmitInv ==
    /\ submitted = 1..used.calls
    /\ \A p \in ToSet(c2s) \intersect Submissions : p.body \in submitted

\* Nothing is sent again in a clean session.
CleanInv == \A f \in inflight : f.sent

PInv ==
    /\ OfferInv
    /\ SubmitInv
    /\ CleanInv
    /\ Qos2AtMostOnce

LEMMA InitPInv == Init => PInv
<1> SUFFICES ASSUME Init PROVE PInv
  OBVIOUS
<1>1. /\ c2s = <<>> /\ s2c = <<>> /\ inflight = {} /\ submitted = {} /\ used.calls = 0
      /\ delivered = [m \in InMsgs |-> 0]
  BY DEF Init
<1>2. 1..used.calls = {}
  BY <1>1
<1> QED
  BY <1>1, <1>2, HeldByEmpty DEF PInv, OfferInv, SubmitInv, CleanInv, Qos2AtMostOnce

\* A step that hands over no publish and no message.
LEMMA QuietPInv ==
    ASSUME PInv, UNCHANGED <<submitted, offered, delivered>>, used'.calls = used.calls,
           \A f \in inflight' : f.sent,
           Kept(s2c', s2c, Offers), Kept(c2s', c2s, Submissions)
    PROVE  PInv'
<1>1. OfferInv'
  BY DEF PInv, OfferInv, Kept
<1>2. SubmitInv'
  BY DEF PInv, SubmitInv, Kept
<1>3. Qos2AtMostOnce'
  BY DEF PInv, Qos2AtMostOnce
<1> QED
  BY <1>1, <1>2, <1>3 DEF PInv, CleanInv

\* The application, the faults and connect().
LEMMA QuietStepPInv ==
    ASSUME TypeOK, PInv,
           \/ AddQosCallback \/ ConnectStart \/ ConnectFail \/ ConnectEnd \/ Disconnect
           \/ LoopTimeout \/ Drop \/ Reset \/ UNCHANGED vars
    PROVE  PInv'
<1>1. UNCHANGED <<submitted, offered, delivered, inflight>> /\ used'.calls = used.calls
  BY DEF AddQosCallback, ConnectStart, ConnectFail, ConnectEnd, ConnectFinish,
     ConnectTimeout, Disconnect, LoopTimeout, Drop, Reset, broker, inward, outward, vars,
     TypeOK, RecordTypeOK, Budget
<1>2. CASE AddQosCallback \/ ConnectFail \/ UNCHANGED vars
  <2>1. UNCHANGED <<c2s, s2c>>
    BY <1>2 DEF AddQosCallback, ConnectFail, vars
  <2> QED
    BY <1>1, <2>1, KeptSame, QuietPInv DEF PInv, CleanInv
<1>3. CASE ConnectStart
  <2>1. c2s' = <<Hello>> /\ s2c' = <<>>
    BY <1>3 DEF ConnectStart, Hello
  <2>2. Hello \notin Submissions
    BY NotFrames DEF Submissions
  <2>3. Kept(c2s', c2s, Submissions)
    BY <2>1, <2>2, HeldByOne DEF Kept, Once
  <2> QED
    BY <1>1, <2>1, <2>3, KeptByEmpty, QuietPInv DEF PInv, CleanInv
<1>4. CASE ConnectEnd \/ Disconnect \/ LoopTimeout
  <2>1. Close \/ (s2c /= <<>> /\ s2c' = Tail(s2c) /\ c2s' = c2s)
    BY <1>4 DEF ConnectEnd, ConnectFinish, ConnectTimeout, Disconnect, LoopTimeout
  <2>2. Kept(s2c', s2c, Offers) /\ Kept(c2s', c2s, Submissions)
    <3>1. CASE Close
      <4>1. \A p \in Submissions : p.type /= "DISCONNECT"
        BY DEF Submissions
      <4>2. s2c' = <<>>
        BY <3>1 DEF Close
      <4> QED
        BY <3>1, <4>1, <4>2, CloseWrites, KeptByEmpty
    <3>2. CASE s2c /= <<>> /\ s2c' = Tail(s2c) /\ c2s' = c2s
      BY <3>2, KeptByTail, KeptSame DEF TypeOK, NetTypeOK
    <3> QED
      BY <2>1, <3>1, <3>2
  <2> QED
    BY <1>1, <2>2, QuietPInv DEF PInv, CleanInv
<1>5. CASE Drop
  <2>1. PICK k \in 0..Len(s2c) : s2c' = SubSeq(s2c, 1, k)
    BY <1>5 DEF Drop
  <2>2. c2s' = <<>>
    BY <1>5 DEF Drop
  <2> QED
    BY <1>1, <2>1, <2>2, KeptByEmpty, KeptByPrefix, QuietPInv
       DEF TypeOK, NetTypeOK, PInv, CleanInv
<1>6. CASE Reset
  <2>1. c2s' = c2s /\ s2c' = <<>>
    BY <1>6 DEF Reset
  <2> QED
    BY <1>1, <2>1, KeptSame, KeptByEmpty, QuietPInv DEF PInv, CleanInv
<1> QED
  BY <1>2, <1>3, <1>4, <1>5, <1>6

\* publish(): one call more.
LEMMA PublishCallPInv ==
    ASSUME IInv, TypeOK', PInv, NEW q \in 0..2, NEW wantId \in WantIds, PublishCall(q, wantId)
    PROVE  /\ PInv'
           /\ used.calls + 1 \in Calls \ submitted
<1>1. PICK p : /\ p = Publish(q, IF q = 0 THEN 0 ELSE NewMsgId, used.calls + 1)
               /\ c2s' = NetWrite(<<p>>)
  BY DEF PublishCall
<1>2. /\ used.calls < MaxCalls /\ used' = [used EXCEPT !.calls = @ + 1]
      /\ submitted' = submitted \union {used.calls + 1}
      /\ UNCHANGED <<s2c, inflight, offered, delivered>>
  BY DEF PublishCall, broker, inward
<1>3. used.calls \in Nat /\ used'.calls = used.calls + 1
  BY <1>2 DEF IInv, TypeOK, RecordTypeOK, Budget
<1>4. used.calls + 1 \in Calls /\ used.calls + 1 \notin 1..used.calls
      /\ 1..(used.calls + 1) = (1..used.calls) \union {used.calls + 1}
  BY <1>2, <1>3, SessionAssumption DEF Calls
<1>5. ToSet(c2s') \subseteq ToSet(c2s) \union {p} /\ p.body = used.calls + 1
  <2>1. NewMsgId \in MsgIds /\ 0 \in MsgIds
    BY SessionAssumption, ClientPacketType DEF IInv, TypeOK, ClientTypeOK, NewMsgId, MsgIds
  <2>2. p \in ClientPackets /\ p.body = used.calls + 1
    BY <1>1, <1>4, <2>1, ClientPacketType DEF Publish
  <2>3. <<p>> \in Seq(ClientPackets) /\ ToSet(<<p>>) = {p}
    BY <2>2, HeldByOne
  <2> QED
    BY <1>1, <2>2, <2>3, NetWriteHolds DEF IInv, TypeOK, NetTypeOK
<1>6. SubmitInv'
  BY <1>2, <1>3, <1>4, <1>5 DEF PInv, SubmitInv
<1>7. OfferInv' /\ CleanInv' /\ Qos2AtMostOnce'
  BY <1>2 DEF PInv, OfferInv, CleanInv, Qos2AtMostOnce
<1> QED
  BY <1>4, <1>6, <1>7 DEF PInv, SubmitInv

\* subscribe(), unsubscribe(), loop() with nothing to read, and the
\* acknowledgment of a callback that returns.
LEMMA CallPInv ==
    ASSUME TypeOK, PInv, Subscribe \/ Unsubscribe \/ LoopIdle \/ CallbackReturn
    PROVE  PInv'
<1>1. /\ UNCHANGED <<submitted, offered, delivered, inflight, s2c>>
      /\ used'.calls = used.calls
  BY DEF Subscribe, Unsubscribe, FilterCall, LoopIdle, MayPing, CallbackReturn, broker,
     inward, outward, TypeOK, RecordTypeOK, Budget
<1>2. \E ps \in Seq(ClientPackets) :
        c2s' = NetWrite(ps) /\ \A p \in ToSet(ps) : p.type /= "PUBLISH"
  <2>1. CASE Subscribe \/ Unsubscribe
    <3>1. PICK t \in {"SUBSCRIBE", "UNSUBSCRIBE"} : FilterCall(t)
      BY <2>1 DEF Subscribe, Unsubscribe
    <3>2. PICK id : c2s' = NetWrite(<<Control(t, id)>>)
                    /\ id = IF (nextMsgId + 1) % IdMod = 0 THEN 1 ELSE (nextMsgId + 1) % IdMod
      BY <3>1 DEF FilterCall
    <3>3. id \in MsgIds
      BY <3>2, SessionAssumption DEF MsgIds, TypeOK, ClientTypeOK
    <3>4. Control(t, id) \in ClientPackets /\ Control(t, id).type /= "PUBLISH"
      BY <3>3, ClientPacketType DEF ClientTypes, Control
    <3>5. <<Control(t, id)>> \in Seq(ClientPackets)
          /\ ToSet(<<Control(t, id)>>) = {Control(t, id)}
      BY <3>4, HeldByOne
    <3> QED
      BY <3>2, <3>4, <3>5
  <2>2. CASE LoopIdle
    BY <2>2, Pinged DEF LoopIdle, Control
  <2>3. CASE CallbackReturn
    <3>1. Last(frames) \in Frames /\ c2s' = NetWrite(<<Last(frames)>>)
      BY <2>3, PopProperties DEF TypeOK, ClientTypeOK, CallbackReturn
    <3>2. Last(frames) \in ClientPackets /\ Last(frames).type /= "PUBLISH"
      BY <3>1, NotFrames DEF Frames
    <3>3. <<Last(frames)>> \in Seq(ClientPackets) /\ ToSet(<<Last(frames)>>) = {Last(frames)}
      BY <3>2, HeldByOne
    <3> QED
      BY <3>1, <3>2, <3>3
  <2> QED
    BY <2>1, <2>2, <2>3
<1>3. Kept(c2s', c2s, Submissions)
  BY <1>2, NetWriteKept DEF Submissions
<1> QED
  BY <1>1, <1>3, KeptSame, QuietPInv DEF PInv, CleanInv

\* A message of QoS 2 that has been read is on its way once only.
LEMMA MessageTaken ==
    ASSUME TypeOK, DInv, PInv, s2c /= <<>>,
           NEW q \in ToSet(Tail(s2c)) \intersect Offers,
           Head(s2c) \in Offers, q.body = Head(s2c).body
    PROVE  q.qos /= 2
<1> SUFFICES ASSUME q.qos = 2 PROVE FALSE
  OBVIOUS
<1>1. PICK p : p = Head(s2c)
  OBVIOUS
<1>2. p \in ToSet(s2c) /\ q \in ToSet(s2c)
  BY <1>1, Read DEF TypeOK, NetTypeOK
<1>3. p.qos = 2
  BY <1>1, <1>2 DEF PInv, OfferInv
<1>4. p \in Messages /\ q \in Messages
  BY <1>1, <1>3 DEF Offers, Messages, BrokerPackets, BrokerTypes
<1>5. (\E f \in Sent(p.id) : f.msg = p.body) /\ (\E f \in Sent(q.id) : f.msg = q.body)
  BY <1>2, <1>4 DEF DInv, MessageInv
<1>6. q.id = p.id
  BY <1>1, <1>5 DEF DInv, FlightInv, Sent
<1>7. q.id \in IdsOf(Tail(s2c), Messages)
  BY <1>4 DEF IdsOf
<1> QED
  BY <1>1, <1>4, <1>6, <1>7, IdTaken

\* What loop() does of what Assurance speaks of: it runs the callback for a
\* message offered, a QoS 2 one not delivered before, or reports a publish()
\* that is stored, or neither.
LEMMA LoopReadPromise ==
    ASSUME IInv, DInv, PInv, LoopRead
    PROVE  /\ UNCHANGED <<submitted, stored, offered, settled, inflight>>
           /\ \/ UNCHANGED <<delivered, confirmed>>
              \/ /\ Head(s2c) \in Offers
                 /\ Head(s2c).body \in offered
                 /\ InQos[Head(s2c).body] = 2 => delivered[Head(s2c).body] = 0
                 /\ delivered' = [delivered EXCEPT ![Head(s2c).body] = @ + 1]
                 /\ confirmed' = confirmed
              \/ /\ delivered' = delivered
                 /\ \E n \in stored : confirmed' = confirmed \union {n}
<1>1. PICK p : p = Head(s2c)
  OBVIOUS
<1>2. /\ UNCHANGED <<submitted, stored, offered, settled, inflight>> /\ s2c /= <<>>
      /\ Deliver(p) /\ Report(p)
  BY <1>1 DEF LoopRead, broker
<1>3. p \in BrokerPackets /\ p \in ToSet(s2c)
  BY <1>1, <1>2, Read DEF IInv, TypeOK, NetTypeOK
<1>4. CASE p.type = "PUBLISH"
  <2>1. p \in Offers
    BY <1>3, <1>4 DEF Offers
  <2>2. /\ p.body \in offered
        /\ InQos[p.body] = 2 => delivered[p.body] = 0
    BY <1>3, <2>1 DEF PInv, OfferInv
  <2>3. confirmed' = confirmed
    BY <1>2, <1>4 DEF Report
  <2>4. delivered' = delivered \/ delivered' = [delivered EXCEPT ![p.body] = @ + 1]
    BY <1>2 DEF Deliver
  <2> QED
    BY <1>1, <1>2, <2>1, <2>2, <2>3, <2>4
<1>5. CASE p.type /= "PUBLISH"
  <2>1. delivered' = delivered
    BY <1>2, <1>5 DEF Deliver
  <2>2. \/ confirmed' = confirmed
        \/ /\ p.type \in {"PUBACK", "PUBCOMP"} /\ callOf[p.id] > 0
           /\ confirmed' = confirmed \union {callOf[p.id]}
    BY <1>2, Zenon DEF Report
  <2>3. p.type \in {"PUBACK", "PUBCOMP"} /\ callOf[p.id] > 0 => callOf[p.id] \in stored
    BY <1>3 DEF IInv, AnswerInv, SafeAnswer, SafeId
  <2> QED
    BY <1>2, <2>1, <2>2, <2>3
<1> QED
  BY <1>4, <1>5

LEMMA LoopReadPInv ==
    ASSUME IInv, DInv, PInv, LoopRead
    PROVE  PInv'
<1>1. PICK p : p = Head(s2c)
  OBVIOUS
<1>2. /\ TypeOK /\ s2c /= <<>> /\ s2c' = Tail(s2c)
      /\ UNCHANGED <<submitted, offered, inflight>>
  BY DEF LoopRead, IInv, broker
<1>3. used'.calls = used.calls
  BY <1>2, Pinged DEF LoopRead
<1>4. Kept(s2c', s2c, Offers)
  BY <1>2, KeptByTail DEF TypeOK, NetTypeOK
<1>5. Kept(c2s', c2s, Submissions)
  BY <1>2, LoopReadWrites, NetWriteKept DEF Submissions
<1>6. CASE delivered' = delivered
  BY <1>2, <1>3, <1>4, <1>5, <1>6, QuietPInv DEF PInv, CleanInv
<1>7. CASE delivered' /= delivered
  <2>1. /\ p \in Offers /\ p.body \in offered
        /\ InQos[p.body] = 2 => delivered[p.body] = 0
        /\ delivered' = [delivered EXCEPT ![p.body] = @ + 1]
    BY <1>1, <1>7, LoopReadPromise
  <2>2. p.body \in InMsgs /\ delivered \in [InMsgs -> Nat]
    BY <1>2, <2>1 DEF Offers, BrokerPackets, BrokerTypes, TypeOK, RecordTypeOK
  <2>3. \A m \in InMsgs : m /= p.body => delivered'[m] = delivered[m]
    BY <2>1, <2>2
  <2>4. delivered'[p.body] = delivered[p.body] + 1
    BY <2>1, <2>2
  <2>5. OfferInv'
    <3>1. \A q \in ToSet(s2c') \intersect Offers : q.qos = 2 => q.body /= p.body
      BY <1>1, <1>2, <2>1, MessageTaken
    <3>2. \A q \in ToSet(s2c') \intersect Offers : q.body \in InMsgs
      BY DEF Offers, BrokerPackets, BrokerTypes
    <3>3. ToSet(s2c') \intersect Offers \subseteq ToSet(s2c)
      BY <1>4 DEF Kept
    <3>4. \A q \in ToSet(s2c') \intersect Offers :
             /\ q.body \in offered' /\ q.qos = InQos[q.body]
             /\ q.qos = 2 => delivered'[q.body] = 0
      BY <1>2, <2>3, <3>1, <3>2, <3>3 DEF PInv, OfferInv
    <3>5. \A m \in InMsgs : delivered'[m] > 0 => m \in offered'
      BY <1>2, <2>1, <2>3 DEF PInv, OfferInv
    <3> QED
      BY <3>4, <3>5 DEF OfferInv
  <2>6. Qos2AtMostOnce'
    BY <2>1, <2>3, <2>4 DEF PInv, Qos2AtMostOnce
  <2>7. SubmitInv'
    BY <1>2, <1>3, <1>5 DEF PInv, SubmitInv, Kept
  <2> QED
    BY <1>2, <2>5, <2>6, <2>7 DEF PInv, CleanInv
<1> QED
  BY <1>6, <1>7

\* The broker answers with an acknowledgment or not at all.
LEMMA BrokerAnswers ==
    ASSUME TypeOK, BrokerReceive
    PROVE  s2c' = s2c \/ \E t \in BrokerTypes, id \in MsgIds : s2c' = ToClient(Control(t, id))
<1>1. PICK p : p = Head(c2s)
  OBVIOUS
<1>2. c2s /= <<>>
  BY DEF BrokerReceive, BrokerAccept, BrokerRefuse, BrokerIgnore, BrokerStore, BrokerRelease,
     BrokerPubrec, BrokerSettle, BrokerFilter, BrokerPingreq, BrokerPingresp,
     BrokerDisconnect, Receives
<1>3. p \in ClientPackets /\ p.id \in MsgIds /\ 0 \in MsgIds /\ 1 \in MsgIds
  BY <1>1, <1>2, Received, ClientPacketType DEF TypeOK, NetTypeOK
<1>4. CASE BrokerStore
  <2>1. p.qos \in 0..2
    BY <1>1, <1>3, <1>4 DEF BrokerStore, Receives, ClientPackets, ClientTypes
  <2>2. "PUBACK" \in BrokerTypes /\ "PUBREC" \in BrokerTypes
    BY DEF BrokerTypes
  <2>3. s2c' = CASE p.qos = 0 -> s2c
                 [] p.qos = 1 -> ToClient(Control("PUBACK", p.id))
                 [] p.qos = 2 -> ToClient(Control("PUBREC", p.id))
    BY <1>1, <1>4 DEF BrokerStore
  <2> QED
    BY <1>3, <2>1, <2>2, <2>3
<1>5. CASE ~BrokerStore
  <2>1. {"CONNACK", "PUBREL", "PUBCOMP", "SUBACK", "UNSUBACK", "PINGRESP"} \subseteq BrokerTypes
    BY DEF BrokerTypes
  <2> QED
    BY <1>1, <1>3, <1>5, <2>1 DEF BrokerReceive, BrokerAccept, BrokerRefuse, BrokerIgnore,
       BrokerRelease, BrokerPubrec, BrokerSettle, BrokerFilter, BrokerPingreq,
       BrokerPingresp, BrokerDisconnect
<1> QED
  BY <1>4, <1>5

LEMMA BrokerReceivePInv ==
    ASSUME CleanSession, TypeOK, PInv, BrokerReceive
    PROVE  PInv'
<1>1. PICK p : p = Head(c2s)
  OBVIOUS
<1>2. c2s /= <<>> /\ c2s' = Tail(c2s)
  BY DEF BrokerReceive, BrokerAccept, BrokerRefuse, BrokerIgnore, BrokerStore, BrokerRelease,
     BrokerPubrec, BrokerSettle, BrokerFilter, BrokerPingreq, BrokerPingresp,
     BrokerDisconnect, Receives
<1>3. UNCHANGED <<submitted, offered, delivered, used>>
  BY DEF BrokerReceive, BrokerAccept, BrokerRefuse, BrokerIgnore, BrokerStore, BrokerRelease,
     BrokerPubrec, BrokerSettle, BrokerFilter, BrokerPingreq, BrokerPingresp,
     BrokerDisconnect, BrokerKeeps
<1>4. Kept(c2s', c2s, Submissions) /\ p \in ClientPackets /\ p.id \in MsgIds
  BY <1>1, <1>2, KeptByTail, Received DEF TypeOK, NetTypeOK
<1>5. \A f \in inflight' : f.sent
  <2>1. CASE BrokerPubrec
    <3>1. PICK got : /\ got \subseteq inflight
                     /\ inflight' = (inflight \ got) \union {[f EXCEPT !.phase = "rel"] : f \in got}
      BY <2>1 DEF BrokerPubrec
    <3>2. \A f \in got : [f EXCEPT !.phase = "rel"].sent = f.sent
      BY <3>1 DEF TypeOK, BrokerTypeOK, Flights
    <3> QED
      BY <3>1, <3>2 DEF PInv, CleanInv
  <2>2. CASE ~BrokerPubrec
    <3>1. inflight' \subseteq inflight
      BY <2>2 DEF BrokerReceive, BrokerAccept, BrokerRefuse, BrokerIgnore, BrokerStore,
         BrokerRelease, BrokerSettle, BrokerFilter, BrokerPingreq, BrokerPingresp,
         BrokerDisconnect, broker
    <3> QED
      BY <3>1 DEF PInv, CleanInv
  <2> QED
    BY <2>1, <2>2
<1>6. s2c' = s2c \/ \E t \in BrokerTypes, id \in MsgIds : s2c' = ToClient(Control(t, id))
  BY BrokerAnswers
<1>7. Kept(s2c', s2c, Offers)
  <2>1. ASSUME NEW t \in BrokerTypes, NEW id \in MsgIds
        PROVE  Kept(ToClient(Control(t, id)), s2c, Offers)
    <3>1. Control(t, id) \in BrokerPackets /\ Control(t, id) \notin Offers
      BY BrokerPacketType DEF Control, BrokerTypes, Offers
    <3> QED
      BY <3>1, ToClientKept
  <2> QED
    BY <1>6, <2>1, KeptSame
<1> QED
  BY <1>3, <1>4, <1>5, <1>7, QuietPInv

\* A message is sent when it is taken over, and never before.
LEMMA BrokerSendPInv ==
    ASSUME TypeOK, PInv, BrokerSend
    PROVE  PInv'
<1>1. CASE \E m \in InMsgs : BrokerPublish(m)
  <2>1. PICK m \in InMsgs : BrokerPublish(m)
    BY <1>1
  <2>2. /\ m \notin offered /\ offered' = offered \union {m}
        /\ UNCHANGED <<c2s, submitted, delivered, used>>
    BY <2>1 DEF BrokerPublish, outward
  <2>3. PICK id : id \in MsgIds /\ s2c' = ToClient(Publish(InQos[m], id, m))
    <3>1. BrokerIds \subseteq MsgIds /\ 0 \in MsgIds
      BY SessionAssumption DEF MsgIds
    <3> QED
      BY <2>1, <3>1 DEF BrokerPublish
  <2>4. PICK p : p = Publish(InQos[m], id, m)
    OBVIOUS
  <2>5. p \in BrokerPackets /\ p.body = m /\ p.qos = InQos[m]
    BY <2>3, <2>4, SessionAssumption, BrokerPacketType DEF Publish
  <2>6. ToSet(s2c') \subseteq ToSet(s2c) \union {p}
    BY <2>3, <2>4, <2>5, ToClientHolds DEF TypeOK, NetTypeOK
  <2>7. delivered[m] = 0
    <3>1. delivered[m] \in Nat /\ ~(delivered[m] > 0)
      BY <2>2 DEF TypeOK, RecordTypeOK, PInv, OfferInv
    <3> QED
      BY <3>1
  <2>8. OfferInv'
    BY <2>2, <2>5, <2>6, <2>7 DEF PInv, OfferInv
  <2>9. CleanInv'
    <3>1. \A f \in inflight' : f \in inflight \/ f.sent
      BY <2>1 DEF BrokerPublish
    <3> QED
      BY <3>1 DEF PInv, CleanInv
  <2> QED
    BY <2>2, <2>8, <2>9 DEF PInv, SubmitInv, Qos2AtMostOnce
<1>2. CASE \E f \in inflight : BrokerResend(f)
  BY <1>2 DEF BrokerResend, PInv, CleanInv
<1>3. CASE BrokerPing
  <2>1. Control("PINGREQ", 0) \in BrokerPackets /\ Control("PINGREQ", 0) \notin Offers
    BY BrokerPacketType, ClientPacketType DEF BrokerTypes, Control, Offers
  <2>2. Kept(s2c', s2c, Offers)
    BY <1>3, <2>1, ToClientKept DEF BrokerPing
  <2>3. /\ UNCHANGED <<c2s, submitted, offered, delivered, inflight>>
        /\ used'.calls = used.calls
    BY <1>3 DEF BrokerPing, broker, inward, outward, TypeOK, RecordTypeOK, Budget
  <2> QED
    BY <2>2, <2>3, KeptSame, QuietPInv DEF PInv, CleanInv
<1> QED
  BY <1>1, <1>2, <1>3 DEF BrokerSend

LEMMA NextPInv ==
    ASSUME CleanSession, IInv, TypeOK', DInv, PInv, [Next]_vars
    PROVE  PInv'
<1>0. TypeOK
  BY DEF IInv
<1>1. CASE \/ AddQosCallback \/ ConnectStart \/ ConnectFail \/ ConnectEnd \/ Disconnect
           \/ LoopTimeout \/ Drop \/ Reset \/ UNCHANGED vars
  BY <1>0, <1>1, QuietStepPInv
<1>2. CASE \E q \in 0..2, wantId \in WantIds : PublishCall(q, wantId)
  BY <1>2, PublishCallPInv
<1>3. CASE Subscribe \/ Unsubscribe \/ LoopIdle \/ CallbackReturn
  BY <1>0, <1>3, CallPInv
<1>4. CASE LoopRead
  BY <1>4, LoopReadPInv
<1>5. CASE BrokerReceive \/ BrokerSend
  BY <1>0, <1>5, BrokerReceivePInv, BrokerSendPInv
<1> QED
  BY <1>1, <1>2, <1>3, <1>4, <1>5 DEF Next, ApplicationStep

------------------------------------------------------------------------------
LEMMA InitPromise == Init => Promised!Init
BY DEF Init, Promised!Init

\* The broker: it stores what was submitted, and settles what was delivered.
LEMMA BrokerReceivePromise ==
    ASSUME IInv, DInv, DInv', PInv, BrokerReceive
    PROVE  \/ \E n \in Calls : Promised!Store(n)
           \/ \E m \in InMsgs : Promised!Settle(m)
           \/ UNCHANGED Promised!promise
<1>1. CASE BrokerStore
  <2>1. PICK p : p = Head(c2s)
    OBVIOUS
  <2>2. p \in ToSet(c2s) /\ p \in ClientPackets /\ p.type = "PUBLISH"
    BY <1>1, <2>1, Received DEF BrokerStore, Receives, IInv, TypeOK, NetTypeOK
  <2>3. p.body \in submitted /\ p.body \in Calls
    BY <2>2 DEF PInv, SubmitInv, Submissions, ClientPackets, ClientTypes
  <2>4. /\ UNCHANGED <<submitted, confirmed, offered, delivered, settled>>
        /\ stored' = stored \/ stored' = stored \union {p.body}
    BY <1>1, <2>1 DEF BrokerStore, BrokerKeeps
  <2>5. CASE stored' = stored
    BY <2>4, <2>5 DEF Promised!promise
  <2>6. CASE stored' /= stored
    <3>1. p.body \notin stored
      BY <2>4, <2>6
    <3> QED
      BY <2>3, <2>4, <2>6, <3>1 DEF Promised!Store
  <2> QED
    BY <2>5, <2>6
<1>2. CASE BrokerSettle("PUBACK") \/ BrokerSettle("PUBCOMP")
  <2>1. PICK done : /\ done = {f \in inflight : Acknowledges(Head(c2s), f)}
                    /\ settled' = settled \union {f.msg : f \in done}
    BY <1>2 DEF BrokerSettle
  <2>2. UNCHANGED <<submitted, stored, confirmed, offered, delivered>>
    BY <1>2 DEF BrokerSettle, BrokerKeeps
  <2>3. CASE done = {}
    BY <2>1, <2>2, <2>3 DEF Promised!promise
  <2>4. CASE done /= {}
    <3>1. PICK f \in done : TRUE
      BY <2>4
    <3>2. done = {f}
      BY <2>1, <3>1 DEF Acknowledges, DInv, FlightInv
    <3>3. f.msg \in InMsgs /\ f.msg \notin settled
      BY <2>1, <3>1 DEF IInv, TypeOK, BrokerTypeOK, Flights, DInv, FlightInv
    <3>4. settled' = settled \union {f.msg}
      BY <2>1, <3>2
    <3>5. delivered[f.msg] > 0
      BY <2>2, <3>4 DEF DInv, ReleasedWasDelivered
    <3> QED
      BY <2>2, <3>3, <3>4, <3>5 DEF Promised!Settle
  <2> QED
    BY <2>3, <2>4
<1>3. CASE ~(BrokerStore \/ BrokerSettle("PUBACK") \/ BrokerSettle("PUBCOMP"))
  BY <1>3 DEF BrokerReceive, BrokerAccept, BrokerRefuse, BrokerIgnore, BrokerRelease,
     BrokerPubrec, BrokerFilter, BrokerPingreq, BrokerPingresp, BrokerDisconnect,
     BrokerKeeps, Promised!promise
<1> QED
  BY <1>1, <1>2, <1>3

LEMMA NextPromise ==
    ASSUME IInv, TypeOK', DInv, DInv', PInv, [Next]_vars
    PROVE  [Promised!Next]_(Promised!promise)
<1> USE DEF Promised!Next
<1>1. CASE \/ AddQosCallback \/ ConnectStart \/ ConnectFail \/ ConnectEnd \/ Disconnect
           \/ LoopTimeout \/ Drop \/ Reset \/ UNCHANGED vars
           \/ Subscribe \/ Unsubscribe \/ LoopIdle \/ CallbackReturn
  <2>1. UNCHANGED <<outward, inward>>
    BY <1>1 DEF AddQosCallback, ConnectStart, ConnectFail, ConnectEnd, ConnectFinish,
       ConnectTimeout, Disconnect, LoopTimeout, Drop, Reset, vars, Subscribe, Unsubscribe,
       FilterCall, LoopIdle, CallbackReturn
  <2> QED
    BY <2>1 DEF outward, inward, Promised!promise
<1>2. CASE \E q \in 0..2, wantId \in WantIds : PublishCall(q, wantId)
  <2>1. used.calls + 1 \in Calls \ submitted
    BY <1>2, PublishCallPInv
  <2>2. /\ submitted' = submitted \union {used.calls + 1}
        /\ UNCHANGED <<stored, confirmed, offered, delivered, settled>>
    BY <1>2 DEF PublishCall, inward
  <2>3. Promised!Submit(used.calls + 1)
    BY <2>1, <2>2 DEF Promised!Submit
  <2> QED
    BY <2>1, <2>3
<1>3. CASE LoopRead
  <2>1. UNCHANGED <<submitted, stored, offered, settled>>
    BY <1>3, LoopReadPromise
  <2>2. CASE UNCHANGED <<delivered, confirmed>>
    BY <2>1, <2>2 DEF Promised!promise
  <2>3. CASE delivered' /= delivered
    <3>1. PICK m : m = Head(s2c).body
      OBVIOUS
    <3>2. /\ m \in offered
          /\ InQos[m] = 2 => delivered[m] = 0
          /\ delivered' = [delivered EXCEPT ![m] = @ + 1] /\ confirmed' = confirmed
      BY <1>3, <2>3, <3>1, LoopReadPromise
    <3>3. m \in InMsgs
      BY <3>2 DEF IInv, TypeOK, RecordTypeOK
    <3>4. Promised!Deliver(m)
      BY <2>1, <3>2 DEF Promised!Deliver
    <3> QED
      BY <3>3, <3>4
  <2>4. CASE delivered' = delivered /\ confirmed' /= confirmed
    <3>1. PICK n \in stored : confirmed' = confirmed \union {n}
      BY <1>3, <2>4, LoopReadPromise
    <3>2. n \notin confirmed /\ n \in Calls
      BY <2>4, <3>1 DEF IInv, TypeOK, RecordTypeOK
    <3>3. Promised!Confirm(n)
      BY <2>1, <2>4, <3>1, <3>2 DEF Promised!Confirm
    <3> QED
      BY <3>2, <3>3
  <2> QED
    BY <2>2, <2>3, <2>4
<1>4. CASE BrokerReceive
  BY <1>4, BrokerReceivePromise
<1>5. CASE BrokerSend
  <2>1. CASE \E m \in InMsgs : BrokerPublish(m)
    <3>1. PICK m \in InMsgs : BrokerPublish(m)
      BY <2>1
    <3>2. Promised!Offer(m)
      BY <3>1 DEF BrokerPublish, outward, Promised!Offer
    <3> QED
      BY <3>2
  <2>2. CASE (\E f \in inflight : BrokerResend(f)) \/ BrokerPing
    BY <2>2 DEF BrokerResend, BrokerPing, outward, inward, Promised!promise
  <2> QED
    BY <1>5, <2>1, <2>2 DEF BrokerSend
<1> QED
  BY <1>1, <1>2, <1>3, <1>4, <1>5 DEF Next, ApplicationStep

LEMMA PromiseInvariant ==
    ASSUME CleanSession, IdsSuffice, ~CallbackMayReconnect
    PROVE  Spec => [](IInv /\ TypeOK /\ ConnectionInv /\ DInv /\ PInv)
<1>1. Init => PInv
  BY InitPInv
<1>2. IInv /\ TypeOK' /\ DInv /\ PInv /\ [Next]_vars => PInv'
  BY NextPInv
<1> QED
  BY <1>1, <1>2, ConfirmInvariant, DeliveryInvariant, PTL DEF Spec

\* Session implements Assurance with clean sessions, ids that suffice and a
\* message callback that opens no connection: a publish() is stored once and
\* reported only then; the callback runs for messages the broker took over,
\* once for one of QoS 2, and the broker is let go of them afterwards.
THEOREM SessionKeepsPromise ==
    ASSUME CleanSession, IdsSuffice, ~CallbackMayReconnect
    PROVE  Spec => Promise
<1>1. Init => Promised!Init
  BY InitPromise
<1>2. IInv /\ TypeOK' /\ DInv /\ DInv' /\ PInv /\ [Next]_vars
        => [Promised!Next]_(Promised!promise)
  BY NextPromise
<1> QED
  BY <1>1, <1>2, PromiseInvariant, PTL DEF Spec, Promise, Promised!Spec

\* In such a session the message callback runs once for a message of QoS 2,
\* though the broker may keep the id of an old one in use and the connection
\* may break between the callback and the acknowledgment.
THEOREM Qos2IsDeliveredOnce ==
    ASSUME CleanSession, IdsSuffice, ~CallbackMayReconnect
    PROVE  Spec => []Qos2AtMostOnce
<1>1. PInv => Qos2AtMostOnce
  BY DEF PInv
<1> QED
  BY <1>1, PromiseInvariant, PTL
==============================================================================
