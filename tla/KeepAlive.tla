------------------------------ MODULE KeepAlive ------------------------------
(***************************************************************************)
(* The keep-alive of src/MQTT-TLS.cpp in time: lastInActivity,             *)
(* lastOutActivity and pingOutstanding, the wait of connect(), the check   *)
(* at the start of loop(), the one packet loop() reads after it, and the   *)
(* callback whose acknowledgment stamps lastOutActivity with the time      *)
(* loop() was entered.                                                     *)
(*                                                                         *)
(* Time is the value of millis(), which rolls over at ClockMod.  A library *)
(* call takes no time of its own: time passes between calls, in callbacks  *)
(* and in connect().  What the application, the network and the broker are *)
(* assumed to do in time is in the guard of Tick and nowhere else.         *)
(***************************************************************************)
EXTENDS Integers, SequencesExt

CONSTANTS
    KA,          \* keepalive * 1000UL
    ClockMod,    \* 2^32: millis() is 32 bits wide
    MaxGap,      \* the longest time from one check in loop() to the next
    MaxHold,     \* the longest time from the outermost callback to its return
    MaxAnswer,   \* the longest time a live broker takes to answer a PINGREQ
    MaxBacklog,  \* bound: packets waiting to be read in front of a PINGRESP
    MaxDepth     \* bound: loop() calls on the stack

\* The clock must not roll over within the time the stamps are compared.
ASSUME KeepAliveAssumption ==
    /\ KA \in Nat
    /\ MaxGap \in Nat
    /\ MaxHold \in Nat
    /\ MaxAnswer \in Nat
    /\ MaxBacklog \in Nat
    /\ MaxDepth \in Nat
    /\ ClockMod \in Nat
    /\ KA + MaxHold + MaxGap + 2 < ClockMod

VARIABLES
    now,              \* millis()
    conn,             \* isConnected() once connect() has returned
    connecting,       \* connect() waits for the CONNACK
    lastIn,           \* lastInActivity
    lastOut,          \* lastOutActivity
    pingOutstanding,
    frames,           \* the t of each loop() whose callback is running
    rx,               \* packets that can be read, by what loop() makes of them
    alive,            \* the broker can be reached
    owed,             \* 0, or how long ago (from 1) the broker got a PINGREQ
    \* what an observer measures
    sinceCheck,       \* time since loop() last checked, or connect() returned
    sinceWire,        \* time since the client last wrote a packet
    sinceRead,        \* time since loop() last accepted a packet
    held              \* time since the outermost callback was entered

link == <<conn, connecting>>
stamps == <<lastIn, lastOut>>
peer == <<rx, alive, owed>>
watch == <<sinceCheck, sinceWire, sinceRead>>
vars == <<now, link, stamps, pingOutstanding, frames, peer, watch, held>>

Clock == 0..(ClockMod - 1)

\* PUBLISH: QoS 1 or 2, acknowledged after the callback.  ANSWERED: PUBREC,
\* PUBREL or PINGREQ, answered at once.  OVERSIZED: readPacket() returns 0.
\* OTHER: QoS 0, PUBACK, PUBCOMP, SUBACK, UNSUBACK.
Kinds == {"PUBLISH", "ANSWERED", "PINGRESP", "OVERSIZED", "OTHER"}

\* t - stamp in unsigned arithmetic.
Elapsed(t, stamp) == IF t >= stamp THEN t - stamp ELSE t - stamp + ClockMod

Expired == Elapsed(now, lastIn) > KA \/ Elapsed(now, lastOut) > KA

------------------------------------------------------------------------------
TypeOK ==
    /\ now \in Clock
    /\ conn \in BOOLEAN
    /\ connecting \in BOOLEAN
    /\ lastIn \in Clock
    /\ lastOut \in Clock
    /\ pingOutstanding \in BOOLEAN
    /\ frames \in Seq(Clock)
    /\ rx \in Seq(Kinds)
    /\ alive \in BOOLEAN
    /\ owed \in 0..(MaxAnswer + 1)
    /\ sinceCheck \in 0..MaxGap
    /\ sinceWire \in Nat
    /\ sinceRead \in Nat
    /\ held \in 0..MaxHold

\* No constructor sets the stamps or pingOutstanding.
Init ==
    /\ now \in Clock
    /\ conn = FALSE
    /\ connecting = FALSE
    /\ lastIn \in Clock
    /\ lastOut \in Clock
    /\ pingOutstanding \in BOOLEAN
    /\ frames = <<>>
    /\ rx = <<>>
    /\ alive \in BOOLEAN
    /\ owed = 0
    /\ sinceCheck = 0
    /\ sinceWire = 0
    /\ sinceRead = 0
    /\ held = 0

------------------------------------------------------------------------------
(* Time *)

\* What must happen first: connect() polls the clock, loop() is called again,
\* the callback returns, a live broker answers.
InTime ==
    /\ connecting => Elapsed(now, lastIn) <= KA
    /\ conn => sinceCheck < MaxGap
    /\ frames /= <<>> => held < MaxHold
    /\ alive => owed <= MaxAnswer

\* millis() one unit later.
NextTime == IF now + 1 = ClockMod THEN 0 ELSE now + 1

\* Bound: the observer's measures stop here, above what any property compares.
Longest == 2 * (KA + MaxGap) + 2

Longer(n) == IF n < Longest THEN n + 1 ELSE n

Tick ==
    /\ InTime
    /\ now' = NextTime
    /\ owed' = IF alive /\ owed > 0 THEN owed + 1 ELSE owed
    /\ held' = IF frames = <<>> THEN 0 ELSE held + 1
    /\ sinceCheck' = IF conn THEN sinceCheck + 1 ELSE 0
    /\ sinceWire' = IF conn \/ connecting THEN Longer(sinceWire) ELSE 0
    /\ sinceRead' = IF conn \/ connecting THEN Longer(sinceRead) ELSE 0
    /\ UNCHANGED <<link, stamps, pingOutstanding, frames, rx, alive>>

------------------------------------------------------------------------------
(* connect(), disconnect(), publish() *)

\* disconnect() stamps both times and leaves pingOutstanding alone.
Close ==
    /\ conn' = FALSE
    /\ connecting' = FALSE
    /\ lastIn' = now
    /\ lastOut' = now
    /\ rx' = <<>>
    /\ owed' = 0
    /\ sinceCheck' = 0
    /\ sinceWire' = 0
    /\ sinceRead' = 0
    /\ UNCHANGED <<now, pingOutstanding, frames, alive, held>>

\* connect() until the CONNECT packet is written.
ConnectStart ==
    /\ ~conn
    /\ ~connecting
    /\ connecting' = TRUE
    /\ lastIn' = now
    /\ lastOut' = now
    /\ rx' = <<>>
    /\ owed' = 0
    /\ alive' \in BOOLEAN
    /\ sinceCheck' = 0
    /\ sinceWire' = 0
    /\ sinceRead' = 0
    /\ UNCHANGED <<now, conn, pingOutstanding, frames, held>>

\* Seeded fault: connect() does not reset pingOutstanding.
PingAfterConnectKept == pingOutstanding

\* pingOutstanding when connect() returns true.
PingAfterConnect == FALSE

\* The CONNACK is read: only lastInActivity is stamped again.
ConnectAccepted ==
    /\ connecting
    /\ connecting' = FALSE
    /\ conn' = TRUE
    /\ lastIn' = now
    /\ pingOutstanding' = PingAfterConnect
    /\ sinceCheck' = 0
    /\ sinceRead' = 0
    /\ UNCHANGED <<now, lastOut, frames, peer, sinceWire, held>>

\* Another answer than an accepting CONNACK.
ConnectRefused ==
    /\ connecting
    /\ Close

\* No answer in keepalive seconds.
ConnectTimeout ==
    /\ connecting
    /\ Elapsed(now, lastIn) > KA
    /\ Close

Disconnect ==
    /\ ~connecting
    /\ Close

\* publish(), subscribe() and unsubscribe(): write() stamps lastOutActivity.
Write ==
    /\ conn
    /\ lastOut' = now
    /\ sinceWire' = 0
    /\ UNCHANGED <<now, link, lastIn, pingOutstanding, frames, peer, sinceCheck,
                   sinceRead, held>>

------------------------------------------------------------------------------
(* loop() *)

LoopReady == conn /\ Len(frames) < MaxDepth

\* The interval expired with a PINGREQ unanswered.
LoopTimeout ==
    /\ LoopReady
    /\ Expired
    /\ pingOutstanding
    /\ Close

\* Seeded fault: only what the client sends holds back the next PINGREQ.
PingsOnSilence == Elapsed(now, lastOut) > KA

\* Seeded fault: only what the broker sends holds back the next PINGREQ.
PingsOnDeafness == Elapsed(now, lastIn) > KA

\* Otherwise loop() sends a PINGREQ, or need not.
Pings == Expired

\* Seeded fault: an ignored packet counts as activity of the broker.
AcceptsAny(k) == k \in Kinds

\* readPacket() returns 0 for a packet longer than maxpacketsize.
Accepts(k) == k /= "OVERSIZED"

\* loop() with nothing to read.
LoopIdle ==
    /\ LoopReady
    /\ ~(Expired /\ pingOutstanding)
    /\ rx = <<>>
    /\ lastIn' = IF Pings THEN now ELSE lastIn
    /\ lastOut' = IF Pings THEN now ELSE lastOut
    /\ pingOutstanding' = (pingOutstanding \/ Pings)
    /\ owed' = IF Pings /\ alive THEN 1 ELSE owed
    /\ sinceCheck' = 0
    /\ sinceWire' = IF Pings THEN 0 ELSE sinceWire
    /\ UNCHANGED <<now, link, frames, rx, alive, sinceRead, held>>

\* loop() that reads one packet.
LoopRead ==
    /\ LoopReady
    /\ ~(Expired /\ pingOutstanding)
    /\ rx /= <<>>
    /\ rx' = Tail(rx)
    /\ LET k == Head(rx) IN
        /\ lastIn' = IF Pings \/ Accepts(k) THEN now ELSE lastIn
        /\ lastOut' = IF Pings THEN now ELSE lastOut
        /\ pingOutstanding' = ((pingOutstanding \/ Pings) /\ k /= "PINGRESP")
        /\ frames' = IF k = "PUBLISH" THEN Append(frames, now) ELSE frames
        /\ sinceWire' = IF Pings \/ k = "ANSWERED" THEN 0 ELSE sinceWire
        /\ sinceRead' = IF k = "OVERSIZED" THEN sinceRead ELSE 0
    /\ owed' = IF Pings /\ alive THEN 1 ELSE owed
    /\ sinceCheck' = 0
    /\ UNCHANGED <<now, link, alive, held>>

\* Seeded fault: the stamp is the time the next packet is due.
DueStamp == Last(frames) + KA

\* What the acknowledgment stamps: the time its loop() was entered.
AckStamp == Last(frames)

\* The callback returns: PUBACK or PUBREC, and lastOutActivity = t.
CallbackReturn ==
    /\ ~connecting
    /\ frames /= <<>>
    /\ lastOut' = AckStamp
    /\ frames' = Front(frames)
    /\ held' = IF Len(frames) = 1 THEN 0 ELSE held
    /\ sinceWire' = 0
    /\ UNCHANGED <<now, link, lastIn, pingOutstanding, peer, sinceCheck, sinceRead>>

------------------------------------------------------------------------------
(* The broker and the network *)

Arrive(k) ==
    /\ alive
    /\ conn
    /\ Len(rx) < MaxBacklog
    /\ rx' = Append(rx, k)
    /\ UNCHANGED <<now, link, stamps, pingOutstanding, frames, alive, owed, watch, held>>

Pong ==
    /\ alive
    /\ conn
    /\ owed > 0
    /\ owed' = 0
    /\ rx' = Append(rx, "PINGRESP")
    /\ UNCHANGED <<now, link, stamps, pingOutstanding, frames, alive, watch, held>>

\* The broker or the path to it fails without a word.
Die ==
    /\ alive
    /\ alive' = FALSE
    /\ UNCHANGED <<now, link, stamps, pingOutstanding, frames, rx, owed, watch, held>>

\* The peer closes the connection, and the client sees it.
PeerCloses ==
    /\ conn
    /\ conn' = FALSE
    /\ rx' = <<>>
    /\ owed' = 0
    /\ sinceCheck' = 0
    /\ sinceWire' = 0
    /\ sinceRead' = 0
    /\ UNCHANGED <<now, connecting, stamps, pingOutstanding, frames, alive, held>>

------------------------------------------------------------------------------
LoopStep == LoopTimeout \/ LoopIdle \/ LoopRead

ConnectEnd == ConnectAccepted \/ ConnectRefused \/ ConnectTimeout

Next ==
    \/ Tick
    \/ ConnectStart
    \/ ConnectEnd
    \/ Disconnect
    \/ Write
    \/ LoopStep
    \/ CallbackReturn
    \/ \E k \in Kinds \ {"PINGRESP"} : Arrive(k)
    \/ Pong
    \/ Die
    \/ PeerCloses

Spec == Init /\ [][Next]_vars

\* Time passes, the application keeps calling loop() and returns from its
\* callbacks, and connect() ends.
Fairness ==
    /\ WF_vars(Tick)
    /\ WF_vars(LoopStep)
    /\ WF_vars(CallbackReturn)
    /\ WF_vars(ConnectEnd)

FairSpec == Spec /\ Fairness

------------------------------------------------------------------------------
(* Properties *)

\* On an established connection the broker hears from the client at least
\* every KA + MaxGap + 1, though the stamp of an acknowledgment is older than
\* the acknowledgment and the answers to PUBREC and PUBREL leave no stamp.
HeardInTime == conn => sinceWire <= KA + MaxGap + 1

\* A silent broker is given up on: with no packet accepted for two intervals
\* and two gaps between calls of loop() the client has disconnected, whatever
\* it keeps sending itself and however many packets it ignores.
SilenceIsNoticed == conn => sinceRead <= 2 * (KA + MaxGap)

\* The interval leaves time for the answer, for the packets in front of it (one
\* is read by each loop()), and, when a callback may call loop(), for the
\* callback: it stamps lastOutActivity with a time before a PINGREQ sent in it.
AnswerFits ==
    MaxAnswer + (MaxBacklog + 1) * MaxGap + (IF MaxDepth > 1 THEN MaxHold ELSE 0) <= KA

\* loop() does not disconnect from a broker that answers, if AnswerFits.
LiveBrokerIsKept == [][LoopTimeout => ~alive]_vars

\* The connection to a broker that fell silent ends.
DeadBrokerIsLeft == (conn /\ ~alive) ~> ~conn
==============================================================================
