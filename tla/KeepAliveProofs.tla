--------------------------- MODULE KeepAliveProofs ---------------------------
(***************************************************************************)
(* KeepAlive for every value of its constants: the types, the bound on how *)
(* long the broker goes without a packet of the client, the bound on how   *)
(* long the client goes on with a broker that is silent, and that it does  *)
(* not leave one that answers in time.                                     *)
(*                                                                         *)
(* No bound is inductive.  What carries the first two is how the stamps    *)
(* relate to the times an observer measures: lastOutActivity is never      *)
(* younger than the last packet written, lastInActivity never younger than *)
(* the last packet read unless a PINGREQ is outstanding, and no stamp gets *)
(* so old that the difference with millis() rolls over.  The last rests on *)
(* where the answer to a PINGREQ is: the stamps are no older than the time *)
(* it has taken so far.                                                    *)
(***************************************************************************)
EXTENDS KeepAlive, QueueLemmas

\* connect() still stands where it stamped both times.
ConnectInv ==
    connecting =>
        /\ ~conn
        /\ sinceWire <= Elapsed(now, lastOut)
        /\ Elapsed(now, lastOut) <= KA + 1
        /\ Elapsed(now, lastIn) <= KA + 1
        /\ lastIn = lastOut

\* What was last written is no older than lastOutActivity says.
OutInv ==
    conn =>
        /\ sinceWire <= Elapsed(now, lastOut)
        /\ Elapsed(now, lastOut) <= KA + MaxHold + 1 + sinceCheck
        /\ sinceWire <= KA + 1 + sinceCheck

\* lastInActivity is also stamped when a PINGREQ is sent, once per answer.
InInv ==
    conn =>
        /\ Elapsed(now, lastIn) <= KA + sinceCheck
        /\ ~pingOutstanding => sinceRead <= Elapsed(now, lastIn)
        /\ pingOutstanding => sinceRead <= Elapsed(now, lastIn) + KA + MaxGap

\* The time a running loop() remembers is no older than its callback.
FrameInv == \A i \in 1..Len(frames) : Elapsed(now, frames[i]) <= held

IInv == TypeOK /\ ConnectInv /\ OutInv /\ InInv /\ FrameInv

\* The difference of two readings of millis() is a time.
LEMMA ElapsedType ==
    ASSUME NEW t \in Clock, NEW stamp \in Clock
    PROVE  Elapsed(t, stamp) \in Nat /\ Elapsed(t, t) = 0
BY KeepAliveAssumption DEF Elapsed, Clock

\* It grows with the clock, across a rollover too, while it is short of one.
LEMMA ElapsedTick ==
    ASSUME NEW t \in Clock, NEW stamp \in Clock,
           Elapsed(t, stamp) + 1 < ClockMod
    PROVE  Elapsed(IF t + 1 = ClockMod THEN 0 ELSE t + 1, stamp) = Elapsed(t, stamp) + 1
BY KeepAliveAssumption DEF Elapsed, Clock

\* A measure grows by one at most.
LEMMA LongerBound ==
    ASSUME NEW n \in Nat
    PROVE  Longer(n) \in Nat /\ Longer(n) <= n + 1
BY DEF Longer

LEMMA InitIInv == Init => IInv
<1> SUFFICES ASSUME Init PROVE IInv
  OBVIOUS
<1>1. TypeOK
  <2>1. conn \in BOOLEAN /\ connecting \in BOOLEAN
    BY DEF Init
  <2>2. /\ frames \in Seq(Clock)
        /\ rx \in Seq(Kinds)
        /\ owed \in 0..(MaxAnswer + 1)
        /\ sinceCheck \in 0..MaxGap /\ sinceWire \in Nat /\ sinceRead \in Nat
        /\ held \in 0..MaxHold
    BY KeepAliveAssumption DEF Init
  <2> QED
    BY <2>1, <2>2 DEF Init, TypeOK
<1>2. ~conn /\ ~connecting
  BY DEF Init
<1>3. FrameInv
  BY DEF Init, FrameInv
<1> QED
  BY <1>1, <1>2, <1>3 DEF IInv, ConnectInv, OutInv, InInv

\* Time passes: every age that matters grows by one, and none rolls over.
LEMMA TickIInv == IInv /\ Tick => IInv'
<1> SUFFICES ASSUME IInv, Tick PROVE IInv'
  OBVIOUS
<1> USE KeepAliveAssumption
<1>1. now' \in Clock
  BY DEF IInv, TypeOK, Tick, NextTime, Clock
<1>0. /\ Longer(sinceWire) \in Nat /\ Longer(sinceWire) <= sinceWire + 1
      /\ Longer(sinceRead) \in Nat /\ Longer(sinceRead) <= sinceRead + 1
  BY LongerBound DEF IInv, TypeOK
<1>2. TypeOK'
  BY <1>0, <1>1 DEF IInv, TypeOK, Tick, InTime, stamps, link
<1>3. \A stamp \in Clock : Elapsed(now, stamp) + 1 < ClockMod =>
          Elapsed(now', stamp) = Elapsed(now, stamp) + 1
  BY ElapsedTick DEF IInv, TypeOK, Tick, NextTime
<1>4. \A stamp \in Clock : Elapsed(now, stamp) \in Nat
  BY ElapsedType DEF IInv, TypeOK
<1>5. ConnectInv'
  <2> SUFFICES ASSUME connecting' PROVE ConnectInv'
    BY DEF ConnectInv
  <2>1. connecting /\ ~conn /\ Elapsed(now, lastIn) <= KA /\ lastIn = lastOut
    BY DEF IInv, ConnectInv, Tick, InTime, link
  <2>2. Elapsed(now', lastIn) = Elapsed(now, lastIn) + 1
    BY <1>3, <1>4, <2>1 DEF IInv, TypeOK
  <2> QED
    BY <1>0, <1>4, <2>1, <2>2 DEF IInv, TypeOK, ConnectInv, Tick, link, stamps
<1>6. ASSUME conn' PROVE
        /\ conn
        /\ sinceCheck < MaxGap
        /\ Elapsed(now', lastOut) = Elapsed(now, lastOut) + 1
        /\ Elapsed(now', lastIn) = Elapsed(now, lastIn) + 1
  <2>1. conn /\ sinceCheck < MaxGap
    BY <1>6 DEF Tick, InTime, link
  <2> QED
    BY <1>3, <1>4, <2>1 DEF IInv, TypeOK, OutInv, InInv
<1>7. OutInv'
  BY <1>0, <1>4, <1>6 DEF IInv, TypeOK, OutInv, Tick, link, stamps
<1>8. InInv'
  <2> SUFFICES ASSUME conn' PROVE InInv'
    BY DEF InInv
  <2>1. sinceCheck' = sinceCheck + 1 /\ sinceRead' \in Nat /\ sinceRead' <= sinceRead + 1
    BY <1>0, <1>6 DEF Tick
  <2>2. lastIn' = lastIn /\ pingOutstanding' = pingOutstanding
    BY DEF Tick, stamps
  <2>3. /\ Elapsed(now, lastIn) \in Nat
        /\ Elapsed(now', lastIn) = Elapsed(now, lastIn) + 1
        /\ sinceCheck \in Nat /\ sinceRead \in Nat
    BY <1>4, <1>6 DEF IInv, TypeOK
  <2> QED
    BY <1>6, <2>1, <2>2, <2>3 DEF IInv, InInv
<1>9. FrameInv'
  <2> SUFFICES ASSUME NEW i \in 1..Len(frames) PROVE Elapsed(now', frames[i]) <= held'
    BY DEF FrameInv, Tick
  <2>1. frames[i] \in Clock /\ frames /= <<>>
    BY DEF IInv, TypeOK
  <2>2. Elapsed(now, frames[i]) <= held /\ held < MaxHold /\ held' = held + 1
    BY <2>1 DEF IInv, FrameInv, Tick, InTime
  <2> QED
    BY <1>3, <1>4, <2>1, <2>2 DEF IInv, TypeOK
<1> QED
  BY <1>2, <1>5, <1>7, <1>8, <1>9 DEF IInv

\* Whatever closes the connection leaves nothing to say of the stamps.
LEMMA CloseIInv == IInv /\ Close => IInv'
<1> SUFFICES ASSUME IInv, Close PROVE IInv'
  OBVIOUS
<1>1. TypeOK'
  <2>1. conn' \in BOOLEAN /\ connecting' \in BOOLEAN
    BY DEF IInv, TypeOK, Close
  <2>2. /\ rx' \in Seq(Kinds)
        /\ owed' \in 0..(MaxAnswer + 1)
        /\ sinceCheck' \in 0..MaxGap /\ sinceWire' \in Nat /\ sinceRead' \in Nat
    BY KeepAliveAssumption DEF Close
  <2> QED
    BY <2>1, <2>2 DEF IInv, TypeOK, Close
<1>2. ~conn' /\ ~connecting'
  BY DEF Close
<1>3. FrameInv'
  BY DEF IInv, FrameInv, Close
<1> QED
  BY <1>1, <1>2, <1>3 DEF IInv, ConnectInv, OutInv, InInv

\* connect() opens a connection and, if accepted, hands it to the application.
LEMMA ConnectIInv == IInv /\ (ConnectStart \/ ConnectAccepted) => IInv'
<1> SUFFICES ASSUME IInv, ConnectStart \/ ConnectAccepted PROVE IInv'
  OBVIOUS
<1> USE KeepAliveAssumption
<1>1. Elapsed(now, now) = 0 /\ Elapsed(now, lastIn) \in Nat /\ Elapsed(now, lastOut) \in Nat
  BY ElapsedType DEF IInv, TypeOK
<1>2. CASE ConnectStart
  BY <1>1, <1>2 DEF IInv, TypeOK, ConnectInv, OutInv, InInv, FrameInv, ConnectStart
<1>3. CASE ConnectAccepted
  <2>1. TypeOK'
    <3>1. conn' \in BOOLEAN /\ connecting' \in BOOLEAN /\ pingOutstanding' \in BOOLEAN
      BY <1>3 DEF ConnectAccepted, PingAfterConnect
    <3>2. sinceCheck' \in 0..MaxGap /\ sinceRead' \in Nat
      BY <1>3 DEF ConnectAccepted
    <3> QED
      BY <1>3, <3>1, <3>2 DEF IInv, TypeOK, ConnectAccepted, peer
  <2>2. FrameInv'
    BY <1>3 DEF IInv, FrameInv, ConnectAccepted
  <2>3. ConnectInv' /\ OutInv' /\ InInv'
    BY <1>1, <1>3
       DEF IInv, TypeOK, ConnectInv, OutInv, InInv, ConnectAccepted, PingAfterConnect
  <2> QED
    BY <2>1, <2>2, <2>3 DEF IInv
<1> QED
  BY <1>2, <1>3

\* write() puts a packet on the wire and stamps lastOutActivity.
LEMMA WriteIInv == IInv /\ Write => IInv'
<1> SUFFICES ASSUME IInv, Write PROVE IInv'
  OBVIOUS
<1>1. Elapsed(now, now) = 0
  BY ElapsedType DEF IInv, TypeOK
<1> QED
  BY <1>1, KeepAliveAssumption
     DEF IInv, TypeOK, ConnectInv, OutInv, InInv, FrameInv, Write, link, peer

\* The check of loop(), whatever it reads afterwards.
LEMMA LoopIInv == IInv /\ (LoopIdle \/ LoopRead) => IInv'
<1> SUFFICES ASSUME IInv, LoopIdle \/ LoopRead PROVE IInv'
  OBVIOUS
<1> USE KeepAliveAssumption
<1>1. /\ Elapsed(now, now) = 0
      /\ Elapsed(now, lastIn) \in Nat
      /\ Elapsed(now, lastOut) \in Nat
  BY ElapsedType DEF IInv, TypeOK
<1>2. conn /\ ~connecting /\ conn' /\ ~connecting' /\ now' = now
  BY DEF LoopIdle, LoopRead, LoopReady, link, IInv, ConnectInv
<1>3. ~Expired => Elapsed(now, lastIn) <= KA /\ Elapsed(now, lastOut) <= KA
  BY <1>1 DEF Expired, IInv, TypeOK
<1>4. CASE LoopIdle
  <2>1. TypeOK'
    BY <1>4 DEF IInv, TypeOK, LoopIdle, link
  <2>2. FrameInv'
    BY <1>4 DEF IInv, FrameInv, LoopIdle
  <2>3. OutInv'
    BY <1>1, <1>2, <1>3, <1>4 DEF IInv, TypeOK, OutInv, LoopIdle, Pings
  <2>4. InInv'
    <3>1. CASE Expired
      <4>1. lastIn' = now /\ pingOutstanding' /\ ~pingOutstanding
        BY <1>4, <3>1 DEF LoopIdle, Pings
      <4>2. sinceRead' <= KA + MaxGap
        BY <1>1, <1>2, <1>4, <4>1 DEF IInv, TypeOK, InInv, LoopIdle
      <4> QED
        BY <1>1, <1>2, <1>4, <4>1, <4>2 DEF IInv, TypeOK, InInv, LoopIdle
    <3>2. CASE ~Expired
      <4>1. lastIn' = lastIn /\ (pingOutstanding' <=> pingOutstanding)
        BY <1>4, <3>2 DEF LoopIdle, Pings
      <4>2. Elapsed(now, lastIn) <= KA + sinceCheck' /\ sinceRead' = sinceRead
        BY <1>1, <1>3, <1>4, <3>2 DEF LoopIdle
      <4> QED
        BY <1>2, <4>1, <4>2 DEF IInv, InInv
    <3> QED
      BY <3>1, <3>2
  <2> QED
    BY <1>2, <2>1, <2>2, <2>3, <2>4 DEF IInv, ConnectInv
<1>5. CASE LoopRead
  <2>1. TypeOK'
    BY <1>5 DEF IInv, TypeOK, LoopRead, link
  <2>2. FrameInv'
    <3> SUFFICES ASSUME NEW i \in 1..Len(frames') PROVE Elapsed(now, frames'[i]) <= held
      BY <1>2, <1>5 DEF FrameInv, LoopRead
    <3>1. frames' = frames \/ frames' = Append(frames, now)
      BY <1>5 DEF LoopRead
    <3>2. (i \in 1..Len(frames) /\ frames'[i] = frames[i]) \/ frames'[i] = now
      BY <3>1 DEF IInv, TypeOK
    <3> QED
      BY <1>1, <3>2 DEF IInv, TypeOK, FrameInv
  <2>3. OutInv'
    BY <1>1, <1>2, <1>3, <1>5 DEF IInv, TypeOK, OutInv, LoopRead, Pings
  <2>4. InInv'
    <3>1. CASE Accepts(Head(rx))
      <4>1. lastIn' = now /\ sinceRead' = 0 /\ sinceCheck' = 0
        BY <1>5, <3>1 DEF LoopRead, Accepts
      <4> QED
        BY <1>1, <1>2, <4>1 DEF InInv
    <3>2. CASE ~Accepts(Head(rx)) /\ Expired
      <4>1. lastIn' = now /\ pingOutstanding' /\ ~pingOutstanding /\ sinceCheck' = 0
        BY <1>5, <3>2 DEF LoopRead, Pings, Accepts
      <4>2. sinceRead' <= KA + MaxGap
        BY <1>1, <1>2, <1>5, <3>2, <4>1 DEF IInv, TypeOK, InInv, LoopRead, Accepts
      <4> QED
        BY <1>1, <1>2, <4>1, <4>2 DEF InInv
    <3>3. CASE ~Accepts(Head(rx)) /\ ~Expired
      <4>1. lastIn' = lastIn /\ (pingOutstanding' <=> pingOutstanding)
        BY <1>5, <3>3 DEF LoopRead, Pings, Accepts
      <4>2. Elapsed(now, lastIn) <= KA + sinceCheck' /\ sinceRead' = sinceRead
        BY <1>1, <1>3, <1>5, <3>3 DEF LoopRead, Accepts
      <4> QED
        BY <1>2, <4>1, <4>2 DEF IInv, InInv
    <3> QED
      BY <3>1, <3>2, <3>3
  <2> QED
    BY <1>2, <2>1, <2>2, <2>3, <2>4 DEF IInv, ConnectInv
<1> QED
  BY <1>4, <1>5

\* An acknowledgment is written, and stamped with a time that is in the past.
LEMMA CallbackReturnIInv == IInv /\ CallbackReturn => IInv'
<1> SUFFICES ASSUME IInv, CallbackReturn PROVE IInv'
  OBVIOUS
<1> USE KeepAliveAssumption
<1> DEFINE t == Last(frames)
<1>1. frames \in Seq(Clock) /\ frames /= <<>> /\ frames' = Front(frames)
  <2>1. frames \in Seq(Clock)
    BY DEF IInv, TypeOK
  <2> QED
    BY <2>1 DEF CallbackReturn
<1>2. t \in Clock /\ Elapsed(now, t) \in Nat /\ Elapsed(now, t) <= held
  <2>1. t \in Clock /\ t = frames[Len(frames)] /\ Len(frames) \in 1..Len(frames)
    BY <1>1, PopProperties
  <2> QED
    BY <2>1, ElapsedType DEF IInv, TypeOK, FrameInv
<1>3. /\ frames' \in Seq(Clock)
      /\ Len(frames') = Len(frames) - 1
      /\ \A i \in 1..Len(frames') : frames'[i] = frames[i]
  BY <1>1, PopProperties
<1>4. TypeOK'
  BY <1>2, <1>3 DEF IInv, TypeOK, CallbackReturn, AckStamp, link, peer
<1>5. FrameInv'
  <2>1. Len(frames) = 1 => FrameInv'
    BY <1>3 DEF FrameInv
  <2>2. Len(frames) /= 1 => held' = held
    BY DEF CallbackReturn
  <2> QED
    BY <1>1, <1>3, <2>1, <2>2 DEF IInv, FrameInv, CallbackReturn
<1>6. ConnectInv' /\ OutInv' /\ InInv'
  BY <1>1, <1>2 DEF IInv, TypeOK, ConnectInv, OutInv, InInv, CallbackReturn, AckStamp, link
<1> QED
  BY <1>4, <1>5, <1>6 DEF IInv

\* Nothing the broker does touches the client's times.
LEMMA PeerIInv ==
    IInv /\ ((\E k \in Kinds \ {"PINGRESP"} : Arrive(k)) \/ Pong \/ Die \/ PeerCloses) => IInv'
<1> SUFFICES ASSUME IInv,
                    (\E k \in Kinds \ {"PINGRESP"} : Arrive(k)) \/ Pong \/ Die \/ PeerCloses
             PROVE  IInv'
  OBVIOUS
<1> USE KeepAliveAssumption
<1>1. ASSUME NEW k \in Kinds, Arrive(k) PROVE IInv'
  BY <1>1
     DEF IInv, TypeOK, ConnectInv, OutInv, InInv, FrameInv, Arrive, link, stamps, watch
<1>2. CASE Pong
  BY <1>2
     DEF IInv, TypeOK, ConnectInv, OutInv, InInv, FrameInv, Pong, link, stamps, watch, Kinds
<1>3. CASE Die
  BY <1>3 DEF IInv, TypeOK, ConnectInv, OutInv, InInv, FrameInv, Die, link, stamps, watch
<1>4. CASE PeerCloses
  <2>1. TypeOK'
    <3>1. conn' \in BOOLEAN /\ connecting' \in BOOLEAN
      BY <1>4 DEF IInv, TypeOK, PeerCloses
    <3>2. /\ rx' \in Seq(Kinds)
          /\ owed' \in 0..(MaxAnswer + 1)
          /\ sinceCheck' \in 0..MaxGap /\ sinceWire' \in Nat /\ sinceRead' \in Nat
      BY <1>4 DEF PeerCloses
    <3> QED
      BY <1>4, <3>1, <3>2 DEF IInv, TypeOK, PeerCloses, stamps
  <2>2. ~conn' /\ ~connecting'
    BY <1>4 DEF IInv, ConnectInv, PeerCloses
  <2>3. FrameInv'
    BY <1>4 DEF IInv, FrameInv, PeerCloses
  <2> QED
    BY <2>1, <2>2, <2>3 DEF IInv, ConnectInv, OutInv, InInv
<1> QED
  BY <1>1, <1>2, <1>3, <1>4

LEMMA StutterIInv == IInv /\ UNCHANGED vars => IInv'
BY DEF IInv, TypeOK, ConnectInv, OutInv, InInv, FrameInv, vars, link, stamps, peer, watch

LEMMA NextIInv == IInv /\ [Next]_vars => IInv'
<1> SUFFICES ASSUME IInv, [Next]_vars PROVE IInv'
  OBVIOUS
<1>1. CASE Tick
  BY <1>1, TickIInv
<1>2. CASE ConnectStart
  BY <1>2, ConnectIInv
<1>3. CASE ConnectEnd
  BY <1>3, ConnectIInv, CloseIInv DEF ConnectEnd, ConnectRefused, ConnectTimeout
<1>4. CASE Disconnect
  BY <1>4, CloseIInv DEF Disconnect
<1>5. CASE Write
  BY <1>5, WriteIInv
<1>6. CASE LoopStep
  BY <1>6, LoopIInv, CloseIInv DEF LoopStep, LoopTimeout
<1>7. CASE CallbackReturn
  BY <1>7, CallbackReturnIInv
<1>8. CASE (\E k \in Kinds \ {"PINGRESP"} : Arrive(k)) \/ Pong \/ Die \/ PeerCloses
  BY <1>8, PeerIInv
<1>9. CASE UNCHANGED vars
  BY <1>9, StutterIInv
<1> QED
  BY <1>1, <1>2, <1>3, <1>4, <1>5, <1>6, <1>7, <1>8, <1>9 DEF Next

\* The invariant holds of every behaviour of the keep-alive code.
LEMMA KeepAliveInvariant == Spec => []IInv
<1>1. Init => IInv
  BY InitIInv
<1>2. IInv /\ [Next]_vars => IInv'
  BY NextIInv
<1> QED
  BY <1>1, <1>2, PTL DEF Spec

\* The stamps, the flags and the queue keep their types (all of KeepAlive).
THEOREM KeepAliveTypeOK == Spec => []TypeOK
<1>1. IInv => TypeOK
  BY DEF IInv
<1> QED
  BY <1>1, KeepAliveInvariant, PTL

\* The broker hears from a connected client at least every KA + MaxGap + 1
\* (loop(), write() and the acknowledgments of loop()).
THEOREM BrokerHearsInTime == Spec => []HeardInTime
<1>1. IInv => HeardInTime
  BY KeepAliveAssumption DEF IInv, TypeOK, OutInv, HeardInTime
<1> QED
  BY <1>1, KeepAliveInvariant, PTL

\* A client that accepted no packet for 2 * (KA + MaxGap) has disconnected
\* (the check at the start of loop()).
THEOREM SilenceEndsConnection == Spec => []SilenceIsNoticed
<1>1. IInv => SilenceIsNoticed
  <2> SUFFICES ASSUME IInv, conn PROVE sinceRead <= 2 * (KA + MaxGap)
    BY DEF SilenceIsNoticed
  <2>1. Elapsed(now, lastIn) \in Nat
    BY ElapsedType DEF IInv, TypeOK
  <2> QED
    BY <2>1, KeepAliveAssumption DEF IInv, TypeOK, InInv
<1> QED
  BY <1>1, KeepAliveInvariant, PTL

------------------------------------------------------------------------------
(* A broker that answers is kept *)

\* How much older than a PINGREQ a stamp can get after it: the time the running
\* callbacks remember, if one of them may call loop().
Slack == IF MaxDepth > 1 THEN MaxHold ELSE 0

\* The stamps, and those the running callbacks will leave, are n old at most.
Fresh(n) ==
    /\ Elapsed(now, lastIn) <= n
    /\ Elapsed(now, lastOut) <= n
    /\ \A i \in 1..Len(frames) : Elapsed(now, frames[i]) <= n

NoAnswer == \A i \in 1..Len(rx) : rx[i] /= "PINGRESP"

\* The time to read the packets behind place p of the longest queue.
Room(p) == (MaxBacklog + 1 - p) * MaxGap

\* No PINGREQ is unanswered.
Quiet ==
    /\ ~pingOutstanding
    /\ owed = 0
    /\ NoAnswer
    /\ Len(rx) <= MaxBacklog

\* The broker has the PINGREQ for owed - 1, and stamps are no older than that.
Asked ==
    /\ pingOutstanding
    /\ owed > 0
    /\ NoAnswer
    /\ Len(rx) <= MaxBacklog
    /\ Fresh(owed - 1 + Slack)

\* The only PINGRESP is at place p: every packet in front of it has cost a gap.
AnswerAt(p) ==
    /\ p \in 1..Len(rx)
    /\ rx[p] = "PINGRESP"
    /\ \A i \in 1..Len(rx) : rx[i] = "PINGRESP" => i = p
    /\ Fresh(MaxAnswer + sinceCheck + Room(p) + Slack)

Answered ==
    /\ pingOutstanding
    /\ owed = 0
    /\ Len(rx) <= MaxBacklog + 1
    /\ \E p \in 1..Len(rx) : AnswerAt(p)

\* Where the answer to the PINGREQ is, of which there is one at most.
AnswerInv ==
    /\ connecting => rx = <<>> /\ owed = 0
    /\ conn /\ alive => Quiet \/ Asked \/ Answered

\* Each place nearer to the head of the queue leaves one more gap.
LEMMA RoomProperties ==
    ASSUME NEW p \in 1..(MaxBacklog + 1)
    PROVE  /\ Room(p) \in Nat
           /\ Room(p) + MaxGap <= (MaxBacklog + 1) * MaxGap
           /\ p > 1 => Room(p - 1) = Room(p) + MaxGap
<1> USE KeepAliveAssumption
<1> DEFINE q == MaxBacklog + 1 - p
<1>1. q \in Nat /\ q + 1 <= MaxBacklog + 1 /\ MaxBacklog + 1 - (p - 1) = q + 1
  OBVIOUS
<1>2. \A a, b, c \in Nat : a <= b => a * c <= b * c
  OBVIOUS
<1>3. q * MaxGap \in Nat /\ (q + 1) * MaxGap = q * MaxGap + MaxGap
  BY <1>1
<1>4. (q + 1) * MaxGap <= (MaxBacklog + 1) * MaxGap
  BY <1>1, <1>2
<1> QED
  BY <1>1, <1>3, <1>4 DEF Room

LEMMA SlackType == Slack \in Nat /\ Slack <= MaxHold
BY KeepAliveAssumption DEF Slack

\* Older stamps are allowed by a weaker bound.
LEMMA FreshWeaken ==
    ASSUME TypeOK, NEW m \in Int, NEW n \in Int, m <= n, Fresh(m)
    PROVE  Fresh(n)
<1>1. /\ Elapsed(now, lastIn) \in Nat
      /\ Elapsed(now, lastOut) \in Nat
      /\ \A i \in 1..Len(frames) : Elapsed(now, frames[i]) \in Nat
  <2>1. now \in Clock /\ lastIn \in Clock /\ lastOut \in Clock
    BY DEF TypeOK
  <2>2. \A i \in 1..Len(frames) : frames[i] \in Clock
    BY DEF TypeOK
  <2> QED
    BY <2>1, <2>2, ElapsedType
<1> QED
  BY <1>1 DEF Fresh

\* As long as an answer is due the interval has not expired.
LEMMA AnswerInTime ==
    ASSUME AnswerFits, TypeOK
    PROVE  /\ Asked => Fresh(KA) /\ ~Expired
           /\ \A p \in 1..(MaxBacklog + 1) : AnswerAt(p) => Fresh(KA) /\ ~Expired
           /\ Answered => Fresh(KA) /\ ~Expired
<1> USE KeepAliveAssumption, SlackType
<1>1. Fresh(KA) => ~Expired
  BY ElapsedType DEF TypeOK, Fresh, Expired
<1>2. Asked => Fresh(KA)
  <2> SUFFICES ASSUME Asked PROVE Fresh(KA)
    OBVIOUS
  <2>1. (MaxBacklog + 1) * MaxGap \in Nat
    OBVIOUS
  <2>2. owed - 1 + Slack \in Int /\ owed - 1 + Slack <= KA
    BY <2>1 DEF TypeOK, AnswerFits, Slack
  <2> QED
    BY <2>2, FreshWeaken DEF Asked
<1>3. ASSUME NEW p \in 1..(MaxBacklog + 1), AnswerAt(p) PROVE Fresh(KA)
  <2>1. Room(p) \in Nat /\ Room(p) + MaxGap <= (MaxBacklog + 1) * MaxGap
    BY RoomProperties
  <2>2. (MaxBacklog + 1) * MaxGap \in Nat
    OBVIOUS
  <2> DEFINE M == (MaxBacklog + 1) * MaxGap
             n == MaxAnswer + sinceCheck + Room(p) + Slack
  <2>3. MaxAnswer + M + Slack <= KA
    BY DEF AnswerFits, Slack
  <2>4. n \in Int /\ n <= KA
    <3> HIDE DEF M
    <3> QED
      BY <2>1, <2>2, <2>3 DEF TypeOK, M
  <2> QED
    BY <1>3, <2>4, FreshWeaken DEF AnswerAt
<1>4. Answered => Fresh(KA)
  <2> SUFFICES ASSUME Answered PROVE Fresh(KA)
    OBVIOUS
  <2>1. PICK p \in 1..Len(rx) : AnswerAt(p)
    BY DEF Answered
  <2>2. p \in 1..(MaxBacklog + 1)
    BY DEF Answered, TypeOK
  <2> QED
    BY <1>3, <2>1, <2>2
<1> QED
  BY <1>1, <1>2, <1>3, <1>4

LEMMA InitAnswer == Init => AnswerInv
BY DEF Init, AnswerInv

\* Time passes: the age of a stamp grows no faster than what it may be.
LEMMA TickAnswer ==
    ASSUME AnswerFits, IInv, AnswerInv, Tick
    PROVE  AnswerInv'
<1> USE KeepAliveAssumption, SlackType
<1> DEFINE FreshNext(n) ==
             /\ Elapsed(now', lastIn') <= n
             /\ Elapsed(now', lastOut') <= n
             /\ \A i \in 1..Len(frames') : Elapsed(now', frames'[i]) <= n
<1>1. ASSUME NEW n \in Int, Fresh(n), Fresh(KA) PROVE FreshNext(n + 1)
  <2>1. now \in Clock /\ lastIn \in Clock /\ lastOut \in Clock
    BY DEF IInv, TypeOK
  <2>2. \A i \in 1..Len(frames) : frames[i] \in Clock
    BY DEF IInv, TypeOK
  <2>3. ASSUME NEW stamp \in Clock, NEW m \in Int, Elapsed(now, stamp) <= m,
               Elapsed(now, stamp) <= KA
        PROVE  Elapsed(now', stamp) <= m + 1
    <3>1. Elapsed(now, stamp) \in Nat /\ Elapsed(now, stamp) + 1 < ClockMod
      BY <2>1, <2>3, ElapsedType
    <3>2. Elapsed(now', stamp) = Elapsed(now, stamp) + 1
      BY <2>1, <3>1, ElapsedTick DEF Tick, NextTime
    <3> QED
      BY <2>3, <3>1, <3>2
  <2>4. lastIn' = lastIn /\ lastOut' = lastOut /\ frames' = frames
    BY DEF Tick, stamps
  <2> QED
    BY <1>1, <2>1, <2>2, <2>3, <2>4 DEF Fresh
<1>2. /\ rx' = rx
      /\ pingOutstanding' = pingOutstanding
      /\ conn' = conn
      /\ connecting' = connecting
      /\ alive' = alive
  BY DEF Tick, link
<1>3. connecting' => rx' = <<>> /\ owed' = 0
  BY <1>2 DEF AnswerInv, Tick
<1>4. ASSUME conn', alive' PROVE (Quiet \/ Asked \/ Answered)'
  <2>1. conn /\ alive /\ sinceCheck' = sinceCheck + 1
    BY <1>2, <1>4 DEF Tick
  <2>2. CASE Quiet
    BY <1>2, <2>2 DEF Quiet, NoAnswer, Tick
  <2>3. CASE Asked
    <3>1. owed' = owed + 1 /\ owed \in Nat /\ owed - 1 + Slack \in Int
      BY <2>1, <2>3 DEF Asked, Tick, IInv, TypeOK
    <3>2. Fresh(KA)
      BY <2>3, AnswerInTime DEF IInv
    <3>3. FreshNext((owed - 1 + Slack) + 1)
      <4> DEFINE n == owed - 1 + Slack
      <4>1. n \in Int /\ Fresh(n)
        BY <2>3, <3>1 DEF Asked
      <4> HIDE DEF n, FreshNext
      <4>2. FreshNext(n + 1)
        BY <1>1, <3>2, <4>1
      <4> QED
        BY <4>2 DEF n
    <3>4. (owed - 1 + Slack) + 1 = owed' - 1 + Slack
      BY <3>1
    <3>5. Fresh(owed - 1 + Slack)'
      BY <3>3, <3>4 DEF Fresh, Slack
    <3> QED
      BY <1>2, <2>3, <3>1, <3>5 DEF Asked, NoAnswer
  <2>4. CASE Answered
    <3>1. PICK p \in 1..Len(rx) : AnswerAt(p)
      BY <2>4 DEF Answered
    <3>2. p \in 1..(MaxBacklog + 1)
      BY <2>4 DEF Answered, IInv, TypeOK
    <3> DEFINE n == MaxAnswer + sinceCheck + Room(p) + Slack
    <3>3. n \in Int /\ n + 1 = MaxAnswer + sinceCheck' + Room(p) + Slack
      BY <2>1, <3>2, RoomProperties DEF IInv, TypeOK
    <3>4. Fresh(n) /\ Fresh(KA)
      BY <2>4, <3>1, AnswerInTime DEF IInv, AnswerAt
    <3>5. FreshNext(n + 1)
      <4> HIDE DEF n, FreshNext
      <4> QED
        BY <1>1, <3>3, <3>4
    <3>6. FreshNext(MaxAnswer + sinceCheck' + Room(p) + Slack)
      <4> HIDE DEF n, FreshNext
      <4> QED
        BY <3>3, <3>5
    <3>7. AnswerAt(p)'
      BY <1>2, <3>1, <3>6 DEF AnswerAt, Fresh, Room, Slack
    <3>8. owed' = 0
      BY <2>4 DEF Answered, Tick
    <3> QED
      BY <1>2, <2>4, <3>7, <3>8 DEF Answered, AnswerAt
  <2> QED
    BY <2>1, <2>2, <2>3, <2>4 DEF AnswerInv
<1> QED
  BY <1>3, <1>4 DEF AnswerInv

\* A stamp that is renewed is as old as any bound allows.
LEMMA FreshStamps ==
    ASSUME TypeOK, NEW n \in Nat, Fresh(n), now' = now,
           lastIn' \in {now, lastIn},
           lastOut' \in {now, lastOut},
           \A i \in 1..Len(frames') :
               frames'[i] = now \/ \E j \in 1..Len(frames) : frames'[i] = frames[j]
    PROVE  /\ Elapsed(now', lastIn') <= n
           /\ Elapsed(now', lastOut') <= n
           /\ \A i \in 1..Len(frames') : Elapsed(now', frames'[i]) <= n
<1>1. Elapsed(now, now) = 0
  BY ElapsedType DEF TypeOK
<1> QED
  BY <1>1 DEF Fresh

\* A connection that begins or ends has nothing to be answered.
LEMMA ConnectAnswer ==
    ASSUME IInv, AnswerInv, ConnectStart \/ ConnectAccepted \/ Close \/ PeerCloses \/ Die
    PROVE  AnswerInv'
<1> USE KeepAliveAssumption
<1>1. CASE ConnectStart \/ Close \/ PeerCloses
  <2>1. ~conn' /\ rx' = <<>> /\ owed' = 0
    BY <1>1 DEF ConnectStart, Close, PeerCloses
  <2> QED
    BY <2>1 DEF AnswerInv
<1>2. CASE ConnectAccepted
  <2>1. rx' = <<>> /\ owed' = 0 /\ ~pingOutstanding' /\ ~connecting'
    BY <1>2 DEF ConnectAccepted, AnswerInv, PingAfterConnect, peer
  <2>2. Quiet'
    BY <2>1 DEF Quiet, NoAnswer
  <2> QED
    BY <2>1, <2>2 DEF AnswerInv
<1>3. CASE Die
  BY <1>3 DEF Die, AnswerInv, link
<1> QED
  BY <1>1, <1>2, <1>3

\* The other steps of a connected client whose broker lives.
LEMMA WriteAnswer ==
    ASSUME IInv, AnswerInv, Write \/ CallbackReturn
    PROVE  AnswerInv'
<1> USE KeepAliveAssumption, SlackType
<1>1. /\ rx' = rx /\ owed' = owed /\ pingOutstanding' = pingOutstanding
      /\ conn' = conn /\ connecting' = connecting /\ alive' = alive
      /\ sinceCheck' = sinceCheck /\ now' = now /\ lastIn' = lastIn
  BY DEF Write, CallbackReturn, link, peer
<1>2. ASSUME NEW n \in Int, Fresh(n)
      PROVE  /\ Elapsed(now', lastIn') <= n
             /\ Elapsed(now', lastOut') <= n
             /\ \A i \in 1..Len(frames') : Elapsed(now', frames'[i]) <= n
  <2>1. n \in Nat
    <3>1. Elapsed(now, lastIn) \in Nat /\ Elapsed(now, lastIn) <= n
      BY <1>2, ElapsedType DEF IInv, TypeOK, Fresh
    <3> QED
      BY <3>1
  <2>2. CASE Write
    BY <1>1, <1>2, <2>1, <2>2, FreshStamps DEF IInv, Write
  <2>3. CASE CallbackReturn
    <3>1. frames \in Seq(Clock) /\ frames /= <<>> /\ frames' = Front(frames)
      BY <2>3 DEF CallbackReturn, IInv, TypeOK
    <3>2. /\ Last(frames) = frames[Len(frames)]
          /\ Len(frames) \in 1..Len(frames)
          /\ Len(frames') = Len(frames) - 1
          /\ \A i \in 1..Len(frames') : frames'[i] = frames[i]
      BY <3>1, PopProperties
    <3>3. lastOut' = frames[Len(frames)]
      BY <2>3, <3>2 DEF CallbackReturn, AckStamp
    <3> QED
      BY <1>1, <1>2, <3>1, <3>2, <3>3 DEF Fresh
  <2> QED
    BY <2>2, <2>3
<1>3. Quiet => Quiet'
  BY <1>1 DEF Quiet, NoAnswer
<1>4. Asked => Asked'
  <2> SUFFICES ASSUME Asked PROVE Asked'
    OBVIOUS
  <2>1. owed - 1 + Slack \in Int /\ Fresh(owed - 1 + Slack)
    BY DEF Asked, IInv, TypeOK
  <2>2. Fresh(owed - 1 + Slack)'
    BY <1>1, <1>2, <2>1 DEF Fresh, Slack
  <2> QED
    BY <1>1, <2>2 DEF Asked, NoAnswer
<1>5. Answered => Answered'
  <2> SUFFICES ASSUME Answered PROVE Answered'
    OBVIOUS
  <2>1. PICK p \in 1..Len(rx) : AnswerAt(p)
    BY DEF Answered
  <2>2. Room(p) \in Nat
    BY RoomProperties DEF Answered, IInv, TypeOK
  <2> DEFINE n == MaxAnswer + sinceCheck + Room(p) + Slack
  <2>3. n \in Int /\ Fresh(n)
    BY <2>1, <2>2 DEF AnswerAt, IInv, TypeOK
  <2>4. AnswerAt(p)'
    BY <1>1, <1>2, <2>1, <2>3 DEF AnswerAt, Fresh, Slack, Room
  <2> QED
    BY <1>1, <2>4 DEF Answered, AnswerAt
<1> QED
  BY <1>1, <1>3, <1>4, <1>5 DEF AnswerInv

\* A packet goes behind the others.
LEMMA ArriveAnswer ==
    ASSUME IInv, AnswerInv, NEW k \in Kinds \ {"PINGRESP"}, Arrive(k)
    PROVE  AnswerInv'
<1>1. /\ rx \in Seq(Kinds) /\ k \in Kinds /\ rx' = Append(rx, k) /\ k /= "PINGRESP"
      /\ Len(rx) < MaxBacklog /\ conn /\ alive
      /\ UNCHANGED <<now, conn, connecting, lastIn, lastOut, pingOutstanding, frames,
                     alive, owed, sinceCheck>>
  BY DEF Arrive, link, stamps, watch, IInv, TypeOK
<1>2. /\ Len(rx') = Len(rx) + 1
      /\ \A i \in 1..Len(rx) : rx'[i] = rx[i]
      /\ rx'[Len(rx) + 1] = k
  BY <1>1
<1>3. NoAnswer => NoAnswer'
  BY <1>1, <1>2 DEF NoAnswer
<1>4. \A n : Fresh(n) => (/\ Elapsed(now', lastIn') <= n
                          /\ Elapsed(now', lastOut') <= n
                          /\ \A i \in 1..Len(frames') : Elapsed(now', frames'[i]) <= n)
  BY <1>1 DEF Fresh
<1>5. Len(rx) \in Nat /\ Len(rx') <= MaxBacklog
  BY <1>1, <1>2, KeepAliveAssumption
<1>6. ~connecting'
  BY <1>1 DEF IInv, ConnectInv
<1>7. CASE Quiet
  BY <1>1, <1>3, <1>5, <1>6, <1>7 DEF Quiet, AnswerInv
<1>8. CASE Asked
  BY <1>1, <1>3, <1>4, <1>5, <1>6, <1>8 DEF Asked, AnswerInv, Fresh, Slack
<1>9. CASE Answered
  <2>1. PICK p \in 1..Len(rx) : AnswerAt(p)
    BY <1>9 DEF Answered
  <2>2. p \in 1..Len(rx') /\ rx'[p] = "PINGRESP"
    BY <1>1, <1>2, <2>1 DEF AnswerAt
  <2>3. \A i \in 1..Len(rx') : rx'[i] = "PINGRESP" => i = p
    BY <1>1, <1>2, <2>1 DEF AnswerAt
  <2>4. AnswerAt(p)'
    BY <1>1, <1>4, <2>1, <2>2, <2>3 DEF AnswerAt, Fresh, Slack, Room
  <2> QED
    BY <1>1, <1>5, <1>6, <1>9, <2>2, <2>4, KeepAliveAssumption DEF Answered, AnswerInv
<1> QED
  BY <1>1, <1>7, <1>8, <1>9 DEF AnswerInv

\* The broker answers in time, behind the packets it sent before.
LEMMA PongAnswer ==
    ASSUME IInv, AnswerInv, Pong
    PROVE  AnswerInv'
<1> USE KeepAliveAssumption, SlackType
<1>1. /\ rx \in Seq(Kinds) /\ rx' = Append(rx, "PINGRESP") /\ conn /\ alive
      /\ owed > 0 /\ owed' = 0
      /\ UNCHANGED <<now, conn, connecting, lastIn, lastOut, pingOutstanding, frames,
                     alive, sinceCheck>>
  BY DEF Pong, link, stamps, watch, IInv, TypeOK
<1>2. /\ Len(rx') = Len(rx) + 1 /\ Len(rx) \in Nat
      /\ \A i \in 1..Len(rx) : rx'[i] = rx[i]
      /\ rx'[Len(rx) + 1] = "PINGRESP"
  BY <1>1, AppendProperties DEF Kinds
<1>3. Asked
  BY <1>1 DEF AnswerInv, Quiet, Answered
<1>p. PICK p \in Nat : p = Len(rx) + 1
  BY <1>2
<1> DEFINE n == MaxAnswer + sinceCheck + Room(p) + Slack
<1>4. p \in 1..(MaxBacklog + 1)
  BY <1>2, <1>3, <1>p DEF Asked
<1>5. n \in Int /\ owed - 1 + Slack \in Int /\ owed - 1 + Slack <= n
  <2>1. Room(p) \in Nat
    BY <1>4, RoomProperties
  <2> QED
    BY <2>1 DEF IInv, TypeOK
<1>6. Fresh(n)
  <2> HIDE DEF n
  <2> QED
    BY <1>3, <1>5, FreshWeaken DEF Asked, IInv
<1>7. \A i \in 1..Len(rx') : rx'[i] = "PINGRESP" => i = p
  BY <1>2, <1>3, <1>p DEF Asked, NoAnswer
<1>8. p \in 1..Len(rx') /\ rx'[p] = "PINGRESP" /\ Len(rx') <= MaxBacklog + 1
  BY <1>2, <1>4, <1>p
<1>9. AnswerAt(p)'
  BY <1>1, <1>6, <1>7, <1>8 DEF AnswerAt, Fresh, Slack, Room
<1>10. Answered'
  BY <1>1, <1>3, <1>8, <1>9 DEF Answered, Asked
<1> QED
  BY <1>1, <1>10 DEF AnswerInv, IInv, ConnectInv

\* loop() reads no answer before there is one, and keeps the stamps of a client
\* that waits for one.
LEMMA LoopAnswer ==
    ASSUME AnswerFits, IInv, AnswerInv, LoopIdle \/ LoopRead
    PROVE  AnswerInv'
<1> USE KeepAliveAssumption, SlackType
<1>1. /\ conn /\ ~connecting /\ conn' /\ ~connecting'
      /\ now' = now /\ alive' = alive /\ sinceCheck' = 0
      /\ rx \in Seq(Kinds) /\ Len(frames) < MaxDepth
  BY DEF LoopIdle, LoopRead, LoopReady, link, IInv, TypeOK, ConnectInv
<1> SUFFICES ASSUME alive PROVE (Quiet \/ Asked \/ Answered)'
  BY <1>1 DEF AnswerInv
<1>2. /\ Expired => lastIn' = now /\ lastOut' = now
      /\ lastIn' \in {now, lastIn}
      /\ ~Expired => lastOut' = lastOut /\ owed' = owed
      /\ Expired => owed' = 1
  BY DEF LoopIdle, LoopRead, Pings
<1>3. \/ rx = <<>> /\ rx' = <<>>
      \/ rx /= <<>> /\ rx' = Tail(rx)
  BY DEF LoopIdle, LoopRead
<1>4. /\ rx' \in Seq(Kinds)
      /\ rx = <<>> => Len(rx') = 0
      /\ rx /= <<>> => Len(rx') = Len(rx) - 1
      /\ \A i \in 1..Len(rx') : i + 1 \in 1..Len(rx) /\ rx'[i] = rx[i + 1]
  BY <1>1, <1>3
<1>5. NoAnswer => (NoAnswer' /\ (pingOutstanding' <=> pingOutstanding \/ Expired))
  <2> SUFFICES ASSUME NoAnswer
               PROVE  NoAnswer' /\ (pingOutstanding' <=> pingOutstanding \/ Expired)
    OBVIOUS
  <2>1. NoAnswer'
    BY <1>4 DEF NoAnswer
  <2>2. rx /= <<>> => Head(rx) /= "PINGRESP"
    BY <1>1 DEF NoAnswer
  <2> QED
    BY <2>1, <2>2 DEF LoopIdle, LoopRead, Pings
<1>6. \A i \in 1..Len(frames') :
          frames'[i] = now \/ \E j \in 1..Len(frames) : frames'[i] = frames[j]
  <2>1. frames \in Seq(Clock) /\ now \in Clock
    BY DEF IInv, TypeOK
  <2>2. frames' = frames \/ frames' = Append(frames, now)
    BY DEF LoopIdle, LoopRead
  <2> QED
    BY <2>1, <2>2
<1> DEFINE FreshNext(n) ==
             /\ Elapsed(now', lastIn') <= n
             /\ Elapsed(now', lastOut') <= n
             /\ \A i \in 1..Len(frames') : Elapsed(now', frames'[i]) <= n
<1>7. ASSUME NEW n \in Int, Fresh(n), ~Expired PROVE FreshNext(n)
  <2>1. n \in Nat
    <3>1. Elapsed(now, lastIn) \in Nat /\ Elapsed(now, lastIn) <= n
      BY <1>7, ElapsedType DEF IInv, TypeOK, Fresh
    <3> QED
      BY <3>1
  <2> QED
    BY <1>1, <1>2, <1>6, <1>7, <2>1, FreshStamps DEF IInv
<1>8. CASE Quiet /\ ~Expired
  BY <1>2, <1>4, <1>5, <1>8 DEF Quiet
<1>9. CASE Quiet /\ Expired
  <2>1. Elapsed(now, now) = 0
    BY ElapsedType DEF IInv, TypeOK
  <2>2. \A j \in 1..Len(frames) : Elapsed(now, frames[j]) <= Slack
    <3>1. CASE MaxDepth > 1
      <4>1. \A j \in 1..Len(frames) : Elapsed(now, frames[j]) <= held
        BY DEF IInv, FrameInv
      <4>2. \A j \in 1..Len(frames) : Elapsed(now, frames[j]) \in Nat
        <5>1. now \in Clock /\ frames \in Seq(Clock)
          BY DEF IInv, TypeOK
        <5>2. \A j \in 1..Len(frames) : frames[j] \in Clock
          BY <5>1
        <5> QED
          BY <5>1, <5>2, ElapsedType
      <4>3. held \in Nat /\ held <= MaxHold /\ Slack = MaxHold
        BY <3>1 DEF IInv, TypeOK, Slack
      <4> QED
        BY <4>1, <4>2, <4>3
    <3>2. CASE ~(MaxDepth > 1)
      BY <1>1, <3>2 DEF IInv, TypeOK
    <3> QED
      BY <3>1, <3>2
  <2>3. FreshNext(Slack)
    BY <1>1, <1>2, <1>6, <1>9, <2>1, <2>2
  <2>4. Fresh(owed - 1 + Slack)'
    BY <1>2, <1>9, <2>3 DEF Fresh, Slack
  <2> QED
    BY <1>2, <1>4, <1>5, <1>9, <2>4 DEF Quiet, Asked
<1>10. CASE Asked
  <2>1. ~Expired
    BY <1>10, AnswerInTime DEF IInv
  <2> DEFINE n == owed - 1 + Slack
  <2>2. n \in Int /\ Fresh(n)
    BY <1>10 DEF Asked, IInv, TypeOK
  <2>3. FreshNext(n)
    <3> HIDE DEF n, FreshNext
    <3> QED
      BY <1>7, <2>1, <2>2
  <2>4. Fresh(owed - 1 + Slack)'
    BY <1>2, <2>1, <2>3 DEF Fresh, Slack
  <2> QED
    BY <1>2, <1>4, <1>5, <1>10, <2>1, <2>4 DEF Asked
<1>11. CASE Answered
  <2>1. ~Expired
    BY <1>11, AnswerInTime DEF IInv
  <2>2. PICK p \in 1..Len(rx) : AnswerAt(p)
    BY <1>11 DEF Answered
  <2>3. p \in 1..(MaxBacklog + 1) /\ rx /= <<>>
    <3>1. Len(rx) <= MaxBacklog + 1 /\ Len(rx) \in Nat /\ (rx = <<>> => Len(rx) = 0)
      BY <1>1, <1>11 DEF Answered
    <3> QED
      BY <3>1
  <2>4. owed' = 0 /\ Len(rx') <= MaxBacklog
    BY <1>1, <1>2, <1>4, <1>11, <2>1, <2>3 DEF Answered
  <2>5. CASE p = 1
    <3>1. Head(rx) = "PINGRESP"
      BY <1>1, <2>2, <2>5 DEF AnswerAt
    <3>2. ~pingOutstanding'
      BY <2>3, <3>1 DEF LoopIdle, LoopRead
    <3>3. NoAnswer'
      BY <1>4, <2>2, <2>5 DEF NoAnswer, AnswerAt
    <3> QED
      BY <2>4, <3>2, <3>3 DEF Quiet
  <2>6. CASE p > 1
    <3>1. PICK q \in Nat : q = p - 1
      BY <2>6
    <3>2. q \in 1..Len(rx') /\ rx'[q] = "PINGRESP"
      BY <1>4, <2>2, <2>3, <2>6, <3>1 DEF AnswerAt
    <3>3. \A i \in 1..Len(rx') : rx'[i] = "PINGRESP" => i = q
      <4>1. \A i \in 1..Len(rx) : rx[i] = "PINGRESP" => i = p
        BY <2>2 DEF AnswerAt
      <4>2. ASSUME NEW i \in 1..Len(rx'), rx'[i] = "PINGRESP" PROVE i = q
        <5>1. i + 1 \in 1..Len(rx) /\ rx[i + 1] = "PINGRESP"
          BY <1>4, <4>2
        <5>2. i + 1 = p
          BY <4>1, <5>1
        <5> QED
          BY <3>1, <5>2
      <4> QED
        BY <4>2
    <3>4. Head(rx) /= "PINGRESP"
      BY <1>1, <2>2, <2>3, <2>6 DEF AnswerAt
    <3>5. pingOutstanding'
      BY <1>11, <3>4 DEF Answered, LoopIdle, LoopRead
    <3> DEFINE n == MaxAnswer + 0 + Room(q) + Slack
    <3>6. n \in Int /\ Fresh(n)
      <4> DEFINE m == MaxAnswer + sinceCheck + Room(p) + Slack
      <4>1. Room(p) \in Nat /\ Room(q) = Room(p) + MaxGap
        BY <2>3, <2>6, <3>1, RoomProperties
      <4>2. m \in Int /\ n \in Int /\ m <= n
        BY <4>1 DEF IInv, TypeOK
      <4>3. Fresh(m)
        BY <2>2 DEF AnswerAt
      <4> HIDE DEF m, n
      <4> QED
        BY <4>2, <4>3, FreshWeaken DEF IInv
    <3>7. FreshNext(n)
      <4> HIDE DEF n, FreshNext
      <4> QED
        BY <1>7, <2>1, <3>6
    <3>8. AnswerAt(q)'
      BY <1>1, <3>2, <3>3, <3>7 DEF AnswerAt, Fresh, Slack, Room
    <3> QED
      BY <2>4, <3>2, <3>5, <3>8 DEF Answered
  <2> QED
    BY <2>5, <2>6
<1> QED
  BY <1>1, <1>8, <1>9, <1>10, <1>11 DEF AnswerInv

LEMMA NextAnswer ==
    ASSUME AnswerFits, IInv, AnswerInv, [Next]_vars
    PROVE  AnswerInv'
<1>1. CASE Tick
  BY <1>1, TickAnswer
<1>2. CASE ConnectStart \/ Die \/ PeerCloses
  BY <1>2, ConnectAnswer
<1>3. CASE ConnectEnd
  BY <1>3, ConnectAnswer DEF ConnectEnd, ConnectRefused, ConnectTimeout
<1>4. CASE Disconnect
  BY <1>4, ConnectAnswer DEF Disconnect
<1>5. CASE Write \/ CallbackReturn
  BY <1>5, WriteAnswer
<1>6. CASE LoopStep
  BY <1>6, LoopAnswer, ConnectAnswer DEF LoopStep, LoopTimeout
<1>7. CASE \E k \in Kinds \ {"PINGRESP"} : Arrive(k)
  BY <1>7, ArriveAnswer
<1>8. CASE Pong
  BY <1>8, PongAnswer
<1>9. CASE UNCHANGED vars
  BY <1>9 DEF vars, link, stamps, peer, watch, AnswerInv, Quiet, Asked, Answered,
              AnswerAt, NoAnswer, Fresh, Room, Slack
<1> QED
  BY <1>1, <1>2, <1>3, <1>4, <1>5, <1>6, <1>7, <1>8, <1>9 DEF Next

\* loop() does not disconnect from a broker that can be reached, answers every
\* PINGREQ within MaxAnswer and fits its answer into the interval (the check at
\* the start of loop(), pingOutstanding).
THEOREM AnsweringBrokerIsKept ==
    ASSUME AnswerFits
    PROVE  Spec => LiveBrokerIsKept
<1>1. Init => AnswerInv
  BY InitAnswer
<1>2. IInv /\ AnswerInv /\ [Next]_vars => AnswerInv'
  BY NextAnswer
<1>3. IInv /\ AnswerInv /\ [Next]_vars => [LoopTimeout => ~alive]_vars
  <2> SUFFICES ASSUME IInv, AnswerInv, LoopTimeout, alive PROVE FALSE
    OBVIOUS
  <2>1. conn /\ pingOutstanding /\ Expired
    BY DEF LoopTimeout, LoopReady
  <2>2. Asked \/ Answered
    BY <2>1 DEF AnswerInv, Quiet
  <2> QED
    BY <2>1, <2>2, AnswerInTime DEF IInv
<1> QED
  BY <1>1, <1>2, <1>3, KeepAliveInvariant, PTL DEF Spec, LiveBrokerIsKept
==============================================================================
