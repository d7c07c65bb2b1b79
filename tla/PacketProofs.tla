------------------------------ MODULE PacketProofs ------------------------------
(***************************************************************************)
(* PacketReader and PacketWriter for every value of their constants.       *)
(*                                                                         *)
(* The reader: on a connection that ends only between packets loop() acts  *)
(* on the packets that were sent and fit the buffer, whole and in order.   *)
(* readPacket() knows bytes; what makes them packets is where they stand.  *)
(* The bytes under way, in the record mbedTLS has opened, then in the      *)
(* socket, then on the wire, run without a gap from the reader's place in  *)
(* the packet it is in to the end of the last packet sent.                 *)
(*                                                                         *)
(* The writer: a packet that fits the buffer is read as what its call was  *)
(* given.  Each part that a call writes keeps the parts in front of it,    *)
(* and write() puts the header in front of all of them; the digits of the  *)
(* length say how far it moved, so a reader finds each part at its place.  *)
(***************************************************************************)
EXTENDS PacketReader, PacketWriter, QueueLemmas

------------------------------------------------------------------------------
(* The remaining length *)

\* What division by Base leaves.
LEMMA Division ==
    ASSUME NEW a \in Nat
    PROVE  /\ a \div Base \in Nat
           /\ a % Base \in 0..(Base - 1)
           /\ a = Base * (a \div Base) + (a % Base)
BY ReaderAssumption, BufferAssumption

LEMMA SmallRemainder ==
    ASSUME NEW a \in 0..(Base - 1)
    PROVE  a % Base = a /\ (a + Base) % Base = a /\ a \div Base = 0
BY ReaderAssumption, BufferAssumption

LEMMA DivisionBound ==
    ASSUME NEW a \in Nat, NEW b \in Nat, a < b * Base
    PROVE  a \div Base < b
<1> USE ReaderAssumption, BufferAssumption
<1> DEFINE q == a \div Base
<1>1. q \in Nat /\ Base * q <= a
  BY Division
<1>2. ASSUME q >= b PROVE FALSE
  <2>1. Base * q >= Base * b
    BY <1>1, <1>2
  <2> QED
    BY <1>1, <2>1
<1> QED
  BY <1>1, <1>2

LEMMA QuotientStep ==
    ASSUME NEW r \in Nat, NEW k \in 0..3
    PROVE  /\ Quotient(r, k) \in Nat
           /\ k < 3 => Quotient(r, k + 1) = Quotient(r, k) \div Base
           /\ Quotient(r, 0) = r
<1> USE ReaderAssumption, BufferAssumption
<1>1. k \in {0, 1, 2, 3}
  OBVIOUS
<1>2. \A a \in Nat : a \div Base \in Nat
  BY Division
<1> QED
  BY <1>1, <1>2 DEF Quotient

\* MQTT's limit of four digits.
LEMMA LastQuotient ==
    ASSUME NEW r \in Nat, r < Base * Base * Base * Base
    PROVE  Quotient(r, 3) < Base
<1> USE ReaderAssumption, BufferAssumption
<1>1. Base * Base * Base \in Nat /\ Base * Base \in Nat
  OBVIOUS
<1>2. r \div Base < Base * Base * Base /\ r \div Base \in Nat
  BY <1>1, Division, DivisionBound
<1>3. (r \div Base) \div Base < Base * Base /\ (r \div Base) \div Base \in Nat
  BY <1>1, <1>2, Division, DivisionBound
<1> QED
  BY <1>3, Division, DivisionBound DEF Quotient

LEMMA CountIs ==
    ASSUME NEW r \in Nat
    PROVE  /\ DigitCount(r) \in 1..4
           /\ DigitCount(r) < 4 => Quotient(r, DigitCount(r)) = 0
           /\ \A j \in 1..(DigitCount(r) - 1) : Quotient(r, j) > 0
<1> DEFINE P(k) == /\ k < 4 => Quotient(r, k) = 0
                   /\ \A j \in 1..(k - 1) : Quotient(r, j) > 0
<1>1. Quotient(r, 1) \in Nat /\ Quotient(r, 2) \in Nat /\ Quotient(r, 3) \in Nat
  BY QuotientStep
<1>2. \E k \in 1..4 : P(k)
  <2>1. CASE Quotient(r, 1) = 0
    BY <2>1
  <2>2. CASE Quotient(r, 1) > 0 /\ Quotient(r, 2) = 0
    <3>1. P(2)
      BY <2>2
    <3> QED
      BY <3>1
  <2>3. CASE Quotient(r, 1) > 0 /\ Quotient(r, 2) > 0 /\ Quotient(r, 3) = 0
    <3>1. P(3)
      BY <2>3
    <3> QED
      BY <3>1
  <2>4. CASE Quotient(r, 1) > 0 /\ Quotient(r, 2) > 0 /\ Quotient(r, 3) > 0
    <3>1. P(4)
      BY <2>4
    <3> QED
      BY <3>1
  <2> QED
    BY <1>1, <2>1, <2>2, <2>3, <2>4
<1>3. DigitCount(r) = CHOOSE k \in 1..4 : P(k)
  BY DEF DigitCount
<1> HIDE DEF P
<1>4. DigitCount(r) \in 1..4 /\ P(DigitCount(r))
  BY <1>2, <1>3
<1> QED
  BY <1>4 DEF P

\* The digits are the length's in base Base, and all but the last are marked.
LEMMA DigitIs ==
    ASSUME NEW r \in Nat, r < Base * Base * Base * Base, NEW k \in 1..DigitCount(r)
    PROVE  LET d == Digits(r)[k]
           IN  /\ d \in Nat
               /\ d >= Base <=> k < DigitCount(r)
               /\ d % Base \in 0..(Base - 1)
               /\ k < DigitCount(r) => Quotient(r, k - 1) = Base * Quotient(r, k) + (d % Base)
               /\ k = DigitCount(r) => Quotient(r, k - 1) = d % Base
<1> USE ReaderAssumption, BufferAssumption
<1> DEFINE q == Quotient(r, k - 1)
           d == Digits(r)[k]
<1>1. DigitCount(r) \in 1..4 /\ k \in 1..4 /\ k - 1 \in 0..3
  BY CountIs
<1>2. q \in Nat
  BY <1>1, QuotientStep
<1>3. d = (q % Base) + (IF k < DigitCount(r) THEN Base ELSE 0)
  BY DEF Digits
<1>4. q % Base \in 0..(Base - 1) /\ q = Base * (q \div Base) + (q % Base)
  BY <1>2, Division
<1>5. d \in Nat /\ (d >= Base <=> k < DigitCount(r)) /\ d % Base = q % Base
  <2> HIDE DEF q, d
  <2>1. (q % Base) % Base = q % Base /\ ((q % Base) + Base) % Base = q % Base
    BY <1>4, SmallRemainder
  <2> QED
    BY <1>1, <1>3, <1>4, <2>1
<1>6. CASE k < DigitCount(r)
  <2>1. k - 1 < 3 /\ (k - 1) + 1 = k
    BY <1>1, <1>6
  <2>2. Quotient(r, k) = q \div Base
    BY <1>1, <2>1, QuotientStep
  <2> QED
    BY <1>4, <1>5, <1>6, <2>2
<1>7. CASE k = DigitCount(r)
  <2>1. q < Base
    <3>1. CASE k = 4
      BY <3>1, LastQuotient
    <3>2. CASE k < 4
      <4>1. Quotient(r, k) = 0
        BY <1>1, <1>7, <3>2, CountIs
      <4>2. k - 1 < 3 /\ (k - 1) + 1 = k
        BY <1>1, <3>2
      <4>3. q \div Base = 0
        BY <1>1, <4>1, <4>2, QuotientStep
      <4> HIDE DEF q
      <4> QED
        BY <1>4, <4>3
    <3> QED
      BY <1>1, <3>1, <3>2
  <2>2. q % Base = q
    BY <1>2, <2>1, SmallRemainder
  <2> QED
    BY <1>4, <1>5, <1>7, <2>2
<1> QED
  BY <1>1, <1>4, <1>5, <1>6, <1>7

LEMMA SizeIs ==
    ASSUME NEW p \in Packets
    PROVE  /\ SizeOf(p) \in Nat
           /\ SizeOf(p) = 1 + DigitCount(p.rest) + p.rest
           /\ DigitCount(p.rest) \in 1..4
           /\ p.rest \in Nat
           /\ p.rest < Base * Base * Base * Base
           /\ p.publish => p.rest >= 2
BY ReaderAssumption, BufferAssumption, CountIs DEF SizeOf

------------------------------------------------------------------------------
(* The bytes under way, as stretches between the bytes they begin and end at;  *)
(* ps are the packets sent.                                                    *)

Bytes == [packet : Nat, at : Nat]

IsByte(ps, b) == b \in Bytes /\ b.packet \in 1..Len(ps) /\ b.at \in 1..SizeOf(ps[b.packet])

\* The byte behind b, and the one behind all.
Succ(ps, b) ==
    IF b.at = SizeOf(ps[b.packet]) THEN Byte(b.packet + 1, 1) ELSE Byte(b.packet, b.at + 1)

End(ps) == Byte(Len(ps) + 1, 1)

\* s has the bytes from c on up to the one in front of d.
Spans(ps, s, c, d) ==
    /\ \A i \in 1..Len(s) : IsByte(ps, s[i])
    /\ s = <<>> => d = c
    /\ s /= <<>> => s[1] = c /\ d = Succ(ps, s[Len(s)])
    /\ \A i \in 1..(Len(s) - 1) : s[i + 1] = Succ(ps, s[i])

LEMMA SpansTail ==
    ASSUME NEW ps, NEW s \in Seq(Bytes), NEW c, NEW d, s /= <<>>, Spans(ps, s, c, d)
    PROVE  s[1] = c /\ IsByte(ps, c) /\ Spans(ps, Tail(s), Succ(ps, c), d)
<1> DEFINE t == Tail(s)
<1>1. /\ t \in Seq(Bytes) /\ Len(t) = Len(s) - 1 /\ Len(s) \in Nat \ {0}
      /\ \A i \in 1..Len(t) : t[i] = s[i + 1] /\ i + 1 \in 1..Len(s)
  OBVIOUS
<1>2. s[1] = c /\ IsByte(ps, c) /\ d = Succ(ps, s[Len(s)])
  BY <1>1 DEF Spans
<1>3. \A i \in 1..Len(t) : IsByte(ps, t[i])
  BY <1>1 DEF Spans
<1>4. t = <<>> => d = Succ(ps, c)
  BY <1>1, <1>2
<1>5. t /= <<>> => t[1] = Succ(ps, c) /\ d = Succ(ps, t[Len(t)])
  <2> SUFFICES ASSUME t /= <<>> PROVE t[1] = Succ(ps, c) /\ d = Succ(ps, t[Len(t)])
    OBVIOUS
  <2>1. Len(t) \in 1..Len(t) /\ 1 \in 1..Len(t) /\ 1 \in 1..(Len(s) - 1)
    BY <1>1
  <2>2. t[1] = s[2] /\ t[Len(t)] = s[Len(s)]
    BY <1>1, <2>1
  <2>3. s[2] = Succ(ps, s[1])
    BY <2>1 DEF Spans
  <2> QED
    BY <1>2, <2>2, <2>3
<1>6. \A i \in 1..(Len(t) - 1) : t[i + 1] = Succ(ps, t[i])
  <2> SUFFICES ASSUME NEW i \in 1..(Len(t) - 1) PROVE t[i + 1] = Succ(ps, t[i])
    OBVIOUS
  <2>1. i + 1 \in 1..(Len(s) - 1) /\ i \in 1..Len(t) /\ i + 1 \in 1..Len(t)
    BY <1>1
  <2>2. s[(i + 1) + 1] = Succ(ps, s[i + 1])
    BY <2>1 DEF Spans
  <2> QED
    BY <1>1, <2>1, <2>2
<1> QED
  BY <1>2, <1>3, <1>4, <1>5, <1>6 DEF Spans

\* The first k bytes and the others.
LEMMA SpansSplit ==
    ASSUME NEW ps, NEW s \in Seq(Bytes), NEW c, NEW d, Spans(ps, s, c, d),
           NEW k \in 1..Len(s)
    PROVE  \E e : /\ Spans(ps, SubSeq(s, 1, k), c, e)
                  /\ Spans(ps, SubSeq(s, k + 1, Len(s)), e, d)
<1> DEFINE t == SubSeq(s, 1, k)
           u == SubSeq(s, k + 1, Len(s))
           e == Succ(ps, s[k])
<1>1. /\ Len(s) \in Nat /\ k \in Nat
      /\ t \in Seq(Bytes) /\ Len(t) = k /\ \A i \in 1..k : t[i] = s[i]
      /\ u \in Seq(Bytes) /\ Len(u) = Len(s) - k
      /\ \A i \in 1..Len(u) : u[i] = s[k + i]
  OBVIOUS
<1>2. Spans(ps, t, c, e)
  <2>1. t /= <<>> /\ t[1] = s[1] /\ t[Len(t)] = s[k] /\ s /= <<>>
    BY <1>1
  <2>2. \A i \in 1..Len(t) : IsByte(ps, t[i])
    BY <1>1 DEF Spans
  <2>3. \A i \in 1..(Len(t) - 1) : t[i + 1] = Succ(ps, t[i])
    <3> SUFFICES ASSUME NEW i \in 1..(Len(t) - 1) PROVE t[i + 1] = Succ(ps, t[i])
      OBVIOUS
    <3>1. i \in 1..(Len(s) - 1) /\ i \in 1..k /\ i + 1 \in 1..k
      BY <1>1
    <3> QED
      BY <1>1, <3>1 DEF Spans
  <2> QED
    BY <2>1, <2>2, <2>3 DEF Spans
<1>3. Spans(ps, u, e, d)
  <2>1. \A i \in 1..Len(u) : IsByte(ps, u[i])
    <3> SUFFICES ASSUME NEW i \in 1..Len(u) PROVE IsByte(ps, u[i])
      OBVIOUS
    <3>1. k + i \in 1..Len(s)
      BY <1>1
    <3> QED
      BY <1>1, <3>1 DEF Spans
  <2>2. u = <<>> => d = e
    <3> SUFFICES ASSUME u = <<>> PROVE d = e
      OBVIOUS
    <3> HIDE DEF u, t
    <3>1. Len(u) = 0
      OBVIOUS
    <3>2. k = Len(s) /\ Len(s) >= 1
      BY <1>1, <3>1
    <3>3. s /= <<>>
      BY <3>2
    <3> QED
      BY <3>2, <3>3 DEF Spans
  <2>3. u /= <<>> => u[1] = e /\ d = Succ(ps, u[Len(u)])
    <3> SUFFICES ASSUME u /= <<>> PROVE u[1] = e /\ d = Succ(ps, u[Len(u)])
      OBVIOUS
    <3>1. k \in 1..(Len(s) - 1) /\ 1 \in 1..Len(u) /\ Len(u) \in 1..Len(u) /\ s /= <<>>
      BY <1>1
    <3>2. u[1] = s[k + 1] /\ u[Len(u)] = s[Len(s)]
      BY <1>1, <3>1
    <3> QED
      BY <3>1, <3>2 DEF Spans
  <2>4. \A i \in 1..(Len(u) - 1) : u[i + 1] = Succ(ps, u[i])
    <3> SUFFICES ASSUME NEW i \in 1..(Len(u) - 1) PROVE u[i + 1] = Succ(ps, u[i])
      OBVIOUS
    <3>1. k + i \in 1..(Len(s) - 1) /\ i \in 1..Len(u) /\ i + 1 \in 1..Len(u)
      BY <1>1
    <3>2. s[(k + i) + 1] = Succ(ps, s[k + i])
      BY <3>1 DEF Spans
    <3>3. (k + i) + 1 = k + (i + 1)
      BY <1>1
    <3> QED
      BY <1>1, <3>1, <3>2, <3>3
  <2> QED
    BY <2>1, <2>2, <2>3, <2>4 DEF Spans
<1> QED
  BY <1>2, <1>3

\* Another packet sent changes nothing of the bytes before it.
LEMMA SpansMore ==
    ASSUME NEW ps \in Seq(Packets), NEW p \in Packets, NEW s \in Seq(Bytes), NEW c, NEW d,
           Spans(ps, s, c, d)
    PROVE  Spans(Append(ps, p), s, c, d)
<1>1. /\ Len(Append(ps, p)) = Len(ps) + 1 /\ Len(ps) \in Nat
      /\ \A i \in 1..Len(ps) : Append(ps, p)[i] = ps[i]
  BY AppendProperties
<1>2. ASSUME NEW b, IsByte(ps, b)
      PROVE  IsByte(Append(ps, p), b) /\ Succ(Append(ps, p), b) = Succ(ps, b)
  BY <1>1, <1>2 DEF IsByte, Succ
<1>3. Len(s) \in Nat /\ (s /= <<>> => Len(s) \in 1..Len(s))
  OBVIOUS
<1>4. \A i \in 1..(Len(s) - 1) : i \in 1..Len(s)
  BY <1>3
<1> QED
  BY <1>2, <1>3, <1>4 DEF Spans

\* Its own bytes follow.
LEMMA SpansSent ==
    ASSUME NEW ps \in Seq(Packets), NEW p \in Packets, NEW s \in Seq(Bytes), NEW c,
           Spans(ps, s, c, End(ps))
    PROVE  LET t == s \o [i \in 1..SizeOf(p) |-> Byte(Len(ps) + 1, i)]
           IN  t \in Seq(Bytes) /\ Spans(Append(ps, p), t, c, End(Append(ps, p)))
<1> DEFINE qs == Append(ps, p)
           n == Len(ps) + 1
           z == SizeOf(p)
           u == [i \in 1..z |-> Byte(n, i)]
           t == s \o u
<1>1. /\ Len(qs) = n /\ n \in Nat /\ qs[n] = p /\ n \in 1..Len(qs)
      /\ z \in Nat /\ z >= 1
  <2>1. Len(qs) = n /\ Len(ps) \in Nat /\ qs[n] = p
    BY AppendProperties
  <2>2. DigitCount(p.rest) \in Nat /\ p.rest \in Nat /\ z = 1 + DigitCount(p.rest) + p.rest
    BY SizeIs
  <2> HIDE DEF z, qs
  <2> QED
    BY <2>1, <2>2
<1>2. \A i \in 1..z : Byte(n, i) \in Bytes /\ IsByte(qs, Byte(n, i))
  BY <1>1 DEF Byte, Bytes, IsByte
<1>3. u \in Seq(Bytes) /\ Len(u) = z /\ \A i \in 1..z : u[i] = Byte(n, i)
  <2> HIDE DEF z, n
  <2>1. u \in [1..z -> Bytes]
    BY <1>2
  <2> QED
    BY <1>1, <2>1
<1>4. Spans(qs, s, c, Byte(n, 1))
  BY SpansMore DEF End
<1>5. /\ t \in Seq(Bytes) /\ Len(t) = Len(s) + z /\ Len(s) \in Nat
      /\ \A i \in 1..Len(s) : t[i] = s[i]
      /\ \A i \in 1..z : t[Len(s) + i] = Byte(n, i)
  <2> HIDE DEF z, n, u
  <2> QED
    BY <1>1, <1>3
<1> HIDE DEF u, z, n, qs, t
<1>6. \A i \in 1..Len(t) : i \in 1..Len(s) \/ i - Len(s) \in 1..z
  BY <1>1, <1>5
<1>7. \A i \in 1..Len(t) : IsByte(qs, t[i])
  <2> SUFFICES ASSUME NEW i \in 1..Len(t) PROVE IsByte(qs, t[i])
    OBVIOUS
  <2>1. CASE i \in 1..Len(s)
    BY <1>4, <1>5, <2>1 DEF Spans
  <2>2. CASE i - Len(s) \in 1..z
    <3>1. t[Len(s) + (i - Len(s))] = Byte(n, i - Len(s)) /\ Len(s) + (i - Len(s)) = i
      BY <1>5, <2>2
    <3> QED
      BY <1>2, <2>2, <3>1
  <2> QED
    BY <1>6, <2>1, <2>2
<1>8. t[1] = c
  <2>1. CASE s = <<>>
    <3>1. Len(s) = 0 /\ c = Byte(n, 1) /\ 1 \in 1..z
      BY <1>1, <1>4, <2>1 DEF Spans
    <3> QED
      BY <1>5, <3>1
  <2>2. CASE s /= <<>>
    <3>1. s[1] = c /\ 1 \in 1..Len(s)
      BY <1>4, <2>2 DEF Spans
    <3> QED
      BY <1>5, <3>1
  <2> QED
    BY <2>1, <2>2
<1>9. Succ(qs, t[Len(t)]) = End(qs)
  <2>1. t[Len(t)] = Byte(n, z)
    BY <1>1, <1>5
  <2>2. Byte(n, z).at = z /\ Byte(n, z).packet = n
    BY DEF Byte
  <2> QED
    BY <1>1, <2>1, <2>2 DEF Succ, End, z
<1>10. ASSUME NEW i \in 1..(Len(t) - 1) PROVE t[i + 1] = Succ(qs, t[i])
  <2>1. CASE i \in 1..(Len(s) - 1)
    <3>1. i \in 1..Len(s) /\ i + 1 \in 1..Len(s) /\ s[i + 1] = Succ(qs, s[i])
      BY <1>4, <1>5, <2>1 DEF Spans
    <3> QED
      BY <1>5, <3>1
  <2>2. CASE i = Len(s)
    <3>1. s /= <<>> /\ t[i] = s[Len(s)] /\ t[i + 1] = Byte(n, 1)
      BY <1>1, <1>5, <2>2
    <3> QED
      BY <1>4, <3>1 DEF Spans
  <2>3. CASE i > Len(s)
    <3>1. PICK j \in Nat : i = Len(s) + j /\ j \in 1..z /\ j + 1 \in 1..z
      <4>1. i - Len(s) \in Nat /\ i = Len(s) + (i - Len(s))
        BY <1>5, <2>3
      <4>2. i - Len(s) \in 1..z /\ (i - Len(s)) + 1 \in 1..z
        BY <1>1, <1>5, <2>3
      <4> QED
        BY <4>1, <4>2
    <3>2. t[i] = Byte(n, j) /\ i + 1 = Len(s) + (j + 1)
      BY <1>5, <3>1
    <3>3. t[i + 1] = Byte(n, j + 1)
      BY <1>5, <3>1, <3>2
    <3>4. Succ(qs, Byte(n, j)) = Byte(n, j + 1)
      BY <1>1, <3>1 DEF Succ, Byte, z
    <3> QED
      BY <3>2, <3>3, <3>4
  <2> QED
    BY <1>5, <2>1, <2>2, <2>3
<1>11. t /= <<>>
  BY <1>1, <1>5
<1>12. Spans(qs, t, c, End(qs))
  BY <1>7, <1>8, <1>9, <1>10, <1>11 DEF Spans
<1> QED
  BY <1>5, <1>12 DEF qs, t, u, z, n

------------------------------------------------------------------------------
(* What is under way: the record mbedTLS has opened, the records the socket    *)
(* holds, the bytes still to arrive.                                           *)

Data(rec) == IF rec = <<CloseNotify>> THEN <<>> ELSE rec

\* Stretch j of it goes from f[j] up to f[j + 1].
Joins(f, ps, o, ss, w) ==
    /\ Spans(ps, o, f[0], f[1])
    /\ \A j \in 1..Len(ss) : Spans(ps, Data(ss[j]), f[j], f[j + 1])
    /\ Spans(ps, w, f[Len(ss) + 1], End(ps))

\* All of it, from c on up to the end of what was sent.
Fed(ps, o, ss, w, c) == \E f : Joins(f, ps, o, ss, w) /\ f[0] = c

LEMMA TailOfOne == ASSUME NEW S, NEW s \in Seq(S), Len(s) = 1 PROVE Tail(s) = <<>>
<1>1. Tail(s) \in Seq(S) /\ Len(Tail(s)) = 0
  OBVIOUS
<1> QED
  BY <1>1, EmptySeq

LEMMA ByteIs ==
    ASSUME NEW n \in Nat, NEW i \in Nat
    PROVE  Byte(n, i) \in Bytes /\ Byte(n, i).packet = n /\ Byte(n, i).at = i
BY DEF Byte, Bytes

LEMMA ByteEqual ==
    ASSUME NEW m, NEW n, NEW i, NEW j, Byte(m, i) = Byte(n, j)
    PROVE  m = n /\ i = j
<1>1. Byte(m, i).packet = m /\ Byte(m, i).at = i /\ Byte(n, j).packet = n /\ Byte(n, j).at = j
  BY DEF Byte
<1> QED
  BY <1>1

LEMMA DataType == ASSUME NEW rec \in Seq(Bytes) PROVE Data(rec) \in Seq(Bytes)
BY DEF Data

LEMMA NoSpan == ASSUME NEW ps, NEW c, NEW d PROVE Spans(ps, <<>>, c, d) <=> d = c
BY DEF Spans

LEMMA FedSent ==
    ASSUME NEW ps \in Seq(Packets), NEW p \in Packets, NEW o \in Seq(Bytes),
           NEW ss \in Seq(Seq(Bytes)), NEW w \in Seq(Bytes), NEW c, Fed(ps, o, ss, w, c)
    PROVE  LET v == w \o [i \in 1..SizeOf(p) |-> Byte(Len(ps) + 1, i)]
           IN  v \in Seq(Bytes) /\ Fed(Append(ps, p), o, ss, v, c)
<1> DEFINE v == w \o [i \in 1..SizeOf(p) |-> Byte(Len(ps) + 1, i)]
<1>1. PICK f : Joins(f, ps, o, ss, w) /\ f[0] = c
  BY DEF Fed
<1>2. Spans(Append(ps, p), o, f[0], f[1])
  BY <1>1, SpansMore DEF Joins
<1>3. ASSUME NEW j \in 1..Len(ss) PROVE Spans(Append(ps, p), Data(ss[j]), f[j], f[j + 1])
  <2>1. ss[j] \in Seq(Bytes)
    OBVIOUS
  <2>2. Spans(ps, Data(ss[j]), f[j], f[j + 1])
    BY <1>1 DEF Joins
  <2> QED
    BY <2>1, <2>2, DataType, SpansMore
<1>4. v \in Seq(Bytes) /\ Spans(Append(ps, p), v, f[Len(ss) + 1], End(Append(ps, p)))
  BY <1>1, SpansSent DEF Joins
<1> HIDE DEF v
<1>5. Joins(f, Append(ps, p), o, ss, v)
  BY <1>2, <1>3, <1>4 DEF Joins
<1> QED
  BY <1>1, <1>4, <1>5 DEF Fed, v

\* A record with no application data arrives, or one with the next bytes.
LEMMA FedRecordArrives ==
    ASSUME NEW ps, NEW o, NEW ss \in Seq(Seq(Bytes)), NEW w, NEW c, NEW rec \in Seq(Bytes),
           NEW v, NEW f, NEW e, Joins(f, ps, o, ss, w), f[0] = c,
           Spans(ps, Data(rec), f[Len(ss) + 1], e), Spans(ps, v, e, End(ps))
    PROVE  Fed(ps, o, Append(ss, rec), v, c)
<1> DEFINE n == Len(ss)
           ts == Append(ss, rec)
           g == [j \in 0..(n + 2) |-> IF j = n + 2 THEN e ELSE f[j]]
<1>1. /\ n \in Nat /\ Len(ts) = n + 1 /\ ts[n + 1] = rec
      /\ \A j \in 1..n : ts[j] = ss[j]
  BY AppendProperties
<1> HIDE DEF n, ts
<1>2. g[n + 2] = e /\ \A j \in 0..(n + 1) : g[j] = f[j]
  BY <1>1
<1> HIDE DEF g
<1>3. Spans(ps, o, g[0], g[1]) /\ g[0] = c
  <2>1. g[0] = f[0] /\ g[1] = f[1]
    BY <1>1, <1>2
  <2> QED
    BY <2>1 DEF Joins
<1>4. ASSUME NEW j \in 1..Len(ts) PROVE Spans(ps, Data(ts[j]), g[j], g[j + 1])
  <2>1. CASE j = n + 1
    <3>1. g[j] = f[n + 1] /\ j + 1 = n + 2 /\ g[j + 1] = e /\ ts[j] = rec
      BY <1>1, <1>2, <2>1
    <3> QED
      BY <3>1 DEF n
  <2>2. CASE j \in 1..n
    <3>2. j \in 0..(n + 1) /\ j + 1 \in 0..(n + 1)
      BY <1>1, <2>2
    <3>1. g[j] = f[j] /\ g[j + 1] = f[j + 1] /\ ts[j] = ss[j]
      BY <1>1, <1>2, <2>2, <3>2
    <3> QED
      BY <2>2, <3>1 DEF Joins, n
  <2> QED
    BY <1>1, <2>1, <2>2
<1>5. Spans(ps, v, g[Len(ts) + 1], End(ps))
  BY <1>1, <1>2
<1>6. Joins(g, ps, o, ts, v)
  BY <1>3, <1>4, <1>5 DEF Joins
<1> QED
  BY <1>3, <1>6 DEF Fed, ts

LEMMA FedArrives ==
    ASSUME NEW ps, NEW o, NEW ss \in Seq(Seq(Bytes)), NEW w \in Seq(Bytes), NEW c,
           Fed(ps, o, ss, w, c), NEW k \in 1..Len(w)
    PROVE  LET rec == SubSeq(w, 1, k)
               v == SubSeq(w, k + 1, Len(w))
           IN  /\ rec \in Seq(Bytes) /\ Len(rec) = k /\ rec /= <<CloseNotify>>
               /\ v \in Seq(Bytes)
               /\ Fed(ps, o, Append(ss, rec), v, c)
<1> DEFINE rec == SubSeq(w, 1, k)
           v == SubSeq(w, k + 1, Len(w))
<1>1. PICK f : Joins(f, ps, o, ss, w) /\ f[0] = c
  BY DEF Fed
<1>2. Spans(ps, w, f[Len(ss) + 1], End(ps))
  BY <1>1 DEF Joins
<1>3. PICK e : Spans(ps, rec, f[Len(ss) + 1], e) /\ Spans(ps, v, e, End(ps))
  BY <1>2, SpansSplit
<1>4. rec \in Seq(Bytes) /\ v \in Seq(Bytes) /\ Len(rec) = k /\ 1 \in 1..Len(rec)
  OBVIOUS
<1> HIDE DEF rec, v
<1>5. IsByte(ps, rec[1])
  BY <1>3, <1>4 DEF Spans
<1>6. rec /= <<CloseNotify>>
  <2>1. ASSUME rec = <<CloseNotify>> PROVE FALSE
    <3>1. rec[1] = CloseNotify
      BY <2>1
    <3>2. CloseNotify.packet = 0
      BY ByteIs DEF CloseNotify
    <3>3. 0 \in 1..Len(ps)
      BY <1>5, <3>1, <3>2 DEF IsByte
    <3> QED
      BY <3>3
  <2> QED
    BY <2>1
<1>7. Data(rec) = rec
  BY <1>6 DEF Data
<1>8. Fed(ps, o, Append(ss, rec), v, c)
  BY <1>1, <1>3, <1>4, <1>7, FedRecordArrives
<1> QED
  BY <1>4, <1>6, <1>8 DEF rec, v

LEMMA FedNothing ==
    ASSUME NEW ps, NEW o, NEW ss \in Seq(Seq(Bytes)), NEW w, NEW c,
           Fed(ps, o, ss, w, c), NEW rec \in Seq(Bytes), Data(rec) = <<>>
    PROVE  Fed(ps, o, Append(ss, rec), w, c)
<1>1. PICK f : Joins(f, ps, o, ss, w) /\ f[0] = c
  BY DEF Fed
<1>2. Spans(ps, w, f[Len(ss) + 1], End(ps))
  BY <1>1 DEF Joins
<1>3. Spans(ps, Data(rec), f[Len(ss) + 1], f[Len(ss) + 1])
  BY NoSpan
<1> QED
  BY <1>1, <1>2, <1>3, FedRecordArrives

\* The next byte is one of the opened record.
LEMMA FedOpened ==
    ASSUME NEW ps, NEW o \in Seq(Bytes), NEW ss \in Seq(Seq(Bytes)), NEW w, NEW c,
           Fed(ps, o, ss, w, c), o /= <<>>
    PROVE  /\ o[1] = c /\ IsByte(ps, c) /\ Tail(o) \in Seq(Bytes)
           /\ Fed(ps, Tail(o), ss, w, Succ(ps, c))
<1> DEFINE n == Len(ss)
<1>1. PICK f : Joins(f, ps, o, ss, w) /\ f[0] = c
  BY DEF Fed
<1>2. Spans(ps, o, c, f[1])
  BY <1>1 DEF Joins
<1>3. o[1] = c /\ IsByte(ps, c) /\ Spans(ps, Tail(o), Succ(ps, c), f[1])
  BY <1>2, SpansTail
<1> DEFINE g == [j \in 0..(n + 1) |-> IF j = 0 THEN Succ(ps, c) ELSE f[j]]
<1>4. n \in Nat
  OBVIOUS
<1> HIDE DEF n
<1>5. g[0] = Succ(ps, c) /\ \A j \in 1..(n + 1) : g[j] = f[j]
  BY <1>4
<1> HIDE DEF g
<1>6. \A j \in 1..n : g[j] = f[j] /\ g[j + 1] = f[j + 1]
  BY <1>4, <1>5
<1>7. g[1] = f[1] /\ g[n + 1] = f[n + 1]
  BY <1>4, <1>5
<1>8. Joins(g, ps, Tail(o), ss, w)
  BY <1>1, <1>3, <1>5, <1>6, <1>7 DEF Joins, n
<1>9. Tail(o) \in Seq(Bytes)
  OBVIOUS
<1> QED
  BY <1>3, <1>5, <1>8, <1>9 DEF Fed

\* With no record open the first one of the socket comes next.
LEMMA FedOpens ==
    ASSUME NEW ps, NEW ss \in Seq(Seq(Bytes)), NEW w, NEW c,
           Fed(ps, <<>>, ss, w, c), ss /= <<>>
    PROVE  /\ Data(ss[1]) \in Seq(Bytes) /\ Tail(ss) \in Seq(Seq(Bytes))
           /\ Fed(ps, Data(ss[1]), Tail(ss), w, c)
<1> DEFINE n == Len(ss)
           ts == Tail(ss)
<1>1. PICK f : Joins(f, ps, <<>>, ss, w) /\ f[0] = c
  BY DEF Fed
<1>2. /\ n \in Nat /\ n >= 1 /\ ts \in Seq(Seq(Bytes)) /\ Len(ts) = n - 1
      /\ \A j \in 1..(n - 1) : ts[j] = ss[j + 1]
      /\ ss[1] \in Seq(Bytes)
  OBVIOUS
<1> DEFINE g == [j \in 0..n |-> f[j + 1]]
<1> HIDE DEF n, ts
<1>3. \A j \in 0..n : g[j] = f[j + 1]
  OBVIOUS
<1> HIDE DEF g
<1>4. f[1] = c
  BY <1>1, NoSpan DEF Joins
<1>5. g[0] = f[1] /\ g[1] = f[2]
  <2>1. g[0] = f[0 + 1] /\ g[1] = f[1 + 1]
    BY <1>2, <1>3
  <2> QED
    BY <2>1
<1>6. Spans(ps, Data(ss[1]), g[0], g[1])
  <2>1. 1 \in 1..Len(ss)
    BY <1>2 DEF n
  <2>2. Spans(ps, Data(ss[1]), f[1], f[1 + 1])
    BY <1>1, <2>1 DEF Joins
  <2> QED
    BY <1>5, <2>2
<1>7. ASSUME NEW j \in 1..Len(ts) PROVE Spans(ps, Data(ts[j]), g[j], g[j + 1])
  <2>3. j \in 1..(n - 1) /\ j \in 0..n /\ j + 1 \in 0..n /\ j + 1 \in 1..n
    BY <1>2
  <2>1. ts[j] = ss[j + 1] /\ g[j] = f[j + 1] /\ g[j + 1] = f[(j + 1) + 1]
    BY <1>2, <1>3, <2>3
  <2> QED
    BY <1>1, <2>3, <2>1 DEF Joins, n
<1>8. Spans(ps, w, g[Len(ts) + 1], End(ps))
  <2>3. Len(ts) + 1 = n /\ n \in 0..n
    BY <1>2
  <2>1. g[Len(ts) + 1] = f[n + 1]
    BY <1>3, <2>3
  <2> QED
    BY <1>1, <2>1 DEF Joins, n
<1>9. Joins(g, ps, Data(ss[1]), ts, w)
  BY <1>6, <1>7, <1>8 DEF Joins
<1>10. Data(ss[1]) \in Seq(Bytes)
  BY <1>2, DataType
<1> QED
  BY <1>2, <1>4, <1>5, <1>9, <1>10 DEF Fed, ts

\* Nothing left: c is the end.
LEMMA FedEnd ==
    ASSUME NEW ps, NEW c, Fed(ps, <<>>, <<>>, <<>>, c)
    PROVE  c = End(ps)
<1>1. PICK f : Joins(f, ps, <<>>, <<>>, <<>>) /\ f[0] = c
  BY DEF Fed
<1>2. f[1] = c /\ f[Len(<<>>) + 1] = End(ps)
  BY <1>1, NoSpan DEF Joins
<1>3. Len(<<>>) + 1 = 1
  OBVIOUS
<1> QED
  BY <1>2, <1>3

------------------------------------------------------------------------------
(* The invariant *)

\* No connection breaks inside a packet, mbedTLS is told the end, and every
\* packet fits readPacket()'s counters.
Orderly ==
    /\ ~CutInside
    /\ Notify \/ TRUE \notin Tls
    /\ \A p \in Packets : SizeOf(p) < Width

Latest(h) == IF h = <<>> THEN 0 ELSE h[Len(h)]

\* Packet n is not handed on, and what lies between it and the last one that
\* is, is too long.
Passed(ps, h, n) ==
    /\ n \in 1..(Len(ps) + 1)
    /\ Latest(h) < n
    /\ \A m \in (Latest(h) + 1)..(n - 1) : SizeOf(ps[m]) > MaxPacket

\* readPacket() has taken l bytes of packet n, what the buffer has room for is
\* in it, and c comes next.
Inside(ps, h, buf, l, n, c) ==
    /\ n \in 1..Len(ps)
    /\ Passed(ps, h, n)
    /\ l \in 1..SizeOf(ps[n])
    /\ c = Succ(ps, Byte(n, l))
    /\ \A i \in 1..l : i <= MaxPacket => buf[i - 1] = Byte(n, i)

\* What it has found out about packet p.
Found(p) ==
    /\ pc \in {"check", "digit"} =>
        /\ len <= DigitCount(p.rest)
        /\ length + multiplier * Quotient(p.rest, len - 1) = p.rest
    /\ pc = "topic" =>
        /\ p.publish
        /\ length = p.rest
        /\ todo \in {0, 1}
        /\ len + todo = DigitCount(p.rest) + 2
    /\ pc = "body" => len + todo = SizeOf(p)

Between(c) == \E n : c = Byte(n, 1) /\ Passed(sent, handed, n)

Current == buffer[0].packet

At(c) ==
    /\ pc \in {"idle", "header"} => Between(c)
    /\ pc \in {"check", "digit", "topic", "body"} =>
        Inside(sent, handed, buffer, len, Current, c) /\ Found(sent[Current])

Underway == sock /= "closed" => \E c : Fed(sent, opened, socket, wire, c) /\ At(c)

\* The records: a byte each without TLS, and the close_notify is the last one.
Framing(o, ss, w, state, secure) ==
    /\ ~secure => o = <<>> /\ \A j \in 1..Len(ss) : Len(ss[j]) = 1
    /\ \A j \in 1..Len(ss) :
        ss[j] = <<CloseNotify>> => j = Len(ss) /\ state = "eof" /\ secure
    /\ state = "eof" => w = <<>>
    /\ state = "eof" /\ secure => ss /= <<>> /\ ss[Len(ss)] = <<CloseNotify>>

Framed == Framing(opened, socket, wire, sock, tls)

\* A connection that is gone leaves readPacket() with the -1 it has stored.
Gone ==
    sock = "closed" =>
        /\ socket = <<>>
        /\ pc \in {"idle", "check"}
        /\ pc = "check" => len = 1 /\ buffer[0] = MinusOne

Types ==
    /\ sent \in Seq(Packets)
    /\ wire \in Seq(Bytes)
    /\ socket \in Seq(Seq(Bytes))
    /\ sock \in {"open", "eof", "closed"}
    /\ tls \in BOOLEAN
    /\ tls => TRUE \in Tls
    /\ opened \in Seq(Bytes)
    /\ pc \in {"idle", "header", "check", "digit", "topic", "body"}
    /\ len \in 0..(Width - 1)
    /\ length \in 0..(Width - 1)
    /\ multiplier \in Nat
    /\ todo \in 0..(Width - 1)
    /\ pc = "header" => len = 0 /\ length = 0 /\ multiplier = 1
    /\ buffer \in [0..(MaxPacket - 1) -> Bytes]
    /\ handed \in Seq(Nat)
    /\ \A i \in 1..Len(handed) : handed[i] \in 1..Len(sent)

IInv == Types /\ Underway /\ Framed /\ Gone

LEMMA NoByte ==
    /\ MinusOne \in Bytes /\ MinusOne.packet = 0
    /\ Disconnecting \in Bytes /\ Disconnecting.packet = 0
    /\ Unset \in Bytes
    /\ CloseNotify \in Bytes /\ CloseNotify.packet = 0
BY ByteIs DEF MinusOne, Disconnecting, Unset, CloseNotify

LEMMA LatestIs ==
    ASSUME NEW ps, NEW h \in Seq(Nat), Len(ps) \in Nat, \A i \in 1..Len(h) : h[i] \in 1..Len(ps)
    PROVE  Latest(h) \in 0..Len(ps)
<1>1. h /= <<>> => Len(h) \in 1..Len(h)
  OBVIOUS
<1> QED
  BY <1>1 DEF Latest

LEMMA InitIInv == Init => IInv
<1> SUFFICES ASSUME Init PROVE IInv
  OBVIOUS
<1> USE DEF Init
<1>1. Types
  <2>1. buffer \in [0..(MaxPacket - 1) -> Bytes]
    BY NoByte
  <2>2. tls \in BOOLEAN /\ (tls => TRUE \in Tls)
    BY ReaderAssumption, BufferAssumption
  <2>3. len \in 0..(Width - 1) /\ length \in 0..(Width - 1) /\ todo \in 0..(Width - 1)
    BY ReaderAssumption, BufferAssumption
  <2>4. /\ handed \in Seq(Nat) /\ sent \in Seq(Packets) /\ wire \in Seq(Bytes)
        /\ socket \in Seq(Seq(Bytes)) /\ opened \in Seq(Bytes)
    OBVIOUS
  <2>5. \A i \in 1..Len(handed) : handed[i] \in 1..Len(sent)
    OBVIOUS
  <2>6. sock = "open" /\ pc = "idle" /\ multiplier \in Nat
    OBVIOUS
  <2> QED
    BY <2>1, <2>2, <2>3, <2>4, <2>5, <2>6 DEF Types
<1>2. Spans(sent, opened, End(sent), End(sent)) /\ Spans(sent, wire, End(sent), End(sent))
  BY NoSpan
<1>3. Fed(sent, opened, socket, wire, End(sent))
  <2> DEFINE f == [j \in 0..1 |-> End(sent)]
  <2>1. Len(socket) = 0 /\ Len(socket) + 1 = 1 /\ f[0] = End(sent) /\ f[1] = End(sent)
    OBVIOUS
  <2> HIDE DEF f
  <2>2. Joins(f, sent, opened, socket, wire)
    BY <1>2, <2>1 DEF Joins
  <2> QED
    BY <2>1, <2>2 DEF Fed
<1>4. Between(End(sent))
  <2>1. Len(sent) = 0 /\ Latest(handed) = 0
    BY DEF Latest
  <2>2. Passed(sent, handed, 1)
    BY <2>1 DEF Passed
  <2>3. End(sent) = Byte(1, 1)
    BY <2>1 DEF End
  <2> QED
    BY <2>2, <2>3 DEF Between
<1>5. Underway
  BY <1>3, <1>4 DEF Underway, At
<1>6. Framed /\ Gone
  BY DEF Framed, Framing, Gone
<1> QED
  BY <1>1, <1>5, <1>6 DEF IInv

\* What has been said of packets goes on to hold when more are sent.
LEMMA PassedMore ==
    ASSUME NEW ps \in Seq(Packets), NEW p \in Packets, NEW h \in Seq(Nat),
           \A i \in 1..Len(h) : h[i] \in 1..Len(ps), NEW n, Passed(ps, h, n)
    PROVE  Passed(Append(ps, p), h, n)
<1>1. /\ Len(Append(ps, p)) = Len(ps) + 1 /\ Len(ps) \in Nat
      /\ \A i \in 1..Len(ps) : Append(ps, p)[i] = ps[i]
  BY AppendProperties
<1>2. Latest(h) \in 0..Len(ps)
  BY <1>1, LatestIs
<1>3. \A m \in (Latest(h) + 1)..(n - 1) : m \in 1..Len(ps)
  BY <1>1, <1>2 DEF Passed
<1> QED
  BY <1>1, <1>2, <1>3 DEF Passed

LEMMA SendIInv == ASSUME IInv, NEW p \in Packets, Send(p) PROVE IInv'
<1> USE DEF Send, link, locals
<1>1. Types /\ Underway /\ Framed /\ Gone
  BY DEF IInv
<1>2. /\ sent' \in Seq(Packets) /\ Len(sent') = Len(sent) + 1 /\ Len(sent) \in Nat
      /\ \A i \in 1..Len(sent) : sent'[i] = sent[i]
  BY <1>1, AppendProperties DEF Types
<1>3. PICK c : Fed(sent, opened, socket, wire, c) /\ At(c)
  BY <1>1 DEF Underway
<1>4. wire' \in Seq(Bytes) /\ Fed(sent', opened', socket', wire', c)
  BY <1>1, <1>3, FedSent DEF Types
<1>5. \A n : Passed(sent, handed, n) => Passed(sent', handed', n)
  BY <1>1, PassedMore DEF Types
<1>6. Between(c) => Between(c)'
  BY <1>5 DEF Between
<1>7. ASSUME NEW n, Inside(sent, handed, buffer, len, n, c)
      PROVE  Inside(sent', handed', buffer', len', n, c) /\ sent'[n] = sent[n]
  <2>1. n \in 1..Len(sent) /\ n \in 1..Len(sent') /\ sent'[n] = sent[n]
    BY <1>2, <1>7 DEF Inside
  <2>2. Byte(n, len).packet = n
    BY DEF Byte
  <2>3. Succ(sent', Byte(n, len)) = Succ(sent, Byte(n, len))
    BY <2>1, <2>2 DEF Succ
  <2> QED
    BY <1>5, <1>7, <2>1, <2>3 DEF Inside
<1>8. At(c)'
  BY <1>3, <1>6, <1>7 DEF At, Found, Current
<1>9. Types'
  <2>1. \A i \in 1..Len(handed) : handed[i] \in 1..Len(sent')
    <3>1. \A i \in 1..Len(handed) : handed[i] \in 1..Len(sent)
      BY <1>1 DEF Types
    <3>2. \A i \in 1..Len(sent) : i \in 1..Len(sent')
      BY <1>2
    <3> QED
      BY <3>1, <3>2
  <2> QED
    BY <1>1, <1>2, <1>4, <2>1 DEF Types
<1>10. Underway'
  BY <1>4, <1>8 DEF Underway
<1>11. Framed' /\ Gone'
  BY <1>1 DEF Framed, Framing, Gone
<1> QED
  BY <1>9, <1>10, <1>11 DEF IInv

\* Where loop() is does not depend on what is on its way.
LEMMA SamePlace ==
    ASSUME NEW c, At(c), UNCHANGED <<sent, pc, locals, buffer, handed>>
    PROVE  At(c)'
BY DEF At, Between, Found, Current, locals

LEMMA ArriveIInv == ASSUME IInv, NEW k, Arrive(k), ~tls => k = 1 PROVE IInv'
<1> USE DEF Arrive, locals
<1>1. Types /\ Underway /\ Framed /\ Gone
  BY DEF IInv
<1> DEFINE rec == SubSeq(wire, 1, k)
<1>2. PICK c : Fed(sent, opened, socket, wire, c) /\ At(c)
  BY <1>1 DEF Underway
<1>3. /\ rec \in Seq(Bytes) /\ Len(rec) = k /\ rec /= <<CloseNotify>>
      /\ wire' \in Seq(Bytes) /\ Fed(sent', opened', socket', wire', c)
  <2>1. wire \in Seq(Bytes) /\ socket \in Seq(Seq(Bytes)) /\ k \in 1..Len(wire)
    BY <1>1 DEF Types
  <2>2. /\ rec \in Seq(Bytes) /\ Len(rec) = k /\ rec /= <<CloseNotify>>
        /\ SubSeq(wire, k + 1, Len(wire)) \in Seq(Bytes)
        /\ Fed(sent, opened, Append(socket, rec), SubSeq(wire, k + 1, Len(wire)), c)
    BY <1>2, <2>1, FedArrives
  <2> QED
    BY <2>2
<1> HIDE DEF rec
<1>4. /\ socket' \in Seq(Seq(Bytes)) /\ Len(socket') = Len(socket) + 1 /\ Len(socket) \in Nat
      /\ \A j \in 1..Len(socket) : socket'[j] = socket[j]
      /\ socket'[Len(socket) + 1] = rec
  BY <1>1, <1>3, AppendProperties DEF Types, rec
<1>5. Types'
  BY <1>1, <1>3, <1>4 DEF Types
<1>6. At(c)'
  BY <1>2, SamePlace
<1>7. Underway'
  BY <1>3, <1>6 DEF Underway
<1>8. \A j \in 1..Len(socket') : (j \in 1..Len(socket) /\ socket'[j] = socket[j]) \/ socket'[j] = rec
  BY <1>4
<1>9. Framed'
  <2>1. ~tls => \A j \in 1..Len(socket') : Len(socket'[j]) = 1
    BY <1>1, <1>3, <1>8 DEF Framed, Framing
  <2>2. \A j \in 1..Len(socket') : socket'[j] /= <<CloseNotify>>
    BY <1>1, <1>3, <1>8 DEF Framed, Framing
  <2> QED
    BY <1>1, <2>1, <2>2 DEF Framed, Framing
<1>10. Gone'
  BY DEF Gone
<1> QED
  BY <1>5, <1>7, <1>9, <1>10 DEF IInv

LEMMA ArriveEmptyIInv == ASSUME IInv, ArriveEmpty PROVE IInv'
<1> USE DEF ArriveEmpty, locals, network
<1>1. Types /\ Underway /\ Framed /\ Gone
  BY DEF IInv
<1>2. PICK c : Fed(sent, opened, socket, wire, c) /\ At(c)
  BY <1>1 DEF Underway
<1>3. <<>> \in Seq(Bytes) /\ Data(<<>>) = <<>> /\ <<>> /= <<CloseNotify>>
  BY DEF Data
<1>4. Append(<<>>, <<>>) = <<<<>>>>
  BY AppendTwo
<1>5. Fed(sent', opened', socket', wire', c)
  BY <1>1, <1>2, <1>3, <1>4, FedNothing DEF Types
<1>6. At(c)'
  BY <1>2, SamePlace
<1>7. Underway'
  BY <1>5, <1>6 DEF Underway
<1>8. socket' \in Seq(Seq(Bytes)) /\ Len(socket') = 1 /\ socket'[1] = <<>>
  BY <1>3
<1>9. Types'
  BY <1>1, <1>8 DEF Types
<1>10. Framed'
  BY <1>1, <1>3, <1>8 DEF Framed, Framing
<1>11. Gone'
  BY DEF Gone
<1> QED
  BY <1>7, <1>9, <1>10, <1>11 DEF IInv

LEMMA PeerClosesIInv == ASSUME Orderly, IInv, PeerCloses PROVE IInv'
<1> USE DEF PeerCloses, locals
<1>1. Types /\ Underway /\ Framed /\ Gone
  BY DEF IInv
<1>2. wire = <<>> /\ wire' = wire
  BY DEF Orderly
<1>3. tls => Notify
  BY <1>1 DEF Orderly, Types
<1>4. PICK c : Fed(sent, opened, socket, wire, c) /\ At(c)
  BY <1>1 DEF Underway
<1>5. <<CloseNotify>> \in Seq(Bytes) /\ Data(<<CloseNotify>>) = <<>>
  BY NoByte DEF Data
<1>6. Fed(sent', opened', socket', wire', c)
  <2>1. CASE tls
    <3>1. socket' = Append(socket, <<CloseNotify>>)
      BY <1>3, <2>1
    <3> QED
      BY <1>1, <1>2, <1>4, <1>5, <3>1, FedNothing DEF Types
  <2>2. CASE ~tls
    BY <1>2, <1>4, <2>2
  <2> QED
    BY <1>1, <2>1, <2>2 DEF Types
<1>7. At(c)'
  BY <1>4, SamePlace
<1>8. Underway'
  BY <1>6, <1>7 DEF Underway
<1>9. ASSUME tls
      PROVE  /\ socket' \in Seq(Seq(Bytes)) /\ Len(socket') = Len(socket) + 1 /\ Len(socket) \in Nat
             /\ \A j \in 1..Len(socket) : socket'[j] = socket[j]
             /\ socket'[Len(socket) + 1] = <<CloseNotify>>
  <2>1. socket' = Append(socket, <<CloseNotify>>)
    BY <1>3, <1>9
  <2> QED
    BY <1>1, <1>5, <2>1, AppendProperties DEF Types
<1>10. ~tls => socket' = socket
  OBVIOUS
<1>11. Types'
  BY <1>1, <1>2, <1>9, <1>10 DEF Types
<1>12. Framed'
  <2>1. CASE tls
    <3>1. \A j \in 1..Len(socket) : socket'[j] /= <<CloseNotify>>
      BY <1>1, <1>9, <2>1 DEF Framed, Framing
    <3>2. \A j \in 1..Len(socket') : socket'[j] = <<CloseNotify>> => j = Len(socket')
      BY <1>9, <2>1, <3>1
    <3>3. socket' /= <<>>
      <4>1. Len(socket') > 0
        BY <1>9, <2>1
      <4> QED
        BY <4>1
    <3> QED
      BY <1>2, <1>9, <2>1, <3>2, <3>3 DEF Framed, Framing
  <2>2. CASE ~tls
    BY <1>1, <1>2, <1>10, <2>2 DEF Framed, Framing
  <2> QED
    BY <1>1, <2>1, <2>2 DEF Types
<1>13. Gone'
  BY DEF Gone
<1> QED
  BY <1>8, <1>11, <1>12, <1>13 DEF IInv

------------------------------------------------------------------------------
(* readByte() *)

\* The first record is used up.
LEMMA FramedTail ==
    ASSUME NEW o, NEW v, NEW ss \in Seq(Seq(Bytes)), NEW w, NEW state, NEW secure,
           Framing(o, ss, w, state, secure), ss /= <<>>, ss[1] /= <<CloseNotify>>,
           ~secure => v = <<>>
    PROVE  Tail(ss) \in Seq(Seq(Bytes)) /\ Framing(v, Tail(ss), w, state, secure)
<1> DEFINE n == Len(ss)
           t == Tail(ss)
<1>1. /\ n \in Nat /\ n >= 1 /\ Len(t) = n - 1 /\ t \in Seq(Seq(Bytes))
      /\ \A j \in 1..Len(t) : t[j] = ss[j + 1]
  OBVIOUS
<1> HIDE DEF t, n
<1>2. \A j \in 1..Len(t) : j + 1 \in 1..n
  BY <1>1
<1>3. ~secure => \A j \in 1..Len(t) : Len(t[j]) = 1
  BY <1>1, <1>2 DEF Framing, n
<1>4. \A j \in 1..Len(t) : t[j] = <<CloseNotify>> => j = Len(t) /\ state = "eof" /\ secure
  <2> SUFFICES ASSUME NEW j \in 1..Len(t), t[j] = <<CloseNotify>>
               PROVE  j = Len(t) /\ state = "eof" /\ secure
    OBVIOUS
  <2>1. ss[j + 1] = <<CloseNotify>> /\ j + 1 \in 1..n
    BY <1>1, <1>2
  <2>2. j + 1 = n /\ state = "eof" /\ secure
    BY <2>1 DEF Framing, n
  <2> QED
    BY <1>1, <2>2
<1>5. ASSUME state = "eof", secure
      PROVE  t /= <<>> /\ t[Len(t)] = <<CloseNotify>>
  <2>1. ss[n] = <<CloseNotify>>
    BY <1>5 DEF Framing, n
  <2>2. n /= 1
    BY <2>1
  <2>3. Len(t) \in 1..Len(t) /\ Len(t) + 1 = n /\ Len(t) > 0
    BY <1>1, <2>2
  <2> QED
    BY <1>1, <2>1, <2>3
<1>6. Framing(v, t, w, state, secure)
  BY <1>3, <1>4, <1>5 DEF Framing
<1> QED
  BY <1>1, <1>6 DEF t

\* What readByte() takes in is the byte that comes next.
LEMMA TakesNext ==
    ASSUME IInv, sock /= "closed", NEW c, Fed(sent, opened, socket, wire, c), HasByte, Consume
    PROVE  /\ NextByte = c /\ IsByte(sent, c)
           /\ opened' \in Seq(Bytes) /\ socket' \in Seq(Seq(Bytes))
           /\ Fed(sent, opened', socket', wire, Succ(sent, c))
           /\ wire' = wire => Framed'
           /\ sock' = sock /\ tls' = tls
<1> USE DEF Consume
<1>1. Types /\ Framed
  BY DEF IInv
<1>2. sock' = sock /\ tls' = tls
  OBVIOUS
<1>3. CASE opened /= <<>>
  <2>1. /\ NextByte = c /\ IsByte(sent, c) /\ opened' \in Seq(Bytes) /\ socket' = socket
        /\ Fed(sent, opened', socket', wire, Succ(sent, c))
    <3>1. NextByte = opened[1] /\ opened' = Tail(opened) /\ socket' = socket
      BY <1>3 DEF NextByte
    <3>2. opened \in Seq(Bytes) /\ socket \in Seq(Seq(Bytes))
      BY <1>1 DEF Types
    <3> QED
      BY <1>3, <3>1, <3>2, FedOpened
  <2>2. tls
    BY <1>1, <1>3 DEF Framed, Framing
  <2>3. wire' = wire => Framed'
    BY <1>1, <1>2, <2>1, <2>2 DEF Framed, Framing
  <2> QED
    BY <1>1, <1>2, <2>1, <2>3 DEF Types
<1>4. CASE opened = <<>>
  <2> DEFINE r == socket[1]
  <2>1. socket /= <<>> /\ r /= <<>> /\ r /= <<CloseNotify>>
    BY <1>4 DEF HasByte
  <2>2. NextByte = r[1] /\ opened' = Tail(r) /\ socket' = Tail(socket)
    BY <1>4 DEF NextByte
  <2>3. socket \in Seq(Seq(Bytes)) /\ Data(r) = r
    BY <1>1, <2>1 DEF Types, Data
  <2>4. r \in Seq(Bytes) /\ Tail(socket) \in Seq(Seq(Bytes)) /\ Fed(sent, r, Tail(socket), wire, c)
    BY <1>4, <2>1, <2>3, FedOpens
  <2>5. /\ NextByte = c /\ IsByte(sent, c)
        /\ opened' \in Seq(Bytes) /\ socket' \in Seq(Seq(Bytes))
        /\ Fed(sent, opened', socket', wire, Succ(sent, c))
    BY <2>1, <2>2, <2>4, FedOpened
  <2>6. 1 \in 1..Len(socket)
    BY <2>1, <2>3
  <2>7. wire' = wire => Framed'
    <3>1. ~tls => opened' = <<>>
      <4> SUFFICES ASSUME ~tls PROVE opened' = <<>>
        OBVIOUS
      <4>1. Len(r) = 1
        BY <1>1, <2>6 DEF Framed, Framing
      <4> HIDE DEF r
      <4> QED
        BY <2>2, <2>4, <4>1, TailOfOne
    <3>2. Framing(opened', socket', wire, sock, tls)
      BY <1>1, <2>1, <2>2, <2>3, <3>1, FramedTail DEF Framed
    <3> QED
      BY <1>2, <3>2 DEF Framed
  <2> QED
    BY <1>2, <2>5, <2>7
<1> QED
  BY <1>3, <1>4

\* mbedtls_ssl_read() fails only behind the last packet.
LEMMA FailsAtEnd ==
    ASSUME IInv, sock /= "closed", NEW c, Fed(sent, opened, socket, wire, c), ReadFails
    PROVE  c = End(sent)
<1> USE DEF ReadFails
<1>1. Types /\ Framed
  BY DEF IInv
<1>2. socket /= <<>> /\ socket[1] = <<CloseNotify>>
  BY <1>1 DEF Types, Framed, Framing
<1>3. socket \in Seq(Seq(Bytes)) /\ Len(socket) \in Nat /\ 1 \in 1..Len(socket)
  BY <1>1, <1>2 DEF Types
<1>4. Len(socket) = 1 /\ wire = <<>>
  BY <1>1, <1>2, <1>3 DEF Framed, Framing
<1>5. Data(socket[1]) = <<>> /\ Tail(socket) = <<>>
  BY <1>2, <1>3, <1>4, TailOfOne DEF Data
<1>6. Fed(sent, <<>>, <<>>, <<>>, c)
  BY <1>2, <1>3, <1>4, <1>5, FedOpens
<1> QED
  BY <1>6, FedEnd

LEMMA StoreIs ==
    ASSUME NEW buf \in [0..(MaxPacket - 1) -> Bytes], NEW i \in Nat, NEW b \in Bytes
    PROVE  /\ Store(buf, i, b) \in [0..(MaxPacket - 1) -> Bytes]
           /\ i < MaxPacket => Store(buf, i, b)[i] = b
           /\ \A j \in Nat : j < MaxPacket /\ j /= i => Store(buf, i, b)[j] = buf[j]
BY ReaderAssumption, BufferAssumption DEF Store

\* Inside a packet readByte() gets its next byte.
LEMMA ReadsInside ==
    ASSUME IInv, pc \in {"digit", "topic", "body"}, NEW c,
           Fed(sent, opened, socket, wire, c), At(c), len < SizeOf(sent[Current]),
           \E b \in ReadResult : ReadByte(b, len),
           len' = len + 1, UNCHANGED <<network, handed>>
    PROVE  /\ c = Byte(Current, len + 1) /\ c \in Bytes
           /\ ReadByte(c, len) /\ \A b : ReadByte(b, len) => b = c
           /\ opened' \in Seq(Bytes) /\ socket' \in Seq(Seq(Bytes))
           /\ buffer' \in [0..(MaxPacket - 1) -> Bytes]
           /\ sock' = sock /\ sock /= "closed" /\ tls' = tls
           /\ Framed'
           /\ buffer'[0] = buffer[0] /\ Current' = Current
           /\ Fed(sent', opened', socket', wire', Succ(sent, c))
           /\ Inside(sent', handed', buffer', len', Current', Succ(sent, c))
<1> DEFINE n == Current
<1> USE DEF network
<1>1. Types /\ Framed /\ sock /= "closed"
  BY DEF IInv, Gone
<1>2. Inside(sent, handed, buffer, len, n, c)
  BY DEF At
<1>3. n \in 1..Len(sent) /\ n \in Nat /\ len \in 1..SizeOf(sent[n]) /\ len \in Nat
  BY <1>1, <1>2 DEF Inside, Types
<1>4. sent[n] \in Packets /\ SizeOf(sent[n]) \in Nat
  BY <1>1, <1>3, SizeIs DEF Types
<1>5. c = Byte(n, len + 1) /\ c.at = len + 1 /\ c \in Bytes
  <2>1. Byte(n, len).at = len /\ Byte(n, len).packet = n
    BY DEF Byte
  <2>2. c = Byte(n, len + 1)
    BY <1>2, <2>1 DEF Inside, Succ
  <2> QED
    BY <1>3, <2>2, ByteIs
<1>6. c /= End(sent)
  <2>1. End(sent).at = 1
    BY DEF End, Byte
  <2> QED
    BY <1>3, <1>5, <2>1
<1>7. ~ReadFails
  BY <1>1, <1>6, FailsAtEnd
<1> HIDE DEF n
<1>8. PICK b : b \in ReadResult /\ ReadByte(b, len)
  OBVIOUS
<1>9. HasByte /\ b = NextByte /\ Consume /\ buffer' = Store(buffer, len, b)
  BY <1>7, <1>8 DEF ReadByte
<1>10. /\ NextByte = c /\ IsByte(sent, c)
       /\ opened' \in Seq(Bytes) /\ socket' \in Seq(Seq(Bytes))
       /\ Fed(sent, opened', socket', wire, Succ(sent, c))
       /\ Framed' /\ sock' = sock /\ tls' = tls
  BY <1>1, <1>9, TakesNext
<1>11. ReadByte(c, len) /\ \A e : ReadByte(e, len) => e = c
  BY <1>7, <1>8, <1>9, <1>10 DEF ReadByte
<1>12. /\ buffer' \in [0..(MaxPacket - 1) -> Bytes]
       /\ len < MaxPacket => buffer'[len] = c
       /\ \A j \in Nat : j < MaxPacket /\ j /= len => buffer'[j] = buffer[j]
  <2>1. buffer \in [0..(MaxPacket - 1) -> Bytes] /\ buffer' = Store(buffer, len, c)
    BY <1>1, <1>9, <1>10 DEF Types
  <2>2. /\ Store(buffer, len, c) \in [0..(MaxPacket - 1) -> Bytes]
        /\ len < MaxPacket => Store(buffer, len, c)[len] = c
        /\ \A j \in Nat : j < MaxPacket /\ j /= len => Store(buffer, len, c)[j] = buffer[j]
    BY <1>3, <1>5, <2>1, StoreIs
  <2> QED
    BY <2>1, <2>2
<1>13. buffer'[0] = buffer[0]
  BY <1>3, <1>12, ReaderAssumption, BufferAssumption
<1>14. Current' = Current
  BY <1>13 DEF Current
<1>15. Inside(sent', handed', buffer', len', n, Succ(sent, c))
  <2>1. len' \in 1..SizeOf(sent[n])
    BY <1>3, <1>4 DEF n
  <2>2. ASSUME NEW i \in 1..len', i <= MaxPacket PROVE buffer'[i - 1] = Byte(n, i)
    <3>1. CASE i = len + 1
      <4>1. i - 1 = len /\ len < MaxPacket
        BY <1>3, <2>2, <3>1, ReaderAssumption, BufferAssumption
      <4> QED
        BY <1>5, <1>12, <3>1, <4>1
    <3>2. CASE i \in 1..len
      <4>1. i - 1 \in Nat /\ i - 1 < MaxPacket /\ i - 1 /= len
        BY <1>3, <2>2, <3>2, ReaderAssumption, BufferAssumption
      <4> QED
        BY <1>2, <1>12, <2>2, <3>2, <4>1 DEF Inside
    <3> QED
      BY <1>3, <3>1, <3>2
  <2> QED
    BY <1>2, <1>5, <2>1, <2>2 DEF Inside
<1> QED
  BY <1>1, <1>5, <1>10, <1>11, <1>12, <1>13, <1>14, <1>15 DEF n

------------------------------------------------------------------------------
(* loop() and readPacket() *)

LEMMA LoopStartIInv == ASSUME IInv, LoopStart PROVE IInv'
<1> USE DEF LoopStart, network, link
<1>1. Types /\ Underway /\ Framed /\ Gone
  BY DEF IInv
<1>2. sock /= "closed"
  BY <1>1 DEF IsConnected, Types
<1>3. PICK c : Fed(sent, opened, socket, wire, c) /\ At(c)
  BY <1>1, <1>2 DEF Underway
<1>4. At(c)'
  BY <1>3 DEF At, Between
<1>5. Types'
  <2>1. len' \in 0..(Width - 1) /\ length' \in 0..(Width - 1) /\ multiplier' \in Nat
    BY ReaderAssumption, BufferAssumption
  <2>2. pc' = "header" /\ len' = 0 /\ length' = 0 /\ multiplier' = 1
    OBVIOUS
  <2> QED
    BY <1>1, <2>1, <2>2 DEF Types
<1>6. Underway'
  BY <1>3, <1>4 DEF Underway
<1>7. Framed' /\ Gone'
  BY <1>1, <1>2 DEF Framed, Framing, Gone
<1> QED
  BY <1>5, <1>6, <1>7 DEF IInv

LEMMA SkipEmptyIInv == ASSUME IInv, SkipEmpty PROVE IInv'
<1> USE DEF SkipEmpty, network, locals
<1>1. Types /\ Underway /\ Framed /\ Gone
  BY DEF IInv
<1>2. sock /= "closed"
  BY <1>1 DEF Gone
<1>3. PICK c : Fed(sent, opened, socket, wire, c) /\ At(c)
  BY <1>1, <1>2 DEF Underway
<1>4. socket \in Seq(Seq(Bytes)) /\ socket /= <<>>
  BY <1>1 DEF Types
<1>5. Data(socket[1]) = <<>> /\ socket[1] /= <<CloseNotify>>
  BY DEF Data
<1>6. socket' \in Seq(Seq(Bytes)) /\ Fed(sent', opened', socket', wire', c)
  BY <1>3, <1>4, <1>5, FedOpens
<1>8. At(c)'
  BY <1>3, SamePlace
<1>9. Types'
  BY <1>1, <1>6 DEF Types
<1>10. Underway'
  BY <1>6, <1>8 DEF Underway
<1>11. Framed'
  <2>1. ~tls => opened = <<>>
    BY <1>1 DEF Framed, Framing
  <2>2. Framing(opened, socket', wire, sock, tls)
    BY <1>1, <1>4, <1>5, <2>1, FramedTail DEF Framed
  <2> QED
    BY <2>2 DEF Framed
<1>12. Gone'
  BY <1>1 DEF Gone
<1> QED
  BY <1>9, <1>10, <1>11, <1>12 DEF IInv

LEMMA ReadHeaderIInv == ASSUME Orderly, IInv, ReadHeader PROVE IInv'
<1> USE DEF ReadHeader, network
<1>1. Types /\ Underway /\ Framed /\ Gone
  BY DEF IInv
<1>2. sock /= "closed"
  BY <1>1 DEF Gone
<1>3. PICK c : Fed(sent, opened, socket, wire, c) /\ At(c)
  BY <1>1, <1>2 DEF Underway
<1>4. PICK n : c = Byte(n, 1) /\ Passed(sent, handed, n)
  BY <1>3 DEF At, Between
<1>5. PICK b : ReadByte(b, 0)
  OBVIOUS
<1>6. 1 \in 0..(Width - 1) /\ 0 \in 0..(Width - 1) /\ 0 < MaxPacket /\ 0 \in Nat
  BY ReaderAssumption, BufferAssumption
<1>7. buffer \in [0..(MaxPacket - 1) -> Bytes]
  BY <1>1 DEF Types
<1>8. CASE HasByte /\ b = NextByte /\ Consume /\ buffer' = Store(buffer, 0, b)
  <2>1. /\ b = c /\ IsByte(sent, c)
        /\ opened' \in Seq(Bytes) /\ socket' \in Seq(Seq(Bytes))
        /\ Fed(sent, opened', socket', wire, Succ(sent, c))
        /\ Framed' /\ sock' = sock /\ tls' = tls
    BY <1>2, <1>3, <1>8, TakesNext
  <2>2. c \in Bytes /\ n \in 1..Len(sent) /\ n \in Nat /\ c.packet = n
    <3>1. c.packet = n
      BY <1>4 DEF Byte
    <3> QED
      BY <1>1, <2>1, <3>1 DEF IsByte, Bytes
  <2>3. buffer' \in [0..(MaxPacket - 1) -> Bytes] /\ buffer'[0] = c
    <3>1. /\ Store(buffer, 0, c) \in [0..(MaxPacket - 1) -> Bytes]
          /\ Store(buffer, 0, c)[0] = c
      BY <1>6, <1>7, <2>2, StoreIs
    <3> QED
      BY <1>8, <2>1, <3>1
  <2> DEFINE r == sent[n].rest
  <2>4. /\ sent[n] \in Packets /\ SizeOf(sent[n]) \in Nat /\ r \in Nat
        /\ SizeOf(sent[n]) = 1 + DigitCount(r) + r /\ DigitCount(r) \in 1..4
    BY <1>1, <2>2, SizeIs DEF Types
  <2>5. Inside(sent', handed', buffer', 1, n, Succ(sent, c))
    <3>1. 1 \in 1..SizeOf(sent[n])
      <4> HIDE DEF r
      <4> QED
        BY <2>4
    <3>2. \A i \in 1..1 : i <= MaxPacket => buffer'[i - 1] = Byte(n, i)
      <4>1. \A i \in 1..1 : i = 1 /\ i - 1 = 0
        OBVIOUS
      <4> QED
        BY <1>4, <2>3, <4>1
    <3> QED
      BY <1>4, <2>2, <3>1, <3>2 DEF Inside
  <2>6. Found(sent[n])'
    <3>1. pc' = "check" /\ len' = 1 /\ UNCHANGED <<sent, length, multiplier>>
      OBVIOUS
    <3>2. length = 0 /\ multiplier = 1
      BY <1>1 DEF Types
    <3>3. Quotient(r, 1 - 1) = r
      BY <2>4, QuotientStep
    <3> HIDE DEF r
    <3>4. 0 + 1 * r = r /\ 1 <= DigitCount(r)
      BY <2>4
    <3> QED
      BY <3>1, <3>2, <3>3, <3>4 DEF Found, r
  <2>7. At(Succ(sent, c))'
    <3>1. Current' = n
      BY <2>2, <2>3 DEF Current
    <3> QED
      BY <2>5, <2>6, <3>1 DEF At
  <2>8. Underway'
    BY <2>1, <2>7 DEF Underway
  <2>9. Types'
    BY <1>1, <1>6, <2>1, <2>3 DEF Types
  <2>10. Gone'
    BY <1>2, <2>1 DEF Gone
  <2> QED
    BY <2>1, <2>8, <2>9, <2>10 DEF IInv
<1>9. CASE ReadFails /\ b = MinusOne /\ DropLink /\ buffer' = Store(Farewell, 0, b)
  <2>1. Farewell \in [0..(MaxPacket - 1) -> Bytes]
    BY <1>7, NoByte DEF Farewell
  <2>2. buffer' \in [0..(MaxPacket - 1) -> Bytes] /\ buffer'[0] = MinusOne
    <3>1. /\ Store(Farewell, 0, MinusOne) \in [0..(MaxPacket - 1) -> Bytes]
          /\ Store(Farewell, 0, MinusOne)[0] = MinusOne
      BY <1>6, <2>1, NoByte, StoreIs
    <3> QED
      BY <1>9, <3>1
  <2>3. sock' = "closed" /\ tls' = FALSE /\ socket' = <<>> /\ opened' = <<>>
    BY <1>9 DEF DropLink
  <2>4. opened' \in Seq(Bytes) /\ socket' \in Seq(Seq(Bytes))
    BY <2>3
  <2>5. Types'
    BY <1>1, <1>6, <2>2, <2>3, <2>4 DEF Types
  <2>6. Underway' /\ Gone'
    BY <2>2, <2>3 DEF Underway, Gone
  <2>7. Framed'
    BY <2>3 DEF Framed, Framing
  <2> QED
    BY <2>5, <2>6, <2>7 DEF IInv
<1> QED
  BY <1>5, <1>8, <1>9 DEF ReadByte

\* A packet is longer than its header and its digits' count says.
LEMMA CurrentIs ==
    ASSUME Orderly, IInv, NEW c, At(c), pc \in {"check", "digit", "topic", "body"}
    PROVE  LET p == sent[Current]
           IN  /\ Current \in 1..Len(sent)
               /\ p \in Packets
               /\ p.rest \in Nat /\ p.rest < Base * Base * Base * Base
               /\ p.publish => p.rest >= 2
               /\ DigitCount(p.rest) \in 1..4
               /\ SizeOf(p) = 1 + DigitCount(p.rest) + p.rest
               /\ SizeOf(p) \in Nat /\ SizeOf(p) < Width
               /\ len \in 1..SizeOf(p)
               /\ Inside(sent, handed, buffer, len, Current, c)
               /\ Found(p)
<1>1. Inside(sent, handed, buffer, len, Current, c) /\ Found(sent[Current])
  BY DEF At
<1>2. Current \in 1..Len(sent) /\ len \in 1..SizeOf(sent[Current])
  BY <1>1 DEF Inside
<1>3. sent[Current] \in Packets
  BY <1>2 DEF IInv, Types
<1> QED
  BY <1>1, <1>2, <1>3, SizeIs DEF Orderly

\* A connection is gone only where readPacket() has nothing in hand.
LEMMA CheckIInv == ASSUME Orderly, IInv, Check PROVE IInv' /\ handed' = handed
<1> USE DEF Check, network, link, locals
<1>1. Types /\ Underway /\ Framed /\ Gone
  BY DEF IInv
<1>2. CASE sock = "closed"
  <2>1. buffer[0] = MinusOne /\ socket = <<>>
    BY <1>1, <1>2 DEF Gone
  <2>2. ~IsConnected
    BY <1>2 DEF IsConnected
  <2>3. ~IsPublish(buffer[0])
    BY <2>1, NoByte DEF IsPublish
  <2>4. pc' = "idle" /\ handed' = handed
    BY <2>2, <2>3
  <2>5. Types'
    BY <1>1, <2>4 DEF Types
  <2>6. Underway' /\ Framed' /\ Gone'
    BY <1>1, <1>2, <2>4 DEF Underway, Framed, Framing, Gone
  <2> QED
    BY <2>4, <2>5, <2>6 DEF IInv
<1>3. CASE sock /= "closed"
  <2>1. PICK c : Fed(sent, opened, socket, wire, c) /\ At(c)
    BY <1>1, <1>3 DEF Underway
  <2> DEFINE n == Current
             r == sent[n].rest
  <2>2. /\ n \in 1..Len(sent) /\ r \in Nat /\ DigitCount(r) \in 1..4
        /\ SizeOf(sent[n]) = 1 + DigitCount(r) + r
        /\ len \in 1..SizeOf(sent[n]) /\ len <= DigitCount(r)
        /\ Inside(sent, handed, buffer, len, n, c)
    BY <2>1, CurrentIs DEF Found
  <2>3. IsConnected
    <3>1. SUFFICES ASSUME ~IsConnected PROVE FALSE
      OBVIOUS
    <3>2. sock = "eof" /\ socket = <<>> /\ ~tls /\ wire = <<>> /\ opened = <<>>
      BY <1>1, <1>3, <3>1 DEF IsConnected, Types, Framed, Framing
    <3>3. c = End(sent)
      BY <2>1, <3>2, FedEnd
    <3>4. End(sent).at = 1
      BY DEF End, Byte
    <3>5. Byte(n, len).at = len /\ Byte(n, len).packet = n
      BY DEF Byte
    <3> HIDE DEF n, r
    <3>6. len /= SizeOf(sent[n]) /\ len + 1 /= 1
      BY <2>2
    <3>7. c = Byte(n, len + 1)
      BY <2>2, <3>5, <3>6 DEF Inside, Succ
    <3>8. c.at = len + 1
      BY <3>7 DEF Byte
    <3> QED
      BY <3>3, <3>4, <3>6, <3>8
  <2>4. pc' = "digit" /\ handed' = handed
    BY <2>3
  <2>5. At(c)'
    BY <2>1, <2>4 DEF At, Found, Current
  <2>6. Types'
    BY <1>1, <2>4 DEF Types
  <2>7. Underway'
    BY <2>1, <2>5 DEF Underway
  <2>8. Framed' /\ Gone'
    BY <1>1, <1>3 DEF Framed, Framing, Gone
  <2> QED
    BY <2>4, <2>6, <2>7, <2>8 DEF IInv
<1> QED
  BY <1>2, <1>3

\* A read inside a packet, from what it finds out.
LEMMA InsideIInv ==
    ASSUME IInv, pc \in {"digit", "topic", "body"}, NEW c,
           Fed(sent, opened, socket, wire, c), At(c), len < SizeOf(sent[Current]),
           \E b \in ReadResult : ReadByte(b, len),
           len' = len + 1, UNCHANGED <<network, handed>>,
           pc' \in {"check", "topic", "body"}, len' \in 0..(Width - 1),
           length' \in 0..(Width - 1), multiplier' \in Nat, todo' \in 0..(Width - 1),
           Found(sent[Current])'
    PROVE  IInv'
<1> USE DEF network
<1>1. Types /\ Underway /\ Framed /\ Gone
  BY DEF IInv
<1>2. /\ opened' \in Seq(Bytes) /\ socket' \in Seq(Seq(Bytes))
      /\ buffer' \in [0..(MaxPacket - 1) -> Bytes]
      /\ sock' = sock /\ sock /= "closed" /\ tls' = tls
      /\ Framed'
      /\ Current' = Current
      /\ Fed(sent', opened', socket', wire', Succ(sent, c))
      /\ Inside(sent', handed', buffer', len', Current', Succ(sent, c))
  BY ReadsInside
<1>3. At(Succ(sent, c))'
  BY <1>2 DEF At
<1>4. Underway'
  BY <1>2, <1>3 DEF Underway
<1>5. Types'
  BY <1>1, <1>2 DEF Types
<1>6. Gone'
  BY <1>2 DEF Gone
<1> QED
  BY <1>2, <1>4, <1>5, <1>6 DEF IInv

LEMMA FitsWidth ==
    ASSUME NEW a \in Nat
    PROVE  a % Width \in 0..(Width - 1) /\ (a < Width => a % Width = a)
BY ReaderAssumption, BufferAssumption

\* The digits read so far, summed up, and what the others stand for make the
\* remaining length, which readPacket()'s counters can hold.
LEMMA DigitStep ==
    ASSUME NEW r \in Nat, r < Base * Base * Base * Base, r < Width,
           NEW l \in 1..DigitCount(r), NEW a \in Nat, NEW m \in Nat,
           a + m * Quotient(r, l - 1) = r
    PROVE  LET d == Digits(r)[l]
               sum == (a + (d % Base) * m) % Width
           IN  /\ d >= Base <=> l < DigitCount(r)
               /\ sum \in 0..(Width - 1)
               /\ l < DigitCount(r) => sum + (m * Base) * Quotient(r, l) = r
               /\ l = DigitCount(r) => sum = r
<1> DEFINE d == Digits(r)[l]
           e == d % Base
           x == a + e * m
           q == Quotient(r, l)
<1>1. /\ d \in Nat /\ (d >= Base <=> l < DigitCount(r)) /\ e \in 0..(Base - 1)
      /\ l < DigitCount(r) => Quotient(r, l - 1) = Base * q + e
      /\ l = DigitCount(r) => Quotient(r, l - 1) = e
  BY DigitIs
<1>2. DigitCount(r) \in 1..4 /\ l \in 1..4 /\ l - 1 \in 0..3
  BY CountIs
<1>3. e \in Nat /\ Quotient(r, l - 1) \in Nat
  BY <1>1, <1>2, QuotientStep, ReaderAssumption, BufferAssumption
<1> HIDE DEF e, d, q
<1>4. CASE l < DigitCount(r)
  <2>1. l \in 0..3
    BY <1>2, <1>4
  <2>2. q \in Nat
    BY <2>1, QuotientStep DEF q
  <2>3. /\ a + m * Quotient(r, l - 1) = (a + e * m) + (m * Base) * q
        /\ e * m \in Nat /\ (m * Base) * q \in Nat
    <3> DEFINE y == Quotient(r, l - 1)
    <3>1. y \in Nat /\ y = Base * q + e
      BY <1>1, <1>3, <1>4
    <3> HIDE DEF y
    <3>2. a + m * y = (a + e * m) + (m * Base) * q /\ e * m \in Nat /\ (m * Base) * q \in Nat
      <4> HIDE DEF x
      <4>1. m * y = m * (Base * q) + m * e
        BY <1>3, <2>2, <3>1, ReaderAssumption, BufferAssumption
      <4>2. m * (Base * q) = (m * Base) * q /\ m * e = e * m
        BY <1>3, <2>2, ReaderAssumption, BufferAssumption
      <4>3. e * m \in Nat /\ m * Base \in Nat
        BY <1>3, ReaderAssumption, BufferAssumption
      <4>4. (m * Base) * q \in Nat
        BY <2>2, <4>3
      <4> QED
        BY <4>1, <4>2, <4>3, <4>4
    <3> QED
      BY <3>2 DEF y
  <2> DEFINE z == (m * Base) * q
  <2>4. r = x + z /\ z \in Nat /\ x \in Nat
    <3>1. x \in Nat
      BY <2>3
    <3> QED
      BY <2>3, <3>1
  <2> HIDE DEF x, z
  <2>5. x < Width
    BY <2>4, ReaderAssumption, BufferAssumption
  <2>6. x % Width = x /\ x % Width \in 0..(Width - 1)
    BY <2>4, <2>5, FitsWidth
  <2>7. (x % Width) + z = r
    BY <2>4, <2>6
  <2> QED
    BY <1>1, <1>4, <2>6, <2>7 DEF x, z, e, d, q
<1>5. CASE l = DigitCount(r)
  <2>1. x = r
    <3>1. m * e = e * m
      BY <1>3
    <3> QED
      BY <1>1, <1>5, <3>1
  <2> HIDE DEF x
  <2>2. x % Width = r /\ x % Width \in 0..(Width - 1)
    BY <2>1, FitsWidth
  <2> QED
    BY <1>1, <1>2, <1>5, <2>2 DEF x, e, d
<1> QED
  BY <1>2, <1>4, <1>5

LEMMA ReadDigitIInv == ASSUME Orderly, IInv, ReadDigit PROVE IInv'
<1> USE DEF network
<1>1. Types /\ Underway /\ Gone
  BY DEF IInv
<1>2. /\ \E b \in ReadResult : ReadByte(b, len)
      /\ pc = "digit" /\ len' = len + 1 /\ multiplier' = multiplier * Base
      /\ UNCHANGED <<network, handed>>
  BY DEF ReadDigit
<1>3. PICK c : Fed(sent, opened, socket, wire, c) /\ At(c)
  BY <1>1, <1>2 DEF Underway, Gone
<1> DEFINE n == Current
           p == sent[n]
           r == p.rest
           k == DigitCount(r)
           d == Digits(r)[len]
           sum == (length + (d % Base) * multiplier) % Width
<1>4. /\ n \in 1..Len(sent)
      /\ r \in Nat /\ r < Base * Base * Base * Base
      /\ Inside(sent, handed, buffer, len, n, c)
      /\ Found(p)
  BY <1>2, <1>3, CurrentIs
<1>5. k \in 1..4 /\ SizeOf(p) = 1 + k + r /\ SizeOf(p) \in Nat /\ SizeOf(p) < Width /\ len \in 1..SizeOf(p)
  BY <1>2, <1>3, CurrentIs
<1>6. len <= k /\ length + multiplier * Quotient(r, len - 1) = r
  BY <1>2, <1>4 DEF Found
<1>7. length \in Nat /\ multiplier \in Nat
  BY <1>1 DEF Types
<1>8. Width \in Nat /\ Width > 1 /\ Base \in Nat
  BY ReaderAssumption, BufferAssumption
<1> HIDE DEF n, p, r, k
<1>9. len \in 1..k /\ len < SizeOf(p) /\ r < Width /\ len + 1 \in 0..(Width - 1)
  <2>1. r \in Nat
    BY <1>4
  <2>2. len <= k
    BY <1>6
  <2> QED
    BY <1>5, <1>8, <2>1, <2>2
<1>10. /\ d >= Base <=> len < k
       /\ sum \in 0..(Width - 1)
       /\ len < k => sum + (multiplier * Base) * Quotient(r, len) = r
       /\ len = k => sum = r
  BY <1>4, <1>6, <1>7, <1>9, DigitStep DEF k
<1>11. /\ c = Byte(n, len + 1) /\ \A b : ReadByte(b, len) => b = c
       /\ buffer'[0] = buffer[0] /\ Current' = Current
  BY <1>2, <1>3, <1>9, ReadsInside DEF n, p
\* The byte is a digit.
<1>12. Digit(c) = d
  <2>1. c.packet = n /\ c.at = len + 1
    BY <1>11 DEF Byte
  <2>2. n /= 0 /\ c.at - 1 = len
    BY <1>4, <1>9, <2>1
  <2>3. Len(Digits(r)) = k
    <3>1. k \in Nat
      BY <1>5
    <3>2. Digits(r) = [i \in 1..k |-> (Quotient(r, i - 1) % Base) + (IF i < k THEN Base ELSE 0)]
      BY DEF Digits, k
    <3> QED
      BY <3>1, <3>2
  <2> QED
    BY <1>9, <2>1, <2>2, <2>3 DEF Digit, r, p
<1>13. IsPublish(buffer[0]) <=> p.publish
  <2>1. 1 \in 1..len /\ 1 <= MaxPacket /\ 1 - 1 = 0
    BY <1>9, ReaderAssumption, BufferAssumption
  <2>2. buffer[0] = Byte(n, 1)
    BY <1>4, <2>1 DEF Inside
  <2>3. buffer[0].packet = n /\ buffer[0].at = 1
    BY <2>2 DEF Byte
  <2> QED
    BY <1>4, <2>3 DEF IsPublish, p
<1>14. /\ length' = sum
       /\ d >= Base => pc' = "check" /\ todo' = todo
       /\ ~(d >= Base) /\ p.publish => pc' = "topic" /\ todo' = 1
       /\ ~(d >= Base) /\ ~p.publish => pc' = "body" /\ todo' = sum
  <2> HIDE DEF d
  <2> QED
    BY <1>11, <1>12, <1>13 DEF ReadDigit
<1> HIDE DEF d, sum
<1>15. sent' = sent /\ pc' \in {"check", "topic", "body"}
  BY <1>2, <1>14
<1>16. todo' \in 0..(Width - 1) /\ multiplier' \in Nat
  <2>1. 1 \in 0..(Width - 1)
    BY <1>8
  <2>2. todo' \in {todo, 1, sum}
    BY <1>14
  <2>3. multiplier * Base \in Nat
    BY <1>7, <1>8
  <2> QED
    BY <1>1, <1>2, <1>10, <2>1, <2>2, <2>3 DEF Types
<1>17. Found(p)'
  <2>1. p' = p
    BY <1>11, <1>15 DEF p, n
  <2>2. CASE len < k
    <3>1. len' <= k /\ len' - 1 = len
      BY <1>2, <1>5, <1>9, <2>2
    <3>2. length' + multiplier' * Quotient(r, len' - 1) = r /\ pc' = "check"
      BY <1>2, <1>10, <1>14, <2>2, <3>1
    <3> QED
      BY <2>1, <3>1, <3>2 DEF Found, r, k
  <2>3. CASE len = k
    <3>1. length' = r /\ len' = k + 1 /\ ~(d >= Base)
      BY <1>2, <1>5, <1>10, <1>14, <2>3
    <3>2. CASE p.publish
      <4>1. pc' = "topic" /\ todo' = 1 /\ len' + todo' = k + 2
        BY <1>5, <1>14, <3>1, <3>2
      <4> QED
        BY <2>1, <3>1, <3>2, <4>1 DEF Found, r, k
    <3>3. CASE ~p.publish
      <4>1. pc' = "body" /\ todo' = r
        BY <1>10, <1>14, <2>3, <3>1, <3>3
      <4>2. len' + todo' = SizeOf(p)
        BY <1>4, <1>5, <3>1, <4>1
      <4> QED
        BY <2>1, <4>1, <4>2 DEF Found
    <3> QED
      BY <3>2, <3>3
  <2> QED
    BY <1>5, <1>9, <2>2, <2>3
<1>18. Found(sent[Current])' /\ len < SizeOf(sent[Current])
  BY <1>9, <1>17 DEF p, n
<1>19. length' \in 0..(Width - 1) /\ len' \in 0..(Width - 1)
  BY <1>2, <1>9, <1>10, <1>14
<1> QED
  BY <1>2, <1>3, <1>15, <1>16, <1>18, <1>19, InsideIInv

LEMMA ReadTopicLengthIInv == ASSUME Orderly, IInv, ReadTopicLength PROVE IInv'
<1> USE DEF network
<1>1. Types /\ Underway /\ Gone
  BY DEF IInv
<1>2. /\ \E b \in ReadResult : ReadByte(b, len)
      /\ pc = "topic" /\ len' = len + 1
      /\ UNCHANGED <<network, length, multiplier, handed>>
      /\ todo = 1 => pc' = "topic" /\ todo' = 0
      /\ todo /= 1 => pc' = "body" /\ todo' = IF length > 2 THEN length - 2 ELSE 0
  BY DEF ReadTopicLength
<1>3. PICK c : Fed(sent, opened, socket, wire, c) /\ At(c)
  BY <1>1, <1>2 DEF Underway, Gone
<1> DEFINE p == sent[Current]
           r == p.rest
           k == DigitCount(r)
<1>4. k \in 1..4 /\ SizeOf(p) = 1 + k + r /\ SizeOf(p) \in Nat /\ SizeOf(p) < Width
      /\ len \in 1..SizeOf(p) /\ r \in Nat /\ (p.publish => r >= 2) /\ Found(p)
  BY <1>2, <1>3, CurrentIs
<1>5. p.publish /\ length = r /\ todo \in {0, 1} /\ len + todo = k + 2
  BY <1>2, <1>4 DEF Found
<1>6. Width \in Nat
  BY ReaderAssumption, BufferAssumption
<1> HIDE DEF p, r, k
<1>7. /\ len < SizeOf(p) /\ len + 1 \in 0..(Width - 1)
      /\ todo = 1 => len + 1 + 0 = k + 2
      /\ todo = 0 => (IF r > 2 THEN r - 2 ELSE 0) = r - 2 /\ len + 1 + (r - 2) = SizeOf(p)
      /\ r - 2 \in 0..(Width - 1) /\ 0 \in 0..(Width - 1)
  BY <1>4, <1>5, <1>6
<1>8. c = Byte(Current, len + 1) /\ Current' = Current
  BY <1>2, <1>3, <1>7, ReadsInside DEF p
<1>9. p' = p
  BY <1>2, <1>8 DEF p
<1>10. Found(p)' /\ pc' \in {"check", "topic", "body"} /\ todo' \in 0..(Width - 1)
  <2>1. CASE todo = 1
    <3>1. pc' = "topic" /\ todo' = 0 /\ len' + todo' = k + 2 /\ length' = r
      BY <1>2, <1>4, <1>5, <1>7, <2>1
    <3> QED
      BY <1>5, <1>7, <1>9, <3>1 DEF Found, r, k
  <2>2. CASE todo = 0
    <3>1. pc' = "body" /\ todo' = r - 2
      BY <1>2, <1>5, <1>7, <2>2
    <3>2. len' + todo' = SizeOf(p)
      BY <1>2, <1>7, <2>2, <3>1
    <3> QED
      BY <1>7, <1>9, <3>1, <3>2 DEF Found
  <2> QED
    BY <1>5, <2>1, <2>2
<1>11. Found(sent[Current])' /\ len < SizeOf(sent[Current])
  BY <1>7, <1>10 DEF p
<1>12. length' \in 0..(Width - 1) /\ len' \in 0..(Width - 1) /\ multiplier' \in Nat
  BY <1>1, <1>2, <1>7 DEF Types
<1> QED
  BY <1>2, <1>3, <1>10, <1>11, <1>12, InsideIInv

LEMMA ReadBodyIInv == ASSUME Orderly, IInv, ReadBody PROVE IInv'
<1> USE DEF network
<1>1. Types /\ Underway /\ Gone
  BY DEF IInv
<1>2. /\ \E b \in ReadResult : ReadByte(b, len)
      /\ pc = "body" /\ todo > 0 /\ len' = (len + 1) % Width /\ todo' = todo - 1
      /\ pc' = pc
      /\ UNCHANGED <<network, length, multiplier, handed>>
  BY DEF ReadBody
<1>3. PICK c : Fed(sent, opened, socket, wire, c) /\ At(c)
  BY <1>1, <1>2 DEF Underway, Gone
<1> DEFINE p == sent[Current]
<1>4. SizeOf(p) \in Nat /\ SizeOf(p) < Width /\ len \in 1..SizeOf(p) /\ Found(p)
  BY <1>2, <1>3, CurrentIs
<1>5. len + todo = SizeOf(p)
  BY <1>2, <1>4 DEF Found
<1>6. Width \in Nat /\ todo \in Nat
  BY <1>1, ReaderAssumption, BufferAssumption DEF Types
<1> HIDE DEF p
<1>7. /\ len < SizeOf(p) /\ len + 1 \in Nat /\ len + 1 < Width
      /\ (len + 1) + (todo - 1) = SizeOf(p)
      /\ todo - 1 \in 0..(Width - 1)
  BY <1>2, <1>4, <1>5, <1>6
<1>8. len' = len + 1 /\ len' \in 0..(Width - 1)
  BY <1>2, <1>7, FitsWidth
<1>9. Current' = Current
  BY <1>2, <1>3, <1>7, <1>8, ReadsInside DEF p
<1>10. p' = p
  BY <1>2, <1>9 DEF p
<1>11. Found(p)'
  BY <1>2, <1>7, <1>8, <1>10 DEF Found
<1>12. Found(sent[Current])' /\ len < SizeOf(sent[Current])
  BY <1>7, <1>11 DEF p
<1>13. /\ length' \in 0..(Width - 1) /\ todo' \in 0..(Width - 1) /\ multiplier' \in Nat
       /\ pc' \in {"check", "topic", "body"}
  BY <1>1, <1>2, <1>7 DEF Types
<1> QED
  BY <1>2, <1>3, <1>8, <1>12, <1>13, InsideIInv

\* readPacket() returns with a whole packet, which loop() acts on if the buffer
\* holds it.
LEMMA FinishHands ==
    ASSUME Orderly, IInv, Finish
    PROVE  /\ Current \in 1..Len(sent)
           /\ Passed(sent, handed, Current)
           /\ IF SizeOf(sent[Current]) <= MaxPacket THEN handed' = Append(handed, Current)
              ELSE handed' = handed
           /\ IInv'
<1> USE DEF Finish, network, link, locals
<1>1. Types /\ Underway /\ Framed /\ Gone
  BY DEF IInv
<1>2. PICK c : Fed(sent, opened, socket, wire, c) /\ At(c)
  BY <1>1 DEF Underway, Gone
<1> DEFINE n == Current
           z == SizeOf(sent[n])
<1>3. /\ n \in 1..Len(sent) /\ z \in Nat /\ len \in 1..z
      /\ Inside(sent, handed, buffer, len, n, c) /\ Found(sent[n])
  BY <1>2, CurrentIs
<1>4. len = z
  <2>1. len + todo = z /\ todo = 0
    BY <1>3 DEF Found
  <2> QED
    BY <1>3, <2>1
<1>5. Passed(sent, handed, n) /\ c = Byte(n + 1, 1)
  <2>1. Byte(n, len).at = len /\ Byte(n, len).packet = n
    BY DEF Byte
  <2> QED
    BY <1>3, <1>4, <2>1 DEF Inside, Succ
<1>6. n \in Nat /\ Len(sent) \in Nat
  BY <1>1, <1>3 DEF Types
<1> DEFINE whole == {m \in 1..Len(sent) : Holds(m, len)}
<1>7. ASSUME z <= MaxPacket PROVE whole = {n}
  <2>1. Holds(n, len)
    <3>1. \A i \in 1..len : i <= MaxPacket
      BY <1>3, <1>4, <1>7, ReaderAssumption, BufferAssumption
    <3> QED
      BY <1>3, <1>4, <3>1 DEF Holds, Inside
  <2>2. ASSUME NEW m \in 1..Len(sent), Holds(m, len) PROVE m = n
    <3>1. 1 \in 1..len /\ 1 - 1 = 0
      BY <1>3
    <3>2. buffer[1 - 1] = Byte(m, 1) /\ buffer[1 - 1] = Byte(n, 1)
      BY <2>1, <2>2, <3>1 DEF Holds
    <3> QED
      BY <3>2, ByteEqual
  <2> QED
    BY <1>3, <2>1, <2>2
<1>8. buffer[0] /= Disconnecting
  BY <1>3, NoByte DEF Current
<1>9. Fits(len) <=> z <= MaxPacket
  BY <1>3, <1>4, ReaderAssumption, BufferAssumption DEF Fits
<1> HIDE DEF n, z, whole
<1>10. IF z <= MaxPacket THEN handed' = Append(handed, n) ELSE handed' = handed
  <2>1. CASE z <= MaxPacket
    <3>1. whole /= {} /\ (CHOOSE m \in whole : TRUE) = n
      BY <1>7, <2>1
    <3> QED
      BY <1>8, <1>9, <2>1, <3>1 DEF whole
  <2>2. CASE ~(z <= MaxPacket)
    BY <1>9, <2>2
  <2> QED
    BY <2>1, <2>2
<1>11. handed \in Seq(Nat) /\ \A i \in 1..Len(handed) : handed[i] \in 1..Len(sent)
  BY <1>1 DEF Types
<1>12. /\ handed' \in Seq(Nat) /\ \A i \in 1..Len(handed') : handed'[i] \in 1..Len(sent)
       /\ Passed(sent, handed', n + 1)
  <2>1. CASE z <= MaxPacket
    <3> DEFINE h == Append(handed, n)
    <3>1. /\ h \in Seq(Nat) /\ Len(h) = Len(handed) + 1 /\ Len(handed) \in Nat
          /\ \A i \in 1..Len(handed) : h[i] = handed[i]
          /\ h[Len(handed) + 1] = n /\ h /= <<>>
      BY <1>6, <1>11, AppendProperties
    <3> HIDE DEF h
    <3>2. \A i \in 1..Len(h) : i \in 1..Len(handed) \/ i = Len(handed) + 1
      BY <3>1
    <3>3. \A i \in 1..Len(h) : h[i] \in 1..Len(sent)
      BY <1>3, <1>11, <3>1, <3>2
    <3>4. Latest(h) = n
      BY <3>1 DEF Latest
    <3>5. Passed(sent, h, n + 1)
      BY <1>3, <1>6, <3>4 DEF Passed
    <3> QED
      BY <1>10, <2>1, <3>1, <3>3, <3>5 DEF h
  <2>2. CASE ~(z <= MaxPacket)
    <3>1. Latest(handed) \in 0..Len(sent)
      BY <1>6, <1>11, LatestIs
    <3>2. \A m \in (Latest(handed) + 1)..n : m \in (Latest(handed) + 1)..(n - 1) \/ m = n
      BY <1>6, <3>1
    <3>3. z > MaxPacket
      BY <1>3, <2>2, ReaderAssumption, BufferAssumption
    <3>4. \A m \in (Latest(handed) + 1)..n : SizeOf(sent[m]) > MaxPacket
      BY <1>5, <3>2, <3>3 DEF Passed, z
    <3>5. (n + 1) - 1 = n /\ n + 1 \in 1..(Len(sent) + 1) /\ Latest(handed) < n + 1
      BY <1>3, <1>5, <1>6, <3>1 DEF Passed
    <3>6. Passed(sent, handed, n + 1)
      BY <3>4, <3>5 DEF Passed
    <3> QED
      BY <1>10, <1>11, <2>2, <3>6
  <2> QED
    BY <2>1, <2>2
<1>13. At(c)'
  <2>1. pc' = "idle" /\ sent' = sent
    OBVIOUS
  <2> HIDE DEF Finish
  <2>2. Between(c)'
    BY <1>5, <1>12, <2>1 DEF Between
  <2> QED
    BY <2>1, <2>2 DEF At
<1>14. Types'
  BY <1>1, <1>12 DEF Types
<1>15. Underway'
  BY <1>2, <1>13 DEF Underway
<1>16. Framed' /\ Gone'
  BY <1>1 DEF Framed, Framing, Gone
<1> QED
  BY <1>3, <1>5, <1>10, <1>14, <1>15, <1>16 DEF IInv, n, z

------------------------------------------------------------------------------
(* Theorems *)

LEMMA StepIInv == ASSUME Orderly, IInv, [Next]_vars PROVE IInv'
<1>1. CASE \E p \in Packets : Send(p)
  BY <1>1, SendIInv
<1>2. CASE DataArrives
  <2>1. PICK k \in IF tls THEN RecordSizes ELSE {1} : Arrive(k)
    BY <1>2 DEF DataArrives
  <2>2. ~tls => k = 1
    BY <2>1
  <2> QED
    BY <2>1, <2>2, ArriveIInv
<1>3. CASE ArriveEmpty
  BY <1>3, ArriveEmptyIInv
<1>4. CASE PeerCloses
  BY <1>4, PeerClosesIInv
<1>5. CASE LoopStart
  BY <1>5, LoopStartIInv
<1>6. CASE SkipEmpty
  BY <1>6, SkipEmptyIInv
<1>7. CASE ReadHeader
  BY <1>7, ReadHeaderIInv
<1>8. CASE ReadDigit
  BY <1>8, ReadDigitIInv
<1>9. CASE Check
  BY <1>9, CheckIInv
<1>10. CASE ReadTopicLength
  BY <1>10, ReadTopicLengthIInv
<1>11. CASE ReadBody
  BY <1>11, ReadBodyIInv
<1>12. CASE Finish
  BY <1>12, FinishHands
<1>13. CASE UNCHANGED vars
  <2>1. UNCHANGED <<sent, wire, socket, sock, tls, opened, pc, len, length, multiplier,
                    todo, buffer, handed>>
    BY <1>13 DEF vars, network, link, locals
  <2> QED
    BY <2>1 DEF IInv, Types, Underway, Framed, Gone, At, Between, Found, Current
<1> QED
  BY <1>1, <1>2, <1>3, <1>4, <1>5, <1>6, <1>7, <1>8, <1>9, <1>10, <1>11, <1>12, <1>13
     DEF Next, ReaderStep

\* While the connection only ends between packets, readPacket() never loses its
\* place: what has been read and what is under way are the packets sent, byte
\* by byte (readByte(), readPacket(), loop()).
THEOREM ReaderInvariant == ASSUME Orderly PROVE Spec => []IInv
<1>1. Init => IInv
  BY InitIInv
<1>2. IInv /\ [Next]_vars => IInv'
  BY StepIInv
<1> QED
  BY <1>1, <1>2, PTL DEF Spec

LEMMA IInvTypeOK == ASSUME Orderly, IInv PROVE TypeOK
<1>1. Types /\ Underway /\ Gone
  BY DEF IInv
<1>2. handed \in Seq(Nat) /\ \A i \in 1..Len(handed) : handed[i] \in 0..Len(sent)
  <2>1. Len(sent) \in Nat /\ \A i \in 1..Len(handed) : handed[i] \in 1..Len(sent)
    BY <1>1 DEF Types
  <2>2. 1..Len(sent) \subseteq 0..Len(sent)
    BY <2>1
  <2> QED
    BY <1>1, <2>1, <2>2 DEF Types
<1>3. ASSUME pc \in {"header", "check", "digit"} PROVE len < MaxPacket
  <2>1. CASE pc = "header"
    <3>1. len = 0
      BY <1>1, <2>1 DEF Types
    <3> QED
      BY <3>1, ReaderAssumption, BufferAssumption
  <2>2. CASE pc \in {"check", "digit"} /\ sock = "closed"
    <3>1. len = 1
      BY <1>1, <2>2 DEF Gone
    <3> QED
      BY <3>1, ReaderAssumption, BufferAssumption
  <2>3. CASE pc \in {"check", "digit"} /\ sock /= "closed"
    <3>1. PICK c : At(c)
      BY <1>1, <2>3 DEF Underway
    <3> DEFINE k == DigitCount(sent[Current].rest)
    <3>2. k \in 1..4 /\ Found(sent[Current])
      BY <2>3, <3>1, CurrentIs
    <3>3. len <= k /\ len \in Nat
      BY <1>1, <2>3, <3>2, ReaderAssumption, BufferAssumption DEF Found, Types
    <3> HIDE DEF k
    <3> QED
      BY <3>2, <3>3, ReaderAssumption, BufferAssumption
  <2> QED
    BY <1>3, <2>1, <2>2, <2>3
<1>4. ASSUME pc = "topic" PROVE len + todo < MaxPacket
  <2>1. PICK c : At(c)
    BY <1>1, <1>4 DEF Underway, Gone
  <2> DEFINE k == DigitCount(sent[Current].rest)
  <2>2. k \in 1..4 /\ Found(sent[Current])
    BY <1>4, <2>1, CurrentIs
  <2>3. len + todo = k + 2
    BY <1>4, <2>2 DEF Found
  <2> HIDE DEF k
  <2> QED
    BY <2>2, <2>3, ReaderAssumption, BufferAssumption
<1> QED
  BY <1>1, <1>2, <1>3, <1>4 DEF TypeOK, Types

\* The counters of readPacket() and what it stores without a look at
\* maxpacketsize (readPacket()).
THEOREM ReaderTypeOK == ASSUME Orderly PROVE Spec => []TypeOK
<1>1. IInv => TypeOK
  BY IInvTypeOK
<1> QED
  BY <1>1, ReaderInvariant, PTL

\* The sizes of the packets sent, as PacketStream sees them.
LEMMA SizesIs ==
    ASSUME NEW ps \in Seq(Packets)
    PROVE  LET s == [n \in 1..Len(ps) |-> SizeOf(ps[n])]
           IN  s \in Seq(Nat) /\ Len(s) = Len(ps) /\ \A n \in 1..Len(ps) : s[n] = SizeOf(ps[n])
<1> DEFINE s == [n \in 1..Len(ps) |-> SizeOf(ps[n])]
<1>1. Len(ps) \in Nat
  OBVIOUS
<1>2. \A n \in 1..Len(ps) : SizeOf(ps[n]) \in Nat
  BY SizeIs
<1>3. s \in [1..Len(ps) -> Nat]
  BY <1>2
<1> QED
  BY <1>1, <1>3

LEMMA SizesGrow ==
    ASSUME NEW ps \in Seq(Packets), NEW p \in Packets
    PROVE  [n \in 1..Len(Append(ps, p)) |-> SizeOf(Append(ps, p)[n])]
              = Append([n \in 1..Len(ps) |-> SizeOf(ps[n])], SizeOf(p))
<1> DEFINE qs == Append(ps, p)
           s == [n \in 1..Len(ps) |-> SizeOf(ps[n])]
           t == [n \in 1..Len(qs) |-> SizeOf(qs[n])]
           u == Append(s, SizeOf(p))
<1>1. /\ qs \in Seq(Packets) /\ Len(qs) = Len(ps) + 1 /\ Len(ps) \in Nat
      /\ \A i \in 1..Len(ps) : qs[i] = ps[i]
      /\ qs[Len(ps) + 1] = p
  BY AppendProperties
<1> HIDE DEF qs
<1>2. s \in Seq(Nat) /\ Len(s) = Len(ps) /\ \A n \in 1..Len(ps) : s[n] = SizeOf(ps[n])
  BY SizesIs
<1>3. t \in Seq(Nat) /\ Len(t) = Len(qs) /\ \A n \in 1..Len(qs) : t[n] = SizeOf(qs[n])
  BY <1>1, SizesIs
<1>4. SizeOf(p) \in Nat
  BY SizeIs
<1> HIDE DEF s, t
<1>5. /\ u \in Seq(Nat) /\ Len(u) = Len(s) + 1
      /\ \A i \in 1..Len(s) : u[i] = s[i]
      /\ u[Len(s) + 1] = SizeOf(p)
  BY <1>2, <1>4, AppendProperties
<1> HIDE DEF u
<1>6. \A i \in 1..Len(t) : t[i] = u[i]
  <2> SUFFICES ASSUME NEW i \in 1..Len(t) PROVE t[i] = u[i]
    OBVIOUS
  <2>1. CASE i \in 1..Len(ps)
    BY <1>1, <1>2, <1>3, <1>5, <2>1
  <2>2. CASE i = Len(ps) + 1
    BY <1>1, <1>2, <1>3, <1>5, <2>2
  <2> QED
    BY <1>1, <1>3, <2>1, <2>2
<1>7. t = u
  BY <1>1, <1>2, <1>3, <1>5, <1>6, SeqEqual
<1> QED
  BY <1>7 DEF t, u, s, qs

LEMMA InitStream == Init => Stream!Init
<1> SUFFICES ASSUME Init PROVE Stream!Init
  OBVIOUS
<1> DEFINE s == [n \in 1..Len(sent) |-> HandedSize(n)]
<1>1. sent = <<>> /\ handed = <<>> /\ Len(sent) = 0
  BY DEF Init
<1>2. s = <<>>
  <2>1. 1..Len(sent) = {}
    BY <1>1
  <2> QED
    BY <2>1
<1> QED
  BY <1>1, <1>2 DEF Stream!Init

\* Each step of the reader is one of PacketStream's or none.
LEMMA StepStream == ASSUME Orderly, IInv, [Next]_vars PROVE [Stream!Next]_(Stream!stream)
<1> DEFINE s == [n \in 1..Len(sent) |-> HandedSize(n)]
<1>1. sent \in Seq(Packets) /\ handed \in Seq(Nat)
  BY DEF IInv, Types
<1>2. s = [n \in 1..Len(sent) |-> SizeOf(sent[n])]
  BY DEF HandedSize
<1>3. s' = [n \in 1..Len(sent') |-> SizeOf(sent'[n])]
  BY DEF HandedSize
<1>4. ASSUME NEW p \in Packets, Send(p) PROVE Stream!Next
  <2>1. sent' = Append(sent, p) /\ handed' = handed
    BY <1>4 DEF Send
  <2>2. s' = Append(s, SizeOf(p))
    BY <1>1, <1>2, <1>3, <2>1, SizesGrow
  <2>3. Stream!Send(SizeOf(p))
    BY <2>1, <2>2 DEF Stream!Send
  <2>4. SizeOf(p) \in {SizeOf(q) : q \in Packets}
    OBVIOUS
  <2> QED
    BY <2>3, <2>4 DEF Stream!Next
<1>5. ASSUME Finish, handed' /= handed PROVE Stream!Next
  <2> DEFINE n == Current
  <2>1. /\ n \in 1..Len(sent) /\ Passed(sent, handed, n)
        /\ SizeOf(sent[n]) <= MaxPacket /\ handed' = Append(handed, n)
    BY <1>5, FinishHands
  <2>2. sent' = sent
    BY <1>5 DEF Finish, network
  <2>3. s' = s
    BY <1>2, <1>3, <2>2
  <2> HIDE DEF n
  <2>4. /\ Len(s) = Len(sent) /\ s[n] = SizeOf(sent[n])
        /\ \A m \in 1..Len(sent) : s[m] = SizeOf(sent[m])
    BY <1>1, <1>2, <2>1, SizesIs
  <2>5. Stream!Newest = Latest(handed)
    BY DEF Stream!Newest, Latest
  <2>6. Latest(handed) \in 0..Len(sent) /\ Len(sent) \in Nat
    BY <1>1, LatestIs DEF IInv, Types
  <2>7. \A m \in (Latest(handed) + 1)..(n - 1) : m \in 1..Len(sent)
    BY <2>1, <2>6
  <2>8. n > Latest(handed)
    BY <2>1, <2>6 DEF Passed
  <2>9. \A m \in (Latest(handed) + 1)..(n - 1) : s[m] > MaxPacket
    BY <2>1, <2>4, <2>7 DEF Passed
  <2> HIDE DEF s
  <2>10. Stream!Hand(n)
    BY <2>1, <2>3, <2>4, <2>5, <2>8, <2>9 DEF Stream!Hand, s
  <2> QED
    BY <2>1, <2>4, <2>10 DEF Stream!Next, s
<1>6. ASSUME UNCHANGED <<sent, handed>> PROVE UNCHANGED Stream!stream
  <2>1. s' = s
    BY <1>2, <1>3, <1>6
  <2> QED
    BY <1>6, <2>1 DEF Stream!stream
<1>7. CASE \E p \in Packets : Send(p)
  BY <1>4, <1>7
<1>8. CASE DataArrives \/ ArriveEmpty \/ PeerCloses
  <2>1. UNCHANGED <<sent, handed>>
    BY <1>8 DEF DataArrives, Arrive, ArriveEmpty, PeerCloses, network
  <2> QED
    BY <1>6, <2>1
<1>9. CASE LoopStart \/ SkipEmpty \/ ReadHeader \/ ReadDigit \/ ReadTopicLength \/ ReadBody
  <2>1. UNCHANGED <<sent, handed>>
    BY <1>9 DEF LoopStart, SkipEmpty, ReadHeader, ReadDigit, ReadTopicLength, ReadBody, network
  <2> QED
    BY <1>6, <2>1
<1>10. CASE Check
  <2>1. UNCHANGED <<sent, handed>>
    BY <1>10, CheckIInv DEF Check, network
  <2> QED
    BY <1>6, <2>1
<1>11. CASE Finish
  <2>1. sent' = sent
    BY <1>11 DEF Finish, network
  <2>2. CASE handed' = handed
    BY <1>6, <2>1, <2>2
  <2>3. CASE handed' /= handed
    BY <1>5, <1>11, <2>3
  <2> QED
    BY <2>2, <2>3
<1>12. CASE UNCHANGED vars
  <2>1. UNCHANGED <<sent, handed>>
    BY <1>12 DEF vars, network
  <2> QED
    BY <1>6, <2>1
<1> QED
  BY <1>7, <1>8, <1>9, <1>10, <1>11, <1>12 DEF Next, ReaderStep

\* What loop() acts on are the broker's packets, whole, in order, and all that
\* fit the buffer, whatever records the bytes come in and whenever the
\* connection ends between two packets (readPacket(), loop()).
THEOREM ReaderReadsTheStream == ASSUME Orderly PROVE Spec => ReadsTheStream
<1>1. Init => Stream!Init
  BY InitStream
<1>2. IInv /\ [Next]_vars => [Stream!Next]_(Stream!stream)
  BY StepStream
<1> QED
  BY <1>1, <1>2, ReaderInvariant, PTL DEF Spec, ReadsTheStream, Stream!Spec

------------------------------------------------------------------------------
(* The buffer as the calls see it *)

Names == {"number", "MQTT", "id", "will", "message", "user", "pass", "topic", "payload"}
Memory == 0..(MaxPacket + Beyond - 1)
Cell == [of : Names, val : Nat]
Buffers == [Memory -> Cell]

\* s is what buf holds from place i on, and p from position i on.
Segment(buf, i, s) == \A j \in 1..Len(s) : buf[i + j - 1] = s[j]
Part(p, i, s) == i + Len(s) - 1 <= Len(p) /\ \A j \in 1..Len(s) : p[i + j - 1] = s[j]

LEMMA Sizes ==
    /\ Base \in Nat /\ Base > 2 /\ MaxPacket \in Nat /\ Beyond \in Nat /\ Beyond >= 27
    /\ MaxPacket + Beyond \in Nat
    /\ MaxPacket + Beyond <= Base * Base * Base
    /\ ByteSpace \in Nat /\ ByteSpace > 4
    /\ IdSpace \in Nat /\ IdSpace > 16
<1>1. Base \in Nat /\ Base > 2 /\ MaxPacket \in Nat /\ Beyond \in Nat /\ Beyond >= 27
      /\ MaxPacket + Beyond <= Base * Base * Base
  BY WriterAssumption, BufferAssumption
<1>2. ByteSpace \in Nat /\ ByteSpace > 4
  BY <1>1 DEF ByteSpace
<1>3. IdSpace \in Nat
  BY <1>2 DEF IdSpace
<1>4. IdSpace > 16
  <2> DEFINE b == ByteSpace
  <2>1. b \in Nat /\ b >= 5
    BY <1>2
  <2> HIDE DEF b
  <2>2. b * b >= 5 * b
    BY <2>1
  <2>3. b * b > 16
    BY <2>1, <2>2
  <2> QED
    BY <2>3 DEF b, IdSpace
<1> QED
  BY <1>1, <1>2, <1>3, <1>4

LEMMA NumberIs == ASSUME NEW n \in Nat PROVE Number(n) \in Cell /\ Number(n).val = n
<1>1. "number" \in Names
  BY DEF Names
<1>2. Number(n) = [of |-> "number", val |-> n]
  BY DEF Number
<1>3. Number(n) \in [of : Names, val : Nat]
  BY <1>1, <1>2
<1> QED
  BY <1>2, <1>3 DEF Cell

LEMMA ByteDivision ==
    ASSUME NEW n \in Nat
    PROVE  /\ n \div ByteSpace \in Nat /\ n % ByteSpace \in Nat
           /\ (n \div ByteSpace) * ByteSpace + (n % ByteSpace) = n
<1> DEFINE b == ByteSpace
<1>1. b \in Nat /\ b > 0
  BY Sizes
<1> HIDE DEF b
<1>2. n \div b \in Nat /\ n % b \in Nat /\ n = b * (n \div b) + (n % b)
  BY <1>1
<1>3. b * (n \div b) = (n \div b) * b
  BY <1>1, <1>2
<1> QED
  BY <1>2, <1>3 DEF b

LEMMA WordIs ==
    ASSUME NEW n \in Nat
    PROVE  /\ Word(n) \in Seq(Cell) /\ Len(Word(n)) = 2
           /\ Word(n)[1].val * ByteSpace + Word(n)[2].val = n
<1>1. n \div ByteSpace \in Nat /\ n % ByteSpace \in Nat
  BY ByteDivision
<1>2. /\ Number(n \div ByteSpace) \in Cell /\ Number(n % ByteSpace) \in Cell
      /\ Number(n \div ByteSpace).val = n \div ByteSpace
      /\ Number(n % ByteSpace).val = n % ByteSpace
  BY <1>1, NumberIs
<1>3. /\ Word(n) \in Seq(Cell) /\ Len(Word(n)) = 2
      /\ Word(n)[1] = Number(n \div ByteSpace) /\ Word(n)[2] = Number(n % ByteSpace)
  BY <1>2 DEF Word
<1> QED
  BY <1>2, <1>3, ByteDivision

LEMMA CharsIs ==
    ASSUME NEW name \in Names, NEW n \in Nat
    PROVE  Chars(name, n) \in Seq(Cell) /\ Len(Chars(name, n)) = n
<1>1. \A i \in 1..n : [of |-> name, val |-> i] \in Cell
  BY DEF Cell
<1>2. Chars(name, n) \in [1..n -> Cell]
  BY <1>1 DEF Chars
<1>3. Chars(name, n) = [i \in 1..n |-> [of |-> name, val |-> i]]
  BY DEF Chars
<1> QED
  BY <1>2, <1>3

\* A string with its length in front.
Prefixed(name, n) == Word(n) \o Chars(name, n)

LEMMA PrefixedIs ==
    ASSUME NEW name \in Names, NEW n \in Nat
    PROVE  /\ Prefixed(name, n) \in Seq(Cell) /\ Len(Prefixed(name, n)) = n + 2
           /\ Prefixed(name, n)[1] = Word(n)[1] /\ Prefixed(name, n)[2] = Word(n)[2]
           /\ \A j \in 1..n : Prefixed(name, n)[j + 2] = Chars(name, n)[j]
<1> DEFINE u == Word(n)
           v == Chars(name, n)
<1>1. u \in Seq(Cell) /\ Len(u) = 2 /\ v \in Seq(Cell) /\ Len(v) = n
  BY WordIs, CharsIs
<1> HIDE DEF u, v
<1>2. /\ u \o v \in Seq(Cell) /\ Len(u \o v) = n + 2
      /\ (u \o v)[1] = u[1] /\ (u \o v)[2] = u[2]
      /\ \A j \in 1..n : (u \o v)[j + 2] = v[j]
  <2>1. u \o v \in Seq(Cell)
    BY <1>1
  <2>2. Len(u \o v) = n + 2
    <3>1. Len(u \o v) = Len(u) + Len(v)
      BY <1>1, ConcatProperties
    <3>2. Len(u) + Len(v) = n + 2
      BY <1>1
    <3> QED
      BY <3>1, <3>2
  <2>3. (u \o v)[1] = u[1] /\ (u \o v)[2] = u[2]
    <3>1. 1 \in 1..(Len(u) + Len(v)) /\ 2 \in 1..(Len(u) + Len(v)) /\ 1 <= Len(u) /\ 2 <= Len(u)
      BY <1>1
    <3> QED
      BY <1>1, <3>1, ConcatProperties
  <2>4. ASSUME NEW j \in 1..n PROVE (u \o v)[j + 2] = v[j]
    <3>1. j + 2 \in 1..(Len(u) + Len(v)) /\ ~(j + 2 <= Len(u)) /\ (j + 2) - Len(u) = j
      BY <1>1
    <3>2. \A i \in 1..(Len(u) + Len(v)) :
            (u \o v)[i] = IF i <= Len(u) THEN u[i] ELSE v[i - Len(u)]
      BY <1>1, ConcatProperties
    <3>3. (u \o v)[j + 2] = v[(j + 2) - Len(u)]
      BY <3>1, <3>2
    <3> QED
      BY <3>1, <3>3
  <2> QED
    BY <2>1, <2>2, <2>3, <2>4
<1> QED
  BY <1>2 DEF Prefixed, u, v

LEMMA PutIs ==
    ASSUME NEW c, c.buf \in Buffers, c.pos \in Nat, NEW s \in Seq(Cell),
           c.pos + Len(s) <= MaxPacket + Beyond
    PROVE  LET d == Put(c, s)
           IN  /\ d.buf \in Buffers /\ d.pos = c.pos + Len(s) /\ d.pos \in Nat
               /\ Segment(d.buf, c.pos, s)
               /\ \A i \in Memory : ~(i >= c.pos /\ i < d.pos) => d.buf[i] = c.buf[i]
<1> DEFINE d == Put(c, s)
           n == c.pos
           m == Len(s)
<1>1. m \in Nat /\ n \in Nat /\ MaxPacket + Beyond \in Nat /\ n + m <= MaxPacket + Beyond
  BY Sizes
<1>2. DOMAIN c.buf = Memory
  BY DEF Buffers
<1>3. d.buf = [i \in Memory |-> IF i \in n..(n + m - 1) THEN s[i - n + 1] ELSE c.buf[i]]
      /\ d.pos = n + m
  BY <1>2 DEF Put
<1>4. \A i \in n..(n + m - 1) : i - n + 1 \in 1..m
  BY <1>1
<1>5. \A i \in Memory : (IF i \in n..(n + m - 1) THEN s[i - n + 1] ELSE c.buf[i]) \in Cell
  BY <1>4 DEF Buffers
<1>6. d.buf \in Buffers
  BY <1>3, <1>5 DEF Buffers
<1> HIDE DEF d
<1>7. ASSUME NEW j \in 1..m PROVE d.buf[n + j - 1] = s[j]
  <2> HIDE DEF n, m
  <2>1. n + j - 1 \in n..(n + m - 1)
    BY <1>1
  <2>2. n + j - 1 \in Nat /\ n + j - 1 <= (MaxPacket + Beyond) - 1 /\ (n + j - 1) - n + 1 = j
    BY <1>1, Sizes
  <2>3. n + j - 1 \in Memory
    BY <1>1, <2>2, Sizes DEF Memory
  <2> QED
    BY <1>3, <2>1, <2>2, <2>3
<1>8. ASSUME NEW i \in Memory, ~(i >= n /\ i < n + m) PROVE d.buf[i] = c.buf[i]
  <2>1. i \notin n..(n + m - 1)
    BY <1>1, <1>8
  <2> QED
    BY <1>3, <2>1
<1> QED
  BY <1>1, <1>3, <1>6, <1>7, <1>8 DEF d, Segment

\* What lies in front of the cursor stays.
LEMMA PutKeeps ==
    ASSUME NEW c, c.buf \in Buffers, c.pos \in Nat, NEW s \in Seq(Cell),
           c.pos + Len(s) <= MaxPacket + Beyond,
           NEW i \in Nat, NEW t \in Seq(Cell), i + Len(t) <= c.pos, Segment(c.buf, i, t)
    PROVE  Segment(Put(c, s).buf, i, t)
<1> DEFINE d == Put(c, s)
<1>1. \A k \in Memory : ~(k >= c.pos /\ k < d.pos) => d.buf[k] = c.buf[k]
  BY PutIs
<1> HIDE DEF d
<1>2. Len(t) \in Nat /\ Len(s) \in Nat /\ MaxPacket + Beyond \in Nat
  BY Sizes
<1>3. ASSUME NEW j \in 1..Len(t) PROVE d.buf[i + j - 1] = t[j]
  <2>1. i + j - 1 \in Nat /\ i + j - 1 < c.pos /\ i + j - 1 <= (MaxPacket + Beyond) - 1
    BY <1>2, Sizes
  <2>2. i + j - 1 \in Memory /\ ~(i + j - 1 >= c.pos)
    BY <1>2, <2>1, Sizes DEF Memory
  <2>3. d.buf[i + j - 1] = c.buf[i + j - 1]
    BY <1>1, <2>2
  <2> QED
    BY <2>3 DEF Segment
<1> QED
  BY <1>3 DEF Segment, d

\* writeString(), on a buffer that may be used up.
LEMMA WriteStringIs ==
    ASSUME NEW c, c.buf \in Buffers, c.pos \in Nat, NEW name \in Names, NEW count \in Nat,
           c.pos + 2 <= MaxPacket + Beyond
    PROVE  LET d == WriteString(c, name, count)
           IN  /\ d.buf \in Buffers /\ d.pos \in Nat /\ d.pos >= c.pos + 2
               /\ d.pos <= MaxPacket \/ d.pos = c.pos + 2
               /\ c.pos + 2 + count <= MaxPacket =>
                    d.pos = c.pos + 2 + count /\ Segment(d.buf, c.pos, Prefixed(name, count))
               /\ \A i \in Nat, t \in Seq(Cell) :
                    i + Len(t) <= c.pos /\ Segment(c.buf, i, t) => Segment(d.buf, i, t)
<1> DEFINE n == Room(c.pos + 2, count)
           d == WriteString(c, name, count)
           s == Prefixed(name, n)
<1>1. /\ n \in Nat /\ (c.pos + 2 + n <= MaxPacket \/ n = 0)
      /\ c.pos + 2 + count <= MaxPacket => n = count
  BY Sizes DEF Room
<1> HIDE DEF n
<1>2. d = Put(c, s)
  BY DEF WriteString, Prefixed, n
<1>3. s \in Seq(Cell) /\ Len(s) = n + 2
  BY <1>1, PrefixedIs
<1>4. c.pos + Len(s) <= MaxPacket + Beyond
  BY <1>1, <1>3, Sizes
<1> HIDE DEF s, d
<1>5. d.buf \in Buffers /\ d.pos = c.pos + Len(s) /\ d.pos \in Nat /\ Segment(d.buf, c.pos, s)
  BY <1>2, <1>3, <1>4, PutIs
<1>6. \A i \in Nat, t \in Seq(Cell) :
        i + Len(t) <= c.pos /\ Segment(c.buf, i, t) => Segment(d.buf, i, t)
  BY <1>2, <1>3, <1>4, PutKeeps
<1>7. d.pos >= c.pos + 2 /\ (d.pos <= MaxPacket \/ d.pos = c.pos + 2)
  BY <1>1, <1>3, <1>5, Sizes
<1>8. c.pos + 2 + count <= MaxPacket =>
        d.pos = c.pos + 2 + count /\ Segment(d.buf, c.pos, Prefixed(name, count))
  BY <1>1, <1>3, <1>5, Sizes DEF s
<1> QED
  BY <1>5, <1>6, <1>7, <1>8 DEF d

------------------------------------------------------------------------------
(* The packet *)

\* A remaining length of at most three digits is read as the one written.
LEMMA ThreeDigits ==
    ASSUME NEW r \in Nat, r < Base * Base * Base
    PROVE  DigitCount(r) \in 1..3 /\ r < Base * Base * Base * Base
<1> DEFINE cube == Base * Base * Base
<1>1. Base \in Nat /\ Base > 2 /\ Base * Base \in Nat /\ cube \in Nat
  BY Sizes
<1>2. r < cube * Base
  <2> HIDE DEF cube
  <2>1. cube * Base >= cube * 1
    BY <1>1
  <2> QED
    BY <1>1, <2>1 DEF cube
<1>3. r \div Base < Base * Base /\ r \div Base \in Nat
  BY <1>1, Division, DivisionBound
<1>4. (r \div Base) \div Base < Base /\ (r \div Base) \div Base \in Nat
  BY <1>1, <1>3, Division, DivisionBound
<1>5. Quotient(r, 3) = 0
  <2>1. \A q \in Nat : q < Base => q \div Base = 0
    BY <1>1, SmallRemainder
  <2> QED
    BY <1>4, <2>1 DEF Quotient
<1>6. DigitCount(r) /= 4
  <2>1. DigitCount(r) = 4 => 3 \in 1..(DigitCount(r) - 1)
    OBVIOUS
  <2> QED
    BY <1>5, <2>1, CountIs
<1> QED
  BY <1>2, <1>6, CountIs

LEMMA LengthIsRead ==
    ASSUME NEW r \in Nat, r < Base * Base * Base, NEW p,
           \A j \in 1..DigitCount(r) : p[j + 1].val = Digits(r)[j]
    PROVE  LengthLength(p) = DigitCount(r) /\ Remaining(p) = r
<1> DEFINE k == DigitCount(r)
           d(j) == Digits(r)[j]
<1>1. k \in 1..3 /\ r < Base * Base * Base * Base
  BY ThreeDigits
<1>2. \A j \in 1..k : d(j) \in Nat /\ (d(j) >= Base <=> j < k)
  BY <1>1, DigitIs
<1>3. LengthLength(p) = k
  <2> DEFINE P(m) == p[m + 1].val < Base /\ \A j \in 1..(m - 1) : p[j + 1].val >= Base
  <2>1. P(k)
    <3>1. k \in 1..k /\ \A j \in 1..(k - 1) : j \in 1..k /\ j < k
      BY <1>1
    <3>2. p[k + 1].val = d(k) /\ \A j \in 1..(k - 1) : p[j + 1].val = d(j)
      BY <3>1
    <3>3. ~(d(k) >= Base) /\ d(k) \in Nat
      BY <1>1, <1>2, <3>1
    <3>4. d(k) < Base
      <4> HIDE DEF d, k
      <4> QED
        BY <3>3, Sizes
    <3> QED
      BY <1>2, <3>1, <3>2, <3>4
  <2>2. ASSUME NEW m \in 1..4, P(m) PROVE m = k
    <3>1. CASE m < k
      <4>1. m \in 1..k
        BY <1>1, <3>1
      <4>2. p[m + 1].val = d(m) /\ d(m) >= Base /\ d(m) \in Nat
        BY <1>2, <3>1, <4>1
      <4> HIDE DEF d, k
      <4> QED
        BY <2>2, <4>2, Sizes
    <3>2. CASE m > k
      <4>1. k \in 1..(m - 1) /\ k \in 1..k
        BY <1>1, <3>2
      <4>2. p[k + 1].val >= Base /\ p[k + 1].val = d(k) /\ ~(d(k) >= Base)
        BY <1>1, <1>2, <2>2, <4>1
      <4> QED
        BY <4>2
    <3> QED
      BY <1>1, <3>1, <3>2
  <2>3. LengthLength(p) = CHOOSE m \in 1..4 : P(m)
    BY DEF LengthLength
  <2> HIDE DEF P
  <2>4. k \in 1..4
    BY <1>1
  <2> QED
    BY <2>1, <2>2, <2>3, <2>4
<1> DEFINE e(j) == p[j + 1].val % Base
<1>4. \A j \in 1..k : p[j + 1].val = d(j)
  OBVIOUS
<1>5. Quotient(r, 0) = r
  BY QuotientStep
<1>6. Remaining(p) = e(1) * Place(1) + (IF k > 1 THEN e(2) * Place(2) ELSE 0)
                     + (IF k > 2 THEN e(3) * Place(3) ELSE 0)
  BY <1>3 DEF Remaining
<1>7. Base \in Nat
  BY Sizes
<1>8. Remaining(p) = r
  <2>1. CASE k = 1
    <3>1. e(1) = r
      <4>1. 1 \in 1..k /\ 1 - 1 = 0
        BY <2>1
      <4>2. Quotient(r, 1 - 1) = d(1) % Base
        BY <1>1, <2>1, <4>1, DigitIs
      <4> QED
        BY <1>4, <1>5, <4>1, <4>2
    <3> HIDE DEF e, k
    <3> QED
      BY <1>6, <2>1, <3>1 DEF Place
  <2>2. CASE k = 2
    <3>1. 1 \in 1..k /\ 2 \in 1..k /\ 1 - 1 = 0 /\ 2 - 1 = 1 /\ 1 < k
      BY <2>2
    <3>2. r = Base * Quotient(r, 1) + e(1) /\ e(1) \in 0..(Base - 1)
      BY <1>1, <1>4, <1>5, <3>1, DigitIs
    <3>3. Quotient(r, 1) = e(2) /\ e(2) \in 0..(Base - 1)
      <4>1. Quotient(r, 2 - 1) = d(2) % Base /\ d(2) % Base \in 0..(Base - 1)
        BY <1>1, <2>2, <3>1, DigitIs
      <4> QED
        BY <1>4, <3>1, <4>1
    <3>4. Remaining(p) = e(1) * 1 + e(2) * Base
      <4>1. k > 1 /\ ~(k > 2) /\ Place(1) = 1 /\ Place(2) = Base
        BY <2>2 DEF Place
      <4> HIDE DEF e, k
      <4>2. Remaining(p) = e(1) * 1 + e(2) * Base + 0
        BY <1>6, <4>1
      <4>3. e(1) * 1 + e(2) * Base \in Nat
        BY <1>7, <3>2, <3>3
      <4> QED
        BY <4>2, <4>3
    <3> HIDE DEF e, k
    <3>5. e(1) * 1 = e(1) /\ e(2) * Base = Base * e(2)
      BY <1>7, <3>2, <3>3
    <3>6. Base * e(2) \in Nat
      BY <1>7, <3>3
    <3> QED
      BY <3>2, <3>3, <3>4, <3>5, <3>6
  <2>3. CASE k = 3
    <3>1. 1 \in 1..k /\ 2 \in 1..k /\ 3 \in 1..k /\ 1 - 1 = 0 /\ 2 - 1 = 1 /\ 3 - 1 = 2 /\ 1 < k /\ 2 < k
      BY <2>3
    <3>2. r = Base * Quotient(r, 1) + e(1) /\ e(1) \in 0..(Base - 1)
      BY <1>1, <1>4, <1>5, <3>1, DigitIs
    <3>3. Quotient(r, 1) = Base * Quotient(r, 2) + e(2) /\ e(2) \in 0..(Base - 1)
      <4>1. Quotient(r, 2 - 1) = Base * Quotient(r, 2) + (d(2) % Base) /\ d(2) % Base \in 0..(Base - 1)
        BY <1>1, <3>1, DigitIs
      <4> QED
        BY <1>4, <3>1, <4>1
    <3>4. Quotient(r, 2) = e(3) /\ e(3) \in 0..(Base - 1)
      <4>1. Quotient(r, 3 - 1) = d(3) % Base /\ d(3) % Base \in 0..(Base - 1)
        BY <1>1, <2>3, <3>1, DigitIs
      <4> QED
        BY <1>4, <3>1, <4>1
    <3>5. Remaining(p) = e(1) * 1 + e(2) * Base + e(3) * (Base * Base)
      BY <1>6, <2>3 DEF Place
    <3> HIDE DEF e, k
    <3>6. e(1) \in Nat /\ e(2) \in Nat /\ e(3) \in Nat
      BY <1>7, <3>2, <3>3, <3>4
    <3>7. Base * (Base * e(3) + e(2)) = Base * (Base * e(3)) + Base * e(2)
      BY <1>7, <3>6
    <3>8. Base * (Base * e(3)) = e(3) * (Base * Base) /\ Base * e(2) = e(2) * Base /\ e(1) * 1 = e(1)
      BY <1>7, <3>6
    <3>9. e(3) * (Base * Base) \in Nat /\ e(2) * Base \in Nat
      BY <1>7, <3>6
    <3>10. r = Base * (Base * e(3) + e(2)) + e(1)
      BY <3>2, <3>3, <3>4
    <3> QED
      BY <3>5, <3>6, <3>7, <3>8, <3>9, <3>10
  <2> QED
    BY <1>1, <2>1, <2>2, <2>3
<1> QED
  BY <1>3, <1>8

LEMMA LengthCellsAre ==
    ASSUME NEW r \in Nat, r < Base * Base * Base
    PROVE  /\ LengthCells(r) \in Seq(Cell) /\ Len(LengthCells(r)) = DigitCount(r)
           /\ DigitCount(r) \in 1..3
           /\ \A j \in 1..DigitCount(r) : LengthCells(r)[j].val = Digits(r)[j]
<1> DEFINE k == DigitCount(r)
           l == LengthCells(r)
<1>1. k \in 1..3 /\ r < Base * Base * Base * Base
  BY ThreeDigits
<1>2. l = [j \in 1..k |-> Number(Digits(r)[j])]
  BY DEF LengthCells
<1>3. ASSUME NEW j \in 1..k
      PROVE  Number(Digits(r)[j]) \in Cell /\ Number(Digits(r)[j]).val = Digits(r)[j]
  <2>1. Digits(r)[j] \in Nat
    BY <1>1, DigitIs
  <2> QED
    BY <2>1, NumberIs
<1>4. l \in [1..k -> Cell]
  BY <1>2, <1>3
<1>5. k \in Nat
  BY <1>1
<1> HIDE DEF k, l
<1>6. l \in Seq(Cell) /\ Len(l) = k
  BY <1>4, <1>5
<1>7. \A j \in 1..k : l[j].val = Digits(r)[j]
  BY <1>2, <1>3
<1> QED
  BY <1>1, <1>6, <1>7 DEF k, l

\* write(): what lies in the buffer from place 5 on follows header and length.
LEMMA WriteIs ==
    ASSUME NEW h \in Nat, NEW c, c.buf \in Buffers, c.pos \in Nat, c.pos >= 5,
           c.pos <= MaxPacket + Beyond, Write(h, c)
    PROVE  LET k == DigitCount(c.pos - 5)
           IN  /\ buffer' \in Buffers /\ top' = c.pos
               /\ k \in 1..3 /\ LengthLength(packet') = k /\ Remaining(packet') = c.pos - 5
               /\ packet' \in Seq(Cell) /\ Len(packet') = c.pos - 4 + k
               /\ packet'[1] = Number(h)
               /\ \A i \in Nat, s \in Seq(Cell) :
                    i >= 5 /\ i + Len(s) <= c.pos /\ Segment(c.buf, i, s)
                      => Part(packet', i - 3 + k, s)
<1> DEFINE r == c.pos - 5
           k == DigitCount(r)
           l == LengthCells(r)
           cells == <<Number(h)>> \o l
           start == 5 - Len(cells)
           before == [buf |-> c.buf, pos |-> start]
           whole == Put(before, cells).buf
           p == packet'
<1>1. r \in Nat /\ r < Base * Base * Base
  BY Sizes
<1>2. /\ l \in Seq(Cell) /\ Len(l) = k /\ k \in 1..3
      /\ \A j \in 1..k : l[j].val = Digits(r)[j]
  BY <1>1, LengthCellsAre
<1>3. /\ buffer' = whole /\ top' = c.pos
      /\ p = [i \in 1..(c.pos - start) |-> whole[start + i - 1]]
  BY DEF Write
<1> HIDE DEF l
<1>4. /\ cells \in Seq(Cell) /\ Len(cells) = 1 + k /\ cells[1] = Number(h)
      /\ \A j \in 1..k : cells[j + 1] = l[j]
  <2> DEFINE one == <<Number(h)>>
  <2>1. one \in Seq(Cell) /\ Len(one) = 1 /\ one[1] = Number(h)
    BY NumberIs
  <2> HIDE DEF one
  <2>2. /\ one \o l \in Seq(Cell) /\ Len(one \o l) = Len(one) + Len(l)
        /\ \A i \in 1..(Len(one) + Len(l)) :
             (one \o l)[i] = IF i <= Len(one) THEN one[i] ELSE l[i - Len(one)]
    BY <1>2, <2>1, ConcatProperties
  <2> HIDE DEF k
  <2>3. Len(one) + Len(l) = 1 + k
    BY <1>2, <2>1
  <2>4. (one \o l)[1] = one[1]
    <3>1. 1 \in 1..(Len(one) + Len(l)) /\ 1 <= Len(one)
      BY <1>2, <2>1, <2>3
    <3> QED
      BY <2>2, <3>1
  <2>5. ASSUME NEW j \in 1..k PROVE (one \o l)[j + 1] = l[j]
    <3>1. j + 1 \in 1..(Len(one) + Len(l)) /\ ~(j + 1 <= Len(one)) /\ (j + 1) - Len(one) = j
      BY <1>2, <2>1, <2>3
    <3>2. (one \o l)[j + 1] = l[(j + 1) - Len(one)]
      BY <2>2, <3>1
    <3> QED
      BY <3>1, <3>2
  <2> QED
    BY <2>1, <2>2, <2>3, <2>4, <2>5 DEF one
<1> HIDE DEF cells, r, k
<1>5. /\ start = 4 - k /\ start \in Nat /\ start + Len(cells) = 5
      /\ start + Len(cells) <= MaxPacket + Beyond
  BY <1>2, <1>4, Sizes
<1> HIDE DEF start
<1>6. before.buf = c.buf /\ before.pos = start
  OBVIOUS
<1> HIDE DEF before
<1>7. /\ whole \in Buffers /\ Segment(whole, start, cells)
      /\ \A i \in Memory : ~(i >= start /\ i < 5) => whole[i] = c.buf[i]
  <2>1. /\ Put(before, cells).buf \in Buffers /\ Put(before, cells).pos = start + Len(cells)
        /\ Segment(Put(before, cells).buf, start, cells)
        /\ \A i \in Memory :
             ~(i >= start /\ i < Put(before, cells).pos) => Put(before, cells).buf[i] = c.buf[i]
    BY <1>4, <1>5, <1>6, PutIs
  <2> QED
    BY <1>5, <2>1
<1> HIDE DEF whole
<1>8. c.pos - start = c.pos - 4 + k /\ c.pos - start \in Nat /\ c.pos - start >= 1 + k
  BY <1>2, <1>5
<1>9. p \in Seq(Cell) /\ Len(p) = c.pos - 4 + k
  <2>1. ASSUME NEW i \in 1..(c.pos - start) PROVE whole[start + i - 1] \in Cell
    <3>1. start + i - 1 \in Nat /\ start + i - 1 <= MaxPacket + Beyond - 1
      BY <1>5, <1>8, Sizes
    <3>2. start + i - 1 \in Memory
      BY <3>1, Sizes DEF Memory
    <3> QED
      BY <1>7, <3>2 DEF Buffers
  <2>2. p \in [1..(c.pos - start) -> Cell]
    BY <1>3, <2>1
  <2> QED
    BY <1>8, <2>2
<1>10. \A i \in 1..(c.pos - start) : p[i] = whole[start + i - 1]
  BY <1>3
<1>11. \A j \in 1..(1 + k) : p[j] = cells[j]
  <2> TAKE j \in 1..(1 + k)
  <2>1. j \in 1..(c.pos - start)
    BY <1>2, <1>8
  <2> QED
    BY <1>4, <1>7, <1>10, <2>1 DEF Segment
<1>12. p[1] = Number(h)
  <2>1. 1 \in 1..(1 + k)
    BY <1>2
  <2> QED
    BY <1>4, <1>11, <2>1
<1>13. LengthLength(p) = k /\ Remaining(p) = r
  <2>1. ASSUME NEW j \in 1..k PROVE p[j + 1].val = Digits(r)[j]
    <3>1. j + 1 \in 1..(1 + k)
      BY <1>2
    <3> QED
      BY <1>2, <1>4, <1>11, <3>1
  <2> QED
    BY <1>1, <2>1, LengthIsRead DEF k
<1>14. ASSUME NEW i \in Nat, NEW s \in Seq(Cell), i >= 5, i + Len(s) <= c.pos,
              Segment(c.buf, i, s)
       PROVE  Part(p, i - 3 + k, s)
  <2>1. Len(s) \in Nat
    OBVIOUS
  <2>2. (i - 3 + k) + Len(s) - 1 <= Len(p)
    BY <1>2, <1>9, <1>14, <2>1
  <2>3. ASSUME NEW j \in 1..Len(s) PROVE p[(i - 3 + k) + j - 1] = s[j]
    <3>1. /\ (i - 3 + k) + j - 1 \in 1..(c.pos - start)
          /\ start + ((i - 3 + k) + j - 1) - 1 = i + j - 1
      BY <1>2, <1>5, <1>8, <1>14, <2>1
    <3>2. i + j - 1 \in Nat /\ i + j - 1 <= MaxPacket + Beyond - 1 /\ ~(i + j - 1 < 5)
      BY <1>14, <2>1, Sizes
    <3>3. i + j - 1 \in Memory
      BY <3>2, Sizes DEF Memory
    <3>4. whole[i + j - 1] = c.buf[i + j - 1]
      BY <1>7, <3>2, <3>3
    <3> QED
      BY <1>10, <1>14, <3>1, <3>4 DEF Segment
  <2> QED
    BY <2>2, <2>3 DEF Part
<1> QED
  BY <1>2, <1>3, <1>7, <1>9, <1>12, <1>13, <1>14 DEF r, k

\* A string in a packet is read as it was written.
LEMMA StringIsRead ==
    ASSUME NEW p \in Seq(Cell), NEW i \in Nat, i >= 1, NEW name \in Names, NEW n \in Nat,
           Part(p, i, Prefixed(name, n))
    PROVE  /\ WordAt(p, i) = n /\ StringAt(p, i) = Chars(name, n) /\ Behind(p, i) = i + 2 + n
           /\ Behind(p, i) \in Nat
<1> DEFINE s == Prefixed(name, n)
           w == Word(n)
           v == Chars(name, n)
           t == SubSeq(p, i + 2, i + 1 + n)
<1>1. /\ s \in Seq(Cell) /\ Len(s) = n + 2 /\ s[1] = w[1] /\ s[2] = w[2]
      /\ \A j \in 1..n : s[j + 2] = v[j]
  BY PrefixedIs
<1>2. i + (n + 2) - 1 <= Len(p) /\ \A j \in 1..(n + 2) : p[i + j - 1] = s[j]
  BY <1>1 DEF Part
<1>3. v \in Seq(Cell) /\ Len(v) = n
  BY CharsIs
<1>4. w[1].val * ByteSpace + w[2].val = n
  BY WordIs
<1> HIDE DEF s, w, v
<1>5. p[i] = w[1] /\ p[i + 1] = w[2]
  <2>1. 1 \in 1..(n + 2) /\ 2 \in 1..(n + 2) /\ i + 1 - 1 = i /\ i + 2 - 1 = i + 1
    OBVIOUS
  <2> QED
    BY <1>1, <1>2, <2>1
<1>6. WordAt(p, i) = n
  BY <1>4, <1>5 DEF WordAt
<1>7. t \in Seq(Cell) /\ Len(t) = n /\ \A j \in 1..n : t[j] = p[(i + 2) + j - 1]
  <2>1. i + 2 \in Int /\ i + 1 + n \in Int /\ Len(p) \in Nat
    OBVIOUS
  <2>2. \A j \in (i + 2)..(i + 1 + n) : j \in 1..Len(p)
    BY <1>2, <2>1
  <2>3. \A j \in (i + 2)..(i + 1 + n) : p[j] \in Cell
    BY <2>2
  <2>4. /\ t \in Seq(Cell)
        /\ Len(t) = IF i + 2 <= i + 1 + n THEN (i + 1 + n) - (i + 2) + 1 ELSE 0
        /\ \A j \in 1..((i + 1 + n) - (i + 2) + 1) : t[j] = p[(i + 2) + j - 1]
    BY <2>1, <2>3, SubSeqProperties
  <2>5. (i + 1 + n) - (i + 2) + 1 = n /\ (i + 2 <= i + 1 + n <=> n > 0)
    OBVIOUS
  <2> HIDE DEF t
  <2> QED
    BY <2>4, <2>5
<1> HIDE DEF t
<1>8. \A j \in 1..n : t[j] = v[j]
  <2> TAKE j \in 1..n
  <2>1. j + 2 \in 1..(n + 2) /\ (i + 2) + j - 1 = i + (j + 2) - 1
    OBVIOUS
  <2> QED
    BY <1>1, <1>2, <1>7, <2>1
<1>9. t = v
  BY <1>3, <1>7, <1>8, SeqEqual
<1> QED
  BY <1>6, <1>9 DEF StringAt, Behind, t, v

LEMMA PartIsRead ==
    ASSUME NEW p \in Seq(Cell), NEW i \in Nat, i >= 1, NEW s \in Seq(Cell), Part(p, i, s)
    PROVE  SubSeq(p, i, i + Len(s) - 1) = s
<1> DEFINE n == Len(s)
           t == SubSeq(p, i, i + n - 1)
<1>1. n \in Nat /\ i + n - 1 <= Len(p) /\ \A j \in 1..n : p[i + j - 1] = s[j]
  BY DEF Part
<1> HIDE DEF n
<1>2. \A j \in i..(i + n - 1) : p[j] \in Cell
  <2> TAKE j \in i..(i + n - 1)
  <2>1. j \in 1..Len(p)
    BY <1>1
  <2> QED
    BY <2>1
<1>3. i \in Int /\ i + n - 1 \in Int /\ (i + n - 1) - i + 1 = n /\ (i <= i + n - 1 <=> n > 0)
  BY <1>1
<1>4. /\ t \in Seq(Cell)
      /\ Len(t) = IF i <= i + n - 1 THEN (i + n - 1) - i + 1 ELSE 0
      /\ \A j \in 1..((i + n - 1) - i + 1) : t[j] = p[i + j - 1]
  BY <1>2, <1>3, SubSeqProperties
<1> HIDE DEF t
<1>5. Len(t) = n /\ \A j \in 1..n : t[j] = s[j]
  BY <1>1, <1>3, <1>4
<1>6. t = s
  BY <1>4, <1>5, SeqEqual DEF n
<1> QED
  BY <1>6 DEF t, n

LEMMA WordIsRead ==
    ASSUME NEW p, NEW i \in Nat, NEW n \in Nat, Part(p, i, Word(n))
    PROVE  WordAt(p, i) = n
<1> DEFINE w == Word(n)
<1>1. Len(w) = 2 /\ w[1].val * ByteSpace + w[2].val = n
  BY WordIs
<1> HIDE DEF w
<1>2. \A j \in 1..2 : p[i + j - 1] = w[j]
  BY <1>1 DEF Part, w
<1>3. 1 \in 1..2 /\ 2 \in 1..2 /\ i + 1 - 1 = i /\ i + 2 - 1 = i + 1
  OBVIOUS
<1>4. p[i] = w[1] /\ p[i + 1] = w[2]
  BY <1>2, <1>3
<1> QED
  BY <1>1, <1>4 DEF WordAt

LEMMA IdSpaceIs == IdSpace = 4 * Base * Base
BY Sizes DEF IdSpace, ByteSpace

------------------------------------------------------------------------------
(* The calls *)

\* A packet is empty or as long as its remaining length says.
Long(p) == p /= <<>> => Len(p) = 1 + LengthLength(p) + Remaining(p)

LEMMA StartIs == ASSUME buffer \in Buffers PROVE Start.buf \in Buffers /\ Start.pos = 5
BY DEF Start

\* The header of a PUBLISH, and the QoS in it.
LEMMA PublishHeader ==
    ASSUME NEW p \in Publishes
    PROVE  LET h == 48 + 8 * p.dup + 2 * p.qos + p.retain
           IN  h \in Nat /\ Qos(h) = p.qos
<1>1. p.dup \in 0..1 /\ p.qos \in 0..2 /\ p.retain \in 0..1
  BY WriterAssumption
<1> QED
  BY <1>1 DEF Qos

PublishCursors(p, clear, topic, body, done) ==
    /\ clear = [buf |-> [i \in DOMAIN buffer |-> IF i < MaxPacket THEN Number(0) ELSE buffer[i]],
                pos |-> 5]
    /\ topic = WriteString(clear, "topic", p.topic)
    /\ body = PutIf(p.qos > 0, topic, Word(PublishId))
    /\ done = Put(body, Chars("payload", Room(body.pos, p.payload)))

\* What publish() leaves in the buffer in front of its write().
LEMMA PublishBuffer ==
    ASSUME buffer \in Buffers, nextMsgId \in 0..(IdSpace - 1), NEW p \in Publishes,
           NEW clear, NEW topic, NEW body, NEW done, PublishCursors(p, clear, topic, body, done)
    PROVE  /\ done.buf \in Buffers /\ done.pos \in Nat /\ done.pos >= 5
           /\ done.pos <= MaxPacket + Beyond
           /\ 5 + 2 + p.topic + (IF p.qos > 0 THEN 2 ELSE 0) <= MaxPacket => done.pos <= MaxPacket
           /\ 5 + PublishBody(p) <= MaxPacket =>
                /\ done.pos = 5 + PublishBody(p)
                /\ Segment(done.buf, 5, Prefixed("topic", p.topic))
                /\ p.qos > 0 => Segment(done.buf, 7 + p.topic, Word(PublishId))
                /\ Segment(done.buf, done.pos - p.payload, Chars("payload", p.payload))
<1> USE DEF PublishCursors
<1> DEFINE n == Room(body.pos, p.payload)
           w == Word(PublishId)
           v == Chars("payload", n)
           s == Prefixed("topic", p.topic)
           more == IF p.qos > 0 THEN 2 ELSE 0
<1>1. p.topic \in Nat /\ p.payload \in Nat /\ p.qos \in 0..2
  BY WriterAssumption
<1>2. clear.buf \in Buffers /\ clear.pos = 5
  BY NumberIs DEF Buffers
<1>3. "topic" \in Names /\ "payload" \in Names
  BY DEF Names
<1>4. /\ topic.buf \in Buffers /\ topic.pos \in Nat /\ topic.pos >= 7
      /\ topic.pos <= MaxPacket \/ topic.pos = 7
      /\ 7 + p.topic <= MaxPacket => topic.pos = 7 + p.topic /\ Segment(topic.buf, 5, s)
  <2>1. clear.pos \in Nat /\ clear.pos + 2 <= MaxPacket + Beyond
    BY <1>2, Sizes
  <2> QED
    BY <1>1, <1>2, <1>3, <2>1, WriteStringIs
<1>5. PublishId \in Nat
  BY Sizes DEF PublishId
<1>6. w \in Seq(Cell) /\ Len(w) = 2
  BY <1>5, WordIs
<1>7. s \in Seq(Cell) /\ Len(s) = p.topic + 2
  BY <1>1, <1>3, PrefixedIs
<1>8. more \in Nat /\ (p.qos > 0 => more = 2) /\ (~(p.qos > 0) => more = 0)
  OBVIOUS
<1> HIDE DEF s, w, more
<1>9. /\ body.buf \in Buffers /\ body.pos = topic.pos + more /\ body.pos \in Nat
      /\ p.qos > 0 => Segment(body.buf, topic.pos, w)
      /\ 7 + p.topic <= MaxPacket => Segment(body.buf, 5, s)
  <2>1. CASE p.qos > 0
    <3>1. body = Put(topic, w) /\ more = 2
      BY <1>8, <2>1 DEF PutIf, w
    <3>2. topic.pos + Len(w) <= MaxPacket + Beyond
      BY <1>4, <1>6, Sizes
    <3>3. /\ body.buf \in Buffers /\ body.pos = topic.pos + 2 /\ body.pos \in Nat
          /\ Segment(body.buf, topic.pos, w)
      BY <1>4, <1>6, <3>1, <3>2, PutIs
    <3>4. ASSUME 7 + p.topic <= MaxPacket PROVE Segment(body.buf, 5, s)
      <4>1. 5 + Len(s) <= topic.pos /\ Segment(topic.buf, 5, s)
        BY <1>1, <1>4, <1>7, <3>4
      <4> QED
        BY <1>4, <1>6, <1>7, <3>1, <3>2, <4>1, PutKeeps
    <3> QED
      BY <3>1, <3>3, <3>4
  <2>2. CASE ~(p.qos > 0)
    <3>1. body = topic /\ more = 0
      BY <1>8, <2>2 DEF PutIf
    <3> QED
      BY <1>4, <2>2, <3>1
  <2> QED
    BY <2>1, <2>2
<1>10. /\ n \in Nat /\ (body.pos + n <= MaxPacket \/ n = 0)
       /\ body.pos <= MaxPacket => body.pos + n <= MaxPacket
       /\ body.pos + p.payload <= MaxPacket => n = p.payload
  BY <1>1, <1>9, Sizes DEF Room
<1> HIDE DEF n
<1>11. v \in Seq(Cell) /\ Len(v) = n /\ done = Put(body, v)
  BY <1>3, <1>10, CharsIs DEF n
<1> HIDE DEF v
<1>12. body.pos + Len(v) <= MaxPacket + Beyond
  BY <1>4, <1>8, <1>9, <1>10, <1>11, Sizes
<1>13. done.buf \in Buffers /\ done.pos = body.pos + n /\ done.pos \in Nat /\ Segment(done.buf, body.pos, v)
  BY <1>9, <1>11, <1>12, PutIs
<1>14. done.pos >= 5 /\ done.pos <= MaxPacket + Beyond
  BY <1>4, <1>8, <1>9, <1>10, <1>11, <1>12, <1>13, Sizes
<1>15. ASSUME 5 + 2 + p.topic + more <= MaxPacket PROVE done.pos <= MaxPacket
  BY <1>1, <1>4, <1>8, <1>9, <1>10, <1>13, <1>15, Sizes
<1>16. ASSUME 5 + PublishBody(p) <= MaxPacket
       PROVE  /\ done.pos = 5 + PublishBody(p)
              /\ Segment(done.buf, 5, Prefixed("topic", p.topic))
              /\ p.qos > 0 => Segment(done.buf, 7 + p.topic, Word(PublishId))
              /\ Segment(done.buf, done.pos - p.payload, Chars("payload", p.payload))
  <2>1. PublishBody(p) = 2 + p.topic + more + p.payload
    BY DEF PublishBody, more
  <2>2. topic.pos = 7 + p.topic /\ 7 + p.topic <= MaxPacket /\ n = p.payload
    BY <1>1, <1>4, <1>8, <1>9, <1>10, <1>16, <2>1, Sizes
  <2>3. done.pos = 5 + PublishBody(p) /\ done.pos - p.payload = body.pos
    BY <1>1, <1>8, <1>9, <1>13, <2>1, <2>2
  <2>4. Segment(done.buf, done.pos - p.payload, Chars("payload", p.payload))
    BY <1>13, <2>2, <2>3 DEF v
  <2>5. Segment(done.buf, 5, s)
    <3>1. 5 + Len(s) <= body.pos /\ Segment(body.buf, 5, s)
      BY <1>1, <1>7, <1>8, <1>9, <2>2
    <3> QED
      BY <1>7, <1>9, <1>11, <1>12, <3>1, PutKeeps
  <2>6. ASSUME p.qos > 0 PROVE Segment(done.buf, 7 + p.topic, w)
    <3>1. topic.pos + Len(w) <= body.pos /\ Segment(body.buf, topic.pos, w)
      BY <1>4, <1>6, <1>8, <1>9, <2>6
    <3> QED
      BY <1>4, <1>6, <1>9, <1>11, <1>12, <2>2, <3>1, PutKeeps
  <2> QED
    BY <2>3, <2>4, <2>5, <2>6 DEF s, w
<1> QED
  BY <1>13, <1>14, <1>15, <1>16 DEF more

\* publish() hands over a packet that is read as it was published.
LEMMA PublishPacket ==
    ASSUME buffer \in Buffers, nextMsgId \in 0..(IdSpace - 1), NEW p \in Publishes, PublishCall(p)
    PROVE  /\ buffer' \in Buffers /\ Long(packet') /\ PublishIsRead'
           /\ 5 + 2 + p.topic + (IF p.qos > 0 THEN 2 ELSE 0) <= MaxPacket => top' <= MaxPacket
<1> DEFINE clear == [buf |-> [i \in DOMAIN buffer |-> IF i < MaxPacket THEN Number(0) ELSE buffer[i]],
                     pos |-> 5]
           topic == WriteString(clear, "topic", p.topic)
           body == PutIf(p.qos > 0, topic, Word(PublishId))
           done == Put(body, Chars("payload", Room(body.pos, p.payload)))
           h == 48 + 8 * p.dup + 2 * p.qos + p.retain
           k == DigitCount(done.pos - 5)
           q == packet'
           s == Prefixed("topic", p.topic)
           w == Word(PublishId)
           v == Chars("payload", p.payload)
           more == IF p.qos > 0 THEN 2 ELSE 0
<1>1. Write(h, done) /\ told' = Told(p) /\ call' = [kind |-> "publish", args |-> p]
  BY DEF PublishCall, Called
<1>2. PublishCursors(p, clear, topic, body, done)
  BY DEF PublishCursors
<1> HIDE DEF clear, topic, body, done
<1>3. /\ done.buf \in Buffers /\ done.pos \in Nat /\ done.pos >= 5
      /\ done.pos <= MaxPacket + Beyond
      /\ 5 + 2 + p.topic + (IF p.qos > 0 THEN 2 ELSE 0) <= MaxPacket => done.pos <= MaxPacket
      /\ 5 + PublishBody(p) <= MaxPacket =>
           /\ done.pos = 5 + PublishBody(p)
           /\ Segment(done.buf, 5, s)
           /\ p.qos > 0 => Segment(done.buf, 7 + p.topic, w)
           /\ Segment(done.buf, done.pos - p.payload, v)
  BY <1>2, PublishBuffer
<1>4. h \in Nat /\ Qos(h) = p.qos
  BY PublishHeader
<1> HIDE DEF h
<1>5. /\ buffer' \in Buffers /\ top' = done.pos
      /\ k \in 1..3 /\ LengthLength(q) = k /\ Remaining(q) = done.pos - 5
      /\ q \in Seq(Cell) /\ Len(q) = done.pos - 4 + k
      /\ q[1] = Number(h)
      /\ \A i \in Nat, t \in Seq(Cell) :
           i >= 5 /\ i + Len(t) <= done.pos /\ Segment(done.buf, i, t) => Part(q, i - 3 + k, t)
  BY <1>1, <1>3, <1>4, WriteIs
<1> HIDE DEF k, s, w, v
<1>6. Long(q)
  BY <1>3, <1>5 DEF Long
<1>7. ASSUME 5 + PublishBody(p) <= MaxPacket
      PROVE  /\ ReadPublish(q).topic = Chars("topic", p.topic)
             /\ ReadPublish(q).payload = v
             /\ ReadPublish(q).qos = p.qos
             /\ p.qos > 0 => ReadPublish(q).id = PublishId
  <2>1. p.topic \in Nat /\ p.payload \in Nat /\ p.qos \in 0..2 /\ PublishId \in Nat
    BY WriterAssumption, Sizes DEF PublishId
  <2>2. /\ s \in Seq(Cell) /\ Len(s) = p.topic + 2
        /\ w \in Seq(Cell) /\ Len(w) = 2 /\ v \in Seq(Cell) /\ Len(v) = p.payload
        /\ "topic" \in Names
    BY <2>1, PrefixedIs, WordIs, CharsIs DEF Names, s, w, v
  <2>3. more \in {0, 2} /\ (p.qos > 0 => more = 2) /\ (p.qos = 0 => more = 0)
    BY <2>1
  <2>4. PublishBody(p) = 2 + p.topic + more + p.payload
    BY DEF PublishBody
  <2> HIDE DEF more, q
  <2>5. done.pos = 7 + p.topic + more + p.payload
    BY <1>3, <1>7, <2>1, <2>3, <2>4
  <2>17. /\ k \in Nat /\ k >= 1 /\ done.pos \in Nat /\ Remaining(q) = done.pos - 5
         /\ more \in Nat /\ p.topic \in Nat /\ p.payload \in Nat
    BY <1>3, <1>5, <2>1, <2>3
  <2> DEFINE ls == Len(s)
             lw == Len(w)
             lv == Len(v)
  <2>18. ls = p.topic + 2 /\ lw = 2 /\ lv = p.payload
    BY <2>2
  <2> HIDE DEF ls, lw, lv
  <2>6. Part(q, 2 + k, s)
    <3>1. 5 + ls <= done.pos /\ 5 >= 5 /\ 5 \in Nat /\ 5 - 3 + k = 2 + k
      BY <2>5, <2>17, <2>18
    <3>2. Part(q, 5 - 3 + k, s)
      BY <1>3, <1>5, <1>7, <2>2, <3>1 DEF ls
    <3> QED
      BY <3>1, <3>2
  <2>7. ASSUME p.qos > 0 PROVE Part(q, 4 + k + p.topic, w)
    <3> DEFINE i == 7 + p.topic
    <3>1. i + lw <= done.pos /\ i >= 5 /\ i \in Nat /\ i - 3 + k = 4 + k + p.topic
      BY <2>3, <2>5, <2>7, <2>17, <2>18
    <3>2. Segment(done.buf, i, w)
      BY <1>3, <1>7, <2>7
    <3> HIDE DEF i
    <3>3. Part(q, i - 3 + k, w)
      BY <1>5, <2>2, <3>1, <3>2 DEF lw
    <3> QED
      BY <3>1, <3>3
  <2>8. Part(q, 4 + k + p.topic + more, v)
    <3> DEFINE i == done.pos - p.payload
    <3>1. i + lv <= done.pos /\ i >= 5 /\ i \in Nat /\ i - 3 + k = 4 + k + p.topic + more
      BY <2>5, <2>17, <2>18
    <3>2. Segment(done.buf, i, v)
      BY <1>3, <1>7
    <3> HIDE DEF i
    <3>3. Part(q, i - 3 + k, v)
      BY <1>5, <2>2, <3>1, <3>2 DEF lv
    <3> QED
      BY <3>1, <3>3
  <2> DEFINE tl == WordAt(q, k + 2)
             qos == Qos(q[1].val)
             from == k + 4 + tl + (IF qos \in {1, 2} THEN 2 ELSE 0)
  <2>9. tl = p.topic /\ StringAt(q, k + 2) = Chars("topic", p.topic)
    <3>1. 2 + k \in Nat /\ 2 + k >= 1 /\ k + 2 = 2 + k
      BY <1>5
    <3> QED
      BY <1>5, <2>1, <2>2, <2>6, <3>1, StringIsRead DEF s
  <2>10. qos = p.qos
    BY <1>4, <1>5, NumberIs
  <2> HIDE DEF qos, tl
  <2>11. from = 4 + k + p.topic + more
    <3>1. qos \in {1, 2} <=> p.qos > 0
      BY <2>1, <2>10
    <3>2. (IF qos \in {1, 2} THEN 2 ELSE 0) = more
      BY <3>1 DEF more
    <3> QED
      BY <1>5, <2>1, <2>3, <2>9, <3>2
  <2> HIDE DEF from
  <2>12. ReadPublish(q) = [topic |-> SubSeq(q, k + 4, k + 3 + tl), qos |-> qos,
                          id |-> IF qos \in {1, 2} THEN WordAt(q, k + 4 + tl) ELSE 0,
                          payload |-> SubSeq(q, from, 1 + k + Remaining(q))]
    BY <1>5 DEF ReadPublish, tl, qos, from
  <2>13. SubSeq(q, k + 4, k + 3 + tl) = Chars("topic", p.topic)
    <3>1. (k + 2) + 2 = k + 4 /\ (k + 2) + 1 + tl = k + 3 + tl
      BY <1>5, <2>1, <2>9
    <3>2. StringAt(q, k + 2) = SubSeq(q, (k + 2) + 2, (k + 2) + 1 + tl)
      BY DEF StringAt, tl
    <3> QED
      BY <2>9, <3>1, <3>2
  <2>14. p.qos > 0 => WordAt(q, k + 4 + tl) = PublishId
    <3>1. 4 + k + p.topic \in Nat /\ k + 4 + tl = 4 + k + p.topic
      BY <1>5, <2>1, <2>9
    <3> QED
      BY <2>1, <2>7, <3>1, WordIsRead DEF w
  <2>15. SubSeq(q, from, 1 + k + Remaining(q)) = v
    <3>1. from \in Nat /\ from >= 1 /\ 1 + k + Remaining(q) = from + lv - 1
      BY <2>5, <2>11, <2>17, <2>18
    <3>2. Part(q, from, v)
      BY <2>8, <2>11
    <3> QED
      BY <1>5, <2>2, <3>1, <3>2, PartIsRead DEF lv
  <2>16. p.qos > 0 => qos \in {1, 2}
    BY <2>1, <2>10
  <2> QED
    BY <2>10, <2>12, <2>13, <2>14, <2>15, <2>16
<1>8. PublishIsRead'
  <2>1. call'.kind = "publish" /\ call'.args = p
    BY <1>1
  <2>2. CallFits' <=> 5 + PublishBody(p) <= MaxPacket
    BY <2>1 DEF CallFits, Body
  <2>3. p.qos > 0 /\ p.asks => told' = PublishId
    BY <1>1 DEF Told
  <2> QED
    BY <1>7, <2>1, <2>2, <2>3 DEF PublishIsRead, v
<1> QED
  BY <1>3, <1>5, <1>6, <1>8

\* The front of a CONNECT: protocol name and level, flags, keep-alive.
ConnectFront(flags, keepalive) ==
    Word(4) \o Chars("MQTT", 4) \o <<Number(4), Number(flags)>> \o Word(keepalive)

LEMMA ConnectFrontIs ==
    ASSUME NEW flags \in Nat, NEW keepalive \in Nat
    PROVE  LET s == ConnectFront(flags, keepalive)
           IN  s \in Seq(Cell) /\ Len(s) = 10 /\ s[8] = Number(flags)
<1> DEFINE a == Word(4)
           b == Chars("MQTT", 4)
           d == <<Number(4), Number(flags)>>
           e == Word(keepalive)
<1>1. /\ a \in Seq(Cell) /\ Len(a) = 2 /\ b \in Seq(Cell) /\ Len(b) = 4
      /\ e \in Seq(Cell) /\ Len(e) = 2
  BY WordIs, CharsIs DEF Names
<1>2. d \in Seq(Cell) /\ Len(d) = 2 /\ d[2] = Number(flags)
  BY NumberIs
<1> HIDE DEF a, b, d, e
<1> DEFINE ab == a \o b
           abd == ab \o d
           all == abd \o e
<1>3. ab \in Seq(Cell) /\ Len(ab) = 6
  <2>1. ab \in Seq(Cell) /\ Len(ab) = Len(a) + Len(b)
    BY <1>1, ConcatProperties
  <2> QED
    BY <1>1, <2>1
<1> HIDE DEF ab
<1>4. abd \in Seq(Cell) /\ Len(abd) = 8 /\ abd[8] = d[2]
  <2>1. /\ abd \in Seq(Cell) /\ Len(abd) = Len(ab) + Len(d)
        /\ \A i \in 1..(Len(ab) + Len(d)) :
             abd[i] = IF i <= Len(ab) THEN ab[i] ELSE d[i - Len(ab)]
    BY <1>2, <1>3, ConcatProperties
  <2>2. Len(ab) + Len(d) = 8 /\ 8 \in 1..(Len(ab) + Len(d)) /\ ~(8 <= Len(ab)) /\ 8 - Len(ab) = 2
    BY <1>2, <1>3
  <2> QED
    BY <2>1, <2>2
<1> HIDE DEF abd
<1>5. all \in Seq(Cell) /\ Len(all) = 10 /\ all[8] = abd[8]
  <2>1. /\ all \in Seq(Cell) /\ Len(all) = Len(abd) + Len(e)
        /\ \A i \in 1..(Len(abd) + Len(e)) :
             all[i] = IF i <= Len(abd) THEN abd[i] ELSE e[i - Len(abd)]
    BY <1>1, <1>4, ConcatProperties
  <2>2. Len(abd) + Len(e) = 10 /\ 8 \in 1..(Len(abd) + Len(e)) /\ 8 <= Len(abd)
    BY <1>1, <1>4
  <2> QED
    BY <2>1, <2>2
<1> QED
  BY <1>2, <1>4, <1>5 DEF ConnectFront, a, b, d, e, ab, abd

LEMMA ConnectArgs ==
    ASSUME NEW c \in Connects
    PROVE  /\ c.id \in Nat /\ c.message \in Nat /\ c.keepalive \in Nat
           /\ (c.will >= 0) \in BOOLEAN /\ (c.will >= 0 => c.will \in Nat)
           /\ (c.user >= 0) \in BOOLEAN /\ (c.user >= 0 => c.user \in Nat)
           /\ WritesPass(c) \in BOOLEAN /\ (WritesPass(c) => c.pass \in Nat /\ c.user >= 0)
           /\ WritesPass(c) <=> c.user >= 0 /\ c.pass >= 0
           /\ c.clean \in BOOLEAN
<1>1. /\ c.id \in Nat /\ c.message \in Nat /\ c.will \in Nat \union {-1}
      /\ c.user \in Nat \union {-1} /\ c.pass \in Nat \union {-1} /\ c.clean \in BOOLEAN
      /\ c.keepalive \in 0..(4 * Base * Base - 1)
  BY WriterAssumption
<1>2. c.keepalive \in Nat
  BY <1>1
<1> QED
  BY <1>1, <1>2 DEF WritesPass

\* A broker finds each flag where connect() sets it.
LEMMA FlagsAre ==
    ASSUME NEW c \in Connects
    PROVE  LET f == ConnectFlags(c)
           IN  /\ f \in Nat
               /\ (f \div 4) % 2 = 1 <=> c.will >= 0
               /\ f \div 128 = 1 <=> c.user >= 0
               /\ (f \div 64) % 2 = 1 <=> WritesPass(c)
               /\ (f \div 2) % 2 = 1 <=> c.clean
<1> DEFINE x == IF c.will >= 0 THEN 4 + 8 * c.willQos + 32 * c.willRetain ELSE 0
           y == IF c.clean THEN 2 ELSE 0
           z == IF c.user >= 0 THEN 128 + (IF c.pass >= 0 THEN 64 ELSE 0) ELSE 0
<1>1. c.willQos \in 0..2 /\ c.willRetain \in 0..1 /\ c.clean \in BOOLEAN
  BY WriterAssumption
<1>2. /\ c.will >= 0 => x \in {4, 12, 20, 36, 44, 52}
      /\ ~(c.will >= 0) => x = 0
  BY <1>1
<1>3. (c.clean => y = 2) /\ (~c.clean => y = 0)
  OBVIOUS
<1>4. /\ c.user >= 0 /\ c.pass >= 0 => z = 192
      /\ c.user >= 0 /\ ~(c.pass >= 0) => z = 128
      /\ ~(c.user >= 0) => z = 0
  OBVIOUS
<1>5. ConnectFlags(c) = x + y + z
  BY DEF ConnectFlags
<1> HIDE DEF x, y, z
<1>6. x \in {0, 4, 12, 20, 36, 44, 52} /\ y \in {0, 2} /\ z \in {0, 128, 192}
  BY <1>2, <1>3, <1>4
<1> DEFINE f == x + y + z
<1>7. f \in Nat /\ ((f \div 4) % 2 = 1 <=> x /= 0)
  BY <1>6
<1>8. (f \div 128 = 1 <=> z /= 0) /\ ((f \div 64) % 2 = 1 <=> z = 192)
  BY <1>6
<1>9. (f \div 2) % 2 = 1 <=> y /= 0
  BY <1>6
<1>10. (x /= 0 <=> c.will >= 0) /\ (y /= 0 <=> c.clean) /\ (z /= 0 <=> c.user >= 0)
       /\ (z = 192 <=> c.user >= 0 /\ c.pass >= 0)
  BY <1>2, <1>3, <1>4
<1> HIDE DEF f
<1>11. ConnectFlags(c) = f
  BY <1>5 DEF f
<1> QED
  BY <1>7, <1>8, <1>9, <1>10, <1>11 DEF WritesPass

\* What lies in front of one cursor is there behind the other.
Keeps(c, d) ==
    /\ d.pos >= c.pos
    /\ \A i \in Nat, t \in Seq(Cell) :
         i + Len(t) <= c.pos /\ Segment(c.buf, i, t) => Segment(d.buf, i, t)

LEMMA KeepsTransitive ==
    ASSUME NEW b, NEW c, NEW d, b.pos \in Nat, c.pos \in Nat, d.pos \in Nat,
           Keeps(b, c), Keeps(c, d)
    PROVE  Keeps(b, d)
<1>1. d.pos >= b.pos
  BY DEF Keeps
<1>2. ASSUME NEW i \in Nat, NEW t \in Seq(Cell), i + Len(t) <= b.pos, Segment(b.buf, i, t)
      PROVE  Segment(d.buf, i, t)
  <2>1. Segment(c.buf, i, t)
    BY <1>2 DEF Keeps
  <2>2. i + Len(t) <= c.pos
    <3> DEFINE n == Len(t)
    <3>1. n \in Nat /\ i + n <= b.pos
      BY <1>2
    <3>2. c.pos >= b.pos
      BY DEF Keeps
    <3> HIDE DEF n
    <3>3. i + n <= c.pos
      BY <3>1, <3>2
    <3> QED
      BY <3>3 DEF n
  <2> QED
    BY <2>1, <2>2 DEF Keeps
<1> QED
  BY <1>1, <1>2 DEF Keeps

LEMMA KeepsSame == ASSUME NEW c, c.pos \in Nat PROVE Keeps(c, c)
BY DEF Keeps

\* A cursor that went over the buffer by m places at most.
Ready(c, m) == c.buf \in Buffers /\ c.pos \in Nat /\ c.pos <= MaxPacket + m

\* A string that may be left out.
LEMMA NextString ==
    ASSUME NEW c, NEW m \in 0..25, Ready(c, m), NEW name \in Names, NEW n, NEW d, NEW need,
           \/ n \in Nat /\ d = WriteString(c, name, n) /\ need = 2 + n
           \/ d = c /\ need = 0
    PROVE  /\ Ready(d, m + 2) /\ Keeps(c, d)
           /\ c.pos + need <= MaxPacket =>
                d.pos = c.pos + need /\ (need > 0 => Segment(d.buf, c.pos, Prefixed(name, n)))
<1> USE DEF Ready
<1>1. CASE n \in Nat /\ d = WriteString(c, name, n) /\ need = 2 + n
  <2>1. n \in Nat /\ c.buf \in Buffers /\ c.pos \in Nat /\ c.pos + 2 <= MaxPacket + Beyond
    BY <1>1, Sizes
  <2> DEFINE e == WriteString(c, name, n)
  <2>2. /\ e.buf \in Buffers /\ e.pos \in Nat /\ e.pos >= c.pos + 2
        /\ e.pos <= MaxPacket \/ e.pos = c.pos + 2
        /\ c.pos + 2 + n <= MaxPacket =>
             e.pos = c.pos + 2 + n /\ Segment(e.buf, c.pos, Prefixed(name, n))
        /\ \A i \in Nat, t \in Seq(Cell) :
             i + Len(t) <= c.pos /\ Segment(c.buf, i, t) => Segment(e.buf, i, t)
    BY <2>1, WriteStringIs
  <2>3. d = e
    BY <1>1
  <2> HIDE DEF e
  <2>4. Ready(e, m + 2) /\ e.pos >= c.pos
    BY <2>1, <2>2, Sizes
  <2>5. Keeps(c, e)
    BY <2>2, <2>4 DEF Keeps
  <2>6. c.pos + need = c.pos + 2 + n
    BY <1>1, <2>1
  <2> QED
    BY <2>2, <2>3, <2>4, <2>5, <2>6
<1>2. CASE d = c /\ need = 0
  <2>1. Ready(d, m + 2) /\ Keeps(c, d)
    BY <1>2, Sizes, KeepsSame
  <2>2. d.pos = c.pos + need /\ ~(need > 0)
    BY <1>2
  <2> QED
    BY <2>1, <2>2
<1> QED
  BY <1>1, <1>2

\* A string that ends where c stands is found in d.
LEMMA StringKept ==
    ASSUME NEW c, NEW d, Keeps(c, d), c.pos \in Nat, NEW i \in Nat, NEW name \in Names, NEW n \in Nat,
           i + (2 + n) = c.pos, Segment(c.buf, i, Prefixed(name, n))
    PROVE  Segment(d.buf, i, Prefixed(name, n))
<1> DEFINE s == Prefixed(name, n)
<1>1. s \in Seq(Cell) /\ Len(s) = n + 2
  BY PrefixedIs
<1> HIDE DEF s
<1>2. i + Len(s) <= c.pos
  <2>1. i + (n + 2) <= c.pos
    OBVIOUS
  <2> QED
    BY <1>1, <2>1
<1>3. Segment(d.buf, i, s)
  BY <1>1, <1>2 DEF Keeps, s
<1> QED
  BY <1>3 DEF s

ConnectCursors(c, head, id, will, message, user, done) ==
    /\ head = Put(Start, ConnectFront(ConnectFlags(c), c.keepalive))
    /\ id = WriteString(head, "id", c.id)
    /\ will = WriteStringIf(c.will >= 0, id, "will", c.will)
    /\ message = WriteStringIf(c.will >= 0, will, "message", c.message)
    /\ user = WriteStringIf(c.user >= 0, message, "user", c.user)
    /\ done = WriteStringIf(WritesPass(c), user, "pass", c.pass)

Optional(b, n) == IF b THEN 2 + n ELSE 0

LEMMA ConnectNeeds ==
    ASSUME NEW c \in Connects
    PROVE  LET w == Optional(c.will >= 0, c.will)
               m == Optional(c.will >= 0, c.message)
               u == Optional(c.user >= 0, c.user)
               p == Optional(WritesPass(c), c.pass)
           IN  /\ w \in Nat /\ m \in Nat /\ u \in Nat /\ p \in Nat
               /\ ConnectBody(c) = 12 + c.id + w + m + u + p
<1> DEFINE w == Optional(c.will >= 0, c.will)
           m == Optional(c.will >= 0, c.message)
           u == Optional(c.user >= 0, c.user)
           p == Optional(WritesPass(c), c.pass)
           wm == IF c.will >= 0 THEN StringNeed(c.will) + StringNeed(c.message) ELSE 0
           up == IF c.user >= 0 THEN StringNeed(c.user) + StringNeed(c.pass) ELSE 0
<1>1. w \in Nat /\ m \in Nat /\ wm = w + m
  <2>1. CASE c.will >= 0
    <3>1. c.will \in Nat /\ c.message \in Nat /\ c.message >= 0
      BY <2>1, ConnectArgs
    <3> QED
      BY <2>1, <3>1 DEF Optional, StringNeed
  <2>2. CASE ~(c.will >= 0)
    BY <2>2 DEF Optional
  <2> QED
    BY <2>1, <2>2
<1>2. u \in Nat /\ p \in Nat /\ up = u + p
  <2>1. CASE c.user >= 0 /\ c.pass >= 0
    <3>1. c.user \in Nat /\ c.pass \in Nat /\ WritesPass(c)
      BY <2>1, ConnectArgs
    <3> QED
      BY <2>1, <3>1 DEF Optional, StringNeed
  <2>2. CASE c.user >= 0 /\ ~(c.pass >= 0)
    <3>1. c.user \in Nat /\ ~WritesPass(c)
      BY <2>2, ConnectArgs
    <3> QED
      BY <2>2, <3>1 DEF Optional, StringNeed
  <2>3. CASE ~(c.user >= 0)
    <3>1. ~WritesPass(c)
      BY <2>3, ConnectArgs
    <3> QED
      BY <2>3, <3>1 DEF Optional
  <2> QED
    BY <2>1, <2>2, <2>3
<1>3. ConnectBody(c) = 12 + c.id + wm + up
  BY DEF ConnectBody
<1>4. c.id \in Nat
  BY ConnectArgs
<1> HIDE DEF w, m, u, p, wm, up
<1>5. ConnectBody(c) = 12 + c.id + w + m + u + p
  BY <1>1, <1>2, <1>3, <1>4
<1> QED
  BY <1>1, <1>2, <1>5 DEF w, m, u, p

\* What connect() leaves in the buffer in front of its write().
LEMMA ConnectBuffer ==
    ASSUME buffer \in Buffers, NEW c \in Connects,
           NEW head, NEW id, NEW will, NEW message, NEW user, NEW done,
           ConnectCursors(c, head, id, will, message, user, done)
    PROVE  LET w == Optional(c.will >= 0, c.will)
               m == Optional(c.will >= 0, c.message)
               u == Optional(c.user >= 0, c.user)
               p == Optional(WritesPass(c), c.pass)
           IN  /\ Ready(done, 25) /\ done.pos >= 15
               /\ 5 + ConnectBody(c) <= MaxPacket =>
                    /\ done.pos = 5 + ConnectBody(c)
                    /\ Segment(done.buf, 5, ConnectFront(ConnectFlags(c), c.keepalive))
                    /\ Segment(done.buf, 15, Prefixed("id", c.id))
                    /\ c.will >= 0 =>
                         /\ Segment(done.buf, 17 + c.id, Prefixed("will", c.will))
                         /\ Segment(done.buf, 17 + c.id + w, Prefixed("message", c.message))
                    /\ c.user >= 0 => Segment(done.buf, 17 + c.id + w + m, Prefixed("user", c.user))
                    /\ WritesPass(c) =>
                         Segment(done.buf, 17 + c.id + w + m + u, Prefixed("pass", c.pass))
<1> USE DEF ConnectCursors
<1> DEFINE w == Optional(c.will >= 0, c.will)
           m == Optional(c.will >= 0, c.message)
           u == Optional(c.user >= 0, c.user)
           p == Optional(WritesPass(c), c.pass)
           front == ConnectFront(ConnectFlags(c), c.keepalive)
<1>1. /\ c.id \in Nat /\ c.message \in Nat /\ c.keepalive \in Nat
      /\ (c.will >= 0) \in BOOLEAN /\ (c.will >= 0 => c.will \in Nat)
      /\ (c.user >= 0) \in BOOLEAN /\ (c.user >= 0 => c.user \in Nat)
      /\ WritesPass(c) \in BOOLEAN /\ (WritesPass(c) => c.pass \in Nat)
  BY ConnectArgs
<1>2. w \in Nat /\ m \in Nat /\ u \in Nat /\ p \in Nat
  BY ConnectNeeds
<1>3. ConnectBody(c) = 12 + c.id + w + m + u + p
  BY ConnectNeeds
<1>4. front \in Seq(Cell) /\ Len(front) = 10
  <2>1. ConnectFlags(c) \in Nat
    BY FlagsAre
  <2> QED
    BY <1>1, <2>1, ConnectFrontIs
<1> HIDE DEF front
<1>5. Ready(head, 15) /\ head.pos = 15 /\ Segment(head.buf, 5, front)
  <2>1. head = Put(Start, front) /\ Start.buf \in Buffers /\ Start.pos = 5
    BY StartIs DEF front
  <2>2. Start.pos \in Nat /\ Start.pos + Len(front) <= MaxPacket + Beyond
    BY <1>4, <2>1, Sizes
  <2>3. head.buf \in Buffers /\ head.pos = 5 + Len(front) /\ Segment(head.buf, 5, front)
    BY <1>4, <2>1, <2>2, PutIs
  <2> QED
    BY <1>4, <2>3, Sizes DEF Ready
<1>6. {"id", "will", "message", "user", "pass"} \subseteq Names
  BY DEF Names
<1>7. /\ Ready(id, 17) /\ Keeps(head, id)
      /\ head.pos + (2 + c.id) <= MaxPacket =>
           id.pos = head.pos + (2 + c.id) /\ Segment(id.buf, head.pos, Prefixed("id", c.id))
  <2>1. 15 \in 0..25 /\ 15 + 2 = 17 /\ "id" \in Names
    BY <1>6
  <2> DEFINE need == 2 + c.id
  <2>2. c.id \in Nat /\ id = WriteString(head, "id", c.id) /\ need = 2 + c.id /\ need > 0
    BY <1>1
  <2> HIDE DEF need, ConnectCursors
  <2>3. /\ Ready(id, 15 + 2) /\ Keeps(head, id)
        /\ head.pos + need <= MaxPacket =>
             /\ id.pos = head.pos + need
             /\ need > 0 => Segment(id.buf, head.pos, Prefixed("id", c.id))
    BY <1>5, <2>1, <2>2, NextString
  <2> QED
    BY <2>1, <2>2, <2>3
<1>8. /\ Ready(will, 19) /\ Keeps(id, will)
      /\ id.pos + w <= MaxPacket =>
           /\ will.pos = id.pos + w
           /\ c.will >= 0 => Segment(will.buf, id.pos, Prefixed("will", c.will))
  <2>1. 17 \in 0..25 /\ 17 + 2 = 19 /\ "will" \in Names
    BY <1>6
  <2>2. \/ c.will \in Nat /\ will = WriteString(id, "will", c.will) /\ w = 2 + c.will
        \/ will = id /\ w = 0
    <3>1. CASE c.will >= 0
      BY <1>1, <3>1 DEF Optional, WriteStringIf
    <3>2. CASE ~(c.will >= 0)
      BY <3>2 DEF Optional, WriteStringIf
    <3> QED
      BY <3>1, <3>2
  <2>3. c.will >= 0 => w > 0
    BY <1>1 DEF Optional
  <2> HIDE DEF w, ConnectCursors
  <2>4. /\ Ready(will, 17 + 2) /\ Keeps(id, will)
        /\ id.pos + w <= MaxPacket =>
             /\ will.pos = id.pos + w
             /\ w > 0 => Segment(will.buf, id.pos, Prefixed("will", c.will))
    BY <1>7, <2>1, <2>2, NextString
  <2> QED
    BY <2>1, <2>3, <2>4
<1>9. /\ Ready(message, 21) /\ Keeps(will, message)
      /\ will.pos + m <= MaxPacket =>
           /\ message.pos = will.pos + m
           /\ c.will >= 0 => Segment(message.buf, will.pos, Prefixed("message", c.message))
  <2>1. 19 \in 0..25 /\ 19 + 2 = 21 /\ "message" \in Names
    BY <1>6
  <2>2. \/ c.message \in Nat /\ message = WriteString(will, "message", c.message) /\ m = 2 + c.message
        \/ message = will /\ m = 0
    <3>1. CASE c.will >= 0
      BY <1>1, <3>1 DEF Optional, WriteStringIf
    <3>2. CASE ~(c.will >= 0)
      BY <3>2 DEF Optional, WriteStringIf
    <3> QED
      BY <3>1, <3>2
  <2>3. c.will >= 0 => m > 0
    BY <1>1 DEF Optional
  <2> HIDE DEF m, ConnectCursors
  <2>4. /\ Ready(message, 19 + 2) /\ Keeps(will, message)
        /\ will.pos + m <= MaxPacket =>
             /\ message.pos = will.pos + m
             /\ m > 0 => Segment(message.buf, will.pos, Prefixed("message", c.message))
    BY <1>8, <2>1, <2>2, NextString
  <2> QED
    BY <2>1, <2>3, <2>4
<1>10. /\ Ready(user, 23) /\ Keeps(message, user)
       /\ message.pos + u <= MaxPacket =>
            /\ user.pos = message.pos + u
            /\ c.user >= 0 => Segment(user.buf, message.pos, Prefixed("user", c.user))
  <2>1. 21 \in 0..25 /\ 21 + 2 = 23 /\ "user" \in Names
    BY <1>6
  <2>2. \/ c.user \in Nat /\ user = WriteString(message, "user", c.user) /\ u = 2 + c.user
        \/ user = message /\ u = 0
    <3>1. CASE c.user >= 0
      BY <1>1, <3>1 DEF Optional, WriteStringIf
    <3>2. CASE ~(c.user >= 0)
      BY <3>2 DEF Optional, WriteStringIf
    <3> QED
      BY <3>1, <3>2
  <2>3. c.user >= 0 => u > 0
    BY <1>1 DEF Optional
  <2> HIDE DEF u, ConnectCursors
  <2>4. /\ Ready(user, 21 + 2) /\ Keeps(message, user)
        /\ message.pos + u <= MaxPacket =>
             /\ user.pos = message.pos + u
             /\ u > 0 => Segment(user.buf, message.pos, Prefixed("user", c.user))
    BY <1>9, <2>1, <2>2, NextString
  <2> QED
    BY <2>1, <2>3, <2>4
<1>11. /\ Ready(done, 25) /\ Keeps(user, done)
       /\ user.pos + p <= MaxPacket =>
            /\ done.pos = user.pos + p
            /\ WritesPass(c) => Segment(done.buf, user.pos, Prefixed("pass", c.pass))
  <2>1. 23 \in 0..25 /\ 23 + 2 = 25 /\ "pass" \in Names
    BY <1>6
  <2>2. \/ c.pass \in Nat /\ done = WriteString(user, "pass", c.pass) /\ p = 2 + c.pass
        \/ done = user /\ p = 0
    <3>1. CASE WritesPass(c)
      BY <1>1, <3>1 DEF Optional, WriteStringIf
    <3>2. CASE ~(WritesPass(c))
      BY <3>2 DEF Optional, WriteStringIf
    <3> QED
      BY <3>1, <3>2
  <2>3. WritesPass(c) => p > 0
    BY <1>1 DEF Optional
  <2> HIDE DEF p, ConnectCursors
  <2>4. /\ Ready(done, 23 + 2) /\ Keeps(user, done)
        /\ user.pos + p <= MaxPacket =>
             /\ done.pos = user.pos + p
             /\ p > 0 => Segment(done.buf, user.pos, Prefixed("pass", c.pass))
    BY <1>10, <2>1, <2>2, NextString
  <2> QED
    BY <2>1, <2>3, <2>4
<1>12. /\ head.pos \in Nat /\ id.pos \in Nat /\ will.pos \in Nat /\ message.pos \in Nat
       /\ user.pos \in Nat /\ done.pos \in Nat
  BY <1>5, <1>7, <1>8, <1>9, <1>10, <1>11 DEF Ready
<1>13. /\ Keeps(user, done) /\ Keeps(message, done) /\ Keeps(will, done)
       /\ Keeps(id, done) /\ Keeps(head, done)
  <2>1. Keeps(message, done)
    BY <1>10, <1>11, <1>12, KeepsTransitive
  <2>2. Keeps(will, done)
    BY <1>9, <1>12, <2>1, KeepsTransitive
  <2>3. Keeps(id, done)
    BY <1>8, <1>12, <2>2, KeepsTransitive
  <2>4. Keeps(head, done)
    BY <1>7, <1>12, <2>3, KeepsTransitive
  <2> QED
    BY <1>11, <2>1, <2>2, <2>3, <2>4
<1>14. done.pos >= 15
  <2>1. done.pos >= head.pos
    BY <1>13 DEF Keeps
  <2> QED
    BY <1>5, <2>1
<1> HIDE DEF w, m, u, p, ConnectCursors
<1>15. ASSUME 5 + ConnectBody(c) <= MaxPacket
       PROVE  /\ done.pos = 5 + ConnectBody(c)
              /\ Segment(done.buf, 5, front)
              /\ Segment(done.buf, 15, Prefixed("id", c.id))
              /\ c.will >= 0 =>
                   /\ Segment(done.buf, 17 + c.id, Prefixed("will", c.will))
                   /\ Segment(done.buf, 17 + c.id + w, Prefixed("message", c.message))
              /\ c.user >= 0 => Segment(done.buf, 17 + c.id + w + m, Prefixed("user", c.user))
              /\ WritesPass(c) =>
                   Segment(done.buf, 17 + c.id + w + m + u, Prefixed("pass", c.pass))
  <2>1. 17 + c.id + w + m + u + p <= MaxPacket /\ MaxPacket \in Nat /\ c.id \in Nat
    BY <1>1, <1>2, <1>3, <1>15, Sizes
  <2>2. id.pos = 17 + c.id /\ Segment(id.buf, 15, Prefixed("id", c.id))
    <3>1. 15 + (2 + c.id) <= MaxPacket /\ 15 + (2 + c.id) = 17 + c.id
      BY <1>2, <2>1
    <3> QED
      BY <1>5, <1>7, <3>1
  <2>3. /\ will.pos = 17 + c.id + w
        /\ c.will >= 0 => Segment(will.buf, 17 + c.id, Prefixed("will", c.will))
    <3>1. 17 + c.id + w <= MaxPacket
      BY <1>2, <2>1
    <3> QED
      BY <1>8, <2>2, <3>1
  <2>4. /\ message.pos = 17 + c.id + w + m
        /\ c.will >= 0 => Segment(message.buf, 17 + c.id + w, Prefixed("message", c.message))
    <3>1. 17 + c.id + w + m <= MaxPacket
      BY <1>2, <2>1
    <3> QED
      BY <1>9, <2>3, <3>1
  <2>5. /\ user.pos = 17 + c.id + w + m + u
        /\ c.user >= 0 => Segment(user.buf, 17 + c.id + w + m, Prefixed("user", c.user))
    <3>1. 17 + c.id + w + m + u <= MaxPacket
      BY <1>2, <2>1
    <3> QED
      BY <1>10, <2>4, <3>1
  <2>6. /\ done.pos = 17 + c.id + w + m + u + p
        /\ WritesPass(c) =>
             Segment(done.buf, 17 + c.id + w + m + u, Prefixed("pass", c.pass))
    BY <1>11, <2>1, <2>5
  <2>7. Segment(done.buf, 5, front)
    <3>1. 5 + Len(front) <= head.pos
      BY <1>4, <1>5
    <3> QED
      BY <1>4, <1>5, <1>13, <3>1 DEF Keeps
  <2>8. Segment(done.buf, 15, Prefixed("id", c.id))
    <3>1. 15 + (2 + c.id) = id.pos /\ 15 \in Nat /\ "id" \in Names
      BY <1>6, <2>1, <2>2
    <3> QED
      BY <1>12, <1>13, <2>1, <2>2, <3>1, StringKept
  <2>9. ASSUME c.will >= 0
        PROVE  /\ Segment(done.buf, 17 + c.id, Prefixed("will", c.will))
               /\ Segment(done.buf, 17 + c.id + w, Prefixed("message", c.message))
    <3>1. c.will \in Nat /\ w = 2 + c.will /\ m = 2 + c.message /\ c.message \in Nat
      BY <1>1, <2>9 DEF Optional, w, m
    <3>2. 17 + c.id \in Nat /\ 17 + c.id + w \in Nat /\ "will" \in Names /\ "message" \in Names
      BY <1>2, <1>6, <2>1
    <3>3. Segment(done.buf, 17 + c.id, Prefixed("will", c.will))
      BY <1>12, <1>13, <2>3, <2>9, <3>1, <3>2, StringKept
    <3>4. Segment(done.buf, 17 + c.id + w, Prefixed("message", c.message))
      BY <1>12, <1>13, <2>4, <2>9, <3>1, <3>2, StringKept
    <3> QED
      BY <3>3, <3>4
  <2>10. ASSUME c.user >= 0
         PROVE  Segment(done.buf, 17 + c.id + w + m, Prefixed("user", c.user))
    <3>1. c.user \in Nat /\ u = 2 + c.user
      BY <1>1, <2>10 DEF Optional, u
    <3>2. 17 + c.id + w + m \in Nat /\ "user" \in Names
      BY <1>2, <1>6, <2>1
    <3> QED
      BY <1>12, <1>13, <2>5, <2>10, <3>1, <3>2, StringKept
  <2>11. done.pos = 5 + ConnectBody(c)
    BY <1>2, <1>3, <2>1, <2>6
  <2> QED
    BY <2>6, <2>7, <2>8, <2>9, <2>10, <2>11
<1> QED
  BY <1>11, <1>14, <1>15 DEF w, m, u, p, front

\* connect() hands over a packet that a broker reads as connect() was called.
LEMMA ConnectPacket ==
    ASSUME buffer \in Buffers, NEW c \in Connects, ConnectCall(c)
    PROVE  /\ buffer' \in Buffers /\ Long(packet') /\ ConnectIsRead'
           /\ 5 + ConnectBody(c) <= MaxPacket => top' <= MaxPacket
<1> DEFINE head == Put(Start, ConnectFront(ConnectFlags(c), c.keepalive))
           id == WriteString(head, "id", c.id)
           will == WriteStringIf(c.will >= 0, id, "will", c.will)
           message == WriteStringIf(c.will >= 0, will, "message", c.message)
           user == WriteStringIf(c.user >= 0, message, "user", c.user)
           done == WriteStringIf(WritesPass(c), user, "pass", c.pass)
           front == ConnectFront(ConnectFlags(c), c.keepalive)
           w == Optional(c.will >= 0, c.will)
           m == Optional(c.will >= 0, c.message)
           u == Optional(c.user >= 0, c.user)
           z == Optional(WritesPass(c), c.pass)
           k == DigitCount(done.pos - 5)
           q == packet'
<1>1. Write(16, done) /\ call' = [kind |-> "connect", args |-> c]
  BY DEF ConnectCall, Called, ConnectFront
<1>2. ConnectCursors(c, head, id, will, message, user, done)
  BY DEF ConnectCursors
<1> HIDE DEF head, id, will, message, user, done
<1>3. /\ Ready(done, 25) /\ done.pos >= 15
      /\ 5 + ConnectBody(c) <= MaxPacket =>
           /\ done.pos = 5 + ConnectBody(c)
           /\ Segment(done.buf, 5, front)
           /\ Segment(done.buf, 15, Prefixed("id", c.id))
           /\ c.will >= 0 =>
                /\ Segment(done.buf, 17 + c.id, Prefixed("will", c.will))
                /\ Segment(done.buf, 17 + c.id + w, Prefixed("message", c.message))
           /\ c.user >= 0 => Segment(done.buf, 17 + c.id + w + m, Prefixed("user", c.user))
           /\ WritesPass(c) => Segment(done.buf, 17 + c.id + w + m + u, Prefixed("pass", c.pass))
  BY <1>2, ConnectBuffer
<1>4. done.buf \in Buffers /\ done.pos \in Nat /\ done.pos >= 5 /\ done.pos <= MaxPacket + Beyond
  BY <1>3, Sizes DEF Ready
<1>5. /\ buffer' \in Buffers /\ top' = done.pos
      /\ k \in 1..3 /\ LengthLength(q) = k /\ Remaining(q) = done.pos - 5
      /\ q \in Seq(Cell) /\ Len(q) = done.pos - 4 + k
      /\ \A i \in Nat, t \in Seq(Cell) :
           i >= 5 /\ i + Len(t) <= done.pos /\ Segment(done.buf, i, t) => Part(q, i - 3 + k, t)
  BY <1>1, <1>4, WriteIs
<1>6. Long(q)
  BY <1>4, <1>5 DEF Long
<1>7. /\ c.id \in Nat /\ c.message \in Nat /\ c.keepalive \in Nat
      /\ (c.will >= 0 => c.will \in Nat) /\ (c.user >= 0 => c.user \in Nat)
      /\ (WritesPass(c) => c.pass \in Nat /\ c.user >= 0) /\ c.clean \in BOOLEAN
  BY ConnectArgs
<1>8. w \in Nat /\ m \in Nat /\ u \in Nat /\ z \in Nat /\ ConnectBody(c) = 12 + c.id + w + m + u + z
  BY ConnectNeeds
<1>9. /\ front \in Seq(Cell) /\ Len(front) = 10 /\ front[8] = Number(ConnectFlags(c))
      /\ ConnectFlags(c) \in Nat
  BY <1>7, ConnectFrontIs, FlagsAre
<1> HIDE DEF k, front
<1>10. ASSUME 5 + ConnectBody(c) <= MaxPacket
       PROVE  LET read == ReadConnect(q)
              IN  /\ read.clean = c.clean
                  /\ read.id = Chars("id", c.id)
                  /\ read.will = IF c.will >= 0
                                 THEN <<Chars("will", c.will), Chars("message", c.message)>> ELSE <<>>
                  /\ read.user = IF c.user >= 0 THEN <<Chars("user", c.user)>> ELSE <<>>
                  /\ read.pass = IF WritesPass(c) THEN <<Chars("pass", c.pass)>> ELSE <<>>
                  /\ read.end = Len(q) + 1
  <2> HIDE DEF q
  <2>1. k \in Nat /\ k >= 1 /\ done.pos \in Nat
    BY <1>4, <1>5
  <2>2. done.pos = 17 + c.id + w + m + u + z
    BY <1>3, <1>7, <1>8, <1>10
  <2>3. /\ c.will >= 0 => w = 2 + c.will /\ m = 2 + c.message
        /\ ~(c.will >= 0) => w = 0 /\ m = 0
        /\ c.user >= 0 => u = 2 + c.user
        /\ ~(c.user >= 0) => u = 0
        /\ WritesPass(c) => z = 2 + c.pass
        /\ ~WritesPass(c) => z = 0
    BY DEF Optional
  <2> HIDE DEF w, m, u, z
  <2>4. ASSUME NEW i \in Nat, i >= 5, NEW name \in Names, NEW n \in Nat, i + (2 + n) <= done.pos,
               Segment(done.buf, i, Prefixed(name, n))
        PROVE  StringAt(q, i - 3 + k) = Chars(name, n) /\ Behind(q, i - 3 + k) = (i + (2 + n)) - 3 + k
    <3> DEFINE s == Prefixed(name, n)
               j == i - 3 + k
    <3>1. s \in Seq(Cell) /\ Len(s) = n + 2
      BY PrefixedIs
    <3> HIDE DEF s
    <3>2. i + Len(s) <= done.pos
      <4>1. i + (n + 2) <= done.pos
        BY <2>1, <2>4
      <4> QED
        BY <3>1, <4>1
    <3>3. Part(q, j, s)
      BY <1>5, <2>4, <3>1, <3>2 DEF s
    <3>4. j \in Nat /\ j >= 1 /\ j + 2 + n = (i + (2 + n)) - 3 + k
      BY <2>1, <2>4
    <3> HIDE DEF j
    <3>5. StringAt(q, j) = Chars(name, n) /\ Behind(q, j) = j + 2 + n
      BY <1>5, <3>3, <3>4, StringIsRead DEF s
    <3> QED
      BY <3>4, <3>5 DEF j
  <2> DEFINE flags == q[k + 9].val
             hasWill == (flags \div 4) % 2 = 1
             hasUser == flags \div 128 = 1
             hasPass == (flags \div 64) % 2 = 1
             at1 == k + 12
             at2 == Behind(q, at1)
             at3 == Behind(q, at2)
             at4 == IF hasWill THEN Behind(q, at3) ELSE at2
             at5 == IF hasUser THEN Behind(q, at4) ELSE at4
             end == IF hasPass THEN Behind(q, at5) ELSE at5
  <2>5. ReadConnect(q) =
          [clean |-> (flags \div 2) % 2 = 1,
           id |-> StringAt(q, at1),
           will |-> IF hasWill THEN <<StringAt(q, at2), StringAt(q, at3)>> ELSE <<>>,
           user |-> IF hasUser THEN <<StringAt(q, at4)>> ELSE <<>>,
           pass |-> IF hasPass THEN <<StringAt(q, at5)>> ELSE <<>>,
           end |-> end]
    BY <1>5 DEF ReadConnect
  <2>6. flags = ConnectFlags(c)
    <3>1. 5 + Len(front) <= done.pos /\ 5 >= 5 /\ 5 \in Nat
      <4>1. 5 + 10 <= done.pos
        BY <1>3, <2>1
      <4> QED
        BY <1>9, <4>1
    <3>2. Part(q, 5 - 3 + k, front)
      BY <1>3, <1>5, <1>9, <1>10, <3>1
    <3>3. 8 \in 1..10 /\ (5 - 3 + k) + 8 - 1 = k + 9
      BY <2>1
    <3>4. q[k + 9] = front[8]
      BY <1>9, <3>2, <3>3 DEF Part
    <3> QED
      BY <1>9, <3>4, NumberIs
  <2>7. /\ hasWill <=> c.will >= 0
        /\ hasUser <=> c.user >= 0
        /\ hasPass <=> WritesPass(c)
        /\ (flags \div 2) % 2 = 1 <=> c.clean
    BY <2>6, FlagsAre
  <2> HIDE DEF flags, hasWill, hasUser, hasPass
  <2>8. {"id", "will", "message", "user", "pass"} \subseteq Names
    BY DEF Names
  <2>9. StringAt(q, at1) = Chars("id", c.id) /\ at2 = (17 + c.id) - 3 + k
    <3>1. /\ 15 \in Nat /\ 15 >= 5 /\ "id" \in Names /\ 15 + (2 + c.id) <= done.pos
          /\ 15 - 3 + k = k + 12 /\ 15 + (2 + c.id) = 17 + c.id
      BY <1>7, <1>8, <2>1, <2>2, <2>8
    <3>2. StringAt(q, 15 - 3 + k) = Chars("id", c.id) /\ Behind(q, 15 - 3 + k) = (15 + (2 + c.id)) - 3 + k
      BY <1>3, <1>7, <1>10, <2>4, <3>1
    <3> QED
      BY <3>1, <3>2
  <2> HIDE DEF at1, at2
  <2>10. /\ at4 = (17 + c.id + w + m) - 3 + k
         /\ c.will >= 0 =>
              StringAt(q, at2) = Chars("will", c.will) /\ StringAt(q, at3) = Chars("message", c.message)
    <3>1. CASE c.will >= 0
      <4> DEFINE i == 17 + c.id
                 j == 17 + c.id + w
      <4>1. w = 2 + c.will /\ m = 2 + c.message /\ c.will \in Nat
        BY <1>7, <2>3, <3>1
      <4>2. /\ i \in Nat /\ i >= 5 /\ i + (2 + c.will) = j /\ j + (2 + c.message) = 17 + c.id + w + m
            /\ j \in Nat /\ j >= 5 /\ i + (2 + c.will) <= done.pos /\ j + (2 + c.message) <= done.pos
        BY <1>7, <1>8, <2>2, <4>1
      <4>3. Segment(done.buf, i, Prefixed("will", c.will)) /\ Segment(done.buf, j, Prefixed("message", c.message))
        BY <1>3, <1>10, <3>1
      <4> HIDE DEF i, j
      <4>4. StringAt(q, i - 3 + k) = Chars("will", c.will) /\ Behind(q, i - 3 + k) = (i + (2 + c.will)) - 3 + k
        BY <2>4, <2>8, <4>1, <4>2, <4>3
      <4>5. StringAt(q, j - 3 + k) = Chars("message", c.message) /\ Behind(q, j - 3 + k) = (j + (2 + c.message)) - 3 + k
        BY <1>7, <2>4, <2>8, <4>2, <4>3
      <4>6. at2 = i - 3 + k
        BY <2>9 DEF i
      <4>7. at3 = j - 3 + k
        BY <4>2, <4>4, <4>6
      <4>8. at4 = Behind(q, at3)
        BY <2>7, <3>1
      <4> HIDE DEF at3, at4
      <4> QED
        BY <4>2, <4>4, <4>5, <4>6, <4>7, <4>8
    <3>2. CASE ~(c.will >= 0)
      <4>1. w = 0 /\ m = 0 /\ at4 = at2
        BY <2>3, <2>7, <3>2
      <4>2. 17 + c.id + w + m = 17 + c.id
        BY <1>7, <4>1
      <4> HIDE DEF at4
      <4> QED
        BY <2>9, <3>2, <4>1, <4>2
    <3> QED
      BY <3>1, <3>2
  <2> HIDE DEF at3, at4
  <2>11. /\ at5 = (17 + c.id + w + m + u) - 3 + k
         /\ c.user >= 0 => StringAt(q, at4) = Chars("user", c.user)
    <3>1. CASE c.user >= 0
      <4> DEFINE i == 17 + c.id + w + m
      <4>1. u = 2 + c.user /\ c.user \in Nat
        BY <1>7, <2>3, <3>1
      <4>2. i \in Nat /\ i >= 5 /\ i + (2 + c.user) = 17 + c.id + w + m + u /\ i + (2 + c.user) <= done.pos
        BY <1>7, <1>8, <2>2, <4>1
      <4>3. Segment(done.buf, i, Prefixed("user", c.user))
        BY <1>3, <1>10, <3>1
      <4>4. at4 = i - 3 + k
        BY <2>10
      <4> HIDE DEF i
      <4>5. StringAt(q, i - 3 + k) = Chars("user", c.user) /\ Behind(q, i - 3 + k) = (i + (2 + c.user)) - 3 + k
        BY <2>4, <2>8, <4>1, <4>2, <4>3
      <4>6. at5 = Behind(q, at4)
        BY <2>7, <3>1
      <4> HIDE DEF at5
      <4> QED
        BY <4>2, <4>4, <4>5, <4>6
    <3>2. CASE ~(c.user >= 0)
      <4>1. u = 0 /\ at5 = at4
        BY <2>3, <2>7, <3>2
      <4>2. 17 + c.id + w + m + u = 17 + c.id + w + m
        BY <1>7, <1>8, <4>1
      <4> HIDE DEF at5
      <4> QED
        BY <2>10, <3>2, <4>1, <4>2
    <3> QED
      BY <3>1, <3>2
  <2> HIDE DEF at5
  <2>12. /\ end = done.pos - 3 + k
         /\ WritesPass(c) => StringAt(q, at5) = Chars("pass", c.pass)
    <3>1. CASE WritesPass(c)
      <4> DEFINE i == 17 + c.id + w + m + u
      <4>1. z = 2 + c.pass /\ c.pass \in Nat
        BY <1>7, <2>3, <3>1
      <4>2. i \in Nat /\ i >= 5 /\ i + (2 + c.pass) = done.pos /\ i + (2 + c.pass) <= done.pos
        BY <1>7, <1>8, <2>2, <4>1
      <4>3. Segment(done.buf, i, Prefixed("pass", c.pass))
        BY <1>3, <1>10, <3>1
      <4>4. at5 = i - 3 + k
        BY <2>11
      <4> HIDE DEF i
      <4>5. StringAt(q, i - 3 + k) = Chars("pass", c.pass) /\ Behind(q, i - 3 + k) = (i + (2 + c.pass)) - 3 + k
        BY <2>4, <2>8, <4>1, <4>2, <4>3
      <4>6. end = Behind(q, at5)
        BY <2>7, <3>1
      <4> HIDE DEF end
      <4> QED
        BY <4>2, <4>4, <4>5, <4>6
    <3>2. CASE ~WritesPass(c)
      <4>1. z = 0 /\ end = at5
        BY <2>3, <2>7, <3>2
      <4>2. done.pos = 17 + c.id + w + m + u
        BY <1>7, <1>8, <2>2, <4>1
      <4> HIDE DEF end
      <4> QED
        BY <2>11, <3>2, <4>1, <4>2
    <3> QED
      BY <3>1, <3>2
  <2>13. end = Len(q) + 1
    <3>1. done.pos - 3 + k = (done.pos - 4 + k) + 1
      BY <2>1
    <3> QED
      BY <1>5, <2>12, <3>1
  <2> HIDE DEF end
  <2>14. ((flags \div 2) % 2 = 1) = c.clean
    BY <1>7, <2>7
  <2> QED
    BY <2>5, <2>7, <2>9, <2>10, <2>11, <2>12, <2>13, <2>14
<1>11. ConnectIsRead'
  <2>1. call'.kind = "connect" /\ call'.args = c
    BY <1>1
  <2>2. CallFits' <=> 5 + ConnectBody(c) <= MaxPacket
    BY <2>1 DEF CallFits, Body
  <2>3. WritesPass(c) <=> c.user >= 0 /\ c.pass >= 0
    BY DEF WritesPass
  <2> HIDE DEF q
  <2>4. CallFits' => LET read == ReadConnect(q)
              IN  /\ read.clean = c.clean
                  /\ read.id = Chars("id", c.id)
                  /\ read.will = IF c.will >= 0
                                 THEN <<Chars("will", c.will), Chars("message", c.message)>> ELSE <<>>
                  /\ read.user = IF c.user >= 0 THEN <<Chars("user", c.user)>> ELSE <<>>
                  /\ read.pass = IF c.user >= 0 /\ c.pass >= 0 THEN <<Chars("pass", c.pass)>> ELSE <<>>
                  /\ read.end = Len(q) + 1
    BY <1>10, <2>2, <2>3
  <2> QED
    BY <2>1, <2>4 DEF ConnectIsRead, q
<1>12. 5 + ConnectBody(c) <= MaxPacket => top' <= MaxPacket
  BY <1>3, <1>5
<1> QED
  BY <1>5, <1>6, <1>11, <1>12

LEMMA FilterIdIs ==
    ASSUME nextMsgId \in 0..(IdSpace - 1)
    PROVE  FilterId \in 1..(IdSpace - 1)
<1> DEFINE n == (nextMsgId + 1) % IdSpace
<1>1. IdSpace \in Nat /\ IdSpace > 16
  BY Sizes
<1>2. n \in 0..(IdSpace - 1)
  BY <1>1
<1>3. FilterId = IF n = 0 THEN 1 ELSE n
  BY DEF FilterId
<1> HIDE DEF n
<1> QED
  BY <1>1, <1>2, <1>3

\* What subscribe() and unsubscribe() write up to the topic filter's end.
LEMMA FilterBuffer ==
    ASSUME buffer \in Buffers, nextMsgId \in 0..(IdSpace - 1), NEW t \in Nat, NEW filter,
           filter = WriteString(Put(Start, Word(FilterId)), "topic", t)
    PROVE  /\ filter.buf \in Buffers /\ filter.pos \in Nat /\ filter.pos >= 9
           /\ filter.pos <= MaxPacket \/ filter.pos = 9
           /\ 9 + t <= MaxPacket =>
                /\ filter.pos = 9 + t
                /\ Segment(filter.buf, 5, Word(FilterId))
                /\ Segment(filter.buf, 7, Prefixed("topic", t))
<1> DEFINE w == Word(FilterId)
           head == Put(Start, w)
<1>1. w \in Seq(Cell) /\ Len(w) = 2
  <2>1. FilterId \in Nat
    BY FilterIdIs
  <2> QED
    BY <2>1, WordIs
<1> HIDE DEF w
<1>2. head.buf \in Buffers /\ head.pos = 7 /\ Segment(head.buf, 5, w)
  <2>1. /\ Start.buf \in Buffers /\ Start.pos = 5 /\ Start.pos \in Nat
        /\ Start.pos + Len(w) <= MaxPacket + Beyond
    BY <1>1, StartIs, Sizes
  <2>2. head.buf \in Buffers /\ head.pos = 5 + Len(w) /\ Segment(head.buf, 5, w)
    BY <1>1, <2>1, PutIs
  <2> QED
    BY <1>1, <2>2
<1> HIDE DEF head
<1> DEFINE e == WriteString(head, "topic", t)
<1>3. filter = e
  BY DEF head, w
<1>4. "topic" \in Names /\ head.pos \in Nat /\ head.pos + 2 <= MaxPacket + Beyond
  BY <1>2, Sizes DEF Names
<1>5. /\ e.buf \in Buffers /\ e.pos \in Nat /\ e.pos >= head.pos + 2
      /\ e.pos <= MaxPacket \/ e.pos = head.pos + 2
      /\ head.pos + 2 + t <= MaxPacket =>
           e.pos = head.pos + 2 + t /\ Segment(e.buf, head.pos, Prefixed("topic", t))
      /\ \A i \in Nat, s \in Seq(Cell) :
           i + Len(s) <= head.pos /\ Segment(head.buf, i, s) => Segment(e.buf, i, s)
  BY <1>2, <1>4, WriteStringIs
<1> HIDE DEF e
<1>6. Segment(e.buf, 5, w)
  <2>1. 5 + Len(w) <= head.pos /\ 5 \in Nat
    BY <1>1, <1>2
  <2> QED
    BY <1>1, <1>2, <1>5, <2>1
<1>7. head.pos + 2 = 9 /\ head.pos + 2 + t = 9 + t
  BY <1>2
<1> QED
  BY <1>2, <1>3, <1>5, <1>6, <1>7 DEF w

LEMMA FilterParts ==
    ASSUME NEW q \in Seq(Cell), NEW k \in 1..3, NEW n \in Nat, NEW t \in Nat,
           Part(q, 2 + k, Word(n)), Part(q, 4 + k, Prefixed("topic", t))
    PROVE  /\ WordAt(q, k + 2) = n /\ StringAt(q, k + 4) = Chars("topic", t)
           /\ Behind(q, k + 4) = k + 6 + t
<1>1. /\ 2 + k \in Nat /\ 2 + k = k + 2 /\ 4 + k \in Nat /\ 4 + k >= 1 /\ 4 + k = k + 4
      /\ 4 + k + 2 + t = k + 6 + t
  OBVIOUS
<1>2. WordAt(q, 2 + k) = n
  BY <1>1, WordIsRead
<1>3. "topic" \in Names
  BY DEF Names
<1>4. StringAt(q, 4 + k) = Chars("topic", t) /\ Behind(q, 4 + k) = 4 + k + 2 + t
  BY <1>1, <1>3, StringIsRead
<1> QED
  BY <1>1, <1>2, <1>4

LEMMA UnsubscribePacket ==
    ASSUME buffer \in Buffers, nextMsgId \in 0..(IdSpace - 1), NEW t \in Filters, UnsubscribeCall(t)
    PROVE  /\ buffer' \in Buffers /\ Long(packet') /\ FilterIsRead'
           /\ 9 + t <= MaxPacket => top' <= MaxPacket
<1> DEFINE done == WriteString(Put(Start, Word(FilterId)), "topic", t)
           w == Word(FilterId)
           s == Prefixed("topic", t)
           k == DigitCount(done.pos - 5)
           q == packet'
<1>1. /\ Write(162, done) /\ call' = [kind |-> "unsubscribe", topic |-> t]
      /\ nextMsgId' = FilterId
  BY DEF UnsubscribeCall, Called
<1>2. t \in Nat /\ FilterId \in Nat /\ FilterId /= 0
  BY WriterAssumption, FilterIdIs
<1>3. /\ done.buf \in Buffers /\ done.pos \in Nat /\ done.pos >= 9
      /\ done.pos <= MaxPacket \/ done.pos = 9
      /\ 9 + t <= MaxPacket => done.pos = 9 + t /\ Segment(done.buf, 5, w) /\ Segment(done.buf, 7, s)
  BY <1>2, FilterBuffer
<1> HIDE DEF done
<1>4. done.pos >= 5 /\ done.pos <= MaxPacket + Beyond
  BY <1>3, Sizes
<1>5. /\ buffer' \in Buffers /\ top' = done.pos
      /\ k \in 1..3 /\ LengthLength(q) = k /\ Remaining(q) = done.pos - 5
      /\ q \in Seq(Cell) /\ Len(q) = done.pos - 4 + k
      /\ \A i \in Nat, u \in Seq(Cell) :
           i >= 5 /\ i + Len(u) <= done.pos /\ Segment(done.buf, i, u) => Part(q, i - 3 + k, u)
  BY <1>1, <1>3, <1>4, WriteIs
<1>6. Long(q)
  BY <1>3, <1>5 DEF Long
<1>7. /\ w \in Seq(Cell) /\ Len(w) = 2 /\ s \in Seq(Cell) /\ Len(s) = t + 2
  BY <1>2, WordIs, PrefixedIs DEF Names
<1> HIDE DEF k, w, s, q
<1>8. ASSUME 9 + t <= MaxPacket
      PROVE  /\ WordAt(q, k + 2) = FilterId /\ StringAt(q, k + 4) = Chars("topic", t)
             /\ Behind(q, k + 4) = Len(q) + 1
  <2>1. Part(q, 2 + k, w)
    <3>1. 5 >= 5 /\ 5 \in Nat /\ 5 + Len(w) <= done.pos /\ 5 - 3 + k = 2 + k
      BY <1>3, <1>5, <1>7
    <3>2. Part(q, 5 - 3 + k, w)
      BY <1>3, <1>5, <1>7, <1>8, <3>1
    <3> QED
      BY <3>1, <3>2
  <2>2. Part(q, 4 + k, s)
    <3>1. 7 >= 5 /\ 7 \in Nat /\ 7 + Len(s) <= done.pos /\ 7 - 3 + k = 4 + k
      <4>1. 7 + (t + 2) <= done.pos
        BY <1>2, <1>3, <1>8
      <4> QED
        BY <1>5, <1>7, <4>1
    <3>2. Part(q, 7 - 3 + k, s)
      BY <1>3, <1>5, <1>7, <1>8, <3>1
    <3> QED
      BY <3>1, <3>2
  <2>3. /\ WordAt(q, k + 2) = FilterId /\ StringAt(q, k + 4) = Chars("topic", t)
        /\ Behind(q, k + 4) = k + 6 + t
    BY <1>2, <1>5, <2>1, <2>2, FilterParts DEF w, s
  <2>4. k + 6 + t = (9 + t - 4 + k) + 1
    BY <1>2, <1>5
  <2>5. Len(q) = 9 + t - 4 + k
    <3>1. done.pos = 9 + t /\ Len(q) = done.pos - 4 + k
      BY <1>3, <1>5, <1>8
    <3>2. k \in Nat /\ t \in Nat
      BY <1>2, <1>5
    <3> QED
      BY <3>1, <3>2
  <2>6. Behind(q, k + 4) = Len(q) + 1
    BY <2>3, <2>4, <2>5
  <2> QED
    BY <2>3, <2>6
<1>9. FilterIsRead'
  <2>1. call'.kind = "unsubscribe" /\ call'.topic = t /\ call'.kind /= "subscribe" /\ call'.kind /= "publish"
    BY <1>1
  <2>2. CallFits' <=> 5 + (4 + t) <= MaxPacket
    BY <2>1 DEF CallFits, Body
  <2>3. 5 + (4 + t) = 9 + t
    BY <1>2
  <2> QED
    BY <1>1, <1>2, <1>5, <1>8, <2>1, <2>2, <2>3 DEF FilterIsRead, q
<1>10. 9 + t <= MaxPacket => top' <= MaxPacket
  BY <1>3, <1>5
<1> QED
  BY <1>5, <1>6, <1>9, <1>10 DEF q

LEMMA SubscribePacket ==
    ASSUME buffer \in Buffers, nextMsgId \in 0..(IdSpace - 1), NEW t \in Filters, NEW qos \in 0..2,
           SubscribeCall(t, qos)
    PROVE  /\ buffer' \in Buffers /\ Long(packet') /\ FilterIsRead'
           /\ 10 + t <= MaxPacket => top' <= MaxPacket
<1> DEFINE filter == WriteString(Put(Start, Word(FilterId)), "topic", t)
           last == <<Number(qos)>>
           done == Put(filter, last)
           w == Word(FilterId)
           s == Prefixed("topic", t)
           k == DigitCount(done.pos - 5)
           q == packet'
<1>1. /\ Write(130, done) /\ call' = [kind |-> "subscribe", topic |-> t, qos |-> qos]
      /\ nextMsgId' = FilterId
  BY DEF SubscribeCall, Called
<1>2. t \in Nat /\ FilterId \in Nat /\ FilterId /= 0 /\ qos \in Nat
  BY WriterAssumption, FilterIdIs
<1>3. /\ filter.buf \in Buffers /\ filter.pos \in Nat /\ filter.pos >= 9
      /\ filter.pos <= MaxPacket \/ filter.pos = 9
      /\ 9 + t <= MaxPacket =>
           filter.pos = 9 + t /\ Segment(filter.buf, 5, w) /\ Segment(filter.buf, 7, s)
  BY <1>2, FilterBuffer
<1> HIDE DEF filter
<1>4. /\ w \in Seq(Cell) /\ Len(w) = 2 /\ s \in Seq(Cell) /\ Len(s) = t + 2
      /\ last \in Seq(Cell) /\ Len(last) = 1 /\ last[1] = Number(qos)
  BY <1>2, WordIs, PrefixedIs, NumberIs DEF Names
<1> HIDE DEF w, s, last
<1>5. filter.pos + Len(last) <= MaxPacket + Beyond
  BY <1>3, <1>4, Sizes
<1>6. /\ done.buf \in Buffers /\ done.pos = filter.pos + 1 /\ done.pos \in Nat
      /\ Segment(done.buf, filter.pos, last)
  <2>1. /\ done.buf \in Buffers /\ done.pos = filter.pos + Len(last) /\ done.pos \in Nat
        /\ Segment(done.buf, filter.pos, last)
    BY <1>3, <1>4, <1>5, PutIs
  <2> QED
    BY <1>4, <2>1
<1>7. 9 + t <= MaxPacket => Segment(done.buf, 5, w) /\ Segment(done.buf, 7, s)
  <2> HAVE 9 + t <= MaxPacket
  <2>1. 5 + Len(w) <= filter.pos /\ 5 \in Nat
    BY <1>3, <1>4
  <2>2. 7 + Len(s) <= filter.pos /\ 7 \in Nat
    <3>1. 7 + (t + 2) <= filter.pos
      BY <1>2, <1>3
    <3> QED
      BY <1>4, <3>1
  <2>3. Segment(done.buf, 5, w)
    BY <1>3, <1>4, <1>5, <2>1, PutKeeps
  <2>4. Segment(done.buf, 7, s)
    BY <1>3, <1>4, <1>5, <2>2, PutKeeps
  <2> QED
    BY <2>3, <2>4
<1> HIDE DEF done
<1>8. done.pos >= 5 /\ done.pos <= MaxPacket + Beyond
  BY <1>3, <1>6, Sizes
<1>9. /\ buffer' \in Buffers /\ top' = done.pos
      /\ k \in 1..3 /\ LengthLength(q) = k /\ Remaining(q) = done.pos - 5
      /\ q \in Seq(Cell) /\ Len(q) = done.pos - 4 + k
      /\ \A i \in Nat, u \in Seq(Cell) :
           i >= 5 /\ i + Len(u) <= done.pos /\ Segment(done.buf, i, u) => Part(q, i - 3 + k, u)
  BY <1>1, <1>6, <1>8, WriteIs
<1>10. Long(q)
  BY <1>6, <1>9 DEF Long
<1> HIDE DEF k, q
<1>11. ASSUME 10 + t <= MaxPacket
       PROVE  /\ WordAt(q, k + 2) = FilterId /\ StringAt(q, k + 4) = Chars("topic", t)
              /\ Behind(q, k + 4) = Len(q) /\ q[Behind(q, k + 4)] = Number(qos)
              /\ done.pos <= MaxPacket
  <2>1. 9 + t <= MaxPacket /\ filter.pos = 9 + t /\ done.pos = 10 + t
    BY <1>2, <1>3, <1>6, <1>11, Sizes
  <2>2. Part(q, 2 + k, w)
    <3>1. 5 >= 5 /\ 5 \in Nat /\ 5 + Len(w) <= done.pos /\ 5 - 3 + k = 2 + k
      BY <1>2, <1>4, <1>9, <2>1
    <3>2. Part(q, 5 - 3 + k, w)
      BY <1>4, <1>7, <1>9, <2>1, <3>1
    <3> QED
      BY <3>1, <3>2
  <2>3. Part(q, 4 + k, s)
    <3>1. 7 >= 5 /\ 7 \in Nat /\ 7 + Len(s) <= done.pos /\ 7 - 3 + k = 4 + k
      <4>1. 7 + (t + 2) <= done.pos
        BY <1>2, <2>1
      <4> QED
        BY <1>4, <1>9, <4>1
    <3>2. Part(q, 7 - 3 + k, s)
      BY <1>4, <1>7, <1>9, <2>1, <3>1
    <3> QED
      BY <3>1, <3>2
  <2>4. q[k + 6 + t] = Number(qos)
    <3> DEFINE i == filter.pos
    <3>1. i >= 5 /\ i \in Nat /\ i + Len(last) <= done.pos /\ i - 3 + k = k + 6 + t
      BY <1>2, <1>4, <1>6, <1>9, <2>1
    <3>2. Segment(done.buf, i, last)
      BY <1>6
    <3> HIDE DEF i
    <3>3. Part(q, i - 3 + k, last)
      BY <1>4, <1>9, <3>1, <3>2
    <3>4. 1 \in 1..Len(last) /\ (k + 6 + t) + 1 - 1 = k + 6 + t
      BY <1>2, <1>4, <1>9
    <3> QED
      BY <1>4, <3>1, <3>3, <3>4 DEF Part
  <2>5. /\ WordAt(q, k + 2) = FilterId /\ StringAt(q, k + 4) = Chars("topic", t)
        /\ Behind(q, k + 4) = k + 6 + t
    BY <1>2, <1>9, <2>2, <2>3, FilterParts DEF w, s
  <2>6. k + 6 + t = 10 + t - 4 + k
    BY <1>2, <1>9
  <2>7. Len(q) = 10 + t - 4 + k
    <3>1. done.pos = 10 + t /\ Len(q) = done.pos - 4 + k
      BY <1>9, <2>1
    <3>2. k \in Nat /\ t \in Nat
      BY <1>2, <1>9
    <3> QED
      BY <3>1, <3>2
  <2>8. Behind(q, k + 4) = Len(q) /\ q[Behind(q, k + 4)] = Number(qos)
    BY <2>4, <2>5, <2>6, <2>7
  <2>9. done.pos <= MaxPacket
    BY <1>11, <2>1
  <2> QED
    BY <2>5, <2>8, <2>9
<1>12. FilterIsRead'
  <2>1. call'.kind = "subscribe" /\ call'.topic = t /\ call'.qos = qos /\ call'.kind /= "publish"
    BY <1>1
  <2>2. CallFits' <=> 5 + (5 + t) <= MaxPacket
    BY <2>1 DEF CallFits, Body
  <2>3. 5 + (5 + t) = 10 + t
    BY <1>2
  <2> QED
    BY <1>1, <1>2, <1>9, <1>11, <2>1, <2>2, <2>3 DEF FilterIsRead, q
<1>13. 10 + t <= MaxPacket => top' <= MaxPacket
  BY <1>9, <1>11
<1> QED
  BY <1>9, <1>10, <1>12, <1>13 DEF q

\* The acknowledgements are four bytes long.
LEMMA AcknowledgePacket ==
    ASSUME buffer \in Buffers, NEW kind \in DOMAIN AckHeaders, NEW id \in Ids, Acknowledge(kind, id)
    PROVE  buffer' \in Buffers /\ Long(packet') /\ top' = 4 /\ call' = [kind |-> kind] /\ told' = id
<1> DEFINE h == AckHeaders[kind]
           a == <<Number(h), Number(2)>>
           w == Word(id)
           cells == a \o w
           first == [buf |-> buffer, pos |-> 0]
           done == Put(first, cells)
           p == [i \in 1..4 |-> done.buf[i - 1]]
           q == SubSeq(p, 1, 4)
<1>1. /\ buffer' = done.buf /\ packet' = q /\ top' = done.pos
      /\ call' = [kind |-> kind] /\ told' = id
  BY DEF Acknowledge, Called
<1>2. h \in Nat /\ id \in Nat
  BY WriterAssumption, Sizes, BufferAssumption DEF AckHeaders
<1>3. /\ a \in Seq(Cell) /\ Len(a) = 2 /\ a[2] = Number(2) /\ w \in Seq(Cell) /\ Len(w) = 2
  BY <1>2, NumberIs, WordIs
<1> HIDE DEF a, w
<1>4. cells \in Seq(Cell) /\ Len(cells) = 4 /\ cells[2] = Number(2)
  <2>1. /\ cells \in Seq(Cell) /\ Len(cells) = Len(a) + Len(w)
        /\ \A i \in 1..(Len(a) + Len(w)) : cells[i] = IF i <= Len(a) THEN a[i] ELSE w[i - Len(a)]
    BY <1>3, ConcatProperties
  <2>2. Len(a) + Len(w) = 4 /\ 2 \in 1..(Len(a) + Len(w)) /\ 2 <= Len(a)
    BY <1>3
  <2> QED
    BY <1>3, <2>1, <2>2
<1> HIDE DEF cells
<1>5. first.buf \in Buffers /\ first.pos = 0
  OBVIOUS
<1> HIDE DEF first
<1>6. done.buf \in Buffers /\ done.pos = 4 /\ Segment(done.buf, 0, cells)
  <2>1. first.pos \in Nat /\ first.pos + Len(cells) <= MaxPacket + Beyond
    BY <1>4, <1>5, Sizes
  <2>2. /\ done.buf \in Buffers /\ done.pos = first.pos + Len(cells)
        /\ Segment(done.buf, first.pos, cells)
    BY <1>4, <1>5, <2>1, PutIs
  <2> QED
    BY <1>4, <1>5, <2>2
<1> HIDE DEF done
<1>7. \A i \in 1..4 : p[i] \in Cell /\ p[i] = cells[i]
  <2> TAKE i \in 1..4
  <2>1. 0 + i - 1 = i - 1 /\ i \in 1..Len(cells)
    BY <1>4
  <2>2. done.buf[i - 1] = cells[i]
    BY <1>6, <2>1 DEF Segment
  <2>3. p[i] = done.buf[i - 1]
    OBVIOUS
  <2>4. cells[i] \in Cell
    BY <1>4, <2>1, ElementOfSeq
  <2> QED
    BY <2>2, <2>3, <2>4
<1> HIDE DEF p
<1>8. q \in Seq(Cell) /\ Len(q) = 4 /\ q[2].val = 2
  <2>1. /\ q \in Seq(Cell) /\ Len(q) = IF 1 <= 4 THEN 4 - 1 + 1 ELSE 0
        /\ \A i \in 1..(4 - 1 + 1) : q[i] = p[1 + i - 1]
    BY <1>7, SubSeqProperties
  <2> HIDE DEF q
  <2>2. Len(q) = 4 /\ 2 \in 1..(4 - 1 + 1) /\ 1 + 2 - 1 = 2 /\ 2 \in 1..4
    BY <2>1
  <2>3. q[2] = cells[2]
    BY <1>7, <2>1, <2>2
  <2> QED
    BY <1>4, <2>1, <2>2, <2>3, NumberIs
<1> HIDE DEF q
<1>9. LengthLength(q) = 1
  <2> DEFINE P(k) == q[k + 1].val < Base /\ \A j \in 1..(k - 1) : q[j + 1].val >= Base
  <2>1. P(1)
    BY <1>8, Sizes
  <2>2. ASSUME NEW k \in 1..4, P(k) PROVE k = 1
    <3>1. CASE k > 1
      <4>1. 1 \in 1..(k - 1) /\ 1 + 1 = 2
        BY <3>1
      <4>2. q[2].val >= Base
        BY <2>2, <4>1
      <4> QED
        BY <1>8, <4>2, Sizes
    <3> QED
      BY <3>1
  <2>3. LengthLength(q) = CHOOSE k \in 1..4 : P(k)
    BY DEF LengthLength
  <2> HIDE DEF P
  <2>4. 1 \in 1..4
    OBVIOUS
  <2> QED
    BY <2>1, <2>2, <2>3, <2>4
<1>10. Remaining(q) = 2
  <2>1. q[1 + 1].val % Base = 2 /\ Place(1) = 1
    <3>1. 2 \in 0..(Base - 1)
      BY Sizes
    <3>2. 2 % Base = 2
      BY <3>1, SmallRemainder
    <3>3. q[1 + 1].val = 2
      BY <1>8
    <3> QED
      BY <3>2, <3>3 DEF Place
  <2>2. Remaining(q) = 2 * 1 + 0 + 0
    BY <1>9, <2>1 DEF Remaining
  <2> QED
    BY <2>2
<1> QED
  BY <1>1, <1>6, <1>8, <1>9, <1>10 DEF Long

------------------------------------------------------------------------------
(* The writer's invariant *)

WInv ==
    /\ buffer \in Buffers
    /\ nextMsgId \in 0..(IdSpace - 1)
    /\ told \in 0..(IdSpace - 1)
    /\ calls \in 0..MaxCalls
    /\ Long(packet)
    /\ PublishIsRead
    /\ ConnectIsRead
    /\ FilterIsRead

\* Arguments whose strings fit the buffer: a payload may be longer.
StringsFit ==
    /\ \A c \in Connects : 5 + ConnectBody(c) <= MaxPacket
    /\ \A p \in Publishes : 5 + 2 + p.topic + (IF p.qos > 0 THEN 2 ELSE 0) <= MaxPacket
    /\ \A t \in Filters : 10 + t <= MaxPacket
    /\ 4 <= MaxPacket

LEMMA IdsAreIds == Ids \subseteq 0..(IdSpace - 1) /\ 0 \in 0..(IdSpace - 1) /\ 1 \in 0..(IdSpace - 1)
BY WriterAssumption, IdSpaceIs, Sizes

LEMMA InitWInv == WriterInit => WInv /\ top = 0
<1> SUFFICES ASSUME WriterInit PROVE WInv /\ top = 0
  OBVIOUS
<1> USE DEF WriterInit
<1>1. buffer \in Buffers
  BY NumberIs DEF Buffers, Memory
<1>2. nextMsgId \in 0..(IdSpace - 1) /\ told \in 0..(IdSpace - 1)
  BY IdsAreIds
<1>3. calls \in 0..MaxCalls
  BY WriterAssumption
<1>4. Long(packet)
  BY DEF Long
<1>5. call.kind = "none"
  OBVIOUS
<1>6. PublishIsRead /\ ConnectIsRead /\ FilterIsRead
  BY <1>5 DEF PublishIsRead, ConnectIsRead, FilterIsRead
<1> QED
  BY <1>1, <1>2, <1>3, <1>4, <1>6 DEF WInv

LEMMA CalledCounts == ASSUME WInv, NEW c, Called(c) PROVE calls' \in 0..MaxCalls
BY WriterAssumption DEF Called, WInv

\* The property of a call says nothing of another one.
LEMMA OtherCallNext ==
    /\ call'.kind /= "publish" => PublishIsRead'
    /\ call'.kind /= "connect" => ConnectIsRead'
    /\ call'.kind \notin {"subscribe", "unsubscribe"} => FilterIsRead'
BY DEF PublishIsRead, ConnectIsRead, FilterIsRead

LEMMA StepWInv ==
    ASSUME WInv, [WriterNext]_written
    PROVE  WInv' /\ (StringsFit /\ top <= MaxPacket => top' <= MaxPacket)
<1>1. buffer \in Buffers /\ nextMsgId \in 0..(IdSpace - 1) /\ told \in 0..(IdSpace - 1)
  BY DEF WInv
<1>2. IdSpace \in Nat /\ IdSpace > 16
  BY Sizes
<1>3. PublishId \in 0..(IdSpace - 1) /\ (PublishId + 1) % IdSpace \in 0..(IdSpace - 1)
  BY <1>1, <1>2 DEF PublishId
<1>4. ASSUME NEW c \in Connects, ConnectCall(c)
      PROVE  WInv' /\ (StringsFit => top' <= MaxPacket)
  <2>1. /\ buffer' \in Buffers /\ Long(packet') /\ ConnectIsRead'
        /\ 5 + ConnectBody(c) <= MaxPacket => top' <= MaxPacket
    BY <1>1, <1>4, ConnectPacket
  <2>2. nextMsgId' = 1 /\ told' = 0 /\ call'.kind = "connect" /\ calls' \in 0..MaxCalls
    <3>1. Called([kind |-> "connect", args |-> c])
      BY <1>4 DEF ConnectCall
    <3> QED
      BY <1>4, <3>1, CalledCounts DEF ConnectCall, Called
  <2>3. PublishIsRead' /\ FilterIsRead'
    BY <2>2, OtherCallNext
  <2> QED
    BY <2>1, <2>2, <2>3, IdsAreIds DEF WInv, Long, StringsFit
<1>5. ASSUME NEW p \in Publishes, PublishCall(p)
      PROVE  WInv' /\ (StringsFit => top' <= MaxPacket)
  <2>1. /\ buffer' \in Buffers /\ Long(packet') /\ PublishIsRead'
        /\ 5 + 2 + p.topic + (IF p.qos > 0 THEN 2 ELSE 0) <= MaxPacket => top' <= MaxPacket
    BY <1>1, <1>5, PublishPacket
  <2>2. /\ nextMsgId' = IF p.qos = 0 THEN nextMsgId
                        ELSE IF p.asks THEN (PublishId + 1) % IdSpace ELSE PublishId
        /\ told' = Told(p) /\ call'.kind = "publish" /\ calls' \in 0..MaxCalls
    <3>1. Called([kind |-> "publish", args |-> p])
      BY <1>5 DEF PublishCall
    <3> QED
      BY <1>5, <3>1, CalledCounts DEF PublishCall, Called
  <2>3. nextMsgId' \in 0..(IdSpace - 1) /\ told' \in 0..(IdSpace - 1)
    BY <1>1, <1>3, <2>2, IdsAreIds DEF Told
  <2>4. ConnectIsRead' /\ FilterIsRead'
    BY <2>2, OtherCallNext
  <2> QED
    BY <2>1, <2>2, <2>3, <2>4 DEF WInv, Long, StringsFit
<1>6. ASSUME NEW t \in Filters, NEW qos \in 0..2, SubscribeCall(t, qos)
      PROVE  WInv' /\ (StringsFit => top' <= MaxPacket)
  <2>1. /\ buffer' \in Buffers /\ Long(packet') /\ FilterIsRead'
        /\ 10 + t <= MaxPacket => top' <= MaxPacket
    BY <1>1, <1>6, SubscribePacket
  <2>2. nextMsgId' = FilterId /\ told' = 0 /\ call'.kind = "subscribe" /\ calls' \in 0..MaxCalls
    <3>1. Called([kind |-> "subscribe", topic |-> t, qos |-> qos])
      BY <1>6 DEF SubscribeCall
    <3> QED
      BY <1>6, <3>1, CalledCounts DEF SubscribeCall, Called
  <2>3. nextMsgId' \in 0..(IdSpace - 1)
    BY <1>1, <1>2, <2>2, FilterIdIs
  <2>4. PublishIsRead' /\ ConnectIsRead'
    BY <2>2, OtherCallNext
  <2> QED
    BY <2>1, <2>2, <2>3, <2>4, IdsAreIds DEF WInv, Long, StringsFit
<1>7. ASSUME NEW t \in Filters, UnsubscribeCall(t)
      PROVE  WInv' /\ (StringsFit => top' <= MaxPacket)
  <2>1. /\ buffer' \in Buffers /\ Long(packet') /\ FilterIsRead'
        /\ 9 + t <= MaxPacket => top' <= MaxPacket
    BY <1>1, <1>7, UnsubscribePacket
  <2>2. nextMsgId' = FilterId /\ told' = 0 /\ call'.kind = "unsubscribe" /\ calls' \in 0..MaxCalls
    <3>1. Called([kind |-> "unsubscribe", topic |-> t])
      BY <1>7 DEF UnsubscribeCall
    <3> QED
      BY <1>7, <3>1, CalledCounts DEF UnsubscribeCall, Called
  <2>3. nextMsgId' \in 0..(IdSpace - 1)
    BY <1>1, <1>2, <2>2, FilterIdIs
  <2>4. PublishIsRead' /\ ConnectIsRead'
    BY <2>2, OtherCallNext
  <2>5. StringsFit => 9 + t <= MaxPacket
    <3>1. t \in Nat /\ MaxPacket \in Nat
      BY WriterAssumption, Sizes
    <3>2. StringsFit => 10 + t <= MaxPacket
      BY DEF StringsFit
    <3> QED
      BY <3>1, <3>2
  <2> QED
    BY <2>1, <2>2, <2>3, <2>4, <2>5, IdsAreIds DEF WInv, Long
<1>8. ASSUME NEW kind \in DOMAIN AckHeaders, NEW id \in Ids, Acknowledge(kind, id)
      PROVE  WInv' /\ (StringsFit => top' <= MaxPacket)
  <2>1. buffer' \in Buffers /\ Long(packet') /\ top' = 4 /\ call' = [kind |-> kind] /\ told' = id
    BY <1>1, <1>8, AcknowledgePacket
  <2>2. kind \in {"puback", "pubrec", "pubrel", "pubcomp"}
    BY DEF AckHeaders
  <2>3. PublishIsRead' /\ ConnectIsRead' /\ FilterIsRead'
    <3>1. call'.kind = kind
      BY <2>1
    <3>2. kind \notin {"publish", "connect", "subscribe", "unsubscribe"}
      BY <2>2
    <3> QED
      BY <3>1, <3>2, OtherCallNext
  <2>4. nextMsgId' = nextMsgId /\ calls' \in 0..MaxCalls
    <3>1. Called([kind |-> kind])
      BY <1>8 DEF Acknowledge
    <3> QED
      BY <1>8, <3>1, CalledCounts DEF Acknowledge
  <2>5. told' \in 0..(IdSpace - 1)
    BY <2>1, IdsAreIds
  <2>6. StringsFit => top' <= MaxPacket
    BY <2>1 DEF StringsFit
  <2> QED
    BY <1>1, <2>1, <2>3, <2>4, <2>5, <2>6 DEF WInv, Long
<1>9. CASE UNCHANGED written
  <2>1. UNCHANGED <<buffer, nextMsgId, call, told, packet, top, calls>>
    BY <1>9 DEF written
  <2>2. CallFits' <=> CallFits
    BY <2>1 DEF CallFits, Body
  <2>3. PublishIsRead' /\ ConnectIsRead' /\ FilterIsRead'
    BY <2>1, <2>2 DEF WInv, PublishIsRead, ConnectIsRead, FilterIsRead
  <2> QED
    BY <2>1, <2>3 DEF WInv, Long
<1> QED
  BY <1>4, <1>5, <1>6, <1>7, <1>8, <1>9 DEF WriterNext

\* The packet of the last call is what the call was given, for whatever the buffer
\* held before (connect(), publish(), subscribe(), unsubscribe(), write()).
THEOREM WriterInvariant == WriterSpec => []WInv
<1>1. WInv /\ [WriterNext]_written => WInv'
  BY StepWInv
<1> QED
  BY <1>1, InitWInv, PTL DEF WriterSpec

\* The counter, the id given to the application and the remaining length of a
\* packet keep to their ranges (publish(), subscribe(), write()).
THEOREM WriterTypes == WriterSpec => []WriterTypeOK
<1>1. WInv => WriterTypeOK
  BY DEF WInv, Long, WriterTypeOK
<1> QED
  BY <1>1, WriterInvariant, PTL

\* A message that fits the buffer is read with the topic, payload, QoS and id it
\* was published with (publish(), writeString(), write(), loop()).
THEOREM PublishesAreRead == WriterSpec => []PublishIsRead
<1>1. WInv => PublishIsRead
  BY DEF WInv
<1> QED
  BY <1>1, WriterInvariant, PTL

\* A CONNECT that fits is read as connect() was called (connect(), write()).
THEOREM ConnectsAreRead == WriterSpec => []ConnectIsRead
<1>1. WInv => ConnectIsRead
  BY DEF WInv
<1> QED
  BY <1>1, WriterInvariant, PTL

\* A SUBSCRIBE or UNSUBSCRIBE that fits is read as it was called for, with an id
\* that is not 0 (subscribe(), unsubscribe(), write()).
THEOREM FiltersAreRead == WriterSpec => []FilterIsRead
<1>1. WInv => FilterIsRead
  BY DEF WInv
<1> QED
  BY <1>1, WriterInvariant, PTL

\* No packet is longer than maxpacketsize when the strings fit, however long the
\* payloads are: publish() cuts those.
THEOREM PacketsWithinMaximum == ASSUME StringsFit PROVE WriterSpec => []WithinMaximum
<1>1. WriterInit => WithinMaximum
  BY InitWInv, Sizes DEF WithinMaximum
<1>2. WInv /\ WithinMaximum /\ [WriterNext]_written => WithinMaximum'
  BY StepWInv DEF WithinMaximum
<1> QED
  BY <1>1, <1>2, WriterInvariant, PTL DEF WriterSpec
==============================================================================
