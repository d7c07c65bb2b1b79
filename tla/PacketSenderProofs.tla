-------------------------- MODULE PacketSenderProofs --------------------------
(***************************************************************************)
(* PacketSender for all packets and every number of them, where netWrite() *)
(* can be relied upon (Orderly) and no packet is longer than a record.     *)
(*                                                                         *)
(* What is on the way and what mbedTLS still holds, one after the other,   *)
(* is a line of whole packets: every byte stands at its place in a copy of *)
(* its packet.  The broker, which takes packets off the front by their     *)
(* size, therefore never takes a part, and what it takes is the packet     *)
(* after the last.  That each byte knows its copy makes the invariant      *)
(* hold without a count of the bytes of all packets.                       *)
(***************************************************************************)
EXTENDS PacketSender, QueueLemmas

\* No packet is longer than a record, and there is a longest.
AtMostARecord == \A s \in Setups : s.tls => \A size \in Sizes : size <= MaxRecord
SomeBiggest == \E s \in Sizes : \A t \in Sizes : t <= s

Cells == [packet : Nat, at : Nat]

\* s is a line of whole packets of the sizes z.
Whole(s, z) ==
    \A i \in 1..Len(s) :
        /\ s[i].packet \in 1..Len(z) /\ s[i].at \in 1..z[s[i].packet]
        /\ i - s[i].at >= 0 /\ i - s[i].at + z[s[i].packet] <= Len(s)
        /\ \A k \in 1..z[s[i].packet] :
             s[i - s[i].at + k] = [packet |-> s[i].packet, at |-> k]

\* Its bytes come in the order of the packets and of their places, each once.
Sorted(s) ==
    \A i, j \in 1..Len(s) :
        i < j => \/ s[i].packet < s[j].packet
                 \/ s[i].packet = s[j].packet /\ s[i].at < s[j].at

\* t is s with a packet n at its end.
EndsWith(t, s, n, size) ==
    /\ Len(t) = Len(s) + size
    /\ \A i \in 1..Len(s) : t[i] = s[i]
    /\ \A i \in 1..size : t[Len(s) + i] = [packet |-> n, at |-> i]

\* The packets of y are those of z and perhaps more.
Extends(y, z) == Len(z) <= Len(y) /\ \A i \in 1..Len(z) : y[i] = z[i]

Line == stream \o pending
Count == Len(received)

KindInv ==
    /\ setup \in Setups
    /\ packets \in Seq(Sizes) /\ Len(packets) <= MaxPackets
    /\ stream \in Seq(Cells) /\ pending \in Seq(Cells) /\ received \in Seq(Nat)
    /\ reported \subseteq 1..Len(packets)
    /\ owed \in 0..Len(packets)

\* The packets in the line are those after the last received, in their order,
\* and of those only the one owed may be missing.
OrderInv ==
    /\ Sorted(Line)
    /\ \A i \in 1..Len(Line) : Line[i].packet > Count
    /\ \A n \in (Count + 1)..Len(packets) :
         n = owed \/ \E i \in 1..Len(Line) : Line[i].packet = n

ReceivedInv == Count <= Len(packets) /\ \A i \in 1..Count : received[i] = i

\* The packet owed is the last: with TLS the record kept is the rest of it, and
\* without nothing of it is in the line.
OwedInv ==
    /\ owed /= 0 =>
        /\ owed = Len(packets) /\ setup.full /\ owed \notin reported /\ Count < owed
        /\ setup.tls => pending /= <<>>
        /\ ~setup.tls => \A i \in 1..Len(Line) : Line[i].packet /= owed
    /\ pending /= <<>> => setup.tls /\ owed /= 0
    /\ \A i \in 1..Len(pending) : pending[i].packet = owed

IInv ==
    /\ KindInv
    /\ Whole(Line, packets)
    /\ OrderInv
    /\ ReceivedInv
    /\ OwedInv

------------------------------------------------------------------------------
(* Lines of packets *)

LEMMA BytesCells ==
    ASSUME NEW n \in Nat, NEW size \in Nat
    PROVE  /\ Bytes(n, size) \in Seq(Cells) /\ Len(Bytes(n, size)) = size
           /\ \A i \in 1..size : Bytes(n, size)[i] = [packet |-> n, at |-> i]
BY DEF Bytes, Cells

LEMMA Within ==
    \A d, q, l \in Int : d >= 0 /\ d + q <= l => \A k \in 1..q : d + k \in 1..l
OBVIOUS

LEMMA WholeAppend ==
    ASSUME NEW s \in Seq(Cells), NEW z \in Seq(Nat), NEW y \in Seq(Nat), Whole(s, z),
           Extends(y, z), NEW n \in 1..Len(y)
    PROVE  /\ Whole(s \o Bytes(n, y[n]), y)
           /\ EndsWith(s \o Bytes(n, y[n]), s, n, y[n])
<1> DEFINE b == Bytes(n, y[n])  t == s \o b
<1>1. /\ y[n] \in Nat /\ n \in Nat /\ Len(s) \in Nat /\ Len(z) \in Nat /\ Len(y) \in Nat
      /\ \A i \in 1..Len(z) : z[i] \in Nat /\ y[i] = z[i] /\ i \in 1..Len(y)
  BY DEF Extends
<1>2. b \in Seq(Cells) /\ Len(b) = y[n] /\ \A i \in 1..y[n] : b[i] = [packet |-> n, at |-> i]
  BY <1>1, BytesCells
<1> HIDE DEF b
<1>3. /\ t \in Seq(Cells) /\ Len(t) = Len(s) + Len(b)
      /\ \A i \in 1..(Len(s) + Len(b)) : t[i] = IF i <= Len(s) THEN s[i] ELSE b[i - Len(s)]
  BY <1>2, ConcatProperties
<1> HIDE DEF t
<1>4. \A i \in 1..Len(s) : t[i] = s[i]
  <2> TAKE i \in 1..Len(s)
  <2>1. i \in 1..(Len(s) + Len(b)) /\ i <= Len(s)
    BY <1>1, <1>2
  <2> QED
    BY <1>3, <2>1
<1>5. \A i \in 1..y[n] : t[Len(s) + i] = [packet |-> n, at |-> i]
  <2> TAKE i \in 1..y[n]
  <2>1. Len(s) + i \in 1..(Len(s) + Len(b)) /\ ~(Len(s) + i <= Len(s)) /\ (Len(s) + i) - Len(s) = i
    BY <1>1, <1>2
  <2> QED
    BY <1>2, <1>3, <2>1
<1>6. ASSUME NEW i \in 1..Len(t)
      PROVE  /\ t[i].packet \in 1..Len(y) /\ t[i].at \in 1..y[t[i].packet]
             /\ i - t[i].at >= 0 /\ i - t[i].at + y[t[i].packet] <= Len(t)
             /\ \A k \in 1..y[t[i].packet] :
                  t[i - t[i].at + k] = [packet |-> t[i].packet, at |-> k]
  <2>1. CASE i <= Len(s)
    <3>1. i \in 1..Len(s) /\ t[i] = s[i]
      BY <1>1, <1>4, <2>1
    <3> DEFINE p == s[i].packet  a == s[i].at  d == i - a
    <3>2. /\ p \in 1..Len(z) /\ a \in 1..z[p] /\ d >= 0 /\ d + z[p] <= Len(s)
          /\ \A k \in 1..z[p] : s[d + k] = [packet |-> p, at |-> k]
      BY <3>1 DEF Whole
    <3>3. y[p] = z[p] /\ z[p] \in Nat /\ p \in 1..Len(y)
      BY <1>1, <3>2
    <3>4. d \in Int
      BY <3>2, <3>3
    <3>5. y[p] = z[p] /\ t[i] = s[i]
      BY <3>1, <3>3
    <3> HIDE DEF p, a, d
    <3>6. z[p] \in Int /\ Len(s) \in Int /\ d >= 0 /\ d + z[p] <= Len(s)
      BY <1>1, <3>2, <3>3
    <3>7. ASSUME NEW k \in 1..z[p] PROVE t[d + k] = [packet |-> p, at |-> k]
      <4>1. d + k \in 1..Len(s)
        BY <3>4, <3>6, Within
      <4> QED
        BY <1>4, <3>2, <4>1
    <3>8. d + z[p] <= Len(t)
      <4>1. Len(t) = Len(s) + y[n] /\ y[n] \in Nat
        BY <1>1, <1>2, <1>3
      <4>2. \A e, q, l \in Int : \A m \in Nat : e + q <= l => e + q <= l + m
        OBVIOUS
      <4> QED
        BY <3>4, <3>6, <4>1, <4>2
    <3> QED
      BY <3>2, <3>3, <3>5, <3>7, <3>8 DEF p, a, d
  <2>2. CASE ~(i <= Len(s))
    <3>1. PICK j \in 1..y[n] : i = Len(s) + j
      <4>1. i - Len(s) \in 1..y[n] /\ i = Len(s) + (i - Len(s))
        BY <1>1, <1>2, <1>3, <2>2
      <4> QED
        BY <4>1
    <3>2. t[i] = [packet |-> n, at |-> j]
      BY <1>5, <3>1
    <3>3. t[i].packet = n /\ t[i].at = j /\ i - j = Len(s)
      BY <1>1, <3>1, <3>2
    <3>4. i - j + y[n] <= Len(t) /\ i - j >= 0
      BY <1>1, <1>2, <1>3, <3>3
    <3> QED
      BY <1>5, <3>3, <3>4
  <2> QED
    BY <2>1, <2>2
<1>7. Whole(t, y)
  BY <1>6 DEF Whole
<1> QED
  BY <1>2, <1>3, <1>4, <1>5, <1>7 DEF EndsWith, t, b

LEMMA Shift ==
    \A d, e, q, l, c \in Int :
        d = c + e /\ d >= c /\ d + q <= l => e >= 0 /\ e + q <= l - c
OBVIOUS

\* The packet in front may be taken off.
LEMMA WholeFront ==
    ASSUME NEW s \in Seq(Cells), NEW z \in Seq(Nat), Whole(s, z), Sorted(s), s /= <<>>, s[1].at = 1,
           NEW n, n = s[1].packet, NEW size, size = z[n]
    PROVE  /\ size \in Nat /\ size >= 1 /\ size <= Len(s) /\ n \in 1..Len(z)
           /\ \A k \in 1..size : s[k] = [packet |-> n, at |-> k]
           /\ \A i \in 1..Len(s) : i > size => s[i].packet > n /\ s[i].at <= i - size
<1>1. Len(s) \in Nat /\ Len(s) >= 1 /\ 1 \in 1..Len(s)
  OBVIOUS
<1>2. n \in 1..Len(z) /\ size \in Nat /\ size >= 1
  <2>1. s[1].packet \in 1..Len(z) /\ 1 \in 1..z[s[1].packet]
    BY <1>1 DEF Whole
  <2>2. n \in 1..Len(z) /\ 1 \in 1..size
    BY <2>1
  <2>3. size \in Nat
    BY <2>2
  <2> QED
    BY <2>2, <2>3
<1>3. 1 - 1 + size <= Len(s) /\ \A k \in 1..size : s[1 - 1 + k] = [packet |-> n, at |-> k]
  BY <1>1, Zenon DEF Whole
<1>4. size <= Len(s)
  BY <1>1, <1>2, <1>3
<1>5. \A k \in 1..size : s[k] = [packet |-> n, at |-> k] /\ k \in 1..Len(s)
  <2>1. \A k \in 1..size : 1 - 1 + k = k /\ k \in 1..Len(s)
    BY <1>1, <1>2, <1>4
  <2> QED
    BY <1>3, <2>1
<1>6. ASSUME NEW i \in 1..Len(s), i > size PROVE s[i].packet > n /\ s[i].at <= i - size
  <2> DEFINE p == s[i].packet  a == s[i].at
  <2>1. /\ p \in 1..Len(z) /\ a \in 1..z[p] /\ i - a >= 0
        /\ \A k \in 1..z[p] : s[i - a + k] = [packet |-> p, at |-> k]
    BY Zenon DEF Whole
  <2>2. z[p] \in Nat
    BY <2>1
  <2> HIDE DEF p, a
  <2>3. p \in Int /\ a \in Int /\ a >= 1 /\ a <= z[p] /\ n \in Int /\ i \in Int
    BY <1>1, <1>2, <2>1, <2>2
  <2>4. p > n
    <3>1. s[1].packet < p \/ s[1].packet = p
      BY <1>1, <1>2, <1>6 DEF Sorted, p
    <3>2. p /= n
      <4>1. SUFFICES ASSUME p = n PROVE FALSE
        OBVIOUS
      <4>2. a \in 1..size
        BY <1>2, <2>1, <4>1
      <4>3. s[a] = [packet |-> n, at |-> a] /\ a \in 1..Len(s) /\ a < i
        BY <1>2, <1>5, <1>6, <2>3, <4>2
      <4>4. s[a].packet = p /\ s[a].at = a
        BY <4>1, <4>3
      <4>5. s[a].packet < p \/ s[a].at < a
        BY <4>3 DEF Sorted, p, a
      <4> QED
        BY <2>3, <4>4, <4>5
    <3> QED
      BY <2>3, <3>1, <3>2
  <2>5. a <= i - size
    <3>1. SUFFICES ASSUME ~(a <= i - size) PROVE FALSE
      OBVIOUS
    <3>2. 1 \in 1..z[p]
      BY <2>2, <2>3
    <3>3. i - a + 1 \in 1..size
      BY <1>2, <1>6, <2>1, <2>3, <3>1
    <3>4. s[i - a + 1] = [packet |-> n, at |-> i - a + 1] /\ s[i - a + 1] = [packet |-> p, at |-> 1]
      BY <1>5, <2>1, <3>2, <3>3
    <3> QED
      BY <2>3, <2>4, <3>4
  <2> QED
    BY <2>4, <2>5 DEF p, a
<1> QED
  BY <1>2, <1>4, <1>5, <1>6

\* What is behind it is a line of whole packets.
LEMMA WholeRest ==
    ASSUME NEW s \in Seq(Cells), NEW z \in Seq(Nat), Whole(s, z), Sorted(s),
           NEW size \in 0..Len(s), \A i \in 1..Len(s) : i > size => s[i].at <= i - size,
           NEW r, r = SubSeq(s, size + 1, Len(s))
    PROVE  /\ r \in Seq(Cells) /\ Len(r) = Len(s) - size
           /\ \A i \in 1..Len(r) : r[i] = s[size + i] /\ size + i \in 1..Len(s)
           /\ Whole(r, z) /\ Sorted(r)
<1>1. Len(s) \in Nat /\ size \in Nat /\ size <= Len(s)
  OBVIOUS
<1>2. size + 1 \in 1..(Len(s) + 1) /\ Len(s) \in ((size + 1) - 1)..Len(s)
  BY <1>1
<1>3. /\ r \in Seq(Cells) /\ Len(r) = Len(s) - (size + 1) + 1
      /\ \A i \in 1..(Len(s) - (size + 1) + 1) : r[i] = s[size + 1 + i - 1]
  BY <1>2, SubSeqProperties
<1>4. Len(r) = Len(s) - size
  BY <1>1, <1>3
<1>5. ASSUME NEW i \in 1..Len(r) PROVE r[i] = s[size + i] /\ size + i \in 1..Len(s)
  <2>1. i \in 1..(Len(s) - (size + 1) + 1) /\ size + 1 + i - 1 = size + i /\ size + i \in 1..Len(s)
    BY <1>1, <1>4
  <2> QED
    BY <1>3, <2>1
<1>6. ASSUME NEW i \in 1..Len(r)
      PROVE  /\ r[i].packet \in 1..Len(z) /\ r[i].at \in 1..z[r[i].packet]
             /\ i - r[i].at >= 0 /\ i - r[i].at + z[r[i].packet] <= Len(r)
             /\ \A k \in 1..z[r[i].packet] :
                  r[i - r[i].at + k] = [packet |-> r[i].packet, at |-> k]
  <2> DEFINE p == r[i].packet  a == r[i].at  d == (size + i) - a  e == i - a
  <2>1. s[size + i] = r[i] /\ size + i \in 1..Len(s) /\ size + i > size /\ (size + i) - size = i
    BY <1>1, <1>5
  <2>2. /\ p \in 1..Len(z) /\ a \in 1..z[p] /\ d + z[p] <= Len(s)
        /\ \A k \in 1..z[p] : s[d + k] = [packet |-> p, at |-> k]
    <3>1. PICK j \in 1..Len(s) : j = size + i
      BY <2>1
    <3>2. /\ s[j].packet \in 1..Len(z) /\ s[j].at \in 1..z[s[j].packet]
          /\ j - s[j].at + z[s[j].packet] <= Len(s)
          /\ \A k \in 1..z[s[j].packet] :
               s[j - s[j].at + k] = [packet |-> s[j].packet, at |-> k]
      BY Zenon DEF Whole
    <3>3. s[j] = r[i]
      BY <2>1, <3>1
    <3>4. s[j].packet = p /\ s[j].at = a
      BY <3>3, Zenon
    <3>5. j - a = d
      BY <3>1, Zenon
    <3> HIDE DEF p, a, d
    <3> QED
      BY <3>2, <3>4, <3>5
  <2>3. a <= i
    BY <2>1
  <2>4. z[p] \in Int /\ a \in Int /\ i \in Int
    <3> HIDE DEF p, a, d, e
    <3>1. p \in 1..Len(z) => z[p] \in Nat
      BY ElementOfSeq
    <3> QED
      BY <2>2, <3>1
  <2>5. d \in Int /\ e \in Int /\ d = size + e /\ d >= size
    <3>1. \A m, j, b \in Int :
            b <= j => /\ (m + j) - b \in Int /\ j - b \in Int
                      /\ (m + j) - b = m + (j - b) /\ (m + j) - b >= m
      OBVIOUS
    <3>2. size \in Int
      BY <1>1
    <3> HIDE DEF p, a
    <3> QED
      BY <2>3, <2>4, <3>1, <3>2
  <2> HIDE DEF p, a, d, e
  <2>6. e >= 0 /\ e + z[p] <= Len(s) - size
    BY <1>1, <2>2, <2>4, <2>5, Shift
  <2>7. ASSUME NEW k \in 1..z[p] PROVE r[e + k] = [packet |-> p, at |-> k]
    <3>1. Len(r) \in Int /\ e + z[p] <= Len(r)
      BY <1>1, <1>4, <2>6
    <3>2. e + k \in 1..Len(r)
      BY <2>4, <2>5, <2>6, <3>1, Within
    <3>3. k \in Int
      BY <2>4
    <3>4. size + (e + k) = d + k
      BY <1>1, <2>5, <3>3
    <3> QED
      BY <1>5, <2>2, <3>2, <3>4
  <2> QED
    BY <1>4, <2>2, <2>6, <2>7 DEF p, a, e
<1>7. Whole(r, z)
  BY <1>6, Zenon DEF Whole
<1>8. Sorted(r)
  <2>1. SUFFICES ASSUME NEW i \in 1..Len(r), NEW j \in 1..Len(r), i < j
                 PROVE  \/ r[i].packet < r[j].packet
                        \/ r[i].packet = r[j].packet /\ r[i].at < r[j].at
    BY DEF Sorted
  <2>2. size + i < size + j
    BY <1>1, <2>1
  <2>3. /\ r[i] = s[size + i] /\ size + i \in 1..Len(s)
        /\ r[j] = s[size + j] /\ size + j \in 1..Len(s)
    BY <1>5
  <2>4. \/ s[size + i].packet < s[size + j].packet
        \/ s[size + i].packet = s[size + j].packet /\ s[size + i].at < s[size + j].at
    BY <2>2, <2>3, Zenon DEF Sorted
  <2> QED
    BY <2>3, <2>4, Zenon
<1> QED
  BY <1>3, <1>4, <1>5, <1>7, <1>8

LEMMA WholeMore ==
    ASSUME NEW s \in Seq(Cells), NEW z \in Seq(Nat), Whole(s, z), NEW size \in Nat
    PROVE  Whole(s, Append(z, size))
<1> DEFINE y == Append(z, size)
<1>1. Len(y) = Len(z) + 1 /\ Len(z) \in Nat /\ \A i \in 1..Len(z) : y[i] = z[i] /\ i \in 1..Len(y)
  OBVIOUS
<1> HIDE DEF y
<1>2. ASSUME NEW i \in 1..Len(s)
      PROVE  /\ s[i].packet \in 1..Len(y) /\ s[i].at \in 1..y[s[i].packet]
             /\ i - s[i].at >= 0 /\ i - s[i].at + y[s[i].packet] <= Len(s)
             /\ \A k \in 1..y[s[i].packet] :
                  s[i - s[i].at + k] = [packet |-> s[i].packet, at |-> k]
  <2>1. y[s[i].packet] = z[s[i].packet] /\ s[i].packet \in 1..Len(y)
    BY <1>1 DEF Whole
  <2> QED
    BY <2>1, Zenon DEF Whole
<1> QED
  BY <1>2, Zenon DEF Whole, y

\* A packet with the greatest number may be put at the end.
LEMMA SortedAppend ==
    ASSUME NEW s \in Seq(Cells), Sorted(s), NEW n \in Nat, NEW size \in Nat,
           \A i \in 1..Len(s) : s[i].packet < n,
           NEW t, EndsWith(t, s, n, size)
    PROVE  Sorted(t)
<1>1. SUFFICES ASSUME NEW i \in 1..Len(t), NEW j \in 1..Len(t), i < j
               PROVE  \/ t[i].packet < t[j].packet
                      \/ t[i].packet = t[j].packet /\ t[i].at < t[j].at
  BY DEF Sorted
<1>2. /\ Len(s) \in Nat /\ Len(t) = Len(s) + size /\ \A k \in 1..Len(s) : t[k] = s[k]
      /\ \A k \in 1..size : t[Len(s) + k] = [packet |-> n, at |-> k]
  BY DEF EndsWith
<1>3. CASE j <= Len(s)
  <2>1. i \in 1..Len(s) /\ j \in 1..Len(s) /\ t[i] = s[i] /\ t[j] = s[j]
    BY <1>1, <1>2, <1>3
  <2>2. \/ s[i].packet < s[j].packet
        \/ s[i].packet = s[j].packet /\ s[i].at < s[j].at
    BY <1>1, <2>1, Zenon DEF Sorted
  <2> QED
    BY <2>1, <2>2, Zenon
<1>4. CASE ~(j <= Len(s))
  <2>1. j - Len(s) \in 1..size /\ Len(s) + (j - Len(s)) = j
    BY <1>2, <1>4
  <2>2. t[j] = [packet |-> n, at |-> j - Len(s)]
    BY <1>2, <2>1
  <2>3. t[j].packet = n /\ t[j].at = j - Len(s)
    BY <2>2
  <2>4. CASE i <= Len(s)
    <3>1. i \in 1..Len(s) /\ t[i] = s[i]
      BY <1>2, <2>4
    <3>2. s[i].packet < n
      BY <3>1
    <3> QED
      BY <2>3, <3>1, <3>2, Zenon
  <2>5. CASE ~(i <= Len(s))
    <3>1. i - Len(s) \in 1..size /\ Len(s) + (i - Len(s)) = i /\ i - Len(s) < j - Len(s)
      BY <1>1, <1>2, <2>5
    <3>2. t[i] = [packet |-> n, at |-> i - Len(s)]
      BY <1>2, <3>1
    <3>3. t[i].packet = n /\ t[i].at = i - Len(s)
      BY <3>2
    <3> QED
      BY <2>3, <3>1, <3>3, Zenon
  <2> QED
    BY <2>4, <2>5
<1> QED
  BY <1>3, <1>4

------------------------------------------------------------------------------
(* netWrite() *)

\* What a flush sends and what it leaves are the record.
LEMMA Parts ==
    ASSUME NEW r \in Seq(Cells), NEW k \in 0..Len(r)
    PROVE  /\ SubSeq(r, 1, k) \in Seq(Cells) /\ SubSeq(r, k + 1, Len(r)) \in Seq(Cells)
           /\ SubSeq(r, 1, k) \o SubSeq(r, k + 1, Len(r)) = r
           /\ (SubSeq(r, k + 1, Len(r)) = <<>>) <=> (k = Len(r))
           /\ \A i \in 1..Len(SubSeq(r, k + 1, Len(r))) :
                \E j \in 1..Len(r) : SubSeq(r, k + 1, Len(r))[i] = r[j]
<1>1. Len(r) \in Nat /\ k \in Nat /\ k <= Len(r)
  OBVIOUS
<1>2. 1 \in 1..(Len(r) + 1) /\ k \in (1 - 1)..Len(r) /\ Len(r) \in k..Len(r)
  BY <1>1
<1>3. SubSeq(r, 1, k) \o SubSeq(r, k + 1, Len(r)) = r
  BY <1>2, ConcatAdjacentSubSeq, SubSeqFull
<1>4. SubSeq(r, 1, k) \in Seq(Cells)
  <2>1. \A i \in 1..k : r[i] \in Cells
    BY <1>1
  <2> QED
    BY <1>1, <2>1, SubSeqProperties
<1>5. /\ SubSeq(r, k + 1, Len(r)) \in Seq(Cells)
      /\ Len(SubSeq(r, k + 1, Len(r))) = Len(r) - k
      /\ \A i \in 1..(Len(r) - k) :
           SubSeq(r, k + 1, Len(r))[i] = r[k + i] /\ k + i \in 1..Len(r)
  <2>1. \A i \in (k + 1)..Len(r) : r[i] \in Cells
    BY <1>1
  <2>2. /\ SubSeq(r, k + 1, Len(r)) \in Seq(Cells)
        /\ Len(SubSeq(r, k + 1, Len(r))) = IF k + 1 <= Len(r) THEN Len(r) - (k + 1) + 1 ELSE 0
        /\ \A i \in 1..(Len(r) - (k + 1) + 1) : SubSeq(r, k + 1, Len(r))[i] = r[k + 1 + i - 1]
    BY <1>1, <2>1, SubSeqProperties
  <2>3. Len(r) - (k + 1) + 1 = Len(r) - k /\ (~(k + 1 <= Len(r)) => Len(r) - k = 0)
    BY <1>1
  <2>4. ASSUME NEW i \in 1..(Len(r) - k)
        PROVE  SubSeq(r, k + 1, Len(r))[i] = r[k + i] /\ k + i \in 1..Len(r)
    <3>1. k + 1 + i - 1 = k + i /\ k + i \in 1..Len(r)
      BY <1>1
    <3> QED
      BY <2>2, <2>3, <3>1
  <2> QED
    BY <2>2, <2>3, <2>4
<1>6. (SubSeq(r, k + 1, Len(r)) = <<>>) <=> (k = Len(r))
  <2>1. \A u \in Seq(Cells) : u = <<>> <=> Len(u) = 0
    OBVIOUS
  <2>2. Len(r) - k = 0 <=> k = Len(r)
    BY <1>1
  <2> QED
    BY <1>5, <2>1, <2>2
<1> QED
  BY <1>3, <1>4, <1>5, <1>6

LEMMA FlushPart ==
    ASSUME NEW count \in Nat, NEW k \in FlushTakes(count)
    PROVE  k \in 0..count /\ (k = count \/ setup.full)
BY DEF FlushTakes, Takes

\* A record that is kept goes out in place of the packet, and the line is the same.
LEMMA RestWrite ==
    ASSUME KindInv, pending /= <<>>, setup.tls,
           NEW n, NEW size \in Nat \ {0}, size <= MaxRecord, NEW rc, NetWrite(n, size, rc)
    PROVE  /\ stream' \in Seq(Cells) /\ pending' \in Seq(Cells)
           /\ Line' = Line
           /\ rc = size <=> pending' = <<>>
           /\ pending' /= <<>> => setup.full
           /\ \A i \in 1..Len(pending') : \E j \in 1..Len(pending) : pending'[i] = pending[j]
<1>1. stream \in Seq(Cells) /\ pending \in Seq(Cells) /\ Len(pending) \in Nat
  BY DEF KindInv
<1>2. PICK k \in FlushTakes(Len(pending)) :
        /\ stream' = stream \o SubSeq(pending, 1, k)
        /\ pending' = SubSeq(pending, k + 1, Len(pending))
        /\ rc = IF pending' = <<>> THEN Least(size, MaxRecord) ELSE 0
  BY DEF NetWrite, WriteTls
<1>3. k \in 0..Len(pending) /\ (k = Len(pending) \/ setup.full)
  BY <1>1, FlushPart
<1> DEFINE a == SubSeq(pending, 1, k)  b == SubSeq(pending, k + 1, Len(pending))
<1>4. /\ a \in Seq(Cells) /\ b \in Seq(Cells) /\ a \o b = pending
      /\ b = <<>> <=> k = Len(pending)
      /\ \A i \in 1..Len(b) : \E j \in 1..Len(pending) : b[i] = pending[j]
  BY <1>1, <1>3, Parts
<1>5. stream' = stream \o a /\ pending' = b
  BY <1>2
<1> HIDE DEF a, b
<1>6. stream' \in Seq(Cells)
  BY <1>1, <1>4, <1>5, ConcatProperties
<1>7. Line' = Line
  <2>1. stream \in Seq(Cells) /\ a \in Seq(Cells) /\ b \in Seq(Cells)
    BY <1>1, <1>4
  <2>2. (stream \o a) \o b = stream \o (a \o b)
    BY <2>1, ConcatAssociative
  <2> QED
    BY <1>4, <1>5, <2>2 DEF Line
<1>8. rc = size <=> pending' = <<>>
  <2>1. Least(size, MaxRecord) = size /\ size /= 0
    BY SenderAssumption DEF Least
  <2> QED
    BY <1>2, <2>1
<1> QED
  BY <1>3, <1>4, <1>5, <1>6, <1>7, <1>8

\* With nothing kept, the packet is put at the end of the line, or without TLS
\* nothing is.
Written(n, size, rc) ==
    /\ stream' \in Seq(Cells) /\ pending' \in Seq(Cells)
    /\ pending' /= <<>> => setup.full /\ setup.tls /\ rc /= size
    /\ rc /= size => setup.full
    /\ \A i \in 1..Len(pending') : pending'[i].packet = n
    /\ \/ Line' = Line \o Bytes(n, size) /\ (rc = size <=> pending' = <<>>)
       \/ Line' = Line /\ pending' = <<>> /\ rc = 0 /\ ~setup.tls

LEMMA FreshWrite ==
    ASSUME SenderAssumption, KindInv, Orderly(setup), pending = <<>>,
           NEW n \in Nat, NEW size \in Nat \ {0}, setup.tls => size <= MaxRecord,
           NEW rc \in 0..size, NetWrite(n, size, rc)
    PROVE  Written(n, size, rc)
<1> DEFINE r == Bytes(n, size)
<1>1. r \in Seq(Cells) /\ Len(r) = size /\ \A i \in 1..size : r[i] = [packet |-> n, at |-> i]
  BY BytesCells
<1>2. stream \in Seq(Cells) /\ <<>> \in Seq(Cells) /\ stream \o <<>> = stream /\ Line = stream
  <2>1. stream \in Seq(Cells)
    BY DEF KindInv
  <2>2. stream \o <<>> = stream
    BY <2>1, ConcatEmptySeq
  <2> QED
    BY <2>1, <2>2 DEF Line
<1>3. CASE setup.tls
  <2>1. Least(size, MaxRecord) = size
    BY <1>3 DEF Least, SenderAssumption
  <2>2. PICK k \in FlushTakes(Len(r)) :
          /\ stream' = stream \o SubSeq(r, 1, k)
          /\ pending' = SubSeq(r, k + 1, Len(r))
          /\ rc = IF pending' = <<>> THEN size ELSE 0
    BY <1>3, <2>1 DEF NetWrite, WriteTls
  <2> HIDE DEF r
  <2>3. k \in 0..Len(r) /\ (k = Len(r) \/ setup.full)
    BY <1>1, FlushPart
  <2> DEFINE a == SubSeq(r, 1, k)  b == SubSeq(r, k + 1, Len(r))
  <2>4. /\ a \in Seq(Cells) /\ b \in Seq(Cells) /\ a \o b = r
        /\ b = <<>> <=> k = Len(r)
        /\ \A i \in 1..Len(b) : \E j \in 1..Len(r) : b[i] = r[j]
    BY <1>1, <2>3, Parts
  <2>5. stream' = stream \o a /\ pending' = b
    BY <2>2
  <2> HIDE DEF a, b
  <2>6. stream' \in Seq(Cells)
    BY <1>2, <2>4, <2>5, ConcatProperties
  <2>7. Line' = Line \o r
    <3>1. stream \in Seq(Cells) /\ a \in Seq(Cells) /\ b \in Seq(Cells)
      BY <1>2, <2>4
    <3>2. (stream \o a) \o b = stream \o (a \o b)
      BY <3>1, ConcatAssociative
    <3> QED
      BY <1>2, <2>4, <2>5, <3>2 DEF Line
  <2>8. rc = size <=> pending' = <<>>
    BY <2>2
  <2>9. \A i \in 1..Len(pending') : pending'[i].packet = n
    <3> TAKE i \in 1..Len(pending')
    <3>1. PICK j \in 1..size : b[i] = r[j]
      BY <1>1, <2>4, <2>5
    <3>2. b[i] = [packet |-> n, at |-> j]
      BY <1>1, <3>1
    <3> QED
      BY <2>5, <3>2
  <2> QED
    BY <1>3, <2>3, <2>4, <2>5, <2>6, <2>7, <2>8, <2>9 DEF r, Written
<1>4. CASE ~setup.tls
  <2>1. rc \in Takes(size) /\ stream' = stream \o SubSeq(r, 1, rc) /\ pending' = <<>>
    BY <1>4 DEF NetWrite, WritePlain
  <2>2. rc = size \/ (rc = 0 /\ setup.full)
    BY <1>4, <2>1 DEF Takes, Orderly
  <2> HIDE DEF r
  <2>3. CASE rc = size
    <3>1. SubSeq(r, 1, rc) = r
      BY <1>1, <2>3, SubSeqFull
    <3>2. stream' = stream \o r /\ stream' \in Seq(Cells)
      BY <1>1, <1>2, <2>1, <3>1, ConcatProperties
    <3>3. Line' = Line \o r
      <4>1. stream' \o <<>> = stream'
        BY <3>2, ConcatEmptySeq
      <4> QED
        BY <1>2, <2>1, <3>2, <4>1 DEF Line
    <3> QED
      BY <1>2, <2>1, <2>3, <3>2, <3>3 DEF r, Written
  <2>4. CASE rc = 0 /\ setup.full
    <3>1. SubSeq(r, 1, rc) = <<>>
      BY <2>4, SubSeqEmpty
    <3>2. stream' = stream
      BY <1>2, <2>1, <3>1
    <3>3. Line' = Line
      BY <2>1, <3>2 DEF Line
    <3>4. \A i \in 1..Len(pending') : pending'[i].packet = n
      <4>1. Len(pending') = 0
        BY <2>1
      <4> QED
        BY <4>1
    <3>5. stream' \in Seq(Cells) /\ pending' \in Seq(Cells)
      BY <1>2, <2>1, <3>2
    <3>6. Line' = Line /\ pending' = <<>> /\ rc = 0 /\ ~setup.tls /\ setup.full
      BY <1>4, <2>1, <2>4, <3>3
    <3> QED
      BY <3>4, <3>5, <3>6 DEF Written
  <2> QED
    BY <2>2, <2>3, <2>4
<1> QED
  BY <1>3, <1>4

------------------------------------------------------------------------------
(* The steps *)

Assumed == SenderAssumption /\ (\A s \in Setups : Orderly(s)) /\ AtMostARecord

LEMMA Basics ==
    ASSUME Assumed, KindInv
    PROVE  /\ setup \in Setups /\ Orderly(setup)
           /\ stream \in Seq(Cells) /\ pending \in Seq(Cells) /\ Line \in Seq(Cells)
           /\ Len(stream) \in Nat /\ Len(pending) \in Nat /\ Len(Line) = Len(stream) + Len(pending)
           /\ \A i \in 1..Len(stream) : Line[i] = stream[i] /\ i \in 1..Len(Line)
           /\ \A i \in 1..Len(pending) :
                Line[Len(stream) + i] = pending[i] /\ Len(stream) + i \in 1..Len(Line)
           /\ packets \in Seq(Nat) /\ Len(packets) \in Nat
           /\ \A n \in 1..Len(packets) : packets[n] \in Sizes
           /\ \A size \in Sizes : size \in Nat \ {0} /\ (setup.tls => size <= MaxRecord)
           /\ received \in Seq(Nat) /\ Count \in Nat
<1>1. setup \in Setups /\ Orderly(setup)
  BY DEF Assumed, KindInv
<1>2. stream \in Seq(Cells) /\ pending \in Seq(Cells) /\ Len(stream) \in Nat /\ Len(pending) \in Nat
  BY DEF KindInv
<1>3. /\ Line \in Seq(Cells) /\ Len(Line) = Len(stream) + Len(pending)
      /\ \A i \in 1..(Len(stream) + Len(pending)) :
           Line[i] = IF i <= Len(stream) THEN stream[i] ELSE pending[i - Len(stream)]
  <2>1. stream \in Seq(Cells) /\ pending \in Seq(Cells)
    BY <1>2
  <2> QED
    BY <2>1, ConcatProperties DEF Line
<1>4. \A i \in 1..Len(stream) : Line[i] = stream[i] /\ i \in 1..Len(Line)
  <2> TAKE i \in 1..Len(stream)
  <2>1. i \in 1..(Len(stream) + Len(pending)) /\ i <= Len(stream)
    BY <1>2
  <2> QED
    BY <1>3, <2>1
<1>5. \A i \in 1..Len(pending) : Line[Len(stream) + i] = pending[i] /\ Len(stream) + i \in 1..Len(Line)
  <2> TAKE i \in 1..Len(pending)
  <2>1. /\ Len(stream) + i \in 1..(Len(stream) + Len(pending)) /\ ~(Len(stream) + i <= Len(stream))
        /\ (Len(stream) + i) - Len(stream) = i
    BY <1>2
  <2> QED
    BY <1>3, <2>1
<1>6. \A size \in Sizes : size \in Nat \ {0} /\ (setup.tls => size <= MaxRecord)
  BY <1>1 DEF Assumed, SenderAssumption, AtMostARecord
<1>7. packets \in Seq(Sizes) /\ Sizes \subseteq Nat
  BY DEF KindInv, Assumed, SenderAssumption
<1>8. packets \in Seq(Nat) /\ Len(packets) \in Nat /\ \A n \in 1..Len(packets) : packets[n] \in Sizes
  BY <1>7, SeqMonotonic, ElementOfSeq, LenProperties
<1>9. received \in Seq(Nat) /\ Count \in Nat
  BY DEF KindInv, Count
<1> QED
  BY <1>1, <1>2, <1>3, <1>4, <1>5, <1>6, <1>8, <1>9

\* The packets a longer list of packets has are those of the shorter, and one more.
LEMMA PacketsGrow ==
    ASSUME Assumed, KindInv, NEW size \in Sizes, NEW y, y = Append(packets, size)
    PROVE  /\ y \in Seq(Sizes) /\ y \in Seq(Nat) /\ Len(y) = Len(packets) + 1
           /\ y[Len(packets) + 1] = size
           /\ \A n \in 1..Len(packets) : y[n] = packets[n]
<1>1. packets \in Seq(Sizes) /\ Sizes \subseteq Nat
  BY DEF KindInv, Assumed, SenderAssumption
<1>2. /\ y \in Seq(Sizes) /\ Len(y) = Len(packets) + 1 /\ y[Len(packets) + 1] = size
      /\ \A n \in 1..Len(packets) : y[n] = packets[n]
  BY <1>1, AppendProperties
<1>3. y \in Seq(Nat)
  BY <1>1, <1>2, SeqMonotonic
<1> QED
  BY <1>2, <1>3

\* A new packet, when none is owed, keeps the line in order.
LEMMA NewPacket ==
    ASSUME Assumed, IInv, owed = 0, NEW size \in Sizes, NEW rc \in 0..size,
           NetWrite(Len(packets) + 1, size, rc), Len(packets) < MaxPackets,
           packets' = Append(packets, size), UNCHANGED <<setup, received>>,
           \/ reported' = reported /\ owed' = 0 /\ ~setup.full
           \/ /\ reported' = IF rc = size THEN reported \union {Len(packets) + 1} ELSE reported
              /\ owed' = IF rc = size THEN 0 ELSE Len(packets) + 1
    PROVE  IInv'
<1> DEFINE n == Len(packets) + 1
<1>1. KindInv /\ Whole(Line, packets) /\ OrderInv /\ ReceivedInv /\ OwedInv
  BY DEF IInv
<1>2. /\ Orderly(setup) /\ Line \in Seq(Cells) /\ Len(Line) \in Nat /\ Count \in Nat
      /\ packets \in Seq(Nat) /\ Len(packets) \in Nat
      /\ size \in Nat \ {0} /\ (setup.tls => size <= MaxRecord)
  BY <1>1, Basics
<1>3. /\ packets' \in Seq(Sizes) /\ packets' \in Seq(Nat) /\ Len(packets') = n
      /\ packets'[n] = size /\ \A m \in 1..Len(packets) : packets'[m] = packets[m]
  BY <1>1, PacketsGrow
<1>4. n \in Nat /\ n >= 1 /\ n \in 1..Len(packets') /\ Len(packets) <= Len(packets')
  BY <1>2, <1>3
<1>5. pending = <<>>
  BY <1>1 DEF OwedInv
<1>6. /\ stream' \in Seq(Cells) /\ pending' \in Seq(Cells)
      /\ pending' /= <<>> => setup.full /\ setup.tls /\ rc /= size
      /\ rc /= size => setup.full
      /\ \A i \in 1..Len(pending') : pending'[i].packet = n
      /\ \/ Line' = Line \o Bytes(n, size) /\ (rc = size <=> pending' = <<>>)
         \/ Line' = Line /\ pending' = <<>> /\ rc = 0 /\ ~setup.tls
  <2>1. SenderAssumption /\ n \in Nat /\ NetWrite(n, size, rc) /\ rc \in 0..size
    BY <1>4 DEF Assumed
  <2> HIDE DEF n
  <2>2. Written(n, size, rc)
    BY <1>1, <1>2, <1>5, <2>1, FreshWrite, Zenon
  <2> QED
    BY <2>2 DEF Written
<1> HIDE DEF n
<1>7. /\ (owed' = 0 <=> rc = size) /\ owed' \in {0, n} /\ (owed' /= 0 => setup.full)
      /\ reported' \subseteq reported \union {n} /\ (owed' /= 0 => reported' = reported)
  BY <1>4, <1>6 DEF n
<1>8. setup' = setup /\ received' = received /\ Count' = Count
  BY DEF Count
<1>9. \A i \in 1..Len(Line) : Line[i].packet \in 1..Len(packets)
  BY <1>1 DEF Whole
<1>10. \A i \in 1..Len(Line) : Line[i].packet < n /\ Line[i].packet > Count
  <2>1. \A m \in 1..Len(packets) : m < n
    BY <1>2 DEF n
  <2> QED
    BY <1>1, <1>9, <2>1 DEF OrderInv
<1>11. Count < n /\ reported \subseteq 1..Len(packets)
  BY <1>1, <1>2 DEF ReceivedInv, KindInv, n
<1>12. \A m \in (Count + 1)..Len(packets) : \E i \in 1..Len(Line) : Line[i].packet = m
  <2> TAKE m \in (Count + 1)..Len(packets)
  <2>1. m /= owed
    BY <1>2
  <2> QED
    BY <1>1, <2>1 DEF OrderInv
<1>13. KindInv'
  <2>1. setup' \in Setups /\ received' \in Seq(Nat)
    BY <1>1, <1>8 DEF KindInv
  <2>2. Len(packets') <= MaxPackets
    BY <1>2, <1>3 DEF n, Assumed, SenderAssumption
  <2>3. reported' \subseteq 1..Len(packets')
    BY <1>2, <1>3, <1>4, <1>7, <1>11
  <2>4. owed' \in 0..Len(packets')
    BY <1>3, <1>4, <1>7
  <2> QED
    BY <1>3, <1>6, <2>1, <2>2, <2>3, <2>4 DEF KindInv
<1>14. ReceivedInv'
  <2>1. Count <= Len(packets')
    BY <1>2, <1>3, <1>11
  <2> QED
    BY <1>1, <1>8, <2>1 DEF ReceivedInv
<1>15. CASE Line' = Line \o Bytes(n, size) /\ (rc = size <=> pending' = <<>>)
  <2>1. Whole(Line', packets') /\ EndsWith(Line', Line, n, size)
    <3> DEFINE t == Line \o Bytes(n, packets'[n])
    <3>1. /\ Whole(Line, packets) /\ Line \in Seq(Cells) /\ packets \in Seq(Nat) /\ packets' \in Seq(Nat)
          /\ n \in 1..Len(packets')
      BY <1>1, <1>2, <1>3, <1>4
    <3>2. Extends(packets', packets)
      BY <1>3, <1>4 DEF Extends
    <3>3. Whole(t, packets') /\ EndsWith(t, Line, n, packets'[n])
      BY <3>1, <3>2, WholeAppend, Zenon
    <3>4. Line' = t /\ size = packets'[n]
      BY <1>3, <1>15
    <3> HIDE DEF t
    <3> QED
      BY <3>3, <3>4
  <2>2. /\ Len(Line') = Len(Line) + size
        /\ \A i \in 1..Len(Line) : Line'[i] = Line[i]
        /\ \A i \in 1..size : Line'[Len(Line) + i] = [packet |-> n, at |-> i]
    BY <2>1 DEF EndsWith
  <2>3. Sorted(Line')
    BY <1>1, <1>2, <1>4, <1>10, <2>1, SortedAppend DEF OrderInv
  <2>4. ASSUME NEW i \in 1..Len(Line') PROVE Line'[i].packet > Count
    <3>1. CASE i <= Len(Line)
      <4>1. i \in 1..Len(Line)
        BY <1>2, <3>1
      <4> QED
        BY <1>10, <2>2, <4>1
    <3>2. CASE ~(i <= Len(Line))
      <4>1. i - Len(Line) \in 1..size /\ Len(Line) + (i - Len(Line)) = i
        BY <1>2, <2>2, <3>2
      <4>2. Line'[i] = [packet |-> n, at |-> i - Len(Line)]
        BY <2>2, <4>1
      <4>3. Line'[i].packet = n
        BY <4>2
      <4> QED
        BY <1>2, <1>4, <1>11, <4>3
    <3> QED
      BY <3>1, <3>2
  <2>5. ASSUME NEW m \in (Count + 1)..Len(packets') PROVE \E i \in 1..Len(Line') : Line'[i].packet = m
    <3>1. CASE m = n
      <4>1. 1 \in 1..size /\ Len(Line) + 1 \in 1..Len(Line')
        BY <1>2, <2>2
      <4>2. Line'[Len(Line) + 1] = [packet |-> n, at |-> 1]
        BY <2>2, <4>1
      <4>3. Line'[Len(Line) + 1].packet = m
        BY <3>1, <4>2
      <4> QED
        BY <4>1, <4>3
    <3>2. CASE m /= n
      <4>1. m \in (Count + 1)..Len(packets)
        BY <1>2, <1>3, <3>2 DEF n
      <4>2. PICK i \in 1..Len(Line) : Line[i].packet = m
        BY <1>12, <4>1
      <4>3. i \in 1..Len(Line')
        BY <1>2, <2>2
      <4> QED
        BY <2>2, <4>2, <4>3
    <3> QED
      BY <3>1, <3>2
  <2>6. OrderInv'
    <3>1. \A i \in 1..Len(Line') : Line'[i].packet > Count'
      BY <1>8, <2>4
    <3>2. \A m \in (Count' + 1)..Len(packets') : \E i \in 1..Len(Line') : Line'[i].packet = m
      BY <1>8, <2>5
    <3> QED
      BY <2>3, <3>1, <3>2 DEF OrderInv
  <2>7. OwedInv'
    <3>1. owed' /= 0 => owed' = n /\ n \notin reported' /\ pending' /= <<>> /\ setup.full /\ setup.tls
      <4>1. n \notin reported
        BY <1>2, <1>11 DEF n
      <4> QED
        BY <1>6, <1>7, <1>15, <4>1
    <3>2. pending' /= <<>> => owed' = n /\ setup.tls
      BY <1>6, <1>7
    <3>3. pending' = <<>> => Len(pending') = 0
      OBVIOUS
    <3>4. \A i \in 1..Len(pending') : pending'[i].packet = owed'
      BY <1>6, <3>2, <3>3
    <3>5. owed' /= 0 => /\ owed' = Len(packets') /\ setup'.full /\ owed' \notin reported' /\ Count' < owed'
                        /\ pending' /= <<>> /\ setup'.tls
      BY <1>3, <1>8, <1>11, <3>1
    <3>6. pending' /= <<>> => setup'.tls /\ owed' /= 0
      BY <1>4, <1>8, <3>2
    <3> QED
      BY <3>4, <3>5, <3>6 DEF OwedInv
  <2> QED
    BY <1>13, <1>14, <2>1, <2>6, <2>7 DEF IInv
<1>16. CASE Line' = Line /\ pending' = <<>> /\ rc = 0 /\ ~setup.tls
  <2>1. Whole(Line', packets')
    BY <1>1, <1>2, <1>16, WholeMore
  <2>2. owed' = n
    BY <1>2, <1>7, <1>16
  <2>3. OrderInv'
    <3>1. Sorted(Line') /\ \A i \in 1..Len(Line') : Line'[i].packet > Count'
      BY <1>1, <1>8, <1>16 DEF OrderInv
    <3>2. ASSUME NEW m \in (Count' + 1)..Len(packets')
          PROVE  m = owed' \/ \E i \in 1..Len(Line') : Line'[i].packet = m
      <4>1. m = n \/ m \in (Count + 1)..Len(packets)
        BY <1>2, <1>3, <1>8 DEF n
      <4> QED
        BY <1>12, <1>16, <2>2, <4>1
    <3> QED
      BY <3>1, <3>2 DEF OrderInv
  <2>4. OwedInv'
    <3>1. n \notin reported
      BY <1>2, <1>11 DEF n
    <3>2. /\ owed' = Len(packets') /\ setup'.full /\ owed' \notin reported' /\ Count' < owed'
          /\ ~setup'.tls
      BY <1>3, <1>4, <1>7, <1>8, <1>11, <1>16, <2>2, <3>1
    <3>3. \A i \in 1..Len(Line') : Line'[i].packet /= owed'
      BY <1>4, <1>9, <1>10, <1>16, <2>2, <1>2
    <3>4. Len(pending') = 0
      BY <1>16
    <3>5. \A i \in 1..Len(pending') : pending'[i].packet = owed'
      BY <3>4
    <3> QED
      BY <1>16, <3>2, <3>3, <3>5 DEF OwedInv
  <2> QED
    BY <1>13, <1>14, <2>1, <2>3, <2>4 DEF IInv
<1> QED
  BY <1>6, <1>15, <1>16

LEMMA PublishStep ==
    ASSUME Assumed, IInv, NEW size \in Sizes, Publish(size)
    PROVE  IInv' /\ packets' = Append(packets, size) /\ received' = received
<1>1. owed = 0
  <2>1. setup.full => setup.repeats
    BY Basics DEF IInv, Orderly
  <2>2. owed /= 0 => setup.full
    BY DEF IInv, OwedInv
  <2> QED
    BY <2>1, <2>2 DEF Publish
<1>2. PICK rc \in 0..size :
        /\ NetWrite(Len(packets) + 1, size, rc)
        /\ reported' = IF rc = size THEN reported \union {Len(packets) + 1} ELSE reported
        /\ owed' = IF rc = size THEN 0 ELSE Len(packets) + 1
  BY DEF Publish, Call
<1>3. /\ Len(packets) < MaxPackets /\ packets' = Append(packets, size)
      /\ UNCHANGED <<setup, received>>
  BY DEF Publish
<1> QED
  BY <1>1, <1>2, <1>3, NewPacket

LEMMA ReplyStep ==
    ASSUME Assumed, IInv, NEW size \in Sizes, Reply(size)
    PROVE  IInv' /\ packets' = Append(packets, size) /\ received' = received
<1>1. ~setup.full
  BY Basics DEF IInv, Orderly, Reply
<1>2. owed = 0
  BY <1>1 DEF IInv, OwedInv
<1>3. PICK rc \in 0..size : NetWrite(Len(packets) + 1, size, rc)
  BY DEF Reply
<1>4. /\ Len(packets) < MaxPackets /\ packets' = Append(packets, size)
      /\ UNCHANGED <<setup, received>> /\ reported' = reported /\ owed' = 0
  BY <1>2 DEF Reply
<1> QED
  BY <1>1, <1>2, <1>3, <1>4, NewPacket

\* The packet owed is completed from what is kept, or put at the end, or still owed.
LEMMA RepeatStep ==
    ASSUME Assumed, IInv, Repeat
    PROVE  IInv' /\ packets' = packets /\ received' = received
<1> DEFINE size == packets[owed]
<1>1. KindInv /\ Whole(Line, packets) /\ OrderInv /\ ReceivedInv /\ OwedInv
  BY DEF IInv
<1>2. /\ Orderly(setup) /\ Line \in Seq(Cells) /\ Len(Line) \in Nat /\ Count \in Nat
      /\ packets \in Seq(Nat) /\ Len(packets) \in Nat
      /\ \A n \in 1..Len(packets) : packets[n] \in Nat \ {0} /\ (setup.tls => packets[n] <= MaxRecord)
  BY <1>1, Basics
<1>3. /\ owed /= 0 /\ owed = Len(packets) /\ setup.full /\ owed \notin reported /\ Count < owed
      /\ setup.tls => pending /= <<>>
      /\ ~setup.tls => pending = <<>> /\ \A i \in 1..Len(Line) : Line[i].packet /= owed
  BY <1>1 DEF Repeat, OwedInv
<1>4. ~setup.newIds
  BY <1>2, <1>3 DEF Orderly
<1>5. /\ packets' = packets /\ setup' = setup /\ received' = received /\ Count' = Count
      /\ Call(owed, size)
  BY <1>4 DEF Repeat, Count
<1>6. PICK rc \in 0..size :
        /\ NetWrite(owed, size, rc)
        /\ reported' = IF rc = size THEN reported \union {owed} ELSE reported
        /\ owed' = IF rc = size THEN 0 ELSE owed
  BY <1>5 DEF Call
<1>7. owed \in Nat /\ owed \in 1..Len(packets) /\ size \in Nat \ {0} /\ (setup.tls => size <= MaxRecord)
  BY <1>2, <1>3
<1> HIDE DEF size
<1>8. ReceivedInv'
  BY <1>1, <1>5 DEF ReceivedInv
<1>9. ASSUME stream' \in Seq(Cells), pending' \in Seq(Cells) PROVE KindInv'
  <2>1. setup' \in Setups /\ packets' \in Seq(Sizes) /\ Len(packets') <= MaxPackets /\ received' \in Seq(Nat)
    BY <1>1, <1>5 DEF KindInv
  <2>2. reported' \subseteq 1..Len(packets') /\ owed' \in 0..Len(packets')
    BY <1>1, <1>2, <1>5, <1>6, <1>7 DEF KindInv
  <2> QED
    BY <1>9, <2>1, <2>2 DEF KindInv
<1>10. CASE setup.tls
  <2>1. pending /= <<>> /\ size <= MaxRecord
    BY <1>3, <1>7, <1>10
  <2>2. /\ stream' \in Seq(Cells) /\ pending' \in Seq(Cells) /\ Line' = Line
        /\ rc = size <=> pending' = <<>>
        /\ \A i \in 1..Len(pending') : \E j \in 1..Len(pending) : pending'[i] = pending[j]
    BY <1>1, <1>6, <1>7, <1>10, <2>1, RestWrite
  <2>3. KindInv'
    BY <1>9, <2>2
  <2>4. Whole(Line', packets')
    BY <1>1, <1>5, <2>2
  <2>5. OrderInv'
    <3>1. Sorted(Line') /\ \A i \in 1..Len(Line') : Line'[i].packet > Count'
      BY <1>1, <1>5, <2>2 DEF OrderInv
    <3>2. \E i \in 1..Len(Line') : Line'[i].packet = owed
      <4>1. Len(pending) \in Nat /\ Len(pending) >= 1 /\ 1 \in 1..Len(pending)
        <5>1. pending \in Seq(Cells)
          BY <1>1 DEF KindInv
        <5> QED
          BY <2>1, <5>1
      <4>2. Line[Len(stream) + 1] = pending[1] /\ Len(stream) + 1 \in 1..Len(Line)
        BY <1>1, <4>1, Basics
      <4>3. pending[1].packet = owed
        BY <1>1, <4>1 DEF OwedInv
      <4> QED
        BY <2>2, <4>2, <4>3
    <3>3. ASSUME NEW m \in (Count' + 1)..Len(packets')
          PROVE  m = owed' \/ \E i \in 1..Len(Line') : Line'[i].packet = m
      <4>1. m = owed \/ \E i \in 1..Len(Line') : Line'[i].packet = m
        BY <1>1, <1>5, <2>2 DEF OrderInv
      <4> QED
        BY <3>2, <4>1
    <3> QED
      BY <3>1, <3>3 DEF OrderInv
  <2>6. OwedInv'
    <3>1. pending' /= <<>> <=> rc /= size
      BY <2>2
    <3>2. owed' /= 0 => owed' = owed /\ reported' = reported /\ pending' /= <<>>
      BY <1>6, <3>1
    <3>3. pending' /= <<>> => owed' = owed
      BY <1>6, <3>1
    <3>4. \A i \in 1..Len(pending') : pending'[i].packet = owed'
      <4>1. pending' = <<>> => Len(pending') = 0
        OBVIOUS
      <4>2. \A i \in 1..Len(pending) : pending[i].packet = owed
        BY <1>1 DEF OwedInv
      <4> QED
        BY <2>2, <3>3, <4>1, <4>2
    <3>5. owed' /= 0 => /\ owed' = Len(packets') /\ setup'.full /\ owed' \notin reported' /\ Count' < owed'
                        /\ pending' /= <<>> /\ setup'.tls
      BY <1>3, <1>5, <1>10, <3>2
    <3>6. pending' /= <<>> => setup'.tls /\ owed' /= 0
      BY <1>3, <1>5, <1>10, <3>3
    <3> QED
      BY <3>4, <3>5, <3>6 DEF OwedInv
  <2> QED
    BY <1>5, <1>8, <2>3, <2>4, <2>5, <2>6 DEF IInv
<1>11. CASE ~setup.tls
  <2>1. pending = <<>>
    BY <1>3, <1>11
  <2>2. /\ stream' \in Seq(Cells) /\ pending' \in Seq(Cells) /\ pending' = <<>>
        /\ \/ Line' = Line \o Bytes(owed, size) /\ rc = size
           \/ Line' = Line /\ rc = 0
    <3>1. /\ SenderAssumption /\ KindInv /\ Orderly(setup) /\ NetWrite(owed, size, rc)
          /\ size \in Nat \ {0} /\ (setup.tls => size <= MaxRecord)
      BY <1>1, <1>2, <1>6, <1>7 DEF Assumed
    <3>2. Written(owed, size, rc)
      BY <1>7, <2>1, <3>1, FreshWrite, Zenon
    <3> QED
      BY <1>11, <3>2 DEF Written
  <2>3. KindInv'
    BY <1>9, <2>2
  <2>4. Len(pending') = 0 /\ \A i \in 1..Len(pending') : pending'[i].packet = owed'
    <3>1. Len(pending') = 0
      BY <2>2
    <3> QED
      BY <3>1
  <2>5. CASE Line' = Line \o Bytes(owed, size) /\ rc = size
    <3> DEFINE t == Line \o Bytes(owed, packets[owed])
    <3>1. /\ owed \in 1..Len(packets) /\ Whole(Line, packets) /\ Line \in Seq(Cells) /\ packets \in Seq(Nat)
          /\ Extends(packets, packets)
      BY <1>1, <1>2, <1>7 DEF Extends
    <3>2. Whole(t, packets) /\ EndsWith(t, Line, owed, packets[owed])
      BY <3>1, WholeAppend, Zenon
    <3>3. Line' = t /\ size = packets[owed]
      BY <2>5 DEF size
    <3> HIDE DEF t
    <3>4. /\ Len(t) = Len(Line) + packets[owed]
          /\ \A i \in 1..Len(Line) : t[i] = Line[i]
          /\ \A i \in 1..packets[owed] : t[Len(Line) + i] = [packet |-> owed, at |-> i]
      BY <3>2 DEF EndsWith
    <3>5. \A i \in 1..Len(Line) : Line[i].packet < owed /\ Line[i].packet > Count
      <4>1. \A i \in 1..Len(Line) : Line[i].packet \in 1..Len(packets)
        BY <1>1 DEF Whole
      <4>2. \A i \in 1..Len(Line) : Line[i].packet /= owed
        BY <1>3, <1>11
      <4>3. \A m \in 1..Len(packets) : m /= owed => m < owed
        BY <1>2, <1>3
      <4> QED
        BY <1>1, <4>1, <4>2, <4>3 DEF OrderInv
    <3>6. Sorted(t)
      BY <1>1, <1>2, <1>7, <3>2, <3>3, <3>5, SortedAppend DEF OrderInv
    <3>7. ASSUME NEW i \in 1..Len(t) PROVE t[i].packet > Count
      <4>1. CASE i <= Len(Line)
        <5>1. i \in 1..Len(Line)
          BY <1>2, <4>1
        <5> QED
          BY <3>4, <3>5, <5>1
      <4>2. CASE ~(i <= Len(Line))
        <5>1. i - Len(Line) \in 1..packets[owed] /\ Len(Line) + (i - Len(Line)) = i
          BY <1>2, <1>7, <3>4, <3>3, <4>2
        <5>2. t[i] = [packet |-> owed, at |-> i - Len(Line)]
          BY <3>4, <5>1
        <5>3. t[i].packet = owed
          BY <5>2
        <5> QED
          BY <1>2, <1>3, <5>3
      <4> QED
        BY <4>1, <4>2
    <3>8. ASSUME NEW m \in (Count + 1)..Len(packets) PROVE \E i \in 1..Len(t) : t[i].packet = m
      <4>1. CASE m = owed
        <5>1. 1 \in 1..packets[owed] /\ Len(Line) + 1 \in 1..Len(t)
          BY <1>2, <1>7, <3>4, <3>3
        <5>2. t[Len(Line) + 1] = [packet |-> owed, at |-> 1]
          BY <3>4, <5>1
        <5>3. t[Len(Line) + 1].packet = m
          BY <4>1, <5>2
        <5> QED
          BY <5>1, <5>3
      <4>2. CASE m /= owed
        <5>1. PICK i \in 1..Len(Line) : Line[i].packet = m
          BY <1>1, <4>2 DEF OrderInv
        <5>2. i \in 1..Len(t)
          BY <1>2, <1>7, <3>4, <3>3
        <5> QED
          BY <3>4, <5>1, <5>2
      <4> QED
        BY <4>1, <4>2
    <3>9. OrderInv'
      <4>1. \A i \in 1..Len(Line') : Line'[i].packet > Count'
        BY <1>5, <3>3, <3>7
      <4>2. \A m \in (Count' + 1)..Len(packets') : \E i \in 1..Len(Line') : Line'[i].packet = m
        BY <1>5, <3>3, <3>8
      <4>3. Sorted(Line')
        BY <3>3, <3>6
      <4> QED
        BY <4>1, <4>2, <4>3 DEF OrderInv
    <3>10. OwedInv'
      <4>1. owed' = 0
        BY <1>6, <2>5
      <4> QED
        BY <2>2, <2>4, <4>1 DEF OwedInv
    <3>11. Whole(Line', packets')
      BY <1>5, <3>2, <3>3
    <3> QED
      BY <1>5, <1>8, <2>3, <3>9, <3>10, <3>11 DEF IInv
  <2>6. CASE Line' = Line /\ rc = 0
    <3>1. owed' = owed /\ reported' = reported
      BY <1>6, <1>7, <2>6
    <3>2. OrderInv' /\ Whole(Line', packets')
      BY <1>1, <1>5, <2>6, <3>1 DEF OrderInv
    <3>3. OwedInv'
      BY <1>3, <1>5, <1>11, <2>2, <2>4, <2>6, <3>1 DEF OwedInv
    <3> QED
      BY <1>5, <1>8, <2>3, <3>2, <3>3 DEF IInv
  <2> QED
    BY <2>2, <2>5, <2>6
<1> QED
  BY <1>5, <1>10, <1>11

\* To take the front off a sequence, and off one that goes on.
LEMMA RestOfBoth ==
    ASSUME NEW s \in Seq(Cells), NEW u \in Seq(Cells), NEW k \in 0..Len(s)
    PROVE  SubSeq(s, k + 1, Len(s)) \o u = SubSeq(s \o u, k + 1, Len(s \o u))
<1> DEFINE a == SubSeq(s, 1, k)  b == SubSeq(s, k + 1, Len(s))
<1>1. a \in Seq(Cells) /\ b \in Seq(Cells) /\ a \o b = s
  BY Parts
<1>2. Len(a) = k
  <2>1. Len(s) \in Nat /\ k \in Nat /\ \A i \in 1..k : s[i] \in Cells
    OBVIOUS
  <2> QED
    BY <2>1, SubSeqProperties
<1> HIDE DEF a, b
<1>3. b \o u \in Seq(Cells)
  BY <1>1, ConcatProperties
<1>4. s \o u = a \o (b \o u)
  <2>1. a \in Seq(Cells) /\ b \in Seq(Cells)
    BY <1>1
  <2>2. (a \o b) \o u = a \o (b \o u)
    BY <2>1, ConcatAssociative
  <2> QED
    BY <1>1, <2>2
<1>5. IsSeq(a) /\ IsSeq(b \o u)
  BY <1>1, <1>3 DEF IsSeq
<1>6. SubSeq(a \o (b \o u), Len(a) + 1, Len(a \o (b \o u))) = b \o u
  BY <1>5, SeqRest
<1> QED
  BY <1>2, <1>4, <1>6 DEF b

\* The broker takes the packet after the last.
LEMMA ReadStep ==
    ASSUME Assumed, IInv, BrokerReads
    PROVE  /\ IInv' /\ packets' = packets
           /\ received' = Append(received, Count + 1) /\ Count + 1 \in 1..Len(packets)
<1> DEFINE n == stream[1].packet  size == packets[n]
<1>1. KindInv /\ Whole(Line, packets) /\ OrderInv /\ ReceivedInv /\ OwedInv
  BY DEF IInv
<1>2. /\ stream \in Seq(Cells) /\ pending \in Seq(Cells) /\ Line \in Seq(Cells)
      /\ Len(stream) \in Nat /\ Len(pending) \in Nat /\ Len(Line) = Len(stream) + Len(pending)
      /\ \A i \in 1..Len(stream) : Line[i] = stream[i] /\ i \in 1..Len(Line)
      /\ \A i \in 1..Len(pending) :
           Line[Len(stream) + i] = pending[i] /\ Len(stream) + i \in 1..Len(Line)
      /\ packets \in Seq(Nat) /\ Len(packets) \in Nat
      /\ received \in Seq(Nat) /\ Count \in Nat
  BY <1>1, Basics
<1>3. stream /= <<>> /\ Len(stream) >= 1 /\ Line /= <<>> /\ 1 \in 1..Len(Line) /\ Line[1] = stream[1]
  <2>1. stream /= <<>>
    BY DEF BrokerReads
  <2>2. Len(stream) >= 1
    BY <1>2, <2>1
  <2>3. 1 \in 1..Len(stream)
    BY <1>2, <2>2
  <2>4. Line /= <<>>
    BY <1>2, <2>2
  <2> QED
    BY <1>2, <2>1, <2>2, <2>3, <2>4
<1>4. stream[1].at = 1 /\ Line[1].at = 1 /\ Line[1].packet = n
  <2>1. Line[1].packet \in 1..Len(packets) /\ Line[1].at \in 1..packets[Line[1].packet] /\ 1 - Line[1].at >= 0
    BY <1>1, <1>3, Zenon DEF Whole
  <2>2. Line[1].packet \in 1..Len(packets) => packets[Line[1].packet] \in Nat
    <3>1. packets \in Seq(Nat)
      BY <1>2
    <3> QED
      BY <3>1, ElementOfSeq
  <2>3. Line[1].at = 1
    BY <2>1, <2>2
  <2> QED
    BY <1>3, <2>3
<1> HIDE DEF n, size
<1>5. /\ size \in Nat /\ size >= 1 /\ size <= Len(Line) /\ n \in 1..Len(packets)
      /\ \A k \in 1..size : Line[k] = [packet |-> n, at |-> k]
      /\ \A i \in 1..Len(Line) : i > size => Line[i].packet > n /\ Line[i].at <= i - size
  <2>1. /\ Whole(Line, packets) /\ Sorted(Line) /\ Line /= <<>> /\ Line[1].at = 1
        /\ n = Line[1].packet /\ size = packets[n] /\ Line \in Seq(Cells) /\ packets \in Seq(Nat)
    BY <1>1, <1>2, <1>3, <1>4 DEF OrderInv, size
  <2> QED
    BY <2>1, WholeFront
<1>6. /\ Len(stream) >= size
      /\ received' = Append(received, IF IsPrefix(Bytes(n, size), stream) THEN n ELSE 0)
      /\ stream' = SubSeq(stream, size + 1, Len(stream))
  BY <1>4 DEF BrokerReads, n, size
<1>7. setup' = setup /\ packets' = packets /\ pending' = pending /\ reported' = reported /\ owed' = owed
  BY DEF BrokerReads
<1>8. IsPrefix(Bytes(n, size), stream)
  <2>1. /\ Bytes(n, size) \in Seq(Cells) /\ Len(Bytes(n, size)) = size
        /\ \A i \in 1..size : Bytes(n, size)[i] = [packet |-> n, at |-> i]
    BY <1>2, <1>5, BytesCells
  <2>2. SubSeq(Bytes(n, size), 1, size) = Bytes(n, size)
    BY <2>1, SubSeqFull
  <2>3. /\ SubSeq(stream, 1, size) \in Seq(Cells) /\ Len(SubSeq(stream, 1, size)) = size
        /\ \A i \in 1..size : SubSeq(stream, 1, size)[i] = stream[i]
    <3>1. \A i \in 1..size : stream[i] \in Cells
      BY <1>2, <1>5, <1>6
    <3> QED
      BY <1>5, <3>1, SubSeqProperties
  <2>4. \A i \in 1..size : SubSeq(stream, 1, size)[i] = Bytes(n, size)[i]
    <3> TAKE i \in 1..size
    <3>1. i \in 1..Len(stream)
      BY <1>2, <1>5, <1>6
    <3>2. stream[i] = [packet |-> n, at |-> i]
      BY <1>2, <1>5, <3>1
    <3> QED
      BY <2>1, <2>3, <3>2
  <2>5. SubSeq(stream, 1, size) = Bytes(n, size)
    BY <2>1, <2>3, <2>4, SeqEqual
  <2> QED
    BY <1>6, <2>1, <2>2, <2>5 DEF IsPrefix
<1>9. n = Count + 1
  <2>1. n > Count /\ n \in Nat
    BY <1>1, <1>2, <1>3, <1>4, <1>5 DEF OrderInv
  <2>2. ASSUME n /= Count + 1 PROVE FALSE
    <3>1. Count + 1 \in (Count + 1)..Len(packets) /\ Count + 1 < n
      BY <1>2, <1>5, <2>1, <2>2
    <3>2. Count + 1 /= owed
      <4>1. owed /= 0 => owed = Len(packets)
        BY <1>1 DEF OwedInv
      <4> QED
        BY <1>2, <1>5, <3>1, <4>1
    <3>3. PICK i \in 1..Len(Line) : Line[i].packet = Count + 1
      BY <1>1, <3>1, <3>2 DEF OrderInv
    <3>4. i = 1 \/ Line[1].packet <= Line[i].packet
      <4>1. i = 1 \/ 1 < i
        BY <1>2
      <4>2. 1 < i => \/ Line[1].packet < Line[i].packet
                     \/ Line[1].packet = Line[i].packet /\ Line[1].at < Line[i].at
        BY <1>1, <1>3, Zenon DEF OrderInv, Sorted
      <4> QED
        BY <1>2, <1>4, <2>1, <3>3, <4>1, <4>2
    <3> QED
      BY <1>2, <1>4, <2>1, <3>1, <3>3, <3>4
  <2> QED
    BY <2>2
<1>10. /\ received' = Append(received, n) /\ received' \in Seq(Nat) /\ Count' = n
       /\ \A i \in 1..n : received'[i] = i
  <2>1. received' = Append(received, n) /\ n \in Nat
    BY <1>2, <1>6, <1>8, <1>9
  <2>2. /\ received' \in Seq(Nat) /\ Len(received') = Len(received) + 1
        /\ \A i \in 1..Len(received) : received'[i] = received[i]
        /\ received'[Len(received) + 1] = n
    BY <1>2, <2>1, AppendProperties
  <2>3. Count' = n
    BY <1>9, <2>2 DEF Count
  <2>4. ASSUME NEW i \in 1..n PROVE received'[i] = i
    <3>1. i = n \/ i \in 1..Count
      BY <1>2, <1>9
    <3> QED
      BY <1>1, <1>9, <2>2, <3>1 DEF ReceivedInv, Count
  <2> QED
    BY <2>1, <2>2, <2>3, <2>4
<1>11. size \in 0..Len(stream) /\ size \in 0..Len(Line)
  BY <1>2, <1>5, <1>6
<1>12. stream' \in Seq(Cells) /\ Line' = SubSeq(Line, size + 1, Len(Line))
  <2>1. stream' \in Seq(Cells)
    BY <1>2, <1>6, <1>11, Parts
  <2>2. SubSeq(stream, size + 1, Len(stream)) \o pending
          = SubSeq(stream \o pending, size + 1, Len(stream \o pending))
    BY <1>2, <1>11, RestOfBoth
  <2> QED
    BY <1>6, <1>7, <2>1, <2>2 DEF Line
<1>13. /\ Len(Line') = Len(Line) - size
       /\ \A i \in 1..Len(Line') : Line'[i] = Line[size + i] /\ size + i \in 1..Len(Line)
       /\ Whole(Line', packets) /\ Sorted(Line')
  <2> DEFINE r == SubSeq(Line, size + 1, Len(Line))
  <2>1. /\ Whole(Line, packets) /\ Sorted(Line) /\ Line \in Seq(Cells) /\ packets \in Seq(Nat)
        /\ \A i \in 1..Len(Line) : i > size => Line[i].at <= i - size
    BY <1>1, <1>2, <1>5 DEF OrderInv
  <2>2. /\ Len(r) = Len(Line) - size
        /\ \A i \in 1..Len(r) : r[i] = Line[size + i] /\ size + i \in 1..Len(Line)
        /\ Whole(r, packets) /\ Sorted(r)
    BY <1>11, <2>1, WholeRest, Zenon
  <2> HIDE DEF r
  <2>3. Line' = r
    BY <1>12 DEF r
  <2> QED
    BY <2>2, <2>3
<1>14. KindInv'
  BY <1>1, <1>2, <1>7, <1>10, <1>12 DEF KindInv
<1>15. ReceivedInv'
  BY <1>2, <1>5, <1>7, <1>10 DEF ReceivedInv
<1>16. OrderInv'
  <2>1. ASSUME NEW i \in 1..Len(Line') PROVE Line'[i].packet > n
    <3>1. Line'[i] = Line[size + i] /\ size + i \in 1..Len(Line)
      BY <1>13
    <3>2. size + i > size
      BY <1>2, <1>5, <1>13
    <3> QED
      BY <1>5, <3>1, <3>2
  <2>2. ASSUME NEW m \in (n + 1)..Len(packets) PROVE m = owed \/ \E i \in 1..Len(Line') : Line'[i].packet = m
    <3>1. m \in (Count + 1)..Len(packets) /\ m /= n
      BY <1>2, <1>9
    <3>2. CASE m = owed
      BY <3>2
    <3>3. CASE m /= owed
      <4>1. PICK i \in 1..Len(Line) : Line[i].packet = m
        BY <1>1, <3>1, <3>3 DEF OrderInv
      <4>2. ~(i \in 1..size)
        <5>1. i \in 1..size => Line[i] = [packet |-> n, at |-> i]
          BY <1>5
        <5>2. i \in 1..size => Line[i].packet = n
          BY <5>1
        <5> QED
          BY <3>1, <4>1, <5>2
      <4>3. i - size \in 1..Len(Line') /\ size + (i - size) = i
        BY <1>2, <1>5, <1>13, <4>2
      <4>4. Line'[i - size] = Line[i]
        BY <1>13, <4>3
      <4> QED
        BY <4>1, <4>3, <4>4
    <3> QED
      BY <3>2, <3>3
  <2>3. Sorted(Line') /\ \A i \in 1..Len(Line') : Line'[i].packet > Count'
    BY <1>10, <1>13, <2>1
  <2>4. \A m \in (Count' + 1)..Len(packets') :
          m = owed' \/ \E i \in 1..Len(Line') : Line'[i].packet = m
    BY <1>7, <1>10, <2>2
  <2> QED
    BY <2>3, <2>4 DEF OrderInv
<1>17. OwedInv'
  <2>1. owed /= 0 => n < owed
    <3>1. SUFFICES ASSUME owed /= 0 PROVE n < owed
      OBVIOUS
    <3>2. n /= owed
      <4>1. CASE setup.tls
        <5>1. pending /= <<>>
          BY <1>1, <3>1, <4>1 DEF OwedInv
        <5>2. Len(pending) >= 1 /\ 1 \in 1..Len(pending) /\ Len(stream) + 1 > size
          BY <1>2, <1>6, <1>5, <5>1
        <5>3. pending[1].packet = owed
          BY <1>1, <5>2 DEF OwedInv
        <5>4. Line[Len(stream) + 1] = pending[1] /\ Len(stream) + 1 \in 1..Len(Line)
          BY <1>2, <5>2
        <5>5. Line[Len(stream) + 1].packet > n
          BY <1>5, <5>2, <5>4
        <5> QED
          BY <1>5, <5>3, <5>4, <5>5
      <4>2. CASE ~setup.tls
        BY <1>1, <1>3, <1>4, <3>1, <4>2 DEF OwedInv
      <4> QED
        BY <4>1, <4>2
    <3>3. owed = Len(packets)
      BY <1>1, <3>1 DEF OwedInv
    <3> QED
      BY <1>2, <1>5, <3>2, <3>3
  <2>2. owed /= 0 => /\ owed = Len(packets) /\ setup.full /\ owed \notin reported
                     /\ setup.tls => pending /= <<>>
    BY <1>1 DEF OwedInv
  <2>3. owed /= 0 /\ ~setup.tls => \A i \in 1..Len(Line') : Line'[i].packet /= owed
    <3>1. owed /= 0 /\ ~setup.tls => \A i \in 1..Len(Line) : Line[i].packet /= owed
      BY <1>1 DEF OwedInv
    <3> QED
      BY <1>13, <3>1
  <2>4. (pending /= <<>> => setup.tls /\ owed /= 0) /\ \A i \in 1..Len(pending) : pending[i].packet = owed
    BY <1>1 DEF OwedInv
  <2>5. owed' /= 0 => /\ owed' = Len(packets') /\ setup'.full /\ owed' \notin reported' /\ Count' < owed'
                      /\ setup'.tls => pending' /= <<>>
                      /\ ~setup'.tls => \A i \in 1..Len(Line') : Line'[i].packet /= owed'
    BY <1>7, <1>10, <2>1, <2>2, <2>3
  <2>6. /\ pending' /= <<>> => setup'.tls /\ owed' /= 0
        /\ \A i \in 1..Len(pending') : pending'[i].packet = owed'
    BY <1>7, <2>4
  <2> QED
    BY <2>5, <2>6 DEF OwedInv
<1>18. IInv'
  BY <1>7, <1>13, <1>14, <1>15, <1>16, <1>17 DEF IInv
<1> QED
  BY <1>5, <1>7, <1>9, <1>10, <1>18

LEMMA InitialState ==
    ASSUME Assumed, Init
    PROVE  IInv
<1>1. Line = <<>>
  <2>1. <<>> \in Seq(Cells) /\ stream = <<>> /\ pending = <<>>
    BY DEF Init
  <2> QED
    BY <2>1, ConcatEmptySeq DEF Line
<1>2. Len(Line) = 0 /\ Count = 0 /\ Len(packets) = 0 /\ Len(pending) = 0
  BY <1>1 DEF Init, Count
<1>3. KindInv
  <2>1. MaxPackets \in Nat
    BY DEF Assumed, SenderAssumption
  <2> QED
    BY <1>2, <2>1 DEF Init, KindInv
<1>4. Whole(Line, packets) /\ Sorted(Line)
  BY <1>2 DEF Whole, Sorted
<1>5. OrderInv
  BY <1>2, <1>4 DEF OrderInv
<1>6. ReceivedInv /\ OwedInv
  BY <1>2 DEF ReceivedInv, OwedInv, Init
<1> QED
  BY <1>3, <1>4, <1>5, <1>6 DEF IInv

LEMMA Step ==
    ASSUME Assumed, IInv, [Next]_vars
    PROVE  /\ IInv'
           /\ \/ UNCHANGED <<packets, received>>
              \/ \E size \in Sizes : packets' = Append(packets, size) /\ received' = received
              \/ /\ packets' = packets
                 /\ received' = Append(received, Count + 1) /\ Count + 1 \in 1..Len(packets)
<1>1. CASE \E size \in Sizes : Publish(size)
  BY <1>1, PublishStep
<1>2. CASE Repeat
  BY <1>2, RepeatStep
<1>3. CASE \E size \in Sizes : Reply(size)
  BY <1>3, ReplyStep
<1>4. CASE BrokerReads
  BY <1>4, ReadStep
<1>5. CASE UNCHANGED vars
  <2>1. /\ setup' = setup /\ packets' = packets /\ pending' = pending /\ stream' = stream
        /\ received' = received /\ reported' = reported /\ owed' = owed
        /\ Line' = Line /\ Count' = Count
    BY <1>5 DEF vars, Line, Count
  <2>2. KindInv /\ Whole(Line, packets) /\ OrderInv /\ ReceivedInv /\ OwedInv
    BY DEF IInv
  <2>3. KindInv' /\ Whole(Line', packets')
    BY <2>1, <2>2 DEF KindInv
  <2>4. OrderInv' /\ ReceivedInv'
    BY <2>1, <2>2 DEF OrderInv, ReceivedInv
  <2>5. OwedInv'
    BY <2>1, <2>2 DEF OwedInv
  <2> QED
    BY <2>1, <2>3, <2>4, <2>5 DEF IInv
<1> QED
  BY <1>1, <1>2, <1>3, <1>4, <1>5 DEF Next

\* Where netWrite() can be relied upon, what is on the way and what is kept are a
\* line of whole packets, after those the broker has read.
THEOREM SenderInvariant ==
    ASSUME Assumed
    PROVE  Spec => []IInv
<1>1. Init => IInv
  BY InitialState
<1>2. IInv /\ [Next]_vars => IInv'
  BY Step
<1> QED
  BY <1>1, <1>2, PTL DEF Spec

------------------------------------------------------------------------------
(* What follows *)

\* A packet that a call has reported is one the broker has read or all of it is
\* on the way: it is not owed, and of a packet of which one byte is in the line
\* all are, none of them kept.
THEOREM ReportedIsSentHolds ==
    ASSUME Assumed
    PROVE  Spec => []ReportedIsSent
<1>1. ASSUME IInv, NEW n \in reported PROVE OnItsWay(n)
  <2>1. KindInv /\ Whole(Line, packets) /\ OrderInv /\ ReceivedInv /\ OwedInv
    BY <1>1 DEF IInv
  <2>2. n \in 1..Len(packets) /\ Count \in Nat /\ Len(packets) \in Nat
    BY <2>1, Basics DEF KindInv
  <2>3. CASE n <= Count
    <3>1. n \in 1..Len(received) /\ received[n] = n
      BY <2>1, <2>2, <2>3 DEF ReceivedInv, Count
    <3> QED
      BY <3>1 DEF OnItsWay
  <2>4. CASE ~(n <= Count)
    <3>1. n /= owed /\ n \in (Count + 1)..Len(packets)
      <4>1. n /= 0
        BY <2>2
      <4> QED
        BY <2>1, <2>2, <2>4, <4>1 DEF OwedInv
    <3>2. PICK i \in 1..Len(Line) : Line[i].packet = n
      BY <2>1, <3>1 DEF OrderInv
    <3> DEFINE d == i - Line[i].at  size == packets[n]
    <3>3. /\ Line[i].at \in 1..size /\ d >= 0 /\ d + size <= Len(Line)
          /\ \A k \in 1..size : Line[d + k] = [packet |-> n, at |-> k]
      BY <2>1, <3>2, Zenon DEF Whole
    <3>4. size \in Nat /\ Line[i].at \in Int /\ i \in Int /\ Len(Line) \in Int
      <4>1. packets \in Seq(Nat) /\ Line \in Seq(Cells)
        BY <2>1, Basics
      <4>2. size \in Nat /\ Len(Line) \in Nat
        BY <2>2, <4>1
      <4> QED
        BY <3>3, <4>2
    <3>5. d \in Int
      BY <3>4
    <3> HIDE DEF d, size
    <3>6. ASSUME NEW k \in 1..size
          PROVE  \E j \in 1..Len(stream) : stream[j] = [packet |-> n, at |-> k]
      <4>1. d + k \in 1..Len(Line)
        BY <3>3, <3>4, <3>5, Within
      <4>2. d + k \in 1..Len(stream)
        <5>1. SUFFICES ASSUME ~(d + k \in 1..Len(stream)) PROVE FALSE
          OBVIOUS
        <5>2. /\ Len(stream) \in Nat /\ Len(pending) \in Nat /\ Len(Line) = Len(stream) + Len(pending)
              /\ \A j \in 1..Len(pending) : Line[Len(stream) + j] = pending[j]
          BY <2>1, Basics
        <5>3. PICK j \in 1..Len(pending) : d + k = Len(stream) + j
          <6>1. /\ (d + k) - Len(stream) \in 1..Len(pending)
                /\ d + k = Len(stream) + ((d + k) - Len(stream))
            BY <3>5, <4>1, <5>1, <5>2
          <6> QED
            BY <6>1
        <5>4. pending[j] = [packet |-> n, at |-> k]
          BY <3>3, <5>2, <5>3
        <5>5. pending[j].packet = n /\ pending[j].packet = owed
          BY <2>1, <5>4 DEF OwedInv
        <5> QED
          BY <3>1, <5>5
      <4>3. Line[d + k] = stream[d + k]
        BY <2>1, <4>2, Basics
      <4> QED
        BY <3>3, <4>2, <4>3
    <3>7. ASSUME NEW b \in Range(Bytes(n, size)) PROVE \E k \in 1..size : b = [packet |-> n, at |-> k]
      BY <3>7 DEF Range, Bytes
    <3> QED
      BY <3>6, <3>7 DEF OnItsWay, size
  <2> QED
    BY <2>3, <2>4
<1>2. IInv => ReportedIsSent
  BY <1>1 DEF ReportedIsSent
<1> QED
  BY <1>2, SenderInvariant, PTL

\* The types of the sender's state, and that a record is kept only of a packet
\* whose call has not returned true.
THEOREM SenderTypeOK ==
    ASSUME Assumed
    PROVE  Spec => []TypeOK
<1>1. ASSUME IInv PROVE TypeOK
  <2>1. KindInv /\ Whole(Line, packets) /\ OrderInv /\ ReceivedInv /\ OwedInv
    BY <1>1 DEF IInv
  <2>2. ASSUME NEW i \in 1..Len(pending)
        PROVE  pending[i].at \in 1..Least(packets[pending[i].packet], MaxRecord)
    <3>1. Line[Len(stream) + i] = pending[i] /\ Len(stream) + i \in 1..Len(Line)
      BY <2>1, Basics
    <3>2. pending[i].packet \in 1..Len(packets) /\ pending[i].at \in 1..packets[pending[i].packet]
      BY <2>1, <3>1, Zenon DEF Whole
    <3>3. setup.tls
      <4>1. pending /= <<>>
        <5>1. pending = <<>> => Len(pending) = 0
          OBVIOUS
        <5> QED
          BY <5>1
      <4> QED
        BY <2>1, <4>1 DEF OwedInv
    <3>4. /\ packets[pending[i].packet] \in Nat /\ packets[pending[i].packet] <= MaxRecord
          /\ MaxRecord \in Nat
      BY <2>1, <3>2, <3>3, Basics DEF Assumed, SenderAssumption
    <3>5. Least(packets[pending[i].packet], MaxRecord) = packets[pending[i].packet]
      BY <3>4 DEF Least
    <3> QED
      BY <3>2, <3>5
  <2>3. Range(received) \subseteq 0..Len(packets)
    <3>1. ASSUME NEW i \in 1..Len(received) PROVE received[i] \in 0..Len(packets)
      <4>1. Count \in Nat /\ Len(packets) \in Nat
        BY <2>1, Basics
      <4> QED
        BY <2>1, <4>1 DEF ReceivedInv, Count
    <3>2. received \in Seq(Nat)
      BY <2>1 DEF KindInv
    <3> QED
      BY <3>1, <3>2, RangeEquality
  <2>4. pending /= <<>> => setup.tls /\ pending[1].packet \notin reported
    <3>1. SUFFICES ASSUME pending /= <<>> PROVE setup.tls /\ pending[1].packet \notin reported
      OBVIOUS
    <3>2. 1 \in 1..Len(pending)
      BY <2>1, <3>1 DEF KindInv
    <3> QED
      BY <2>1, <3>1, <3>2 DEF OwedInv
  <2>5. setup \in Setups /\ packets \in Seq(Sizes) /\ Len(packets) <= MaxPackets
    BY <2>1 DEF KindInv
  <2>6. reported \subseteq 1..Len(packets) /\ owed \in 0..Len(packets)
    BY <2>1 DEF KindInv
  <2> QED
    BY <2>2, <2>3, <2>4, <2>5, <2>6 DEF TypeOK
<1>2. IInv => TypeOK
  BY <1>1
<1> QED
  BY <1>2, SenderInvariant, PTL

\* The broker reads the packets written, each whole and once, in order, and none
\* is left out: a call that adds a packet is Send, the broker's reading of one is
\* Hand of the next number, and a repeated call changes nothing the stream shows.
THEOREM StreamIsImplemented ==
    ASSUME Assumed, SomeBiggest
    PROVE  Spec => BrokerGetsTheStream
<1>1. ASSUME Init PROVE Packets!Init
  BY <1>1 DEF Init, Packets!Init
<1>2. ASSUME IInv, [Next]_vars PROVE [Packets!Next]_(Packets!stream)
  <2>1. CASE UNCHANGED <<packets, received>>
    BY <2>1 DEF Packets!stream
  <2>2. CASE \E size \in Sizes : packets' = Append(packets, size) /\ received' = received
    <3>1. \E size \in Sizes : Packets!Send(size)
      BY <2>2 DEF Packets!Send
    <3> QED
      BY <3>1 DEF Packets!Next
  <2>3. CASE /\ packets' = packets
             /\ received' = Append(received, Count + 1) /\ Count + 1 \in 1..Len(packets)
    <3>1. KindInv /\ ReceivedInv
      BY <1>2 DEF IInv
    <3>2. Packets!Newest = Count
      <4>1. received \in Seq(Nat) /\ Count \in Nat
        BY <3>1, Basics
      <4>2. received = <<>> => Count = 0
        BY DEF Count
      <4>3. received /= <<>> => Count >= 1
        BY <4>1 DEF Count
      <4>4. received /= <<>> => received[Len(received)] = Count
        BY <3>1, <4>1, <4>3 DEF ReceivedInv, Count
      <4> QED
        BY <4>2, <4>4 DEF Packets!Newest
    <3>3. packets[Count + 1] <= Biggest
      <4>1. packets[Count + 1] \in Sizes
        BY <2>3, <3>1, Basics
      <4>2. \A t \in Sizes : t <= Biggest
        BY DEF SomeBiggest, Biggest
      <4> QED
        BY <4>1, <4>2
    <3>4. Count \in Nat
      BY <3>1, Basics
    <3>5. (Count + 1)..((Count + 1) - 1) = {} /\ Count + 1 > Count
      BY <3>4
    <3>6. Packets!Hand(Count + 1)
      BY <2>3, <3>2, <3>3, <3>5 DEF Packets!Hand
    <3> QED
      BY <2>3, <3>6 DEF Packets!Next
  <2> QED
    BY <1>2, <2>1, <2>2, <2>3, Step
<1>3. Init => Packets!Init
  BY <1>1
<1>4. IInv /\ [Next]_vars => [Packets!Next]_(Packets!stream)
  BY <1>2
<1> QED
  BY <1>3, <1>4, SenderInvariant, PTL DEF Spec, BrokerGetsTheStream, Packets!Spec
===============================================================================
