----------------------------- MODULE QueueLemmas -----------------------------
(***************************************************************************)
(* What the queues and stacks of the models do to the set of what they     *)
(* hold: packets are appended at one end and taken off the other, a broken *)
(* connection keeps a prefix, a callback that returns pops its frame.      *)
(* Then the algebra of sequences whose elements are of no common kind.     *)
(***************************************************************************)
EXTENDS Integers, SequencesExt, SequenceTheorems, TLAPS

LEMMA PopProperties ==
    ASSUME NEW S, NEW s \in Seq(S), s /= <<>>
    PROVE  /\ Front(s) \in Seq(S)
           /\ Len(Front(s)) = Len(s) - 1
           /\ \A i \in 1..Len(Front(s)) : Front(s)[i] = s[i]
           /\ Last(s) \in S
           /\ Last(s) = s[Len(s)]
           /\ Len(s) \in 1..Len(s)
<1>1. /\ \A i \in 1..(Len(s) - 1) : s[i] \in S
      /\ s[Len(s)] \in S
      /\ Len(s) \in Nat \ {0}
  OBVIOUS
<1>2. Len(s) - 1 \in Int /\ Len(s) - 1 - 1 + 1 = Len(s) - 1
  BY <1>1
<1>3. SubSeq(s, 1, Len(s) - 1) \in Seq(S)
      /\ Len(SubSeq(s, 1, Len(s) - 1)) = Len(s) - 1
      /\ \A i \in 1..(Len(s) - 1) : SubSeq(s, 1, Len(s) - 1)[i] = s[i]
  BY <1>1, <1>2, SubSeqProperties
<1> QED
  BY <1>1, <1>3 DEF Front, Last

LEMMA HeldByIndex ==
    ASSUME NEW S, NEW s \in Seq(S)
    PROVE  /\ \A i \in 1..Len(s) : s[i] \in ToSet(s)
           /\ \A x \in ToSet(s) : x \in S /\ \E i \in 1..Len(s) : x = s[i]
BY DEF ToSet

LEMMA HeldByEmpty == ToSet(<<>>) = {}
BY DEF ToSet

LEMMA HeldByOne == ASSUME NEW p PROVE ToSet(<<p>>) = {p}
BY DEF ToSet

LEMMA HeldByAppend ==
    ASSUME NEW S, NEW s \in Seq(S), NEW p \in S
    PROVE  Append(s, p) \in Seq(S) /\ ToSet(Append(s, p)) = ToSet(s) \union {p}
<1>1. Append(s, p) \in Seq(S)
  OBVIOUS
<1>2. /\ Len(Append(s, p)) = Len(s) + 1 /\ Len(s) \in Nat
      /\ Append(s, p)[Len(s) + 1] = p
      /\ \A i \in 1..Len(s) : Append(s, p)[i] = s[i]
  OBVIOUS
<1>3. ToSet(s) \union {p} \subseteq ToSet(Append(s, p))
  <2>1. p \in ToSet(Append(s, p))
    <3>1. Len(s) + 1 \in 1..Len(Append(s, p))
      BY <1>2
    <3>2. Append(s, p)[Len(s) + 1] \in ToSet(Append(s, p))
      BY <1>1, <3>1, HeldByIndex
    <3> QED
      BY <1>2, <3>2
  <2>2. ASSUME NEW x \in ToSet(s) PROVE x \in ToSet(Append(s, p))
    <3>1. PICK i \in 1..Len(s) : x = s[i]
      BY HeldByIndex
    <3>2. i \in 1..Len(Append(s, p)) /\ x = Append(s, p)[i]
      BY <1>2, <3>1
    <3> QED
      BY <1>1, <3>2, HeldByIndex
  <2> QED
    BY <2>1, <2>2
<1>4. ASSUME NEW x \in ToSet(Append(s, p)) PROVE x \in ToSet(s) \union {p}
  <2>1. PICK i \in 1..Len(Append(s, p)) : x = Append(s, p)[i]
    BY <1>1, HeldByIndex
  <2>2. i \in 1..Len(s) \/ i = Len(s) + 1
    BY <1>2
  <2> QED
    BY <1>2, <2>1, <2>2, HeldByIndex
<1> QED
  BY <1>1, <1>3, <1>4

LEMMA HeldByConcat ==
    ASSUME NEW S, NEW s \in Seq(S), NEW u \in Seq(S)
    PROVE  s \o u \in Seq(S) /\ ToSet(s \o u) = ToSet(s) \union ToSet(u)
<1>1. s \o u \in Seq(S)
  OBVIOUS
<1>2. /\ Len(s \o u) = Len(s) + Len(u) /\ Len(s) \in Nat /\ Len(u) \in Nat
      /\ \A i \in 1..(Len(s) + Len(u)) :
            (s \o u)[i] = IF i <= Len(s) THEN s[i] ELSE u[i - Len(s)]
  OBVIOUS
<1>3. \A i \in 1..Len(u) : Len(s) + i \in 1..Len(s \o u) /\ (s \o u)[Len(s) + i] = u[i]
  BY <1>2
<1>4. \A i \in 1..Len(s) : i \in 1..Len(s \o u) /\ (s \o u)[i] = s[i]
  BY <1>2
<1>5. ASSUME NEW x \in ToSet(s) \union ToSet(u) PROVE x \in ToSet(s \o u)
  <2>1. (\E i \in 1..Len(s) : x = s[i]) \/ (\E i \in 1..Len(u) : x = u[i])
    BY HeldByIndex
  <2>2. \E i \in 1..Len(s \o u) : x = (s \o u)[i]
    BY <1>3, <1>4, <2>1
  <2> QED
    BY <1>1, <2>2, HeldByIndex
<1>6. ASSUME NEW x \in ToSet(s \o u) PROVE x \in ToSet(s) \union ToSet(u)
  <2>1. PICK i \in 1..Len(s \o u) : x = (s \o u)[i]
    BY <1>1, HeldByIndex
  <2>2. CASE i <= Len(s)
    BY <1>2, <2>1, <2>2, HeldByIndex
  <2>3. CASE ~(i <= Len(s))
    <3>1. i - Len(s) \in 1..Len(u) /\ x = u[i - Len(s)]
      BY <1>2, <2>1, <2>3
    <3> QED
      BY <3>1, HeldByIndex
  <2> QED
    BY <2>2, <2>3
<1> QED
  BY <1>1, <1>5, <1>6

LEMMA HeldByTail ==
    ASSUME NEW S, NEW s \in Seq(S), s /= <<>>
    PROVE  /\ Tail(s) \in Seq(S)
           /\ Head(s) \in S
           /\ Head(s) \in ToSet(s)
           /\ ToSet(Tail(s)) \subseteq ToSet(s)
<1>1. /\ Tail(s) \in Seq(S)
      /\ Head(s) = s[1]
      /\ Len(s) \in Nat \ {0}
      /\ Len(Tail(s)) = Len(s) - 1
      /\ \A i \in 1..Len(Tail(s)) : Tail(s)[i] = s[i + 1]
  OBVIOUS
<1>2. s[1] \in S /\ s[1] \in ToSet(s)
  BY <1>1 DEF ToSet
<1>3. \A i \in 1..Len(Tail(s)) : i + 1 \in 1..Len(s)
  BY <1>1
<1> QED
  BY <1>1, <1>2, <1>3 DEF ToSet

LEMMA HeldByPrefix ==
    ASSUME NEW S, NEW s \in Seq(S), NEW k \in 0..Len(s)
    PROVE  SubSeq(s, 1, k) \in Seq(S) /\ ToSet(SubSeq(s, 1, k)) \subseteq ToSet(s)
<1>1. \A i \in 1..k : s[i] \in S
  OBVIOUS
<1>2. SubSeq(s, 1, k) \in Seq(S)
      /\ Len(SubSeq(s, 1, k)) = k
      /\ \A i \in 1..k : SubSeq(s, 1, k)[i] = s[i]
  BY <1>1, SubSeqProperties
<1> QED
  BY <1>2 DEF ToSet
------------------------------------------------------------------------------
(* Packets that bear ids *)

\* The ids that the packets of kind P in a queue bear.
IdsOf(s, P) == {p.id : p \in ToSet(s) \intersect P}

\* No two packets of kind P in a queue bear the same id.
Once(s, P) ==
    \A i, j \in 1..Len(s) : s[i] \in P /\ s[j] \in P /\ s[i].id = s[j].id => i = j

\* Queue t holds no packet of kind P that was not in s, and none twice for that.
Kept(t, s, P) ==
    /\ ToSet(t) \intersect P \subseteq ToSet(s)
    /\ Once(s, P) => Once(t, P)

LEMMA KeptIds ==
    ASSUME NEW s, NEW t, NEW P, Kept(t, s, P)
    PROVE  IdsOf(t, P) \subseteq IdsOf(s, P)
BY DEF Kept, IdsOf

LEMMA KeptSame == ASSUME NEW s, NEW P PROVE Kept(s, s, P)
BY DEF Kept

LEMMA KeptByEmpty ==
    ASSUME NEW s, NEW P
    PROVE  Kept(<<>>, s, P) /\ Once(<<>>, P) /\ IdsOf(<<>>, P) = {}
BY HeldByEmpty DEF Kept, Once, IdsOf

LEMMA KeptByTail ==
    ASSUME NEW S, NEW s \in Seq(S), s /= <<>>, NEW P
    PROVE  /\ Kept(Tail(s), s, P)
           /\ Once(s, P) /\ Head(s) \in P => Head(s).id \notin IdsOf(Tail(s), P)
<1>1. /\ Tail(s) \in Seq(S)
      /\ Head(s) = s[1]
      /\ Len(s) \in Nat \ {0}
      /\ Len(Tail(s)) = Len(s) - 1
      /\ \A i \in 1..Len(Tail(s)) : Tail(s)[i] = s[i + 1]
  OBVIOUS
<1>2. \A i \in 1..Len(Tail(s)) : i + 1 \in 1..Len(s) /\ i + 1 /= 1 /\ i \in Nat
  BY <1>1
<1>3. ASSUME Once(s, P) PROVE Once(Tail(s), P)
  <2> SUFFICES ASSUME NEW i \in 1..Len(Tail(s)), NEW j \in 1..Len(Tail(s)),
                      Tail(s)[i] \in P, Tail(s)[j] \in P, Tail(s)[i].id = Tail(s)[j].id
               PROVE  i = j
    BY DEF Once
  <2>1. i + 1 = j + 1
    BY <1>1, <1>2, <1>3 DEF Once
  <2> QED
    BY <1>2, <2>1
<1>4. ASSUME Once(s, P), Head(s) \in P, Head(s).id \in IdsOf(Tail(s), P) PROVE FALSE
  <2>1. PICK p \in ToSet(Tail(s)) : p \in P /\ p.id = Head(s).id
    BY <1>4 DEF IdsOf
  <2>2. PICK i \in 1..Len(Tail(s)) : p = Tail(s)[i]
    BY <2>1 DEF ToSet
  <2>3. 1 \in 1..Len(s)
    BY <1>1
  <2> QED
    BY <1>1, <1>2, <1>4, <2>1, <2>2, <2>3 DEF Once
<1> QED
  BY <1>3, <1>4, HeldByTail DEF Kept

LEMMA KeptByFront ==
    ASSUME NEW S, NEW s \in Seq(S), s /= <<>>, NEW P
    PROVE  /\ Kept(Front(s), s, P)
           /\ Last(s) \in ToSet(s) /\ ToSet(Front(s)) \subseteq ToSet(s)
           /\ Once(s, P) /\ Last(s) \in P => Last(s).id \notin IdsOf(Front(s), P)
<1>1. /\ Front(s) \in Seq(S)
      /\ Len(Front(s)) = Len(s) - 1
      /\ \A i \in 1..Len(Front(s)) : Front(s)[i] = s[i]
      /\ Last(s) = s[Len(s)]
      /\ Len(s) \in 1..Len(s)
      /\ Len(s) \in Nat
  BY PopProperties
<1>2. \A i \in 1..Len(Front(s)) : i \in 1..Len(s) /\ i /= Len(s)
  BY <1>1
<1>3. Last(s) \in ToSet(s) /\ ToSet(Front(s)) \subseteq ToSet(s)
  BY <1>1, <1>2 DEF ToSet
<1>4. Once(s, P) => Once(Front(s), P)
  BY <1>1, <1>2 DEF Once
<1>5. ASSUME Once(s, P), Last(s) \in P, Last(s).id \in IdsOf(Front(s), P) PROVE FALSE
  <2>1. PICK p \in ToSet(Front(s)) \intersect P : p.id = Last(s).id
    BY <1>5 DEF IdsOf
  <2>2. PICK i \in 1..Len(Front(s)) : p = Front(s)[i]
    BY <1>1, <2>1, HeldByIndex
  <2> QED
    BY <1>1, <1>2, <1>5, <2>1, <2>2 DEF Once
<1> QED
  BY <1>3, <1>4, <1>5 DEF Kept

LEMMA KeptByPrefix ==
    ASSUME NEW S, NEW s \in Seq(S), NEW k \in 0..Len(s), NEW P
    PROVE  Kept(SubSeq(s, 1, k), s, P)
<1>1. \A i \in 1..k : s[i] \in S
  OBVIOUS
<1>2. /\ Len(SubSeq(s, 1, k)) = k
      /\ \A i \in 1..k : SubSeq(s, 1, k)[i] = s[i] /\ i \in 1..Len(s)
  BY <1>1, SubSeqProperties
<1>3. Once(s, P) => Once(SubSeq(s, 1, k), P)
  BY <1>2 DEF Once
<1> QED
  BY <1>3, HeldByPrefix DEF Kept

\* A packet at the end of a queue.
LEMMA KeptByAppend ==
    ASSUME NEW S, NEW s \in Seq(S), NEW p \in S, NEW P
    PROVE  /\ p \notin P => Kept(Append(s, p), s, P)
           /\ Once(s, P) /\ (p \in P => p.id \notin IdsOf(s, P)) => Once(Append(s, p), P)
           /\ IdsOf(Append(s, p), P) \subseteq IdsOf(s, P) \union {p.id}
<1>1. /\ Append(s, p) \in Seq(S)
      /\ Len(Append(s, p)) = Len(s) + 1 /\ Len(s) \in Nat
      /\ Append(s, p)[Len(s) + 1] = p
      /\ \A i \in 1..Len(s) : Append(s, p)[i] = s[i]
  OBVIOUS
<1>2. \A i \in 1..Len(Append(s, p)) : i \in 1..Len(s) \/ i = Len(s) + 1
  BY <1>1
<1>3. ToSet(Append(s, p)) = ToSet(s) \union {p}
  BY HeldByAppend
<1>4. ASSUME Once(s, P), p \in P => p.id \notin IdsOf(s, P) PROVE Once(Append(s, p), P)
  <2>1. \A i \in 1..Len(s) : s[i] \in P => s[i].id \in IdsOf(s, P)
    BY HeldByIndex DEF IdsOf
  <2> QED
    BY <1>1, <1>2, <1>4, <2>1 DEF Once
<1>5. p \notin P => Kept(Append(s, p), s, P)
  BY <1>3, <1>4 DEF Kept
<1>6. IdsOf(Append(s, p), P) \subseteq IdsOf(s, P) \union {p.id}
  BY <1>3 DEF IdsOf
<1> QED
  BY <1>4, <1>5, <1>6

\* Packets of other kinds at the end of a queue.
LEMMA KeptByConcat ==
    ASSUME NEW S, NEW s \in Seq(S), NEW u \in Seq(S), NEW P,
           ToSet(u) \intersect P = {}
    PROVE  Kept(s \o u, s, P)
<1>1. ToSet(s \o u) = ToSet(s) \union ToSet(u)
  BY HeldByConcat
<1>2. /\ Len(s \o u) = Len(s) + Len(u) /\ Len(s) \in Nat /\ Len(u) \in Nat
      /\ \A i \in 1..(Len(s) + Len(u)) :
            (s \o u)[i] = IF i <= Len(s) THEN s[i] ELSE u[i - Len(s)]
  OBVIOUS
<1>3. \A i \in 1..Len(s \o u) : (s \o u)[i] \in P =>
        i \in 1..Len(s) /\ (s \o u)[i] = s[i]
  <2> SUFFICES ASSUME NEW i \in 1..Len(s \o u), (s \o u)[i] \in P
               PROVE  i \in 1..Len(s) /\ (s \o u)[i] = s[i]
    OBVIOUS
  <2>1. CASE i <= Len(s)
    BY <1>2, <2>1
  <2>2. CASE ~(i <= Len(s))
    <3>1. i - Len(s) \in 1..Len(u) /\ (s \o u)[i] = u[i - Len(s)]
      BY <1>2, <2>2
    <3> QED
      BY <3>1, HeldByIndex
  <2> QED
    BY <2>1, <2>2
<1>4. Once(s, P) => Once(s \o u, P)
  BY <1>3 DEF Once
<1> QED
  BY <1>1, <1>4 DEF Kept

------------------------------------------------------------------------------
(* Sequences of whatever *)

IsSeq(s) == \E S : s \in Seq(S)

LEMMA SeqEmpty == IsSeq(<<>>) /\ ToSet(<<>>) = {}
<1>1. <<>> \in Seq({})
  OBVIOUS
<1> QED
  BY <1>1, HeldByEmpty DEF IsSeq

LEMMA SeqLength == ASSUME NEW s, IsSeq(s) PROVE Len(s) \in Nat /\ (s = <<>> <=> Len(s) = 0)
BY DEF IsSeq

LEMMA SeqOne == \A m : IsSeq(<<m>>) /\ ToSet(<<m>>) = {m}
<1> TAKE m
<1>1. <<m>> \in Seq({m})
  OBVIOUS
<1> QED
  BY <1>1, HeldByOne DEF IsSeq

LEMMA SeqAppend ==
    ASSUME NEW s, IsSeq(s), NEW m
    PROVE  /\ IsSeq(Append(s, m)) /\ ToSet(Append(s, m)) = ToSet(s) \union {m}
           /\ Append(s, m) /= <<>>
<1>1. PICK S : s \in Seq(S)
  BY DEF IsSeq
<1>2. s \in Seq(S \union {m}) /\ m \in S \union {m}
  BY <1>1
<1>3. Append(s, m) \in Seq(S \union {m}) /\ m \in ToSet(Append(s, m))
  BY <1>2, HeldByAppend
<1>4. Append(s, m) /= <<>>
  BY <1>3, HeldByEmpty
<1> QED
  BY <1>2, <1>3, <1>4, HeldByAppend DEF IsSeq

LEMMA SeqTwo == \A m, n : IsSeq(<<m, n>>) /\ ToSet(<<m, n>>) = {m, n}
<1> TAKE m, n
<1>1. <<m, n>> = Append(<<m>>, n)
  OBVIOUS
<1> QED
  BY <1>1, SeqOne, SeqAppend

LEMMA SeqConcat ==
    ASSUME NEW s, IsSeq(s), NEW u, IsSeq(u)
    PROVE  IsSeq(s \o u) /\ ToSet(s \o u) = ToSet(s) \union ToSet(u)
<1>1. PICK S, U : s \in Seq(S) /\ u \in Seq(U)
  BY DEF IsSeq
<1>2. s \in Seq(S \union U) /\ u \in Seq(S \union U)
  BY <1>1
<1> QED
  BY <1>2, HeldByConcat DEF IsSeq

LEMMA SeqTail ==
    ASSUME NEW s, IsSeq(s), s /= <<>>
    PROVE  /\ IsSeq(Tail(s)) /\ ToSet(Tail(s)) \subseteq ToSet(s)
           /\ s[1] \in ToSet(s) /\ Head(s) = s[1]
<1>1. PICK S : s \in Seq(S)
  BY DEF IsSeq
<1>2. Head(s) = s[1]
  BY <1>1
<1> QED
  BY <1>1, <1>2, HeldByTail DEF IsSeq

LEMMA SeqPart ==
    ASSUME NEW s, IsSeq(s), NEW a \in 1..(Len(s) + 1), NEW b \in (a - 1)..Len(s)
    PROVE  /\ IsSeq(SubSeq(s, a, b)) /\ Len(SubSeq(s, a, b)) = b - a + 1
           /\ \A i \in 1..(b - a + 1) : SubSeq(s, a, b)[i] = s[a + i - 1]
           /\ ToSet(SubSeq(s, a, b)) \subseteq ToSet(s)
<1>1. PICK S : s \in Seq(S)
  BY DEF IsSeq
<1>2. /\ SubSeq(s, a, b) \in Seq(S) /\ Len(SubSeq(s, a, b)) = b - a + 1
      /\ \A i \in 1..(b - a + 1) : SubSeq(s, a, b)[i] = s[a + i - 1] /\ a + i - 1 \in 1..Len(s)
  BY <1>1, SubSeqProperties
<1>3. ToSet(SubSeq(s, a, b)) \subseteq ToSet(s)
  BY <1>1, <1>2 DEF ToSet
<1> QED
  BY <1>2, <1>3 DEF IsSeq

\* What follows a first part.
LEMMA SeqRest ==
    ASSUME NEW s, IsSeq(s), NEW u, IsSeq(u)
    PROVE  SubSeq(s \o u, Len(s) + 1, Len(s \o u)) = u
<1> DEFINE t == s \o u
<1>1. PICK S, U : s \in Seq(S) /\ u \in Seq(U)
  BY DEF IsSeq
<1>2. s \in Seq(S \union U) /\ u \in Seq(S \union U)
  BY <1>1
<1>3. /\ t \in Seq(S \union U) /\ Len(t) = Len(s) + Len(u)
      /\ \A i \in 1..(Len(s) + Len(u)) : t[i] = IF i <= Len(s) THEN s[i] ELSE u[i - Len(s)]
  BY <1>2, ConcatProperties
<1>4. Len(s) \in Nat /\ Len(u) \in Nat
  BY <1>2
<1> HIDE DEF t
<1>5. IsSeq(t) /\ Len(s) + 1 \in 1..(Len(t) + 1) /\ Len(t) \in ((Len(s) + 1) - 1)..Len(t)
  BY <1>3, <1>4 DEF IsSeq
<1> DEFINE rest == SubSeq(t, Len(s) + 1, Len(t))
<1>6. /\ IsSeq(rest) /\ Len(rest) = Len(t) - (Len(s) + 1) + 1
      /\ \A i \in 1..(Len(t) - (Len(s) + 1) + 1) : rest[i] = t[Len(s) + 1 + i - 1]
  BY <1>5, SeqPart
<1> HIDE DEF rest
<1>7. Len(rest) = Len(u) /\ \A i \in 1..Len(u) : rest[i] = u[i]
  <2>1. Len(rest) = Len(u)
    BY <1>3, <1>4, <1>6
  <2>2. ASSUME NEW i \in 1..Len(u) PROVE rest[i] = u[i]
    <3>1. rest[i] = t[Len(s) + i] /\ Len(s) + i \in 1..(Len(s) + Len(u)) /\ ~(Len(s) + i <= Len(s))
      BY <1>3, <1>4, <1>6, <2>1
    <3>2. (Len(s) + i) - Len(s) = i
      BY <1>4
    <3> QED
      BY <1>3, <3>1, <3>2
  <2> QED
    BY <2>1, <2>2
<1>8. rest = u
  <2>1. PICK R : rest \in Seq(R)
    BY <1>6 DEF IsSeq
  <2>2. rest \in Seq(R \union U) /\ u \in Seq(R \union U)
    BY <1>1, <2>1
  <2> QED
    BY <1>7, <2>2, SeqEqual
<1> QED
  BY <1>8 DEF rest, t

LEMMA SeqNothing ==
    ASSUME NEW s, IsSeq(s)
    PROVE  s \o <<>> = s /\ <<>> \o s = s
BY ConcatEmptySeq DEF IsSeq

LEMMA SeqAppended ==
    ASSUME NEW s, IsSeq(s), NEW m
    PROVE  /\ Append(s, m) = s \o <<m>>
           /\ Len(Append(s, m)) = Len(s) + 1 /\ Append(s, m)[Len(s) + 1] = m
           /\ \A i \in 1..Len(s) : Append(s, m)[i] = s[i]
           /\ \A t, n : IsSeq(t) /\ Append(s, m) = Append(t, n) => s = t
<1>1. PICK S : s \in Seq(S)
  BY DEF IsSeq
<1>2. s \in Seq(S \union {m}) /\ m \in S \union {m}
  BY <1>1
<1>3. ASSUME NEW t, NEW n, IsSeq(t), Append(s, m) = Append(t, n) PROVE s = t
  <2>1. PICK T : t \in Seq(T)
    BY <1>3 DEF IsSeq
  <2>2. /\ s \in Seq(S \union T \union {m, n}) /\ t \in Seq(S \union T \union {m, n})
        /\ m \in S \union T \union {m, n} /\ n \in S \union T \union {m, n}
    BY <1>1, <2>1
  <2> QED
    BY <1>3, <2>2, AppendInjective
<1> QED
  BY <1>2, <1>3, AppendProperties, AppendIsConcat

LEMMA AppendSame == \A s, t, m : IsSeq(s) /\ IsSeq(t) /\ Append(s, m) = Append(t, m) => s = t
BY SeqAppended

LEMMA AppendTwo == \A a, b : Append(<<a>>, b) = <<a, b>> /\ Append(<<>>, b) = <<b>>
<1> TAKE a, b
<1>1. <<a, b>> = Append(<<a>>, b)
  OBVIOUS
<1>2. <<>> \in Seq({b}) /\ <<b>> \in Seq({b}) /\ Len(<<b>>) = 1 /\ <<b>>[1] = b /\ Len(<<>>) = 0
  OBVIOUS
<1>3. Append(<<>>, b) \in Seq({b}) /\ Len(Append(<<>>, b)) = 1 /\ Append(<<>>, b)[1] = b
  BY <1>2, AppendProperties
<1>4. Append(<<>>, b) = <<b>>
  BY <1>2, <1>3, SeqEqual
<1> QED
  BY <1>1, <1>4

LEMMA SeqHead ==
    ASSUME NEW s, IsSeq(s), s /= <<>>
    PROVE  /\ IsSeq(Tail(s)) /\ s = <<s[1]>> \o Tail(s) /\ Len(Tail(s)) = Len(s) - 1
           /\ Len(s) \in Nat /\ Len(s) >= 1
           /\ \A i \in 1..Len(Tail(s)) : Tail(s)[i] = s[i + 1]
           /\ Head(s) = s[1]
<1>1. PICK S : s \in Seq(S)
  BY DEF IsSeq
<1>2. Len(s) \in Nat /\ Len(s) >= 1 /\ IsSeq(Tail(s))
  BY <1>1, SeqTail, SeqLength
<1>3. SubSeq(s, 1, Len(s)) = <<s[1]>> \o SubSeq(s, 2, Len(s))
  <2>1. 1 \in 1..Len(s) /\ Len(s) \in 1..Len(s)
    BY <1>2
  <2>2. SubSeq(s, 1, Len(s)) = <<s[1]>> \o SubSeq(s, 1 + 1, Len(s))
    BY <1>1, <2>1, SubSeqRecursiveFirst
  <2> QED
    BY <2>2
<1>4. s = <<s[1]>> \o Tail(s)
  BY <1>1, <1>3, SubSeqFull, TailIsSubSeq
<1> QED
  BY <1>1, <1>2, <1>4, HeadTailProperties, SeqTail

LEMMA SeqCons ==
    ASSUME NEW h, NEW s, IsSeq(s)
    PROVE  Tail(<<h>> \o s) = s /\ (<<h>> \o s)[1] = h /\ <<h>> \o s /= <<>>
<1>1. PICK S : s \in Seq(S)
  BY DEF IsSeq
<1> DEFINE T == S \union {h}  one == <<h>>  c == one \o s
<1>2. s \in Seq(T) /\ one \in Seq(T) /\ Len(one) = 1 /\ one[1] = h /\ Len(s) \in Nat
  BY <1>1
<1> HIDE DEF one, T
<1>3. /\ c \in Seq(T) /\ Len(c) = Len(one) + Len(s)
      /\ \A i \in 1..(Len(one) + Len(s)) : c[i] = IF i <= Len(one) THEN one[i] ELSE s[i - Len(one)]
  BY <1>2, ConcatProperties
<1> HIDE DEF c
<1>4. Len(c) = 1 + Len(s) /\ \A i \in 1..(1 + Len(s)) : c[i] = IF i <= 1 THEN one[i] ELSE s[i - 1]
  BY <1>2, <1>3
<1>5. c /= <<>> /\ c[1] = h
  BY <1>2, <1>3, <1>4
<1>6. Tail(c) \in Seq(T) /\ Len(Tail(c)) = Len(c) - 1 /\ \A i \in 1..Len(Tail(c)) : Tail(c)[i] = c[i + 1]
  BY <1>3, <1>5, HeadTailProperties
<1>7. \A i \in 1..Len(s) : Tail(c)[i] = s[i]
  BY <1>2, <1>4, <1>6
<1>8. Tail(c) = s
  <2>1. Len(Tail(c)) = Len(s)
    BY <1>2, <1>4, <1>6
  <2> QED
    BY <1>2, <1>6, <1>7, <2>1, SeqEqual
<1> QED
  BY <1>5, <1>8 DEF c, one

LEMMA SeqSingle == ASSUME NEW s, IsSeq(s), Len(s) = 1 PROVE s = <<s[1]>>
<1>1. PICK S : s \in Seq(S)
  BY DEF IsSeq
<1>2. <<s[1]>> \in Seq(S) /\ Len(<<s[1]>>) = 1 /\ <<s[1]>>[1] = s[1]
  BY <1>1
<1>3. Len(s) = Len(<<s[1]>>) /\ \A i \in 1..Len(s) : s[i] = <<s[1]>>[i]
  BY <1>2
<1> QED
  BY <1>1, <1>2, <1>3, SeqEqual

LEMMA SeqUnion ==
    ASSUME NEW s, IsSeq(s), NEW t, IsSeq(t), NEW u, IsSeq(u)
    PROVE  \E S : s \in Seq(S) /\ t \in Seq(S) /\ u \in Seq(S)
<1>1. PICK A, B, C : s \in Seq(A) /\ t \in Seq(B) /\ u \in Seq(C)
  BY DEF IsSeq
<1>2. /\ s \in Seq(A \union B \union C) /\ t \in Seq(A \union B \union C)
      /\ u \in Seq(A \union B \union C)
  BY <1>1
<1> QED
  BY <1>2

LEMMA SeqAssociative ==
    ASSUME NEW s, IsSeq(s), NEW t, IsSeq(t), NEW u, IsSeq(u)
    PROVE  (s \o t) \o u = s \o (t \o u)
<1>1. PICK S : s \in Seq(S) /\ t \in Seq(S) /\ u \in Seq(S)
  BY SeqUnion
<1> QED
  BY <1>1, ConcatAssociative

\* Concatenation without a look at its elements.
Join(s, t) == s \o t

LEMMA JoinAssociative ==
    \A s, t, u : IsSeq(s) /\ IsSeq(t) /\ IsSeq(u) => Join(Join(s, t), u) = Join(s, Join(t, u))
BY SeqAssociative DEF Join

LEMMA JoinFirst ==
    ASSUME NEW s, IsSeq(s), NEW t, IsSeq(t), t /= <<>>
    PROVE  Join(Append(s, t[1]), Tail(t)) = Join(s, t)
<1> DEFINE one == <<t[1]>>  rest == Tail(t)
<1>1. Append(s, t[1]) = Join(s, one) /\ t = Join(one, rest) /\ IsSeq(one) /\ IsSeq(rest)
  BY SeqAppended, SeqHead, SeqOne DEF Join
<1> HIDE DEF one, rest
<1>2. Join(Join(s, one), rest) = Join(s, Join(one, rest))
  BY <1>1, JoinAssociative
<1> QED
  BY <1>1, <1>2 DEF rest

------------------------------------------------------------------------------
(* Short sequences *)

LEMMA OneAndThree == \A a, b, c, d : <<a>> \o <<b, c, d>> = <<a, b, c, d>>
<1> TAKE a, b, c, d
<1> DEFINE S == {a, b, c, d}  t == <<a, b, c, d>>  l == <<a>>  r == <<b, c, d>>
<1>1. l \in Seq(S) /\ r \in Seq(S) /\ t \in Seq(S) /\ Len(l) = 1 /\ Len(r) = 3 /\ Len(t) = 4
  OBVIOUS
<1>2. l[1] = a /\ r[1] = b /\ r[2] = c /\ r[3] = d /\ t[1] = a /\ t[2] = b /\ t[3] = c /\ t[4] = d
  OBVIOUS
<1> HIDE DEF t, l, r, S
<1>3. /\ l \o r \in Seq(S) /\ Len(l \o r) = Len(l) + Len(r)
      /\ \A i \in 1..(Len(l) + Len(r)) :
            (l \o r)[i] = IF i <= Len(l) THEN l[i] ELSE r[i - Len(l)]
  BY <1>1, ConcatProperties
<1>4. Len(l \o r) = 4 /\ \A i \in 1..4 : (l \o r)[i] = IF i <= 1 THEN l[i] ELSE r[i - 1]
  BY <1>1, <1>3
<1>5. \A i \in 1..4 : (l \o r)[i] = t[i]
  BY <1>2, <1>4
<1>6. l \o r = t
  BY <1>1, <1>3, <1>4, <1>5, SeqEqual
<1> QED
  BY <1>6 DEF l, r, t

LEMMA TwoAndTwo == \A a, b, c, d : <<a, b>> \o <<c, d>> = <<a, b, c, d>>
<1> TAKE a, b, c, d
<1> DEFINE S == {a, b, c, d}  t == <<a, b, c, d>>  l == <<a, b>>  r == <<c, d>>
<1>1. l \in Seq(S) /\ r \in Seq(S) /\ t \in Seq(S) /\ Len(l) = 2 /\ Len(r) = 2 /\ Len(t) = 4
  OBVIOUS
<1>2. l[1] = a /\ l[2] = b /\ r[1] = c /\ r[2] = d /\ t[1] = a /\ t[2] = b /\ t[3] = c /\ t[4] = d
  OBVIOUS
<1> HIDE DEF t, l, r, S
<1>3. /\ l \o r \in Seq(S) /\ Len(l \o r) = Len(l) + Len(r)
      /\ \A i \in 1..(Len(l) + Len(r)) :
            (l \o r)[i] = IF i <= Len(l) THEN l[i] ELSE r[i - Len(l)]
  BY <1>1, ConcatProperties
<1>4. Len(l \o r) = 4 /\ \A i \in 1..4 : (l \o r)[i] = IF i <= 2 THEN l[i] ELSE r[i - 2]
  BY <1>1, <1>3
<1>5. \A i \in 1..4 : (l \o r)[i] = t[i]
  BY <1>2, <1>4
<1>6. l \o r = t
  BY <1>1, <1>3, <1>4, <1>5, SeqEqual
<1> QED
  BY <1>6 DEF l, r, t

LEMMA LastTwo == \A a, b, c, d : SubSeq(<<a, b, c, d>>, 3, 4) = <<c, d>>
<1> TAKE a, b, c, d
<1> DEFINE S == {a, b, c, d}  t == <<a, b, c, d>>  r == <<c, d>>
<1>1. r \in Seq(S) /\ t \in Seq(S) /\ Len(r) = 2 /\ Len(t) = 4
  OBVIOUS
<1>2. t[3] = c /\ t[4] = d /\ r[1] = c /\ r[2] = d
  OBVIOUS
<1> HIDE DEF t, r, S
<1>3. 3 \in 1..(Len(t) + 1) /\ 4 \in (3 - 1)..Len(t)
  BY <1>1
<1>4. /\ SubSeq(t, 3, 4) \in Seq(S) /\ Len(SubSeq(t, 3, 4)) = 4 - 3 + 1
      /\ \A i \in 1..(4 - 3 + 1) : SubSeq(t, 3, 4)[i] = t[3 + i - 1]
  BY <1>1, <1>3, SubSeqProperties
<1>5. Len(SubSeq(t, 3, 4)) = 2 /\ \A i \in 1..2 : SubSeq(t, 3, 4)[i] = r[i]
  BY <1>2, <1>4
<1>6. SubSeq(t, 3, 4) = r
  BY <1>1, <1>4, <1>5, SeqEqual
<1> QED
  BY <1>6 DEF r, t

LEMMA Tails ==
    /\ \A a, b : Tail(<<a, b>>) = <<b>>
    /\ \A a, b, c : Tail(<<a, b, c>>) = <<b, c>>
    /\ \A a, b, c, d : Tail(<<a, b, c, d>>) = <<b, c, d>>
<1>1. \A a, b : Tail(<<a, b>>) = <<b>>
  OBVIOUS
<1>2. \A a, b, c : Tail(<<a, b, c>>) = <<b, c>>
  OBVIOUS
<1>3. \A a, b, c, d : Tail(<<a, b, c, d>>) = <<b, c, d>>
  OBVIOUS
<1> QED
  BY <1>1, <1>2, <1>3

LEMMA EmptyAndThree == \A a, b, c : <<>> \o <<a, b, c>> = <<a, b, c>>
<1> TAKE a, b, c
<1>1. <<a, b, c>> \in Seq({a, b, c})
  OBVIOUS
<1> QED
  BY <1>1, ConcatEmptySeq
==============================================================================
