-------------------------- MODULE TlsHandshakeProofs --------------------------
(***************************************************************************)
(* TlsHandshake for every value of its constants: whichever messages the   *)
(* socket may put off, however many warnings come in between, and whether  *)
(* or not the broker may give up.                                          *)
(*                                                                         *)
(* That both sides agree at the end rests on the broker's Finished, which  *)
(* bears all that the broker has hashed before it: when the client, which  *)
(* compares it with all that it has hashed itself, takes it for good, the  *)
(* two are the same.  What is left to show is that the broker sends it     *)
(* last, and only once it has the client's own, which leaves nothing of    *)
(* what the client wrote behind.                                           *)
(*                                                                         *)
(* That the broker is never sent what it does not wait for rests on what   *)
(* is under way to it, Pending: the part of the client's second flight     *)
(* from the message the broker reads next to the one written last.  That   *)
(* its Finished matches rests on what is hashed of what is under way in    *)
(* either direction, Hashes: added to what each side has hashed it makes   *)
(* the two the same at every moment.                                       *)
(***************************************************************************)
EXTENDS TlsHandshake, QueueLemmas

\* The states in which the client waits for the broker, but for a choice of
\* the ciphersuite; those after its last message; and those after the broker's.
Reading == {"SERVER_HELLO", "SERVER_CERTIFICATE", "SERVER_KEY_EXCHANGE",
            "CERTIFICATE_REQUEST", "SERVER_HELLO_DONE",
            "SERVER_CHANGE_CIPHER_SPEC", "SERVER_FINISHED"}
Over == {"FLUSH_BUFFERS", "HANDSHAKE_OVER"}
Done == {"SERVER_CHANGE_CIPHER_SPEC", "SERVER_FINISHED"} \union Over

\* Before the client knows whether it is asked for a certificate.
Early == {"CLIENT_HELLO", "SERVER_HELLO", "SERVER_CERTIFICATE", "SERVER_KEY_EXCHANGE",
          "CERTIFICATE_REQUEST"}

\* What the broker may still wait for.
Dues == {<<"ClientHello">>,
         <<"Certificate", "ClientKeyExchange", "ChangeCipherSpec", "Finished">>,
         <<"ClientKeyExchange", "ChangeCipherSpec", "Finished">>,
         <<"ClientKeyExchange", "CertificateVerify", "ChangeCipherSpec", "Finished">>,
         <<"CertificateVerify", "ChangeCipherSpec", "Finished">>,
         <<"ChangeCipherSpec", "Finished">>,
         <<"Finished">>,
         <<>>,
         <<"Surprised">>}

QueuesInv ==
    /\ IsSeq(c2s) /\ IsSeq(s2c) /\ IsSeq(out) /\ IsSeq(seen) /\ IsSeq(broker.seen)
    /\ broker = [kx |-> broker.kx, asks |-> broker.asks, ticket |-> broker.ticket,
                 cert |-> broker.cert, seen |-> broker.seen, due |-> broker.due]
    /\ broker.kx \in {"RSA", "ECDHE"}
    /\ {broker.asks, broker.ticket} \subseteq BOOLEAN
    /\ broker.cert \in {"good", "bad"}
    /\ broker.due \in Dues

PutOffInv ==
    state \in Reading /\ out /= <<>> => PutOff \intersect {"ClientHello", "Finished"} /= {}

\* What the broker's messages say is true.
True(m) ==
    /\ m.type = "ServerHello" => m.data = [kx |-> broker.kx, ticket |-> broker.ticket]
    /\ m.type = "Certificate" => m.data = broker.cert
    /\ m.type = "CertificateRequest" => broker.asks
    /\ m.type = "Finished" => broker.due = <<>> /\ broker.seen = Append(m.data, m)

MessagesInv == \A m \in ToSet(s2c) : True(m)

Asked(transcript) == \E m \in ToSet(transcript) : m.type = "CertificateRequest"

\* What the client knows of the broker.
KnownInv ==
    /\ verify_result \in {"unknown", broker.cert}
    /\ state \notin {"CLIENT_HELLO", "SERVER_HELLO"} => key_exchange = broker.kx
    /\ client_auth => broker.asks /\ state \notin Early
    /\ Asked(seen) => client_auth

BrokerInv ==
    /\ broker.seen = <<>> => broker.due \in {<<"ClientHello">>, <<"Surprised">>}
    /\ broker.seen /= <<>> /\ broker.asks => Asked(broker.seen)

\* The client's Finished is the last it writes.
FinishedInv ==
    /\ \A m \in ToSet(c2s) \union ToSet(out) : m.type = "Finished" => state \in Done
    /\ \A i \in 1..Len(c2s) : c2s[i].type = "Finished" => i = Len(c2s) /\ out = <<>>
    /\ broker.due = <<>> => state \in Done /\ out = <<>>

OverInv ==
    /\ state \in Over => seen = broker.seen /\ broker.due = <<>>
    /\ pc = "connected" => state = "HANDSHAKE_OVER" /\ (client.verify => verify_result = "good")

IInv ==
    /\ TypeOK
    /\ QueuesInv
    /\ PutOffInv
    /\ MessagesInv
    /\ KnownInv
    /\ BrokerInv
    /\ FinishedInv
    /\ OverInv

------------------------------------------------------------------------------
(* The order of the states *)

LEMMA Successors ==
    /\ After("CLIENT_HELLO") = "SERVER_HELLO"
    /\ After("SERVER_HELLO") = "SERVER_CERTIFICATE"
    /\ After("SERVER_CERTIFICATE") = "SERVER_KEY_EXCHANGE"
    /\ After("SERVER_KEY_EXCHANGE") = "CERTIFICATE_REQUEST"
    /\ After("CERTIFICATE_REQUEST") = "SERVER_HELLO_DONE"
    /\ After("SERVER_HELLO_DONE") = "CLIENT_CERTIFICATE"
    /\ After("CLIENT_CERTIFICATE") = "CLIENT_KEY_EXCHANGE"
    /\ After("CLIENT_KEY_EXCHANGE") = "CERTIFICATE_VERIFY"
    /\ After("CERTIFICATE_VERIFY") = "CLIENT_CHANGE_CIPHER_SPEC"
    /\ After("CLIENT_CHANGE_CIPHER_SPEC") = "CLIENT_FINISHED"
    /\ After("CLIENT_FINISHED") = "SERVER_CHANGE_CIPHER_SPEC"
    /\ After("SERVER_CHANGE_CIPHER_SPEC") = "SERVER_FINISHED"
    /\ After("SERVER_FINISHED") = "FLUSH_BUFFERS"
    /\ After("FLUSH_BUFFERS") = "HANDSHAKE_OVER"
<1>1. DOMAIN Order = 1..15
  BY DEF Order
<1>2. ASSUME NEW k \in 1..14 PROVE After(Order[k]) = Order[k + 1]
  <2>1. \A i, j \in 1..15 : Order[i] = Order[j] => i = j
    BY DEF Order
  <2>2. (CHOOSE i \in DOMAIN Order : Order[i] = Order[k]) = k
    BY <1>1, <2>1
  <2>3. After(Order[k]) = Order[1 + k]
    BY <2>2, Zenon DEF After
  <2> QED
    BY <2>3
<1> QED
  BY <1>2 DEF Order

States == {"CLIENT_HELLO", "SERVER_HELLO", "SERVER_CERTIFICATE", "SERVER_KEY_EXCHANGE",
           "CERTIFICATE_REQUEST", "SERVER_HELLO_DONE", "CLIENT_CERTIFICATE",
           "CLIENT_KEY_EXCHANGE", "CERTIFICATE_VERIFY", "CLIENT_CHANGE_CIPHER_SPEC",
           "CLIENT_FINISHED"} \union Done

LEMMA StateType == \A s : (\E i \in DOMAIN Order : s = Order[i]) <=> s \in States
<1>1. DOMAIN Order = 1..15
  BY DEF Order
<1>2. \A s : s \in States <=> \E i \in 1..15 : s = Order[i]
  BY DEF States, Done, Over, Order
<1> QED
  BY <1>1, <1>2

------------------------------------------------------------------------------
(* The client writes *)

\* What a record joins, and what the socket takes.
LEMMA WriteHolds ==
    ASSUME QueuesInv, NEW m, Write(m)
    PROVE  /\ IsSeq(c2s') /\ IsSeq(out') /\ IsSeq(seen')
           /\ ToSet(c2s') \union ToSet(out') \subseteq ToSet(c2s) \union ToSet(out) \union {m}
           /\ m.type \notin PutOff => out' = <<>>
           /\ ToSet(seen') \subseteq ToSet(seen) \union {m}
           /\ UNCHANGED <<tcp, s2c, kept>>
<1> DEFINE queue == Append(out, m)
<1>1. PICK taken \in 0..Len(queue) :
        /\ taken < Len(queue) => m.type \in PutOff
        /\ c2s' = IF tcp = "up" THEN c2s \o SubSeq(queue, 1, taken) ELSE c2s
        /\ out' = SubSeq(queue, taken + 1, Len(queue))
  BY DEF Write
<1>2. IsSeq(queue) /\ ToSet(queue) = ToSet(out) \union {m} /\ Len(queue) \in Nat
  BY SeqAppend, SeqLength DEF QueuesInv
<1> HIDE DEF queue
<1>3. IsSeq(SubSeq(queue, 1, taken)) /\ ToSet(SubSeq(queue, 1, taken)) \subseteq ToSet(queue)
  BY <1>2, SeqPart
<1>4. /\ IsSeq(out') /\ Len(out') = Len(queue) - taken /\ ToSet(out') \subseteq ToSet(queue)
  <2>1. taken + 1 \in 1..(Len(queue) + 1) /\ Len(queue) \in ((taken + 1) - 1)..Len(queue)
    BY <1>2
  <2>2. /\ IsSeq(out') /\ Len(out') = Len(queue) - (taken + 1) + 1
        /\ ToSet(out') \subseteq ToSet(queue)
    BY <1>1, <1>2, <2>1, SeqPart
  <2> QED
    BY <1>2, <2>2
<1>5. m.type \notin PutOff => out' = <<>>
  BY <1>1, <1>2, <1>4, SeqLength
<1>6. IsSeq(c2s') /\ ToSet(c2s') \subseteq ToSet(c2s) \union ToSet(queue)
  BY <1>1, <1>3, SeqConcat DEF QueuesInv
<1>7. IsSeq(seen') /\ ToSet(seen') \subseteq ToSet(seen) \union {m}
  BY SeqAppend DEF Write, QueuesInv
<1> QED
  BY <1>2, <1>4, <1>5, <1>6, <1>7 DEF Write

\* The client's Finished goes out as the last message, with all before it.
LEMMA FinishedIsLast ==
    ASSUME QueuesInv, NEW m, Write(m),
           \A x \in ToSet(c2s) \union ToSet(out) : x.type /= "Finished"
    PROVE  \A i \in 1..Len(c2s') : c2s'[i].type = "Finished" => i = Len(c2s') /\ out' = <<>>
<1> DEFINE queue == Append(out, m)
<1>1. PICK taken \in 0..Len(queue) :
        /\ c2s' = IF tcp = "up" THEN c2s \o SubSeq(queue, 1, taken) ELSE c2s
        /\ out' = SubSeq(queue, taken + 1, Len(queue))
  BY DEF Write
<1>2. PICK S : c2s \in Seq(S) /\ out \in Seq(S)
  <2>1. PICK A, B : c2s \in Seq(A) /\ out \in Seq(B)
    BY DEF QueuesInv, IsSeq
  <2>2. c2s \in Seq(A \union B) /\ out \in Seq(A \union B)
    BY <2>1
  <2> QED
    BY <2>2
<1>3. /\ queue \in Seq(S \union {m}) /\ Len(queue) = Len(out) + 1
      /\ \A j \in 1..Len(out) : queue[j] = out[j] /\ out[j] \in ToSet(out)
  <2>1. out \in Seq(S \union {m})
    BY <1>2
  <2> QED
    BY <1>2, <2>1, HeldByIndex
<1>4. ASSUME NEW j \in 1..Len(queue), queue[j].type = "Finished" PROVE j = Len(queue)
  BY <1>3, <1>4
<1> HIDE DEF queue
<1>5. ASSUME NEW i \in 1..Len(c2s'), c2s'[i].type = "Finished"
      PROVE  i = Len(c2s') /\ out' = <<>>
  <2>1. \A j \in 1..Len(c2s) : c2s[j].type /= "Finished"
    BY <1>2, HeldByIndex
  <2>2. tcp = "up" /\ c2s' = c2s \o SubSeq(queue, 1, taken)
    BY <1>1, <1>5, <2>1
  <2>3. /\ SubSeq(queue, 1, taken) \in Seq(S \union {m}) /\ Len(SubSeq(queue, 1, taken)) = taken
        /\ \A j \in 1..taken : SubSeq(queue, 1, taken)[j] = queue[j]
    <3>1. 1 \in 1..(Len(queue) + 1) /\ taken \in (1 - 1)..Len(queue)
      BY <1>3
    <3>2. /\ SubSeq(queue, 1, taken) \in Seq(S \union {m})
          /\ Len(SubSeq(queue, 1, taken)) = taken - 1 + 1
          /\ \A j \in 1..(taken - 1 + 1) : SubSeq(queue, 1, taken)[j] = queue[1 + j - 1]
      BY <1>3, <3>1, SubSeqProperties
    <3> QED
      BY <3>2
  <2> DEFINE part == SubSeq(queue, 1, taken)
  <2>4. /\ Len(c2s') = Len(c2s) + taken
        /\ i > Len(c2s) /\ i - Len(c2s) \in 1..taken /\ c2s'[i] = queue[i - Len(c2s)]
    <3> HIDE DEF part
    <3>1. part \in Seq(S \union {m}) /\ Len(part) = taken /\ c2s' = c2s \o part
      BY <2>2, <2>3 DEF part
    <3>2. c2s \in Seq(S \union {m})
      BY <1>2
    <3>3. Len(c2s') = Len(c2s) + taken
      <4>1. Len(c2s \o part) = Len(c2s) + Len(part)
        BY <3>1, <3>2, ConcatProperties
      <4> QED
        BY <3>1, <4>1
    <3>4. i > Len(c2s)
      BY <1>5, <2>1, <3>1, <3>2
    <3>5. c2s'[i] = part[i - Len(c2s)] /\ i - Len(c2s) \in 1..taken
      BY <1>5, <3>1, <3>2, <3>3, <3>4
    <3> QED
      BY <2>3, <3>3, <3>4, <3>5 DEF part
  <2>5. i - Len(c2s) = Len(queue)
    BY <1>3, <1>4, <1>5, <2>4
  <2>6. taken = Len(queue) /\ i = Len(c2s')
    BY <1>2, <1>3, <2>4, <2>5
  <2>7. out' = <<>>
    <3>1. IsSeq(queue) /\ Len(queue) + 1 \in 1..(Len(queue) + 1)
          /\ Len(queue) \in ((Len(queue) + 1) - 1)..Len(queue)
      BY <1>3 DEF IsSeq
    <3>2. IsSeq(out') /\ Len(out') = Len(queue) - (Len(queue) + 1) + 1
      BY <1>1, <2>6, <3>1, SeqPart
    <3> QED
      BY <1>3, <3>2, SeqLength
  <2> QED
    BY <2>6, <2>7
<1> QED
  BY <1>5

\* The invariant after one of the six writing states.
LEMMA WriteStep ==
    ASSUME IInv, NEW m, Write(m), pc = "handshake", state' \in States,
           state \notin Reading \union Over,
           state' \notin Over,
           state' \in Early => state \in Early,
           state' \notin {"CLIENT_HELLO", "SERVER_HELLO"} => state /= "CLIENT_HELLO",
           state' \in Reading => m.type \in {"ClientHello", "Finished"},
           m.type = "Finished" <=> state' \in Done,
           m.type /= "CertificateRequest",
           UNCHANGED <<pc, session, broker, client, warnings>>
    PROVE  IInv'
<1> USE DEF IInv
<1>1. /\ IsSeq(c2s') /\ IsSeq(out') /\ IsSeq(seen')
      /\ ToSet(c2s') \union ToSet(out') \subseteq ToSet(c2s) \union ToSet(out) \union {m}
      /\ m.type \notin PutOff => out' = <<>>
      /\ ToSet(seen') \subseteq ToSet(seen) \union {m}
      /\ UNCHANGED <<tcp, s2c, kept>>
  BY WriteHolds
<1>2. kept = <<>>
  BY DEF TypeOK, Reading
<1>3. PutOffInv'
  BY <1>1 DEF PutOffInv
<1>4. QueuesInv'
  BY <1>1 DEF QueuesInv
<1>5. TypeOK'
  <2>1. (\E i \in DOMAIN Order : state = Order[i])'
    BY StateType
  <2>2. Waiting' => state' \in Reading
    BY DEF Waiting, Reading
  <2> QED
    BY <1>1, <1>2, <1>3, <2>1, <2>2 DEF TypeOK, session, PutOffInv
<1>6. MessagesInv'
  BY <1>1 DEF MessagesInv, True
<1>7. KnownInv'
  <2>1. Asked(seen') => Asked(seen)
    BY <1>1 DEF Asked
  <2> QED
    BY <2>1 DEF KnownInv, session, Reading
<1>8. BrokerInv'
  BY DEF BrokerInv
<1>9. FinishedInv'
  <2>1. state \notin Done
    BY DEF Done, Reading
  <2>2. \A x \in ToSet(c2s) \union ToSet(out) : x.type /= "Finished"
    BY <2>1 DEF FinishedInv
  <2>3. \A i \in 1..Len(c2s') : c2s'[i].type = "Finished" => i = Len(c2s') /\ out' = <<>>
    BY <2>2, FinishedIsLast
  <2>4. broker.due /= <<>>
    BY <2>1 DEF FinishedInv
  <2> QED
    BY <1>1, <2>2, <2>3, <2>4 DEF FinishedInv
<1>10. OverInv'
  BY DEF OverInv
<1> QED
  BY <1>3, <1>4, <1>5, <1>6, <1>7, <1>8, <1>9, <1>10

\* The invariant after a state without a message.
LEMMA IdleStep ==
    ASSUME IInv, pc = "handshake", state' \in States, kept = <<>>,
           state' \in Early <=> state \in Early,
           state' \notin {"CLIENT_HELLO", "SERVER_HELLO"} => state \notin {"CLIENT_HELLO", "SERVER_HELLO"},
           state' \in Reading => state \in Reading,
           state' \in Done <=> state \in Done,
           state' \in Over => state \in Over,
           UNCHANGED <<pc, session, kept, seen, channel, broker, client, warnings>>
    PROVE  IInv'
<1> USE DEF IInv, channel, session
<1>1. PutOffInv'
  BY DEF PutOffInv
<1>2. QueuesInv'
  BY DEF QueuesInv
<1>3. TypeOK'
  <2>1. (\E i \in DOMAIN Order : state = Order[i])'
    BY StateType
  <2>2. Waiting' => state' \in Reading
    BY DEF Waiting, Reading
  <2> QED
    BY <1>1, <2>1, <2>2 DEF TypeOK, PutOffInv
<1>4. MessagesInv'
  BY DEF MessagesInv, True
<1>5. KnownInv'
  BY DEF KnownInv
<1>6. BrokerInv' /\ FinishedInv' /\ OverInv'
  BY DEF BrokerInv, FinishedInv, OverInv
<1> QED
  BY <1>1, <1>2, <1>3, <1>4, <1>5, <1>6

LEMMA WriterStep ==
    ASSUME IInv,
           \/ WriteClientHello \/ WriteCertificate \/ WriteClientKeyExchange
           \/ WriteCertificateVerify \/ WriteChangeCipherSpec \/ WriteFinished
    PROVE  IInv'
<1> USE Successors DEF Steps, Message, States, Reading, Over, Done, Early
<1>1. CASE WriteClientHello
  BY <1>1, WriteStep DEF WriteClientHello
<1>2. CASE WriteCertificate
  <2>1. CASE client_auth
    BY <1>2, <2>1, WriteStep DEF WriteCertificate
  <2>2. CASE ~client_auth
    BY <1>2, <2>2, IdleStep DEF WriteCertificate, IInv, TypeOK
  <2> QED
    BY <2>1, <2>2
<1>3. CASE WriteClientKeyExchange
  BY <1>3, WriteStep DEF WriteClientKeyExchange
<1>4. CASE WriteCertificateVerify
  <2>1. CASE Proves
    BY <1>4, <2>1, WriteStep DEF WriteCertificateVerify
  <2>2. CASE ~Proves
    BY <1>4, <2>2, IdleStep DEF WriteCertificateVerify, IInv, TypeOK
  <2> QED
    BY <2>1, <2>2
<1>5. CASE WriteChangeCipherSpec
  BY <1>5, WriteStep DEF WriteChangeCipherSpec
<1>6. CASE WriteFinished
  BY <1>6, WriteStep DEF WriteFinished
<1> QED
  BY <1>1, <1>2, <1>3, <1>4, <1>5, <1>6

------------------------------------------------------------------------------
(* The client reads *)

\* A message read comes from the broker, unless it was kept, and is used up.
LEMMA TakeHolds ==
    ASSUME IInv, HasMessage, Take
    PROVE  /\ IsSeq(s2c') /\ ToSet(s2c') \subseteq ToSet(s2c)
           /\ IsSeq(seen') /\ ToSet(seen') \subseteq ToSet(seen) \union {Incoming}
           /\ kept' = <<>>
           /\ kept = <<>> => Incoming = s2c[1] /\ Incoming \in ToSet(s2c)
           /\ UNCHANGED <<out, tcp, c2s>>
<1>1. IsSeq(s2c) /\ IsSeq(seen)
  BY DEF IInv, QueuesInv
<1>2. CASE kept /= <<>>
  BY <1>1, <1>2 DEF Take
<1>3. CASE kept = <<>>
  <2>1. s2c /= <<>> /\ s2c' = Tail(s2c) /\ kept' = <<>> /\ Incoming = s2c[1]
    BY <1>3 DEF HasMessage, Take, Incoming
  <2>2. IsSeq(s2c') /\ ToSet(s2c') \subseteq ToSet(s2c) /\ s2c[1] \in ToSet(s2c)
    BY <1>1, <2>1, SeqTail
  <2>3. IsSeq(seen') /\ ToSet(seen') \subseteq ToSet(seen) \union {Incoming}
    BY <1>1, <1>3, SeqAppend DEF Take
  <2> QED
    BY <2>1, <2>2, <2>3 DEF Take
<1> QED
  BY <1>2, <1>3

\* The invariant after a message, but for what a request for a certificate says.
LEMMA ReadStep ==
    ASSUME IInv, HasMessage, Take, state \in Reading, state' \in States,
           Incoming.type /= "CertificateRequest",
           state' \in Early => state \in Early,
           state' \notin {"CLIENT_HELLO", "SERVER_HELLO"},
           state' \in Done <=> state \in Done,
           state' \in Over => seen' = broker.seen /\ broker.due = <<>>,
           key_exchange' = broker.kx,
           new_session_ticket' \in BOOLEAN,
           verify_result' \in {verify_result, broker.cert},
           pc = "handshake",
           UNCHANGED <<pc, client_auth, broker, client, warnings>>
    PROVE  IInv'
<1> USE DEF IInv
<1>1. /\ IsSeq(s2c') /\ ToSet(s2c') \subseteq ToSet(s2c)
      /\ IsSeq(seen') /\ ToSet(seen') \subseteq ToSet(seen) \union {Incoming}
      /\ kept' = <<>>
      /\ UNCHANGED <<out, tcp, c2s>>
  BY TakeHolds
<1>2. PutOffInv'
  BY <1>1 DEF PutOffInv
<1>3. QueuesInv'
  BY <1>1 DEF QueuesInv
<1>4. TypeOK'
  <2>1. (\E i \in DOMAIN Order : state = Order[i])'
    BY StateType
  <2>2. Waiting' => state' \in Reading
    BY DEF Waiting, Reading
  <2> QED
    BY <1>1, <1>2, <2>1, <2>2 DEF TypeOK, PutOffInv, QueuesInv
<1>5. MessagesInv'
  BY <1>1 DEF MessagesInv, True
<1>6. KnownInv'
  <2>1. Asked(seen') => Asked(seen)
    BY <1>1 DEF Asked
  <2> QED
    BY <2>1 DEF KnownInv
<1>7. BrokerInv'
  BY DEF BrokerInv
<1>8. FinishedInv'
  BY <1>1 DEF FinishedInv
<1>9. OverInv'
  BY DEF OverInv
<1> QED
  BY <1>2, <1>3, <1>4, <1>5, <1>6, <1>7, <1>8, <1>9

\* A request in its own state is the first and the only one.
LEMMA RequestStep ==
    ASSUME IInv, ParseCertificateRequest
    PROVE  IInv'
<1> USE DEF IInv
<1>1. /\ pc = "handshake" /\ state = "CERTIFICATE_REQUEST" /\ state' = "SERVER_HELLO_DONE"
      /\ UNCHANGED <<pc, broker, client, warnings>>
      /\ UNCHANGED <<out, tcp, c2s, key_exchange, new_session_ticket, verify_result>>
      /\ client_auth' = (Incoming.type = "CertificateRequest")
  BY Successors DEF ParseCertificateRequest, Steps
<1>2. kept = <<>> /\ s2c /= <<>> /\ Incoming = s2c[1]
  BY <1>1 DEF TypeOK, ParseCertificateRequest, HasMessage, Incoming
<1>3. /\ IsSeq(s2c') /\ ToSet(s2c') \subseteq ToSet(s2c) /\ Incoming \in ToSet(s2c)
      /\ IsSeq(seen') /\ ToSet(seen') = ToSet(seen) \union {Incoming}
  BY <1>2, SeqTail, SeqAppend DEF ParseCertificateRequest, QueuesInv
<1>4. PutOffInv'
  BY <1>1 DEF PutOffInv, Reading
<1>5. QueuesInv'
  BY <1>1, <1>3 DEF QueuesInv
<1>6. TypeOK'
  <2>1. (\E i \in DOMAIN Order : state = Order[i])'
    BY <1>1, StateType DEF States
  <2>2. Waiting' => state' \in Reading
    BY DEF Waiting, Reading
  <2>3. kept' /= <<>> => ~client_auth' /\ Len(kept') = 1
    BY DEF ParseCertificateRequest
  <2> QED
    BY <1>1, <1>4, <2>1, <2>2, <2>3 DEF TypeOK, PutOffInv
<1>7. MessagesInv'
  BY <1>1, <1>3 DEF MessagesInv, True
<1>8. KnownInv'
  <2>1. ~client_auth /\ ~Asked(seen)
    BY <1>1 DEF KnownInv, Early
  <2>2. Asked(seen') <=> Incoming.type = "CertificateRequest"
    BY <1>3, <2>1 DEF Asked
  <2>3. Incoming.type = "CertificateRequest" => broker.asks
    BY <1>3 DEF MessagesInv, True
  <2> QED
    BY <1>1, <2>2, <2>3 DEF KnownInv, Early
<1>9. BrokerInv'
  BY <1>1 DEF BrokerInv
<1>10. FinishedInv' /\ OverInv'
  BY <1>1 DEF FinishedInv, OverInv, Done, Over
<1> QED
  BY <1>4, <1>5, <1>6, <1>7, <1>8, <1>9, <1>10

LEMMA ReaderStep ==
    ASSUME IInv,
           \/ ParseServerHello \/ ParseCertificate \/ ParseServerKeyExchange
           \/ ParseCertificateRequest \/ ParseServerHelloDone
           \/ ParseNewSessionTicket \/ ParseChangeCipherSpec \/ ParseFinished
    PROVE  IInv'
<1> USE Successors DEF Steps, Reads, States, Reading, Over, Done, Early, session
<1>1. state /= "SERVER_HELLO_DONE" => kept = <<>>
  BY DEF IInv, TypeOK
<1>2. /\ verify_result \in {"unknown", broker.cert}
      /\ state \notin {"CLIENT_HELLO", "SERVER_HELLO"} => key_exchange = broker.kx
      /\ {new_session_ticket, broker.ticket} \subseteq BOOLEAN
  BY DEF IInv, KnownInv, TypeOK, QueuesInv
<1>3. HasMessage /\ Take /\ kept = <<>> => True(Incoming) /\ Incoming = s2c[1]
  BY TakeHolds DEF IInv, MessagesInv
<1>4. CASE ParseServerHello
  <2>1. Incoming.data = [kx |-> broker.kx, ticket |-> broker.ticket]
    BY <1>1, <1>3, <1>4 DEF ParseServerHello, True
  <2> QED
    BY <1>2, <1>4, <2>1, ReadStep DEF ParseServerHello
<1>5. CASE ParseCertificate
  <2>1. Incoming.data = broker.cert
    BY <1>1, <1>3, <1>5 DEF ParseCertificate, True
  <2> QED
    BY <1>2, <1>5, <2>1, ReadStep DEF ParseCertificate
<1>6. CASE ParseServerKeyExchange
  <2>1. CASE key_exchange = "RSA"
    BY <1>1, <1>6, <2>1, IdleStep DEF ParseServerKeyExchange
  <2>2. CASE key_exchange /= "RSA"
    BY <1>2, <1>6, <2>2, ReadStep DEF ParseServerKeyExchange
  <2> QED
    BY <2>1, <2>2
<1>7. CASE ParseServerHelloDone
  BY <1>2, <1>7, ReadStep DEF ParseServerHelloDone
<1>8. CASE ParseNewSessionTicket
  BY <1>2, <1>8, ReadStep DEF ParseNewSessionTicket
<1>9. CASE ParseChangeCipherSpec
  BY <1>2, <1>9, ReadStep DEF ParseChangeCipherSpec
<1>10. CASE ParseFinished
  <2>1. kept = <<>> /\ Incoming.type = "Finished" /\ True(Incoming) /\ Incoming.data = seen
    BY <1>1, <1>3, <1>10 DEF ParseFinished
  <2>2. broker.due = <<>> /\ broker.seen = Append(seen, Incoming)
    BY <2>1 DEF True
  <2>3. seen' = Append(seen, Incoming)
    BY <1>10, <2>1 DEF ParseFinished, Take, Hashed
  <2> QED
    BY <1>2, <1>10, <2>1, <2>2, <2>3, ReadStep DEF ParseFinished
<1> QED
  BY <1>4, <1>5, <1>6, <1>7, <1>8, <1>9, <1>10, RequestStep

LEMMA SkipStep == ASSUME IInv, SkipWarning PROVE IInv'
<1> USE DEF IInv
<1>1. /\ UNCHANGED <<pc, state, key_exchange, client_auth, new_session_ticket, verify_result>>
      /\ UNCHANGED <<kept, seen, out, tcp, c2s, broker, client, warnings>>
      /\ s2c' = Tail(s2c) /\ s2c /= <<>>
  BY DEF SkipWarning, session
<1>2. IsSeq(s2c') /\ ToSet(s2c') \subseteq ToSet(s2c)
  BY <1>1, SeqTail DEF QueuesInv
<1>3. TypeOK' /\ PutOffInv' /\ QueuesInv'
  BY <1>1, <1>2 DEF TypeOK, PutOffInv, QueuesInv, Waiting
<1>4. MessagesInv'
  BY <1>1, <1>2 DEF MessagesInv, True
<1>5. KnownInv' /\ BrokerInv' /\ FinishedInv' /\ OverInv'
  BY <1>1 DEF KnownInv, BrokerInv, FinishedInv, OverInv
<1> QED
  BY <1>3, <1>4, <1>5

------------------------------------------------------------------------------
(* The end of handShakeTls() *)

LEMMA AbandonStep == ASSUME IInv, pc = "handshake", Abandon PROVE IInv'
<1> USE DEF IInv
<1>1. /\ UNCHANGED <<state, key_exchange, client_auth, new_session_ticket, verify_result>>
      /\ UNCHANGED <<seen, c2s, broker, client, warnings>>
      /\ pc' = "failed" /\ tcp' = "down" /\ s2c' = <<>> /\ out' = <<>> /\ kept' = <<>>
  BY DEF Abandon, session
<1>2. TypeOK' /\ PutOffInv'
  BY <1>1 DEF TypeOK, PutOffInv, Waiting
<1>3. QueuesInv' /\ MessagesInv'
  BY <1>1, SeqEmpty DEF QueuesInv, MessagesInv
<1>4. KnownInv' /\ BrokerInv' /\ OverInv'
  BY <1>1 DEF KnownInv, BrokerInv, OverInv
<1>5. FinishedInv'
  BY <1>1, SeqEmpty DEF FinishedInv
<1> QED
  BY <1>2, <1>3, <1>4, <1>5

LEMMA FinishStep == ASSUME IInv, Finish PROVE IInv'
<1> USE DEF IInv
<1>1. pc = "handshake" /\ state = "HANDSHAKE_OVER"
  BY DEF Finish
<1>2. CASE client.verify /\ ~Verify
  BY <1>1, <1>2, AbandonStep DEF Finish
<1>3. CASE ~(client.verify /\ ~Verify)
  <2>1. /\ UNCHANGED <<state, key_exchange, client_auth, new_session_ticket, verify_result>>
        /\ UNCHANGED <<kept, seen, out, tcp, c2s, s2c, broker, client, warnings>>
        /\ pc' = "connected"
    BY <1>3 DEF Finish, session, channel
  <2>2. TypeOK' /\ PutOffInv' /\ QueuesInv'
    BY <2>1 DEF TypeOK, PutOffInv, QueuesInv, Waiting
  <2>3. MessagesInv'
    BY <2>1 DEF MessagesInv, True
  <2>4. KnownInv' /\ BrokerInv' /\ FinishedInv'
    BY <2>1 DEF KnownInv, BrokerInv, FinishedInv
  <2>5. OverInv'
    BY <1>1, <1>3, <2>1 DEF OverInv, Verify
  <2> QED
    BY <2>2, <2>3, <2>4, <2>5
<1> QED
  BY <1>2, <1>3

LEMMA ClientSteps == ASSUME IInv, ClientStep PROVE IInv'
<1>1. CASE Wrapup
  <2>1. kept = <<>>
    BY <1>1 DEF IInv, TypeOK, Wrapup, Steps
  <2> QED
    BY <1>1, <2>1, Successors, IdleStep
       DEF Wrapup, Steps, States, Reading, Over, Done, Early
<1>2. CASE Fail
  BY <1>2, AbandonStep DEF Fail
<1> QED
  BY <1>1, <1>2, WriterStep, ReaderStep, SkipStep, FinishStep DEF ClientStep

------------------------------------------------------------------------------
(* The broker *)

\* The invariant after a message that the broker has read.
LEMMA BrokerStep ==
    ASSUME IInv, c2s /= <<>>, c2s' = Tail(c2s), broker.due /= <<>>,
           NEW answers, IsSeq(s2c'), ToSet(s2c') \subseteq ToSet(s2c) \union answers,
           \A m \in answers : True(m)',
           NEW t, IsSeq(t), NEW due \in Dues,
           broker' = [broker EXCEPT !.seen = t, !.due = due],
           t = <<>> => due = <<"Surprised">>,
           t /= <<>> /\ broker.asks => Asked(t),
           due = <<>> => state \in Done /\ out = <<>>,
           UNCHANGED <<pc, state, session, kept, seen, out, tcp, client, warnings>>
    PROVE  IInv'
<1> USE DEF IInv
<1>1. UNCHANGED <<key_exchange, client_auth, new_session_ticket, verify_result>>
  BY DEF session
<1>2. broker' = [kx |-> broker.kx, asks |-> broker.asks, ticket |-> broker.ticket,
                 cert |-> broker.cert, seen |-> t, due |-> due]
  BY DEF QueuesInv
<1>3. IsSeq(c2s') /\ ToSet(c2s') \subseteq ToSet(c2s)
  BY SeqTail DEF QueuesInv
<1>4. TypeOK' /\ PutOffInv'
  BY <1>1 DEF TypeOK, PutOffInv, Waiting
<1>5. QueuesInv'
  BY <1>2, <1>3 DEF QueuesInv
<1>6. MessagesInv'
  <2>1. \A m \in ToSet(s2c) : True(m) /\ m.type /= "Finished"
    BY DEF MessagesInv, True
  <2>2. \A m \in ToSet(s2c) : True(m)'
    BY <1>2, <2>1 DEF True
  <2> QED
    BY <2>2 DEF MessagesInv
<1>7. KnownInv' /\ BrokerInv'
  BY <1>1, <1>2 DEF KnownInv, BrokerInv
<1>8. FinishedInv'
  <2>1. ASSUME NEW i \in 1..Len(c2s'), c2s'[i].type = "Finished"
        PROVE  i = Len(c2s') /\ out' = <<>>
    <3>1. PICK S : c2s \in Seq(S)
      BY DEF QueuesInv, IsSeq
    <3>2. Len(c2s') = Len(c2s) - 1 /\ i + 1 \in 1..Len(c2s) /\ c2s'[i] = c2s[i + 1]
      BY <3>1, HeadTailProperties
    <3>3. i + 1 = Len(c2s) /\ out = <<>>
      BY <2>1, <3>2 DEF FinishedInv
    <3> QED
      BY <3>1, <3>2, <3>3
  <2> QED
    BY <1>2, <1>3, <2>1 DEF FinishedInv
<1>9. OverInv'
  BY <1>1 DEF OverInv, Over
<1> QED
  BY <1>4, <1>5, <1>6, <1>7, <1>8, <1>9

\* The broker's first flight tells the truth.
LEMMA FlightHolds ==
    ASSUME QueuesInv
    PROVE  /\ IsSeq(Flight)
           /\ \A m \in ToSet(Flight) : m.type /= "Finished" /\ True(m)
           /\ broker.asks => Asked(Flight)
<1> DEFINE hello == Message("ServerHello", [kx |-> broker.kx, ticket |-> broker.ticket])
           certificate == Message("Certificate", broker.cert)
           exchange == IF broker.kx = "RSA" THEN <<>> ELSE <<Message("ServerKeyExchange", 0)>>
           request == IF broker.asks THEN <<Message("CertificateRequest", 0)>> ELSE <<>>
           last == <<Message("ServerHelloDone", 0)>>
<1>1. IsSeq(exchange) /\ ToSet(exchange) \subseteq {Message("ServerKeyExchange", 0)}
  BY SeqOne, SeqEmpty
<1>2. /\ IsSeq(request)
      /\ ToSet(request) = IF broker.asks THEN {Message("CertificateRequest", 0)} ELSE {}
  BY SeqOne, SeqEmpty
<1>3. IsSeq(last) /\ ToSet(last) = {Message("ServerHelloDone", 0)}
  BY SeqOne
<1>4. IsSeq(<<hello, certificate>>) /\ ToSet(<<hello, certificate>>) = {hello, certificate}
  BY SeqTwo
<1>5. Flight = <<hello, certificate>> \o exchange \o request \o last
  BY DEF Flight
<1> HIDE DEF exchange, request, last
<1>6. /\ IsSeq(<<hello, certificate>> \o exchange)
      /\ ToSet(<<hello, certificate>> \o exchange) = {hello, certificate} \union ToSet(exchange)
  BY <1>1, <1>4, SeqConcat
<1>7. /\ IsSeq(<<hello, certificate>> \o exchange \o request)
      /\ ToSet(<<hello, certificate>> \o exchange \o request)
            = {hello, certificate} \union ToSet(exchange) \union ToSet(request)
  BY <1>2, <1>6, SeqConcat
<1>8. /\ IsSeq(Flight)
      /\ ToSet(Flight) = {hello, certificate} \union ToSet(exchange)
                         \union ToSet(request) \union ToSet(last)
  BY <1>3, <1>5, <1>7, SeqConcat
<1>9. \A m \in ToSet(Flight) : m.type /= "Finished" /\ True(m)
  BY <1>1, <1>2, <1>3, <1>8 DEF Message, True
<1>10. broker.asks => Asked(Flight)
  <2>1. broker.asks => Message("CertificateRequest", 0) \in ToSet(Flight)
    BY <1>2, <1>8
  <2>2. Message("CertificateRequest", 0).type = "CertificateRequest"
    BY DEF Message
  <2> QED
    BY <2>1, <2>2 DEF Asked
<1> QED
  BY <1>8, <1>9, <1>10

\* The broker's last: it is all that went before, and the broker waits for no more.
LEMMA LastFlightStep ==
    ASSUME IInv, c2s /= <<>>, c2s' = Tail(c2s), broker.due /= <<>>,
           AnswersFinished(Head(c2s)), Head(c2s).type = Head(broker.due),
           UNCHANGED <<pc, state, session, kept, seen, out, tcp, client, warnings>>
    PROVE  IInv'
<1> DEFINE m == Head(c2s)
           ticket == IF broker.ticket THEN <<Message("NewSessionTicket", 0)>> ELSE <<>>
           told == Append(broker.seen, m) \o ticket
           last == Message("Finished", told)
           news == SubSeq(told, Len(broker.seen) + 2, Len(told))
           answers == ToSet(news) \union {Message("ChangeCipherSpec", 0), last}
<1>1. IsSeq(c2s) /\ IsSeq(s2c) /\ IsSeq(broker.seen)
  BY DEF IInv, QueuesInv
<1>2. /\ m.type = "Finished"
      /\ s2c' = s2c \o (news \o <<Message("ChangeCipherSpec", 0), last>>)
      /\ broker' = [broker EXCEPT !.seen = Append(told, last), !.due = <<>>]
  BY DEF AnswersFinished, Sends
<1>3. state \in Done /\ out = <<>>
  <2>1. m = c2s[1] /\ m \in ToSet(c2s) /\ 1 \in 1..Len(c2s)
    BY <1>1, SeqTail, SeqLength
  <2> QED
    BY <1>2, <2>1 DEF IInv, FinishedInv
<1>4. IsSeq(ticket) /\ ToSet(ticket) \subseteq {Message("NewSessionTicket", 0)}
  BY SeqOne, SeqEmpty
<1>5. /\ IsSeq(Append(broker.seen, m))
      /\ ToSet(Append(broker.seen, m)) = ToSet(broker.seen) \union {m}
      /\ Len(Append(broker.seen, m)) + 1 = Len(broker.seen) + 2
  <2>1. PICK S : broker.seen \in Seq(S)
    BY <1>1 DEF IsSeq
  <2>2. broker.seen \in Seq(S \union {m})
    BY <2>1
  <2>3. Len(Append(broker.seen, m)) + 1 = Len(broker.seen) + 2
    BY <2>2
  <2> QED
    BY <1>1, <2>3, SeqAppend
<1> HIDE DEF m, ticket
<1>6. IsSeq(told) /\ ToSet(told) = ToSet(broker.seen) \union {m} \union ToSet(ticket)
  BY <1>4, <1>5, SeqConcat
<1>7. IsSeq(news) /\ \A x \in ToSet(news) : x = Message("NewSessionTicket", 0)
  BY <1>4, <1>5, SeqRest
<1> HIDE DEF told, news
<1>8. IsSeq(s2c') /\ ToSet(s2c') \subseteq ToSet(s2c) \union answers
  <2>1. /\ IsSeq(<<Message("ChangeCipherSpec", 0), last>>)
        /\ ToSet(<<Message("ChangeCipherSpec", 0), last>>) = {Message("ChangeCipherSpec", 0), last}
    BY SeqTwo
  <2>2. /\ IsSeq(news \o <<Message("ChangeCipherSpec", 0), last>>)
        /\ ToSet(news \o <<Message("ChangeCipherSpec", 0), last>>) = answers
    BY <1>7, <2>1, SeqConcat
  <2> QED
    BY <1>1, <1>2, <2>2, SeqConcat
<1>9. /\ IsSeq(Append(told, last)) /\ Append(told, last) /= <<>>
      /\ ToSet(Append(told, last)) = ToSet(told) \union {last}
  BY <1>6, SeqAppend
<1>10. broker.asks => Asked(Append(told, last))
  <2>1. broker.seen /= <<>>
    BY <1>2 DEF IInv, BrokerInv, m
  <2>2. broker.asks => Asked(broker.seen)
    BY <2>1 DEF IInv, BrokerInv
  <2> QED
    BY <1>6, <1>9, <2>2 DEF Asked
<1>11. \A x \in answers : True(x)'
  <2>1. broker'.due = <<>> /\ broker'.seen = Append(told, last)
    BY <1>2 DEF IInv, QueuesInv
  <2>2. last.type = "Finished" /\ last.data = told
    BY DEF Message
  <2>3. \A x : x = last => True(x)'
    BY <2>1, <2>2 DEF True
  <2>4. \A x \in {Message("NewSessionTicket", 0), Message("ChangeCipherSpec", 0)} : True(x)'
    BY DEF Message, True
  <2> QED
    BY <1>7, <2>3, <2>4
<1> QED
  BY <1>2, <1>3, <1>8, <1>9, <1>10, <1>11, BrokerStep DEF Dues

LEMMA BrokerReadsStep == ASSUME IInv, BrokerReads PROVE IInv'
<1> DEFINE m == Head(c2s)
<1>1. /\ c2s /= <<>> /\ c2s' = Tail(c2s) /\ broker.due /= <<>>
      /\ UNCHANGED <<pc, state, session, kept, seen, out, tcp, client, warnings>>
      /\ \/ m.type = Head(broker.due) /\ AnswersHello(m)
         \/ m.type = Head(broker.due) /\ Accepts(m)
         \/ m.type = Head(broker.due) /\ AnswersFinished(m)
         \/ /\ Sends(<<Message("Fatal", 0)>>)
            /\ broker' = [broker EXCEPT !.due = <<"Surprised">>]
  BY DEF BrokerReads
<1>2. /\ IsSeq(c2s) /\ IsSeq(s2c) /\ IsSeq(broker.seen) /\ broker.due \in Dues
      /\ broker.kx \in {"RSA", "ECDHE"} /\ {broker.asks, broker.ticket} \subseteq BOOLEAN
      /\ broker = [kx |-> broker.kx, asks |-> broker.asks, ticket |-> broker.ticket,
                   cert |-> broker.cert, seen |-> broker.seen, due |-> broker.due]
      /\ broker.seen = <<>> => broker.due \in {<<"ClientHello">>, <<"Surprised">>}
      /\ broker.seen /= <<>> /\ broker.asks => Asked(broker.seen)
  BY DEF IInv, QueuesInv, BrokerInv
<1> HIDE DEF m
<1>3. CASE m.type = Head(broker.due) /\ AnswersHello(m)
  <2> DEFINE t == broker.seen \o <<m>> \o Flight
             due == (IF broker.asks THEN <<"Certificate">> ELSE <<>>)
                    \o <<"ClientKeyExchange", "ChangeCipherSpec", "Finished">>
  <2>1. s2c' = s2c \o Flight /\ broker' = [broker EXCEPT !.seen = t, !.due = due]
    BY <1>2, <1>3 DEF AnswersHello, Sends
  <2>2. /\ IsSeq(Flight)
        /\ \A x \in ToSet(Flight) : x.type /= "Finished" /\ True(x)
        /\ broker.asks => Asked(Flight)
    BY FlightHolds DEF IInv
  <2>3. IsSeq(t) /\ ToSet(t) = ToSet(broker.seen) \union {m} \union ToSet(Flight)
    <3>1. IsSeq(broker.seen \o <<m>>) /\ ToSet(broker.seen \o <<m>>) = ToSet(broker.seen) \union {m}
      BY <1>2, SeqOne, SeqConcat
    <3> QED
      BY <2>2, <3>1, SeqConcat
  <2>4. IsSeq(s2c') /\ ToSet(s2c') = ToSet(s2c) \union ToSet(Flight)
    BY <1>2, <2>1, <2>2, SeqConcat
  <2>5. due \in Dues /\ due /= <<>>
    <3>1. due = IF broker.asks
                THEN <<"Certificate", "ClientKeyExchange", "ChangeCipherSpec", "Finished">>
                ELSE <<"ClientKeyExchange", "ChangeCipherSpec", "Finished">>
      BY OneAndThree, EmptyAndThree, Zenon
    <3> HIDE DEF due
    <3> QED
      BY <3>1 DEF Dues
  <2>6. \A x \in ToSet(Flight) : True(x)'
    <3>1. /\ broker'.kx = broker.kx /\ broker'.ticket = broker.ticket
          /\ broker'.asks = broker.asks /\ broker'.cert = broker.cert
      BY <1>2, <2>1
    <3> QED
      BY <2>2, <3>1 DEF True
  <2> HIDE DEF t, due
  <2>7. t /= <<>> /\ (broker.asks => Asked(t))
    BY <2>2, <2>3, SeqEmpty DEF Asked
  <2> QED
    BY <1>1, <2>1, <2>3, <2>4, <2>5, <2>6, <2>7, BrokerStep
<1>4. CASE m.type = Head(broker.due) /\ Accepts(m)
  <2> DEFINE t == IF Hashed(m) THEN Append(broker.seen, m) ELSE broker.seen
             due == IF m.type = "Certificate" /\ m.data
                    THEN <<"ClientKeyExchange", "CertificateVerify">>
                         \o SubSeq(broker.due, 3, Len(broker.due))
                    ELSE Tail(broker.due)
  <2>1. s2c' = s2c /\ broker' = [broker EXCEPT !.seen = t, !.due = due]
    BY <1>2, <1>4 DEF Accepts
  <2>2. IsSeq(t) /\ ToSet(broker.seen) \subseteq ToSet(t)
    BY <1>2, SeqAppend
  <2>3. /\ broker.due \notin {<<"ClientHello">>, <<"Surprised">>, <<"Finished">>, <<>>}
        /\ m.type = "Certificate" => broker.due = <<"Certificate", "ClientKeyExchange",
                                                   "ChangeCipherSpec", "Finished">>
    <3>1. Head(broker.due) \in {"Certificate", "ClientKeyExchange", "CertificateVerify",
                                "ChangeCipherSpec"}
      BY <1>4 DEF Accepts
    <3>2. broker.due \notin {<<"ClientHello">>, <<"Surprised">>, <<"Finished">>, <<>>}
      BY <1>1, <3>1
    <3> QED
      BY <1>2, <1>4, <3>2 DEF Dues
  <2>4. due \in Dues /\ due /= <<>>
    <3>1. CASE m.type = "Certificate" /\ m.data
      <4>1. broker.due = <<"Certificate", "ClientKeyExchange", "ChangeCipherSpec", "Finished">>
        BY <2>3, <3>1
      <4>2. Len(broker.due) = 4
        BY <4>1
      <4>3. SubSeq(broker.due, 3, Len(broker.due)) = <<"ChangeCipherSpec", "Finished">>
        <5>1. SubSeq(broker.due, 3, 4) = <<"ChangeCipherSpec", "Finished">>
          BY <4>1, LastTwo
        <5> QED
          BY <4>2, <5>1
      <4>4. due = <<"ClientKeyExchange", "CertificateVerify">> \o <<"ChangeCipherSpec", "Finished">>
        BY <3>1, <4>3, Zenon
      <4>5. due = <<"ClientKeyExchange", "CertificateVerify", "ChangeCipherSpec", "Finished">>
        BY <4>4, TwoAndTwo, Zenon
      <4> HIDE DEF due
      <4> QED
        BY <4>5 DEF Dues
    <3>2. CASE ~(m.type = "Certificate" /\ m.data)
      <4>1. due = Tail(broker.due)
        BY <3>2, Zenon
      <4> HIDE DEF due
      <4>2. due \in {<<"ClientKeyExchange", "ChangeCipherSpec", "Finished">>,
                     <<"CertificateVerify", "ChangeCipherSpec", "Finished">>,
                     <<"ChangeCipherSpec", "Finished">>,
                     <<"Finished">>}
        <5>1. broker.due \in {<<"Certificate", "ClientKeyExchange", "ChangeCipherSpec", "Finished">>,
                              <<"ClientKeyExchange", "CertificateVerify", "ChangeCipherSpec", "Finished">>,
                              <<"ClientKeyExchange", "ChangeCipherSpec", "Finished">>,
                              <<"CertificateVerify", "ChangeCipherSpec", "Finished">>,
                              <<"ChangeCipherSpec", "Finished">>}
          BY <1>2, <2>3, Zenon DEF Dues
        <5>2. CASE broker.due = <<"Certificate", "ClientKeyExchange", "ChangeCipherSpec", "Finished">>
          BY <4>1, <5>2, Tails
        <5>3. CASE broker.due = <<"ClientKeyExchange", "CertificateVerify", "ChangeCipherSpec", "Finished">>
          BY <4>1, <5>3, Tails
        <5>4. CASE broker.due = <<"ClientKeyExchange", "ChangeCipherSpec", "Finished">>
          BY <4>1, <5>4, Tails
        <5>5. CASE broker.due = <<"CertificateVerify", "ChangeCipherSpec", "Finished">>
          BY <4>1, <5>5, Tails
        <5>6. CASE broker.due = <<"ChangeCipherSpec", "Finished">>
          BY <4>1, <5>6, Tails
        <5> QED
          BY <5>1, <5>2, <5>3, <5>4, <5>5, <5>6, Zenon
      <4> QED
        BY <4>2 DEF Dues
    <3> QED
      BY <3>1, <3>2
  <2> HIDE DEF t, due
  <2>5. t /= <<>> /\ (broker.asks => Asked(t))
    <3>1. broker.seen /= <<>>
      BY <1>2, <2>3
    <3>2. t /= <<>>
      BY <1>2, <3>1, SeqAppend DEF t
    <3> QED
      BY <1>2, <2>2, <3>1, <3>2 DEF Asked
  <2> DEFINE none == {}
  <2>6. IsSeq(s2c') /\ ToSet(s2c') \subseteq ToSet(s2c) \union none
    BY <1>2, <2>1
  <2>7. \A x \in none : True(x)'
    OBVIOUS
  <2> HIDE DEF none
  <2> QED
    BY <1>1, <2>1, <2>2, <2>4, <2>5, <2>6, <2>7, BrokerStep
<1>5. CASE m.type = Head(broker.due) /\ AnswersFinished(m)
  BY <1>1, <1>5, LastFlightStep DEF m
<1>6. CASE /\ Sends(<<Message("Fatal", 0)>>)
           /\ broker' = [broker EXCEPT !.due = <<"Surprised">>]
  <2>1. broker' = [broker EXCEPT !.seen = broker.seen, !.due = <<"Surprised">>]
    BY <1>2, <1>6
  <2>2. /\ IsSeq(s2c') /\ ToSet(s2c') \subseteq ToSet(s2c) \union {Message("Fatal", 0)}
    BY <1>2, <1>6, SeqOne, SeqConcat DEF Sends
  <2>3. \A x \in {Message("Fatal", 0)} : True(x)'
    BY DEF Message, True
  <2> QED
    BY <1>1, <1>2, <2>1, <2>2, <2>3, BrokerStep DEF Dues
<1> QED
  BY <1>1, <1>3, <1>4, <1>5, <1>6

\* Warnings and the end of the connection say nothing.
LEMMA NetworkStep == ASSUME IInv, BrokerWarns \/ GivesUp PROVE IInv'
<1> USE DEF IInv
<1>1. /\ UNCHANGED <<pc, state, key_exchange, client_auth, new_session_ticket, verify_result>>
      /\ UNCHANGED <<kept, seen, out, c2s, broker, client>>
      /\ tcp' \in {"up", "down"} /\ warnings' \in 0..MaxWarnings
  BY HandshakeAssumption DEF BrokerWarns, GivesUp, session, TypeOK
<1>2. \/ s2c' = s2c
      \/ s2c' = s2c \o <<Message("Fatal", 0)>>
      \/ s2c' = s2c \o <<Message("Warning", 0)>>
  BY DEF BrokerWarns, GivesUp, Sends
<1>3. IsSeq(s2c') /\ ToSet(s2c') \subseteq ToSet(s2c) \union {Message("Fatal", 0), Message("Warning", 0)}
  <2>1. IsSeq(s2c)
    BY DEF QueuesInv
  <2>2. \A m : IsSeq(s2c \o <<m>>) /\ ToSet(s2c \o <<m>>) = ToSet(s2c) \union {m}
    <3> TAKE m
    <3>1. IsSeq(<<m>>) /\ ToSet(<<m>>) = {m}
      BY SeqOne
    <3> QED
      BY <2>1, <3>1, SeqConcat
  <2> QED
    BY <1>2, <2>1, <2>2
<1>4. TypeOK' /\ PutOffInv' /\ QueuesInv'
  BY <1>1, <1>3 DEF TypeOK, PutOffInv, QueuesInv, Waiting
<1>5. MessagesInv'
  BY <1>1, <1>3 DEF MessagesInv, True, Message
<1>6. KnownInv' /\ BrokerInv' /\ FinishedInv' /\ OverInv'
  BY <1>1 DEF KnownInv, BrokerInv, FinishedInv, OverInv
<1> QED
  BY <1>4, <1>5, <1>6

------------------------------------------------------------------------------
LEMMA InitIInv == ASSUME Init PROVE IInv
<1> USE SeqEmpty DEF Init
<1>1. TypeOK
  <2>1. \E i \in DOMAIN Order : state = Order[i]
    BY StateType DEF States
  <2>2. pc = "handshake" /\ key_exchange = "unknown" /\ verify_result = "unknown" /\ tcp = "up"
    OBVIOUS
  <2>3. client_auth = FALSE /\ new_session_ticket = FALSE /\ kept = <<>> /\ out = <<>>
    OBVIOUS
  <2>4. warnings \in 0..MaxWarnings
    BY HandshakeAssumption
  <2> QED
    BY <2>1, <2>2, <2>3, <2>4 DEF TypeOK
<1>2. QueuesInv /\ PutOffInv
  BY DEF QueuesInv, PutOffInv, Dues
<1>3. MessagesInv /\ KnownInv
  BY DEF MessagesInv, KnownInv, Asked, Early
<1>4. BrokerInv /\ FinishedInv /\ OverInv
  BY DEF BrokerInv, FinishedInv, OverInv, Over
<1> QED
  BY <1>1, <1>2, <1>3, <1>4 DEF IInv

LEMMA StutterIInv == ASSUME IInv, UNCHANGED vars PROVE IInv'
<1> USE DEF IInv, vars, session, channel
<1>1. TypeOK' /\ PutOffInv' /\ QueuesInv'
  BY DEF TypeOK, PutOffInv, QueuesInv, Waiting
<1>2. MessagesInv' /\ KnownInv' /\ BrokerInv' /\ FinishedInv' /\ OverInv'
  BY DEF MessagesInv, True, KnownInv, BrokerInv, FinishedInv, OverInv
<1> QED
  BY <1>1, <1>2

\* What each side has hashed, knows and waits for fits together in every state of
\* handShakeTls() and the broker.
THEOREM HandshakeInvariant == Spec => []IInv
<1>1. Init => IInv
  BY InitIInv
<1>2. IInv /\ [Next]_vars => IInv'
  BY ClientSteps, BrokerReadsStep, NetworkStep, StutterIInv DEF Next
<1> QED
  BY <1>1, <1>2, PTL DEF Spec

\* TypeOK: in particular what handShakeTls() keeps for the next state is read
\* there, and what the socket put off goes out before the client waits for an
\* answer, unless it was the last message of a flight.
THEOREM HandshakeTypeOK == Spec => []TypeOK
<1>1. IInv => TypeOK
  BY DEF IInv
<1> QED
  BY <1>1, HandshakeInvariant, PTL

\* VerifiedBroker: with enableVerify handShakeTls() succeeds only with a broker
\* whose certificate verified, whoever ends the connection and whenever.
THEOREM BrokerIsVerified == Spec => []VerifiedBroker
<1>1. IInv => VerifiedBroker
  BY DEF IInv, OverInv, KnownInv, QueuesInv, VerifiedBroker
<1> QED
  BY <1>1, HandshakeInvariant, PTL

\* HandshakeAgrees: when handShakeTls() succeeds both sides have hashed the same
\* messages, agree on what they say, and neither waits for the other.
THEOREM BothSidesAgree == Spec => []HandshakeAgrees
<1>1. ASSUME IInv, pc = "connected"
      PROVE  /\ seen = broker.seen /\ broker.due = <<>> /\ out = <<>>
             /\ client_auth = broker.asks /\ key_exchange = broker.kx
  <2>1. seen = broker.seen /\ broker.due = <<>> /\ state = "HANDSHAKE_OVER"
    BY <1>1 DEF IInv, OverInv, Over
  <2>2. out = <<>>
    BY <1>1, <2>1 DEF IInv, FinishedInv
  <2>3. broker.seen /= <<>>
    BY <1>1, <2>1 DEF IInv, BrokerInv
  <2>4. client_auth = broker.asks
    BY <1>1, <2>1, <2>3 DEF IInv, BrokerInv, KnownInv, QueuesInv, TypeOK
  <2>5. key_exchange = broker.kx
    BY <1>1, <2>1 DEF IInv, KnownInv
  <2> QED
    BY <2>1, <2>2, <2>4, <2>5
<1>2. IInv => HandshakeAgrees
  BY <1>1 DEF HandshakeAgrees
<1> QED
  BY <1>2, HandshakeInvariant, PTL
------------------------------------------------------------------------------
(* What is hashed of what is under way *)

\* The hashed messages of s are those of t, in their order.
Carries(s, t) ==
    \E f \in [1..Len(t) -> 1..Len(s)] :
        /\ \A k \in 1..Len(t) : s[f[k]] = t[k]
        /\ \A j, k \in 1..Len(t) : j < k => f[j] < f[k]
        /\ \A i \in 1..Len(s) : Hashed(s[i]) <=> \E k \in 1..Len(t) : f[k] = i

LEMMA CarriesNothing ==
    /\ Carries(<<>>, <<>>)
    /\ \A t : IsSeq(t) /\ Carries(<<>>, t) => t = <<>>
<1>1. Len(<<>>) = 0
  OBVIOUS
<1>2. 1..0 = {}
  OBVIOUS
<1>3. Carries(<<>>, <<>>)
  <2>1. [k \in {} |-> 0] \in [{} -> {}]
    OBVIOUS
  <2> QED
    BY <1>1, <1>2, <2>1 DEF Carries
<1>4. ASSUME NEW t, IsSeq(t), Carries(<<>>, t) PROVE t = <<>>
  <2>1. PICK f \in [1..Len(t) -> 1..0] : TRUE
    BY <1>1, <1>4 DEF Carries
  <2>2. \A k \in 1..Len(t) : FALSE
    BY <1>2, <2>1
  <2>3. Len(t) \in Nat
    BY <1>4, SeqLength
  <2>4. Len(t) = 0
    BY <2>2, <2>3
  <2> QED
    BY <1>4, <2>4, SeqLength
<1> QED
  BY <1>3, <1>4

LEMMA CarriesOne == \A m : Carries(<<m>>, IF Hashed(m) THEN <<m>> ELSE <<>>)
<1> TAKE m
<1>1. Len(<<m>>) = 1 /\ <<m>>[1] = m /\ Len(<<>>) = 0 /\ 1..1 = {1} /\ 1..0 = {}
  OBVIOUS
<1>2. CASE Hashed(m)
  <2> DEFINE f == [k \in 1..1 |-> 1]
  <2>1. f \in [1..1 -> 1..1] /\ f[1] = 1
    OBVIOUS
  <2> HIDE DEF f
  <2>2. /\ \A k \in 1..1 : <<m>>[f[k]] = <<m>>[k]
        /\ \A j, k \in 1..1 : ~(j < k)
        /\ \A i \in 1..1 : Hashed(<<m>>[i]) /\ f[1] = i
    BY <1>1, <1>2, <2>1
  <2>3. Carries(<<m>>, <<m>>)
    BY <1>1, <2>1, <2>2 DEF Carries
  <2> QED
    BY <1>2, <2>3
<1>3. CASE ~Hashed(m)
  <2>1. [k \in {} |-> 1] \in [{} -> 1..1]
    OBVIOUS
  <2>2. Carries(<<m>>, <<>>)
    BY <1>1, <1>3, <2>1 DEF Carries
  <2> QED
    BY <1>3, <2>2
<1> QED
  BY <1>2, <1>3

LEMMA CarriesConcat ==
    ASSUME NEW s, IsSeq(s), NEW t, IsSeq(t), Carries(s, t),
           NEW s2, IsSeq(s2), NEW t2, IsSeq(t2), Carries(s2, t2)
    PROVE  Carries(s \o s2, t \o t2)
<1>1. PICK S : s \in Seq(S) /\ s2 \in Seq(S) /\ t \in Seq(S)
  BY SeqUnion
<1>2. PICK T : t \in Seq(T) /\ t2 \in Seq(T)
  BY SeqUnion
<1> DEFINE n == Len(t)  n2 == Len(t2)  l == Len(s)  l2 == Len(s2)
<1>3. n \in Nat /\ n2 \in Nat /\ l \in Nat /\ l2 \in Nat
  BY <1>1, <1>2
<1>4. /\ Len(s \o s2) = l + l2
      /\ \A i \in 1..(l + l2) : (s \o s2)[i] = IF i <= l THEN s[i] ELSE s2[i - l]
  BY <1>1, ConcatProperties
<1>5. /\ Len(t \o t2) = n + n2
      /\ \A i \in 1..(n + n2) : (t \o t2)[i] = IF i <= n THEN t[i] ELSE t2[i - n]
  BY <1>2, ConcatProperties
<1>6. PICK f \in [1..n -> 1..l] :
        /\ \A k \in 1..n : s[f[k]] = t[k]
        /\ \A j, k \in 1..n : j < k => f[j] < f[k]
        /\ \A i \in 1..l : Hashed(s[i]) <=> \E k \in 1..n : f[k] = i
  BY DEF Carries
<1>7. PICK g \in [1..n2 -> 1..l2] :
        /\ \A k \in 1..n2 : s2[g[k]] = t2[k]
        /\ \A j, k \in 1..n2 : j < k => g[j] < g[k]
        /\ \A i \in 1..l2 : Hashed(s2[i]) <=> \E k \in 1..n2 : g[k] = i
  BY DEF Carries
<1> HIDE DEF n, n2, l, l2
<1> DEFINE h == [k \in 1..(n + n2) |-> IF k <= n THEN f[k] ELSE l + g[k - n]]
<1>8. \A k \in 1..(n + n2) : \/ k \in 1..n /\ h[k] = f[k] /\ f[k] \in 1..l /\ k <= n
                             \/ k > n /\ k - n \in 1..n2 /\ h[k] = l + g[k - n] /\ g[k - n] \in 1..l2
  BY <1>3, <1>6, <1>7
<1>9. h \in [1..(n + n2) -> 1..(l + l2)]
  BY <1>3, <1>8
<1> HIDE DEF h
<1>10. ASSUME NEW k \in 1..(n + n2) PROVE (s \o s2)[h[k]] = (t \o t2)[k]
  <2>1. CASE k \in 1..n /\ h[k] = f[k] /\ f[k] \in 1..l /\ k <= n
    <3>1. (s \o s2)[h[k]] = s[f[k]]
      BY <1>3, <1>4, <2>1
    <3> QED
      BY <1>5, <1>6, <2>1, <3>1
  <2>2. CASE k > n /\ k - n \in 1..n2 /\ h[k] = l + g[k - n] /\ g[k - n] \in 1..l2
    <3>1. /\ l + g[k - n] \in 1..(l + l2) /\ ~(l + g[k - n] <= l)
          /\ (l + g[k - n]) - l = g[k - n]
      BY <1>3, <2>2
    <3>2. (s \o s2)[h[k]] = s2[g[k - n]]
      BY <1>4, <2>2, <3>1
    <3>3. (t \o t2)[k] = t2[k - n]
      BY <1>3, <1>5, <2>2
    <3> QED
      BY <1>7, <2>2, <3>2, <3>3
  <2> QED
    BY <1>8, <2>1, <2>2
<1>11. ASSUME NEW j \in 1..(n + n2), NEW k \in 1..(n + n2), j < k PROVE h[j] < h[k]
  <2>1. CASE k <= n
    BY <1>3, <1>6, <1>8, <1>11, <2>1
  <2>2. CASE j <= n /\ k > n
    <3>1. h[j] \in 1..l /\ g[k - n] \in 1..l2 /\ h[k] = l + g[k - n]
      BY <1>3, <1>8, <2>2
    <3> QED
      BY <1>3, <3>1
  <2>3. CASE j > n
    <3>1. /\ h[j] = l + g[j - n] /\ h[k] = l + g[k - n] /\ j - n \in 1..n2 /\ k - n \in 1..n2
          /\ g[j - n] \in 1..l2 /\ g[k - n] \in 1..l2 /\ j - n < k - n
      BY <1>3, <1>8, <1>11, <2>3
    <3>2. g[j - n] < g[k - n]
      BY <1>7, <3>1
    <3> QED
      BY <1>3, <3>1, <3>2
  <2> QED
    BY <1>3, <2>1, <2>2, <2>3
<1>12. ASSUME NEW i \in 1..(l + l2)
       PROVE  Hashed((s \o s2)[i]) <=> \E k \in 1..(n + n2) : h[k] = i
  <2>1. CASE i <= l
    <3>1. Hashed((s \o s2)[i]) <=> \E k \in 1..n : f[k] = i
      <4>1. i \in 1..l /\ (s \o s2)[i] = s[i]
        BY <1>3, <1>4, <2>1
      <4> QED
        BY <1>6, <4>1
    <3>2. ASSUME NEW k \in 1..n, f[k] = i PROVE k \in 1..(n + n2) /\ h[k] = i
      <4>1. k \in 1..(n + n2) /\ ~(k > n)
        BY <1>3
      <4> QED
        BY <1>8, <3>2, <4>1
    <3>3. ASSUME NEW k \in 1..(n + n2), h[k] = i PROVE k \in 1..n /\ f[k] = i
      BY <1>3, <1>8, <2>1, <3>3
    <3> QED
      BY <3>1, <3>2, <3>3
  <2>2. CASE i > l
    <3>1. i - l \in 1..l2 /\ (s \o s2)[i] = s2[i - l]
      BY <1>3, <1>4, <2>2
    <3>2. Hashed((s \o s2)[i]) <=> \E k \in 1..n2 : g[k] = i - l
      BY <1>7, <3>1
    <3>3. ASSUME NEW k \in 1..n2, g[k] = i - l PROVE n + k \in 1..(n + n2) /\ h[n + k] = i
      <4>1. n + k \in 1..(n + n2) /\ ~(n + k <= n) /\ (n + k) - n = k /\ g[k] \in 1..l2
        BY <1>3, <1>7
      <4>2. h[n + k] = l + g[k]
        BY <1>8, <4>1
      <4> QED
        BY <1>3, <3>3, <4>1, <4>2
    <3>4. ASSUME NEW k \in 1..(n + n2), h[k] = i PROVE k - n \in 1..n2 /\ g[k - n] = i - l
      <4>1. k > n /\ k - n \in 1..n2 /\ h[k] = l + g[k - n] /\ g[k - n] \in 1..l2
        <5>1. ~(h[k] \in 1..l)
          BY <1>3, <2>2, <3>4
        <5> QED
          BY <1>8, <5>1
      <4> QED
        BY <1>3, <3>4, <4>1
    <3> QED
      BY <3>2, <3>3, <3>4
  <2>3. i <= l \/ i > l
    BY <1>3
  <2> QED
    BY <2>1, <2>2, <2>3, Zenon
<1>13. Len(s \o s2) = l + l2 /\ Len(t \o t2) = n + n2
  BY <1>4, <1>5
<1>14. h \in [1..Len(t \o t2) -> 1..Len(s \o s2)]
  BY <1>9, <1>13
<1>15. /\ \A k \in 1..Len(t \o t2) : (s \o s2)[h[k]] = (t \o t2)[k]
       /\ \A j, k \in 1..Len(t \o t2) : j < k => h[j] < h[k]
       /\ \A i \in 1..Len(s \o s2) :
            Hashed((s \o s2)[i]) <=> \E k \in 1..Len(t \o t2) : h[k] = i
  <2>1. /\ \A k \in 1..(n + n2) : (s \o s2)[h[k]] = (t \o t2)[k]
        /\ \A j, k \in 1..(n + n2) : j < k => h[j] < h[k]
    BY <1>10, <1>11
  <2>2. \A i \in 1..(l + l2) : Hashed((s \o s2)[i]) <=> \E k \in 1..(n + n2) : h[k] = i
    BY <1>12
  <2> QED
    BY <1>13, <2>1, <2>2
<1> QED
  BY <1>14, <1>15, Zenon DEF Carries

LEMMA CarriesAppend ==
    ASSUME NEW s, IsSeq(s), NEW t, IsSeq(t), Carries(s, t), NEW m
    PROVE  /\ Hashed(m) => Carries(Append(s, m), Append(t, m))
           /\ ~Hashed(m) => Carries(Append(s, m), t)
<1>1. Append(s, m) = s \o <<m>> /\ Append(t, m) = t \o <<m>>
  BY SeqAppended
<1>2. IsSeq(<<m>>) /\ IsSeq(<<>>) /\ t \o <<>> = t
  BY SeqOne, SeqEmpty, SeqNothing
<1>3. Hashed(m) => Carries(<<m>>, <<m>>)
  BY CarriesOne
<1>4. ~Hashed(m) => Carries(<<m>>, <<>>)
  BY CarriesOne
<1>5. Hashed(m) => Carries(s \o <<m>>, t \o <<m>>)
  BY <1>2, <1>3, CarriesConcat
<1>6. ~Hashed(m) => Carries(s \o <<m>>, t \o <<>>)
  BY <1>2, <1>4, CarriesConcat
<1> QED
  BY <1>1, <1>2, <1>5, <1>6

\* The first message of s is the first of t if it is hashed.
LEMMA CarriesTail ==
    ASSUME NEW s, IsSeq(s), s /= <<>>, NEW t, IsSeq(t), Carries(s, t)
    PROVE  /\ Hashed(s[1]) => t /= <<>> /\ t[1] = s[1] /\ Carries(Tail(s), Tail(t))
           /\ ~Hashed(s[1]) => Carries(Tail(s), t)
<1> DEFINE n == Len(t)  l == Len(s)
<1>1. /\ l \in Nat /\ l >= 1 /\ Len(Tail(s)) = l - 1
      /\ \A i \in 1..(l - 1) : Tail(s)[i] = s[i + 1]
  BY SeqHead
<1>2. n \in Nat /\ (t = <<>> <=> n = 0)
  BY SeqLength
<1>3. PICK f \in [1..n -> 1..l] :
        /\ \A k \in 1..n : s[f[k]] = t[k]
        /\ \A j, k \in 1..n : j < k => f[j] < f[k]
        /\ \A i \in 1..l : Hashed(s[i]) <=> \E k \in 1..n : f[k] = i
  BY DEF Carries
<1>4. CASE Hashed(s[1])
  <2>1. PICK k1 \in 1..n : f[k1] = 1
    BY <1>1, <1>3, <1>4
  <2>2. k1 = 1
    <3>1. SUFFICES ASSUME k1 > 1 PROVE FALSE
      BY <1>2
    <3>2. 1 \in 1..n /\ f[1] \in 1..l /\ f[1] < f[k1]
      BY <1>2, <1>3, <3>1
    <3> QED
      BY <1>1, <2>1, <3>2
  <2>3. t /= <<>> /\ n >= 1 /\ f[1] = 1 /\ t[1] = s[1]
    BY <1>2, <1>3, <2>1, <2>2
  <2>4. Len(Tail(t)) = n - 1 /\ \A i \in 1..(n - 1) : Tail(t)[i] = t[i + 1]
    BY <2>3, SeqHead
  <2> HIDE DEF n, l
  <2> DEFINE g == [k \in 1..(n - 1) |-> f[k + 1] - 1]
  <2>5. \A k \in 1..(n - 1) : k + 1 \in 1..n /\ f[k + 1] \in 2..l /\ g[k] = f[k + 1] - 1
    <3> TAKE k \in 1..(n - 1)
    <3>1. k + 1 \in 1..n /\ 1 \in 1..n /\ 1 < k + 1
      BY <1>2, <2>3
    <3>2. f[1] < f[k + 1] /\ f[k + 1] \in 1..l
      BY <1>3, <3>1
    <3> QED
      BY <1>1, <2>3, <3>1, <3>2
  <2>6. g \in [1..(n - 1) -> 1..(l - 1)]
    BY <1>1, <2>5
  <2> HIDE DEF g
  <2>7. ASSUME NEW k \in 1..(n - 1) PROVE Tail(s)[g[k]] = Tail(t)[k]
    <3>1. g[k] \in 1..(l - 1) /\ g[k] + 1 = f[k + 1] /\ k + 1 \in 1..n
      BY <1>1, <2>5
    <3>2. Tail(s)[g[k]] = s[f[k + 1]] /\ Tail(t)[k] = t[k + 1]
      BY <1>1, <2>4, <3>1
    <3> QED
      BY <1>3, <3>1, <3>2
  <2>8. ASSUME NEW j \in 1..(n - 1), NEW k \in 1..(n - 1), j < k PROVE g[j] < g[k]
    <3>1. j + 1 \in 1..n /\ k + 1 \in 1..n /\ j + 1 < k + 1
      BY <1>2, <2>8
    <3>2. f[j + 1] < f[k + 1] /\ f[j + 1] \in 1..l /\ f[k + 1] \in 1..l
      BY <1>3, <3>1
    <3> QED
      BY <1>1, <2>5, <3>2
  <2>9. ASSUME NEW i \in 1..(l - 1)
        PROVE  Hashed(Tail(s)[i]) <=> \E k \in 1..(n - 1) : g[k] = i
    <3>1. i + 1 \in 1..l /\ Tail(s)[i] = s[i + 1]
      BY <1>1
    <3>2. Hashed(s[i + 1]) <=> \E k \in 1..n : f[k] = i + 1
      BY <1>3, <3>1
    <3>3. ASSUME NEW k \in 1..n, f[k] = i + 1 PROVE k - 1 \in 1..(n - 1) /\ g[k - 1] = i
      <4>1. k /= 1
        BY <2>3, <3>3
      <4>2. k - 1 \in 1..(n - 1) /\ (k - 1) + 1 = k
        BY <1>2, <4>1
      <4>3. g[k - 1] = f[(k - 1) + 1] - 1
        BY <2>5, <4>2
      <4> QED
        BY <3>3, <4>2, <4>3
    <3>4. ASSUME NEW k \in 1..(n - 1), g[k] = i PROVE k + 1 \in 1..n /\ f[k + 1] = i + 1
      BY <1>1, <2>5, <3>4
    <3> QED
      BY <3>1, <3>2, <3>3, <3>4
  <2>10. Len(Tail(s)) = l - 1 /\ Len(Tail(t)) = n - 1
    BY <1>1, <2>4
  <2>11. g \in [1..Len(Tail(t)) -> 1..Len(Tail(s))]
    BY <2>6, <2>10
  <2>12. /\ \A k \in 1..Len(Tail(t)) : Tail(s)[g[k]] = Tail(t)[k]
         /\ \A j, k \in 1..Len(Tail(t)) : j < k => g[j] < g[k]
         /\ \A i \in 1..Len(Tail(s)) :
              Hashed(Tail(s)[i]) <=> \E k \in 1..Len(Tail(t)) : g[k] = i
    <3>1. /\ \A k \in 1..(n - 1) : Tail(s)[g[k]] = Tail(t)[k]
          /\ \A j, k \in 1..(n - 1) : j < k => g[j] < g[k]
      BY <2>7, <2>8
    <3>2. \A i \in 1..(l - 1) : Hashed(Tail(s)[i]) <=> \E k \in 1..(n - 1) : g[k] = i
      BY <2>9
    <3> QED
      BY <2>10, <3>1, <3>2
  <2>13. Carries(Tail(s), Tail(t))
    BY <2>11, <2>12, Zenon DEF Carries
  <2> QED
    BY <1>4, <2>3, <2>13
<1>5. CASE ~Hashed(s[1])
  <2> HIDE DEF n, l
  <2> DEFINE g == [k \in 1..n |-> f[k] - 1]
  <2>1. \A k \in 1..n : f[k] \in 2..l /\ g[k] = f[k] - 1
    BY <1>1, <1>3, <1>5
  <2>2. g \in [1..n -> 1..(l - 1)]
    BY <1>1, <2>1
  <2> HIDE DEF g
  <2>3. ASSUME NEW k \in 1..n PROVE Tail(s)[g[k]] = t[k]
    <3>1. g[k] \in 1..(l - 1) /\ g[k] + 1 = f[k]
      BY <1>1, <2>1
    <3> QED
      BY <1>1, <1>3, <3>1
  <2>4. ASSUME NEW j \in 1..n, NEW k \in 1..n, j < k PROVE g[j] < g[k]
    <3>1. f[j] < f[k] /\ f[j] \in 1..l /\ f[k] \in 1..l
      BY <1>3, <2>4
    <3> QED
      BY <1>1, <2>1, <3>1
  <2>5. ASSUME NEW i \in 1..(l - 1)
        PROVE  Hashed(Tail(s)[i]) <=> \E k \in 1..n : g[k] = i
    <3>1. i + 1 \in 1..l /\ Tail(s)[i] = s[i + 1]
      BY <1>1
    <3>2. Hashed(s[i + 1]) <=> \E k \in 1..n : f[k] = i + 1
      BY <1>3, <3>1
    <3>3. \A k \in 1..n : f[k] = i + 1 <=> g[k] = i
      BY <1>1, <2>1
    <3> QED
      BY <3>1, <3>2, <3>3
  <2>6. Len(Tail(s)) = l - 1 /\ Len(t) = n
    BY <1>1 DEF n
  <2>7. g \in [1..Len(t) -> 1..Len(Tail(s))]
    BY <2>2, <2>6
  <2>8. /\ \A k \in 1..Len(t) : Tail(s)[g[k]] = t[k]
        /\ \A j, k \in 1..Len(t) : j < k => g[j] < g[k]
        /\ \A i \in 1..Len(Tail(s)) : Hashed(Tail(s)[i]) <=> \E k \in 1..Len(t) : g[k] = i
    <3>1. /\ \A k \in 1..n : Tail(s)[g[k]] = t[k]
          /\ \A j, k \in 1..n : j < k => g[j] < g[k]
      BY <2>3, <2>4
    <3>2. \A i \in 1..(l - 1) : Hashed(Tail(s)[i]) <=> \E k \in 1..n : g[k] = i
      BY <2>5
    <3> QED
      BY <2>6, <3>1, <3>2
  <2>9. Carries(Tail(s), t)
    BY <2>7, <2>8, Zenon DEF Carries
  <2> QED
    BY <1>5, <2>9
<1> QED
  BY <1>4, <1>5

LEMMA CarriesSingle ==
    ASSUME NEW m, NEW t, IsSeq(t), Carries(<<m>>, t), Hashed(m)
    PROVE  t = <<m>>
<1> DEFINE s == <<m>>
<1>1. IsSeq(s) /\ s /= <<>> /\ s[1] = m /\ Tail(s) = <<>> /\ Carries(s, t)
  BY SeqOne
<1> HIDE DEF s
<1>2. t /= <<>> /\ t[1] = m /\ Carries(<<>>, Tail(t))
  <2>1. Hashed(s[1])
    BY <1>1
  <2>2. t /= <<>> /\ t[1] = s[1] /\ Carries(Tail(s), Tail(t))
    BY <1>1, <2>1, CarriesTail
  <2> QED
    BY <1>1, <2>2
<1>3. IsSeq(Tail(t)) /\ t = <<t[1]>> \o Tail(t)
  BY <1>2, SeqHead
<1>4. Tail(t) = <<>>
  BY <1>2, <1>3, CarriesNothing
<1> QED
  BY <1>2, <1>3, <1>4, SeqOne, SeqNothing

LEMMA CarriesAll ==
    ASSUME NEW s, IsSeq(s), \A m \in ToSet(s) : Hashed(m)
    PROVE  Carries(s, s)
<1> DEFINE f == [k \in 1..Len(s) |-> k]
<1>1. Len(s) \in Nat /\ \A i \in 1..Len(s) : s[i] \in ToSet(s)
  BY SeqLength, HeldByIndex DEF IsSeq
<1>2. f \in [1..Len(s) -> 1..Len(s)] /\ \A k \in 1..Len(s) : f[k] = k
  OBVIOUS
<1> HIDE DEF f
<1>3. /\ \A k \in 1..Len(s) : s[f[k]] = s[k]
      /\ \A j, k \in 1..Len(s) : j < k => f[j] < f[k]
      /\ \A i \in 1..Len(s) : Hashed(s[i]) <=> \E k \in 1..Len(s) : f[k] = i
  BY <1>1, <1>2
<1> QED
  BY <1>2, <1>3, Zenon DEF Carries

------------------------------------------------------------------------------
(* What the broker expects *)

First == {"SERVER_HELLO", "SERVER_CERTIFICATE", "SERVER_KEY_EXCHANGE",
          "CERTIFICATE_REQUEST", "SERVER_HELLO_DONE"}
Second == {"CLIENT_CERTIFICATE", "CLIENT_KEY_EXCHANGE", "CERTIFICATE_VERIFY",
           "CLIENT_CHANGE_CIPHER_SPEC", "CLIENT_FINISHED"}

\* The client's second flight: its length, and its message k, counted from 0.
Asking == IF broker.asks THEN 1 ELSE 0
Proving == IF broker.asks /\ client.cert THEN 1 ELSE 0
Whole == Asking + Proving + 3
Kind(k) ==
    IF k = Asking - 1 THEN "Certificate"
    ELSE IF k = Asking THEN "ClientKeyExchange"
    ELSE IF k = Asking + Proving THEN "CertificateVerify"
    ELSE IF k = Asking + Proving + 1 THEN "ChangeCipherSpec"
    ELSE "Finished"

\* How many of its messages the client has written, and the broker has read.
Written ==
    IF state \in {"CLIENT_HELLO", "CLIENT_CERTIFICATE"} \union First THEN 0
    ELSE IF state = "CLIENT_KEY_EXCHANGE" THEN Asking
    ELSE IF state = "CERTIFICATE_VERIFY" THEN Asking + 1
    ELSE IF state = "CLIENT_CHANGE_CIPHER_SPEC" THEN Asking + Proving + 1
    ELSE IF state = "CLIENT_FINISHED" THEN Asking + Proving + 2
    ELSE Whole
Read ==
    IF broker.due = <<>> THEN Whole
    ELSE IF broker.due = <<"Finished">> THEN Asking + Proving + 2
    ELSE IF broker.due = <<"ChangeCipherSpec", "Finished">> THEN Asking + Proving + 1
    ELSE IF broker.due = <<"CertificateVerify", "ChangeCipherSpec", "Finished">> THEN 2
    ELSE IF broker.due \in {<<"ClientKeyExchange", "CertificateVerify", "ChangeCipherSpec", "Finished">>,
                            <<"ClientKeyExchange", "ChangeCipherSpec", "Finished">>} THEN Asking
    ELSE 0

Pending == c2s \o out

AtHello == broker.due = <<"ClientHello">>

\* Before the broker has read the ClientHello.
HelloInv ==
    AtHello =>
        /\ broker.seen = <<>>
        /\ \/ state = "CLIENT_HELLO" /\ Pending = <<>> /\ seen = <<>>
           \/ /\ state = "SERVER_HELLO"
              /\ Pending = <<Message("ClientHello", 0)>> /\ seen = Pending

\* After it: what is under way to the broker is what it waits for next.
PendingInv ==
    ~AtHello =>
        /\ state /= "CLIENT_HELLO"
        /\ Len(Pending) = Written - Read
        /\ \A i \in 1..Len(Pending) :
             /\ Pending[i].type = Kind(Read + i - 1)
             /\ Pending[i].type = "Certificate" => Pending[i].data = client.cert
             /\ Pending[i].type = "Finished" =>
                  IsSeq(Pending[i].data) /\ seen = Append(Pending[i].data, Pending[i])

\* Whether the broker will be given a proof.
ProofInv ==
    /\ broker.due \in {<<"ClientKeyExchange", "CertificateVerify", "ChangeCipherSpec", "Finished">>,
                       <<"CertificateVerify", "ChangeCipherSpec", "Finished">>} => Proving = 1
    /\ broker.due = <<"ClientKeyExchange", "ChangeCipherSpec", "Finished">> => Proving = 0
    /\ broker.due = <<"Certificate", "ClientKeyExchange", "ChangeCipherSpec", "Finished">> => broker.asks
    /\ state \in Second => client_auth = broker.asks

\* t and u are what is hashed of what is under way to the client and to the broker.
Hashes(t, u) ==
    /\ Carries(s2c, t)
    /\ Carries(Pending, u)
    /\ seen \o t = broker.seen \o u
    /\ t /= <<>> => broker.due = <<>> \/ (~AtHello /\ state \in First)
    /\ \A k \in 1..Len(t) : t[k].type = "ServerHelloDone" => k = Len(t)
    /\ kept /= <<>> /\ kept[1].type = "ServerHelloDone" => t = <<>>

HashesInv == \E t, u : IsSeq(t) /\ IsSeq(u) /\ Hashes(t, u)

ExpectedInv == tcp = "up" => HelloInv /\ PendingInv /\ ProofInv /\ HashesInv

FInv ==
    /\ IInv
    /\ client \in [cert : BOOLEAN, verify : BOOLEAN]
    /\ broker.due /= <<"Surprised">>
    /\ ExpectedInv

LEMMA Counts ==
    /\ Asking \in {0, 1} /\ Proving \in {0, 1} /\ Proving <= Asking
    /\ Written \in 0..Whole /\ Read \in 0..Whole
    /\ broker.due = <<>> => Read = Whole
    /\ state \in First \union {"CLIENT_HELLO", "CLIENT_CERTIFICATE"} => Written = 0
<1>1. Asking \in {0, 1} /\ Proving \in {0, 1} /\ Proving <= Asking
  BY DEF Asking, Proving
<1>2. Written \in 0..Whole
  BY <1>1 DEF Written, Whole
<1>3. Read \in 0..Whole /\ (broker.due = <<>> => Read = Whole)
  BY <1>1 DEF Read, Whole
<1> QED
  BY <1>1, <1>2, <1>3 DEF Written

LEMMA PendingSeq == ASSUME QueuesInv PROVE IsSeq(Pending) /\ ToSet(Pending) = ToSet(c2s) \union ToSet(out)
BY SeqConcat DEF Pending, QueuesInv

\* A record joins what is under way, however much of it the socket takes.
LEMMA PendingWrite ==
    ASSUME QueuesInv, tcp = "up", NEW m, Write(m)
    PROVE  Pending' = Append(Pending, m)
<1> DEFINE queue == Append(out, m)
<1>1. PICK taken \in 0..Len(queue) :
        /\ c2s' = c2s \o SubSeq(queue, 1, taken)
        /\ out' = SubSeq(queue, taken + 1, Len(queue))
  BY DEF Write
<1>2. IsSeq(c2s) /\ IsSeq(out) /\ IsSeq(queue) /\ queue = out \o <<m>> /\ IsSeq(<<m>>)
  BY SeqAppend, SeqAppended, SeqOne DEF QueuesInv
<1> HIDE DEF queue
<1>3. Len(queue) \in Nat
  BY <1>2, SeqLength
<1>4. /\ SubSeq(queue, 1, taken) \o SubSeq(queue, taken + 1, Len(queue)) = queue
      /\ IsSeq(SubSeq(queue, 1, taken)) /\ IsSeq(SubSeq(queue, taken + 1, Len(queue)))
  <2>1. PICK S : queue \in Seq(S)
    BY <1>2 DEF IsSeq
  <2>2. /\ 1 \in 1..(Len(queue) + 1) /\ taken \in (1 - 1)..Len(queue) /\ Len(queue) \in taken..Len(queue)
        /\ taken + 1 \in 1..(Len(queue) + 1) /\ Len(queue) \in ((taken + 1) - 1)..Len(queue)
    BY <1>3
  <2>3. SubSeq(queue, 1, taken) \o SubSeq(queue, taken + 1, Len(queue)) = SubSeq(queue, 1, Len(queue))
    BY <2>1, <2>2, ConcatAdjacentSubSeq
  <2> QED
    BY <1>2, <2>1, <2>2, <2>3, SubSeqFull, SeqPart
<1>5. Pending' = c2s \o queue
  <2> DEFINE sent == SubSeq(queue, 1, taken)  rest == SubSeq(queue, taken + 1, Len(queue))
  <2>1. Pending' = (c2s \o sent) \o rest
    BY <1>1 DEF Pending
  <2>2. IsSeq(sent) /\ IsSeq(rest) /\ sent \o rest = queue
    BY <1>4
  <2> HIDE DEF sent, rest
  <2>3. Join(Join(c2s, sent), rest) = Join(c2s, Join(sent, rest))
    BY <1>2, <2>2, JoinAssociative
  <2>4. (c2s \o sent) \o rest = c2s \o (sent \o rest)
    BY <2>3, Zenon DEF Join
  <2> QED
    BY <2>1, <2>2, <2>4
<1>6. c2s \o queue = (c2s \o out) \o <<m>>
  BY <1>2, SeqAssociative
<1>7. Append(Pending, m) = Pending \o <<m>>
  BY PendingSeq, SeqAppended
<1> QED
  BY <1>5, <1>6, <1>7 DEF Pending

LEMMA PendingTail ==
    ASSUME QueuesInv, c2s /= <<>>, c2s' = Tail(c2s), UNCHANGED out
    PROVE  /\ Pending' = Tail(Pending) /\ Pending /= <<>>
           /\ Head(c2s) = Pending[1]
<1>1. IsSeq(c2s) /\ IsSeq(out)
  BY DEF QueuesInv
<1>2. c2s = <<c2s[1]>> \o Tail(c2s) /\ IsSeq(Tail(c2s)) /\ Head(c2s) = c2s[1] /\ IsSeq(<<c2s[1]>>)
  BY <1>1, SeqHead, SeqOne
<1>3. (<<c2s[1]>> \o Tail(c2s)) \o out = <<c2s[1]>> \o (Tail(c2s) \o out)
  BY <1>1, <1>2, SeqAssociative
<1>4. Pending = <<c2s[1]>> \o Pending'
  BY <1>2, <1>3 DEF Pending
<1>5. IsSeq(Pending')
  BY <1>1, <1>2, SeqConcat DEF Pending
<1> QED
  BY <1>2, <1>4, <1>5, SeqCons

------------------------------------------------------------------------------
(* The client writes what the broker expects *)

LEMMA Bounds ==
    ASSUME FInv, tcp = "up", ~AtHello
    PROVE  /\ Len(Pending) \in Nat /\ Len(Pending) = Written - Read
           /\ state \in First \union {"CLIENT_CERTIFICATE"} => Pending = <<>>
           /\ broker.due = <<>> => Pending = <<>>
           /\ state \in First \union Second \union Done
<1>1. IsSeq(Pending)
  BY PendingSeq DEF FInv, IInv
<1>2. Len(Pending) \in Nat /\ (Len(Pending) = 0 => Pending = <<>>)
  BY <1>1, SeqLength
<1>3. Len(Pending) = Written - Read /\ state /= "CLIENT_HELLO"
  BY DEF FInv, ExpectedInv, PendingInv
<1>4. state \in States
  BY StateType DEF FInv, IInv, TypeOK
<1>5. Written \in Nat /\ Read \in Nat /\ Whole \in Nat /\ Written <= Whole
  BY Counts DEF Whole
<1>6. state \in First \union {"CLIENT_CERTIFICATE"} => Len(Pending) = 0
  BY <1>2, <1>3, <1>5, Counts
<1>7. broker.due = <<>> => Len(Pending) = 0
  BY <1>2, <1>3, <1>5, Counts
<1> QED
  BY <1>2, <1>3, <1>4, <1>6, <1>7 DEF States, First, Second

\* In its second flight the client waits for nothing.
LEMMA SecondFlight ==
    ASSUME FInv, tcp = "up", state \in Second
    PROVE  /\ ~AtHello /\ broker.due /= <<>> /\ kept = <<>>
           /\ \E u : IsSeq(u) /\ Hashes(<<>>, u)
           /\ client_auth = broker.asks
<1>1. ~AtHello
  BY DEF FInv, ExpectedInv, HelloInv, Second
<1>2. broker.due /= <<>> /\ kept = <<>>
  BY DEF FInv, IInv, FinishedInv, TypeOK, Second, Done, Over
<1>3. client_auth = broker.asks
  BY DEF FInv, ExpectedInv, ProofInv
<1>4. \E u : IsSeq(u) /\ Hashes(<<>>, u)
  BY <1>1, <1>2 DEF FInv, ExpectedInv, HashesInv, Hashes, First, Second
<1> QED
  BY <1>1, <1>2, <1>3, <1>4

LEMMA SecondWrite ==
    ASSUME FInv, tcp = "up", NEW m, Write(m), state \in Second, state' \in Second \union Done,
           Written' = Written + 1, m.type = Kind(Written),
           m.type = "Certificate" => m.data = client.cert,
           m.type = "Finished" => m.data = seen,
           UNCHANGED <<client_auth, broker, client>>
    PROVE  ExpectedInv'
<1>1. /\ ~AtHello /\ broker.due /= <<>> /\ kept = <<>> /\ client_auth = broker.asks
      /\ \E u : IsSeq(u) /\ Hashes(<<>>, u)
  BY SecondFlight
<1>2. PICK u : IsSeq(u) /\ Hashes(<<>>, u)
  BY <1>1
<1>3. /\ IsSeq(Pending) /\ IsSeq(seen) /\ IsSeq(broker.seen)
      /\ Pending' = Append(Pending, m)
      /\ UNCHANGED <<tcp, s2c, kept>>
      /\ seen' = IF Hashed(m) THEN Append(seen, m) ELSE seen
  BY PendingSeq, PendingWrite DEF FInv, IInv, QueuesInv, Write
<1>4. HelloInv'
  BY <1>1 DEF HelloInv, AtHello
<1>5. PendingInv'
  <2>1. /\ Len(Pending') = Len(Pending) + 1 /\ Pending'[Len(Pending) + 1] = m
        /\ \A i \in 1..Len(Pending) : Pending'[i] = Pending[i]
    BY <1>3, SeqAppended
  <2>2. /\ Len(Pending) \in Nat /\ Len(Pending) = Written - Read
        /\ \A i \in 1..Len(Pending) :
             /\ Pending[i].type = Kind(Read + i - 1)
             /\ Pending[i].type = "Certificate" => Pending[i].data = client.cert
    BY <1>1, Bounds DEF FInv, ExpectedInv, PendingInv
  <2>3. Read \in Nat /\ Written \in Nat
    BY Counts DEF Whole
  <2>4. Read' = Read /\ Asking' = Asking /\ Proving' = Proving
    BY DEF Read, Whole, Asking, Proving
  <2>5. ASSUME NEW i \in 1..Len(Pending)
        PROVE  Pending[i].type /= "Finished"
    <3>1. Pending[i] \in ToSet(c2s) \union ToSet(out)
      BY <1>3, PendingSeq, HeldByIndex DEF FInv, IInv, IsSeq
    <3>2. state \notin Done
      BY DEF Second, Done, Over
    <3> QED
      BY <3>1, <3>2 DEF FInv, IInv, FinishedInv
  <2>6. ASSUME NEW i \in 1..Len(Pending')
        PROVE  /\ Pending'[i].type = Kind(Read + i - 1)
               /\ Pending'[i].type = "Certificate" => Pending'[i].data = client.cert
               /\ Pending'[i].type = "Finished" =>
                    IsSeq(Pending'[i].data) /\ seen' = Append(Pending'[i].data, Pending'[i])
    <3>1. CASE i \in 1..Len(Pending)
      BY <2>1, <2>2, <2>5, <3>1
    <3>2. CASE i = Len(Pending) + 1
      <4>1. Pending'[i] = m /\ Read + i - 1 = Written
        BY <2>1, <2>2, <2>3, <3>2
      <4>2. m.type = "Finished" => Hashed(m)
        BY DEF Hashed
      <4> QED
        BY <1>3, <4>1, <4>2
    <3> QED
      BY <2>1, <2>2, <3>1, <3>2
  <2>7. \A k : Kind(k)' = Kind(k)
    BY <2>4 DEF Kind
  <2>8. state' /= "CLIENT_HELLO" /\ Len(Pending') = Written' - Read'
    BY <2>1, <2>2, <2>3, <2>4 DEF Second, Done, Over
  <2> QED
    BY <2>4, <2>6, <2>7, <2>8 DEF PendingInv
<1>6. ProofInv'
  BY <1>1 DEF ProofInv, Proving, FInv, ExpectedInv
<1>7. HashesInv'
  <2> DEFINE v == IF Hashed(m) THEN Append(u, m) ELSE u
  <2>1. IsSeq(v) /\ Carries(Pending, u) /\ Carries(s2c, <<>>) /\ seen \o <<>> = broker.seen \o u
    BY <1>2, SeqAppend DEF Hashes
  <2>2. Carries(Pending', v)
    BY <1>2, <1>3, <2>1, CarriesAppend
  <2>3. seen' \o <<>> = broker.seen \o v
    <3>1. seen = broker.seen \o u
      BY <1>3, <2>1, SeqNothing
    <3>2. CASE Hashed(m)
      <4>1. seen' = seen \o <<m>> /\ v = u \o <<m>>
        BY <1>2, <1>3, <3>2, SeqAppended
      <4>2. (broker.seen \o u) \o <<m>> = broker.seen \o (u \o <<m>>)
        <5> DEFINE one == <<m>>
        <5>1. IsSeq(one) /\ IsSeq(broker.seen) /\ IsSeq(u)
          BY <1>2, <1>3, SeqOne
        <5> HIDE DEF one
        <5>2. Join(Join(broker.seen, u), one) = Join(broker.seen, Join(u, one))
          BY <5>1, JoinAssociative
        <5> QED
          BY <5>2, Zenon DEF one, Join
      <4>3. seen' \o <<>> = seen'
        BY <1>3, SeqAppend, SeqNothing
      <4> QED
        BY <3>1, <4>1, <4>2, <4>3
    <3>3. CASE ~Hashed(m)
      BY <1>3, <2>1, <3>3
    <3> QED
      BY <3>2, <3>3
  <2> HIDE DEF v
  <2>4. \A k \in 1..Len(<<>>) : FALSE
    OBVIOUS
  <2>5. Hashes(<<>>, v)'
    BY <1>1, <1>3, <2>1, <2>2, <2>3, <2>4 DEF Hashes
  <2> QED
    BY <2>1, <2>5, SeqEmpty DEF HashesInv
<1> QED
  BY <1>4, <1>5, <1>6, <1>7 DEF ExpectedInv

LEMMA HelloWrite ==
    ASSUME FInv, tcp = "up", WriteClientHello
    PROVE  ExpectedInv'
<1> DEFINE m == Message("ClientHello", 0)
<1>1. /\ state = "CLIENT_HELLO" /\ state' = "SERVER_HELLO" /\ Write(m)
      /\ UNCHANGED <<client_auth, broker, client>>
  BY Successors DEF WriteClientHello, Steps, session
<1>2. AtHello /\ broker.seen = <<>> /\ Pending = <<>> /\ seen = <<>>
  BY <1>1 DEF FInv, ExpectedInv, HelloInv, PendingInv
<1>3. /\ Pending' = Append(Pending, m) /\ seen' = Append(seen, m)
      /\ UNCHANGED <<tcp, s2c, kept>>
  BY <1>1, PendingWrite DEF FInv, IInv, Write, Message, Hashed
<1>4. Pending' = <<m>> /\ seen' = <<m>>
  BY <1>2, <1>3
<1>5. PICK t, u : IsSeq(t) /\ IsSeq(u) /\ Hashes(t, u)
  BY DEF FInv, ExpectedInv, HashesInv
<1>6. broker.due = <<"ClientHello">> /\ broker.due /= <<>>
  BY <1>2 DEF AtHello
<1>7. t = <<>> /\ kept = <<>> /\ Carries(s2c, <<>>)
  <2>1. state \notin First /\ state /= "SERVER_HELLO_DONE"
    BY <1>1 DEF First
  <2>2. t = <<>>
    BY <1>5, <1>6, <2>1 DEF Hashes
  <2> QED
    BY <1>5, <2>1, <2>2 DEF Hashes, FInv, IInv, TypeOK
<1> HIDE DEF m
<1>8. HelloInv'
  BY <1>1, <1>2, <1>4 DEF HelloInv, m
<1>9. PendingInv'
  BY <1>1, <1>2 DEF PendingInv, AtHello
<1>10. ProofInv'
  BY <1>1, <1>6 DEF ProofInv, Second, Proving, FInv, ExpectedInv
<1>11. HashesInv'
  <2>1. Hashed(m)
    BY DEF m, Message, Hashed
  <2>2. IsSeq(<<m>>) /\ Carries(Pending', <<m>>)
    BY <1>4, <2>1, SeqOne, CarriesOne
  <2>3. seen' \o <<>> = broker.seen \o <<m>>
    BY <1>2, <1>4, <2>2, SeqNothing
  <2>4. \A k \in 1..Len(<<>>) : FALSE
    OBVIOUS
  <2>5. (\E x : x = m) /\ TRUE
    OBVIOUS
  <2>6. PICK x : x = m
    OBVIOUS
  <2>7. Hashes(<<>>, <<x>>)'
    BY <1>1, <1>3, <1>7, <2>2, <2>3, <2>4, <2>6 DEF Hashes
  <2> QED
    BY <2>2, <2>6, <2>7, SeqEmpty DEF HashesInv
<1> QED
  BY <1>8, <1>9, <1>10, <1>11 DEF ExpectedInv

LEMMA IdleKeeps ==
    ASSUME FInv, tcp = "up", Written' = Written,
           \/ state' = state
           \/ ~AtHello /\ state \in First /\ state' \in First
           \/ state \in Second /\ state' \in Second
           \/ state \in Done /\ state' \in Done,
           UNCHANGED <<client_auth, kept, seen, out, c2s, s2c, tcp, broker, client>>
    PROVE  ExpectedInv'
<1>1. HelloInv /\ PendingInv /\ ProofInv /\ HashesInv
  BY DEF FInv, ExpectedInv
<1>2. UNCHANGED <<Pending, Asking, Proving, Read>> /\ (AtHello' <=> AtHello)
  BY DEF Pending, Asking, Proving, Read, Whole, AtHello
<1>3. state' = state \/ ~AtHello
  BY <1>1 DEF HelloInv, Second, Done, Over
<1>4. HelloInv'
  BY <1>1, <1>2, <1>3 DEF HelloInv
<1>5. PendingInv'
  <2>1. state /= "CLIENT_HELLO" => state' /= "CLIENT_HELLO"
    BY DEF First, Second, Done, Over
  <2>2. \A k : Kind(k)' = Kind(k)
    BY <1>2 DEF Kind
  <2> QED
    BY <1>1, <1>2, <2>1, <2>2 DEF PendingInv
<1>6. ProofInv'
  <2>1. state' \in Second => state \in Second
    BY DEF First, Second, Done, Over
  <2> QED
    BY <1>1, <1>2, <2>1 DEF ProofInv
<1>7. HashesInv'
  <2>1. PICK t, u : IsSeq(t) /\ IsSeq(u) /\ Hashes(t, u)
    BY <1>1 DEF HashesInv
  <2>2. state \in First => state' \in First
    BY DEF First, Second, Done, Over
  <2>3. Hashes(t, u)'
    BY <1>2, <2>1, <2>2 DEF Hashes
  <2> QED
    BY <2>1, <2>3 DEF HashesInv
<1> QED
  BY <1>4, <1>5, <1>6, <1>7 DEF ExpectedInv

LEMMA WritesKeep ==
    ASSUME FInv, tcp = "up",
           \/ WriteClientHello \/ WriteCertificate \/ WriteClientKeyExchange
           \/ WriteCertificateVerify \/ WriteChangeCipherSpec \/ WriteFinished
    PROVE  ExpectedInv'
<1> USE Successors, Counts DEF Steps, session, channel, First, Second, Done, Over
<1>1. CASE WriteClientHello
  BY <1>1, HelloWrite
<1>2. /\ Asking' = Asking /\ Proving' = Proving /\ Whole' = Whole
      /\ state \in Second => client_auth = broker.asks
      /\ client.cert \in BOOLEAN /\ broker.asks \in BOOLEAN
  BY SecondFlight DEF WriteClientHello, WriteCertificate, WriteClientKeyExchange,
     WriteCertificateVerify, WriteChangeCipherSpec, WriteFinished, Asking, Proving, Whole,
     FInv, IInv, QueuesInv
<1>3. CASE WriteCertificate
  <2>1. state = "CLIENT_CERTIFICATE" /\ state' = "CLIENT_KEY_EXCHANGE" /\ Written = 0 /\ Written' = Asking
    BY <1>2, <1>3 DEF WriteCertificate, Written
  <2>2. CASE client_auth
    <3>0. client_auth = broker.asks
      BY <1>2, <2>1
    <3>1. Asking = 1 /\ Kind(0) = "Certificate"
      <4>1. Asking = 1
        BY <2>2, <3>0 DEF Asking
      <4> QED
        BY <4>1 DEF Kind
    <3> QED
      BY <1>3, <2>1, <2>2, <3>1, SecondWrite DEF WriteCertificate, Message
  <2>3. CASE ~client_auth
    <3>1. Asking = 0
      BY <1>2, <2>1, <2>3 DEF Asking
    <3> QED
      BY <1>3, <2>1, <2>3, <3>1, IdleKeeps DEF WriteCertificate
  <2> QED
    BY <2>2, <2>3
<1>4. CASE WriteClientKeyExchange
  <2>1. /\ state = "CLIENT_KEY_EXCHANGE" /\ state' = "CERTIFICATE_VERIFY"
        /\ Written = Asking /\ Written' = Asking + 1
    BY <1>2, <1>4 DEF WriteClientKeyExchange, Written
  <2>2. Kind(Asking) = "ClientKeyExchange"
    BY DEF Kind
  <2> QED
    BY <1>4, <2>1, <2>2, SecondWrite DEF WriteClientKeyExchange, Message
<1>5. CASE WriteCertificateVerify
  <2>1. /\ state = "CERTIFICATE_VERIFY" /\ state' = "CLIENT_CHANGE_CIPHER_SPEC"
        /\ Written = Asking + 1 /\ Written' = Asking + Proving + 1
    BY <1>2, <1>5 DEF WriteCertificateVerify, Written
  <2>2. CASE Proves
    <3>1. Asking = 1 /\ Proving = 1
      BY <1>2, <2>1, <2>2 DEF Asking, Proving, Proves
    <3>2. Kind(2) = "CertificateVerify"
      BY <3>1 DEF Kind
    <3> QED
      BY <1>5, <2>1, <2>2, <3>1, <3>2, SecondWrite DEF WriteCertificateVerify, Message
  <2>3. CASE ~Proves
    <3>1. Proving = 0
      BY <1>2, <2>1, <2>3 DEF Proving, Proves
    <3> QED
      BY <1>5, <2>1, <2>3, <3>1, IdleKeeps DEF WriteCertificateVerify
  <2> QED
    BY <2>2, <2>3
<1>6. CASE WriteChangeCipherSpec
  <2>1. /\ state = "CLIENT_CHANGE_CIPHER_SPEC" /\ state' = "CLIENT_FINISHED"
        /\ Written = Asking + Proving + 1 /\ Written' = Asking + Proving + 2
    BY <1>2, <1>6 DEF WriteChangeCipherSpec, Written
  <2>2. Kind(Asking + Proving + 1) = "ChangeCipherSpec"
    BY DEF Kind
  <2> QED
    BY <1>6, <2>1, <2>2, SecondWrite DEF WriteChangeCipherSpec, Message
<1>7. CASE WriteFinished
  <2>1. /\ state = "CLIENT_FINISHED" /\ state' = "SERVER_CHANGE_CIPHER_SPEC"
        /\ Written = Asking + Proving + 2 /\ Written' = Whole
    BY <1>2, <1>7 DEF WriteFinished, Written
  <2>2. Kind(Asking + Proving + 2) = "Finished" /\ Whole = Asking + Proving + 3
    BY DEF Kind, Whole
  <2> QED
    BY <1>7, <2>1, <2>2, SecondWrite DEF WriteFinished, Message
<1> QED
  BY <1>1, <1>3, <1>4, <1>5, <1>6, <1>7

------------------------------------------------------------------------------
(* The client reads *)

\* t and t2 are what is hashed of what is under way to it before and after.
LEMMA ReadKeeps ==
    ASSUME FInv, IInv', tcp = "up", NEW t, NEW u, IsSeq(t), IsSeq(u), Hashes(t, u),
           \/ state' = state /\ UNCHANGED client_auth
           \/ ~AtHello /\ state \in First /\ state' \in First
           \/ state = "SERVER_HELLO_DONE" /\ state' = "CLIENT_CERTIFICATE"
           \/ state \in Done /\ state' \in Done,
           NEW t2, IsSeq(t2), Carries(s2c', t2), IsSeq(seen'), seen' \o t2 = broker.seen \o u,
           t2 /= <<>> => t /= <<>>,
           seen' /= seen => t /= <<>>,
           state' = "CLIENT_CERTIFICATE" => t2 = <<>>,
           \A k \in 1..Len(t2) : t2[k].type = "ServerHelloDone" => k = Len(t2),
           kept' /= <<>> /\ kept'[1].type = "ServerHelloDone" => t2 = <<>>,
           state \in First \union Done,
           UNCHANGED <<out, c2s, tcp, broker, client>>
    PROVE  ExpectedInv'
<1>1. HelloInv /\ PendingInv /\ ProofInv /\ HashesInv
  BY DEF FInv, ExpectedInv
<1>2. UNCHANGED <<Pending, Asking, Proving, Read, Whole>> /\ (AtHello' <=> AtHello)
  BY DEF Pending, Asking, Proving, Read, Whole, AtHello
<1>3. AtHello => state' = state /\ t = <<>> /\ seen' = seen
  <2>1. AtHello => broker.due /= <<>>
    BY DEF AtHello
  <2>2. AtHello => t = <<>>
    BY <2>1 DEF Hashes
  <2> QED
    BY <1>1, <2>2 DEF HelloInv, First, Done, Over
<1>4. ~AtHello /\ seen' /= seen => Pending = <<>>
  <2>1. t /= <<>> => broker.due = <<>> \/ state \in First
    BY DEF Hashes
  <2> QED
    BY <2>1, Bounds
<1>5. HelloInv'
  BY <1>1, <1>2, <1>3 DEF HelloInv
<1>6. PendingInv'
  <2>1. state /= "CLIENT_HELLO" /\ state' /= "CLIENT_HELLO"
    BY DEF First, Done, Over
  <2>2. \A k : Kind(k)' = Kind(k)
    BY <1>2 DEF Kind
  <2>3. Written' = Written
    BY <1>2 DEF Written, First, Done, Over
  <2>4. ~AtHello =>
          /\ Len(Pending) = Written - Read
          /\ \A i \in 1..Len(Pending) :
               /\ Pending[i].type = Kind(Read + i - 1)
               /\ Pending[i].type = "Certificate" => Pending[i].data = client.cert
               /\ Pending[i].type = "Finished" =>
                    IsSeq(Pending[i].data) /\ seen' = Append(Pending[i].data, Pending[i])
    <3>1. Len(<<>>) = 0 /\ \A i \in 1..0 : FALSE
      OBVIOUS
    <3> QED
      BY <1>1, <1>4, <3>1 DEF PendingInv
  <2> QED
    BY <1>2, <2>1, <2>2, <2>3, <2>4 DEF PendingInv
<1>7. ProofInv'
  <2>1. state' \in Second => state' = "CLIENT_CERTIFICATE" /\ state = "SERVER_HELLO_DONE"
    BY DEF First, Second, Done, Over
  <2>2. ASSUME state' = "CLIENT_CERTIFICATE", state = "SERVER_HELLO_DONE"
        PROVE  client_auth' = broker.asks
    <3>1. ~AtHello /\ broker.due /= <<"Surprised">>
      BY <1>3, <2>2 DEF FInv
    <3>2. Pending = <<>>
      BY <2>2, <3>1, Bounds DEF First
    <3>3. u = <<>>
      BY <3>2, CarriesNothing DEF Hashes
    <3>4. seen' = broker.seen
      <4>1. t2 = <<>>
        BY <2>2
      <4>2. seen' \o <<>> = seen' /\ broker.seen \o <<>> = broker.seen
        BY SeqNothing DEF FInv, IInv, QueuesInv
      <4> QED
        BY <3>3, <4>1, <4>2
    <3>5. broker.asks => Asked(broker.seen)
      BY <3>1 DEF FInv, IInv, BrokerInv, AtHello
    <3>6. Asked(seen') => client_auth'
      BY DEF IInv, KnownInv
    <3>7. client_auth' => broker.asks
      BY DEF IInv, KnownInv
    <3>8. client_auth' \in BOOLEAN /\ broker.asks \in BOOLEAN
      BY DEF FInv, IInv, TypeOK, QueuesInv
    <3> QED
      BY <3>4, <3>5, <3>6, <3>7, <3>8
  <2> QED
    BY <1>1, <1>2, <2>1, <2>2 DEF ProofInv
<1>8. HashesInv'
  <2>1. t2 /= <<>> => broker.due = <<>> \/ (~AtHello /\ state' \in First)
    <3>1. t /= <<>> => broker.due = <<>> \/ (~AtHello /\ state \in First)
      BY DEF Hashes
    <3> QED
      BY <3>1 DEF First, Done, Over
  <2>2. Carries(Pending', u)
    BY <1>2 DEF Hashes
  <2>3. Hashes(t2, u)'
    BY <1>2, <2>1, <2>2 DEF Hashes
  <2> QED
    BY <2>3 DEF HashesInv
<1> QED
  BY <1>5, <1>6, <1>7, <1>8 DEF ExpectedInv

\* A message from the broker takes what is hashed of it along.
LEMMA TakeKeeps ==
    ASSUME QueuesInv, s2c /= <<>>, s2c' = Tail(s2c),
           seen' = IF Hashed(s2c[1]) THEN Append(seen, s2c[1]) ELSE seen,
           NEW t, NEW u, IsSeq(t), IsSeq(u), Hashes(t, u)
    PROVE  \E t2 :
             /\ IsSeq(t2) /\ Carries(s2c', t2) /\ IsSeq(seen') /\ seen' \o t2 = broker.seen \o u
             /\ t2 /= <<>> => t /= <<>>
             /\ Hashed(s2c[1]) => t /= <<>>
             /\ ~Hashed(s2c[1]) => t2 = t
             /\ s2c[1].type = "ServerHelloDone" => t2 = <<>>
             /\ \A k \in 1..Len(t2) : t2[k].type = "ServerHelloDone" => k = Len(t2)
<1>1. /\ IsSeq(s2c) /\ IsSeq(seen) /\ Carries(s2c, t) /\ seen \o t = broker.seen \o u
      /\ \A k \in 1..Len(t) : t[k].type = "ServerHelloDone" => k = Len(t)
  BY DEF QueuesInv, Hashes
<1>2. CASE Hashed(s2c[1])
  <2>1. t /= <<>> /\ t[1] = s2c[1] /\ Carries(s2c', Tail(t))
    BY <1>1, <1>2, CarriesTail
  <2>2. seen' = Append(seen, t[1]) /\ IsSeq(seen')
    BY <1>1, <1>2, <2>1, SeqAppend
  <2>3. /\ IsSeq(Tail(t)) /\ Len(Tail(t)) = Len(t) - 1 /\ Len(t) \in Nat /\ Len(t) >= 1
        /\ \A i \in 1..Len(Tail(t)) : Tail(t)[i] = t[i + 1]
    BY <2>1, SeqHead
  <2>4. seen' \o Tail(t) = broker.seen \o u
    <3>1. Join(seen', Tail(t)) = Join(seen, t)
      BY <1>1, <2>1, <2>2, JoinFirst
    <3> QED
      BY <1>1, <3>1, Zenon DEF Join
  <2>5. ASSUME NEW k \in 1..Len(Tail(t)), Tail(t)[k].type = "ServerHelloDone"
        PROVE  k = Len(Tail(t))
    <3>1. k + 1 \in 1..Len(t) /\ t[k + 1].type = "ServerHelloDone"
      BY <2>3, <2>5
    <3>2. k + 1 = Len(t)
      BY <1>1, <3>1
    <3> QED
      BY <2>3, <3>2
  <2>6. ASSUME s2c[1].type = "ServerHelloDone" PROVE Tail(t) = <<>>
    <3>1. 1 \in 1..Len(t)
      BY <2>3
    <3>2. t[1].type = "ServerHelloDone"
      BY <2>1, <2>6
    <3>3. 1 = Len(t)
      BY <1>1, <3>1, <3>2
    <3>4. Len(Tail(t)) = 0
      BY <2>3, <3>3
    <3> QED
      BY <2>3, <3>4, SeqLength
  <2> QED
    BY <1>2, <2>1, <2>2, <2>3, <2>4, <2>5, <2>6
<1>3. CASE ~Hashed(s2c[1])
  <2>1. Carries(s2c', t)
    BY <1>1, <1>3, CarriesTail
  <2>2. s2c[1].type /= "ServerHelloDone"
    BY <1>3 DEF Hashed
  <2> QED
    BY <1>1, <1>3, <2>1, <2>2
<1> QED
  BY <1>2, <1>3

\* Reading in one of the states in which the client waits.
LEMMA ReadsKeep ==
    ASSUME FInv, IInv', tcp = "up", s2c /= <<>>, s2c' = Tail(s2c),
           seen' = IF Hashed(s2c[1]) THEN Append(seen, s2c[1]) ELSE seen,
           \/ state' = state /\ UNCHANGED client_auth
           \/ Hashed(s2c[1]) /\ state \in First /\ state' \in First
           \/ /\ state = "SERVER_HELLO_DONE" /\ state' = "CLIENT_CERTIFICATE"
              /\ s2c[1].type = "ServerHelloDone"
           \/ state \in Done /\ state' \in Done,
           kept' \in {<<>>, <<s2c[1]>>},
           state \in First \union Done,
           UNCHANGED <<out, c2s, tcp, broker, client>>
    PROVE  ExpectedInv'
<1>1. QueuesInv /\ HashesInv
  BY DEF FInv, IInv, ExpectedInv
<1>2. PICK t, u : IsSeq(t) /\ IsSeq(u) /\ Hashes(t, u)
  BY <1>1 DEF HashesInv
<1>3. PICK t2 :
             /\ IsSeq(t2) /\ Carries(s2c', t2) /\ IsSeq(seen') /\ seen' \o t2 = broker.seen \o u
             /\ t2 /= <<>> => t /= <<>>
             /\ Hashed(s2c[1]) => t /= <<>>
             /\ ~Hashed(s2c[1]) => t2 = t
             /\ s2c[1].type = "ServerHelloDone" => t2 = <<>>
             /\ \A k \in 1..Len(t2) : t2[k].type = "ServerHelloDone" => k = Len(t2)
  BY <1>1, <1>2, TakeKeeps
<1>4. Hashed(s2c[1]) /\ state \in First => ~AtHello
  <2>1. state \in First => broker.due /= <<>>
    BY DEF FInv, IInv, FinishedInv, First, Done, Over
  <2> QED
    BY <1>2, <1>3, <2>1 DEF Hashes
<1>5. kept' /= <<>> /\ kept'[1].type = "ServerHelloDone" => t2 = <<>>
  BY <1>3
<1>6. state' = "CLIENT_CERTIFICATE" => t2 = <<>>
  BY <1>3 DEF First, Done, Over
<1>7. seen' /= seen => t /= <<>>
  BY <1>3
<1> QED
  BY <1>2, <1>3, <1>4, <1>5, <1>6, <1>7, ReadKeeps

\* Reading what was kept.
LEMMA KeptKeeps ==
    ASSUME FInv, IInv', tcp = "up", ParseServerHelloDone, kept /= <<>>
    PROVE  ExpectedInv'
<1>1. /\ state = "SERVER_HELLO_DONE" /\ state' = "CLIENT_CERTIFICATE"
      /\ kept[1].type = "ServerHelloDone" /\ kept' = <<>>
      /\ UNCHANGED <<seen, s2c, out, c2s, tcp, broker, client>>
  BY Successors DEF ParseServerHelloDone, Steps, Reads, Take, Incoming
<1>2. PICK t, u : IsSeq(t) /\ IsSeq(u) /\ Hashes(t, u)
  BY DEF FInv, ExpectedInv, HashesInv
<1>3. t = <<>> /\ Carries(s2c', t) /\ seen' \o t = broker.seen \o u /\ IsSeq(seen')
  BY <1>1, <1>2 DEF Hashes, FInv, IInv, QueuesInv
<1>4. \A k \in 1..Len(t) : t[k].type = "ServerHelloDone" => k = Len(t)
  BY <1>2 DEF Hashes
<1>5. state \in First
  BY <1>1 DEF First
<1> QED
  BY <1>1, <1>2, <1>3, <1>4, <1>5, ReadKeeps

LEMMA ClientKeeps ==
    ASSUME FInv, IInv', tcp = "up", ClientStep
    PROVE  ExpectedInv'
<1> USE Successors DEF Steps, session, channel, First, Done, Over
<1>1. /\ state /= "SERVER_HELLO_DONE" => kept = <<>>
      /\ kept = <<>> /\ HasMessage => s2c /= <<>> /\ Incoming = s2c[1]
      /\ state \notin {"CLIENT_HELLO", "SERVER_HELLO"} => ~AtHello
  BY DEF FInv, IInv, TypeOK, HasMessage, Incoming, ExpectedInv, HelloInv
<1>2. \A x : x.type = "ServerHello" \/ x.type = "Certificate" \/ x.type = "ServerKeyExchange" => Hashed(x)
  BY DEF Hashed
<1>3. CASE \/ WriteClientHello \/ WriteCertificate \/ WriteClientKeyExchange
           \/ WriteCertificateVerify \/ WriteChangeCipherSpec \/ WriteFinished
  BY <1>3, WritesKeep
<1>4. CASE ParseServerHello
  BY <1>1, <1>2, <1>4, ReadsKeep DEF ParseServerHello, Reads, Take
<1>5. CASE ParseCertificate
  BY <1>1, <1>2, <1>5, ReadsKeep DEF ParseCertificate, Reads, Take
<1>6. CASE ParseServerKeyExchange
  <2>1. CASE key_exchange = "RSA"
    <3>1. Written' = Written
      BY <1>6, <2>1 DEF ParseServerKeyExchange, Written
    <3> QED
      BY <1>1, <1>6, <2>1, <3>1, IdleKeeps DEF ParseServerKeyExchange
  <2>2. CASE key_exchange /= "RSA"
    BY <1>1, <1>2, <1>6, <2>2, ReadsKeep DEF ParseServerKeyExchange, Reads, Take
  <2> QED
    BY <2>1, <2>2
<1>7. CASE ParseCertificateRequest
  BY <1>1, <1>7, ReadsKeep DEF ParseCertificateRequest
<1>8. CASE ParseServerHelloDone
  <2>1. CASE kept = <<>>
    BY <1>1, <1>8, <2>1, ReadsKeep DEF ParseServerHelloDone, Reads, Take
  <2> QED
    BY <1>8, <2>1, KeptKeeps
<1>9. CASE ParseNewSessionTicket
  BY <1>1, <1>9, ReadsKeep DEF ParseNewSessionTicket, Reads, Take
<1>10. CASE ParseChangeCipherSpec
  BY <1>1, <1>10, ReadsKeep DEF ParseChangeCipherSpec, Reads, Take
<1>11. CASE ParseFinished
  BY <1>1, <1>11, ReadsKeep DEF ParseFinished, Reads, Take
<1>12. CASE Wrapup
  <2>1. Written' = Written
    BY <1>12 DEF Wrapup, Written, Whole, Asking, Proving
  <2> QED
    BY <1>12, <2>1, IdleKeeps DEF Wrapup
<1>13. CASE SkipWarning
  <2>1. state \in First \union Done /\ ~Hashed(s2c[1])
    BY <1>13 DEF SkipWarning, Waiting, Hashed
  <2> QED
    BY <1>13, <2>1, ReadsKeep DEF SkipWarning
<1>14. CASE Fail
  BY <1>14 DEF Fail, Abandon, ExpectedInv
<1>15. CASE Finish
  <2>1. CASE client.verify /\ ~Verify
    BY <1>15, <2>1 DEF Finish, Abandon, ExpectedInv
  <2>2. CASE ~(client.verify /\ ~Verify)
    <3>1. Written' = Written
      BY <1>15, <2>2 DEF Finish, Written, Whole, Asking, Proving
    <3> QED
      BY <1>15, <2>2, <3>1, IdleKeeps DEF Finish
  <2> QED
    BY <2>1, <2>2
<1> QED
  BY <1>3, <1>4, <1>5, <1>6, <1>7, <1>8, <1>9, <1>10, <1>11, <1>12, <1>13, <1>14, <1>15
     DEF ClientStep

\* Warnings and alerts are not hashed.
LEMMA NetworkKeeps ==
    ASSUME FInv, tcp = "up", BrokerWarns \/ GivesUp
    PROVE  ExpectedInv'
<1>1. CASE GivesUp
  BY <1>1 DEF GivesUp, ExpectedInv
<1>2. CASE BrokerWarns
  <2> DEFINE w == Message("Warning", 0)
  <2>1. /\ UNCHANGED <<state, client_auth, kept, seen, out, c2s, tcp, broker, client>>
        /\ s2c' = s2c \o <<w>>
    BY <1>2 DEF BrokerWarns, Sends, session
  <2>2. s2c' = Append(s2c, w) /\ IsSeq(s2c)
    BY <2>1, SeqAppended DEF FInv, IInv, QueuesInv
  <2>3. ~Hashed(w)
    BY DEF Hashed, Message
  <2> HIDE DEF w
  <2>4. HelloInv /\ PendingInv /\ ProofInv /\ HashesInv
    BY DEF FInv, ExpectedInv
  <2>5. UNCHANGED <<Pending, Asking, Proving, Read, Written>> /\ (AtHello' <=> AtHello)
    BY <2>1 DEF Pending, Asking, Proving, Read, Written, Whole, AtHello
  <2>6. HelloInv' /\ ProofInv'
    BY <2>1, <2>4, <2>5 DEF HelloInv, ProofInv
  <2>7. PendingInv'
    <3>1. \A k : Kind(k)' = Kind(k)
      BY <2>5 DEF Kind
    <3> QED
      BY <2>1, <2>4, <2>5, <3>1 DEF PendingInv
  <2>8. HashesInv'
    <3>1. PICK t, u : IsSeq(t) /\ IsSeq(u) /\ Hashes(t, u)
      BY <2>4 DEF HashesInv
    <3>2. Carries(s2c', t)
      BY <2>2, <2>3, <3>1, CarriesAppend DEF Hashes
    <3>3. Hashes(t, u)'
      BY <2>1, <2>5, <3>1, <3>2 DEF Hashes
    <3> QED
      BY <3>1, <3>3 DEF HashesInv
  <2> QED
    BY <2>6, <2>7, <2>8 DEF ExpectedInv
<1> QED
  BY <1>1, <1>2
------------------------------------------------------------------------------
(* The broker reads what it waits for *)

\* What the broker may wait for once it has answered the ClientHello.
LEMMA Awaits ==
    ASSUME QueuesInv, ~AtHello, broker.due \notin {<<>>, <<"Surprised">>}
    PROVE  \/ /\ broker.due = <<"Certificate", "ClientKeyExchange", "ChangeCipherSpec", "Finished">>
              /\ Head(broker.due) = "Certificate" /\ Read = 0
           \/ /\ broker.due = <<"ClientKeyExchange", "CertificateVerify", "ChangeCipherSpec", "Finished">>
              /\ Head(broker.due) = "ClientKeyExchange" /\ Read = Asking
           \/ /\ broker.due = <<"ClientKeyExchange", "ChangeCipherSpec", "Finished">>
              /\ Head(broker.due) = "ClientKeyExchange" /\ Read = Asking
           \/ /\ broker.due = <<"CertificateVerify", "ChangeCipherSpec", "Finished">>
              /\ Head(broker.due) = "CertificateVerify" /\ Read = 2
           \/ /\ broker.due = <<"ChangeCipherSpec", "Finished">>
              /\ Head(broker.due) = "ChangeCipherSpec" /\ Read = Asking + Proving + 1
           \/ /\ broker.due = <<"Finished">>
              /\ Head(broker.due) = "Finished" /\ Read = Asking + Proving + 2
<1>1. CASE broker.due = <<"Certificate", "ClientKeyExchange", "ChangeCipherSpec", "Finished">>
  BY <1>1 DEF Read
<1>2. CASE broker.due = <<"ClientKeyExchange", "CertificateVerify", "ChangeCipherSpec", "Finished">>
  BY <1>2 DEF Read
<1>3. CASE broker.due = <<"ClientKeyExchange", "ChangeCipherSpec", "Finished">>
  BY <1>3 DEF Read
<1>4. CASE broker.due = <<"CertificateVerify", "ChangeCipherSpec", "Finished">>
  BY <1>4 DEF Read
<1>5. CASE broker.due = <<"ChangeCipherSpec", "Finished">>
  BY <1>5 DEF Read
<1>6. CASE broker.due = <<"Finished">>
  BY <1>6 DEF Read
<1> QED
  BY <1>1, <1>2, <1>3, <1>4, <1>5, <1>6, Zenon DEF QueuesInv, Dues, AtHello

\* It is the one that is under way, and the client's Finished bears what the
\* broker has hashed.
LEMMA IsAwaited ==
    ASSUME FInv, tcp = "up", ~AtHello, broker.due /= <<>>, c2s /= <<>>,
           NEW m, m = Pending[1], NEW t, NEW u, IsSeq(t), IsSeq(u), Hashes(t, u)
    PROVE  /\ Pending /= <<>> /\ Len(Pending) = Written - Read
           /\ state \notin First /\ t = <<>>
           /\ m.type = Head(broker.due) /\ m.type = Kind(Read)
           /\ m.type = "Certificate" => m.data = client.cert
           /\ m.type = "Finished" =>
                Pending = <<m>> /\ u = <<m>> /\ m.data = broker.seen /\ Written = Whole
<1>1. QueuesInv /\ IsSeq(Pending) /\ IsSeq(c2s) /\ IsSeq(out) /\ IsSeq(broker.seen) /\ IsSeq(seen)
  BY PendingSeq DEF FInv, IInv, QueuesInv
<1>2. Pending /= <<>>
  <2>1. ToSet(Pending) = ToSet(c2s) \union ToSet(out) /\ c2s[1] \in ToSet(c2s)
    BY <1>1, PendingSeq, SeqTail
  <2> QED
    BY <2>1, SeqEmpty
<1>3. Len(Pending) \in Nat /\ Len(Pending) >= 1 /\ 1 \in 1..Len(Pending)
  BY <1>1, <1>2, SeqHead
<1>4. Len(Pending) = Written - Read /\ state \notin First
  BY <1>2, Bounds
<1>5. t = <<>>
  BY <1>4 DEF Hashes
<1>6. PendingInv /\ ProofInv
  BY DEF FInv, ExpectedInv
<1>7. /\ Asking \in {0, 1} /\ Proving \in {0, 1} /\ Proving <= Asking /\ Written \in 0..Whole
      /\ Read \in 0..Whole
  BY Counts
<1>8. /\ m.type = Kind(Read)
      /\ m.type = "Certificate" => m.data = client.cert
      /\ m.type = "Finished" => IsSeq(m.data) /\ seen = Append(m.data, m)
  <2>1. Read + 1 - 1 = Read
    BY <1>7 DEF Whole
  <2> QED
    BY <1>3, <1>6, <2>1 DEF PendingInv
<1>9. broker.due \notin {<<>>, <<"Surprised">>}
  BY DEF FInv
<1>10. /\ Head(broker.due) = Kind(Read)
       /\ Head(broker.due) = "Finished" <=> Read = Asking + Proving + 2
  <2>1. CASE broker.due = <<"Certificate", "ClientKeyExchange", "ChangeCipherSpec", "Finished">>
    <3>1. Asking = 1
      BY <1>6, <2>1 DEF ProofInv, Asking
    <3> QED
      BY <1>7, <2>1, <3>1 DEF Read, Kind
  <2>2. CASE broker.due = <<"ClientKeyExchange", "CertificateVerify", "ChangeCipherSpec", "Finished">>
    BY <1>7, <2>2 DEF Read, Kind
  <2>3. CASE broker.due = <<"ClientKeyExchange", "ChangeCipherSpec", "Finished">>
    BY <1>7, <2>3 DEF Read, Kind
  <2>4. CASE broker.due = <<"CertificateVerify", "ChangeCipherSpec", "Finished">>
    <3>1. Proving = 1
      BY <1>6, <2>4 DEF ProofInv
    <3> QED
      BY <1>7, <2>4, <3>1 DEF Read, Kind
  <2>5. CASE broker.due = <<"ChangeCipherSpec", "Finished">>
    BY <1>7, <2>5 DEF Read, Kind
  <2>6. CASE broker.due = <<"Finished">>
    BY <1>7, <2>6 DEF Read, Kind
  <2> QED
    BY <1>1, <1>9, <2>1, <2>2, <2>3, <2>4, <2>5, <2>6, Awaits, Zenon
<1>11. ASSUME m.type = "Finished"
       PROVE  Pending = <<m>> /\ u = <<m>> /\ m.data = broker.seen /\ Written = Whole
  <2>1. Len(Pending) = 1 /\ Written = Whole
    BY <1>3, <1>4, <1>7, <1>8, <1>10, <1>11 DEF Whole
  <2>2. Pending = <<m>>
    BY <1>1, <2>1, SeqSingle
  <2>3. u = <<m>>
    <3>1. Carries(<<m>>, u)
      BY <2>2 DEF Hashes
    <3> QED
      BY <1>11, <3>1, CarriesSingle DEF Hashed
  <2>4. seen = Append(broker.seen, m)
    <3>1. seen \o <<>> = broker.seen \o <<m>>
      BY <1>5, <2>3 DEF Hashes
    <3> QED
      BY <1>1, <3>1, SeqNothing, SeqAppended
  <2>5. m.data = broker.seen
    BY <1>1, <1>8, <1>11, <2>4, AppendSame
  <2> QED
    BY <2>1, <2>2, <2>3, <2>5
<1> QED
  BY <1>2, <1>4, <1>5, <1>8, <1>10, <1>11

\* One message further.
LEMMA AcceptsNext ==
    ASSUME FInv, tcp = "up", ~AtHello, broker.due /= <<>>, c2s /= <<>>,
           Head(c2s).type = Head(broker.due), Accepts(Head(c2s)),
           UNCHANGED <<out, client>>, c2s' = Tail(c2s)
    PROVE  /\ Read' = Read + 1
           /\ \/ /\ broker'.due = <<"ClientKeyExchange", "CertificateVerify", "ChangeCipherSpec", "Finished">>
                 /\ Proving = 1
              \/ broker'.due = <<"ClientKeyExchange", "ChangeCipherSpec", "Finished">> /\ Proving = 0
              \/ broker'.due = <<"CertificateVerify", "ChangeCipherSpec", "Finished">> /\ Proving = 1
              \/ broker'.due = <<"ChangeCipherSpec", "Finished">>
              \/ broker'.due = <<"Finished">>
<1> DEFINE m == Head(c2s)
           due == IF m.type = "Certificate" /\ m.data
                  THEN <<"ClientKeyExchange", "CertificateVerify">>
                       \o SubSeq(broker.due, 3, Len(broker.due))
                  ELSE Tail(broker.due)
           hashed == IF Hashed(m) THEN Append(broker.seen, m) ELSE broker.seen
<1>1. /\ broker' = [broker EXCEPT !.seen = hashed, !.due = due]
      /\ m.type \in {"Certificate", "ClientKeyExchange", "CertificateVerify", "ChangeCipherSpec"}
      /\ m.type = Head(broker.due)
  BY DEF Accepts
<1>2. QueuesInv /\ ProofInv /\ broker.due \notin {<<>>, <<"Surprised">>} /\ client.cert \in BOOLEAN
  BY DEF FInv, IInv, ExpectedInv
<1>3. broker'.due = due /\ broker'.asks = broker.asks
  BY <1>1, <1>2 DEF QueuesInv
<1>4. m.type = "Certificate" => m.data = client.cert
  <2>1. m = Pending[1]
    BY <1>2, PendingTail
  <2>2. PICK t, u : IsSeq(t) /\ IsSeq(u) /\ Hashes(t, u)
    BY DEF FInv, ExpectedInv, HashesInv
  <2> QED
    BY <2>1, <2>2, IsAwaited
<1>5. Asking \in {0, 1} /\ Proving \in {0, 1} /\ Proving <= Asking /\ Asking' = Asking /\ Proving' = Proving
  BY <1>3, Counts DEF Asking, Proving
<1> HIDE DEF m
<1>7. CASE broker.due = <<"Certificate", "ClientKeyExchange", "ChangeCipherSpec", "Finished">>
  <2>1. Read = 0 /\ m.type = "Certificate" /\ broker.asks /\ Asking = 1
    BY <1>1, <1>2, <1>7 DEF Read, ProofInv, Asking
  <2>2. CASE client.cert
    <3>1. Len(broker.due) = 4 /\ SubSeq(broker.due, 3, 4) = <<"ChangeCipherSpec", "Finished">>
      BY <1>7, LastTwo
    <3>2. due = <<"ClientKeyExchange", "CertificateVerify">> \o <<"ChangeCipherSpec", "Finished">>
      BY <1>4, <2>1, <2>2, <3>1, Zenon
    <3>3. due = <<"ClientKeyExchange", "CertificateVerify", "ChangeCipherSpec", "Finished">>
      BY <3>2, TwoAndTwo, Zenon
    <3> HIDE DEF due
    <3>4. Proving = 1
      BY <2>1, <2>2 DEF Proving
    <3>5. Read' = Asking'
      BY <1>3, <3>3 DEF Read
    <3>6. Read' = Read + 1
      BY <1>5, <2>1, <3>5
    <3> QED
      BY <1>3, <3>3, <3>4, <3>6, Zenon
  <2>3. CASE ~client.cert
    <3>1. due = Tail(broker.due)
      BY <1>4, <2>1, <2>3
    <3>2. due = <<"ClientKeyExchange", "ChangeCipherSpec", "Finished">>
      BY <1>7, <3>1, Tails
    <3> HIDE DEF due
    <3>3. Proving = 0
      BY <2>3 DEF Proving
    <3>4. Read' = Asking'
      BY <1>3, <3>2 DEF Read
    <3>5. Read' = Read + 1
      BY <1>5, <2>1, <3>4
    <3> QED
      BY <1>3, <3>2, <3>3, <3>5, Zenon
  <2> QED
    BY <2>2, <2>3
<1>8. Head(broker.due) /= "Certificate" => due = Tail(broker.due)
  BY <1>1
<1> HIDE DEF due
<1>9. CASE broker.due = <<"ClientKeyExchange", "CertificateVerify", "ChangeCipherSpec", "Finished">>
  <2>1. Read = Asking /\ Proving = 1
    BY <1>2, <1>9 DEF Read, ProofInv
  <2>2. due = <<"CertificateVerify", "ChangeCipherSpec", "Finished">>
    BY <1>8, <1>9, Tails
  <2>3. Read' = 2
    BY <1>3, <2>2 DEF Read
  <2>4. Read' = Read + 1
    BY <1>5, <2>1, <2>3
  <2> QED
    BY <1>3, <2>1, <2>2, <2>4, Zenon
<1>10. CASE broker.due = <<"ClientKeyExchange", "ChangeCipherSpec", "Finished">>
  <2>1. Read = Asking /\ Proving = 0
    BY <1>2, <1>10 DEF Read, ProofInv
  <2>2. due = <<"ChangeCipherSpec", "Finished">>
    BY <1>8, <1>10, Tails
  <2>3. Read' = Asking' + Proving' + 1
    BY <1>3, <2>2 DEF Read
  <2>4. Read' = Read + 1
    BY <1>5, <2>1, <2>3
  <2> QED
    BY <1>3, <2>1, <2>2, <2>4, Zenon
<1>11. CASE broker.due = <<"CertificateVerify", "ChangeCipherSpec", "Finished">>
  <2>1. Read = 2 /\ Proving = 1
    BY <1>2, <1>11 DEF Read, ProofInv
  <2>2. due = <<"ChangeCipherSpec", "Finished">>
    BY <1>8, <1>11, Tails
  <2>3. Read' = Asking' + Proving' + 1
    BY <1>3, <2>2 DEF Read
  <2>4. Read' = Read + 1
    BY <1>5, <2>1, <2>3
  <2> QED
    BY <1>3, <2>1, <2>2, <2>4, Zenon
<1>12. CASE broker.due = <<"ChangeCipherSpec", "Finished">>
  <2>1. Read = Asking + Proving + 1
    BY <1>12 DEF Read
  <2>2. due = <<"Finished">>
    BY <1>8, <1>12, Tails
  <2>3. Read' = Asking' + Proving' + 2
    BY <1>3, <2>2 DEF Read
  <2>4. Read' = Read + 1
    BY <1>5, <2>1, <2>3
  <2> QED
    BY <1>3, <2>1, <2>2, <2>4, Zenon
<1>13. broker.due /= <<"Finished">>
  BY <1>1
<1> QED
  BY <1>2, <1>7, <1>9, <1>10, <1>11, <1>12, <1>13, Awaits, Zenon

LEMMA AcceptsKeeps ==
    ASSUME FInv, tcp = "up", ~AtHello, broker.due /= <<>>, c2s /= <<>>,
           Head(c2s).type = Head(broker.due), Accepts(Head(c2s)), c2s' = Tail(c2s),
           UNCHANGED <<state, client_auth, kept, seen, out, tcp, client>>
    PROVE  ExpectedInv'
<1>1. QueuesInv /\ PendingInv /\ ProofInv /\ UNCHANGED s2c
  BY DEF FInv, IInv, ExpectedInv, Accepts
<1>2. PICK t, u : IsSeq(t) /\ IsSeq(u) /\ Hashes(t, u)
  BY DEF FInv, ExpectedInv, HashesInv
<1> DEFINE m == Head(c2s)
           rest == IF Hashed(m) THEN Tail(u) ELSE u
<1>3. Pending' = Tail(Pending) /\ Pending /= <<>> /\ m = Pending[1] /\ IsSeq(Pending)
  BY <1>1, PendingTail, PendingSeq
<1>4. state \notin First /\ t = <<>>
  BY <1>2, <1>3, IsAwaited
<1>5. /\ broker'.asks = broker.asks
      /\ broker'.seen = IF Hashed(m) THEN Append(broker.seen, m) ELSE broker.seen
      /\ broker'.due /= <<"ClientHello">> /\ broker'.due /= <<>> /\ ProofInv'
  <2>1. broker'.asks = broker.asks
    BY <1>1 DEF Accepts, QueuesInv
  <2>2. broker'.seen = IF Hashed(m) THEN Append(broker.seen, m) ELSE broker.seen
    BY <1>1 DEF Accepts, QueuesInv
  <2>3. Proving' = Proving /\ (state' \in Second => client_auth' = broker'.asks)
    BY <1>1, <2>1 DEF Proving, ProofInv
  <2>4. CASE /\ broker'.due = <<"ClientKeyExchange", "CertificateVerify", "ChangeCipherSpec", "Finished">>
             /\ Proving = 1
    BY <2>1, <2>2, <2>3, <2>4 DEF ProofInv
  <2>5. CASE broker'.due = <<"ClientKeyExchange", "ChangeCipherSpec", "Finished">> /\ Proving = 0
    BY <2>1, <2>2, <2>3, <2>5 DEF ProofInv
  <2>6. CASE broker'.due = <<"CertificateVerify", "ChangeCipherSpec", "Finished">> /\ Proving = 1
    BY <2>1, <2>2, <2>3, <2>6 DEF ProofInv
  <2>7. CASE broker'.due = <<"ChangeCipherSpec", "Finished">>
    BY <2>1, <2>2, <2>3, <2>7 DEF ProofInv
  <2>8. CASE broker'.due = <<"Finished">>
    BY <2>1, <2>2, <2>3, <2>8 DEF ProofInv
  <2>9. \/ /\ broker'.due = <<"ClientKeyExchange", "CertificateVerify", "ChangeCipherSpec", "Finished">>
           /\ Proving = 1
        \/ broker'.due = <<"ClientKeyExchange", "ChangeCipherSpec", "Finished">> /\ Proving = 0
        \/ broker'.due = <<"CertificateVerify", "ChangeCipherSpec", "Finished">> /\ Proving = 1
        \/ broker'.due = <<"ChangeCipherSpec", "Finished">>
        \/ broker'.due = <<"Finished">>
    BY AcceptsNext
  <2> QED
    BY <2>1, <2>2, <2>4, <2>5, <2>6, <2>7, <2>8, <2>9, Zenon
<1>6. /\ Asking' = Asking /\ Proving' = Proving /\ Written' = Written /\ ~AtHello'
      /\ \A k : Kind(k)' = Kind(k)
  BY <1>5 DEF Asking, Proving, Written, Whole, AtHello, Kind
<1>7. Read' = Read + 1 /\ Read \in Nat /\ Written \in Nat
  BY AcceptsNext, Counts DEF Whole
<1>8. PendingInv'
  <2>1. /\ Len(Pending') = Len(Pending) - 1 /\ Len(Pending) \in Nat /\ Len(Pending) >= 1
        /\ \A i \in 1..Len(Pending') : Pending'[i] = Pending[i + 1]
    BY <1>3, SeqHead
  <2>2. state /= "CLIENT_HELLO" /\ Len(Pending) = Written - Read
    BY <1>1 DEF PendingInv
  <2>3. ASSUME NEW i \in 1..Len(Pending')
        PROVE  /\ Pending'[i].type = Kind(Read' + i - 1)
               /\ Pending'[i].type = "Certificate" => Pending'[i].data = client.cert
               /\ Pending'[i].type = "Finished" =>
                    IsSeq(Pending'[i].data) /\ seen = Append(Pending'[i].data, Pending'[i])
    <3>1. i + 1 \in 1..Len(Pending) /\ Pending'[i] = Pending[i + 1]
      BY <2>1
    <3>2. Read + (i + 1) - 1 = Read' + i - 1
      BY <1>7
    <3> QED
      BY <1>1, <3>1, <3>2 DEF PendingInv
  <2>4. Len(Pending') = Written' - Read'
    BY <1>6, <1>7, <2>1, <2>2
  <2>5. state' /= "CLIENT_HELLO" /\ client' = client /\ seen' = seen
    BY <2>2
  <2> QED
    BY <1>6, <2>3, <2>4, <2>5 DEF PendingInv
<1>9. HashesInv'
  <2>1. PICK v : v = rest
    OBVIOUS
  <2>2. IsSeq(v) /\ Carries(Pending', v)
    BY <1>2, <1>3, <2>1, CarriesTail, SeqHead DEF Hashes
  <2>3. broker'.seen \o v = broker.seen \o u
    <3>1. CASE Hashed(m)
      <4>1. u /= <<>> /\ u[1] = m
        BY <1>2, <1>3, <3>1, CarriesTail DEF Hashes
      <4>2. Join(Append(broker.seen, u[1]), Tail(u)) = Join(broker.seen, u)
        BY <1>1, <1>2, <4>1, JoinFirst DEF QueuesInv
      <4>3. broker'.seen = Append(broker.seen, u[1]) /\ v = Tail(u)
        BY <1>5, <2>1, <3>1, <4>1
      <4> QED
        BY <4>2, <4>3, Zenon DEF Join
    <3>2. CASE ~Hashed(m)
      BY <1>5, <2>1, <3>2
    <3> QED
      BY <3>1, <3>2
  <2>4. seen \o t = broker'.seen \o v
    BY <1>2, <2>3 DEF Hashes
  <2>5. Hashes(t, v)'
    BY <1>1, <1>2, <1>4, <2>2, <2>4 DEF Hashes
  <2> QED
    BY <1>2, <2>2, <2>5 DEF HashesInv
<1>10. HelloInv'
  BY <1>6 DEF HelloInv
<1> QED
  BY <1>5, <1>8, <1>9, <1>10 DEF ExpectedInv

\* What follows the client's Finished.
LEMMA LastKeeps ==
    ASSUME FInv, tcp = "up", ~AtHello, broker.due /= <<>>, c2s /= <<>>, c2s' = Tail(c2s),
           AnswersFinished(Head(c2s)),
           UNCHANGED <<state, client_auth, kept, seen, out, tcp, client>>
    PROVE  ExpectedInv'
<1> DEFINE m == Head(c2s)
           ticket == IF broker.ticket THEN <<Message("NewSessionTicket", 0)>> ELSE <<>>
           told == Append(broker.seen, m) \o ticket
           change == Message("ChangeCipherSpec", 0)
           last == Message("Finished", told)
           news == SubSeq(told, Len(broker.seen) + 2, Len(told))
           hashed == ticket \o <<last>>
<1>1. QueuesInv /\ IsSeq(broker.seen) /\ IsSeq(s2c) /\ IsSeq(seen)
  BY DEF FInv, IInv, QueuesInv
<1>2. /\ m.type = "Finished"
      /\ s2c' = s2c \o (news \o <<change, last>>)
      /\ broker' = [broker EXCEPT !.seen = Append(told, last), !.due = <<>>]
  BY DEF AnswersFinished, Sends
<1>3. PICK t, u : IsSeq(t) /\ IsSeq(u) /\ Hashes(t, u)
  BY DEF FInv, ExpectedInv, HashesInv
<1>4. Pending' = Tail(Pending) /\ m = Pending[1]
  BY <1>1, PendingTail
<1>5. state \notin First /\ t = <<>> /\ Pending = <<m>> /\ u = <<m>> /\ Written = Whole
  BY <1>2, <1>3, <1>4, IsAwaited
<1>6. Pending' = <<>>
  BY <1>4, <1>5
<1>7. /\ broker'.asks = broker.asks /\ broker'.due = <<>> /\ broker'.seen = Append(told, last)
  BY <1>1, <1>2 DEF QueuesInv
<1>8. /\ IsSeq(ticket) /\ \A x \in ToSet(ticket) : Hashed(x) /\ x.type /= "ServerHelloDone"
  <2>1. ToSet(ticket) \subseteq {Message("NewSessionTicket", 0)} /\ IsSeq(ticket)
    BY SeqOne, SeqEmpty
  <2> HIDE DEF ticket
  <2> QED
    BY <2>1 DEF Message, Hashed
<1>9. Hashed(last) /\ last.type /= "ServerHelloDone" /\ ~Hashed(change)
  BY DEF Message, Hashed
<1>10. IsSeq(Append(broker.seen, m)) /\ Len(Append(broker.seen, m)) + 1 = Len(broker.seen) + 2
  <2>1. Len(Append(broker.seen, m)) = Len(broker.seen) + 1 /\ Len(broker.seen) \in Nat
    BY <1>1, SeqAppended, SeqLength
  <2> QED
    BY <1>1, <2>1, SeqAppend
<1> HIDE DEF m, ticket, change
<1>11. IsSeq(told) /\ news = ticket
  BY <1>8, <1>10, SeqConcat, SeqRest
<1> HIDE DEF last
<1>12. /\ IsSeq(hashed) /\ \A x \in ToSet(hashed) : x.type /= "ServerHelloDone"
  BY <1>8, <1>9, SeqOne, SeqConcat
<1>13. Carries(s2c', hashed)
  <2>1. Carries(<<change>>, <<>>) /\ IsSeq(<<change>>) /\ IsSeq(<<>>)
    BY <1>9, CarriesOne, SeqOne, SeqEmpty
  <2>2. Carries(Append(<<change>>, last), Append(<<>>, last))
    BY <1>9, <2>1, CarriesAppend
  <2>3. Append(<<change>>, last) = <<change, last>> /\ Append(<<>>, last) = <<last>>
    BY AppendTwo
  <2>4. Carries(ticket, ticket)
    BY <1>8, CarriesAll
  <2>5. Carries(ticket \o <<change, last>>, ticket \o <<last>>) /\ IsSeq(ticket \o <<change, last>>)
    BY <1>8, <2>2, <2>3, <2>4, CarriesConcat, SeqOne, SeqTwo, SeqConcat
  <2>6. Carries(s2c, <<>>)
    BY <1>3, <1>5 DEF Hashes
  <2>7. Carries(s2c \o (ticket \o <<change, last>>), <<>> \o hashed)
    BY <1>1, <1>12, <2>1, <2>5, <2>6, CarriesConcat
  <2>8. <<>> \o hashed = hashed
    BY <1>12, SeqNothing
  <2> QED
    BY <1>2, <1>11, <2>7, <2>8
<1>14. seen \o hashed = broker'.seen \o <<>>
  <2>1. seen \o <<>> = broker.seen \o <<m>>
    BY <1>3, <1>5 DEF Hashes
  <2>2. seen = Append(broker.seen, m)
    BY <1>1, <2>1, SeqNothing, SeqAppended
  <2>3. Append(told, last) = told \o <<last>> /\ Append(told, last) \o <<>> = Append(told, last)
    BY <1>11, SeqAppended, SeqAppend, SeqNothing
  <2>4. (seen \o ticket) \o <<last>> = seen \o (ticket \o <<last>>)
    <3>1. IsSeq(seen) /\ IsSeq(ticket) /\ IsSeq(<<last>>)
      BY <1>1, <1>8, SeqOne
    <3>2. Join(Join(seen, ticket), <<last>>) = Join(seen, Join(ticket, <<last>>))
      BY <3>1, JoinAssociative
    <3> QED
      BY <3>2, Zenon DEF Join
  <2> QED
    BY <1>7, <2>2, <2>3, <2>4, Zenon DEF told, hashed
<1>15. HashesInv'
  <2>1. PICK v : v = hashed
    OBVIOUS
  <2>2. kept = <<>> \/ state = "SERVER_HELLO_DONE"
    BY DEF FInv, IInv, TypeOK
  <2>3. kept = <<>>
    BY <1>5, <2>2 DEF First
  <2>4. Carries(s2c', v) /\ seen \o v = broker'.seen \o <<>> /\ IsSeq(v)
    BY <1>12, <1>13, <1>14, <2>1
  <2>5. \A k \in 1..Len(v) : v[k].type /= "ServerHelloDone"
    BY <1>12, <2>1, HeldByIndex DEF IsSeq
  <2>6. Hashes(v, <<>>)'
    BY <1>6, <1>7, <2>3, <2>4, <2>5, CarriesNothing DEF Hashes
  <2> QED
    BY <2>4, <2>6, SeqEmpty DEF HashesInv
<1>16. HelloInv' /\ ProofInv' /\ PendingInv'
  <2>1. <<>> /= <<"ClientHello">>
    OBVIOUS
  <2>2. HelloInv' /\ ~AtHello'
    BY <1>7, <2>1 DEF AtHello, HelloInv
  <2>3. ProofInv'
    BY <1>7 DEF ProofInv, FInv, ExpectedInv
  <2>4. Written' = Whole' /\ Read' = Whole' /\ Whole' \in Nat
    BY <1>5, <1>7, Counts DEF Written, Read, Whole, Asking, Proving
  <2>5. state /= "CLIENT_HELLO"
    BY DEF FInv, ExpectedInv, PendingInv
  <2>6. Len(Pending') = 0 /\ 1..Len(Pending') = {} /\ Written' - Read' = 0
    <3>1. Len(<<>>) = 0 /\ 1..0 = {}
      OBVIOUS
    <3>2. Len(Pending') = 0 /\ 1..Len(Pending') = {}
      BY <1>6, <3>1
    <3>3. Written' - Read' = 0
      <4>1. \A n \in Nat : n - n = 0
        OBVIOUS
      <4> QED
        BY <2>4, <4>1, Zenon
    <3> QED
      BY <3>2, <3>3
  <2>7. PendingInv'
    BY <2>5, <2>6 DEF PendingInv
  <2> QED
    BY <2>2, <2>3, <2>7
<1> QED
  BY <1>15, <1>16 DEF ExpectedInv

\* The broker's first flight: all of it is hashed, and ServerHelloDone ends it.
LEMMA FlightEnds ==
    ASSUME QueuesInv
    PROVE  /\ IsSeq(Flight) /\ \A m \in ToSet(Flight) : Hashed(m)
           /\ \A k \in 1..Len(Flight) : Flight[k].type = "ServerHelloDone" => k = Len(Flight)
<1> DEFINE first == <<Message("ServerHello", [kx |-> broker.kx, ticket |-> broker.ticket]),
                      Message("Certificate", broker.cert)>>
           exchange == IF broker.kx = "RSA" THEN <<>> ELSE <<Message("ServerKeyExchange", 0)>>
           request == IF broker.asks THEN <<Message("CertificateRequest", 0)>> ELSE <<>>
           start == first \o exchange \o request
           done == Message("ServerHelloDone", 0)
           Before(m) == Hashed(m) /\ m.type /= "ServerHelloDone"
<1>1. IsSeq(exchange) /\ ToSet(exchange) \subseteq {Message("ServerKeyExchange", 0)}
  BY SeqOne, SeqEmpty
<1>2. IsSeq(request) /\ ToSet(request) \subseteq {Message("CertificateRequest", 0)}
  BY SeqOne, SeqEmpty
<1>3. /\ IsSeq(first)
      /\ ToSet(first) = {Message("ServerHello", [kx |-> broker.kx, ticket |-> broker.ticket]),
                         Message("Certificate", broker.cert)}
  BY SeqTwo
<1>4. Flight = start \o <<done>>
  BY DEF Flight
<1>5. Hashed(done)
  BY DEF Hashed, Message
<1> HIDE DEF first, exchange, request, done
<1>6. IsSeq(first \o exchange) /\ ToSet(first \o exchange) = ToSet(first) \union ToSet(exchange)
  BY <1>1, <1>3, SeqConcat
<1>7. IsSeq(start) /\ ToSet(start) = ToSet(first) \union ToSet(exchange) \union ToSet(request)
  BY <1>2, <1>6, SeqConcat
<1> HIDE DEF start
<1>8. \A m \in ToSet(start) : Before(m)
  BY <1>1, <1>2, <1>3, <1>7 DEF Message, Hashed
<1>9. Flight = Append(start, done) /\ IsSeq(Flight) /\ ToSet(Flight) = ToSet(start) \union {done}
  <2>1. Append(start, done) = start \o <<done>>
    BY <1>7, SeqAppended
  <2>2. IsSeq(Append(start, done)) /\ ToSet(Append(start, done)) = ToSet(start) \union {done}
    BY <1>7, SeqAppend
  <2> QED
    BY <1>4, <2>1, <2>2
<1>10. /\ Len(Flight) = Len(start) + 1 /\ Len(start) \in Nat
       /\ \A k \in 1..Len(start) : Flight[k] = start[k] /\ start[k] \in ToSet(start)
  BY <1>7, <1>9, SeqAppended, SeqLength, HeldByIndex DEF IsSeq
<1>11. ASSUME NEW k \in 1..Len(Flight), Flight[k].type = "ServerHelloDone" PROVE k = Len(Flight)
  <2>1. k \notin 1..Len(start)
    BY <1>8, <1>10, <1>11
  <2> QED
    BY <1>10, <2>1
<1> QED
  BY <1>5, <1>8, <1>9, <1>11

LEMMA HelloKeeps ==
    ASSUME FInv, tcp = "up", AtHello, c2s /= <<>>, c2s' = Tail(c2s), AnswersHello(Head(c2s)),
           UNCHANGED <<state, client_auth, kept, seen, out, tcp, client>>
    PROVE  ExpectedInv'
<1> DEFINE m == Head(c2s)
<1>1. QueuesInv /\ IsSeq(broker.seen) /\ IsSeq(s2c) /\ IsSeq(seen) /\ HelloInv
  BY DEF FInv, IInv, QueuesInv, ExpectedInv
<1>2. Pending' = Tail(Pending) /\ m = Pending[1] /\ Pending /= <<>>
  BY <1>1, PendingTail
<1>3. broker.seen = <<>> /\ state = "SERVER_HELLO" /\ seen = Pending /\ Pending = <<Message("ClientHello", 0)>>
  BY <1>1, <1>2 DEF HelloInv
<1>4. Pending = <<m>> /\ seen = <<m>> /\ Pending' = <<>>
  BY <1>2, <1>3
<1> DEFINE due == (IF broker.asks THEN <<"Certificate">> ELSE <<>>)
                  \o <<"ClientKeyExchange", "ChangeCipherSpec", "Finished">>
           told == broker.seen \o <<m>> \o Flight
<1>5. s2c' = s2c \o Flight /\ broker' = [broker EXCEPT !.seen = told, !.due = due]
  BY DEF AnswersHello, Sends
<1>6. due = IF broker.asks
            THEN <<"Certificate", "ClientKeyExchange", "ChangeCipherSpec", "Finished">>
            ELSE <<"ClientKeyExchange", "ChangeCipherSpec", "Finished">>
  BY OneAndThree, EmptyAndThree, Zenon
<1> HIDE DEF m, due, told
<1>7. broker'.asks = broker.asks /\ broker'.due = due /\ broker'.seen = told
  BY <1>1, <1>5 DEF QueuesInv
<1>8. PICK f : f = Flight
  OBVIOUS
<1>9. /\ IsSeq(f) /\ \A x \in ToSet(f) : Hashed(x)
      /\ \A k \in 1..Len(f) : f[k].type = "ServerHelloDone" => k = Len(f)
  BY <1>1, <1>8, FlightEnds
<1>10. Read' = 0 /\ Proving' = Proving /\ Asking' = Asking /\ ~AtHello' /\ ProofInv' /\ broker'.due /= <<>>
  <2>1. Proving' = Proving /\ Asking' = Asking /\ state' \notin Second
    BY <1>3, <1>7 DEF Proving, Asking, Second
  <2>2. CASE broker.asks
    <3>1. broker'.due = <<"Certificate", "ClientKeyExchange", "ChangeCipherSpec", "Finished">>
      BY <1>6, <1>7, <2>2
    <3>2. Read' = 0
      BY <3>1 DEF Read
    <3>3. ProofInv'
      <4>1. broker'.due[1] = "Certificate"
        BY <3>1
      <4>2. /\ broker'.due /= <<"ClientKeyExchange", "CertificateVerify", "ChangeCipherSpec", "Finished">>
            /\ broker'.due /= <<"ClientKeyExchange", "ChangeCipherSpec", "Finished">>
            /\ broker'.due /= <<"CertificateVerify", "ChangeCipherSpec", "Finished">>
        BY <4>1
      <4> QED
        BY <1>7, <2>1, <2>2, <4>2 DEF ProofInv
    <3>4. ~AtHello' /\ broker'.due /= <<>>
      BY <3>1 DEF AtHello
    <3> QED
      BY <2>1, <3>2, <3>3, <3>4
  <2>3. CASE ~broker.asks
    <3>1. broker'.due = <<"ClientKeyExchange", "ChangeCipherSpec", "Finished">>
      BY <1>6, <1>7, <2>3
    <3>2. Asking' = 0 /\ Proving' = 0
      BY <1>7, <2>3 DEF Asking, Proving
    <3>3. Read' = Asking'
      BY <3>1 DEF Read
    <3>4. ProofInv'
      BY <2>1, <3>1, <3>2 DEF ProofInv
    <3>5. ~AtHello' /\ broker'.due /= <<>>
      BY <3>1 DEF AtHello
    <3> QED
      BY <2>1, <3>2, <3>3, <3>4, <3>5
  <2> QED
    BY <2>2, <2>3
<1>11. PendingInv' /\ HelloInv'
  <2>1. Len(<<>>) = 0 /\ 1..0 = {} /\ 0 - 0 = 0
    OBVIOUS
  <2>2. Written' = 0 /\ state' /= "CLIENT_HELLO"
    BY <1>3 DEF Written, First
  <2>3. Len(Pending') = 0 /\ 1..Len(Pending') = {} /\ Written' - Read' = 0
    BY <1>4, <1>10, <2>1, <2>2, Zenon
  <2> QED
    BY <1>10, <2>2, <2>3 DEF PendingInv, HelloInv
<1>12. HashesInv'
  <2>1. PICK t, u : IsSeq(t) /\ IsSeq(u) /\ Hashes(t, u)
    BY DEF FInv, ExpectedInv, HashesInv
  <2>2. t = <<>>
    <3>1. <<"ClientHello">> /= <<>>
      OBVIOUS
    <3> QED
      BY <2>1, <3>1 DEF Hashes, AtHello
  <2>3. Carries(s2c', f)
    <3>1. Carries(s2c, <<>>) /\ Carries(f, f) /\ IsSeq(<<>>)
      BY <1>9, <2>1, <2>2, CarriesAll, SeqEmpty DEF Hashes
    <3>2. Carries(s2c \o f, <<>> \o f)
      BY <1>1, <1>9, <3>1, CarriesConcat
    <3>3. <<>> \o f = f
      BY <1>9, SeqNothing
    <3> QED
      BY <1>5, <1>8, <3>2, <3>3
  <2>4. seen \o f = broker'.seen \o <<>>
    <3>1. <<>> \o <<m>> = <<m>> /\ IsSeq(<<m>>)
      BY SeqOne, SeqNothing
    <3>2. told = <<m>> \o f
      BY <1>3, <1>8, <3>1, Zenon DEF told
    <3>3. IsSeq(<<m>> \o f)
      BY <1>9, <3>1, SeqConcat
    <3>4. (<<m>> \o f) \o <<>> = <<m>> \o f
      BY <3>3, SeqNothing
    <3> QED
      BY <1>4, <1>7, <3>2, <3>4, Zenon
  <2>5. kept = <<>>
    BY <1>3 DEF FInv, IInv, TypeOK
  <2>6. Hashes(f, <<>>)'
    BY <1>3, <1>4, <1>9, <1>10, <2>3, <2>4, <2>5, CarriesNothing DEF Hashes, First
  <2> QED
    BY <1>9, <2>6, SeqEmpty DEF HashesInv
<1> QED
  BY <1>10, <1>11, <1>12 DEF ExpectedInv

\* The broker finds no cause to be surprised.
LEMMA BrokerKeeps ==
    ASSUME FInv, BrokerReads
    PROVE  ExpectedInv' /\ broker'.due /= <<"Surprised">>
<1> DEFINE m == Head(c2s)
<1>1. /\ tcp = "up" /\ c2s /= <<>> /\ c2s' = Tail(c2s) /\ broker.due /= <<>>
      /\ UNCHANGED <<state, client_auth, kept, seen, out, tcp, client>>
      /\ \/ m.type = Head(broker.due) /\ AnswersHello(m)
         \/ m.type = Head(broker.due) /\ Accepts(m)
         \/ m.type = Head(broker.due) /\ AnswersFinished(m)
         \/ m.type /= Head(broker.due) \/ (m.type = "Finished" /\ m.data /= broker.seen)
  BY DEF BrokerReads, session
<1>2. QueuesInv /\ broker.due /= <<"Surprised">> /\ m = Pending[1] /\ Pending /= <<>>
  BY <1>1, PendingTail DEF FInv, IInv
<1>3. PICK t, u : IsSeq(t) /\ IsSeq(u) /\ Hashes(t, u)
  BY <1>1 DEF FInv, ExpectedInv, HashesInv
<1>4. CASE AtHello
  <2>1. m = Message("ClientHello", 0)
    BY <1>1, <1>2, <1>4 DEF FInv, ExpectedInv, HelloInv
  <2>2. m.type = "ClientHello" /\ Head(broker.due) = "ClientHello"
    BY <1>4, <2>1 DEF Message, AtHello
  <2>3. AnswersHello(m)
    BY <1>1, <2>2 DEF Accepts, AnswersFinished
  <2>4. ExpectedInv'
    BY <1>1, <1>4, <2>3, HelloKeeps
  <2>5. broker'.due = (IF broker.asks THEN <<"Certificate">> ELSE <<>>)
                      \o <<"ClientKeyExchange", "ChangeCipherSpec", "Finished">>
    BY <1>2, <2>3 DEF AnswersHello, QueuesInv
  <2>6. broker'.due = IF broker.asks
                      THEN <<"Certificate", "ClientKeyExchange", "ChangeCipherSpec", "Finished">>
                      ELSE <<"ClientKeyExchange", "ChangeCipherSpec", "Finished">>
    BY <2>5, OneAndThree, EmptyAndThree, Zenon
  <2> QED
    BY <2>4, <2>6
<1>5. CASE ~AtHello
  <2>1. /\ m.type = Head(broker.due)
        /\ m.type = "Finished" => m.data = broker.seen
    BY <1>1, <1>2, <1>3, <1>5, IsAwaited
  <2>2. m.type /= "ClientHello"
    BY <1>2, <1>1, <1>5, <2>1, Awaits
  <2>3. CASE Accepts(m)
    BY <1>1, <1>5, <2>1, <2>3, AcceptsKeeps, AcceptsNext
  <2>4. CASE AnswersFinished(m)
    <3>1. ExpectedInv'
      BY <1>1, <1>5, <2>4, LastKeeps
    <3>2. broker'.due = <<>>
      BY <1>2, <2>4 DEF AnswersFinished, QueuesInv
    <3> QED
      BY <3>1, <3>2
  <2> QED
    BY <1>1, <2>1, <2>2, <2>3, <2>4 DEF AnswersHello
<1> QED
  BY <1>4, <1>5

------------------------------------------------------------------------------
LEMMA InitFInv == ASSUME Init PROVE FInv
<1>1. IInv
  BY InitIInv
<1>2. /\ state = "CLIENT_HELLO" /\ kept = <<>> /\ seen = <<>> /\ out = <<>> /\ c2s = <<>> /\ s2c = <<>>
      /\ broker.seen = <<>> /\ AtHello /\ client \in [cert : BOOLEAN, verify : BOOLEAN]
  BY DEF Init, AtHello
<1>3. Pending = <<>> /\ broker.due /= <<"Surprised">>
  BY <1>2, SeqEmpty, SeqNothing DEF Pending, AtHello
<1>4. HelloInv /\ PendingInv /\ ProofInv
  BY <1>2, <1>3 DEF HelloInv, PendingInv, ProofInv, AtHello, Second
<1>5. Hashes(<<>>, <<>>)
  BY <1>2, <1>3, CarriesNothing DEF Hashes
<1> QED
  BY <1>1, <1>2, <1>3, <1>4, <1>5, SeqEmpty DEF FInv, ExpectedInv, HashesInv

\* The client stays what it is, and a connection that is gone stays gone.
LEMMA Lasting == ASSUME [Next]_vars PROVE client' = client /\ (tcp' = "up" => tcp = "up")
<1>1. CASE BrokerReads \/ BrokerWarns \/ GivesUp \/ UNCHANGED vars
  BY <1>1 DEF BrokerReads, BrokerWarns, GivesUp, vars, channel
<1>2. CASE \/ ParseServerHello \/ ParseCertificate \/ ParseServerKeyExchange
           \/ ParseCertificateRequest \/ ParseServerHelloDone \/ ParseNewSessionTicket
           \/ ParseChangeCipherSpec \/ ParseFinished \/ Wrapup \/ SkipWarning
  BY <1>2 DEF ParseServerHello, ParseCertificate, ParseServerKeyExchange, ParseCertificateRequest,
              ParseServerHelloDone, ParseNewSessionTicket, ParseChangeCipherSpec, ParseFinished,
              Wrapup, SkipWarning, Steps, Reads, Take, channel
<1>3. CASE \/ WriteClientHello \/ WriteCertificate \/ WriteClientKeyExchange
           \/ WriteCertificateVerify \/ WriteChangeCipherSpec \/ WriteFinished
  BY <1>3 DEF WriteClientHello, WriteCertificate, WriteClientKeyExchange, WriteCertificateVerify,
              WriteChangeCipherSpec, WriteFinished, Steps, Write, channel
<1>4. CASE Fail \/ Finish
  BY <1>4 DEF Fail, Finish, Abandon, channel
<1> QED
  BY <1>1, <1>2, <1>3, <1>4 DEF Next, ClientStep

LEMMA StutterKeeps == ASSUME ExpectedInv, UNCHANGED vars PROVE ExpectedInv'
<1>1. UNCHANGED <<state, client_auth, kept, seen, out, tcp, c2s, s2c, client, broker>>
  BY DEF vars, session, channel
<1>2. UNCHANGED <<Pending, Asking, Proving, Read, Written>> /\ (AtHello' <=> AtHello)
  BY <1>1 DEF Pending, Asking, Proving, Read, Written, Whole, AtHello
<1>3. \A k : Kind(k)' = Kind(k)
  BY <1>2 DEF Kind
<1>4. tcp = "up" => HelloInv' /\ PendingInv' /\ ProofInv'
  BY <1>1, <1>2, <1>3 DEF ExpectedInv, HelloInv, PendingInv, ProofInv
<1>5. tcp = "up" => HashesInv'
  BY <1>1, <1>2 DEF ExpectedInv, HashesInv, Hashes
<1> QED
  BY <1>1, <1>4, <1>5 DEF ExpectedInv

LEMMA StepFInv == ASSUME FInv, [Next]_vars PROVE FInv'
<1>1. IInv'
  BY ClientSteps, BrokerReadsStep, NetworkStep, StutterIInv DEF FInv, Next
<1>2. client' = client /\ (tcp' = "up" => tcp = "up")
  BY Lasting
<1>3. ~BrokerReads => broker' = broker
  <2>1. ClientStep => broker' = broker
    BY DEF ClientStep, ParseServerHello, ParseCertificate, ParseServerKeyExchange, ParseCertificateRequest,
              ParseServerHelloDone, ParseNewSessionTicket, ParseChangeCipherSpec, ParseFinished,
              Wrapup, SkipWarning, Steps, WriteClientHello, WriteCertificate, WriteClientKeyExchange,
              WriteCertificateVerify, WriteChangeCipherSpec, WriteFinished, Fail, Finish, Abandon
  <2> QED
    BY <2>1 DEF Next, BrokerWarns, GivesUp, vars
<1>4. broker'.due /= <<"Surprised">>
  BY <1>3, BrokerKeeps DEF FInv
<1>5. CASE tcp = "up"
  <2>1. ExpectedInv'
    BY <1>1, <1>5, ClientKeeps, BrokerKeeps, NetworkKeeps, StutterKeeps DEF FInv, Next
  <2> QED
    BY <1>1, <1>2, <1>4, <2>1 DEF FInv
<1>6. CASE tcp /= "up"
  BY <1>1, <1>2, <1>4, <1>6 DEF FInv, ExpectedInv
<1> QED
  BY <1>5, <1>6

\* FlightsAreExpected: the broker is never sent a message it does not wait for,
\* nor a Finished that does not match: Certificate and CertificateVerify come
\* exactly when it asked and enableTls() was given a certificate, whatever the
\* socket puts off.
THEOREM FlightsAreAwaited == Spec => []FlightsAreExpected
<1>1. Init => FInv
  BY InitFInv
<1>2. FInv /\ [Next]_vars => FInv'
  BY StepFInv
<1>3. FInv => FlightsAreExpected
  BY DEF FInv, FlightsAreExpected
<1> QED
  BY <1>1, <1>2, <1>3, PTL DEF Spec
==============================================================================
