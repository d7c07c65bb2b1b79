----------------------------- MODULE TlsHandshake -----------------------------
(***************************************************************************)
(* handShakeTls() and verify() of src/MQTT-TLS.cpp: the client's TLS 1.2   *)
(* handshake, driven by mbedtls_ssl_handshake_client_step(), against a     *)
(* broker that follows the protocol, may ask for a certificate, may issue  *)
(* a ticket, may send warnings, and may give up at any time.               *)
(*                                                                         *)
(* A message is a record of its type and of what the properties tell       *)
(* apart; the running hash of the messages is the sequence of them.  The   *)
(* client never resumes a session: it never sets one.  A read that finds   *)
(* no message changes nothing and is no step.                              *)
(***************************************************************************)
EXTENDS Naturals, Sequences

CONSTANTS
    PutOff,        \* messages at whose writing the socket may be full
    MayGiveUp,     \* whether broker and network may end the connection
    MaxWarnings    \* bound: warning alerts

ASSUME HandshakeAssumption ==
    /\ MayGiveUp \in BOOLEAN
    /\ MaxWarnings \in Nat

VARIABLES
    pc,            \* handShakeTls(): "handshake", "connected", "failed"
    state,         \* ssl->state
    key_exchange,  \* of the ciphersuite the broker chose
    client_auth, new_session_ticket,
    verify_result, \* whether the broker's certificate verified
    kept,          \* the message kept by keep_current_message, if any
    seen,          \* the handshake messages hashed so far
    out,           \* messages written and not yet taken by the socket
    tcp,           \* "up" until either side closes
    c2s, s2c,      \* messages under way
    client,        \* what the application asked for: whether it gave enableTls() a
                   \* certificate, whether it set enableVerify
    broker,        \* the broker's choices, its transcript, what it waits for
    warnings

session == <<key_exchange, client_auth, new_session_ticket, verify_result>>
channel == <<out, tcp, c2s, s2c>>
vars == <<pc, state, session, kept, seen, channel, broker, client, warnings>>

------------------------------------------------------------------------------
(* Messages and states *)

Message(type, data) == [type |-> type, data |-> data]

Hashed(m) == m.type \notin {"ChangeCipherSpec", "Warning", "Fatal"}

\* ssl->state++: the states in their order.
Order == <<"CLIENT_HELLO", "SERVER_HELLO", "SERVER_CERTIFICATE",
           "SERVER_KEY_EXCHANGE", "CERTIFICATE_REQUEST", "SERVER_HELLO_DONE",
           "CLIENT_CERTIFICATE", "CLIENT_KEY_EXCHANGE", "CERTIFICATE_VERIFY",
           "CLIENT_CHANGE_CIPHER_SPEC", "CLIENT_FINISHED",
           "SERVER_CHANGE_CIPHER_SPEC", "SERVER_FINISHED", "FLUSH_BUFFERS",
           "HANDSHAKE_OVER">>
After(s) == Order[1 + (CHOOSE i \in DOMAIN Order : Order[i] = s)]

\* TCPClient::connected(): true while bytes are unread.
Connected == tcp = "up" \/ s2c /= <<>>

\* The message mbedtls_ssl_read_record() yields, a kept one before the next.
HasMessage == kept /= <<>> \/ s2c /= <<>>
Incoming == IF kept /= <<>> THEN kept[1] ELSE s2c[1]

\* mbedtls_ssl_read_record(): the message is used up.
Take ==
    /\ IF kept /= <<>>
       THEN kept' = <<>> /\ UNCHANGED <<s2c, seen>>
       ELSE /\ s2c' = Tail(s2c)
            /\ seen' = IF Hashed(Incoming) THEN Append(seen, Incoming) ELSE seen
            /\ UNCHANGED kept
    /\ UNCHANGED <<out, tcp, c2s>>

Reads(type) == HasMessage /\ Incoming.type = type /\ Take

\* Seeded fault: what was put off is not sent along with the next record.
WriteAlone(m) ==
    /\ Connected
    /\ \/ c2s' = Append(c2s, m) /\ UNCHANGED out
       \/ m.type \in PutOff /\ out' = Append(out, m) /\ UNCHANGED c2s
    /\ seen' = IF Hashed(m) THEN Append(seen, m) ELSE seen
    /\ UNCHANGED <<tcp, s2c, kept>>

\* mbedtls_ssl_write_handshake_msg(): the record joins those that were put off,
\* and the socket takes as many as it will.  WANT_WRITE makes handShakeTls() go
\* on with the next state.
Write(m) ==
    /\ Connected
    /\ LET queue == Append(out, m)
       IN  \E taken \in 0..Len(queue) :
            /\ taken < Len(queue) => m.type \in PutOff
            /\ c2s' = IF tcp = "up" THEN c2s \o SubSeq(queue, 1, taken) ELSE c2s
            /\ out' = SubSeq(queue, taken + 1, Len(queue))
    /\ seen' = IF Hashed(m) THEN Append(seen, m) ELSE seen
    /\ UNCHANGED <<tcp, s2c, kept>>

\* Seeded fault: the client signs without a look at whether it was asked.
ProvesAlways == client.cert

\* Whether the client has a certificate to prove and was asked for one.
Proves == client_auth /\ client.cert

\* The states in which the client writes, and in which it waits for a message.
Writing ==
    \/ state \in {"CLIENT_HELLO", "CLIENT_KEY_EXCHANGE",
                  "CLIENT_CHANGE_CIPHER_SPEC", "CLIENT_FINISHED"}
    \/ state = "CLIENT_CERTIFICATE" /\ client_auth
    \/ state = "CERTIFICATE_VERIFY" /\ Proves

Waiting ==
    \/ state \in {"SERVER_HELLO", "SERVER_CERTIFICATE", "CERTIFICATE_REQUEST",
                  "SERVER_HELLO_DONE", "SERVER_CHANGE_CIPHER_SPEC", "SERVER_FINISHED"}
    \/ state = "SERVER_KEY_EXCHANGE" /\ key_exchange /= "RSA"

\* A step of the client in state s that goes on to the next state.
Steps(s) ==
    /\ pc = "handshake"
    /\ state = s
    /\ state' = After(s)
    /\ UNCHANGED <<pc, broker, client, warnings>>

------------------------------------------------------------------------------
TypeOK ==
    /\ pc \in {"handshake", "connected", "failed"}
    /\ \E i \in DOMAIN Order : state = Order[i]
    /\ key_exchange \in {"unknown", "RSA", "ECDHE"}
    /\ {client_auth, new_session_ticket} \subseteq BOOLEAN
    /\ verify_result \in {"unknown", "good", "bad"}
    /\ tcp \in {"up", "down"}
    /\ warnings \in 0..MaxWarnings
    \* a message is kept only until the next state reads it
    /\ kept /= <<>> => state = "SERVER_HELLO_DONE" /\ Len(kept) = 1 /\ ~client_auth
    \* what was put off is sent with the messages that follow
    /\ Waiting /\ out /= <<>> => PutOff \intersect {"ClientHello", "Finished"} /= {}

Init ==
    /\ pc = "handshake"
    /\ state = "CLIENT_HELLO"
    /\ key_exchange = "unknown"
    /\ client_auth = FALSE
    /\ new_session_ticket = FALSE
    /\ verify_result = "unknown"
    /\ kept = <<>>
    /\ seen = <<>>
    /\ out = <<>>
    /\ tcp = "up"
    /\ c2s = <<>>
    /\ s2c = <<>>
    /\ client \in [cert : BOOLEAN, verify : BOOLEAN]
    /\ broker \in [kx : {"RSA", "ECDHE"}, asks : BOOLEAN, ticket : BOOLEAN,
                   cert : {"good", "bad"}, seen : {<<>>}, due : {<<"ClientHello">>}]
    /\ warnings = 0

------------------------------------------------------------------------------
(* The client's states *)

WriteClientHello ==
    /\ Steps("CLIENT_HELLO")
    /\ Write(Message("ClientHello", 0))
    /\ UNCHANGED session

ParseServerHello ==
    /\ Steps("SERVER_HELLO")
    /\ Reads("ServerHello")
    /\ key_exchange' = Incoming.data.kx
    /\ new_session_ticket' = Incoming.data.ticket
    /\ UNCHANGED <<client_auth, verify_result>>

\* With MBEDTLS_SSL_VERIFY_OPTIONAL a certificate that does not verify is noted
\* and no more.
ParseCertificate ==
    /\ Steps("SERVER_CERTIFICATE")
    /\ Reads("Certificate")
    /\ verify_result' = Incoming.data
    /\ UNCHANGED <<key_exchange, client_auth, new_session_ticket>>

\* With RSA there is no such message to read.
ParseServerKeyExchange ==
    /\ Steps("SERVER_KEY_EXCHANGE")
    /\ IF key_exchange = "RSA"
       THEN UNCHANGED <<channel, kept, seen>>
       ELSE Reads("ServerKeyExchange")
    /\ UNCHANGED session

\* Whatever else comes in place of a request is kept for the next state.
ParseCertificateRequest ==
    /\ Steps("CERTIFICATE_REQUEST")
    /\ HasMessage
    /\ Hashed(Incoming)
    /\ client_auth' = (Incoming.type = "CertificateRequest")
    /\ kept' = IF client_auth' THEN <<>> ELSE <<Incoming>>
    /\ s2c' = Tail(s2c)
    /\ seen' = Append(seen, Incoming)
    /\ UNCHANGED <<out, tcp, c2s, key_exchange, new_session_ticket, verify_result>>

ParseServerHelloDone ==
    /\ Steps("SERVER_HELLO_DONE")
    /\ Reads("ServerHelloDone")
    /\ UNCHANGED session

\* Asked for a certificate it does not have the client sends an empty list.
WriteCertificate ==
    /\ Steps("CLIENT_CERTIFICATE")
    /\ IF client_auth
       THEN Write(Message("Certificate", client.cert))
       ELSE UNCHANGED <<channel, kept, seen>>
    /\ UNCHANGED session

WriteClientKeyExchange ==
    /\ Steps("CLIENT_KEY_EXCHANGE")
    /\ Write(Message("ClientKeyExchange", 0))
    /\ UNCHANGED session

WriteCertificateVerify ==
    /\ Steps("CERTIFICATE_VERIFY")
    /\ IF Proves
       THEN Write(Message("CertificateVerify", 0))
       ELSE UNCHANGED <<channel, kept, seen>>
    /\ UNCHANGED session

WriteChangeCipherSpec ==
    /\ Steps("CLIENT_CHANGE_CIPHER_SPEC")
    /\ Write(Message("ChangeCipherSpec", 0))
    /\ UNCHANGED session

\* Seeded fault: the order of a resumed session, in which the broker's Finished
\* came first.
WriteFinishedLast ==
    /\ pc = "handshake"
    /\ state = "CLIENT_FINISHED"
    /\ state' = "FLUSH_BUFFERS"
    /\ Write(Message("Finished", seen))
    /\ UNCHANGED <<pc, session, broker, client, warnings>>

WriteFinished ==
    /\ Steps("CLIENT_FINISHED")
    /\ Write(Message("Finished", seen))
    /\ UNCHANGED session

\* A ticket the ServerHello announced comes before the ChangeCipherSpec.
ParseNewSessionTicket ==
    /\ pc = "handshake"
    /\ state = "SERVER_CHANGE_CIPHER_SPEC"
    /\ new_session_ticket
    /\ Reads("NewSessionTicket")
    /\ new_session_ticket' = FALSE
    /\ UNCHANGED <<pc, state, broker, client, warnings, key_exchange, client_auth, verify_result>>

ParseChangeCipherSpec ==
    /\ ~new_session_ticket
    /\ Steps("SERVER_CHANGE_CIPHER_SPEC")
    /\ Reads("ChangeCipherSpec")
    /\ UNCHANGED session

ParseFinished ==
    /\ Steps("SERVER_FINISHED")
    /\ Reads("Finished")
    /\ Incoming.data = seen
    /\ UNCHANGED session

Wrapup ==
    /\ Steps("FLUSH_BUFFERS")
    /\ UNCHANGED <<session, kept, seen, channel>>

\* Warnings are read over wherever the client reads.
SkipWarning ==
    /\ pc = "handshake"
    /\ kept = <<>>
    /\ s2c /= <<>>
    /\ s2c[1].type = "Warning"
    /\ Waiting
    /\ s2c' = Tail(s2c)
    /\ UNCHANGED <<pc, state, session, kept, seen, out, tcp, c2s, broker, client, warnings>>

------------------------------------------------------------------------------
(* The end of handShakeTls() *)

\* disconnect() as connect() calls it when the handshake fails: its write gets
\* no further with the handshake, the contexts are freed, the socket is closed.
Abandon ==
    /\ pc' = "failed"
    /\ tcp' = "down"
    /\ c2s' = c2s
    /\ s2c' = <<>>
    /\ out' = <<>>
    /\ kept' = <<>>
    /\ UNCHANGED <<state, session, seen, broker, client, warnings>>

\* What the client may read in the state it is in.
Acceptable(m) ==
    CASE state = "SERVER_HELLO" -> m.type = "ServerHello"
      [] state = "SERVER_CERTIFICATE" -> m.type = "Certificate"
      [] state = "SERVER_KEY_EXCHANGE" -> m.type = "ServerKeyExchange"
      [] state = "CERTIFICATE_REQUEST" -> Hashed(m)
      [] state = "SERVER_HELLO_DONE" -> m.type = "ServerHelloDone"
      [] state = "SERVER_CHANGE_CIPHER_SPEC" ->
            m.type = IF new_session_ticket THEN "NewSessionTicket" ELSE "ChangeCipherSpec"
      [] state = "SERVER_FINISHED" -> m.type = "Finished" /\ m.data = seen
      [] OTHER -> FALSE

\* Seeded fault: a connection that is gone is taken for one with nothing to read.
FailOnMessage ==
    /\ pc = "handshake"
    /\ Waiting /\ HasMessage /\ Incoming.type /= "Warning" /\ ~Acceptable(Incoming)
    /\ Abandon

\* A step fails: the connection is gone, or the message is a fatal alert or not
\* the one due.
Fail ==
    /\ pc = "handshake"
    /\ \/ ~Connected /\ (Writing \/ (Waiting /\ ~HasMessage))
       \/ Waiting /\ HasMessage /\ Incoming.type /= "Warning" /\ ~Acceptable(Incoming)
    /\ Abandon

\* Seeded fault: the result of the verification is not asked for.
VerifyAny == TRUE

\* verify()
Verify == verify_result = "good"

Finish ==
    /\ pc = "handshake"
    /\ state = "HANDSHAKE_OVER"
    /\ IF client.verify /\ ~Verify
       THEN Abandon
       ELSE pc' = "connected" /\ UNCHANGED <<state, session, kept, seen, channel, broker, client, warnings>>

------------------------------------------------------------------------------
(* The broker *)

Sends(ms) == s2c' = s2c \o ms

\* What a broker sends in answer to a ClientHello, and what it then waits for.
Flight ==
    <<Message("ServerHello", [kx |-> broker.kx, ticket |-> broker.ticket]),
      Message("Certificate", broker.cert)>>
    \o (IF broker.kx = "RSA" THEN <<>> ELSE <<Message("ServerKeyExchange", 0)>>)
    \o (IF broker.asks THEN <<Message("CertificateRequest", 0)>> ELSE <<>>)
    \o <<Message("ServerHelloDone", 0)>>

AnswersHello(m) ==
    /\ m.type = "ClientHello"
    /\ Sends(Flight)
    /\ broker' = [broker EXCEPT
            !.seen = @ \o <<m>> \o Flight,
            !.due = (IF broker.asks THEN <<"Certificate">> ELSE <<>>)
                    \o <<"ClientKeyExchange", "ChangeCipherSpec", "Finished">>]

\* A certificate that is not empty is to be proved after the key exchange.
Accepts(m) ==
    /\ m.type \in {"Certificate", "ClientKeyExchange", "CertificateVerify", "ChangeCipherSpec"}
    /\ broker' = [broker EXCEPT
            !.seen = IF Hashed(m) THEN Append(@, m) ELSE @,
            !.due = IF m.type = "Certificate" /\ m.data
                    THEN <<"ClientKeyExchange", "CertificateVerify">> \o SubSeq(@, 3, Len(@))
                    ELSE Tail(@)]
    /\ UNCHANGED s2c

AnswersFinished(m) ==
    LET told == Append(broker.seen, m)
                \o (IF broker.ticket THEN <<Message("NewSessionTicket", 0)>> ELSE <<>>)
        last == Message("Finished", told)
    IN  /\ m.type = "Finished"
        /\ m.data = broker.seen
        /\ Sends(SubSeq(told, Len(broker.seen) + 2, Len(told))
                 \o <<Message("ChangeCipherSpec", 0), last>>)
        /\ broker' = [broker EXCEPT !.seen = Append(told, last), !.due = <<>>]

BrokerReads ==
    /\ tcp = "up"
    /\ c2s /= <<>>
    /\ broker.due /= <<>>
    /\ c2s' = Tail(c2s)
    /\ LET m == Head(c2s)
       IN  \/ /\ m.type = Head(broker.due)
              /\ AnswersHello(m) \/ Accepts(m) \/ AnswersFinished(m)
           \/ /\ m.type /= Head(broker.due) \/ (m.type = "Finished" /\ m.data /= broker.seen)
              /\ Sends(<<Message("Fatal", 0)>>)
              /\ broker' = [broker EXCEPT !.due = <<"Surprised">>]
    /\ UNCHANGED <<pc, state, session, kept, seen, out, tcp, client, warnings>>

BrokerWarns ==
    /\ tcp = "up"
    /\ warnings < MaxWarnings
    /\ warnings' = warnings + 1
    /\ Sends(<<Message("Warning", 0)>>)
    /\ UNCHANGED <<pc, state, session, kept, seen, out, tcp, c2s, broker, client>>

\* The broker refuses with an alert, or the connection is lost.
GivesUp ==
    /\ MayGiveUp
    /\ tcp = "up"
    /\ tcp' = "down"
    /\ \/ Sends(<<Message("Fatal", 0)>>)
       \/ UNCHANGED s2c
    /\ UNCHANGED <<pc, state, session, kept, seen, out, c2s, broker, client, warnings>>

------------------------------------------------------------------------------
ClientStep ==
    \/ WriteClientHello
    \/ ParseServerHello
    \/ ParseCertificate
    \/ ParseServerKeyExchange
    \/ ParseCertificateRequest
    \/ ParseServerHelloDone
    \/ WriteCertificate
    \/ WriteClientKeyExchange
    \/ WriteCertificateVerify
    \/ WriteChangeCipherSpec
    \/ WriteFinished
    \/ ParseNewSessionTicket
    \/ ParseChangeCipherSpec
    \/ ParseFinished
    \/ Wrapup
    \/ SkipWarning
    \/ Fail
    \/ Finish

Next == ClientStep \/ BrokerReads \/ BrokerWarns \/ GivesUp

Spec == Init /\ [][Next]_vars

\* handShakeTls() is a loop without a pause; a broker that is there answers.
FairSpec == Spec /\ WF_vars(ClientStep) /\ WF_vars(BrokerReads)

------------------------------------------------------------------------------
(* Properties *)

\* When handShakeTls() succeeds both sides have hashed the same messages, agree
\* on what they say, and neither waits for the other: nothing was lost, read
\* twice or kept back, whatever was put off, kept or skipped on the way.
HandshakeAgrees ==
    pc = "connected" =>
        /\ seen = broker.seen
        /\ broker.due = <<>>
        /\ client_auth = broker.asks
        /\ key_exchange = broker.kx
        /\ out = <<>>

\* The broker is never sent a message it does not expect: Certificate and
\* CertificateVerify come exactly when it asked and the client can.
FlightsAreExpected == broker.due /= <<"Surprised">>

\* handShakeTls() succeeds only with a broker whose certificate verified,
\* although mbedTLS is told that verification is optional.
VerifiedBroker == pc = "connected" /\ client.verify => broker.cert = "good"

\* connect() gets out of the handshake.
HandshakeEnds == <>(pc /= "handshake")
==============================================================================
