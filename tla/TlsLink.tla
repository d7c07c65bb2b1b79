-------------------------------- MODULE TlsLink --------------------------------
(***************************************************************************)
(* The life of the TLS link of an MQTT object (src/MQTT-TLS.cpp): the      *)
(* flags tls and tlsConnected, the mbedTLS contexts, and the TCP           *)
(* connection, over enableTls(), connect(), lost connections and           *)
(* disconnect().  The handshake itself is TlsHandshake's.                  *)
(*                                                                         *)
(* The library leaves much to the order in which the application calls it. *)
(* Three constants say which parts of that order the application keeps.    *)
(***************************************************************************)
EXTENDS Naturals

CONSTANTS
    Reenables,     \* calls enableTls() before every connect(), not once
    ChecksResult,  \* does not connect after enableTls() returned an error
    Disconnects,   \* calls disconnect() on a lost connection before anything else
    EnableVerify,  \* enableVerify
    MaxConn        \* bound: TCP connections

ASSUME LinkAssumption ==
    /\ Reenables \in BOOLEAN /\ ChecksResult \in BOOLEAN
    /\ Disconnects \in BOOLEAN /\ EnableVerify \in BOOLEAN
    /\ MaxConn \in Nat

VARIABLES
    pc,            \* "app", or in connect(): "handshake", "connack"; "crashed"
    tls, tlsConnected,
    ssl,           \* the contexts ssl and conf, see TypeOK
    verified,      \* whether the certificate of ssl's session verified
    conn,          \* tcpClient: number of its connection, 0 if stopped
    alive,         \* whether the peer is still there
    opened,        \* TCP connections so far
    bound,         \* the connection on which ssl's session was negotiated
    prepared,      \* enableTls() since the last connect(): "no", "ok", "error"
    asked,         \* the application has ever called enableTls()
    exposed,       \* a packet has gone out in the clear although it had
    leaked         \* contexts were initialised anew without having been freed

flags == <<tls, tlsConnected>>
context == <<ssl, verified, bound>>
tcp == <<conn, alive, opened>>
history == <<prepared, asked, exposed, leaked>>
vars == <<pc, flags, context, tcp, history>>

------------------------------------------------------------------------------
\* Contexts that own memory.
Held == {"ready", "begun", "over"}

TypeOK ==
    /\ pc \in {"app", "handshake", "connack", "crashed"}
    /\ tls \in BOOLEAN /\ tlsConnected \in BOOLEAN
    /\ verified \in BOOLEAN /\ alive \in BOOLEAN
    /\ asked \in BOOLEAN /\ exposed \in BOOLEAN /\ leaked \in BOOLEAN
    \* "raw" as constructed; "empty" initialised or freed; "ready" set up;
    \* "begun" the handshake is under way; "over" it is done
    /\ ssl \in {"raw", "empty"} \union Held
    /\ conn \in 0..opened
    /\ opened \in 0..MaxConn
    /\ bound \in 0..opened
    /\ prepared \in {"no", "ok", "error"}
    /\ conn = 0 => ~alive
    /\ tls => ssl /= "raw"

Init ==
    /\ pc = "app"
    /\ tls = FALSE
    /\ tlsConnected = FALSE
    /\ ssl = "raw"
    /\ verified = FALSE
    /\ conn = 0
    /\ alive = FALSE
    /\ opened = 0
    /\ bound = 0
    /\ prepared = "no"
    /\ asked = FALSE
    /\ exposed = FALSE
    /\ leaked = FALSE

------------------------------------------------------------------------------
\* isConnected(); nothing is unread on a connection that is gone.
IsConnected == alive /\ (tls => tlsConnected)

\* netWrite() on the connection c: what goes out without TLS is seen by all.
Exposes(c) == asked /\ ~tls /\ c

\* Seeded fault: disconnect() clears tls before it says good-bye.
CloseInTheClear ==
    /\ exposed' = (exposed \/ (asked /\ alive))
    /\ tls' = FALSE
    /\ tlsConnected' = FALSE
    /\ ssl' = IF tls THEN "empty" ELSE ssl
    /\ verified' = FALSE
    /\ bound' = 0
    /\ conn' = 0
    /\ alive' = FALSE
    /\ UNCHANGED <<opened, asked, leaked>>

\* Seeded fault: disconnect() leaves the contexts to the next enableTls().
CloseUnfreed ==
    /\ exposed' = (exposed \/ Exposes(alive))
    /\ tls' = FALSE
    /\ tlsConnected' = FALSE
    /\ conn' = 0
    /\ alive' = FALSE
    /\ UNCHANGED <<context, opened, asked, leaked>>

\* disconnect(): the packet, then the contexts, then the socket.
Close ==
    /\ exposed' = (exposed \/ Exposes(alive))
    /\ tls' = FALSE
    /\ IF tls
       THEN tlsConnected' = FALSE /\ ssl' = "empty" /\ verified' = FALSE /\ bound' = 0
       ELSE UNCHANGED <<tlsConnected, context>>
    /\ conn' = 0
    /\ alive' = FALSE
    /\ UNCHANGED <<opened, asked, leaked>>

------------------------------------------------------------------------------
(* The application's calls *)

\* Seeded fault: enableTls() returns 0 whatever mbedTLS says.
EnableTlsSilently(ok) ==
    /\ pc = "app"
    /\ ~IsConnected
    /\ ~asked \/ Reenables
    /\ Disconnects => conn = 0 /\ prepared /= "ok"
    /\ tls' = TRUE
    /\ ssl' = IF ok THEN "ready" ELSE "empty"
    /\ verified' = FALSE
    /\ bound' = 0
    /\ prepared' = "ok"
    /\ asked' = TRUE
    /\ leaked' = (leaked \/ ssl \in Held)
    /\ UNCHANGED <<pc, tlsConnected, tcp, exposed>>

\* Seeded fault: enableTls() reads the certificates before it initialises.
EnableTlsLate(ok) ==
    /\ pc = "app"
    /\ ~IsConnected
    /\ ~asked \/ Reenables
    /\ Disconnects => conn = 0 /\ prepared /= "ok"
    /\ tls' = TRUE
    /\ ssl' = IF ok THEN "ready" ELSE ssl
    /\ verified' = FALSE
    /\ bound' = 0
    /\ prepared' = IF ok THEN "ok" ELSE "error"
    /\ asked' = TRUE
    /\ leaked' = (leaked \/ ssl \in Held)
    /\ UNCHANGED <<pc, tlsConnected, tcp, exposed>>

\* enableTls(): tls is set first; an error leaves contexts that are no more
\* than initialised.  tlsConnected is left as it is.
EnableTls(ok) ==
    /\ pc = "app"
    /\ ~IsConnected
    /\ ~asked \/ Reenables
    /\ Disconnects => conn = 0 /\ prepared /= "ok"
    /\ tls' = TRUE
    /\ ssl' = IF ok THEN "ready" ELSE "empty"
    /\ verified' = FALSE
    /\ bound' = 0
    /\ prepared' = IF ok THEN "ok" ELSE "error"
    /\ asked' = TRUE
    /\ leaked' = (leaked \/ ssl \in Held)
    /\ UNCHANGED <<pc, tlsConnected, tcp, exposed>>

\* When the application connects.
MayConnect ==
    /\ Reenables /\ asked => prepared /= "no"
    /\ ChecksResult => prepared /= "error"
    /\ Disconnects => conn = 0

\* connect() opens the TCP connection.  With TLS it goes on to the handshake
\* whatever became of that, and on contexts that were not set up.
ConnectTls(up) ==
    /\ pc = "app"
    /\ ~IsConnected
    /\ MayConnect
    /\ opened < MaxConn
    /\ tls
    /\ opened' = opened + 1
    /\ conn' = opened + 1
    /\ alive' = up
    /\ IF ssl = "empty"
       THEN pc' = "crashed" /\ UNCHANGED <<ssl, bound>>
       ELSE /\ pc' = "handshake"
            /\ IF ssl = "ready"
               THEN ssl' = "begun" /\ bound' = opened + 1
               ELSE UNCHANGED <<ssl, bound>>
    /\ prepared' = "no"
    /\ UNCHANGED <<flags, verified, asked, exposed, leaked>>

\* Without TLS the CONNECT goes out as it is.
ConnectPlain ==
    /\ pc = "app"
    /\ ~IsConnected
    /\ MayConnect
    /\ opened < MaxConn
    /\ ~tls
    /\ opened' = opened + 1
    /\ conn' = opened + 1
    /\ alive' = TRUE
    /\ exposed' = (exposed \/ Exposes(TRUE))
    /\ prepared' = "no"
    /\ pc' = "connack"
    /\ UNCHANGED <<flags, context, asked, leaked>>

\* The TCP connection is refused.
ConnectRefused ==
    /\ pc = "app"
    /\ ~IsConnected
    /\ MayConnect
    /\ ~tls
    /\ Close
    /\ prepared' = "no"
    /\ UNCHANGED pc

\* Seeded fault: any certificate will do.
AnyVerified == TRUE

\* verify()
Verified == ~EnableVerify \/ verified

\* The handshake with the peer, which shows a certificate: good or not.
HandshakeOver(good) ==
    /\ pc = "handshake"
    /\ ssl = "begun"
    /\ alive
    /\ ssl' = "over"
    /\ verified' = good
    /\ UNCHANGED <<pc, flags, bound, tcp, history>>

\* handShakeTls() returns 0 and connect() sends its CONNECT.  It asks only for
\* ssl's state: a session that was over before is taken for this one's.
HandshakeSucceeds ==
    /\ pc = "handshake"
    /\ ssl = "over"
    /\ Verified
    /\ tlsConnected' = TRUE
    /\ pc' = "connack"
    /\ UNCHANGED <<tls, context, tcp, history>>

HandshakeFails ==
    /\ pc = "handshake"
    /\ ssl = "begun" \/ (ssl = "over" /\ ~Verified)
    /\ Close
    /\ pc' = "app"
    /\ UNCHANGED prepared

\* The CONNACK comes on a connection both ends have agreed on.
Accepted ==
    /\ pc = "connack"
    /\ IsConnected
    /\ tls => bound = conn
    /\ pc' = "app"
    /\ UNCHANGED <<flags, context, tcp, history>>

\* No CONNACK in time, or one that refuses, or nothing that can be read.
NotAccepted ==
    /\ pc = "connack"
    /\ Close
    /\ pc' = "app"
    /\ UNCHANGED prepared

\* publish(), subscribe(), unsubscribe(), and what loop() writes.
Write ==
    /\ pc = "app"
    /\ IsConnected
    /\ exposed' = (exposed \/ Exposes(alive))
    /\ UNCHANGED <<pc, flags, context, tcp, prepared, asked, leaked>>

\* disconnect() by the application.
Disconnect ==
    /\ pc = "app"
    /\ Close
    /\ prepared' = "no"
    /\ UNCHANGED pc

\* disconnect() by loop(), after a timeout or when readByte() meets an error.
LoopDisconnects ==
    /\ pc = "app"
    /\ IsConnected
    /\ Close
    /\ UNCHANGED <<pc, prepared>>

\* The connection is lost.
Lose ==
    /\ alive
    /\ alive' = FALSE
    /\ UNCHANGED <<pc, flags, context, conn, opened, history>>

Next ==
    \/ \E ok \in BOOLEAN : EnableTls(ok)
    \/ \E up \in BOOLEAN : ConnectTls(up)
    \/ ConnectPlain
    \/ ConnectRefused
    \/ \E good \in BOOLEAN : HandshakeOver(good)
    \/ HandshakeSucceeds
    \/ HandshakeFails
    \/ Accepted
    \/ NotAccepted
    \/ Write
    \/ Disconnect
    \/ LoopDisconnects
    \/ Lose

Spec == Init /\ [][Next]_vars

------------------------------------------------------------------------------
(* Properties *)

\* Once the application has asked for TLS nothing more goes out in the clear,
\* not the CONNECT of a later connection and not the DISCONNECT of this one
\* (netWrite(), disconnect()).
NeverInTheClear == ~exposed

\* MQTT packets are exchanged over TLS only in a session with a verified
\* broker, negotiated on the TCP connection that now carries it
\* (handShakeTls(), isConnected()).
SessionIsOfThisConnection ==
    tls /\ (pc = "connack" \/ (pc = "app" /\ IsConnected)) =>
        /\ ssl = "over"
        /\ bound = conn
        /\ EnableVerify => verified

\* No handshake starts on contexts that enableTls() has not set up.
HandshakeHasContext == pc /= "crashed"

\* Contexts are freed before they are initialised again (enableTls(),
\* disconnect()).
ContextsAreFreed == ~leaked
==============================================================================
