----------------------------- MODULE TlsLinkProofs -----------------------------
(***************************************************************************)
(* Proofs about TlsLink, for any number of connections: an application     *)
(* that keeps to the order enableTls(), connect(), disconnect() is safe.   *)
(***************************************************************************)
EXTENDS TlsLink, TLAPS

\* The application keeps to the whole of the order.
Careful == Reenables /\ ChecksResult /\ Disconnects

\* An enableTls() that no connect() has followed yet.
Prepared ==
    /\ prepared /= "no" => pc = "app" /\ conn = 0 /\ tls
    /\ prepared = "ok" => ssl = "ready"

\* Contexts are held between enableTls() and the next disconnect().
Holding ==
    /\ ssl \in Held => tls
    /\ tls => asked
    /\ pc = "app" /\ conn = 0 /\ prepared /= "ok" => ssl \notin Held

\* A connection opened after enableTls() is a TLS connection, and the session
\* in the contexts is its own.
Bound ==
    /\ asked /\ conn /= 0 => tls
    /\ pc = "connack" => conn /= 0
    /\ pc = "handshake" => tls /\ conn /= 0 /\ bound = conn /\ ssl \in {"begun", "over"}
    /\ tls /\ conn /= 0 /\ pc /= "handshake" => ssl = "over" /\ bound = conn /\ Verified

IInv ==
    /\ TypeOK
    /\ NeverInTheClear
    /\ HandshakeHasContext
    /\ ContextsAreFreed
    /\ Prepared
    /\ Holding
    /\ Bound

------------------------------------------------------------------------------
(* Type correctness needs no care of the application. *)

LEMMA LinkInitType == Init => TypeOK
  <1> SUFFICES ASSUME Init PROVE TypeOK
    OBVIOUS
  <1>1. tls \in BOOLEAN /\ tlsConnected \in BOOLEAN
    BY DEF Init
  <1>2. verified \in BOOLEAN /\ alive \in BOOLEAN
    BY DEF Init
  <1>3. asked \in BOOLEAN /\ exposed \in BOOLEAN /\ leaked \in BOOLEAN
    BY DEF Init
  <1>4. ssl \in {"raw", "empty"} \union Held
    BY DEF Init
  <1>5. opened \in 0..MaxConn /\ conn \in 0..opened /\ bound \in 0..opened
    BY LinkAssumption DEF Init
  <1>6. prepared \in {"no", "ok", "error"}
    BY DEF Init
  <1>7. (conn = 0 => ~alive) /\ (tls => ssl /= "raw")
    BY DEF Init
  <1> QED
    BY <1>1, <1>2, <1>3, <1>4, <1>5, <1>6, <1>7 DEF TypeOK, Init

LEMMA CloseType ==
    ASSUME TypeOK, Close, pc' \in {"app", "handshake", "connack", "crashed"},
           prepared' \in {"no", "ok", "error"}
    PROVE  TypeOK'
  <1>1. tls' = FALSE /\ tlsConnected' \in BOOLEAN
    BY DEF TypeOK, Close
  <1>2. verified' \in BOOLEAN /\ alive' = FALSE
    BY DEF TypeOK, Close, context
  <1>3. exposed' \in BOOLEAN
    BY DEF Close, Exposes
  <1>4. asked' \in BOOLEAN /\ leaked' \in BOOLEAN
    BY DEF TypeOK, Close
  <1>5. ssl' \in {"raw", "empty"} \union Held
    BY DEF TypeOK, Close, context
  <1>6. opened' = opened /\ conn' = 0
    BY DEF Close
  <1>7. bound' \in 0..opened
    BY LinkAssumption DEF TypeOK, Close, context
  <1>8. opened' \in 0..MaxConn /\ conn' \in 0..opened' /\ bound' \in 0..opened'
    BY <1>6, <1>7, LinkAssumption DEF TypeOK
  <1> QED
    BY <1>1, <1>2, <1>3, <1>4, <1>5, <1>6, <1>8 DEF TypeOK

LEMMA LinkStepType == TypeOK /\ [Next]_vars => TypeOK'
  <1> SUFFICES ASSUME TypeOK, [Next]_vars
               PROVE  TypeOK'
    OBVIOUS
  <1> USE LinkAssumption
  <1>1. ASSUME NEW ok \in BOOLEAN, EnableTls(ok) PROVE TypeOK'
    <2>1. tls' \in BOOLEAN /\ tlsConnected' \in BOOLEAN /\ exposed' \in BOOLEAN
      BY <1>1 DEF TypeOK, EnableTls
    <2>2. verified' \in BOOLEAN /\ alive' \in BOOLEAN /\ asked' \in BOOLEAN
      BY <1>1 DEF TypeOK, EnableTls, tcp
    <2>3. leaked' \in BOOLEAN
      BY <1>1 DEF EnableTls
    <2>4. /\ ssl' \in {"ready", "empty"}
          /\ pc' \in {"app", "handshake", "connack", "crashed"}
          /\ prepared' \in {"no", "ok", "error"}
      BY <1>1 DEF TypeOK, EnableTls
    <2>5. opened' \in 0..MaxConn /\ conn' \in 0..opened' /\ bound' \in 0..opened'
      BY <1>1 DEF TypeOK, EnableTls, tcp
    <2>6. conn' = 0 => ~alive'
      BY <1>1 DEF TypeOK, EnableTls, tcp
    <2> QED
      BY <2>1, <2>2, <2>3, <2>4, <2>5, <2>6 DEF TypeOK, Held
  <1>2. ASSUME NEW up \in BOOLEAN, ConnectTls(up) PROVE TypeOK'
    BY <1>2 DEF TypeOK, ConnectTls, Held, flags
  <1>3. CASE ConnectPlain
    BY <1>3 DEF TypeOK, ConnectPlain, Held, flags, context, Exposes
  <1>4. CASE ConnectRefused
    BY <1>4, CloseType DEF TypeOK, ConnectRefused
  <1>5. ASSUME NEW good \in BOOLEAN, HandshakeOver(good) PROVE TypeOK'
    BY <1>5 DEF TypeOK, HandshakeOver, Held, flags, tcp, history
  <1>6. CASE HandshakeSucceeds
    BY <1>6 DEF TypeOK, HandshakeSucceeds, Held, context, tcp, history
  <1>7. CASE HandshakeFails
    BY <1>7, CloseType DEF TypeOK, HandshakeFails
  <1>8. CASE Accepted
    BY <1>8 DEF TypeOK, Accepted, flags, context, tcp, history
  <1>9. CASE NotAccepted
    BY <1>9, CloseType DEF TypeOK, NotAccepted
  <1>10. CASE Write
    BY <1>10 DEF TypeOK, Write, flags, context, tcp, Exposes
  <1>11. CASE Disconnect
    BY <1>11, CloseType DEF TypeOK, Disconnect
  <1>12. CASE LoopDisconnects
    BY <1>12, CloseType DEF TypeOK, LoopDisconnects
  <1>13. CASE Lose
    BY <1>13 DEF TypeOK, Lose, flags, context, history
  <1>14. CASE UNCHANGED vars
    BY <1>14 DEF TypeOK, vars, flags, context, tcp, history
  <1> QED
    BY <1>1, <1>2, <1>3, <1>4, <1>5, <1>6, <1>7, <1>8, <1>9, <1>10, <1>11, <1>12,
       <1>13, <1>14 DEF Next

\* Every variable of TlsLink keeps its type, whatever the application does: in
\* particular tls never stands with contexts that were not even initialised.
THEOREM LinkTypeOK == Spec => []TypeOK
  <1>1. Init => TypeOK
    BY LinkInitType
  <1>2. TypeOK /\ [Next]_vars => TypeOK'
    BY LinkStepType
  <1> QED
    BY <1>1, <1>2, PTL DEF Spec

------------------------------------------------------------------------------
(* The order the application keeps *)

LEMMA InitIInv == Init => IInv
  <1> SUFFICES ASSUME Init PROVE IInv
    OBVIOUS
  <1>1. TypeOK
    BY LinkInitType
  <1> QED
    BY <1>1 DEF Init, IInv, NeverInTheClear, HandshakeHasContext, ContextsAreFreed,
                Prepared, Holding, Bound, Held

\* disconnect() on whatever connection there is leaves nothing behind.
LEMMA CloseKeeps ==
    ASSUME IInv, Close, pc' = "app", TypeOK',
           prepared' = "no" \/ (prepared' = prepared /\ (pc /= "app" \/ conn /= 0))
    PROVE  IInv'
  <1>1. prepared' = "no"
    BY DEF IInv, Prepared
  <1>2. ~exposed'
    BY DEF IInv, TypeOK, NeverInTheClear, Close, Exposes, Bound
  <1>3. ssl' \notin Held
    BY DEF IInv, TypeOK, Close, Holding, Held, context
  <1> QED
    BY <1>1, <1>2, <1>3 DEF IInv, Close, NeverInTheClear, HandshakeHasContext,
                            ContextsAreFreed, Prepared, Holding, Bound

LEMMA StepIInv == ASSUME Careful, IInv, [Next]_vars PROVE IInv'
  <1>1. TypeOK'
    BY LinkStepType DEF IInv
  <1>2. ASSUME NEW ok \in BOOLEAN, EnableTls(ok) PROVE IInv'
    <2>1. conn = 0 /\ prepared /= "ok" /\ pc = "app"
      BY <1>2 DEF EnableTls, Careful
    <2>2. ssl \notin Held
      BY <2>1 DEF IInv, Holding
    <2> QED
      BY <1>1, <1>2, <2>1, <2>2 DEF IInv, EnableTls, NeverInTheClear, HandshakeHasContext,
         ContextsAreFreed, Prepared, Holding, Bound, Held, tcp
  <1>3. ASSUME NEW up \in BOOLEAN, ConnectTls(up) PROVE IInv'
    <2>1. prepared = "ok" /\ ssl = "ready"
      BY <1>3 DEF ConnectTls, MayConnect, Careful, IInv, Prepared, Holding, TypeOK
    <2>2. opened' = opened + 1 /\ opened \in Nat
      BY <1>3, LinkAssumption DEF ConnectTls, IInv, TypeOK
    <2> QED
      BY <1>1, <1>3, <2>1, <2>2 DEF IInv, ConnectTls, NeverInTheClear, HandshakeHasContext,
         ContextsAreFreed, Prepared, Holding, Bound, Held, flags
  <1>4. CASE ConnectPlain
    <2>1. ~asked /\ conn = 0 /\ ~tls
      BY <1>4 DEF ConnectPlain, MayConnect, Careful, IInv, Prepared
    <2>2. ssl \notin Held
      BY <2>1 DEF IInv, Holding
    <2>3. conn' /= 0
      BY <1>4, LinkAssumption DEF ConnectPlain, IInv, TypeOK
    <2> QED
      BY <1>1, <1>4, <2>1, <2>2, <2>3 DEF IInv, ConnectPlain, NeverInTheClear, HandshakeHasContext,
         ContextsAreFreed, Prepared, Holding, Bound, Exposes, flags, context
  <1>5. CASE ConnectRefused
    BY <1>1, <1>5, CloseKeeps DEF ConnectRefused
  <1>6. ASSUME NEW good \in BOOLEAN, HandshakeOver(good) PROVE IInv'
    BY <1>1, <1>6 DEF IInv, HandshakeOver, NeverInTheClear, HandshakeHasContext,
       ContextsAreFreed, Prepared, Holding, Bound, Held, flags, tcp, history
  <1>7. CASE HandshakeSucceeds
    BY <1>1, <1>7 DEF IInv, HandshakeSucceeds, NeverInTheClear, HandshakeHasContext,
       ContextsAreFreed, Prepared, Holding, Bound, Held, Verified, context, tcp, history
  <1>8. CASE HandshakeFails
    BY <1>1, <1>8, CloseKeeps DEF HandshakeFails
  <1>9. CASE Accepted
    <2>1. conn /= 0
      BY <1>9 DEF Accepted, IsConnected, IInv, TypeOK
    <2> QED
      BY <1>1, <1>9, <2>1 DEF IInv, Accepted, NeverInTheClear, HandshakeHasContext,
         ContextsAreFreed, Prepared, Holding, Bound, Verified, flags, context, tcp, history
  <1>10. CASE NotAccepted
    BY <1>1, <1>10, CloseKeeps DEF NotAccepted
  <1>11. CASE Write
    <2>1. conn /= 0
      BY <1>11 DEF Write, IsConnected, IInv, TypeOK
    <2>2. ~exposed'
      BY <1>11, <2>1 DEF Write, Exposes, IInv, NeverInTheClear, Bound, TypeOK
    <2> QED
      BY <1>1, <1>11, <2>2 DEF IInv, Write, NeverInTheClear, HandshakeHasContext,
         ContextsAreFreed, Prepared, Holding, Bound, Verified, flags, context, tcp
  <1>12. CASE Disconnect
    BY <1>1, <1>12, CloseKeeps DEF Disconnect
  <1>13. CASE LoopDisconnects
    <2>1. conn /= 0
      BY <1>13 DEF LoopDisconnects, IsConnected, IInv, TypeOK
    <2> QED
      BY <1>1, <1>13, <2>1, CloseKeeps DEF LoopDisconnects
  <1>14. CASE Lose
    BY <1>1, <1>14 DEF IInv, Lose, NeverInTheClear, HandshakeHasContext, ContextsAreFreed,
       Prepared, Holding, Bound, Verified, flags, context, history
  <1>15. CASE UNCHANGED vars
    BY <1>1, <1>15 DEF IInv, vars, flags, context, tcp, history, NeverInTheClear,
       HandshakeHasContext, ContextsAreFreed, Prepared, Holding, Bound, Verified
  <1> QED
    BY <1>2, <1>3, <1>4, <1>5, <1>6, <1>7, <1>8, <1>9, <1>10, <1>11, <1>12, <1>13,
       <1>14, <1>15 DEF Next

LEMMA CarefulInvariant == Careful /\ Spec => []IInv
  <1> SUFFICES ASSUME Careful PROVE Spec => []IInv
    OBVIOUS
  <1>1. Init => IInv
    BY InitIInv
  <1>2. IInv /\ [Next]_vars => IInv'
    BY StepIInv
  <1> QED
    BY <1>1, <1>2, PTL DEF Spec

\* An application that keeps the order has every packet encrypted from its
\* first enableTls() on, over any number of connections (netWrite(), connect(),
\* disconnect()).
THEOREM CarefulIsNeverInTheClear == Careful /\ Spec => []NeverInTheClear
  <1>1. IInv => NeverInTheClear
    BY DEF IInv
  <1> QED
    BY <1>1, CarefulInvariant, PTL

\* Such an application speaks over TLS only in a verified session that was
\* negotiated on the connection it uses (handShakeTls(), isConnected()).
THEOREM CarefulSessionIsOfThisConnection == Careful /\ Spec => []SessionIsOfThisConnection
  <1>1. IInv => SessionIsOfThisConnection
    <2> SUFFICES ASSUME IInv, tls, pc = "connack" \/ (pc = "app" /\ IsConnected)
                 PROVE  ssl = "over" /\ bound = conn /\ (EnableVerify => verified)
      BY DEF SessionIsOfThisConnection
    <2>1. conn /= 0
      <3>1. CASE pc = "app" /\ IsConnected
        BY <3>1 DEF IInv, TypeOK, IsConnected
      <3>2. CASE pc = "connack"
        BY <3>2 DEF IInv, Bound
      <3> QED
        BY <3>1, <3>2
    <2> QED
      BY <2>1 DEF IInv, Bound, Verified
  <1> QED
    BY <1>1, CarefulInvariant, PTL

\* Such an application never starts a handshake on contexts that are not set up
\* (enableTls(), handShakeTls()).
THEOREM CarefulHandshakeHasContext == Careful /\ Spec => []HandshakeHasContext
  <1>1. IInv => HandshakeHasContext
    BY DEF IInv
  <1> QED
    BY <1>1, CarefulInvariant, PTL

\* Such an application never overwrites contexts that hold memory, over any
\* number of connections (enableTls(), disconnect()).
THEOREM CarefulContextsAreFreed == Careful /\ Spec => []ContextsAreFreed
  <1>1. IInv => ContextsAreFreed
    BY DEF IInv
  <1> QED
    BY <1>1, CarefulInvariant, PTL
==============================================================================
