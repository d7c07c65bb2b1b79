---------------------------- MODULE MCTlsHandshake ----------------------------
(***************************************************************************)
(* Values of TlsHandshake's constants for TLC.                             *)
(***************************************************************************)
EXTENDS TlsHandshake

\* The messages behind which the client writes on.
Inner == {"Certificate", "ClientKeyExchange", "CertificateVerify", "ChangeCipherSpec"}

\* The last message of the handshake.
Last == {"Finished"}

==============================================================================
