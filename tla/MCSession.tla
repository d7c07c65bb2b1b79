------------------------------ MODULE MCSession ------------------------------
(***************************************************************************)
(* Values of the constants of Session for TLC.  One message of each        *)
(* quality of service, and a second one of QoS 2 (oversized in most runs), *)
(* so that messages of the same and of different exchanges follow one      *)
(* another under the same packet id.                                       *)
(***************************************************************************)
EXTENDS Session

CONSTANTS m0, m1, m2, big

AllQos == [m \in InMsgs |-> CASE m = m0 -> 0 [] m = m1 -> 1 [] m \in {m2, big} -> 2]
==============================================================================
