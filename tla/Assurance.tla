------------------------------ MODULE Assurance ------------------------------
(***************************************************************************)
(* What the MQTT client promises its application, without packets, ids or  *)
(* connections.                                                            *)
(*                                                                         *)
(* Outwards: a publish() is handed to the library once, the broker stores  *)
(* it at most once, and only a stored publish is ever reported complete    *)
(* through the callback installed by addQosCallback().                     *)
(*                                                                         *)
(* Inwards: the message callback runs for a message the broker offered,    *)
(* at most once when the message has QoS 2, and the broker is let go of a  *)
(* message only after the callback ran for it.                             *)
(***************************************************************************)
EXTENDS Naturals

CONSTANTS
    Calls,      \* the publish() calls an application can make
    InMsgs,     \* the messages other clients send to this one
    InQos       \* the quality of service of each of them

VARIABLES
    submitted,  \* publish calls whose packet was handed to the library
    stored,     \* publish calls the broker has stored
    confirmed,  \* publish calls reported complete to the application
    offered,    \* messages the broker has taken over for this client
    delivered,  \* how often the message callback was run for each message
    settled     \* messages whose delivery this client has acknowledged

promise == <<submitted, stored, confirmed, offered, delivered, settled>>

Init ==
    /\ submitted = {}
    /\ stored = {}
    /\ confirmed = {}
    /\ offered = {}
    /\ delivered = [m \in InMsgs |-> 0]
    /\ settled = {}

\* publish() accepts a call.
Submit(n) ==
    /\ n \notin submitted
    /\ submitted' = submitted \union {n}
    /\ UNCHANGED <<stored, confirmed, offered, delivered, settled>>

\* The broker stores it, at most once.
Store(n) ==
    /\ n \in submitted \ stored
    /\ stored' = stored \union {n}
    /\ UNCHANGED <<submitted, confirmed, offered, delivered, settled>>

\* qoscallback reports it.
Confirm(n) ==
    /\ n \in stored \ confirmed
    /\ confirmed' = confirmed \union {n}
    /\ UNCHANGED <<submitted, stored, offered, delivered, settled>>

\* The broker takes a message over for this client.
Offer(m) ==
    /\ m \notin offered
    /\ offered' = offered \union {m}
    /\ UNCHANGED <<submitted, stored, confirmed, delivered, settled>>

\* The message callback runs.
Deliver(m) ==
    /\ m \in offered
    /\ InQos[m] = 2 => delivered[m] = 0
    /\ delivered' = [delivered EXCEPT ![m] = @ + 1]
    /\ UNCHANGED <<submitted, stored, confirmed, offered, settled>>

\* The handshake of a message ends.
Settle(m) ==
    /\ delivered[m] > 0
    /\ m \notin settled
    /\ settled' = settled \union {m}
    /\ UNCHANGED <<submitted, stored, confirmed, offered, delivered>>

Next ==
    \/ \E n \in Calls : Submit(n) \/ Store(n) \/ Confirm(n)
    \/ \E m \in InMsgs : Offer(m) \/ Deliver(m) \/ Settle(m)

Spec == Init /\ [][Next]_promise
==============================================================================
