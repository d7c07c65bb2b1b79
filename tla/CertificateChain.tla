--------------------------- MODULE CertificateChain ---------------------------
(***************************************************************************)
(* Whether the broker's certificate is verified: the chain that            *)
(* mbedtls_x509_crt_verify_restartable() builds (x509_crt.c) from the      *)
(* certificates the broker shows and the root certificates that            *)
(* enableTls() was given, the issues it notes on the way, and their sum,   *)
(* which verify() of MQTT-TLS.cpp looks at.  One action is one turn of a   *)
(* loop of x509_crt_verify_chain(), or what follows it.                    *)
(*                                                                         *)
(* A certificate is a record of what the code looks at.  Signatures are    *)
(* ideal: one is good for the key it was made with.  There is no CRL       *)
(* (enableTls() gives none) and veryfyCert_Tls() changes nothing.          *)
(***************************************************************************)
EXTENDS Naturals, Sequences, FiniteSets

CONSTANTS
    Names,           \* of subjects and issuers
    Keys,
    Shown,           \* what brokers show: sequences of certificates, their own first
    Stores,          \* what enableTls() is given: sequences of certificates
    MaxIntermediate  \* MBEDTLS_X509_MAX_INTERMEDIATE_CA

Certificate ==
    [subject : Names, issuer : Names,
     key : Keys, signer : Keys,   \* its key, the key it is signed with
     ca : BOOLEAN,                \* the CA bit, and a key usage that allows signing
     v3 : BOOLEAN,                \* version 3
     pathlen : Nat,               \* max_pathlen: 0 for none, else one more than it says
     dated : BOOLEAN,             \* today is between valid_from and valid_to
     hash : BOOLEAN,              \* the profile has its signature's algorithms
     size : BOOLEAN,              \* the profile has its key
     host : BOOLEAN]              \* it is for the host name connect() set

ASSUME ChainAssumption ==
    /\ Shown \subseteq Seq(Certificate) \ {<<>>}
    /\ Stores \subseteq Seq(Certificate)
    /\ MaxIntermediate \in Nat

VARIABLES
    shown,    \* crt: the list the broker sent
    store,    \* trust_ca
    chain,    \* ver_chain: certificates, each with the issues found so far
    child,    \* the certificate the chain goes on with
    at,       \* its place in shown, 0 if it is from the store
    selfCnt,  \* self_cnt
    pc        \* "add", "parent", "merge"; "ok", "failed", "fatal"

vars == <<shown, store, chain, child, at, selfCnt, pc>>

------------------------------------------------------------------------------
(* Who can be whose parent *)

SelfIssued(c) == c.issuer = c.subject

IsParent(c, p, top) ==
    /\ c.issuer = p.subject
    /\ p.ca \/ (top /\ ~p.v3)

\* Seeded fault: a path length of 0 is no limit.
PathLenBelow(p, between) == p.pathlen > 1 => p.pathlen >= 1 + between

\* max_pathlen, with so many certificates between p and the broker's own.
PathLenAllows(p, between) == p.pathlen > 0 => p.pathlen >= 1 + between

SignedBy(c, p) == c.signer = p.key

Suitable(c, p, top, between) ==
    /\ IsParent(c, p, top)
    /\ PathLenAllows(p, between)
    /\ top => SignedBy(c, p)

First(S) == {i \in S : \A j \in S : i <= j}

Candidates(c, list, top, between) ==
    {i \in 1..Len(list) : Suitable(c, list[i], top, between)}

\* Seeded fault: the first one will do, in date or not.
FirstCandidate(c, list, top, between) == First(Candidates(c, list, top, between))

\* x509_crt_find_parent_in(): the place of the first suitable certificate that
\* is in date, or else of the first one that is suitable; {} if there is none.
FindParentIn(c, list, top, between) ==
    LET suitable == Candidates(c, list, top, between)
        inDate == {i \in suitable : list[i].dated}
    IN  First(IF inDate /= {} THEN inDate ELSE suitable)

\* path_cnt - self_cnt
Between == Len(chain) - 1 - selfCnt

RootFor == FindParentIn(child, store, TRUE, Between)
NextShown == FindParentIn(child, SubSeq(shown, at + 1, Len(shown)), FALSE, Between)

LocallyTrusted(c) ==
    SelfIssued(c) /\ \E i \in 1..Len(store) : store[i] = c

------------------------------------------------------------------------------
Item == [crt : Certificate, flags : SUBSET {"expired", "not_trusted", "bad_md", "bad_key"}]

TypeOK ==
    /\ shown \in Shown
    /\ store \in Stores
    /\ chain \in Seq(Item)
    /\ child \in Certificate
    /\ at \in 0..Len(shown)
    /\ selfCnt \in Nat
    /\ selfCnt > 0 => selfCnt < Len(chain)
    /\ pc \in {"add", "parent", "merge", "ok", "failed", "fatal"}

Init ==
    /\ shown \in Shown
    /\ store \in Stores
    /\ chain = <<>>
    /\ child = shown[1]
    /\ at = 1
    /\ selfCnt = 0
    /\ pc = "add"

Flag(condition, name) == IF condition THEN {name} ELSE {}

\* The next certificate of the chain, with what is wrong with itself.  A root
\* ends the chain, and so does a broker's own certificate in the store.
Add ==
    /\ pc = "add"
    /\ chain' = Append(chain,
           [crt |-> child,
            flags |-> Flag(~child.dated, "expired") \union Flag(at > 0 /\ ~child.hash, "bad_md")])
    /\ pc' = IF at = 0 \/ (chain = <<>> /\ LocallyTrusted(child)) THEN "merge" ELSE "parent"
    /\ UNCHANGED <<shown, store, child, at, selfCnt>>

\* The last certificate with flags added to its own.
Flagged(flags) ==
    [chain EXCEPT ![Len(chain)].flags = @ \union flags]

\* Nobody is found who could have signed it.
NoParent ==
    /\ pc = "parent"
    /\ RootFor = {} /\ NextShown = {}
    /\ chain' = Flagged({"not_trusted"})
    /\ pc' = "merge"
    /\ UNCHANGED <<shown, store, child, at, selfCnt>>

\* Seeded fault: the parent's signature is taken for granted.
GoToUnsigned(p) ==
    /\ chain' = Flagged(Flag(~p.size, "bad_key"))
    /\ child' = p
    /\ selfCnt' = IF Len(chain) /= 1 /\ SelfIssued(child) THEN selfCnt + 1 ELSE selfCnt
    /\ pc' = "add"
    /\ UNCHANGED <<shown, store>>

\* child's parent is p; self_cnt counts child only from now on.
GoTo(p) ==
    /\ chain' = Flagged(Flag(~SignedBy(child, p), "not_trusted") \union Flag(~p.size, "bad_key"))
    /\ child' = p
    /\ selfCnt' = IF Len(chain) /= 1 /\ SelfIssued(child) THEN selfCnt + 1 ELSE selfCnt
    /\ pc' = "add"
    /\ UNCHANGED <<shown, store>>

\* A root is taken as soon as there is one.
TrustedParent ==
    /\ pc = "parent"
    /\ \E i \in RootFor : GoTo(store[i])
    /\ at' = 0

\* Seeded fault: one intermediate too many.
TooLongLate == Len(chain) > MaxIntermediate + 1

TooLong == Len(chain) > MaxIntermediate

\* Otherwise one of those that follow in the broker's list.
ShownParent ==
    /\ pc = "parent"
    /\ RootFor = {}
    /\ ~TooLong
    /\ \E i \in NextShown :
        /\ at' = at + i
        /\ GoTo(shown[at + i])

\* The chain has no more room: the handshake fails.
GiveUp ==
    /\ pc = "parent"
    /\ RootFor = {} /\ NextShown /= {}
    /\ TooLong
    /\ pc' = "fatal"
    /\ UNCHANGED <<shown, store, chain, child, at, selfCnt>>

\* The issues of all certificates, with those of the broker's own name and key.
Issues ==
    (UNION {chain[i].flags : i \in 1..Len(chain)})
    \union Flag(~shown[1].host, "cn_mismatch") \union Flag(~shown[1].size, "bad_key")

Merge ==
    /\ pc = "merge"
    /\ pc' = IF Issues = {} THEN "ok" ELSE "failed"
    /\ UNCHANGED <<shown, store, chain, child, at, selfCnt>>

Next == Add \/ NoParent \/ TrustedParent \/ ShownParent \/ GiveUp \/ Merge

Spec == Init /\ [][Next]_vars

------------------------------------------------------------------------------
(* Properties *)

\* A certificate is verified only with a chain that leads from the broker's
\* own, for the right host, to one of the store: each signed by the next, which
\* may sign it, and every one of them in date and strong enough; between the
\* two ends only what the broker showed (x509_crt_verify_chain()).
VerifiedHasChain ==
    pc = "ok" =>
        /\ chain[1].crt = shown[1]
        /\ shown[1].host
        /\ \E i \in 1..Len(store) : store[i] = chain[Len(chain)].crt
        /\ \A i \in 1..Len(chain) : chain[i].crt.dated /\ chain[i].crt.size
        /\ \A i \in 1..(Len(chain) - 1) :
            LET c == chain[i].crt
                p == chain[i + 1].crt
            IN  /\ IsParent(c, p, i = Len(chain) - 1)
                /\ SignedBy(c, p)
                /\ c.hash
                /\ \E k \in 1..Len(shown) : shown[k] = c

\* No certificate of the chain has more intermediates below it than its path
\* length allows, those left out that issued themselves
\* (x509_crt_find_parent_in(), x509_crt_verify_chain()).
Intermediates(j) == {i \in 2..(j - 1) : ~SelfIssued(chain[i].crt)}
PathLengthsHold ==
    \A j \in 2..Len(chain) :
        LET p == chain[j].crt
        IN  p.pathlen > 0 => Cardinality(Intermediates(j)) <= p.pathlen - 1

\* The chain has room for every certificate put into it: the broker's own, the
\* intermediates and a root (X509_MAX_VERIFY_CHAIN_SIZE).
ChainHasRoom == Len(chain) <= MaxIntermediate + 2

\* Certificates shown at the places P, in their order, and a root: a chain with
\* room that there is nothing to be said against but dates.
Follows(P, i, j) == i < j /\ \A k \in P : k <= i \/ k >= j
Below(P, j) == {k \in P : 1 < k /\ k < j /\ ~SelfIssued(shown[k])}
Vouches(P, i, c, j, top) ==
    /\ IsParent(shown[i], c, top)
    /\ SignedBy(shown[i], c)
    /\ c.pathlen > 0 => Cardinality(Below(P, j)) <= c.pathlen - 1
Accepts(P, root) ==
    /\ 1 \in P
    /\ Cardinality(P) <= MaxIntermediate + 1
    /\ root.size /\ \A i \in P : shown[i].size /\ shown[i].hash
    /\ \A i, j \in P : Follows(P, i, j) => Vouches(P, i, shown[j], j, FALSE)
    /\ \A i \in P : (\A k \in P : k <= i) => Vouches(P, i, root, Len(shown) + 1, TRUE)

InDate(P, root) == root.dated /\ \A i \in P : shown[i].dated

\* Certificates for the same subject differ in their dates only, those of the
\* store also in their keys; one that is both shown and in the store is there in
\* the version that is shown.
SameButDates(c, d) == [c EXCEPT !.dated = d.dated] = d
Regular ==
    /\ \A i, j \in 2..Len(shown) :
        shown[i].subject = shown[j].subject => SameButDates(shown[i], shown[j])
    /\ \A i \in 2..Len(shown), j \in 1..Len(store) :
        shown[i].subject = store[j].subject /\ shown[i].key = store[j].key =>
            SameButDates(shown[i], store[j]) /\ \E k \in 1..Len(store) : store[k] = shown[i]
    /\ \A i, j \in 1..Len(store) :
        store[i].subject = store[j].subject /\ store[i].key = store[j].key =>
            SameButDates(store[i], store[j])

\* The broker shows one version of each certificate.
OneVersion ==
    \A i, j \in 2..Len(shown) : shown[i].subject = shown[j].subject => i = j

\* A broker with a good chain is verified, also with two versions of a
\* certificate, expired and not, and with two keys of a root in the store; if
\* there is one version of what it shows and only dates are wrong, nothing but
\* that is reported (x509_crt_find_parent_in()).
GoodChainIsVerified ==
    Regular /\ shown[1].host =>
        \A P \in SUBSET (1..Len(shown)), r \in 1..Len(store) :
            Accepts(P, store[r]) =>
                /\ InDate(P, store[r]) => pc \notin {"failed", "fatal"}
                /\ OneVersion => /\ pc /= "fatal"
                                 /\ pc \in {"ok", "failed"} => Issues \subseteq {"expired"}
==============================================================================
