-------------------------- MODULE MCCertificateChain --------------------------
(***************************************************************************)
(* CertificateChain for TLC: certificates, and lists of them.              *)
(***************************************************************************)
EXTENDS CertificateChain

\* A good certificate.
Cert(subject, key, issuer, signer, isCa) ==
    [subject |-> subject, issuer |-> issuer, key |-> key, signer |-> signer, ca |-> isCa,
     v3 |-> TRUE, pathlen |-> 0, dated |-> TRUE, hash |-> TRUE, size |-> TRUE,
     host |-> subject = "broker"]
Limited(c, n) == [c EXCEPT !.pathlen = n + 1]
Expired(c) == [c EXCEPT !.dated = FALSE]

Broker(issuer, signer) == Cert("broker", "k", issuer, signer, FALSE)
RootA == Cert("A", "a", "A", "a", TRUE)
ForgedA == Cert("A", "f", "A", "f", TRUE)
OldA == [RootA EXCEPT !.v3 = FALSE, !.ca = FALSE]
InterB == Cert("B", "b", "A", "a", TRUE)
InterC == Cert("C", "c", "B", "b", TRUE)
InterD == Cert("D", "d", "C", "c", TRUE)
\* A's new key, signed with its old one.
RolledA == Cert("A", "n", "A", "a", TRUE)

SelfSigned == Cert("broker", "k", "broker", "k", FALSE)
Ends == {Broker("A", "a"), Broker("B", "b"), Broker("C", "c"), Expired(Broker("B", "b")),
         [Broker("A", "a") EXCEPT !.host = FALSE], [Broker("B", "b") EXCEPT !.hash = FALSE],
         Broker("B", "f"), SelfSigned}
Intermediate ==
    {InterB, Limited(InterB, 0), Expired(InterB), [InterB EXCEPT !.ca = FALSE],
     [InterB EXCEPT !.signer = "f"], [InterB EXCEPT !.size = FALSE], InterC}
Roots ==
    {RootA, Limited(RootA, 0), Limited(RootA, 1), Expired(RootA), ForgedA, OldA, InterB,
     SelfSigned, [SelfSigned EXCEPT !.v3 = FALSE]}
Rollovers == {RootA, Limited(RootA, 0), RolledA, InterB}

Lists(set, n) == UNION {[1..i -> set] : i \in 0..n}
ListsAfter(ends, set, n) == {<<e>> \o l : e \in ends, l \in Lists(set, n)}

AllNames == {"broker", "A", "B", "C", "D"}
AllKeys == {"k", "a", "f", "b", "c", "d", "n"}

ManyShown == ListsAfter(Ends, Intermediate, 2)
ManyStores == Lists(Roots, 2)
LongShown == ListsAfter({Broker("B", "f"), Broker("C", "c"), Broker("D", "d")},
                        {RootA, InterB, InterC, InterD}, 3)
LongStores == Lists({RootA, ForgedA, InterB}, 1)
\* Two versions of what is shown, in any order, and of what is in the store.
AgedShown == ListsAfter({Broker("C", "c")}, {InterB, InterC, Expired(InterB), Expired(InterC)}, 3)
AgedStores == Lists({RootA, InterB, Expired(InterB)}, 2)
AllShown == ManyShown \union LongShown \union AgedShown
AllStores == ManyStores \union LongStores \union AgedStores
RolledShown == ListsAfter({Broker("A", "a"), Broker("A", "n"), Broker("B", "b")}, Rollovers, 2)
RolledStores == Lists(Rollovers, 1)
==============================================================================
