------------------------ MODULE CertificateChainProofs ------------------------
(***************************************************************************)
(* Proofs about CertificateChain, for every list of certificates a broker  *)
(* may show, every store, and any number of intermediates.                 *)
(*                                                                         *)
(* What is accepted has a good chain: what is wrong with a certificate or  *)
(* a link has left an issue behind.  What has a good chain is accepted:    *)
(* the search never leaves the places of that chain, as whatever it finds  *)
(* first is the next certificate of it, or another version of that one.    *)
(***************************************************************************)
EXTENDS CertificateChain, FiniteSetTheorems, SequenceTheorems, WellFoundedInduction, TLAPS

\* The certificates of a chain up to the n-th that were issued by another,
\* the broker's own left out.
Others(list, n) == {i \in 2..n : ~SelfIssued(list[i].crt)}

\* child is the last certificate of the chain, or the next one.
Places ==
    /\ chain = <<>> => pc = "add" /\ child = shown[1] /\ at = 1 /\ selfCnt = 0
    /\ chain /= <<>> => chain[1].crt = shown[1]
    /\ pc /= "add" => child = chain[Len(chain)].crt
    /\ at > 0 => child = shown[at]
    /\ at = 0 => \E i \in 1..Len(store) : store[i] = child
    /\ \A i \in 1..Len(chain) :
        i < Len(chain) \/ at > 0 \/ pc = "add" => \E k \in 1..Len(shown) : shown[k] = chain[i].crt
    /\ pc = "parent" => at > 0 /\ (selfCnt > 0 => selfCnt < Len(chain) - 1)

\* What is wrong with c, the i-th certificate, or with its parent p is noted.
Link(c, p, top, flags) ==
    /\ IsParent(c, p, top)
    /\ SignedBy(c, p) \/ "not_trusted" \in flags
    /\ p.size \/ "bad_key" \in flags

Linked ==
    /\ \A i \in 1..Len(chain) : chain[i].crt.dated \/ "expired" \in chain[i].flags
    /\ \A i \in 1..(Len(chain) - 1) :
        /\ Link(chain[i].crt, chain[i + 1].crt,
                i = Len(chain) - 1 /\ at = 0 /\ pc /= "add", chain[i].flags)
        /\ chain[i].crt.hash \/ "bad_md" \in chain[i].flags
    /\ pc = "parent" =>
        chain[Len(chain)].crt.hash \/ "bad_md" \in chain[Len(chain)].flags
    /\ pc = "add" /\ chain /= <<>> =>
        /\ Link(chain[Len(chain)].crt, child, at = 0, chain[Len(chain)].flags)
        /\ chain[Len(chain)].crt.hash \/ "bad_md" \in chain[Len(chain)].flags

\* A chain that is complete ends in the store, or it is known not to.
Ended ==
    /\ pc \in {"merge", "ok", "failed"} =>
        \/ \E i \in 1..Len(store) : store[i] = chain[Len(chain)].crt
        \/ "not_trusted" \in chain[Len(chain)].flags
    /\ pc = "ok" => Issues = {}

VInv == TypeOK /\ Places /\ Linked /\ Ended

\* self_cnt and the certificates it leaves out, the last two of them by number.
Counted ==
    /\ pc = "parent" /\ Len(chain) = 1 => selfCnt = 0
    /\ pc = "parent" /\ Len(chain) > 1 =>
        Cardinality(Others(chain, Len(chain) - 1)) + selfCnt <= Len(chain) - 2
    /\ pc = "add" /\ chain /= <<>> =>
        /\ Cardinality(Others(chain, Len(chain))) + selfCnt <= Len(chain) - 1
        /\ child.pathlen > 0 => Cardinality(Others(chain, Len(chain))) <= child.pathlen - 1
    /\ pc = "add" /\ chain = <<>> => selfCnt = 0

Room ==
    /\ pc = "parent" => Len(chain) <= MaxIntermediate + 1
    /\ pc = "add" /\ at = 0 => Len(chain) <= MaxIntermediate + 1
    /\ pc = "add" /\ at > 0 => Len(chain) <= MaxIntermediate
    /\ Len(chain) <= MaxIntermediate + 2

------------------------------------------------------------------------------
(* Lemmas *)

LEMMA FlagType ==
    ASSUME NEW condition \in BOOLEAN, NEW name
    PROVE  Flag(condition, name) \in SUBSET {name} /\ (condition => name \in Flag(condition, name))
  BY DEF Flag

\* Flagged() adds issues to the last certificate and changes nothing else.
LEMMA FlaggedIs ==
    ASSUME chain \in Seq(Item), chain /= <<>>,
           NEW flags \in SUBSET {"expired", "not_trusted", "bad_md", "bad_key"}
    PROVE  /\ Flagged(flags) \in Seq(Item)
           /\ Len(Flagged(flags)) = Len(chain)
           /\ \A i \in 1..Len(chain) :
                /\ Flagged(flags)[i].crt = chain[i].crt
                /\ chain[i].flags \subseteq Flagged(flags)[i].flags
           /\ Flagged(flags)[Len(chain)].flags = chain[Len(chain)].flags \union flags
  <1> DEFINE last == Len(chain)
             item == [chain[last] EXCEPT !.flags = @ \union flags]
  <1>1. last \in 1..Len(chain) /\ last \in Nat
    OBVIOUS
  <1>2. chain[last] \in Item
    BY <1>1
  <1>3. item \in Item /\ item.crt = chain[last].crt
        /\ item.flags = chain[last].flags \union flags
    BY <1>2 DEF Item
  <1>4. Flagged(flags) = [chain EXCEPT ![last] = item]
    BY DEF Flagged
  <1>5. Flagged(flags) \in Seq(Item) /\ Len(Flagged(flags)) = Len(chain)
    BY <1>1, <1>3, <1>4
  <1>6. \A i \in 1..Len(chain) : Flagged(flags)[i] = IF i = last THEN item ELSE chain[i]
    BY <1>1, <1>4
  <1> QED
    BY <1>1, <1>3, <1>5, <1>6

\* What the search returns is in the list and fits.
LEMMA FoundFits ==
    ASSUME NEW c, NEW list, NEW top, NEW between,
           NEW i \in FindParentIn(c, list, top, between)
    PROVE  i \in 1..Len(list) /\ Suitable(c, list[i], top, between)
  BY DEF FindParentIn, First, Candidates

LEMMA RootFits ==
    ASSUME TypeOK, NEW i \in RootFor
    PROVE  /\ i \in 1..Len(store)
           /\ store[i] \in Certificate
           /\ Suitable(child, store[i], TRUE, Between)
  <1>1. i \in 1..Len(store)
    BY FoundFits DEF RootFor
  <1>2. Suitable(child, store[i], TRUE, Between)
    BY FoundFits DEF RootFor
  <1>3. store \in Seq(Certificate)
    BY ChainAssumption DEF TypeOK
  <1>4. store[i] \in Certificate
    BY <1>1, <1>3
  <1> QED
    BY <1>1, <1>2, <1>4

LEMMA NextFits ==
    ASSUME TypeOK, NEW i \in NextShown
    PROVE  /\ i \in Nat
           /\ i > 0
           /\ at + i \in 1..Len(shown)
           /\ shown[at + i] \in Certificate
           /\ Suitable(child, shown[at + i], FALSE, Between)
  <1> DEFINE rest == SubSeq(shown, at + 1, Len(shown))
  <1>1. i \in 1..Len(rest)
    BY FoundFits DEF NextShown
  <1>6. Suitable(child, rest[i], FALSE, Between)
    BY FoundFits DEF NextShown
  <1>2. shown \in Seq(Certificate) /\ at \in 0..Len(shown)
    BY ChainAssumption DEF TypeOK
  <1>3. Len(rest) = Len(shown) - at
    BY <1>2
  <1>4. i \in Nat /\ i > 0 /\ at + i \in 1..Len(shown)
    BY <1>1, <1>2, <1>3
  <1>5. rest[i] = shown[at + i]
    BY <1>1, <1>2, <1>3, <1>4
  <1>7. Suitable(child, shown[at + i], FALSE, Between)
    BY <1>5, <1>6
  <1>8. shown[at + i] \in Certificate
    BY <1>2, <1>4
  <1> QED
    BY <1>4, <1>7, <1>8

------------------------------------------------------------------------------
(* The chain *)

LEMMA InitVerified == Init => VInv
  <1> SUFFICES ASSUME Init PROVE VInv
    OBVIOUS
  <1>1. shown \in Seq(Certificate) /\ shown /= <<>> /\ store \in Seq(Certificate)
    BY ChainAssumption DEF Init
  <1>2. Len(shown) \in Nat /\ 1 \in 1..Len(shown) /\ shown[1] \in Certificate
    BY <1>1
  <1>3. TypeOK
    BY <1>1, <1>2 DEF Init, TypeOK
  <1>4. Places
    BY <1>2 DEF Init, Places
  <1>5. Linked
    BY DEF Init, Linked
  <1>6. Ended
    BY DEF Init, Ended
  <1> QED
    BY <1>3, <1>4, <1>5, <1>6 DEF VInv

\* A step that goes on with p, found in the store or further on in shown.
LEMMA GoToVerified ==
    ASSUME VInv, pc = "parent", NEW p \in Certificate, GoTo(p),
           at' \in 0..Len(shown),
           IsParent(child, p, at' = 0),
           at' > 0 => p = shown[at'],
           at' = 0 => \E i \in 1..Len(store) : store[i] = p
    PROVE  VInv'
  <1> DEFINE flags == Flag(~SignedBy(child, p), "not_trusted") \union Flag(~p.size, "bad_key")
             last == Len(chain)
  <1>1. chain \in Seq(Item) /\ chain /= <<>> /\ last \in Nat /\ last \in 1..last /\ 1 \in 1..last
    BY DEF VInv, TypeOK, Places
  <1>2. flags \in SUBSET {"expired", "not_trusted", "bad_md", "bad_key"}
    BY DEF Flag
  <1>3. chain' = Flagged(flags) /\ child' = p /\ pc' = "add"
        /\ shown' = shown /\ store' = store
    BY DEF GoTo
  <1>4. /\ chain' \in Seq(Item) /\ Len(chain') = last
        /\ \A i \in 1..last : chain'[i].crt = chain[i].crt /\ chain[i].flags \subseteq chain'[i].flags
        /\ chain'[last].flags = chain[last].flags \union flags
    BY <1>1, <1>2, <1>3, FlaggedIs
  <1>5. TypeOK'
    <2>1. shown' \in Shown /\ store' \in Stores /\ at' \in 0..Len(shown')
      BY <1>3 DEF VInv, TypeOK
    <2>2. selfCnt' \in Nat /\ (selfCnt' > 0 => selfCnt' < Len(chain'))
      <3>1. selfCnt \in Nat /\ (selfCnt > 0 => selfCnt < last - 1)
        BY DEF VInv, TypeOK, Places
      <3>2. selfCnt' = selfCnt \/ (last /= 1 /\ selfCnt' = selfCnt + 1)
        BY DEF GoTo
      <3>3. last \in Nat /\ last >= 1 /\ Len(chain') = last
        BY <1>1, <1>4
      <3> QED
        BY <3>1, <3>2, <3>3
    <2> QED
      BY <2>1, <2>2, <1>3, <1>4 DEF TypeOK
  <1>6. Places'
    <2>1. chain' /= <<>> /\ chain'[1].crt = shown'[1]
      <3>1. chain[1].crt = shown[1]
        BY <1>1 DEF VInv, Places
      <3>2. Len(chain') >= 1
        BY <1>1, <1>4
      <3>3. chain' /= <<>>
        BY <1>4, <3>2
      <3> QED
        BY <1>1, <1>3, <1>4, <3>1, <3>3
    <2>2. at > 0
      BY DEF VInv, Places
    <2>3. \A i \in 1..Len(chain') : \E k \in 1..Len(shown') : shown'[k] = chain'[i].crt
      BY <1>3, <1>4, <2>2 DEF VInv, Places
    <2>4. at' > 0 => child' = shown'[at']
      BY <1>3
    <2>5. at' = 0 => \E i \in 1..Len(store') : store'[i] = child'
      BY <1>3
    <2> QED
      BY <2>1, <2>3, <2>4, <2>5, <1>3 DEF Places
  <1>7. Linked'
    <2>1. \A i \in 1..Len(chain') : chain'[i].crt.dated \/ "expired" \in chain'[i].flags
      BY <1>4 DEF VInv, Linked
    <2>2. ASSUME NEW i \in 1..(Len(chain') - 1)
          PROVE  /\ Link(chain[i].crt, chain[i + 1].crt, FALSE, chain[i].flags)
                 /\ chain[i].crt.hash \/ "bad_md" \in chain[i].flags
      <3>1. i \in 1..(Len(chain) - 1)
        BY <1>4
      <3>2. at > 0 /\ at /= 0
        BY DEF VInv, TypeOK, Places
      <3> QED
        BY <3>1, <3>2 DEF VInv, Linked, Link, IsParent
    <2>3. ASSUME NEW i \in 1..(Len(chain') - 1)
          PROVE  /\ Link(chain'[i].crt, chain'[i + 1].crt, FALSE, chain'[i].flags)
                 /\ chain'[i].crt.hash \/ "bad_md" \in chain'[i].flags
      <3>1. i \in 1..last /\ i + 1 \in 1..last
        BY <1>1, <1>4
      <3>2. chain'[i].crt = chain[i].crt /\ chain'[i + 1].crt = chain[i + 1].crt
            /\ chain[i].flags \subseteq chain'[i].flags
        BY <3>1, <1>4
      <3> QED
        BY <2>2, <3>2, <1>3 DEF Link
    <2>4. chain'[last].crt = child
      BY <1>1, <1>4 DEF VInv, Places
    <2>5. Link(chain'[last].crt, child', at' = 0, chain'[last].flags)
      <3>1. SignedBy(child, p) \/ "not_trusted" \in chain'[last].flags
        BY <1>4 DEF Flag
      <3>2. p.size \/ "bad_key" \in chain'[last].flags
        BY <1>4 DEF Flag
      <3> QED
        BY <1>3, <2>4, <3>1, <3>2 DEF Link
    <2>6. chain'[last].crt.hash \/ "bad_md" \in chain'[last].flags
      BY <1>1, <1>4 DEF VInv, Linked
    <2>7. \A i \in 1..(Len(chain') - 1) :
            /\ Link(chain'[i].crt, chain'[i + 1].crt,
                    i = Len(chain') - 1 /\ at' = 0 /\ pc' /= "add", chain'[i].flags)
            /\ chain'[i].crt.hash \/ "bad_md" \in chain'[i].flags
      BY <1>3, <2>3 DEF Link, IsParent
    <2> QED
      BY <1>3, <1>4, <2>1, <2>5, <2>6, <2>7 DEF Linked
  <1>8. Ended'
    BY <1>3 DEF Ended
  <1> QED
    BY <1>5, <1>6, <1>7, <1>8 DEF VInv

LEMMA AddVerified ==
    ASSUME VInv, Add
    PROVE  VInv'
  <1> DEFINE flags == Flag(~child.dated, "expired") \union Flag(at > 0 /\ ~child.hash, "bad_md")
             item == [crt |-> child, flags |-> flags]
             last == Len(chain)
  <1>1. chain \in Seq(Item) /\ last \in Nat /\ at \in Nat
    BY DEF VInv, TypeOK
  <1>2. flags \in SUBSET {"expired", "not_trusted", "bad_md", "bad_key"}
    BY DEF Flag
  <1>3. item \in Item
    BY <1>2 DEF VInv, TypeOK, Item
  <1>4. chain' = Append(chain, item) /\ UNCHANGED <<shown, store, child, at, selfCnt>>
    BY DEF Add
  <1>5. /\ chain' \in Seq(Item) /\ Len(chain') = last + 1
        /\ \A i \in 1..last : chain'[i] = chain[i]
        /\ chain'[last + 1] = item
    BY <1>1, <1>3, <1>4
  <1>6. pc = "add" /\ pc' = IF at = 0 \/ (chain = <<>> /\ LocallyTrusted(child)) THEN "merge" ELSE "parent"
    BY DEF Add
  <1>7. chain = <<>> => last = 0 /\ at = 1 /\ child = shown[1] /\ selfCnt = 0
    BY DEF VInv, Places
  <1>8. chain /= <<>> => last >= 1 /\ chain[1].crt = shown[1]
    BY <1>1 DEF VInv, Places
  <1>9. TypeOK'
    BY <1>1, <1>4, <1>5, <1>6 DEF VInv, TypeOK
  <1>10. Places'
    <2>1. chain' /= <<>>
      BY <1>1, <1>5
    <2>2. chain'[1].crt = shown'[1]
      BY <1>1, <1>4, <1>5, <1>7, <1>8
    <2>3. child' = chain'[Len(chain')].crt
      BY <1>4, <1>5
    <2>4. (at' > 0 => child' = shown'[at'])
          /\ (at' = 0 => \E i \in 1..Len(store') : store'[i] = child')
      BY <1>4 DEF VInv, Places
    <2>5. ASSUME NEW i \in 1..Len(chain'), i < Len(chain') \/ at' > 0 \/ pc' = "add"
          PROVE  \E k \in 1..Len(shown') : shown'[k] = chain'[i].crt
      <3>1. CASE i = last + 1
        <4>1. at > 0
          BY <3>1, <2>5, <1>1, <1>4, <1>5, <1>6
        <4> QED
          BY <4>1, <3>1, <1>4, <1>5 DEF VInv, Places, TypeOK
      <3>2. CASE i \in 1..last
        BY <3>2, <1>4, <1>5, <1>6 DEF VInv, Places
      <3> QED
        BY <3>1, <3>2, <1>1, <1>5
    <2>6. pc' = "parent" => at' > 0
      BY <1>1, <1>4, <1>6
    <2>7. selfCnt' > 0 => selfCnt' < Len(chain') - 1
      BY <1>1, <1>4, <1>5 DEF VInv, TypeOK
    <2>8. pc' /= "add"
      BY <1>6
    <2> QED
      BY <2>1, <2>2, <2>3, <2>4, <2>5, <2>6, <2>7, <2>8 DEF Places
  <1>11. Linked'
    <2>1. \A i \in 1..Len(chain') : chain'[i].crt.dated \/ "expired" \in chain'[i].flags
      <3>1. item.crt.dated \/ "expired" \in item.flags
        BY DEF Flag
      <3> QED
        BY <3>1, <1>1, <1>5 DEF VInv, Linked
    <2>2. ASSUME NEW i \in 1..(Len(chain') - 1)
          PROVE  /\ Link(chain'[i].crt, chain'[i + 1].crt, i = Len(chain') - 1 /\ at' = 0 /\ pc' /= "add",
                         chain'[i].flags)
                 /\ chain'[i].crt.hash \/ "bad_md" \in chain'[i].flags
      <3>1. CASE i = last
        <4>1. chain /= <<>> /\ i \in 1..last
          BY <3>1, <2>2, <1>1, <1>5
        <4>2. Link(chain[i].crt, child, at = 0, chain[i].flags)
          BY <4>1, <3>1, <1>6 DEF VInv, Linked
        <4>3. chain[i].crt.hash \/ "bad_md" \in chain[i].flags
          BY <4>1, <3>1, <1>6 DEF VInv, Linked
        <4>4. chain'[i] = chain[i] /\ chain'[i + 1].crt = child
          BY <4>1, <3>1, <1>5
        <4>5. i = Len(chain') - 1 /\ at' = at /\ pc' /= "add"
          BY <3>1, <1>1, <1>4, <1>5, <1>6
        <4> QED
          BY <4>2, <4>3, <4>4, <4>5 DEF Link, IsParent
      <3>2. CASE i \in 1..(last - 1)
        <4>1. chain'[i] = chain[i] /\ chain'[i + 1] = chain[i + 1]
          BY <3>2, <1>1, <1>5
        <4>2. /\ Link(chain[i].crt, chain[i + 1].crt, FALSE, chain[i].flags)
              /\ chain[i].crt.hash \/ "bad_md" \in chain[i].flags
          BY <3>2, <1>6 DEF VInv, Linked, Link, IsParent
        <4>3. i /= Len(chain') - 1
          BY <3>2, <1>1, <1>5
        <4> QED
          BY <4>1, <4>2, <4>3 DEF Link, IsParent
      <3> QED
        BY <3>1, <3>2, <1>1, <1>5
    <2>3. pc' = "parent" => chain'[Len(chain')].crt.hash \/ "bad_md" \in chain'[Len(chain')].flags
      <3>1. pc' = "parent" => at > 0
        BY <1>1, <1>6
      <3>2. at > 0 => item.crt.hash \/ "bad_md" \in item.flags
        BY DEF Flag
      <3> QED
        BY <3>1, <3>2, <1>5
    <2> QED
      BY <2>1, <2>2, <2>3, <1>6 DEF Linked
  <1>12. Ended'
    <2>1. pc' = "merge" => \E i \in 1..Len(store) : store[i] = child
      BY <1>6 DEF VInv, Places, LocallyTrusted
    <2> QED
      BY <2>1, <1>4, <1>5, <1>6 DEF Ended
  <1> QED
    BY <1>9, <1>10, <1>11, <1>12 DEF VInv

LEMMA NoParentVerified ==
    ASSUME VInv, NoParent
    PROVE  VInv'
  <1> DEFINE last == Len(chain)
  <1>1. chain \in Seq(Item) /\ chain /= <<>> /\ last \in Nat /\ last \in 1..last /\ 1 \in 1..last
    BY DEF VInv, TypeOK, Places, NoParent
  <1>2. chain' = Flagged({"not_trusted"}) /\ pc = "parent" /\ pc' = "merge"
        /\ UNCHANGED <<shown, store, child, at, selfCnt>>
    BY DEF NoParent
  <1>3. /\ chain' \in Seq(Item) /\ Len(chain') = last
        /\ \A i \in 1..last : chain'[i].crt = chain[i].crt /\ chain[i].flags \subseteq chain'[i].flags
        /\ chain'[last].flags = chain[last].flags \union {"not_trusted"}
    BY <1>1, <1>2, FlaggedIs
  <1>4. TypeOK'
    BY <1>2, <1>3 DEF VInv, TypeOK
  <1>5. chain' /= <<>>
    BY <1>1, <1>3
  <1>6. Places'
    <2>1. chain'[1].crt = shown'[1] /\ child' = chain'[Len(chain')].crt
      BY <1>1, <1>2, <1>3 DEF VInv, Places
    <2>2. at' > 0 /\ at' /= 0 /\ child' = shown'[at']
      BY <1>2 DEF VInv, Places
    <2>3. \A i \in 1..Len(chain') : \E k \in 1..Len(shown') : shown'[k] = chain'[i].crt
      BY <1>2, <1>3, <2>2 DEF VInv, Places
    <2> QED
      BY <2>1, <2>2, <2>3, <1>2, <1>5 DEF Places
  <1>7. Linked'
    <2>1. \A i \in 1..Len(chain') : chain'[i].crt.dated \/ "expired" \in chain'[i].flags
      BY <1>3 DEF VInv, Linked
    <2>2. ASSUME NEW i \in 1..(Len(chain') - 1)
          PROVE  /\ Link(chain'[i].crt, chain'[i + 1].crt, i = Len(chain') - 1 /\ at' = 0 /\ pc' /= "add",
                         chain'[i].flags)
                 /\ chain'[i].crt.hash \/ "bad_md" \in chain'[i].flags
      <3>1. i \in 1..last /\ i + 1 \in 1..last /\ i \in 1..(last - 1)
        BY <1>1, <1>3
      <3>2. chain'[i].crt = chain[i].crt /\ chain'[i + 1].crt = chain[i + 1].crt
            /\ chain[i].flags \subseteq chain'[i].flags
        BY <3>1, <1>3
      <3>3. at /= 0 /\ at' /= 0
        BY <1>2 DEF VInv, Places
      <3>4. /\ Link(chain[i].crt, chain[i + 1].crt, FALSE, chain[i].flags)
            /\ chain[i].crt.hash \/ "bad_md" \in chain[i].flags
        BY <3>1, <3>3 DEF VInv, Linked, Link, IsParent
      <3> QED
        BY <3>2, <3>3, <3>4 DEF Link, IsParent
    <2> QED
      BY <2>1, <2>2, <1>2 DEF Linked
  <1>8. Ended'
    BY <1>1, <1>2, <1>3 DEF Ended
  <1> QED
    BY <1>4, <1>6, <1>7, <1>8 DEF VInv

\* What stays as it is when only pc goes on.
LEMMA QuietVerified ==
    ASSUME VInv, UNCHANGED <<shown, store, chain, child, at, selfCnt>>,
           chain /= <<>>, pc /= "add", pc' \in {"merge", "ok", "failed", "fatal"}
    PROVE  TypeOK' /\ Places' /\ Linked'
  <1>1. TypeOK'
    BY DEF VInv, TypeOK
  <1>2. Places'
    BY DEF VInv, Places
  <1>3. Linked'
    BY DEF VInv, Linked
  <1> QED
    BY <1>1, <1>2, <1>3

LEMMA SameIssues ==
    ASSUME UNCHANGED <<shown, chain>>
    PROVE  Issues' = Issues
  BY DEF Issues

LEMMA StepVerified == VInv /\ [Next]_vars => VInv'
  <1> SUFFICES ASSUME VInv, [Next]_vars PROVE VInv'
    OBVIOUS
  <1>1. CASE Add
    BY <1>1, AddVerified
  <1>2. CASE NoParent
    BY <1>2, NoParentVerified
  <1>3. CASE TrustedParent
    <2>1. PICK i \in RootFor : GoTo(store[i])
      BY <1>3 DEF TrustedParent
    <2>2. i \in 1..Len(store) /\ store[i] \in Certificate /\ IsParent(child, store[i], TRUE)
      BY RootFits DEF VInv, Suitable
    <2>3. pc = "parent" /\ at' = 0
      BY <1>3 DEF TrustedParent
    <2>4. at' \in 0..Len(shown) /\ ~(at' > 0)
      BY <2>3 DEF VInv, TypeOK
    <2> QED
      BY <2>1, <2>2, <2>3, <2>4, GoToVerified
  <1>4. CASE ShownParent
    <2>1. PICK i \in NextShown : at' = at + i /\ GoTo(shown[at + i])
      BY <1>4 DEF ShownParent
    <2>2. i > 0 /\ i \in Nat /\ at + i \in 1..Len(shown) /\ shown[at + i] \in Certificate
      BY NextFits DEF VInv
    <2>3. IsParent(child, shown[at + i], FALSE)
      BY NextFits DEF VInv, Suitable
    <2>4. at \in Nat /\ at' \in 0..Len(shown) /\ at' /= 0
      BY <2>1, <2>2 DEF VInv, TypeOK
    <2>5. pc = "parent"
      BY <1>4 DEF ShownParent
    <2>6. IsParent(child, shown[at + i], at' = 0)
      BY <2>3, <2>4 DEF IsParent
    <2> QED
      BY <2>1, <2>2, <2>4, <2>5, <2>6, GoToVerified
  <1>5. CASE GiveUp
    <2>1. chain /= <<>> /\ pc /= "add" /\ pc' = "fatal"
      BY <1>5 DEF GiveUp, VInv, Places
    <2>2. TypeOK' /\ Places' /\ Linked'
      BY <1>5, <2>1, QuietVerified DEF GiveUp
    <2>3. Ended'
      BY <2>1 DEF Ended
    <2> QED
      BY <2>2, <2>3 DEF VInv
  <1>6. CASE Merge
    <2>1. chain /= <<>> /\ pc = "merge" /\ pc' \in {"ok", "failed"}
      BY <1>6 DEF Merge, VInv, Places
    <2>2. TypeOK' /\ Places' /\ Linked'
      BY <1>6, <2>1, QuietVerified DEF Merge
    <2>3. pc' = "ok" => Issues' = {}
      <3>1. Issues' = Issues
        BY <1>6, SameIssues DEF Merge
      <3> QED
        BY <3>1, <1>6 DEF Merge
    <2>4. Ended'
      BY <1>6, <2>1, <2>3 DEF Merge, Ended, VInv
    <2> QED
      BY <2>2, <2>4 DEF VInv
  <1>7. CASE UNCHANGED vars
    <2>1. Issues' = Issues
      BY <1>7, SameIssues DEF vars
    <2>2. TypeOK' /\ Places' /\ Linked'
      BY <1>7 DEF vars, VInv, TypeOK, Places, Linked
    <2>3. Ended'
      BY <1>7, <2>1 DEF vars, VInv, Ended
    <2> QED
      BY <2>2, <2>3 DEF VInv
  <1> QED
    BY <1>1, <1>2, <1>3, <1>4, <1>5, <1>6, <1>7 DEF Next

LEMMA VInvImplies == VInv => VerifiedHasChain
  <1> SUFFICES ASSUME VInv, pc = "ok" PROVE VerifiedHasChain
    BY DEF VerifiedHasChain
  <1> DEFINE last == Len(chain)
  <1>1. chain \in Seq(Item) /\ chain /= <<>> /\ last \in Nat /\ last \in 1..last /\ 1 \in 1..last
    BY DEF VInv, TypeOK, Places
  <1>2. \A i \in 1..last : chain[i].flags = {}
    BY DEF VInv, Ended, Issues
  <1>3. shown[1].host /\ shown[1].size
    <2>0. \A x : x \notin Issues
      BY DEF VInv, Ended
    <2>1. Flag(~shown[1].host, "cn_mismatch") = {} /\ Flag(~shown[1].size, "bad_key") = {}
      BY <2>0, Zenon DEF Issues
    <2>2. ~shown[1].host => Flag(~shown[1].host, "cn_mismatch") /= {}
      BY DEF Flag
    <2>3. ~shown[1].size => Flag(~shown[1].size, "bad_key") /= {}
      BY DEF Flag
    <2> QED
      BY <2>1, <2>2, <2>3
  <1>4. chain[1].crt = shown[1]
    BY <1>1 DEF VInv, Places
  <1>5. \E i \in 1..Len(store) : store[i] = chain[last].crt
    BY <1>1, <1>2 DEF VInv, Ended
  <1>6. \A i \in 1..last : chain[i].crt.dated
    BY <1>2 DEF VInv, Linked
  <1>7. ASSUME NEW i \in 1..(last - 1)
        PROVE  /\ IsParent(chain[i].crt, chain[i + 1].crt, i = last - 1)
               /\ SignedBy(chain[i].crt, chain[i + 1].crt)
               /\ chain[i + 1].crt.size
               /\ chain[i].crt.hash
               /\ \E k \in 1..Len(shown) : shown[k] = chain[i].crt
    <2>1. i \in 1..last /\ i < last /\ chain[i].flags = {}
      BY <1>1, <1>2
    <2>2. /\ Link(chain[i].crt, chain[i + 1].crt,
                  i = Len(chain) - 1 /\ at = 0 /\ pc /= "add", chain[i].flags)
          /\ chain[i].crt.hash \/ "bad_md" \in chain[i].flags
      BY <1>7 DEF VInv, Linked
    <2>3. IsParent(chain[i].crt, chain[i + 1].crt, i = last - 1)
      BY <2>2 DEF Link, IsParent
    <2>4. \E k \in 1..Len(shown) : shown[k] = chain[i].crt
      BY <2>1 DEF VInv, Places
    <2> QED
      BY <2>1, <2>2, <2>3, <2>4 DEF Link
  <1>8. \A i \in 1..last : chain[i].crt.size
    <2> SUFFICES ASSUME NEW i \in 1..last PROVE chain[i].crt.size
      OBVIOUS
    <2>1. CASE i = 1
      BY <2>1, <1>3, <1>4
    <2>2. CASE i /= 1
      <3>1. i - 1 \in 1..(last - 1) /\ (i - 1) + 1 = i
        BY <2>2, <1>1
      <3> QED
        BY <3>1, <1>7
    <2> QED
      BY <2>1, <2>2
  <1> QED
    BY <1>3, <1>4, <1>5, <1>6, <1>7, <1>8 DEF VerifiedHasChain

LEMMA ChainIsVerified == Spec => []VInv
  BY InitVerified, StepVerified, PTL DEF Spec

\* Whatever the broker shows, the variables stay what they are meant to be, and
\* self_cnt never exceeds the number of intermediates it is taken from.
THEOREM ChainTypeOK == Spec => []TypeOK
  <1>1. VInv => TypeOK
    BY DEF VInv
  <1> QED
    BY <1>1, ChainIsVerified, PTL

\* Whatever certificates the broker shows and enableTls() was given: one that is
\* verified has a chain to the store of which every link is good.
THEOREM ChainVerifiedHasChain == Spec => []VerifiedHasChain
  BY ChainIsVerified, VInvImplies, PTL

------------------------------------------------------------------------------
(* Room for the chain *)

LEMMA StepRoom == VInv /\ Room /\ [Next]_vars => Room'
  <1> SUFFICES ASSUME VInv, Room, [Next]_vars PROVE Room'
    OBVIOUS
  <1>1. chain \in Seq(Item) /\ Len(chain) \in Nat /\ at \in Nat /\ MaxIntermediate \in Nat
    BY ChainAssumption DEF VInv, TypeOK
  <1>2. CASE Add
    <2>1. Len(chain') = Len(chain) + 1
      BY <1>1, <1>2 DEF Add
    <2>2. pc = "add" /\ at' = at /\ (pc' = "parent" => at > 0) /\ pc' /= "add"
      BY <1>1, <1>2 DEF Add
    <2> QED
      BY <1>1, <2>1, <2>2 DEF Room
  <1>3. CASE NoParent
    <2>1. Len(chain') = Len(chain) /\ pc' = "merge"
      BY <1>1, <1>3, FlaggedIs DEF NoParent, VInv, Places
    <2> QED
      BY <1>1, <2>1 DEF Room
  <1>4. ASSUME NEW p, GoTo(p), pc = "parent"
        PROVE  Len(chain') = Len(chain) /\ pc' = "add"
    <2>1. chain' = Flagged(Flag(~SignedBy(child, p), "not_trusted") \union Flag(~p.size, "bad_key"))
      BY <1>4 DEF GoTo
    <2>2. chain /= <<>>
      BY <1>4 DEF VInv, Places
    <2>3. (Flag(~SignedBy(child, p), "not_trusted") \union Flag(~p.size, "bad_key"))
            \in SUBSET {"expired", "not_trusted", "bad_md", "bad_key"}
      BY DEF Flag
    <2> QED
      BY <1>1, <1>4, <2>1, <2>2, <2>3, FlaggedIs DEF GoTo
  <1>5. CASE TrustedParent
    <2>1. pc = "parent" /\ at' = 0 /\ Len(chain') = Len(chain) /\ pc' = "add"
      BY <1>4, <1>5 DEF TrustedParent
    <2> QED
      BY <1>1, <2>1 DEF Room
  <1>6. CASE ShownParent
    <2>1. pc = "parent" /\ Len(chain') = Len(chain) /\ pc' = "add" /\ Len(chain) <= MaxIntermediate
      BY <1>1, <1>4, <1>6 DEF ShownParent, TooLong
    <2> QED
      BY <1>1, <2>1 DEF Room
  <1>7. CASE GiveUp
    BY <1>7 DEF GiveUp, Room
  <1>8. CASE Merge
    BY <1>8 DEF Merge, Room
  <1>9. CASE UNCHANGED vars
    BY <1>9 DEF vars, Room
  <1> QED
    BY <1>2, <1>3, <1>5, <1>6, <1>7, <1>8, <1>9 DEF Next

\* The chain array is never written beyond its end, which only the check before
\* ShownParent sees to.
THEOREM ChainAlwaysHasRoom == Spec => []ChainHasRoom
  <1>1. Init => Room
    <2> SUFFICES ASSUME Init PROVE Room
      OBVIOUS
    <2>1. Len(chain) = 0 /\ at = 1 /\ pc = "add" /\ MaxIntermediate \in Nat
      BY ChainAssumption DEF Init
    <2> QED
      BY <2>1 DEF Room
  <1>2. Room => ChainHasRoom
    BY DEF Room, ChainHasRoom
  <1> QED
    BY <1>1, <1>2, StepRoom, ChainIsVerified, PTL DEF Spec

------------------------------------------------------------------------------
(* Path lengths *)

LEMMA OthersFinite ==
    ASSUME NEW n \in Nat
    PROVE  IsFiniteSet(Others(chain, n)) /\ Cardinality(Others(chain, n)) \in Nat
  <1>1. IsFiniteSet(2..n)
    BY FS_Interval
  <1>2. Others(chain, n) \in SUBSET (2..n)
    BY DEF Others
  <1> QED
    BY <1>1, <1>2, FS_Subset, FS_CardinalityType

LEMMA OthersNone == Cardinality(Others(chain, 1)) = 0
  <1>1. Others(chain, 1) = {}
    BY DEF Others
  <1> QED
    BY <1>1, FS_EmptySet

\* One more certificate is at most one more that was issued by another.
LEMMA OthersNext ==
    ASSUME NEW n \in Nat, n > 1
    PROVE  Cardinality(Others(chain, n)) <=
             Cardinality(Others(chain, n - 1)) + (IF SelfIssued(chain[n].crt) THEN 0 ELSE 1)
  <1>1. n - 1 \in Nat /\ IsFiniteSet(Others(chain, n - 1))
        /\ Cardinality(Others(chain, n - 1)) \in Nat /\ Cardinality(Others(chain, n)) \in Nat
    BY OthersFinite
  <1>2. CASE SelfIssued(chain[n].crt)
    <2>1. Others(chain, n) = Others(chain, n - 1)
      BY <1>2 DEF Others
    <2> QED
      BY <2>1, <1>1, <1>2
  <1>3. CASE ~SelfIssued(chain[n].crt)
    <2>1. Others(chain, n) = Others(chain, n - 1) \union {n}
      BY <1>3 DEF Others
    <2>2. n \notin Others(chain, n - 1)
      BY DEF Others
    <2>3. Cardinality(Others(chain, n - 1) \union {n}) = Cardinality(Others(chain, n - 1)) + 1
      BY <1>1, <2>2, FS_AddElement
    <2> QED
      BY <2>1, <2>3, <1>1, <1>3
  <1> QED
    BY <1>2, <1>3

CInv == Counted /\ PathLengthsHold

\* A step that keeps the certificates of the chain keeps the sets of them too.
LEMMA OthersKept ==
    ASSUME chain \in Seq(Item), Len(chain') >= Len(chain),
           \A i \in 1..Len(chain) : chain'[i].crt = chain[i].crt,
           NEW n \in 0..Len(chain)
    PROVE  Others(chain', n) = Others(chain, n)
  <1>1. \A i \in 2..n : i \in 1..Len(chain)
    OBVIOUS
  <1> QED
    BY <1>1 DEF Others, SelfIssued

LEMMA PathLengthsKept ==
    ASSUME chain \in Seq(Item), Len(chain') = Len(chain),
           \A i \in 1..Len(chain) : chain'[i].crt = chain[i].crt,
           PathLengthsHold
    PROVE  PathLengthsHold'
  <1> SUFFICES ASSUME NEW j \in 2..Len(chain), chain[j].crt.pathlen > 0
               PROVE  Cardinality(Intermediates(j)') <= chain[j].crt.pathlen - 1
    BY DEF PathLengthsHold, Intermediates
  <1>1. \A i \in 2..(j - 1) : chain'[i].crt = chain[i].crt
    OBVIOUS
  <1>2. Intermediates(j)' = Intermediates(j)
    BY <1>1 DEF Intermediates
  <1> QED
    BY <1>2 DEF PathLengthsHold

LEMMA AddCounted ==
    ASSUME VInv, CInv, Add
    PROVE  CInv'
  <1> DEFINE last == Len(chain)
  <1>1. chain \in Seq(Item) /\ last \in Nat /\ selfCnt \in Nat
    BY DEF VInv, TypeOK
  <1>2. /\ Len(chain') = last + 1
        /\ \A i \in 1..last : chain'[i] = chain[i]
        /\ chain'[last + 1].crt = child
        /\ selfCnt' = selfCnt
        /\ pc = "add" /\ pc' /= "add"
    BY <1>1 DEF Add
  <1>3. chain = <<>> <=> last = 0
    BY <1>1
  <1>4. Others(chain', last) = Others(chain, last)
    BY <1>1, <1>2, OthersKept
  <1>5. last > 0 => Cardinality(Others(chain, last)) \in Nat
                    /\ Cardinality(Others(chain, last)) + selfCnt <= last - 1
                    /\ (child.pathlen > 0 => Cardinality(Others(chain, last)) <= child.pathlen - 1)
    BY <1>1, <1>2, <1>3, OthersFinite DEF CInv, Counted
  <1>6. Counted'
    <2>1. last = 0 => selfCnt = 0
      BY <1>3 DEF VInv, Places
    <2>2. Others(chain', Len(chain') - 1) = Others(chain, last)
      BY <1>1, <1>2, <1>4
    <2>0. last \in Nat /\ Len(chain') = last + 1
      BY <1>1, <1>2
    <2>5. Len(chain') = 1 => last = 0
      <3> DEFINE next == Len(chain')
      <3>1. last \in Nat /\ next = last + 1
        BY <2>0
      <3> HIDE DEF last, next
      <3>2. next = 1 => last = 0
        BY <3>1
      <3> QED
        BY <3>2 DEF next, last
    <2>3. pc' = "parent" /\ Len(chain') = 1 => selfCnt' = 0
      BY <1>2, <2>1, <2>5
    <2>4. Len(chain') > 1 =>
            Cardinality(Others(chain', Len(chain') - 1)) + selfCnt' <= Len(chain') - 2
      BY <1>1, <1>2, <1>5, <2>2
    <2> QED
      BY <1>2, <2>3, <2>4 DEF Counted
  <1>7. PathLengthsHold'
    <2> SUFFICES ASSUME NEW j \in 2..Len(chain'), chain'[j].crt.pathlen > 0
                 PROVE  Cardinality(Intermediates(j)') <= chain'[j].crt.pathlen - 1
      BY DEF PathLengthsHold
    <2>1. \A i \in 2..(j - 1) : chain'[i].crt = chain[i].crt
      BY <1>1, <1>2
    <2>2. Intermediates(j)' = Intermediates(j)
      BY <2>1 DEF Intermediates
    <2>3. CASE j \in 2..last
      <3>1. chain'[j].crt = chain[j].crt
        BY <2>3, <1>1, <1>2
      <3> QED
        BY <2>2, <2>3, <3>1 DEF CInv, PathLengthsHold
    <2>4. CASE j = last + 1
      <3>1. last > 0 /\ j - 1 = last
        BY <2>4, <1>1
      <3>2. Intermediates(j) = Others(chain, last)
        BY <3>1 DEF Intermediates, Others
      <3> QED
        BY <2>2, <2>4, <3>1, <3>2, <1>2, <1>5
    <2> QED
      BY <2>3, <2>4, <1>1, <1>2
  <1> QED
    BY <1>6, <1>7 DEF CInv

LEMMA GoToCounted ==
    ASSUME VInv, CInv, pc = "parent", NEW p \in Certificate, GoTo(p), PathLenAllows(p, Between)
    PROVE  CInv'
  <1> DEFINE last == Len(chain)
             flags == Flag(~SignedBy(child, p), "not_trusted") \union Flag(~p.size, "bad_key")
  <1>1. chain \in Seq(Item) /\ chain /= <<>> /\ last \in Nat /\ last >= 1 /\ selfCnt \in Nat
    BY DEF VInv, TypeOK, Places
  <1>2. flags \in SUBSET {"expired", "not_trusted", "bad_md", "bad_key"}
    BY DEF Flag
  <1>3. chain' = Flagged(flags) /\ child' = p /\ pc' = "add"
    BY DEF GoTo
  <1>4. Len(chain') = last /\ \A i \in 1..last : chain'[i].crt = chain[i].crt
    BY <1>1, <1>2, <1>3, FlaggedIs
  <1>5. PathLengthsHold'
    BY <1>1, <1>4, PathLengthsKept DEF CInv
  <1>6. Others(chain', last) = Others(chain, last)
    BY <1>1, <1>4, OthersKept
  <1>7. child = chain[last].crt
    BY DEF VInv, Places
  <1>8. p.pathlen \in Nat
    BY DEF Certificate
  <1>9. p.pathlen > 0 => p.pathlen - 1 >= last - 1 - selfCnt
    BY <1>1, <1>8 DEF PathLenAllows, Between
  <1>10. Cardinality(Others(chain, last)) \in Nat
    BY <1>1, OthersFinite
  <1>11. /\ Cardinality(Others(chain, last)) + selfCnt' <= last - 1
         /\ Cardinality(Others(chain, last)) + selfCnt <= last - 1
    <2>1. CASE last = 1
      <3>1. selfCnt = 0 /\ selfCnt' = 0
        BY <2>1 DEF CInv, Counted, GoTo
      <3> QED
        BY <2>1, <3>1, OthersNone
    <2>2. CASE last > 1
      <3>1. Cardinality(Others(chain, last - 1)) + selfCnt <= last - 2
        BY <2>2 DEF CInv, Counted
      <3>2. Cardinality(Others(chain, last)) <=
              Cardinality(Others(chain, last - 1)) + (IF SelfIssued(child) THEN 0 ELSE 1)
        BY <1>1, <1>7, <2>2, OthersNext
      <3>3. last - 1 \in Nat /\ Cardinality(Others(chain, last - 1)) \in Nat
        BY <1>1, OthersFinite
      <3>0. last \in Nat
        BY <1>1
      <3>4. last /= 1
        <4> HIDE DEF last
        <4> QED
          BY <2>2, <3>0
      <3>5. CASE SelfIssued(child)
        <4>1. selfCnt' = selfCnt + 1
          BY <3>4, <3>5 DEF GoTo
        <4>2. Cardinality(Others(chain, last)) <= Cardinality(Others(chain, last - 1))
          BY <3>2, <3>3, <3>5
        <4> QED
          BY <1>1, <1>10, <3>1, <3>3, <4>1, <4>2
      <3>6. CASE ~SelfIssued(child)
        <4>1. selfCnt' = selfCnt
          BY <3>6 DEF GoTo
        <4>2. Cardinality(Others(chain, last)) <= Cardinality(Others(chain, last - 1)) + 1
          BY <3>2, <3>6
        <4> QED
          BY <1>1, <1>10, <3>1, <3>3, <4>1, <4>2
      <3> QED
        BY <3>5, <3>6
    <2>0. last \in Nat /\ last >= 1
      BY <1>1
    <2>3. last = 1 \/ last > 1
      <3> HIDE DEF last
      <3> QED
        BY <2>0
    <2> QED
      BY <2>1, <2>2, <2>3
  <1>12. p.pathlen > 0 => Cardinality(Others(chain, last)) <= p.pathlen - 1
    BY <1>1, <1>8, <1>9, <1>10, <1>11
  <1>13. Counted'
    BY <1>1, <1>3, <1>4, <1>6, <1>11, <1>12 DEF Counted
  <1> QED
    BY <1>5, <1>13 DEF CInv

LEMMA StepCounted == VInv /\ CInv /\ [Next]_vars => CInv'
  <1> SUFFICES ASSUME VInv, CInv, [Next]_vars PROVE CInv'
    OBVIOUS
  <1>1. chain \in Seq(Item)
    BY DEF VInv, TypeOK
  <1>2. CASE Add
    BY <1>2, AddCounted
  <1>3. CASE NoParent
    <2>1. chain /= <<>> /\ chain' = Flagged({"not_trusted"}) /\ pc' = "merge"
      BY <1>3 DEF NoParent, VInv, Places
    <2>2. Len(chain') = Len(chain) /\ \A i \in 1..Len(chain) : chain'[i].crt = chain[i].crt
      BY <1>1, <2>1, FlaggedIs
    <2>3. PathLengthsHold'
      BY <1>1, <2>2, PathLengthsKept DEF CInv
    <2> QED
      BY <2>1, <2>3 DEF CInv, Counted
  <1>4. CASE TrustedParent
    <2>1. PICK i \in RootFor : GoTo(store[i])
      BY <1>4 DEF TrustedParent
    <2>2. store[i] \in Certificate /\ PathLenAllows(store[i], Between)
      BY RootFits DEF VInv, Suitable
    <2> QED
      BY <1>4, <2>1, <2>2, GoToCounted DEF TrustedParent
  <1>5. CASE ShownParent
    <2>1. PICK i \in NextShown : GoTo(shown[at + i])
      BY <1>5 DEF ShownParent
    <2>2. shown[at + i] \in Certificate
      BY NextFits DEF VInv
    <2>3. PathLenAllows(shown[at + i], Between)
      BY NextFits DEF VInv, Suitable
    <2> QED
      BY <1>5, <2>1, <2>2, <2>3, GoToCounted DEF ShownParent
  <1>6. ASSUME UNCHANGED <<chain, child, selfCnt>>, pc' \in {pc, "ok", "failed", "fatal"}
        PROVE  CInv'
    <2>1. PathLengthsHold'
      BY <1>1, <1>6, PathLengthsKept DEF CInv
    <2>2. Counted'
      BY <1>6 DEF CInv, Counted, Others
    <2> QED
      BY <2>1, <2>2 DEF CInv
  <1>7. CASE GiveUp
    BY <1>6, <1>7 DEF GiveUp
  <1>8. CASE Merge
    BY <1>6, <1>8 DEF Merge
  <1>9. CASE UNCHANGED vars
    BY <1>6, <1>9 DEF vars
  <1> QED
    BY <1>2, <1>3, <1>4, <1>5, <1>7, <1>8, <1>9 DEF Next

\* However the certificates are ordered and named, every path length of a
\* chain is kept to.
THEOREM ChainPathLengthsHold == Spec => []PathLengthsHold
  <1>1. Init => CInv
    <2> SUFFICES ASSUME Init PROVE CInv
      OBVIOUS
    <2>1. chain = <<>> /\ Len(chain) = 0 /\ pc = "add" /\ selfCnt = 0
      BY DEF Init
    <2>2. Counted
      BY <2>1 DEF Counted
    <2>3. PathLengthsHold
      BY <2>1 DEF PathLengthsHold
    <2> QED
      BY <2>2, <2>3 DEF CInv
  <1>2. CInv => PathLengthsHold
    BY DEF CInv
  <1> QED
    BY <1>1, <1>2, StepCounted, ChainIsVerified, PTL DEF Spec

------------------------------------------------------------------------------
(* Good chains *)

LEMMA LeastOf ==
    ASSUME NEW T, T \subseteq Nat, T /= {}
    PROVE  \E x \in T : \A y \in T : x <= y
  <1> DEFINE R == {ss \in Nat \X Nat : ss[1] < ss[2]}
  <1>1. IsWellFoundedOn(R, Nat)
    BY NatLessThanWellFounded DEF OpToRel
  <1>2. PICK x \in T : \A y \in T : <<y, x>> \notin R
    <2> HIDE DEF R
    <2> QED
      BY <1>1, WFMin
  <1>3. ASSUME NEW y \in T PROVE x <= y
    <2>1. x \in Nat /\ y \in Nat /\ <<y, x>> \notin {ss \in Nat \X Nat : ss[1] < ss[2]}
      BY <1>2
    <2>2. ~(y < x)
      BY <2>1
    <2> QED
      BY <2>1, <2>2
  <1> QED
    BY <1>3

\* Where a certificate issued itself another one, which x509_crt_verify_chain()
\* leaves out of the path lengths one turn late, there is no path length to keep.
NoRollover ==
    \A s \in Shown, t \in Stores : \A i \in 2..Len(s) :
        SelfIssued(s[i]) =>
            /\ \A j \in 2..Len(s) : s[j].subject = s[i].subject => s[j].pathlen = 0
            /\ \A j \in 1..Len(t) : t[j].subject = s[i].subject => t[j].pathlen = 0

Alike(c, d) ==
    /\ c.subject = d.subject /\ c.issuer = d.issuer
    /\ c.key = d.key /\ c.signer = d.signer
    /\ c.ca = d.ca /\ c.v3 = d.v3 /\ c.pathlen = d.pathlen
    /\ c.hash = d.hash /\ c.size = d.size

LEMMA SameIsAlike ==
    ASSUME NEW c \in Certificate, NEW d \in Certificate, SameButDates(c, d)
    PROVE  Alike(c, d)
  <1> DEFINE e == [c EXCEPT !.dated = d.dated]
  <1>1. /\ e.subject = c.subject /\ e.issuer = c.issuer
        /\ e.key = c.key /\ e.signer = c.signer
        /\ e.ca = c.ca /\ e.v3 = c.v3 /\ e.pathlen = c.pathlen
        /\ e.hash = c.hash /\ e.size = c.size
    BY DEF Certificate
  <1>2. e = d
    BY DEF SameButDates
  <1> QED
    BY <1>1, <1>2 DEF Alike

\* A search finds a parent if there is one, and one in date that is no further
\* on if that one is in date.
LEMMA ParentFound ==
    ASSUME NEW c, NEW list, Len(list) \in Nat, NEW top, NEW between,
           NEW j \in 1..Len(list), Suitable(c, list[j], top, between)
    PROVE  /\ FindParentIn(c, list, top, between) /= {}
           /\ list[j].dated =>
                \A i \in FindParentIn(c, list, top, between) : list[i].dated /\ i <= j
  <1> DEFINE suitable == Candidates(c, list, top, between)
             inDate == {i \in suitable : list[i].dated}
             best == IF inDate /= {} THEN inDate ELSE suitable
  <1>1. FindParentIn(c, list, top, between) = First(best)
    BY DEF FindParentIn
  <1>2. j \in suitable /\ best \subseteq Nat /\ best /= {}
    BY DEF Candidates
  <1>3. PICK x \in best : \A y \in best : x <= y
    <2> HIDE DEF best
    <2> QED
      BY <1>2, LeastOf
  <1>4. x \in First(best)
    BY <1>3 DEF First
  <1>5. ASSUME list[j].dated, NEW i \in First(best)
        PROVE  list[i].dated /\ i <= j
    <2>1. j \in inDate /\ best = inDate
      BY <1>2, <1>5
    <2> QED
      BY <2>1, <1>5 DEF First
  <1> QED
    BY <1>1, <1>4, <1>5

\* P and root are a chain to be found; without a look at dates only if there is
\* one version of each certificate.
GoodWay(P, root) ==
    /\ P \in SUBSET (1..Len(shown))
    /\ \E r \in 1..Len(store) : store[r] = root
    /\ Accepts(P, root)
    /\ Regular
    /\ shown[1].host
    /\ InDate(P, root) \/ OneVersion

UpTo(P, p) == {k \in P : k <= p}

\* child is the certificate of P at place p, or another version of it that comes
\* no later; the chain has the ones of P in front of it, and itself if known.
Stands(P, root, p, known) ==
    /\ p \in P
    /\ at \in 1..p
    /\ p > 1 => at > 1
    /\ Alike(shown[at], shown[p])
    /\ OneVersion => at = p
    /\ InDate(P, root) => shown[at].dated
    /\ Cardinality(UpTo(P, p)) = Len(chain) + (IF known THEN 0 ELSE 1)
    /\ IF p = 1 THEN selfCnt = 0
       ELSE Len(chain) = selfCnt + Cardinality(Below(P, p)) + (IF known THEN 2 ELSE 1)

OnlyDates(P, root) == IF InDate(P, root) THEN {} ELSE {"expired"}

OnWay(P, root) ==
    /\ \A i \in 1..Len(chain) : chain[i].flags \subseteq OnlyDates(P, root)
    /\ pc \in {"add", "parent"} /\ at > 0 => \E p : Stands(P, root, p, pc = "parent")
    /\ pc = "add" /\ at = 0 /\ InDate(P, root) => child.dated
    /\ pc /= "fatal"
    /\ pc \in {"ok", "failed"} => Issues \subseteq OnlyDates(P, root)
    /\ InDate(P, root) => pc /= "failed"

WayInv == \A P, root : GoodWay(P, root) => OnWay(P, root)

LEMMA WayKept ==
    ASSUME UNCHANGED <<shown, store>>, NEW CONSTANT P, NEW CONSTANT root
    PROVE  /\ GoodWay(P, root)' = GoodWay(P, root)
           /\ InDate(P, root)' = InDate(P, root)
           /\ OneVersion' = OneVersion
           /\ \A p : Below(P, p)' = Below(P, p)
  <1>1. InDate(P, root)' = InDate(P, root) /\ OneVersion' = OneVersion
    BY DEF InDate, OneVersion
  <1>2. \A p : Below(P, p)' = Below(P, p)
    BY DEF Below
  <1>3. \A i, c, j, top : Vouches(P, i, c, j, top)' = Vouches(P, i, c, j, top)
    BY DEF Vouches, Below
  <1>4. Accepts(P, root)' = Accepts(P, root)
    BY DEF Accepts, Vouches, Below
  <1>5. Regular' = Regular
    BY DEF Regular
  <1> QED
    BY <1>1, <1>2, <1>4, <1>5 DEF GoodWay

------------------------------------------------------------------------------
(* The certificates of P one after the other *)

LEMMA PlacesFinite ==
    ASSUME TypeOK, NEW P \in SUBSET (1..Len(shown)), NEW p
    PROVE  /\ IsFiniteSet(P) /\ Cardinality(P) \in Nat
           /\ IsFiniteSet(UpTo(P, p)) /\ Cardinality(UpTo(P, p)) \in Nat
           /\ IsFiniteSet(Below(P, p)) /\ Cardinality(Below(P, p)) \in Nat
           /\ Cardinality(UpTo(P, p)) <= Cardinality(P)
  <1>1. Len(shown) \in Nat
    BY ChainAssumption DEF TypeOK
  <1>2. IsFiniteSet(1..Len(shown))
    BY <1>1, FS_Interval
  <1>3. IsFiniteSet(P) /\ Cardinality(P) \in Nat
    BY <1>2, FS_Subset, FS_CardinalityType
  <1>4. UpTo(P, p) \in SUBSET P /\ Below(P, p) \in SUBSET P
    BY DEF UpTo, Below
  <1> QED
    BY <1>3, <1>4, FS_Subset, FS_CardinalityType

\* The last of them comes before the root, any other before the next.
LEMMA NextOf ==
    ASSUME TypeOK, NEW P \in SUBSET (1..Len(shown)), NEW p \in P
    PROVE  (\A k \in P : k <= p) \/ \E q \in P : Follows(P, p, q)
  <1>1. P \subseteq Nat
    OBVIOUS
  <1> DEFINE T == {k \in P : k > p}
  <1>2. CASE T = {}
    <2>1. \A k \in P : k \in Nat /\ p \in Nat /\ ~(k > p)
      BY <1>1, <1>2
    <2> QED
      BY <2>1
  <1>3. CASE T /= {}
    <2>1. T \subseteq Nat
      BY <1>1
    <2>2. PICK q \in T : \A k \in T : q <= k
      <3> HIDE DEF T
      <3> QED
        BY <1>3, <2>1, LeastOf
    <2>3. Follows(P, p, q)
      <3>1. q \in Nat /\ p \in Nat /\ p < q
        BY <1>1
      <3>2. \A k \in P : k <= p \/ k >= q
        BY <1>1, <2>2, <3>1
      <3> QED
        BY <3>1, <3>2 DEF Follows
    <2> QED
      BY <2>3
  <1> QED
    BY <1>2, <1>3

LEMMA NextCounts ==
    ASSUME TypeOK, NEW P \in SUBSET (1..Len(shown)), 1 \in P, NEW p \in P, NEW j \in Nat,
           Follows(P, p, j)
    PROVE  /\ p = 1 => Cardinality(Below(P, j)) = 0
           /\ p > 1 => Cardinality(Below(P, j)) =
                         Cardinality(Below(P, p)) + (IF SelfIssued(shown[p]) THEN 0 ELSE 1)
           /\ j \in P => Cardinality(UpTo(P, j)) = Cardinality(UpTo(P, p)) + 1
  <1>1. p \in Nat /\ p >= 1 /\ p < j
    BY DEF Follows
  <1>7. ASSUME NEW k \in P
        PROVE  k \in Nat /\ (k < j <=> k < p \/ k = p) /\ (k <= j <=> k <= p \/ k = j)
    <2>1. k \in Nat /\ (k <= p \/ k >= j)
      BY DEF Follows
    <2> QED
      BY <1>1, <2>1
  <1>2. IsFiniteSet(Below(P, p)) /\ IsFiniteSet(UpTo(P, p)) /\ Cardinality(Below(P, p)) \in Nat
        /\ Cardinality(UpTo(P, p)) \in Nat
    BY PlacesFinite
  <1>3. ASSUME p = 1 PROVE Cardinality(Below(P, j)) = 0
    <2>1. ASSUME NEW k \in P PROVE ~(1 < k /\ k < j)
      BY <1>1, <1>7, <1>3
    <2>2. Below(P, j) = {}
      BY <2>1 DEF Below
    <2> QED
      BY <2>2, FS_EmptySet
  <1>4. ASSUME p > 1, SelfIssued(shown[p]) PROVE Cardinality(Below(P, j)) = Cardinality(Below(P, p))
    <2>1. Below(P, j) = Below(P, p)
      BY <1>1, <1>7, <1>4 DEF Below
    <2> QED
      BY <2>1
  <1>5. ASSUME p > 1, ~SelfIssued(shown[p])
        PROVE  Cardinality(Below(P, j)) = Cardinality(Below(P, p)) + 1
    <2>1. Below(P, j) = Below(P, p) \union {p}
      BY <1>1, <1>7, <1>5 DEF Below
    <2>2. p \notin Below(P, p)
      BY <1>1 DEF Below
    <2> QED
      BY <2>1, <2>2, <1>2, FS_AddElement
  <1>6. ASSUME j \in P PROVE Cardinality(UpTo(P, j)) = Cardinality(UpTo(P, p)) + 1
    <2>1. UpTo(P, j) = UpTo(P, p) \union {j}
      BY <1>1, <1>7, <1>6 DEF UpTo
    <2>2. j \notin UpTo(P, p)
      BY <1>1 DEF UpTo
    <2> QED
      BY <2>1, <2>2, <1>2, FS_AddElement
  <1> QED
    BY <1>2, <1>3, <1>4, <1>5, <1>6

------------------------------------------------------------------------------
(* What the search finds on the way *)

\* A certificate that P goes on with from p is one that the code accepts as the
\* parent of child.
LEMMA Suits ==
    ASSUME VInv, pc = "parent", NEW P, NEW root, GoodWay(P, root), NEW p,
           Stands(P, root, p, TRUE), NEW c \in Certificate, NEW j \in Nat, NEW top \in BOOLEAN,
           Follows(P, p, j), Vouches(P, p, c, j, top),
           p > 1 /\ SelfIssued(shown[p]) /\ c.subject = shown[p].subject => c.pathlen = 0
    PROVE  /\ Suitable(child, c, top, Between)
           /\ child.issuer = c.subject
           /\ child.signer = c.key
  <1>1. Alike(shown[at], shown[p]) /\ child = shown[at] /\ at > 0 /\ at \in Nat
    BY DEF Stands, VInv, TypeOK, Places
  <1>2. IsParent(child, c, top) /\ SignedBy(child, c)
    BY <1>1 DEF Vouches, IsParent, SignedBy, Alike
  <1>3. PathLenAllows(c, Between)
    <2> SUFFICES ASSUME c.pathlen > 0 PROVE c.pathlen >= 1 + Between
      BY DEF PathLenAllows
    <2>1. Cardinality(Below(P, j)) <= c.pathlen - 1
      BY DEF Vouches
    <2>2. TypeOK /\ P \in SUBSET (1..Len(shown)) /\ 1 \in P /\ p \in P
      BY DEF VInv, GoodWay, Accepts, Stands
    <2>3. /\ p = 1 => Cardinality(Below(P, j)) = 0
          /\ p > 1 => Cardinality(Below(P, j)) =
                        Cardinality(Below(P, p)) + (IF SelfIssued(shown[p]) THEN 0 ELSE 1)
      BY <2>2, NextCounts
    <2>4. /\ Cardinality(Below(P, p)) \in Nat /\ Cardinality(Below(P, j)) \in Nat
          /\ Cardinality(UpTo(P, p)) \in Nat
      BY <2>2, PlacesFinite
    <2>5. Len(chain) \in Nat /\ selfCnt \in Nat /\ c.pathlen \in Nat /\ p \in Nat /\ p >= 1
      BY <2>2 DEF VInv, TypeOK, Certificate
    <2>6. CASE p = 1
      <3>1. UpTo(P, 1) = {1}
        <4>1. \A k \in P : k \in Nat /\ k >= 1
          BY <2>2
        <4>2. \A k \in P : k <= 1 <=> k = 1
          BY <4>1
        <4> QED
          BY <2>2, <4>2 DEF UpTo
      <3>2. Cardinality(UpTo(P, 1)) = 1
        BY <3>1, FS_Singleton
      <3>3. Len(chain) = 1 /\ selfCnt = 0
        BY <2>5, <2>6, <3>2 DEF Stands
      <3> QED
        BY <2>1, <2>3, <2>4, <2>5, <2>6, <3>3 DEF Between
    <2>7. CASE p > 1
      <3>1. Len(chain) = selfCnt + Cardinality(Below(P, p)) + 2
        BY <2>7 DEF Stands
      <3>2. ~SelfIssued(shown[p])
        <4>1. ASSUME SelfIssued(shown[p]) PROVE FALSE
          <5>1. c.subject = shown[p].subject
            BY <4>1 DEF Vouches, IsParent, SelfIssued
          <5> QED
            BY <2>5, <2>7, <4>1, <5>1
        <4> QED
          BY <4>1
      <3>3. Cardinality(Below(P, j)) = Cardinality(Below(P, p)) + 1
        BY <2>3, <2>7, <3>2
      <3> QED
        BY <2>1, <2>4, <2>5, <3>1, <3>3 DEF Between
    <2> QED
      BY <2>5, <2>6, <2>7
  <1> QED
    BY <1>2, <1>3 DEF Suitable, IsParent, SignedBy

LEMMA InLists ==
    ASSUME TypeOK
    PROVE  /\ \A i \in 1..Len(shown) : shown[i] \in Certificate
           /\ \A i \in 1..Len(store) : store[i] \in Certificate
           /\ Len(shown) \in Nat /\ Len(store) \in Nat
  BY ChainAssumption DEF TypeOK

\* Where P goes on with, and that it suits.
LEMMA WayOn ==
    ASSUME NoRollover, VInv, pc = "parent", NEW P, NEW root, GoodWay(P, root), NEW p,
           Stands(P, root, p, TRUE)
    PROVE  \/ /\ Suitable(child, root, TRUE, Between)
              /\ child.issuer = root.subject /\ child.signer = root.key
           \/ \E q \in P :
                /\ Follows(P, p, q)
                /\ Suitable(child, shown[q], FALSE, Between)
                /\ child.issuer = shown[q].subject /\ child.signer = shown[q].key
  <1>1. TypeOK /\ P \in SUBSET (1..Len(shown)) /\ p \in P /\ p \in Nat /\ p >= 1
    BY DEF VInv, GoodWay, Stands
  <1>2. shown \in Shown /\ store \in Stores
    BY DEF VInv, TypeOK
  <1>3. CASE \A k \in P : k <= p
    <2>1. Vouches(P, p, root, Len(shown) + 1, TRUE)
      BY <1>1, <1>3 DEF GoodWay, Accepts
    <2>2. Len(shown) + 1 \in Nat /\ Follows(P, p, Len(shown) + 1)
      BY <1>1, <1>3, InLists DEF Follows
    <2>3. PICK r \in 1..Len(store) : store[r] = root
      BY DEF GoodWay
    <2>4. root \in Certificate
      BY <1>1, <2>3, InLists
    <2>5. p > 1 /\ SelfIssued(shown[p]) /\ root.subject = shown[p].subject => root.pathlen = 0
      <3>1. p > 1 => p \in 2..Len(shown)
        BY <1>1
      <3> QED
        BY <1>2, <2>3, <3>1 DEF NoRollover
    <2> QED
      BY <2>1, <2>2, <2>4, <2>5, Suits
  <1>4. ASSUME NEW q \in P, Follows(P, p, q)
        PROVE  /\ Suitable(child, shown[q], FALSE, Between)
               /\ child.issuer = shown[q].subject /\ child.signer = shown[q].key
    <2>1. Vouches(P, p, shown[q], q, FALSE)
      BY <1>1, <1>4 DEF GoodWay, Accepts
    <2>2. q \in Nat /\ shown[q] \in Certificate
      BY <1>1, <1>4, InLists
    <2>3. p > 1 /\ SelfIssued(shown[p]) /\ shown[q].subject = shown[p].subject => shown[q].pathlen = 0
      <3>1. p > 1 => p \in 2..Len(shown) /\ q \in 2..Len(shown)
        BY <1>1, <1>4 DEF Follows
      <3> QED
        BY <1>2, <3>1 DEF NoRollover
    <2> QED
      BY <1>4, <2>1, <2>2, <2>3, Suits
  <1> QED
    BY <1>1, <1>3, <1>4, NextOf

\* A root that is taken leaves nothing but a date to complain about.
LEMMA RootIsGood ==
    ASSUME NoRollover, VInv, pc = "parent", NEW P, NEW root, GoodWay(P, root), NEW p,
           Stands(P, root, p, TRUE), NEW i \in RootFor
    PROVE  /\ SignedBy(child, store[i])
           /\ store[i].size
           /\ InDate(P, root) => store[i].dated
  <1>1. /\ TypeOK /\ i \in 1..Len(store) /\ store[i] \in Certificate
        /\ store[i].subject = child.issuer /\ store[i].key = child.signer
        /\ SignedBy(child, store[i])
    BY RootFits DEF VInv, Suitable, IsParent, SignedBy
  <1>2. Len(store) \in Nat /\ P \in SUBSET (1..Len(shown)) /\ Regular
    BY <1>1, InLists DEF GoodWay
  <1>3. PICK r \in 1..Len(store) : store[r] = root
    BY DEF GoodWay
  <1>4. root \in Certificate /\ root.size /\ \A k \in P : shown[k].size
    BY <1>1, <1>3, InLists DEF GoodWay, Accepts
  <1>5. ASSUME NEW k \in 1..Len(store), store[k].dated, Suitable(child, store[k], TRUE, Between)
        PROVE  store[i].dated
    BY <1>2, <1>5, ParentFound DEF RootFor
  <1>6. CASE /\ Suitable(child, root, TRUE, Between)
             /\ child.issuer = root.subject /\ child.signer = root.key
    <2>1. Alike(store[i], root)
      BY <1>1, <1>2, <1>3, <1>4, <1>6, SameIsAlike DEF Regular
    <2>2. InDate(P, root) => store[i].dated
      BY <1>3, <1>5, <1>6 DEF InDate
    <2> QED
      BY <1>1, <1>4, <2>1, <2>2 DEF Alike
  <1>7. ASSUME NEW q \in P, Follows(P, p, q), Suitable(child, shown[q], FALSE, Between),
               child.issuer = shown[q].subject, child.signer = shown[q].key
        PROVE  store[i].size /\ (InDate(P, root) => store[i].dated)
    <2>1. q \in 2..Len(shown) /\ shown[q] \in Certificate
      <3>1. q \in 1..Len(shown) /\ p \in 1..Len(shown) /\ p < q
        BY <1>2, <1>7 DEF Stands, Follows
      <3> QED
        BY <1>1, <3>1, InLists
    <2>2. SameButDates(shown[q], store[i]) /\ \E k \in 1..Len(store) : store[k] = shown[q]
      BY <1>1, <1>2, <1>7, <2>1 DEF Regular
    <2>3. store[i].size
      BY <1>1, <1>4, <1>7, <2>1, <2>2, SameIsAlike DEF Alike
    <2>4. Suitable(child, shown[q], TRUE, Between)
      BY <1>7 DEF Suitable, IsParent, SignedBy
    <2>5. InDate(P, root) => store[i].dated
      BY <1>5, <2>2, <2>4 DEF InDate
    <2> QED
      BY <2>3, <2>5
  <1> QED
    BY <1>1, <1>6, <1>7, WayOn

LEMMA RestIs ==
    ASSUME TypeOK, NEW q \in 1..Len(shown), at < q
    PROVE  LET rest == SubSeq(shown, at + 1, Len(shown))
           IN  Len(rest) \in Nat /\ q - at \in 1..Len(rest) /\ rest[q - at] = shown[q]
  <1> DEFINE rest == SubSeq(shown, at + 1, Len(shown))
  <1>1. shown \in Seq(Certificate) /\ at \in Nat /\ at <= Len(shown) /\ Len(shown) \in Nat
    BY ChainAssumption DEF TypeOK
  <1>2. Len(rest) = Len(shown) - at
    BY <1>1
  <1>3. q - at \in 1..Len(rest) /\ Len(rest) \in Nat
    BY <1>1, <1>2
  <1>4. rest[q - at] = shown[q]
    BY <1>1, <1>2, <1>3
  <1> QED
    BY <1>3, <1>4

\* Without a root the search comes to the next certificate of P, or to another
\* version of it that is not further on.
LEMMA NextIsGood ==
    ASSUME NoRollover, VInv, pc = "parent", NEW P, NEW root, GoodWay(P, root), NEW p,
           Stands(P, root, p, TRUE), RootFor = {}
    PROVE  \E q \in P :
             /\ Follows(P, p, q)
             /\ NextShown /= {}
             /\ \A i \in NextShown :
                 /\ SignedBy(child, shown[at + i])
                 /\ shown[at + i].size
                 /\ Alike(shown[at + i], shown[q])
                 /\ at + i \in 1..q /\ at + i > 1
                 /\ OneVersion => at + i = q
                 /\ InDate(P, root) => shown[at + i].dated
  <1> DEFINE rest == SubSeq(shown, at + 1, Len(shown))
  <1>1. TypeOK /\ P \in SUBSET (1..Len(shown)) /\ Regular /\ Len(store) \in Nat /\ Len(shown) \in Nat
    BY InLists DEF VInv, GoodWay
  <1>2. ~Suitable(child, root, TRUE, Between)
    <2>1. PICK r \in 1..Len(store) : store[r] = root
      BY DEF GoodWay
    <2> QED
      BY <1>1, <2>1, ParentFound DEF RootFor
  <1>3. PICK q \in P :
          /\ Follows(P, p, q)
          /\ Suitable(child, shown[q], FALSE, Between)
          /\ child.issuer = shown[q].subject /\ child.signer = shown[q].key
    BY <1>2, WayOn
  <1>4. q \in 2..Len(shown) /\ at < q /\ at \in Nat /\ at >= 1
    <2>1. q \in 1..Len(shown) /\ p \in 1..Len(shown) /\ p < q /\ at \in 1..p
      BY <1>1, <1>3 DEF Stands, Follows
    <2> QED
      BY <1>1, <2>1
  <1>5. Len(rest) \in Nat /\ q - at \in 1..Len(rest) /\ rest[q - at] = shown[q]
    BY <1>1, <1>4, RestIs
  <1>6. NextShown = FindParentIn(child, rest, FALSE, Between)
    BY DEF NextShown
  <1> HIDE DEF rest
  <1>7. NextShown /= {} /\ (shown[q].dated => \A i \in NextShown : rest[i].dated /\ i <= q - at)
    BY <1>3, <1>5, <1>6, ParentFound
  <1>8. ASSUME NEW i \in NextShown
        PROVE  /\ SignedBy(child, shown[at + i])
               /\ shown[at + i].size
               /\ Alike(shown[at + i], shown[q])
               /\ at + i \in 1..q /\ at + i > 1
               /\ OneVersion => at + i = q
               /\ InDate(P, root) => shown[at + i].dated
    <2>1. /\ i \in Nat /\ i > 0 /\ at + i \in 1..Len(shown) /\ shown[at + i] \in Certificate
          /\ Suitable(child, shown[at + i], FALSE, Between)
      BY <1>1, <1>8, NextFits
    <2>2. at + i \in 2..Len(shown) /\ at + i > 1
      BY <1>4, <2>1
    <2>3. shown[at + i].subject = shown[q].subject
      BY <1>3, <2>1 DEF Suitable, IsParent
    <2>4. Alike(shown[at + i], shown[q])
      BY <1>1, <1>4, <2>1, <2>2, <2>3, InLists, SameIsAlike DEF Regular
    <2>5. SignedBy(child, shown[at + i]) /\ shown[at + i].size
      BY <1>3, <2>4 DEF SignedBy, Alike, GoodWay, Accepts
    <2>6. OneVersion => at + i = q
      BY <1>4, <2>2, <2>3 DEF OneVersion
    <2>7. InDate(P, root) => shown[at + i].dated /\ i <= q - at
      <3>1. rest[i] = shown[at + i]
        <4>1. at < at + i /\ (at + i) - at = i
          BY <1>4, <2>1
        <4>2. rest[(at + i) - at] = shown[at + i]
          BY <1>1, <2>1, <4>1, RestIs DEF rest
        <4> QED
          BY <4>1, <4>2
      <3> QED
        BY <1>7, <3>1 DEF InDate
    <2>8. at + i \in 1..q
      <3>1. CASE OneVersion
        BY <1>4, <2>1, <2>6, <3>1
      <3>2. CASE InDate(P, root)
        BY <1>4, <2>1, <2>7, <3>2
      <3> QED
        BY <3>1, <3>2 DEF GoodWay
    <2> QED
      BY <2>2, <2>4, <2>5, <2>6, <2>7, <2>8
  <1> QED
    BY <1>3, <1>7, <1>8

\* There is room for it.
LEMMA WayHasRoom ==
    ASSUME VInv, NEW P, NEW root, GoodWay(P, root), NEW p, Stands(P, root, p, TRUE),
           NEW q \in P, Follows(P, p, q)
    PROVE  ~TooLong
  <1>1. TypeOK /\ P \in SUBSET (1..Len(shown)) /\ 1 \in P /\ p \in P /\ q \in Nat
    BY DEF VInv, GoodWay, Accepts, Stands
  <1>2. Cardinality(UpTo(P, q)) = Cardinality(UpTo(P, p)) + 1
    BY <1>1, NextCounts
  <1>3. /\ Cardinality(UpTo(P, q)) <= Cardinality(P) /\ Cardinality(P) \in Nat
        /\ Cardinality(UpTo(P, p)) \in Nat
    BY <1>1, PlacesFinite
  <1>4. Cardinality(P) <= MaxIntermediate + 1 /\ MaxIntermediate \in Nat
    BY ChainAssumption DEF GoodWay, Accepts
  <1>5. Len(chain) = Cardinality(UpTo(P, p)) /\ Len(chain) \in Nat
    BY <1>1, <1>3 DEF Stands, TypeOK
  <1> QED
    BY <1>2, <1>3, <1>4, <1>5 DEF TooLong

------------------------------------------------------------------------------
(* Each step stays on the way *)

LEMMA InitWay == Init => WayInv
  <1> SUFFICES ASSUME Init, NEW P, NEW root, GoodWay(P, root) PROVE OnWay(P, root)
    BY DEF WayInv
  <1>1. chain = <<>> /\ Len(chain) = 0 /\ pc = "add" /\ at = 1 /\ selfCnt = 0
    BY DEF Init
  <1>2. 1 \in P /\ P \in SUBSET (1..Len(shown))
    BY DEF GoodWay, Accepts
  <1>3. UpTo(P, 1) = {1}
    <2>1. \A k \in P : k \in Nat /\ k >= 1
      BY <1>2
    <2>2. \A k \in P : k <= 1 <=> k = 1
      BY <2>1
    <2> QED
      BY <1>2, <2>2 DEF UpTo
  <1>4. Stands(P, root, 1, FALSE)
    <2>1. Cardinality(UpTo(P, 1)) = 1
      BY <1>3, FS_Singleton
    <2>2. InDate(P, root) => shown[1].dated
      BY <1>2 DEF InDate
    <2> QED
      BY <1>1, <1>2, <2>1, <2>2 DEF Stands, Alike
  <1>5. (pc = "parent") = FALSE
    BY <1>1
  <1>6. \E p : Stands(P, root, p, pc = "parent")
    BY <1>4, <1>5
  <1>7. \A i \in 1..Len(chain) : FALSE
    BY <1>1
  <1> QED
    BY <1>1, <1>6, <1>7 DEF OnWay

LEMMA AddWay ==
    ASSUME VInv, Add, NEW CONSTANT P, NEW CONSTANT root, GoodWay(P, root), OnWay(P, root)
    PROVE  OnWay(P, root)'
  <1> DEFINE flags == Flag(~child.dated, "expired") \union Flag(at > 0 /\ ~child.hash, "bad_md")
             item == [crt |-> child, flags |-> flags]
  <1>1. /\ pc = "add" /\ pc' \in {"parent", "merge"}
        /\ chain' = Append(chain, item) /\ UNCHANGED <<shown, store, child, at, selfCnt>>
        /\ at = 0 => pc' = "merge"
    BY DEF Add
  <1>2. chain \in Seq(Item) /\ Len(chain) \in Nat /\ at \in Nat /\ (at > 0 => child = shown[at])
    BY DEF VInv, TypeOK, Places
  <1>3. /\ Len(chain') = Len(chain) + 1
        /\ chain'[Len(chain) + 1] = item
        /\ \A i \in 1..Len(chain) : chain'[i] = chain[i]
    <2>1. item \in Item
      BY DEF Item, Flag, VInv, TypeOK
    <2> QED
      BY <1>1, <1>2, <2>1
  <1>4. InDate(P, root)' = InDate(P, root) /\ OneVersion' = OneVersion
        /\ \A p : Below(P, p)' = Below(P, p)
    BY <1>1, WayKept
  <1>5. flags \subseteq OnlyDates(P, root)
    <2>1. CASE at = 0
      BY <1>1, <2>1 DEF Flag, OnWay, OnlyDates
    <2>2. CASE at > 0
      <3>1. PICK p : Stands(P, root, p, FALSE)
        BY <1>1, <2>2 DEF OnWay
      <3>2. child.hash /\ (InDate(P, root) => child.dated)
        BY <1>2, <2>2, <3>1 DEF Stands, Alike, GoodWay, Accepts
      <3> QED
        BY <3>2 DEF Flag, OnlyDates
    <2> QED
      BY <1>2, <2>1, <2>2
  <1>6. \A i \in 1..Len(chain') : chain'[i].flags \subseteq OnlyDates(P, root)'
    <2>1. OnlyDates(P, root)' = OnlyDates(P, root)
      BY <1>4 DEF OnlyDates
    <2>2. ASSUME NEW i \in 1..Len(chain') PROVE chain'[i].flags \subseteq OnlyDates(P, root)
      <3>1. i \in 1..Len(chain) \/ i = Len(chain) + 1
        BY <1>2, <1>3
      <3>2. CASE i \in 1..Len(chain)
        BY <1>3, <3>2 DEF OnWay
      <3>3. CASE i = Len(chain) + 1
        BY <1>3, <1>5, <3>3
      <3> QED
        BY <3>1, <3>2, <3>3
    <2> QED
      BY <2>1, <2>2
  <1>7. ASSUME pc' = "parent" PROVE \E p : Stands(P, root, p, TRUE)'
    <2>1. at > 0
      BY <1>1, <1>2, <1>7
    <2>2. PICK p : Stands(P, root, p, FALSE)
      BY <1>1, <2>1 DEF OnWay
    <2>3. UpTo(P, p)' = UpTo(P, p)
      BY DEF UpTo
    <2>4. Stands(P, root, p, TRUE)'
      <3>1. Cardinality(Below(P, p)) \in Nat /\ Cardinality(UpTo(P, p)) \in Nat
        BY PlacesFinite DEF VInv, GoodWay
      <3>2. selfCnt \in Nat
        BY DEF VInv, TypeOK
      <3>3. Cardinality(UpTo(P, p)) = Len(chain')
        BY <1>2, <1>3, <2>2, <3>1 DEF Stands
      <3>4. IF p = 1 THEN selfCnt = 0 ELSE Len(chain') = selfCnt + Cardinality(Below(P, p)) + 2
        BY <1>2, <1>3, <2>2, <3>1, <3>2 DEF Stands
      <3> QED
        BY <1>1, <1>4, <2>2, <2>3, <3>1, <3>3, <3>4 DEF Stands, Alike
    <2> QED
      BY <2>4
  <1> QED
    BY <1>1, <1>6, <1>7 DEF OnWay

\* Going on with a parent adds no issue, as it is one of those P asks for.
LEMMA GoToFlags ==
    ASSUME VInv, pc = "parent", NEW c \in Certificate, GoTo(c), SignedBy(child, c), c.size,
           NEW allowed, \A i \in 1..Len(chain) : chain[i].flags \subseteq allowed
    PROVE  /\ Len(chain') = Len(chain)
           /\ \A i \in 1..Len(chain') : chain'[i].flags \subseteq allowed
  <1> DEFINE flags == Flag(~SignedBy(child, c), "not_trusted") \union Flag(~c.size, "bad_key")
             last == Len(chain)
  <1>1. chain \in Seq(Item) /\ chain /= <<>> /\ last \in 1..last
    BY DEF VInv, TypeOK, Places
  <1>2. flags = {}
    BY DEF Flag
  <1>3. chain' = [chain EXCEPT ![last].flags = @ \union {}]
    BY <1>2 DEF GoTo, Flagged
  <1>4. chain[last].flags \union {} = chain[last].flags
    OBVIOUS
  <1>5. Len(chain') = last
    BY <1>1, <1>3
  <1>6. ASSUME NEW i \in 1..last PROVE chain'[i].flags = chain[i].flags
    <2>1. chain[i] \in Item
      BY <1>1
    <2>2. chain'[i] = IF i = last THEN [chain[i] EXCEPT !.flags = @ \union {}] ELSE chain[i]
      BY <1>1, <1>3
    <2> QED
      BY <2>1, <2>2 DEF Item
  <1> QED
    BY <1>5, <1>6

LEMMA TrustedParentWay ==
    ASSUME NoRollover, VInv, TrustedParent, NEW CONSTANT P, NEW CONSTANT root,
           GoodWay(P, root), OnWay(P, root)
    PROVE  OnWay(P, root)'
  <1>1. PICK i \in RootFor : GoTo(store[i])
    BY DEF TrustedParent
  <1>2. pc = "parent" /\ at' = 0 /\ at > 0 /\ (pc = "parent") = TRUE
    BY DEF TrustedParent, VInv, Places
  <1>3. PICK p : Stands(P, root, p, TRUE)
    BY <1>2 DEF OnWay
  <1>4. /\ SignedBy(child, store[i]) /\ store[i].size /\ (InDate(P, root) => store[i].dated)
        /\ store[i] \in Certificate
    BY <1>2, <1>3, RootIsGood, RootFits DEF VInv
  <1>5. pc' = "add" /\ child' = store[i] /\ UNCHANGED <<shown, store>>
    BY <1>1 DEF GoTo
  <1>6. InDate(P, root)' = InDate(P, root) /\ OnlyDates(P, root)' = OnlyDates(P, root)
    BY <1>5, WayKept DEF OnlyDates
  <1>7. \A k \in 1..Len(chain') : chain'[k].flags \subseteq OnlyDates(P, root)
    BY <1>1, <1>2, <1>4, GoToFlags DEF OnWay
  <1> QED
    BY <1>2, <1>4, <1>5, <1>6, <1>7 DEF OnWay

LEMMA ShownParentWay ==
    ASSUME NoRollover, VInv, ShownParent, NEW CONSTANT P, NEW CONSTANT root,
           GoodWay(P, root), OnWay(P, root)
    PROVE  OnWay(P, root)'
  <1>1. PICK i \in NextShown : at' = at + i /\ GoTo(shown[at + i])
    BY DEF ShownParent
  <1>2. pc = "parent" /\ RootFor = {} /\ at > 0 /\ (pc = "parent") = TRUE
    BY DEF ShownParent, VInv, Places
  <1>3. PICK p : Stands(P, root, p, TRUE)
    BY <1>2 DEF OnWay
  <1>4. PICK q \in P :
          /\ Follows(P, p, q)
          /\ NextShown /= {}
          /\ \A n \in NextShown :
              /\ SignedBy(child, shown[at + n])
              /\ shown[at + n].size
              /\ Alike(shown[at + n], shown[q])
              /\ at + n \in 1..q /\ at + n > 1
              /\ OneVersion => at + n = q
              /\ InDate(P, root) => shown[at + n].dated
    BY <1>2, <1>3, NextIsGood
  <1>5. shown[at + i] \in Certificate
    BY NextFits DEF VInv
  <1>6. pc' = "add" /\ child' = shown[at + i] /\ UNCHANGED <<shown, store>>
        /\ selfCnt' = IF Len(chain) /= 1 /\ SelfIssued(child) THEN selfCnt + 1 ELSE selfCnt
    BY <1>1 DEF GoTo
  <1>7. InDate(P, root)' = InDate(P, root) /\ OnlyDates(P, root)' = OnlyDates(P, root)
        /\ OneVersion' = OneVersion /\ \A n : Below(P, n)' = Below(P, n)
    BY <1>6, WayKept DEF OnlyDates
  <1>8. Len(chain') = Len(chain) /\ \A k \in 1..Len(chain') : chain'[k].flags \subseteq OnlyDates(P, root)
    BY <1>1, <1>2, <1>4, <1>5, GoToFlags DEF OnWay
  <1>9. TypeOK /\ P \in SUBSET (1..Len(shown)) /\ 1 \in P /\ p \in P /\ p \in Nat /\ p >= 1
        /\ q \in Nat /\ p < q
    <2>1. TypeOK /\ P \in SUBSET (1..Len(shown)) /\ 1 \in P /\ p \in P /\ p < q
      BY <1>3, <1>4 DEF VInv, GoodWay, Accepts, Stands, Follows
    <2> QED
      BY <2>1
  <1>10. /\ p = 1 => Cardinality(Below(P, q)) = 0
         /\ p > 1 => Cardinality(Below(P, q)) =
                       Cardinality(Below(P, p)) + (IF SelfIssued(shown[p]) THEN 0 ELSE 1)
         /\ Cardinality(UpTo(P, q)) = Cardinality(UpTo(P, p)) + 1
    BY <1>4, <1>9, NextCounts
  <1>11. /\ Cardinality(Below(P, p)) \in Nat /\ Cardinality(UpTo(P, p)) \in Nat
         /\ Len(chain) \in Nat /\ selfCnt \in Nat
    <2>1. Cardinality(Below(P, p)) \in Nat /\ Cardinality(UpTo(P, p)) \in Nat
      BY <1>9, PlacesFinite
    <2>2. Len(chain) \in Nat /\ selfCnt \in Nat
      BY <1>9 DEF TypeOK
    <2> QED
      BY <2>1, <2>2
  <1>12. Cardinality(UpTo(P, q)) = Len(chain) + 1
    BY <1>3, <1>10, <1>11 DEF Stands
  <1>13. Len(chain) = selfCnt' + Cardinality(Below(P, q)) + 1
    <2>1. CASE p = 1
      <3>1. UpTo(P, 1) = {1}
        <4>1. \A k \in P : k \in Nat /\ k >= 1
          BY <1>9
        <4>2. \A k \in P : k <= 1 <=> k = 1
          BY <4>1
        <4> QED
          BY <1>9, <4>2 DEF UpTo
      <3>2. Cardinality(UpTo(P, p)) = 1
        BY <2>1, <3>1, FS_Singleton
      <3>3. Len(chain) = 1 /\ selfCnt = 0
        BY <1>3, <1>11, <2>1, <3>2 DEF Stands
      <3> QED
        BY <1>6, <1>10, <2>1, <3>3
    <2>2. CASE p > 1
      <3>1. Len(chain) = selfCnt + Cardinality(Below(P, p)) + 2
        BY <1>3, <2>2 DEF Stands
      <3>2. SelfIssued(child) <=> SelfIssued(shown[p])
        BY <1>2, <1>3 DEF VInv, Places, Stands, Alike, SelfIssued
      <3>3. Len(chain) /= 1
        BY <1>11, <3>1
      <3>4. CASE SelfIssued(child)
        <4>1. selfCnt' = selfCnt + 1 /\ Cardinality(Below(P, q)) = Cardinality(Below(P, p))
          BY <1>6, <1>10, <1>11, <2>2, <3>2, <3>3, <3>4
        <4> QED
          BY <1>11, <3>1, <4>1
      <3>5. CASE ~SelfIssued(child)
        <4>1. selfCnt' = selfCnt /\ Cardinality(Below(P, q)) = Cardinality(Below(P, p)) + 1
          BY <1>6, <1>10, <2>2, <3>2, <3>3, <3>5
        <4> QED
          BY <1>11, <3>1, <4>1
      <3> QED
        BY <3>4, <3>5
    <2> QED
      BY <1>9, <2>1, <2>2
  <1>14. Stands(P, root, q, FALSE)'
    <2>1. UpTo(P, q)' = UpTo(P, q) /\ q /= 1
      BY <1>9 DEF UpTo
    <2>2. Alike(shown[at + i], shown[q])' = Alike(shown[at + i], shown[q])'
      OBVIOUS
    <2> QED
      BY <1>1, <1>4, <1>6, <1>7, <1>8, <1>12, <1>13, <2>1 DEF Stands, Alike
  <1>15. (pc' = "parent") = FALSE
    BY <1>6
  <1>16. \E n : Stands(P, root, n, pc = "parent")'
    BY <1>14, <1>15 DEF Stands
  <1>17. at' /= 0
    BY <1>1, <1>4
  <1> QED
    BY <1>6, <1>7, <1>8, <1>16, <1>17 DEF OnWay

LEMMA NoDeadEnd ==
    ASSUME NoRollover, VInv, pc = "parent", NEW P, NEW root, GoodWay(P, root), OnWay(P, root)
    PROVE  ~NoParent /\ ~GiveUp
  <1>1. (pc = "parent") = TRUE /\ at > 0
    BY DEF VInv, Places
  <1>2. PICK p : Stands(P, root, p, TRUE)
    BY <1>1 DEF OnWay
  <1>3. CASE RootFor /= {}
    BY <1>3 DEF NoParent, GiveUp
  <1>4. CASE RootFor = {}
    <2>1. NextShown /= {} /\ \E q \in P : Follows(P, p, q)
      BY <1>2, <1>4, NextIsGood
    <2>2. ~TooLong
      BY <1>2, <2>1, WayHasRoom
    <2> QED
      BY <2>1, <2>2 DEF NoParent, GiveUp
  <1> QED
    BY <1>3, <1>4

LEMMA MergeWay ==
    ASSUME VInv, Merge, NEW CONSTANT P, NEW CONSTANT root, GoodWay(P, root), OnWay(P, root)
    PROVE  OnWay(P, root)'
  <1>1. /\ pc' = IF Issues = {} THEN "ok" ELSE "failed"
        /\ UNCHANGED <<shown, store, chain, child, at, selfCnt>>
    BY DEF Merge
  <1>2. Issues' = Issues
    BY <1>1, SameIssues
  <1>3. InDate(P, root)' = InDate(P, root) /\ OnlyDates(P, root)' = OnlyDates(P, root)
    BY <1>1, WayKept DEF OnlyDates
  <1>4. Issues \subseteq OnlyDates(P, root)
    <2>1. shown[1].host /\ shown[1].size
      BY DEF GoodWay, Accepts
    <2>2. UNION {chain[i].flags : i \in 1..Len(chain)} \subseteq OnlyDates(P, root)
      BY DEF OnWay
    <2> QED
      BY <2>1, <2>2 DEF Issues, Flag
  <1>5. InDate(P, root) => pc' = "ok"
    BY <1>1, <1>4 DEF OnlyDates
  <1> QED
    BY <1>1, <1>2, <1>3, <1>4, <1>5 DEF OnWay

LEMMA StepWay == ASSUME NoRollover, VInv, WayInv, [Next]_vars PROVE WayInv'
  <1> SUFFICES ASSUME NEW CONSTANT P, NEW CONSTANT root, GoodWay(P, root)' PROVE OnWay(P, root)'
    BY DEF WayInv
  <1>1. UNCHANGED <<shown, store>>
    BY DEF Next, vars, Add, NoParent, TrustedParent, ShownParent, GiveUp, Merge, GoTo
  <1>2. GoodWay(P, root) /\ OnWay(P, root)
    BY <1>1, WayKept DEF WayInv
  <1>3. CASE Add
    BY <1>2, <1>3, AddWay
  <1>4. CASE NoParent
    BY <1>2, <1>4, NoDeadEnd DEF NoParent
  <1>5. CASE TrustedParent
    BY <1>2, <1>5, TrustedParentWay
  <1>6. CASE ShownParent
    BY <1>2, <1>6, ShownParentWay
  <1>7. CASE GiveUp
    BY <1>2, <1>7, NoDeadEnd DEF GiveUp
  <1>8. CASE Merge
    BY <1>2, <1>8, MergeWay
  <1>9. CASE UNCHANGED vars
    <2>1. UNCHANGED <<shown, store, chain, child, at, selfCnt, pc>>
      BY <1>9 DEF vars
    <2>2. Issues' = Issues
      BY <2>1, SameIssues
    <2>3. InDate(P, root)' = InDate(P, root) /\ OnlyDates(P, root)' = OnlyDates(P, root)
          /\ OneVersion' = OneVersion /\ \A n : Below(P, n)' = Below(P, n)
      BY <2>1, WayKept DEF OnlyDates
    <2>4. \A p, known : Stands(P, root, p, known)' = Stands(P, root, p, known)
      BY <2>1, <2>3 DEF Stands, Alike, UpTo
    <2> QED
      BY <1>2, <2>1, <2>2, <2>3, <2>4 DEF OnWay
  <1> QED
    BY <1>3, <1>4, <1>5, <1>6, <1>7, <1>8, <1>9 DEF Next

\* A broker that shows a good chain is verified, among whatever other
\* certificates and versions of these it and the store have; and if only dates
\* are wrong nothing else is reported (x509_crt_find_parent_in(),
\* x509_crt_verify_chain()).
THEOREM ChainGoodIsVerified == ASSUME NoRollover PROVE Spec => []GoodChainIsVerified
  <1>1. WayInv => GoodChainIsVerified
    <2> SUFFICES ASSUME WayInv, Regular, shown[1].host,
                        NEW P \in SUBSET (1..Len(shown)), NEW r \in 1..Len(store),
                        Accepts(P, store[r])
                 PROVE  /\ InDate(P, store[r]) => pc \notin {"failed", "fatal"}
                        /\ OneVersion => /\ pc /= "fatal"
                                         /\ pc \in {"ok", "failed"} => Issues \subseteq {"expired"}
      BY DEF GoodChainIsVerified
    <2>1. InDate(P, store[r]) \/ OneVersion => OnWay(P, store[r])
      BY DEF WayInv, GoodWay
    <2> QED
      BY <2>1 DEF OnWay, OnlyDates
  <1>2. VInv /\ WayInv /\ [Next]_vars => WayInv'
    BY StepWay
  <1> QED
    BY <1>1, <1>2, InitWay, ChainIsVerified, PTL DEF Spec
==============================================================================
