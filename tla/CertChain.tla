------------------------------ MODULE CertChain ------------------------------
(***************************************************************************)
(* The certificates of a target: TLSTransport.connect hands what the       *)
(* server presented to util.get_certificates, which looks for trusted      *)
(* roots, walks down from them and gives every certificate its class; the  *)
(* evaluations basic_constraints_path_length and valid_certificate_chain   *)
(* judge the result.  A certificate is its fingerprint, its key            *)
(* identifiers, the path length it allows and the type of its key.         *)
(***************************************************************************)
EXTENDS Naturals, Sequences, FiniteSets, SequencesExt

CONSTANTS
  MaxDepth,   \* MAX_DEPTH, smaller here than the code's 8
  NoKey       \* a certificate without the key identifier, or without a length

ASSUME CertChainAssumption == MaxDepth \in Nat \ {0}

VARIABLES
  presented,     \* what the server sent, its own certificate first
  store,         \* the trust stores: key identifier -> root certificate
  certificates   \* tls_state.certificates: the classed certificates

chainVars == <<presented, store, certificates>>

Entry(c, kind) == [cert |-> c, kind |-> kind]

(* Mutant: a second certificate signed by the same key replaces the first.  *)
LookupLast(leaf, certs) ==
  LET signed == <<leaf>> \o SelectSeq(certs, LAMBDA c : c.aki # NoKey)
  IN [k \in {signed[i].aki : i \in DOMAIN signed} |-> <<Last(SelectSeq(signed, LAMBDA c : c.aki = k))>>]

\* aki_lookup: the certificates each key has signed.  The leaf is put there
\* first, and once more as the first one the server presented.
Lookup(leaf, certs) ==
  LET signed == <<leaf>> \o SelectSeq(certs, LAMBDA c : c.aki # NoKey)
  IN [k \in {signed[i].aki : i \in DOMAIN signed} |-> SelectSeq(signed, LAMBDA c : c.aki = k)]

\* roots: the trusted certificates whose key signed a presented one, each once
Roots(certs, trusted) ==
  FoldLeft(LAMBDA found, c :
             IF c.aki \in DOMAIN trusted /\ trusted[c.aki] \notin Range(found)
             THEN Append(found, trusted[c.aki]) ELSE found,
           <<>>, certs)

\* next_chain: what hangs below the certificates of one key.  The depth it
\* counts grows with every certificate it has gone into, its siblings' included.
NextChain(lookup, leaf_ski, key) ==
  LET all == UNION {Range(lookup[k]) : k \in DOMAIN lookup}
      next[certs \in Seq(all), depth \in 0..MaxDepth] ==
        IF certs = <<>> THEN <<>>
        ELSE LET c == Head(certs)
                 deeper == c.ski \in DOMAIN lookup /\ depth < MaxDepth
                 d == IF deeper THEN depth + 1 ELSE depth
             IN <<Entry(c, IF c.ski = leaf_ski THEN "Leaf" ELSE "Intermediate")>>
                \o (IF deeper THEN next[lookup[c.ski], d] ELSE <<>>)
                \o next[Tail(certs), d]
  IN next[lookup[key], 0]

\* The dictionary by fingerprint: the place of the first entry, the class of
\* the last.
ByFingerprint(entries) ==
  LET first == {i \in DOMAIN entries : \A j \in 1..(i - 1) : entries[j].cert.id # entries[i].cert.id}
      lastOf(i) == CHOOSE j \in DOMAIN entries :
                     /\ entries[j].cert.id = entries[i].cert.id
                     /\ \A k \in (j + 1)..Len(entries) : entries[k].cert.id # entries[i].cert.id
  IN [n \in 1..Cardinality(first) |->
        entries[lastOf(CHOOSE i \in first : Cardinality({j \in first : j <= i}) = n)]]

GetCertificates(certs, trusted) ==
  LET leaf == Head(certs)
      lookup == Lookup(leaf, certs)
      unsigned == SelectSeq(certs, LAMBDA c : c.aki = NoKey)
      below(r) == IF r.ski \in DOMAIN lookup
                  THEN NextChain(lookup, leaf.ski, r.ski) ELSE <<>>
      roots == Roots(certs, trusted)
  IN ByFingerprint(
       <<Entry(leaf, "Leaf")>>
       \o [i \in DOMAIN unsigned |-> Entry(unsigned[i], "Root")]
       \o FlattenSeq([i \in DOMAIN roots |-> <<Entry(roots[i], "Root")>> \o below(roots[i])]))

ChainInit(Presented, Stores) ==
  /\ presented \in Presented
  /\ store \in Stores
  /\ certificates = <<>>

Assemble ==
  /\ certificates = <<>>
  /\ certificates' = GetCertificates(presented, store)
  /\ UNCHANGED <<presented, store>>

\* The first certificate of class LeafCertificate, as valid_certificate_chain
\* and tls_robot look for it.
Leaves == {c \in DOMAIN certificates : certificates[c].kind = "Leaf"}
FirstLeaf == certificates[CHOOSE i \in Leaves : \A j \in Leaves : i <= j].cert

\* basic_constraints_path_length: the length a key may have below it (of the
\* last certificate with that key), against the intermediates it signed.
Classed(kinds) == {certificates[i].cert : i \in {j \in DOMAIN certificates : certificates[j].kind \in kinds}}
Constraints ==
  LET limited == SelectSeq(certificates, LAMBDA e : e.kind # "Leaf" /\ e.cert.pathlen # NoKey)
  IN [k \in {limited[i].cert.ski : i \in DOMAIN limited} |->
        Last(SelectSeq(limited, LAMBDA e : e.cert.ski = k)).cert.pathlen]
(* Mutant: the leaf counts as an intermediate.                              *)
SignedLeaf(k) == {c.ski : c \in {d \in Classed({"Intermediate", "Leaf"}) : d.aki = k}}
Signed(k) == {c.ski : c \in {d \in Classed({"Intermediate"}) : d.aki = k}}
PathLengthVerdict ==
  IF \E k \in DOMAIN Constraints : Constraints[k] < Cardinality(Signed(k)) THEN "False" ELSE "True"

\* valid_certificate_chain, for what the validator (a library) says of it
ValidChainVerdicts == IF Leaves = {} THEN {"NotRelevant"} ELSE {"True", "False"}

-----------------------------------------------------------------------------
Presented == {presented[i] : i \in DOMAIN presented}
Found == {certificates[i].cert : i \in DOMAIN certificates}
Kind(c) == certificates[CHOOSE i \in DOMAIN certificates : certificates[i].cert.id = c.id].kind

\* What hangs below a set of certificates.
Reach(S) ==
  LET below[n \in 0..Cardinality(Presented)] ==
        IF n = 0 THEN S
        ELSE below[n - 1] \cup {c \in Presented : \E p \in below[n - 1] : c.aki # NoKey /\ c.aki = p.ski}
  IN below[Cardinality(Presented)]
Trusted == {store[c.aki] : c \in {d \in Presented : d.aki \in DOMAIN store}}

(* get_certificates lists every certificate once; no others than those that *)
(* link up to a trusted root, the roots, the leaf and the certificates      *)
(* nobody is said to have signed, and all of these as long as no more than  *)
(* MaxDepth + 2 are presented.  The server's own certificate is classed as  *)
(* the leaf unless it names no signer, no other one is, and a trusted root  *)
(* is a root unless the server presents it, too, naming itself as signer.   *)
Assembled ==
  certificates # <<>> =>
    /\ \A i, j \in DOMAIN certificates : certificates[i].cert.id = certificates[j].cert.id => i = j
    /\ LET all == Reach(Trusted) \cup {Head(presented)} \cup {c \in Presented : c.aki = NoKey}
       IN /\ Found \subseteq all
          /\ Cardinality(Presented) <= MaxDepth + 2 => Found = all
    /\ \A c \in Found :
         Kind(c) = "Leaf" <=> c.id = Head(presented).id /\ c.aki # NoKey
    /\ \A r \in Trusted :
         Kind(r) = (IF \E c \in Presented : c.id = r.id /\ c.aki # NoKey THEN "Intermediate" ELSE "Root")
=============================================================================
