------------------------------ MODULE MCCrliteDb ------------------------------
(* Two generations of filters with up to one stash each, and a certificate  *)
(* whose status tells the releases apart: not enrolled in the first, but    *)
(* named by its filter and stash, as a filter may name what it was not made *)
(* for; good in the second, until its stash revokes it.  Its issuer is in   *)
(* the CCADB's second report only.                                          *)
EXTENDS CrliteDb, TLC

CONSTANTS ca, w1, w2

MCClient == {w1, w2}
MCOneClient == {w1}
MCCert == {ca}
MCEnrolled == [g \in Generation |-> IF g = 2 THEN {ca} ELSE {}]
MCCovered == [g \in Generation |-> IF g = 2 THEN {ca} ELSE {}]
MCFiltered == [g \in Generation |-> IF g = 1 THEN {ca} ELSE {}]
MCStashed == [s \in Stash |-> {ca}]
MCReported == [e \in Edition |-> IF e = 2 THEN {ca} ELSE {}]
MCExpired == {}
MCSize == [l \in {StashesOf(r) : r \in Release} |->
             IF l = {} THEN 0 ELSE CHOOSE n \in 1..((MaxFilter + 1) * (MaxStash + 1)) :
               \E r \in Release : l = StashesOf(r) /\ n = r.filter * MaxStash + r.stashes]

(* No property speaks of a directory that has been ruined.                  *)
Sound == ~spoiled

Symmetry == Permutations(MCClient)
=============================================================================
