---------------------------- MODULE MCScanSession ----------------------------
(* Small instances of ScanSession for TLC.                                 *)
EXTENDS ScanSession, TLC

CONSTANTS p1, p2, a, b

MCCacheKey == [t \in Target |-> t]
ProcessSymmetry == Permutations(Process)
=============================================================================
