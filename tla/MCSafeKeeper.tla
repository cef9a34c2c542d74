---------------------------- MODULE MCSafeKeeper ----------------------------
(* Instances of SafeKeeper for TLC.                                        *)
EXTENDS SafeKeeper, TLC

CONSTANTS d1, d2

MCSatoshi == [d \in Deposits |-> IF d = d1 THEN 5 ELSE 3]
Symmetry == Permutations(Txs) \cup Permutations(ReqIds)

=============================================================================
