-------------------------- MODULE MCKeeperAccounts --------------------------
EXTENDS KeeperAccounts, TLC

CONSTANTS r1, r2, h1, h2, p1, p2, p3

\* Two proposals of one holder, for two accounts, the second with a recovery key
\* of its own, and one of another holder that wants the same recovery key.
SharedHolder == p1 :> h1 @@ p2 :> h1 @@ p3 :> h2
SharedPref == p1 :> 0 @@ p2 :> 5 @@ p3 :> 5

\* The second holder has a key of its own, or is the recovery key.
OwnOrRecoveryKey == {h1 :> 7 @@ h2 :> 8, h1 :> 7 @@ h2 :> 5}
TwoLocks == p1 :> 1 @@ p2 :> 2 @@ p3 :> 1

Symmetry == Permutations(Replicas)
=============================================================================
