-------------------------- MODULE MCObserverDeposits --------------------------
EXTENDS ObserverDeposits, TLC
UnitAmount == [d \in Deposits |-> 1]
Symmetry == Permutations(Deposits \ Withdrawals)
=============================================================================
