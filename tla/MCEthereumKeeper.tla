-------------------------- MODULE MCEthereumKeeper --------------------------
(* EthereumKeeper with two tokens, two deposits and two proposals.         *)
EXTENDS EthereumKeeper, TLC

CONSTANTS eth, usd, d1, d2

MCDepositToken == d1 :> eth @@ d2 :> usd
MCDepositAmount == d1 :> 2 @@ d2 :> 1
MCOtherRaws == {eth :> 3, usd :> 1}

Symmetry == Permutations(Txs) \cup Permutations(ReqIds)
=============================================================================
