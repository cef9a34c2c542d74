-------------------------- MODULE MCEthereumSpend ---------------------------
(* EthereumSpend with one token and transactions that do or do not revert. *)
EXTENDS EthereumSpend, TLC

CONSTANTS eth, d1, t1

MCDepositToken == d1 :> eth
MCDepositAmount == d1 :> 2
MCReverts == {t1}
=============================================================================
