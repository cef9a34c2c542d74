---------------------------- MODULE EthereumSpend ----------------------------
(***************************************************************************)
(* The keeper of an Ethereum safe with the observer's spend loop and the   *)
(* account on the chain.  The keeper answers a signed transaction to the   *)
(* observer, whose loop executes it on the chain or, when the chain says   *)
(* that it is invalid or cannot be asked, asks the keeper for a refund.    *)
(* Between the steps of the loop the observer may stop, a bounded number   *)
(* of times; it then has only its store.  Once a transaction is signed its *)
(* raw is published, and anyone may execute it.  Closes are not repeated   *)
(* here.                                                                   *)
(***************************************************************************)
EXTENDS EthereumKeeper

CONSTANTS
    Reverts,     \* transactions that the chain always refuses
    MaxCrashes   \* how often the observer stops or is told an error

ASSUME SpendConstantsOK ==
    /\ Reverts \subseteq Txs
    /\ MaxCrashes \in Nat

VARIABLES
    approvals,    \* the observer's table transactions, once fully signed
    spending,     \* the transaction that the loop is at, and how far it is
    refunds,      \* refunds that the keeper was asked for
    chain,        \* nonce of the account, and whether its guard is enabled
    executed,     \* transactions that the chain executed
    crashes,      \* how often the observer stopped or was told an error
    unconfirmed,  \* executed by others, or by the loop and not confirmed
    reverted      \* transactions that were mined and reverted

spendVars == <<approvals, spending, refunds, chain, executed, crashes, unconfirmed, reverted>>
vars == <<keeperVars, spendVars>>

NotSpending == [at |-> "list", tx |-> NoTx]

Init ==
    /\ KeeperInit
    /\ approvals = [t \in Txs |-> "none"]
    /\ spending = NotSpending
    /\ refunds = {}
    /\ chain = [nonce |-> 0, guarded |-> FALSE]
    /\ executed = {}
    /\ crashes = 0
    /\ unconfirmed = {}
    /\ reverted = {}

-----------------------------------------------------------------------------
(* The response to the approval of the account deploys it and executes the *)
(* guard transaction, unless the guard is already there.                   *)
DeployEthereumGnosisSafeAccount ==
    /\ safe.state = "Approved" /\ ~chain.guarded
    /\ chain' = [nonce |-> 1, guarded |-> TRUE]
    /\ executed' = executed \cup {Guard}
    /\ UNCHANGED <<keeperVars, approvals, spending, refunds, crashes, unconfirmed, reverted>>

(* The response to a signed transaction, which may be delivered late: only *)
(* one with two signatures, and only the first time.                       *)
\* slip: a transaction that was refunded is taken up again
NotSpent(t) == approvals[t] # "Spent"
NotYetDone(t) == approvals[t] = "none"

KeeperVerifyEthereumTransactionSignatures(t) ==
    /\ "signer" \in transactions[t].signed
    /\ Cardinality(transactions[t].signed) >= 2
    /\ NotYetDone(t)
    /\ approvals' = [approvals EXCEPT ![t] = "Done"]
    /\ UNCHANGED <<keeperVars, spending, refunds, chain, executed, crashes, unconfirmed, reverted>>

(* What the account on the chain accepts: signatures of its next nonce.    *)
ValidTransaction(t) == transactions[t].nonce = chain.nonce /\ t \notin Reverts

(* The loop goes through the fully signed transactions from the oldest on, *)
(* and passes by one when it cannot read the balance of its own key.       *)
\* slip: only a transaction whose nonce was used is refused
RefusableStale(t) == transactions[t].nonce < chain.nonce
Refusable(t) == ~ValidTransaction(t)

StartRefund(t) ==
    /\ spending = NotSpending /\ approvals[t] = "Done"
    /\ chain.guarded
    /\ approvals' = [approvals EXCEPT ![t] = "Failed"]
    /\ spending' = [at |-> "refund", tx |-> t]

RefundFullySignedTransactionApproval(t) ==
    /\ StartRefund(t) /\ Refusable(t)
    /\ UNCHANGED <<keeperVars, refunds, chain, executed, crashes, unconfirmed, reverted>>

(* ValidTransaction returns an error: the transaction is refunded as well. *)
RefundOnError(t) ==
    /\ crashes < MaxCrashes /\ crashes' = crashes + 1
    /\ StartRefund(t)
    /\ UNCHANGED <<keeperVars, refunds, chain, executed, unconfirmed, reverted>>

SendRefund ==
    /\ spending.at = "refund"
    /\ refunds' = refunds \cup {spending.tx}
    /\ spending' = NotSpending
    /\ UNCHANGED <<keeperVars, approvals, chain, executed, crashes, unconfirmed, reverted>>

(* The chain says that the transaction is valid, the call is sent, and the *)
(* loop waits until it is mined.                                           *)
StartExec(t) ==
    /\ spending = NotSpending /\ approvals[t] = "Done"
    /\ ValidTransaction(t) /\ chain.guarded
    /\ spending' = [at |-> "exec", tx |-> t]
    /\ UNCHANGED <<keeperVars, approvals, refunds, chain, executed, crashes, unconfirmed, reverted>>

Executes(t) ==
    /\ ValidTransaction(t) /\ chain.guarded
    /\ chain' = [chain EXCEPT !.nonce = @ + 1]
    /\ executed' = executed \cup {t}

ExecTransaction ==
    /\ spending.at = "exec" /\ Executes(spending.tx)
    /\ spending' = [spending EXCEPT !.at = "confirm"]
    /\ UNCHANGED <<keeperVars, approvals, refunds, crashes, unconfirmed, reverted>>

(* It is mined and reverts, since the state of the chain is another by     *)
(* then; the receipt that says so is not looked at.                        *)
ExecReverted ==
    /\ spending.at = "exec"
    /\ reverted' = reverted \cup {spending.tx}
    /\ spending' = [spending EXCEPT !.at = "confirm"]
    /\ UNCHANGED <<keeperVars, approvals, refunds, chain, executed, crashes, unconfirmed>>

(* The node refuses the call, and the loop starts again.                   *)
ExecRefused ==
    /\ spending.at = "exec" /\ ~ValidTransaction(spending.tx)
    /\ spending' = NotSpending
    /\ UNCHANGED <<keeperVars, approvals, refunds, chain, executed, crashes, unconfirmed, reverted>>

(* Someone else sends the signed raw that the observer publishes.          *)
ExecPublished(t) ==
    /\ approvals[t] # "none" /\ Executes(t)
    /\ unconfirmed' = unconfirmed \cup {t}
    /\ UNCHANGED <<keeperVars, approvals, spending, refunds, crashes, reverted>>

ConfirmFullySignedTransactionApproval ==
    /\ spending.at = "confirm"
    /\ approvals' = [approvals EXCEPT ![spending.tx] = "Spent"]
    /\ spending' = NotSpending
    /\ UNCHANGED <<keeperVars, refunds, chain, executed, crashes, unconfirmed, reverted>>

(* The observer stops, or the call or WaitMined returns an error.          *)
Interrupt ==
    /\ spending # NotSpending
    /\ crashes < MaxCrashes /\ crashes' = crashes + 1
    /\ unconfirmed' = IF spending.at = "confirm"
                        THEN unconfirmed \cup ({spending.tx} \cap executed) ELSE unconfirmed
    /\ spending' = NotSpending
    /\ UNCHANGED <<keeperVars, approvals, refunds, chain, executed, reverted>>

-----------------------------------------------------------------------------
KeeperStep ==
    /\ \/ SignerStep
       \/ \E t \in Txs, k \in Tokens, amount \in Amounts : ProposeTransaction(t, k, amount, FALSE)
       \/ \E d \in Deposits : CreateHolderDeposit(d)
       \/ \E r \in ReqIds : ApproveAccount(r)
       \/ \E r \in ReqIds, t \in Txs : ApproveTransaction(r, t, transactions[t].raw)
       \/ \E t \in Txs : RevokeTransaction(t)
    /\ UNCHANGED spendVars

(* The second half of the keeper's handler of a signature, which runs on   *)
(* once the first has been committed.                                      *)
KeeperFinish ==
    /\ PanicSignature \/ KeepSignature \/ FinishSafe \/ FinishTransactionSignatures
    /\ UNCHANGED spendVars

KeeperRefund == (\E t \in refunds : RefundTransaction(t)) /\ UNCHANGED spendVars

SpendStep ==
    \/ \E t \in Txs : RefundFullySignedTransactionApproval(t) \/ StartExec(t)
    \/ ExecTransaction \/ ExecReverted \/ ExecRefused
    \/ SendRefund
    \/ ConfirmFullySignedTransactionApproval

Next ==
    \/ KeeperStep
    \/ KeeperRefund
    \/ DeployEthereumGnosisSafeAccount
    \/ \E t \in Txs : \/ KeeperVerifyEthereumTransactionSignatures(t) \/ RefundOnError(t)
                      \/ ExecPublished(t)
    \/ SpendStep
    \/ Interrupt

(* The loop runs for ever, the snapshots that hold the keeper's responses  *)
(* are read in order and none is skipped, and the keeper processes every   *)
(* request that it was sent.                                               *)
Fairness ==
    /\ WF_vars(SpendStep)
    /\ WF_vars(DeployEthereumGnosisSafeAccount)
    /\ \A t \in Txs : WF_vars(KeeperVerifyEthereumTransactionSignatures(t))
    /\ WF_vars(KeeperFinish) /\ WF_vars(KeeperRefund)

Spec == Init /\ [][Next]_vars /\ Fairness

-----------------------------------------------------------------------------
(* The rows of the observer and the state of the chain have their types.   *)
SpendTypeOK ==
    /\ KeeperTypeOK
    /\ approvals \in [Txs -> {"none", "Done", "Spent", "Failed"}]
    /\ spending \in [at: {"list", "refund", "exec", "confirm"}, tx: Txs \cup {NoTx}]
    /\ refunds \subseteq Txs
    /\ chain \in [nonce: Nat, guarded: BOOLEAN]
    /\ executed \subseteq Txs \cup {Guard}
    /\ crashes \in 0..MaxCrashes
    /\ unconfirmed \subseteq executed /\ reverted \subseteq Txs

(* A transaction is executed and refunded, so that its holder is paid      *)
(* twice, only when the loop was interrupted between the execution and the *)
(* write that confirms it, or when someone else executed what is           *)
(* published; an error of ValidTransaction or a revert alone never does.   *)
RefundedNotExecuted == executed \cap Refunded \subseteq unconfirmed

(* The nonce that the keeper gives to the next proposal is ahead of the    *)
(* account's by the transactions still to be executed, and behind it by    *)
(* those that were refunded although the account executed them.  After     *)
(* such a refund every new transaction is invalid on the chain.            *)
NonceDrift ==
    safe.nonce + Cardinality(Refunded \cap executed)
      = chain.nonce + Cardinality({t \in Txs \cup {Guard} : SignedByGroup(t)} \ executed)

(* What the keeper counts as the balance of a token is on the chain, where *)
(* every deposit that it credited is and only executed transactions pay,   *)
(* unless an executed transaction was refunded.                            *)
BalanceOnChain ==
    unconfirmed = {} =>
        \A k \in Rows : balances[k] <= DepositsOf(k) - PaidBy(executed, k)

(* The observer stopped after it wrote the refund and before it asked for  *)
(* it: the row is no longer listed, and nothing asks again.                *)
RefundIsLost(t) == approvals[t] = "Failed" /\ t \notin refunds /\ spending.tx # t

(* A transaction that the signer group signed is executed on the chain or  *)
(* refunded by the keeper in the end, also when the observer stops while   *)
(* it executes it, unless it reverted when it was mined, the keeper        *)
(* stopped, or the refund was lost.                                        *)
SignedIsSettled ==
    \A t \in Txs :
        SignedByGroup(t) ~> \/ t \in executed \/ transactions[t].state = "Failed"
                            \/ t \in reverted \/ panicked # "no" \/ RefundIsLost(t)

=============================================================================
