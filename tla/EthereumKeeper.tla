--------------------------- MODULE EthereumKeeper ---------------------------
(***************************************************************************)
(* The keeper's table of one Ethereum safe: its guard transaction, the     *)
(* token balances, the transactions that its holder proposes, the          *)
(* signatures that the signer group returns, refunds and closes.           *)
(*                                                                         *)
(* The keeper is a replicated deterministic machine: requests are          *)
(* processed one at a time, and a request that fails leaves no trace but   *)
(* its own row, so only the failures that move bonds or stop the keeper    *)
(* are actions.  Addresses and calldata are abstracted to the amount that  *)
(* a transaction pays out of every token; the message that the owners sign *)
(* is that map.  The account was proposed: its guard transaction is in the *)
(* table, and the safe is not.                                             *)
(***************************************************************************)
EXTENDS Integers, FiniteSets, Functions

CONSTANTS
    Tokens,         \* the assets of the chain, the native one included
    Deposits,       \* transfers to the safe on the chain
    DepositToken,   \* [Deposits -> Tokens]
    DepositAmount,  \* [Deposits -> positive amounts]
    Txs,            \* ids of the transactions that the holder proposes
    Guard,          \* the transaction that enables the guard of the safe
    Closings,       \* hashes of transactions that holder and observer made
    ReqIds,         \* ids of the observer's requests for signatures
    Amounts,        \* what a proposal may spend
    OtherRaws,      \* what the holder may sign in place of its proposal
    Unit            \* 10 ^ decimals of a bond

TxIds == Txs \cup {Guard} \cup Closings
NoTx == "no_tx"
NoJob == "no_job"
IsPayment(raw) == DOMAIN raw \subseteq Tokens /\ \A k \in DOMAIN raw : raw[k] \in Nat
Payment(k, amount) == [j \in {k} |-> amount]
NoPayment == [k \in {} |-> 0]

ASSUME ConstantsOK ==
    /\ Tokens # {}
    /\ Guard \notin Txs \cup Closings /\ Txs \cap Closings = {}
    /\ NoTx \notin TxIds /\ NoJob \notin ReqIds
    /\ IsFiniteSet(TxIds) /\ IsFiniteSet(Deposits) /\ IsFiniteSet(ReqIds)
    /\ DepositToken \in [Deposits -> Tokens]
    /\ DepositAmount \in [Deposits -> Nat \ {0}]
    /\ Amounts \subseteq Nat \ {0}
    /\ \A raw \in OtherRaws : IsPayment(raw)
    /\ Unit \in Nat \ {0, 1}

VARIABLES
    safe,           \* state and nonce in the table safes
    balances,       \* ethereum_balances: the balance of a token that has a row
    credited,       \* the table deposits
    transactions,   \* the table transactions
    signatures,     \* the table signature_requests
    job,            \* the signature response in progress
    held,           \* bonds of each token in the hands of the holders
    panicked        \* the statement that stopped the keeper, or "no"

keeperVars == <<safe, balances, credited, transactions, signatures, job, held, panicked>>

TransactionRow(raws) ==
    [state: {"none", "Initial", "Pending", "Done", "Failed"},
     nonce: Nat,
     raw: raws,                                        \* raw_transaction
     signed: SUBSET {"holder", "signer", "observer"},  \* its signatures
     token: Tokens,                                    \* asset_id
     amount: Nat,                                      \* of the proposal
     recovery: BOOLEAN]                                \* its flag

SignatureRow(raws) ==
    [state: {"none", "Initial", "Pending", "Done"},
     tx: TxIds \cup {NoTx}, message: raws, at: Nat,
     answered: BOOLEAN]          \* the response has its request row

NoTransaction ==
    [state |-> "none", nonce |-> 0, raw |-> NoPayment, signed |-> {},
     token |-> CHOOSE k \in Tokens : TRUE, amount |-> 0, recovery |-> FALSE]

NoSignature ==
    [state |-> "none", tx |-> NoTx, message |-> NoPayment, at |-> 0,
     answered |-> FALSE]

KeeperInit ==
    /\ safe = [state |-> "none", nonce |-> 0]
    /\ balances = NoPayment
    /\ credited = {}
    /\ transactions = [t \in TxIds |->
         IF t = Guard THEN [NoTransaction EXCEPT !.state = "Initial"] ELSE NoTransaction]
    /\ signatures = [r \in ReqIds |-> NoSignature]
    /\ job = NoJob
    /\ held = [k \in Tokens |-> 0]
    /\ panicked = "no"

-----------------------------------------------------------------------------
Idle == panicked = "no" /\ job = NoJob

(* A failed statement rolls back, and the keeper stops where it is.        *)
Panic(statement) ==
    /\ panicked' = statement
    /\ UNCHANGED <<safe, balances, credited, transactions, signatures, job, held>>

Unfinished == {t \in TxIds : transactions[t].state \in {"Initial", "Pending"}}

ReadUnfinishedTransactionsByHolder == Unfinished

Rows == DOMAIN balances

(* The balances of the tokens after a transaction pays raw.                *)
\* slip: only the token of the proposal is debited
DebitOne(raw, t) ==
    [k \in Rows |-> IF k \in DOMAIN raw \cap {transactions[t].token} THEN balances[k] - raw[k] ELSE balances[k]]
Debit(raw, t) ==
    [k \in Rows |-> IF k \in DOMAIN raw THEN balances[k] - raw[k] ELSE balances[k]]

-----------------------------------------------------------------------------
(* A deposit that the replicas find final on the chain is credited, and    *)
(* the holder receives as many bonds.  One that is not final stops the     *)
(* keeper until it is, which a request of the observer never meets.        *)
\* slip: the observer's word that a deposit is new is taken
DepositedNever(d) == FALSE
ReadDeposit(d) == d \in credited

Balance(k) == IF k \in Rows THEN balances[k] ELSE 0
Credit(k, amount) ==
    [j \in Rows \cup {k} |-> IF j = k THEN Balance(k) + amount ELSE balances[j]]

CreateHolderDeposit(d) ==
    LET k == DepositToken[d] IN
    /\ Idle /\ safe.state = "Approved"
    /\ ~ReadDeposit(d)
    /\ credited' = credited \cup {d}
    /\ balances' = Credit(k, DepositAmount[d])
    /\ held' = [held EXCEPT ![k] = @ + DepositAmount[d]]
    /\ UNCHANGED <<safe, transactions, signatures, job, panicked>>

-----------------------------------------------------------------------------
(* A recovery transaction empties the other tokens as well.                *)
RecoveryOutputs(k) == {j \in Rows \ {k} : balances[j] > 0}

Outputs(k, amount, recovery) ==
    [j \in {k} \cup (IF recovery THEN RecoveryOutputs(k) ELSE {}) |->
        IF j = k THEN amount ELSE balances[j]]

ProposeTransaction(t, k, amount, recovery) ==
    /\ Idle /\ transactions[t].state = "none"
    /\ amount <= held[k]
    /\ safe.state = "Approved"
    /\ ReadUnfinishedTransactionsByHolder = {}
    /\ transactions' = [transactions EXCEPT ![t] =
         [state |-> "Initial", nonce |-> safe.nonce,
          raw |-> Outputs(k, amount, recovery), signed |-> {},
          token |-> k, amount |-> amount, recovery |-> recovery]]
    /\ held' = [held EXCEPT ![k] = @ - amount]
    /\ UNCHANGED <<safe, balances, credited, signatures, job, panicked>>

(* The checks refuse the proposal, and the group keeps the bonds.  When it *)
(* returns them instead, only the row of the request changes.              *)
FailProposal(k, amount) ==
    /\ Idle /\ amount <= held[k]
    /\ held' = [held EXCEPT ![k] = @ - amount]
    /\ UNCHANGED <<safe, balances, credited, transactions, signatures, job, panicked>>

-----------------------------------------------------------------------------
(* One row per request; the transaction's raw and signatures are replaced. *)
WriteSignatureRequests(r, t, raw, owner) ==
    /\ signatures' = [signatures EXCEPT ![r] =
         [state |-> "Initial", tx |-> t, message |-> raw,
          at |-> Cardinality({q \in ReqIds : signatures[q].state # "none"}) + 1,
          answered |-> FALSE]]
    /\ transactions' = [transactions EXCEPT ![t] =
         [@ EXCEPT !.state = "Pending", !.raw = raw, !.signed = {owner}]]

Approvable(t) == transactions[t].state \in {"Initial", "Pending"}

(* The holder signed the guard transaction.  The safe is written first; a  *)
(* group that cannot pay for the signature leaves it pending.              *)
ApproveAccount(r) ==
    /\ Idle /\ signatures[r].state = "none"
    /\ safe.state \in {"none", "Pending"}
    /\ IF Approvable(Guard)
       THEN /\ safe' = [safe EXCEPT !.state = "Pending"]
            /\ WriteSignatureRequests(r, Guard, transactions[Guard].raw, "holder")
            /\ UNCHANGED <<balances, credited, job, held, panicked>>
       ELSE Panic("approve_guard")

ApproveAccountUnpaid ==
    /\ Idle /\ safe.state \in {"none", "Pending"}
    /\ safe' = [safe EXCEPT !.state = "Pending"]
    /\ UNCHANGED <<balances, credited, transactions, signatures, job, held, panicked>>

(* Any transaction that is not done, with the raw that the holder signed.  *)
ApproveTransaction(r, t, raw) ==
    /\ Idle /\ signatures[r].state = "none"
    /\ safe.state # "none"
    /\ transactions[t].state \notin {"none", "Done"}
    /\ raw = transactions[t].raw \/ raw \in OtherRaws
    /\ IF Approvable(t)
       THEN /\ WriteSignatureRequests(r, t, raw, "holder")
            /\ UNCHANGED <<safe, balances, credited, job, held, panicked>>
       ELSE Panic("approve_failed")

\* slip: a transaction that the signer group signs can be revoked
RevocableUnfinished(t) == t \in Unfinished
Revocable(t) == transactions[t].state = "Initial"

(* Bonds of the transaction's asset, for the amount of its request.        *)
RevokeTransaction(t) ==
    /\ Idle /\ safe.state # "none"
    /\ Revocable(t)
    /\ transactions' = [transactions EXCEPT ![t].state = "Failed"]
    /\ held' = [held EXCEPT ![transactions[t].token] = @ + transactions[t].amount]
    /\ UNCHANGED <<safe, balances, credited, signatures, job, panicked>>

(* The outputs go back to the balances and the nonce steps back, in a safe *)
(* that is still open.  What the holder receives is the amount of its      *)
(* proposal in the smallest unit of the bond.  A close by holder and       *)
(* observer was not proposed with bonds, so that its refund fails.         *)
\* slip: the safe keeps the nonce of the refunded transaction
KeepNonce(n) == n
StepBack(n) == n - 1

RefundTransaction(t) ==
    LET row == transactions[t] IN
    /\ Idle /\ row.state = "Done"
    /\ IF safe.state = "Approved"
       THEN /\ transactions' = [transactions EXCEPT ![t].state = "Failed"]
            /\ safe' = [safe EXCEPT !.nonce = StepBack(@)]
            /\ balances' = [k \in Rows |->
                   IF k \in DOMAIN row.raw THEN balances[k] + row.raw[k] ELSE balances[k]]
            /\ held' = [held EXCEPT ![row.token] = @ + row.amount * Unit]
            /\ UNCHANGED <<credited, signatures, job, panicked>>
       ELSE Panic("refund_closed")

-----------------------------------------------------------------------------
(* A close spends every balance in the table, the zero ones included.      *)
SpendsAll(raw) ==
    /\ DOMAIN raw = Rows
    /\ \A k \in Rows : raw[k] = balances[k]

Open == safe.state \in {"Approved", "Closed"}

(* The chain tells that the timelock of the observer has not passed.       *)
CloseAccountLocked == Idle /\ Open /\ Panic("locked")

(* With the signer group: the only unfinished transaction, which is the    *)
(* one that the observer signed.                                           *)
CloseAccountWithSigner(r, t) ==
    /\ Idle /\ Open /\ signatures[r].state = "none"
    /\ SpendsAll(transactions[t].raw)
    /\ Cardinality(Unfinished) = 1
    /\ transactions[t].state \notin {"none", "Done"}
    /\ IF Approvable(t)
       THEN /\ WriteSignatureRequests(r, t, transactions[t].raw, "observer")
            /\ safe' = [safe EXCEPT !.state = "Closed"]
            /\ UNCHANGED <<balances, credited, job, held, panicked>>
       ELSE Panic("approve_failed")

(* With a transaction that holder and observer made and signed.  The       *)
(* balances and the nonce stay as they are.                                *)
CloseAccountByTransaction(c) ==
    /\ safe' = [safe EXCEPT !.state = "Closed"]
    /\ transactions' = [transactions EXCEPT ![c] =
         [NoTransaction EXCEPT !.state = "Done", !.nonce = safe.nonce,
            !.raw = [k \in Rows |-> balances[k]],
            !.signed = {"holder", "observer"}]]

CloseAccountWithHolder(c) ==
    /\ Idle /\ Open
    /\ Rows # {}
    /\ Unfinished = {}
    /\ transactions[c].state = "none"
    /\ IF safe.state = "Approved"
       THEN /\ CloseAccountByTransaction(c)
            /\ UNCHANGED <<balances, credited, signatures, job, held, panicked>>
       ELSE Panic("close_again")

-----------------------------------------------------------------------------
(* A valid response of the signer group, in any order and at any time      *)
(* after the request.  The row is committed before the rest; a keeper that *)
(* stops between the two repeats the first, which then changes nothing.    *)
FinishSignatureRequest(r) ==
    /\ Idle /\ signatures[r].state \in {"Initial", "Pending"}
    /\ ~signatures[r].answered
    /\ signatures' = [signatures EXCEPT ![r].state = "Pending"]
    /\ job' = r
    /\ UNCHANGED <<safe, balances, credited, transactions, held, panicked>>

(* The latest signature that was stored for the transaction.               *)
Latest(t) == CHOOSE r \in ReqIds :
    /\ signatures[r].tx = t /\ signatures[r].state = "Pending"
    /\ \A q \in ReqIds : signatures[q].tx = t /\ signatures[q].state = "Pending"
                            => signatures[q].at <= signatures[r].at

Signs(t) == signatures[Latest(t)].message = transactions[t].raw

SignaturesDone(t, r) ==
    signatures' = [q \in ReqIds |->
        [signatures[q] EXCEPT !.state = IF signatures[q].tx = t THEN "Done" ELSE @,
                              !.answered = @ \/ q = r]]

TransactionDone(t) ==
    transactions' = [transactions EXCEPT ![t] =
        [@ EXCEPT !.state = "Done", !.signed = transactions[t].signed \cup {"signer"}]]

(* The signature is not one of what the transaction now is, or pays out of *)
(* a token that the safe never had.                                        *)
PanicSignature ==
    LET t == signatures[job].tx IN
    /\ panicked = "no" /\ job # NoJob
    /\ \/ ~Signs(t) /\ Panic("signature")
       \/ /\ Signs(t) /\ safe.state # "Pending"
          /\ ~(DOMAIN transactions[t].raw \subseteq Rows)
          /\ Panic("balance_row")

(* The group cannot pay for the response, or a balance does not cover the  *)
(* transaction: the signature stays for a later response.                  *)
KeepSignature ==
    /\ panicked = "no" /\ job # NoJob
    /\ Signs(signatures[job].tx)
    /\ signatures' = [signatures EXCEPT ![job].answered = TRUE]
    /\ job' = NoJob
    /\ UNCHANGED <<safe, balances, credited, transactions, held, panicked>>

(* The safe waits for its guard transaction.                               *)
Finished(s) == [s EXCEPT !.state = "Approved", !.nonce = @ + 1]

FinishSafe ==
    LET t == signatures[job].tx IN
    /\ panicked = "no" /\ job # NoJob
    /\ Signs(t) /\ safe.state = "Pending"
    /\ safe' = Finished(safe)
    /\ SignaturesDone(t, job) /\ TransactionDone(t)
    /\ job' = NoJob
    /\ UNCHANGED <<balances, credited, held, panicked>>

Covered(raw) == \A k \in DOMAIN raw : balances[k] >= raw[k]

FinishTransactionSignatures ==
    LET t == signatures[job].tx
        raw == transactions[t].raw
    IN
    /\ panicked = "no" /\ job # NoJob
    /\ Signs(t) /\ safe.state # "Pending"
    /\ DOMAIN raw \subseteq Rows /\ Covered(raw)
    /\ balances' = Debit(raw, t)
    /\ safe' = [safe EXCEPT !.nonce = @ + 1]
    /\ SignaturesDone(t, job) /\ TransactionDone(t)
    /\ job' = NoJob
    /\ UNCHANGED <<credited, held, panicked>>

-----------------------------------------------------------------------------
HolderStep ==
    \E k \in Tokens, amount \in Amounts :
        \/ \E t \in Txs, recovery \in BOOLEAN : ProposeTransaction(t, k, amount, recovery)
        \/ FailProposal(k, amount)

(* What the observer has no row for it does not approve, revoke or refund. *)
RequestStep ==
    \/ \E d \in Deposits : CreateHolderDeposit(d)
    \/ ApproveAccountUnpaid
    \/ \E r \in ReqIds :
        \/ ApproveAccount(r)
        \/ \E t \in Txs : CloseAccountWithSigner(r, t)
        \/ \E t \in Txs : \E raw \in OtherRaws \cup {transactions[t].raw} :
               ApproveTransaction(r, t, raw)
    \/ \E t \in Txs : RevokeTransaction(t)
    \/ CloseAccountLocked
    \/ \E c \in Closings : CloseAccountWithHolder(c)

SignerStep ==
    \/ \E r \in ReqIds : FinishSignatureRequest(r)
    \/ PanicSignature
    \/ KeepSignature
    \/ FinishSafe
    \/ FinishTransactionSignatures

KeeperNext ==
    \/ HolderStep \/ RequestStep \/ SignerStep
    \/ \E t \in Txs : RefundTransaction(t)

KeeperSpec == KeeperInit /\ [][KeeperNext]_keeperVars

-----------------------------------------------------------------------------
(* Every table holds rows of its type; no balance is below zero.           *)
KeeperTypeOK ==
    /\ safe \in [state: {"none", "Pending", "Approved", "Closed"}, nonce: Nat]
    /\ IsPayment(balances)
    /\ credited \subseteq Deposits
    /\ DOMAIN transactions = TxIds /\ DOMAIN signatures = ReqIds
    /\ \A t \in TxIds : /\ transactions[t] \in TransactionRow({transactions[t].raw})
                        /\ IsPayment(transactions[t].raw)
    /\ \A r \in ReqIds : /\ signatures[r] \in SignatureRow({signatures[r].message})
                         /\ IsPayment(signatures[r].message)
    /\ job \in ReqIds \cup {NoJob}
    /\ held \in [Tokens -> Nat]
    /\ panicked \in {"no", "approve_guard", "approve_failed", "refund_closed",
                     "locked", "close_again", "signature", "balance_row"}

SignedByGroup(t) == transactions[t].state = "Done" /\ "signer" \in transactions[t].signed

(* The nonce of the safe counts the transactions, the guard's included,    *)
(* that the signer group signed and nobody refunded, so a new proposal     *)
(* never takes the nonce of one that is still to be executed first.        *)
NonceCountsSigned ==
    safe.nonce = Cardinality({t \in TxIds : SignedByGroup(t)})

DepositsOf(k) ==
    SumFunctionOnSet(DepositAmount, {d \in credited : DepositToken[d] = k})

(* What the transactions of a set pay out of a token.                      *)
Pays(t, k) == IF k \in DOMAIN transactions[t].raw THEN transactions[t].raw[k] ELSE 0
PaidBy(ts, k) == SumFunctionOnSet([t \in TxIds |-> Pays(t, k)], ts)

(* Every balance is what was deposited less what signed transactions pay,  *)
(* whatever was refunded, revoked or signed out of order.                  *)
Ledger ==
    \A k \in Rows :
        balances[k] = DepositsOf(k) - PaidBy({t \in TxIds : SignedByGroup(t)}, k)

Refunded == {t \in TxIds : transactions[t].state = "Failed"
                             /\ "signer" \in transactions[t].signed}

(* A transaction still is what was proposed, and not a recovery, which     *)
(* empties tokens for which no bond came back.                             *)
AsProposed(t) ==
    \/ transactions[t].state = "none"
    \/ transactions[t].raw = Payment(transactions[t].token, transactions[t].amount)

(* The bonds that came back with the proposals under way.                  *)
Claimed(k) ==
    SumFunctionOnSet([t \in TxIds |-> transactions[t].amount],
                     {t \in Unfinished : transactions[t].token = k})

(* Bonds that holders have, and bonds that came back with a proposal under *)
(* way, are covered by the balance of their token, as long as nothing was  *)
(* refunded and all transactions are what was proposed.                    *)
BondsBacked ==
    (Refunded = {} /\ \A t \in Txs : AsProposed(t)) =>
        \A k \in Rows : held[k] + Claimed(k) <= balances[k]

(* "Whenever a deposit is made into a safe account, Mixin Safe issues an   *)
(* equivalent amount of safeBTC to the account owner" (README.md:19): the  *)
(* holders of a safe never have more bonds of a token than was deposited.  *)
BondsEquivalent == \A k \in Tokens : held[k] <= DepositsOf(k)

=============================================================================
