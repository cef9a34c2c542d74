--------------------------- MODULE ObserverDeposits ---------------------------
(***************************************************************************)
(* Deposits to one safe, from the chain to the bonds of its holder.        *)
(*                                                                         *)
(* The observer runs four loops.  One reads the blocks of the chain in     *)
(* order, writes a row for every deposit, and then moves its checkpoint.   *)
(* One tells the keeper the height of the chain.  One asks the keeper for  *)
(* the bonds of every row that is final at that height.  One reads the     *)
(* withdrawals of Mixin and writes their deposits without waiting for the  *)
(* block.  The keeper checks a deposit again before it issues the bonds.   *)
(*                                                                         *)
(* The last Delay - 1 blocks of the chain may be replaced.  The observer   *)
(* may stop at any point: what a block has left to process is lost.  The   *)
(* outputs that pay the observer's own fees are those of BitcoinFees.      *)
(***************************************************************************)
EXTENDS Integers, FiniteSets, FiniteSetsExt

CONSTANTS
    Deposits,           \* outputs and transfers to the address of the safe
    Amount,             \* the amount of every deposit
    Withdrawals,        \* those of them that Mixin sends
    Trusted,            \* those whose sender is a safe, or Mixin
    Coinbase,           \* those that a coinbase transaction makes
    Chains,             \* chains that the safe may be of
    TransactionMinimum, \* the minimum that the observer configures
    MaxUnspentUtxo,     \* how many unspent outputs the keeper allows
    Delay,              \* the chain's finalization delay, in blocks
    Maturity,           \* confirmations of a final coinbase or Polygon deposit
    MaxHeight,          \* how far the chain grows
    Width,              \* the number of values of an unsigned height
    MaxReorgs,          \* how often the last blocks are replaced
    MaxCrashes          \* how often the observer stops

ASSUME ConstantsOK ==
    /\ Amount \in [Deposits -> Nat \ {0}]
    /\ Withdrawals \subseteq Deposits /\ Trusted \subseteq Deposits
    /\ Coinbase \subseteq Deposits /\ Chains \subseteq {"bitcoin", "ethereum"}
    /\ TransactionMinimum \in Nat \ {0} /\ MaxUnspentUtxo \in Nat
    /\ Delay \in Nat \ {0} /\ Maturity \in Nat \ {0}
    /\ MaxHeight \in Nat /\ Width \in Nat /\ Width > MaxHeight + 1
    /\ MaxReorgs \in Nat /\ MaxCrashes \in Nat

VARIABLES
    chain,      \* the chain of the safe
    tip,        \* the height of the chain
    mined,      \* the block of every deposit, 0 for none
    outs,       \* the blocks in which an Ethereum safe pays something
    reorgs,     \* how often the last blocks were replaced
    safe,       \* the state of the safe in the keeper's table
    bond,       \* the bonds of the safe in the keeper group
    minimum,    \* the keeper's operation params, 0 for none
    info,       \* the height of the keeper's latest network info, 0 for none
    infos,      \* heights sent to the keeper
    output,     \* the keeper's record of every deposit
    request,    \* the deposit's request of the keeper, by its present id
    panicked,   \* whether the keeper stopped at a deposit
    checkpoint, \* the block that the observer reads next
    block,      \* what is left of the block that the observer processes
    row,        \* the observer's table deposits
    crashes,    \* how often the observer stopped
    made,       \* deposits that met an open safe when they were mined
    skipped     \* deposits that the block loop passed without a row

chainVars == <<chain, tip, mined, outs, reorgs, made>>
keeperVars == <<safe, bond, minimum, info, output, panicked>>
vars == <<chainVars, keeperVars, infos, request, checkpoint, block, row, crashes, skipped>>

Bitcoin == chain = "bitcoin"

NoBlock == [busy |-> FALSE, left |-> {}]

TypeOK ==
    /\ chain \in Chains
    /\ tip \in 0..MaxHeight /\ mined \in [Deposits -> 0..MaxHeight]
    /\ outs \subseteq 1..MaxHeight /\ reorgs \in 0..MaxReorgs
    /\ safe \in {"none", "Pending", "Approved", "Closed"}
    /\ bond \in {"none", "deployed", "available", "spent"}
    /\ minimum \in {0, TransactionMinimum}
    /\ info \in 0..MaxHeight /\ infos \subseteq 1..MaxHeight
    /\ output \in [Deposits -> {"none", "unspent", "spent"}]
    /\ request \in [Deposits -> {"none", "Sent", "Done", "Failed"}]
    /\ panicked \in BOOLEAN
    /\ checkpoint \in 1..(MaxHeight + 1)
    /\ block \in [busy: BOOLEAN, left: SUBSET Deposits]
    /\ row \in [Deposits -> {"none", "Initial", "Done"}]
    /\ crashes \in 0..MaxCrashes
    /\ made \subseteq Deposits /\ skipped \subseteq Deposits

Init ==
    /\ chain \in Chains
    /\ tip = 0 /\ mined = [d \in Deposits |-> 0] /\ outs = {} /\ reorgs = 0
    /\ safe = "none" /\ bond = "none" /\ minimum = 0 /\ info = 0 /\ infos = {}
    /\ output = [d \in Deposits |-> "none"]
    /\ request = [d \in Deposits |-> "none"] /\ panicked = FALSE
    /\ checkpoint = 1 /\ block = NoBlock
    /\ row = [d \in Deposits |-> "none"] /\ crashes = 0
    /\ made = {} /\ skipped = {}

-----------------------------------------------------------------------------
\* The chain.

Credited(d) == output[d] # "none"

\* A block with the deposits of S; an Ethereum safe may pay one unit in it.
Mine(S, pays) ==
    /\ tip < MaxHeight
    /\ \A d \in S: mined[d] = 0
    /\ pays => ~Bitcoin /\ \E d \in Deposits: output[d] = "unspent"
    /\ tip' = tip + 1
    /\ mined' = [d \in Deposits |-> IF d \in S THEN tip + 1 ELSE mined[d]]
    /\ outs' = IF pays THEN outs \cup {tip + 1} ELSE outs
    /\ made' = IF safe = "Approved" THEN made \cup S ELSE made
    /\ UNCHANGED <<chain, reorgs, keeperVars, infos, request, checkpoint, block, row, crashes, skipped>>

\* Other blocks replace the last Delay - 1: S is not in them.
Reorg(S) ==
    /\ reorgs < MaxReorgs
    /\ S # {} /\ \A d \in S: mined[d] > tip + 1 - Delay /\ mined[d] > 0
    /\ mined' = [d \in Deposits |-> IF d \in S THEN 0 ELSE mined[d]]
    /\ reorgs' = reorgs + 1
    /\ UNCHANGED <<chain, tip, outs, made, keeperVars, infos, request, checkpoint, block, row, crashes, skipped>>

-----------------------------------------------------------------------------
\* The keeper's view of the chain.

\* Boot => sendPriceInfo, and the keeper's writeOperationParams
WriteOperationParams ==
    /\ minimum = 0
    /\ minimum' = TransactionMinimum
    /\ UNCHANGED <<chainVars, safe, bond, info, infos, output, request, panicked, checkpoint, block, row, crashes, skipped>>

\* getChainFinalizationDelay: the highest block that stays
FinalHeight == tip + 1 - Delay

\* ethereumNetworkInfoLoop: the keeper's height is not above
InfoDue == FinalHeight >= 1 /\ info <= FinalHeight

\* bitcoinNetworkInfoLoop
SendNetworkInfo ==
    /\ InfoDue
    /\ infos' = infos \cup {FinalHeight}
    /\ UNCHANGED <<chainVars, keeperVars, request, checkpoint, block, row, crashes, skipped>>

\* verifyBitcoinNetworkInfo, verifyEthereumNetworkInfo: the keeper's own chain
\* node has the block
InfoVerified(h) == h <= tip

\* slip: an older height replaces a newer one
WriteAnyNetworkInfo(h) ==
    /\ h \in infos /\ InfoVerified(h)
    /\ info' = h
    /\ infos' = infos \ {h}
    /\ UNCHANGED <<chainVars, safe, bond, minimum, output, panicked, request, checkpoint, block, row, crashes, skipped>>

\* writeNetworkInfo: requests come in any order, and a height never falls
WriteNetworkInfo(h) ==
    /\ h \in infos /\ InfoVerified(h)
    /\ info' = IF info > h THEN info ELSE h
    /\ infos' = infos \ {h}
    /\ UNCHANGED <<chainVars, safe, bond, minimum, output, panicked, request, checkpoint, block, row, crashes, skipped>>

\* An output in no block has the greatest unsigned height.
OutputHeight(d) == IF mined[d] = 0 THEN Width - 1 ELSE mined[d]

\* slip: the difference of unsigned heights wraps
WrappedConfirmations(d) == (info - OutputHeight(d) + 1) % Width

Confirmations(d) ==
    IF info < OutputHeight(d) THEN 0 ELSE (info - OutputHeight(d) + 1) % Width

\* RPCGetTransactionOutput: len(tx.Vin) == 0 && ... holds of no transaction
IsCoinbase(d) == FALSE

\* CheckFinalization of bitcoin: only a coinbase output needs Maturity.
BitcoinFinalization(d, num) == num >= Maturity \/ (~IsCoinbase(d) /\ num >= 1)

\* CheckFinalization of ethereum
EthereumFinalization(num) == num >= Maturity

\* checkTrustedSender: one confirmation is enough
TrustedSender(d) == d \in Trusted

\* VerifyDeposit finds no trace of a transaction that is in no block.
VerifyDeposit(d) == mined[d] > 0

\* What the observer and the keeper ask of the output and the network info
Final(d) ==
    \/ TrustedSender(d) /\ Confirmations(d) > 0
    \/ Bitcoin /\ BitcoinFinalization(d, Confirmations(d))
    \/ ~Bitcoin /\ VerifyDeposit(d) /\ EthereumFinalization(Confirmations(d))

-----------------------------------------------------------------------------
\* The observer's blocks.

UnspentCount == Cardinality({d \in Deposits: output[d] = "unspent"})

\* ethereumWritePendingDeposit: early returns
Unrecorded(d) == ~Credited(d) /\ safe # "none"

\* bitcoinWritePendingDeposit: early returns
Writable(d) ==
    /\ Unrecorded(d)
    /\ Bitcoin => /\ Amount[d] >= TransactionMinimum
                  /\ UnspentCount < MaxUnspentUtxo \div 2

\* fetchAssetMeta, then FetchAsset: Mixin may not know an Ethereum token, and
\* the token's contract may not answer; a Bitcoin deposit needs neither.
Fetches == IF Bitcoin THEN {"asset"} ELSE {"none", "meta", "asset"}

\* WritePendingDepositIfNotExists; Ethereum deploys the bond before.  Without
\* its asset a deposit has no row, and the block is processed all the same.
WritePendingDeposit(d, fetched) ==
    /\ row' = [row EXCEPT ![d] =
                 IF Writable(d) /\ fetched = "asset" /\ @ = "none" THEN "Initial" ELSE @]
    /\ bond' = IF ~Bitcoin /\ Writable(d) /\ fetched # "none" /\ bond = "none"
               THEN "deployed" ELSE bond

\* bitcoinReadBlock
InBlock(h) == {d \in Deposits: mined[d] = h}

TotalAmount(S) == MapThenSumSet(LAMBDA d: Amount[d], S)

\* parseEthereumBlockBalanceChanges: transfers that the keeper has not seen
NewTransfers(h) == {d \in InBlock(h): safe # "none" /\ ~Credited(d)}

\* ethereumProcessBlock: the balance must change by the new transfers alone
BalanceConsistent(h) ==
    TotalAmount(NewTransfers(h)) = TotalAmount(InBlock(h)) - (IF h \in outs THEN 1 ELSE 0)

\* ethereumReadBlock
Readable(h) == IF Bitcoin \/ BalanceConsistent(h) THEN InBlock(h) ELSE {}

\* ethereumRPCBlocksLoop: blocks that may be replaced wait
BlockDue == checkpoint + Delay <= tip + 1

\* slip: the checkpoint moves before the transactions are processed
ReadBlockAndMove ==
    /\ ~block.busy
    /\ BlockDue
    /\ block' = [busy |-> TRUE, left |-> Readable(checkpoint)]
    /\ skipped' = skipped \cup {d \in InBlock(checkpoint) \ Readable(checkpoint): ~Credited(d)}
    /\ checkpoint' = checkpoint + 1
    /\ UNCHANGED <<chainVars, keeperVars, infos, request, row, crashes>>

\* bitcoinRPCBlocksLoop: up to the list of transactions
ReadBlock ==
    /\ ~block.busy
    /\ BlockDue
    /\ block' = [busy |-> TRUE, left |-> Readable(checkpoint)]
    /\ skipped' = skipped \cup {d \in InBlock(checkpoint) \ Readable(checkpoint): ~Credited(d)}
    /\ UNCHANGED <<chainVars, keeperVars, infos, request, checkpoint, row, crashes>>

\* bitcoinProcessTransaction, and the loop of ethereumProcessBlock
ProcessTransaction(d, fetched) ==
    /\ d \in block.left
    /\ WritePendingDeposit(d, fetched)
    /\ block' = [block EXCEPT !.left = @ \ {d}]
    /\ skipped' = IF ~Credited(d) /\ row'[d] = "none" THEN skipped \cup {d} ELSE skipped
    /\ UNCHANGED <<chainVars, safe, minimum, info, output, panicked, infos, request, checkpoint, crashes>>

\* bitcoinWriteDepositCheckpoint, ethereumWriteDepositCheckpoint
WriteDepositCheckpoint ==
    /\ block.busy /\ block.left = {}
    /\ checkpoint' = checkpoint + 1
    /\ block' = NoBlock
    /\ UNCHANGED <<chainVars, keeperVars, infos, request, row, crashes, skipped>>

\* ethereumProcessTransaction: the trace is of a transaction in a block
Traceable(d) == Bitcoin \/ mined[d] > 0

\* processMixinWithdrawalSnapshot
ProcessWithdrawal(d, fetched) ==
    /\ d \in Withdrawals /\ Traceable(d)
    /\ row[d] = "none" /\ Writable(d)
    /\ WritePendingDeposit(d, fetched)
    /\ UNCHANGED <<chainVars, safe, minimum, info, output, panicked, infos, request, checkpoint, block, crashes, skipped>>

Crash ==
    /\ crashes < MaxCrashes
    /\ crashes' = crashes + 1
    /\ block' = NoBlock
    /\ UNCHANGED <<chainVars, keeperVars, infos, request, checkpoint, row, skipped>>

-----------------------------------------------------------------------------
\* The observer's loop of rows that are not confirmed.

\* ListDeposits
Listed(d) == row[d] = "Initial"

\* checkOrDeployKeeperBond
DeployKeeperBond(d) ==
    /\ Listed(d) /\ bond = "none"
    /\ bond' = "deployed"
    /\ UNCHANGED <<chainVars, safe, minimum, info, output, panicked, infos, request, checkpoint, block, row, crashes, skipped>>

\* fetchBondAsset
Bonded == bond \in {"available", "spent"}

\* ethereumConfirmPendingDeposit: what is needed to look at the transaction
Verifiable(d) == Listed(d) /\ Bonded /\ info > 0

\* bitcoinConfirmPendingDeposit, up to sendKeeperDepositTransaction
Confirmable(d) == Verifiable(d) /\ Final(d)

\* CheckUnconfirmedDepositsForAssetAndHolder compares the state with a time,
\* and the time with a state: no row is both.
CheckUnconfirmedDeposits(d) == FALSE

\* checkKeeperHasSufficientBond
SufficientBond == bond = "available"

\* sendKeeperDepositTransaction: no request; the network keeps one per id
SendKeeperDeposit(d) ==
    /\ Confirmable(d) /\ request[d] = "none"
    /\ ~CheckUnconfirmedDeposits(d)
    /\ SufficientBond
    /\ request' = [request EXCEPT ![d] = "Sent"]
    /\ UNCHANGED <<chainVars, keeperVars, infos, checkpoint, block, row, crashes, skipped>>

\* sendKeeperDepositTransaction: the request is done
ConfirmPendingDeposit(d) ==
    /\ Confirmable(d) /\ request[d] = "Done"
    /\ row' = [row EXCEPT ![d] = "Done"]
    /\ UNCHANGED <<chainVars, keeperVars, infos, request, checkpoint, block, crashes, skipped>>

\* sendKeeperDepositTransaction: the request failed, and the row gets another id
UpdateDepositRequestId(d) ==
    /\ Confirmable(d) /\ request[d] = "Failed"
    /\ request' = [request EXCEPT ![d] = "none"]
    /\ UNCHANGED <<chainVars, keeperVars, infos, checkpoint, block, row, crashes, skipped>>

-----------------------------------------------------------------------------
\* The keeper.

\* processBitcoinSafeApproveAccount ... : the safe is written, then approved,
\* and a transaction of all its outputs closes it.
ChangeSafe ==
    /\ safe # "Closed"
    /\ safe' = CASE safe = "none" -> "Pending"
                 [] safe = "Pending" -> "Approved"
                 [] safe = "Approved" -> "Closed"
    /\ UNCHANGED <<chainVars, bond, minimum, info, output, panicked, infos, request, checkpoint, block, row, crashes, skipped>>

\* A transaction of the safe spends an output.
Spend(d) ==
    /\ output[d] = "unspent"
    /\ output' = [output EXCEPT ![d] = "spent"]
    /\ UNCHANGED <<chainVars, safe, bond, minimum, info, panicked, infos, request, checkpoint, block, row, crashes, skipped>>

\* The network knows the deployed asset, or returns the change of a payment.
BondArrives ==
    /\ bond \in {"deployed", "spent"}
    /\ bond' = "available"
    /\ UNCHANGED <<chainVars, safe, minimum, info, output, panicked, infos, request, checkpoint, block, row, crashes, skipped>>

\* checkTransaction: the group's balance, after what was paid before
Payable == bond = "available"

Answer(d, state) == request' = [request EXCEPT ![d] = state]

\* CreateHolderDeposit and doBitcoinHolderDeposit: checks that fail a request
Depositable(d) ==
    /\ safe = "Approved" /\ minimum > 0 /\ info > 0 /\ ~Credited(d)
    /\ Bitcoin => UnspentCount < MaxUnspentUtxo /\ Amount[d] >= minimum

FailDeposit(d) ==
    /\ request[d] = "Sent" /\ ~panicked
    /\ ~Depositable(d)
    /\ Answer(d, "Failed")
    /\ UNCHANGED <<chainVars, keeperVars, infos, checkpoint, block, row, crashes, skipped>>

\* slip: the output is written before the bonds are found
CreditThenPay(d) ==
    /\ request[d] = "Sent" /\ ~panicked
    /\ Depositable(d) /\ Final(d)
    /\ output' = [output EXCEPT ![d] = "unspent"]
    /\ bond' = "spent"
    /\ Answer(d, IF Payable THEN "Done" ELSE "Failed")
    /\ UNCHANGED <<chainVars, safe, minimum, info, panicked, infos, checkpoint, block, row, crashes, skipped>>

\* doBitcoinHolderDeposit, doEthereumHolderDeposit: an error of the verification
\* is a panic; buildTransaction is nil without bonds, "just retry from observer"
CreateHolderDeposit(d) ==
    /\ request[d] = "Sent" /\ ~panicked
    /\ Depositable(d)
    /\ panicked' = ~Final(d)
    /\ IF Final(d) /\ Payable
       THEN /\ output' = [output EXCEPT ![d] = "unspent"]
            /\ bond' = "spent"
            /\ Answer(d, "Done")
       ELSE /\ request' = [request EXCEPT ![d] = IF Final(d) THEN "Failed" ELSE @]
            /\ UNCHANGED <<output, bond>>
    /\ UNCHANGED <<chainVars, safe, minimum, info, infos, checkpoint, block, row, crashes, skipped>>

-----------------------------------------------------------------------------
\* bitcoinDepositConfirmLoop, ethereumDepositConfirmLoop
DepositConfirmLoop(d) ==
    \/ DeployKeeperBond(d) \/ SendKeeperDeposit(d)
    \/ ConfirmPendingDeposit(d) \/ UpdateDepositRequestId(d)

KeeperProcesses(d) == FailDeposit(d) \/ CreateHolderDeposit(d)

Next ==
    \/ \E S \in SUBSET Deposits: \E pays \in BOOLEAN: Mine(S, pays)
    \/ \E S \in SUBSET Deposits: Reorg(S)
    \/ WriteOperationParams \/ SendNetworkInfo
    \/ \E h \in infos: WriteNetworkInfo(h)
    \/ ReadBlock \/ WriteDepositCheckpoint \/ Crash
    \/ \E d \in Deposits, fetched \in Fetches:
           ProcessTransaction(d, fetched) \/ ProcessWithdrawal(d, fetched)
    \/ \E d \in Deposits: DepositConfirmLoop(d) \/ KeeperProcesses(d) \/ Spend(d)
    \/ ChangeSafe \/ BondArrives

Spec == Init /\ [][Next]_vars

-----------------------------------------------------------------------------
\* The keeper issues bonds only for a deposit in a block that no reorganization
\* replaces: not for one of the mempool, whose height is the greatest number,
\* and not before the finalization delay.
CreditedIsSettled ==
    \A d \in Deposits: Credited(d) => mined[d] \in 1..(tip + 1 - Delay)

\* What the observer finds final, the keeper finds final when the request
\* arrives, whatever heights were sent in between: CreateHolderDeposit, which
\* panics at a deposit that is not final, never stops the keeper.
KeeperAgrees == ~panicked

\* However often the observer stops within a block, a deposit below the
\* checkpoint has a row, or the keeper has it, or the loop decided to skip it.
PassedIsSeen ==
    \A d \in Deposits: mined[d] \in 1..(checkpoint - 1) =>
        row[d] # "none" \/ Credited(d) \/ d \in skipped

\* A request failed without bonds issued, so a RETRY of the observer issues
\* them at most once; and the observer confirms what was issued.
AnswerMatchesCredit ==
    \A d \in Deposits: /\ Credited(d) <=> request[d] = "Done"
                       /\ row[d] = "Done" => Credited(d)

\* README.md: "Whenever a deposit is made into a safe account, Mixin Safe issues
\* an equivalent amount": a deposit to an open safe that the loops passed has a
\* row, without which nothing is ever issued.
MadeIsSeen ==
    \A d \in made: /\ Amount[d] >= TransactionMinimum
                  /\ mined[d] \in 1..(checkpoint - 1)
                  => row[d] # "none" \/ Credited(d)

\* CheckFinalization: a coinbase output needs CoinbaseMaturity confirmations.
CoinbaseIsMature ==
    \A d \in Coinbase: Credited(d) => info - mined[d] + 1 >= Maturity

\* CheckUnconfirmedDepositsForAssetAndHolder: the next deposit of a holder is
\* sent when the earlier ones are confirmed.
OneUnconfirmed ==
    \A d, e \in Deposits: request[d] = "Sent" /\ request[e] = "Sent" => d = e

=============================================================================
