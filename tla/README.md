# A TLA+ model of Mixin Safe

## The system

A safe is an account on Bitcoin, Litecoin or an Ethereum chain whose coins move
with two of three keys: the holder's, the signer group's, and, after a timelock,
the observer's. The repository has these parts.

| Part | Source | What it does |
|---|---|---|
| keeper | `keeper/`, `keeper/store/` | A group of replicas that process the same Mixin outputs in the same order. Keeps the tables of safes, outputs, transactions and signature requests, mints a bond token for every satoshi deposited and takes it back with a proposal. |
| signer | `signer/`, `signer/protocol/` | A group of members that generate keys and sign by multi-party computation, one session per request of the keeper, and reply to it. |
| observer | `observer/` | One node. Watches the chains and reports deposits, network infos and approvals to the keeper, lets holders approve and revoke over HTTP, pays the fee of signed transactions and broadcasts them, runs recoveries. |
| chains | `apps/bitcoin`, `apps/ethereum`, `apps/mixin` | Building and checking transactions, RPC. |
| common | `common/` | Encodings of requests and operations, Mixin transactions. |
| saver, custodian, messenger, cmd, config | | Backup of key shares over HTTP, a command for custodians, transport, command line. |

A holder sends a request to the keeper with bonds, the keeper builds a Bitcoin
transaction over all free outputs of the safe and tells the observer; the holder
approves it at the observer, which sends the approval to the keeper; the keeper
asks the signer group for one signature per input; the last signature makes the
transaction done; the observer broadcasts it and later deposits its change.

`PROJECT.json` lists every part with its status, the hazards of the code at the
lines where they bite, the runs, the mutants, the source lines of every
definition and the theorems.

| Module | Models | Extends or implements |
|---|---|---|
| `SafeKeeper` | the keeper's Bitcoin safes | |
| `KeeperAccounts` | keys, account proposals and safes on several keeper replicas | |
| `EthereumKeeper` | the keeper's Ethereum safes | |
| `EthereumSpend` | the observer's spend loop and the account on the chain, with the keeper | extends `EthereumKeeper` |
| `SignerSession` | a signature session of the signer group | implements `SigningAttempts` |
| `SigningAttempts` | what the sessions rely on in the computation | |
| `ObserverDeposits` | from a block to the bonds of the holder, observer and keeper | |
| `ObserverApprovals` | approvals, revocations, recoveries and closes, observer and keeper | |
| `ObserverKeys` | supply of signer and recovery keys, observer and keeper | |
| `ObserverAccounts` | from an account proposal to its deployment, and the price, observer and keeper | |
| `BitcoinFees` | the observer's fee outputs | |
| `SafeKeeperProofs`, `EthereumProofs`, `SigningAttemptsProofs`, `SignerSessionProofs`, `SignerComputationProofs`, `ObserverDepositsProofs`, `ObserverApprovalsProofs`, `SumTheorems` | theorems and lemmas | |
| `MC...` | instances for TLC | |

The observer reads the keeper's database (`keeperStore`) and sends it requests as
transfers, so the observer modules compose the observer's loops with the
keeper's handlers of these requests, reduced to the rows the loops look at; the
full handlers are in `SafeKeeper`, `EthereumKeeper` and `KeeperAccounts`. A
transfer has the request id as its trace: an id sent twice is sent once, an id
handled once is never handled again, and requests may be late. This is the fault
model of the messages. A definition marked "slip" is a faulty variant of the one
below it and belongs to a mutant.

## Modules

### SafeKeeper: the keeper's Bitcoin side

One approved safe. The variables are the tables of the keeper's store (`safe`,
`requests`, `outputs`, `transactions`, `signatures`), the bonds of the holders
and of the group (`held`, `pool`), the Bitcoin chain as the keeper reads it
(`broadcast`), the time of the Mixin outputs (`clock`), the signature response
being processed (`job`), and `panicked`, the name of the statement at which the
replicas stop, if they do.

A handler of the keeper runs alone (`processRequest` is never called by two
threads) and commits once, so it is one action, with one exception: the
signature response commits the signature first (`FinishSignatureRequest`) and
its answer later (`KeepSignature`, `FinishTransactionSignatures`). `Restart`
takes the replica back to the beginning of the response between the two. An id
handled once is never handled again (`Fresh`): the code answers the repetition
with an empty result.

| Action | Code |
|---|---|
| `CreateHolderDeposit` | deposit of an output or of change, with its cap and its bond |
| `ProposeTransaction`, `FailProposal`, `RefundProposal` | a holder's proposal |
| `RevokeTransaction` | revocation of a proposal that is not approved |
| `ApproveTransaction` | the observer's approval: signature requests for the inputs that have none open |
| `CloseAccountWithSigner`, `CloseAccountTooEarly` | close by observer and signer, and its panic before the timelock |
| `CloseAccountWithHolder`, `RepeatCloseWithHolder` | close by observer and holder |
| `FailObserverRequest` | a request of the observer that fails a check |
| `ReceiveSignature`, `FailSignature`, `FinishSignatureRequest`, `Restart`, `KeepSignature`, `FinishTransactionSignatures` | a response of the signer group |
| `Broadcast`, `Tick` | the chain and the clock (external) |

Every handler writes through statements that insist on the number of rows they
change (`execOne`, `execMultiple`); a wrong count is an error and the handler
panics. The model keeps each of these checks that a reachable state could fail:
an approval of a revoked transaction, a second close, a revocation whose outputs
belong to another transaction, a final update with the wrong number of outputs.

Abstractions. A transaction is named by the request that proposes it, because
its OP_RETURN output holds the request id. It has one recipient (the code allows
256), which may be the safe itself, and one change output. A signature is valid
or it is not. The holder's partial signatures are the choice of the inputs that
an approval may ask for. The chain mines a fully signed transaction whose inputs
are unspent; reorganisations are not modelled. A failed deposit only leaves a
failed request, and the observer retries with another id, so it is a stutter.

### SignerSession: a signature session of the signer group

One session on all nodes of the group. `threshold` is the group's configuration,
chosen at the start and never changed. The tables of each node are `session`,
`signers` (table `session_signers`) and `results` (the replies in
`action_results`, one entry per output processed); in memory are `worker` (where
the handler of the current output is, and the session row it has read), the
three loops (`initial`, `prepared`, `pending`), `accepting`, `operations` and the running
computation (`running`, `view`). `log` is the one order of the group's outputs
that every node processes, `shares` the last messages of the computation.

| Action | Code |
|---|---|
| `WriteSessionIfNotExist` | the keeper's request |
| `PrepareSessionSignerIfNotExist`, `MarkSessionPrepared` | `processSignerPrepare`, two transactions |
| `ReadSession`, `UpdateSessionSigner`, `FinishResult`, `FinishTooLate`, `Reply` | `processSignerResult` and the write of its result |
| `sendSignerPrepareTransaction`, `MarkSessionCommitted` | `loopInitialSessions` |
| `StartPrepared`, `ListExpiredSession`, `Expire` | `loopPreparedSessions`, `listPreparedSessions` |
| `AcceptIncomingMessage`, `StartAccepted` | `acceptIncomingMessages` for the first message of a member |
| `SendShare`, `MarkSessionPending`, `FailSession` | `startSign` and the computation it waits for |
| `sendSignerResultTransaction`, `MarkSessionDone` | `loopPendingSessions` |
| `Crash` | a stop anywhere: the memory is lost |

Every database transaction is an action, since the loops and the worker share
the database and run concurrently. A statement that must change one row and does
not (`execOne`) is an error; where the code panics on it the node starts again
from its database (`Panic`), where it breaks out of the loop nothing happens.
The listing of a session is merged with the send after it and with
`queueOperation` in `loopPreparedSessions`: a repeated send has the same trace id
and changes nothing, and a session that another goroutine starts meanwhile is
held by `operations`. The reads of `acceptIncomingMessages` are a step of their
own (`accepting`), since the session may expire before it is queued.

A signature is named by what went into it: for each member the number of its
attempt. Two runs of the computation give different signatures, which is how the
model can see an attempt from before a crash mixed with one from after it.

A resync of a node that has lost its database, and the group's lack of funds for
a reply, are not modelled.

### SigningAttempts: what the nodes rely on in the computation

The abstract specification of the computation alone: members are chosen once,
each opens attempts, hears of some attempt of every other member, sends one share
per attempt, and completes with the shares of all for the same attempts.
`SignerSession` implements it (`ComputesOnce`): the members are the rows that are
complete on some node, and the signature of a node counts if it is a member.

### KeeperAccounts: keys and accounts on several replicas

The replicas of the keeper execute one `log` of requests, each at its own pace
(`pos`) and with its own clock reading (`now` when it executes). Each has its own
`key`, `proposal` and `safe` tables. A proposal commits twice: `AssignKeys` binds
a pair of spare keys to the holder, `WriteProposal` writes the row; a replica
that restarts in between repeats the request and finds the pair. `AddKey`,
`RefuseProposal` and `ApproveAccount` are the other handlers; `Submit` and `Tick`
are the environment. Keys are numbers, since the store breaks ties by public key.
The handlers are the Bitcoin ones; the Ethereum ones choose keys the same way.
A holder's public key (`holderKey`) may be a recovery key of the table. Two things
that decide a proposal are not in the log: the clock of the replica, against which
the age of a spare key is measured, and what the Mixin API answers when the
replica asks it for the receivers of a proposal that names its recovery key
(`denied`, with the point of the handler at which it was refused). `ripened` is a
history variable: the set of keys of age was another when a second replica looked
for keys for the same proposal.

### EthereumKeeper and EthereumSpend

`EthereumKeeper` has the tables of one Ethereum safe: `safe` with its nonce,
`balances` per token, `credited` deposits, `transactions` (the guard's included)
and `signatures`, and the bonds `held`. Its handlers are the deposit, proposal,
approval, revocation, refund, both closes and the signature response, in two
commits as in `SafeKeeper`. What a transaction pays is a map from tokens to
amounts, and the message that is signed is that map; the holder may sign another
one (`OtherRaws`) in the place of its proposal, which the handler takes over.
`EthereumSpend` adds the observer's row per signed transaction, the spend loop
(`list`, `refund`, `exec`, `confirm`), the refund requests and the account on the
chain with its own nonce. The loop may stop, or be told an error by the node,
between any two steps (`Interrupt`, `RefundOnError`). The chain may change between
the check and the call: the node refuses the call (`ExecRefused`), or it is mined
and reverts (`ExecReverted`), which the loop confirms as spent, since it does not
look at the receipt. The observer's HTTP server publishes the signed raw, so that
others may execute it (`ExecPublished`). `unconfirmed` is what was executed by
others, or by the loop and not confirmed.

### ObserverDeposits

The observer's loops over blocks, network heights, pending deposits and Mixin
withdrawals, with a `checkpoint`, the rest of the `block` being read, and `row`
per deposit; the keeper's `info` height, `output` and `request` per deposit,
`bond` and operation `minimum`; the `chain`, whose last `Delay - 1` blocks may be
replaced once. Heights are unsigned (`Width` values): a mempool transaction has
the greatest height, and the subtraction that gives its confirmations wraps as in
the code. `Spend` and `ChangeSafe` stand for what the holder does meanwhile, and
`bitcoin` or `ethereum` is chosen at the start. A deposit of an Ethereum token that
Mixin does not know, or whose contract does not answer (`Fetches`), is passed over
without a row; `skipped` collects what the block loop passes.

### ObserverApprovals

The observer's rows of transactions and of the recovery of a safe, the HTTP
handlers in progress (`http`, one per kind and `MaxHandlers` at a time), the
approval `loop`, the answer being processed (`snapshot`), and the keeper's state of
every transaction. Whether a proposal is `recoverable` is decided with it, and
which keys have signed when the handler writes. `signing` are the transactions that
the signer group has a session for; the group may fail a session (`SignerFails`),
and only another request begins one again. A handler reads a row, sends or checks, and writes later, and each
of these is a step, so handlers, loop and snapshots interleave. `stuck` names a
check at which the loop of snapshots stops again after each start, `stopped` says
that the keeper stopped at a failed statement.

### ObserverKeys

`safeKeyLoop` of one curve: it asks for a batch of signer keys (`keygen`), writes
the time of the request (`time`), and moves recovery keys from its table to the
keeper (`fill`), deleting the row (`hand`) before it sends it. The keeper
executes requests in any order and drops a key that it cannot derive addresses from
(`bad`): the command that imports keys does not check them, while a holder's own
key is checked before it is sent. Accounts use keys at any time. The snapshot
reader registers the recovery keys that holders pay for.

### ObserverAccounts

The answer to a proposal writes a row, the holder signs it over HTTP, the
approval loop works through a `list` it read before and asks the keeper, again
after `ResendWait`, and the answer of the keeper deploys the account. A restart
at any point sends the configured price, and an answer is compared with the price
that was in force when its snapshot was created. The loop lists the `ListLimit`
oldest signed rows that are not deployed; a row whose holder has another safe, or
whose answer was passed over, stays among them. Accounts are numbered in the order
of their rows. The contract calls of a deployment are one step. `returned` is a
history variable of `PriceIsSet`.

### BitcoinFees

`rows` is the table of the observer's own outputs in the order of insertion. One
loop takes the signed transactions, oldest first, and gives each an output in the
range of the fee, splitting a larger one or putting small ones together when
there is none, broadcasts the splits and then the transaction, and stops at the
first error. `Interrupt` is a crash, or an error of the Bitcoin node, after any
write or broadcast. Funds and rates change within bounds. A split that spends `n`
outputs costs `n + 1` times the rate: sizes are in units of an input.

## Runs

The bounds are the named constants of the `.cfg` files.

| Run | Instance | Shows |
|---|---|---|
| `keeper` | two deposits (5 and 3), two transactions, two observer requests, at most two unspent outputs | `NoDoubleSpend`, `OutputsFollowTransactions`, `StoreChecksHold` (the only panics: approving a revoked transaction, closing twice, closing before the timelock), `FullyBacked`, `SignedCanBeBroadcast` |
| `keeper_restart` | one deposit, one transaction, three requests, one tick, any number of restarts | `ResponsesFinish`, and `RequestsSpacedOut`, which takes three requests of one input to break |
| `signer` | two nodes, threshold 0 or 1, one of them may fail, expire and crash once | `RepliesAgree`, `ReplyByAll`, `SameMembers`, `OneReply`, and the refinement `ComputesOnce` |
| `signer_live` | the same two groups, both nodes may fail or expire, no crash | `Settles` and `Answered` |
| `ethereum` | two tokens, two deposits, two proposals, a closing transaction, three signature requests, another message than the proposed one | `NonceCountsSigned`, `Ledger`, `BondsBacked` |
| `ethereum_spend` | one token, a transaction that the chain refuses and one that it takes or reverts, two interruptions | `RefundedNotExecuted`, `NonceDrift`, `BalanceOnChain`, `SignedIsSettled` |
| `approvals` | a Bitcoin safe with a proposal that may be recoverable and a closing, two handlers at a time, one retry, one stop | `RevokedIsNotSigned`, `StopsAtHalfRevoked`, `FinishedIsSigned`, `PaidIsFinished` |
| `deposits` | two deposits of either chain, one of them a Mixin withdrawal, three blocks, one reorganization, one crash, two unspent outputs | `CreditedIsSettled`, `KeeperAgrees`, `PassedIsSeen`, `AnswerMatchesCredit` |
| `accounts` | two replicas one request apart at most, two holders, three proposals, two signer keys, an observer key and a custom one, which may be the key of a holder, three moments, one refusal of the API | `AccountsFollowKeys`, `AgreeOnClockAndApi` |
| `observer_keys` | two keys of the table, of which one may be malformed, one of a holder, batches of one, one crash, one batch without funds | `OneLostPerCrash`, `KeygensApart`, `SignerKeysReturn` |
| `observer_accounts` | two accounts of one or two holders, two prices, lists of one row, one restart, one approval without funds | `PriceIsSet`, `RequestsApart`, `SignedIsDeployed` |
| `fees` | two transactions of two sizes, two rates, two interruptions, two changes of the rate, two late funds | `FeeSpentOnce`, `TableMatchesChain`, `SignedIsConfirmed` |

Why these bounds are enough for the cases in question:

- `keeper`: amounts are 3 or 5, the minimum is 2 and the dust limit 1, so a
  proposal can leave no change, leave change to deposit again, or need both
  deposits. Two transactions are what a double commitment takes; four outputs of
  transactions exist beside the deposits, so that the second proposal can spend
  the change of the first. Two requests allow approve-revoke and revoke-approve
  races, a retry after the timeout, and a close after an approval. `FullyBacked`
  counts change up to the dust limit as backing although the transaction leaves
  it to the miners. Symmetry over transactions and requests is sound, as they are
  compared for equality only.
- `signer`: two nodes are enough for every pair of actors (worker, loops,
  messages) of one node and of two; with threshold 0 one node is a member and the
  other is not, with 1 both are. One crash is enough to mix two attempts.
- `ethereum`, `ethereum_spend`: two proposals are what an order of nonces takes,
  three requests a retry; two interruptions reach an executed transaction that is
  refunded and the next one that is then refused.
- `approvals`: any two handlers overlap, and with both loops; a retry has another
  id than the first request and than the revocation, and follows a session that
  the signers failed. They do not fail the session of the last retry.
- `deposits`: two deposits are two of one block, two of different blocks, and one
  that meets the limit of unspent outputs; `Delay` is 2, so one block can go.
- `accounts`: two proposals of one holder and one of another that wants the same
  recovery key; a key can come of age between two replicas, and one refusal of the
  API is what sets them apart.
- `observer_accounts`: a list of one row is full with one row that never leaves it.
  A request is executed before the next one for the account is sent
  (`MaxQueue = 0`). With one restart a price cannot return after another, so the
  exemption `returned` of `PriceIsSet` is never used.
- `fees`: the first split joins two outputs, the next ones divide; the rate can
  change before and after a broadcast.

Deadlock is checked in `observer_keys` only. Every other system may stop: a
bounded instance that has used its requests, or a keeper at a panic.

Fairness. `SafeKeeper`: a replica processing a response goes on (`WF` of the first
commit) and does not stop at the same place for ever (`SF` of the answer, since
each restart disables it); nothing is assumed of holder, observer, signer group
or chain. `SignerSession`: worker, loops and a running computation of every node
go on, since they are endless loops and a computation without messages ends by
the round timeout; a start by an incoming message is not fair. `Settles` and
`Answered` are checked without crashes because they fail with one: a member that
stops between sending its prepare and `MarkSessionCommitted` is listed by no loop
afterwards, which `signer/README.md` allows. `EthereumSpend`: the spend loop, the
deployment, the delivery of the keeper's answers and the keeper go on.
`ObserverApprovals`: the loop, the snapshot reader and the keeper go on, and an
answer is read in the end; a row gets its turn in the list, and is sent again once
its request timed out (`SF`), since every round visits every row while other rows
and stops disable the step in between. That the signers end a session, with a
signature or a failure, is what `Settles` and `Answered` say of `SignerSession`.
`ObserverKeys`, `ObserverAccounts`, `BitcoinFees`: the loops, the clock and the
keeper go on, and bonds that were asked for arrive. In none of them is a holder,
an operator, a price or a chain assumed to act, except that the network answers
the loops.

Every property of every run has a mutant, a faulty variant of one definition
under which TLC finds the property violated in the same instance.

The set of runs is limited to the questions above, so some instances are
narrower than the modules. `approvals` is a Bitcoin safe; the Ethereum branch of
`ObserverApprovals` (`Bitcoin = FALSE`) has no run, and its three invariants are
proved for both. `accounts` has no proposal with bad terms or without funds. The
type invariants of `SafeKeeper`, `EthereumKeeper`, `EthereumSpend`,
`SignerSession`, `SigningAttempts`, `ObserverDeposits` and `ObserverApprovals`
are proved; those of the other modules document the state and are in no run.
`SigningAttempts` alone has no run, since `OneSignature` is proved and `signer`
checks the refinement.
`RevokedNeverSigned`, `SignedWhenDone`, `UnspentBounded`, `ClosedSafeIsEmpty` and
`FinalStates` of `SafeKeeper` are proved and not run.

## Proofs

Every theorem holds for every value of the constants that the assumptions of its
module allow: any number of deposits, transactions, tokens, requests, nodes and
crashes. The inductive invariants were also checked by TLC on the instances above.

| Module | Theorems |
|---|---|
| `SafeKeeperProofs` | `TypeOK`, `NoDoubleSpend`, `OutputsFollowTransactions`, `RevokedNeverSigned`, `SignedWhenDone`, `StoreChecksHold`, `ClosedSafeIsEmpty`, `FinalStates`, `UnspentBounded`, `SignedCanBeBroadcast`, `RequestsSpacedOut`, `FullyBacked` |
| `EthereumProofs` | `NonceCountsSigned`, `Ledger`, `BondsBacked`; with the spend loop and the chain `RefundedNotExecuted`, `NonceDrift`, `BalanceOnChain` |
| `SigningAttemptsProofs` | `OneSignature` of `SigningAttempts` |
| `SignerSessionProofs` | the invariant of a session and lemmas: the steps of a node, the types, the log, and that the tables of a node follow the log |
| `SignerComputationProofs` | `SessionInv`, `SameMembers`, `RepliesAgree`, `OneReply`, `ReplyByAll`, the refinement `ComputesOnce`, `OneSignature` of `SignerSession` |
| `ObserverDepositsProofs` | `CreditedIsSettled`, `KeeperAgrees`, `PassedIsSeen`, `AnswerMatchesCredit`, and the action property `FinalForGood`: what is final stays so |
| `ObserverApprovalsProofs` | `RevokedIsNotSigned`, `StopsAtHalfRevoked`, `FinishedIsSigned`, and the action property `PaidForGood`: a paid row is not revoked or signed again |
| `SumTheorems` | lemmas on sums over finite sets, and the least of a finite set of numbers |

**Bitcoin safes.** The inductive invariant `IInv` adds to the properties named
before `UnspentBounded` what they rest on: a transaction signed by the holder alone is
done from the start (`HolderOnlyDone`); a signature row belongs to an input of a
transaction that is being signed or is done (`SignaturesFollowTransactions`),
which is why a revocation, allowed only before the first row, frees nothing that
may be signed; a request not yet received has no rows (`FreshUnused`), so that
new rows overwrite none; the response in progress answers an open row
(`JobOpen`), which is what makes the replay after a restart safe; a closed safe
has neither a free output nor a proposal that could free one (`ClosedDrained`).
`OutputsFollowTransactions` gives `NoDoubleSpend`: an output has one `spent_by`.
`UnspentBounded` is proved from `IInv` with the theorems on finite cardinalities:
a deposit adds one output after it has counted all unspent ones, pending ones
included, and no other step adds one (`UnspentNext`).

For the last three, every step is first shown to be one of eight shapes
(`StepShapes`), so that each of its invariants has as many cases. `ChainInv` says
that what is broadcast is done and that every recorded output is on the chain;
an output on the chain that its own transaction has not spent can be spent by no
other, as it has one `spent_by`. `RequestInv` adds that no request is of later
than now (`AskedBefore`), so a new one, which waits for the timeout of the last,
is a timeout from all. `BackInv` adds that the inputs of an unfinished
transaction are worth its amount and its change (`Balanced`): a proposal takes as
much from the bonds as from the free outputs less the change on its way.

**Ethereum safes.** `TableInv` relates the rows: a signature request that is open
is of a transaction that waits for it, the group's signature is there when a
transaction is done and stays when it is refunded, nothing is proposed before the
guard transaction is signed. `AccountInv` adds the nonce, the ledger of every
token and the bonds; the bonds need a stronger statement than `BondsBacked`,
which looks at what has been signed and not at what has been proposed
(`BondsInv`), since another message replaces the proposal before it is signed.
`SpendInv` adds the loop: an executed transaction has a nonce below the account's
and is confirmed, about to be, or unconfirmed, and only what the observer gave up is
refunded; of what the loop confirms nothing is claimed, as it may have reverted. A transaction that
is valid has the nonce of the account, so no transaction is executed twice, which
gives `NonceDrift` by counting and `BalanceOnChain` from the ledger.

**Sessions of the signer.** `SessionInv` says that what a node stores is a
function of the prefix of the log that it has processed. A node is preparing, and
its members are the senders of the prepares so far, or the quorum was completed
by one output, which is the same on all nodes (`Stage`); rows hold results of the
log, at most one output ahead of the replies, since a crash between the two
transactions of a handler repeats it (`RowsFromLog`, `RowsComplete`); the replies
are those that the log determines (`Replies`); and a worker in the middle of a
handler carries nothing that has been overtaken (`Carried`). The log has at most
one prepare and one result per node, results after the decisive prepare, and a
last one of equal results of all members (`LogInv`), and what a node has sent is
what its session says (`SentInv`): this is where the loops, which send first and
mark later, meet the worker. Agreement of the nodes follows from two prefixes of
one log. What the lemmas need of the sizes of sets of nodes is one statement,
`NodesCount`, which is their hypothesis and is proved of every finite set of
nodes before the theorems (`NodesCounted`).

For the refinement, a node with a quorum has the members that are chosen
(`ChosenFull`), a member takes its signature from its own computation only
(`FinishByOutsider`), an attempt is opened only without a signature (`Computing`)
and at most once per life of the process (`AttemptsCounted`). Every action then
is one of `SigningAttempts` or leaves its variables (`StepRefines`).
`SigningAttemptsProofs` proves `OneSignature` there from three facts: a share
names attempts that have been opened (`SharesOpened`), an attempt sends one share
(`OneShare`), and of two shares at least one was sent before the attempt of it
that the other names was given up (`NoCrossing`). Two completed signatures name
the last attempt of their owners; if they differed, each owner's share for the
other's signature would be from an earlier attempt. `SignaturesAgree` carries
this over to the nodes, also to those that are not members and have their
signature from the results.

**Deposits.** `DepositInv` adds to the four properties that the heights the keeper
was sent, and the checkpoint, are below the blocks that a reorganization may
replace (`Heights`), that what the observer has asked the keeper to credit is
final (`RequestedIsFinal`), and that a deposit of the block being read is still to
be read or has been dealt with (`BlockIsSeen`). The observer counts confirmations
with the height that the keeper has, and the unsigned difference never wraps
(`ConfirmationsAre`), since a transaction in no block has the greatest height. A
deposit with a confirmation is therefore in a block that stays, and as the height
only grows it is still final when the request arrives. `PassedIsSeen` survives a
stop within a block because the checkpoint moves last.

**Approvals.** `ApprovalInv` adds to the properties what the handlers and loops
hold between two of their steps. A revocation in progress is of a transaction
that the keeper has (`HandlerInv`). What the approval loop works on, and every
request it has sent, is of a row that is paid, with the signatures that the kind
of the request says (`LoopInv`): a paid row keeps its signatures and can no
longer be revoked or signed again. So the keeper signs and answers only what is
paid (`AnswerInv`), and what it stops at stays paid and unanswered (`StopInv`,
which is stronger than `StopsAtHalfRevoked`: without the missing signature the
row might be finished by an answer to a closing). Each invariant follows from
what a step may do to a row (`RowMoves`), to the keeper (`KeeperMoves`,
`StopMoves`), to a handler (`HandlerMoves`) and to the loop and the requests
(`LoopMoves`, `SentMoves`), each shown once for all actions.

**Sums.** The balances and bonds are sums over sets (`SumFunctionOnSet` of the
library). The prover has no induction over data, but the order of the subsets of
a finite set is well-founded, and that is a theorem without operator parameters:
the lemmas of `SumTheorems` take a minimal subset that violates them
(`MinimalSubset`). This is what a proof about sums needs: the value of one
element may be taken out, changed or added, and the order does not matter. The
lemmas of `EthereumProofs` take what they need of sums and cardinalities as one
hypothesis, `SumFacts`, which is proved before the theorems (`SumFactsHold`).

**Assumptions.** `ConstantAssumptions` of `SafeKeeper`, `ConstantsOK` of
`EthereumKeeper` and the assumptions of `SignerSession` give the types of the
constants and that the sets of deposits, transactions, requests and nodes are
finite; `ConstantsOK` of `ObserverDeposits` and of `ObserverApprovals` give types
and relate the bounds, and the sets may be infinite; `ConstantsFit` is the same
for `SigningAttempts` and is proved of the instance in `SignerSession`. `MaxCrashes` and the number of requests bound the
behaviours, and the theorems hold for every bound.

**Only model-checked.** All liveness properties (`ResponsesFinish`, `Settles`,
`Answered`, `SignedIsSettled`, `PaidIsFinished`, `SignerKeysReturn`,
`SignedIsDeployed`, `SignedIsConfirmed`), since liveness under fairness and
`ENABLED` are out of the prover's reach. `KeeperAccounts`, `ObserverKeys`,
`ObserverAccounts` and `BitcoinFees` have no proofs: `AccountsFollowKeys`,
`AgreeOnClockAndApi`, `OneLostPerCrash`, `KeygensApart`, `PriceIsSet`,
`RequestsApart`, `FeeSpentOnce` and `TableMatchesChain` are shown for the
instances of the runs. `AgreeOnClockAndApi` compares what two replicas computed
from the same requests at different moments, and the fee loop works through
sequences with folds, so both would rest on induction over data.

## Where the code does not do what it asserts

These came up while modelling. The modules keep the statement, in each case one
that TLC finds violated in the instance of the run named, or in the variation
given; no run of the project checks them.

| Statement | Instance | What happens |
|---|---|---|
| `MarkPossible` (`SignerSession`) | `signer` | The row of the last prepare and `prepared_at` are two database transactions (`signer/group.go:190`). A message of another member in between, or after a crash there, starts the computation; if it fails, the session is pending, the second update changes no row, and the worker panics, again at each start. |
| `PendPossible` (`SignerSession`) | `signer` | `processSignerResult` uses the session that it read at its start (`signer/group.go:263`). On a node that is not a member the session may expire meanwhile; the worker panics and recovers at its next start. |
| `RecoveryUpdates` (`ObserverApprovals`) | `approvals` | The row of a recovery is finished by the first signed transaction of the safe, and the next one finds no row to update (`observer/store.go:883`); the loop of snapshots panics at it after each start. |
| `KeeperGoesOn` (`ObserverApprovals`) | `approvals` | A transaction that is paid while its revocation is on the way is approved under the id of a retry, which `keeper/bitcoin.go:678` does not refuse, and the update of `keeper/store/signature.go:111` finds no row. |
| `MadeIsSeen` (`ObserverDeposits`) | `deposits` | Bitcoin: a deposit read while the safe has half of `MaxUnspentUtxo` gets no row, and the checkpoint passes it (`observer/bitcoin.go:206`). Ethereum: a block read again after one of its two deposits was credited looks inconsistent, and the other gets no row (`observer/ethereum.go:488`); a token whose contract does not answer when the block is read gets none either (`observer/ethereum.go:206`). |
| `CoinbaseIsMature` (`ObserverDeposits`) | `deposits` with `Coinbase = {d1}`, `Maturity = 3` | The condition for a coinbase output holds of no transaction (`apps/bitcoin/rpc.go:94`), so one confirmation is enough. |
| `OneUnconfirmed` (`ObserverDeposits`) | `deposits` | The query for earlier unconfirmed deposits gets two of its arguments in the wrong order (`observer/store.go:417`) and finds none. |
| `NeverHalts` (`KeeperAccounts`) | `accounts` | A second proposal of a holder that names another recovery key finds the pair of the first and reaches the panic of `keeper/bitcoin.go:317`. |
| `BondsEquivalent` (`EthereumKeeper`) | `ethereum` | A refund pays the amount times the unit of the token (`keeper/ethereum.go:896`), where a revocation pays the amount. |
| `SignedIsSent` (`BitcoinFees`) | `fees`; `fees` with one fund of 40, equal sizes and a steady rate | After a change of the rate, a transaction that was broadcast and not confirmed takes another output, the network refuses the second version, and the loop stops there in every round (`observer/accountant.go:431`). When an older transaction is signed after the output of a younger one was split, its split spends an output that was never broadcast (`observer/accountant.go:367`). |

The properties of the runs are stated beside these: `StopsAtHalfRevoked` says
that the keeper of an open safe stops in that case only, `PassedIsSeen` names the deposits that
the block loop skips, `BondsBacked` leaves out refunds, `SignedIsConfirmed` a new
rate and a late older transaction.

Five properties name in their own statement what the code does not provide; each
exemption is needed, as TLC finds the property violated without it.

- `AgreeOnClockAndApi`: each replica reads its own clock (`keeper/store/key.go:152`)
  and asks the Mixin API itself (`common/request.go:201`), and may decide a proposal
  in another way than the others.
- `SignedIsSettled`: a transaction that reverted when it was mined is confirmed as
  spent (`apps/ethereum/transaction.go:324`), and one whose row was failed before a
  stop is never refunded (`observer/accountant.go:598`, `RefundIsLost`).
- `RefundedNotExecuted`: an execution that was not confirmed is refused and refunded
  in the next round (`unconfirmed`).
- `SignedIsDeployed`: the answer to an approval is passed over when the price was
  raised meanwhile, and a row passed over stays listed for ever, so that enough of
  them fill the list (`observer/store.go:371`, `Starved`).
- `PaidIsFinished`: the approval loop stops at a closing that is paid and not signed
  by the observer, before the rows behind it (`observer/bitcoin.go:446`).

## Not modelled

- The rounds of `signer/protocol/handler.go` with their broadcast checks and
  timeouts are two rounds in `SigningAttempts`; the cryptography of a round is out
  of reach. Key generation sessions of the signer share the session tables with
  signature sessions and are not modelled, nor is a node that lost its database.
- Several recipients of one transaction, and the fees in network infos.
- Backup and saver: key shares posted over HTTP and stored under an id; nothing
  else of the protocol reads them.
- Migrations run once at start; views, messenger bot, command line,
  configuration and the custodian have no protocol state.
- Encodings of requests and operations, scripts, addresses, RLP and the generated
  ABI bindings: requests and transactions are records in the modules, and no
  property is about their bytes.
- The group library (`mtg`): its ordering and delivery of outputs is the log of
  the modules, its replay of stored results the once-only handling of an id.
