------------------------------ MODULE SafeKeeper ------------------------------
(***************************************************************************)
(* The keeper's Bitcoin side: one approved safe, the outputs deposited to  *)
(* its address, the transactions proposed, approved, revoked and signed    *)
(* over those outputs, the signature requests sent to the signer group and *)
(* the bond tokens that stand for the deposited satoshis.                  *)
(*                                                                         *)
(* The keeper is a replicated state machine: every replica processes the   *)
(* same Mixin outputs one at a time (keeper/group.go), so a handler is one *)
(* action.  The one handler that commits twice, the signature response, is *)
(* two actions with a possible restart between them.  A panic stops every  *)
(* replica at the same output for good; panicked names the statement.      *)
(*                                                                         *)
(* A definition marked "slip" is a faulty variant of the one below it; it  *)
(* is not part of the specification and shows that a property can fail.    *)
(***************************************************************************)
EXTENDS Integers, FiniteSets, Functions

CONSTANTS
    Deposits,              \* outputs that others pay to the safe's address
    Txs,                   \* transactions, named by the request proposing them
    ReqIds,                \* ids of the observer's requests
    NoTx, NoJob,           \* the absence of a transaction and of a job
    Satoshi,               \* the value of each of Deposits
    Amounts,               \* the bond amounts a proposal may carry
    TransactionMinimum,    \* the minimum of the operation params
    ValueDust,
    MaxUnspentUtxo,
    BondSupply,            \* bond tokens issued to the keeper's group
    SafeSignatureTimeout,
    MaxTime                \* bound on the clock

ASSUME ConstantAssumptions ==
    /\ IsFiniteSet(Txs) /\ NoTx \notin Txs
    /\ IsFiniteSet(Deposits) /\ Deposits \cap (Txs \X {0, 1}) = {}
    /\ Satoshi \in [Deposits -> Nat \ {0}]
    /\ Amounts \subseteq Nat \ {0}
    /\ ValueDust \in Nat
    /\ TransactionMinimum \in Nat /\ TransactionMinimum > ValueDust
    /\ MaxUnspentUtxo \in Nat
    /\ BondSupply \in Nat
    /\ SafeSignatureTimeout \in Nat \ {0}
    /\ MaxTime \in Nat

Outputs == Deposits \cup (Txs \X {0, 1})
SignatureIds == ReqIds \X Outputs

(* A signature response is processed in two commits: its request is        *)
(* received, then the signature is written.                                *)
Jobs == SignatureIds \X {"received", "signed"}

ASSUME JobAssumption == NoJob \notin Jobs

VARIABLES
    safe,           \* safes.state: "Approved" or "Closed"
    requests,       \* requests.state of proposals and observer requests
    outputs,        \* table bitcoin_outputs
    transactions,   \* table transactions
    signatures,     \* table signature_requests
    job,            \* the signature response being processed
    held, pool,     \* bond tokens of the holders and of the keeper's group
    broadcast,      \* transactions on the Bitcoin chain
    clock,          \* created_at of the outputs being processed
    panicked        \* the statement at which every replica panics, or "no"

vars == <<safe, requests, outputs, transactions, signatures, job, held, pool,
          broadcast, clock, panicked>>

bonds == <<held, pool>>

-----------------------------------------------------------------------------
(* Rows of the tables.  "none" stands for a row that does not exist.       *)

RequestState == {"none", "Initial", "Done", "Failed"}

OutputRow == [state : {"none", "Initial", "Pending", "Done"},
              spent_by : Txs \cup {NoTx},
              satoshi : Nat]

TransactionRow == [state : {"none", "Initial", "Pending", "Done", "Failed"},
                   inputs : SUBSET Outputs,
                   amount : Nat,         \* paid to the recipient
                   change : Nat,         \* what is left of the inputs
                   recovery : BOOLEAN,   \* spends by the timelock branch
                   self : BOOLEAN,       \* the recipient is the safe itself
                   holder : BOOLEAN]     \* signed by holder and observer only

SignatureRow == [tx : Txs \cup {NoTx},
                 state : {"none", "Initial", "Pending", "Done"},
                 created_at : Nat,
                 signed : BOOLEAN,       \* signature.Valid
                 request : RequestState] \* requests.state of the response

NoOutput == [state |-> "none", spent_by |-> NoTx, satoshi |-> 0]
NoTransaction == [state |-> "none", inputs |-> {}, amount |-> 0, change |-> 0,
                  recovery |-> FALSE, self |-> FALSE, holder |-> FALSE]
NoSignature == [tx |-> NoTx, state |-> "none", created_at |-> 0,
                signed |-> FALSE, request |-> "none"]

Unfinished(t) == transactions[t].state \in {"Initial", "Pending"}
CountUnfinishedTransactionsByHolder == Cardinality({t \in Txs : Unfinished(t)})

OutputsIn(states) == {o \in Outputs : outputs[o].state \in states}
\* slip: spent outputs are listed too
ListNotPending == OutputsIn({"Initial", "Done"})
\* slip: pending outputs are listed too
ListNotDone == OutputsIn({"Initial", "Pending"})
ListAllBitcoinUTXOsForHolder == OutputsIn({"Initial"})

ReadUnspentUtxoCountForSafe == Cardinality(OutputsIn({"Initial", "Pending"}))

SumSatoshi(os) == SumFunctionOnSet([o \in Outputs |-> outputs[o].satoshi], os)

-----------------------------------------------------------------------------
Init ==
    /\ safe = "Approved"
    /\ requests = [r \in Txs \cup ReqIds |-> "none"]
    /\ outputs = [o \in Outputs |-> NoOutput]
    /\ transactions = [t \in Txs |-> NoTransaction]
    /\ signatures = [s \in SignatureIds |-> NoSignature]
    /\ job = NoJob
    /\ held = 0 /\ pool = BondSupply
    /\ broadcast = {}
    /\ clock = 0
    /\ panicked = "no"

(***************************************************************************)
(* What happens to a request.  A new output whose request is handled       *)
(* already gets an empty result and changes nothing (FailAction).          *)
(***************************************************************************)
Fresh(r) == panicked = "no" /\ job = NoJob /\ requests[r] = "none"

FinishRequest(r) == requests' = [requests EXCEPT ![r] = "Done"]

FailRequest(r) == requests' = [requests EXCEPT ![r] = "Failed"]

(* The request row is committed before the handler runs; the handler's own *)
(* database transaction is rolled back.                                    *)
Panic(r, statement) ==
    /\ panicked' = statement
    /\ requests' = [requests EXCEPT ![r] = "Initial"]
    /\ UNCHANGED <<safe, outputs, transactions, signatures, job, bonds>>

(* An observer request that fails one of the checks of its handler: its    *)
(* extra is malformed, its transaction is missing or in the wrong state,   *)
(* a signature is missing, or the group cannot pay for the response.       *)
FailObserverRequest(r) ==
    /\ Fresh(r)
    /\ FailRequest(r)
    /\ UNCHANGED <<safe, outputs, transactions, signatures, job, bonds,
                   broadcast, clock, panicked>>

-----------------------------------------------------------------------------
(* The Bitcoin chain, as the keeper reads it over RPC.                     *)

OnChain(o) ==
    \/ o \in Deposits
    \/ /\ o \notin Deposits
       /\ o[1] \in broadcast
       /\ IF o[2] = 0 THEN transactions[o[1]].self
                      ELSE transactions[o[1]].change > ValueDust

ChainSatoshi(o) ==
    IF o \in Deposits THEN Satoshi[o]
    ELSE IF o[2] = 0 THEN transactions[o[1]].amount
    ELSE transactions[o[1]].change

ChainUnspent ==
    {o \in Outputs : OnChain(o) /\ \A t \in broadcast : o \notin transactions[t].inputs}

(* A fully signed transaction reaches the chain.                           *)
Broadcast(t) ==
    /\ transactions[t].state = "Done"
    /\ transactions[t].inputs \subseteq ChainUnspent
    /\ broadcast' = broadcast \cup {t}
    /\ UNCHANGED <<safe, requests, outputs, transactions, signatures, job,
                   bonds, clock, panicked>>

Tick ==
    /\ clock < MaxTime
    /\ clock' = clock + 1
    /\ UNCHANGED <<safe, requests, outputs, transactions, signatures, job,
                   bonds, broadcast, panicked>>

-----------------------------------------------------------------------------
(***************************************************************************)
(* Deposits.  The first input of a broadcast transaction of the safe is an *)
(* output of the safe, so an output past its single recipient is change.   *)
(***************************************************************************)
\* slip: off by one in the index of the first change output
ChangePastTwo(o) == o \notin Deposits /\ o[2] > 1
checkBitcoinChange(o) == o \notin Deposits /\ o[2] >= 1

WriteBitcoinOutput(o) ==
    outputs' = [outputs EXCEPT ![o] = [state |-> "Initial", spent_by |-> NoTx,
                                       satoshi |-> ChainSatoshi(o)]]

(* A deposit that fails a check leaves its Failed request only; the        *)
(* observer retries it with a new id.  Change mints no bond.               *)
CreateHolderDeposit(o) ==
    /\ panicked = "no" /\ job = NoJob
    /\ safe = "Approved"
    /\ OnChain(o)
    /\ outputs[o].state = "none"
    /\ ReadUnspentUtxoCountForSafe < MaxUnspentUtxo
    /\ checkBitcoinChange(o) \/ ChainSatoshi(o) >= TransactionMinimum
    /\ LET minted == IF checkBitcoinChange(o) THEN 0 ELSE ChainSatoshi(o)
       IN  /\ pool >= minted
           /\ held' = held + minted /\ pool' = pool - minted
    /\ WriteBitcoinOutput(o)
    /\ UNCHANGED <<safe, requests, transactions, signatures, job, broadcast,
                   clock, panicked>>

-----------------------------------------------------------------------------
(***************************************************************************)
(* Proposals.  A holder pays the amount in bonds with the request.  A      *)
(* transaction spends every unspent output of the safe.                    *)
(***************************************************************************)
WriteTransaction(t, row, utxos, state) ==
    /\ transactions' = [transactions EXCEPT ![t] = row]
    /\ outputs' = [o \in Outputs |->
                     IF o \in utxos
                     THEN [outputs[o] EXCEPT !.state = state, !.spent_by = t]
                     ELSE outputs[o]]

(* BuildPartiallySignedTransaction refuses what the inputs do not cover.   *)
Covers(inputs, amount) == SumSatoshi(inputs) - amount \in Nat

ProposeTransaction(t, amount, recovery, self) ==
    LET mainInputs == ListAllBitcoinUTXOsForHolder
    IN  /\ Fresh(t) /\ transactions[t].state = "none"
        /\ held >= amount
        /\ safe = "Approved"
        /\ amount >= TransactionMinimum
        /\ Covers(mainInputs, amount)
        /\ held' = held - amount /\ pool' = pool + amount
        /\ WriteTransaction(t, [state |-> "Initial", inputs |-> mainInputs,
                                amount |-> amount,
                                change |-> SumSatoshi(mainInputs) - amount,
                                recovery |-> recovery, self |-> self,
                                holder |-> FALSE],
                            mainInputs, "Pending")
        /\ FinishRequest(t)
        /\ UNCHANGED <<safe, signatures, job, broadcast, clock, panicked>>

(* The request is refused, and the group keeps its bonds.                  *)
FailProposal(t, amount) ==
    /\ Fresh(t)
    /\ held >= amount
    /\ held' = held - amount /\ pool' = pool + amount
    /\ FailRequest(t)
    /\ UNCHANGED <<safe, outputs, transactions, signatures, job, broadcast,
                   clock, panicked>>

(* The outputs do not cover the amount, or the group cannot pay for the    *)
(* response: the bonds are returned.                                       *)
RefundProposal(t, amount) ==
    /\ Fresh(t)
    /\ held >= amount
    /\ safe = "Approved"
    /\ amount >= TransactionMinimum
    /\ FailRequest(t)
    /\ UNCHANGED <<safe, outputs, transactions, signatures, job, bonds,
                   broadcast, clock, panicked>>

-----------------------------------------------------------------------------
(* Revocation, on a message signed by the holder or the observer.          *)

Revocable(t) == transactions[t].state = "Initial"

\* slip: spent_by is not reset
ReleaseStateOnly(t) ==
    outputs' = [o \in Outputs |->
                  IF o \in transactions[t].inputs
                  THEN [outputs[o] EXCEPT !.state = "Initial"]
                  ELSE outputs[o]]
ReleaseOutputs(t) ==
    outputs' = [o \in Outputs |->
                  IF o \in transactions[t].inputs
                  THEN [outputs[o] EXCEPT !.state = "Initial", !.spent_by = NoTx]
                  ELSE outputs[o]]

RevokeTransaction(r, t) ==
    LET row == transactions[t] IN
    /\ Fresh(r)
    /\ Revocable(t)
    /\ pool >= row.amount
    /\ IF \A o \in row.inputs : outputs[o].spent_by = t
       THEN /\ ReleaseOutputs(t)
            /\ transactions' = [transactions EXCEPT ![t].state = "Failed"]
            /\ held' = held + row.amount /\ pool' = pool - row.amount
            /\ FinishRequest(r)
            /\ UNCHANGED <<safe, signatures, job, panicked>>
       ELSE Panic(r, "revoke_outputs")
    /\ UNCHANGED <<broadcast, clock>>

-----------------------------------------------------------------------------
(***************************************************************************)
(* Approval: one signature request per input, unless one is pending, that  *)
(* is answered already, or not older than the timeout.                     *)
(***************************************************************************)
RowsOf(t, o) == {r \in ReqIds : signatures[<<r, o>>].tx = t}

StateOrder(state) == CASE state = "none" -> 0 [] state = "Initial" -> 1
                       [] state = "Pending" -> 2 [] state = "Done" -> 3

(* ORDER BY state DESC, created_at DESC                                    *)
\* slip: created_at ASC
ReadsOldest(a, b) ==
    \/ StateOrder(a.state) > StateOrder(b.state)
    \/ a.state = b.state /\ a.created_at <= b.created_at
ReadsBefore(a, b) ==
    \/ StateOrder(a.state) > StateOrder(b.state)
    \/ a.state = b.state /\ a.created_at >= b.created_at

checkTransactionIndexSignaturePending(t, o) ==
    \E r \in RowsOf(t, o) :
        LET old == signatures[<<r, o>>] IN
        /\ \A q \in RowsOf(t, o) : ReadsBefore(old, signatures[<<q, o>>])
        /\ \/ old.state # "Initial"
           \/ old.created_at + SafeSignatureTimeout > clock

NewSignatureInputs(t) ==
    {o \in transactions[t].inputs : ~checkTransactionIndexSignaturePending(t, o)}

WriteSignatureRequests(r, t, new) ==
    /\ transactions' = [transactions EXCEPT ![t].state = "Pending"]
    /\ signatures' = [s \in SignatureIds |->
                        IF s[1] = r /\ s[2] \in new
                        THEN [tx |-> t, state |-> "Initial",
                              created_at |-> clock, signed |-> FALSE,
                              request |-> "none"]
                        ELSE signatures[s]]

(* The handler skips the inputs whose hash the holder did not sign, and    *)
(* refuses a finished transaction only: a revoked one gets as far as       *)
(* UPDATE transactions, which then changes no row.                         *)
ApproveTransaction(r, t, new) ==
    /\ Fresh(r)
    /\ transactions[t].state \notin {"none", "Done"}
    /\ new # {} /\ new \subseteq NewSignatureInputs(t)
    /\ IF Unfinished(t)
       THEN /\ WriteSignatureRequests(r, t, new)
            /\ FinishRequest(r)
            /\ UNCHANGED <<safe, outputs, job, bonds, panicked>>
       ELSE Panic(r, "approve_revoked")
    /\ UNCHANGED <<broadcast, clock>>

-----------------------------------------------------------------------------
(***************************************************************************)
(* Closing.  The raw transaction spends by the timelock branch and has one *)
(* recipient, not the safe, and no change output.                          *)
(***************************************************************************)
IsClosing(row) == row.recovery /\ ~row.self /\ row.change <= ValueDust

ClosingWithSigner(r, t) ==
    /\ Fresh(r)
    /\ transactions[t].state \notin {"none", "Done"}
    /\ IsClosing(transactions[t])
    /\ CountUnfinishedTransactionsByHolder = 1
    /\ ListAllBitcoinUTXOsForHolder = {}

(* The observer and the signer close: the one unfinished transaction of    *)
(* the safe spends everything.                                             *)
CloseAccountWithSigner(r, t) ==
    /\ ClosingWithSigner(r, t)
    /\ SumSatoshi(transactions[t].inputs) = transactions[t].amount
    /\ NewSignatureInputs(t) # {}
    /\ IF Unfinished(t)
       THEN /\ safe' = "Closed"
            /\ WriteSignatureRequests(r, t, NewSignatureInputs(t))
            /\ FinishRequest(r)
            /\ UNCHANGED <<outputs, job, bonds, panicked>>
       ELSE Panic(r, "approve_revoked")
    /\ UNCHANGED <<broadcast, clock>>

(* An input of the closing transaction is not yet old enough.              *)
CloseAccountTooEarly(r, t) ==
    /\ ClosingWithSigner(r, t)
    /\ Panic(r, "timelock")
    /\ UNCHANGED <<broadcast, clock>>

(* The observer and the holder close.  Every unspent output is recorded as *)
(* spent, whatever the transaction they signed spends and pays.  A safe    *)
(* that is closed already has no row to update.                            *)
CloseAccountWithHolder(r, t, spends) ==
    /\ Fresh(r)
    /\ CountUnfinishedTransactionsByHolder = 0
    /\ transactions[t].state = "none"
    /\ IF safe = "Approved"
       THEN /\ safe' = "Closed"
            /\ WriteTransaction(t, [NoTransaction EXCEPT !.state = "Done",
                                        !.inputs = spends, !.recovery = TRUE,
                                        !.holder = TRUE],
                                ListAllBitcoinUTXOsForHolder, "Done")
            /\ FinishRequest(r)
            /\ UNCHANGED <<signatures, job, bonds, panicked>>
       ELSE Panic(r, "close_again")
    /\ UNCHANGED <<broadcast, clock>>

(* The transaction of the close exists: the safe is left as it is.         *)
RepeatCloseWithHolder(r, t) ==
    /\ Fresh(r)
    /\ CountUnfinishedTransactionsByHolder = 0
    /\ transactions[t].state # "none" /\ IsClosing(transactions[t])
    /\ FinishRequest(r)
    /\ UNCHANGED <<safe, outputs, transactions, signatures, job, bonds,
                   broadcast, clock, panicked>>

-----------------------------------------------------------------------------
(***************************************************************************)
(* Signature responses of the signer group, in any order and at any time   *)
(* after the request.  The id of the response is the id of the row.        *)
(***************************************************************************)
ReceiveSignature(s) ==
    /\ panicked = "no" /\ job = NoJob
    /\ signatures[s].state \in {"Initial", "Pending"}
    /\ signatures[s].request = "none"
    /\ signatures' = [signatures EXCEPT ![s].request = "Initial"]
    /\ job' = <<s, "received">>
    /\ UNCHANGED <<safe, requests, outputs, transactions, bonds, broadcast,
                   clock, panicked>>

(* The transaction is finished already, or the signature is not valid.     *)
FailSignature(s) ==
    /\ panicked = "no" /\ job = NoJob
    /\ signatures[s].state # "none"
    /\ signatures[s].request = "none"
    /\ signatures' = [signatures EXCEPT ![s].request = "Failed"]
    /\ UNCHANGED <<safe, requests, outputs, transactions, job, bonds,
                   broadcast, clock, panicked>>

PanicSignature(statement) ==
    /\ panicked' = statement
    /\ UNCHANGED <<safe, requests, outputs, transactions, signatures, job, bonds>>

(* The row waits for its signature, or an earlier attempt wrote it.        *)
\* slip: a replay is not recognised
WritableOnce(s) == signatures[s].state = "Initial"
Writable(s) == signatures[s].state \in {"Initial", "Pending"}

FinishSignatureRequest(s) ==
    /\ panicked = "no" /\ job = <<s, "received">>
    /\ IF Writable(s)
       THEN /\ signatures' = [signatures EXCEPT ![s] =
                                [@ EXCEPT !.state = "Pending", !.signed = TRUE]]
            /\ job' = <<s, "signed">>
            /\ UNCHANGED <<safe, requests, outputs, transactions, bonds, panicked>>
       ELSE PanicSignature("update_signature")
    /\ UNCHANGED <<broadcast, clock>>

(* A replica that stopped after the first commit processes the same output *)
(* again from the beginning.                                               *)
Restart(s) ==
    /\ panicked = "no" /\ job = <<s, "signed">>
    /\ job' = <<s, "received">>
    /\ UNCHANGED <<safe, requests, outputs, transactions, signatures, bonds,
                   broadcast, clock, panicked>>

AllSigned(t) ==
    \A o \in transactions[t].inputs : \E r \in RowsOf(t, o) :
        signatures[<<r, o>>].state = "Pending" /\ signatures[<<r, o>>].signed

(* Other signatures are missing, or the group cannot pay for the response. *)
KeepSignature(s) ==
    /\ panicked = "no" /\ job = <<s, "signed">>
    /\ signatures' = [signatures EXCEPT ![s].request = "Failed"]
    /\ job' = NoJob
    /\ UNCHANGED <<safe, requests, outputs, transactions, bonds, broadcast,
                   clock, panicked>>

FinishTransactionSignatures(s) ==
    LET t == signatures[s].tx
        spent == {o \in Outputs : outputs[o].spent_by = t}
    IN
    /\ panicked = "no" /\ job = <<s, "signed">>
    /\ AllSigned(t)
    /\ IF Cardinality(spent) = Cardinality(transactions[t].inputs)
       THEN /\ signatures' = [q \in SignatureIds |->
                 [signatures[q] EXCEPT
                    !.state = IF signatures[q].tx = t THEN "Done" ELSE @,
                    !.request = IF q = s THEN "Done" ELSE @]]
            /\ transactions' = [transactions EXCEPT ![t].state = "Done"]
            /\ outputs' = [o \in Outputs |->
                             IF o \in spent THEN [outputs[o] EXCEPT !.state = "Done"]
                                            ELSE outputs[o]]
            /\ job' = NoJob
            /\ UNCHANGED <<safe, requests, bonds, panicked>>
       ELSE PanicSignature("finish_outputs")
    /\ UNCHANGED <<broadcast, clock>>

-----------------------------------------------------------------------------
HolderStep ==
    \E t \in Txs, amount \in Amounts :
        \/ \E recovery, self \in BOOLEAN : ProposeTransaction(t, amount, recovery, self)
        \/ FailProposal(t, amount)
        \/ RefundProposal(t, amount)

ObserverStep ==
    \/ \E o \in Outputs : CreateHolderDeposit(o)
    \/ \E r \in ReqIds : FailObserverRequest(r)
    \/ \E r \in ReqIds, t \in Txs :
        \/ RevokeTransaction(r, t)
        \/ \E new \in SUBSET transactions[t].inputs : ApproveTransaction(r, t, new)
        \/ CloseAccountWithSigner(r, t)
        \/ CloseAccountTooEarly(r, t)
        \/ \E spends \in SUBSET ChainUnspent \ {{}} :
               CloseAccountWithHolder(r, t, spends)
        \/ RepeatCloseWithHolder(r, t)

SignatureStep(s) ==
    \/ ReceiveSignature(s)
    \/ FailSignature(s)
    \/ FinishSignatureRequest(s)
    \/ Restart(s)
    \/ KeepSignature(s)
    \/ FinishTransactionSignatures(s)

SignerStep == \E s \in SignatureIds : SignatureStep(s)

ChainStep == (\E t \in Txs : Broadcast(t)) \/ Tick

Next == HolderStep \/ ObserverStep \/ SignerStep \/ ChainStep

Spec == Init /\ [][Next]_vars

(* A replica that keeps restarting gets through the response some time.    *)
FairSpec ==
    /\ Spec
    /\ \A s \in SignatureIds :
        /\ WF_vars(FinishSignatureRequest(s))
        /\ SF_vars(KeepSignature(s) \/ FinishTransactionSignatures(s))

-----------------------------------------------------------------------------
(* Every table holds rows of its type; no change is negative.              *)
TypeOK ==
    /\ safe \in {"Approved", "Closed"}
    /\ requests \in [Txs \cup ReqIds -> RequestState]
    /\ outputs \in [Outputs -> OutputRow]
    /\ transactions \in [Txs -> TransactionRow]
    /\ signatures \in [SignatureIds -> SignatureRow]
    /\ job \in Jobs \cup {NoJob}
    /\ held \in Nat /\ pool \in Nat
    /\ broadcast \subseteq Txs
    /\ clock \in Nat
    /\ panicked \in {"no", "revoke_outputs", "approve_revoked", "timelock",
                     "close_again", "update_signature", "finish_outputs"}

(* The transactions that the signer group may sign or has signed.          *)
Standing(t) ==
    /\ transactions[t].state \in {"Initial", "Pending", "Done"}
    /\ ~transactions[t].holder

(* No output is committed to two transactions that still stand, however    *)
(* proposals, revocations, deposits of change and closes interleave.       *)
NoDoubleSpend ==
    \A t, u \in Txs : t # u /\ Standing(t) /\ Standing(u) =>
        transactions[t].inputs \cap transactions[u].inputs = {}

OutputFollows(o) ==
    LET t == outputs[o].spent_by IN
    /\ outputs[o].state \in {"none", "Initial"} => t = NoTx
    /\ outputs[o].state = "Pending" =>
         t # NoTx /\ Unfinished(t) /\ o \in transactions[t].inputs
    /\ outputs[o].state = "Done" =>
         /\ t # NoTx /\ transactions[t].state = "Done"
         /\ transactions[t].holder \/ o \in transactions[t].inputs

(* An output and the transaction in its spent_by column agree: the output  *)
(* is pending while the transaction is unfinished, done once it is done,   *)
(* and free exactly when no transaction that stands spends it.             *)
OutputsFollowTransactions ==
    /\ \A t \in Txs : Standing(t) =>
        \A o \in transactions[t].inputs : outputs[o].spent_by = t
    /\ \A o \in Outputs : OutputFollows(o)

(* The signer group is never asked to sign a transaction whose bonds were  *)
(* returned by a revocation, not even by an approval that comes late.      *)
RevokedNeverSigned ==
    \A s \in SignatureIds : signatures[s].state # "none" =>
        transactions[signatures[s].tx].state \in {"Pending", "Done"}

(* A transaction is sent out as done only with a signature for each input. *)
SignedWhenDone ==
    \A t \in Txs : transactions[t].state = "Done" /\ Standing(t) =>
        \A o \in transactions[t].inputs :
            \E r \in RowsOf(t, o) : signatures[<<r, o>>].signed

(* The signer group is asked again for the signature of an input only when *)
(* the last request timed out, so two requests are a timeout apart.        *)
RequestsSpacedOut ==
    \A t \in Txs : \A o \in transactions[t].inputs : \A q, r \in RowsOf(t, o) :
        LET a == signatures[<<q, o>>].created_at
            b == signatures[<<r, o>>].created_at
        IN  q # r => a >= b + SafeSignatureTimeout \/ b >= a + SafeSignatureTimeout

(* The checks of affected rows in the store that guard the consistency of  *)
(* its tables never fail.  What does stop the keeper is an approval of a   *)
(* revoked transaction, a second close and a close before the timelock.    *)
StoreChecksHold ==
    panicked \in {"no", "approve_revoked", "close_again", "timelock"}

UnfinishedChange ==
    SumFunction([t \in Txs |-> IF Unfinished(t) THEN transactions[t].change ELSE 0])

UndepositedChange ==
    SumFunction([t \in Txs |->
                   IF transactions[t].state = "Done" /\ outputs[<<t, 1>>].state = "none"
                   THEN transactions[t].change ELSE 0])

(* Every bond in the hands of the holders of an open safe is backed by a   *)
(* satoshi: unspent, or change of a transaction on its way.  Deposits of   *)
(* change mint nothing, and a revocation returns bonds with their outputs. *)
(* Change up to ValueDust, which a transaction leaves to the miners while  *)
(* the holder keeps its bonds, is counted as change on its way for ever.   *)
FullyBacked ==
    safe = "Approved" =>
        held <= SumSatoshi(OutputsIn({"Initial"}))
                + UnfinishedChange + UndepositedChange

(* The unspent outputs of a safe stay within the limit of one transaction, *)
(* the outputs that a revocation frees again included.                     *)
UnspentBounded == Cardinality(OutputsIn({"Initial", "Pending"})) <= MaxUnspentUtxo

(* A closed safe leaves no output behind: none is unspent, none can become *)
(* so by a revocation or a deposit after the close.                        *)
ClosedSafeIsEmpty == safe = "Closed" => OutputsIn({"Initial"}) = {}

(* What the signer group signed can reach the chain: no other transaction  *)
(* has spent an input of it, except one that the holder closes with.       *)
SignedCanBeBroadcast ==
    (\A t \in Txs : ~transactions[t].holder) =>
        \A t \in Txs \ broadcast : transactions[t].state = "Done" =>
            transactions[t].inputs \subseteq ChainUnspent

KeepsFinal ==
    /\ \A t \in Txs : transactions[t].state \in {"Done", "Failed"} =>
        transactions'[t] = transactions[t]
    /\ \A o \in Outputs : outputs[o].state = "Done" => outputs'[o] = outputs[o]

(* Done and revoked transactions stay so, and a spent output stays spent   *)
(* by the same transaction, whatever late answers and retries arrive.      *)
FinalStates == [][KeepsFinal]_vars

(* A response taken up is answered for good, though the replica may stop   *)
(* between the two commits and find its own first one when it restarts.    *)
ResponsesFinish ==
    \A s \in SignatureIds :
        signatures[s].request = "Initial" ~> signatures[s].request \in {"Done", "Failed"}

=============================================================================
