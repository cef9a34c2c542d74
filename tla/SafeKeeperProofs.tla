-------------------------- MODULE SafeKeeperProofs --------------------------
(***************************************************************************)
(* Proofs about SafeKeeper for every set of transactions, deposits and     *)
(* requests and every value of the parameters: first the tables (IInv),    *)
(* then what rests on them: what the signers sign reaches the chain, their *)
(* requests are a timeout apart, and every bond of an open safe is backed. *)
(***************************************************************************)
EXTENDS SafeKeeper, SumTheorems, FiniteSetTheorems, TLAPS

(* Only the holder's closing transaction has no signature of the signer    *)
(* group; it is born done.                                                 *)
HolderOnlyDone ==
    \A t \in Txs : transactions[t].holder => transactions[t].state = "Done"

(* A signature request exists for an input of a transaction being signed,  *)
(* or of one that is done, and it carries a signature once it is answered. *)
SignatureFollows(s) ==
    LET row == signatures[s] IN
    /\ row.state = "none" => row.tx = NoTx
    /\ row.state # "none" =>
         /\ row.tx \in Txs /\ ~transactions[row.tx].holder
         /\ s[2] \in transactions[row.tx].inputs
    /\ row.state \in {"Initial", "Pending"} => transactions[row.tx].state = "Pending"
    /\ row.state = "Done" => transactions[row.tx].state = "Done"
    /\ row.state = "Pending" => row.signed

SignaturesFollowTransactions == \A s \in SignatureIds : SignatureFollows(s)

(* No signature request exists under the id of a request not yet received. *)
FreshUnused ==
    \A s \in SignatureIds : requests[s[1]] = "none" => signatures[s].state = "none"

(* The response being processed answers a request that is still open.      *)
JobOpen ==
    job # NoJob =>
        /\ signatures[job[1]].state \in {"Initial", "Pending"}
        /\ job[2] = "signed" => signatures[job[1]].state = "Pending"

(* Closing leaves no output and no proposal that could free one.           *)
ClosedDrained ==
    safe = "Closed" =>
        /\ \A o \in Outputs : outputs[o].state # "Initial"
        /\ \A t \in Txs : transactions[t].state # "Initial"

(* The inductive invariant.                                                *)
IInv ==
    /\ TypeOK
    /\ OutputsFollowTransactions
    /\ HolderOnlyDone
    /\ SignaturesFollowTransactions
    /\ FreshUnused
    /\ JobOpen
    /\ SignedWhenDone
    /\ ClosedDrained
    /\ StoreChecksHold

-----------------------------------------------------------------------------
(* Every output row written from the chain has a natural value.            *)
LEMMA ChainSatoshiType ==
    ASSUME TypeOK, NEW o \in Outputs
    PROVE  ChainSatoshi(o) \in Nat
BY Zenon, ConstantAssumptions DEF TypeOK, Outputs, ChainSatoshi, TransactionRow

(* The writes of the store keep the types of the tables.                   *)
LEMMA ReleaseType ==
    ASSUME TypeOK, NEW t \in Txs, ReleaseOutputs(t)
    PROVE  outputs' \in [Outputs -> OutputRow]
BY Zenon DEF TypeOK, ReleaseOutputs, OutputRow

(* The UPDATE of a transaction's state keeps the type of the table.        *)
LEMMA SetStateType ==
    ASSUME TypeOK, NEW t \in Txs, NEW state \in {"Pending", "Done", "Failed"}
    PROVE  [transactions EXCEPT ![t].state = state] \in [Txs -> TransactionRow]
BY DEF TypeOK, TransactionRow

(* Inserting a transaction with its inputs keeps the types of both tables. *)
LEMMA SpendType ==
    ASSUME TypeOK, NEW t \in Txs, NEW row \in TransactionRow, NEW utxos,
           NEW state \in {"Pending", "Done"}, WriteTransaction(t, row, utxos, state)
    PROVE  /\ transactions' \in [Txs -> TransactionRow]
           /\ outputs' \in [Outputs -> OutputRow]
<1>1. transactions' \in [Txs -> TransactionRow]
  BY Zenon DEF TypeOK, WriteTransaction
<1>2. outputs' \in [Outputs -> OutputRow]
  BY Zenon DEF TypeOK, WriteTransaction, OutputRow
<1> QED
  BY <1>1, <1>2

(* Inserting signature requests keeps the types of both tables.            *)
LEMMA WriteSignaturesType ==
    ASSUME TypeOK, NEW r \in ReqIds, NEW t \in Txs, NEW new, WriteSignatureRequests(r, t, new)
    PROVE  /\ transactions' \in [Txs -> TransactionRow]
           /\ signatures' \in [SignatureIds -> SignatureRow]
<1>1. transactions' \in [Txs -> TransactionRow]
  BY Zenon, SetStateType DEF WriteSignatureRequests
<1>2. signatures' \in [SignatureIds -> SignatureRow]
  <2>1. [tx |-> t, state |-> "Initial", created_at |-> clock, signed |-> FALSE,
         request |-> "none"] \in SignatureRow
    BY DEF TypeOK, SignatureRow, RequestState
  <2> QED
    BY <2>1 DEF TypeOK, WriteSignatureRequests
<1> QED
  BY <1>1, <1>2

(* Type correctness of the initial state.                                  *)
LEMMA TypeInit == Init => TypeOK
BY ConstantAssumptions
DEF Init, TypeOK, RequestState, NoOutput, NoTransaction, NoSignature, OutputRow,
    TransactionRow, SignatureRow

(* Type correctness is kept by every step.                                 *)
LEMMA TypeNext == TypeOK /\ [Next]_vars => TypeOK'
<1> SUFFICES ASSUME TypeOK, [Next]_vars PROVE TypeOK'
  OBVIOUS
<1> USE DEF RequestState
<1>1. ASSUME NEW t \in Txs, NEW amount \in Amounts,
             NEW recovery \in BOOLEAN, NEW self \in BOOLEAN,
             ProposeTransaction(t, amount, recovery, self)
      PROVE  TypeOK'
  <2>1. amount \in Nat
    BY ConstantAssumptions
  <2>2. ListAllBitcoinUTXOsForHolder \in SUBSET Outputs
    BY Zenon DEF ListAllBitcoinUTXOsForHolder, OutputsIn
  <2> DEFINE utxos == ListAllBitcoinUTXOsForHolder
             row == [state |-> "Initial", inputs |-> utxos, amount |-> amount,
                     change |-> SumSatoshi(utxos) - amount, recovery |-> recovery,
                     self |-> self, holder |-> FALSE]
  <2>3. row \in TransactionRow
    BY Zenon, <1>1, <2>1, <2>2 DEF ProposeTransaction, Covers, TransactionRow
  <2>4. /\ transactions' \in [Txs -> TransactionRow]
        /\ outputs' \in [Outputs -> OutputRow]
    <3>1. WriteTransaction(t, row, utxos, "Pending")
      BY Zenon, <1>1 DEF ProposeTransaction
    <3> HIDE DEF utxos, row
    <3> QED
      BY Zenon, <2>3, <3>1, SpendType
  <2> QED
    BY <1>1, <2>1, <2>3, <2>4 DEF TypeOK, ProposeTransaction, FinishRequest
<1>2. ASSUME NEW t \in Txs, NEW amount \in Amounts, FailProposal(t, amount)
      PROVE  TypeOK'
  BY <1>2, ConstantAssumptions DEF TypeOK, FailProposal, FailRequest
<1>3. ASSUME NEW t \in Txs, NEW amount \in Amounts, RefundProposal(t, amount)
      PROVE  TypeOK'
  BY <1>3 DEF TypeOK, RefundProposal, FailRequest, bonds
<1>4. ASSUME NEW o \in Outputs, CreateHolderDeposit(o)
      PROVE  TypeOK'
  <2>1. ChainSatoshi(o) \in Nat
    BY ChainSatoshiType
  <2> QED
    BY <1>4, <2>1 DEF TypeOK, CreateHolderDeposit, WriteBitcoinOutput, OutputRow
<1>5. ASSUME NEW r \in ReqIds, FailObserverRequest(r)
      PROVE  TypeOK'
  BY <1>5 DEF TypeOK, FailObserverRequest, FailRequest, bonds
<1>6. ASSUME NEW r \in ReqIds, NEW t \in Txs, RevokeTransaction(r, t)
      PROVE  TypeOK'
  <2>1. transactions[t].amount \in Nat
    BY DEF TypeOK, TransactionRow
  <2>2. transactions' \in [Txs -> TransactionRow]
    BY <1>6 DEF TypeOK, RevokeTransaction, Panic, TransactionRow
  <2>3. outputs' \in [Outputs -> OutputRow]
    <3>1. ReleaseOutputs(t) \/ outputs' = outputs
      BY <1>6 DEF RevokeTransaction, Panic
    <3> QED
      BY <3>1, ReleaseType DEF TypeOK
  <2>4. held' \in Nat /\ pool' \in Nat
    BY <1>6, <2>1 DEF TypeOK, RevokeTransaction, Panic, bonds
  <2> QED
    BY <1>6, <2>2, <2>3, <2>4 DEF TypeOK, RevokeTransaction, Panic, FinishRequest, bonds
<1>7. ASSUME NEW r \in ReqIds, NEW t \in Txs,
             NEW new \in SUBSET transactions[t].inputs, ApproveTransaction(r, t, new)
      PROVE  TypeOK'
  <2>1. WriteSignatureRequests(r, t, new) \/ UNCHANGED <<transactions, signatures>>
    BY <1>7 DEF ApproveTransaction, Panic
  <2>2. transactions' \in [Txs -> TransactionRow]
    BY <2>1, WriteSignaturesType DEF TypeOK
  <2>3. signatures' \in [SignatureIds -> SignatureRow]
    BY <2>1, WriteSignaturesType DEF TypeOK
  <2> QED
    BY <1>7, <2>2, <2>3 DEF TypeOK, ApproveTransaction, Panic, FinishRequest, bonds
<1>8. ASSUME NEW r \in ReqIds, NEW t \in Txs, CloseAccountWithSigner(r, t)
      PROVE  TypeOK'
  <2>1. WriteSignatureRequests(r, t, NewSignatureInputs(t)) \/ UNCHANGED <<transactions, signatures>>
    BY <1>8 DEF CloseAccountWithSigner, Panic
  <2>2. transactions' \in [Txs -> TransactionRow]
    BY <2>1, WriteSignaturesType DEF TypeOK
  <2>3. signatures' \in [SignatureIds -> SignatureRow]
    BY <2>1, WriteSignaturesType DEF TypeOK
  <2> QED
    BY <1>8, <2>2, <2>3 DEF TypeOK, CloseAccountWithSigner, Panic, FinishRequest, bonds
<1>9. ASSUME NEW r \in ReqIds, NEW t \in Txs, CloseAccountTooEarly(r, t)
      PROVE  TypeOK'
  BY <1>9 DEF TypeOK, CloseAccountTooEarly, Panic, bonds
<1>10. ASSUME NEW r \in ReqIds, NEW t \in Txs, NEW spends \in SUBSET Outputs,
              CloseAccountWithHolder(r, t, spends)
       PROVE  TypeOK'
  <2> DEFINE row == [NoTransaction EXCEPT !.state = "Done", !.inputs = spends,
                                          !.recovery = TRUE, !.holder = TRUE]
  <2>1. \/ WriteTransaction(t, row, ListAllBitcoinUTXOsForHolder, "Done")
        \/ UNCHANGED <<transactions, outputs>>
    BY <1>10 DEF CloseAccountWithHolder, Panic
  <2>2. row \in TransactionRow
    BY Zenon DEF NoTransaction, TransactionRow
  <2>3. transactions' \in [Txs -> TransactionRow]
    BY <2>1, <2>2, SpendType DEF TypeOK
  <2>4. outputs' \in [Outputs -> OutputRow]
    BY <2>1, <2>2, SpendType DEF TypeOK
  <2> QED
    BY <1>10, <2>3, <2>4 DEF TypeOK, CloseAccountWithHolder, Panic, FinishRequest, bonds
<1>11. ASSUME NEW r \in ReqIds, NEW t \in Txs, RepeatCloseWithHolder(r, t)
       PROVE  TypeOK'
  BY <1>11 DEF TypeOK, RepeatCloseWithHolder, FinishRequest, bonds
<1>12. ASSUME NEW s \in SignatureIds, SignatureStep(s)
       PROVE  TypeOK'
  <2>0. signatures[s] \in SignatureRow /\ <<s, "received">> \in Jobs /\ <<s, "signed">> \in Jobs
    BY Zenon DEF TypeOK, Jobs
  <2>1. CASE ReceiveSignature(s) \/ FailSignature(s)
    <3>1. ASSUME NEW x \in RequestState
          PROVE  [signatures EXCEPT ![s].request = x] \in [SignatureIds -> SignatureRow]
      BY ZenonT(40) DEF TypeOK, SignatureRow
    <3>2. {"Initial", "Failed"} \subseteq RequestState
      BY DEF RequestState
    <3>3. signatures' \in [SignatureIds -> SignatureRow]
      BY Zenon, <2>1, <3>1, <3>2 DEF ReceiveSignature, FailSignature
    <3> QED
      BY Zenon, <2>0, <2>1, <3>3 DEF TypeOK, ReceiveSignature, FailSignature, bonds
  <2>2. CASE FinishSignatureRequest(s) \/ Restart(s) \/ KeepSignature(s)
    <3>1. [signatures EXCEPT ![s] = [@ EXCEPT !.state = "Pending", !.signed = TRUE]]
            \in [SignatureIds -> SignatureRow]
      <4>1. [signatures[s] EXCEPT !.state = "Pending", !.signed = TRUE] \in SignatureRow
        BY Zenon, <2>0 DEF SignatureRow
      <4> QED
        BY Zenon, <4>1 DEF TypeOK
    <3>2. [signatures EXCEPT ![s].request = "Failed"] \in [SignatureIds -> SignatureRow]
      BY ZenonT(40) DEF TypeOK, SignatureRow, RequestState
    <3>3. signatures' \in [SignatureIds -> SignatureRow]
      BY Zenon, <2>2, <3>1, <3>2 DEF TypeOK, FinishSignatureRequest, Restart, KeepSignature,
         PanicSignature
    <3> QED
      BY Zenon, <2>0, <2>2, <3>3 DEF TypeOK, FinishSignatureRequest, Restart, KeepSignature,
         PanicSignature, bonds
  <2>3. CASE FinishTransactionSignatures(s)
    <3>1. CASE panicked' = "finish_outputs"
      BY <2>3, <3>1 DEF TypeOK, FinishTransactionSignatures, PanicSignature, bonds
    <3>2. CASE panicked' # "finish_outputs"
      <4> DEFINE t == signatures[s].tx
                 spent == {o \in Outputs : outputs[o].spent_by = t}
      <4>0. /\ signatures' = [q \in SignatureIds |->
                 [signatures[q] EXCEPT
                    !.state = IF signatures[q].tx = t THEN "Done" ELSE @,
                    !.request = IF q = s THEN "Done" ELSE @]]
            /\ transactions' = [transactions EXCEPT ![t].state = "Done"]
            /\ outputs' = [o \in Outputs |->
                             IF o \in spent THEN [outputs[o] EXCEPT !.state = "Done"]
                                            ELSE outputs[o]]
        BY Zenon, <2>3, <3>2 DEF FinishTransactionSignatures, PanicSignature
      <4> HIDE DEF t, spent
      <4>1. signatures' \in [SignatureIds -> SignatureRow]
        <5>1. ASSUME NEW q \in SignatureIds, NEW x \in {"none", "Initial", "Pending", "Done"},
                     NEW y \in RequestState
              PROVE  [signatures[q] EXCEPT !.state = x, !.request = y] \in SignatureRow
          BY ZenonT(40) DEF TypeOK, SignatureRow
        <5>2. ASSUME NEW q \in SignatureIds
              PROVE  /\ signatures[q].state \in {"none", "Initial", "Pending", "Done"}
                     /\ signatures[q].request \in RequestState
          BY DEF TypeOK, SignatureRow
        <5> QED
          BY Zenon, <4>0, <5>1, <5>2
      <4>2. transactions' \in [Txs -> TransactionRow]
        <5>1. CASE t \in Txs
          BY Zenon, <4>0, <5>1, SetStateType
        <5>2. CASE t \notin Txs
          <6>1. transactions' = [u \in Txs |-> transactions[u]]
            BY Zenon, <4>0, <5>2 DEF TypeOK
          <6> QED
            BY <6>1 DEF TypeOK
        <5> QED
          BY <5>1, <5>2
      <4>3. outputs' \in [Outputs -> OutputRow]
        BY ZenonT(40), <4>0 DEF TypeOK, OutputRow
      <4> QED
        BY Zenon, <2>3, <3>2, <4>1, <4>2, <4>3
        DEF TypeOK, FinishTransactionSignatures, PanicSignature, bonds
    <3> QED
      BY <3>1, <3>2
  <2> QED
    BY <1>12, <2>1, <2>2, <2>3 DEF SignatureStep
<1>13. ASSUME NEW t \in Txs, Broadcast(t)
       PROVE  TypeOK'
  BY <1>13 DEF TypeOK, Broadcast, bonds
<1>14. CASE Tick
  BY <1>14 DEF TypeOK, Tick, bonds
<1>15. CASE UNCHANGED vars
  BY <1>15 DEF TypeOK, vars
<1> QED
  BY Zenon, <1>1, <1>2, <1>3, <1>4, <1>5, <1>6, <1>7, <1>8, <1>9, <1>10, <1>11, <1>12,
     <1>13, <1>14, <1>15
  DEF Next, HolderStep, ObserverStep, SignerStep, ChainStep, ChainUnspent

-----------------------------------------------------------------------------
(* An output row that a step leaves alone stays right when its transaction *)
(* is left alone too.                                                      *)
LEMMA OutputKept ==
    ASSUME NEW o \in Outputs, OutputFollows(o), outputs'[o] = outputs[o],
           outputs[o].state \in {"Pending", "Done"} =>
               transactions'[outputs[o].spent_by] = transactions[outputs[o].spent_by]
    PROVE  OutputFollows(o)'
BY Zenon DEF OutputFollows, Unfinished

(* The same for a signature request, of which only created_at and the      *)
(* state of the response may change.                                       *)
LEMMA SignatureKept ==
    ASSUME NEW s \in SignatureIds, SignatureFollows(s),
           signatures'[s].tx = signatures[s].tx, signatures'[s].state = signatures[s].state,
           signatures[s].signed => signatures'[s].signed,
           signatures[s].state # "none" =>
               LET u == signatures[s].tx IN
               /\ transactions'[u].state = transactions[u].state
               /\ transactions'[u].inputs = transactions[u].inputs
               /\ transactions'[u].holder => transactions[u].holder
    PROVE  SignatureFollows(s)'
BY Zenon DEF SignatureFollows

(* The invariant says nothing about the clock, the chain and the bonds.    *)
LEMMA QuietStep ==
    ASSUME IInv, TypeOK',
           UNCHANGED <<safe, outputs, transactions, signatures, job>>,
           \A r \in ReqIds : requests'[r] = "none" => requests[r] = "none",
           StoreChecksHold'
    PROVE  IInv'
<1>1. OutputsFollowTransactions'
  BY DEF IInv, OutputsFollowTransactions, OutputFollows, Standing, Unfinished
<1>2. HolderOnlyDone' /\ ClosedDrained'
  BY DEF IInv, HolderOnlyDone, ClosedDrained
<1>3. SignaturesFollowTransactions' /\ JobOpen'
  BY DEF IInv, SignaturesFollowTransactions, SignatureFollows, JobOpen
<1>4. FreshUnused'
  BY DEF IInv, FreshUnused, SignatureIds
<1>5. SignedWhenDone'
  BY Zenon DEF IInv, SignedWhenDone, Standing, RowsOf
<1> QED
  BY SMTT(20), <1>1, <1>2, <1>3, <1>4, <1>5 DEF IInv

(* A panic, which leaves the request Initial and nothing else behind.      *)
LEMMA PanicStep ==
    ASSUME IInv, TypeOK', NEW r \in ReqIds,
           NEW statement \in {"approve_revoked", "close_again", "timelock"},
           Panic(r, statement)
    PROVE  IInv'
<1>1. StoreChecksHold'
  BY DEF Panic, StoreChecksHold
<1>2. \A q \in ReqIds : requests'[q] = "none" => requests[q] = "none"
  BY DEF Panic, IInv, TypeOK
<1> QED
  BY <1>1, <1>2, QuietStep DEF Panic

(* A deposit adds an unspent output to an open safe.                       *)
LEMMA DepositStep ==
    ASSUME IInv, TypeOK', NEW o \in Outputs, CreateHolderDeposit(o)
    PROVE  IInv'
<1> USE DEF CreateHolderDeposit, WriteBitcoinOutput
<1>0. outputs \in [Outputs -> OutputRow] /\ transactions \in [Txs -> TransactionRow]
  BY DEF IInv, TypeOK
<1>1. OutputsFollowTransactions'
  <2>1. ASSUME NEW t \in Txs, Standing(t)', NEW p \in transactions[t].inputs
        PROVE  outputs'[p].spent_by = t
    <3>1. Standing(t) /\ outputs[p].spent_by = t
      BY Zenon, <2>1 DEF IInv, OutputsFollowTransactions, OutputFollows, Standing
    <3>2. p # o
      BY <3>1, ConstantAssumptions DEF IInv, OutputsFollowTransactions, OutputFollows
    <3>3. p \in Outputs
      BY <1>0, <2>1 DEF TransactionRow
    <3> QED
      BY Zenon, <1>0, <3>1, <3>2, <3>3
  <2> QED
    BY Zenon, <1>0, <2>1 DEF IInv, OutputsFollowTransactions, OutputFollows, Unfinished
<1>2. HolderOnlyDone' /\ ClosedDrained' /\ StoreChecksHold'
  BY Zenon, <1>0 DEF IInv, HolderOnlyDone, ClosedDrained, StoreChecksHold
<1>3. SignaturesFollowTransactions' /\ JobOpen'
  BY Zenon DEF IInv, SignaturesFollowTransactions, SignatureFollows, JobOpen
<1>4. FreshUnused' /\ SignedWhenDone'
  BY Zenon DEF IInv, FreshUnused, SignedWhenDone, Standing, RowsOf
<1> QED
  BY <1>1, <1>2, <1>3, <1>4 DEF IInv

(* A new transaction takes the unspent outputs: a proposal as pending, the *)
(* holder's closing transaction as done.                                   *)
LEMMA SpendStep ==
    ASSUME IInv, TypeOK', NEW t \in Txs, NEW row \in TransactionRow,
           NEW state \in {"Pending", "Done"},
           WriteTransaction(t, row, ListAllBitcoinUTXOsForHolder, state),
           transactions[t].state = "none",
           \/ /\ row.state = "Initial" /\ ~row.holder /\ state = "Pending"
              /\ row.inputs = ListAllBitcoinUTXOsForHolder
           \/ row.state = "Done" /\ row.holder /\ state = "Done",
           UNCHANGED <<signatures, job>>,
           \A r \in ReqIds : requests'[r] = "none" => requests[r] = "none"
    PROVE  /\ OutputsFollowTransactions' /\ HolderOnlyDone'
           /\ SignaturesFollowTransactions' /\ FreshUnused' /\ JobOpen'
           /\ SignedWhenDone'
<1> DEFINE utxos == ListAllBitcoinUTXOsForHolder
<1>0. outputs \in [Outputs -> OutputRow] /\ transactions \in [Txs -> TransactionRow]
  BY Zenon DEF IInv, TypeOK
<1>1. \A u \in Txs : transactions'[u] = IF u = t THEN row ELSE transactions[u]
  BY Zenon, <1>0 DEF WriteTransaction
<1>2. \A o \in Outputs : outputs'[o] = IF o \in utxos
                                       THEN [outputs[o] EXCEPT !.state = state, !.spent_by = t]
                                       ELSE outputs[o]
  BY Zenon DEF WriteTransaction
<1>3. utxos \subseteq Outputs /\ \A o \in Outputs : o \in utxos <=> outputs[o].state = "Initial"
  BY Zenon DEF ListAllBitcoinUTXOsForHolder, OutputsIn
<1>4. \A o \in utxos : outputs'[o].state = state /\ outputs'[o].spent_by = t
  BY Zenon, <1>0, <1>2, <1>3 DEF OutputRow
<1> HIDE DEF utxos
<1>5. OutputsFollowTransactions'
  <2>1. ASSUME NEW u \in Txs, Standing(u)', NEW o \in transactions'[u].inputs
        PROVE  outputs'[o].spent_by = u
    <3>1. CASE u = t
      BY Zenon, <1>1, <1>4, <2>1, <3>1 DEF Standing, utxos
    <3>2. CASE u # t
      <4>1. Standing(u) /\ o \in transactions[u].inputs
        BY Zenon, <1>1, <2>1, <3>2 DEF Standing
      <4>2. outputs[o].spent_by = u /\ o \in Outputs
        BY <1>0, <4>1 DEF IInv, OutputsFollowTransactions, OutputFollows, TransactionRow
      <4>3. o \notin utxos
        BY <1>3, <4>2, ConstantAssumptions DEF IInv, OutputsFollowTransactions, OutputFollows
      <4> QED
        BY Zenon, <1>2, <4>2, <4>3
    <3> QED
      BY <3>1, <3>2
  <2>2. ASSUME NEW o \in utxos
        PROVE  /\ outputs'[o].state \notin {"none", "Initial"}
               /\ outputs'[o].spent_by = t /\ t # NoTx
               /\ outputs'[o].state = "Pending" =>
                    transactions'[t].state = "Initial" /\ o \in transactions'[t].inputs
               /\ outputs'[o].state = "Done" =>
                    transactions'[t].state = "Done" /\ transactions'[t].holder
    BY Zenon, <1>1, <1>4, <2>2, ConstantAssumptions DEF utxos
  <2>3. ASSUME NEW o \in Outputs, o \notin utxos
        PROVE  /\ outputs'[o] = outputs[o]
               /\ outputs[o].state # "none" =>
                    /\ outputs[o].spent_by \in Txs
                    /\ transactions'[outputs[o].spent_by] = transactions[outputs[o].spent_by]
    <3>1. outputs'[o] = outputs[o]
      BY Zenon, <1>2, <2>3
    <3>2. outputs[o].state \in {"none", "Pending", "Done"} /\ outputs[o].spent_by \in Txs \cup {NoTx}
      BY Zenon, <1>0, <1>3, <2>3 DEF OutputRow
    <3>3. outputs[o].state # "none" => outputs[o].spent_by \in Txs \ {t}
      BY Zenon, <3>2 DEF IInv, OutputsFollowTransactions, OutputFollows, Unfinished
    <3> QED
      BY Zenon, <1>1, <3>1, <3>3
  <2>4. ASSUME NEW o \in Outputs
        PROVE  OutputFollows(o)'
    <3>1. CASE o \in utxos
      BY Zenon, <2>2, <3>1 DEF OutputFollows, Unfinished
    <3>2. CASE o \notin utxos
      BY Zenon, <2>3, <3>2, OutputKept DEF IInv, OutputsFollowTransactions
    <3> QED
      BY Zenon, <3>1, <3>2
  <2> QED
    BY Zenon, <2>1, <2>4 DEF OutputsFollowTransactions
<1>6. HolderOnlyDone'
  BY Zenon, <1>1 DEF IInv, HolderOnlyDone
<1>7. SignaturesFollowTransactions' /\ JobOpen'
  <2>1. ASSUME NEW q \in SignatureIds, signatures[q].state # "none"
        PROVE  transactions'[signatures[q].tx] = transactions[signatures[q].tx]
    <3>1. signatures[q].tx \in Txs /\ signatures[q].state \in {"Initial", "Pending", "Done"}
      BY Zenon, <2>1 DEF IInv, TypeOK, SignatureRow, SignaturesFollowTransactions, SignatureFollows
    <3>2. signatures[q].tx # t
      BY <2>1, <3>1 DEF IInv, SignaturesFollowTransactions, SignatureFollows
    <3> QED
      BY Zenon, <1>1, <3>1, <3>2
  <2>2. SignaturesFollowTransactions'
    BY Zenon, <2>1, SignatureKept DEF IInv, SignaturesFollowTransactions
  <2> QED
    BY Zenon, <2>2 DEF IInv, JobOpen
<1>8. FreshUnused'
  BY DEF IInv, FreshUnused, SignatureIds
<1>9. SignedWhenDone'
  BY <1>1 DEF IInv, SignedWhenDone, Standing, RowsOf
<1> QED
  BY <1>5, <1>6, <1>7, <1>8, <1>9

(* A proposal takes free outputs only, so no other transaction has them.   *)
LEMMA ProposeStep ==
    ASSUME IInv, TypeOK', NEW t \in Txs, NEW amount \in Amounts,
           NEW recovery \in BOOLEAN, NEW self \in BOOLEAN,
           ProposeTransaction(t, amount, recovery, self)
    PROVE  IInv'
<1> DEFINE utxos == ListAllBitcoinUTXOsForHolder
           row == [state |-> "Initial", inputs |-> utxos, amount |-> amount,
                   change |-> SumSatoshi(utxos) - amount, recovery |-> recovery,
                   self |-> self, holder |-> FALSE]
<1>1. row \in TransactionRow
  BY Zenon, ConstantAssumptions DEF ProposeTransaction, Covers, TransactionRow,
     ListAllBitcoinUTXOsForHolder, OutputsIn
<1>2. WriteTransaction(t, row, utxos, "Pending") /\ transactions[t].state = "none"
  BY Zenon DEF ProposeTransaction
<1>3. \A r \in ReqIds : requests'[r] = "none" => requests[r] = "none"
  BY Zenon DEF ProposeTransaction, FinishRequest, IInv, TypeOK
<1>4. /\ OutputsFollowTransactions' /\ HolderOnlyDone'
      /\ SignaturesFollowTransactions' /\ FreshUnused' /\ JobOpen'
      /\ SignedWhenDone'
  BY Zenon, <1>1, <1>2, <1>3, SpendStep DEF ProposeTransaction
<1>5. ClosedDrained' /\ StoreChecksHold'
  BY DEF ProposeTransaction, IInv, ClosedDrained, StoreChecksHold
<1> QED
  BY Zenon, <1>4, <1>5 DEF IInv

(* A revocation frees outputs that no transaction left standing spends.    *)
LEMMA RevokeStep ==
    ASSUME IInv, TypeOK', NEW r \in ReqIds, NEW t \in Txs, RevokeTransaction(r, t)
    PROVE  IInv'
<1> DEFINE inputs == transactions[t].inputs
<1>0. outputs \in [Outputs -> OutputRow] /\ transactions \in [Txs -> TransactionRow]
  BY DEF IInv, TypeOK
<1>1. transactions[t].state = "Initial" /\ ~transactions[t].holder /\ inputs \subseteq Outputs
  BY Zenon, <1>0 DEF RevokeTransaction, Revocable, IInv, HolderOnlyDone, TransactionRow
<1>2. \A o \in inputs : outputs[o].spent_by = t
  BY <1>1 DEF IInv, OutputsFollowTransactions, OutputFollows, Standing
<1>3. /\ ReleaseOutputs(t)
      /\ transactions' = [transactions EXCEPT ![t].state = "Failed"]
      /\ requests' = [requests EXCEPT ![r] = "Done"]
      /\ UNCHANGED <<safe, signatures, job, panicked>>
  BY <1>2 DEF RevokeTransaction, FinishRequest
<1>4. \A u \in Txs : u # t => transactions'[u] = transactions[u]
  BY <1>0, <1>3
<1>5. transactions'[t].state = "Failed" /\ ~transactions'[t].holder
  BY Zenon, <1>0, <1>1, <1>3 DEF TransactionRow
<1>6. \A o \in inputs : outputs'[o].state = "Initial" /\ outputs'[o].spent_by = NoTx
  BY Zenon, <1>0, <1>1, <1>3 DEF ReleaseOutputs, OutputRow
<1>7. \A o \in Outputs \ inputs : outputs'[o] = outputs[o]
  BY Zenon, <1>3 DEF ReleaseOutputs
<1> HIDE DEF inputs
<1>8. OutputsFollowTransactions'
  <2>1. ASSUME NEW u \in Txs, Standing(u)', NEW o \in transactions'[u].inputs
        PROVE  outputs'[o].spent_by = u
    <3>1. u # t /\ Standing(u) /\ o \in transactions[u].inputs
      BY Zenon, <1>4, <1>5, <2>1 DEF Standing
    <3>2. outputs[o].spent_by = u /\ o \in Outputs
      BY <1>0, <3>1 DEF IInv, OutputsFollowTransactions, OutputFollows, TransactionRow
    <3> QED
      BY <1>2, <1>7, <3>1, <3>2
  <2>2. ASSUME NEW o \in Outputs \ inputs, outputs[o].state \in {"Pending", "Done"}
        PROVE  /\ outputs[o].spent_by \in Txs
               /\ transactions'[outputs[o].spent_by] = transactions[outputs[o].spent_by]
    <3>1. outputs[o].spent_by \in Txs /\ outputs[o].spent_by # t
      BY Zenon, <1>0, <1>1, <2>2 DEF IInv, OutputsFollowTransactions, OutputFollows, OutputRow, inputs
    <3> QED
      BY Zenon, <1>4, <3>1
  <2>3. ASSUME NEW o \in Outputs
        PROVE  OutputFollows(o)'
    <3>1. CASE o \in inputs
      BY Zenon, <1>6, <3>1 DEF OutputFollows
    <3>2. CASE o \notin inputs
      BY Zenon, <1>7, <2>2, <3>2, OutputKept DEF IInv, OutputsFollowTransactions
    <3> QED
      BY Zenon, <3>1, <3>2
  <2> QED
    BY Zenon, <2>1, <2>3 DEF OutputsFollowTransactions
<1>9. SignaturesFollowTransactions' /\ JobOpen'
  <2>1. ASSUME NEW q \in SignatureIds, signatures[q].state # "none"
        PROVE  transactions'[signatures[q].tx] = transactions[signatures[q].tx]
    <3>1. signatures[q].tx \in Txs /\ signatures[q].state \in {"Initial", "Pending", "Done"}
      BY <2>1 DEF IInv, TypeOK, SignatureRow, SignaturesFollowTransactions, SignatureFollows
    <3>2. signatures[q].tx # t
      BY <1>1, <2>1, <3>1 DEF IInv, SignaturesFollowTransactions, SignatureFollows
    <3> QED
      BY <1>4, <3>1, <3>2
  <2>2. SignaturesFollowTransactions'
    BY Zenon, <1>3, <2>1, SignatureKept DEF IInv, SignaturesFollowTransactions
  <2> QED
    BY Zenon, <1>3, <2>2 DEF IInv, JobOpen
<1>10. HolderOnlyDone'
  BY <1>4, <1>5 DEF IInv, HolderOnlyDone
<1>11. FreshUnused'
  BY <1>3 DEF IInv, TypeOK, FreshUnused, SignatureIds
<1>12. SignedWhenDone'
  <2>1. ASSUME NEW u \in Txs, transactions'[u].state = "Done", Standing(u)',
               NEW o \in transactions'[u].inputs
        PROVE  \E q \in ReqIds : signatures[<<q, o>>].tx = u /\ signatures[<<q, o>>].signed
    <3>1. transactions[u].state = "Done" /\ Standing(u) /\ o \in transactions[u].inputs
      BY <1>4, <1>5, <2>1 DEF Standing
    <3> QED
      BY Zenon, <3>1 DEF IInv, SignedWhenDone, RowsOf
  <2> QED
    BY Zenon, <1>3, <2>1 DEF SignedWhenDone, RowsOf
<1>13. ClosedDrained' /\ StoreChecksHold'
  BY Zenon, <1>1, <1>3 DEF IInv, ClosedDrained, StoreChecksHold
<1> QED
  BY Zenon, <1>8, <1>9, <1>10, <1>11, <1>12, <1>13 DEF IInv

(* New signature requests leave the outputs and the older requests alone.  *)
LEMMA WriteSignaturesStep ==
    ASSUME IInv, TypeOK', NEW r \in ReqIds, NEW t \in Txs,
           NEW new \in SUBSET transactions[t].inputs,
           requests[r] = "none", Unfinished(t), WriteSignatureRequests(r, t, new),
           FinishRequest(r), job = NoJob, UNCHANGED <<outputs, job>>
    PROVE  /\ OutputsFollowTransactions' /\ HolderOnlyDone'
           /\ SignaturesFollowTransactions' /\ FreshUnused' /\ JobOpen'
           /\ SignedWhenDone'
           /\ transactions'[t].state = "Pending"
           /\ \A u \in Txs \ {t} : transactions'[u] = transactions[u]
<1>0. transactions \in [Txs -> TransactionRow] /\ signatures \in [SignatureIds -> SignatureRow]
  BY DEF IInv, TypeOK
<1>1. /\ transactions'[t].state = "Pending"
      /\ transactions'[t].inputs = transactions[t].inputs
      /\ ~transactions'[t].holder /\ ~transactions[t].holder
  BY <1>0 DEF WriteSignatureRequests, TransactionRow, Unfinished, IInv, HolderOnlyDone
<1>2. \A u \in Txs \ {t} : transactions'[u] = transactions[u]
  BY Zenon, <1>0 DEF WriteSignatureRequests
<1>3. transactions[t].state \in {"Initial", "Pending"}
  BY Zenon DEF Unfinished
<1>4. ASSUME NEW s \in SignatureIds, s[1] = r
      PROVE  signatures[s].state = "none" /\ signatures[s].tx = NoTx
  BY <1>4 DEF IInv, FreshUnused, SignaturesFollowTransactions, SignatureFollows
<1>5. ASSUME NEW s \in SignatureIds
      PROVE  \/ /\ s[1] = r /\ s[2] \in new
                /\ signatures'[s] = [tx |-> t, state |-> "Initial", created_at |-> clock,
                                     signed |-> FALSE, request |-> "none"]
             \/ signatures'[s] = signatures[s] /\ ~(s[1] = r /\ s[2] \in new)
  BY Zenon DEF WriteSignatureRequests
<1>6. OutputsFollowTransactions'
  <2>1. \A u \in Txs : /\ Standing(u)' <=> Standing(u)
                       /\ transactions'[u].inputs = transactions[u].inputs
                       /\ transactions'[u].holder <=> transactions[u].holder
                       /\ transactions'[u].state = "Done" <=> transactions[u].state = "Done"
                       /\ Unfinished(u)' <=> Unfinished(u)
    <3>1. ASSUME NEW u \in Txs \ {t}
          PROVE  transactions'[u] = transactions[u]
      BY Zenon, <1>2
    <3> QED
      BY Zenon, <1>1, <1>3, <3>1 DEF Standing, Unfinished
  <2>2. \A o \in Outputs : outputs[o].spent_by \in Txs \cup {NoTx}
    BY DEF IInv, TypeOK, OutputRow
  <2> QED
    BY Zenon, <2>1, <2>2 DEF IInv, OutputsFollowTransactions, OutputFollows
<1>7. SignaturesFollowTransactions'
  <2>1. ASSUME NEW s \in SignatureIds, signatures[s].state # "none"
        PROVE  /\ signatures[s].tx \in Txs
               /\ transactions'[signatures[s].tx].state = transactions[signatures[s].tx].state
               /\ transactions'[signatures[s].tx].inputs = transactions[signatures[s].tx].inputs
               /\ ~transactions'[signatures[s].tx].holder
    <3>1. /\ signatures[s].tx \in Txs
          /\ transactions[signatures[s].tx].state \in {"Pending", "Done"}
          /\ ~transactions[signatures[s].tx].holder
      BY Zenon, <1>0, <2>1 DEF IInv, SignaturesFollowTransactions, SignatureFollows, SignatureRow
    <3> QED
      BY Zenon, <1>1, <1>2, <1>3, <3>1
  <2>2. ASSUME NEW s \in SignatureIds, s[1] = r, s[2] \in new
        PROVE  SignatureFollows(s)'
    <3>1. signatures'[s].state = "Initial" /\ signatures'[s].tx = t
      <4>1. signatures'[s] = [tx |-> t, state |-> "Initial", created_at |-> clock,
                              signed |-> FALSE, request |-> "none"]
        BY Zenon, <1>5, <2>2
      <4> QED
        BY <4>1
    <3> QED
      BY Zenon, <1>1, <2>2, <3>1 DEF SignatureFollows
  <2>3. ASSUME NEW s \in SignatureIds, ~(s[1] = r /\ s[2] \in new)
        PROVE  SignatureFollows(s)'
    <3>1. signatures'[s] = signatures[s]
      BY Zenon, <1>5, <2>3
    <3> QED
      BY Zenon, <2>1, <3>1, SignatureKept DEF IInv, SignaturesFollowTransactions
  <2> QED
    BY Zenon, <2>2, <2>3 DEF SignaturesFollowTransactions
<1>8. FreshUnused'
  <2>1. requests'[r] = "Done" /\ \A q \in ReqIds \ {r} : requests'[q] = requests[q]
    BY Zenon DEF FinishRequest, IInv, TypeOK
  <2> QED
    BY Zenon, <1>5, <2>1 DEF IInv, FreshUnused, SignatureIds
<1>9. SignedWhenDone'
  <2>1. ASSUME NEW u \in Txs, transactions'[u].state = "Done", Standing(u)',
               NEW o \in transactions'[u].inputs
        PROVE  \E q \in ReqIds : /\ signatures'[<<q, o>>].tx = u
                                 /\ signatures'[<<q, o>>].signed
    <3>1. u # t /\ transactions[u].state = "Done" /\ Standing(u) /\ o \in transactions[u].inputs
      BY Zenon, <1>1, <1>2, <2>1 DEF Standing
    <3>2. PICK q \in ReqIds : signatures[<<q, o>>].tx = u /\ signatures[<<q, o>>].signed
      BY Zenon, <3>1 DEF IInv, SignedWhenDone, RowsOf
    <3>3. <<q, o>> \in SignatureIds
      BY Zenon, <1>0, <3>1 DEF TransactionRow, SignatureIds
    <3>4. q # r
      BY Zenon, <1>4, <3>2, <3>3, ConstantAssumptions
    <3> QED
      BY Zenon, <1>5, <3>2, <3>3, <3>4
  <2> QED
    BY Zenon, <2>1 DEF SignedWhenDone, RowsOf
<1>10. HolderOnlyDone' /\ JobOpen'
  BY Zenon, <1>1, <1>2 DEF IInv, HolderOnlyDone, JobOpen
<1> QED
  BY SMTT(20), <1>1, <1>2, <1>6, <1>7, <1>8, <1>9, <1>10

(* An approval asks for signatures of an unfinished transaction only; the  *)
(* approval of a revoked one stops at the update of its state.             *)
LEMMA ApproveStep ==
    ASSUME IInv, TypeOK', NEW r \in ReqIds, NEW t \in Txs,
           NEW new \in SUBSET transactions[t].inputs, ApproveTransaction(r, t, new)
    PROVE  IInv'
<1>1. CASE Unfinished(t)
  <2>1. /\ OutputsFollowTransactions' /\ HolderOnlyDone'
        /\ SignaturesFollowTransactions' /\ FreshUnused' /\ JobOpen'
        /\ SignedWhenDone'
        /\ transactions'[t].state = "Pending"
        /\ \A u \in Txs \ {t} : transactions'[u] = transactions[u]
    BY Zenon, <1>1, WriteSignaturesStep DEF ApproveTransaction, Fresh
  <2>2. UNCHANGED <<safe, outputs, panicked>>
    BY Zenon, <1>1 DEF ApproveTransaction
  <2>3. ClosedDrained' /\ StoreChecksHold'
    BY Zenon, <2>1, <2>2 DEF IInv, ClosedDrained, StoreChecksHold
  <2> QED
    BY Zenon, <2>1, <2>3 DEF IInv
<1>2. CASE ~Unfinished(t)
  BY Zenon, <1>2, PanicStep DEF ApproveTransaction
<1> QED
  BY Zenon, <1>1, <1>2

(* The transaction that closes the safe is its only unfinished one.        *)
LEMMA OneUnfinished ==
    ASSUME NEW t \in Txs, Unfinished(t), CountUnfinishedTransactionsByHolder = 1
    PROVE  \A u \in Txs : Unfinished(u) => u = t
<1> DEFINE U == {u \in Txs : Unfinished(u)}
<1>1. IsFiniteSet(U)
  BY Zenon, ConstantAssumptions, FS_Subset
<1>2. PICK x : U = {x}
  BY <1>1, FS_Singleton DEF CountUnfinishedTransactionsByHolder
<1> QED
  BY <1>2

(* A count of zero means that no transaction is unfinished.                *)
LEMMA NoneUnfinished ==
    ASSUME CountUnfinishedTransactionsByHolder = 0
    PROVE  \A u \in Txs : ~Unfinished(u)
<1> DEFINE U == {u \in Txs : Unfinished(u)}
<1>1. IsFiniteSet(U)
  BY ConstantAssumptions, FS_Subset
<1>2. U = {}
  BY <1>1, FS_EmptySet DEF CountUnfinishedTransactionsByHolder
<1> QED
  BY Zenon, <1>2

(* A close with the signer group drains the safe: its one unfinished       *)
(* transaction becomes pending and no output is free.                      *)
LEMMA CloseWithSignerStep ==
    ASSUME IInv, TypeOK', NEW r \in ReqIds, NEW t \in Txs, CloseAccountWithSigner(r, t)
    PROVE  IInv'
<1>1. CASE Unfinished(t)
  <2>1. NewSignatureInputs(t) \in SUBSET transactions[t].inputs
    BY Zenon DEF NewSignatureInputs
  <2>2. /\ OutputsFollowTransactions' /\ HolderOnlyDone'
        /\ SignaturesFollowTransactions' /\ FreshUnused' /\ JobOpen'
        /\ SignedWhenDone'
        /\ transactions'[t].state = "Pending"
        /\ \A u \in Txs \ {t} : transactions'[u] = transactions[u]
    BY Zenon, <1>1, <2>1, WriteSignaturesStep DEF CloseAccountWithSigner, ClosingWithSigner, Fresh
  <2>3. UNCHANGED <<outputs, panicked>>
    BY Zenon, <1>1 DEF CloseAccountWithSigner
  <2>4. \A u \in Txs \ {t} : transactions[u].state # "Initial"
    BY Zenon, <1>1, OneUnfinished DEF CloseAccountWithSigner, ClosingWithSigner, Unfinished
  <2>5. \A o \in Outputs : outputs[o].state # "Initial"
    BY Zenon DEF CloseAccountWithSigner, ClosingWithSigner, ListAllBitcoinUTXOsForHolder, OutputsIn
  <2>6. ClosedDrained' /\ StoreChecksHold'
    BY <2>2, <2>3, <2>4, <2>5 DEF IInv, ClosedDrained, StoreChecksHold
  <2> QED
    BY Zenon, <2>2, <2>6 DEF IInv
<1>2. CASE ~Unfinished(t)
  BY <1>2, PanicStep DEF CloseAccountWithSigner
<1> QED
  BY Zenon, <1>1, <1>2

(* A close with the holder drains the safe: free outputs become done.      *)
LEMMA CloseWithHolderStep ==
    ASSUME IInv, TypeOK', NEW r \in ReqIds, NEW t \in Txs, NEW spends \in SUBSET Outputs,
           CloseAccountWithHolder(r, t, spends)
    PROVE  IInv'
<1> DEFINE row == [NoTransaction EXCEPT !.state = "Done", !.inputs = spends,
                                        !.recovery = TRUE, !.holder = TRUE]
<1>1. CASE safe = "Approved"
  <2>1. row \in TransactionRow /\ row.state = "Done" /\ row.holder
    BY Zenon DEF NoTransaction, TransactionRow
  <2>2. /\ WriteTransaction(t, row, ListAllBitcoinUTXOsForHolder, "Done")
        /\ transactions[t].state = "none"
        /\ requests' = [requests EXCEPT ![r] = "Done"]
        /\ UNCHANGED <<signatures, job, panicked>>
    BY <1>1 DEF CloseAccountWithHolder, FinishRequest
  <2> HIDE DEF row
  <2>3. \A q \in ReqIds : requests'[q] = "none" => requests[q] = "none"
    BY Zenon, <2>2 DEF IInv, TypeOK
  <2>4. /\ OutputsFollowTransactions' /\ HolderOnlyDone'
        /\ SignaturesFollowTransactions' /\ FreshUnused' /\ JobOpen'
        /\ SignedWhenDone'
    BY <2>1, <2>2, <2>3, SpendStep
  <2>5. \A u \in Txs : transactions[u].state # "Initial"
    BY Zenon, NoneUnfinished DEF CloseAccountWithHolder, Unfinished
  <2>6. \A u \in Txs : transactions'[u].state # "Initial"
    BY Zenon, <2>1, <2>2, <2>5 DEF IInv, TypeOK, WriteTransaction
  <2>7. \A o \in Outputs : outputs'[o].state # "Initial"
    <3>1. ASSUME NEW o \in Outputs, outputs[o].state = "Initial"
          PROVE  outputs'[o].state = "Done"
      <4>1. outputs'[o] = [outputs[o] EXCEPT !.state = "Done", !.spent_by = t]
        BY Zenon, <2>2, <3>1 DEF WriteTransaction, ListAllBitcoinUTXOsForHolder, OutputsIn
      <4>2. outputs[o] \in OutputRow
        BY Zenon DEF IInv, TypeOK
      <4> QED
        BY Zenon, <4>1, <4>2 DEF OutputRow
    <3>2. ASSUME NEW o \in Outputs, outputs[o].state # "Initial"
          PROVE  outputs'[o] = outputs[o]
      BY Zenon, <2>2, <3>2 DEF WriteTransaction, ListAllBitcoinUTXOsForHolder, OutputsIn
    <3> QED
      BY Zenon, <3>1, <3>2
  <2>8. ClosedDrained' /\ StoreChecksHold'
    BY <2>2, <2>6, <2>7 DEF IInv, ClosedDrained, StoreChecksHold
  <2> QED
    BY <2>4, <2>8 DEF IInv
<1>2. CASE safe # "Approved"
  BY Zenon, <1>2, PanicStep DEF CloseAccountWithHolder
<1> QED
  BY <1>1, <1>2

-----------------------------------------------------------------------------
(* What the invariant says of the response being processed.                *)
LEMMA SignedJob ==
    ASSUME IInv, NEW s \in SignatureIds, job = <<s, "signed">>
    PROVE  /\ signatures[s].state = "Pending"
           /\ signatures[s].tx \in Txs
           /\ transactions[signatures[s].tx].state = "Pending"
           /\ ~transactions[signatures[s].tx].holder
           /\ s[2] \in transactions[signatures[s].tx].inputs
<1>1. job # NoJob
  BY JobAssumption DEF Jobs
<1>2. signatures[s].state = "Pending"
  BY <1>1 DEF IInv, JobOpen
<1> QED
  BY <1>2 DEF IInv, SignaturesFollowTransactions, SignatureFollows

(* Steps on one signature request that keep its transaction as it is.      *)
LEMMA AnswerStep ==
    ASSUME IInv, TypeOK', NEW s \in SignatureIds,
           \/ ReceiveSignature(s)
           \/ FailSignature(s)
           \/ FinishSignatureRequest(s)
           \/ Restart(s)
           \/ KeepSignature(s)
    PROVE  IInv'
<1>0. signatures \in [SignatureIds -> SignatureRow]
  BY Zenon DEF IInv, TypeOK
<1>1. job = <<s, "received">> => signatures[s].state \in {"Initial", "Pending"}
  BY JobAssumption DEF IInv, JobOpen, Jobs
<1>2. UNCHANGED <<safe, requests, outputs, transactions, panicked>>
  BY <1>1 DEF ReceiveSignature, FailSignature, FinishSignatureRequest, Writable,
     Restart, KeepSignature
<1>3. \A q \in SignatureIds \ {s} : signatures'[q] = signatures[q]
  BY <1>0, <1>1 DEF ReceiveSignature, FailSignature, FinishSignatureRequest, Writable,
     Restart, KeepSignature
<1>4. /\ signatures'[s].tx = signatures[s].tx
      /\ signatures[s].signed => signatures'[s].signed
      /\ \/ signatures'[s].state = signatures[s].state
         \/ /\ signatures[s].state \in {"Initial", "Pending"}
            /\ signatures'[s].state = "Pending" /\ signatures'[s].signed
  <2>1. CASE \E x \in RequestState : signatures' = [signatures EXCEPT ![s].request = x]
    BY Zenon, <1>0, <2>1 DEF SignatureRow
  <2>2. CASE /\ signatures[s].state \in {"Initial", "Pending"}
             /\ signatures' = [signatures EXCEPT ![s] =
                                   [@ EXCEPT !.state = "Pending", !.signed = TRUE]]
    <3>1. signatures'[s] = [signatures[s] EXCEPT !.state = "Pending", !.signed = TRUE]
      BY Zenon, <1>0, <2>2
    <3> QED
      BY Zenon, <1>0, <2>2, <3>1 DEF SignatureRow
  <2>3. CASE signatures' = signatures
    BY Zenon, <2>3
  <2> QED
    BY Zenon, <1>1, <2>1, <2>2, <2>3 DEF ReceiveSignature, FailSignature,
       FinishSignatureRequest, Writable, Restart, KeepSignature, RequestState
<1>5. OutputsFollowTransactions' /\ HolderOnlyDone' /\ ClosedDrained' /\ StoreChecksHold'
  BY Zenon, <1>2 DEF IInv, OutputsFollowTransactions, OutputFollows, HolderOnlyDone, ClosedDrained,
     StoreChecksHold, Standing, Unfinished
<1>6. SignaturesFollowTransactions'
  <2>1. ASSUME NEW q \in SignatureIds, q # s
        PROVE  SignatureFollows(q)'
    <3>1. signatures'[q] = signatures[q] /\ transactions' = transactions
      BY Zenon, <1>2, <1>3, <2>1
    <3> QED
      BY Zenon, <3>1, SignatureKept DEF IInv, SignaturesFollowTransactions
  <2>2. CASE signatures'[s].state = signatures[s].state
    BY Zenon, <1>2, <1>4, <2>1, <2>2, SignatureKept DEF IInv, SignaturesFollowTransactions
  <2>3. CASE /\ signatures[s].state \in {"Initial", "Pending"}
             /\ signatures'[s].state = "Pending" /\ signatures'[s].signed
    <3>1. SignatureFollows(s)'
      BY Zenon, <1>2, <1>4, <2>3 DEF IInv, SignaturesFollowTransactions, SignatureFollows
    <3> QED
      BY Zenon, <2>1, <3>1 DEF SignaturesFollowTransactions
  <2> QED
    BY Zenon, <1>4, <2>2, <2>3
<1>7. FreshUnused'
  BY Zenon, <1>2, <1>3, <1>4 DEF IInv, FreshUnused
<1>8. SignedWhenDone'
  <2>1. ASSUME NEW q \in ReqIds, NEW o \in Outputs
        PROVE  /\ signatures'[<<q, o>>].tx = signatures[<<q, o>>].tx
               /\ signatures[<<q, o>>].signed => signatures'[<<q, o>>].signed
    <3>1. <<q, o>> \in SignatureIds
      BY Zenon DEF SignatureIds
    <3> QED
      BY Zenon, <1>3, <1>4, <3>1
  <2>2. ASSUME NEW t \in Txs, transactions[t].state = "Done", Standing(t),
               NEW o \in transactions[t].inputs
        PROVE  \E q \in ReqIds : /\ signatures'[<<q, o>>].tx = t
                                 /\ signatures'[<<q, o>>].signed
    <3>1. PICK q \in ReqIds : signatures[<<q, o>>].tx = t /\ signatures[<<q, o>>].signed
      BY Zenon, <2>2 DEF IInv, SignedWhenDone, RowsOf
    <3>2. o \in Outputs
      BY Zenon, <2>2 DEF IInv, TypeOK, TransactionRow
    <3> QED
      BY Zenon, <2>1, <3>1, <3>2
  <2> QED
    BY Zenon, <1>2, <2>2 DEF SignedWhenDone, Standing, RowsOf
<1>9. JobOpen'
  <2>1. CASE ReceiveSignature(s)
    BY Zenon, <1>0, <2>1 DEF ReceiveSignature, JobOpen, SignatureRow
  <2>2. CASE FailSignature(s)
    BY Zenon, <2>2 DEF FailSignature, JobOpen
  <2>3. CASE FinishSignatureRequest(s)
    <3>1. job' = <<s, "signed">> /\ signatures'[s].state = "Pending"
      BY ZenonT(40), <1>0, <1>1, <2>3 DEF FinishSignatureRequest, Writable, SignatureRow
    <3> QED
      BY Zenon, <3>1 DEF JobOpen
  <2>4. CASE Restart(s)
    BY Zenon, <2>4, SignedJob DEF Restart, JobOpen
  <2>5. CASE KeepSignature(s)
    BY Zenon, <2>5 DEF KeepSignature, JobOpen
  <2> QED
    BY Zenon, <2>1, <2>2, <2>3, <2>4, <2>5
<1> QED
  BY Zenon, <1>5, <1>6, <1>7, <1>8, <1>9 DEF IInv

(* The last signature: the outputs in the spent_by column are exactly the  *)
(* inputs, so the store's count of updated rows is right.                  *)
LEMMA FinishStep ==
    ASSUME IInv, TypeOK', NEW s \in SignatureIds, FinishTransactionSignatures(s)
    PROVE  IInv'
<1> DEFINE t == signatures[s].tx
           spent == {o \in Outputs : outputs[o].spent_by = t}
<1>0. /\ outputs \in [Outputs -> OutputRow] /\ transactions \in [Txs -> TransactionRow]
      /\ signatures \in [SignatureIds -> SignatureRow]
  BY Zenon DEF IInv, TypeOK
<1>1. /\ t \in Txs /\ transactions[t].state = "Pending" /\ ~transactions[t].holder
      /\ transactions[t].inputs \subseteq Outputs
  BY Zenon, <1>0, SignedJob DEF FinishTransactionSignatures, TransactionRow
<1>2. spent = transactions[t].inputs
  <2>1. ASSUME NEW o \in transactions[t].inputs PROVE o \in spent
    BY Zenon, <1>1 DEF IInv, OutputsFollowTransactions, OutputFollows, Standing
  <2>2. ASSUME NEW o \in spent PROVE o \in transactions[t].inputs
    BY Zenon, <1>0, <1>1, ConstantAssumptions DEF IInv, OutputsFollowTransactions, OutputFollows, OutputRow
  <2> QED
    BY Zenon, <1>1, <2>1, <2>2
<1>3. /\ signatures' = [q \in SignatureIds |->
           [signatures[q] EXCEPT
              !.state = IF signatures[q].tx = t THEN "Done" ELSE @,
              !.request = IF q = s THEN "Done" ELSE @]]
      /\ transactions' = [transactions EXCEPT ![t].state = "Done"]
      /\ outputs' = [o \in Outputs |->
                       IF o \in spent THEN [outputs[o] EXCEPT !.state = "Done"]
                                      ELSE outputs[o]]
      /\ job' = NoJob
      /\ UNCHANGED <<safe, requests, panicked>>
  BY Zenon, <1>2 DEF FinishTransactionSignatures
<1>4. AllSigned(t)
  BY Zenon DEF FinishTransactionSignatures
<1> HIDE DEF t, spent
<1>5. /\ transactions'[t].state = "Done" /\ ~transactions'[t].holder
      /\ transactions'[t].inputs = transactions[t].inputs
      /\ \A u \in Txs \ {t} : transactions'[u] = transactions[u]
  BY Zenon, <1>0, <1>1, <1>3 DEF TransactionRow
<1>6. /\ \A o \in spent : outputs'[o].state = "Done" /\ outputs'[o].spent_by = t
      /\ \A o \in Outputs \ spent : outputs'[o] = outputs[o] /\ outputs[o].spent_by # t
  BY Zenon, <1>0, <1>3 DEF OutputRow, spent
<1>7. \A q \in SignatureIds :
        /\ signatures'[q].tx = signatures[q].tx
        /\ signatures'[q].signed <=> signatures[q].signed
        /\ signatures'[q].state = IF signatures[q].tx = t THEN "Done" ELSE signatures[q].state
  <2> SUFFICES ASSUME NEW q \in SignatureIds
               PROVE  /\ signatures'[q].tx = signatures[q].tx
                      /\ signatures'[q].signed <=> signatures[q].signed
                      /\ signatures'[q].state =
                           IF signatures[q].tx = t THEN "Done" ELSE signatures[q].state
    BY Zenon
  <2> DEFINE x == IF signatures[q].tx = t THEN "Done" ELSE signatures[q].state
             y == IF q = s THEN "Done" ELSE signatures[q].request
  <2>1. signatures'[q] = [signatures[q] EXCEPT !.state = x, !.request = y]
    BY Zenon, <1>3
  <2> HIDE DEF x, y
  <2>2. /\ signatures'[q].tx = signatures[q].tx
        /\ signatures'[q].signed <=> signatures[q].signed
        /\ signatures'[q].state = x
    BY <1>0, <2>1 DEF SignatureRow
  <2> QED
    BY Zenon, <2>2 DEF x
<1>8. OutputsFollowTransactions'
  <2>1. ASSUME NEW u \in Txs, Standing(u)', NEW o \in transactions'[u].inputs
        PROVE  outputs'[o].spent_by = u
    <3>1. CASE u = t
      BY Zenon, <1>2, <1>5, <1>6, <2>1, <3>1
    <3>2. CASE u # t
      <4>1. Standing(u) /\ o \in transactions[u].inputs
        BY Zenon, <1>5, <2>1, <3>2 DEF Standing
      <4>2. outputs[o].spent_by = u /\ o \in Outputs
        BY Zenon, <1>0, <4>1 DEF IInv, OutputsFollowTransactions, OutputFollows, TransactionRow
      <4> QED
        BY Zenon, <1>6, <3>2, <4>2 DEF spent
    <3> QED
      BY Zenon, <3>1, <3>2
  <2>2. ASSUME NEW o \in Outputs \ spent, outputs[o].state \in {"Pending", "Done"}
        PROVE  /\ outputs[o].spent_by \in Txs
               /\ transactions'[outputs[o].spent_by] = transactions[outputs[o].spent_by]
    <3>1. outputs[o].spent_by \in Txs \ {t}
      BY ZenonT(40), <1>0, <1>6, <2>2 DEF IInv, OutputsFollowTransactions, OutputFollows, OutputRow
    <3> QED
      BY Zenon, <1>5, <3>1
  <2>3. ASSUME NEW o \in Outputs
        PROVE  OutputFollows(o)'
    <3>1. CASE o \in spent
      <4>1. /\ outputs'[o].state = "Done" /\ outputs'[o].spent_by = t /\ t # NoTx
            /\ o \in transactions'[t].inputs
        BY Zenon, <1>1, <1>2, <1>5, <1>6, <3>1, ConstantAssumptions
      <4> QED
        BY Zenon, <1>5, <4>1 DEF OutputFollows
    <3>2. CASE o \notin spent
      BY Zenon, <1>6, <2>2, <3>2, OutputKept DEF IInv, OutputsFollowTransactions
    <3> QED
      BY Zenon, <3>1, <3>2
  <2> QED
    BY Zenon, <2>1, <2>3 DEF OutputsFollowTransactions
<1>9. SignaturesFollowTransactions'
  <2>1. ASSUME NEW q \in SignatureIds, signatures[q].tx = t
        PROVE  signatures[q].state # "none"
    BY Zenon, <1>1, <2>1, ConstantAssumptions DEF IInv, SignaturesFollowTransactions, SignatureFollows
  <2>2. ASSUME NEW q \in SignatureIds, signatures[q].tx # t, signatures[q].state # "none"
        PROVE  transactions'[signatures[q].tx] = transactions[signatures[q].tx]
    BY Zenon, <1>5, <2>2 DEF IInv, SignaturesFollowTransactions, SignatureFollows
  <2>3. ASSUME NEW q \in SignatureIds, signatures[q].tx # t
        PROVE  SignatureFollows(q)'
    BY Zenon, <1>7, <2>2, <2>3, SignatureKept DEF IInv, SignaturesFollowTransactions
  <2>4. ASSUME NEW q \in SignatureIds, signatures[q].tx = t
        PROVE  SignatureFollows(q)'
    <3>1. q[2] \in transactions[t].inputs
      BY Zenon, <2>1, <2>4 DEF IInv, SignaturesFollowTransactions, SignatureFollows
    <3> QED
      BY Zenon, <1>1, <1>5, <1>7, <2>4, <3>1 DEF SignatureFollows
  <2> QED
    BY Zenon, <2>3, <2>4 DEF SignaturesFollowTransactions
<1>10. FreshUnused' /\ JobOpen'
  <2>1. ASSUME NEW q \in SignatureIds, signatures[q].tx = t
        PROVE  signatures[q].state # "none"
    BY Zenon, <1>1, <2>1, ConstantAssumptions DEF IInv, SignaturesFollowTransactions, SignatureFollows
  <2>2. FreshUnused'
    <3>1. requests' = requests
      BY Zenon, <1>3
    <3> QED
      BY Zenon, <1>7, <2>1, <3>1 DEF IInv, FreshUnused
  <2>3. JobOpen'
    BY Zenon, <1>3 DEF JobOpen
  <2> QED
    BY Zenon, <2>2, <2>3
<1>11. SignedWhenDone'
  <2>1. ASSUME NEW u \in Txs, transactions'[u].state = "Done", Standing(u)',
               NEW o \in transactions'[u].inputs
        PROVE  \E q \in ReqIds : /\ signatures'[<<q, o>>].tx = u
                                 /\ signatures'[<<q, o>>].signed
    <3>1. o \in Outputs
      BY Zenon, <2>1 DEF TypeOK, TransactionRow
    <3>2. PICK q \in ReqIds : signatures[<<q, o>>].tx = u /\ signatures[<<q, o>>].signed
      <4>1. CASE u = t
        BY Zenon, <1>4, <1>5, <2>1, <4>1 DEF AllSigned, RowsOf
      <4>2. CASE u # t
        BY <1>5, <2>1, <4>2 DEF IInv, SignedWhenDone, Standing, RowsOf
      <4> QED
        BY Zenon, <4>1, <4>2
    <3>3. <<q, o>> \in SignatureIds
      BY Zenon, <3>1 DEF SignatureIds
    <3> QED
      BY Zenon, <1>7, <3>2, <3>3
  <2> QED
    BY Zenon, <2>1 DEF SignedWhenDone, RowsOf
<1>12. HolderOnlyDone'
  BY Zenon, <1>5 DEF IInv, HolderOnlyDone
<1>13. ClosedDrained' /\ StoreChecksHold'
  <2>1. \A o \in Outputs : outputs'[o].state = "Initial" => outputs[o].state = "Initial"
    BY Zenon, <1>6
  <2> QED
    BY Zenon, <1>3, <1>5, <2>1 DEF IInv, ClosedDrained, StoreChecksHold
<1> QED
  BY Zenon, <1>8, <1>9, <1>10, <1>11, <1>12, <1>13 DEF IInv

-----------------------------------------------------------------------------
(* The empty tables satisfy the inductive invariant.                       *)
LEMMA InvInit == Init => IInv
<1> SUFFICES ASSUME Init PROVE IInv
  BY Zenon
<1>1. TypeOK
  BY Zenon, TypeInit
<1>2. OutputsFollowTransactions /\ HolderOnlyDone
  BY Zenon DEF Init, OutputsFollowTransactions, OutputFollows, Standing, HolderOnlyDone, NoOutput, NoTransaction
<1>3. SignaturesFollowTransactions /\ FreshUnused
  BY Zenon DEF Init, SignaturesFollowTransactions, SignatureFollows, FreshUnused, NoSignature
<1>4. JobOpen /\ SignedWhenDone /\ ClosedDrained /\ StoreChecksHold
  BY Zenon DEF Init, JobOpen, SignedWhenDone, ClosedDrained, StoreChecksHold, NoTransaction
<1> QED
  BY Zenon, <1>1, <1>2, <1>3, <1>4 DEF IInv

(* Every handler of the keeper and every step of the chain preserves it.   *)
LEMMA InvNext == IInv /\ [Next]_vars => IInv'
<1> SUFFICES ASSUME IInv, [Next]_vars PROVE IInv'
  BY Zenon
<1>0. TypeOK'
  BY Zenon, TypeNext DEF IInv
<1>1. ASSUME NEW t \in Txs, NEW amount \in Amounts,
             FailProposal(t, amount) \/ RefundProposal(t, amount)
      PROVE  IInv'
  BY Zenon, <1>0, <1>1, QuietStep
  DEF FailProposal, RefundProposal, FailRequest, IInv, TypeOK, StoreChecksHold
<1>2. ASSUME NEW r \in ReqIds, NEW t \in Txs, RepeatCloseWithHolder(r, t)
      PROVE  IInv'
  BY Zenon, <1>0, <1>2, QuietStep
  DEF RepeatCloseWithHolder, FinishRequest, IInv, TypeOK, StoreChecksHold
<1>3. ASSUME NEW r \in ReqIds, NEW t \in Txs, CloseAccountTooEarly(r, t)
      PROVE  IInv'
  BY Zenon, <1>0, <1>3, PanicStep DEF CloseAccountTooEarly
<1>4. ASSUME NEW t \in Txs, Broadcast(t) \/ Tick
      PROVE  IInv'
  BY Zenon, <1>0, <1>4, QuietStep DEF Broadcast, Tick, IInv, StoreChecksHold
<1>5. CASE UNCHANGED vars
  BY Zenon, <1>0, <1>5, QuietStep DEF vars, IInv, StoreChecksHold
<1>6. CASE Tick
  BY Zenon, <1>0, <1>6, QuietStep DEF Tick, IInv, StoreChecksHold
<1>7. CASE HolderStep
  BY Zenon, <1>0, <1>1, <1>7, ProposeStep DEF HolderStep
<1>8. CASE ObserverStep
  <2>1. CASE \E o \in Outputs : CreateHolderDeposit(o)
    BY Zenon, <1>0, <2>1, DepositStep
  <2>2. CASE \E r \in ReqIds : FailObserverRequest(r)
    BY ZenonT(40), <1>0, <2>2, QuietStep
    DEF FailObserverRequest, FailRequest, IInv, TypeOK, StoreChecksHold
  <2>3. ASSUME NEW r \in ReqIds, NEW t \in Txs,
               \/ RevokeTransaction(r, t)
               \/ \E new \in SUBSET transactions[t].inputs : ApproveTransaction(r, t, new)
               \/ CloseAccountWithSigner(r, t)
        PROVE  IInv'
    BY Zenon, <1>0, <2>3, RevokeStep, ApproveStep, CloseWithSignerStep
  <2>4. ASSUME NEW r \in ReqIds, NEW t \in Txs,
               \E spends \in SUBSET ChainUnspent \ {{}} : CloseAccountWithHolder(r, t, spends)
        PROVE  IInv'
    <3>1. PICK spends \in SUBSET Outputs : CloseAccountWithHolder(r, t, spends)
      BY Zenon, <2>4 DEF ChainUnspent
    <3> QED
      BY Zenon, <1>0, <3>1, CloseWithHolderStep
  <2> QED
    BY Zenon, <1>2, <1>3, <1>8, <2>1, <2>2, <2>3, <2>4 DEF ObserverStep
<1>9. CASE SignerStep
  BY Zenon, <1>0, <1>9, AnswerStep, FinishStep DEF SignerStep, SignatureStep
<1> QED
  BY Zenon, <1>4, <1>5, <1>6, <1>7, <1>8, <1>9 DEF Next, ChainStep

(* The inductive invariant holds in every reachable state.                 *)
THEOREM Invariance == Spec => []IInv
BY InvInit, InvNext, PTL DEF Spec

(* Type correctness of the keeper's tables, for every instance.            *)
THEOREM TypeCorrect == Spec => []TypeOK
<1>1. IInv => TypeOK
  BY Zenon DEF IInv
<1> QED
  BY <1>1, Invariance, PTL

(* No interleaving of proposals, revocations, approvals, retries and       *)
(* closes commits an output to two transactions that stand.                *)
THEOREM NoDoubleSpendHolds == Spec => []NoDoubleSpend
<1>1. IInv => NoDoubleSpend
  BY Zenon DEF IInv, OutputsFollowTransactions, OutputFollows, NoDoubleSpend
<1> QED
  BY <1>1, Invariance, PTL

(* Outputs and transactions agree.                                         *)
THEOREM OutputsFollow == Spec => []OutputsFollowTransactions
<1>1. IInv => OutputsFollowTransactions
  BY Zenon DEF IInv
<1> QED
  BY <1>1, Invariance, PTL

(* The signer group is never asked to sign a revoked transaction.          *)
THEOREM RevokedNeverSignedHolds == Spec => []RevokedNeverSigned
<1>1. IInv => RevokedNeverSigned
  BY Zenon DEF IInv, TypeOK, SignatureRow, SignaturesFollowTransactions, SignatureFollows, RevokedNeverSigned
<1> QED
  BY <1>1, Invariance, PTL

(* A transaction is done only with a signature for each of its inputs.     *)
THEOREM SignedWhenDoneHolds == Spec => []SignedWhenDone
<1>1. IInv => SignedWhenDone
  BY Zenon DEF IInv
<1> QED
  BY <1>1, Invariance, PTL

(* The row counts that the store checks are always right.                  *)
THEOREM StoreChecksNeverFail == Spec => []StoreChecksHold
<1>1. IInv => StoreChecksHold
  BY Zenon DEF IInv
<1> QED
  BY <1>1, Invariance, PTL

(* A closed safe has no unspent output.                                    *)
THEOREM ClosedSafeStaysEmpty == Spec => []ClosedSafeIsEmpty
<1>1. IInv => ClosedSafeIsEmpty
  BY Zenon DEF IInv, ClosedDrained, ClosedSafeIsEmpty, OutputsIn
<1> QED
  BY <1>1, Invariance, PTL

-----------------------------------------------------------------------------
(* A step changes only transactions that are not final and outputs that    *)
(* are not spent.                                                          *)
LEMMA FinalNext == IInv /\ [Next]_vars => KeepsFinal
<1> SUFFICES ASSUME IInv, [Next]_vars PROVE KeepsFinal
  BY Zenon
<1>0. outputs \in [Outputs -> OutputRow] /\ transactions \in [Txs -> TransactionRow]
  BY Zenon DEF IInv, TypeOK
<1>1. ASSUME UNCHANGED <<outputs, transactions>>
      PROVE  KeepsFinal
  BY Zenon, <1>1 DEF KeepsFinal
<1>2. ASSUME NEW t \in Txs, NEW row, NEW state, transactions[t].state = "none",
             WriteTransaction(t, row, ListAllBitcoinUTXOsForHolder, state)
      PROVE  KeepsFinal
  BY Zenon, <1>0, <1>2 DEF KeepsFinal, WriteTransaction, ListAllBitcoinUTXOsForHolder, OutputsIn
<1>3. ASSUME NEW r \in ReqIds, NEW t \in Txs, NEW new, Unfinished(t),
             WriteSignatureRequests(r, t, new), UNCHANGED outputs
      PROVE  KeepsFinal
  BY Zenon, <1>0, <1>3 DEF KeepsFinal, WriteSignatureRequests, Unfinished
<1>4. ASSUME NEW r \in ReqIds, NEW t \in Txs, RevokeTransaction(r, t)
      PROVE  KeepsFinal
  <2>1. CASE UNCHANGED <<outputs, transactions>>
    BY Zenon, <1>1, <2>1
  <2>2. CASE /\ ReleaseOutputs(t)
             /\ transactions' = [transactions EXCEPT ![t].state = "Failed"]
    <3>1. transactions[t].state = "Initial" /\ ~transactions[t].holder
      BY Zenon, <1>4 DEF RevokeTransaction, Revocable, IInv, HolderOnlyDone
    <3>2. \A o \in transactions[t].inputs : o \in Outputs /\ outputs[o].spent_by = t
      BY Zenon, <1>0, <3>1 DEF IInv, OutputsFollowTransactions, OutputFollows, Standing, TransactionRow
    <3>3. \A o \in transactions[t].inputs : outputs[o].state # "Done"
      BY Zenon, <3>1, <3>2 DEF IInv, OutputsFollowTransactions, OutputFollows
    <3> QED
      BY Zenon, <1>0, <2>2, <3>1, <3>3 DEF KeepsFinal, ReleaseOutputs
  <2> QED
    BY Zenon, <1>4, <2>1, <2>2 DEF RevokeTransaction, Panic
<1>5. ASSUME NEW s \in SignatureIds, FinishTransactionSignatures(s)
      PROVE  KeepsFinal
  <2> DEFINE t == signatures[s].tx
             spent == {o \in Outputs : outputs[o].spent_by = t}
  <2>1. t \in Txs /\ transactions[t].state = "Pending"
    BY Zenon, <1>5, SignedJob DEF FinishTransactionSignatures
  <2>2. CASE UNCHANGED <<outputs, transactions>>
    BY Zenon, <1>1, <2>2
  <2>3. CASE /\ transactions' = [transactions EXCEPT ![t].state = "Done"]
             /\ outputs' = [o \in Outputs |->
                              IF o \in spent THEN [outputs[o] EXCEPT !.state = "Done"]
                                             ELSE outputs[o]]
    <3>1. \A o \in spent : outputs[o].state # "Done"
      BY Zenon, <2>1 DEF IInv, OutputsFollowTransactions, OutputFollows
    <3> HIDE DEF spent, t
    <3> QED
      BY Zenon, <1>0, <2>1, <2>3, <3>1 DEF KeepsFinal
  <2> QED
    BY Zenon, <1>5, <2>2, <2>3 DEF FinishTransactionSignatures, PanicSignature
<1>6. CASE HolderStep
  <2>1. ASSUME NEW t \in Txs, NEW amount \in Amounts, NEW recovery \in BOOLEAN,
               NEW self \in BOOLEAN, ProposeTransaction(t, amount, recovery, self)
        PROVE  KeepsFinal
    BY Zenon, <1>2, <2>1 DEF ProposeTransaction
  <2> QED
    BY Zenon, <1>1, <1>6, <2>1 DEF HolderStep, FailProposal, RefundProposal
<1>7. CASE ObserverStep
  <2>1. ASSUME NEW o \in Outputs, CreateHolderDeposit(o)
        PROVE  KeepsFinal
    BY Zenon, <1>0, <2>1 DEF KeepsFinal, CreateHolderDeposit, WriteBitcoinOutput
  <2>2. ASSUME NEW r \in ReqIds, NEW t \in Txs, NEW new, ApproveTransaction(r, t, new)
        PROVE  KeepsFinal
    BY Zenon, <1>1, <1>3, <2>2 DEF ApproveTransaction, Panic
  <2>3. ASSUME NEW r \in ReqIds, NEW t \in Txs, CloseAccountWithSigner(r, t)
        PROVE  KeepsFinal
    BY Zenon, <1>1, <1>3, <2>3 DEF CloseAccountWithSigner, Panic
  <2>4. ASSUME NEW r \in ReqIds, NEW t \in Txs, NEW spends, CloseAccountWithHolder(r, t, spends)
        PROVE  KeepsFinal
    BY Zenon, <1>1, <1>2, <2>4 DEF CloseAccountWithHolder, Panic
  <2>5. ASSUME NEW r \in ReqIds, NEW t \in Txs,
               \/ FailObserverRequest(r)
               \/ CloseAccountTooEarly(r, t)
               \/ RepeatCloseWithHolder(r, t)
        PROVE  KeepsFinal
    BY Zenon, <1>1, <2>5 DEF FailObserverRequest, CloseAccountTooEarly, RepeatCloseWithHolder, Panic
  <2>6. ASSUME NEW r \in ReqIds, FailObserverRequest(r)
        PROVE  KeepsFinal
    BY Zenon, <1>1, <2>6 DEF FailObserverRequest
  <2> QED
    BY Zenon, <1>4, <1>7, <2>1, <2>2, <2>3, <2>4, <2>5, <2>6 DEF ObserverStep
<1>8. CASE SignerStep
  <2>1. ASSUME NEW s \in SignatureIds,
               \/ ReceiveSignature(s) \/ FailSignature(s) \/ FinishSignatureRequest(s)
               \/ Restart(s) \/ KeepSignature(s)
        PROVE  KeepsFinal
    BY Zenon, <1>1, <2>1 DEF ReceiveSignature, FailSignature, FinishSignatureRequest,
       PanicSignature, Restart, KeepSignature
  <2> QED
    BY Zenon, <1>5, <1>8, <2>1 DEF SignerStep, SignatureStep
<1>9. CASE ChainStep \/ UNCHANGED vars
  BY Zenon, <1>1, <1>9 DEF ChainStep, Broadcast, Tick, vars
<1> QED
  BY Zenon, <1>6, <1>7, <1>8, <1>9 DEF Next

(* Done and revoked transactions and spent outputs never change again.     *)
THEOREM FinalStatesHold == Spec => FinalStates
BY InvInit, InvNext, FinalNext, PTL DEF Spec, FinalStates

-----------------------------------------------------------------------------
Unspent == OutputsIn({"Initial", "Pending"})

(* There are finitely many outputs.                                        *)
LEMMA OutputsFinite == IsFiniteSet(Outputs) /\ \A S \in SUBSET Outputs : IsFiniteSet(S)
<1>1. IsFiniteSet({0, 1})
  <2>1. IsFiniteSet({0} \cup {1})
    BY Zenon, FS_Singleton, FS_AddElement
  <2>2. {0, 1} = {0} \cup {1}
    BY Zenon
  <2> QED
    BY Zenon, <2>1, <2>2
<1>2. IsFiniteSet(Txs \X {0, 1})
  BY Zenon, <1>1, FS_Product, ConstantAssumptions
<1>3. IsFiniteSet(Outputs)
  BY Zenon, <1>2, FS_Union, ConstantAssumptions DEF Outputs
<1> QED
  BY Zenon, <1>3, FS_Subset

(* So there are finitely many unspent ones.                                *)
LEMMA UnspentFinite == IsFiniteSet(Unspent)
BY Zenon, OutputsFinite DEF Unspent, OutputsIn

(* A step that makes no output unspent keeps the limit.                    *)
LEMMA NoMoreUnspent == ASSUME UnspentBounded, Unspent' \subseteq Unspent PROVE UnspentBounded'
<1>1. Cardinality(Unspent') \in Nat /\ Cardinality(Unspent) \in Nat
  BY Zenon, UnspentFinite, FS_Subset, FS_CardinalityType
<1>2. Cardinality(Unspent') <= Cardinality(Unspent)
  BY Zenon, UnspentFinite, FS_Subset
<1> QED
  BY <1>1, <1>2, ConstantAssumptions DEF UnspentBounded, Unspent

(* Only a deposit makes an output unspent, and it checks the limit; what a *)
(* revocation frees was pending and counted.                               *)
LEMMA UnspentNext == IInv /\ UnspentBounded /\ [Next]_vars => UnspentBounded'
<1> SUFFICES ASSUME IInv, UnspentBounded, [Next]_vars PROVE UnspentBounded'
  BY Zenon
<1>0. outputs \in [Outputs -> OutputRow] /\ transactions \in [Txs -> TransactionRow]
  BY Zenon DEF IInv, TypeOK
<1>1. ASSUME UNCHANGED outputs
      PROVE  UnspentBounded'
  BY Zenon, <1>1, NoMoreUnspent DEF Unspent, OutputsIn
<1>2. ASSUME NEW t \in Txs, NEW row, NEW state \in {"Pending", "Done"},
             WriteTransaction(t, row, ListAllBitcoinUTXOsForHolder, state)
      PROVE  UnspentBounded'
  <2>1. Unspent' \subseteq Unspent
    BY Zenon, <1>2 DEF Unspent, WriteTransaction, ListAllBitcoinUTXOsForHolder, OutputsIn
  <2> QED
    BY Zenon, <2>1, NoMoreUnspent
<1>3. ASSUME NEW o \in Outputs, CreateHolderDeposit(o)
      PROVE  UnspentBounded'
  <2>1. Unspent' = Unspent \cup {o}
    BY Zenon, <1>0, <1>3 DEF CreateHolderDeposit, WriteBitcoinOutput, Unspent, OutputsIn
  <2>2. Cardinality(Unspent) < MaxUnspentUtxo /\ o \notin Unspent
    BY Zenon, <1>3 DEF CreateHolderDeposit, ReadUnspentUtxoCountForSafe, Unspent, OutputsIn
  <2>3. Cardinality(Unspent') = Cardinality(Unspent) + 1 /\ Cardinality(Unspent) \in Nat
    BY Zenon, <2>1, <2>2, UnspentFinite, FS_AddElement, FS_CardinalityType
  <2> QED
    BY <2>2, <2>3, ConstantAssumptions DEF UnspentBounded, Unspent
<1>4. ASSUME NEW r \in ReqIds, NEW t \in Txs, RevokeTransaction(r, t)
      PROVE  UnspentBounded'
  <2>1. CASE UNCHANGED outputs
    BY Zenon, <1>1, <2>1
  <2>2. CASE ReleaseOutputs(t)
    <3>1. transactions[t].state = "Initial" /\ ~transactions[t].holder
      BY Zenon, <1>4 DEF RevokeTransaction, Revocable, IInv, HolderOnlyDone
    <3>2. \A o \in transactions[t].inputs : o \in Outputs /\ outputs[o].spent_by = t
      BY Zenon, <1>0, <3>1 DEF IInv, OutputsFollowTransactions, OutputFollows, Standing, TransactionRow
    <3>3. \A o \in transactions[t].inputs : outputs[o].state = "Pending"
      BY Zenon, <1>0, <3>1, <3>2, ConstantAssumptions
      DEF IInv, OutputsFollowTransactions, OutputFollows, OutputRow
    <3>4. Unspent' \subseteq Unspent
      BY Zenon, <2>2, <3>2, <3>3 DEF Unspent, ReleaseOutputs, OutputsIn
    <3> QED
      BY Zenon, <3>4, NoMoreUnspent
  <2> QED
    BY Zenon, <1>4, <2>1, <2>2 DEF RevokeTransaction, Panic
<1>5. ASSUME NEW s \in SignatureIds, FinishTransactionSignatures(s)
      PROVE  UnspentBounded'
  <2>1. CASE UNCHANGED outputs
    BY Zenon, <1>1, <2>1
  <2>2. CASE \E spent : outputs' = [o \in Outputs |->
                 IF o \in spent THEN [outputs[o] EXCEPT !.state = "Done"] ELSE outputs[o]]
    <3>1. \A o \in Outputs : outputs'[o] = outputs[o] \/ outputs'[o].state = "Done"
      BY Zenon, <1>0, <2>2 DEF OutputRow
    <3>2. Unspent' \subseteq Unspent
      BY Zenon, <3>1 DEF Unspent, OutputsIn
    <3> QED
      BY Zenon, <3>2, NoMoreUnspent
  <2> QED
    BY Zenon, <1>5, <2>1, <2>2 DEF FinishTransactionSignatures, PanicSignature
<1>6. CASE HolderStep
  <2>1. ASSUME NEW t \in Txs, NEW amount \in Amounts, NEW recovery \in BOOLEAN,
               NEW self \in BOOLEAN, ProposeTransaction(t, amount, recovery, self)
        PROVE  UnspentBounded'
    BY Zenon, <1>2, <2>1 DEF ProposeTransaction
  <2> QED
    BY Zenon, <1>1, <1>6, <2>1 DEF HolderStep, FailProposal, RefundProposal
<1>7. CASE ObserverStep
  <2>1. ASSUME NEW r \in ReqIds, NEW t \in Txs, NEW spends, CloseAccountWithHolder(r, t, spends)
        PROVE  UnspentBounded'
    BY Zenon, <1>1, <1>2, <2>1 DEF CloseAccountWithHolder, Panic
  <2>2. ASSUME NEW r \in ReqIds, NEW t \in Txs,
               \/ FailObserverRequest(r)
               \/ \E new \in SUBSET transactions[t].inputs : ApproveTransaction(r, t, new)
               \/ CloseAccountWithSigner(r, t)
               \/ CloseAccountTooEarly(r, t)
               \/ RepeatCloseWithHolder(r, t)
        PROVE  UnspentBounded'
    BY Zenon, <1>1, <2>2 DEF FailObserverRequest, ApproveTransaction, CloseAccountWithSigner,
       CloseAccountTooEarly, RepeatCloseWithHolder, Panic
  <2>3. ASSUME NEW r \in ReqIds, FailObserverRequest(r)
        PROVE  UnspentBounded'
    BY Zenon, <1>1, <2>3 DEF FailObserverRequest
  <2> QED
    BY Zenon, <1>3, <1>4, <1>7, <2>1, <2>2, <2>3 DEF ObserverStep
<1>8. CASE SignerStep
  <2>1. ASSUME NEW s \in SignatureIds,
               \/ ReceiveSignature(s) \/ FailSignature(s) \/ FinishSignatureRequest(s)
               \/ Restart(s) \/ KeepSignature(s)
        PROVE  UnspentBounded'
    BY Zenon, <1>1, <2>1 DEF ReceiveSignature, FailSignature, FinishSignatureRequest,
       PanicSignature, Restart, KeepSignature
  <2> QED
    BY Zenon, <1>5, <1>8, <2>1 DEF SignerStep, SignatureStep
<1>9. CASE ChainStep \/ UNCHANGED vars
  BY Zenon, <1>1, <1>9 DEF ChainStep, Broadcast, Tick, vars
<1> QED
  BY Zenon, <1>6, <1>7, <1>8, <1>9 DEF Next

(* Nothing is unspent at first.                                            *)
LEMMA UnspentInit == Init => UnspentBounded
<1> SUFFICES ASSUME Init PROVE UnspentBounded
  BY Zenon
<1>1. OutputsIn({"Initial", "Pending"}) = {}
  BY Zenon DEF Init, OutputsIn, NoOutput
<1> QED
  BY <1>1, FS_EmptySet, ConstantAssumptions DEF UnspentBounded

(* The unspent outputs never exceed the limit of one transaction, whatever *)
(* is revoked after later deposits were accepted.                          *)
THEOREM UnspentStaysBounded == Spec => []UnspentBounded
BY UnspentInit, UnspentNext, Invariance, PTL DEF Spec


-----------------------------------------------------------------------------
(* What a step does to the tables, in the terms that the rest of the       *)
(* proofs speak of.                                                        *)
KeepsRequests ==
    /\ clock' \in Nat /\ clock' >= clock
    /\ \A s \in SignatureIds : /\ signatures'[s].tx = signatures[s].tx
                               /\ signatures'[s].created_at = signatures[s].created_at

Idle == UNCHANGED <<safe, outputs, transactions, broadcast>> /\ held' <= held /\ KeepsRequests

Proposed(t, amount, recovery, self) ==
    ProposeTransaction(t, amount, recovery, self) /\ KeepsRequests

Deposited(o) == CreateHolderDeposit(o) /\ KeepsRequests

Revoked(t) ==
    /\ transactions[t].state = "Initial"
    /\ ReleaseOutputs(t)
    /\ transactions' = [transactions EXCEPT ![t].state = "Failed"]
    /\ held' = held + transactions[t].amount
    /\ UNCHANGED <<safe, broadcast>>
    /\ KeepsRequests

Asked(r, t, new) ==
    /\ Unfinished(t) /\ requests[r] = "none"
    /\ new \subseteq NewSignatureInputs(t)
    /\ WriteSignatureRequests(r, t, new)
    /\ UNCHANGED <<outputs, broadcast, clock, held>>
    /\ safe' \in {safe, "Closed"}

ClosedByHolder(t, spends) ==
    /\ transactions[t].state = "none"
    /\ WriteTransaction(t, [NoTransaction EXCEPT !.state = "Done", !.inputs = spends,
                                !.recovery = TRUE, !.holder = TRUE],
                        ListAllBitcoinUTXOsForHolder, "Done")
    /\ safe' = "Closed"
    /\ UNCHANGED broadcast
    /\ KeepsRequests

Finished(t) ==
    /\ transactions[t].state = "Pending"
    /\ transactions' = [transactions EXCEPT ![t].state = "Done"]
    /\ outputs' = [o \in Outputs |->
                     IF outputs[o].spent_by = t THEN [outputs[o] EXCEPT !.state = "Done"]
                                                ELSE outputs[o]]
    /\ UNCHANGED <<safe, broadcast, held>>
    /\ KeepsRequests

Sent(t) == Broadcast(t) /\ KeepsRequests

(* Every step is one of these.                                             *)
LEMMA StepShapes ==
    ASSUME IInv, [Next]_vars
    PROVE  \/ Idle
           \/ \E t \in Txs, amount \in Amounts : \E recovery, self \in BOOLEAN :
                  Proposed(t, amount, recovery, self)
           \/ \E o \in Outputs : Deposited(o)
           \/ \E t \in Txs : Revoked(t) \/ Finished(t) \/ Sent(t)
           \/ \E t \in Txs, r \in ReqIds : \E new : Asked(r, t, new)
           \/ \E t \in Txs : \E spends \in SUBSET Outputs : ClosedByHolder(t, spends)
<1> DEFINE Shape ==
           \/ Idle
           \/ \E t \in Txs, amount \in Amounts : \E recovery, self \in BOOLEAN :
                  Proposed(t, amount, recovery, self)
           \/ \E o \in Outputs : Deposited(o)
           \/ \E t \in Txs : Revoked(t) \/ Finished(t) \/ Sent(t)
           \/ \E t \in Txs, r \in ReqIds : \E new : Asked(r, t, new)
           \/ \E t \in Txs : \E spends \in SUBSET Outputs : ClosedByHolder(t, spends)
<1>0. TypeOK /\ clock \in Nat /\ held \in Nat /\ signatures \in [SignatureIds -> SignatureRow]
  BY Zenon DEF IInv, TypeOK
<1>1. ASSUME UNCHANGED <<signatures, clock>> PROVE KeepsRequests
  BY <1>0, <1>1 DEF KeepsRequests
<1>2. ASSUME UNCHANGED <<safe, outputs, transactions, broadcast, held, signatures, clock>> PROVE Idle
  BY <1>0, <1>1, <1>2 DEF Idle
<1>3. CASE HolderStep
  <2>1. ASSUME NEW t \in Txs, NEW amount \in Amounts, NEW recovery \in BOOLEAN,
               NEW self \in BOOLEAN, ProposeTransaction(t, amount, recovery, self)
        PROVE  Proposed(t, amount, recovery, self)
    BY Zenon, <1>1, <2>1 DEF Proposed, ProposeTransaction
  <2>2. ASSUME NEW t \in Txs, NEW amount \in Amounts, FailProposal(t, amount)
        PROVE  Idle
    <3>1. held' <= held
      BY <1>0, <2>2, ConstantAssumptions DEF FailProposal
    <3> QED
      BY Zenon, <1>1, <2>2, <3>1 DEF FailProposal, Idle
  <2>3. ASSUME NEW t \in Txs, NEW amount \in Amounts, RefundProposal(t, amount)
        PROVE  Idle
    BY Zenon, <1>2, <2>3 DEF RefundProposal, bonds
  <2> QED
    BY Zenon, <1>3, <2>1, <2>2, <2>3 DEF HolderStep
<1>4. CASE ObserverStep
  <2>1. ASSUME NEW o \in Outputs, CreateHolderDeposit(o) PROVE Deposited(o)
    BY Zenon, <1>1, <2>1 DEF CreateHolderDeposit, Deposited
  <2>2. ASSUME NEW r, NEW t \in Txs,
               FailObserverRequest(r) \/ CloseAccountTooEarly(r, t) \/ RepeatCloseWithHolder(r, t)
        PROVE  Idle
    BY Zenon, <1>2, <2>2 DEF FailObserverRequest, CloseAccountTooEarly, RepeatCloseWithHolder, Panic, bonds
  <2>3. ASSUME NEW r \in ReqIds, FailObserverRequest(r) PROVE Idle
    BY Zenon, <1>2, <2>3 DEF FailObserverRequest, bonds
  <2>4. ASSUME NEW r \in ReqIds, NEW t \in Txs, RevokeTransaction(r, t) PROVE Idle \/ Revoked(t)
    <3>1. CASE Panic(r, "revoke_outputs")
      BY Zenon, <1>2, <2>4, <3>1 DEF RevokeTransaction, Panic, bonds
    <3>2. CASE ~Panic(r, "revoke_outputs")
      BY Zenon, <1>1, <2>4, <3>2 DEF RevokeTransaction, Revocable, Revoked
    <3> QED
      BY Zenon, <3>1, <3>2
  <2>5. ASSUME NEW r \in ReqIds, NEW t \in Txs, NEW new, ApproveTransaction(r, t, new)
        PROVE  Idle \/ Asked(r, t, new)
    <3>1. CASE Unfinished(t)
      BY Zenon, <2>5, <3>1 DEF ApproveTransaction, Asked, Fresh, bonds
    <3>2. CASE ~Unfinished(t)
      BY Zenon, <1>2, <2>5, <3>2 DEF ApproveTransaction, Panic, bonds
    <3> QED
      BY Zenon, <3>1, <3>2
  <2>6. ASSUME NEW r \in ReqIds, NEW t \in Txs, CloseAccountWithSigner(r, t)
        PROVE  Idle \/ Asked(r, t, NewSignatureInputs(t))
    <3>1. CASE Unfinished(t)
      BY Zenon, <2>6, <3>1 DEF CloseAccountWithSigner, ClosingWithSigner, Asked, Fresh, bonds
    <3>2. CASE ~Unfinished(t)
      BY Zenon, <1>2, <2>6, <3>2 DEF CloseAccountWithSigner, Panic, bonds
    <3> QED
      BY Zenon, <3>1, <3>2
  <2>7. ASSUME NEW r \in ReqIds, NEW t \in Txs, NEW spends, CloseAccountWithHolder(r, t, spends)
        PROVE  Idle \/ ClosedByHolder(t, spends)
    <3>1. CASE safe = "Approved"
      BY Zenon, <1>1, <2>7, <3>1 DEF CloseAccountWithHolder, ClosedByHolder
    <3>2. CASE safe # "Approved"
      BY Zenon, <1>2, <2>7, <3>2 DEF CloseAccountWithHolder, Panic, bonds
    <3> QED
      BY Zenon, <3>1, <3>2
  <2>8. ChainUnspent \subseteq Outputs
    BY Zenon DEF ChainUnspent
  <2> QED
    BY Zenon, <1>4, <2>1, <2>2, <2>3, <2>4, <2>5, <2>6, <2>7, <2>8 DEF ObserverStep
<1>5. CASE SignerStep
  <2>1. PICK s \in SignatureIds : SignatureStep(s)
    BY Zenon, <1>5 DEF SignerStep
  <2>2. CASE ReceiveSignature(s) \/ FailSignature(s) \/ KeepSignature(s)
    <3>1. PICK x : signatures' = [signatures EXCEPT ![s].request = x]
      BY Zenon, <2>2 DEF ReceiveSignature, FailSignature, KeepSignature
    <3>2. UNCHANGED <<safe, outputs, transactions, broadcast, held, clock>>
      BY Zenon, <2>2 DEF ReceiveSignature, FailSignature, KeepSignature, bonds
    <3>3. KeepsRequests
      BY SMTT(30), <1>0, <3>1, <3>2 DEF KeepsRequests, SignatureRow
    <3> QED
      BY <1>0, <3>2, <3>3 DEF Idle
  <2>3. CASE FinishSignatureRequest(s)
    <3>1. \/ signatures' = signatures
          \/ signatures' = [signatures EXCEPT ![s] = [@ EXCEPT !.state = "Pending", !.signed = TRUE]]
      BY Zenon, <2>3 DEF FinishSignatureRequest, PanicSignature
    <3>2. UNCHANGED <<safe, outputs, transactions, broadcast, held, clock>>
      BY Zenon, <2>3 DEF FinishSignatureRequest, PanicSignature, bonds
    <3>3. \A q \in SignatureIds : /\ signatures'[q].tx = signatures[q].tx
                                  /\ signatures'[q].created_at = signatures[q].created_at
      <4>1. ASSUME NEW q \in SignatureIds
            PROVE  \/ signatures'[q] = signatures[q]
                   \/ signatures'[q] = [signatures[q] EXCEPT !.state = "Pending", !.signed = TRUE]
        BY Zenon, <1>0, <3>1
      <4>2. ASSUME NEW row \in SignatureRow
            PROVE  LET new == [row EXCEPT !.state = "Pending", !.signed = TRUE]
                   IN  new.tx = row.tx /\ new.created_at = row.created_at
        BY Zenon DEF SignatureRow
      <4> QED
        BY Zenon, <1>0, <4>1, <4>2
    <3> QED
      BY <1>0, <3>2, <3>3 DEF Idle, KeepsRequests
  <2>4. CASE Restart(s)
    BY Zenon, <1>2, <2>4 DEF Restart, bonds
  <2>5. CASE FinishTransactionSignatures(s)
    <3> DEFINE t == signatures[s].tx
               spent == {o \in Outputs : outputs[o].spent_by = t}
    <3>1. t \in Txs /\ transactions[t].state = "Pending"
      BY Zenon, <2>5, SignedJob DEF FinishTransactionSignatures
    <3>2. CASE PanicSignature("finish_outputs")
      BY Zenon, <1>2, <2>5, <3>2 DEF FinishTransactionSignatures, PanicSignature, bonds
    <3>3. CASE ~PanicSignature("finish_outputs")
      <4>1. /\ signatures' = [q \in SignatureIds |->
                 [signatures[q] EXCEPT
                    !.state = IF signatures[q].tx = t THEN "Done" ELSE @,
                    !.request = IF q = s THEN "Done" ELSE @]]
            /\ transactions' = [transactions EXCEPT ![t].state = "Done"]
            /\ outputs' = [o \in Outputs |->
                             IF o \in spent THEN [outputs[o] EXCEPT !.state = "Done"]
                                            ELSE outputs[o]]
            /\ UNCHANGED <<safe, broadcast, held, clock>>
        BY Zenon, <2>5, <3>3 DEF FinishTransactionSignatures, bonds
      <4>2. outputs' = [o \in Outputs |->
                     IF outputs[o].spent_by = t THEN [outputs[o] EXCEPT !.state = "Done"]
                                                ELSE outputs[o]]
        BY Zenon, <4>1
      <4> HIDE DEF t, spent
      <4>3. ASSUME NEW q \in SignatureIds
            PROVE  /\ signatures'[q].tx = signatures[q].tx
                   /\ signatures'[q].created_at = signatures[q].created_at
        <5> DEFINE x == IF signatures[q].tx = t THEN "Done" ELSE signatures[q].state
                   y == IF q = s THEN "Done" ELSE signatures[q].request
        <5>1. signatures'[q] = [signatures[q] EXCEPT !.state = x, !.request = y]
          BY Zenon, <4>1
        <5> HIDE DEF x, y
        <5> QED
          BY <1>0, <5>1 DEF SignatureRow
      <4>4. KeepsRequests
        <5>1. clock' = clock
          BY Zenon, <4>1
        <5> QED
          BY <1>0, <4>3, <5>1 DEF KeepsRequests
      <4>5. Finished(t)
        BY Zenon, <3>1, <4>1, <4>2, <4>4 DEF Finished
      <4> QED
        BY Zenon, <3>1, <4>5
    <3> QED
      BY Zenon, <3>2, <3>3
  <2> QED
    BY Zenon, <2>1, <2>2, <2>3, <2>4, <2>5 DEF SignatureStep
<1>6. CASE ChainStep
  <2>1. ASSUME NEW t \in Txs, Broadcast(t) PROVE Sent(t)
    BY Zenon, <1>1, <2>1 DEF Broadcast, Sent
  <2>2. CASE Tick
    <3>1. KeepsRequests
      BY <1>0, <2>2 DEF Tick, KeepsRequests
    <3> QED
      BY <1>0, <2>2, <3>1 DEF Tick, Idle, bonds
  <2> QED
    BY Zenon, <1>6, <2>1, <2>2 DEF ChainStep
<1>7. CASE UNCHANGED vars
  BY Zenon, <1>2, <1>7 DEF vars
<1> QED
  BY Zenon, <1>3, <1>4, <1>5, <1>6, <1>7 DEF Next

(* A row is written once, by a deposit; its value never changes, and no    *)
(* step deletes it.                                                        *)
LEMMA OutputRows ==
    ASSUME IInv, [Next]_vars, NEW o \in Outputs
    PROVE  \/ /\ outputs'[o].state = "none" <=> outputs[o].state = "none"
              /\ outputs'[o].satoshi = outputs[o].satoshi
           \/ Deposited(o)
<1> DEFINE Kept == /\ outputs'[o].state = "none" <=> outputs[o].state = "none"
                   /\ outputs'[o].satoshi = outputs[o].satoshi
<1>0. outputs \in [Outputs -> OutputRow] /\ outputs[o] \in OutputRow
  BY Zenon DEF IInv, TypeOK
<1>1. ASSUME NEW x \in {"Initial", "Pending", "Done"}, NEW y, outputs[o].state # "none",
             outputs'[o] = [outputs[o] EXCEPT !.state = x, !.spent_by = y]
      PROVE  Kept
  BY Zenon, <1>0, <1>1 DEF OutputRow
<1>2. ASSUME outputs'[o] = outputs[o] PROVE Kept
  BY ZenonT(40), <1>2
<1>3. ASSUME NEW t, NEW row, NEW state \in {"Pending", "Done"},
             WriteTransaction(t, row, ListAllBitcoinUTXOsForHolder, state)
      PROVE  Kept
  <2>1. outputs[o].state = "Initial" =>
          outputs'[o] = [outputs[o] EXCEPT !.state = state, !.spent_by = t]
    BY Zenon, <1>3 DEF WriteTransaction, ListAllBitcoinUTXOsForHolder, OutputsIn
  <2>2. outputs[o].state # "Initial" => outputs'[o] = outputs[o]
    BY ZenonT(40), <1>3 DEF WriteTransaction, ListAllBitcoinUTXOsForHolder, OutputsIn
  <2> HIDE DEF Kept
  <2> QED
    BY Zenon, <1>1, <1>2, <2>1, <2>2
<1>4. ASSUME NEW t \in Txs, Revoked(t) PROVE Kept
  <2>1. outputs'[o] = outputs[o] \/ outputs'[o] = [outputs[o] EXCEPT !.state = "Initial", !.spent_by = NoTx]
    BY Zenon, <1>4 DEF Revoked, ReleaseOutputs
  <2>2. o \in transactions[t].inputs => outputs[o].state # "none"
    BY Zenon, <1>4, ConstantAssumptions
    DEF Revoked, IInv, HolderOnlyDone, OutputsFollowTransactions, OutputFollows, Standing
  <2>3. o \notin transactions[t].inputs => outputs'[o] = outputs[o]
    BY Zenon, <1>4 DEF Revoked, ReleaseOutputs
  <2> HIDE DEF Kept
  <2> QED
    BY Zenon, <1>1, <1>2, <2>1, <2>2, <2>3
<1>5. ASSUME NEW t \in Txs, Finished(t) PROVE Kept
  <2>1. outputs[o].spent_by # t => outputs'[o] = outputs[o]
    BY Zenon, <1>5 DEF Finished
  <2>2. outputs[o].spent_by = t => /\ outputs'[o] = [outputs[o] EXCEPT !.state = "Done"]
                                   /\ outputs[o].state # "none"
    BY Zenon, <1>5, ConstantAssumptions
    DEF Finished, IInv, OutputsFollowTransactions, OutputFollows
  <2> QED
    BY Zenon, <1>0, <2>1, <2>2 DEF OutputRow
<1>6. ASSUME NEW p \in Outputs, Deposited(p), p # o PROVE Kept
  BY Zenon, <1>0, <1>6 DEF Deposited, CreateHolderDeposit, WriteBitcoinOutput
<1>7. ASSUME Idle \/ \E t \in Txs : \E r, new : Asked(r, t, new) \/ Sent(t)
      PROVE  Kept
  BY Zenon, <1>7 DEF Idle, Asked, Sent, Broadcast
<1>8. ASSUME NEW t \in Txs, \/ \E amount, recovery, self : Proposed(t, amount, recovery, self)
                           \/ \E spends : ClosedByHolder(t, spends)
      PROVE  Kept
  <2> HIDE DEF Kept
  <2> QED
    BY Zenon, <1>3, <1>8 DEF Proposed, ProposeTransaction, ClosedByHolder
<1> HIDE DEF Kept
<1>9. Kept \/ Deposited(o)
  BY Zenon, StepShapes, <1>4, <1>5, <1>6, <1>7, <1>8
<1> QED
  BY Zenon, <1>9 DEF Kept

(* What is on the chain is signed, and what the keeper counts as an output *)
(* of the safe is on the chain.                                            *)
BroadcastDone == \A t \in broadcast : transactions[t].state = "Done"
RowsOnChain == \A o \in Outputs : outputs[o].state # "none" => OnChain(o)
ChainInv == BroadcastDone /\ RowsOnChain

(* Nothing is broadcast and nothing recorded at first.                     *)
LEMMA ChainInit == Init => ChainInv
BY DEF Init, ChainInv, BroadcastDone, RowsOnChain, NoOutput

(* Every step keeps what the keeper records on the chain.                  *)
LEMMA ChainNext == IInv /\ ChainInv /\ [Next]_vars => ChainInv'
<1> SUFFICES ASSUME IInv, ChainInv, [Next]_vars PROVE ChainInv'
  BY Zenon
<1>1. KeepsFinal
  BY Zenon, FinalNext
<1>2. broadcast' = broadcast \/ \E t \in Txs : /\ broadcast' = broadcast \cup {t}
                                               /\ transactions[t].state = "Done"
  BY Zenon, StepShapes DEF Idle, Proposed, ProposeTransaction, Deposited, CreateHolderDeposit,
     Revoked, Asked, ClosedByHolder, Finished, Sent, Broadcast
<1>3. broadcast \subseteq Txs
  BY Zenon DEF IInv, TypeOK
<1>4. BroadcastDone' /\ \A t \in broadcast : t \in broadcast' /\ transactions'[t] = transactions[t]
  BY Zenon, <1>1, <1>2, <1>3 DEF ChainInv, BroadcastDone, KeepsFinal
<1>5. ASSUME NEW o \in Outputs, OnChain(o) PROVE OnChain(o)'
  BY Zenon, <1>4, <1>5 DEF OnChain
<1>6. ASSUME NEW o \in Outputs, outputs'[o].state # "none" PROVE OnChain(o)
  <2>1. CASE outputs[o].state # "none"
    BY Zenon, <2>1 DEF ChainInv, RowsOnChain
  <2>2. CASE Deposited(o)
    BY Zenon, <2>2 DEF Deposited, CreateHolderDeposit
  <2> QED
    BY Zenon, <1>6, <2>1, <2>2, OutputRows
<1> QED
  BY Zenon, <1>4, <1>5, <1>6 DEF ChainInv, RowsOnChain

(* The transactions on the chain are done, and the outputs the keeper      *)
(* records are outputs that the chain has.                                 *)
THEOREM ChainInvariance == Spec => []ChainInv
BY ChainInit, ChainNext, Invariance, PTL DEF Spec

(* What the signer group signed can reach the chain.                       *)
THEOREM SignedReachesChain == Spec => []SignedCanBeBroadcast
<1>1. IInv /\ ChainInv => SignedCanBeBroadcast
  <2> SUFFICES ASSUME IInv, ChainInv, \A t \in Txs : ~transactions[t].holder,
                      NEW t \in Txs \ broadcast, transactions[t].state = "Done",
                      NEW o \in transactions[t].inputs
               PROVE  o \in ChainUnspent
    BY Zenon DEF SignedCanBeBroadcast
  <2>1. Standing(t) /\ o \in Outputs /\ outputs[o].spent_by = t
    BY Zenon DEF IInv, TypeOK, TransactionRow, Standing, OutputsFollowTransactions
  <2>2. OnChain(o)
    BY Zenon, <2>1, ConstantAssumptions
    DEF IInv, OutputsFollowTransactions, OutputFollows, ChainInv, RowsOnChain
  <2>3. ASSUME NEW u \in broadcast, o \in transactions[u].inputs PROVE FALSE
    <3>1. u \in Txs /\ transactions[u].state = "Done"
      BY Zenon DEF IInv, TypeOK, ChainInv, BroadcastDone
    <3>2. outputs[o].spent_by = u
      BY Zenon, <2>3, <3>1 DEF IInv, OutputsFollowTransactions, Standing
    <3> QED
      BY Zenon, <2>1, <3>2
  <2> QED
    BY Zenon, <2>1, <2>2, <2>3 DEF ChainUnspent
<1> QED
  BY <1>1, Invariance, ChainInvariance, PTL


-----------------------------------------------------------------------------
(* Among values up to a bound there is a greatest one.                     *)
LEMMA GreatestExists ==
    ASSUME NEW S, S # {}, NEW f, NEW c \in Nat, \A x \in S : f[x] \in Nat /\ f[x] <= c
    PROVE  \E x \in S : \A y \in S : f[x] >= f[y]
<1> DEFINE T == {c - f[x] : x \in S}
           R == OpToRel(<, Nat)
<1>1. T \subseteq Nat /\ T # {}
  OBVIOUS
<1>2. \A m, n \in Nat : m < n => <<m, n>> \in R
  BY Zenon DEF OpToRel
<1> HIDE DEF T, R
<1>3. PICK m \in T : \A n \in T : ~(<<n, m>> \in R)
  BY Zenon, <1>1, NatLessThanWellFounded, WFMin DEF R
<1>4. PICK x \in S : m = c - f[x]
  BY Zenon DEF T
<1>5. ASSUME NEW y \in S PROVE f[x] >= f[y]
  <2>1. c - f[y] \in T
    BY Zenon DEF T
  <2>2. ~(c - f[y] < m)
    BY Zenon, <1>1, <1>2, <1>3, <2>1
  <2> QED
    BY <1>4, <2>2
<1> QED
  BY Zenon, <1>5

(* No request is dated after the clock.                                    *)
AskedBefore == \A s \in SignatureIds : signatures[s].created_at <= clock

(* When no request is pending for an input, all of them have timed out:    *)
(* the one read first is the last one, and none is answered.               *)
LEMMA AllTimedOut ==
    ASSUME IInv, AskedBefore, NEW t \in Txs, NEW o \in Outputs, NEW r \in RowsOf(t, o),
           ~checkTransactionIndexSignaturePending(t, o)
    PROVE  signatures[<<r, o>>].created_at + SafeSignatureTimeout <= clock
<1> DEFINE row(q) == signatures[<<q, o>>]
           In(state) == {q \in RowsOf(t, o) : row(q).state = state}
<1>0. clock \in Nat /\ SafeSignatureTimeout \in Nat
  BY Zenon, ConstantAssumptions DEF IInv, TypeOK
<1>1. ASSUME NEW q \in RowsOf(t, o)
      PROVE  /\ row(q).created_at \in Nat /\ row(q).created_at <= clock
             /\ row(q).state \in {"Initial", "Pending", "Done"}
  <2>1. <<q, o>> \in SignatureIds /\ row(q).tx = t
    BY Zenon DEF RowsOf, SignatureIds
  <2>2. row(q) \in SignatureRow /\ row(q).state # "none"
    BY Zenon, <2>1, ConstantAssumptions DEF IInv, TypeOK, SignaturesFollowTransactions, SignatureFollows
  <2> QED
    BY Zenon, <2>1, <2>2 DEF AskedBefore, SignatureRow
<1>2. ASSUME NEW state, In(state) # {}
      PROVE  \E q \in In(state) : \A p \in In(state) : row(q).created_at >= row(p).created_at
  <2> DEFINE f == [q \in RowsOf(t, o) |-> row(q).created_at]
  <2>1. \A q \in In(state) : f[q] \in Nat /\ f[q] <= clock
    BY Zenon, <1>1
  <2>2. \E q \in In(state) : \A p \in In(state) : f[q] >= f[p]
    <3> HIDE DEF f, In
    <3> QED
      BY Zenon, <1>0, <1>2, <2>1, GreatestExists
  <2> QED
    BY Zenon, <2>2
<1> HIDE DEF row
<1>3. ASSUME NEW q \in RowsOf(t, o), \A p \in RowsOf(t, o) : ReadsBefore(row(q), row(p))
      PROVE  row(q).state = "Initial" /\ ~(row(q).created_at + SafeSignatureTimeout > clock)
  BY Zenon, <1>3 DEF checkTransactionIndexSignaturePending, row
<1>4. In("Done") = {}
  <2> SUFFICES ASSUME In("Done") # {} PROVE FALSE
    BY Zenon
  <2>1. PICK q \in In("Done") : \A p \in In("Done") : row(q).created_at >= row(p).created_at
    BY Zenon, <1>2
  <2>2. \A p \in RowsOf(t, o) : ReadsBefore(row(q), row(p))
    BY <1>1, <2>1 DEF ReadsBefore, StateOrder
  <2> QED
    BY Zenon, <1>3, <2>1, <2>2
<1>5. In("Pending") = {}
  <2> SUFFICES ASSUME In("Pending") # {} PROVE FALSE
    BY Zenon
  <2>1. PICK q \in In("Pending") : \A p \in In("Pending") : row(q).created_at >= row(p).created_at
    BY Zenon, <1>2
  <2>2. \A p \in RowsOf(t, o) : row(p).state \in {"Initial", "Pending"}
    BY Zenon, <1>1, <1>4
  <2>3. \A p \in RowsOf(t, o) : ReadsBefore(row(q), row(p))
    BY <2>1, <2>2 DEF ReadsBefore, StateOrder
  <2> QED
    BY Zenon, <1>3, <2>1, <2>3
<1>6. \A p \in RowsOf(t, o) : row(p).state = "Initial"
  BY Zenon, <1>1, <1>4, <1>5
<1>7. PICK q \in In("Initial") : \A p \in In("Initial") : row(q).created_at >= row(p).created_at
  BY Zenon, <1>2, <1>6
<1>8. ~(row(q).created_at + SafeSignatureTimeout > clock)
  BY Zenon, <1>3, <1>6, <1>7 DEF ReadsBefore
<1>9. row(r).created_at + SafeSignatureTimeout <= clock
  BY <1>0, <1>1, <1>6, <1>7, <1>8
<1> QED
  BY Zenon, <1>9 DEF row

RequestInv == AskedBefore /\ RequestsSpacedOut

(* Every step keeps the requests of an input a timeout apart.              *)
LEMMA RequestNext == IInv /\ RequestInv /\ [Next]_vars => RequestInv'
<1> SUFFICES ASSUME IInv, RequestInv, [Next]_vars PROVE RequestInv'
  BY Zenon
<1>0. TypeOK /\ TypeOK'
  BY ZenonT(40), TypeNext DEF IInv
<1> DEFINE Row(q, o) == signatures[<<q, o>>]
           Apart(a, b) == a >= b + SafeSignatureTimeout \/ b >= a + SafeSignatureTimeout
<1>1. ASSUME NEW t \in Txs, NEW o \in Outputs, NEW q \in RowsOf(t, o)
      PROVE  /\ <<q, o>> \in SignatureIds /\ o \in transactions[t].inputs
             /\ transactions[t].state \in {"Pending", "Done"}
  <2>1. <<q, o>> \in SignatureIds /\ signatures[<<q, o>>].tx = t
    BY Zenon DEF RowsOf, SignatureIds
  <2>2. signatures[<<q, o>>].state \in {"Initial", "Pending", "Done"}
    BY Zenon, <2>1, ConstantAssumptions
    DEF IInv, TypeOK, SignatureRow, SignaturesFollowTransactions, SignatureFollows
  <2> QED
    BY Zenon, <2>1, <2>2 DEF IInv, SignaturesFollowTransactions, SignatureFollows
<1>2. ASSUME NEW t \in Txs, NEW o \in Outputs, NEW q \in RowsOf(t, o), NEW r \in RowsOf(t, o), q # r
      PROVE  Apart(Row(q, o).created_at, Row(r, o).created_at)
  BY Zenon, <1>1, <1>2 DEF RequestInv, RequestsSpacedOut
<1>3. ASSUME KeepsRequests PROVE RequestInv'
  <2>1. AskedBefore'
    BY <1>0, <1>3 DEF RequestInv, AskedBefore, KeepsRequests, TypeOK, SignatureRow
  <2>2. ASSUME NEW t \in Txs, NEW o \in transactions'[t].inputs,
               NEW q \in RowsOf(t, o)', NEW r \in RowsOf(t, o)', q # r
        PROVE  Apart(signatures'[<<q, o>>].created_at, signatures'[<<r, o>>].created_at)
    <3>1. o \in Outputs /\ <<q, o>> \in SignatureIds /\ <<r, o>> \in SignatureIds
      BY Zenon, <1>0 DEF TypeOK, TransactionRow, RowsOf, SignatureIds
    <3>2. q \in RowsOf(t, o) /\ r \in RowsOf(t, o)
      BY Zenon, <1>3, <3>1 DEF KeepsRequests, RowsOf
    <3> HIDE DEF Apart
    <3>3. Apart(signatures[<<q, o>>].created_at, signatures[<<r, o>>].created_at)
      BY Zenon, <1>2, <2>2, <3>1, <3>2
    <3>4. /\ signatures'[<<q, o>>].created_at = signatures[<<q, o>>].created_at
          /\ signatures'[<<r, o>>].created_at = signatures[<<r, o>>].created_at
      BY Zenon, <1>3, <3>1 DEF KeepsRequests
    <3> QED
      BY Zenon, <3>3, <3>4
  <2> QED
    BY Zenon, <2>1, <2>2 DEF RequestInv, RequestsSpacedOut
<1>4. ASSUME NEW r \in ReqIds, NEW t \in Txs, NEW new, Asked(r, t, new) PROVE RequestInv'
  <2>1. ASSUME NEW s \in SignatureIds
        PROVE  \/ /\ s[1] = r /\ s[2] \in new
                  /\ signatures'[s].tx = t /\ signatures'[s].created_at = clock
               \/ signatures'[s] = signatures[s]
    BY Zenon, <1>4 DEF Asked, WriteSignatureRequests
  <2>2. clock' = clock /\ clock \in Nat
    BY Zenon, <1>0, <1>4 DEF Asked, TypeOK
  <2>3. AskedBefore'
    BY <2>1, <2>2 DEF RequestInv, AskedBefore
  <2>4. ASSUME NEW u \in Txs, NEW o \in Outputs, NEW q \in RowsOf(u, o)'
        PROVE  \/ q \in RowsOf(u, o) /\ signatures'[<<q, o>>] = signatures[<<q, o>>]
               \/ /\ q = r /\ u = t /\ o \in new
                  /\ signatures'[<<q, o>>].created_at = clock
    <3>1. <<q, o>> \in SignatureIds /\ signatures'[<<q, o>>].tx = u /\ q \in ReqIds
      BY Zenon DEF RowsOf, SignatureIds
    <3>2. <<q, o>>[1] = q /\ <<q, o>>[2] = o
      BY Zenon
    <3> QED
      BY Zenon, <2>1, <3>1, <3>2 DEF RowsOf
  <2>5. ASSUME NEW o \in new, NEW q \in RowsOf(t, o)
        PROVE  o \in Outputs /\ signatures[<<q, o>>].created_at + SafeSignatureTimeout <= clock
    <3>1. o \in NewSignatureInputs(t)
      BY Zenon, <1>4 DEF Asked
    <3>2. o \in Outputs /\ ~checkTransactionIndexSignaturePending(t, o)
      BY ZenonT(40), <1>0, <3>1 DEF NewSignatureInputs, TypeOK, TransactionRow
    <3> QED
      BY Zenon, <3>2, AllTimedOut DEF RequestInv
  <2>6. ASSUME NEW u \in Txs, NEW o \in transactions'[u].inputs,
               NEW p \in RowsOf(u, o)', NEW q \in RowsOf(u, o)', p # q
        PROVE  Apart(signatures'[<<p, o>>].created_at, signatures'[<<q, o>>].created_at)
    <3>1. o \in Outputs
      BY ZenonT(40), <1>0 DEF TypeOK, TransactionRow
    <3> HIDE DEF Apart
    <3>2. CASE /\ p \in RowsOf(u, o) /\ signatures'[<<p, o>>] = signatures[<<p, o>>]
               /\ q \in RowsOf(u, o) /\ signatures'[<<q, o>>] = signatures[<<q, o>>]
      BY Zenon, <1>2, <2>6, <3>1, <3>2
    <3>3. ASSUME NEW x \in RowsOf(u, o)', NEW y \in RowsOf(u, o),
                 o \in new, u = t, signatures'[<<x, o>>].created_at = clock,
                 signatures'[<<y, o>>] = signatures[<<y, o>>]
          PROVE  signatures'[<<x, o>>].created_at >= signatures'[<<y, o>>].created_at + SafeSignatureTimeout
      <4>1. signatures[<<y, o>>].created_at + SafeSignatureTimeout <= clock
        BY Zenon, <2>5, <3>3
      <4>2. signatures[<<y, o>>].created_at \in Nat /\ SafeSignatureTimeout \in Nat
        BY Zenon, <1>0, <1>1, <3>1, <3>3, ConstantAssumptions DEF TypeOK, SignatureRow
      <4> QED
        BY Zenon, <2>2, <3>3, <4>1, <4>2
    <3> QED
      BY Zenon, <2>4, <2>6, <3>1, <3>2, <3>3 DEF Apart
  <2> QED
    BY Zenon, <2>3, <2>6 DEF RequestInv, RequestsSpacedOut
<1>5. KeepsRequests \/ \E t \in Txs, r \in ReqIds : \E new : Asked(r, t, new)
  BY Zenon, StepShapes DEF Idle, Proposed, Deposited, Revoked, Finished, Sent, ClosedByHolder
<1> QED
  BY Zenon, <1>3, <1>4, <1>5

(* There is no request at first.                                           *)
LEMMA RequestInit == Init => RequestInv
<1> SUFFICES ASSUME Init PROVE RequestInv
  BY Zenon
<1>1. AskedBefore
  BY DEF Init, AskedBefore, NoSignature
<1>2. RequestsSpacedOut
  BY Zenon DEF Init, RequestsSpacedOut, NoTransaction
<1> QED
  BY Zenon, <1>1, <1>2 DEF RequestInv

(* Two requests for the signature of one input are a timeout apart,        *)
(* whatever approvals, late answers and restarts come between.             *)
THEOREM RequestsStaySpacedOut == Spec => []RequestsSpacedOut
<1>1. RequestInv => RequestsSpacedOut
  BY Zenon DEF RequestInv
<1> QED
  BY <1>1, RequestInit, RequestNext, Invariance, PTL DEF Spec


-----------------------------------------------------------------------------
(* What a proposal leaves over is its change.                              *)
Balanced ==
    \A t \in Txs : Unfinished(t) =>
        SumSatoshi(transactions[t].inputs) = transactions[t].amount + transactions[t].change

Value == [o \in Outputs |-> outputs[o].satoshi]
ChangeUnfinished == [t \in Txs |-> IF Unfinished(t) THEN transactions[t].change ELSE 0]
ChangeUndeposited ==
    [t \in Txs |-> IF transactions[t].state = "Done" /\ outputs[<<t, 1>>].state = "none"
                   THEN transactions[t].change ELSE 0]

(* What is free, what is on its way in change, and the sum they make.      *)
FreeSatoshi == SumFunctionOnSet(Value, OutputsIn({"Initial"}))
UnfinishedSatoshi == SumFunctionOnSet(ChangeUnfinished, Txs)
UndepositedSatoshi == SumFunctionOnSet(ChangeUndeposited, Txs)

SumsOK ==
    /\ Value \in [Outputs -> Nat]
    /\ ChangeUnfinished \in [Txs -> Nat]
    /\ ChangeUndeposited \in [Txs -> Nat]
    /\ \A S \in SUBSET Outputs : SumSatoshi(S) = SumFunctionOnSet(Value, S) /\ SumSatoshi(S) \in Int
    /\ FreeSatoshi \in Int /\ UnfinishedSatoshi \in Int /\ UndepositedSatoshi \in Int
    /\ FullyBacked <=> (safe = "Approved" =>
                          held <= FreeSatoshi + UnfinishedSatoshi + UndepositedSatoshi)

(* The sums of FullyBacked are sums of naturals over finite sets.          *)
LEMMA SumTypes == TypeOK => SumsOK
<1> SUFFICES ASSUME TypeOK PROVE SumsOK
  BY Zenon
<1>1. Value \in [Outputs -> Nat]
  BY Zenon DEF TypeOK, OutputRow, Value
<1>2. \A t \in Txs : transactions[t].change \in Nat
  BY Zenon DEF TypeOK, TransactionRow
<1>3. ChangeUnfinished \in [Txs -> Nat] /\ ChangeUndeposited \in [Txs -> Nat]
  BY Zenon, <1>2 DEF ChangeUnfinished, ChangeUndeposited
<1>4. ASSUME NEW S \in SUBSET Outputs
      PROVE  SumSatoshi(S) = SumFunctionOnSet(Value, S) /\ SumSatoshi(S) \in Int
  <2>1. SumSatoshi(S) = SumFunctionOnSet(Value, S)
    BY Zenon DEF SumSatoshi, Value
  <2>2. \A o \in S : Value[o] \in Int
    BY <1>1
  <2> QED
    BY Zenon, <2>1, <2>2, SumInt, OutputsFinite
<1>5. UnfinishedChange = UnfinishedSatoshi /\ UndepositedChange = UndepositedSatoshi
  <2>1. DOMAIN ChangeUnfinished = Txs /\ DOMAIN ChangeUndeposited = Txs
    BY Zenon DEF ChangeUnfinished, ChangeUndeposited
  <2>2. /\ UnfinishedChange = SumFunction(ChangeUnfinished)
        /\ UndepositedChange = SumFunction(ChangeUndeposited)
    BY Zenon DEF UnfinishedChange, UndepositedChange, ChangeUnfinished, ChangeUndeposited
  <2> QED
    BY Zenon, <2>1, <2>2 DEF SumFunction, UnfinishedSatoshi, UndepositedSatoshi
<1>6. (\A t \in Txs : ChangeUnfinished[t] \in Int) /\ (\A t \in Txs : ChangeUndeposited[t] \in Int)
  BY <1>3
<1>7. UnfinishedSatoshi \in Int /\ UndepositedSatoshi \in Int
  BY Zenon, <1>6, SumInt, ConstantAssumptions DEF UnfinishedSatoshi, UndepositedSatoshi
<1>8. OutputsIn({"Initial"}) \in SUBSET Outputs
  BY Zenon DEF OutputsIn
<1>9. FreeSatoshi = SumSatoshi(OutputsIn({"Initial"})) /\ FreeSatoshi \in Int
  BY Zenon, <1>4, <1>8 DEF FreeSatoshi
<1> QED
  BY Zenon, <1>1, <1>3, <1>4, <1>5, <1>7, <1>9 DEF SumsOK, FullyBacked

(* Outputs that are recorded keep their value.                             *)
LEMMA RecordedKeepValue ==
    ASSUME IInv, [Next]_vars, NEW S \in SUBSET Outputs, \A o \in S : outputs[o].state # "none"
    PROVE  SumFunctionOnSet(Value', S) = SumFunctionOnSet(Value, S)
<1>1. ASSUME NEW o \in S PROVE Value'[o] = Value[o]
  BY Zenon, OutputRows DEF Value, Deposited, CreateHolderDeposit
<1> QED
  BY Zenon, <1>1, SumSame, OutputsFinite

(* A proposal's rows in the next state.                                    *)
LEMMA ProposedRows ==
    ASSUME IInv, NEW t \in Txs, NEW amount \in Amounts, NEW recovery \in BOOLEAN,
           NEW self \in BOOLEAN, Proposed(t, amount, recovery, self)
    PROVE  /\ transactions[t].state = "none"
           /\ transactions'[t].state = "Initial"
           /\ transactions'[t].inputs = OutputsIn({"Initial"})
           /\ transactions'[t].amount = amount
           /\ transactions'[t].change = SumSatoshi(OutputsIn({"Initial"})) - amount
           /\ \A u \in Txs \ {t} : transactions'[u] = transactions[u]
           /\ OutputsIn({"Initial"})' = {}
           /\ amount \in Nat /\ held' = held - amount
<1>1. transactions \in [Txs -> TransactionRow] /\ outputs \in [Outputs -> OutputRow]
  BY Zenon DEF IInv, TypeOK
<1> DEFINE free == OutputsIn({"Initial"})
           row == [state |-> "Initial", inputs |-> free, amount |-> amount,
                   change |-> SumSatoshi(free) - amount, recovery |-> recovery,
                   self |-> self, holder |-> FALSE]
<1>2. /\ WriteTransaction(t, row, free, "Pending")
      /\ transactions[t].state = "none" /\ held' = held - amount
  BY Zenon DEF Proposed, ProposeTransaction, ListAllBitcoinUTXOsForHolder
<1>3. transactions'[t] = row /\ \A u \in Txs \ {t} : transactions'[u] = transactions[u]
  BY Zenon, <1>1, <1>2 DEF WriteTransaction
<1>4. ASSUME NEW o \in Outputs PROVE outputs'[o].state # "Initial"
  <2>1. CASE outputs[o].state = "Initial"
    <3>1. outputs'[o] = [outputs[o] EXCEPT !.state = "Pending", !.spent_by = t]
      BY Zenon, <1>2, <2>1 DEF WriteTransaction, OutputsIn
    <3> QED
      BY Zenon, <1>1, <3>1 DEF OutputRow
  <2>2. CASE outputs[o].state # "Initial"
    BY Zenon, <1>2, <2>2 DEF WriteTransaction, OutputsIn
  <2> QED
    BY Zenon, <2>1, <2>2
<1>5. OutputsIn({"Initial"})' = {}
  BY Zenon, <1>4 DEF OutputsIn
<1>6. amount \in Nat
  BY Zenon, ConstantAssumptions
<1> HIDE DEF free
<1>7. row.state = "Initial" /\ row.inputs = free /\ row.amount = amount /\ row.change = SumSatoshi(free) - amount
  BY Zenon DEF row
<1> HIDE DEF row
<1> QED
  BY Zenon, <1>2, <1>3, <1>5, <1>6, <1>7 DEF free

(* A transaction that is unfinished after a step was so before, with the   *)
(* same inputs, amount and change, or the step proposes it.                *)
LEMMA UnfinishedBefore ==
    ASSUME IInv, [Next]_vars, NEW t \in Txs, Unfinished(t)'
    PROVE  \/ /\ Unfinished(t)
              /\ transactions'[t].inputs = transactions[t].inputs
              /\ transactions'[t].amount = transactions[t].amount
              /\ transactions'[t].change = transactions[t].change
           \/ \E amount \in Amounts : \E recovery, self \in BOOLEAN :
                  Proposed(t, amount, recovery, self)
<1> DEFINE Kept == /\ Unfinished(t)
                   /\ transactions'[t].inputs = transactions[t].inputs
                   /\ transactions'[t].amount = transactions[t].amount
                   /\ transactions'[t].change = transactions[t].change
           New == \E amount \in Amounts : \E recovery, self \in BOOLEAN :
                      Proposed(t, amount, recovery, self)
<1>1. transactions \in [Txs -> TransactionRow]
  BY Zenon DEF IInv, TypeOK
<1>2. ASSUME transactions'[t] = transactions[t] PROVE Kept
  BY Zenon, <1>2 DEF Unfinished
<1>3. ASSUME NEW u \in Txs, NEW state \in {"Failed", "Done"},
             transactions' = [transactions EXCEPT ![u].state = state]
      PROVE  Kept
  <2>1. u = t => transactions'[t].state = state
    BY Zenon, <1>1, <1>3 DEF TransactionRow
  <2>2. u # t
    BY Zenon, <2>1 DEF Unfinished
  <2> QED
    BY Zenon, <1>1, <1>2, <1>3, <2>2
<1>4. ASSUME NEW r, NEW u \in Txs, NEW new, Asked(r, u, new) PROVE Kept
  <2>1. transactions' = [transactions EXCEPT ![u].state = "Pending"] /\ Unfinished(u)
    BY Zenon, <1>4 DEF Asked, WriteSignatureRequests
  <2>2. CASE u = t
    BY Zenon, <1>1, <2>1, <2>2 DEF TransactionRow
  <2>3. CASE u # t
    BY Zenon, <1>1, <1>2, <2>1, <2>3
  <2> QED
    BY Zenon, <2>2, <2>3
<1>5. ASSUME NEW u \in Txs, NEW spends, ClosedByHolder(u, spends) PROVE Kept
  <2>1. transactions' = [transactions EXCEPT ![u] =
            [NoTransaction EXCEPT !.state = "Done", !.inputs = spends,
                                  !.recovery = TRUE, !.holder = TRUE]]
    BY Zenon, <1>5 DEF ClosedByHolder, WriteTransaction
  <2>2. u = t => transactions'[t].state = "Done"
    BY Zenon, <1>1, <2>1 DEF NoTransaction
  <2>3. u # t
    BY Zenon, <2>2 DEF Unfinished
  <2> QED
    BY Zenon, <1>1, <1>2, <2>1, <2>3
<1>6. ASSUME NEW u \in Txs, NEW amount \in Amounts, NEW recovery \in BOOLEAN, NEW self \in BOOLEAN,
             Proposed(u, amount, recovery, self)
      PROVE  Kept \/ New
  <2>1. u # t => transactions'[t] = transactions[t]
    BY <1>6, ProposedRows
  <2>2. u = t => New
    BY Zenon, <1>6
  <2> QED
    BY ZenonT(40), <1>2, <2>1, <2>2
<1>7. ASSUME \/ Idle
             \/ \E o \in Outputs : Deposited(o)
             \/ \E u \in Txs : Sent(u)
      PROVE  Kept
  BY Zenon, <1>2, <1>7 DEF Idle, Deposited, CreateHolderDeposit, Sent, Broadcast
<1> HIDE DEF Kept, New
<1>8. ASSUME NEW u \in Txs, Revoked(u) \/ Finished(u) PROVE Kept
  BY Zenon, <1>3, <1>8 DEF Revoked, Finished
<1>9. Kept \/ New
  BY Zenon, StepShapes, <1>4, <1>5, <1>6, <1>7, <1>8
<1> QED
  BY Zenon, <1>9 DEF Kept, New

(* The inputs of a transaction that stands have rows.                      *)
LEMMA InputsHaveRows ==
    ASSUME IInv, NEW t \in Txs, Unfinished(t)
    PROVE  /\ transactions[t].inputs \in SUBSET Outputs
           /\ \A o \in transactions[t].inputs : outputs[o].state = "Pending" /\ outputs[o].spent_by = t
<1>1. transactions[t].inputs \in SUBSET Outputs /\ ~transactions[t].holder
      /\ transactions[t].state \in {"Initial", "Pending"}
  BY Zenon DEF IInv, TypeOK, TransactionRow, HolderOnlyDone, Unfinished
<1>2. ASSUME NEW o \in transactions[t].inputs
      PROVE  outputs[o].state = "Pending" /\ outputs[o].spent_by = t
  <2>1. outputs[o].spent_by = t /\ o \in Outputs
    BY Zenon, <1>1 DEF IInv, OutputsFollowTransactions, Standing
  <2>2. outputs[o].state \in {"none", "Initial", "Pending", "Done"}
    BY Zenon, <2>1 DEF IInv, TypeOK, OutputRow
  <2>3. OutputFollows(o)
    BY Zenon, <2>1 DEF IInv, OutputsFollowTransactions
  <2> QED
    BY Zenon, <1>1, <2>1, <2>2, <2>3, ConstantAssumptions DEF OutputFollows
<1> QED
  BY Zenon, <1>1, <1>2

(* The inputs of an unfinished transaction stay worth its amount and its   *)
(* change: an input never changes its value.                               *)
LEMMA BalancedNext == IInv /\ Balanced /\ [Next]_vars => Balanced'
<1> SUFFICES ASSUME IInv, Balanced, [Next]_vars, NEW t \in Txs, Unfinished(t)'
             PROVE  SumSatoshi(transactions[t].inputs)' = transactions'[t].amount + transactions'[t].change
  BY Zenon DEF Balanced
<1>1. CASE /\ Unfinished(t)
           /\ transactions'[t].inputs = transactions[t].inputs
           /\ transactions'[t].amount = transactions[t].amount
           /\ transactions'[t].change = transactions[t].change
  <2> DEFINE S == transactions[t].inputs
  <2>1. S \in SUBSET Outputs /\ \A o \in S : outputs[o].state # "none"
    BY Zenon, <1>1, InputsHaveRows
  <2>2. SumSatoshi(S) = transactions[t].amount + transactions[t].change
    BY Zenon, <1>1 DEF Balanced
  <2>3. SumSatoshi(transactions[t].inputs)' = SumFunctionOnSet(Value', S)
    BY Zenon, <1>1 DEF SumSatoshi, Value
  <2>4. SumFunctionOnSet(Value', S) = SumFunctionOnSet(Value, S)
    BY Zenon, <2>1, RecordedKeepValue
  <2>5. SumFunctionOnSet(Value, S) = SumSatoshi(S)
    BY Zenon DEF SumSatoshi, Value
  <2> QED
    BY ZenonT(40), <1>1, <2>2, <2>3, <2>4, <2>5
<1>2. ASSUME NEW amount \in Amounts, NEW recovery \in BOOLEAN, NEW self \in BOOLEAN,
             Proposed(t, amount, recovery, self)
      PROVE  SumSatoshi(transactions[t].inputs)' = transactions'[t].amount + transactions'[t].change
  <2> DEFINE S == OutputsIn({"Initial"})
  <2>1. /\ transactions'[t].inputs = S /\ transactions'[t].amount = amount
        /\ transactions'[t].change = SumSatoshi(S) - amount /\ amount \in Nat
    BY <1>2, ProposedRows
  <2>2. S \in SUBSET Outputs /\ \A o \in S : outputs[o].state # "none"
    BY Zenon DEF OutputsIn
  <2>3. SumSatoshi(transactions[t].inputs)' = SumFunctionOnSet(Value', S)
    BY Zenon, <2>1 DEF SumSatoshi, Value
  <2> HIDE DEF S
  <2>4. SumFunctionOnSet(Value', S) = SumFunctionOnSet(Value, S)
    BY Zenon, <2>2, RecordedKeepValue
  <2>5. SumFunctionOnSet(Value, S) = SumSatoshi(S) /\ SumSatoshi(S) \in Int
    BY Zenon, <2>2, SumTypes DEF IInv, SumsOK
  <2> QED
    BY SMTT(30), <2>1, <2>3, <2>4, <2>5
<1> QED
  BY Zenon, <1>1, <1>2, UnfinishedBefore


(* A step that touches the change of one transaction moves the sums by     *)
(* what it does to that one.                                               *)
LEMMA OneChangeMoves ==
    ASSUME SumsOK, SumsOK', NEW t \in Txs
    PROVE  /\ (\A u \in Txs \ {t} : ChangeUnfinished'[u] = ChangeUnfinished[u]) =>
                UnfinishedSatoshi' = UnfinishedSatoshi - ChangeUnfinished[t] + ChangeUnfinished'[t]
           /\ (\A u \in Txs \ {t} : ChangeUndeposited'[u] = ChangeUndeposited[u]) =>
                UndepositedSatoshi' = UndepositedSatoshi - ChangeUndeposited[t] + ChangeUndeposited'[t]
<1>1. /\ \A u \in Txs : ChangeUnfinished[u] \in Int /\ ChangeUnfinished'[u] \in Int
      /\ \A u \in Txs : ChangeUndeposited[u] \in Int /\ ChangeUndeposited'[u] \in Int
      /\ IsFiniteSet(Txs)
  BY ConstantAssumptions DEF SumsOK
<1>2. ASSUME \A u \in Txs \ {t} : ChangeUnfinished'[u] = ChangeUnfinished[u]
      PROVE  UnfinishedSatoshi' = UnfinishedSatoshi - ChangeUnfinished[t] + ChangeUnfinished'[t]
  BY <1>1, <1>2, SumChange DEF UnfinishedSatoshi
<1>3. ASSUME \A u \in Txs \ {t} : ChangeUndeposited'[u] = ChangeUndeposited[u]
      PROVE  UndepositedSatoshi' = UndepositedSatoshi - ChangeUndeposited[t] + ChangeUndeposited'[t]
  BY <1>1, <1>3, SumChange DEF UndepositedSatoshi
<1> QED
  BY Zenon, <1>2, <1>3

(* A step that touches no change leaves the sums alone.                    *)
LEMMA NoChangeMoves ==
    /\ (\A u \in Txs : ChangeUnfinished'[u] = ChangeUnfinished[u]) =>
            UnfinishedSatoshi' = UnfinishedSatoshi
    /\ (\A u \in Txs : ChangeUndeposited'[u] = ChangeUndeposited[u]) =>
            UndepositedSatoshi' = UndepositedSatoshi
<1>1. ASSUME \A u \in Txs : ChangeUnfinished'[u] = ChangeUnfinished[u]
      PROVE  UnfinishedSatoshi' = UnfinishedSatoshi
  BY Zenon, <1>1, SumSame, ConstantAssumptions DEF UnfinishedSatoshi
<1>2. ASSUME \A u \in Txs : ChangeUndeposited'[u] = ChangeUndeposited[u]
      PROVE  UndepositedSatoshi' = UndepositedSatoshi
  BY Zenon, <1>2, SumSame, ConstantAssumptions DEF UndepositedSatoshi
<1> QED
  BY Zenon, <1>1, <1>2

(* The free outputs of before keep their value.                            *)
LEMMA FreeKeepsValue ==
    ASSUME IInv, [Next]_vars
    PROVE  SumFunctionOnSet(Value', OutputsIn({"Initial"})) = FreeSatoshi
<1> DEFINE S == OutputsIn({"Initial"})
<1>1. S \in SUBSET Outputs /\ \A o \in S : outputs[o].state # "none"
  BY Zenon DEF OutputsIn
<1> HIDE DEF S
<1>2. SumFunctionOnSet(Value', S) = SumFunctionOnSet(Value, S)
  BY Zenon, <1>1, RecordedKeepValue
<1> QED
  BY Zenon, <1>2 DEF S, FreeSatoshi

(* A revocation frees the inputs with the bonds.                           *)
LEMMA RevokedBacked ==
    ASSUME IInv, [Next]_vars, SumsOK, SumsOK', Balanced, NEW t \in Txs, Revoked(t)
    PROVE  /\ FreeSatoshi' = FreeSatoshi + transactions[t].amount + transactions[t].change
           /\ UnfinishedSatoshi' = UnfinishedSatoshi - transactions[t].change
           /\ UndepositedSatoshi' = UndepositedSatoshi
           /\ held' = held + transactions[t].amount /\ safe' = safe
           /\ transactions[t].amount \in Nat /\ transactions[t].change \in Nat
<1> DEFINE I == transactions[t].inputs
           S == OutputsIn({"Initial"})
<1>1. /\ transactions \in [Txs -> TransactionRow] /\ outputs \in [Outputs -> OutputRow]
      /\ transactions[t] \in TransactionRow
  BY Zenon DEF IInv, TypeOK
<1>2. transactions[t].state = "Initial" /\ Unfinished(t)
  BY Zenon DEF Revoked, Unfinished
<1>2a. transactions' = [transactions EXCEPT ![t].state = "Failed"]
  BY Zenon DEF Revoked
<1>2b. outputs' = [o \in Outputs |-> IF o \in I
                       THEN [outputs[o] EXCEPT !.state = "Initial", !.spent_by = NoTx]
                       ELSE outputs[o]]
  BY Zenon DEF Revoked, ReleaseOutputs
<1>3. /\ transactions'[t].state = "Failed" /\ transactions'[t].change = transactions[t].change
      /\ \A u \in Txs \ {t} : transactions'[u] = transactions[u]
  <2>1. transactions'[t] = [transactions[t] EXCEPT !.state = "Failed"]
    BY Zenon, <1>1, <1>2a
  <2>2. ASSUME NEW row \in TransactionRow
        PROVE  /\ [row EXCEPT !.state = "Failed"].state = "Failed"
               /\ [row EXCEPT !.state = "Failed"].change = row.change
    BY Zenon DEF TransactionRow
  <2> QED
    BY Zenon, <1>1, <1>2a, <2>1, <2>2
<1>4. I \in SUBSET Outputs /\ \A o \in I : outputs[o].state = "Pending"
  BY Zenon, <1>2, InputsHaveRows
<1>5. ASSUME NEW o \in Outputs
      PROVE  /\ o \in I => outputs'[o].state = "Initial"
             /\ o \notin I => outputs'[o] = outputs[o]
  <2>1. o \in I => outputs'[o] = [outputs[o] EXCEPT !.state = "Initial", !.spent_by = NoTx]
    BY Zenon, <1>2b
  <2>2. ASSUME NEW row \in OutputRow
        PROVE  [row EXCEPT !.state = "Initial", !.spent_by = NoTx].state = "Initial"
    BY Zenon DEF OutputRow
  <2> QED
    BY Zenon, <1>1, <1>2b, <2>1, <2>2
<1>6. OutputsIn({"Initial"})' = S \cup I
  <2>1. \A o \in Outputs : outputs'[o].state = "Initial" <=> outputs[o].state = "Initial" \/ o \in I
    BY Zenon, <1>5
  <2> QED
    BY Zenon, <1>4, <2>1 DEF OutputsIn
<1>7. SumFunctionOnSet(Value', I) = transactions[t].amount + transactions[t].change
  <2>1. SumSatoshi(I) = transactions[t].amount + transactions[t].change
    BY Zenon, <1>2 DEF Balanced
  <2>2. SumSatoshi(I) = SumFunctionOnSet(Value, I)
    BY Zenon, <1>4 DEF SumsOK
  <2>3. \A o \in I : outputs[o].state # "none"
    BY Zenon, <1>4
  <2>4. SumFunctionOnSet(Value', I) = SumFunctionOnSet(Value, I)
    BY Zenon, <1>4, <2>3, RecordedKeepValue
  <2> QED
    BY Zenon, <2>1, <2>2, <2>4
<1>8. FreeSatoshi' = FreeSatoshi + transactions[t].amount + transactions[t].change
  <2>1. S \in SUBSET Outputs /\ S \cap I = {}
    BY Zenon, <1>4 DEF OutputsIn
  <2>2. \A o \in S \cup I : Value'[o] \in Int
    BY <1>4, <2>1 DEF SumsOK
  <2>3. FreeSatoshi' = SumFunctionOnSet(Value', S \cup I)
    BY Zenon, <1>6 DEF FreeSatoshi
  <2>4. SumFunctionOnSet(Value', S) = FreeSatoshi /\ FreeSatoshi \in Int
    BY Zenon, FreeKeepsValue DEF SumsOK
  <2>5. transactions[t].amount \in Nat /\ transactions[t].change \in Nat
    BY Zenon, <1>1 DEF TransactionRow
  <2>6. IsFiniteSet(S) /\ IsFiniteSet(I)
    BY Zenon, <1>4, <2>1, OutputsFinite
  <2> HIDE DEF S, I
  <2>7. SumFunctionOnSet(Value', S \cup I) = SumFunctionOnSet(Value', S) + SumFunctionOnSet(Value', I)
    BY Zenon, <2>1, <2>2, <2>6, SumUnion
  <2> QED
    BY SMTT(30), <1>7, <2>3, <2>4, <2>5, <2>7
<1>9. /\ ChangeUnfinished[t] = transactions[t].change /\ ChangeUnfinished'[t] = 0
      /\ \A u \in Txs \ {t} : ChangeUnfinished'[u] = ChangeUnfinished[u]
  <2>1. ~Unfinished(t)'
    BY Zenon, <1>3 DEF Unfinished
  <2> QED
    BY ZenonT(40), <1>2, <1>3, <2>1 DEF ChangeUnfinished, Unfinished
<1>10. \A u \in Txs : ChangeUndeposited'[u] = ChangeUndeposited[u]
  <2>1. ASSUME NEW u \in Txs PROVE outputs'[<<u, 1>>].state = "none" <=> outputs[<<u, 1>>].state = "none"
    <3>1. <<u, 1>> \in Outputs
      BY Zenon DEF Outputs
    <3> QED
      BY Zenon, <1>4, <1>5, <3>1
  <2>2. transactions'[t].state # "Done" /\ transactions[t].state # "Done"
    BY Zenon, <1>2, <1>3
  <2>3. ChangeUndeposited'[t] = 0 /\ ChangeUndeposited[t] = 0
    BY Zenon, <2>2 DEF ChangeUndeposited
  <2>4. ASSUME NEW u \in Txs \ {t} PROVE ChangeUndeposited'[u] = ChangeUndeposited[u]
    BY Zenon, <1>3, <2>1 DEF ChangeUndeposited
  <2> QED
    BY ZenonT(40), <2>3, <2>4
<1>11. transactions[t].amount \in Nat /\ transactions[t].change \in Nat
  BY Zenon, <1>1 DEF TransactionRow
<1>12. UnfinishedSatoshi' = UnfinishedSatoshi - transactions[t].change
  <2>1. UnfinishedSatoshi' = UnfinishedSatoshi - transactions[t].change + 0
    BY Zenon, <1>9, OneChangeMoves
  <2>2. UnfinishedSatoshi \in Int
    BY Zenon DEF SumsOK
  <2> QED
    BY <1>11, <2>1, <2>2
<1>13. UndepositedSatoshi' = UndepositedSatoshi
  BY Zenon, <1>10, NoChangeMoves
<1> QED
  BY Zenon, <1>8, <1>11, <1>12, <1>13 DEF Revoked


(* A proposal turns the free outputs into change on its way.               *)
LEMMA ProposedBacked ==
    ASSUME IInv, SumsOK, SumsOK', NEW t \in Txs, NEW amount \in Amounts,
           NEW recovery \in BOOLEAN, NEW self \in BOOLEAN, Proposed(t, amount, recovery, self)
    PROVE  /\ FreeSatoshi' = 0
           /\ UnfinishedSatoshi' = UnfinishedSatoshi + FreeSatoshi - amount
           /\ UndepositedSatoshi' = UndepositedSatoshi
           /\ held' = held - amount /\ safe' = safe /\ amount \in Nat
<1>1. /\ transactions[t].state = "none" /\ transactions'[t].state = "Initial"
      /\ transactions'[t].change = SumSatoshi(OutputsIn({"Initial"})) - amount
      /\ \A u \in Txs \ {t} : transactions'[u] = transactions[u]
      /\ OutputsIn({"Initial"})' = {}
      /\ amount \in Nat /\ held' = held - amount
  BY SMTT(30), ProposedRows
<1>2. FreeSatoshi' = 0
  BY Zenon, <1>1, SumEmpty DEF FreeSatoshi
<1>3. SumSatoshi(OutputsIn({"Initial"})) = FreeSatoshi
  <2>1. OutputsIn({"Initial"}) \in SUBSET Outputs
    BY Zenon DEF OutputsIn
  <2> QED
    BY Zenon, <2>1 DEF SumsOK, FreeSatoshi
<1>4. /\ ChangeUnfinished[t] = 0 /\ ChangeUnfinished'[t] = FreeSatoshi - amount
      /\ \A u \in Txs \ {t} : ChangeUnfinished'[u] = ChangeUnfinished[u]
  <2>1. ~Unfinished(t) /\ Unfinished(t)'
    BY Zenon, <1>1 DEF Unfinished
  <2> QED
    BY Zenon, <1>1, <1>3, <2>1 DEF ChangeUnfinished, Unfinished
<1>5. UnfinishedSatoshi' = UnfinishedSatoshi + FreeSatoshi - amount
  <2>1. UnfinishedSatoshi' = UnfinishedSatoshi - 0 + (FreeSatoshi - amount)
    BY Zenon, <1>4, OneChangeMoves
  <2>2. UnfinishedSatoshi \in Int /\ FreeSatoshi \in Int
    BY Zenon DEF SumsOK
  <2> QED
    BY <1>1, <2>1, <2>2
<1>6. \A u \in Txs : ChangeUndeposited'[u] = ChangeUndeposited[u]
  <2>0. ASSUME NEW o \in Outputs
        PROVE  outputs'[o].state = "none" <=> outputs[o].state = "none"
    <3>1. CASE outputs[o].state = "Initial"
      <4>1. outputs'[o] = [outputs[o] EXCEPT !.state = "Pending", !.spent_by = t]
        BY Zenon, <3>1
        DEF Proposed, ProposeTransaction, ListAllBitcoinUTXOsForHolder, WriteTransaction, OutputsIn
      <4>2. outputs[o] \in OutputRow
        BY Zenon DEF IInv, TypeOK
      <4> QED
        BY Zenon, <3>1, <4>1, <4>2 DEF OutputRow
    <3>2. CASE outputs[o].state # "Initial"
      BY Zenon, <3>2
      DEF Proposed, ProposeTransaction, ListAllBitcoinUTXOsForHolder, WriteTransaction, OutputsIn
    <3> QED
      BY Zenon, <3>1, <3>2
  <2>1. ASSUME NEW u \in Txs
        PROVE  outputs'[<<u, 1>>].state = "none" <=> outputs[<<u, 1>>].state = "none"
    BY Zenon, <2>0 DEF Outputs
  <2>2. transactions'[t].state # "Done" /\ transactions[t].state # "Done"
    BY Zenon, <1>1
  <2>3. ChangeUndeposited'[t] = 0 /\ ChangeUndeposited[t] = 0
    BY Zenon, <2>2 DEF ChangeUndeposited
  <2>4. ASSUME NEW u \in Txs \ {t} PROVE ChangeUndeposited'[u] = ChangeUndeposited[u]
    BY Zenon, <1>1, <2>1 DEF ChangeUndeposited
  <2> QED
    BY Zenon, <2>3, <2>4
<1>7. UndepositedSatoshi' = UndepositedSatoshi
  BY Zenon, <1>6, NoChangeMoves
<1> QED
  BY ZenonT(40), <1>1, <1>2, <1>5, <1>7 DEF Proposed, ProposeTransaction

(* A signed transaction owes its change to the safe until it is deposited. *)
LEMMA FinishedBacked ==
    ASSUME IInv, [Next]_vars, SumsOK, SumsOK', ChainInv, NEW t \in Txs, Finished(t)
    PROVE  /\ FreeSatoshi' = FreeSatoshi
           /\ UnfinishedSatoshi' = UnfinishedSatoshi - transactions[t].change
           /\ UndepositedSatoshi' = UndepositedSatoshi + transactions[t].change
           /\ held' = held /\ safe' = safe /\ transactions[t].change \in Nat
<1>1. /\ transactions \in [Txs -> TransactionRow] /\ outputs \in [Outputs -> OutputRow]
      /\ transactions[t] \in TransactionRow
  BY Zenon DEF IInv, TypeOK
<1>2. transactions[t].state = "Pending" /\ Unfinished(t)
  BY Zenon DEF Finished, Unfinished
<1>3. /\ transactions'[t].state = "Done" /\ transactions'[t].change = transactions[t].change
      /\ \A u \in Txs \ {t} : transactions'[u] = transactions[u]
  <2>1. transactions' = [transactions EXCEPT ![t].state = "Done"]
    BY Zenon DEF Finished
  <2>2. transactions'[t] = [transactions[t] EXCEPT !.state = "Done"]
    BY Zenon, <1>1, <2>1
  <2>3. ASSUME NEW row \in TransactionRow
        PROVE  /\ [row EXCEPT !.state = "Done"].state = "Done"
               /\ [row EXCEPT !.state = "Done"].change = row.change
    BY Zenon DEF TransactionRow
  <2> QED
    BY Zenon, <1>1, <2>1, <2>2, <2>3
<1>4. ASSUME NEW o \in Outputs
      PROVE  /\ outputs'[o].state = "Initial" <=> outputs[o].state = "Initial"
             /\ outputs'[o].state = "none" <=> outputs[o].state = "none"
  <2>1. CASE outputs[o].spent_by = t
    <3>1. outputs'[o] = [outputs[o] EXCEPT !.state = "Done"] /\ outputs[o] \in OutputRow
      BY Zenon, <1>1, <2>1 DEF Finished
    <3>2. OutputFollows(o)
      BY Zenon DEF IInv, OutputsFollowTransactions
    <3>3. outputs'[o].state = "Done"
      BY Zenon, <3>1 DEF OutputRow
    <3> QED
      BY Zenon, <2>1, <3>2, <3>3, ConstantAssumptions DEF OutputFollows
  <2>2. CASE outputs[o].spent_by # t
    BY Zenon, <2>2 DEF Finished
  <2> QED
    BY Zenon, <2>1, <2>2
<1>5. OutputsIn({"Initial"})' = OutputsIn({"Initial"})
  BY Zenon, <1>4 DEF OutputsIn
<1>6. FreeSatoshi' = FreeSatoshi
  <2>1. FreeSatoshi' = SumFunctionOnSet(Value', OutputsIn({"Initial"}))
    BY Zenon, <1>5 DEF FreeSatoshi
  <2> QED
    BY Zenon, <2>1, FreeKeepsValue
<1>7. /\ ChangeUnfinished[t] = transactions[t].change /\ ChangeUnfinished'[t] = 0
      /\ \A u \in Txs \ {t} : ChangeUnfinished'[u] = ChangeUnfinished[u]
  <2>1. ~Unfinished(t)'
    BY Zenon, <1>3 DEF Unfinished
  <2> QED
    BY Zenon, <1>2, <1>3, <2>1 DEF ChangeUnfinished, Unfinished
<1>8. /\ ChangeUndeposited[t] = 0 /\ ChangeUndeposited'[t] = transactions[t].change
      /\ \A u \in Txs \ {t} : ChangeUndeposited'[u] = ChangeUndeposited[u]
  <2>1. \A u \in Txs : <<u, 1>> \in Outputs
    BY Zenon DEF Outputs
  <2>2. \A u \in Txs : outputs'[<<u, 1>>].state = "none" <=> outputs[<<u, 1>>].state = "none"
    BY Zenon, <1>4, <2>1
  <2>3. t \notin broadcast /\ transactions[t].state # "Done"
    BY Zenon, <1>2 DEF ChainInv, BroadcastDone
  <2>4. <<t, 1>> \notin Deposits /\ <<t, 1>>[1] = t
    BY ConstantAssumptions
  <2>5. outputs[<<t, 1>>].state = "none"
    BY Zenon, <2>1, <2>3, <2>4 DEF ChainInv, RowsOnChain, OnChain
  <2> QED
    BY Zenon, <1>3, <2>2, <2>3, <2>5 DEF ChangeUndeposited
<1>9. transactions[t].change \in Nat
  BY Zenon, <1>1 DEF TransactionRow
<1>10. /\ UnfinishedSatoshi' = UnfinishedSatoshi - transactions[t].change
       /\ UndepositedSatoshi' = UndepositedSatoshi + transactions[t].change
  <2>1. /\ UnfinishedSatoshi' = UnfinishedSatoshi - transactions[t].change + 0
        /\ UndepositedSatoshi' = UndepositedSatoshi - 0 + transactions[t].change
    BY Zenon, <1>7, <1>8, OneChangeMoves
  <2>2. UnfinishedSatoshi \in Int /\ UndepositedSatoshi \in Int
    BY Zenon DEF SumsOK
  <2> QED
    BY <1>9, <2>1, <2>2
<1> QED
  BY Zenon, <1>6, <1>9, <1>10 DEF Finished


(* A deposit adds its output, which is change that was owed or is minted.  *)
LEMMA DepositedBacked ==
    ASSUME IInv, [Next]_vars, SumsOK, SumsOK', ChainInv, NEW o \in Outputs, Deposited(o)
    PROVE  /\ \E x, owed \in Nat : /\ FreeSatoshi' = FreeSatoshi + x
                                   /\ UndepositedSatoshi' = UndepositedSatoshi - owed
                                   /\ held' = held + x - owed
           /\ UnfinishedSatoshi' = UnfinishedSatoshi
           /\ safe' = safe
<1> DEFINE S == OutputsIn({"Initial"})
           x == ChainSatoshi(o)
<1>1. /\ outputs \in [Outputs -> OutputRow] /\ held \in Nat
      /\ transactions \in [Txs -> TransactionRow] /\ broadcast \subseteq Txs
  BY Zenon DEF IInv, TypeOK
<1>2. /\ outputs[o].state = "none" /\ OnChain(o)
      /\ outputs' = [outputs EXCEPT ![o] = [state |-> "Initial", spent_by |-> NoTx, satoshi |-> x]]
      /\ held' = held + (IF checkBitcoinChange(o) THEN 0 ELSE x)
      /\ transactions' = transactions /\ safe' = safe
  BY Zenon DEF Deposited, CreateHolderDeposit, WriteBitcoinOutput
<1> HIDE DEF x
<1>3. /\ outputs'[o].state = "Initial" /\ outputs'[o].satoshi = x
      /\ \A p \in Outputs \ {o} : outputs'[p] = outputs[p]
  BY Zenon, <1>1, <1>2
<1>4. o \notin S /\ OutputsIn({"Initial"})' = S \cup {o} /\ S \in SUBSET Outputs
  BY Zenon, <1>2, <1>3 DEF OutputsIn
<1>5. Value'[o] = x /\ x \in Nat /\ \A p \in S : Value'[p] \in Int
  <2>1. Value' \in [Outputs -> Nat]
    BY Zenon DEF SumsOK
  <2>2. Value'[o] = x
    BY Zenon, <1>3 DEF Value
  <2>3. \A p \in Outputs : Value'[p] \in Nat /\ Value'[p] \in Int
    BY <2>1
  <2> QED
    BY Zenon, <1>4, <2>2, <2>3
<1>6. SumFunctionOnSet(Value', S) = FreeSatoshi
  BY Zenon, FreeKeepsValue
<1>7. FreeSatoshi' = SumFunctionOnSet(Value', S \cup {o})
  BY Zenon, <1>4 DEF FreeSatoshi
<1>8. IsFiniteSet(S)
  BY Zenon, <1>4, OutputsFinite
<1> HIDE DEF S
<1>9. FreeSatoshi' = FreeSatoshi + x
  <2>1. SumFunctionOnSet(Value', S \cup {o}) = SumFunctionOnSet(Value', S) + Value'[o]
    <3>1. o \notin S /\ Value'[o] \in Int /\ \A p \in S : Value'[p] \in Int
      BY <1>4, <1>5
    <3> QED
      BY Zenon, <1>8, <3>1, SumAdd
  <2> QED
    BY ZenonT(40), <1>5, <1>6, <1>7, <2>1
<1>10. UnfinishedSatoshi' = UnfinishedSatoshi
  BY Zenon, <1>2 DEF UnfinishedSatoshi, ChangeUnfinished, Unfinished
<1>11. CASE checkBitcoinChange(o)
  <2>1. o \notin Deposits /\ o[1] \in Txs /\ o[2] = 1 /\ o = <<o[1], 1>>
    BY <1>11 DEF checkBitcoinChange, Outputs
  <2>2. o[1] \in broadcast /\ transactions[o[1]].state = "Done"
    BY Zenon, <1>2, <2>1 DEF OnChain, ChainInv, BroadcastDone
  <2>3. x = transactions[o[1]].change
    BY <2>1 DEF x, ChainSatoshi
  <2>4. ChangeUndeposited[o[1]] = x /\ ChangeUndeposited'[o[1]] = 0
    <3>1. outputs[<<o[1], 1>>].state = "none" /\ outputs'[<<o[1], 1>>].state # "none"
      BY Zenon, <1>2, <1>3, <2>1
    <3> QED
      BY ZenonT(40), <2>1, <2>2, <2>3, <3>1 DEF ChangeUndeposited
  <2>5. ASSUME NEW u \in Txs \ {o[1]} PROVE ChangeUndeposited'[u] = ChangeUndeposited[u]
    <3>1. <<u, 1>> \in Outputs /\ <<u, 1>> # o
      BY <2>1 DEF Outputs
    <3> QED
      BY Zenon, <1>2, <1>3, <3>1 DEF ChangeUndeposited
  <2>6. UndepositedSatoshi' = UndepositedSatoshi - x
    <3>1. UndepositedSatoshi' = UndepositedSatoshi - x + 0
      BY Zenon, <2>1, <2>4, <2>5, OneChangeMoves
    <3>2. UndepositedSatoshi \in Int
      BY Zenon DEF SumsOK
    <3> QED
      BY <1>5, <3>1, <3>2
  <2>7. held' = held + x - x
    BY <1>1, <1>2, <1>5, <1>11
  <2> QED
    BY Zenon, <1>2, <1>5, <1>9, <1>10, <2>6, <2>7
<1>12. CASE ~checkBitcoinChange(o)
  <2>1. ASSUME NEW u \in Txs PROVE ChangeUndeposited'[u] = ChangeUndeposited[u]
    <3>1. <<u, 1>> \in Outputs /\ <<u, 1>> \notin Deposits /\ <<u, 1>>[2] >= 1
      BY ConstantAssumptions DEF Outputs
    <3>2. <<u, 1>> # o
      BY Zenon, <1>12, <3>1 DEF checkBitcoinChange
    <3> QED
      BY ZenonT(40), <1>2, <1>3, <3>1, <3>2 DEF ChangeUndeposited
  <2>2. UndepositedSatoshi' = UndepositedSatoshi
    BY Zenon, <2>1, NoChangeMoves
  <2>3. UndepositedSatoshi' = UndepositedSatoshi - 0
    BY <2>2 DEF SumsOK
  <2>4. held' = held + x - 0 /\ 0 \in Nat
    BY <1>1, <1>2, <1>5, <1>12
  <2> QED
    BY Zenon, <1>2, <1>5, <1>9, <1>10, <2>3, <2>4
<1> QED
  BY Zenon, <1>11, <1>12

(* An approval moves no satoshi.                                           *)
LEMMA AskedBacked ==
    ASSUME IInv, NEW t \in Txs, NEW r, NEW new, Asked(r, t, new), safe' = "Approved"
    PROVE  /\ FreeSatoshi' = FreeSatoshi /\ UnfinishedSatoshi' = UnfinishedSatoshi
           /\ UndepositedSatoshi' = UndepositedSatoshi
           /\ held' = held /\ safe' = safe
<1>1. transactions \in [Txs -> TransactionRow] /\ transactions[t] \in TransactionRow
  BY Zenon DEF IInv, TypeOK
<1>2. /\ Unfinished(t) /\ transactions' = [transactions EXCEPT ![t].state = "Pending"]
      /\ outputs' = outputs /\ held' = held
  BY Zenon DEF Asked, WriteSignatureRequests
<1>3. safe' = safe
  BY Zenon DEF Asked
<1>4. /\ transactions'[t].state = "Pending" /\ transactions'[t].change = transactions[t].change
      /\ \A u \in Txs \ {t} : transactions'[u] = transactions[u]
  <2>1. transactions'[t] = [transactions[t] EXCEPT !.state = "Pending"]
    BY Zenon, <1>1, <1>2
  <2>2. ASSUME NEW row \in TransactionRow
        PROVE  /\ [row EXCEPT !.state = "Pending"].state = "Pending"
               /\ [row EXCEPT !.state = "Pending"].change = row.change
    BY Zenon DEF TransactionRow
  <2> QED
    BY Zenon, <1>1, <1>2, <2>1, <2>2
<1>5. FreeSatoshi' = FreeSatoshi
  BY Zenon, <1>2 DEF FreeSatoshi, OutputsIn, Value
<1>6. ASSUME NEW u \in Txs
      PROVE  ChangeUnfinished'[u] = ChangeUnfinished[u] /\ ChangeUndeposited'[u] = ChangeUndeposited[u]
  <2>1. CASE u = t
    <3>1. Unfinished(t)' /\ transactions[t].state # "Done" /\ transactions'[t].state # "Done"
      BY Zenon, <1>2, <1>4 DEF Unfinished
    <3> QED
      BY Zenon, <1>2, <1>4, <2>1, <3>1 DEF ChangeUnfinished, ChangeUndeposited
  <2>2. CASE u # t
    <3>1. transactions'[u] = transactions[u] /\ outputs' = outputs
      BY Zenon, <1>2, <1>4, <2>2
    <3> QED
      BY Zenon, <3>1 DEF ChangeUnfinished, ChangeUndeposited, Unfinished
  <2> QED
    BY Zenon, <2>1, <2>2
<1>8. UnfinishedSatoshi' = UnfinishedSatoshi /\ UndepositedSatoshi' = UndepositedSatoshi
  BY Zenon, <1>6, NoChangeMoves
<1> QED
  BY Zenon, <1>2, <1>3, <1>5, <1>8


BackInv == IInv /\ ChainInv /\ Balanced /\ FullyBacked

(* At first there are no bonds and nothing is unfinished.                  *)
LEMMA BackInit == Init => BackInv
<1> SUFFICES ASSUME Init PROVE BackInv
  BY Zenon
<1>1. IInv /\ ChainInv
  BY ZenonT(40), InvInit, ChainInit
<1>2. Balanced
  BY Zenon DEF Init, Balanced, Unfinished, NoTransaction
<1>3. SumsOK
  BY Zenon, <1>1, SumTypes DEF IInv
<1>4. OutputsIn({"Initial"}) = {}
  BY Zenon DEF Init, OutputsIn, NoOutput
<1>5. FreeSatoshi = 0
  BY Zenon, <1>4, SumEmpty DEF FreeSatoshi
<1>6. \A t \in Txs : ChangeUnfinished[t] = 0 /\ ChangeUndeposited[t] = 0
  BY Zenon DEF Init, ChangeUnfinished, ChangeUndeposited, Unfinished, NoTransaction
<1>7. UnfinishedSatoshi >= 0 /\ UndepositedSatoshi >= 0
  <2> DEFINE zero == [t \in Txs |-> 0]
  <2>1. SumFunctionOnSet(zero, Txs) = 0
    BY Zenon, SumZero, ConstantAssumptions
  <2>2. (\A t \in Txs : ChangeUnfinished[t] = zero[t]) /\ (\A t \in Txs : ChangeUndeposited[t] = zero[t])
    BY Zenon, <1>6
  <2> HIDE DEF zero
  <2> QED
    BY <2>1, <2>2, SumSame, ConstantAssumptions DEF UnfinishedSatoshi, UndepositedSatoshi
<1>8. held = 0
  BY Zenon DEF Init
<1>9. FullyBacked
  BY <1>3, <1>5, <1>7, <1>8 DEF SumsOK
<1> QED
  BY Zenon, <1>1, <1>2, <1>9 DEF BackInv

(* No step of the keeper leaves a bond without a satoshi.                  *)
LEMMA BackNext == BackInv /\ [Next]_vars => BackInv'
<1> SUFFICES ASSUME BackInv, [Next]_vars PROVE BackInv'
  BY Zenon
<1>1. IInv /\ ChainInv /\ Balanced /\ FullyBacked
  BY Zenon DEF BackInv
<1>2. IInv' /\ ChainInv' /\ Balanced'
  BY Zenon, <1>1, InvNext, ChainNext, BalancedNext
<1>3. SumsOK /\ SumsOK'
  <2>1. TypeOK /\ TypeOK'
    BY Zenon, <1>1, <1>2 DEF IInv
  <2> QED
    BY <2>1, SumTypes, PTL
<1>4. held \in Nat /\ held' \in Nat
  BY Zenon, <1>1, <1>2 DEF IInv, TypeOK
<1> DEFINE Total == FreeSatoshi + UnfinishedSatoshi + UndepositedSatoshi
<1>5. SUFFICES ASSUME safe' = "Approved" PROVE held' <= Total'
  BY Zenon, <1>2, <1>3 DEF SumsOK, BackInv
<1>6. safe = "Approved" => held <= Total
  BY Zenon, <1>1, <1>3 DEF SumsOK
<1>7. FreeSatoshi \in Int /\ UnfinishedSatoshi \in Int /\ UndepositedSatoshi \in Int
      /\ FreeSatoshi' \in Int /\ UnfinishedSatoshi' \in Int /\ UndepositedSatoshi' \in Int
  BY Zenon, <1>3 DEF SumsOK
<1>8. CASE Idle \/ \E t \in Txs : Sent(t)
  <2>1. UNCHANGED <<safe, outputs, transactions>>
    BY Zenon, <1>8 DEF Idle, Sent, Broadcast
  <2>2. held' <= held
    BY <1>4, <1>8 DEF Idle, Sent, Broadcast, bonds
  <2>3. /\ FreeSatoshi' = FreeSatoshi /\ UnfinishedSatoshi' = UnfinishedSatoshi
        /\ UndepositedSatoshi' = UndepositedSatoshi
    BY Zenon, <2>1 DEF FreeSatoshi, OutputsIn, Value, UnfinishedSatoshi, ChangeUnfinished,
                       Unfinished, UndepositedSatoshi, ChangeUndeposited
  <2> QED
    BY <1>4, <1>5, <1>6, <1>7, <2>1, <2>2, <2>3
<1>9. ASSUME NEW t \in Txs, NEW amount \in Amounts, NEW recovery \in BOOLEAN,
             NEW self \in BOOLEAN, Proposed(t, amount, recovery, self)
      PROVE  held' <= Total'
  <2>1. /\ FreeSatoshi' = 0
        /\ UnfinishedSatoshi' = UnfinishedSatoshi + FreeSatoshi - amount
        /\ UndepositedSatoshi' = UndepositedSatoshi
        /\ held' = held - amount /\ safe' = safe /\ amount \in Nat
    BY Zenon, <1>1, <1>3, <1>9, ProposedBacked
  <2> QED
    BY <1>4, <1>5, <1>6, <1>7, <2>1
<1>10. ASSUME NEW o \in Outputs, Deposited(o) PROVE held' <= Total'
  <2>1. PICK x, owed \in Nat : /\ FreeSatoshi' = FreeSatoshi + x
                               /\ UndepositedSatoshi' = UndepositedSatoshi - owed
                               /\ held' = held + x - owed
    BY Zenon, <1>1, <1>3, <1>10, DepositedBacked
  <2>2. UnfinishedSatoshi' = UnfinishedSatoshi /\ safe' = safe
    BY Zenon, <1>1, <1>3, <1>10, DepositedBacked
  <2> QED
    BY <1>4, <1>5, <1>6, <1>7, <2>1, <2>2
<1>11. ASSUME NEW t \in Txs, Revoked(t) PROVE held' <= Total'
  <2>1. /\ FreeSatoshi' = FreeSatoshi + transactions[t].amount + transactions[t].change
        /\ UnfinishedSatoshi' = UnfinishedSatoshi - transactions[t].change
        /\ UndepositedSatoshi' = UndepositedSatoshi
        /\ held' = held + transactions[t].amount /\ safe' = safe
        /\ transactions[t].amount \in Nat /\ transactions[t].change \in Nat
    BY Zenon, <1>1, <1>3, <1>11, RevokedBacked
  <2> QED
    BY SMTT(30), <1>4, <1>5, <1>6, <1>7, <2>1
<1>12. ASSUME NEW t \in Txs, Finished(t) PROVE held' <= Total'
  <2>1. /\ FreeSatoshi' = FreeSatoshi
        /\ UnfinishedSatoshi' = UnfinishedSatoshi - transactions[t].change
        /\ UndepositedSatoshi' = UndepositedSatoshi + transactions[t].change
        /\ held' = held /\ safe' = safe /\ transactions[t].change \in Nat
    BY Zenon, <1>1, <1>3, <1>12, FinishedBacked
  <2> QED
    BY SMTT(30), <1>4, <1>5, <1>6, <1>7, <2>1
<1>13. ASSUME NEW t \in Txs, NEW r, NEW new, Asked(r, t, new) PROVE held' <= Total'
  <2>1. /\ FreeSatoshi' = FreeSatoshi /\ UnfinishedSatoshi' = UnfinishedSatoshi
        /\ UndepositedSatoshi' = UndepositedSatoshi
        /\ held' = held /\ safe' = safe
    BY Zenon, <1>1, <1>5, <1>13, AskedBacked
  <2> QED
    BY Zenon, <1>4, <1>5, <1>6, <1>7, <2>1
<1>14. ASSUME NEW t \in Txs, NEW spends, ClosedByHolder(t, spends) PROVE FALSE
  BY Zenon, <1>5, <1>14 DEF ClosedByHolder
<1> HIDE DEF Total
<1> QED
  BY Zenon, <1>1, <1>8, <1>9, <1>10, <1>11, <1>12, <1>13, <1>14, StepShapes

(* Every bond of an open safe is backed by a satoshi of it, whatever       *)
(* deposits, proposals, revocations and signatures interleave.             *)
THEOREM BondsAreBacked == Spec => []FullyBacked
<1>1. BackInv => FullyBacked
  BY Zenon DEF BackInv
<1> QED
  BY <1>1, BackInit, BackNext, PTL DEF Spec

=============================================================================
