-------------------------- MODULE ObserverApprovals --------------------------
(***************************************************************************)
(* The observer's rows of the transactions of one safe, Bitcoin or         *)
(* Ethereum, next to what the keeper knows of them.  The holder approves,  *)
(* revokes and recovers over HTTP; payments and the keeper's answers come  *)
(* as snapshots that one loop reads; another loop sends what was paid to   *)
(* the keeper and sends it again after a timeout.  HTTP handlers and loops *)
(* run concurrently: each reads a row, sends or checks, and writes the row *)
(* later.  The observer may stop at any point.                             *)
(*                                                                         *)
(* A request to the keeper has an id, and the network keeps one per id.    *)
(* A transaction is proposed to the keeper with bonds, or it is made by    *)
(* the holder to close the account and the keeper learns of it last.       *)
(***************************************************************************)
EXTENDS Integers, FiniteSets

CONSTANTS
    Txs,         \* transactions that are proposed to the keeper
    Closings,    \* transactions that the holder makes to close the account
    Bitcoin,     \* whether the safe is of Bitcoin, or of Ethereum
    MaxHandlers, \* how many HTTP handlers run at once
    MaxRetries,  \* how often an approval is sent again
    MaxCrashes   \* how often the observer stops

Hashes == Txs \cup Closings
NoTx == "no_tx"

ASSUME ConstantsOK ==
    /\ Txs \cap Closings = {}
    /\ NoTx \notin Hashes /\ Bitcoin \in BOOLEAN
    /\ MaxHandlers \in Nat /\ MaxRetries \in Nat /\ MaxCrashes \in Nat

VARIABLES
    keeper,     \* the state of a transaction in the keeper's table
    recoverable, \* proposed transactions that a recovery may use
    signing,    \* transactions that the signer group is to sign
    closed,     \* whether the keeper closed the safe
    sent,       \* requests to the keeper, one per id
    processed,  \* ids that the keeper processed
    answers,    \* transactions that the keeper answered as signed
    stopped,    \* whether the keeper group stopped at a failed statement
    approvals,  \* the observer's table transactions
    recovery,   \* the observer's row of the table recoveries, for the safe
    http,       \* the handler in progress of every kind
    loop,       \* where the approval loop is
    snapshot,   \* the answer whose handler committed once, or NoTx
    stuck,      \* the check at which the loop of snapshots stops again and again
    crashes     \* how often the observer stopped

keeperVars == <<keeper, recoverable, signing, closed, processed, answers, stopped>>
rowVars == <<approvals, recovery>>
vars == <<keeperVars, sent, rowVars, http, loop, snapshot, stuck, crashes>>

ApprovalRow ==
    [state: {"none", "Initial", "Pending", "Done", "Failed"},
     signers: SUBSET {"holder", "observer"},   \* of raw_transaction
     retries: 0..MaxRetries]                   \* stands for updated_at

Kinds == {"approve", "revoke", "create", "sign"}
NoHandler == [at |-> "idle", tx |-> NoTx, signers |-> {}]
NoLoop == [at |-> "list", tx |-> NoTx, retries |-> 0]

Init ==
    /\ keeper = [t \in Hashes |-> "none"]
    /\ recoverable = {} /\ signing = {} /\ closed = FALSE
    /\ sent = {} /\ processed = {} /\ answers = {} /\ stopped = FALSE
    /\ approvals = [t \in Hashes |-> [state |-> "none", signers |-> {}, retries |-> 0]]
    /\ recovery = [state |-> "none", tx |-> NoTx]
    /\ http = [k \in Kinds |-> NoHandler]
    /\ loop = NoLoop
    /\ snapshot = NoTx
    /\ stuck = "no"
    /\ crashes = 0

-----------------------------------------------------------------------------
Initial(t) == approvals[t].state = "Initial"
Signed(t, who) == who \in approvals[t].signers
Unfinished == {t \in Hashes : approvals[t].state \in {"Initial", "Pending"}}
KeeperUnfinished == {t \in Hashes : keeper[t] \in {"Initial", "Pending"}}

(* A transfer with the trace of an earlier one is not made again.          *)
Send(id, act, t) ==
    sent' = IF \E q \in sent : q.id = id THEN sent
                                         ELSE sent \cup {[id |-> id, act |-> act, tx |-> t]}

(* The loop of snapshots handles one after the other.                      *)
SnapshotsRead == stuck = "no" /\ snapshot = NoTx

(* One handler of each kind runs at a time.                                *)
Accepts(kind) ==
    /\ http[kind] = NoHandler
    /\ Cardinality({k \in Kinds : http[k] # NoHandler}) < MaxHandlers

Handle(kind, at, t, signers) ==
    http' = [http EXCEPT ![kind] = [at |-> at, tx |-> t, signers |-> signers]]
EndHandler(kind) == http' = [http EXCEPT ![kind] = NoHandler]

-----------------------------------------------------------------------------
(* The keeper accepts a proposal and answers the observer.  An Ethereum    *)
(* safe has one unfinished transaction.  A recovery may use a proposal     *)
(* that spends all with the sequence of the time lock.                     *)
Propose(t, recoveries) ==
    /\ ~stopped /\ ~closed
    /\ keeper[t] = "none" /\ (Bitcoin \/ KeeperUnfinished = {})
    /\ keeper' = [keeper EXCEPT ![t] = "Initial"]
    /\ recoverable' = recoverable \cup recoveries
    /\ UNCHANGED <<signing, closed, sent, processed, answers, stopped, rowVars, http,
                   loop, snapshot, stuck, crashes>>

KeeperSaveTransactionProposal(t) ==
    /\ SnapshotsRead /\ keeper[t] # "none" /\ approvals[t].state = "none"
    /\ approvals' = [approvals EXCEPT ![t].state = "Initial"]
    /\ UNCHANGED <<keeperVars, sent, recovery, http, loop, snapshot, stuck, crashes>>

(* An HTTP approval reads the row, and replaces its raw transaction with   *)
(* one that the holder signed, and perhaps the observer too.               *)
ApprovableRow(t) == Initial(t) /\ ~Signed(t, "holder") /\ keeper[t] # "none"

HttpApproveRead(t) ==
    /\ Accepts("approve")
    /\ ApprovableRow(t)
    /\ Handle("approve", "write", t, {})
    /\ UNCHANGED <<keeperVars, sent, rowVars, loop, snapshot, stuck, crashes>>

AddTransactionPartials(t, signers) ==
    approvals' = IF Initial(t) THEN [approvals EXCEPT ![t].signers = signers]
                               ELSE approvals

HttpApproveWrite(signers) ==
    /\ http["approve"].at = "write" /\ "holder" \in signers
    /\ AddTransactionPartials(http["approve"].tx, signers)
    /\ EndHandler("approve")
    /\ UNCHANGED <<keeperVars, sent, recovery, loop, snapshot, stuck, crashes>>

(* A revocation reads the row, asks the keeper with the id of the first    *)
(* approval, and fails the row if it is still initial.                     *)
RevocableRow(t) == Initial(t) /\ ~Signed(t, "holder") /\ keeper[t] # "none"

HttpRevokeRead(t) ==
    /\ Accepts("revoke")
    /\ RevocableRow(t)
    /\ Handle("revoke", "send", t, {})
    /\ UNCHANGED <<keeperVars, sent, rowVars, loop, snapshot, stuck, crashes>>

HttpRevokeSend ==
    LET t == http["revoke"].tx IN
    /\ http["revoke"].at = "send"
    /\ Send(<<t, 0>>, "revoke", t)
    /\ Handle("revoke", "write", t, {})
    /\ UNCHANGED <<keeperVars, rowVars, loop, snapshot, stuck, crashes>>

\* slip: the state of the row is not checked again
RevokeAnyApproval(t) == [approvals EXCEPT ![t].state = "Failed"]
RevokeTransactionApproval(t) ==
    IF Initial(t) THEN [approvals EXCEPT ![t].state = "Failed"] ELSE approvals

HttpRevokeWrite ==
    /\ http["revoke"].at = "write"
    /\ approvals' = RevokeTransactionApproval(http["revoke"].tx)
    /\ EndHandler("revoke")
    /\ UNCHANGED <<keeperVars, sent, recovery, loop, snapshot, stuck, crashes>>

-----------------------------------------------------------------------------
(* A recovery of a proposed transaction, which is the only unfinished one, *)
(* or of one that the holder made and signed, when there is none, perhaps  *)
(* with the observer.  The second has its own row, which is committed      *)
(* first.  What the handler checks on the chain, the amounts and the time  *)
(* lock, is part of what it takes as input.                                *)
SafeOpen == ~closed

RecoverableRow(t) ==
    \/ /\ t \in recoverable /\ Cardinality(Unfinished) = 1
       /\ Initial(t) /\ ~Signed(t, "holder") /\ keeper[t] # "none"
    \/ t \in Closings /\ Unfinished = {} /\ approvals[t].state = "none"

HttpCreateRecoveryRead(t) ==
    /\ Accepts("create") /\ SafeOpen
    /\ RecoverableRow(t)
    /\ Handle("create", IF t \in Closings THEN "approval" ELSE "recovery", t, {})
    /\ UNCHANGED <<keeperVars, sent, rowVars, loop, snapshot, stuck, crashes>>

WriteTransactionApprovalIfNotExists(signers) ==
    LET t == http["create"].tx IN
    /\ http["create"].at = "approval" /\ "holder" \in signers
    /\ approvals' = IF approvals[t].state # "none" THEN approvals
         ELSE [approvals EXCEPT ![t] = [@ EXCEPT !.state = "Initial", !.signers = signers]]
    /\ Handle("create", "recovery", t, {})
    /\ UNCHANGED <<keeperVars, sent, recovery, loop, snapshot, stuck, crashes>>

(* A safe has one row for ever; a second insertion is an error.            *)
WriteInitialRecovery ==
    /\ http["create"].at = "recovery"
    /\ recovery' = IF recovery.state # "none" THEN recovery
                   ELSE [state |-> "Initial", tx |-> http["create"].tx]
    /\ EndHandler("create")
    /\ UNCHANGED <<keeperVars, sent, approvals, loop, snapshot, stuck, crashes>>

(* The owner of the observer key signs the recovery.  When the row has the *)
(* signature of the holder, what they send must have it too.               *)
RecoveryRequested(t) == SafeOpen /\ recovery = [state |-> "Initial", tx |-> t]

SignableRow(t, signers) ==
    /\ Initial(t) /\ Cardinality(Unfinished) = 1
    /\ "observer" \in signers
    /\ IF Signed(t, "holder") THEN "holder" \in signers ELSE keeper[t] # "none"

HttpSignRecoveryRead(t, signers) ==
    /\ Accepts("sign")
    /\ RecoveryRequested(t) /\ SignableRow(t, signers)
    /\ Handle("sign", "write", t, signers)
    /\ UNCHANGED <<keeperVars, sent, rowVars, loop, snapshot, stuck, crashes>>

HttpSignRecoveryWrite ==
    LET t == http["sign"].tx IN
    /\ http["sign"].at = "write"
    /\ AddTransactionPartials(t, http["sign"].signers)
    /\ IF Initial(t) THEN Handle("sign", "state", t, {}) ELSE EndHandler("sign")
    /\ UNCHANGED <<keeperVars, sent, recovery, loop, snapshot, stuck, crashes>>

UpdateRecoveryPending ==
    /\ http["sign"].at = "state"
    /\ recovery' = IF recovery.state = "Initial" THEN [recovery EXCEPT !.state = "Pending"]
                                                 ELSE recovery
    /\ EndHandler("sign")
    /\ UNCHANGED <<keeperVars, sent, approvals, loop, snapshot, stuck, crashes>>

-----------------------------------------------------------------------------
\* slip: the row is finished instead of pending
MarkTransactionApprovalDone(t) == [approvals EXCEPT ![t].state = "Done"]
MarkTransactionApprovalPaid(t) == [approvals EXCEPT ![t].state = "Pending"]

(* The fee of an approval is a snapshot whose memo names the transaction.  *)
(* It may come at any time, and be handled again after a restart.  One     *)
(* that comes before the signature changes nothing.                        *)
HolderPayTransactionApproval(t) ==
    /\ SnapshotsRead /\ approvals[t].state # "none"
    /\ approvals' = IF Initial(t) /\ approvals[t].signers # {}
                    THEN MarkTransactionApprovalPaid(t) ELSE approvals
    /\ UNCHANGED <<keeperVars, sent, recovery, http, loop, snapshot, stuck, crashes>>

(* The approval loop: a pending row is read, sent, and sent again after    *)
(* the timeout with an id made from its time, which is then updated.       *)
\* slip: signed rows are listed before they are paid
ListedUnpaid(t) == approvals[t].state = "Pending" \/ (Initial(t) /\ approvals[t].signers # {})
Listed(t) == approvals[t].state = "Pending"

ListPendingTransactionApprovals(t) ==
    /\ loop = NoLoop /\ Listed(t)
    /\ loop' = [at |-> "send", tx |-> t, retries |-> approvals[t].retries]
    /\ UNCHANGED <<keeperVars, sent, rowVars, http, snapshot, stuck, crashes>>

(* A row without the signature of the observer is approved; with it the    *)
(* account is closed, through the signer or through the holder.            *)
Act(t) == CASE ~Signed(t, "observer") -> "approve"
            [] Signed(t, "observer") /\ ~Signed(t, "holder") -> "close"
            [] OTHER -> "close_holder"

CheckKeeperSignedTransaction(t) == Act(t) # "close_holder" /\ keeper[t] = "Done"

(* The id of a closing is made of the address and the receiver; all have   *)
(* the same receiver here.                                                 *)
FirstId(t) == IF Act(t) = "approve" THEN <<t, 0>> ELSE <<"close", 0>>
\* slip: a retry has the id of the first request
RetryIdOfFirst(t, n) == FirstId(t)
RetryId(t, n) == IF Act(t) = "approve" THEN <<t, n>> ELSE <<"close", t, n>>

Stop ==
    /\ http' = [k \in Kinds |-> NoHandler]
    /\ loop' = NoLoop
    /\ snapshot' = NoTx

(* An approval names the request of the keeper's transaction.  A closing   *)
(* that was paid before the observer signed it is sent as an approval, the *)
(* keeper has no such transaction, and the observer stops and starts again.*)
SendToKeeper ==
    LET t == loop.tx IN
    /\ loop.at = "send"
    /\ IF Act(t) = "approve" /\ keeper[t] = "none"
       THEN Stop /\ UNCHANGED sent
       ELSE /\ IF CheckKeeperSignedTransaction(t)
               THEN loop' = NoLoop /\ UNCHANGED sent
               ELSE /\ Send(FirstId(t), Act(t), t)
                    /\ loop' = [loop EXCEPT !.at = "timeout"]
            /\ UNCHANGED <<http, snapshot>>
    /\ UNCHANGED <<keeperVars, rowVars, stuck, crashes>>

(* Ten minutes have not passed, or they have.                              *)
NoTimeout ==
    /\ loop.at = "timeout" /\ loop' = NoLoop
    /\ UNCHANGED <<keeperVars, sent, rowVars, http, snapshot, stuck, crashes>>

SendAgain ==
    /\ loop.at = "timeout" /\ loop.retries < MaxRetries
    /\ Send(RetryId(loop.tx, loop.retries + 1), Act(loop.tx), loop.tx)
    /\ loop' = [loop EXCEPT !.at = "update"]
    /\ UNCHANGED <<keeperVars, rowVars, http, snapshot, stuck, crashes>>

RequestTime == loop.retries + 1

(* A row that was finished meanwhile is an error, at which the observer    *)
(* stops and starts again.                                                 *)
UpdateTransactionApprovalRequestTime ==
    LET t == loop.tx IN
    /\ loop.at = "update"
    /\ IF approvals[t].state = "Pending"
       THEN /\ approvals' = [approvals EXCEPT ![t].retries = RequestTime]
            /\ loop' = NoLoop
            /\ UNCHANGED <<http, snapshot>>
       ELSE Stop /\ UNCHANGED approvals
    /\ UNCHANGED <<keeperVars, sent, recovery, stuck, crashes>>

Crash ==
    /\ crashes < MaxCrashes /\ crashes' = crashes + 1
    /\ Stop
    /\ UNCHANGED <<keeperVars, sent, rowVars, stuck>>

-----------------------------------------------------------------------------
(* The keeper processes each request once, whatever its outcome.           *)
Request(q) == ~stopped /\ q \in sent /\ q.id \notin processed
Processed(q) == processed' = processed \cup {q.id}

KeeperRevokes(q) ==
    /\ Request(q) /\ q.act = "revoke"
    /\ keeper' = IF keeper[q.tx] = "Initial" THEN [keeper EXCEPT ![q.tx] = "Failed"] ELSE keeper
    /\ Processed(q)
    /\ UNCHANGED <<signing, closed, answers, stopped>>

(* A transaction that is done fails the request; one that failed stops the *)
(* keeper at the update of its row.                                        *)
KeeperApproves(q) ==
    /\ Request(q) /\ q.act = "approve"
    /\ \/ /\ keeper[q.tx] = "Done" /\ Processed(q)
          /\ UNCHANGED <<keeper, signing, stopped>>
       \/ /\ keeper[q.tx] \in {"Initial", "Pending"} /\ Processed(q)
          /\ keeper' = [keeper EXCEPT ![q.tx] = "Pending"]
          /\ signing' = signing \cup {q.tx}
          /\ UNCHANGED stopped
       \/ /\ keeper[q.tx] = "Failed" /\ stopped' = TRUE
          /\ UNCHANGED <<keeper, signing, processed>>
    /\ UNCHANGED <<closed, answers>>

(* The inputs or the balances are not those of the transaction any more,   *)
(* or the number of unfinished transactions is wrong.                      *)
KeeperRefusesToClose(q) ==
    /\ Request(q) /\ q.act \in {"close", "close_holder"}
    /\ Processed(q)
    /\ UNCHANGED <<keeper, signing, closed, answers, stopped>>

KeeperClosesWithSigner(q) ==
    /\ Request(q) /\ q.act = "close"
    /\ Cardinality(KeeperUnfinished) = 1 /\ keeper[q.tx] # "Done"
    /\ IF keeper[q.tx] = "Failed"
       THEN stopped' = TRUE /\ UNCHANGED <<keeper, signing, closed, processed>>
       ELSE /\ keeper' = [keeper EXCEPT ![q.tx] = "Pending"]
            /\ signing' = signing \cup {q.tx}
            /\ closed' = TRUE
            /\ Processed(q) /\ UNCHANGED stopped
    /\ UNCHANGED answers

(* A transaction that the keeper has is answered again, whatever its state;*)
(* a second closing of the safe stops the keeper.                          *)
KeeperClosesWithHolder(q) ==
    /\ Request(q) /\ q.act = "close_holder" /\ KeeperUnfinished = {}
    /\ \/ /\ keeper[q.tx] # "none" /\ Processed(q)
          /\ answers' = answers \cup {q.tx}
          /\ UNCHANGED <<keeper, closed, stopped>>
       \/ /\ keeper[q.tx] = "none" /\ ~closed /\ Processed(q)
          /\ keeper' = [keeper EXCEPT ![q.tx] = "Done"]
          /\ closed' = TRUE
          /\ answers' = answers \cup {q.tx}
          /\ UNCHANGED stopped
       \/ /\ keeper[q.tx] = "none" /\ closed /\ stopped' = TRUE
          /\ UNCHANGED <<keeper, closed, processed, answers>>
    /\ UNCHANGED signing

(* The signer group signed, and the keeper answers the observer.           *)
KeeperFinishes(t) ==
    /\ ~stopped /\ keeper[t] = "Pending" /\ t \in signing
    /\ keeper' = [keeper EXCEPT ![t] = "Done"]
    /\ signing' = signing \ {t}
    /\ answers' = answers \cup {t}
    /\ UNCHANGED <<closed, processed, stopped>>

(* The signer group fails, and says nothing.  The last time that the       *)
(* observer sends the approval again it does not, since the retries are    *)
(* bounded here only.                                                      *)
SignerFails(t) ==
    /\ t \in signing /\ \A q \in sent : q.id # <<t, MaxRetries>>
    /\ signing' = signing \ {t}
    /\ UNCHANGED <<keeper, closed, processed, answers, stopped>>

(* The answer is a snapshot.  On Bitcoin a recovery needs the signatures   *)
(* of holder and observer, or of observer and signer, and any other        *)
(* transaction those of holder and signer; else it is an error.  The row of  *)
(* the recovery is finished first, whatever transaction it is about, and   *)
(* one that is finished already is an error.  The loop meets a snapshot    *)
(* with an error again for ever.                                           *)
SignedAsExpected(t) ==
    Bitcoin => \/ /\ t \in recoverable \cup Closings /\ Signed(t, "observer")
                  /\ Signed(t, "holder") \/ keeper[t] = "Done"
               \/ t \in Txs \ recoverable /\ Signed(t, "holder") /\ keeper[t] = "Done"

HandleKeeperResponse(t) == SnapshotsRead /\ t \in answers

UpdateRecoveryState ==
    IF recovery.state = "none" THEN recovery ELSE [recovery EXCEPT !.state = "Done"]

KeeperCombineTransactionSignatures(t) ==
    /\ HandleKeeperResponse(t)
    /\ approvals[t].state \in {"Initial", "Pending"}
    /\ IF ~SignedAsExpected(t)
       THEN stuck' = "signatures" /\ UNCHANGED <<recovery, snapshot>>
       ELSE IF recovery.state = "Done"
       THEN stuck' = "recovery" /\ UNCHANGED <<recovery, snapshot>>
       ELSE /\ recovery' = UpdateRecoveryState
            /\ snapshot' = t
            /\ UNCHANGED stuck
    /\ UNCHANGED <<keeperVars, sent, approvals, http, loop, crashes>>

FinishTransactionSignatures ==
    /\ snapshot # NoTx
    /\ approvals' = [approvals EXCEPT ![snapshot].state = "Done"]
    /\ snapshot' = NoTx
    /\ UNCHANGED <<keeperVars, sent, recovery, http, loop, stuck, crashes>>

-----------------------------------------------------------------------------
HttpStep ==
    \/ \E t \in Hashes : HttpApproveRead(t) \/ HttpRevokeRead(t) \/ HttpCreateRecoveryRead(t)
    \/ \E signers \in SUBSET {"holder", "observer"} :
           \/ HttpApproveWrite(signers)
           \/ WriteTransactionApprovalIfNotExists(signers)
           \/ \E t \in Hashes : HttpSignRecoveryRead(t, signers)
    \/ HttpRevokeSend \/ HttpRevokeWrite \/ WriteInitialRecovery
    \/ HttpSignRecoveryWrite \/ UpdateRecoveryPending

LoopRest == SendToKeeper \/ NoTimeout \/ UpdateTransactionApprovalRequestTime

KeeperStep ==
    /\ \/ \E q \in sent : \/ KeeperRevokes(q) \/ KeeperApproves(q)
                          \/ KeeperRefusesToClose(q)
                          \/ KeeperClosesWithSigner(q) \/ KeeperClosesWithHolder(q)
       \/ \E t \in Txs : KeeperFinishes(t) \/ SignerFails(t)
    /\ UNCHANGED <<recoverable, sent, rowVars, http, loop, snapshot, stuck, crashes>>

Next ==
    \/ \E t \in Txs : \/ \E recoveries \in {{}, {t}} : Propose(t, recoveries)
                      \/ KeeperSaveTransactionProposal(t)
    \/ \E t \in Hashes : \/ HolderPayTransactionApproval(t)
                         \/ ListPendingTransactionApprovals(t)
                         \/ KeeperCombineTransactionSignatures(t)
    \/ FinishTransactionSignatures
    \/ HttpStep \/ LoopRest \/ SendAgain \/ KeeperStep
    \/ Crash

(* A round of the approval loop visits every pending row, its timeout      *)
(* passes in one of the rounds, snapshots are handled in their order, and  *)
(* the keeper and the signer group process what they were sent.            *)
Fairness ==
    /\ \A t \in Txs : /\ SF_vars(ListPendingTransactionApprovals(t))
                      /\ SF_vars(loop.tx = t /\ SendAgain)
                      /\ WF_vars(KeeperCombineTransactionSignatures(t))
    /\ WF_vars(FinishTransactionSignatures)
    /\ WF_vars(LoopRest) /\ WF_vars(KeeperStep)

Spec == Init /\ [][Next]_vars /\ Fairness

-----------------------------------------------------------------------------
TypeOK ==
    /\ keeper \in [Hashes -> {"none", "Initial", "Pending", "Done", "Failed"}]
    /\ signing \subseteq Hashes /\ closed \in BOOLEAN /\ stopped \in BOOLEAN
    /\ \A q \in sent : q.tx \in Hashes /\ q.act \in {"approve", "revoke", "close", "close_holder"}
    /\ processed \subseteq {q.id : q \in sent}
    /\ answers \subseteq Hashes /\ recoverable \subseteq Txs
    /\ approvals \in [Hashes -> ApprovalRow]
    /\ recovery \in [state: {"none", "Initial", "Pending", "Done"}, tx: Hashes \cup {NoTx}]
    /\ http \in [Kinds -> [at: {"idle", "send", "write", "approval", "recovery", "state"},
                           tx: Hashes \cup {NoTx}, signers: SUBSET {"holder", "observer"}]]
    /\ loop \in [at: {"list", "send", "timeout", "update"}, tx: Hashes \cup {NoTx},
                 retries: 0..MaxRetries]
    /\ snapshot \in Hashes \cup {NoTx}
    /\ stuck \in {"no", "signatures", "recovery"}
    /\ crashes \in 0..MaxCrashes

(* A transaction that the observer reports as revoked is never signed: the *)
(* row was initial when it was failed, so no approval of it was sent.      *)
RevokedIsNotSigned ==
    \A t \in Hashes : approvals[t].state = "Failed" => keeper[t] \in {"Initial", "Failed"}

(* The keeper stops at an approval of a revoked transaction only when the  *)
(* observer holds the transaction as paid: the revocation reached the      *)
(* keeper, and the row was paid before the handler failed it, or the       *)
(* observer stopped in between.                                            *)
StopsAtHalfRevoked ==
    stopped => \/ closed
               \/ \E t \in Hashes : keeper[t] = "Failed" /\ approvals[t].state = "Pending"

(* A transaction that the observer finished, which it then broadcasts, is  *)
(* one that the keeper signed, or one that both of the holder's keys       *)
(* signed.                                                                 *)
FinishedIsSigned ==
    \A t \in Hashes : approvals[t].state = "Done" =>
        keeper[t] = "Done" \/ {"holder", "observer"} \subseteq approvals[t].signers

(* What was paid to be approved is signed in the end, over stops of the    *)
(* observer and failures of the signer group, unless the keeper stopped,   *)
(* the loop of snapshots is stuck, or a closing was paid that the observer *)
(* did not sign, at which the approval loop stops in every round.          *)
PaidIsFinished ==
    \A t \in Txs : approvals[t].state = "Pending" /\ ~Signed(t, "observer") ~>
        \/ approvals[t].state = "Done" \/ stopped \/ stuck # "no"
        \/ \E c \in Closings : approvals[c].state = "Pending" /\ ~Signed(c, "observer")

(* The observer handles every snapshot: the update of a recovery in        *)
(* UpdateRecoveryState always finds one row.                               *)
RecoveryUpdates == stuck # "recovery"

(* The keeper finds the row of every transaction that it is told to sign.  *)
KeeperGoesOn == ~stopped
=============================================================================
