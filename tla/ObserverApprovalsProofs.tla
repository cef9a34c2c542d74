----------------------- MODULE ObserverApprovalsProofs -----------------------
(***************************************************************************)
(* What ObserverApprovals promises of the transactions of a safe, proved   *)
(* for every set of transactions and every number of retries and stops.    *)
(***************************************************************************)
EXTENDS ObserverApprovals, TLAPS

Both == {"holder", "observer"}
Paid(t) == approvals[t].state \in {"Pending", "Done"}

(* What a handler holds between reading and writing: a revocation is of a  *)
(* transaction that the keeper has.                                        *)
HandlerInv ==
    /\ \A k \in Kinds : http[k].at # "idle" => http[k].tx \in Hashes
    /\ http["revoke"].at # "idle" => keeper[http["revoke"].tx] # "none"

(* What the approval loop sends is of a row that is paid, with the         *)
(* signatures that the kind of the request says.  A paid row keeps them.   *)
LoopInv ==
    /\ loop.at # "list" => loop.tx \in Hashes /\ Paid(loop.tx)
    /\ loop.at = "update" => loop.retries < MaxRetries
    /\ \A q \in sent : q.act # "revoke" => Paid(q.tx)
    /\ \A q \in sent : q.act = "close_holder" => Both \subseteq approvals[q.tx].signers
    /\ \A q \in sent : q.act \in {"approve", "close"} => ~(Both \subseteq approvals[q.tx].signers)

(* The keeper signs what is paid, and answers what it signed or what both  *)
(* of the holder's keys signed.                                            *)
AnswerInv ==
    /\ \A t \in Hashes : keeper[t] \in {"Pending", "Done"} => Paid(t)
    /\ \A t \in answers : Paid(t) /\ (keeper[t] = "Done" \/ Both \subseteq approvals[t].signers)
    /\ snapshot # NoTx => snapshot \in answers

(* The transaction at which the keeper stops stays paid and unanswered.    *)
StopInv ==
    stopped => \/ closed
               \/ \E t \in Hashes : /\ keeper[t] = "Failed" /\ approvals[t].state = "Pending"
                                    /\ ~(Both \subseteq approvals[t].signers)

ApprovalInv ==
    /\ TypeOK
    /\ HandlerInv
    /\ LoopInv
    /\ AnswerInv
    /\ StopInv
    /\ RevokedIsNotSigned
    /\ FinishedIsSigned

-----------------------------------------------------------------------------
(* A row of the observer's table after its state is written.               *)
LEMMA StateWritten ==
    ASSUME approvals \in [Hashes -> ApprovalRow], NEW t \in Hashes,
           NEW s \in {"none", "Initial", "Pending", "Done", "Failed"}
    PROVE  [approvals EXCEPT ![t].state = s] \in [Hashes -> ApprovalRow]
  BY Zenon DEF ApprovalRow

(* A row of the observer's table after its raw transaction is written.     *)
LEMMA SignersWritten ==
    ASSUME approvals \in [Hashes -> ApprovalRow], NEW t \in Hashes,
           NEW S \in SUBSET {"holder", "observer"}
    PROVE  /\ [approvals EXCEPT ![t].signers = S] \in [Hashes -> ApprovalRow]
           /\ [approvals EXCEPT ![t] = [@ EXCEPT !.state = "Initial", !.signers = S]]
                \in [Hashes -> ApprovalRow]
  BY Zenon DEF ApprovalRow

(* A row of the observer's table after its time is written.                *)
LEMMA RetriesWritten ==
    ASSUME approvals \in [Hashes -> ApprovalRow], NEW t \in Hashes, NEW n \in 0..MaxRetries
    PROVE  [approvals EXCEPT ![t].retries = n] \in [Hashes -> ApprovalRow]
  BY Zenon DEF ApprovalRow

(* A stop of the observer ends its handlers and its loops.                 *)
LEMMA StopTypes ==
    ASSUME Stop
    PROVE  /\ http' \in [Kinds -> [at: {"idle", "send", "write", "approval", "recovery", "state"},
                                  tx: Hashes \cup {NoTx}, signers: SUBSET {"holder", "observer"}]]
           /\ loop' \in [at: {"list", "send", "timeout", "update"}, tx: Hashes \cup {NoTx},
                         retries: 0..MaxRetries]
           /\ snapshot' = NoTx /\ loop'.at = "list" /\ \A k \in Kinds : http'[k].at = "idle"
  BY ConstantsOK DEF Stop, NoHandler, NoLoop

(* A handler that goes on, or ends.                                        *)
LEMMA HandlerTypes ==
    ASSUME TypeOK, NEW k \in Kinds, NEW t \in Hashes, NEW S \in SUBSET {"holder", "observer"},
           NEW at \in {"send", "write", "approval", "recovery", "state"},
           Handle(k, at, t, S) \/ EndHandler(k)
    PROVE  /\ http' \in [Kinds -> [at: {"idle", "send", "write", "approval", "recovery", "state"},
                                  tx: Hashes \cup {NoTx}, signers: SUBSET {"holder", "observer"}]]
           /\ \A j \in Kinds : j # k => http'[j] = http[j]
           /\ http'[k].at # "idle" => http'[k].tx = t
  BY DEF TypeOK, Handle, EndHandler, NoHandler

(* What a request adds to the requests that were sent.                     *)
LEMMA SendAdds ==
    ASSUME NEW id, NEW act, NEW t, Send(id, act, t)
    PROVE  /\ sent \subseteq sent'
           /\ \A q \in sent' : q \in sent \/ (q.act = act /\ q.tx = t)
  BY DEF Send

-----------------------------------------------------------------------------
(* The handlers of HTTP requests, each of which reads or writes a row.     *)
LEMMA HttpTypes ==
    ASSUME TypeOK, HandlerInv, HttpStep
    PROVE  TypeOK'
<1> DEFINE Rest == UNCHANGED <<keeperVars, loop, snapshot, stuck, crashes>>
<1>1. ASSUME Rest, sent' = sent, approvals' \in [Hashes -> ApprovalRow],
             recovery' \in [state: {"none", "Initial", "Pending", "Done"}, tx: Hashes \cup {NoTx}],
             http' \in [Kinds -> [at: {"idle", "send", "write", "approval", "recovery", "state"},
                                 tx: Hashes \cup {NoTx}, signers: SUBSET {"holder", "observer"}]]
      PROVE  TypeOK'
  BY <1>1, Zenon DEF TypeOK, keeperVars
<1>2. approvals \in [Hashes -> ApprovalRow]
      /\ recovery \in [state: {"none", "Initial", "Pending", "Done"}, tx: Hashes \cup {NoTx}]
  BY DEF TypeOK
<1>3. {"approve", "revoke", "create", "sign"} = Kinds /\ {} \in SUBSET {"holder", "observer"}
  BY DEF Kinds
<1>4. ASSUME NEW t \in Hashes, HttpApproveRead(t) PROVE TypeOK'
  BY <1>1, <1>2, <1>3, <1>4, HandlerTypes DEF HttpApproveRead, rowVars
<1>5. ASSUME NEW t \in Hashes, HttpRevokeRead(t) PROVE TypeOK'
  BY <1>1, <1>2, <1>3, <1>5, HandlerTypes DEF HttpRevokeRead, rowVars
<1>6. ASSUME NEW t \in Hashes, HttpCreateRecoveryRead(t) PROVE TypeOK'
  BY <1>1, <1>2, <1>3, <1>6, HandlerTypes DEF HttpCreateRecoveryRead, rowVars
<1>7. ASSUME NEW t \in Hashes, NEW S \in SUBSET {"holder", "observer"}, HttpSignRecoveryRead(t, S)
      PROVE  TypeOK'
  BY <1>1, <1>2, <1>3, <1>7, HandlerTypes DEF HttpSignRecoveryRead, rowVars
<1>8. ASSUME NEW S \in SUBSET {"holder", "observer"}, HttpApproveWrite(S) PROVE TypeOK'
  <2>1. http["approve"].tx \in Hashes
    BY <1>3, <1>8 DEF HttpApproveWrite, HandlerInv
  <2>2. approvals' \in [Hashes -> ApprovalRow]
    BY <1>2, <1>8, <2>1, SignersWritten, Zenon DEF HttpApproveWrite, AddTransactionPartials
  <2> QED
    BY <1>1, <1>2, <1>3, <1>8, <2>1, <2>2, HandlerTypes, Zenon DEF HttpApproveWrite
<1>9. CASE HttpRevokeSend
  <2>1. http["revoke"].tx \in Hashes
    BY <1>3, <1>9 DEF HttpRevokeSend, HandlerInv
  <2>2. http' \in [Kinds -> [at: {"idle", "send", "write", "approval", "recovery", "state"},
                            tx: Hashes \cup {NoTx}, signers: SUBSET {"holder", "observer"}]]
    BY <1>3, <1>9, <2>1, HandlerTypes DEF HttpRevokeSend
  <2>3. /\ sent \subseteq sent'
        /\ \A q \in sent' : q \in sent \/ (q.act = "revoke" /\ q.tx = http["revoke"].tx)
    BY <1>9, SendAdds DEF HttpRevokeSend
  <2> QED
    BY <1>9, <2>1, <2>2, <2>3 DEF HttpRevokeSend, TypeOK, keeperVars, rowVars
<1>10. CASE HttpRevokeWrite
  <2>1. http["revoke"].tx \in Hashes
    BY <1>3, <1>10 DEF HttpRevokeWrite, HandlerInv
  <2>2. approvals' \in [Hashes -> ApprovalRow]
    BY <1>2, <1>10, <2>1, StateWritten, Zenon DEF HttpRevokeWrite, RevokeTransactionApproval
  <2> QED
    BY <1>1, <1>2, <1>3, <1>10, <2>1, <2>2, HandlerTypes, Zenon DEF HttpRevokeWrite
<1>11. ASSUME NEW S \in SUBSET {"holder", "observer"}, WriteTransactionApprovalIfNotExists(S)
       PROVE  TypeOK'
  <2>1. http["create"].tx \in Hashes
    BY <1>3, <1>11 DEF WriteTransactionApprovalIfNotExists, HandlerInv
  <2>2. approvals' \in [Hashes -> ApprovalRow]
    BY <1>2, <1>11, <2>1, SignersWritten, Zenon DEF WriteTransactionApprovalIfNotExists
  <2> QED
    BY <1>1, <1>2, <1>3, <1>11, <2>1, <2>2, HandlerTypes DEF WriteTransactionApprovalIfNotExists
<1>12. CASE WriteInitialRecovery
  <2>1. http["create"].tx \in Hashes
    BY <1>3, <1>12 DEF WriteInitialRecovery, HandlerInv
  <2> QED
    BY <1>1, <1>2, <1>3, <1>12, <2>1, HandlerTypes, Zenon DEF WriteInitialRecovery
<1>13. CASE HttpSignRecoveryWrite
  <2>1. http["sign"].tx \in Hashes /\ http["sign"].signers \in SUBSET {"holder", "observer"}
    BY <1>3, <1>13 DEF HttpSignRecoveryWrite, HandlerInv, TypeOK
  <2>2. approvals' \in [Hashes -> ApprovalRow]
    BY <1>2, <1>13, <2>1, SignersWritten, Zenon DEF HttpSignRecoveryWrite, AddTransactionPartials
  <2> QED
    BY <1>1, <1>2, <1>3, <1>13, <2>1, <2>2, HandlerTypes, Zenon DEF HttpSignRecoveryWrite
<1>14. CASE UpdateRecoveryPending
  <2>1. http["sign"].tx \in Hashes
    BY <1>3, <1>14 DEF UpdateRecoveryPending, HandlerInv
  <2> QED
    BY <1>1, <1>2, <1>3, <1>14, <2>1, HandlerTypes, Zenon DEF UpdateRecoveryPending
<1> QED
  BY <1>4, <1>5, <1>6, <1>7, <1>8, <1>9, <1>10, <1>11, <1>12, <1>13, <1>14, Zenon DEF HttpStep

(* The loops, the snapshots and the keeper.                                *)
LEMMA TypeStep ==
    ASSUME TypeOK, HandlerInv, LoopInv, Next
    PROVE  TypeOK'
<1> USE DEF TypeOK, keeperVars, rowVars
<1>1. ASSUME NEW t \in Txs, NEW R \in {{}, {t}}, Propose(t, R) PROVE TypeOK'
  BY <1>1 DEF Propose, Hashes
<1>2. ASSUME NEW t \in Txs, KeeperSaveTransactionProposal(t) PROVE TypeOK'
  <2>1. approvals' \in [Hashes -> ApprovalRow]
    BY <1>2, StateWritten, Zenon DEF KeeperSaveTransactionProposal, Hashes
  <2> QED
    BY <1>2, <2>1 DEF KeeperSaveTransactionProposal
<1>4. ASSUME NEW t \in Hashes, HolderPayTransactionApproval(t) PROVE TypeOK'
  <2>1. approvals' \in [Hashes -> ApprovalRow]
    BY <1>4, StateWritten, Zenon DEF HolderPayTransactionApproval, MarkTransactionApprovalPaid
  <2> QED
    BY <1>4, <2>1 DEF HolderPayTransactionApproval
<1>5. ASSUME NEW t \in Hashes, ListPendingTransactionApprovals(t) PROVE TypeOK'
  BY <1>5 DEF ListPendingTransactionApprovals, ApprovalRow
<1>6. ASSUME NEW t \in Hashes, KeeperCombineTransactionSignatures(t) PROVE TypeOK'
  <2>1. recovery' \in [state: {"none", "Initial", "Pending", "Done"}, tx: Hashes \cup {NoTx}]
    BY <1>6 DEF KeeperCombineTransactionSignatures, UpdateRecoveryState
  <2>2. snapshot' \in Hashes \cup {NoTx} /\ stuck' \in {"no", "signatures", "recovery"}
    BY <1>6 DEF KeeperCombineTransactionSignatures
  <2> QED
    BY <1>6, <2>1, <2>2 DEF KeeperCombineTransactionSignatures
<1>7. CASE FinishTransactionSignatures
  <2>1. approvals' \in [Hashes -> ApprovalRow]
    BY <1>7, StateWritten, Zenon DEF FinishTransactionSignatures
  <2> QED
    BY <1>7, <2>1 DEF FinishTransactionSignatures
<1>8. CASE HttpStep
  BY <1>8, HttpTypes, Zenon
<1>9. ASSUME NEW id, loop.at # "list", Send(id, Act(loop.tx), loop.tx), UNCHANGED processed
      PROVE  /\ \A q \in sent' : /\ q.tx \in Hashes
                                 /\ q.act \in {"approve", "revoke", "close", "close_holder"}
             /\ processed' \subseteq {q.id : q \in sent'}
  <2>1. /\ sent \subseteq sent'
        /\ \A q \in sent' : q \in sent \/ (q.act = Act(loop.tx) /\ q.tx = loop.tx)
    BY <1>9, SendAdds
  <2>2. Act(loop.tx) \in {"approve", "revoke", "close", "close_holder"}
    BY DEF Act
  <2> QED
    BY <1>9, <2>1, <2>2 DEF LoopInv
<1>10. CASE SendToKeeper
  <2>1. CASE Act(loop.tx) = "approve" /\ keeper[loop.tx] = "none"
    BY <1>10, <2>1, StopTypes DEF SendToKeeper
  <2>2. CASE ~(Act(loop.tx) = "approve" /\ keeper[loop.tx] = "none")
    <3>1. CASE CheckKeeperSignedTransaction(loop.tx)
      BY <1>10, <2>2, <3>1, ConstantsOK DEF SendToKeeper, NoLoop
    <3>2. CASE ~CheckKeeperSignedTransaction(loop.tx)
      <4>1. Send(FirstId(loop.tx), Act(loop.tx), loop.tx) /\ loop' = [loop EXCEPT !.at = "timeout"]
        BY <1>10, <2>2, <3>2, Zenon DEF SendToKeeper
      <4> QED
        BY <1>9, <1>10, <2>2, <4>1 DEF SendToKeeper
    <3> QED
      BY <3>1, <3>2
  <2> QED
    BY <2>1, <2>2
<1>11. CASE NoTimeout
  BY <1>11, ConstantsOK DEF NoTimeout, NoLoop
<1>12. CASE UpdateTransactionApprovalRequestTime
  <2>1. CASE approvals[loop.tx].state = "Pending"
    <3>1. loop.tx \in Hashes /\ RequestTime \in 0..MaxRetries
      BY <1>12, ConstantsOK DEF UpdateTransactionApprovalRequestTime, LoopInv, RequestTime
    <3>2. approvals' \in [Hashes -> ApprovalRow]
      <4>1. approvals' = [approvals EXCEPT ![loop.tx].retries = RequestTime]
        BY <1>12, <2>1, Zenon DEF UpdateTransactionApprovalRequestTime
      <4> QED
        BY <3>1, <4>1, RetriesWritten
    <3> QED
      BY <1>12, <2>1, <3>2, ConstantsOK DEF UpdateTransactionApprovalRequestTime, NoLoop
  <2>2. CASE approvals[loop.tx].state # "Pending"
    BY <1>12, <2>2, StopTypes DEF UpdateTransactionApprovalRequestTime
  <2> QED
    BY <2>1, <2>2
<1>13. CASE SendAgain
  BY <1>9, <1>13 DEF SendAgain
<1>14. CASE Crash
  BY <1>14, StopTypes, ConstantsOK DEF Crash
<1>15. CASE KeeperStep
  <2> DEFINE States == {"none", "Initial", "Pending", "Done", "Failed"}
  <2>1. ASSUME keeper' \in [Hashes -> States], closed' \in BOOLEAN, stopped' \in BOOLEAN,
               processed' \subseteq {q.id : q \in sent}, answers' \subseteq Hashes,
               signing' \subseteq Hashes
        PROVE  TypeOK'
    BY <1>15, <2>1, Zenon DEF KeeperStep
  <2>2. ASSUME NEW q \in sent, Processed(q) \/ UNCHANGED processed
        PROVE  processed' \subseteq {r.id : r \in sent}
    BY <2>2 DEF Processed
  <2>3. ASSUME NEW t \in Hashes, NEW s \in States, keeper' \in {keeper, [keeper EXCEPT ![t] = s]}
        PROVE  keeper' \in [Hashes -> States]
    BY <2>3
  <2>4. ASSUME NEW q \in sent, KeeperRevokes(q) PROVE TypeOK'
    BY <2>4, <2>1, <2>2, <2>3 DEF KeeperRevokes
  <2>5. ASSUME NEW q \in sent, KeeperApproves(q) PROVE TypeOK'
    <3>1. q.tx \in Hashes
      BY <2>5, Zenon
    <3>2. keeper' \in [Hashes -> States]
      BY <2>5, <2>3, <3>1 DEF KeeperApproves
    <3>3. processed' \subseteq {r.id : r \in sent}
      BY <2>5, <2>2, Zenon DEF KeeperApproves
    <3>4. closed' \in BOOLEAN /\ stopped' \in BOOLEAN /\ answers' \subseteq Hashes
          /\ signing' \subseteq Hashes
      BY <2>5, <3>1, Zenon DEF KeeperApproves
    <3> QED
      BY <2>1, <3>2, <3>3, <3>4, Zenon
  <2>6. ASSUME NEW q \in sent, KeeperRefusesToClose(q) PROVE TypeOK'
    BY <2>6, <2>1, <2>2 DEF KeeperRefusesToClose
  <2>7. ASSUME NEW q \in sent, KeeperClosesWithSigner(q) PROVE TypeOK'
    <3>1. q.tx \in Hashes
      BY <2>7, Zenon
    <3>2. keeper' \in [Hashes -> States]
      BY <2>7, <2>3, <3>1 DEF KeeperClosesWithSigner
    <3>3. processed' \subseteq {r.id : r \in sent}
      BY <2>7, <2>2, Zenon DEF KeeperClosesWithSigner
    <3>4. closed' \in BOOLEAN /\ stopped' \in BOOLEAN /\ answers' \subseteq Hashes
          /\ signing' \subseteq Hashes
      <4>1. CASE keeper[q.tx] = "Failed"
        BY <2>7, <4>1, Zenon DEF KeeperClosesWithSigner
      <4>2. CASE keeper[q.tx] # "Failed"
        <5>1. closed' = TRUE /\ signing' = signing \cup {q.tx} /\ UNCHANGED <<stopped, answers>>
          BY <2>7, <4>2, Zenon DEF KeeperClosesWithSigner
        <5> QED
          BY <5>1, <3>1, Zenon
      <4> QED
        BY <4>1, <4>2, Zenon
    <3> QED
      BY <2>1, <3>2, <3>3, <3>4, Zenon
  <2>8. ASSUME NEW q \in sent, KeeperClosesWithHolder(q) PROVE TypeOK'
    <3>1. q.tx \in Hashes
      BY <2>8, Zenon
    <3>2. keeper' \in [Hashes -> States]
      BY <2>8, <2>3, <3>1 DEF KeeperClosesWithHolder
    <3>3. processed' \subseteq {r.id : r \in sent}
      BY <2>8, <2>2, Zenon DEF KeeperClosesWithHolder
    <3>4. closed' \in BOOLEAN /\ stopped' \in BOOLEAN /\ answers' \subseteq Hashes
          /\ signing' \subseteq Hashes
      BY <2>8, <3>1, Zenon DEF KeeperClosesWithHolder
    <3> QED
      BY <2>1, <3>2, <3>3, <3>4, Zenon
  <2>9. ASSUME NEW t \in Txs, KeeperFinishes(t) PROVE TypeOK'
    BY <2>9, <2>1, <2>3 DEF KeeperFinishes, Hashes
  <2>10. ASSUME NEW t \in Txs, SignerFails(t) PROVE TypeOK'
    BY <2>10, <2>1, Zenon DEF SignerFails
  <2> QED
    BY <1>15, <2>4, <2>5, <2>6, <2>7, <2>8, <2>9, <2>10, Zenon DEF KeeperStep
<1> QED
  BY <1>1, <1>2, <1>4, <1>5, <1>6, <1>7, <1>8, <1>10, <1>11, <1>12, <1>13, <1>14, <1>15,
     Zenon DEF Next, LoopRest

-----------------------------------------------------------------------------
(* What a step may do to a row of the observer's table: a row that is paid *)
(* stays paid with the signatures it has, only an initial row of a         *)
(* transaction that the keeper has fails, and only an answer finishes one. *)
RowMoves(t) ==
    /\ Paid(t) => approvals'[t].state \in {"Pending", "Done"}
                  /\ approvals'[t].signers = approvals[t].signers
    /\ approvals'[t].state = "Failed" => \/ approvals[t].state = "Failed"
                                         \/ ~Paid(t) /\ keeper[t] # "none"
    /\ approvals'[t].state = "Done" => approvals[t].state = "Done" \/ t \in answers
    /\ approvals[t].state = "Pending" => approvals'[t].state = "Pending" \/ t \in answers

(* A step that writes at most one row moves the others not at all.         *)
LEMMA OneRow ==
    ASSUME NEW t \in Hashes, RowMoves(t), NEW r, approvals \in [Hashes -> ApprovalRow],
           approvals' = [approvals EXCEPT ![t] = r]
    PROVE  \A u \in Hashes : RowMoves(u)
<1>1. ASSUME NEW u \in Hashes, u # t PROVE RowMoves(u)
  <2>1. approvals'[u] = approvals[u]
    BY <1>1
  <2> QED
    BY <2>1 DEF RowMoves, Paid
<1> QED
  BY <1>1

(* A step that leaves the table alone.                                     *)
LEMMA NoRow ==
    ASSUME approvals' = approvals
    PROVE  \A u \in Hashes : RowMoves(u)
  BY DEF RowMoves, Paid

(* Every step moves every row as it may.                                   *)
LEMMA RowsMove ==
    ASSUME TypeOK, HandlerInv, LoopInv, AnswerInv, Next
    PROVE  \A u \in Hashes : RowMoves(u)
<1>0. approvals \in [Hashes -> ApprovalRow]
  BY DEF TypeOK
<1>1. ASSUME NEW t \in Txs, KeeperSaveTransactionProposal(t) PROVE \A u \in Hashes : RowMoves(u)
  <2>1. t \in Hashes /\ approvals' = [approvals EXCEPT ![t] = [@ EXCEPT !.state = "Initial"]]
    BY <1>0, <1>1 DEF KeeperSaveTransactionProposal, Hashes, ApprovalRow
  <2>2. RowMoves(t)
    BY <1>0, <1>1, <2>1 DEF KeeperSaveTransactionProposal, RowMoves, Paid, ApprovalRow
  <2> QED
    BY <1>0, <2>1, <2>2, OneRow, Zenon
<1>2. ASSUME NEW t \in Hashes, HolderPayTransactionApproval(t) PROVE \A u \in Hashes : RowMoves(u)
  <2>1. CASE Initial(t) /\ approvals[t].signers # {}
    <3>1. approvals' = [approvals EXCEPT ![t] = [@ EXCEPT !.state = "Pending"]]
      BY <1>0, <1>2, <2>1 DEF HolderPayTransactionApproval, MarkTransactionApprovalPaid
    <3>2. RowMoves(t)
      BY <1>0, <2>1, <3>1 DEF RowMoves, Paid, Initial, ApprovalRow
    <3> QED
      BY <1>0, <3>1, <3>2, OneRow, Zenon
  <2>2. CASE ~(Initial(t) /\ approvals[t].signers # {})
    BY <1>2, <2>2, NoRow, Zenon DEF HolderPayTransactionApproval
  <2> QED
    BY <2>1, <2>2
<1>3. ASSUME NEW k \in Kinds, http[k].at # "idle", NEW S, AddTransactionPartials(http[k].tx, S)
      PROVE  \A u \in Hashes : RowMoves(u)
  <2>0. http[k].tx \in Hashes
    BY <1>3 DEF HandlerInv
  <2>1. CASE Initial(http[k].tx)
    <3>1. approvals' = [approvals EXCEPT ![http[k].tx] = [@ EXCEPT !.signers = S]]
      BY <1>0, <1>3, <2>1 DEF AddTransactionPartials
    <3>2. RowMoves(http[k].tx)
      BY <1>0, <2>0, <2>1, <3>1 DEF RowMoves, Paid, Initial, ApprovalRow
    <3> QED
      BY <1>0, <2>0, <3>1, <3>2, OneRow, Zenon
  <2>2. CASE ~Initial(http[k].tx)
    BY <1>3, <2>2, NoRow, Zenon DEF AddTransactionPartials
  <2> QED
    BY <2>1, <2>2
<1>4. ASSUME NEW S, HttpApproveWrite(S) PROVE \A u \in Hashes : RowMoves(u)
  BY <1>3, <1>4 DEF HttpApproveWrite, Kinds
<1>5. CASE HttpSignRecoveryWrite
  BY <1>3, <1>5 DEF HttpSignRecoveryWrite, Kinds
<1>6. CASE HttpRevokeWrite
  <2> DEFINE t == http["revoke"].tx
  <2>0. t \in Hashes /\ keeper[t] # "none"
    BY <1>6 DEF HttpRevokeWrite, HandlerInv, Kinds
  <2>1. CASE Initial(t)
    <3>1. approvals' = [approvals EXCEPT ![t] = [@ EXCEPT !.state = "Failed"]]
      BY <1>0, <1>6, <2>1 DEF HttpRevokeWrite, RevokeTransactionApproval
    <3>2. RowMoves(t)
      BY <1>0, <2>0, <2>1, <3>1 DEF RowMoves, Paid, Initial, ApprovalRow
    <3> QED
      BY <1>0, <2>0, <3>1, <3>2, OneRow, Zenon
  <2>2. CASE ~Initial(t)
    BY <1>6, <2>2, NoRow, Zenon DEF HttpRevokeWrite, RevokeTransactionApproval
  <2> QED
    BY <2>1, <2>2
<1>7. ASSUME NEW S, WriteTransactionApprovalIfNotExists(S) PROVE \A u \in Hashes : RowMoves(u)
  <2> DEFINE t == http["create"].tx
  <2>0. t \in Hashes
    BY <1>7 DEF WriteTransactionApprovalIfNotExists, HandlerInv, Kinds
  <2>1. CASE approvals[t].state = "none"
    <3>1. approvals' = [approvals EXCEPT ![t] = [@ EXCEPT !.state = "Initial", !.signers = S]]
      BY <1>7, <2>1, Zenon DEF WriteTransactionApprovalIfNotExists
    <3>2. RowMoves(t)
      BY <1>0, <2>0, <2>1, <3>1 DEF RowMoves, Paid, ApprovalRow
    <3> QED
      BY <1>0, <2>0, <3>1, <3>2, OneRow, Zenon
  <2>2. CASE approvals[t].state # "none"
    BY <1>7, <2>2, NoRow, Zenon DEF WriteTransactionApprovalIfNotExists
  <2> QED
    BY <2>1, <2>2
<1>8. CASE UpdateTransactionApprovalRequestTime
  <2>1. CASE approvals[loop.tx].state = "Pending"
    <3>0. loop.tx \in Hashes
      BY <1>8 DEF UpdateTransactionApprovalRequestTime, LoopInv
    <3>1. approvals' = [approvals EXCEPT ![loop.tx] = [@ EXCEPT !.retries = RequestTime]]
      BY <1>0, <1>8, <2>1 DEF UpdateTransactionApprovalRequestTime
    <3>2. RowMoves(loop.tx)
      BY <1>0, <2>1, <3>0, <3>1 DEF RowMoves, Paid, ApprovalRow
    <3> QED
      BY <1>0, <3>0, <3>1, <3>2, OneRow, Zenon
  <2>2. CASE approvals[loop.tx].state # "Pending"
    BY <1>8, <2>2, NoRow, Zenon DEF UpdateTransactionApprovalRequestTime
  <2> QED
    BY <2>1, <2>2
<1>9. CASE FinishTransactionSignatures
  <2>1. snapshot \in Hashes /\ snapshot \in answers
    BY <1>9 DEF FinishTransactionSignatures, AnswerInv, TypeOK
  <2>2. approvals' = [approvals EXCEPT ![snapshot] = [@ EXCEPT !.state = "Done"]]
    BY <1>0, <1>9 DEF FinishTransactionSignatures
  <2>3. RowMoves(snapshot)
    BY <1>0, <2>1, <2>2 DEF RowMoves, Paid, ApprovalRow
  <2> QED
    BY <1>0, <2>1, <2>2, <2>3, OneRow, Zenon
<1>10. CASE UNCHANGED approvals
  BY <1>10, NoRow
<1>11. ASSUME ~UNCHANGED approvals
       PROVE  \/ \E t \in Txs : KeeperSaveTransactionProposal(t)
              \/ \E t \in Hashes : HolderPayTransactionApproval(t)
              \/ \E S : HttpApproveWrite(S) \/ WriteTransactionApprovalIfNotExists(S)
              \/ HttpSignRecoveryWrite \/ HttpRevokeWrite
              \/ UpdateTransactionApprovalRequestTime \/ FinishTransactionSignatures
  BY <1>11, Zenon DEF Next, Propose, ListPendingTransactionApprovals,
     KeeperCombineTransactionSignatures, HttpStep, HttpApproveRead, HttpRevokeRead,
     HttpCreateRecoveryRead, HttpSignRecoveryRead, HttpRevokeSend, WriteInitialRecovery,
     UpdateRecoveryPending, LoopRest, SendToKeeper, NoTimeout, SendAgain, KeeperStep, Crash, rowVars
<1> QED
  BY <1>1, <1>2, <1>4, <1>5, <1>6, <1>7, <1>8, <1>9, <1>10, <1>11, Zenon

-----------------------------------------------------------------------------
(* What a step may do to the keeper: a transaction that is done or failed  *)
(* stays so, it is pending or done because of a request that is not a      *)
(* revocation, and it is answered when it is done, or to a closing that    *)
(* the holder signed.                                                      *)
KeeperMoves(t) ==
    /\ keeper[t] # "none" => keeper'[t] # "none"
    /\ keeper[t] \in {"Done", "Failed"} => keeper'[t] = keeper[t]
    /\ keeper'[t] \in {"Pending", "Done"} =>
          keeper[t] \in {"Pending", "Done"} \/ \E q \in sent : q.tx = t /\ q.act # "revoke"
    /\ t \in answers => t \in answers'
    /\ t \in answers' => \/ t \in answers
                         \/ keeper[t] = "Pending" /\ keeper'[t] = "Done"
                         \/ \E q \in sent : q.tx = t /\ q.act = "close_holder"

StopMoves ==
    /\ closed => closed'
    /\ stopped' => \/ stopped \/ closed
                   \/ \E q \in sent : q.act \in {"approve", "close"} /\ keeper[q.tx] = "Failed"

(* A step of the keeper that writes one row.                               *)
LEMMA OneState ==
    ASSUME NEW t \in Hashes, KeeperMoves(t), NEW s,
           keeper \in [Hashes -> {"none", "Initial", "Pending", "Done", "Failed"}],
           keeper' = [keeper EXCEPT ![t] = s], answers' \in {answers, answers \cup {t}}
    PROVE  \A u \in Hashes : KeeperMoves(u)
<1>1. ASSUME NEW u \in Hashes, u # t PROVE KeeperMoves(u)
  <2>1. keeper'[u] = keeper[u] /\ (u \in answers' <=> u \in answers)
    BY <1>1
  <2> QED
    BY <2>1 DEF KeeperMoves
<1> QED
  BY <1>1

(* Every step of the keeper moves every transaction as it may.             *)
LEMMA KeeperStepMoves ==
    ASSUME TypeOK, KeeperStep
    PROVE  (\A u \in Hashes : KeeperMoves(u)) /\ StopMoves
<1>0. /\ keeper \in [Hashes -> {"none", "Initial", "Pending", "Done", "Failed"}]
      /\ \A q \in sent : q.tx \in Hashes
  BY DEF TypeOK
<1>1. ASSUME keeper' = keeper, answers' = answers PROVE \A u \in Hashes : KeeperMoves(u)
  BY <1>1 DEF KeeperMoves
<1>2. ASSUME NEW q \in sent, KeeperRevokes(q)
      PROVE  (\A u \in Hashes : KeeperMoves(u)) /\ StopMoves
  <2>1. StopMoves
    BY <1>2 DEF KeeperRevokes, StopMoves
  <2>2. CASE keeper[q.tx] = "Initial"
    <3>1. keeper' = [keeper EXCEPT ![q.tx] = "Failed"] /\ answers' = answers
      BY <1>2, <2>2 DEF KeeperRevokes
    <3>2. KeeperMoves(q.tx)
      BY <1>0, <2>2, <3>1 DEF KeeperMoves
    <3> QED
      BY <1>0, <2>1, <3>1, <3>2, OneState, Zenon
  <2>3. CASE keeper[q.tx] # "Initial"
    BY <1>1, <1>2, <2>1, <2>3, Zenon DEF KeeperRevokes
  <2> QED
    BY <2>2, <2>3
<1>3. ASSUME NEW q \in sent, KeeperApproves(q)
      PROVE  (\A u \in Hashes : KeeperMoves(u)) /\ StopMoves
  <2>1. StopMoves
    BY <1>3 DEF KeeperApproves, StopMoves
  <2>2. CASE keeper' = [keeper EXCEPT ![q.tx] = "Pending"] /\ keeper[q.tx] \in {"Initial", "Pending"}
    <3>1. answers' = answers /\ q.act # "revoke"
      BY <1>3 DEF KeeperApproves
    <3>2. KeeperMoves(q.tx)
      BY <1>0, <2>2, <3>1 DEF KeeperMoves
    <3> QED
      BY <1>0, <2>1, <2>2, <3>1, <3>2, OneState, Zenon
  <2>3. CASE keeper' = keeper
    BY <1>1, <1>3, <2>1, <2>3, Zenon DEF KeeperApproves
  <2> QED
    BY <1>3, <2>2, <2>3, Zenon DEF KeeperApproves
<1>4. ASSUME NEW q \in sent, KeeperRefusesToClose(q)
      PROVE  (\A u \in Hashes : KeeperMoves(u)) /\ StopMoves
  BY <1>1, <1>4, Zenon DEF KeeperRefusesToClose, StopMoves
<1>5. ASSUME NEW q \in sent, KeeperClosesWithSigner(q)
      PROVE  (\A u \in Hashes : KeeperMoves(u)) /\ StopMoves
  <2>1. StopMoves
    BY <1>5 DEF KeeperClosesWithSigner, StopMoves
  <2>2. CASE keeper[q.tx] = "Failed"
    BY <1>1, <1>5, <2>1, <2>2, Zenon DEF KeeperClosesWithSigner
  <2>3. CASE keeper[q.tx] # "Failed"
    <3>1. /\ keeper' = [keeper EXCEPT ![q.tx] = "Pending"] /\ keeper[q.tx] # "Done"
          /\ answers' = answers /\ q.act # "revoke"
      BY <1>5, <2>3 DEF KeeperClosesWithSigner
    <3>2. KeeperMoves(q.tx)
      BY <1>0, <2>3, <3>1 DEF KeeperMoves
    <3> QED
      BY <1>0, <2>1, <3>1, <3>2, OneState, Zenon
  <2> QED
    BY <2>2, <2>3
<1>6. ASSUME NEW q \in sent, KeeperClosesWithHolder(q)
      PROVE  (\A u \in Hashes : KeeperMoves(u)) /\ StopMoves
  <2>1. StopMoves
    BY <1>6 DEF KeeperClosesWithHolder, StopMoves
  <2>2. CASE keeper' = keeper /\ answers' = answers
    BY <1>1, <2>1, <2>2, Zenon
  <2>3. ASSUME NEW s, keeper' = [keeper EXCEPT ![q.tx] = s], answers' = answers \cup {q.tx},
               s = keeper[q.tx] \/ (keeper[q.tx] = "none" /\ s = "Done")
        PROVE  \A u \in Hashes : KeeperMoves(u)
    <3>1. q.act = "close_holder" /\ q.act # "revoke"
      BY <1>6 DEF KeeperClosesWithHolder
    <3>2. KeeperMoves(q.tx)
      BY <1>0, <2>3, <3>1 DEF KeeperMoves
    <3> QED
      BY <1>0, <2>3, <3>2, OneState, Zenon
  <2>4. keeper = [keeper EXCEPT ![q.tx] = keeper[q.tx]]
    BY <1>0
  <2> QED
    BY <1>6, <2>1, <2>2, <2>3, <2>4, Zenon DEF KeeperClosesWithHolder
<1>7. ASSUME NEW t \in Txs, KeeperFinishes(t)
      PROVE  (\A u \in Hashes : KeeperMoves(u)) /\ StopMoves
  <2>1. StopMoves /\ t \in Hashes
    BY <1>7 DEF KeeperFinishes, StopMoves, Hashes
  <2>2. /\ keeper' = [keeper EXCEPT ![t] = "Done"] /\ keeper[t] = "Pending"
        /\ answers' = answers \cup {t}
    BY <1>7 DEF KeeperFinishes
  <2>3. KeeperMoves(t)
    BY <1>0, <2>1, <2>2 DEF KeeperMoves
  <2> QED
    BY <1>0, <2>1, <2>2, <2>3, OneState, Zenon
<1>8. ASSUME NEW t \in Txs, SignerFails(t)
      PROVE  (\A u \in Hashes : KeeperMoves(u)) /\ StopMoves
  BY <1>1, <1>8, Zenon DEF SignerFails, StopMoves
<1> QED
  BY <1>2, <1>3, <1>4, <1>5, <1>6, <1>7, <1>8, Zenon DEF KeeperStep

(* So does every other step.                                               *)
LEMMA KeeperNext ==
    ASSUME TypeOK, Next
    PROVE  (\A u \in Hashes : KeeperMoves(u)) /\ StopMoves
<1>1. CASE KeeperStep
  BY <1>1, KeeperStepMoves
<1>2. ASSUME NEW t \in Txs, NEW R, Propose(t, R) PROVE (\A u \in Hashes : KeeperMoves(u)) /\ StopMoves
  <2>1. StopMoves /\ t \in Hashes
    BY <1>2 DEF Propose, StopMoves, Hashes
  <2>2. /\ keeper' = [keeper EXCEPT ![t] = "Initial"] /\ keeper[t] = "none"
        /\ answers' = answers
    BY <1>2 DEF Propose
  <2>3. keeper \in [Hashes -> {"none", "Initial", "Pending", "Done", "Failed"}]
    BY DEF TypeOK
  <2>4. KeeperMoves(t)
    BY <2>1, <2>2, <2>3 DEF KeeperMoves
  <2> QED
    BY <2>1, <2>2, <2>3, <2>4, OneState, Zenon
<1>3. CASE UNCHANGED keeperVars
  BY <1>3 DEF keeperVars, KeeperMoves, StopMoves
<1>4. ASSUME ~UNCHANGED keeperVars PROVE KeeperStep \/ \E t \in Txs : \E R \in {{}, {t}} : Propose(t, R)
  BY <1>4, Zenon DEF Next, KeeperSaveTransactionProposal, HolderPayTransactionApproval,
     ListPendingTransactionApprovals, KeeperCombineTransactionSignatures,
     FinishTransactionSignatures, HttpStep, HttpApproveRead, HttpRevokeRead,
     HttpCreateRecoveryRead, HttpSignRecoveryRead, HttpApproveWrite, HttpRevokeSend,
     HttpRevokeWrite, WriteTransactionApprovalIfNotExists, WriteInitialRecovery,
     HttpSignRecoveryWrite, UpdateRecoveryPending, LoopRest, SendToKeeper, NoTimeout,
     UpdateTransactionApprovalRequestTime, SendAgain, Crash
<1> QED
  BY <1>1, <1>2, <1>3, <1>4, Zenon

-----------------------------------------------------------------------------
(* What a step may do to a handler: it goes on with the transaction it     *)
(* has, ends, or begins with one, which the keeper has if it revokes.      *)
HandlerMoves(k) ==
    http'[k].at # "idle" =>
        \/ http[k].at # "idle" /\ http'[k].tx = http[k].tx
        \/ http'[k].tx \in Hashes /\ (k = "revoke" => keeper[http'[k].tx] # "none")

(* Every step moves every handler as it may.                               *)
LEMMA HandlersMove ==
    ASSUME TypeOK, HandlerInv, Next
    PROVE  \A k \in Kinds : HandlerMoves(k)
<1>0. /\ DOMAIN http = Kinds /\ "approve" \in Kinds /\ "revoke" \in Kinds
      /\ "create" \in Kinds /\ "sign" \in Kinds
  BY DEF TypeOK, Kinds
<1>1. ASSUME NEW k \in Kinds, EndHandler(k) PROVE \A m \in Kinds : HandlerMoves(m)
  BY <1>0, <1>1 DEF EndHandler, HandlerMoves, NoHandler
<1>2. ASSUME NEW k \in Kinds, NEW at, NEW t \in Hashes, NEW S, Handle(k, at, t, S),
             k = "revoke" => keeper[t] # "none"
      PROVE  \A m \in Kinds : HandlerMoves(m)
  BY <1>0, <1>2 DEF Handle, HandlerMoves
<1>3. CASE UNCHANGED http
  BY <1>3 DEF HandlerMoves
<1>4. CASE Stop
  BY <1>4, StopTypes DEF HandlerMoves
<1>5. CASE HttpStep
  <2>1. ASSUME NEW t \in Hashes, HttpApproveRead(t) PROVE \A m \in Kinds : HandlerMoves(m)
    BY <1>0, <1>2, <2>1 DEF HttpApproveRead
  <2>2. ASSUME NEW t \in Hashes, HttpRevokeRead(t) PROVE \A m \in Kinds : HandlerMoves(m)
    BY <1>0, <1>2, <2>2 DEF HttpRevokeRead, RevocableRow
  <2>3. ASSUME NEW t \in Hashes, HttpCreateRecoveryRead(t) PROVE \A m \in Kinds : HandlerMoves(m)
    BY <1>0, <1>2, <2>3 DEF HttpCreateRecoveryRead
  <2>4. ASSUME NEW t \in Hashes, NEW S \in SUBSET {"holder", "observer"}, HttpSignRecoveryRead(t, S)
        PROVE  \A m \in Kinds : HandlerMoves(m)
    BY <1>0, <1>2, <2>4 DEF HttpSignRecoveryRead
  <2>5. CASE HttpRevokeSend
    <3>1. http["revoke"].tx \in Hashes /\ keeper[http["revoke"].tx] # "none"
      BY <1>0, <2>5 DEF HttpRevokeSend, HandlerInv
    <3> QED
      BY <1>0, <1>2, <2>5, <3>1 DEF HttpRevokeSend
  <2>6. ASSUME NEW S, WriteTransactionApprovalIfNotExists(S) PROVE \A m \in Kinds : HandlerMoves(m)
    <3>1. http["create"].tx \in Hashes
      BY <1>0, <2>6 DEF WriteTransactionApprovalIfNotExists, HandlerInv
    <3> QED
      BY <1>0, <1>2, <2>6, <3>1 DEF WriteTransactionApprovalIfNotExists
  <2>7. CASE HttpSignRecoveryWrite
    <3>1. http["sign"].tx \in Hashes
      BY <1>0, <2>7 DEF HttpSignRecoveryWrite, HandlerInv
    <3> QED
      BY <1>0, <1>1, <1>2, <2>7, <3>1 DEF HttpSignRecoveryWrite
  <2>8. CASE \/ HttpRevokeWrite \/ WriteInitialRecovery \/ UpdateRecoveryPending
             \/ \E S : HttpApproveWrite(S)
    BY <1>0, <1>1, <2>8, Zenon DEF HttpApproveWrite, HttpRevokeWrite, WriteInitialRecovery,
       UpdateRecoveryPending
  <2> QED
    BY <1>5, <2>1, <2>2, <2>3, <2>4, <2>5, <2>6, <2>7, <2>8, Zenon DEF HttpStep
<1>6. ASSUME ~HttpStep, ~Stop PROVE UNCHANGED http
  BY <1>6, Zenon DEF Next, Propose, KeeperSaveTransactionProposal,
     HolderPayTransactionApproval, ListPendingTransactionApprovals,
     KeeperCombineTransactionSignatures, FinishTransactionSignatures, LoopRest, SendToKeeper,
     NoTimeout, UpdateTransactionApprovalRequestTime, SendAgain, KeeperStep, Crash
<1> QED
  BY <1>3, <1>4, <1>5, <1>6, Zenon

(* What a step may do to the approval loop and to the requests: the loop   *)
(* goes on with its row, ends, or begins with one that is pending, and     *)
(* what is sent is a revocation or of the row that the loop has.           *)
LoopMoves ==
    /\ loop'.at # "list" => \/ loop.at # "list" /\ loop'.tx = loop.tx
                            \/ loop'.tx \in Hashes /\ Paid(loop'.tx)
    /\ loop'.at = "update" => \/ loop.at = "update" /\ loop'.retries = loop.retries
                              \/ loop'.retries < MaxRetries

SentMoves ==
    \A q \in sent' : \/ q \in sent \/ q.act = "revoke"
                     \/ q.tx = loop.tx /\ q.act = Act(loop.tx) /\ loop.at # "list"

(* Every step moves the loop and the requests as it may.                   *)
LEMMA LoopAndSent ==
    ASSUME TypeOK, Next
    PROVE  LoopMoves /\ SentMoves
<1>0. loop \in [at: {"list", "send", "timeout", "update"}, tx: Hashes \cup {NoTx},
                retries: 0..MaxRetries]
  BY DEF TypeOK
<1>1. ASSUME NEW t \in Hashes, ListPendingTransactionApprovals(t) PROVE LoopMoves /\ SentMoves
  <2>1. LoopMoves
    BY <1>1 DEF ListPendingTransactionApprovals, Listed, LoopMoves, Paid
  <2>2. SentMoves
    BY <1>1, Zenon DEF ListPendingTransactionApprovals, SentMoves
  <2> QED
    BY <2>1, <2>2
<1>2. ASSUME UNCHANGED loop \/ loop' = NoLoop \/ Stop PROVE LoopMoves
  BY <1>2 DEF LoopMoves, NoLoop, Stop
<1>3. CASE HttpRevokeSend
  <2>1. LoopMoves
    BY <1>2, <1>3, Zenon DEF HttpRevokeSend
  <2>2. \A q \in sent' : q \in sent \/ (q.act = "revoke" /\ q.tx = http["revoke"].tx)
    BY <1>3, SendAdds DEF HttpRevokeSend
  <2> QED
    BY <2>1, <2>2, Zenon DEF SentMoves
<1>4. ASSUME NEW id, loop.at # "list", Send(id, Act(loop.tx), loop.tx) PROVE SentMoves
  <2>1. \A q \in sent' : q \in sent \/ (q.act = Act(loop.tx) /\ q.tx = loop.tx)
    BY <1>4, SendAdds
  <2> QED
    BY <1>4, <2>1, Zenon DEF SentMoves
<1>5. CASE SendToKeeper
  <2>1. CASE Act(loop.tx) = "approve" /\ keeper[loop.tx] = "none"
    BY <1>2, <1>5, <2>1, Zenon DEF SendToKeeper, SentMoves
  <2>2. CASE ~(Act(loop.tx) = "approve" /\ keeper[loop.tx] = "none")
    <3>1. CASE CheckKeeperSignedTransaction(loop.tx)
      BY <1>2, <1>5, <2>2, <3>1, Zenon DEF SendToKeeper, SentMoves
    <3>2. CASE ~CheckKeeperSignedTransaction(loop.tx)
      <4>1. /\ Send(FirstId(loop.tx), Act(loop.tx), loop.tx)
            /\ loop' = [loop EXCEPT !.at = "timeout"] /\ loop.at = "send"
        BY <1>5, <2>2, <3>2, Zenon DEF SendToKeeper
      <4>2. LoopMoves
        BY <1>0, <4>1 DEF LoopMoves
      <4> QED
        BY <1>4, <4>1, <4>2
    <3> QED
      BY <3>1, <3>2
  <2> QED
    BY <2>1, <2>2
<1>6. CASE SendAgain
  <2>1. LoopMoves
    BY <1>0, <1>6 DEF SendAgain, LoopMoves
  <2> QED
    BY <1>4, <1>6, <2>1 DEF SendAgain
<1>7. CASE /\ UNCHANGED sent
           /\ UNCHANGED loop \/ loop' = NoLoop \/ Stop
  BY <1>2, <1>7, Zenon DEF SentMoves
<1>8. \/ \E t \in Hashes : ListPendingTransactionApprovals(t)
      \/ HttpRevokeSend \/ SendToKeeper \/ SendAgain
      \/ /\ UNCHANGED sent
         /\ UNCHANGED loop \/ loop' = NoLoop \/ Stop
  BY Zenon DEF Next, Propose, KeeperSaveTransactionProposal, HolderPayTransactionApproval,
     KeeperCombineTransactionSignatures, FinishTransactionSignatures, HttpStep, HttpApproveRead,
     HttpRevokeRead, HttpCreateRecoveryRead, HttpSignRecoveryRead, HttpApproveWrite,
     HttpRevokeWrite, WriteTransactionApprovalIfNotExists, WriteInitialRecovery,
     HttpSignRecoveryWrite, UpdateRecoveryPending, LoopRest, NoTimeout,
     UpdateTransactionApprovalRequestTime, KeeperStep, Crash
<1> QED
  BY <1>1, <1>3, <1>5, <1>6, <1>7, <1>8, Zenon

(* An answer is in hand only after the keeper gave it.                     *)
LEMMA SnapshotMoves ==
    ASSUME Next
    PROVE  snapshot' \in {snapshot, NoTx} \/ snapshot' \in answers
  BY Zenon DEF Next, Propose, KeeperSaveTransactionProposal, HolderPayTransactionApproval,
     ListPendingTransactionApprovals, KeeperCombineTransactionSignatures, HandleKeeperResponse,
     FinishTransactionSignatures, HttpStep, HttpApproveRead, HttpRevokeRead,
     HttpCreateRecoveryRead, HttpSignRecoveryRead, HttpApproveWrite, HttpRevokeSend,
     HttpRevokeWrite, WriteTransactionApprovalIfNotExists, WriteInitialRecovery,
     HttpSignRecoveryWrite, UpdateRecoveryPending, LoopRest, SendToKeeper, NoTimeout,
     UpdateTransactionApprovalRequestTime, SendAgain, KeeperStep, Crash, Stop

-----------------------------------------------------------------------------
(* The kind of a request says which signatures the row has.                *)
LEMMA ActSigners ==
    ASSUME NEW t
    PROVE  /\ Act(t) = "close_holder" => Both \subseteq approvals[t].signers
           /\ Act(t) \in {"approve", "close"} => ~(Both \subseteq approvals[t].signers)
           /\ Act(t) # "revoke"
  BY DEF Act, Signed, Both

(* The handlers after a step.                                              *)
LEMMA HandlerStep ==
    ASSUME TypeOK, HandlerInv, Next
    PROVE  HandlerInv'
<1>1. /\ \A k \in Kinds : HandlerMoves(k)
      /\ \A t \in Hashes : KeeperMoves(t)
  BY HandlersMove, KeeperNext, Zenon
<1>2. ASSUME NEW k \in Kinds, http'[k].at # "idle" PROVE http'[k].tx \in Hashes
  BY <1>1, <1>2, Zenon DEF HandlerMoves, HandlerInv
<1>3. ASSUME http'["revoke"].at # "idle" PROVE keeper'[http'["revoke"].tx] # "none"
  <2>1. "revoke" \in Kinds
    BY DEF Kinds
  <2>2. http'["revoke"].tx \in Hashes
    BY <1>2, <1>3, <2>1, Zenon
  <2>3. keeper[http'["revoke"].tx] # "none"
    BY <1>1, <1>3, <2>1 DEF HandlerMoves, HandlerInv
  <2> QED
    BY <1>1, <2>2, <2>3, Zenon DEF KeeperMoves
<1> QED
  BY <1>2, <1>3, Zenon DEF HandlerInv

(* The approval loop and the requests after a step.                        *)
LEMMA LoopStep ==
    ASSUME TypeOK, HandlerInv, LoopInv, AnswerInv, Next
    PROVE  LoopInv'
<1>1. (\A t \in Hashes : RowMoves(t)) /\ LoopMoves /\ SentMoves
  BY RowsMove, LoopAndSent, Zenon
<1>2. ASSUME NEW t \in Hashes, Paid(t)
      PROVE  Paid(t)' /\ approvals'[t].signers = approvals[t].signers
  BY <1>1, <1>2 DEF RowMoves, Paid
<1>3. ASSUME loop'.at # "list" PROVE loop'.tx \in Hashes /\ Paid(loop'.tx)
  BY <1>1, <1>3 DEF LoopMoves, LoopInv
<1>4. loop'.at # "list" => loop'.tx \in Hashes /\ approvals'[loop'.tx].state \in {"Pending", "Done"}
  BY <1>2, <1>3 DEF Paid
<1>5. loop'.at = "update" => loop'.retries < MaxRetries
  BY <1>1, Zenon DEF LoopMoves, LoopInv
<1>6. ASSUME NEW q \in sent', q.act # "revoke"
      PROVE  /\ q.tx \in Hashes /\ Paid(q.tx)
             /\ q.act = "close_holder" => Both \subseteq approvals[q.tx].signers
             /\ q.act \in {"approve", "close"} => ~(Both \subseteq approvals[q.tx].signers)
  <2>1. CASE q \in sent
    BY <1>6, <2>1, Zenon DEF LoopInv, TypeOK
  <2>2. CASE q.tx = loop.tx /\ q.act = Act(loop.tx) /\ loop.at # "list"
    BY <2>2, ActSigners, Zenon DEF LoopInv
  <2> QED
    BY <1>1, <1>6, <2>1, <2>2, Zenon DEF SentMoves
<1>7. ASSUME NEW q \in sent', q.act # "revoke"
      PROVE  /\ approvals'[q.tx].state \in {"Pending", "Done"}
             /\ q.act = "close_holder" => Both \subseteq approvals'[q.tx].signers
             /\ q.act \in {"approve", "close"} => ~(Both \subseteq approvals'[q.tx].signers)
  <2>1. approvals'[q.tx].state \in {"Pending", "Done"}
        /\ approvals'[q.tx].signers = approvals[q.tx].signers
    BY <1>2, <1>6, <1>7 DEF Paid
  <2> QED
    BY <1>6, <1>7, <2>1, Zenon
<1>8. \A q \in sent' : q.act # "revoke" => approvals'[q.tx].state \in {"Pending", "Done"}
  BY <1>7, Zenon
<1>9. \A q \in sent' : q.act = "close_holder" => Both \subseteq approvals'[q.tx].signers
  BY <1>7
<1>10. \A q \in sent' : q.act \in {"approve", "close"} => ~(Both \subseteq approvals'[q.tx].signers)
  BY <1>7
<1> QED
  BY <1>4, <1>5, <1>8, <1>9, <1>10, Zenon DEF LoopInv, Paid

(* What the keeper signed and answered after a step.                       *)
LEMMA AnswerStep ==
    ASSUME TypeOK, HandlerInv, LoopInv, AnswerInv, Next
    PROVE  AnswerInv'
<1>1. (\A t \in Hashes : RowMoves(t)) /\ (\A t \in Hashes : KeeperMoves(t))
  BY RowsMove, KeeperNext, Zenon
<1>2. ASSUME NEW t \in Hashes, Paid(t)
      PROVE  approvals'[t].state \in {"Pending", "Done"} /\ approvals'[t].signers = approvals[t].signers
  BY <1>1, <1>2, Zenon DEF RowMoves
<1>3. ASSUME NEW t \in Hashes, keeper'[t] \in {"Pending", "Done"} PROVE Paid(t)
  <2>1. CASE keeper[t] \in {"Pending", "Done"}
    BY <2>1, Zenon DEF AnswerInv
  <2>2. CASE \E q \in sent : q.tx = t /\ q.act # "revoke"
    BY <2>2, Zenon DEF LoopInv
  <2> QED
    BY <1>1, <1>3, <2>1, <2>2, Zenon DEF KeeperMoves
<1>4. ASSUME NEW t \in answers'
      PROVE  t \in Hashes /\ Paid(t) /\ (keeper'[t] = "Done" \/ Both \subseteq approvals[t].signers)
  <2>0. t \in Hashes
    BY <1>4, TypeStep DEF TypeOK
  <2>1. CASE t \in answers
    BY <1>1, <2>0, <2>1 DEF AnswerInv, KeeperMoves
  <2>2. CASE keeper[t] = "Pending" /\ keeper'[t] = "Done"
    BY <2>0, <2>2 DEF AnswerInv
  <2>3. CASE \E q \in sent : q.tx = t /\ q.act = "close_holder"
    BY <2>0, <2>3 DEF LoopInv
  <2> QED
    BY <1>1, <1>4, <2>0, <2>1, <2>2, <2>3, Zenon DEF KeeperMoves
<1>5. \A t \in Hashes : keeper'[t] \in {"Pending", "Done"} => approvals'[t].state \in {"Pending", "Done"}
  BY <1>2, <1>3, Zenon
<1>6. \A t \in answers' : /\ approvals'[t].state \in {"Pending", "Done"}
                          /\ keeper'[t] = "Done" \/ Both \subseteq approvals'[t].signers
  BY <1>2, <1>4
<1>7. ASSUME snapshot' # NoTx PROVE snapshot' \in answers'
  <2>1. snapshot' \in answers
    BY <1>7, SnapshotMoves DEF AnswerInv
  <2>2. snapshot' \in Hashes
    BY <2>1 DEF TypeOK
  <2> QED
    BY <1>1, <2>1, <2>2, Zenon DEF KeeperMoves
<1> QED
  BY <1>5, <1>6, <1>7, Zenon DEF AnswerInv, Paid

(* A row at which the keeper stops.                                        *)
StopsAt(t) ==
    /\ keeper[t] = "Failed" /\ approvals[t].state = "Pending"
    /\ ~(Both \subseteq approvals[t].signers)

(* The row at which the keeper stopped after a step.                       *)
LEMMA StopStep ==
    ASSUME ApprovalInv, Next
    PROVE  StopInv'
<1> USE DEF ApprovalInv
<1>1. (\A t \in Hashes : RowMoves(t)) /\ (\A t \in Hashes : KeeperMoves(t)) /\ StopMoves
  BY RowsMove, KeeperNext, Zenon
<1>2. ASSUME NEW t \in Hashes, StopsAt(t) PROVE StopsAt(t)'
  <2>1. t \notin answers
    BY <1>2 DEF AnswerInv, StopsAt
  <2>2. keeper'[t] = "Failed"
    BY <1>1, <1>2 DEF KeeperMoves, StopsAt
  <2>3. approvals'[t].state = "Pending" /\ approvals'[t].signers = approvals[t].signers
    BY <1>1, <1>2, <2>1 DEF RowMoves, StopsAt, Paid
  <2> QED
    BY <1>2, <2>2, <2>3, Zenon DEF StopsAt
<1>3. ASSUME stopped', ~closed PROVE \E t \in Hashes : StopsAt(t)
  <2>1. CASE stopped
    BY <1>3, <2>1, Zenon DEF StopInv, StopsAt
  <2>2. ASSUME NEW q \in sent, q.act \in {"approve", "close"}, keeper[q.tx] = "Failed"
        PROVE  \E t \in Hashes : StopsAt(t)
    <3>1. q.tx \in Hashes /\ Paid(q.tx) /\ ~(Both \subseteq approvals[q.tx].signers)
      BY <2>2 DEF LoopInv, TypeOK
    <3>2. approvals[q.tx].state # "Done"
      BY <2>2, <3>1 DEF FinishedIsSigned, Both
    <3> QED
      BY <2>2, <3>1, <3>2 DEF Paid, StopsAt
  <2> QED
    BY <1>1, <1>3, <2>1, <2>2, Zenon DEF StopMoves
<1> QED
  BY <1>1, <1>2, <1>3, Zenon DEF StopInv, StopsAt, StopMoves

(* A row that was revoked, and one that was finished, after a step.        *)
LEMMA RowStep ==
    ASSUME ApprovalInv, Next
    PROVE  RevokedIsNotSigned' /\ FinishedIsSigned'
<1> USE DEF ApprovalInv
<1>1. /\ \A t \in Hashes : RowMoves(t)
      /\ \A t \in Hashes : KeeperMoves(t)
      /\ TypeOK' /\ AnswerInv'
  BY RowsMove, KeeperNext, TypeStep, AnswerStep, Zenon
<1>2. ASSUME NEW t \in Hashes, approvals'[t].state = "Failed"
      PROVE  keeper'[t] \in {"Initial", "Failed"}
  <2>1. keeper'[t] \notin {"Pending", "Done"}
    BY <1>1, <1>2 DEF AnswerInv, Paid
  <2>2. keeper[t] # "none"
    BY <1>1, <1>2 DEF RowMoves, RevokedIsNotSigned
  <2>3. keeper'[t] # "none"
    BY <1>1, <2>2, Zenon DEF KeeperMoves
  <2>4. keeper'[t] \in {"none", "Initial", "Pending", "Done", "Failed"}
    BY <1>1 DEF TypeOK
  <2> QED
    BY <2>1, <2>3, <2>4
<1>3. ASSUME NEW t \in Hashes, approvals'[t].state = "Done"
      PROVE  keeper'[t] = "Done" \/ Both \subseteq approvals'[t].signers
  <2>1. Paid(t) /\ (keeper[t] = "Done" \/ Both \subseteq approvals[t].signers)
    BY <1>1, <1>3 DEF RowMoves, FinishedIsSigned, AnswerInv, Paid, Both
  <2> QED
    BY <1>1, <2>1 DEF RowMoves, KeeperMoves
<1> QED
  BY <1>2, <1>3, Zenon DEF RevokedIsNotSigned, FinishedIsSigned, Both

-----------------------------------------------------------------------------
(* The inductive invariant holds of every run of the observer, its holder  *)
(* and the keeper, over any number of stops.                               *)
THEOREM ApprovalsInvariance == Spec => []ApprovalInv
<1>1. Init => ApprovalInv
  <2> SUFFICES ASSUME Init PROVE ApprovalInv
    OBVIOUS
  <2>1. TypeOK
    <3>1. approvals \in [Hashes -> ApprovalRow]
      BY ConstantsOK DEF Init, ApprovalRow
    <3>2. http \in [Kinds -> [at: {"idle", "send", "write", "approval", "recovery", "state"},
                             tx: Hashes \cup {NoTx}, signers: SUBSET {"holder", "observer"}]]
      BY DEF Init, NoHandler
    <3>3. /\ loop \in [at: {"list", "send", "timeout", "update"}, tx: Hashes \cup {NoTx},
                        retries: 0..MaxRetries]
          /\ recovery \in [state: {"none", "Initial", "Pending", "Done"}, tx: Hashes \cup {NoTx}]
          /\ keeper \in [Hashes -> {"none", "Initial", "Pending", "Done", "Failed"}]
          /\ crashes \in 0..MaxCrashes
      BY ConstantsOK DEF Init, NoLoop
    <3>4. /\ closed \in BOOLEAN /\ stopped \in BOOLEAN /\ sent = {} /\ processed = {}
          /\ answers \subseteq Hashes /\ recoverable \subseteq Txs /\ signing \subseteq Hashes
          /\ snapshot \in Hashes \cup {NoTx} /\ stuck \in {"no", "signatures", "recovery"}
      BY Zenon DEF Init
    <3> QED
      BY <3>1, <3>2, <3>3, <3>4, Zenon DEF TypeOK
  <2>2. HandlerInv /\ LoopInv /\ AnswerInv /\ StopInv
    BY DEF Init, HandlerInv, LoopInv, AnswerInv, StopInv, NoHandler, NoLoop, Kinds
  <2>3. RevokedIsNotSigned /\ FinishedIsSigned
    BY DEF Init, RevokedIsNotSigned, FinishedIsSigned
  <2> QED
    BY <2>1, <2>2, <2>3 DEF ApprovalInv
<1>2. ApprovalInv /\ [Next]_vars => ApprovalInv'
  <2> SUFFICES ASSUME ApprovalInv, [Next]_vars PROVE ApprovalInv'
    OBVIOUS
  <2>1. CASE Next
    <3>1. TypeOK' /\ HandlerInv' /\ LoopInv' /\ AnswerInv'
      BY <2>1, TypeStep, HandlerStep, LoopStep, AnswerStep, Zenon DEF ApprovalInv
    <3> QED
      BY <2>1, <3>1, StopStep, RowStep, Zenon DEF ApprovalInv
  <2>2. CASE UNCHANGED vars
    <3>1. TypeOK'
      BY <2>2 DEF vars, keeperVars, rowVars, ApprovalInv, TypeOK
    <3>2. HandlerInv' /\ LoopInv' /\ AnswerInv'
      BY <2>2 DEF vars, keeperVars, rowVars, ApprovalInv, HandlerInv, LoopInv, AnswerInv, Paid
    <3>3. StopInv' /\ RevokedIsNotSigned' /\ FinishedIsSigned'
      BY <2>2 DEF vars, keeperVars, rowVars, ApprovalInv, StopInv, RevokedIsNotSigned,
                  FinishedIsSigned
    <3> QED
      BY <3>1, <3>2, <3>3 DEF ApprovalInv
  <2> QED
    BY <2>1, <2>2
<1> QED
  BY <1>1, <1>2, PTL DEF Spec

(* A transaction whose row the observer failed on a revocation is neither  *)
(* being signed nor signed, although the handler reads the row, asks the   *)
(* keeper and writes the row in three steps.                               *)
THEOREM RevokedNotSigned == Spec => []RevokedIsNotSigned
<1>1. ApprovalInv => RevokedIsNotSigned
  BY DEF ApprovalInv
<1> QED
  BY <1>1, ApprovalsInvariance, PTL

(* The keeper stops only after the safe was closed, or at a transaction    *)
(* whose revocation it took and which the observer holds as paid.          *)
THEOREM StopsOnlyAtHalfRevoked == Spec => []StopsAtHalfRevoked
<1>1. ApprovalInv => StopsAtHalfRevoked
  BY DEF ApprovalInv, StopInv, StopsAtHalfRevoked
<1> QED
  BY <1>1, ApprovalsInvariance, PTL

(* What the observer finishes and broadcasts was signed by the keeper, or  *)
(* by both of the keys that the holder has.                                *)
THEOREM FinishedSigned == Spec => []FinishedIsSigned
<1>1. ApprovalInv => FinishedIsSigned
  BY DEF ApprovalInv
<1> QED
  BY <1>1, ApprovalsInvariance, PTL

-----------------------------------------------------------------------------
(* What a step leaves of a paid row, and of what the keeper has decided.   *)
Settled(t) ==
    /\ Paid(t) => approvals'[t].state \in {"Pending", "Done"}
                  /\ approvals'[t].signers = approvals[t].signers
    /\ keeper[t] \in {"Done", "Failed"} => keeper'[t] = keeper[t]

(* No handler of the observer undoes a payment, and no request a decision  *)
(* of the keeper.                                                          *)
PaidForGood == [][\A t \in Hashes : Settled(t)]_vars

(* A late write of a handler neither fails a row that was paid meanwhile   *)
(* nor replaces its signatures, and no request of the observer, retried or *)
(* late, changes what the keeper signed or took as revoked.                *)
THEOREM PaidStays == Spec => PaidForGood
<1>1. ApprovalInv /\ [Next]_vars => [\A t \in Hashes : Settled(t)]_vars
  <2> SUFFICES ASSUME ApprovalInv, Next PROVE \A t \in Hashes : Settled(t)
    OBVIOUS
  <2>1. (\A t \in Hashes : RowMoves(t)) /\ (\A t \in Hashes : KeeperMoves(t))
    BY RowsMove, KeeperNext, Zenon DEF ApprovalInv
  <2> QED
    BY <2>1, Zenon DEF Settled, RowMoves, KeeperMoves
<1> QED
  BY <1>1, ApprovalsInvariance, PTL DEF Spec, PaidForGood
=============================================================================
