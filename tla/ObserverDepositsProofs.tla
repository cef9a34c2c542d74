----------------------- MODULE ObserverDepositsProofs -----------------------
(***************************************************************************)
(* What ObserverDeposits promises of the deposits of a safe, proved for    *)
(* every set of deposits and every value of the parameters.                *)
(***************************************************************************)
EXTENDS ObserverDeposits, TLAPS

(* The heights that the keeper was sent are of blocks that stay.  The      *)
(* checkpoint is below the blocks that may be replaced.                    *)
Heights ==
    /\ info = 0 \/ info + Delay <= tip + 1
    /\ \A h \in infos : h + Delay <= tip + 1
    /\ \A d \in Deposits : mined[d] <= tip
    /\ checkpoint = 1 \/ checkpoint + Delay <= tip + 2
    /\ block.busy => checkpoint + Delay <= tip + 1

(* What the observer asks the keeper for is final.                         *)
RequestedIsFinal == \A d \in Deposits : request[d] = "Sent" => Final(d)

(* A deposit of the block in progress is still to be processed, or it was. *)
BlockIsSeen ==
    block.busy => \A d \in Deposits : mined[d] = checkpoint =>
        d \in block.left \/ row[d] # "none" \/ Credited(d) \/ d \in skipped

DepositInv ==
    /\ TypeOK
    /\ Heights
    /\ RequestedIsFinal
    /\ BlockIsSeen
    /\ CreditedIsSettled
    /\ KeeperAgrees
    /\ PassedIsSeen
    /\ AnswerMatchesCredit

-----------------------------------------------------------------------------
(* A difference of heights does not wrap.                                  *)
LEMMA NoWrap ==
    ASSUME NEW x \in Nat, NEW w \in Nat, x < w
    PROVE  x % w = x
  OBVIOUS

(* The types that the heights have.                                        *)
LEMMA HeightTypes ==
    ASSUME TypeOK
    PROVE  /\ tip \in Nat /\ info \in Nat /\ checkpoint \in Nat \ {0} /\ info < Width
           /\ \A d \in Deposits : mined[d] \in Nat /\ mined[d] <= MaxHeight
           /\ tip <= MaxHeight /\ MaxHeight \in Nat /\ Width \in Nat /\ info < Width - 1
           /\ Delay \in Nat /\ Delay >= 1 /\ Maturity \in Nat /\ Maturity >= 1
           /\ \A h \in infos : h \in Nat /\ h >= 1 /\ h <= MaxHeight
  BY ConstantsOK DEF TypeOK

(* The confirmations of a deposit: none for one that is in no block, whose *)
(* height is the greatest, and never a number that wrapped.                *)
ConfirmationsFit ==
    \A d \in Deposits : Confirmations(d) =
        IF mined[d] # 0 /\ mined[d] <= info THEN info - mined[d] + 1 ELSE 0

(* The difference of the unsigned heights is the number of blocks.         *)
LEMMA ConfirmationsAre == TypeOK => ConfirmationsFit
<1> SUFFICES ASSUME TypeOK, NEW d \in Deposits
             PROVE  Confirmations(d) =
                        IF mined[d] # 0 /\ mined[d] <= info THEN info - mined[d] + 1 ELSE 0
  BY DEF ConfirmationsFit
<1>1. CASE mined[d] = 0
  BY <1>1, HeightTypes DEF Confirmations, OutputHeight
<1>2. CASE mined[d] # 0 /\ mined[d] <= info
  <2>1. info - mined[d] + 1 \in Nat /\ info - mined[d] + 1 < Width /\ Width \in Nat
    BY <1>2, HeightTypes
  <2>2. (info - mined[d] + 1) % Width = info - mined[d] + 1
    BY <2>1, NoWrap
  <2> QED
    BY <1>2, <2>2, HeightTypes DEF Confirmations, OutputHeight
<1>3. CASE mined[d] # 0 /\ ~(mined[d] <= info)
  BY <1>3, HeightTypes DEF Confirmations, OutputHeight
<1> QED
  BY <1>1, <1>2, <1>3

(* A deposit that is final is in a block that stays, below the height that *)
(* the keeper knows.                                                       *)
LEMMA FinalIsSettled ==
    ASSUME TypeOK, Heights, NEW d \in Deposits, Final(d)
    PROVE  mined[d] # 0 /\ mined[d] <= info /\ mined[d] \in 1..(tip + 1 - Delay)
<1>1. mined[d] # 0 /\ mined[d] <= info
  BY ConfirmationsAre, HeightTypes
     DEF ConfirmationsFit, Final, BitcoinFinalization, EthereumFinalization, IsCoinbase
<1> QED
  BY <1>1, HeightTypes DEF Heights

(* A deposit that is final stays final while its block and the keeper's    *)
(* height do.                                                              *)
LEMMA FinalStays ==
    ASSUME TypeOK, TypeOK', NEW d \in Deposits, Final(d), mined[d] # 0, mined[d] <= info,
           mined'[d] = mined[d], info <= info', chain' = chain
    PROVE  Final(d)'
<1>1. PICK a, b : a = Confirmations(d) /\ b = Confirmations(d)'
  OBVIOUS
<1>2. a = info - mined[d] + 1
  BY <1>1, ConfirmationsAre DEF ConfirmationsFit
<1>3. b = info' - mined[d] + 1
  <2>1. ConfirmationsFit'
    BY ConfirmationsAre, PTL
  <2> QED
    BY <1>1, <2>1, HeightTypes DEF ConfirmationsFit, TypeOK
<1>4. a \in Int /\ b \in Int /\ a <= b /\ a > 0
  BY <1>2, <1>3, HeightTypes DEF TypeOK
<1> QED
  BY <1>1, <1>4, HeightTypes
     DEF Final, TrustedSender, BitcoinFinalization, EthereumFinalization, IsCoinbase, VerifyDeposit,
         Bitcoin

-----------------------------------------------------------------------------
(* The tables hold what their columns allow, the checkpoint included: the  *)
(* block that it leaves is below the tip.                                  *)
LEMMA TypeStep ==
    ASSUME TypeOK, Heights, Next
    PROVE  TypeOK'
<1> USE DEF TypeOK
<1>1. ASSUME NEW S \in SUBSET Deposits, NEW pays \in BOOLEAN, Mine(S, pays) PROVE TypeOK'
  <2>1. tip + 1 \in 1..MaxHeight
    BY <1>1, HeightTypes DEF Mine
  <2> QED
    BY <1>1, <2>1 DEF Mine, keeperVars
<1>2. ASSUME NEW S \in SUBSET Deposits, Reorg(S) PROVE TypeOK'
  BY <1>2, ConstantsOK DEF Reorg, keeperVars
<1>3. CASE WriteOperationParams
  BY <1>3 DEF WriteOperationParams, chainVars
<1>4. CASE SendNetworkInfo
  <2>1. FinalHeight \in 1..MaxHeight
    BY <1>4, HeightTypes DEF SendNetworkInfo, InfoDue, FinalHeight
  <2> QED
    BY <1>4, <2>1 DEF SendNetworkInfo, chainVars, keeperVars
<1>5. ASSUME NEW h \in infos, WriteNetworkInfo(h) PROVE TypeOK'
  BY <1>5, ConstantsOK DEF WriteNetworkInfo, chainVars
<1>6. CASE ReadBlock
  BY <1>6 DEF ReadBlock, Readable, InBlock, chainVars, keeperVars
<1>7. CASE WriteDepositCheckpoint
  <2>1. checkpoint + 1 \in 1..(MaxHeight + 1)
    BY <1>7, HeightTypes DEF WriteDepositCheckpoint, Heights
  <2> QED
    BY <1>7, <2>1 DEF WriteDepositCheckpoint, NoBlock, chainVars, keeperVars
<1>8. CASE Crash
  BY <1>8, ConstantsOK DEF Crash, NoBlock, chainVars, keeperVars
<1>9. ASSUME NEW d \in Deposits, NEW f, ProcessTransaction(d, f) PROVE TypeOK'
  BY <1>9 DEF ProcessTransaction, WritePendingDeposit, chainVars
<1>10. ASSUME NEW d \in Deposits, NEW f, ProcessWithdrawal(d, f) PROVE TypeOK'
  BY <1>10 DEF ProcessWithdrawal, WritePendingDeposit, chainVars
<1>11. ASSUME NEW d \in Deposits, DeployKeeperBond(d) PROVE TypeOK'
  BY <1>11 DEF DeployKeeperBond, chainVars
<1>12. ASSUME NEW d \in Deposits, SendKeeperDeposit(d) PROVE TypeOK'
  BY <1>12 DEF SendKeeperDeposit, chainVars, keeperVars
<1>13. ASSUME NEW d \in Deposits, ConfirmPendingDeposit(d) PROVE TypeOK'
  BY <1>13 DEF ConfirmPendingDeposit, chainVars, keeperVars
<1>14. ASSUME NEW d \in Deposits, UpdateDepositRequestId(d) PROVE TypeOK'
  BY <1>14 DEF UpdateDepositRequestId, chainVars, keeperVars
<1>15. ASSUME NEW d \in Deposits, FailDeposit(d) PROVE TypeOK'
  BY <1>15 DEF FailDeposit, Answer, chainVars, keeperVars
<1>16. ASSUME NEW d \in Deposits, CreateHolderDeposit(d) PROVE TypeOK'
  <2>1. panicked' \in BOOLEAN
    BY <1>16, Zenon DEF CreateHolderDeposit
  <2> QED
    BY <1>16, <2>1 DEF CreateHolderDeposit, Answer, chainVars
<1>17. ASSUME NEW d \in Deposits, Spend(d) PROVE TypeOK'
  BY <1>17 DEF Spend, chainVars
<1>18. CASE ChangeSafe
  BY <1>18 DEF ChangeSafe, chainVars
<1>19. CASE BondArrives
  BY <1>19 DEF BondArrives, chainVars
<1> QED
  BY <1>1, <1>2, <1>3, <1>4, <1>5, <1>6, <1>7, <1>8, <1>9, <1>10, <1>11, <1>12, <1>13, <1>14, <1>15,
     <1>16, <1>17, <1>18, <1>19, Zenon DEF Next, DepositConfirmLoop, KeeperProcesses

-----------------------------------------------------------------------------
(* The steps that move the chain, the keeper's height or the checkpoint;   *)
(* no other does.                                                          *)
ChainStep ==
    \/ \E S \in SUBSET Deposits : Reorg(S) \/ \E pays \in BOOLEAN : Mine(S, pays)
    \/ SendNetworkInfo \/ \E h \in infos : WriteNetworkInfo(h)

BlockStep ==
    \/ ReadBlock \/ WriteDepositCheckpoint \/ Crash
    \/ \E d \in Deposits, f \in Fetches : ProcessTransaction(d, f)

RowStep ==
    \/ WriteOperationParams \/ ChangeSafe \/ BondArrives
    \/ \E d \in Deposits, f \in Fetches : ProcessWithdrawal(d, f)
    \/ \E d \in Deposits : DepositConfirmLoop(d) \/ KeeperProcesses(d) \/ Spend(d)

(* Every step is one of these, with what it leaves alone.                  *)
LEMMA StepKinds ==
    ASSUME Next
    PROVE  \/ ChainStep /\ UNCHANGED <<checkpoint, block, output, request, panicked, row, skipped>>
           \/ BlockStep /\ UNCHANGED <<tip, mined, info, infos, output, request, panicked>>
           \/ RowStep /\ UNCHANGED <<tip, mined, info, infos, checkpoint, block, skipped>>
<1>1. ASSUME ChainStep
      PROVE  UNCHANGED <<checkpoint, block, output, request, panicked, row, skipped>>
  BY <1>1 DEF ChainStep, Reorg, Mine, SendNetworkInfo, WriteNetworkInfo, keeperVars
<1>2. ASSUME BlockStep PROVE UNCHANGED <<tip, mined, info, infos, output, request, panicked>>
  BY <1>2 DEF BlockStep, ReadBlock, WriteDepositCheckpoint, Crash, ProcessTransaction, chainVars,
              keeperVars
<1>3. ASSUME RowStep PROVE UNCHANGED <<tip, mined, info, infos, checkpoint, block, skipped>>
  BY <1>3 DEF RowStep, WriteOperationParams, ChangeSafe, BondArrives, ProcessWithdrawal,
              DepositConfirmLoop, DeployKeeperBond, SendKeeperDeposit, ConfirmPendingDeposit,
              UpdateDepositRequestId, KeeperProcesses, FailDeposit, CreateHolderDeposit, Spend,
              chainVars, keeperVars
<1>4. ChainStep \/ BlockStep \/ RowStep
  BY Zenon DEF Next, ChainStep, BlockStep, RowStep
<1> QED
  BY <1>1, <1>2, <1>3, <1>4, Zenon

(* The chain of the safe does not change.                                  *)
LEMMA ChainKept == ASSUME Next PROVE chain' = chain
  BY DEF Next, Mine, Reorg, WriteOperationParams, SendNetworkInfo, WriteNetworkInfo, ReadBlock,
         WriteDepositCheckpoint, Crash, ProcessTransaction, ProcessWithdrawal, DepositConfirmLoop,
         DeployKeeperBond, SendKeeperDeposit, ConfirmPendingDeposit, UpdateDepositRequestId,
         KeeperProcesses, FailDeposit, CreateHolderDeposit, Spend, ChangeSafe, BondArrives, chainVars

(* Heights grow, and the heights that the keeper is sent stay below the    *)
(* blocks that may be replaced.                                            *)
LEMMA HeightsStep ==
    ASSUME TypeOK, Heights, Next
    PROVE  Heights'
<1> USE DEF Heights
<1>1. ASSUME NEW S \in SUBSET Deposits, NEW pays \in BOOLEAN, Mine(S, pays),
             UNCHANGED <<checkpoint, block>>
      PROVE  Heights'
  <2>1. tip' = tip + 1 /\ info' = info /\ infos' = infos
    BY <1>1 DEF Mine, keeperVars
  <2>2. \A d \in Deposits : mined'[d] \in {mined[d], tip + 1}
    BY <1>1 DEF Mine
  <2> QED
    BY <1>1, <2>1, <2>2, HeightTypes
<1>2. ASSUME NEW S \in SUBSET Deposits, Reorg(S), UNCHANGED <<checkpoint, block>> PROVE Heights'
  <2>1. tip' = tip /\ info' = info /\ infos' = infos
    BY <1>2 DEF Reorg, keeperVars
  <2>2. \A d \in Deposits : mined'[d] \in {mined[d], 0}
    BY <1>2 DEF Reorg
  <2> QED
    BY <1>2, <2>1, <2>2, HeightTypes
<1>3. CASE SendNetworkInfo /\ UNCHANGED <<checkpoint, block>>
  BY <1>3, HeightTypes DEF SendNetworkInfo, InfoDue, FinalHeight, chainVars, keeperVars
<1>4. ASSUME NEW h \in infos, WriteNetworkInfo(h), UNCHANGED <<checkpoint, block>> PROVE Heights'
  BY <1>4, HeightTypes DEF WriteNetworkInfo, chainVars
<1>5. CASE ReadBlock /\ UNCHANGED <<tip, mined, info, infos>>
  BY <1>5, HeightTypes DEF ReadBlock, BlockDue
<1>6. CASE WriteDepositCheckpoint /\ UNCHANGED <<tip, mined, info, infos>>
  BY <1>6, HeightTypes DEF WriteDepositCheckpoint, NoBlock
<1>7. CASE Crash /\ UNCHANGED <<tip, mined, info, infos>>
  BY <1>7, HeightTypes DEF Crash, NoBlock
<1>8. ASSUME NEW d \in Deposits, NEW f, ProcessTransaction(d, f), UNCHANGED <<tip, mined, info, infos>>
      PROVE  Heights'
  <2>1. checkpoint' = checkpoint /\ block'.busy = block.busy
    BY <1>8 DEF ProcessTransaction, TypeOK
  <2> QED
    BY <1>8, <2>1
<1>9. CASE UNCHANGED <<tip, mined, info, infos, checkpoint, block>>
  BY <1>9
<1> QED
  BY <1>1, <1>2, <1>3, <1>4, <1>5, <1>6, <1>7, <1>8, <1>9, StepKinds, Zenon
     DEF ChainStep, BlockStep

(* A block that stays keeps its deposits, and no height falls.             *)
LEMMA BlocksStay ==
    ASSUME TypeOK, Heights, Next
    PROVE  /\ \A d \in Deposits : mined[d] \in 1..(tip + 1 - Delay) => mined'[d] = mined[d]
           /\ tip <= tip' /\ info <= info'
<1>1. ASSUME NEW S \in SUBSET Deposits, NEW pays \in BOOLEAN, Mine(S, pays)
      PROVE  /\ \A d \in Deposits : mined[d] # 0 => mined'[d] = mined[d]
             /\ tip <= tip' /\ info' = info
  BY <1>1, HeightTypes DEF Mine, keeperVars
<1>2. ASSUME NEW S \in SUBSET Deposits, Reorg(S)
      PROVE  /\ \A d \in Deposits : mined[d] <= tip + 1 - Delay => mined'[d] = mined[d]
             /\ tip <= tip' /\ info' = info
  BY <1>2, HeightTypes DEF Reorg, keeperVars
<1>3. ASSUME NEW h \in infos, WriteNetworkInfo(h)
      PROVE  mined' = mined /\ tip' = tip /\ info <= info'
  BY <1>3, HeightTypes DEF WriteNetworkInfo, chainVars
<1>4. CASE SendNetworkInfo
  BY <1>4, HeightTypes DEF SendNetworkInfo, chainVars, keeperVars
<1>5. CASE ChainStep
  <2>1. CASE \E S \in SUBSET Deposits, pays \in BOOLEAN : Mine(S, pays)
    BY <1>1, <2>1, HeightTypes
  <2>2. CASE \E S \in SUBSET Deposits : Reorg(S)
    BY <1>2, <2>2, HeightTypes
  <2>3. CASE \E h \in infos : WriteNetworkInfo(h)
    BY <1>3, <2>3, HeightTypes
  <2> QED
    BY <1>4, <1>5, <2>1, <2>2, <2>3, Zenon DEF ChainStep
<1>6. CASE UNCHANGED <<tip, mined, info>>
  BY <1>6, HeightTypes
<1> QED
  BY <1>5, <1>6, StepKinds, Zenon

(* What is final stays final.                                              *)
LEMMA FinalKept ==
    ASSUME TypeOK, Heights, Next, NEW d \in Deposits, Final(d)
    PROVE  Final(d)'
<1>1. mined[d] # 0 /\ mined[d] <= info /\ mined[d] \in 1..(tip + 1 - Delay)
  BY FinalIsSettled
<1>2. TypeOK' /\ chain' = chain /\ mined'[d] = mined[d] /\ info <= info'
  BY <1>1, TypeStep, ChainKept, BlocksStay
<1> QED
  BY <1>1, <1>2, FinalStays

(* The steps that change a row: to Initial when there is none, by the      *)
(* observer's loops of blocks and withdrawals.                             *)
LEMMA RowsWritten ==
    ASSUME TypeOK, NEW d \in Deposits, NEW f, WritePendingDeposit(d, f)
    PROVE  \A e \in Deposits : row'[e] = row[e] \/ (row[e] = "none" /\ row'[e] = "Initial")
  BY DEF WritePendingDeposit, TypeOK

(* The part of the invariant that is about requests and records.           *)
CreditInv == RequestedIsFinal /\ CreditedIsSettled /\ KeeperAgrees /\ AnswerMatchesCredit

(* The request of a deposit, the keeper's record of it and the observer's  *)
(* row agree after every step.                                             *)
LEMMA CreditStep ==
    ASSUME TypeOK, Heights, CreditInv, Next
    PROVE  CreditInv'
<1>1. /\ \A d \in Deposits : Final(d) => Final(d)'
      /\ \A d \in Deposits : mined[d] \in 1..(tip + 1 - Delay) => mined'[d] \in 1..(tip' + 1 - Delay)
      /\ \A d \in Deposits : Final(d) => mined'[d] \in 1..(tip' + 1 - Delay)
  <2>1. ASSUME NEW d \in Deposits, mined[d] \in 1..(tip + 1 - Delay)
        PROVE  mined'[d] \in 1..(tip' + 1 - Delay)
    <3>1. tip' \in Nat
      BY TypeStep, ConstantsOK DEF TypeOK
    <3> QED
      BY <2>1, <3>1, BlocksStay, HeightTypes
  <2> QED
    BY <2>1, FinalKept, FinalIsSettled
<1>2. ASSUME UNCHANGED <<output, request, panicked>>,
             \A d \in Deposits : row'[d] = "Done" => row[d] = "Done" \/ request[d] = "Done"
      PROVE  CreditInv'
  BY <1>1, <1>2
     DEF CreditInv, RequestedIsFinal, CreditedIsSettled, KeeperAgrees, AnswerMatchesCredit, Credited
<1>3. ASSUME NEW d \in Deposits, SendKeeperDeposit(d) PROVE CreditInv'
  <2>1. /\ request[d] = "none" /\ Final(d) /\ request' = [request EXCEPT ![d] = "Sent"]
        /\ UNCHANGED <<output, panicked, row>>
    BY <1>3 DEF SendKeeperDeposit, Confirmable, keeperVars
  <2> QED
    BY <1>1, <2>1
       DEF CreditInv, RequestedIsFinal, CreditedIsSettled, KeeperAgrees, AnswerMatchesCredit,
           Credited, TypeOK
<1>4. ASSUME NEW d \in Deposits, UpdateDepositRequestId(d) PROVE CreditInv'
  <2>1. /\ request[d] = "Failed" /\ request' = [request EXCEPT ![d] = "none"]
        /\ UNCHANGED <<output, panicked, row>>
    BY <1>4 DEF UpdateDepositRequestId, keeperVars
  <2> QED
    BY <1>1, <2>1
       DEF CreditInv, RequestedIsFinal, CreditedIsSettled, KeeperAgrees, AnswerMatchesCredit,
           Credited, TypeOK
<1>5. ASSUME NEW d \in Deposits, FailDeposit(d) PROVE CreditInv'
  <2>1. /\ request[d] = "Sent" /\ request' = [request EXCEPT ![d] = "Failed"]
        /\ UNCHANGED <<output, panicked, row>>
    BY <1>5 DEF FailDeposit, Answer, keeperVars
  <2> QED
    BY <1>1, <2>1
       DEF CreditInv, RequestedIsFinal, CreditedIsSettled, KeeperAgrees, AnswerMatchesCredit,
           Credited, TypeOK
<1>6. ASSUME NEW d \in Deposits, CreateHolderDeposit(d) PROVE CreditInv'
  <2>1. request[d] = "Sent" /\ Final(d) /\ ~panicked' /\ row' = row
    BY <1>6, Zenon DEF CreateHolderDeposit, CreditInv, RequestedIsFinal
  <2>2. \/ /\ output' = [output EXCEPT ![d] = "unspent"]
           /\ request' = [request EXCEPT ![d] = "Done"]
        \/ /\ output' = output /\ request' = [request EXCEPT ![d] = "Failed"]
    BY <1>6, <2>1 DEF CreateHolderDeposit, Answer
  <2> QED
    BY <1>1, <2>1, <2>2
       DEF CreditInv, RequestedIsFinal, CreditedIsSettled, KeeperAgrees, AnswerMatchesCredit,
           Credited, TypeOK
<1>7. ASSUME NEW d \in Deposits, Spend(d) PROVE CreditInv'
  <2>1. /\ output[d] = "unspent" /\ output' = [output EXCEPT ![d] = "spent"]
        /\ UNCHANGED <<request, panicked, row>>
    BY <1>7 DEF Spend
  <2> QED
    BY <1>1, <2>1
       DEF CreditInv, RequestedIsFinal, CreditedIsSettled, KeeperAgrees, AnswerMatchesCredit,
           Credited, TypeOK
<1>8. ASSUME NEW d \in Deposits, ConfirmPendingDeposit(d) PROVE CreditInv'
  <2>1. /\ request[d] = "Done" /\ row' = [row EXCEPT ![d] = "Done"]
        /\ UNCHANGED <<output, request, panicked>>
    BY <1>8 DEF ConfirmPendingDeposit, keeperVars
  <2> QED
    BY <1>2, <2>1 DEF TypeOK
<1>9. ASSUME NEW d \in Deposits, NEW f, ProcessTransaction(d, f) \/ ProcessWithdrawal(d, f)
      PROVE  CreditInv'
  <2>1. WritePendingDeposit(d, f) /\ UNCHANGED <<output, request, panicked>>
    BY <1>9 DEF ProcessTransaction, ProcessWithdrawal
  <2> QED
    BY <1>2, <2>1, RowsWritten
<1>10. CASE ChainStep
  <2>1. UNCHANGED <<output, request, panicked, row>>
    BY <1>10 DEF ChainStep, Reorg, Mine, SendNetworkInfo, WriteNetworkInfo, keeperVars
  <2> QED
    BY <1>2, <2>1
<1>11. CASE ReadBlock \/ WriteDepositCheckpoint \/ Crash \/ WriteOperationParams \/ ChangeSafe
            \/ BondArrives \/ \E d \in Deposits : DeployKeeperBond(d)
  <2>1. UNCHANGED <<output, request, panicked, row>>
    BY <1>11 DEF ReadBlock, WriteDepositCheckpoint, Crash, WriteOperationParams, ChangeSafe,
                 BondArrives, DeployKeeperBond, keeperVars
  <2> QED
    BY <1>2, <2>1
<1> QED
  BY <1>3, <1>4, <1>5, <1>6, <1>7, <1>8, <1>9, <1>10, <1>11, Zenon
     DEF Next, ChainStep, DepositConfirmLoop, KeeperProcesses

-----------------------------------------------------------------------------
(* A deposit that the observer has a row of, or that the keeper has, or    *)
(* that the loop skipped, stays one.                                       *)
Seen(d) == row[d] # "none" \/ Credited(d) \/ d \in skipped

(* No step forgets a deposit.                                              *)
LEMMA SeenStays ==
    ASSUME TypeOK, Next, NEW d \in Deposits, Seen(d)
    PROVE  Seen(d)'
<1>1. skipped \subseteq skipped'
  <2>1. CASE ReadBlock
    BY <2>1 DEF ReadBlock
  <2>2. CASE \E e \in Deposits, f \in Fetches : ProcessTransaction(e, f)
    BY <2>2 DEF ProcessTransaction
  <2>3. CASE WriteDepositCheckpoint \/ Crash
    BY <2>3 DEF WriteDepositCheckpoint, Crash
  <2>4. CASE skipped' = skipped
    BY <2>4
  <2> QED
    BY <2>1, <2>2, <2>3, <2>4, StepKinds, Zenon DEF BlockStep
<1>2. row[d] # "none" => row'[d] # "none"
  <2>1. ASSUME NEW e \in Deposits, NEW f, ProcessTransaction(e, f) \/ ProcessWithdrawal(e, f)
        PROVE  row[d] # "none" => row'[d] # "none"
    <3>1. WritePendingDeposit(e, f)
      BY <2>1 DEF ProcessTransaction, ProcessWithdrawal
    <3> QED
      BY <3>1, RowsWritten
  <2>2. ASSUME NEW e \in Deposits, ConfirmPendingDeposit(e)
        PROVE  row[d] # "none" => row'[d] # "none"
    BY <2>2 DEF ConfirmPendingDeposit, TypeOK
  <2>3. ASSUME row' = row PROVE row[d] # "none" => row'[d] # "none"
    BY <2>3
  <2>4. \/ row' = row
        \/ \E e \in Deposits, f \in Fetches : ProcessTransaction(e, f) \/ ProcessWithdrawal(e, f)
        \/ \E e \in Deposits : ConfirmPendingDeposit(e)
    BY DEF Next, Mine, Reorg, WriteOperationParams, SendNetworkInfo, WriteNetworkInfo, ReadBlock,
           WriteDepositCheckpoint, Crash, DepositConfirmLoop, DeployKeeperBond, SendKeeperDeposit,
           UpdateDepositRequestId, KeeperProcesses, FailDeposit, CreateHolderDeposit, Spend,
           ChangeSafe, BondArrives
  <2> QED
    BY <2>1, <2>2, <2>3, <2>4, Zenon
<1>3. Credited(d) => Credited(d)'
  <2>1. ASSUME NEW e \in Deposits, CreateHolderDeposit(e) PROVE Credited(d) => Credited(d)'
    BY <2>1 DEF CreateHolderDeposit, Credited, TypeOK
  <2>2. ASSUME NEW e \in Deposits, Spend(e) PROVE Credited(d) => Credited(d)'
    BY <2>2 DEF Spend, Credited, TypeOK
  <2>3. ASSUME output' = output PROVE Credited(d) => Credited(d)'
    BY <2>3 DEF Credited
  <2>4. output' = output \/ \E e \in Deposits : CreateHolderDeposit(e) \/ Spend(e)
    BY DEF Next, Mine, Reorg, WriteOperationParams, SendNetworkInfo, WriteNetworkInfo, ReadBlock,
           WriteDepositCheckpoint, Crash, ProcessTransaction, ProcessWithdrawal, DepositConfirmLoop,
           DeployKeeperBond, SendKeeperDeposit, ConfirmPendingDeposit, UpdateDepositRequestId,
           KeeperProcesses, FailDeposit, ChangeSafe, BondArrives, keeperVars
  <2> QED
    BY <2>1, <2>2, <2>3, <2>4, Zenon
<1> QED
  BY <1>1, <1>2, <1>3 DEF Seen

AllSeen ==
    /\ \A d \in Deposits : mined[d] \in 1..(checkpoint - 1) => Seen(d)
    /\ block.busy => \A d \in Deposits : mined[d] = checkpoint => d \in block.left \/ Seen(d)

(* The part of the invariant that is about the blocks that were read.      *)
SeenInv == PassedIsSeen /\ BlockIsSeen

(* No deposit of a block is lost when the observer stops within it: the    *)
(* checkpoint moves when nothing is left of the block.                     *)
LEMMA SeenStep ==
    ASSUME TypeOK, Heights, SeenInv, Next
    PROVE  SeenInv'
<1> USE DEF AllSeen
<1>1. AllSeen
  BY DEF SeenInv, PassedIsSeen, BlockIsSeen, Seen
<1>2. \A d \in Deposits : Seen(d) => Seen(d)'
  BY SeenStays
<1> SUFFICES AllSeen'
  BY DEF SeenInv, PassedIsSeen, BlockIsSeen, Seen
<1>3. ASSUME NEW S \in SUBSET Deposits, NEW pays \in BOOLEAN, Mine(S, pays),
             UNCHANGED <<checkpoint, block>>
      PROVE  AllSeen'
  <2>1. \A d \in Deposits : mined'[d] = mined[d] \/ mined'[d] = tip + 1
    BY <1>3 DEF Mine
  <2> QED
    BY <1>1, <1>2, <1>3, <2>1, HeightTypes DEF Heights
<1>4. ASSUME NEW S \in SUBSET Deposits, Reorg(S), UNCHANGED <<checkpoint, block>>
      PROVE  AllSeen'
  <2>1. \A d \in Deposits : mined'[d] = mined[d] \/ mined'[d] = 0
    BY <1>4 DEF Reorg
  <2> QED
    BY <1>1, <1>2, <1>4, <2>1, HeightTypes
<1>5. CASE ReadBlock /\ mined' = mined
  <2>1. /\ checkpoint' = checkpoint /\ block'.busy /\ block'.left = Readable(checkpoint)
        /\ skipped' = skipped \cup {d \in InBlock(checkpoint) \ Readable(checkpoint) : ~Credited(d)}
    BY <1>5 DEF ReadBlock
  <2>2. ASSUME NEW d \in Deposits, mined[d] = checkpoint PROVE d \in block'.left \/ Seen(d)'
    <3>1. d \in InBlock(checkpoint)
      BY <2>2 DEF InBlock
    <3>2. CASE d \notin Readable(checkpoint) /\ ~Credited(d)
      BY <2>1, <3>1, <3>2 DEF Seen
    <3>3. CASE Credited(d)
      BY <1>2, <3>3 DEF Seen
    <3> QED
      BY <2>1, <3>2, <3>3
  <2> QED
    BY <1>1, <1>2, <1>5, <2>1, <2>2
<1>6. CASE WriteDepositCheckpoint /\ mined' = mined
  <2>1. /\ block.busy /\ block.left = {} /\ checkpoint' = checkpoint + 1 /\ ~block'.busy
    BY <1>6 DEF WriteDepositCheckpoint, NoBlock
  <2> QED
    BY <1>1, <1>2, <1>6, <2>1, HeightTypes
<1>7. CASE Crash /\ mined' = mined
  BY <1>1, <1>2, <1>7 DEF Crash, NoBlock
<1>8. ASSUME NEW e \in Deposits, NEW f, ProcessTransaction(e, f), mined' = mined
      PROVE  AllSeen'
  <2>1. /\ checkpoint' = checkpoint /\ block'.busy = block.busy /\ block'.left = block.left \ {e}
    BY <1>8 DEF ProcessTransaction, TypeOK
  <2>2. Seen(e)'
    <3>1. CASE Credited(e)
      BY <1>2, <3>1 DEF Seen
    <3>2. CASE ~Credited(e) /\ row'[e] = "none"
      BY <1>8, <3>2 DEF ProcessTransaction, Seen
    <3> QED
      BY <3>1, <3>2 DEF Seen
  <2> QED
    BY <1>1, <1>2, <1>8, <2>1, <2>2
<1>9. CASE UNCHANGED <<mined, checkpoint, block>>
  BY <1>1, <1>2, <1>9
<1>10. ASSUME NEW h \in infos, WriteNetworkInfo(h) PROVE mined' = mined
  BY <1>10 DEF WriteNetworkInfo, chainVars
<1>11. SendNetworkInfo => mined' = mined
  BY DEF SendNetworkInfo, chainVars
<1> QED
  BY <1>3, <1>4, <1>5, <1>6, <1>7, <1>8, <1>9, <1>10, <1>11, StepKinds, Zenon
     DEF ChainStep, BlockStep

-----------------------------------------------------------------------------
(* The inductive invariant of the deposits of a safe: it holds at first    *)
(* and every step of a loop, of the keeper or of the chain keeps it.       *)
THEOREM DepositsInvariance == Spec => []DepositInv
<1>1. Init => DepositInv
  <2> SUFFICES ASSUME Init PROVE DepositInv
    OBVIOUS
  <2> USE DEF Init
  <2>1. TypeOK /\ Heights
    <3>1. NoBlock \in [busy: BOOLEAN, left: SUBSET Deposits] /\ ~NoBlock.busy
      BY DEF NoBlock
    <3>2. 0 \in 0..MaxHeight /\ 0 \in 0..MaxReorgs /\ 0 \in 0..MaxCrashes /\ 1 \in 1..(MaxHeight + 1)
      BY ConstantsOK
    <3>3. TypeOK
      BY <3>1, <3>2, Zenon DEF TypeOK
    <3> QED
      BY <3>1, <3>3 DEF Heights
  <2>2. RequestedIsFinal /\ CreditedIsSettled /\ KeeperAgrees /\ AnswerMatchesCredit
    BY DEF RequestedIsFinal, CreditedIsSettled, KeeperAgrees, AnswerMatchesCredit, Credited
  <2>3. PassedIsSeen /\ BlockIsSeen
    BY DEF PassedIsSeen, BlockIsSeen, NoBlock
  <2> QED
    BY <2>1, <2>2, <2>3 DEF DepositInv
<1>2. DepositInv /\ [Next]_vars => DepositInv'
  <2>1. ASSUME DepositInv, Next PROVE DepositInv'
    BY <2>1, TypeStep, HeightsStep, CreditStep, SeenStep, Zenon DEF DepositInv, CreditInv, SeenInv
  <2>2. ASSUME DepositInv, UNCHANGED vars PROVE DepositInv'
    BY <2>2 DEF DepositInv, vars, chainVars, keeperVars, TypeOK, Heights, RequestedIsFinal, Final,
                TrustedSender, Confirmations, OutputHeight, BitcoinFinalization, IsCoinbase,
                EthereumFinalization, VerifyDeposit, Bitcoin, CreditedIsSettled, KeeperAgrees,
                AnswerMatchesCredit, PassedIsSeen, BlockIsSeen, Credited
  <2> QED
    BY <2>1, <2>2
<1> QED
  BY <1>1, <1>2, PTL DEF Spec

(* doBitcoinHolderDeposit and doEthereumHolderDeposit issue bonds only for *)
(* a deposit in a block that no reorganization replaces.                   *)
THEOREM CreditedSettled == Spec => []CreditedIsSettled
<1>1. DepositInv => CreditedIsSettled
  BY DEF DepositInv
<1> QED
  BY <1>1, DepositsInvariance, PTL

(* The keeper finds final whatever the observer found final, so the panic  *)
(* of doBitcoinHolderDeposit and doEthereumHolderDeposit is not reached.   *)
THEOREM KeeperNeverPanics == Spec => []KeeperAgrees
<1>1. DepositInv => KeeperAgrees
  BY DEF DepositInv
<1> QED
  BY <1>1, DepositsInvariance, PTL

(* However often the observer stops within a block, bitcoinRPCBlocksLoop   *)
(* and ethereumRPCBlocksLoop leave no deposit behind the checkpoint that   *)
(* has no row, is not credited and was not skipped.                        *)
THEOREM PassedSeen == Spec => []PassedIsSeen
<1>1. DepositInv => PassedIsSeen
  BY DEF DepositInv
<1> QED
  BY <1>1, DepositsInvariance, PTL

(* A request of sendKeeperDepositTransaction that failed issued no bonds,  *)
(* and a row is done only when the bonds were issued.                      *)
THEOREM AnswersMatch == Spec => []AnswerMatchesCredit
<1>1. DepositInv => AnswerMatchesCredit
  BY DEF DepositInv
<1> QED
  BY <1>1, DepositsInvariance, PTL

-----------------------------------------------------------------------------
(* What a step leaves of a deposit: final and in its block, and seen.      *)
Kept(d) ==
    /\ Final(d) => Final(d)' /\ mined'[d] = mined[d]
    /\ Seen(d) => Seen(d)'

(* No height or reorganization undoes CheckFinalization, and no loop       *)
(* forgets a deposit.                                                      *)
FinalForGood == [][\A d \in Deposits : Kept(d)]_vars

(* A deposit that CheckFinalization found final stays final and in its     *)
(* block, over later heights and reorganizations, and no step forgets a    *)
(* deposit that the observer or the keeper has.                            *)
THEOREM FinalStaysFinal == Spec => FinalForGood
<1>1. DepositInv /\ [Next]_vars => [\A d \in Deposits : Kept(d)]_vars
  <2> SUFFICES ASSUME DepositInv, Next, NEW d \in Deposits PROVE Kept(d)
    OBVIOUS
  <2>1. TypeOK /\ Heights
    BY DEF DepositInv
  <2>2. ASSUME Final(d) PROVE Final(d)' /\ mined'[d] = mined[d]
    BY <2>1, <2>2, FinalKept, FinalIsSettled, BlocksStay
  <2>3. ASSUME Seen(d) PROVE Seen(d)'
    BY <2>1, <2>3, SeenStays
  <2> QED
    BY <2>2, <2>3, Zenon DEF Kept
<1> QED
  BY <1>1, DepositsInvariance, PTL DEF Spec, FinalForGood
=============================================================================
