---------------------------- MODULE BitcoinFees ----------------------------
(***************************************************************************)
(* How the observer pays the network fee of a fully signed Bitcoin         *)
(* transaction (observer/accountant.go).                                   *)
(*                                                                         *)
(* The transactions of safes carry no fee.  The observer adds an input of  *)
(* its own whose whole value is the fee.  bitcoin_outputs is the table of  *)
(* these outputs: those the operator paid in, and those of the "splits",   *)
(* by which the observer makes an output of the size it needs.  One loop   *)
(* takes the signed transactions, oldest first, and stops at the first     *)
(* error.                                                                  *)
(*                                                                         *)
(* Two details of the code matter here.  A split returns an output without *)
(* its address, so that no key is found for it and the round ends; the     *)
(* next round finds the output in the table.  And the query that finds it  *)
(* also matches free outputs in the range of the fee: it takes whichever   *)
(* comes first in the table (spent_by has no index, so SQLite scans the    *)
(* rows in the order of insertion).                                        *)
(*                                                                         *)
(* An interruption is a crash, or an error of the Bitcoin node after any   *)
(* write or broadcast.                                                     *)
(***************************************************************************)
EXTENDS Naturals, Sequences, FiniteSets, SequencesExt, FiniteSetsExt

CONSTANTS
    Txs,            \* numbers of transactions, in the order of created_at
    Size,           \* [Txs -> Nat]: virtual size
    Rates,          \* fees per unit of size
    InitialRate,
    InitialFunds,   \* sequence of values the operator has paid in
    Funds,          \* values the operator may still pay in
    Dust,
    MaxInterrupts, MaxReprices, MaxFundings     \* bounds

ASSUME ConstantsAssumption ==
    /\ Txs \subseteq Nat \ {0}
    /\ Size \in [Txs -> Nat \ {0}]
    /\ InitialRate \in Rates /\ Rates \subseteq Nat \ {0}
    /\ InitialFunds \in Seq(Nat) /\ Funds \subseteq Nat /\ Dust \in Nat
    /\ {MaxInterrupts, MaxReprices, MaxFundings} \subseteq Nat

VARIABLES
    rate,       \* EstimateAvgFee
    rows,       \* the bitcoin_outputs table, in the order of insertion
    signed,     \* transactions in state Done
    confirmed,  \* transactions with a spent_hash
    list,       \* transactions the loop has still to spend
    fee,        \* row the loop spends for the first of list, 0 before it has one
    splits,     \* splits broadcast, by number
    chain,      \* chain[t]: row spent with t on the network, 0 before
    spends,     \* pairs of a row and what was broadcast as spending it
    disordered, \* history: a transaction was signed after a younger one
    interrupts, reprices, fundings  \* bounded counters

vars == <<rate, rows, signed, confirmed, list, fee, splits, chain, spends,
          disordered, interrupts, reprices, fundings>>

bounds == <<interrupts, reprices, fundings>>

\* by: what spends the row, a transaction, a split, or nothing yet (state
\* Initial).  parent: the split the row is an output of, 0 when it was paid in.
Nothing == [kind |-> "none", no |-> 0]
ByTx(t) == [kind |-> "tx", no |-> t]
BySplit(n) == [kind |-> "split", no |-> n]
Row(v, parent, by) == [value |-> v, parent |-> parent, by |-> by]

Init ==
    /\ rate = InitialRate
    /\ rows = [i \in DOMAIN InitialFunds |-> Row(InitialFunds[i], 0, Nothing)]
    /\ signed = {} /\ confirmed = {}
    /\ list = << >> /\ fee = 0
    /\ splits = {}
    /\ chain = [t \in Txs |-> 0]
    /\ spends = {}
    /\ disordered = FALSE
    /\ interrupts = 0 /\ reprices = 0 /\ fundings = 0

------------------------------------------------------------------------------
(* Around the loop.                                                         *)

\* The keeper's signatures complete a transaction.
Sign(t) ==
    /\ t \notin signed
    /\ signed' = signed \cup {t}
    /\ disordered' = (disordered \/ \E u \in signed : u > t)
    /\ UNCHANGED <<rate, rows, confirmed, list, fee, splits, chain, spends, bounds>>

\* A paid-in output, free to be spent.
WithUTXO(v) == Append(rows, Row(v, 0, Nothing))

\* bitcoinWriteFeeOutput: an output to the address of an accountant key.  Outputs
\* of splits are in the table already, and dust is left out.
WriteFeeOutput(v) ==
    /\ fundings < MaxFundings
    /\ fundings' = fundings + 1
    /\ rows' = IF v < Dust THEN rows ELSE WithUTXO(v)
    /\ UNCHANGED <<rate, signed, confirmed, list, fee, splits, chain, spends, disordered, interrupts, reprices>>

Reprice(r) ==
    /\ r # rate
    /\ reprices < MaxReprices
    /\ reprices' = reprices + 1
    /\ rate' = r
    /\ UNCHANGED <<rows, signed, confirmed, list, fee, splits, chain, spends, disordered, interrupts, fundings>>

\* slip: the newest first
ByAgeDescending(ts) == SetToSortSeq(ts, >)

\* ORDER BY created_at ASC.
ByAge(ts) == SetToSortSeq(ts, <)

\* ListFullySignedTransactionApprovals.
ListSigned ==
    /\ list = << >>
    /\ signed # confirmed
    /\ list' = ByAge(signed \ confirmed)
    /\ UNCHANGED <<rate, rows, signed, confirmed, fee, splits, chain, spends, disordered, bounds>>

\* Any error ends the round.
EndRound == list' = << >> /\ fee' = 0

\* A crash, or an error of the Bitcoin node, with a transaction at hand.
Interrupt ==
    /\ list # << >>
    /\ interrupts < MaxInterrupts
    /\ interrupts' = interrupts + 1
    /\ EndRound
    /\ UNCHANGED <<rate, rows, signed, confirmed, splits, chain, spends, disordered, reprices, fundings>>

------------------------------------------------------------------------------
(* An input for the fee.                                                    *)

FeeOf(t) == IF Size[t] * rate < Dust THEN Dust ELSE Size[t] * rate

\* Between 90% and 110% of the fee.
InRange(v, f) == v >= (f * 9) \div 10 /\ v <= (f * 11) \div 10

\* slip: outputs that are spent are not left out
MatchesSpent(i, t) == InRange(rows[i].value, FeeOf(t))

\* A free output in range, or one that this transaction already has.
Matches(i, t) ==
    \/ InRange(rows[i].value, FeeOf(t)) /\ rows[i].by = Nothing
    \/ rows[i].by = ByTx(t)

\* AssignBitcoinUTXOByRangeForTransaction: the first match, marked as spent by
\* the transaction.
AssignOutput ==
    /\ list # << >> /\ fee = 0
    /\ LET t == Head(list)
           found == {i \in DOMAIN rows : Matches(i, t)}
       IN /\ found # {}
          /\ fee' = Min(found)
          /\ rows' = [rows EXCEPT ![Min(found)].by = ByTx(t)]
    /\ UNCHANGED <<rate, signed, confirmed, list, splits, chain, spends, disordered, bounds>>

Free == SetToSortSeq({i \in DOMAIN rows : rows[i].by = Nothing}, <)

\* The value of the first n free outputs.
Total(n) == FoldFunction(+, 0, [j \in 1..n |-> rows[Free[j]].value])

\* The price of a split with n inputs: (40 + 300 n + 256) / 4 units of size, which
\* is one input more in units of an input.
Cost(n) == (n + 1) * rate

\* slip: the split pays for the fee alone
CoversFee(n, t) == Total(n) >= FeeOf(t)

\* The first n free outputs pay for the split and for the fee.
Covers(n, t) == Total(n) >= Cost(n) + FeeOf(t)

\* WriteBitcoinFeeOutput: the first n free outputs are spent by a split, whose
\* first output is the fee of t and taken, and whose second is the change.
AfterSplit(n, t) ==
    LET no == 1 + Max({rows[i].parent : i \in DOMAIN rows} \cup {0})
        change == Total(n) - Cost(n) - FeeOf(t)
        inputs == {Free[j] : j \in 1..n}
    IN [i \in DOMAIN rows |->
          IF i \in inputs THEN [rows[i] EXCEPT !.by = BySplit(no)] ELSE rows[i]]
         \o <<Row(FeeOf(t), no, ByTx(t))>>
         \o (IF change > Dust THEN <<Row(change, no, Nothing)>> ELSE << >>)

\* No output matches: as many free outputs as are needed are split, oldest
\* first.  Without enough of them nothing is written.  The round ends either way.
SplitOutputs ==
    /\ list # << >> /\ fee = 0
    /\ LET t == Head(list)
           enough == {n \in 1..Len(Free) : Covers(n, t)}
       IN /\ \A i \in DOMAIN rows : ~Matches(i, t)
          /\ rows' = IF enough = {} THEN rows ELSE AfterSplit(Min(enough), t)
    /\ EndRound
    /\ UNCHANGED <<rate, signed, confirmed, splits, chain, spends, disordered, bounds>>

------------------------------------------------------------------------------
(* Broadcasting.                                                            *)

Inputs(n) == {i \in DOMAIN rows : rows[i].by = BySplit(n)}

\* The network knows the output.
Exists(i) == rows[i].parent = 0 \/ rows[i].parent \in splits

\* The transaction that made the output is broadcast first, again if need be;
\* the network refuses it while one of its own inputs is not there.
BroadcastParent ==
    /\ fee # 0
    /\ ~Exists(fee)
    /\ LET n == rows[fee].parent
       IN IF \A i \in Inputs(n) : Exists(i)
          THEN /\ splits' = splits \cup {n}
               /\ spends' = spends \cup {<<i, BySplit(n)>> : i \in Inputs(n)}
               /\ UNCHANGED <<list, fee>>
          ELSE EndRound /\ UNCHANGED <<splits, spends>>
    /\ UNCHANGED <<rate, rows, signed, confirmed, chain, disordered, bounds>>

\* The transaction with its fee is broadcast; the network refuses it when the
\* inputs of the safe are spent with another fee.
BroadcastTransaction ==
    /\ fee # 0
    /\ Exists(fee)
    /\ LET t == Head(list)
       IN /\ chain[t] # fee
          /\ IF chain[t] = 0
             THEN /\ chain' = [chain EXCEPT ![t] = fee]
                  /\ spends' = spends \cup {<<fee, ByTx(t)>>}
                  /\ UNCHANGED <<list, fee>>
             ELSE EndRound /\ UNCHANGED <<chain, spends>>
    /\ UNCHANGED <<rate, rows, signed, confirmed, splits, disordered, bounds>>

\* ConfirmFullySignedTransactionApproval, and on to the next transaction.
Confirm ==
    /\ fee # 0
    /\ chain[Head(list)] = fee
    /\ confirmed' = confirmed \cup {Head(list)}
    /\ list' = Tail(list)
    /\ fee' = 0
    /\ UNCHANGED <<rate, rows, signed, splits, chain, spends, disordered, bounds>>

------------------------------------------------------------------------------
SpendLoop ==
    ListSigned \/ AssignOutput \/ SplitOutputs \/ BroadcastParent \/ BroadcastTransaction \/ Confirm

Next ==
    \/ \E t \in Txs : Sign(t)
    \/ \E v \in Funds : WriteFeeOutput(v)
    \/ \E r \in Rates : Reprice(r)
    \/ Interrupt
    \/ SpendLoop

Spec == Init /\ [][Next]_vars

\* The loop runs.  Nobody has to sign or to pay in.
FairSpec == Spec /\ WF_vars(SpendLoop)

------------------------------------------------------------------------------
(* Properties.                                                              *)

\* The loop works on a signed transaction with an output that is taken for it.
TypeOK ==
    /\ rate \in Rates
    /\ \A i \in DOMAIN rows : rows[i].value \in Nat /\ rows[i].parent \in Nat
    /\ confirmed \subseteq signed /\ signed \subseteq Txs
    /\ fee # 0 => list # << >> /\ rows[fee].by = ByTx(Head(list))
    /\ chain \in [Txs -> 0..Len(rows)]

\* No output of the observer is broadcast as spent by two transactions, through
\* splits, interruptions between the table and the network, and new fee rates.
FeeSpentOnce == \A a, b \in spends : a[1] = b[1] => a = b

\* A transaction that is on the network spends there the output that the table
\* says, and outputs of a split are never worth more than what it spends.
TableMatchesChain ==
    /\ \A t \in Txs : chain[t] # 0 => rows[chain[t]].by = ByTx(t)
    /\ \A n \in {rows[i].parent : i \in DOMAIN rows} \ {0} :
         MapThenSumSet(LAMBDA i : rows[i].value, {i \in DOMAIN rows : rows[i].parent = n})
           < MapThenSumSet(LAMBDA i : rows[i].value, Inputs(n))

\* With enough funds, every signed transaction is confirmed, however often the
\* observer is interrupted, while the fee rate stays and transactions are signed
\* in their order.
SignedIsConfirmed ==
    \A t \in Txs : t \in signed ~> t \in confirmed \/ reprices > 0 \/ disordered

\* With enough funds, every transaction that is approved, paid and signed appears
\* on the network, whatever the fee rate and the order of signatures.
SignedIsSent == \A t \in Txs : t \in signed ~> chain[t] # 0

=============================================================================
