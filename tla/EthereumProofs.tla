--------------------------- MODULE EthereumProofs ---------------------------
(***************************************************************************)
(* What EthereumKeeper and EthereumSpend promise of an Ethereum account,   *)
(* for every set of tokens, deposits, transactions and requests: what      *)
(* every step of the keeper does to its tables, that the nonce of the safe *)
(* counts the transactions that are signed, the balances and the bonds,    *)
(* and the keeper run with the spend loop and the chain.                   *)
(***************************************************************************)
EXTENDS EthereumSpend, TLAPS


(***************************************************************************)
(* What SumTheorems and the library of finite sets prove of counts and of  *)
(* sums, as far as the lemmas below use it.  They take it as a hypothesis  *)
(* and the theorems at the end discharge it, so that the library is not in *)
(* the scope of every step.                                                *)
(***************************************************************************)
CountFacts ==
    /\ \A S : IsFiniteSet(S) => Cardinality(S) \in Nat /\ (Cardinality(S) = 0 <=> S = {})
    /\ \A S : IsFiniteSet(S) => \A T \in SUBSET S : IsFiniteSet(T)
    /\ IsFiniteSet({})
    /\ \A e : IsFiniteSet({e}) /\ Cardinality({e}) = 1

CountChanges ==
    /\ \A S, e : IsFiniteSet(S) /\ e \notin S =>
           IsFiniteSet(S \cup {e}) /\ Cardinality(S \cup {e}) = Cardinality(S) + 1
    /\ \A S, e : IsFiniteSet(S) /\ e \in S =>
           IsFiniteSet(S \ {e}) /\ Cardinality(S \ {e}) = Cardinality(S) - 1
    /\ \A S, T : IsFiniteSet(S) /\ IsFiniteSet(T) /\ S \cap T = {} =>
           IsFiniteSet(S \cup T) /\ Cardinality(S \cup T) = Cardinality(S) + Cardinality(T)

SumTypes ==
    /\ \A f : SumFunctionOnSet(f, {}) = 0
    /\ \A f, S : IsFiniteSet(S) /\ (\A x \in S : f[x] \in Int) => SumFunctionOnSet(f, S) \in Int
    /\ \A f, S : IsFiniteSet(S) /\ (\A x \in S : f[x] \in Nat) => SumFunctionOnSet(f, S) \in Nat

SumsAgree ==
    \A f, g, S : IsFiniteSet(S) /\ (\A x \in S : f[x] = g[x]) =>
        SumFunctionOnSet(f, S) = SumFunctionOnSet(g, S)

SumAdds ==
    \A f, S, e : IsFiniteSet(S) /\ (\A x \in S : f[x] \in Int) /\ e \notin S /\ f[e] \in Int =>
        SumFunctionOnSet(f, S \cup {e}) = SumFunctionOnSet(f, S) + f[e]

SumRemoves ==
    \A f, S : IsFiniteSet(S) /\ (\A x \in S : f[x] \in Int) =>
        \A e \in S : SumFunctionOnSet(f, S) = f[e] + SumFunctionOnSet(f, S \ {e})

SumJoins ==
    \A f, S, T : IsFiniteSet(S) /\ IsFiniteSet(T) /\ S \cap T = {}
                  /\ (\A x \in S \cup T : f[x] \in Int) =>
        SumFunctionOnSet(f, S \cup T) = SumFunctionOnSet(f, S) + SumFunctionOnSet(f, T)

SumFacts ==
    CountFacts /\ CountChanges /\ SumTypes /\ SumsAgree /\ SumAdds /\ SumRemoves /\ SumJoins

(* A set inside a finite set is finite.                                    *)
LEMMA FiniteSubset ==
    ASSUME SumFacts, NEW S, IsFiniteSet(S), NEW T \in SUBSET S
    PROVE  IsFiniteSet(T)
  BY Zenon DEF SumFacts, CountFacts

(* A finite set is counted by a natural number.                            *)
LEMMA CountType ==
    ASSUME SumFacts, NEW S, IsFiniteSet(S)
    PROVE  Cardinality(S) \in Nat
  BY Zenon DEF SumFacts, CountFacts

(* The empty set, and it alone, counts none.                               *)
LEMMA CountEmpty ==
    ASSUME SumFacts
    PROVE  /\ IsFiniteSet({}) /\ Cardinality({}) = 0
           /\ \A S : IsFiniteSet(S) => (Cardinality(S) = 0 <=> S = {})
  BY Zenon DEF SumFacts, CountFacts

(* A set of one element counts one.                                        *)
LEMMA CountOne ==
    ASSUME SumFacts
    PROVE  \A e : IsFiniteSet({e}) /\ Cardinality({e}) = 1
  BY Zenon DEF SumFacts, CountFacts

(* One more element counts one more.                                       *)
LEMMA CountAdd ==
    ASSUME SumFacts, NEW S, IsFiniteSet(S), NEW e, e \notin S
    PROVE  IsFiniteSet(S \cup {e}) /\ Cardinality(S \cup {e}) = Cardinality(S) + 1
  BY Zenon DEF SumFacts, CountChanges

(* One element less counts one less.                                       *)
LEMMA CountRemove ==
    ASSUME SumFacts, NEW S, IsFiniteSet(S), NEW e \in S
    PROVE  IsFiniteSet(S \ {e}) /\ Cardinality(S \ {e}) = Cardinality(S) - 1
  BY Zenon DEF SumFacts, CountChanges

(* Two finite sets that share nothing are counted together.                *)
LEMMA CountUnion ==
    ASSUME SumFacts, NEW S, IsFiniteSet(S), NEW T, IsFiniteSet(T), S \cap T = {}
    PROVE  IsFiniteSet(S \cup T) /\ Cardinality(S \cup T) = Cardinality(S) + Cardinality(T)
  BY Zenon DEF SumFacts, CountChanges

(* The sum over nothing.                                                   *)
LEMMA EmptySum ==
    ASSUME SumFacts, NEW f
    PROVE  SumFunctionOnSet(f, {}) = 0
  BY Zenon DEF SumFacts, SumTypes

(* A sum of integers is an integer.                                        *)
LEMMA IntSum ==
    ASSUME SumFacts, NEW f, NEW S, IsFiniteSet(S), \A x \in S : f[x] \in Int
    PROVE  SumFunctionOnSet(f, S) \in Int
  BY Zenon DEF SumFacts, SumTypes

(* A sum of natural numbers is one.                                        *)
LEMMA NatSum ==
    ASSUME SumFacts, NEW f, NEW S, IsFiniteSet(S), \A x \in S : f[x] \in Nat
    PROVE  SumFunctionOnSet(f, S) \in Nat
  BY Zenon DEF SumFacts, SumTypes

(* A sum depends on the values over its set only.                          *)
LEMMA SameSum ==
    ASSUME SumFacts, NEW f, NEW g, NEW S, IsFiniteSet(S), \A x \in S : f[x] = g[x]
    PROVE  SumFunctionOnSet(f, S) = SumFunctionOnSet(g, S)
  BY Zenon DEF SumFacts, SumsAgree

(* One more element adds its value.                                        *)
LEMMA AddSum ==
    ASSUME SumFacts, NEW f, NEW S, IsFiniteSet(S), \A x \in S : f[x] \in Int,
           NEW e, e \notin S, f[e] \in Int
    PROVE  SumFunctionOnSet(f, S \cup {e}) = SumFunctionOnSet(f, S) + f[e]
  BY Zenon DEF SumFacts, SumAdds

(* One element less takes its value away.                                  *)
LEMMA RemoveSum ==
    ASSUME SumFacts, NEW f, NEW S, IsFiniteSet(S), \A x \in S : f[x] \in Int, NEW e \in S
    PROVE  SumFunctionOnSet(f, S) = f[e] + SumFunctionOnSet(f, S \ {e})
<1>1. SumRemoves
  BY Zenon DEF SumFacts
<1> QED
  BY <1>1 DEF SumRemoves

(* The sums over two sets that share nothing add up.                       *)
LEMMA UnionSum ==
    ASSUME SumFacts, NEW f, NEW S, IsFiniteSet(S), NEW T, IsFiniteSet(T), S \cap T = {},
           \A x \in S \cup T : f[x] \in Int
    PROVE  SumFunctionOnSet(f, S \cup T) = SumFunctionOnSet(f, S) + SumFunctionOnSet(f, T)
  BY Zenon DEF SumFacts, SumJoins

-----------------------------------------------------------------------------

(* The transactions whose signature is there and not taken back.           *)
Signed == {t \in TxIds : SignedByGroup(t)}

(* The response in progress answers a request whose row is pending.        *)
JobOpen == job # NoJob => signatures[job].state = "Pending"

(* A request for a signature is of a transaction that waits for it.        *)
SignatureFollows(r) ==
    LET row == signatures[r] IN
    /\ row.state = "none" => row.tx = NoTx
    /\ row.state # "none" => row.tx \in Txs \cup {Guard}
    /\ row.state \in {"Initial", "Pending"} => transactions[row.tx].state = "Pending"

(* The signer group's signature is there when the transaction is done, and *)
(* stays when it is refunded.                                              *)
SignerSigned ==
    /\ \A t \in TxIds : "signer" \in transactions[t].signed =>
           transactions[t].state \in {"Done", "Failed"} /\ t \in Txs \cup {Guard}
    /\ \A t \in Txs \cup {Guard} : transactions[t].state = "Done" =>
           "signer" \in transactions[t].signed

(* Nothing is proposed before the guard transaction is signed, which pays  *)
(* nothing.                                                                *)
GuardFirst ==
    /\ transactions[Guard].raw = NoPayment
    /\ transactions[Guard].state \in {"Initial", "Pending", "Done"}
    /\ safe.state \in {"none", "Pending"} => \A t \in Txs : transactions[t].state = "none"
    /\ safe.state \in {"Approved", "Closed"} => transactions[Guard].state = "Done"

(* A transaction of holder and observer closes the safe.                   *)
ClosingsClose ==
    \A c \in Closings : transactions[c].state # "none" => safe.state = "Closed"

(* What is signed pays out of tokens that the safe had.                    *)
PaysFromRows == \A t \in Signed : DOMAIN transactions[t].raw \subseteq Rows

TableInv ==
    /\ KeeperTypeOK
    /\ JobOpen
    /\ \A r \in ReqIds : SignatureFollows(r)
    /\ SignerSigned
    /\ GuardFirst
    /\ ClosingsClose
    /\ PaysFromRows

-----------------------------------------------------------------------------
(* A row of the table transactions, one that keeps what its proposal says, *)
(* and the statement that writes one row.                                  *)
Row(state, nonce, raw, signed, token, amount, recovery) ==
    [state |-> state, nonce |-> nonce, raw |-> raw, signed |-> signed,
     token |-> token, amount |-> amount, recovery |-> recovery]

Update(row, state, raw, signed) ==
    Row(state, row.nonce, raw, signed, row.token, row.amount, row.recovery)

Kept(t, state, raw, signed) == Update(transactions[t], state, raw, signed)

Writes(t, row) ==
    /\ DOMAIN transactions' = TxIds
    /\ transactions'[t] = row
    /\ \A u \in TxIds \ {t} : transactions'[u] = transactions[u]

RowOK(row) ==
    /\ row.state \in {"none", "Initial", "Pending", "Done", "Failed"}
    /\ row.nonce \in Nat /\ IsPayment(row.raw)
    /\ row.signed \in SUBSET {"holder", "signer", "observer"}
    /\ row.token \in Tokens /\ row.amount \in Nat /\ row.recovery \in BOOLEAN
    /\ row = Row(row.state, row.nonce, row.raw, row.signed, row.token, row.amount, row.recovery)

(* The state of a row.                                                     *)
LEMMA RowState ==
    ASSUME NEW state, NEW nonce, NEW raw, NEW signed, NEW token, NEW amount, NEW recovery
    PROVE  Row(state, nonce, raw, signed, token, amount, recovery).state = state
  BY DEF Row

(* The type of a row, field by field.                                      *)
LEMMA RowFields ==
    ASSUME NEW row
    PROVE  row \in TransactionRow({row.raw}) /\ IsPayment(row.raw) <=> RowOK(row)
<1>1. ASSUME row \in TransactionRow({row.raw}), IsPayment(row.raw) PROVE RowOK(row)
  BY <1>1 DEF TransactionRow, RowOK, Row
<1>2. ASSUME RowOK(row) PROVE row \in TransactionRow({row.raw}) /\ IsPayment(row.raw)
  <2>1. IsPayment(row.raw)
    BY Zenon, <1>2 DEF RowOK
  <2>2. row = Row(row.state, row.nonce, row.raw, row.signed, row.token, row.amount, row.recovery)
    BY Zenon, <1>2 DEF RowOK
  <2>3. row \in TransactionRow({row.raw})
    BY <1>2, <2>2 DEF TransactionRow, RowOK, Row
  <2> QED
    BY <2>1, <2>3
<1> QED
  BY Zenon, <1>1, <1>2

-----------------------------------------------------------------------------
(* The row of a transaction that was never written.                        *)
LEMMA EmptyRow ==
    /\ RowOK(NoTransaction) /\ IsPayment(NoPayment)
    /\ NoTransaction.state = "none" /\ NoTransaction.raw = NoPayment /\ NoTransaction.signed = {}
    /\ NoTransaction.amount = 0
<1>1. PICK b \in BOOLEAN : b = FALSE
  BY Zenon
<1>2. b \in BOOLEAN
  OBVIOUS
<1>3. PICK k \in Tokens : k = CHOOSE j \in Tokens : TRUE
  BY ConstantsOK
<1>4. k \in Tokens
  OBVIOUS
<1>5. NoTransaction = Row("none", 0, NoPayment, {}, k, 0, b)
  BY Zenon, <1>1, <1>3 DEF NoTransaction, Row
<1>6. IsPayment(NoPayment)
  BY DEF IsPayment, NoPayment
<1> QED
  BY <1>2, <1>4, <1>5, <1>6 DEF RowOK, Row

-----------------------------------------------------------------------------
(* What a step does to the tables.                                         *)
SafeIs(state, nonce) == safe' = [state |-> state, nonce |-> nonce]

(* No request for a signature is made or finished.                         *)
SignatureStays(row, new) ==
    /\ new \in SignatureRow({row.message}) /\ new.tx = row.tx
    /\ \/ new.state = row.state
       \/ row.state = "Initial" /\ new.state = "Pending"

SignaturesStay ==
    /\ JobOpen' /\ job' \in ReqIds \cup {NoJob}
    /\ DOMAIN signatures' = ReqIds
    /\ \A r \in ReqIds : SignatureStays(signatures[r], signatures'[r])

Quiet ==
    /\ UNCHANGED <<balances, credited, transactions>>
    /\ \/ SafeIs(safe.state, safe.nonce)
       \/ safe.state \in {"none", "Pending"} /\ SafeIs("Pending", safe.nonce)
    /\ held' \in [Tokens -> Nat] /\ \A k \in Tokens : held'[k] <= held[k]
    /\ SignaturesStay

Deposited(d) == CreateHolderDeposit(d) /\ SignaturesStay

Proposed(t, k, amount, recovery) ==
    ProposeTransaction(t, k, amount, recovery) /\ SignaturesStay

Asked(r, t, raw, owner) ==
    /\ signatures[r].state = "none" /\ Approvable(t) /\ IsPayment(raw)
    /\ t = Guard => raw = NoPayment
    /\ Writes(t, Kept(t, "Pending", raw, {owner}))
    /\ DOMAIN signatures' = ReqIds
    /\ \A q \in ReqIds \ {r} : signatures'[q] = signatures[q]
    /\ signatures'[r] \in SignatureRow({raw})
    /\ signatures'[r].state = "Initial" /\ signatures'[r].tx = t
    /\ UNCHANGED <<balances, credited, held, job>>
    /\ \/ SafeIs(safe.state, safe.nonce)
       \/ safe.state \in {"none", "Pending"} /\ SafeIs("Pending", safe.nonce)
       \/ Open /\ SafeIs("Closed", safe.nonce)

Revoked(t) ==
    /\ transactions[t].state = "Initial"
    /\ Writes(t, Kept(t, "Failed", transactions[t].raw, transactions[t].signed))
    /\ held' = [held EXCEPT ![transactions[t].token] = @ + transactions[t].amount]
    /\ UNCHANGED <<safe, balances, credited>>
    /\ SignaturesStay

Returned(t) ==
    LET row == transactions[t] IN
    /\ safe.state = "Approved" /\ row.state = "Done"
    /\ Writes(t, Kept(t, "Failed", row.raw, row.signed))
    /\ SafeIs(safe.state, safe.nonce - 1)
    /\ balances' = [k \in Rows |-> balances[k] + Pays(t, k)]
    /\ held' = [held EXCEPT ![row.token] = @ + row.amount * Unit]
    /\ UNCHANGED credited
    /\ SignaturesStay

Closed(c) ==
    /\ safe.state = "Approved" /\ transactions[c].state = "none"
    /\ \E token \in Tokens, amount \in Nat, recovery \in BOOLEAN :
         Writes(c, Row("Done", safe.nonce, [k \in Rows |-> balances[k]],
                       {"holder", "observer"}, token, amount, recovery))
    /\ SafeIs("Closed", safe.nonce)
    /\ UNCHANGED <<balances, credited, held>>
    /\ SignaturesStay

Completed(t) ==
    /\ transactions[t].state = "Pending"
    /\ Writes(t, Kept(t, "Done", transactions[t].raw, transactions[t].signed \cup {"signer"}))
    /\ DOMAIN transactions[t].raw \subseteq Rows
    /\ DOMAIN balances' = Rows
    /\ \A k \in Rows : balances'[k] = balances[k] - Pays(t, k) /\ balances[k] >= Pays(t, k)
    /\ \/ safe.state = "Pending" /\ t = Guard /\ SafeIs("Approved", safe.nonce + 1)
       \/ safe.state # "Pending" /\ SafeIs(safe.state, safe.nonce + 1)
    /\ UNCHANGED <<credited, held>>
    /\ job' = NoJob
    /\ DOMAIN signatures' = ReqIds
    /\ \A r \in ReqIds :
        LET row == signatures[r]
            new == signatures'[r]
        IN  /\ new \in SignatureRow({row.message}) /\ new.tx = row.tx
            /\ new.state = IF row.tx = t THEN "Done" ELSE row.state

Shape ==
    \/ Quiet
    \/ \E d \in Deposits : Deposited(d)
    \/ \E t \in Txs, k \in Tokens, amount \in Amounts, recovery \in BOOLEAN :
           Proposed(t, k, amount, recovery)
    \/ \E r \in ReqIds, t \in Txs \cup {Guard}, owner \in {"holder", "observer"} :
           \E raw : Asked(r, t, raw, owner)
    \/ \E t \in Txs : Revoked(t)
    \/ \E t \in Txs : Returned(t)
    \/ \E c \in Closings : Closed(c)
    \/ \E t \in Txs \cup {Guard} : Completed(t)

(* The fields of a signature request.                                      *)
SignatureOK(row) ==
    /\ row.state \in {"none", "Initial", "Pending", "Done"}
    /\ row.tx \in TxIds \cup {NoTx} /\ IsPayment(row.message)
    /\ row.at \in Nat /\ row.answered \in BOOLEAN

(* The types of the rows of both tables, field by field.                   *)
LEMMA TypesOfRows ==
    ASSUME KeeperTypeOK
    PROVE  /\ \A t \in TxIds : RowOK(transactions[t])
           /\ \A r \in ReqIds : signatures[r] \in SignatureRow({signatures[r].message})
           /\ \A r \in ReqIds : SignatureOK(signatures[r])
           /\ safe.state \in {"none", "Pending", "Approved", "Closed"} /\ safe.nonce \in Nat
           /\ safe = [state |-> safe.state, nonce |-> safe.nonce]
           /\ Txs \subseteq TxIds /\ Guard \in TxIds /\ Closings \subseteq TxIds
<1>1. \A t \in TxIds : RowOK(transactions[t])
  BY Zenon, RowFields DEF KeeperTypeOK
<1>2. ASSUME NEW r \in ReqIds
      PROVE  signatures[r] \in SignatureRow({signatures[r].message}) /\ SignatureOK(signatures[r])
  <2>1. signatures[r] \in SignatureRow({signatures[r].message}) /\ IsPayment(signatures[r].message)
    BY Zenon DEF KeeperTypeOK
  <2> QED
    BY <2>1 DEF SignatureRow, SignatureOK
<1>3. safe \in [state: {"none", "Pending", "Approved", "Closed"}, nonce: Nat]
  BY Zenon DEF KeeperTypeOK
<1>4. /\ safe.state \in {"none", "Pending", "Approved", "Closed"} /\ safe.nonce \in Nat
      /\ safe = [state |-> safe.state, nonce |-> safe.nonce]
  BY <1>3
<1>5. Txs \subseteq TxIds /\ Guard \in TxIds /\ Closings \subseteq TxIds
  BY DEF TxIds
<1> QED
  BY Zenon, <1>1, <1>2, <1>4, <1>5

(* When no row changes, or one response is recorded, no request is made or *)
(* finished.                                                               *)
LEMMA SignaturesKept ==
    ASSUME KeeperTypeOK, JobOpen
    PROVE  /\ UNCHANGED <<signatures, job>> => SignaturesStay
           /\ \A r \in ReqIds :
                signatures[r].state \in {"Initial", "Pending"} /\ job' = r
                /\ signatures' = [signatures EXCEPT ![r].state = "Pending"] => SignaturesStay
           /\ job \in ReqIds /\ job' = NoJob
              /\ signatures' = [signatures EXCEPT ![job].answered = TRUE] => SignaturesStay
<1>1. /\ DOMAIN signatures = ReqIds /\ job \in ReqIds \cup {NoJob}
      /\ \A r \in ReqIds : signatures[r] \in SignatureRow({signatures[r].message})
  BY Zenon, TypesOfRows DEF KeeperTypeOK
<1>1a. \A r \in ReqIds : SignatureStays(signatures[r], signatures[r])
  BY <1>1 DEF SignatureStays
<1>2. ASSUME UNCHANGED <<signatures, job>> PROVE SignaturesStay
  BY Zenon, <1>1, <1>2, <1>1a DEF SignaturesStay, JobOpen
<1>3. ASSUME NEW r \in ReqIds, signatures[r].state \in {"Initial", "Pending"}, job' = r,
             signatures' = [signatures EXCEPT ![r].state = "Pending"]
      PROVE  SignaturesStay
  <2>1. \A q \in ReqIds \ {r} : signatures'[q] = signatures[q]
    BY Zenon, <1>1, <1>3
  <2>2. signatures'[r] = [signatures[r] EXCEPT !.state = "Pending"] /\ DOMAIN signatures' = ReqIds
    BY Zenon, <1>1, <1>3
  <2>3. SignatureStays(signatures[r], signatures'[r]) /\ signatures'[r].state = "Pending"
    BY <1>1, <1>3, <2>2 DEF SignatureRow, SignatureStays
  <2>4. JobOpen' /\ job' \in ReqIds \cup {NoJob}
    BY Zenon, <1>3, <2>3 DEF JobOpen
  <2> QED
    BY Zenon, <1>1a, <2>1, <2>2, <2>3, <2>4 DEF SignaturesStay
<1>4. ASSUME job \in ReqIds, job' = NoJob,
             signatures' = [signatures EXCEPT ![job].answered = TRUE]
      PROVE  SignaturesStay
  <2>1. \A q \in ReqIds \ {job} : signatures'[q] = signatures[q]
    BY Zenon, <1>1, <1>4
  <2>2. signatures'[job] = [signatures[job] EXCEPT !.answered = TRUE] /\ DOMAIN signatures' = ReqIds
    BY Zenon, <1>1, <1>4
  <2>3. SignatureStays(signatures[job], signatures'[job])
    <3>1. PICK b \in BOOLEAN : b = TRUE
      BY Zenon
    <3>2. b \in BOOLEAN
      OBVIOUS
    <3> DEFINE row == signatures[job]
    <3>3. row \in SignatureRow({row.message}) /\ signatures'[job] = [row EXCEPT !.answered = b]
      BY Zenon, <1>1, <1>4, <2>2, <3>1
    <3> HIDE DEF row
    <3>4. /\ signatures'[job] \in SignatureRow({row.message})
          /\ signatures'[job].tx = row.tx /\ signatures'[job].state = row.state
      BY <3>2, <3>3 DEF SignatureRow
    <3> QED
      BY Zenon, <3>4 DEF SignatureStays, row
  <2>4. JobOpen' /\ job' \in ReqIds \cup {NoJob}
    BY Zenon, <1>4 DEF JobOpen
  <2> QED
    BY Zenon, <1>1a, <2>1, <2>2, <2>3, <2>4 DEF SignaturesStay
<1> QED
  BY Zenon, <1>2, <1>3, <1>4

(* An update of a row, as the row it leaves.                               *)
LEMMA RowWritten ==
    ASSUME KeeperTypeOK, NEW t \in TxIds, NEW state, NEW raw, NEW signed
    PROVE  /\ transactions' = [transactions EXCEPT ![t].state = state] =>
                Writes(t, Kept(t, state, transactions[t].raw, transactions[t].signed))
           /\ transactions' = [transactions EXCEPT ![t] =
                                [@ EXCEPT !.state = state, !.signed = signed]] =>
                Writes(t, Kept(t, state, transactions[t].raw, signed))
           /\ transactions' = [transactions EXCEPT ![t] =
                                [@ EXCEPT !.state = state, !.raw = raw, !.signed = signed]] =>
                Writes(t, Kept(t, state, raw, signed))
<1>1. DOMAIN transactions = TxIds /\ RowOK(transactions[t])
  BY Zenon, TypesOfRows DEF KeeperTypeOK
<1>2. ASSUME NEW row, transactions' = [transactions EXCEPT ![t] = row] PROVE Writes(t, row)
  BY Zenon, <1>1, <1>2 DEF Writes
<1>3. /\ [transactions[t] EXCEPT !.state = state]
           = Kept(t, state, transactions[t].raw, transactions[t].signed)
      /\ [transactions[t] EXCEPT !.state = state, !.signed = signed]
           = Kept(t, state, transactions[t].raw, signed)
      /\ [transactions[t] EXCEPT !.state = state, !.raw = raw, !.signed = signed]
           = Kept(t, state, raw, signed)
  <2> DEFINE row == transactions[t]
  <2>1. RowOK(row)
    BY <1>1
  <2> DEFINE r1 == Update(row, state, row.raw, row.signed)
             r2 == Update(row, state, raw, row.signed)
  <2> HIDE DEF row
  <2>2. row = Row(row.state, row.nonce, row.raw, row.signed, row.token, row.amount, row.recovery)
    BY Zenon, <2>1 DEF RowOK
  <2>3. [row EXCEPT !.state = state] = r1
    BY <2>2 DEF Row, Update
  <2>4. /\ [r1 EXCEPT !.raw = raw] = r2
        /\ [r1 EXCEPT !.signed = signed] = Update(row, state, row.raw, signed)
        /\ [r2 EXCEPT !.signed = signed] = Update(row, state, raw, signed)
    BY DEF Row, Update
  <2> HIDE DEF r1, r2
  <2>5. /\ [row EXCEPT !.state = state, !.signed = signed]
             = [[row EXCEPT !.state = state] EXCEPT !.signed = signed]
        /\ [row EXCEPT !.state = state, !.raw = raw, !.signed = signed]
             = [[[row EXCEPT !.state = state] EXCEPT !.raw = raw] EXCEPT !.signed = signed]
    BY Zenon
  <2>6. /\ [row EXCEPT !.state = state, !.signed = signed] = [r1 EXCEPT !.signed = signed]
        /\ [row EXCEPT !.state = state, !.raw = raw, !.signed = signed] = [r2 EXCEPT !.signed = signed]
    BY Zenon, <2>3, <2>4, <2>5
  <2>7. /\ [row EXCEPT !.state = state, !.signed = signed] = Update(row, state, row.raw, signed)
        /\ [row EXCEPT !.state = state, !.raw = raw, !.signed = signed] = Update(row, state, raw, signed)
    BY Zenon, <2>4, <2>6
  <2> QED
    BY Zenon, <2>3, <2>7 DEF row, r1, Kept
<1>4. ASSUME transactions' = [transactions EXCEPT ![t].state = state]
      PROVE  Writes(t, Kept(t, state, transactions[t].raw, transactions[t].signed))
  <2>1. transactions' = [transactions EXCEPT ![t] = [transactions[t] EXCEPT !.state = state]]
    BY Zenon, <1>4
  <2> QED
    BY Zenon, <1>2, <1>3, <2>1
<1>5. ASSUME transactions' = [transactions EXCEPT ![t] =
                                [@ EXCEPT !.state = state, !.signed = signed]]
      PROVE  Writes(t, Kept(t, state, transactions[t].raw, signed))
  <2>1. transactions' = [transactions EXCEPT ![t] =
                           [transactions[t] EXCEPT !.state = state, !.signed = signed]]
    BY Zenon, <1>5
  <2> QED
    BY Zenon, <1>2, <1>3, <2>1
<1>6. ASSUME transactions' = [transactions EXCEPT ![t] =
                                [@ EXCEPT !.state = state, !.raw = raw, !.signed = signed]]
      PROVE  Writes(t, Kept(t, state, raw, signed))
  <2>1. transactions' = [transactions EXCEPT ![t] =
                           [transactions[t] EXCEPT !.state = state, !.raw = raw, !.signed = signed]]
    BY Zenon, <1>6
  <2> QED
    BY Zenon, <1>2, <1>3, <2>1
<1> QED
  BY Zenon, <1>4, <1>5, <1>6

(* A request for a signature.                                              *)
LEMMA RequestShape ==
    ASSUME TableInv, SumFacts,
           NEW r \in ReqIds, NEW t \in Txs \cup {Guard}, NEW raw, IsPayment(raw),
           NEW owner \in {"holder", "observer"}, signatures[r].state = "none", Approvable(t),
           t = Guard => raw = NoPayment, WriteSignatureRequests(r, t, raw, owner),
           UNCHANGED <<balances, credited, held, job>>,
           \/ SafeIs(safe.state, safe.nonce)
           \/ safe.state \in {"none", "Pending"} /\ SafeIs("Pending", safe.nonce)
           \/ Open /\ SafeIs("Closed", safe.nonce)
    PROVE  Asked(r, t, raw, owner)
<1>1. KeeperTypeOK /\ t \in TxIds
  BY Zenon, TypesOfRows DEF TableInv
<1>2. Writes(t, Kept(t, "Pending", raw, {owner}))
  BY Zenon, <1>1, RowWritten DEF WriteSignatureRequests
<1> DEFINE new == [state |-> "Initial", tx |-> t, message |-> raw,
                   at |-> Cardinality({q \in ReqIds : signatures[q].state # "none"}) + 1,
                   answered |-> FALSE]
<1>3. signatures' = [signatures EXCEPT ![r] = new] /\ DOMAIN signatures = ReqIds
  BY Zenon, <1>1 DEF WriteSignatureRequests, KeeperTypeOK
<1>4. /\ DOMAIN signatures' = ReqIds /\ signatures'[r] = new
      /\ \A q \in ReqIds \ {r} : signatures'[q] = signatures[q]
  BY Zenon, <1>3
<1>5. new \in SignatureRow({raw}) /\ new.state = "Initial" /\ new.tx = t
  <2>1. Cardinality({q \in ReqIds : signatures[q].state # "none"}) \in Nat
    BY FiniteSubset, CountType, ConstantsOK
  <2> QED
    BY <1>1, <2>1 DEF SignatureRow
<1> HIDE DEF new
<1> QED
  BY Zenon, <1>2, <1>4, <1>5 DEF Asked

(* The end of a response of the signer group.                              *)
LEMMA ResponseShape ==
    ASSUME TableInv, NEW t, job \in ReqIds, t = signatures[job].tx,
           SignaturesDone(t, job), TransactionDone(t), job' = NoJob, UNCHANGED <<credited, held>>,
           DOMAIN transactions[t].raw \subseteq Rows, DOMAIN balances' = Rows,
           \A k \in Rows : balances'[k] = balances[k] - Pays(t, k) /\ balances[k] >= Pays(t, k),
           \/ safe.state = "Pending" /\ SafeIs("Approved", safe.nonce + 1)
           \/ safe.state # "Pending" /\ SafeIs(safe.state, safe.nonce + 1)
    PROVE  t \in Txs \cup {Guard} /\ Completed(t)
<1>1. KeeperTypeOK /\ signatures[job].state = "Pending" /\ SignatureFollows(job)
  BY Zenon, ConstantsOK DEF TableInv, JobOpen
<1>2. t \in Txs \cup {Guard} /\ transactions[t].state = "Pending" /\ t \in TxIds
  BY <1>1 DEF SignatureFollows, TxIds
<1>3. Writes(t, Kept(t, "Done", transactions[t].raw, transactions[t].signed \cup {"signer"}))
  BY Zenon, <1>1, <1>2, RowWritten DEF TransactionDone
<1>4. safe.state = "Pending" => t = Guard
  BY <1>2 DEF TableInv, GuardFirst
<1>5. ASSUME NEW r \in ReqIds
      PROVE  /\ signatures'[r] \in SignatureRow({signatures[r].message})
             /\ signatures'[r].tx = signatures[r].tx
             /\ signatures'[r].state = IF signatures[r].tx = t THEN "Done" ELSE signatures[r].state
  <2> DEFINE row == signatures[r]
             x == IF row.tx = t THEN "Done" ELSE row.state
             y == row.answered \/ r = job
             mid == [row EXCEPT !.state = x]
  <2>1. signatures'[r] = [row EXCEPT !.state = x, !.answered = y]
    BY Zenon DEF SignaturesDone
  <2>2. row \in SignatureRow({row.message}) /\ SignatureOK(row)
    BY Zenon, <1>1, TypesOfRows
  <2>3. x \in {"none", "Initial", "Pending", "Done"} /\ y \in BOOLEAN
    BY <2>2 DEF SignatureOK
  <2> HIDE DEF row, x, y
  <2>4. mid \in SignatureRow({row.message}) /\ mid.tx = row.tx /\ mid.state = x
    BY <2>2, <2>3 DEF SignatureRow
  <2>5. [row EXCEPT !.state = x, !.answered = y] = [mid EXCEPT !.answered = y]
    BY Zenon
  <2> HIDE DEF mid
  <2>6. /\ [mid EXCEPT !.answered = y] \in SignatureRow({row.message})
        /\ [mid EXCEPT !.answered = y].tx = row.tx
        /\ [mid EXCEPT !.answered = y].state = x
    BY <2>3, <2>4 DEF SignatureRow
  <2>7. /\ signatures'[r] \in SignatureRow({row.message})
        /\ signatures'[r].tx = row.tx /\ signatures'[r].state = x
    BY Zenon, <2>1, <2>5, <2>6
  <2> QED
    BY Zenon, <2>7 DEF x, row
<1>6. DOMAIN signatures' = ReqIds
  BY Zenon DEF SignaturesDone
<1> QED
  BY Zenon, <1>2, <1>3, <1>4, <1>5, <1>6 DEF Completed

(* Every step of the keeper has one of these shapes.                       *)
LEMMA StepShapes ==
    ASSUME TableInv, SumFacts, [KeeperNext]_keeperVars
    PROVE  Shape
<1>0. KeeperTypeOK /\ JobOpen /\ held \in [Tokens -> Nat]
  BY Zenon DEF TableInv, KeeperTypeOK
<1>1. /\ safe = [state |-> safe.state, nonce |-> safe.nonce]
      /\ safe.state \in {"none", "Pending", "Approved", "Closed"}
      /\ Txs \subseteq TxIds /\ Guard \in TxIds /\ Closings \subseteq TxIds
  BY Zenon, <1>0, TypesOfRows
<1>2. ASSUME UNCHANGED <<signatures, job>> PROVE SignaturesStay
  BY Zenon, <1>0, <1>2, SignaturesKept
<1>3. \A k \in Tokens : held[k] <= held[k]
  BY <1>0
<1>4. ASSUME UNCHANGED <<safe, balances, credited, transactions, held>>, SignaturesStay PROVE Quiet
  BY Zenon, <1>0, <1>1, <1>3, <1>4 DEF Quiet, SafeIs
<1>5. ASSUME NEW statement, Panic(statement) PROVE Quiet
  BY Zenon, <1>2, <1>4, <1>5 DEF Panic
<1>6. CASE HolderStep
  <2>1. ASSUME NEW k \in Tokens, NEW amount \in Amounts, FailProposal(k, amount) PROVE Quiet
    <3>1. held' \in [Tokens -> Nat] /\ \A j \in Tokens : held'[j] <= held[j]
      BY <1>0, <2>1, ConstantsOK DEF FailProposal
    <3> QED
      BY Zenon, <1>1, <1>2, <2>1, <3>1 DEF FailProposal, Quiet, SafeIs
  <2>2. ASSUME NEW t \in Txs, NEW k \in Tokens, NEW amount \in Amounts, NEW recovery \in BOOLEAN,
               ProposeTransaction(t, k, amount, recovery)
        PROVE  Proposed(t, k, amount, recovery)
    BY Zenon, <1>2, <2>2 DEF ProposeTransaction, Proposed
  <2> QED
    BY Zenon, <1>6, <2>1, <2>2 DEF HolderStep, Shape
<1>7. CASE RequestStep
  <2>1. ASSUME NEW d \in Deposits, CreateHolderDeposit(d) PROVE Deposited(d)
    BY Zenon, <1>2, <2>1 DEF CreateHolderDeposit, Deposited
  <2>2. ASSUME safe.state \in {"none", "Pending"}, safe' = [safe EXCEPT !.state = "Pending"]
        PROVE  SafeIs("Pending", safe.nonce)
    BY <1>1, <2>2 DEF SafeIs
  <2>3. ASSUME ApproveAccountUnpaid PROVE Quiet
    <3>1. safe.state \in {"none", "Pending"} /\ SafeIs("Pending", safe.nonce)
      BY Zenon, <2>2, <2>3 DEF ApproveAccountUnpaid
    <3> QED
      BY Zenon, <1>0, <1>2, <1>3, <2>3, <3>1 DEF ApproveAccountUnpaid, Quiet
  <2>4. ASSUME NEW r \in ReqIds, ApproveAccount(r)
        PROVE  Quiet \/ Asked(r, Guard, transactions[Guard].raw, "holder")
    <3>1. CASE Approvable(Guard)
      <4>1. transactions[Guard].raw = NoPayment
        BY Zenon DEF TableInv, GuardFirst
      <4>2. IsPayment(NoPayment)
        BY DEF IsPayment, NoPayment
      <4>3. /\ safe.state \in {"none", "Pending"} /\ SafeIs("Pending", safe.nonce)
            /\ signatures[r].state = "none"
            /\ WriteSignatureRequests(r, Guard, transactions[Guard].raw, "holder")
            /\ UNCHANGED <<balances, credited, held, job>>
        BY Zenon, <2>2, <2>4, <3>1 DEF ApproveAccount
      <4> QED
        BY Zenon, <3>1, <4>1, <4>2, <4>3, RequestShape
    <3>2. CASE ~Approvable(Guard)
      BY Zenon, <1>5, <2>4, <3>2 DEF ApproveAccount
    <3> QED
      BY Zenon, <3>1, <3>2
  <2>5. ASSUME NEW t \in Txs PROVE IsPayment(transactions[t].raw) /\ t # Guard
    BY Zenon, <1>0, <1>1, ConstantsOK DEF KeeperTypeOK
  <2>6. ASSUME NEW r \in ReqIds, NEW t \in Txs, CloseAccountWithSigner(r, t)
        PROVE  Quiet \/ Asked(r, t, transactions[t].raw, "observer")
    <3>1. CASE Approvable(t)
      <4>1. /\ Open /\ safe' = [safe EXCEPT !.state = "Closed"]
            /\ signatures[r].state = "none"
            /\ WriteSignatureRequests(r, t, transactions[t].raw, "observer")
            /\ UNCHANGED <<balances, credited, held, job>>
        BY Zenon, <2>6, <3>1 DEF CloseAccountWithSigner
      <4>2. SafeIs("Closed", safe.nonce)
        BY <1>1, <4>1 DEF SafeIs
      <4> QED
        BY Zenon, <2>5, <3>1, <4>1, <4>2, RequestShape
    <3>2. CASE ~Approvable(t)
      BY Zenon, <1>5, <2>6, <3>2 DEF CloseAccountWithSigner
    <3> QED
      BY Zenon, <3>1, <3>2
  <2>7. ASSUME NEW r \in ReqIds, NEW t \in Txs, NEW raw, ApproveTransaction(r, t, raw)
        PROVE  Quiet \/ Asked(r, t, raw, "holder")
    <3>1. CASE Approvable(t)
      <4>1. /\ safe' = safe /\ signatures[r].state = "none"
            /\ WriteSignatureRequests(r, t, raw, "holder")
            /\ UNCHANGED <<balances, credited, held, job>>
            /\ raw = transactions[t].raw \/ raw \in OtherRaws
        BY Zenon, <2>7, <3>1 DEF ApproveTransaction
      <4>2. IsPayment(raw)
        BY Zenon, <2>5, <4>1, ConstantsOK
      <4>3. SafeIs(safe.state, safe.nonce)
        BY Zenon, <1>1, <4>1 DEF SafeIs
      <4> QED
        BY Zenon, <2>5, <3>1, <4>1, <4>2, <4>3, RequestShape
    <3>2. CASE ~Approvable(t)
      BY Zenon, <1>5, <2>7, <3>2 DEF ApproveTransaction
    <3> QED
      BY Zenon, <3>1, <3>2
  <2>8. ASSUME NEW t \in Txs, RevokeTransaction(t) PROVE Revoked(t)
    <3>1. Writes(t, Kept(t, "Failed", transactions[t].raw, transactions[t].signed))
      BY Zenon, <1>0, <1>1, <2>8, RowWritten DEF RevokeTransaction
    <3> QED
      BY Zenon, <1>2, <2>8, <3>1 DEF RevokeTransaction, Revocable, Revoked
  <2>9. ASSUME CloseAccountLocked PROVE Quiet
    BY Zenon, <1>5, <2>9 DEF CloseAccountLocked
  <2>10. ASSUME NEW c \in Closings, CloseAccountWithHolder(c) PROVE Quiet \/ Closed(c)
    <3>1. CASE safe.state = "Approved"
      <4> DEFINE raw == [k \in Rows |-> balances[k]]
                 n == NoTransaction
      <4>1. transactions' = [transactions EXCEPT ![c] =
              [n EXCEPT !.state = "Done", !.nonce = safe.nonce,
                 !.raw = raw, !.signed = {"holder", "observer"}]]
        BY Zenon, <2>10, <3>1 DEF CloseAccountWithHolder, CloseAccountByTransaction
      <4>2. RowOK(n)
        BY Zenon, EmptyRow
      <4> HIDE DEF raw, n
      <4>3. [n EXCEPT !.state = "Done", !.nonce = safe.nonce,
                 !.raw = raw, !.signed = {"holder", "observer"}]
              = Row("Done", safe.nonce, raw, {"holder", "observer"}, n.token, n.amount, n.recovery)
        <5> DEFINE r0 == Row(n.state, n.nonce, n.raw, n.signed, n.token, n.amount, n.recovery)
                   r1 == Row("Done", n.nonce, n.raw, n.signed, n.token, n.amount, n.recovery)
                   r2 == Row("Done", safe.nonce, n.raw, n.signed, n.token, n.amount, n.recovery)
                   r3 == Row("Done", safe.nonce, raw, n.signed, n.token, n.amount, n.recovery)
        <5>1. [r0 EXCEPT !.state = "Done"] = r1
          BY DEF Row
        <5>2. [r1 EXCEPT !.nonce = safe.nonce] = r2
          BY DEF Row
        <5>3. [r2 EXCEPT !.raw = raw] = r3
          BY DEF Row
        <5>4. [r3 EXCEPT !.signed = {"holder", "observer"}]
                = Row("Done", safe.nonce, raw, {"holder", "observer"}, n.token, n.amount, n.recovery)
          BY DEF Row
        <5>5. n = r0
          BY Zenon, <4>2 DEF RowOK
        <5> HIDE DEF r0, r1, r2, r3
        <5> QED
          BY Zenon, <5>1, <5>2, <5>3, <5>4, <5>5
      <4>4. Writes(c, Row("Done", safe.nonce, raw, {"holder", "observer"}, n.token, n.amount, n.recovery))
        BY Zenon, <1>0, <1>1, <4>1, <4>3 DEF Writes, KeeperTypeOK
      <4>5. safe' = [safe EXCEPT !.state = "Closed"] /\ transactions[c].state = "none"
            /\ UNCHANGED <<balances, credited, signatures, job, held>>
        BY Zenon, <2>10, <3>1 DEF CloseAccountWithHolder, CloseAccountByTransaction
      <4>6. SafeIs("Closed", safe.nonce)
        BY <1>1, <4>5 DEF SafeIs
      <4> QED
        BY Zenon, <1>2, <3>1, <4>2, <4>4, <4>5, <4>6 DEF Closed, RowOK, raw
    <3>2. CASE safe.state # "Approved"
      BY Zenon, <1>5, <2>10, <3>2 DEF CloseAccountWithHolder
    <3> QED
      BY Zenon, <3>1, <3>2
  <2> QED
    BY Zenon, <1>7, <2>1, <2>3, <2>4, <2>6, <2>7, <2>8, <2>9, <2>10 DEF RequestStep, Shape

<1>8. CASE SignerStep
  <2>1. ASSUME NEW r \in ReqIds, FinishSignatureRequest(r) PROVE Quiet
    <3>1. SignaturesStay
      BY Zenon, <1>0, <2>1, SignaturesKept DEF FinishSignatureRequest
    <3> QED
      BY Zenon, <1>4, <2>1, <3>1 DEF FinishSignatureRequest
  <2>2. ASSUME PanicSignature PROVE Quiet
    BY Zenon, <1>5, <2>2 DEF PanicSignature
  <2>3. ASSUME KeepSignature PROVE Quiet
    <3>1. job \in ReqIds
      BY Zenon, <1>0, <2>3 DEF KeepSignature, KeeperTypeOK
    <3>2. SignaturesStay
      BY Zenon, <1>0, <2>3, <3>1, SignaturesKept DEF KeepSignature
    <3> QED
      BY Zenon, <1>4, <2>3, <3>2 DEF KeepSignature
  <2>4. ASSUME FinishSafe PROVE \E t \in Txs \cup {Guard} : Completed(t)
    <3> DEFINE t == signatures[job].tx
    <3>1. /\ job \in ReqIds /\ safe.state = "Pending" /\ safe' = Finished(safe)
          /\ SignaturesDone(t, job) /\ TransactionDone(t) /\ job' = NoJob
          /\ UNCHANGED <<balances, credited, held>>
      BY Zenon, <1>0, <2>4 DEF FinishSafe, KeeperTypeOK
    <3>2. SignatureFollows(job) /\ signatures[job].state = "Pending"
      BY Zenon, <3>1, ConstantsOK DEF TableInv, JobOpen
    <3>3. t \in Txs \cup {Guard} /\ transactions[t].state = "Pending"
      BY <3>2 DEF SignatureFollows
    <3> HIDE DEF t
    <3>4. t = Guard /\ transactions[t].raw = NoPayment
      BY <3>1, <3>3 DEF TableInv, GuardFirst
    <3>5. DOMAIN transactions[t].raw = {} /\ \A k \in Tokens : Pays(t, k) = 0
      BY <3>4 DEF NoPayment, Pays
    <3>6. \A k \in Rows : k \in Tokens /\ balances[k] \in Nat
      BY <1>0 DEF KeeperTypeOK, IsPayment, Rows
    <3>7. \A k \in Rows : balances'[k] = balances[k] - Pays(t, k) /\ balances[k] >= Pays(t, k)
      BY <3>1, <3>5, <3>6
    <3>8. SafeIs("Approved", safe.nonce + 1)
      <4> DEFINE s1 == [safe EXCEPT !.state = "Approved"]
      <4>1. s1 = [state |-> "Approved", nonce |-> safe.nonce]
        BY <1>1
      <4>2. safe' = [s1 EXCEPT !.nonce = safe.nonce + 1]
        BY Zenon, <3>1 DEF Finished
      <4> HIDE DEF s1
      <4> QED
        BY <4>1, <4>2 DEF SafeIs
    <3>9. DOMAIN transactions[t].raw \subseteq Rows /\ DOMAIN balances' = Rows
      BY Zenon, <3>1, <3>5 DEF Rows
    <3>10. UNCHANGED <<credited, held>> /\ t = signatures[job].tx
      BY Zenon, <3>1 DEF t
    <3>11. t \in Txs \cup {Guard} /\ Completed(t)
      BY <3>1, <3>7, <3>8, <3>9, <3>10, ResponseShape
    <3> QED
      BY Zenon, <3>11
  <2>5. ASSUME FinishTransactionSignatures PROVE \E t \in Txs \cup {Guard} : Completed(t)
    <3> DEFINE t == signatures[job].tx
    <3>1. /\ job \in ReqIds /\ safe.state # "Pending" /\ safe' = [safe EXCEPT !.nonce = @ + 1]
          /\ SignaturesDone(t, job) /\ TransactionDone(t) /\ job' = NoJob
          /\ DOMAIN transactions[t].raw \subseteq Rows /\ Covered(transactions[t].raw)
          /\ balances' = Debit(transactions[t].raw, t)
          /\ UNCHANGED <<credited, held>> /\ t = signatures[job].tx
      BY Zenon, <1>0, <2>5 DEF FinishTransactionSignatures, KeeperTypeOK
    <3>2. SignatureFollows(job) /\ signatures[job].state = "Pending"
      BY Zenon, <3>1, ConstantsOK DEF TableInv, JobOpen
    <3>3. t \in TxIds
      BY <1>1, <3>2 DEF SignatureFollows
    <3> HIDE DEF t
    <3>4. \A k \in Rows : k \in Tokens /\ balances[k] \in Nat
      BY <1>0 DEF KeeperTypeOK, IsPayment, Rows
    <3> DEFINE raw == transactions[t].raw
    <3>5. IsPayment(raw)
      BY Zenon, <1>0, <3>3 DEF KeeperTypeOK
    <3>6. /\ DOMAIN balances' = Rows
          /\ \A k \in Rows : balances'[k] = IF k \in DOMAIN raw THEN balances[k] - raw[k] ELSE balances[k]
      BY Zenon, <3>1 DEF Debit
    <3>7. \A k \in DOMAIN raw : balances[k] >= raw[k]
      BY Zenon, <3>1 DEF Covered
    <3>8. \A k \in Tokens : Pays(t, k) = IF k \in DOMAIN raw THEN raw[k] ELSE 0
      BY Zenon DEF Pays
    <3> HIDE DEF raw
    <3>9. ASSUME NEW k \in Rows
          PROVE  balances'[k] = balances[k] - Pays(t, k) /\ balances[k] >= Pays(t, k)
      <4>1. CASE k \in DOMAIN raw
        <5>1. raw[k] \in Nat
          BY Zenon, <3>5, <4>1 DEF IsPayment
        <5> QED
          BY <3>4, <3>6, <3>7, <3>8, <4>1, <5>1
      <4>2. CASE k \notin DOMAIN raw
        BY <3>4, <3>6, <3>8, <4>2
      <4> QED
        BY <4>1, <4>2
    <3>10. SafeIs(safe.state, safe.nonce + 1)
      BY <1>1, <3>1 DEF SafeIs
    <3> QED
      BY Zenon, <3>1, <3>6, <3>9, <3>10, ResponseShape
  <2> QED
    BY Zenon, <1>8, <2>1, <2>2, <2>3, <2>4, <2>5 DEF SignerStep, Shape
<1>9. ASSUME NEW t \in Txs, RefundTransaction(t) PROVE Shape
  <2>1. CASE safe.state = "Approved"
    <3>1. /\ transactions[t].state = "Done"
          /\ transactions' = [transactions EXCEPT ![t].state = "Failed"]
          /\ safe' = [safe EXCEPT !.nonce = StepBack(@)]
          /\ balances' = [k \in Rows |->
                 IF k \in DOMAIN transactions[t].raw THEN balances[k] + transactions[t].raw[k] ELSE balances[k]]
          /\ held' = [held EXCEPT ![transactions[t].token] = @ + transactions[t].amount * Unit]
          /\ UNCHANGED <<credited, signatures, job>>
      BY Zenon, <1>9, <2>1 DEF RefundTransaction
    <3>2. t \in Txs
      BY <2>1, <3>1 DEF TableInv, ClosingsClose
    <3>3. Writes(t, Kept(t, "Failed", transactions[t].raw, transactions[t].signed))
      BY Zenon, <1>0, <1>1, <3>1, <3>2, RowWritten
    <3>4. SafeIs(safe.state, safe.nonce - 1)
      BY <1>1, <3>1 DEF SafeIs, StepBack
    <3>5. \A k \in Rows : k \in Tokens /\ balances[k] \in Nat
      BY <1>0 DEF KeeperTypeOK, IsPayment, Rows
    <3> DEFINE raw == transactions[t].raw
    <3>6. \A k \in Tokens : Pays(t, k) = IF k \in DOMAIN raw THEN raw[k] ELSE 0
      BY Zenon DEF Pays
    <3>7. balances' = [k \in Rows |-> IF k \in DOMAIN raw THEN balances[k] + raw[k] ELSE balances[k]]
      BY Zenon, <3>1
    <3> HIDE DEF raw
    <3>8. balances' = [k \in Rows |-> balances[k] + Pays(t, k)]
      BY <3>5, <3>6, <3>7
    <3> QED
      BY Zenon, <1>2, <2>1, <3>1, <3>2, <3>3, <3>4, <3>8 DEF Returned, Shape
  <2>2. CASE safe.state # "Approved"
    BY Zenon, <1>5, <1>9, <2>2 DEF RefundTransaction, Shape
  <2> QED
    BY Zenon, <2>1, <2>2
<1>10. CASE UNCHANGED keeperVars
  BY Zenon, <1>2, <1>4, <1>10 DEF keeperVars, Shape
<1> QED
  BY Zenon, <1>6, <1>7, <1>8, <1>9, <1>10 DEF KeeperNext

-----------------------------------------------------------------------------
(* Bonds h and claims c within a balance b stay so when they move together *)
(* to g, d and e.                                                          *)
LEMMA StillBacked ==
    ASSUME NEW h \in Nat, NEW c \in Int, NEW b \in Nat, h + c <= b, NEW g, NEW d, NEW e
    PROVE  /\ g \in Nat /\ g <= h /\ d = c /\ e = b => g + d <= e
           /\ \A a \in Nat : g = h + a /\ d = c /\ e = b + a => g + d <= e
           /\ \A a \in Nat : (g = h - a \/ (g = h /\ a = 0)) /\ d = c + a /\ e = b => g + d <= e
           /\ \A a \in Nat : g = h + a /\ d = c - a /\ e = b => g + d <= e
           /\ \A a, p \in Nat : g = h /\ d = c - a /\ (p = 0 \/ p = a) /\ e = b - p => g + d <= e
  OBVIOUS

(* What has not changed has not grown.                                     *)
LEMMA NoMore == ASSUME NEW h \in Nat, NEW g, g = h PROVE g <= h
  OBVIOUS

(* The fields of a row that is written, and that the others keep theirs.   *)
LEMMA KeptRow ==
    ASSUME KeeperTypeOK, NEW t \in TxIds,
           NEW state \in {"none", "Initial", "Pending", "Done", "Failed"}, NEW raw, IsPayment(raw),
           NEW signed \in SUBSET {"holder", "signer", "observer"}, Writes(t, Kept(t, state, raw, signed))
    PROVE  /\ RowOK(transactions'[t])
           /\ transactions'[t].state = state /\ transactions'[t].raw = raw
           /\ transactions'[t].signed = signed /\ transactions'[t].nonce = transactions[t].nonce
           /\ transactions'[t].token = transactions[t].token
           /\ transactions'[t].amount = transactions[t].amount
<1> DEFINE row == transactions[t]
           new == transactions'[t]
<1>1. new = Update(row, state, raw, signed)
  BY Zenon DEF Writes, Kept
<1>2. RowOK(row)
  BY Zenon, TypesOfRows
<1> HIDE DEF row, new
<1>3. row.nonce \in Nat /\ row.token \in Tokens /\ row.amount \in Nat /\ row.recovery \in BOOLEAN
  BY Zenon, <1>2 DEF RowOK
<1>4. /\ new.state = state /\ new.raw = raw /\ new.signed = signed /\ new.nonce = row.nonce
      /\ new.token = row.token /\ new.amount = row.amount /\ new.recovery = row.recovery
  BY Zenon, <1>1 DEF Update, Row
<1>5. new = Row(new.state, new.nonce, new.raw, new.signed, new.token, new.amount, new.recovery)
  BY Zenon, <1>1, <1>4 DEF Update
<1>6. RowOK(new)
  <2>1. new.state \in {"none", "Initial", "Pending", "Done", "Failed"} /\ IsPayment(new.raw)
        /\ new.signed \in SUBSET {"holder", "signer", "observer"}
    BY Zenon, <1>4
  <2>2. new.nonce \in Nat /\ new.token \in Tokens /\ new.amount \in Nat /\ new.recovery \in BOOLEAN
    BY Zenon, <1>3, <1>4
  <2> QED
    BY Zenon, <1>5, <2>1, <2>2 DEF RowOK
<1> QED
  BY Zenon, <1>4, <1>6 DEF row, new

(* What a step may do to a row of the table transactions.                  *)
RowMoves(u) ==
    LET old == transactions[u]
        new == transactions'[u]
    IN
    \/ new = old
    \/ /\ u \in Txs /\ safe.state = "Approved" /\ safe' = safe
       /\ old.state = "none" /\ new.state = "Initial" /\ new.signed = {}
    \/ /\ u \in Txs \cup {Guard} /\ old.state \in {"Initial", "Pending"} /\ new.state = "Pending"
       /\ "signer" \notin new.signed
       /\ u = Guard => new.raw = NoPayment
    \/ /\ u \in Txs /\ old.state = "Initial" /\ new.state = "Failed" /\ new.signed = old.signed
    \/ /\ u \in Txs /\ safe.state = "Approved" /\ old.state = "Done" /\ new.state = "Failed"
       /\ new.signed = old.signed /\ new.nonce = old.nonce
    \/ /\ u \in Closings /\ safe'.state = "Closed" /\ old.state = "none" /\ new.state = "Done"
       /\ "signer" \notin new.signed
    \/ /\ u \in Txs \cup {Guard} /\ old.state = "Pending" /\ new.state = "Done"
       /\ "signer" \in new.signed /\ new.raw = old.raw /\ DOMAIN new.raw \subseteq Rows

(* What it may do to the safe.                                             *)
SafeMoves ==
    \/ safe'.state = safe.state
    \/ safe.state \in {"none", "Pending"} /\ safe'.state = "Pending"
    \/ Open /\ safe'.state = "Closed"
    \/ safe.state = "Pending" /\ safe'.state = "Approved" /\ transactions'[Guard].state = "Done"

(* A proposal writes a row of the table.                                   *)
LEMMA ProposedRow ==
    ASSUME KeeperTypeOK, NEW t \in Txs, NEW k \in Tokens, NEW amount \in Amounts,
           NEW recovery \in BOOLEAN, ProposeTransaction(t, k, amount, recovery)
    PROVE  /\ RowOK(transactions'[t])
           /\ Writes(t, transactions'[t])
           /\ transactions'[t].state = "Initial" /\ transactions'[t].signed = {}
           /\ transactions'[t].token = k /\ transactions'[t].amount = amount
<1> DEFINE raw == Outputs(k, amount, recovery)
<1>1. /\ DOMAIN transactions = TxIds /\ IsPayment(balances) /\ t \in TxIds /\ safe.nonce \in Nat
      /\ amount \in Nat
  BY Zenon, TypesOfRows, ConstantsOK DEF KeeperTypeOK
<1>2. IsPayment(raw)
  <2>1. ASSUME NEW S, S \subseteq Rows
        PROVE  IsPayment([j \in {k} \cup S |-> IF j = k THEN amount ELSE balances[j]])
    BY Zenon, <1>1, <2>1 DEF IsPayment, Rows
  <2>2. (IF recovery THEN RecoveryOutputs(k) ELSE {}) \subseteq Rows
    BY Zenon DEF RecoveryOutputs
  <2> QED
    BY Zenon, <2>1, <2>2 DEF Outputs
<1>3. transactions' = [transactions EXCEPT ![t] = Row("Initial", safe.nonce, raw, {}, k, amount, recovery)]
  BY Zenon DEF ProposeTransaction, Row
<1> HIDE DEF raw
<1>4. Writes(t, Row("Initial", safe.nonce, raw, {}, k, amount, recovery))
  BY Zenon, <1>1, <1>3 DEF Writes
<1>5. transactions'[t] = Row("Initial", safe.nonce, raw, {}, k, amount, recovery)
  BY Zenon, <1>4 DEF Writes
<1>6. recovery \in BOOLEAN
  BY Zenon
<1>7. RowOK(Row("Initial", safe.nonce, raw, {}, k, amount, recovery))
  BY Zenon, <1>1, <1>2, <1>6 DEF RowOK, Row
<1>8. /\ Row("Initial", safe.nonce, raw, {}, k, amount, recovery).state = "Initial"
      /\ Row("Initial", safe.nonce, raw, {}, k, amount, recovery).signed = {}
      /\ Row("Initial", safe.nonce, raw, {}, k, amount, recovery).token = k
      /\ Row("Initial", safe.nonce, raw, {}, k, amount, recovery).amount = amount
  BY Zenon DEF Row
<1> QED
  BY Zenon, <1>4, <1>5, <1>7, <1>8

(* Every step moves every row and the safe in one of these ways.           *)
LEMMA StepMoves ==
    ASSUME TableInv, Shape
    PROVE  /\ DOMAIN transactions' = TxIds
           /\ \A u \in TxIds : RowOK(transactions'[u]) /\ RowMoves(u)
           /\ SafeMoves
<1>0. KeeperTypeOK /\ DOMAIN transactions = TxIds
  BY Zenon DEF TableInv, KeeperTypeOK
<1>1. /\ \A t \in TxIds : RowOK(transactions[t])
      /\ safe = [state |-> safe.state, nonce |-> safe.nonce]
      /\ Txs \subseteq TxIds /\ Guard \in TxIds /\ Closings \subseteq TxIds
  BY Zenon, <1>0, TypesOfRows
<1>2. ASSUME NEW t \in TxIds, \E row : Writes(t, row), RowOK(transactions'[t]), RowMoves(t)
      PROVE  /\ DOMAIN transactions' = TxIds
             /\ \A u \in TxIds : RowOK(transactions'[u]) /\ RowMoves(u)
  BY Zenon, <1>1, <1>2 DEF Writes, RowMoves
<1>3. ASSUME transactions' = transactions
      PROVE  /\ DOMAIN transactions' = TxIds
             /\ \A u \in TxIds : RowOK(transactions'[u]) /\ RowMoves(u)
  BY Zenon, <1>0, <1>1, <1>3 DEF RowMoves
<1>4. ASSUME NEW state, NEW nonce, SafeIs(state, nonce) PROVE safe'.state = state
  BY Zenon, <1>4 DEF SafeIs
<1>5. \A t \in TxIds : IsPayment(transactions[t].raw)
                        /\ transactions[t].signed \in SUBSET {"holder", "signer", "observer"}
  BY Zenon, <1>1 DEF RowOK
<1>6. CASE Quiet
  BY Zenon, <1>3, <1>4, <1>6 DEF Quiet, SafeMoves
<1>7. ASSUME NEW d \in Deposits, Deposited(d)
      PROVE  transactions' = transactions /\ SafeMoves
  BY Zenon, <1>7 DEF Deposited, CreateHolderDeposit, SafeMoves
<1>8. ASSUME NEW t \in Txs, NEW k \in Tokens, NEW amount \in Amounts, NEW recovery \in BOOLEAN,
             Proposed(t, k, amount, recovery)
      PROVE  RowOK(transactions'[t]) /\ Writes(t, transactions'[t]) /\ RowMoves(t) /\ SafeMoves
  <2>1. /\ RowOK(transactions'[t]) /\ Writes(t, transactions'[t])
        /\ transactions'[t].state = "Initial" /\ transactions'[t].signed = {}
    BY <1>0, <1>8, ProposedRow DEF Proposed
  <2> QED
    BY Zenon, <1>8, <2>1 DEF Proposed, ProposeTransaction, RowMoves, SafeMoves
<1>9. ASSUME NEW r \in ReqIds, NEW t \in Txs \cup {Guard}, NEW owner \in {"holder", "observer"},
             NEW raw, Asked(r, t, raw, owner)
      PROVE  /\ RowOK(transactions'[t]) /\ Writes(t, Kept(t, "Pending", raw, {owner}))
             /\ RowMoves(t) /\ SafeMoves
  <2>1. /\ t \in TxIds /\ IsPayment(raw) /\ Writes(t, Kept(t, "Pending", raw, {owner}))
        /\ {owner} \in SUBSET {"holder", "signer", "observer"} /\ "signer" \notin {owner}
    BY Zenon, <1>1, <1>9 DEF Asked
  <2>2. /\ RowOK(transactions'[t]) /\ transactions'[t].state = "Pending"
        /\ transactions'[t].raw = raw /\ transactions'[t].signed = {owner}
    BY <1>0, <2>1, KeptRow
  <2>3. RowMoves(t)
    BY Zenon, <1>9, <2>1, <2>2 DEF RowMoves, Asked, Approvable
  <2>4. SafeMoves
    BY Zenon, <1>4, <1>9 DEF Asked, SafeMoves
  <2> QED
    BY Zenon, <2>1, <2>2, <2>3, <2>4
<1>10. ASSUME NEW t \in Txs, Revoked(t) \/ Returned(t)
       PROVE  /\ RowOK(transactions'[t]) /\ RowMoves(t) /\ SafeMoves
              /\ Writes(t, Kept(t, "Failed", transactions[t].raw, transactions[t].signed))
  <2>1. Writes(t, Kept(t, "Failed", transactions[t].raw, transactions[t].signed)) /\ t \in TxIds
    BY Zenon, <1>1, <1>10 DEF Revoked, Returned
  <2>2. /\ RowOK(transactions'[t]) /\ transactions'[t].state = "Failed"
        /\ transactions'[t].signed = transactions[t].signed
        /\ transactions'[t].nonce = transactions[t].nonce
    BY <1>0, <1>5, <2>1, KeptRow
  <2>3. RowMoves(t)
    BY Zenon, <1>10, <2>2 DEF RowMoves, Revoked, Returned
  <2>4. SafeMoves
    BY Zenon, <1>4, <1>10 DEF Revoked, Returned, SafeMoves
  <2> QED
    BY Zenon, <2>1, <2>2, <2>3, <2>4
<1>11. ASSUME NEW c \in Closings, Closed(c)
       PROVE  RowOK(transactions'[c]) /\ Writes(c, transactions'[c]) /\ RowMoves(c) /\ SafeMoves
  <2> DEFINE raw == [k \in Rows |-> balances[k]]
             owners == {"holder", "observer"}
  <2>1. PICK token \in Tokens, amount \in Nat, recovery \in BOOLEAN :
             Writes(c, Row("Done", safe.nonce, raw, owners, token, amount, recovery))
    BY Zenon, <1>11 DEF Closed
  <2>2. transactions'[c] = Row("Done", safe.nonce, raw, owners, token, amount, recovery)
    BY Zenon, <2>1 DEF Writes
  <2>3. IsPayment(raw) /\ safe.nonce \in Nat
    BY Zenon, <1>0 DEF KeeperTypeOK, IsPayment, Rows
  <2>4. owners \in SUBSET {"holder", "signer", "observer"} /\ "signer" \notin owners
    BY Zenon
  <2>5. token \in Tokens /\ amount \in Nat /\ recovery \in BOOLEAN
    BY Zenon
  <2> HIDE DEF raw, owners
  <2>6. RowOK(Row("Done", safe.nonce, raw, owners, token, amount, recovery))
    BY Zenon, <2>3, <2>4, <2>5 DEF RowOK, Row
  <2>7. /\ Row("Done", safe.nonce, raw, owners, token, amount, recovery).state = "Done"
        /\ Row("Done", safe.nonce, raw, owners, token, amount, recovery).signed = owners
    BY Zenon DEF Row
  <2>8. safe'.state = "Closed" /\ Open
    BY Zenon, <1>4, <1>11 DEF Closed, Open
  <2>9. transactions'[c].state = "Done" /\ "signer" \notin transactions'[c].signed
    BY Zenon, <2>2, <2>4, <2>7
  <2> QED
    BY Zenon, <1>11, <2>1, <2>2, <2>6, <2>8, <2>9 DEF RowMoves, SafeMoves, Closed
<1>12. ASSUME NEW t \in Txs \cup {Guard}, Completed(t)
       PROVE  /\ RowOK(transactions'[t]) /\ RowMoves(t) /\ SafeMoves
              /\ Writes(t, Kept(t, "Done", transactions[t].raw, transactions[t].signed \cup {"signer"}))
  <2>1. /\ Writes(t, Kept(t, "Done", transactions[t].raw, transactions[t].signed \cup {"signer"}))
        /\ t \in TxIds
    BY Zenon, <1>1, <1>12 DEF Completed
  <2>2. transactions[t].signed \cup {"signer"} \in SUBSET {"holder", "signer", "observer"}
    BY Zenon, <1>5, <2>1
  <2>3. /\ RowOK(transactions'[t]) /\ transactions'[t].state = "Done"
        /\ transactions'[t].raw = transactions[t].raw
        /\ transactions'[t].signed = transactions[t].signed \cup {"signer"}
    BY <1>0, <1>5, <2>1, <2>2, KeptRow
  <2>4. "signer" \in transactions'[t].signed
    BY Zenon, <2>3
  <2>5. RowMoves(t)
    BY Zenon, <1>12, <2>3, <2>4 DEF RowMoves, Completed
  <2>6. SafeMoves
    BY Zenon, <1>4, <1>12, <2>3 DEF Completed, SafeMoves
  <2> QED
    BY Zenon, <2>1, <2>3, <2>5, <2>6
<1>13. SafeMoves
  BY Zenon, <1>6, <1>7, <1>8, <1>9, <1>10, <1>11, <1>12 DEF Shape
<1>14. \/ transactions' = transactions
       \/ \E t \in TxIds : (\E row : Writes(t, row)) /\ RowOK(transactions'[t]) /\ RowMoves(t)
  <2>1. CASE \/ Quiet
             \/ \E d \in Deposits : Deposited(d)
    BY Zenon, <1>7, <2>1 DEF Quiet
  <2>2. CASE \E t \in Txs, k \in Tokens, amount \in Amounts, recovery \in BOOLEAN :
                 Proposed(t, k, amount, recovery)
    BY Zenon, <1>1, <1>8, <2>2
  <2>3. CASE \E r \in ReqIds, t \in Txs \cup {Guard}, owner \in {"holder", "observer"} :
                 \E raw : Asked(r, t, raw, owner)
    <3>1. PICK r \in ReqIds, t \in Txs \cup {Guard}, owner \in {"holder", "observer"} :
              \E raw : Asked(r, t, raw, owner)
      BY Zenon, <2>3
    <3>2. t \in TxIds
      BY Zenon, <1>1
    <3> QED
      BY Zenon, <1>9, <3>1, <3>2
  <2>4. CASE \E t \in Txs : Revoked(t) \/ Returned(t)
    BY Zenon, <1>1, <1>10, <2>4
  <2>5. CASE \E c \in Closings : Closed(c)
    BY Zenon, <1>1, <1>11, <2>5
  <2>6. CASE \E t \in Txs \cup {Guard} : Completed(t)
    <3>1. PICK t \in Txs \cup {Guard} : Completed(t)
      BY Zenon, <2>6
    <3>2. t \in TxIds
      BY Zenon, <1>1
    <3> QED
      BY Zenon, <1>12, <3>1, <3>2
  <2> QED
    BY Zenon, <2>1, <2>2, <2>3, <2>4, <2>5, <2>6 DEF Shape
<1> QED
  BY Zenon, <1>2, <1>3, <1>13, <1>14

-----------------------------------------------------------------------------
(* Rows of balances are never deleted, and a step leaves amounts in them.  *)
LEMMA BalancesStep ==
    ASSUME TableInv, Shape
    PROVE  IsPayment(balances') /\ Rows \subseteq Rows' /\ credited' \subseteq Deposits
<1>0. KeeperTypeOK /\ IsPayment(balances) /\ credited \subseteq Deposits
  BY Zenon DEF TableInv, KeeperTypeOK
<1>1. /\ \A t \in TxIds : IsPayment(transactions[t].raw)
      /\ Txs \cup {Guard} \subseteq TxIds
  BY Zenon, <1>0, TypesOfRows DEF RowOK, TxIds
<1>2. \A k \in Rows : k \in Tokens /\ balances[k] \in Nat
  BY Zenon, <1>0 DEF IsPayment, Rows
<1>3. \A t \in TxIds : \A k \in Tokens : Pays(t, k) \in Nat
  BY Zenon, <1>1 DEF IsPayment, Pays
<1>4. ASSUME balances' = balances PROVE IsPayment(balances') /\ Rows \subseteq Rows'
  BY Zenon, <1>0, <1>4 DEF Rows, IsPayment
<1>5. ASSUME NEW d \in Deposits, Deposited(d)
      PROVE  IsPayment(balances') /\ Rows \subseteq Rows' /\ credited' \subseteq Deposits
  <2> DEFINE k == DepositToken[d]
             a == DepositAmount[d]
  <2>1. k \in Tokens /\ a \in Nat
    BY Zenon, ConstantsOK
  <2>2. /\ credited' = credited \cup {d}
        /\ balances' = [j \in Rows \cup {k} |-> IF j = k THEN Balance(k) + a ELSE balances[j]]
    BY Zenon, <1>5 DEF Deposited, CreateHolderDeposit, Credit
  <2> HIDE DEF k, a
  <2>3. Balance(k) + a \in Nat
    BY <1>2, <2>1 DEF Balance
  <2>4. DOMAIN balances' = Rows \cup {k}
    BY Zenon, <2>2
  <2>5. \A j \in Rows \cup {k} : j \in Tokens /\ balances'[j] \in Nat
    BY Zenon, <1>2, <2>1, <2>2, <2>3
  <2>6. IsPayment(balances')
    BY Zenon, <2>4, <2>5 DEF IsPayment
  <2>7. Rows \subseteq Rows' /\ credited' \subseteq Deposits
    BY Zenon, <1>0, <2>2, <2>4 DEF Rows
  <2> QED
    BY Zenon, <2>6, <2>7
<1>6. ASSUME DOMAIN balances' = Rows, \A k \in Rows : balances'[k] \in Nat
      PROVE  IsPayment(balances') /\ Rows \subseteq Rows'
  BY Zenon, <1>2, <1>6 DEF IsPayment, Rows
<1>7. ASSUME NEW t \in Txs, Returned(t) PROVE IsPayment(balances') /\ Rows \subseteq Rows'
  <2>1. balances' = [k \in Rows |-> balances[k] + Pays(t, k)]
    BY Zenon, <1>7 DEF Returned
  <2>2. DOMAIN balances' = Rows /\ \A k \in Rows : balances'[k] \in Nat
    BY <1>1, <1>2, <1>3, <2>1
  <2> QED
    BY Zenon, <1>6, <2>2
<1>8. ASSUME NEW t \in Txs \cup {Guard}, Completed(t) PROVE IsPayment(balances') /\ Rows \subseteq Rows'
  <2>1. /\ DOMAIN balances' = Rows
        /\ \A k \in Rows : balances'[k] = balances[k] - Pays(t, k) /\ balances[k] >= Pays(t, k)
    BY Zenon, <1>8 DEF Completed
  <2>2. \A k \in Rows : Pays(t, k) \in Nat
    BY Zenon, <1>1, <1>2, <1>3
  <2>3. \A k \in Rows : balances'[k] \in Nat
    BY <1>2, <2>1, <2>2
  <2> QED
    BY Zenon, <1>6, <2>1, <2>3
<1>9. \/ balances' = balances
      \/ \E d \in Deposits : Deposited(d)
      \/ \E t \in Txs : Returned(t)
      \/ \E t \in Txs \cup {Guard} : Completed(t)
  BY Zenon DEF Shape, Quiet, Proposed, ProposeTransaction, Asked, Revoked, Closed
<1>10. credited' = credited \/ \E d \in Deposits : Deposited(d)
  BY ZenonT(40) DEF Shape, Quiet, Proposed, ProposeTransaction, Asked, Revoked, Closed, Returned, Completed
<1> QED
  BY Zenon, <1>0, <1>4, <1>5, <1>7, <1>8, <1>9, <1>10

(* What the tables say of signatures stays true.                           *)
LEMMA SignersStep ==
    ASSUME TableInv, Shape
    PROVE  SignerSigned' /\ GuardFirst' /\ ClosingsClose' /\ PaysFromRows'
<1>1. \A u \in TxIds : RowMoves(u) /\ RowOK(transactions'[u])
  BY Zenon, StepMoves
<1>2. SafeMoves
  BY Zenon, StepMoves
<1>3. SignerSigned /\ GuardFirst /\ ClosingsClose /\ PaysFromRows /\ KeeperTypeOK
  BY Zenon DEF TableInv
<1>4. /\ Txs \subseteq TxIds /\ Guard \in TxIds /\ Closings \subseteq TxIds
      /\ \A t \in TxIds : RowOK(transactions[t])
      /\ safe.state \in {"none", "Pending", "Approved", "Closed"}
  BY Zenon, <1>3, TypesOfRows
<1>5. ASSUME NEW u \in TxIds, "signer" \in transactions'[u].signed
      PROVE  transactions'[u].state \in {"Done", "Failed"} /\ u \in Txs \cup {Guard}
  BY Zenon, <1>1, <1>3, <1>5 DEF RowMoves, SignerSigned
<1>6. ASSUME NEW u \in Txs \cup {Guard}, transactions'[u].state = "Done"
      PROVE  "signer" \in transactions'[u].signed
  <2>1. u \in TxIds /\ u \notin Closings
    BY Zenon, <1>4, ConstantsOK
  <2> QED
    BY Zenon, <1>1, <1>3, <1>6, <2>1 DEF RowMoves, SignerSigned
<1>7. Guard \notin Txs /\ Guard \notin Closings /\ Txs \cap Closings = {}
  BY Zenon, ConstantsOK
<1>8. /\ transactions'[Guard].raw = NoPayment
      /\ transactions'[Guard].state \in {"Initial", "Pending", "Done"}
      /\ transactions[Guard].state = "Done" => transactions'[Guard].state = "Done"
  <2>1. RowMoves(Guard)
    BY Zenon, <1>1, <1>4
  <2>2. transactions[Guard].raw = NoPayment /\ transactions[Guard].state \in {"Initial", "Pending", "Done"}
    BY Zenon, <1>3 DEF GuardFirst
  <2> QED
    BY Zenon, <1>7, <2>1, <2>2 DEF RowMoves
<1>9. safe'.state \in {"none", "Pending"} => \A t \in Txs : transactions'[t].state = "none"
  <2> SUFFICES ASSUME safe'.state \in {"none", "Pending"}, NEW t \in Txs
               PROVE  transactions'[t].state = "none"
    BY Zenon
  <2>1. safe.state \in {"none", "Pending"}
    BY Zenon, <1>2, <1>4 DEF SafeMoves, Open
  <2>2. transactions[t].state = "none" /\ t \in TxIds /\ t \notin Closings
    BY Zenon, <1>3, <1>4, <1>7, <2>1 DEF GuardFirst
  <2>3. RowMoves(t)
    BY Zenon, <1>1, <2>2
  <2> QED
    BY Zenon, <2>1, <2>2, <2>3 DEF RowMoves
<1>10. safe'.state \in {"Approved", "Closed"} => transactions'[Guard].state = "Done"
  BY Zenon, <1>2, <1>3, <1>4, <1>8 DEF SafeMoves, Open, GuardFirst
<1>11. ASSUME NEW c \in Closings, transactions'[c].state # "none" PROVE safe'.state = "Closed"
  <2>1. RowMoves(c) /\ c \notin Txs \cup {Guard}
    BY Zenon, <1>1, <1>4, <1>7
  <2>2. transactions[c].state # "none" => safe.state = "Closed"
    BY Zenon, <1>3 DEF ClosingsClose
  <2>3. transactions[c].state # "none" \/ safe'.state = "Closed"
    BY Zenon, <1>11, <2>1 DEF RowMoves
  <2>4. safe.state = "Closed" => safe'.state = "Closed"
    BY Zenon, <1>2 DEF SafeMoves, Open
  <2> QED
    BY Zenon, <2>2, <2>3, <2>4
<1>12. PaysFromRows'
  <2> SUFFICES ASSUME NEW u \in TxIds, SignedByGroup(u)' PROVE DOMAIN transactions'[u].raw \subseteq Rows'
    BY Zenon DEF PaysFromRows, Signed
  <2>1. Rows \subseteq Rows'
    BY Zenon, BalancesStep
  <2>2. \/ transactions'[u] = transactions[u]
        \/ DOMAIN transactions'[u].raw \subseteq Rows
    BY Zenon, <1>1, <1>5 DEF RowMoves, SignedByGroup
  <2>3. transactions'[u] = transactions[u] => DOMAIN transactions'[u].raw \subseteq Rows
    BY Zenon, <1>3 DEF SignedByGroup, PaysFromRows, Signed
  <2> QED
    BY Zenon, <2>1, <2>2, <2>3
<1>13. SignerSigned'
  BY Zenon, <1>5, <1>6 DEF SignerSigned
<1>14. GuardFirst'
  BY Zenon, <1>8, <1>9, <1>10 DEF GuardFirst
<1>15. ClosingsClose'
  BY Zenon, <1>11 DEF ClosingsClose
<1> QED
  BY Zenon, <1>12, <1>13, <1>14, <1>15

(* What the table of requests says of the transactions stays true.         *)
LEMMA SignaturesStep ==
    ASSUME TableInv, Shape
    PROVE  /\ JobOpen' /\ \A r \in ReqIds : SignatureFollows(r)'
           /\ job' \in ReqIds \cup {NoJob} /\ DOMAIN signatures' = ReqIds
           /\ \A r \in ReqIds : /\ signatures'[r] \in SignatureRow({signatures'[r].message})
                                /\ IsPayment(signatures'[r].message)
<1> DEFINE Follows(r, row) ==
               /\ row.state = "none" => row.tx = NoTx
               /\ row.state # "none" => row.tx \in Txs \cup {Guard}
               /\ row.state \in {"Initial", "Pending"} => transactions'[row.tx].state = "Pending"
           Typed(row) == row \in SignatureRow({row.message}) /\ IsPayment(row.message)
           Goal == /\ JobOpen' /\ job' \in ReqIds \cup {NoJob} /\ DOMAIN signatures' = ReqIds
                   /\ \A r \in ReqIds : Follows(r, signatures'[r]) /\ Typed(signatures'[r])
<1>0. KeeperTypeOK /\ JobOpen /\ job \in ReqIds \cup {NoJob} /\ DOMAIN signatures = ReqIds
  BY Zenon DEF TableInv, KeeperTypeOK
<1>1. /\ \A r \in ReqIds : signatures[r] \in SignatureRow({signatures[r].message})
      /\ \A r \in ReqIds : SignatureOK(signatures[r])
      /\ Txs \subseteq TxIds /\ Guard \in TxIds /\ Closings \subseteq TxIds
  BY Zenon, <1>0, TypesOfRows
<1>2. ASSUME NEW r \in ReqIds
      PROVE  /\ signatures[r].state = "none" => signatures[r].tx = NoTx
             /\ signatures[r].state # "none" => signatures[r].tx \in Txs \cup {Guard}
             /\ signatures[r].state \in {"Initial", "Pending"} =>
                   transactions[signatures[r].tx].state = "Pending"
             /\ Typed(signatures[r])
  BY Zenon, <1>1 DEF TableInv, SignatureFollows, SignatureOK
<1>3. ASSUME NEW row, Typed(row), NEW new, new \in SignatureRow({row.message}) PROVE Typed(new)
  <2>1. new.message = row.message
    BY Zenon, <1>3 DEF SignatureRow
  <2> QED
    BY Zenon, <1>3, <2>1
<1>4. ASSUME SignaturesStay,
             \A u \in TxIds : transactions[u].state = "Pending" => transactions'[u] = transactions[u]
      PROVE  Goal
  <2>1. ASSUME NEW r \in ReqIds PROVE Follows(r, signatures'[r]) /\ Typed(signatures'[r])
    <3>1. SignatureStays(signatures[r], signatures'[r])
      BY Zenon, <1>4 DEF SignaturesStay
    <3>2. Typed(signatures'[r])
      BY Zenon, <1>2, <1>3, <3>1 DEF SignatureStays
    <3> DEFINE row == signatures[r]
               new == signatures'[r]
    <3>3. /\ new.tx = row.tx
          /\ \/ new.state = row.state
             \/ row.state = "Initial" /\ new.state = "Pending"
      BY Zenon, <3>1 DEF SignatureStays
    <3>4. /\ row.state = "none" => row.tx = NoTx
          /\ row.state # "none" => row.tx \in Txs \cup {Guard}
          /\ row.state \in {"Initial", "Pending"} => transactions[row.tx].state = "Pending"
      BY Zenon, <1>2
    <3> HIDE DEF row, new
    <3>5. Follows(r, new)
      BY Zenon, <1>1, <1>4, <3>3, <3>4
    <3> QED
      BY Zenon, <3>2, <3>5 DEF new
  <2> QED
    BY Zenon, <1>4, <2>1 DEF SignaturesStay
<1>5. ASSUME NEW t \in TxIds, NEW row, transactions[t].state # "Pending", Writes(t, row), SignaturesStay
      PROVE  Goal
  BY Zenon, <1>4, <1>5 DEF Writes
<1>6. ASSUME NEW r \in ReqIds, NEW t \in Txs \cup {Guard}, NEW owner \in {"holder", "observer"},
             NEW raw, Asked(r, t, raw, owner)
      PROVE  Goal
  <2>1. t \in TxIds /\ IsPayment(raw) /\ Writes(t, Kept(t, "Pending", raw, {owner}))
    BY Zenon, <1>1, <1>6 DEF Asked
  <2>2. transactions'[t].state = "Pending" /\ \A u \in TxIds \ {t} : transactions'[u] = transactions[u]
    <3>1. transactions'[t] = Update(transactions[t], "Pending", raw, {owner})
      BY Zenon, <2>1 DEF Writes, Kept
    <3>2. \A row : Update(row, "Pending", raw, {owner}).state = "Pending"
      BY Zenon DEF Update, Row
    <3> QED
      BY Zenon, <2>1, <3>1, <3>2 DEF Writes
  <2>3. ASSUME NEW q \in ReqIds \ {r} PROVE Follows(q, signatures'[q]) /\ Typed(signatures'[q])
    <3>1. signatures'[q] = signatures[q]
      BY Zenon, <1>6 DEF Asked
    <3>2. Typed(signatures'[q])
      BY Zenon, <1>2, <3>1
    <3> DEFINE row == signatures[q]
    <3>3. /\ row.state = "none" => row.tx = NoTx
          /\ row.state # "none" => row.tx \in Txs \cup {Guard}
          /\ row.state \in {"Initial", "Pending"} => transactions[row.tx].state = "Pending"
      BY Zenon, <1>2
    <3> HIDE DEF row
    <3>4. Follows(q, row)
      BY Zenon, <1>1, <2>2, <3>3
    <3> QED
      BY Zenon, <3>1, <3>2, <3>4 DEF row
  <2>4. Follows(r, signatures'[r])
    BY Zenon, <1>6, <2>2 DEF Asked
  <2>5. Typed(signatures'[r])
    <3>1. signatures'[r] \in SignatureRow({raw})
      BY Zenon, <1>6 DEF Asked
    <3>2. signatures'[r].message = raw
      BY Zenon, <3>1 DEF SignatureRow
    <3> QED
      BY Zenon, <2>1, <3>1, <3>2
  <2>6. JobOpen' /\ job' \in ReqIds \cup {NoJob} /\ DOMAIN signatures' = ReqIds
    BY Zenon, <1>0, <1>6 DEF Asked, JobOpen
  <2> QED
    BY Zenon, <2>3, <2>4, <2>5, <2>6
<1>7. ASSUME NEW t \in Txs \cup {Guard}, Completed(t) PROVE Goal
  <2>1. \A u \in TxIds \ {t} : transactions'[u] = transactions[u]
    BY Zenon, <1>7 DEF Completed, Writes
  <2>2. ASSUME NEW r \in ReqIds PROVE Follows(r, signatures'[r]) /\ Typed(signatures'[r])
    <3> DEFINE row == signatures[r]
               new == signatures'[r]
    <3>1. /\ new \in SignatureRow({row.message}) /\ new.tx = row.tx
          /\ new.state = IF row.tx = t THEN "Done" ELSE row.state
      BY Zenon, <1>7 DEF Completed
    <3>2. Typed(new)
      BY Zenon, <1>2, <1>3, <3>1
    <3>3. /\ row.state = "none" => row.tx = NoTx
          /\ row.state # "none" => row.tx \in Txs \cup {Guard}
          /\ row.state \in {"Initial", "Pending"} => transactions[row.tx].state = "Pending"
      BY Zenon, <1>2
    <3> HIDE DEF row, new
    <3>4. Follows(r, new)
      BY Zenon, <1>1, <2>1, <3>1, <3>3
    <3> QED
      BY Zenon, <3>2, <3>4 DEF new
  <2> QED
    BY Zenon, <1>7, <2>2 DEF Completed, JobOpen
<1>8. ASSUME UNCHANGED transactions, SignaturesStay PROVE Goal
  BY Zenon, <1>4, <1>8
<1>9. ASSUME NEW t \in Txs, NEW k \in Tokens, NEW amount \in Amounts, NEW recovery \in BOOLEAN,
             Proposed(t, k, amount, recovery)
      PROVE  Goal
  <2>1. Writes(t, transactions'[t])
    BY <1>0, <1>9, ProposedRow DEF Proposed
  <2>2. transactions[t].state # "Pending" /\ SignaturesStay /\ t \in TxIds
    BY Zenon, <1>1, <1>9 DEF Proposed, ProposeTransaction
  <2> QED
    BY Zenon, <1>5, <2>1, <2>2
<1>10. ASSUME NEW t \in Txs, Revoked(t) \/ Returned(t) PROVE Goal
  <2>1. transactions[t].state # "Pending" /\ SignaturesStay /\ t \in TxIds
    BY Zenon, <1>1, <1>10 DEF Revoked, Returned
  <2>2. \E row : Writes(t, row)
    BY Zenon, <1>10 DEF Revoked, Returned
  <2> QED
    BY Zenon, <1>5, <2>1, <2>2
<1>11. ASSUME NEW c \in Closings, Closed(c) PROVE Goal
  <2>1. transactions[c].state # "Pending" /\ SignaturesStay /\ c \in TxIds
    BY Zenon, <1>1, <1>11 DEF Closed
  <2>2. \E row : Writes(c, row)
    BY Zenon, <1>11 DEF Closed
  <2> QED
    BY Zenon, <1>5, <2>1, <2>2
<1>12. Goal
  <2> HIDE DEF Goal
  <2>1. ASSUME NEW d \in Deposits, Deposited(d) PROVE Goal
    BY Zenon, <1>8, <2>1 DEF Deposited, CreateHolderDeposit
  <2>2. ASSUME Quiet PROVE Goal
    BY Zenon, <1>8, <2>2 DEF Quiet
  <2> QED
    BY Zenon, <2>1, <2>2, <1>6, <1>7, <1>9, <1>10, <1>11 DEF Shape
<1> QED
  BY Zenon, <1>12 DEF SignatureFollows

-----------------------------------------------------------------------------
(* The transactions that are signed stay, or are one less or one more.     *)
SignedKept ==
    /\ Signed' = Signed /\ safe'.nonce = safe.nonce
    /\ \A u \in Signed : transactions'[u] = transactions[u]

SignedLess(t) ==
    /\ t \in Signed /\ Signed' = Signed \ {t} /\ safe'.nonce = safe.nonce - 1
    /\ \A u \in TxIds : transactions'[u].raw = transactions[u].raw

SignedMore(t) ==
    /\ t \in TxIds \ Signed /\ Signed' = Signed \cup {t} /\ safe'.nonce = safe.nonce + 1
    /\ \A u \in TxIds : transactions'[u].raw = transactions[u].raw

(* The rows of transactions that are signed change only by the refund or   *)
(* the completion of one, and the nonce follows.                           *)
LEMMA SignedStep ==
    ASSUME TableInv, Shape
    PROVE  \/ SignedKept /\ UNCHANGED <<balances, credited>>
           \/ \E d \in Deposits : Deposited(d) /\ SignedKept
           \/ \E t \in Txs : Returned(t) /\ SignedLess(t)
           \/ \E t \in Txs \cup {Guard} : Completed(t) /\ SignedMore(t)
<1>0. KeeperTypeOK /\ SignerSigned /\ SignerSigned'
  BY Zenon, SignersStep DEF TableInv
<1>1. /\ \A t \in TxIds : IsPayment(transactions[t].raw)
      /\ \A t \in TxIds : transactions[t].signed \in SUBSET {"holder", "signer", "observer"}
      /\ Txs \subseteq TxIds /\ Guard \in TxIds /\ Closings \subseteq TxIds
  BY Zenon, <1>0, TypesOfRows DEF RowOK
<1>2. ASSUME NEW state, NEW nonce, SafeIs(state, nonce) PROVE safe'.nonce = nonce
  BY Zenon, <1>2 DEF SafeIs
<1>3. ASSUME transactions' = transactions, safe'.nonce = safe.nonce PROVE SignedKept
  BY Zenon, <1>3 DEF SignedKept, Signed, SignedByGroup
<1>4. ASSUME NEW t \in TxIds, NEW row, Writes(t, row), ~SignedByGroup(t), ~SignedByGroup(t)',
             safe'.nonce = safe.nonce
      PROVE  SignedKept
  <2>1. \A u \in TxIds \ {t} : transactions'[u] = transactions[u]
    BY Zenon, <1>4 DEF Writes
  <2>2. \A u \in TxIds : SignedByGroup(u)' <=> SignedByGroup(u)
    BY Zenon, <1>4, <2>1 DEF SignedByGroup
  <2>3. Signed' = Signed
    BY Zenon, <2>2 DEF Signed
  <2>4. \A u \in Signed : transactions'[u] = transactions[u]
    BY Zenon, <1>4, <2>1 DEF Signed
  <2> QED
    BY Zenon, <1>4, <2>3, <2>4 DEF SignedKept
<1>5. ASSUME Quiet PROVE SignedKept /\ UNCHANGED <<balances, credited>>
  BY Zenon, <1>2, <1>3, <1>5 DEF Quiet
<1>6. ASSUME NEW d \in Deposits, Deposited(d) PROVE SignedKept
  BY Zenon, <1>3, <1>6 DEF Deposited, CreateHolderDeposit
<1>7. ASSUME NEW t \in Txs, NEW k \in Tokens, NEW amount \in Amounts, NEW recovery \in BOOLEAN,
             Proposed(t, k, amount, recovery)
      PROVE  SignedKept /\ UNCHANGED <<balances, credited>>
  <2>1. Writes(t, transactions'[t]) /\ transactions'[t].state = "Initial"
    BY <1>0, <1>7, ProposedRow DEF Proposed
  <2>2. /\ transactions[t].state = "none" /\ t \in TxIds
        /\ UNCHANGED <<balances, credited, safe>>
    BY Zenon, <1>1, <1>7 DEF Proposed, ProposeTransaction
  <2>3. ~SignedByGroup(t) /\ ~SignedByGroup(t)'
    BY Zenon, <2>1, <2>2 DEF SignedByGroup
  <2> QED
    BY Zenon, <1>4, <2>1, <2>2, <2>3
<1>8. ASSUME NEW r \in ReqIds, NEW t \in Txs \cup {Guard}, NEW owner \in {"holder", "observer"},
             NEW raw, Asked(r, t, raw, owner)
      PROVE  SignedKept /\ UNCHANGED <<balances, credited>>
  <2>1. /\ t \in TxIds /\ IsPayment(raw) /\ Writes(t, Kept(t, "Pending", raw, {owner}))
        /\ {owner} \in SUBSET {"holder", "signer", "observer"} /\ transactions[t].state # "Done"
    BY Zenon, <1>1, <1>8 DEF Asked, Approvable
  <2>2. transactions'[t].state = "Pending"
    BY Zenon, <1>0, <2>1, KeptRow
  <2>3. ~SignedByGroup(t) /\ ~SignedByGroup(t)'
    BY Zenon, <2>1, <2>2 DEF SignedByGroup
  <2>4. safe'.nonce = safe.nonce /\ UNCHANGED <<balances, credited>>
    BY Zenon, <1>2, <1>8 DEF Asked
  <2> QED
    BY Zenon, <1>4, <2>1, <2>3, <2>4
<1>9. ASSUME NEW t \in Txs, Revoked(t) PROVE SignedKept /\ UNCHANGED <<balances, credited>>
  <2>1. /\ t \in TxIds /\ transactions[t].state = "Initial"
        /\ Writes(t, Kept(t, "Failed", transactions[t].raw, transactions[t].signed))
        /\ UNCHANGED <<balances, credited, safe>>
    BY Zenon, <1>1, <1>9 DEF Revoked
  <2>2. transactions'[t].state = "Failed"
    BY Zenon, <1>0, <1>1, <2>1, KeptRow
  <2>3. ~SignedByGroup(t) /\ ~SignedByGroup(t)'
    BY Zenon, <2>1, <2>2 DEF SignedByGroup
  <2> QED
    BY Zenon, <1>4, <2>1, <2>3
<1>10. ASSUME NEW c \in Closings, Closed(c) PROVE SignedKept /\ UNCHANGED <<balances, credited>>
  <2>1. /\ c \in TxIds /\ transactions[c].state = "none" /\ \E row : Writes(c, row)
        /\ safe'.nonce = safe.nonce /\ UNCHANGED <<balances, credited>>
    BY Zenon, <1>1, <1>2, <1>10 DEF Closed
  <2>2. c \notin Txs \cup {Guard}
    BY Zenon, ConstantsOK
  <2>3. ~SignedByGroup(c) /\ ~SignedByGroup(c)'
    BY Zenon, <1>0, <2>1, <2>2 DEF SignedByGroup, SignerSigned
  <2> QED
    BY Zenon, <1>4, <2>1, <2>3
<1>11. ASSUME NEW t \in Txs, Returned(t) PROVE SignedLess(t)
  <2>1. /\ t \in TxIds /\ transactions[t].state = "Done"
        /\ Writes(t, Kept(t, "Failed", transactions[t].raw, transactions[t].signed))
        /\ safe'.nonce = safe.nonce - 1
    BY Zenon, <1>1, <1>2, <1>11 DEF Returned
  <2>2. transactions'[t].state = "Failed" /\ transactions'[t].raw = transactions[t].raw
    BY Zenon, <1>0, <1>1, <2>1, KeptRow
  <2>3. SignedByGroup(t) /\ ~SignedByGroup(t)'
    BY Zenon, <1>0, <2>1, <2>2 DEF SignedByGroup, SignerSigned
  <2>4. \A u \in TxIds \ {t} : transactions'[u] = transactions[u]
    BY Zenon, <2>1 DEF Writes
  <2>5. \A u \in TxIds \ {t} : SignedByGroup(u)' <=> SignedByGroup(u)
    BY Zenon, <2>4 DEF SignedByGroup
  <2>6. t \in Signed /\ Signed' = Signed \ {t}
    BY Zenon, <2>1, <2>3, <2>5 DEF Signed
  <2> QED
    BY Zenon, <2>1, <2>2, <2>4, <2>6 DEF SignedLess
<1>12. ASSUME NEW t \in Txs \cup {Guard}, Completed(t) PROVE SignedMore(t)
  <2>1. /\ t \in TxIds /\ transactions[t].state = "Pending"
        /\ Writes(t, Kept(t, "Done", transactions[t].raw, transactions[t].signed \cup {"signer"}))
        /\ safe'.nonce = safe.nonce + 1
    BY Zenon, <1>1, <1>2, <1>12 DEF Completed
  <2>2. transactions[t].signed \cup {"signer"} \in SUBSET {"holder", "signer", "observer"}
    BY Zenon, <1>1, <2>1
  <2>3. /\ transactions'[t].state = "Done" /\ transactions'[t].raw = transactions[t].raw
        /\ transactions'[t].signed = transactions[t].signed \cup {"signer"}
    BY SMTT(30), <1>0, <1>1, <2>1, <2>2, KeptRow
  <2>4. ~SignedByGroup(t) /\ SignedByGroup(t)'
    BY Zenon, <2>1, <2>3 DEF SignedByGroup
  <2>5. \A u \in TxIds \ {t} : transactions'[u] = transactions[u]
    BY Zenon, <2>1 DEF Writes
  <2>6. \A u \in TxIds \ {t} : SignedByGroup(u)' <=> SignedByGroup(u)
    BY Zenon, <2>5 DEF SignedByGroup
  <2>7. t \in TxIds \ Signed /\ Signed' = Signed \cup {t}
    BY Zenon, <2>1, <2>4, <2>6 DEF Signed
  <2> QED
    BY Zenon, <2>1, <2>3, <2>5, <2>7 DEF SignedMore
<1> QED
  BY Zenon, <1>5, <1>6, <1>7, <1>8, <1>9, <1>10, <1>11, <1>12 DEF Shape

(* The nonce counts the signed transactions, and is never below zero.      *)
LEMMA NonceStep ==
    ASSUME SumFacts, TableInv, NonceCountsSigned, Shape
    PROVE  NonceCountsSigned' /\ safe'.nonce \in Nat
<1>1. IsFiniteSet(Signed) /\ IsFiniteSet(Signed') /\ safe.nonce = Cardinality(Signed)
  BY Zenon, FiniteSubset, ConstantsOK DEF Signed, NonceCountsSigned
<1>2. Cardinality(Signed) \in Nat /\ Cardinality(Signed') \in Nat
  BY Zenon, <1>1, CountType
<1>3. safe'.nonce = Cardinality(Signed')
  <2>1. ASSUME SignedKept PROVE safe'.nonce = Cardinality(Signed')
    BY Zenon, <1>1, <2>1 DEF SignedKept
  <2>2. ASSUME NEW t \in Txs, SignedLess(t) PROVE safe'.nonce = Cardinality(Signed')
    <3>1. Cardinality(Signed \ {t}) = Cardinality(Signed) - 1
      BY Zenon, <1>1, <2>2, CountRemove DEF SignedLess
    <3> QED
      BY Zenon, <1>1, <2>2, <3>1 DEF SignedLess
  <2>3. ASSUME NEW t \in Txs \cup {Guard}, SignedMore(t) PROVE safe'.nonce = Cardinality(Signed')
    <3>1. Cardinality(Signed \cup {t}) = Cardinality(Signed) + 1
      BY Zenon, <1>1, <2>3, CountAdd DEF SignedMore
    <3> QED
      BY Zenon, <1>1, <2>3, <3>1 DEF SignedMore
  <2> QED
    BY Zenon, <2>1, <2>2, <2>3, SignedStep
<1> QED
  BY Zenon, <1>2, <1>3 DEF NonceCountsSigned, Signed

(* The holders have a natural number of bonds of every token.              *)
LEMMA HeldStep ==
    ASSUME TableInv, Shape
    PROVE  held' \in [Tokens -> Nat]
<1>1. KeeperTypeOK /\ held \in [Tokens -> Nat]
  BY Zenon DEF TableInv, KeeperTypeOK
<1>2. \A t \in Txs : transactions[t].token \in Tokens /\ transactions[t].amount \in Nat
  BY Zenon, <1>1, TypesOfRows DEF RowOK
<1>3. ASSUME NEW k \in Tokens, NEW a \in Nat, held' = [held EXCEPT ![k] = @ + a]
      PROVE  held' \in [Tokens -> Nat]
  BY <1>1, <1>3
<1>4. ASSUME NEW d \in Deposits, Deposited(d) PROVE held' \in [Tokens -> Nat]
  <2>1. DepositToken[d] \in Tokens /\ DepositAmount[d] \in Nat
    BY Zenon, ConstantsOK
  <2> QED
    BY Zenon, <1>3, <1>4, <2>1 DEF Deposited, CreateHolderDeposit
<1>5. ASSUME NEW t \in Txs, NEW k \in Tokens, NEW amount \in Amounts, NEW recovery \in BOOLEAN,
             Proposed(t, k, amount, recovery)
      PROVE  held' \in [Tokens -> Nat]
  <2>1. held' = [held EXCEPT ![k] = @ - amount] /\ amount <= held[k]
    BY Zenon, <1>5 DEF Proposed, ProposeTransaction
  <2>2. amount \in Nat
    BY Zenon, ConstantsOK
  <2> QED
    BY <1>1, <2>1, <2>2
<1>6. ASSUME NEW t \in Txs, Revoked(t) PROVE held' \in [Tokens -> Nat]
  BY Zenon, <1>2, <1>3, <1>6 DEF Revoked
<1>7. ASSUME NEW t \in Txs, Returned(t) PROVE held' \in [Tokens -> Nat]
  <2>1. transactions[t].amount * Unit \in Nat
    BY <1>2, ConstantsOK
  <2> QED
    BY Zenon, <1>2, <1>3, <1>7, <2>1 DEF Returned
<1>8. \/ held' \in [Tokens -> Nat] \/ held' = held
      \/ \E d \in Deposits : Deposited(d)
      \/ \E t \in Txs, k \in Tokens, amount \in Amounts, recovery \in BOOLEAN :
             Proposed(t, k, amount, recovery)
      \/ \E t \in Txs : Revoked(t) \/ Returned(t)
  BY Zenon DEF Shape, Quiet, Asked, Closed, Completed
<1> QED
  BY Zenon, <1>1, <1>4, <1>5, <1>6, <1>7, <1>8

(* The keeper stops at one of its statements.                              *)
LEMMA PanickedStep ==
    ASSUME KeeperTypeOK, [KeeperNext]_keeperVars
    PROVE  panicked' \in {"no", "approve_guard", "approve_failed", "refund_closed",
                          "locked", "close_again", "signature", "balance_row"}
<1>1. \/ panicked' = panicked
      \/ panicked' \in {"approve_guard", "approve_failed", "refund_closed",
                        "locked", "close_again", "signature", "balance_row"}
  <2>1. ASSUME HolderStep PROVE panicked' = panicked
    BY Zenon, <2>1 DEF HolderStep, ProposeTransaction, FailProposal
  <2>2. ASSUME RequestStep
        PROVE  panicked' = panicked \/ panicked' \in {"approve_guard", "approve_failed", "locked", "close_again"}
    BY Zenon, <2>2 DEF RequestStep, CreateHolderDeposit, ApproveAccountUnpaid, ApproveAccount,
                CloseAccountWithSigner, ApproveTransaction, RevokeTransaction, CloseAccountLocked,
                CloseAccountWithHolder, Panic
  <2>3. ASSUME SignerStep PROVE panicked' = panicked \/ panicked' \in {"signature", "balance_row"}
    BY Zenon, <2>3 DEF SignerStep, FinishSignatureRequest, PanicSignature, KeepSignature, FinishSafe,
                FinishTransactionSignatures, Panic
  <2>4. ASSUME NEW t, RefundTransaction(t) PROVE panicked' = panicked \/ panicked' = "refund_closed"
    BY Zenon, <2>4 DEF RefundTransaction, Panic
  <2> QED
    BY Zenon, <2>1, <2>2, <2>3, <2>4 DEF KeeperNext, keeperVars
<1> QED
  BY Zenon, <1>1 DEF KeeperTypeOK

(* One step of the keeper keeps what the tables say.                       *)
LEMMA TableStep ==
    ASSUME SumFacts, TableInv, NonceCountsSigned, [KeeperNext]_keeperVars
    PROVE  TableInv' /\ NonceCountsSigned' /\ Shape
<1>1. Shape
  BY Zenon, StepShapes
<1>2. KeeperTypeOK
  BY Zenon DEF TableInv
<1>3. safe' \in [state: {"none", "Pending", "Approved", "Closed"}, nonce: Nat]
  <2>1. \E s, n : safe' = [state |-> s, nonce |-> n]
    <3>1. safe = [state |-> safe.state, nonce |-> safe.nonce]
      BY Zenon, <1>2, TypesOfRows
    <3> QED
      BY ZenonT(40), <1>1, <3>1 DEF Shape, Quiet, Deposited, CreateHolderDeposit, Proposed,
           ProposeTransaction, Asked, Revoked, Returned, Closed, Completed, SafeIs
  <2>2. safe'.state \in {"none", "Pending", "Approved", "Closed"}
    <3>1. SafeMoves /\ safe.state \in {"none", "Pending", "Approved", "Closed"}
      BY Zenon, <1>1, <1>2, StepMoves, TypesOfRows
    <3> QED
      BY Zenon, <3>1 DEF SafeMoves
  <2>3. safe'.nonce \in Nat
    BY Zenon, <1>1, NonceStep
  <2> QED
    BY Zenon, <2>1, <2>2, <2>3
<1>4. DOMAIN transactions' = TxIds /\ \A u \in TxIds : RowOK(transactions'[u])
  BY Zenon, <1>1, StepMoves
<1>5. \A u \in TxIds : transactions'[u] \in TransactionRow({transactions'[u].raw})
                        /\ IsPayment(transactions'[u].raw)
  BY Zenon, <1>4, RowFields
<1>6. KeeperTypeOK'
  <2>1. IsPayment(balances') /\ credited' \subseteq Deposits
    BY Zenon, <1>1, BalancesStep
  <2>2. /\ job' \in ReqIds \cup {NoJob} /\ DOMAIN signatures' = ReqIds
        /\ \A r \in ReqIds : /\ signatures'[r] \in SignatureRow({signatures'[r].message})
                             /\ IsPayment(signatures'[r].message)
    BY Zenon, <1>1, SignaturesStep
  <2>3. held' \in [Tokens -> Nat]
    BY Zenon, <1>1, HeldStep
  <2> QED
    BY Zenon, <1>2, <1>3, <1>4, <1>5, <2>1, <2>2, <2>3, PanickedStep DEF KeeperTypeOK, IsPayment
<1>7. JobOpen' /\ \A r \in ReqIds : SignatureFollows(r)'
  BY Zenon, <1>1, SignaturesStep
<1>8. SignerSigned' /\ GuardFirst' /\ ClosingsClose' /\ PaysFromRows'
  BY Zenon, <1>1, SignersStep
<1>9. NonceCountsSigned'
  BY Zenon, <1>1, NonceStep
<1> QED
  BY Zenon, <1>1, <1>6, <1>7, <1>8, <1>9 DEF TableInv

(* The tables of an account that was only proposed.                        *)
LEMMA TableInit ==
    ASSUME KeeperInit
    PROVE  TableInv /\ Signed = {} /\ Refunded = {} /\ Unfinished = {Guard}
<1>1. /\ Txs \subseteq TxIds /\ Guard \in TxIds /\ Closings \subseteq TxIds
      /\ Guard \notin Txs /\ Guard \notin Closings
  BY Zenon, ConstantsOK DEF TxIds
<1>2. RowOK(NoTransaction) /\ IsPayment(NoPayment) /\ NoTransaction.state = "none"
      /\ NoTransaction.raw = NoPayment /\ NoTransaction.signed = {}
  BY Zenon, EmptyRow
<1>3. /\ transactions[Guard] = [NoTransaction EXCEPT !.state = "Initial"]
      /\ \A t \in TxIds \ {Guard} : transactions[t] = NoTransaction
      /\ DOMAIN transactions = TxIds
  BY Zenon, <1>1 DEF KeeperInit
<1>4. /\ RowOK(transactions[Guard]) /\ transactions[Guard].state = "Initial"
      /\ transactions[Guard].raw = NoPayment /\ transactions[Guard].signed = {}
  <2> DEFINE n == NoTransaction
             new == [n EXCEPT !.state = "Initial"]
  <2>1. RowOK(n)
    BY Zenon, <1>2
  <2> HIDE DEF n
  <2>2. n = Row(n.state, n.nonce, n.raw, n.signed, n.token, n.amount, n.recovery)
    BY Zenon, <2>1 DEF RowOK
  <2>3. new = Row("Initial", n.nonce, n.raw, n.signed, n.token, n.amount, n.recovery)
    BY <2>2 DEF Row
  <2> HIDE DEF new
  <2>4. RowOK(new)
    BY Zenon, <2>1, <2>3 DEF RowOK, Row
  <2>5. new.state = "Initial" /\ new.raw = n.raw /\ new.signed = n.signed
    BY Zenon, <2>3 DEF Row
  <2> QED
    BY Zenon, <1>2, <1>3, <2>4, <2>5 DEF n, new
<1>5. /\ \A t \in TxIds : RowOK(transactions[t]) /\ transactions[t].signed = {}
      /\ \A t \in TxIds \ {Guard} : transactions[t].state = "none"
  BY Zenon, <1>2, <1>3, <1>4
<1>6. Signed = {} /\ Refunded = {}
  BY Zenon, <1>5 DEF Signed, SignedByGroup, Refunded
<1>7. Unfinished = {Guard}
  BY Zenon, <1>1, <1>4, <1>5 DEF Unfinished
<1>8. ASSUME NEW r \in ReqIds
      PROVE  /\ signatures[r] = NoSignature /\ NoSignature.state = "none" /\ NoSignature.tx = NoTx
             /\ NoSignature.message = NoPayment /\ NoSignature \in SignatureRow({NoPayment})
  <2>1. PICK b \in BOOLEAN : b = FALSE
    BY Zenon
  <2>2. b \in BOOLEAN
    BY Zenon
  <2>3. NoSignature = [state |-> "none", tx |-> NoTx, message |-> NoPayment, at |-> 0, answered |-> b]
    BY Zenon, <2>1 DEF NoSignature
  <2>4. signatures[r] = NoSignature
    BY Zenon DEF KeeperInit
  <2> QED
    BY <2>2, <2>3, <2>4 DEF SignatureRow
<1>9. KeeperTypeOK
  <2>1. \A u \in TxIds : /\ transactions[u] \in TransactionRow({transactions[u].raw})
                         /\ IsPayment(transactions[u].raw)
    BY Zenon, <1>5, RowFields
  <2>2. \A r \in ReqIds : /\ signatures[r] \in SignatureRow({signatures[r].message})
                          /\ IsPayment(signatures[r].message)
    BY Zenon, <1>2, <1>8
  <2>3. /\ safe \in [state: {"none", "Pending", "Approved", "Closed"}, nonce: Nat]
        /\ credited \subseteq Deposits /\ held \in [Tokens -> Nat]
    BY Zenon DEF KeeperInit
  <2>4. DOMAIN signatures = ReqIds /\ job \in ReqIds \cup {NoJob} /\ IsPayment(balances)
    BY Zenon, <1>2 DEF KeeperInit
  <2> QED
    BY Zenon, <1>3, <2>1, <2>2, <2>3, <2>4 DEF KeeperTypeOK, KeeperInit
<1>10. JobOpen /\ \A r \in ReqIds : SignatureFollows(r)
  BY Zenon, <1>8 DEF KeeperInit, JobOpen, SignatureFollows
<1>11. SignerSigned
  BY Zenon, <1>1, <1>4, <1>5 DEF SignerSigned
<1>12. GuardFirst /\ ClosingsClose
  BY Zenon, <1>1, <1>4, <1>5 DEF GuardFirst, ClosingsClose, KeeperInit
<1>13. PaysFromRows
  BY Zenon, <1>6 DEF PaysFromRows
<1> QED
  BY Zenon, <1>6, <1>7, <1>9, <1>10, <1>11, <1>12, <1>13 DEF TableInv

(* No transaction is signed before the guard.                              *)
LEMMA NonceInit ==
    ASSUME SumFacts, KeeperInit
    PROVE  NonceCountsSigned
<1>1. Signed = {}
  BY Zenon, TableInit
<1>2. safe.nonce = 0
  BY Zenon DEF KeeperInit
<1>3. Cardinality(Signed) = 0
  BY Zenon, <1>1, CountEmpty
<1> QED
  BY Zenon, <1>2, <1>3 DEF NonceCountsSigned, Signed

-----------------------------------------------------------------------------

(* The ledger of every token, those without a row included.                *)
LedgerInv == \A k \in Tokens : Balance(k) = DepositsOf(k) - PaidBy(Signed, k)

(* A signature of something else than the proposal, and not the mere       *)
(* request for one, is what takes more than the bonds that came back.      *)
BondsInv ==
    (Refunded = {} /\ \A t \in Txs : SignedByGroup(t) => AsProposed(t)) =>
        \A k \in Tokens : held[k] + Claimed(k) <= Balance(k)

AccountInv == TableInv /\ NonceCountsSigned /\ LedgerInv /\ BondsInv

-----------------------------------------------------------------------------
(* The sums over the tables are sums of natural numbers over finite sets.  *)
LEMMA SumsAreInt ==
    ASSUME SumFacts, TableInv, NEW k \in Tokens
    PROVE  /\ \A t \in TxIds : Pays(t, k) \in Nat
           /\ IsFiniteSet(Signed) /\ PaidBy(Signed, k) \in Int /\ DepositsOf(k) \in Int
           /\ Balance(k) \in Nat
<1>1. KeeperTypeOK
  BY Zenon DEF TableInv
<1>2. \A t \in TxIds : IsPayment(transactions[t].raw)
  BY Zenon, <1>1 DEF KeeperTypeOK
<1>3. \A t \in TxIds : Pays(t, k) \in Nat
  BY Zenon, <1>2 DEF IsPayment, Pays
<1>4. IsFiniteSet(Signed) /\ Signed \subseteq TxIds
  BY Zenon, FiniteSubset, ConstantsOK DEF Signed
<1>5. PaidBy(Signed, k) \in Int
  <2> DEFINE f == [t \in TxIds |-> Pays(t, k)]
  <2>1. \A t \in Signed : f[t] \in Int
    BY <1>3, <1>4
  <2> QED
    BY Zenon, <1>4, <2>1, IntSum DEF PaidBy
<1>6. DepositsOf(k) \in Int
  <2> DEFINE S == {d \in credited : DepositToken[d] = k}
  <2>1. credited \subseteq Deposits
    BY Zenon, <1>1 DEF KeeperTypeOK
  <2>2. IsFiniteSet(S) /\ \A d \in S : DepositAmount[d] \in Int
    BY <2>1, FiniteSubset, ConstantsOK
  <2> QED
    BY Zenon, <2>2, IntSum DEF DepositsOf
<1>7. Balance(k) \in Nat
  BY Zenon, <1>1 DEF KeeperTypeOK, IsPayment, Balance, Rows
<1> QED
  BY Zenon, <1>3, <1>4, <1>5, <1>6, <1>7

(* What is paid out of a token changes with the signed transactions.       *)
LEMMA PaidStep ==
    ASSUME SumFacts, TableInv, TableInv', NEW k \in Tokens
    PROVE  /\ SignedKept => PaidBy(Signed, k)' = PaidBy(Signed, k)
           /\ \A t \in TxIds : SignedLess(t) => PaidBy(Signed, k)' = PaidBy(Signed, k) - Pays(t, k)
           /\ \A t \in TxIds : SignedMore(t) => PaidBy(Signed, k)' = PaidBy(Signed, k) + Pays(t, k)
<1> DEFINE f == [t \in TxIds |-> Pays(t, k)]
           g == [t \in TxIds |-> Pays(t, k)']
<1>1. /\ \A t \in TxIds : f[t] \in Int /\ f[t] = Pays(t, k) /\ Pays(t, k) \in Int
      /\ IsFiniteSet(Signed) /\ Signed \subseteq TxIds
  <2>1. (\A t \in TxIds : Pays(t, k) \in Nat) /\ IsFiniteSet(Signed)
    BY Zenon, SumsAreInt
  <2> QED
    BY <2>1 DEF Signed
<1>2. PaidBy(Signed, k) = SumFunctionOnSet(f, Signed)
  BY Zenon DEF PaidBy
<1>3. PaidBy(Signed, k)' = SumFunctionOnSet(g, Signed')
  BY Zenon DEF PaidBy
<1>4. \A t \in TxIds : g[t] = Pays(t, k)'
  BY Zenon
<1> HIDE DEF f, g
<1>5. ASSUME SignedKept PROVE PaidBy(Signed, k)' = PaidBy(Signed, k)
  <2>1. \A t \in Signed : f[t] = g[t]
    BY Zenon, <1>1, <1>4, <1>5 DEF SignedKept, Pays
  <2>2. SumFunctionOnSet(f, Signed) = SumFunctionOnSet(g, Signed)
    BY Zenon, <1>1, <2>1, SameSum
  <2> QED
    BY Zenon, <1>2, <1>3, <1>5, <2>2 DEF SignedKept
<1>6. ASSUME \A u \in TxIds : transactions'[u].raw = transactions[u].raw,
             NEW S, IsFiniteSet(S), S \subseteq TxIds
      PROVE  SumFunctionOnSet(f, S) = SumFunctionOnSet(g, S)
  <2>1. \A t \in S : f[t] = g[t]
    BY ZenonT(40), <1>1, <1>4, <1>6 DEF Pays
  <2> QED
    BY Zenon, <1>6, <2>1, SameSum
<1>7. ASSUME NEW t \in TxIds, SignedLess(t)
      PROVE  PaidBy(Signed, k)' = PaidBy(Signed, k) - Pays(t, k)
  <2>1. t \in Signed /\ Signed' = Signed \ {t} /\ IsFiniteSet(Signed \ {t}) /\ Signed \ {t} \subseteq TxIds
    BY Zenon, <1>1, <1>7, CountRemove DEF SignedLess
  <2>2. \A u \in Signed : f[u] \in Int
    BY Zenon, <1>1
  <2>3. SumFunctionOnSet(f, Signed) = f[t] + SumFunctionOnSet(f, Signed \ {t})
    BY <1>1, <2>1, <2>2, RemoveSum
  <2>4. SumFunctionOnSet(f, Signed \ {t}) = SumFunctionOnSet(g, Signed \ {t})
    BY Zenon, <1>6, <1>7, <2>1 DEF SignedLess
  <2>5. SumFunctionOnSet(f, Signed \ {t}) \in Int
    BY Zenon, <2>1, <2>2, IntSum
  <2>6. PaidBy(Signed, k)' = SumFunctionOnSet(f, Signed \ {t})
    BY Zenon, <1>3, <2>1, <2>4
  <2> QED
    BY SMTT(30), <1>1, <1>2, <2>3, <2>5, <2>6
<1>8. ASSUME NEW t \in TxIds, SignedMore(t)
      PROVE  PaidBy(Signed, k)' = PaidBy(Signed, k) + Pays(t, k)
  <2>1. /\ t \notin Signed /\ Signed' = Signed \cup {t} /\ IsFiniteSet(Signed \cup {t})
        /\ Signed \cup {t} \subseteq TxIds
    BY Zenon, <1>1, <1>8, CountAdd DEF SignedMore
  <2>2. \A u \in Signed : f[u] \in Int
    BY Zenon, <1>1
  <2>3. SumFunctionOnSet(f, Signed \cup {t}) = SumFunctionOnSet(f, Signed) + f[t]
    BY Zenon, <1>1, <2>1, <2>2, AddSum
  <2>4. SumFunctionOnSet(f, Signed \cup {t}) = SumFunctionOnSet(g, Signed \cup {t})
    BY Zenon, <1>6, <1>8, <2>1 DEF SignedMore
  <2> QED
    BY Zenon, <1>1, <1>2, <1>3, <2>1, <2>3, <2>4
<1> QED
  BY Zenon, <1>5, <1>7, <1>8

(* A deposit adds its amount to the deposits and the balance of its token. *)
LEMMA DepositedSums ==
    ASSUME SumFacts, TableInv, NEW d \in Deposits, CreateHolderDeposit(d), NEW k \in Tokens
    PROVE  LET a == IF DepositToken[d] = k THEN DepositAmount[d] ELSE 0 IN
           /\ DepositsOf(k)' = DepositsOf(k) + a
           /\ Balance(k)' = Balance(k) + a
           /\ held'[k] = held[k] + a
<1> DEFINE a == IF DepositToken[d] = k THEN DepositAmount[d] ELSE 0
<1>1. d \notin credited /\ credited' = credited \cup {d}
      /\ balances' = Credit(DepositToken[d], DepositAmount[d])
      /\ held' = [held EXCEPT ![DepositToken[d]] = @ + DepositAmount[d]]
  BY Zenon DEF CreateHolderDeposit, ReadDeposit
<1>2. DepositToken[d] \in Tokens /\ DepositAmount[d] \in Nat
  BY Zenon, ConstantsOK
<1>3. credited \subseteq Deposits /\ held \in [Tokens -> Nat]
  BY Zenon DEF TableInv, KeeperTypeOK
<1>4. DepositsOf(k)' = DepositsOf(k) + a
  <2> DEFINE S == {e \in credited : DepositToken[e] = k}
             T == {e \in credited' : DepositToken[e] = k}
  <2>1. IsFiniteSet(S) /\ \A e \in S : DepositAmount[e] \in Int
    BY <1>3, FiniteSubset, ConstantsOK
  <2>2. DepositsOf(k) = SumFunctionOnSet(DepositAmount, S)
    BY Zenon DEF DepositsOf
  <2>3. DepositsOf(k)' = SumFunctionOnSet(DepositAmount, T)
    BY Zenon DEF DepositsOf
  <2>4. CASE DepositToken[d] = k
    <3>1. T = S \cup {d} /\ d \notin S /\ DepositAmount[d] \in Int
      BY <1>1, <1>2, <2>4
    <3> HIDE DEF S, T
    <3>2. SumFunctionOnSet(DepositAmount, S \cup {d}) = SumFunctionOnSet(DepositAmount, S) + DepositAmount[d]
      BY Zenon, <2>1, <3>1, AddSum
    <3> QED
      BY Zenon, <2>2, <2>3, <2>4, <3>1, <3>2
  <2>5. CASE DepositToken[d] # k
    <3>1. T = S
      BY Zenon, <1>1, <2>5
    <3> HIDE DEF S, T
    <3>2. SumFunctionOnSet(DepositAmount, S) \in Int
      BY Zenon, <2>1, IntSum
    <3> QED
      BY <2>2, <2>3, <2>5, <3>1, <3>2
  <2> QED
    BY Zenon, <2>4, <2>5
<1>5. Balance(k) \in Nat
  BY Zenon, SumsAreInt
<1>6. Balance(k)' = Balance(k) + a
  <2>1. balances' = [j \in Rows \cup {DepositToken[d]} |->
                       IF j = DepositToken[d] THEN Balance(DepositToken[d]) + DepositAmount[d] ELSE balances[j]]
    BY Zenon, <1>1 DEF Credit
  <2>2. Rows' = Rows \cup {DepositToken[d]}
    BY Zenon, <2>1 DEF Rows
  <2>3. Balance(k)' = IF k \in Rows' THEN balances'[k] ELSE 0
    BY Zenon DEF Balance
  <2>4. CASE DepositToken[d] = k
    <3>1. k \in Rows' /\ balances'[k] = Balance(k) + DepositAmount[d]
      BY Zenon, <2>1, <2>2, <2>4
    <3> QED
      BY Zenon, <2>3, <2>4, <3>1
  <2>5. CASE DepositToken[d] # k
    <3>1. Balance(k)' = Balance(k)
      <4>1. CASE k \in Rows
        BY Zenon, <2>1, <2>2, <2>3, <2>5, <4>1 DEF Balance
      <4>2. CASE k \notin Rows
        BY Zenon, <2>2, <2>3, <2>5, <4>2 DEF Balance
      <4> QED
        BY Zenon, <4>1, <4>2
    <3> QED
      BY <1>5, <2>5, <3>1
  <2> QED
    BY Zenon, <2>4, <2>5
<1>7. held'[k] = held[k] + a
  BY <1>1, <1>2, <1>3
<1> QED
  BY Zenon, <1>4, <1>6, <1>7

(* A transaction that is done is paid out of the balances.                 *)
LEMMA CompletedBalance ==
    ASSUME NEW t, Completed(t), NEW k \in Tokens
    PROVE  Balance(k)' = Balance(k) - Pays(t, k)
<1>1. CASE k \in Rows
  BY Zenon, <1>1 DEF Completed, Balance, Rows
<1>2. CASE k \notin Rows
  <2>1. k \notin DOMAIN transactions[t].raw
    BY Zenon, <1>2 DEF Completed
  <2>2. Pays(t, k) = 0 /\ Balance(k) = 0 /\ Balance(k)' = 0
    BY Zenon, <1>2, <2>1 DEF Completed, Pays, Balance, Rows
  <2> QED
    BY <2>2
<1> QED
  BY Zenon, <1>1, <1>2

(* Every balance stays what was deposited less what is signed away.        *)
LEMMA LedgerStep ==
    ASSUME SumFacts, TableInv, TableInv', LedgerInv, Shape
    PROVE  LedgerInv'
<1> SUFFICES ASSUME NEW k \in Tokens
             PROVE  Balance(k)' = DepositsOf(k)' - PaidBy(Signed, k)'
  BY Zenon DEF LedgerInv
<1>1. /\ Balance(k) = DepositsOf(k) - PaidBy(Signed, k) /\ Balance(k) \in Nat
      /\ DepositsOf(k) \in Int /\ PaidBy(Signed, k) \in Int /\ \A t \in TxIds : Pays(t, k) \in Nat
  BY Zenon, SumsAreInt DEF LedgerInv
<1>2. Txs \cup {Guard} \subseteq TxIds
  BY Zenon DEF TxIds
<1>3. CASE SignedKept /\ UNCHANGED <<balances, credited>>
  <2>1. Balance(k)' = Balance(k) /\ DepositsOf(k)' = DepositsOf(k)
    BY Zenon, <1>3 DEF Balance, Rows, DepositsOf
  <2> QED
    BY Zenon, <1>1, <1>3, <2>1, PaidStep
<1>4. ASSUME NEW d \in Deposits, Deposited(d), SignedKept
      PROVE  Balance(k)' = DepositsOf(k)' - PaidBy(Signed, k)'
  <2>1. PICK a : /\ a = (IF DepositToken[d] = k THEN DepositAmount[d] ELSE 0)
                 /\ DepositsOf(k)' = DepositsOf(k) + a /\ Balance(k)' = Balance(k) + a
    BY Zenon, <1>4, DepositedSums DEF Deposited
  <2>2. a \in Nat
    BY Zenon, <2>1, ConstantsOK
  <2>3. PaidBy(Signed, k)' = PaidBy(Signed, k)
    BY Zenon, <1>4, PaidStep
  <2> QED
    BY <1>1, <2>1, <2>2, <2>3
<1>5. ASSUME NEW t \in Txs, Returned(t), SignedLess(t)
      PROVE  Balance(k)' = DepositsOf(k)' - PaidBy(Signed, k)'
  <2>1. PaidBy(Signed, k)' = PaidBy(Signed, k) - Pays(t, k)
    BY Zenon, <1>2, <1>5, PaidStep
  <2>2. DepositsOf(k)' = DepositsOf(k) /\ balances' = [j \in Rows |-> balances[j] + Pays(t, j)]
    BY Zenon, <1>5 DEF Returned, DepositsOf
  <2>3. Balance(k)' = Balance(k) + Pays(t, k)
    <3>1. CASE k \in Rows
      BY Zenon, <2>2, <3>1 DEF Balance, Rows
    <3>2. CASE k \notin Rows
      <4>1. k \notin DOMAIN transactions[t].raw
        BY Zenon, <1>5, <3>2 DEF TableInv, PaysFromRows, SignedLess
      <4>2. Pays(t, k) = 0 /\ Balance(k) = 0 /\ Balance(k)' = 0
        BY Zenon, <2>2, <3>2, <4>1 DEF Pays, Balance, Rows
      <4> QED
        BY SMTT(30), <4>2
    <3> QED
      BY Zenon, <3>1, <3>2
  <2>4. Pays(t, k) \in Nat
    BY Zenon, <1>1, <1>2
  <2> QED
    BY <1>1, <2>1, <2>2, <2>3, <2>4
<1>6. ASSUME NEW t \in Txs \cup {Guard}, Completed(t), SignedMore(t)
      PROVE  Balance(k)' = DepositsOf(k)' - PaidBy(Signed, k)'
  <2>1. t \in TxIds /\ PaidBy(Signed, k)' = PaidBy(Signed, k) + Pays(t, k)
    BY Zenon, <1>2, <1>6, PaidStep
  <2>2. DepositsOf(k)' = DepositsOf(k)
    BY Zenon, <1>6 DEF Completed, DepositsOf
  <2>3. Balance(k)' = Balance(k) - Pays(t, k)
    BY Zenon, <1>6, CompletedBalance
  <2>4. Pays(t, k) \in Nat
    BY Zenon, <1>1, <2>1
  <2> QED
    BY <1>1, <2>1, <2>2, <2>3, <2>4
<1> QED
  BY Zenon, <1>3, <1>4, <1>5, <1>6, SignedStep

-----------------------------------------------------------------------------
(* What a transaction under way claims stays, is added or is given up.     *)
SameClaim(u) ==
    /\ transactions'[u].token = transactions[u].token
    /\ transactions'[u].amount = transactions[u].amount

ClaimsKept == Unfinished' = Unfinished /\ \A u \in Unfinished : SameClaim(u)

ClaimsMore(t) ==
    /\ t \in TxIds \ Unfinished /\ Unfinished' = Unfinished \cup {t}
    /\ \A u \in Unfinished : SameClaim(u)

ClaimsLess(t) ==
    /\ t \in Unfinished /\ Unfinished' = Unfinished \ {t}
    /\ \A u \in Unfinished : SameClaim(u)

ClaimOf(t, k) == IF transactions[t].token = k THEN transactions[t].amount ELSE 0

(* The bonds that came back follow.                                        *)
LEMMA ClaimedStep ==
    ASSUME SumFacts, TableInv, TableInv', NEW k \in Tokens
    PROVE  /\ Claimed(k) \in Int
           /\ \A t \in TxIds : ClaimOf(t, k) \in Nat /\ ClaimOf(t, k)' \in Nat
           /\ ClaimsKept => Claimed(k)' = Claimed(k)
           /\ \A t \in TxIds : ClaimsMore(t) => Claimed(k)' = Claimed(k) + ClaimOf(t, k)'
           /\ \A t \in TxIds : ClaimsLess(t) => Claimed(k)' = Claimed(k) - ClaimOf(t, k)
<1> DEFINE f == [t \in TxIds |-> transactions[t].amount]
           g == [t \in TxIds |-> transactions'[t].amount]
           S == {t \in Unfinished : transactions[t].token = k}
           T == {t \in Unfinished' : transactions'[t].token = k}
<1>1. /\ \A t \in TxIds : transactions[t].amount \in Nat
      /\ \A t \in TxIds : transactions'[t].amount \in Nat
  <2>1. \A t \in TxIds : RowOK(transactions[t])
    BY Zenon, RowFields DEF TableInv, KeeperTypeOK
  <2>2. \A t \in TxIds : RowOK(transactions'[t])
    BY Zenon, RowFields DEF TableInv, KeeperTypeOK
  <2> QED
    BY Zenon, <2>1, <2>2 DEF RowOK
<1>2. IsFiniteSet(Unfinished) /\ Unfinished \subseteq TxIds
  BY Zenon, FiniteSubset, ConstantsOK DEF Unfinished
<1>3. IsFiniteSet(S) /\ S \subseteq TxIds
  BY Zenon, <1>2, FiniteSubset
<1>4. Claimed(k) = SumFunctionOnSet(f, S) /\ Claimed(k)' = SumFunctionOnSet(g, T)
  BY Zenon DEF Claimed
<1>5. /\ \A t \in TxIds : f[t] \in Int /\ f[t] = transactions[t].amount
      /\ \A t \in TxIds : g[t] \in Int /\ g[t] = transactions'[t].amount
  BY <1>1
<1>6. (\A t \in S : f[t] \in Int) /\ Claimed(k) \in Int
  <2>1. \A t \in S : f[t] \in Int
    BY Zenon, <1>3, <1>5
  <2> HIDE DEF f, S
  <2> QED
    BY Zenon, <1>3, <1>4, <2>1, IntSum
<1>7. ASSUME NEW t \in TxIds PROVE ClaimOf(t, k) \in Nat /\ ClaimOf(t, k)' \in Nat
  BY Zenon, <1>1 DEF ClaimOf
<1>8. ASSUME \A u \in Unfinished : SameClaim(u)
      PROVE  /\ SumFunctionOnSet(f, S) = SumFunctionOnSet(g, S) /\ \A u \in S : g[u] \in Int
             /\ \A u \in Unfinished : u \in S <=> transactions'[u].token = k
  <2>1. \A u \in S : f[u] = g[u] /\ g[u] \in Int
    BY Zenon, <1>2, <1>5, <1>8 DEF SameClaim
  <2>2. \A u \in Unfinished : u \in S <=> transactions'[u].token = k
    BY Zenon, <1>8 DEF SameClaim
  <2> HIDE DEF f, g, S
  <2> QED
    BY ZenonT(40), <1>3, <2>1, <2>2, SameSum
<1>9. ASSUME ClaimsKept PROVE Claimed(k)' = Claimed(k)
  <2>1. T = S
    BY Zenon, <1>8, <1>9 DEF ClaimsKept
  <2> HIDE DEF f, g, S, T
  <2> QED
    BY Zenon, <1>4, <1>8, <1>9, <2>1 DEF ClaimsKept
<1>10. ASSUME NEW t \in TxIds, ClaimsMore(t) PROVE Claimed(k)' = Claimed(k) + ClaimOf(t, k)'
  <2>1. /\ SumFunctionOnSet(f, S) = SumFunctionOnSet(g, S) /\ \A u \in S : g[u] \in Int
        /\ \A u \in Unfinished : u \in S <=> transactions'[u].token = k
    BY Zenon, <1>8, <1>10 DEF ClaimsMore
  <2>2. CASE transactions'[t].token = k
    <3>1. T = S \cup {t} /\ t \notin S
      BY Zenon, <1>10, <2>1, <2>2 DEF ClaimsMore
    <3>2. ClaimOf(t, k)' = g[t] /\ g[t] \in Int
      BY Zenon, <1>5, <2>2 DEF ClaimOf
    <3> HIDE DEF f, g, S, T
    <3>3. SumFunctionOnSet(g, S \cup {t}) = SumFunctionOnSet(g, S) + g[t]
      BY ZenonT(40), <1>3, <2>1, <3>1, <3>2, AddSum
    <3> QED
      BY ZenonT(40), <1>4, <2>1, <3>1, <3>2, <3>3
  <2>3. CASE transactions'[t].token # k
    <3>1. T = S
      BY Zenon, <1>10, <2>1, <2>3 DEF ClaimsMore
    <3>2. ClaimOf(t, k)' = 0
      BY Zenon, <2>3 DEF ClaimOf
    <3> HIDE DEF f, g, S, T
    <3> QED
      BY SMTT(30), <1>4, <1>6, <2>1, <3>1, <3>2
  <2> QED
    BY Zenon, <2>2, <2>3
<1>11. ASSUME NEW t \in TxIds, ClaimsLess(t) PROVE Claimed(k)' = Claimed(k) - ClaimOf(t, k)
  <2>1. /\ SumFunctionOnSet(f, S) = SumFunctionOnSet(g, S) /\ \A u \in S : g[u] \in Int
        /\ \A u \in Unfinished : u \in S <=> transactions'[u].token = k
    BY Zenon, <1>8, <1>11 DEF ClaimsLess
  <2>2. g[t] = f[t]
    BY Zenon, <1>5, <1>11 DEF ClaimsLess, SameClaim
  <2>3. CASE transactions[t].token = k
    <3>1. T = S \ {t} /\ t \in S
      BY Zenon, <1>11, <2>1, <2>3 DEF ClaimsLess
    <3>2. ClaimOf(t, k) = f[t] /\ f[t] \in Int
      BY Zenon, <1>5, <2>3 DEF ClaimOf
    <3> HIDE DEF f, g, S, T
    <3>3. SumFunctionOnSet(g, S) = g[t] + SumFunctionOnSet(g, S \ {t})
      BY <1>3, <2>1, <3>1, RemoveSum
    <3>4. IsFiniteSet(S \ {t}) /\ \A u \in S \ {t} : g[u] \in Int
      BY Zenon, <1>3, <2>1, <3>1, CountRemove
    <3>5. SumFunctionOnSet(g, S \ {t}) \in Int
      BY Zenon, <3>4, IntSum
    <3> QED
      BY SMTT(30), <1>4, <1>6, <2>1, <2>2, <3>1, <3>2, <3>3, <3>5
  <2>4. CASE transactions[t].token # k
    <3>1. T = S
      BY Zenon, <1>11, <2>1, <2>4 DEF ClaimsLess
    <3>2. ClaimOf(t, k) = 0
      BY Zenon, <2>4 DEF ClaimOf
    <3> HIDE DEF f, g, S, T
    <3> QED
      BY SMTT(30), <1>4, <1>6, <2>1, <3>1, <3>2
  <2> QED
    BY Zenon, <2>3, <2>4
<1> QED
  BY Zenon, <1>6, <1>7, <1>9, <1>10, <1>11

(* How the shapes of a step change the claims.                             *)
LEMMA ClaimsStep ==
    ASSUME TableInv
    PROVE  /\ Quiet => ClaimsKept
           /\ \A d \in Deposits : Deposited(d) => ClaimsKept
           /\ \A t \in Txs, k \in Tokens, amount \in Amounts, recovery \in BOOLEAN :
                Proposed(t, k, amount, recovery) => ClaimsMore(t)
           /\ \A r \in ReqIds, t \in Txs \cup {Guard}, owner \in {"holder", "observer"} :
                \A raw : Asked(r, t, raw, owner) => ClaimsKept
           /\ \A t \in Txs : Revoked(t) => ClaimsLess(t)
           /\ \A c \in Closings : Closed(c) /\ transactions'[c].state = "Done" => ClaimsKept
           /\ \A t \in Txs \cup {Guard} : Completed(t) => ClaimsLess(t)
<1>0. KeeperTypeOK
  BY Zenon DEF TableInv
<1>1. /\ \A t \in TxIds : IsPayment(transactions[t].raw)
      /\ \A t \in TxIds : transactions[t].signed \in SUBSET {"holder", "signer", "observer"}
      /\ Txs \subseteq TxIds /\ Guard \in TxIds /\ Closings \subseteq TxIds
  BY Zenon, <1>0, TypesOfRows DEF RowOK
<1>2. ASSUME transactions' = transactions PROVE ClaimsKept
  BY Zenon, <1>2 DEF ClaimsKept, Unfinished, SameClaim
<1>3. ASSUME NEW t \in TxIds, NEW row, Writes(t, row)
      PROVE  /\ \A u \in TxIds \ {t} : SameClaim(u) /\ (u \in Unfinished' <=> u \in Unfinished)
             /\ Unfinished \subseteq TxIds /\ Unfinished' \subseteq TxIds
  <2>1. \A u \in TxIds \ {t} : transactions'[u] = transactions[u]
    BY Zenon, <1>3 DEF Writes
  <2> QED
    BY Zenon, <2>1 DEF SameClaim, Unfinished
<1>4. \A t \in TxIds : (t \in Unfinished <=> transactions[t].state \in {"Initial", "Pending"})
                       /\ (t \in Unfinished' <=> transactions'[t].state \in {"Initial", "Pending"})
  BY Zenon DEF Unfinished
<1>5. ASSUME NEW t \in TxIds, NEW state \in {"none", "Initial", "Pending", "Done", "Failed"}, NEW raw,
             IsPayment(raw), NEW signed \in SUBSET {"holder", "signer", "observer"},
             Writes(t, Kept(t, state, raw, signed)), t \in Unfinished
      PROVE  IF state \in {"Initial", "Pending"} THEN ClaimsKept ELSE ClaimsLess(t)
  <2>1. SameClaim(t) /\ transactions'[t].state = state
    BY Zenon, <1>0, <1>5, KeptRow DEF SameClaim
  <2>2. /\ \A u \in TxIds \ {t} : SameClaim(u) /\ (u \in Unfinished' <=> u \in Unfinished)
        /\ Unfinished \subseteq TxIds /\ Unfinished' \subseteq TxIds
    BY Zenon, <1>3, <1>5
  <2>3. t \in Unfinished' <=> state \in {"Initial", "Pending"}
    BY Zenon, <1>4, <2>1
  <2> QED
    BY SMTT(30), <1>5, <2>1, <2>2, <2>3 DEF ClaimsKept, ClaimsLess
<1>6. ASSUME NEW d \in Deposits, Deposited(d) PROVE ClaimsKept
  BY Zenon, <1>2, <1>6 DEF Deposited, CreateHolderDeposit
<1>7. ASSUME NEW t \in Txs, NEW k \in Tokens, NEW amount \in Amounts, NEW recovery \in BOOLEAN,
             Proposed(t, k, amount, recovery)
      PROVE  ClaimsMore(t)
  <2>1. Writes(t, transactions'[t]) /\ transactions'[t].state = "Initial"
    BY <1>0, <1>7, ProposedRow DEF Proposed
  <2>2. transactions[t].state = "none" /\ t \in TxIds
    BY Zenon, <1>1, <1>7 DEF Proposed, ProposeTransaction
  <2>3. t \in Unfinished' /\ t \notin Unfinished
    BY Zenon, <1>4, <2>1, <2>2
  <2>4. /\ \A u \in TxIds \ {t} : SameClaim(u) /\ (u \in Unfinished' <=> u \in Unfinished)
        /\ Unfinished \subseteq TxIds /\ Unfinished' \subseteq TxIds
    BY Zenon, <1>3, <2>1, <2>2
  <2> QED
    BY Zenon, <2>2, <2>3, <2>4 DEF ClaimsMore
<1>8. ASSUME NEW r \in ReqIds, NEW t \in Txs \cup {Guard}, NEW owner \in {"holder", "observer"},
             NEW raw, Asked(r, t, raw, owner)
      PROVE  ClaimsKept
  <2>1. /\ t \in TxIds /\ IsPayment(raw) /\ Writes(t, Kept(t, "Pending", raw, {owner}))
        /\ {owner} \in SUBSET {"holder", "signer", "observer"} /\ t \in Unfinished
    BY Zenon, <1>1, <1>4, <1>8 DEF Asked, Approvable
  <2> QED
    BY Zenon, <1>5, <2>1
<1>9. ASSUME NEW t \in Txs, Revoked(t) PROVE ClaimsLess(t)
  <2>1. /\ t \in TxIds /\ t \in Unfinished
        /\ Writes(t, Kept(t, "Failed", transactions[t].raw, transactions[t].signed))
    BY Zenon, <1>1, <1>4, <1>9 DEF Revoked
  <2>2. IsPayment(transactions[t].raw) /\ transactions[t].signed \in SUBSET {"holder", "signer", "observer"}
    BY Zenon, <1>1, <2>1
  <2> QED
    BY Zenon, <1>5, <2>1, <2>2
<1>10. ASSUME NEW c \in Closings, Closed(c), transactions'[c].state = "Done" PROVE ClaimsKept
  <2>1. c \in TxIds /\ transactions[c].state = "none" /\ \E row : Writes(c, row)
    BY Zenon, <1>1, <1>10 DEF Closed
  <2>2. c \notin Unfinished /\ c \notin Unfinished'
    BY Zenon, <1>4, <1>10, <2>1
  <2>3. /\ \A u \in TxIds \ {c} : SameClaim(u) /\ (u \in Unfinished' <=> u \in Unfinished)
        /\ Unfinished \subseteq TxIds /\ Unfinished' \subseteq TxIds
    BY ZenonT(40), <1>3, <2>1
  <2> QED
    BY <2>2, <2>3 DEF ClaimsKept
<1>11. ASSUME NEW t \in Txs \cup {Guard}, Completed(t) PROVE ClaimsLess(t)
  <2>1. /\ t \in TxIds /\ t \in Unfinished
        /\ Writes(t, Kept(t, "Done", transactions[t].raw, transactions[t].signed \cup {"signer"}))
    BY Zenon, <1>1, <1>4, <1>11 DEF Completed
  <2>2. IsPayment(transactions[t].raw)
        /\ transactions[t].signed \cup {"signer"} \in SUBSET {"holder", "signer", "observer"}
    BY Zenon, <1>1, <2>1
  <2> QED
    BY Zenon, <1>5, <2>1, <2>2
<1>12. Quiet => ClaimsKept
  BY Zenon, <1>2 DEF Quiet
<1> QED
  BY Zenon, <1>6, <1>7, <1>8, <1>9, <1>10, <1>11, <1>12

(* The bonds stay covered, as long as nothing is refunded and all that is  *)
(* signed is what was proposed.                                            *)
LEMMA BondsStep ==
    ASSUME SumFacts, TableInv, TableInv', BondsInv, Shape
    PROVE  BondsInv'
<1> DEFINE Good == Refunded = {} /\ \A t \in Txs : SignedByGroup(t) => AsProposed(t)
<1> SUFFICES ASSUME Good', NEW k \in Tokens PROVE held'[k] + Claimed(k)' <= Balance(k)'
  BY Zenon DEF BondsInv
<1>0. /\ KeeperTypeOK /\ KeeperTypeOK' /\ SignerSigned /\ SignerSigned'
      /\ held \in [Tokens -> Nat] /\ held' \in [Tokens -> Nat]
  BY Zenon DEF TableInv, KeeperTypeOK
<1>1. /\ Txs \cup {Guard} \subseteq TxIds /\ Closings \subseteq TxIds
      /\ \A u \in TxIds : RowMoves(u)
      /\ \A t \in TxIds : transactions[t].token \in Tokens /\ transactions[t].amount \in Nat
  <2>1. \A u \in TxIds : RowMoves(u)
    BY Zenon, StepMoves
  <2>2. \A t \in TxIds : transactions[t].token \in Tokens /\ transactions[t].amount \in Nat
    BY Zenon, <1>0, TypesOfRows DEF RowOK
  <2> QED
    BY Zenon, <2>1, <2>2 DEF TxIds
<1>2. Good
  <2>1. ASSUME NEW u \in TxIds, u \in Refunded PROVE FALSE
    <3>1. transactions'[u] = transactions[u]
      BY Zenon, <1>1, <2>1 DEF RowMoves, Refunded
    <3> QED
      BY ZenonT(40), <2>1, <3>1 DEF Refunded
  <2>2. ASSUME NEW t \in Txs, SignedByGroup(t), ~AsProposed(t) PROVE FALSE
    <3>1. t \in TxIds /\ RowMoves(t) /\ transactions[t].state = "Done" /\ "signer" \in transactions[t].signed
      BY Zenon, <1>1, <2>2 DEF SignedByGroup
    <3>2. \/ transactions'[t] = transactions[t]
          \/ transactions'[t].state = "Failed" /\ transactions'[t].signed = transactions[t].signed
      BY Zenon, <3>1 DEF RowMoves
    <3>3. transactions'[t].state # "Failed"
      BY Zenon, <3>1, <3>2 DEF Refunded
    <3>4. transactions'[t] = transactions[t]
      BY Zenon, <3>2, <3>3
    <3> QED
      BY Zenon, <2>2, <3>4 DEF SignedByGroup, AsProposed
  <2>3. Refunded \subseteq TxIds
    BY Zenon DEF Refunded
  <2> QED
    BY Zenon, <2>1, <2>2, <2>3
<1>3. held[k] + Claimed(k) <= Balance(k)
  BY Zenon, <1>2 DEF BondsInv
<1>4. /\ held[k] \in Nat /\ held'[k] \in Nat /\ Claimed(k) \in Int /\ Balance(k) \in Nat
      /\ \A t \in TxIds : ClaimOf(t, k) \in Nat /\ ClaimOf(t, k)' \in Nat
  BY Zenon, <1>0, ClaimedStep, SumsAreInt
<1>4a. Refunded' = {} /\ \A t \in Txs : SignedByGroup(t)' => AsProposed(t)'
  BY Zenon
<1>4b. \A t \in TxIds : IsPayment(transactions[t].raw)
                         /\ transactions[t].signed \in SUBSET {"holder", "signer", "observer"}
  BY ZenonT(40), <1>0, TypesOfRows DEF RowOK
<1> HIDE DEF Good
<1>5. ASSUME ClaimsKept, UNCHANGED balances, held'[k] <= held[k]
      PROVE  held'[k] + Claimed(k)' <= Balance(k)'
  <2>1. Claimed(k)' = Claimed(k) /\ Balance(k)' = Balance(k)
    BY Zenon, <1>5, ClaimedStep DEF Balance, Rows
  <2> QED
    BY Zenon, <1>3, <1>4, <1>5, <2>1, StillBacked
<1>6. CASE Quiet
  BY ZenonT(40), <1>5, <1>6, ClaimsStep DEF Quiet
<1>7. ASSUME NEW d \in Deposits, Deposited(d) PROVE held'[k] + Claimed(k)' <= Balance(k)'
  <2>1. PICK a : /\ a = (IF DepositToken[d] = k THEN DepositAmount[d] ELSE 0)
                 /\ Balance(k)' = Balance(k) + a /\ held'[k] = held[k] + a
    BY Zenon, <1>7, DepositedSums DEF Deposited
  <2>2. a \in Nat
    BY Zenon, <2>1, ConstantsOK
  <2>3. Claimed(k)' = Claimed(k)
    BY Zenon, <1>7, ClaimsStep, ClaimedStep
  <2> QED
    <3>1. PICK h, c, b : h = held[k] /\ c = Claimed(k) /\ b = Balance(k)
      BY Zenon
    <3>2. h \in Nat /\ c \in Int /\ b \in Nat /\ h + c <= b
      BY Zenon, <1>3, <1>4, <3>1
    <3>3. held'[k] = h + a /\ Claimed(k)' = c /\ Balance(k)' = b + a
      BY Zenon, <2>1, <2>3, <3>1
    <3> QED
      BY Zenon, <2>2, <3>2, <3>3, StillBacked
<1>8. ASSUME NEW t \in Txs, NEW j \in Tokens, NEW amount \in Amounts, NEW recovery \in BOOLEAN,
             Proposed(t, j, amount, recovery)
      PROVE  held'[k] + Claimed(k)' <= Balance(k)'
  <2>1. transactions'[t].token = j /\ transactions'[t].amount = amount
    <3>1. ProposeTransaction(t, j, amount, recovery) /\ KeeperTypeOK
      BY Zenon, <1>0, <1>8 DEF Proposed
    <3> QED
      BY <3>1, ProposedRow
  <2>2. held' = [held EXCEPT ![j] = @ - amount] /\ balances' = balances
    BY Zenon, <1>8 DEF Proposed, ProposeTransaction
  <2>3. ClaimOf(t, k)' = IF j = k THEN amount ELSE 0
    BY ZenonT(40), <2>1 DEF ClaimOf
  <2>4. t \in TxIds /\ ClaimsMore(t)
    BY Zenon, <1>1, <1>8, ClaimsStep
  <2>5. Claimed(k)' = Claimed(k) + ClaimOf(t, k)' /\ Balance(k)' = Balance(k)
    BY Zenon, <2>2, <2>4, ClaimedStep DEF Balance, Rows
  <2>6. amount \in Nat
    BY Zenon, ConstantsOK
  <2>7. held'[k] = IF j = k THEN held[k] - amount ELSE held[k]
    BY Zenon, <1>0, <2>2
  <2> QED
    <3>1. ClaimOf(t, k)' \in Nat
      BY Zenon, <1>4, <2>4
    <3>2. held'[k] = held[k] - ClaimOf(t, k)' \/ (held'[k] = held[k] /\ ClaimOf(t, k)' = 0)
      <4>1. CASE j = k
        BY Zenon, <2>3, <2>7, <4>1
      <4>2. CASE j # k
        BY Zenon, <2>3, <2>7, <4>2
      <4> QED
        BY Zenon, <4>1, <4>2
    <3> QED
      BY Zenon, <1>3, <1>4, <2>5, <3>1, <3>2, StillBacked
<1>9. ASSUME NEW r \in ReqIds, NEW t \in Txs \cup {Guard}, NEW owner \in {"holder", "observer"},
             NEW raw, Asked(r, t, raw, owner)
      PROVE  held'[k] + Claimed(k)' <= Balance(k)'
  <2>1. ClaimsKept
    BY Zenon, <1>9, ClaimsStep
  <2>2. UNCHANGED balances /\ held'[k] <= held[k]
    <3>1. UNCHANGED <<balances, held>>
      BY Zenon, <1>9 DEF Asked
    <3> QED
      BY Zenon, <1>4, <3>1, NoMore
  <2> QED
    BY ZenonT(40), <1>5, <2>1, <2>2
<1>10. ASSUME NEW t \in Txs, Revoked(t) PROVE held'[k] + Claimed(k)' <= Balance(k)'
  <2>1. t \in TxIds /\ ClaimsLess(t)
    BY Zenon, <1>1, <1>10, ClaimsStep
  <2>2. held' = [held EXCEPT ![transactions[t].token] = @ + transactions[t].amount] /\ balances' = balances
    BY Zenon, <1>10 DEF Revoked
  <2>3. Claimed(k)' = Claimed(k) - ClaimOf(t, k) /\ Balance(k)' = Balance(k)
    BY Zenon, <2>1, <2>2, ClaimedStep DEF Balance, Rows
  <2>4. ClaimOf(t, k) = IF transactions[t].token = k THEN transactions[t].amount ELSE 0
    BY Zenon DEF ClaimOf
  <2>5. held'[k] = held[k] + ClaimOf(t, k)
    BY <1>0, <1>1, <2>1, <2>2, <2>4
  <2> QED
    BY Zenon, <1>3, <1>4, <2>1, <2>3, <2>5, StillBacked
<1>11. ASSUME NEW t \in Txs, Returned(t) PROVE FALSE
  <2>1. /\ transactions[t].state = "Done" /\ t \in TxIds
        /\ Writes(t, Kept(t, "Failed", transactions[t].raw, transactions[t].signed))
    BY Zenon, <1>1, <1>11 DEF Returned
  <2>2. transactions'[t].state = "Failed" /\ transactions'[t].signed = transactions[t].signed
    <3>1. PICK row, new : row = transactions[t] /\ new = transactions'[t]
      BY Zenon
    <3>2. new = Update(row, "Failed", row.raw, row.signed)
      BY Zenon, <2>1, <3>1 DEF Writes, Kept
    <3>3. new.state = "Failed" /\ new.signed = row.signed
      BY Zenon, <3>2 DEF Update, Row
    <3> QED
      BY Zenon, <3>1, <3>3
  <2>3. "signer" \in transactions[t].signed
    BY Zenon, <1>0, <2>1 DEF SignerSigned
  <2>4. t \in Refunded'
    BY Zenon, <2>1, <2>2, <2>3 DEF Refunded
  <2> QED
    BY Zenon, <1>4a, <2>4
<1>12. ASSUME NEW c \in Closings, Closed(c) PROVE held'[k] + Claimed(k)' <= Balance(k)'
  <2>2. transactions'[c].state = "Done" /\ UNCHANGED <<balances, held>>
    <3>1. PICK token \in Tokens, amount \in Nat, recovery \in BOOLEAN :
              Writes(c, Row("Done", safe.nonce, [j \in Rows |-> balances[j]],
                            {"holder", "observer"}, token, amount, recovery))
      BY Zenon, <1>12 DEF Closed
    <3>2. transactions'[c] = Row("Done", safe.nonce, [j \in Rows |-> balances[j]],
                                 {"holder", "observer"}, token, amount, recovery)
      BY ZenonT(40), <3>1 DEF Writes
    <3>3. transactions'[c].state = "Done"
      BY SMTT(30), <3>2, RowState
    <3> QED
      BY Zenon, <1>12, <3>3 DEF Closed
  <2>3. ClaimsKept
    BY Zenon, <1>12, <2>2, ClaimsStep
  <2>4. held'[k] <= held[k]
    BY Zenon, <1>4, <2>2, NoMore
  <2> QED
    BY Zenon, <1>5, <2>2, <2>3, <2>4
<1>13. ASSUME NEW t \in Txs \cup {Guard}, Completed(t) PROVE held'[k] + Claimed(k)' <= Balance(k)'
  <2>1. t \in TxIds /\ ClaimsLess(t)
    BY Zenon, <1>1, <1>13, ClaimsStep
  <2>2. held' = held /\ transactions[t].state = "Pending"
    BY Zenon, <1>13 DEF Completed
  <2>3. Claimed(k)' = Claimed(k) - ClaimOf(t, k)
    BY Zenon, <2>1, ClaimedStep
  <2>4. Balance(k)' = Balance(k) - Pays(t, k) /\ Pays(t, k) \in Nat
    BY Zenon, <1>13, <2>1, CompletedBalance, SumsAreInt
  <2>5. CASE t = Guard
    <3>1. DOMAIN transactions[t].raw = {}
      BY Zenon, <2>5 DEF TableInv, GuardFirst, NoPayment
    <3>2. Pays(t, k) = 0
      BY Zenon, <3>1 DEF Pays
    <3> QED
      BY Zenon, <1>3, <1>4, <2>1, <2>2, <2>3, <2>4, <3>2, StillBacked
  <2>6. CASE t \in Txs
    <3>1. /\ Writes(t, Kept(t, "Done", transactions[t].raw, transactions[t].signed \cup {"signer"}))
          /\ transactions[t].signed \cup {"signer"} \in SUBSET {"holder", "signer", "observer"}
      BY Zenon, <1>4b, <1>13, <2>1 DEF Completed
    <3>2. /\ transactions'[t].state = "Done" /\ transactions'[t].raw = transactions[t].raw
          /\ transactions'[t].signed = transactions[t].signed \cup {"signer"}
          /\ transactions'[t].token = transactions[t].token
          /\ transactions'[t].amount = transactions[t].amount
      <4>1. PICK row, new : row = transactions[t] /\ new = transactions'[t]
        BY Zenon
      <4>2. new = Update(row, "Done", row.raw, row.signed \cup {"signer"})
        BY Zenon, <3>1, <4>1 DEF Writes, Kept
      <4>3. /\ new.state = "Done" /\ new.raw = row.raw /\ new.signed = row.signed \cup {"signer"}
            /\ new.token = row.token /\ new.amount = row.amount
        BY Zenon, <4>2 DEF Update, Row
      <4> QED
        BY Zenon, <4>1, <4>3
    <3>3. SignedByGroup(t)'
      BY Zenon, <3>2 DEF SignedByGroup
    <3>4. transactions'[t].raw = Payment(transactions'[t].token, transactions'[t].amount)
      BY Zenon, <1>4a, <2>6, <3>2, <3>3 DEF AsProposed
    <3>5. transactions[t].raw = [j \in {transactions[t].token} |-> transactions[t].amount]
      BY Zenon, <3>2, <3>4 DEF Payment
    <3>6. Pays(t, k) = ClaimOf(t, k)
      BY Zenon, <3>5 DEF Pays, ClaimOf
    <3> QED
      BY Zenon, <1>3, <1>4, <2>1, <2>2, <2>3, <2>4, <3>6, StillBacked
  <2> QED
    BY ZenonT(40), <2>5, <2>6
<1> QED
  BY Zenon, <1>6, <1>7, <1>8, <1>9, <1>10, <1>11, <1>12, <1>13 DEF Shape

-----------------------------------------------------------------------------
(* A step of the keeper keeps the whole invariant.                         *)
LEMMA AccountStep ==
    ASSUME SumFacts, AccountInv, [KeeperNext]_keeperVars
    PROVE  AccountInv' /\ Shape
<1>1. TableInv /\ NonceCountsSigned /\ LedgerInv /\ BondsInv
  BY Zenon DEF AccountInv
<1>2. TableInv' /\ NonceCountsSigned' /\ Shape
  BY Zenon, <1>1, TableStep
<1>3. LedgerInv'
  BY Zenon, <1>1, <1>2, LedgerStep
<1>4. BondsInv'
  BY Zenon, <1>1, <1>2, BondsStep
<1> QED
  BY Zenon, <1>2, <1>3, <1>4 DEF AccountInv

(* It holds when the account was only proposed.                            *)
LEMMA AccountInit ==
    ASSUME SumFacts, KeeperInit
    PROVE  AccountInv
<1>1. TableInv /\ Signed = {} /\ Refunded = {} /\ Unfinished = {Guard}
  BY Zenon, TableInit
<1>2. NonceCountsSigned
  BY Zenon, NonceInit
<1>3. balances = NoPayment /\ credited = {} /\ held = [k \in Tokens |-> 0]
  BY Zenon DEF KeeperInit
<1>4. \A k \in Tokens : Balance(k) = 0 /\ held[k] = 0
  BY Zenon, <1>3 DEF Balance, Rows, NoPayment
<1>5. LedgerInv
  <2> SUFFICES ASSUME NEW k \in Tokens PROVE Balance(k) = DepositsOf(k) - PaidBy(Signed, k)
    BY Zenon DEF LedgerInv
  <2>1. {d \in credited : DepositToken[d] = k} = {}
    BY Zenon, <1>3
  <2>2. DepositsOf(k) = 0 /\ PaidBy(Signed, k) = 0
    BY Zenon, <1>1, <2>1, EmptySum DEF DepositsOf, PaidBy
  <2> QED
    BY <1>4, <2>2
<1>6. BondsInv
  <2> SUFFICES ASSUME NEW k \in Tokens PROVE Claimed(k) = 0
    BY <1>4 DEF BondsInv
  <2> DEFINE f == [t \in TxIds |-> transactions[t].amount]
             S == {t \in Unfinished : transactions[t].token = k}
  <2>1. f[Guard] = 0 /\ Guard \in TxIds
    <3>1. Guard \in TxIds
      BY Zenon DEF TxIds
    <3>2. transactions[Guard] = [NoTransaction EXCEPT !.state = "Initial"]
      BY Zenon, <3>1 DEF KeeperInit
    <3> DEFINE n == NoTransaction
    <3>3. RowOK(n) /\ n.amount = 0
      BY Zenon, EmptyRow
    <3> HIDE DEF n
    <3>4. [n EXCEPT !.state = "Initial"].amount = n.amount
      <4>1. n = Row(n.state, n.nonce, n.raw, n.signed, n.token, n.amount, n.recovery)
        BY Zenon, <3>3 DEF RowOK
      <4> QED
        BY Zenon, <4>1 DEF Row
    <3>5. transactions[Guard].amount = 0
      BY Zenon, <3>2, <3>3, <3>4 DEF n
    <3> QED
      BY Zenon, <3>1, <3>5
  <2>2. Claimed(k) = SumFunctionOnSet(f, S)
    BY Zenon DEF Claimed
  <2>3. S = {} \/ S = {} \cup {Guard}
    BY Zenon, <1>1
  <2> HIDE DEF f, S
  <2>4. SumFunctionOnSet(f, {}) = 0
    BY Zenon, EmptySum
  <2>5. SumFunctionOnSet(f, {} \cup {Guard}) = SumFunctionOnSet(f, {}) + f[Guard]
    <3>1. IsFiniteSet({}) /\ (\A x \in {} : f[x] \in Int) /\ Guard \notin {} /\ f[Guard] \in Int
      BY <2>1, CountEmpty
    <3> QED
      BY Zenon, <3>1, AddSum
  <2> QED
    BY <2>1, <2>2, <2>3, <2>4, <2>5
<1> QED
  BY Zenon, <1>1, <1>2, <1>5, <1>6 DEF AccountInv

(* What the invariant says of the properties of EthereumKeeper.            *)
LEMMA AccountImplies ==
    ASSUME AccountInv
    PROVE  KeeperTypeOK /\ NonceCountsSigned /\ Ledger /\ BondsBacked
<1>1. /\ TableInv /\ KeeperTypeOK /\ NonceCountsSigned /\ LedgerInv /\ BondsInv
  BY Zenon DEF AccountInv, TableInv
<1>2. \A k \in Rows : k \in Tokens /\ Balance(k) = balances[k]
  BY Zenon, <1>1 DEF KeeperTypeOK, IsPayment, Rows, Balance
<1>3. Ledger
  BY Zenon, <1>1, <1>2 DEF Ledger, LedgerInv, Signed
<1>4. BondsBacked
  <2> SUFFICES ASSUME Refunded = {}, \A t \in Txs : AsProposed(t), NEW k \in Rows
               PROVE  held[k] + Claimed(k) <= balances[k]
    BY Zenon DEF BondsBacked
  <2>1. k \in Tokens /\ Balance(k) = balances[k]
    BY Zenon, <1>2
  <2>2. held[k] + Claimed(k) <= Balance(k)
    BY Zenon, <1>1, <2>1 DEF BondsInv
  <2> QED
    BY Zenon, <2>1, <2>2
<1> QED
  BY Zenon, <1>1, <1>3, <1>4

-----------------------------------------------------------------------------
(* The observer's spend loop and the chain.  A transaction is executed     *)
(* once, because of its nonce; the loop confirms it before it comes back   *)
(* to it, unless it is interrupted or another executed it; and it asks for *)
(* no other refund than of a transaction that it gave up.                  *)
LoopInv ==
    /\ spending.at = "list" => spending = NotSpending
    /\ spending.at \in {"exec", "confirm"} => /\ spending.tx \in Txs
                                              /\ approvals[spending.tx] = "Done"
    /\ spending.at = "refund" => spending.tx \in Txs /\ approvals[spending.tx] = "Failed"

ExecutedInv ==
    /\ \A t \in executed \cap Txs :
        /\ "signer" \in transactions[t].signed
        /\ transactions[t].nonce < chain.nonce
        /\ \/ t \in unconfirmed
           \/ approvals[t] = "Spent"
           \/ spending = [at |-> "confirm", tx |-> t]
    /\ Guard \in executed => transactions[Guard].state = "Done"
    /\ chain.nonce = Cardinality(executed)
    /\ ~chain.guarded => executed = {}

RefundInv ==
    /\ \A t \in refunds : approvals[t] = "Failed"
    /\ Refunded \subseteq refunds
    /\ \A t \in Txs : approvals[t] # "none" => "signer" \in transactions[t].signed

SpendInv == AccountInv /\ SpendTypeOK /\ LoopInv /\ ExecutedInv /\ RefundInv

(* A signature of the signer group stays, and so does the nonce that it is *)
(* for.                                                                    *)
LEMMA SignatureIsKept ==
    ASSUME SumFacts, AccountInv, [KeeperNext]_keeperVars
    PROVE  /\ \A u \in TxIds : "signer" \in transactions[u].signed =>
                /\ "signer" \in transactions'[u].signed
                /\ transactions'[u].nonce = transactions[u].nonce
           /\ transactions[Guard].state = "Done" => transactions'[Guard].state = "Done"
           /\ \A u \in Refunded' \ Refunded :
                transactions[u].state = "Done" /\ transactions'[u].state = "Failed"
<1>1. TableInv /\ Shape
  BY Zenon, AccountStep DEF AccountInv
<1>2. \A u \in TxIds : RowMoves(u)
  BY Zenon, <1>1, StepMoves
<1>3. SignerSigned
  BY Zenon, <1>1 DEF TableInv
<1>4. ASSUME NEW u \in TxIds, "signer" \in transactions[u].signed
      PROVE  /\ "signer" \in transactions'[u].signed
             /\ transactions'[u].nonce = transactions[u].nonce
  <2>1. RowMoves(u)
    BY Zenon, <1>2
  <2> QED
    BY Zenon, <1>3, <1>4, <2>1 DEF RowMoves, SignerSigned
<1>5. Guard \in TxIds /\ Guard \notin Txs
  BY Zenon, ConstantsOK DEF TxIds
<1>6. transactions[Guard].state = "Done" => transactions'[Guard].state = "Done"
  <2>1. RowMoves(Guard)
    BY ZenonT(40), <1>2, <1>5
  <2> QED
    BY Zenon, <1>5, <2>1 DEF RowMoves
<1>7. ASSUME NEW u \in Refunded' \ Refunded
      PROVE  transactions[u].state = "Done" /\ transactions'[u].state = "Failed"
  <2>1. u \in TxIds /\ transactions'[u].state = "Failed" /\ "signer" \in transactions'[u].signed
    BY Zenon DEF Refunded
  <2>2. transactions'[u] # transactions[u]
    BY Zenon, <2>1 DEF Refunded
  <2>3. RowMoves(u)
    BY Zenon, <1>2, <2>1
  <2> QED
    BY Zenon, <1>3, <2>1, <2>2, <2>3 DEF RowMoves, SignerSigned
<1> QED
  BY Zenon, <1>4, <1>6, <1>7

(* Only a refund of the keeper takes a transaction from done to failed.    *)
LEMMA OnlyRefunds ==
    ASSUME AccountInv, NEW u \in TxIds, transactions[u].state = "Done", transactions'[u].state = "Failed"
    PROVE  /\ ~KeeperStep
           /\ \A t \in TxIds : RefundTransaction(t) => u = t
<1>1. DOMAIN transactions = TxIds /\ KeeperTypeOK /\ TableInv /\ \A t \in TxIds : RowOK(transactions[t])
  BY Zenon, TypesOfRows DEF AccountInv, TableInv, KeeperTypeOK
<1>2. transactions' # transactions
  BY Zenon
<1>3. ASSUME NEW t, NEW row, transactions' = [transactions EXCEPT ![t] = row] PROVE u = t
  BY Zenon, <1>1, <1>3
<1>4. ASSUME NEW t \in TxIds, RefundTransaction(t) PROVE u = t
  <2>1. \/ transactions' = [transactions EXCEPT ![t] = [transactions[t] EXCEPT !.state = "Failed"]]
        \/ transactions' = transactions
    BY Zenon, <1>4 DEF RefundTransaction, Panic
  <2> QED
    BY Zenon, <1>2, <1>3, <2>1
<1>5. ASSUME NEW r, NEW t, NEW raw, NEW owner, WriteSignatureRequests(r, t, raw, owner), Approvable(t)
      PROVE  FALSE
  <2>1. u = t
    BY Zenon, <1>3, <1>5 DEF WriteSignatureRequests
  <2> QED
    BY Zenon, <1>5, <2>1 DEF Approvable
<1>6. ASSUME NEW t, TransactionDone(t) PROVE FALSE
  <2>1. u = t
    BY Zenon, <1>3, <1>6 DEF TransactionDone
  <2>2. Writes(t, Kept(t, "Done", transactions[t].raw, transactions[t].signed \cup {"signer"}))
    BY Zenon, <1>1, <1>6, <2>1, RowWritten DEF TransactionDone
  <2>3. transactions'[t] = Update(transactions[t], "Done", transactions[t].raw,
                                  transactions[t].signed \cup {"signer"})
    BY Zenon, <2>2 DEF Writes, Kept
  <2>4. transactions'[t].state = "Done"
    BY <2>3, RowState DEF Update
  <2> QED
    BY Zenon, <2>1, <2>4
<1>7. ASSUME KeeperStep PROVE FALSE
  <2>1. ASSUME SignerStep PROVE FALSE
    BY Zenon, <1>2, <1>6, <2>1 DEF SignerStep, FinishSignatureRequest, PanicSignature, KeepSignature,
         FinishSafe, FinishTransactionSignatures, Panic
  <2>2. ASSUME NEW t \in Txs, NEW k \in Tokens, NEW amount \in Amounts,
               ProposeTransaction(t, k, amount, FALSE)
        PROVE  FALSE
    <3>1. u = t /\ transactions[t].state = "none"
      BY Zenon, <1>3, <2>2 DEF ProposeTransaction
    <3> QED
      BY Zenon, <3>1
  <2>3. ASSUME NEW d \in Deposits, CreateHolderDeposit(d) PROVE FALSE
    BY Zenon, <1>2, <2>3 DEF CreateHolderDeposit
  <2>4. ASSUME NEW r \in ReqIds, ApproveAccount(r) PROVE FALSE
    BY Zenon, <1>2, <1>5, <2>4 DEF ApproveAccount, Panic
  <2>5. ASSUME NEW r \in ReqIds, NEW t \in Txs, ApproveTransaction(r, t, transactions[t].raw) PROVE FALSE
    BY Zenon, <1>2, <1>5, <2>5 DEF ApproveTransaction, Panic
  <2>6. ASSUME NEW t \in Txs, RevokeTransaction(t) PROVE FALSE
    <3>1. transactions' = [transactions EXCEPT ![t] = [transactions[t] EXCEPT !.state = "Failed"]]
      BY Zenon, <2>6 DEF RevokeTransaction
    <3>2. u = t
      BY Zenon, <1>3, <3>1
    <3> QED
      BY Zenon, <2>6, <3>2 DEF RevokeTransaction, Revocable
  <2> QED
    BY Zenon, <1>7, <2>1, <2>2, <2>3, <2>4, <2>5, <2>6 DEF KeeperStep
<1> QED
  BY Zenon, <1>4, <1>7

(* A step of the keeper leaves the observer and the chain alone.           *)
LEMMA KeeperSpends ==
    ASSUME SumFacts, SpendInv, KeeperStep \/ KeeperRefund
    PROVE  SpendInv'
<1>1. KeeperNext /\ UNCHANGED spendVars
  <2>1. ASSUME KeeperStep PROVE KeeperNext
    <3>1. \A t \in Txs, k \in Tokens, amount \in Amounts :
             ProposeTransaction(t, k, amount, FALSE) => HolderStep
      BY Zenon DEF HolderStep
    <3>2. \A r \in ReqIds, t \in Txs : ApproveTransaction(r, t, transactions[t].raw) => RequestStep
      BY Zenon DEF RequestStep
    <3>3. /\ \A d \in Deposits : CreateHolderDeposit(d) => RequestStep
          /\ \A r \in ReqIds : ApproveAccount(r) => RequestStep
          /\ \A t \in Txs : RevokeTransaction(t) => RequestStep
      BY Zenon DEF RequestStep
    <3> QED
      BY Zenon, <2>1, <3>1, <3>2, <3>3 DEF KeeperStep, KeeperNext
  <2>2. ASSUME KeeperRefund PROVE KeeperNext
    BY Zenon, <2>2 DEF KeeperRefund, KeeperNext, SpendInv, SpendTypeOK
  <2> QED
    BY Zenon, <2>1, <2>2 DEF KeeperStep, KeeperRefund
<1>2. AccountInv /\ AccountInv'
  BY Zenon, <1>1, AccountStep DEF SpendInv
<1>3. /\ UNCHANGED <<approvals, spending, refunds, chain, executed, crashes, unconfirmed, reverted>>
      /\ SpendTypeOK /\ LoopInv /\ ExecutedInv /\ RefundInv
  BY Zenon, <1>1 DEF spendVars, SpendInv
<1>4. SpendTypeOK' /\ LoopInv'
  <2>1. KeeperTypeOK'
    BY Zenon, <1>2 DEF AccountInv, TableInv
  <2> QED
    BY Zenon, <1>3, <2>1 DEF SpendTypeOK, LoopInv, NotSpending
<1>5. /\ \A u \in TxIds : "signer" \in transactions[u].signed =>
           /\ "signer" \in transactions'[u].signed
           /\ transactions'[u].nonce = transactions[u].nonce
      /\ transactions[Guard].state = "Done" => transactions'[Guard].state = "Done"
      /\ Txs \subseteq TxIds
  BY ZenonT(40), <1>1, <1>2, SignatureIsKept, TypesOfRows DEF AccountInv, TableInv
<1>6. ExecutedInv'
  BY Zenon, <1>3, <1>5 DEF ExecutedInv
<1>7. Refunded' \subseteq refunds
  <2> SUFFICES ASSUME NEW u \in Refunded' \ Refunded PROVE u \in refunds
    BY Zenon, <1>3 DEF RefundInv
  <2>1. u \in TxIds /\ transactions[u].state = "Done" /\ transactions'[u].state = "Failed"
    BY Zenon, <1>1, <1>2, SignatureIsKept DEF Refunded
  <2>2. KeeperRefund
    BY ZenonT(40), <1>2, <2>1, OnlyRefunds
  <2> QED
    <3>1. PICK t \in refunds : RefundTransaction(t)
      BY Zenon, <2>2 DEF KeeperRefund
    <3>2. t \in TxIds
      BY Zenon, <1>3, <1>5 DEF SpendTypeOK
    <3>3. u = t
      BY Zenon, <1>2, <2>1, <3>1, <3>2, OnlyRefunds
    <3> QED
      BY Zenon, <3>3
<1>8. RefundInv'
  BY Zenon, <1>3, <1>5, <1>7 DEF RefundInv
<1> QED
  BY Zenon, <1>2, <1>4, <1>6, <1>8 DEF SpendInv

(* A step of the observer or of the chain keeps what the keeper's tables   *)
(* say.                                                                    *)
LEMMA KeeperRests ==
    ASSUME SumFacts, SpendInv, UNCHANGED keeperVars
    PROVE  /\ AccountInv' /\ KeeperTypeOK' /\ transactions' = transactions
           /\ Refunded' = Refunded
<1>1. AccountInv'
  BY Zenon, AccountStep DEF SpendInv
<1>2. transactions' = transactions
  BY Zenon DEF keeperVars
<1> QED
  BY Zenon, <1>1, <1>2 DEF AccountInv, TableInv, Refunded

(* The steps of the loop that change the observer's row of a transaction.  *)
LEMMA ApprovalSpends ==
    ASSUME SumFacts, SpendInv, NEW t \in Txs,
           \/ KeeperVerifyEthereumTransactionSignatures(t)
           \/ RefundFullySignedTransactionApproval(t)
           \/ RefundOnError(t)
    PROVE  SpendInv'
<1>1. UNCHANGED <<keeperVars, refunds, chain, executed, unconfirmed, reverted>>
  BY Zenon DEF KeeperVerifyEthereumTransactionSignatures, RefundFullySignedTransactionApproval,
       RefundOnError
<1>2. /\ AccountInv' /\ KeeperTypeOK' /\ transactions' = transactions /\ Refunded' = Refunded
  BY Zenon, <1>1, KeeperRests
<1>3. SpendTypeOK /\ LoopInv /\ ExecutedInv /\ RefundInv
  BY Zenon DEF SpendInv
<1>4. approvals \in [Txs -> {"none", "Done", "Spent", "Failed"}] /\ refunds \subseteq Txs
      /\ crashes \in 0..MaxCrashes /\ MaxCrashes \in Nat
  BY Zenon, <1>3, SpendConstantsOK DEF SpendTypeOK
<1>5. CASE KeeperVerifyEthereumTransactionSignatures(t)
  <2>1. /\ "signer" \in transactions[t].signed /\ approvals[t] = "none"
        /\ approvals' = [approvals EXCEPT ![t] = "Done"] /\ UNCHANGED <<spending, crashes>>
    BY Zenon, <1>5 DEF KeeperVerifyEthereumTransactionSignatures, NotYetDone
  <2>2. /\ \A u \in Txs \ {t} : approvals'[u] = approvals[u]
        /\ approvals'[t] = "Done" /\ approvals' \in [Txs -> {"none", "Done", "Spent", "Failed"}]
    BY Zenon, <1>4, <2>1
  <2>3. SpendTypeOK'
    BY ZenonT(40), <1>1, <1>2, <1>3, <2>1, <2>2 DEF SpendTypeOK
  <2>4. LoopInv'
    BY ZenonT(40), <1>1, <1>3, <2>1, <2>2 DEF LoopInv, NotSpending
  <2>5. ASSUME NEW u \in executed \cap Txs, spending = [at |-> "confirm", tx |-> u] PROVE u # t
    <3>1. spending.at = "confirm" /\ spending.tx = u
      BY Zenon, <2>5
    <3>2. approvals[u] = "Done"
      BY ZenonT(40), <1>3, <3>1 DEF LoopInv
    <3> QED
      BY Zenon, <2>1, <3>2
  <2>6. ExecutedInv'
    <3>1. ASSUME NEW u \in executed \cap Txs
          PROVE  \/ u \in unconfirmed \/ approvals'[u] = "Spent"
                 \/ spending = [at |-> "confirm", tx |-> u]
      <4>1. approvals[u] = "Spent" => u # t
        BY Zenon, <2>1
      <4> QED
        BY Zenon, <1>3, <2>2, <4>1 DEF ExecutedInv
    <3> QED
      BY Zenon, <1>1, <1>2, <1>3, <2>1, <3>1 DEF ExecutedInv
  <2>7. RefundInv'
    BY Zenon, <1>1, <1>2, <1>3, <1>4, <2>1, <2>2 DEF RefundInv
  <2> QED
    BY Zenon, <1>2, <2>3, <2>4, <2>6, <2>7 DEF SpendInv
<1>6. CASE StartRefund(t) /\ crashes' \in 0..MaxCrashes
  <2>1. /\ spending = NotSpending /\ approvals[t] = "Done"
        /\ approvals' = [approvals EXCEPT ![t] = "Failed"] /\ spending' = [at |-> "refund", tx |-> t]
    BY Zenon, <1>6 DEF StartRefund
  <2>2. /\ \A u \in Txs \ {t} : approvals'[u] = approvals[u]
        /\ approvals'[t] = "Failed" /\ approvals' \in [Txs -> {"none", "Done", "Spent", "Failed"}]
    BY Zenon, <1>4, <2>1
  <2>3. spending' \in [at: {"list", "refund", "exec", "confirm"}, tx: Txs \cup {NoTx}]
        /\ spending'.at = "refund" /\ spending'.tx = t /\ spending.at = "list"
    BY Zenon, <2>1 DEF NotSpending
  <2>4. SpendTypeOK'
    BY ZenonT(40), <1>1, <1>2, <1>3, <1>6, <2>2, <2>3 DEF SpendTypeOK
  <2>5. LoopInv'
    BY Zenon, <2>2, <2>3 DEF LoopInv
  <2>6. \A u : spending # [at |-> "confirm", tx |-> u]
    BY SMTT(30), <2>3
  <2>7. ExecutedInv'
    <3>1. ASSUME NEW u \in executed \cap Txs
          PROVE  u \in unconfirmed \/ approvals'[u] = "Spent"
      <4>1. approvals[u] = "Spent" => u # t
        BY Zenon, <2>1
      <4> QED
        BY Zenon, <1>3, <2>2, <2>6, <4>1 DEF ExecutedInv
    <3> QED
      BY Zenon, <1>1, <1>2, <1>3, <3>1 DEF ExecutedInv
  <2>8. RefundInv'
    BY Zenon, <1>1, <1>2, <1>3, <1>4, <2>1, <2>2 DEF RefundInv
  <2> QED
    BY Zenon, <1>2, <2>4, <2>5, <2>7, <2>8 DEF SpendInv
<1>7. ASSUME RefundFullySignedTransactionApproval(t) \/ RefundOnError(t)
      PROVE  StartRefund(t) /\ crashes' \in 0..MaxCrashes
  <2>1. StartRefund(t) /\ (crashes' = crashes \/ (crashes < MaxCrashes /\ crashes' = crashes + 1))
    BY Zenon, <1>7 DEF RefundFullySignedTransactionApproval, RefundOnError
  <2> QED
    BY <1>4, <2>1
<1> QED
  BY Zenon, <1>5, <1>6, <1>7

(* The steps that end a turn of the loop.                                  *)
LEMMA LoopSpends ==
    ASSUME SumFacts, SpendInv,
           SendRefund \/ ConfirmFullySignedTransactionApproval \/ Interrupt \/ ExecRefused
    PROVE  SpendInv'
<1>1. UNCHANGED <<keeperVars, chain, executed, reverted>> /\ spending' = NotSpending
  BY Zenon DEF SendRefund, ConfirmFullySignedTransactionApproval, Interrupt, ExecRefused
<1>2. /\ AccountInv' /\ KeeperTypeOK' /\ transactions' = transactions /\ Refunded' = Refunded
  BY Zenon, <1>1, KeeperRests
<1>3. SpendTypeOK /\ LoopInv /\ ExecutedInv /\ RefundInv
  BY Zenon DEF SpendInv
<1>4. /\ approvals \in [Txs -> {"none", "Done", "Spent", "Failed"}] /\ refunds \subseteq Txs
      /\ spending \in [at: {"list", "refund", "exec", "confirm"}, tx: Txs \cup {NoTx}]
      /\ crashes \in 0..MaxCrashes /\ MaxCrashes \in Nat /\ unconfirmed \subseteq executed
  BY ZenonT(40), <1>3, SpendConstantsOK DEF SpendTypeOK
<1>5. /\ spending' \in [at: {"list", "refund", "exec", "confirm"}, tx: Txs \cup {NoTx}]
      /\ spending'.at = "list" /\ LoopInv'
  BY Zenon, <1>1 DEF NotSpending, LoopInv
<1>6. CASE SendRefund
  <2>1. /\ spending.at = "refund" /\ refunds' = refunds \cup {spending.tx}
        /\ UNCHANGED <<approvals, crashes, unconfirmed>>
    BY Zenon, <1>6 DEF SendRefund
  <2>2. spending.tx \in Txs /\ approvals[spending.tx] = "Failed"
    BY Zenon, <1>3, <2>1 DEF LoopInv
  <2>3. refunds' \subseteq Txs
    BY Zenon, <1>4, <2>1, <2>2
  <2>4. SpendTypeOK'
    BY Zenon, <1>1, <1>2, <1>3, <1>5, <2>1, <2>3 DEF SpendTypeOK
  <2>5. \A u : spending # [at |-> "confirm", tx |-> u]
    BY SMTT(30), <2>1
  <2>6. ExecutedInv'
    BY Zenon, <1>1, <1>2, <1>3, <2>1, <2>5 DEF ExecutedInv
  <2>7. RefundInv'
    BY Zenon, <1>2, <1>3, <2>1, <2>2 DEF RefundInv
  <2> QED
    BY Zenon, <1>2, <1>5, <2>4, <2>6, <2>7 DEF SpendInv
<1>7. CASE ConfirmFullySignedTransactionApproval
  <2>1. /\ spending.at = "confirm" /\ approvals' = [approvals EXCEPT ![spending.tx] = "Spent"]
        /\ UNCHANGED <<refunds, crashes, unconfirmed>>
    BY Zenon, <1>7 DEF ConfirmFullySignedTransactionApproval
  <2>2. spending.tx \in Txs /\ approvals[spending.tx] = "Done"
    BY Zenon, <1>3, <2>1 DEF LoopInv
  <2>3. /\ \A u \in Txs \ {spending.tx} : approvals'[u] = approvals[u]
        /\ approvals'[spending.tx] = "Spent" /\ approvals' \in [Txs -> {"none", "Done", "Spent", "Failed"}]
    BY Zenon, <1>4, <2>1, <2>2
  <2>4. SpendTypeOK'
    BY ZenonT(40), <1>1, <1>2, <1>3, <1>5, <2>1, <2>3 DEF SpendTypeOK
  <2>5. \A u \in Txs \ {spending.tx} : spending # [at |-> "confirm", tx |-> u]
    BY SMTT(30)
  <2>6. ExecutedInv'
    BY Zenon, <1>1, <1>2, <1>3, <2>1, <2>3, <2>5 DEF ExecutedInv
  <2>7. RefundInv'
    BY Zenon, <1>2, <1>3, <1>4, <2>1, <2>2, <2>3 DEF RefundInv
  <2> QED
    BY Zenon, <1>2, <1>5, <2>4, <2>6, <2>7 DEF SpendInv
<1>8. CASE Interrupt
  <2>1. /\ crashes < MaxCrashes /\ crashes' = crashes + 1 /\ UNCHANGED <<approvals, refunds>>
        /\ unconfirmed' = IF spending.at = "confirm"
                            THEN unconfirmed \cup ({spending.tx} \cap executed) ELSE unconfirmed
    BY Zenon, <1>8 DEF Interrupt
  <2>2. crashes' \in 0..MaxCrashes
    BY <1>4, <2>1
  <2>4. unconfirmed' \subseteq executed /\ unconfirmed \subseteq unconfirmed'
    BY Zenon, <1>4, <2>1
  <2>5. SpendTypeOK'
    BY Zenon, <1>1, <1>2, <1>3, <1>5, <2>1, <2>2, <2>4 DEF SpendTypeOK
  <2>6. \A u \in executed : spending = [at |-> "confirm", tx |-> u] => u \in unconfirmed'
    BY SMTT(30), <2>1
  <2>7. ExecutedInv'
    BY Zenon, <1>1, <1>2, <1>3, <2>1, <2>4, <2>6 DEF ExecutedInv
  <2>8. RefundInv'
    BY Zenon, <1>2, <1>3, <2>1 DEF RefundInv
  <2> QED
    BY Zenon, <1>2, <1>5, <2>5, <2>7, <2>8 DEF SpendInv
<1>9. CASE ExecRefused
  <2>1. spending.at = "exec" /\ UNCHANGED <<approvals, refunds, crashes, unconfirmed>>
    BY Zenon, <1>9 DEF ExecRefused
  <2>2. SpendTypeOK'
    BY Zenon, <1>1, <1>2, <1>3, <1>5, <2>1 DEF SpendTypeOK
  <2>3. \A u : spending # [at |-> "confirm", tx |-> u]
    BY SMTT(30), <2>1
  <2>4. ExecutedInv'
    BY Zenon, <1>1, <1>2, <1>3, <2>1, <2>3 DEF ExecutedInv
  <2>5. RefundInv'
    BY Zenon, <1>2, <1>3, <2>1 DEF RefundInv
  <2> QED
    BY Zenon, <1>2, <1>5, <2>2, <2>4, <2>5 DEF SpendInv
<1> QED
  BY Zenon, <1>6, <1>7, <1>8, <1>9

(* The steps that send a transaction and find it reverted.                 *)
LEMMA CallSpends ==
    ASSUME SumFacts, SpendInv, ExecReverted \/ \E t \in Txs : StartExec(t)
    PROVE  SpendInv'
<1>1. UNCHANGED <<keeperVars, approvals, refunds, chain, executed, crashes, unconfirmed>>
  BY Zenon DEF ExecReverted, StartExec
<1>2. /\ AccountInv' /\ KeeperTypeOK' /\ transactions' = transactions /\ Refunded' = Refunded
  BY Zenon, <1>1, KeeperRests
<1>3. SpendTypeOK /\ LoopInv /\ ExecutedInv /\ RefundInv
  BY Zenon DEF SpendInv
<1>4. spending \in [at: {"list", "refund", "exec", "confirm"}, tx: Txs \cup {NoTx}] /\ reverted \subseteq Txs
  BY Zenon, <1>3 DEF SpendTypeOK
<1>5. PICK t \in Txs, at \in {"exec", "confirm"} :
          /\ spending.at # "confirm" /\ spending' = [at |-> at, tx |-> t]
          /\ approvals[t] = "Done" /\ reverted' \subseteq Txs
  <2>1. CASE ExecReverted
    <3>1. /\ spending.at = "exec" /\ spending' = [spending EXCEPT !.at = "confirm"]
          /\ reverted' = reverted \cup {spending.tx}
      BY Zenon, <2>1 DEF ExecReverted
    <3>2. spending.tx \in Txs /\ approvals[spending.tx] = "Done"
      BY Zenon, <1>3, <3>1 DEF LoopInv
    <3>3. spending' = [at |-> "confirm", tx |-> spending.tx]
      BY SMTT(30), <1>4, <3>1
    <3> QED
      BY Zenon, <1>4, <3>1, <3>2, <3>3
  <2>2. CASE \E t \in Txs : StartExec(t)
    <3>1. PICK t \in Txs : StartExec(t)
      BY Zenon, <2>2
    <3>2. /\ spending = NotSpending /\ approvals[t] = "Done" /\ reverted' = reverted
          /\ spending' = [at |-> "exec", tx |-> t]
      BY Zenon, <3>1 DEF StartExec
    <3>3. spending.at = "list"
      BY Zenon, <3>2 DEF NotSpending
    <3> QED
      BY Zenon, <1>4, <3>2, <3>3
  <2> QED
    BY Zenon, <2>1, <2>2
<1>6. /\ spending' \in [at: {"list", "refund", "exec", "confirm"}, tx: Txs \cup {NoTx}]
      /\ spending'.at = at /\ spending'.tx = t
  BY Zenon, <1>5
<1>7. SpendTypeOK'
  BY Zenon, <1>1, <1>2, <1>3, <1>5, <1>6 DEF SpendTypeOK
<1>8. LoopInv'
  BY Zenon, <1>1, <1>5, <1>6 DEF LoopInv
<1>9. \A u : spending # [at |-> "confirm", tx |-> u]
  BY SMTT(30), <1>5
<1>10. ExecutedInv'
  BY Zenon, <1>1, <1>2, <1>3, <1>9 DEF ExecutedInv
<1>11. RefundInv'
  BY Zenon, <1>1, <1>2, <1>3 DEF RefundInv
<1> QED
  BY Zenon, <1>2, <1>7, <1>8, <1>10, <1>11 DEF SpendInv

(* The chain executes a transaction of its next nonce, which is none that  *)
(* it executed before.                                                     *)
LEMMA ChainSpends ==
    ASSUME SumFacts, SpendInv,
           \/ DeployEthereumGnosisSafeAccount
           \/ ExecTransaction
           \/ \E t \in Txs : ExecPublished(t)
    PROVE  SpendInv'
<1>1. UNCHANGED <<keeperVars, approvals, refunds, crashes, reverted>>
  BY Zenon DEF DeployEthereumGnosisSafeAccount, ExecTransaction, ExecPublished
<1>2. /\ AccountInv' /\ KeeperTypeOK' /\ transactions' = transactions /\ Refunded' = Refunded
  BY Zenon, <1>1, KeeperRests
<1>3. SpendTypeOK /\ LoopInv /\ ExecutedInv /\ RefundInv /\ TableInv
  BY Zenon DEF SpendInv, AccountInv
<1>4. /\ executed \subseteq Txs \cup {Guard} /\ unconfirmed \subseteq executed
      /\ chain \in [nonce: Nat, guarded: BOOLEAN] /\ IsFiniteSet(executed)
      /\ chain.nonce = Cardinality(executed) /\ Guard \notin Txs
  <2>1. /\ executed \subseteq Txs \cup {Guard} /\ unconfirmed \subseteq executed
        /\ chain \in [nonce: Nat, guarded: BOOLEAN] /\ chain.nonce = Cardinality(executed)
    BY Zenon, <1>3 DEF SpendTypeOK, ExecutedInv
  <2>2. executed \subseteq TxIds
    BY Zenon, <2>1 DEF TxIds
  <2> QED
    BY Zenon, <2>1, <2>2, FiniteSubset, ConstantsOK
<1>5. RefundInv'
  BY Zenon, <1>1, <1>2, <1>3 DEF RefundInv
<1>6. CASE DeployEthereumGnosisSafeAccount
  <2>1. /\ safe.state = "Approved" /\ executed = {} /\ executed' = executed \cup {Guard}
        /\ chain' = [nonce |-> 1, guarded |-> TRUE] /\ spending' = spending
        /\ unconfirmed' = unconfirmed
    BY Zenon, <1>3, <1>6 DEF DeployEthereumGnosisSafeAccount, ExecutedInv
  <2>2. PICK b \in BOOLEAN : b = TRUE
    BY Zenon
  <2>3. b \in BOOLEAN
    BY Zenon
  <2>4. chain' = [nonce |-> 1, guarded |-> b]
    BY Zenon, <2>1, <2>2
  <2>5. chain' \in [nonce: Nat, guarded: BOOLEAN] /\ chain'.nonce = 1 /\ chain'.guarded = b
    BY Zenon, <2>3, <2>4
  <2>6. executed' = {Guard} /\ Cardinality({Guard}) = 1
    BY Zenon, <2>1, CountOne
  <2>7. SpendTypeOK'
    <3>1. executed' \subseteq Txs \cup {Guard} /\ unconfirmed' \subseteq executed'
      BY Zenon, <1>4, <2>1
    <3> QED
      BY Zenon, <1>1, <1>2, <1>3, <2>1, <2>5, <3>1 DEF SpendTypeOK
  <2>8. LoopInv'
    BY Zenon, <1>1, <1>3, <2>1 DEF LoopInv, NotSpending
  <2>9. transactions[Guard].state = "Done"
    BY Zenon, <1>3, <2>1 DEF TableInv, GuardFirst
  <2>10. executed' \cap Txs = {}
    BY Zenon, <1>4, <2>6
  <2>11. chain'.nonce = Cardinality(executed') /\ chain'.guarded
    BY Zenon, <2>2, <2>5, <2>6
  <2>12. ExecutedInv'
    BY Zenon, <1>2, <2>9, <2>10, <2>11 DEF ExecutedInv
  <2> QED
    BY Zenon, <1>2, <1>5, <2>7, <2>8, <2>12 DEF SpendInv
<1>7. ASSUME NEW t \in Txs, Executes(t), approvals[t] # "none",
             \/ /\ spending.at = "exec" /\ approvals[t] = "Done" /\ unconfirmed' = unconfirmed
                /\ spending' = [at |-> "confirm", tx |-> t]
             \/ spending' = spending /\ unconfirmed' = unconfirmed \cup {t}
      PROVE  SpendInv'
  <2>1. /\ transactions[t].nonce = chain.nonce
        /\ chain.guarded /\ chain' = [chain EXCEPT !.nonce = chain.nonce + 1]
        /\ executed' = executed \cup {t}
    BY Zenon, <1>7 DEF Executes, ValidTransaction
  <2>2. t \notin executed /\ "signer" \in transactions[t].signed
    BY <1>3, <1>4, <1>7, <2>1 DEF ExecutedInv, RefundInv
  <2>3. IsFiniteSet(executed') /\ Cardinality(executed') = chain.nonce + 1
    BY Zenon, <1>4, <2>1, <2>2, CountAdd
  <2>4. /\ chain' \in [nonce: Nat, guarded: BOOLEAN] /\ chain'.nonce = chain.nonce + 1
        /\ chain'.guarded /\ chain.nonce \in Nat
    <3> DEFINE n == chain.nonce + 1
    <3>1. chain.nonce \in Nat /\ n \in Nat
      BY <1>4
    <3>2. chain' = [chain EXCEPT !.nonce = n]
      BY Zenon, <2>1
    <3> HIDE DEF n
    <3>3. chain' \in [nonce: Nat, guarded: BOOLEAN] /\ chain'.nonce = n
      BY Zenon, <1>4, <3>1, <3>2
    <3>4. chain'.guarded
      BY Zenon, <1>4, <2>1, <3>2
    <3> QED
      BY Zenon, <3>1, <3>3, <3>4 DEF n
  <2>5. /\ spending' \in [at: {"list", "refund", "exec", "confirm"}, tx: Txs \cup {NoTx}]
        /\ LoopInv'
    <3>1. CASE spending' = spending
      BY Zenon, <1>1, <1>3, <3>1 DEF LoopInv, NotSpending, SpendTypeOK
    <3>2. CASE approvals[t] = "Done" /\ spending' = [at |-> "confirm", tx |-> t]
      <4>1. /\ spending' \in [at: {"list", "refund", "exec", "confirm"}, tx: Txs \cup {NoTx}]
            /\ spending'.at = "confirm" /\ spending'.tx = t
        BY Zenon, <3>2
      <4> QED
        BY Zenon, <1>1, <3>2, <4>1 DEF LoopInv
    <3> QED
      BY Zenon, <1>7, <3>1, <3>2
  <2>6. /\ executed' \subseteq Txs \cup {Guard} /\ unconfirmed' \subseteq executed'
        /\ unconfirmed \subseteq unconfirmed'
    BY Zenon, <1>4, <1>7, <2>1
  <2>7. SpendTypeOK'
    BY Zenon, <1>1, <1>2, <1>3, <2>4, <2>5, <2>6 DEF SpendTypeOK
  <2>8. \/ t \in unconfirmed' /\ spending' = spending
        \/ /\ spending' = [at |-> "confirm", tx |-> t]
           /\ \A u : spending # [at |-> "confirm", tx |-> u]
    <3>1. spending.at = "exec" => \A u : spending # [at |-> "confirm", tx |-> u]
      BY SMTT(30)
    <3> QED
      BY Zenon, <1>7, <3>1
  <2>9. ASSUME NEW u \in executed \cap Txs
        PROVE  /\ "signer" \in transactions[u].signed /\ transactions[u].nonce < chain.nonce
               /\ \/ u \in unconfirmed'
                  \/ approvals[u] = "Spent"
                  \/ spending' = [at |-> "confirm", tx |-> u]
    BY Zenon, <1>3, <2>6, <2>8 DEF ExecutedInv
  <2>10. ASSUME NEW u \in executed' \cap Txs
         PROVE  /\ "signer" \in transactions[u].signed /\ transactions[u].nonce < chain.nonce + 1
                /\ \/ u \in unconfirmed'
                   \/ approvals[u] = "Spent"
                   \/ spending' = [at |-> "confirm", tx |-> u]
    <3>1. CASE u = t
      <4>1. transactions[u].nonce < chain.nonce + 1
        BY <2>1, <2>4, <3>1
      <4> QED
        BY Zenon, <2>2, <2>8, <3>1, <4>1
    <3>2. CASE u \in executed \cap Txs
      <4>1. transactions[u].nonce \in Nat
        <5>1. u \in TxIds
          BY Zenon DEF TxIds
        <5> QED
          BY Zenon, <5>1, <1>3, TypesOfRows DEF TableInv, RowOK
      <4>2. transactions[u].nonce < chain.nonce + 1
        BY <2>4, <2>9, <3>2, <4>1
      <4> QED
        BY Zenon, <2>9, <3>2, <4>2
    <3> QED
      BY Zenon, <2>1, <3>1, <3>2
  <2>11. Guard \in executed' => transactions[Guard].state = "Done"
    BY Zenon, <1>3, <1>4, <2>1 DEF ExecutedInv
  <2>12. ExecutedInv'
    BY Zenon, <1>1, <1>2, <2>1, <2>3, <2>4, <2>10, <2>11 DEF ExecutedInv
  <2> QED
    BY Zenon, <1>2, <1>5, <2>5, <2>7, <2>12 DEF SpendInv
<1>8. ASSUME ExecTransaction PROVE SpendInv'
  <2>1. /\ spending.at = "exec" /\ Executes(spending.tx) /\ unconfirmed' = unconfirmed
        /\ spending' = [spending EXCEPT !.at = "confirm"]
        /\ spending \in [at: {"list", "refund", "exec", "confirm"}, tx: Txs \cup {NoTx}]
    BY Zenon, <1>3, <1>8 DEF ExecTransaction, SpendTypeOK
  <2>2. spending' = [at |-> "confirm", tx |-> spending.tx]
    BY SMTT(30), <2>1
  <2>3. spending.tx \in Txs /\ approvals[spending.tx] = "Done"
    BY Zenon, <1>3, <2>1 DEF LoopInv
  <2>4. PICK t \in Txs : t = spending.tx
    BY Zenon, <2>3
  <2>5. approvals[t] # "none" /\ approvals[t] = "Done" /\ Executes(t)
    BY Zenon, <2>1, <2>3, <2>4
  <2> QED
    BY Zenon, <1>7, <2>1, <2>2, <2>4, <2>5
<1>9. ASSUME NEW t \in Txs, ExecPublished(t) PROVE SpendInv'
  <2>1. /\ approvals[t] # "none" /\ Executes(t) /\ spending' = spending
        /\ unconfirmed' = unconfirmed \cup {t}
    BY Zenon, <1>9 DEF ExecPublished
  <2> QED
    BY Zenon, <1>7, <2>1
<1> QED
  BY Zenon, <1>6, <1>8, <1>9

(* The invariant of the loop holds at the start.                           *)
LEMMA SpendInit ==
    ASSUME SumFacts, Init
    PROVE  SpendInv
<1>1. AccountInv /\ KeeperTypeOK /\ Refunded = {}
  BY Zenon, AccountInit, TableInit DEF Init, AccountInv, TableInv
<1>2. PICK b \in BOOLEAN : b = FALSE
  BY Zenon
<1>3. b \in BOOLEAN
  BY Zenon
<1>4. chain = [nonce |-> 0, guarded |-> b]
  BY Zenon, <1>2 DEF Init
<1>5. chain \in [nonce: Nat, guarded: BOOLEAN] /\ chain.nonce = 0
  BY Zenon, <1>3, <1>4
<1>6. SpendTypeOK
  <2>1. /\ approvals \in [Txs -> {"none", "Done", "Spent", "Failed"}] /\ refunds \subseteq Txs
        /\ spending \in [at: {"list", "refund", "exec", "confirm"}, tx: Txs \cup {NoTx}]
        /\ executed \subseteq Txs \cup {Guard} /\ unconfirmed \subseteq executed
        /\ crashes \in 0..MaxCrashes /\ reverted \subseteq Txs
    BY SpendConstantsOK DEF Init, NotSpending
  <2> QED
    BY Zenon, <1>1, <1>5, <2>1 DEF SpendTypeOK
<1>7. LoopInv
  BY Zenon DEF Init, NotSpending, LoopInv
<1>8. executed = {} /\ Cardinality({}) = 0
  BY Zenon, CountEmpty DEF Init
<1>9. ExecutedInv
  BY Zenon, <1>5, <1>8 DEF ExecutedInv
<1>10. RefundInv
  BY Zenon, <1>1 DEF RefundInv, Init
<1> QED
  BY Zenon, <1>1, <1>6, <1>7, <1>9, <1>10 DEF SpendInv

(* What was executed is signed, or was refunded without being confirmed.   *)
LEMMA ExecutedIsSigned ==
    ASSUME SumFacts, SpendInv
    PROVE  /\ executed \cap Refunded \subseteq unconfirmed
           /\ executed \subseteq Signed \cup Refunded /\ Signed \cap Refunded = {}
           /\ Signed = {t \in Txs \cup {Guard} : SignedByGroup(t)}
           /\ IsFiniteSet(executed) /\ IsFiniteSet(Signed) /\ IsFiniteSet(Refunded)
<1>1. TableInv /\ SignerSigned /\ SpendTypeOK /\ LoopInv /\ ExecutedInv /\ RefundInv
  BY Zenon DEF SpendInv, AccountInv, TableInv
<1>2. /\ Txs \cup {Guard} \subseteq TxIds /\ executed \subseteq Txs \cup {Guard}
      /\ refunds \subseteq Txs /\ spending \in [at: {"list", "refund", "exec", "confirm"}, tx: Txs \cup {NoTx}]
  BY Zenon, <1>1 DEF TxIds, SpendTypeOK
<1>3. ASSUME NEW t \in executed, t \in Refunded PROVE t \in unconfirmed
  <2>1. approvals[t] = "Failed" /\ t \in Txs
    BY Zenon, <1>1, <1>2, <1>3 DEF RefundInv
  <2>2. spending # [at |-> "confirm", tx |-> t]
    BY <1>1, <2>1 DEF LoopInv
  <2> QED
    BY Zenon, <1>1, <2>1, <2>2 DEF ExecutedInv
<1>4. ASSUME NEW t \in executed PROVE t \in Signed \cup Refunded
  <2>1. "signer" \in transactions[t].signed
    BY Zenon, <1>1, <1>2 DEF ExecutedInv, SignerSigned
  <2> QED
    BY Zenon, <1>1, <1>2, <2>1 DEF SignerSigned, Signed, SignedByGroup, Refunded
<1>5. Signed \cap Refunded = {}
  BY Zenon DEF Signed, SignedByGroup, Refunded
<1>6. Signed = {t \in Txs \cup {Guard} : SignedByGroup(t)}
  BY Zenon, <1>1, <1>2 DEF Signed, SignedByGroup, SignerSigned
<1>7. IsFiniteSet(executed) /\ IsFiniteSet(Signed) /\ IsFiniteSet(Refunded)
  <2>1. executed \subseteq TxIds /\ Signed \subseteq TxIds /\ Refunded \subseteq TxIds
    BY Zenon, <1>2 DEF Signed, Refunded
  <2> QED
    BY Zenon, <2>1, FiniteSubset, ConstantsOK
<1> QED
  BY Zenon, <1>3, <1>4, <1>5, <1>6, <1>7

(* The two nonces differ by what the chain has not seen and by what it     *)
(* executed although it was refunded.                                      *)
LEMMA DriftCounted ==
    ASSUME SumFacts, SpendInv
    PROVE  NonceDrift
<1> DEFINE E == Signed \cap executed
           R == Refunded \cap executed
           U == Signed \ executed
<1>1. /\ executed \subseteq Signed \cup Refunded /\ Signed \cap Refunded = {}
      /\ Signed = {t \in Txs \cup {Guard} : SignedByGroup(t)}
      /\ IsFiniteSet(Signed) /\ IsFiniteSet(Refunded)
  BY Zenon, ExecutedIsSigned
<1>2. safe.nonce = Cardinality(Signed) /\ chain.nonce = Cardinality(executed)
  BY Zenon DEF SpendInv, AccountInv, NonceCountsSigned, Signed, ExecutedInv
<1>3. IsFiniteSet(E) /\ IsFiniteSet(R) /\ IsFiniteSet(U)
  BY Zenon, <1>1, FiniteSubset
<1>4. /\ Signed = E \cup U /\ E \cap U = {}
      /\ executed = E \cup R /\ E \cap R = {}
  BY Zenon, <1>1
<1>5. NonceDrift <=> safe.nonce + Cardinality(R) = chain.nonce + Cardinality(U)
  BY Zenon, <1>1 DEF NonceDrift
<1> HIDE DEF E, R, U
<1>6. /\ Cardinality(Signed) = Cardinality(E) + Cardinality(U) 
      /\ Cardinality(executed) = Cardinality(E) + Cardinality(R) 
  BY Zenon, <1>3, <1>4, CountUnion
<1>7. Cardinality({}) = 0 /\ Cardinality(E) \in Nat /\ Cardinality(R) \in Nat /\ Cardinality(U) \in Nat
  BY Zenon, <1>3, CountEmpty, CountType
<1> QED
  BY <1>2, <1>5, <1>6, <1>7

(* The keeper's balance is no more than what the chain holds.              *)
LEMMA ChainCovers ==
    ASSUME SumFacts, SpendInv
    PROVE  BalanceOnChain
<1> SUFFICES ASSUME unconfirmed = {}, NEW k \in Rows
             PROVE  balances[k] <= DepositsOf(k) - PaidBy(executed, k)
  BY Zenon DEF BalanceOnChain
<1>1. AccountInv /\ TableInv /\ KeeperTypeOK /\ Ledger
  BY ZenonT(40), AccountImplies DEF SpendInv, AccountInv
<1>2. k \in Tokens
  BY Zenon, <1>1 DEF KeeperTypeOK, IsPayment, Rows
<1>3. executed \subseteq Signed /\ IsFiniteSet(executed) /\ IsFiniteSet(Signed)
  BY Zenon, ExecutedIsSigned
<1> DEFINE f == [t \in TxIds |-> Pays(t, k)]
           U == Signed \ executed
<1>4. Signed \subseteq TxIds /\ U \subseteq Signed /\ Signed = executed \cup U /\ executed \cap U = {}
  BY Zenon, <1>3 DEF Signed
<1>5. (\A t \in Signed : f[t] \in Nat) /\ IsFiniteSet(U)
  BY Zenon, <1>1, <1>2, <1>3, <1>4, SumsAreInt, FiniteSubset
<1>6. PaidBy(Signed, k) = SumFunctionOnSet(f, Signed) /\ PaidBy(executed, k) = SumFunctionOnSet(f, executed)
  BY Zenon DEF PaidBy
<1> HIDE DEF f, U
<1>7. (\A t \in executed \cup U : f[t] \in Int) /\ (\A t \in U : f[t] \in Nat)
      /\ (\A t \in executed : f[t] \in Nat)
  BY <1>3, <1>4, <1>5
<1>8. SumFunctionOnSet(f, executed \cup U) = SumFunctionOnSet(f, executed) + SumFunctionOnSet(f, U)
  BY Zenon, <1>3, <1>4, <1>5, <1>7, UnionSum
<1>9. SumFunctionOnSet(f, U) \in Nat /\ SumFunctionOnSet(f, executed) \in Nat
  BY Zenon, <1>3, <1>5, <1>7, NatSum
<1>10. balances[k] = DepositsOf(k) - PaidBy(Signed, k) /\ DepositsOf(k) \in Int
  BY Zenon, <1>1, <1>2, SumsAreInt DEF Ledger, Signed
<1>11. PaidBy(Signed, k) = PaidBy(executed, k) + SumFunctionOnSet(f, U) /\ PaidBy(executed, k) \in Nat
  BY Zenon, <1>4, <1>6, <1>8, <1>9
<1> QED
  BY <1>9, <1>10, <1>11

-----------------------------------------------------------------------------
INSTANCE SumTheorems

(* The hypothesis of the lemmas holds.                                     *)
LEMMA SumFactsHold == SumFacts
<1>1. CountFacts
  BY FS_CardinalityType, FS_EmptySet, FS_Subset, FS_Singleton, Zenon DEF CountFacts
<1>2. CountChanges
  <2>1. ASSUME NEW S, NEW e, IsFiniteSet(S), e \notin S
        PROVE  IsFiniteSet(S \cup {e}) /\ Cardinality(S \cup {e}) = Cardinality(S) + 1
    BY Zenon, <2>1, FS_AddElement
  <2>2. ASSUME NEW S, NEW e, IsFiniteSet(S), e \in S
        PROVE  IsFiniteSet(S \ {e}) /\ Cardinality(S \ {e}) = Cardinality(S) - 1
    BY Zenon, <2>2, FS_RemoveElement
  <2>3. ASSUME NEW S, NEW T, IsFiniteSet(S), IsFiniteSet(T), S \cap T = {}
        PROVE  IsFiniteSet(S \cup T) /\ Cardinality(S \cup T) = Cardinality(S) + Cardinality(T)
    <3>1. /\ IsFiniteSet(S \cup T)
          /\ Cardinality(S \cup T) = Cardinality(S) + Cardinality(T) - Cardinality(S \cap T)
      BY <2>3, FS_Union, Zenon
    <3>2. Cardinality(S \cap T) = 0 /\ Cardinality(S) \in Nat /\ Cardinality(T) \in Nat
      BY <1>1, <2>3, Zenon DEF CountFacts
    <3> QED
      BY <3>1, <3>2
  <2> QED
    BY <2>1, <2>2, <2>3, Zenon DEF CountChanges
<1>3. SumTypes
  BY SumEmpty, SumInt, SumNat, Zenon DEF SumTypes
<1>4. SumsAgree
  BY SumSame DEF SumsAgree
<1>5. SumAdds
  BY Zenon, SumAdd DEF SumAdds
<1>6. SumRemoves
  BY Zenon, SumRemove DEF SumRemoves
<1>7. SumJoins
  BY Zenon, SumUnion DEF SumJoins
<1> QED
  BY <1>1, <1>2, <1>3, <1>4, <1>5, <1>6, <1>7, Zenon DEF SumFacts

(* The nonce of the safe counts the transactions that the signer group     *)
(* signed and nobody refunded: FinishSafe and FinishTransactionSignatures  *)
(* add one, a refund takes one back, and a close by holder and observer    *)
(* does neither.                                                           *)
THEOREM NonceIsCount == KeeperSpec => []NonceCountsSigned
<1>1. KeeperInit => TableInv /\ NonceCountsSigned
  BY Zenon, TableInit, NonceInit, SumFactsHold
<1>2. TableInv /\ NonceCountsSigned /\ [KeeperNext]_keeperVars => (TableInv /\ NonceCountsSigned)'
  BY Zenon, TableStep, SumFactsHold
<1> QED
  BY <1>1, <1>2, PTL DEF KeeperSpec

(* AccountInv is an invariant of the keeper of an Ethereum safe.           *)
THEOREM AccountInvariance == KeeperSpec => []AccountInv
<1>1. KeeperInit => AccountInv
  BY Zenon, AccountInit, SumFactsHold
<1>2. AccountInv /\ [KeeperNext]_keeperVars => AccountInv'
  BY Zenon, AccountStep, SumFactsHold
<1> QED
  BY <1>1, <1>2, PTL DEF KeeperSpec

(* Every balance is what was deposited less what is signed away, however   *)
(* the requests and the responses are ordered.                             *)
THEOREM LedgerBalances == KeeperSpec => []Ledger
<1>1. AccountInv => Ledger
  BY Zenon, AccountImplies
<1> QED
  BY <1>1, AccountInvariance, PTL

(* The bonds of the holders and of the proposals under way are covered by  *)
(* the balance, as long as nothing was refunded and every transaction is   *)
(* what was proposed.                                                      *)
THEOREM BondsStayBacked == KeeperSpec => []BondsBacked
<1>1. AccountInv => BondsBacked
  BY Zenon, AccountImplies
<1> QED
  BY <1>1, AccountInvariance, PTL

(* SpendInv is an invariant of the keeper, the loop and the chain.         *)
THEOREM SpendInvariance == Spec => []SpendInv
<1>1. Init => SpendInv
  BY Zenon, SpendInit, SumFactsHold
<1>2. SpendInv /\ [Next]_vars => SpendInv'
  <2> SUFFICES ASSUME SpendInv, [Next]_vars PROVE SpendInv'
    BY Zenon
  <2>1. CASE UNCHANGED vars
    <3>1. AccountInv' /\ KeeperTypeOK' /\ transactions' = transactions /\ Refunded' = Refunded
      BY Zenon, <2>1, KeeperRests, SumFactsHold DEF vars
    <3>2. UNCHANGED <<approvals, spending, refunds, chain, executed, crashes, unconfirmed, reverted>>
      BY Zenon, <2>1 DEF vars, spendVars
    <3> QED
      BY Zenon, <3>1, <3>2 DEF SpendInv, SpendTypeOK, LoopInv, NotSpending, ExecutedInv, RefundInv
  <2> QED
    BY Zenon, <2>1, KeeperSpends, ApprovalSpends, LoopSpends, CallSpends, ChainSpends,
       SumFactsHold
       DEF Next, SpendStep
<1> QED
  BY <1>1, <1>2, PTL DEF Spec

(* A transaction that the account executed is not refunded, except when    *)
(* the loop was interrupted between ExecTransaction and the write that     *)
(* confirms it, or someone else executed the raw that is published.        *)
THEOREM RefundsAreNotExecuted == Spec => []RefundedNotExecuted
<1>1. SpendInv => RefundedNotExecuted
  BY Zenon, ExecutedIsSigned, SumFactsHold DEF RefundedNotExecuted
<1> QED
  BY <1>1, SpendInvariance, PTL

(* The keeper's nonce and the account's differ by the transactions still   *)
(* to be executed and by those refunded although executed.                 *)
THEOREM NoncesDrift == Spec => []NonceDrift
<1>1. SpendInv => NonceDrift
  BY Zenon, DriftCounted, SumFactsHold
<1> QED
  BY <1>1, SpendInvariance, PTL

(* While no executed transaction was refunded, the keeper never counts     *)
(* more of a token than the account has on the chain.                      *)
THEOREM BalancesOnChain == Spec => []BalanceOnChain
<1>1. SpendInv => BalanceOnChain
  BY Zenon, ChainCovers, SumFactsHold
<1> QED
  BY <1>1, SpendInvariance, PTL

=============================================================================
