SPECIFICATION Spec
SYMMETRY Symmetry
CHECK_DEADLOCK FALSE
CONSTANTS
    d1 = d1
    d2 = d2
    Deposits = {d1, d2}
    Txs = {t1, t2}
    ReqIds = {r1, r2}
    NoTx = NoTx
    NoJob = NoJob
    Satoshi <- MCSatoshi
    Amounts = {3, 5}
    TransactionMinimum = 2
    ValueDust = 1
    MaxUnspentUtxo = 2
    BondSupply = 10
    SafeSignatureTimeout = 1
    MaxTime = 2
INVARIANTS
    NoDoubleSpend
    OutputsFollowTransactions
    StoreChecksHold
    FullyBacked
    SignedCanBeBroadcast
