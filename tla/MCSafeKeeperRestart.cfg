SPECIFICATION FairSpec
CHECK_DEADLOCK FALSE
CONSTANTS
    d1 = d1
    d2 = d2
    Deposits = {d1}
    Txs = {t1}
    ReqIds = {r1, r2, r3}
    NoTx = NoTx
    NoJob = NoJob
    Satoshi <- MCSatoshi
    Amounts = {3, 5}
    TransactionMinimum = 2
    ValueDust = 1
    MaxUnspentUtxo = 2
    BondSupply = 10
    SafeSignatureTimeout = 1
    MaxTime = 1
INVARIANTS
    RequestsSpacedOut
PROPERTIES
    ResponsesFinish
