SPECIFICATION KeeperSpec
CONSTANTS
    eth = eth
    usd = usd
    d1 = d1
    d2 = d2
    Tokens = {eth, usd}
    Deposits = {d1, d2}
    DepositToken <- MCDepositToken
    DepositAmount <- MCDepositAmount
    Txs = {t1, t2}
    Guard = g
    Closings = {c1}
    ReqIds = {r1, r2, r3}
    Amounts = {1}
    OtherRaws <- MCOtherRaws
    Unit = 10
SYMMETRY Symmetry
CHECK_DEADLOCK FALSE
INVARIANTS
    NonceCountsSigned
    Ledger
    BondsBacked
