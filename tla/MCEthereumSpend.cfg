SPECIFICATION Spec
CONSTANTS
    eth = eth
    d1 = d1
    t1 = t1
    Tokens = {eth}
    Deposits = {d1}
    DepositToken <- MCDepositToken
    DepositAmount <- MCDepositAmount
    Txs = {t1, t2}
    Guard = g
    Closings = {}
    ReqIds = {r1, r2, r3}
    Amounts = {1}
    OtherRaws = {}
    Unit = 10
    Reverts <- MCReverts
    MaxCrashes = 2
CHECK_DEADLOCK FALSE
INVARIANTS
    RefundedNotExecuted
    NonceDrift
    BalanceOnChain
PROPERTIES
    SignedIsSettled
