SPECIFICATION Spec
CHECK_DEADLOCK FALSE
CONSTANTS
    d1 = d1
    d2 = d2
    Deposits = {d1, d2}
    Amount <- UnitAmount
    Withdrawals = {d1}
    Trusted = {d1}
    Coinbase = {}
    Chains = {"bitcoin", "ethereum"}
    TransactionMinimum = 1
    MaxUnspentUtxo = 2
    Delay = 2
    Maturity = 2
    MaxHeight = 3
    Width = 8
    MaxReorgs = 1
    MaxCrashes = 1
INVARIANTS
    CreditedIsSettled
    KeeperAgrees
    PassedIsSeen
    AnswerMatchesCredit
