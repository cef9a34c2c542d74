SPECIFICATION FairSpec
CHECK_DEADLOCK FALSE
CONSTANTS
    Txs = {1, 2}
    Size <- TwoSizes
    Rates = {1, 2}
    InitialRate = 1
    InitialFunds <- MixedFunds
    Funds = {2, 5, 10}
    Dust = 1
    MaxInterrupts = 2
    MaxReprices = 2
    MaxFundings = 2
INVARIANTS
    FeeSpentOnce
    TableMatchesChain
PROPERTIES
    SignedIsConfirmed
