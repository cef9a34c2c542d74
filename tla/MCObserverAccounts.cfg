SPECIFICATION FairSpec
CHECK_DEADLOCK FALSE
CONSTANTS
    h1 = h1
    h2 = h2
    Accounts = {1, 2}
    Holders = {h1, h2}
    Owners <- OneOrTwoHolders
    Prices <- TwoPrices
    FirstPrice <- Low
    ListLimit = 1
    ResendWait = 1
    MaxUnfunded = 1
    MaxRestarts = 1
    MaxQueue = 0
INVARIANTS
    PriceIsSet
PROPERTIES
    RequestsApart
    SignedIsDeployed
