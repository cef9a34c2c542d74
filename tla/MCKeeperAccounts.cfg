SPECIFICATION Spec
CHECK_DEADLOCK FALSE
SYMMETRY Symmetry
CONSTANTS
    r1 = r1
    r2 = r2
    h1 = h1
    h2 = h2
    p1 = p1
    p2 = p2
    p3 = p3
    Replicas = {r1, r2}
    Holders = {h1, h2}
    Proposals = {p1, p2, p3}
    HolderOf <- SharedHolder
    HolderKeys <- OwnOrRecoveryKey
    Timelock <- TwoLocks
    Pref <- SharedPref
    SignerKeys = {1, 2}
    ObserverKeys = {3}
    CustomKeys = {5}
    Maturity = 1
    Terms = {"good"}
    Funds = {TRUE}
    MaxTime = 3
    MaxLag = 1
    MaxPending = 1
    MaxDenied = 1
INVARIANTS
    AccountsFollowKeys
    AgreeOnClockAndApi
