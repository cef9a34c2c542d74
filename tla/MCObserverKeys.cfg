SPECIFICATION FairSpec
CONSTANTS
    k1 = k1
    k2 = k2
    c1 = c1
    TableKeys = {k1, k2}
    Malformed = {{}, {k2}}
    CustomKeys = {c1}
    SpareLimit = 1
    Batch = 1
    KeygenWait = 2
    MaxCrashes = 1
    MaxUnfunded = 1
    MaxImports = 1
    MaxOutstanding = 1
INVARIANTS
    OneLostPerCrash
PROPERTIES
    KeygensApart
    SignerKeysReturn
