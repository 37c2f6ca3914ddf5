SPECIFICATION Spec
CONSTANTS
    Browsers = {b1, b2}
    AddressSets = {lan1, lan2}
    NoAddresses = NoAddresses
    ForegroundLifetime = 1
    PairingLifetime = 2
    ExtensionLifetime = 1
    PerSourceWindow = 0
    GlobalWindow = 2
    PerSourceLimit = 1
    GlobalLimit = 2
    MaxOpens = 2
INVARIANTS ListenerInv OfferPairsOneBrowser GuessesBounded
PROPERTY LeaseEnds
