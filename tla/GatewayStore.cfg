SPECIFICATION StoreSpec
CONSTANTS
    Tokens = {t1, t2, t3}
    MaxTrustRecords = 2
    TrustAbsolute = 3
    TrustIdle = 3
    LastUsedFlush = 2
    MaxFaults = 1
SYMMETRY TokenSymmetry
INVARIANTS StoreInv CookieSurvivesRestart RevokedStaysRevoked
PROPERTY EvictionSparesRecentUse
