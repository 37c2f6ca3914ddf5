SPECIFICATION Spec
CONSTANTS
    Cards = {c1, c2}
    MaxResets = 2
    MaxFaults = 2
    None = None
SYMMETRY CardSymmetry
INVARIANTS IntentInv NothingStartsDuringReset RemovalIsAnnounced
PROPERTY ClearedResetIsComplete
