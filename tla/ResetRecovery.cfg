SPECIFICATION FairSpec
CONSTANTS
    Cards = {c1}
    MaxResets = 1
    MaxFaults = 2
    None = None
PROPERTY InterruptedResetCompletes
