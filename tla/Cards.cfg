SPECIFICATION Spec
CONSTANTS
    Cards = {c1, c2}
    Slots = 2
    Actors = {ui, loop}
    UI = ui
    Nobody = Nobody
    MaxCards = 1
    MaxIDs = 2
    MaxFaults = 2
SYMMETRY Symmetry
INVARIANTS IdentityInv NoPhantomCards RegistryRemembers
