\* Three people in two places, two interactions, a carcass that decays.
SPECIFICATION Spec
SYMMETRY MCSymmetry
CONSTANTS
    a = a
    b = b
    c = c
    Persons = {a, b, c}
    Places = {1, 2}
    Expiry = 2
    Acts = {"rest"}
    Yield = 1
    Decay = 1
    Stock = 1
    MaxInter = 2
    None = None
    Meat = 3
    Worlds <- MCWorlds
INVARIANTS
    OneActive
PROPERTIES
    ImplementsLedger
