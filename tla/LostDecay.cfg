\* Two people gathering from a carcass that decays.
SPECIFICATION Spec
CONSTANTS
    Persons = {"a", "b"}
    Places = {1, 2}
    Expiry = 2
    Acts = {"rest", "gather"}
    Yield = 1
    Decay = 1
    Stock = 2
    MaxInter = 0
    None = None
    Meat = 2
    Worlds <- MCWorlds
PROPERTIES
    GatheredOffCarcass
