\* Two people, one interaction, one unit to gather.
SPECIFICATION Spec
CONSTANTS
    Persons = {"a", "b"}
    Places = {1, 2}
    Expiry = 2
    Acts = {"rest", "move", "eat", "gather", "give"}
    Yield = 1
    Decay = 0
    Stock = 1
    MaxInter = 1
    None = None
    Meat = 2
    Worlds <- MCWorlds
INVARIANTS
    FoodTypeOK
PROPERTIES
    ImplementsLedger
    PendingEnds
    DeathReleases
