\* One intervention overlapping one client's step requests.
SPECIFICATION ServerSpec
CONSTANTS
    e1 = e1
    e2 = e2
    Steppers = {s1}
    Operators = {}
    Entities = {e1, e2}
    Worlds <- MCWorlds
    MaxTick = 2
    MaxRequest = 1
    MaxAttempts = 2
    MaxOps = 0
    MaxDamage = 0
    Users = {u1}
    MaxInter = 1
    Overlap = TRUE
    None = None
INVARIANT ReplayInSync
