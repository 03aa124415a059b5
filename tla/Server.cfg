\* One client's step requests, one operator's rebuild and one intervention that
\* waits for the run to be unused; each of them may die at any await.
SPECIFICATION ServerFairSpec
CONSTANTS
    e1 = e1
    e2 = e2
    Steppers = {s1}
    Operators = {o1}
    Entities = {e1, e2}
    Worlds <- MCWorlds
    MaxTick = 2
    MaxRequest = 1
    MaxAttempts = 2
    MaxOps = 1
    MaxDamage = 0
    Users = {u1}
    MaxInter = 1
    Overlap = FALSE
    None = None
INVARIANTS
    HeadInSync
    ReplayInSync
    ProjectionInSync
PROPERTIES
    EveryRequestAnswered
    LeaseGivenBack
    EveryRebuildRecorded
    CommitsFailClosed
