\* Two invocations of the rebuild tool beside the step requests of one client,
\* with one lost entity document; tools and requests may die at any await.
SPECIFICATION RecSpec
CONSTANTS
    e1 = e1
    Steppers = {s1}
    Operators = {o1, o2}
    Entities = {e1}
    Worlds <- MCWorlds
    MaxTick = 2
    MaxRequest = 2
    MaxAttempts = 1
    MaxOps = 2
    MaxDamage = 1
    None = None
INVARIANTS
    ReplayFaithful
    LeaseHeld
    OneVerdict
PROPERTIES
    LeaseProtects
    ReleasedFaithful
SYMMETRY OperatorSymmetry
