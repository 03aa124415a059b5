\* Two overlapping step requests.
SPECIFICATION Spec
CONSTANTS
    e1 = e1
    e2 = e2
    Steppers = {s1, s2}
    Entities = {e1, e2}
    Worlds <- MCWorlds
    MaxTick = 2
    MaxRequest = 1
    MaxAttempts = 2
    None = None
INVARIANT ProjectionFaithful
