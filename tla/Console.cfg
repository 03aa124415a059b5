SPECIFICATION FairSpec
CONSTANTS
    Runs = {r1, r2}
    Entities = {p1}
    Persons = {p1}
    MaxTick = 1
    Slots = {1, 2, 3}
    None = None
INVARIANTS
    OneIteration
PROPERTIES
    AcceptedProjectionFits
    AutoplayFollows
    DisplayConverges
