\* Two runs of one seed, their forks and the forks of those: created write by write,
\* each stepped at its own pace, with two requests at a time.
SPECIFICATION Spec
CONSTANTS
    e1 = e1
    e2 = e2
    Roots = {r1, r2}
    Seed = Seed
    Slots = {c1, c2}
    Branches = {b1}
    Spawned <- MCSpawned
    Worlds <- MCWorlds
    MaxTick = 2
    MaxChildren = 2
    None = None
INVARIANTS
    NoSiblings
    PartialRunsInert
    AnsweredTrue
    ExactContinuation
    WholeRunsUsable
    RebuildChangesNothing
CONSTRAINT Narrow
SYMMETRY TwinSymmetry
