\* Two concurrent step requests.
SPECIFICATION Spec
CONSTANTS
    e1 = e1
    e2 = e2
    Steppers = {s1, s2}
    Entities = {e1, e2}
    Worlds <- MCWorlds
    MaxTick = 2
    MaxRequest = 2
    MaxAttempts = 2
    None = None
INVARIANTS
    FrameChain
    FramesAtomic
    OrderIndexes
PROPERTIES
    ConfirmedAbsent
    NoSpuriousMismatch
    RefusedOnlyIfOvertaken
    ImplementsLog
SYMMETRY StepperSymmetry
