---------------------------- MODULE MCTickStore ----------------------------
(* Small instances of TickStore for TLC. *)
EXTENDS TickStore, TLC

CONSTANTS e1, e2

\* In one world both ticks touch something in common, in another a tick accepts
\* nothing; tick 2 accepts two events.
MCWorlds ==
    {[t \in 1..MaxTick |->
        IF t = quiet THEN <<>>
        ELSE IF t = 2 THEN <<{e1, e2}, {e1}>> ELSE <<{e1}>>] : quiet \in {0, 1}}

\* The step requests run the same code and no property names one of them.
StepperSymmetry == Permutations(Steppers)
=============================================================================
