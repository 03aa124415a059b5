------------------------------- MODULE MCFood -------------------------------
(***************************************************************************)
(* FoodInteraction for TLC: starving people and people with meat, met in   *)
(* the middle of a run, in every place.                                    *)
(***************************************************************************)
EXTENDS FoodInteraction, TLC

CONSTANT Meat  \* units the better off carry at the start

MCWorlds == {w \in [Persons -> [alive : {TRUE}, place : Places, critical : {TRUE},
                                food : {0, Meat}, inv : {FALSE}]] :
                \E p, q \in Persons : w[p].food = 0 /\ w[q].food = Meat}

\* Sound for the safety runs: the CHOOSE of Maintainer picks between proposals
\* that are both made anyway.
MCSymmetry == Permutations(Persons)
=============================================================================
