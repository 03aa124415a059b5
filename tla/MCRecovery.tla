----------------------------- MODULE MCRecovery -----------------------------
(* Small instances of Recovery for TLC. *)
EXTENDS Recovery, TLC

CONSTANT e1

\* Every tick touches one of the entities.
MCWorlds == {[t \in 1..MaxTick |-> <<{e1}>>]}

\* The tool's terminals are alike and no property names one of them.
OperatorSymmetry == Permutations(Operators)
=============================================================================
