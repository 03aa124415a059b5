------------------------------ MODULE MCServer ------------------------------
(* Small instances of Intervention, the whole server, for TLC. *)
EXTENDS Intervention

CONSTANTS e1, e2

\* The first tick touches one entity, the second both, in two events.
MCWorlds ==
    {[t \in 1..MaxTick |-> IF t = 1 THEN <<{e1}>> ELSE <<{e1, e2}, {e2}>>]}
=============================================================================
