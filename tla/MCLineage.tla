----------------------------- MODULE MCLineage -----------------------------
(* Runs of one seed, forked by two requests at a time.                       *)
EXTENDS Lineage, TLC

CONSTANTS e1, e2

MCSpawned == <<e1, e2>>

\* A tick that touches an entity twice and another never beside an empty one, in
\* either order.
MCWorlds ==
    {w \in [1..MaxTick -> {<<>>, <<{e1}, {e1}>>}] :
        \A t \in 1..(MaxTick - 1) : w[t] # w[t + 1]}

\* Bound: either twins and requests that race, or a second tick.
Narrow ==
    \/ \A r \in DOMAIN run : run[r].tick <= 1
    \/ Cardinality(DOMAIN run \cap Roots) = 1 /\ Cardinality({c \in Slots : ask[c] # Idle}) <= 1

TwinSymmetry == Permutations(Slots) \cup Permutations(Roots)
=============================================================================
