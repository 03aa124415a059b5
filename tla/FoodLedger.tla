----------------------------- MODULE FoodLedger -----------------------------
(***************************************************************************)
(* What the transfer contract food-transfer-v1 and the harvest of a carcass*)
(* promise of meat, whatever people propose in a tick: no unit appears,    *)
(* vanishes or is counted twice.  A unit passes from a living person who   *)
(* keeps one to a starving person who has none, settles an interaction at  *)
(* most once and between its own parties; or it is taken off the carcass,  *)
(* which may also decay; or it is eaten, which ends starving.  What the    *)
(* dead carried stays theirs.                                              *)
(***************************************************************************)
EXTENDS Integers

CONSTANTS People,       \* the persons of the run
          Interactions  \* names of the interactions a transfer may settle

VARIABLES food,      \* food_inventory of each person
          meat,      \* units left on the carcass
          living,    \* who is alive
          starving,  \* whose hunger is critical
          settled    \* the fulfilled interactions, with giver and receiver

ledgerVars == <<food, meat, living, starving, settled>>

LedgerInit ==
    /\ food \in [People -> Nat]
    /\ meat \in Nat
    /\ living = People
    /\ starving \in SUBSET People
    /\ settled = {}

\* Whatever p does but eat, hunger may become critical.
MayStarve(p) == starving' \in {starving, starving \cup {p}}

\* One unit goes from g to r, for an interaction of theirs or for none.
Give(g, r) ==
    /\ {g, r} \subseteq living
    /\ g # r
    /\ food[g] >= 2
    /\ food[r] = 0
    /\ r \in starving
    /\ food' = [food EXCEPT ![g] = @ - 1, ![r] = 1]
    /\ \/ settled' = settled
       \/ \E i \in Interactions \ {s.id : s \in settled} :
              settled' = settled \cup {[id |-> i, giver |-> g, receiver |-> r]}
    /\ MayStarve(g)
    /\ UNCHANGED <<meat, living>>

\* p eats a unit of meat, or something else.
Eat(p) ==
    /\ p \in living
    /\ starving' = starving \ {p}
    /\ \/ food' = food
       \/ food[p] > 0 /\ food' = [food EXCEPT ![p] = @ - 1]
    /\ UNCHANGED <<meat, living, settled>>

Harvest(p) ==
    /\ p \in living
    /\ meat' \in 0..meat
    /\ food' = [food EXCEPT ![p] = @ + (meat - meat')]
    /\ MayStarve(p)
    /\ UNCHANGED <<living, settled>>

\* The carcass decays.
Rot ==
    /\ meat' \in 0..meat
    /\ UNCHANGED <<food, living, starving, settled>>

Die(p) ==
    /\ living' = living \ {p}
    /\ UNCHANGED <<food, meat, starving, settled>>

LedgerNext ==
    \/ Rot
    \/ \E p \in People :
        \/ \E q \in People : Give(p, q)
        \/ Eat(p)
        \/ Harvest(p)
        \/ Die(p)

LedgerSpec == LedgerInit /\ [][LedgerNext]_ledgerVars
=============================================================================
