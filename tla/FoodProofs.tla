----------------------------- MODULE FoodProofs -----------------------------
(***************************************************************************)
(* Proofs about FoodInteraction, for any people, places, worlds and bounds *)
(* of the run: its state is well formed, of a kind at most one interaction *)
(* is active between two people, and what the Core commits of the          *)
(* proposals of a tick, in whatever order it meets them, is what FoodLedger*)
(* allows, as long as nobody gathers off a carcass that decays.            *)
(*                                                                         *)
(* A proposal is computed from the pinned view and judged by the current   *)
(* world.  That the ledger's steps follow needs what the judgement does not*)
(* ask: that nothing but a person's own action changes its hunger, and that*)
(* the carcass nobody has claimed is the one of the view (ViewInv,         *)
(* CarcassInv).                                                            *)
(***************************************************************************)
EXTENDS FoodInteraction, SequenceTheorems, TLAPS

\* While proposals are decided nobody comes to life, and only a person's own action
\* changes whether hunger is critical.
ViewInv ==
    view # None => \A p \in Persons :
        /\ people[p].alive => view.people[p].alive
        /\ [type |-> "act", by |-> p] \in todo =>
                people[p].critical = view.people[p].critical

\* The carcass is as the view has it until it decays or someone gathers off it.
CarcassInv ==
    /\ Decay = 0 => [type |-> "decay"] \notin todo
    /\ view # None /\ ([type |-> "decay"] \in todo \/ (Decay = 0 /\ ~carcass.claimed)) =>
          carcass.resource = view.carcass.resource

\* The inductive invariant.
FoodInv ==
    /\ FoodTypeOK
    /\ OneActive
    /\ Len(inters) <= MaxInter
    /\ ViewInv
    /\ CarcassInv

\* Each gatherer is given what the carcass lost, as GatheredOffCarcass says of a step.
GatheredOff ==
    \A p \in Persons :
        carcass' # carcass /\ people'[p].food > people[p].food
        => people'[p].food - people[p].food = carcass.resource - carcass'.resource

-----------------------------------------------------------------------------
\* The operators.

\* Hunger that was critical is so still.
StillHungry(me, now) == me.critical => now.critical

\* Hunger grows or stays, and nothing else changes.
LEMMA GrownOf ==
    ASSUME NEW me \in Person, NEW o \in Grown(me)
    PROVE  o \in Person /\ o.alive = me.alive /\ o.food = me.food /\ StillHungry(me, o)
<1>1. PICK h \in BOOLEAN : (me.critical => h) /\ o = [me EXCEPT !.critical = h]
  BY DEF Grown, Hungry, Person
<1>. QED  BY <1>1 DEF Person, StillHungry

\* Meat gets one unit fewer.
LEMMA FewerOf ==
    ASSUME NEW me \in Person, me.food > 0
    PROVE  LET o == [me EXCEPT !.food = @ - 1]
           IN  /\ o \in Person /\ o.food = me.food - 1
               /\ o.alive = me.alive /\ o.critical = me.critical
<1>1. PICK food \in Nat : food = me.food - 1
  BY DEF Person
<1>2. [me EXCEPT !.food = @ - 1] = [me EXCEPT !.food = food]
  BY <1>1
<1>. QED  BY <1>1, <1>2 DEF Person

\* Eating ends hunger and takes at most a unit of meat, or finds nothing to eat.
LEMMA FedOf ==
    ASSUME NEW me \in Person, NEW o \in Fed(me)
    PROVE  /\ o \in Person /\ o.alive = me.alive
           /\ \/ /\ ~o.critical
                 /\ o.food = me.food \/ (me.food > 0 /\ o.food = me.food - 1)
              \/ o.food = me.food /\ StillHungry(me, o)
<1>1. CASE me.food > 0
  <2>1. PICK food \in Nat : food = me.food - 1
    BY <1>1 DEF Person
  <2>2. o = [me EXCEPT !.critical = FALSE, !.food = food]
    BY <1>1, <2>1 DEF Fed
  <2>. QED  BY <1>1, <2>1, <2>2 DEF Person
<1>2. CASE ~(me.food > 0) /\ me.inv
  <2>1. PICK b \in BOOLEAN : o = [me EXCEPT !.critical = FALSE, !.inv = b]
    BY <1>2 DEF Fed
  <2>. QED  BY <2>1 DEF Person
<1>3. CASE ~(me.food > 0) /\ ~me.inv
  <2>1. o \in Grown(me)
    BY <1>3 DEF Fed
  <2>. QED  BY <2>1, GrownOf
<1>. QED  BY <1>1, <1>2, <1>3

\* What an action makes of a person.
LEMMA OutcomeOf ==
    ASSUME NEW me \in Person, NEW act \in Acts, view.carcass \in Carcass,
           NEW now, now \in Outcomes(me, act)
    PROVE  /\ now \in Person /\ now.alive = me.alive
           /\ act # "eat" => StillHungry(me, now)
           /\ act \notin {"eat", "gather"} => now.food = me.food
           /\ act = "gather" => now.food - me.food \in 0..view.carcass.resource
           /\ act = "eat" => now \in Fed(me)
<1>. DEFINE meat == view.carcass.resource
<1>1. meat \in Nat
  BY DEF Carcass
<1>2. CASE act = "rest" \/ act = "give"
  <2>1. now \in Grown(me)
    BY <1>2 DEF Outcomes
  <2>. QED  BY <1>2, <2>1, GrownOf
<1>3. CASE act = "move"
  <2>1. PICK o \in Grown(me), q \in Steps(me) : now = [o EXCEPT !.place = q]
    BY <1>3 DEF Outcomes
  <2>. QED  BY <1>3, <2>1, GrownOf DEF Person, Steps, StillHungry
<1>4. CASE act = "gather"
  <2>1. PICK o \in Grown(me), n \in {0, LeastOf(Yield, meat)} : now = [o EXCEPT !.food = @ + n]
    BY <1>4 DEF Outcomes
  <2>2. n \in 0..meat
    BY <1>1, FoodAssumption DEF LeastOf
  <2>3. me.food \in Nat /\ o \in Person /\ o.food = me.food
    BY GrownOf DEF Person
  <2>4. PICK food \in Nat : food = me.food + n
    BY <1>1, <2>2, <2>3
  <2>5. now = [o EXCEPT !.food = food]
    BY <2>1, <2>3, <2>4
  <2>6. now \in Person /\ now.food = food /\ now.alive = o.alive /\ now.critical = o.critical
    BY <2>3, <2>5 DEF Person
  <2>7. now.food - me.food = n
    BY <1>1, <2>2, <2>3, <2>4, <2>6
  <2>. QED  BY <1>4, <2>2, <2>6, <2>7, GrownOf DEF StillHungry
<1>5. CASE act = "forage"
  <2>1. PICK o \in Grown(me) : now = [o EXCEPT !.inv = TRUE]
    BY <1>5 DEF Outcomes
  <2>. QED  BY <1>5, <2>1, GrownOf DEF Person, StillHungry
<1>6. CASE act = "build"
  <2>1. PICK o \in Grown(me), b \in {me.inv, FALSE} : now = [o EXCEPT !.inv = b]
    BY <1>6 DEF Outcomes
  <2>2. b \in BOOLEAN
    BY DEF Person
  <2>. QED  BY <1>6, <2>1, <2>2, GrownOf DEF Person, StillHungry
<1>7. CASE act = "eat"
  <2>1. now \in Fed(me)
    BY <1>7 DEF Outcomes
  <2>. QED  BY <1>7, <2>1, FedOf
<1>. QED  BY <1>2, <1>3, <1>4, <1>5, <1>6, <1>7, FoodAssumption

\* What a person may propose to do: at most it gives, gathers or eats.
ActionBy(me, p, a) ==
    /\ a.act \in Acts /\ a.now \in Person /\ a.now.alive = me.alive
    /\ a.act # "eat" => StillHungry(me, a.now)
    /\ a.act \notin {"eat", "gather", "give"} => a.now.food = me.food
    /\ a.act = "eat" => a.now \in Fed(me)
    /\ a.act = "gather" => a.now.food - me.food \in 0..view.carcass.resource
    /\ a.act = "give" => /\ a.gift \in Persons /\ a.now.food = me.food - 1
                         /\ Transferable(view.people, p, a.gift)
    /\ a.act # "give" => a.gift = None

LEMMA ActionOf ==
    ASSUME NEW p \in Persons, NEW me \in Person, me = view.people[p],
           view.carcass \in Carcass, NEW a \in Actions(p)
    PROVE  ActionBy(me, p, a)
<1>1. CASE \E act \in Acts \ {"give"} :
              a \in [act : {act}, gift : {None}, now : Outcomes(me, act)]
  <2>1. PICK act \in Acts \ {"give"} :
              a \in [act : {act}, gift : {None}, now : Outcomes(me, act)]
    BY <1>1
  <2>2. a.act = act /\ a.gift = None /\ a.now \in Outcomes(me, act)
    BY <2>1
  <2>. QED  BY <2>1, <2>2, OutcomeOf DEF ActionBy
<1>2. CASE a \in [act : Acts \cap {"give"},
                  gift : {r \in Persons : Transferable(view.people, p, r)},
                  now : Lessened(Outcomes(me, "give"))]
  <2>1. /\ a.act = "give" /\ "give" \in Acts /\ a.gift \in Persons
        /\ Transferable(view.people, p, a.gift) /\ a.now \in Lessened(Outcomes(me, "give"))
    BY <1>2
  <2>2. PICK o \in Outcomes(me, "give") : a.now = [o EXCEPT !.food = @ - 1]
    BY <2>1 DEF Lessened
  <2>3. o \in Person /\ o.alive = me.alive /\ StillHungry(me, o) /\ o.food = me.food
    BY <2>1, OutcomeOf
  <2>4. me.food >= 2
    BY <2>1 DEF Transferable, Surplus
  <2>5. /\ a.now \in Person /\ a.now.food = me.food - 1
        /\ a.now.alive = me.alive /\ StillHungry(me, a.now)
    BY <2>2, <2>3, <2>4, FewerOf DEF Person, StillHungry
  <2>. QED  BY <2>1, <2>5 DEF ActionBy
<1>. DEFINE acts   == {act \in Acts \ {"give"} : act = "gather" => view.carcass.resource > 0}
            own(act) == [act : {act}, gift : {None}, now : Outcomes(me, act)]
            gifts  == [act : Acts \cap {"give"},
                       gift : {r \in Persons : Transferable(view.people, p, r)},
                       now : Lessened(Outcomes(me, "give"))]
<1>3. Actions(p) = (UNION {own(act) : act \in acts}) \cup gifts
  BY Zenon DEF Actions
<1>4. CASE a \in UNION {own(act) : act \in acts}
  <2>1. PICK act \in acts : a \in own(act)
    BY <1>4, Zenon
  <2>2. act \in Acts \ {"give"}
    OBVIOUS
  <2>. QED  BY <1>1, <2>1, <2>2
<1>5. CASE a \in gifts
  BY <1>2, <1>5
<1>. HIDE DEF own, acts, gifts
<1>. QED  BY <1>3, <1>4, <1>5

-----------------------------------------------------------------------------
\* Deciding a proposal.

\* What Decide leaves: the proposal is off the list, the view stays until the end.
LEMMA Decided ==
    ASSUME FoodTypeOK, NEW s \in todo, Decide(s)
    PROVE  /\ s \in Proposal /\ view # None /\ view \in World
           /\ todo' = todo \ {s}
           /\ view' # None => view' = view
           /\ view' = None <=> todo' = {}
           /\ s.type \in Environment \/ [type |-> "decay"] \notin todo
<1>1. view # None /\ view \in World /\ s \in Proposal
  BY DEF FoodTypeOK
<1>2. todo' = todo \ {s} /\ view' = IF todo' = {} THEN None ELSE view
  BY DEF Decide
<1>3. s.type \in Environment \/ [type |-> "decay"] \notin todo
  BY DEF Decide, Environment
<1>. QED  BY <1>1, <1>2, <1>3

\* Well-formedness is kept when the parts of the world keep their types and no
\* interaction goes.
LEMMA DecidedType ==
    ASSUME FoodTypeOK, NEW s \in todo, Decide(s),
           people' \in [Persons -> Person], carcass' \in Carcass,
           inters' \in Seq(Interaction), Len(inters') >= Len(inters)
    PROVE  FoodTypeOK'
<1>1. todo' \subseteq Proposal /\ (view' = None <=> todo' = {})
  BY Decided DEF FoodTypeOK
<1>2. ASSUME view' # None
      PROVE  /\ view' \in World /\ Len(view'.inters) <= Len(inters')
             /\ \A t \in todo' : "id" \in DOMAIN t => t.id \in DOMAIN view'.inters
  <2>1. view' = view /\ view # None /\ todo' \subseteq todo
    BY <1>2, Decided
  <2>2. view \in World /\ Len(view.inters) <= Len(inters) /\ inters \in Seq(Interaction)
    BY <2>1 DEF FoodTypeOK
  <2>3. Len(view.inters) \in Nat /\ Len(inters) \in Nat /\ Len(inters') \in Nat
    BY <2>2, LenProperties DEF World
  <2>4. \A t \in todo' : "id" \in DOMAIN t => t.id \in DOMAIN view.inters
    BY <2>1 DEF FoodTypeOK
  <2>. QED  BY <2>1, <2>2, <2>3, <2>4
<1>. QED  BY <1>1, <1>2 DEF FoodTypeOK

\* The view stays comparable with the world.
LEMMA DecidedView ==
    ASSUME FoodTypeOK, ViewInv, NEW s \in todo, Decide(s),
           \A p \in Persons : people'[p].alive => people[p].alive,
           \A p \in Persons : \/ people'[p].critical = people[p].critical
                              \/ s = [type |-> "act", by |-> p]
    PROVE  ViewInv'
<1>1. todo' = todo \ {s} /\ (view' # None => view' = view /\ view # None)
  BY Decided
<1>. QED  BY <1>1 DEF ViewInv

LEMMA DecidedCarcass ==
    ASSUME FoodTypeOK, CarcassInv, NEW s \in todo, Decide(s), UNCHANGED carcass
    PROVE  CarcassInv'
<1>1. todo' = todo \ {s} /\ (view' # None => view' = view /\ view # None)
  BY Decided
<1>. QED  BY <1>1 DEF CarcassInv

\* Interactions whose people and kind stay, and that become active only from active,
\* are no more equivalent than before.
LEMMA StillOneActive ==
    ASSUME OneActive, DOMAIN inters' = DOMAIN inters,
           \A i \in DOMAIN inters :
              /\ inters'[i].kind = inters[i].kind
              /\ inters'[i].from = inters[i].from /\ inters'[i].to = inters[i].to
              /\ IsActive(inters'[i]) => IsActive(inters[i])
    PROVE  OneActive'
BY DEF OneActive

\* The status of an interaction is set.
LEMMA BecomesOf ==
    ASSUME inters \in Seq(Interaction), NEW i \in DOMAIN inters,
           NEW status \in Statuses, Becomes(i, status)
    PROVE  /\ inters' \in Seq(Interaction) /\ Len(inters') = Len(inters)
           /\ DOMAIN inters' = DOMAIN inters
           /\ \A j \in DOMAIN inters : j # i => inters'[j] = inters[j]
           /\ inters'[i].status = status /\ inters'[i].kind = inters[i].kind
           /\ inters'[i].from = inters[i].from /\ inters'[i].to = inters[i].to
<1>1. DOMAIN inters = 1..Len(inters) /\ inters[i] \in Interaction
  BY ElementOfSeq, LenProperties
<1>2. PICK x \in Interaction : x = [inters[i] EXCEPT !.status = status]
  BY <1>1 DEF Interaction
<1>3. /\ x.status = status /\ x.kind = inters[i].kind
      /\ x.from = inters[i].from /\ x.to = inters[i].to
  BY <1>1, <1>2 DEF Interaction
<1>4. inters' = [inters EXCEPT ![i] = x]
  BY <1>2 DEF Becomes
<1>. QED  BY <1>1, <1>3, <1>4, ExceptSeq

\* The fields of a proposal.
LEMMA ProposalOf ==
    ASSUME NEW s \in Proposal
    PROVE  /\ s.type = "decay" => s = [type |-> "decay"]
           /\ s.type \in {"live", "act", "create"} =>
                s.by \in Persons /\ s = [type |-> s.type, by |-> s.by]
           /\ s.type \in {"accept", "fulfil", "expire", "invalidate"} =>
                "id" \in DOMAIN s
BY DEF Proposal

\* A proposal of a protocol step speaks of an interaction there is.
LEMMA NamedInteraction ==
    ASSUME FoodTypeOK, NEW s \in todo, s.type \in {"accept", "fulfil", "expire", "invalidate"}
    PROVE  s.id \in DOMAIN inters
<1>1. view # None /\ s \in Proposal
  BY DEF FoodTypeOK
<1>2. s.id \in DOMAIN view.inters /\ view \in World /\ Len(view.inters) <= Len(inters)
  BY <1>1, ProposalOf DEF FoodTypeOK
<1>3. Len(view.inters) \in Nat /\ DOMAIN view.inters = 1..Len(view.inters)
  BY <1>2, LenProperties DEF World
<1>4. Len(inters) \in Nat /\ DOMAIN inters = 1..Len(inters)
  BY LenProperties DEF FoodTypeOK
<1>. QED  BY <1>2, <1>3, <1>4

-----------------------------------------------------------------------------
\* What is kept by every step, and what the ledger sees of it.

\* Nobody gathers off a carcass that decays.
Undisturbed == Decay = 0 \/ "gather" \notin Acts

Step ==
    /\ FoodInv'
    /\ Undisturbed => [Ledger!LedgerNext]_(Ledger!ledgerVars)
    /\ Decay = 0 => GatheredOff

\* The ledger's variables.
Food     == [p \in Persons |-> people[p].food]
Living   == {p \in Persons : people[p].alive}
Starving == {p \in Persons : people[p].critical}
Settled  == {[id |-> i, giver |-> Giver(inters[i]), receiver |-> Receiver(inters[i])] :
                i \in {i \in DOMAIN inters : inters[i].status = "fulfilled"}}

\* Interactions neither fulfilled nor renamed settle nothing.
LEMMA SettledSame ==
    ASSUME DOMAIN inters \subseteq DOMAIN inters',
           \A i \in DOMAIN inters :
              /\ inters'[i].kind = inters[i].kind
              /\ inters'[i].from = inters[i].from /\ inters'[i].to = inters[i].to
              /\ inters'[i].status = "fulfilled" <=> inters[i].status = "fulfilled",
           \A i \in DOMAIN inters' \ DOMAIN inters : inters'[i].status # "fulfilled"
    PROVE  Settled' = Settled
<1>1. {i \in DOMAIN inters : inters[i].status = "fulfilled"}'
        = {i \in DOMAIN inters : inters[i].status = "fulfilled"}
  OBVIOUS
<1>2. \A i \in DOMAIN inters : /\ Giver(inters'[i]) = Giver(inters[i])
                               /\ Receiver(inters'[i]) = Receiver(inters[i])
  BY DEF Giver, Receiver
<1>. QED  BY <1>1, <1>2 DEF Settled

\* Nothing the ledger keeps has changed.
LEMMA LedgerStutters ==
    ASSUME Food' = Food, carcass'.resource = carcass.resource, Living' = Living,
           Starving' = Starving, Settled' = Settled
    PROVE  [Ledger!LedgerNext]_(Ledger!ledgerVars)
BY DEF Ledger!ledgerVars, Food, Living, Starving, Settled

\* Nobody has anything more, so nobody has gathered.
LEMMA NothingGathered ==
    ASSUME \A p \in Persons : ~(people'[p].food > people[p].food)
    PROVE  GatheredOff
BY DEF GatheredOff

\* Only the proposals change: a rejection, a life that goes on, nothing created.
LEMMA QuietStep ==
    ASSUME FoodInv, NEW s \in todo, Decide(s), UNCHANGED <<people, carcass, inters>>
    PROVE  Step
<1>1. FoodTypeOK /\ ViewInv /\ CarcassInv
  BY DEF FoodInv
<1>2. Len(inters) \in Nat
  BY <1>1, LenProperties DEF FoodTypeOK
<1>3. FoodTypeOK'
  BY <1>1, <1>2, DecidedType DEF FoodTypeOK
<1>4. ViewInv' /\ CarcassInv'
  BY <1>1, DecidedView, DecidedCarcass
<1>5. OneActive' /\ Len(inters') <= MaxInter
  BY DEF FoodInv, OneActive
<1>6. [Ledger!LedgerNext]_(Ledger!ledgerVars)
  BY LedgerStutters DEF Food, Living, Starving, Settled
<1>7. GatheredOff
  BY DEF GatheredOff
<1>. QED  BY <1>3, <1>4, <1>5, <1>6, <1>7 DEF Step, FoodInv

\* A proposal that only sets the status of an active interaction, not to fulfilled.
LEMMA StatusStep ==
    ASSUME FoodInv, NEW s \in todo, Decide(s), UNCHANGED <<people, carcass>>,
           NEW i \in DOMAIN inters, IsActive(inters[i]),
           NEW status \in Statuses \ {"fulfilled"}, Becomes(i, status)
    PROVE  Step
<1>1. FoodTypeOK /\ ViewInv /\ CarcassInv /\ OneActive /\ inters \in Seq(Interaction)
  BY DEF FoodInv, FoodTypeOK
<1>2. /\ inters' \in Seq(Interaction) /\ Len(inters') = Len(inters)
      /\ DOMAIN inters' = DOMAIN inters
      /\ \A j \in DOMAIN inters : j # i => inters'[j] = inters[j]
      /\ inters'[i].status = status /\ inters'[i].kind = inters[i].kind
      /\ inters'[i].from = inters[i].from /\ inters'[i].to = inters[i].to
  BY <1>1, BecomesOf
<1>3. FoodTypeOK'
  BY <1>1, <1>2, LenProperties, DecidedType DEF FoodTypeOK
<1>4. ViewInv' /\ CarcassInv'
  BY <1>1, DecidedView, DecidedCarcass
<1>5. OneActive'
  BY <1>1, <1>2, StillOneActive
<1>6. Len(inters') <= MaxInter
  BY <1>2 DEF FoodInv
<1>7. [Ledger!LedgerNext]_(Ledger!ledgerVars)
  <2>1. inters[i].status # "fulfilled"
    BY DEF IsActive, Active
  <2>2. Settled' = Settled
    BY <1>2, <2>1, SettledSame
  <2>. QED  BY <2>2, LedgerStutters DEF Food, Living, Starving
<1>8. GatheredOff
  BY DEF GatheredOff
<1>. QED  BY <1>3, <1>4, <1>5, <1>6, <1>7, <1>8 DEF Step, FoodInv

\* A death.
LEMMA DieStep ==
    ASSUME FoodInv, NEW s \in todo, Die(s)
    PROVE  Step
<1>1. FoodTypeOK /\ ViewInv /\ CarcassInv /\ Decide(s) /\ UNCHANGED <<carcass, inters>>
  BY DEF FoodInv, Die
<1>2. s.by \in Persons
  BY <1>1, Decided, ProposalOf DEF Die
<1>3. PICK q \in Persons : q = s.by
  BY <1>2
<1>4. people \in [Persons -> Person] /\ people[q] \in Person
  BY <1>1 DEF FoodTypeOK
<1>5. PICK dead \in Person : dead = [people[q] EXCEPT !.alive = FALSE]
  BY <1>4 DEF Person
<1>6. /\ ~dead.alive /\ dead.food = people[q].food
      /\ dead.critical = people[q].critical
  BY <1>4, <1>5 DEF Person
<1>7. people' = [people EXCEPT ![q] = dead]
  BY <1>3, <1>5 DEF Die
<1>8. people' \in [Persons -> Person] /\ people'[q] = dead
      /\ \A p \in Persons : p # q => people'[p] = people[p]
  BY <1>4, <1>7
<1>9. FoodTypeOK'
  BY <1>1, <1>8, DecidedType, LenProperties DEF FoodTypeOK
<1>10. ViewInv'
  BY <1>1, <1>6, <1>8, DecidedView
<1>11. CarcassInv'
  BY <1>1, DecidedCarcass
<1>12. OneActive' /\ Len(inters') <= MaxInter
  BY <1>1 DEF FoodInv, OneActive
<1>13. Food' = Food /\ Starving' = Starving /\ Settled' = Settled
  BY <1>1, <1>6, <1>8 DEF Food, Starving, Settled
<1>14. Living' = Living \ {q}
  BY <1>6, <1>8 DEF Living
<1>15. Ledger!Die(q)
  BY <1>1, <1>13, <1>14 DEF Ledger!Die, Food, Living, Starving, Settled
<1>16. [Ledger!LedgerNext]_(Ledger!ledgerVars)
  BY <1>15 DEF Ledger!LedgerNext
<1>17. \A p \in Persons : people[p].food \in Nat /\ people'[p].food = people[p].food
  BY <1>4, <1>6, <1>8 DEF Person
<1>18. GatheredOff
  BY <1>17 DEF GatheredOff
<1>. QED  BY <1>9, <1>10, <1>11, <1>12, <1>16, <1>18 DEF Step, FoodInv

\* The carcass decays, from what it was when the tick began: nobody has gathered yet.
LEMMA RotStep ==
    ASSUME FoodInv, NEW s \in todo, Rot(s)
    PROVE  Step
<1>1. FoodTypeOK /\ ViewInv /\ CarcassInv /\ Decide(s) /\ UNCHANGED <<people, inters>>
  BY DEF FoodInv, Rot
<1>2. s = [type |-> "decay"] /\ todo' = todo \ {s} /\ view # None /\ view \in World
  BY <1>1, Decided, ProposalOf DEF Rot
<1>3. Decay # 0 /\ carcass.resource = view.carcass.resource /\ [type |-> "decay"] \notin todo'
  BY <1>1, <1>2 DEF CarcassInv
<1>4. carcass \in Carcass /\ carcass.resource \in Nat /\ Decay \in Nat
  BY <1>1, FoodAssumption DEF FoodTypeOK, Carcass
<1>5. PICK left \in 0..carcass.resource :
        left = IF view.carcass.resource > Decay THEN view.carcass.resource - Decay ELSE 0
  BY <1>3, <1>4
<1>6. carcass' = [carcass EXCEPT !.resource = left]
  BY <1>5 DEF Rot
<1>7. carcass' \in Carcass /\ carcass'.resource = left
  BY <1>4, <1>6 DEF Carcass
<1>8. FoodTypeOK'
  BY <1>1, <1>7, DecidedType, LenProperties DEF FoodTypeOK
<1>9. ViewInv'
  BY <1>1, DecidedView
<1>10. CarcassInv'
  BY <1>3 DEF CarcassInv
<1>11. OneActive' /\ Len(inters') <= MaxInter
  BY <1>1 DEF FoodInv, OneActive
<1>12. Ledger!Rot
  BY <1>1, <1>7 DEF Ledger!Rot
<1>13. [Ledger!LedgerNext]_(Ledger!ledgerVars)
  BY <1>12 DEF Ledger!LedgerNext
<1>14. \A p \in Persons : people[p].food \in Nat /\ people'[p].food = people[p].food
  BY <1>1 DEF FoodTypeOK, Person
<1>15. GatheredOff
  BY <1>14 DEF GatheredOff
<1>. QED  BY <1>8, <1>9, <1>10, <1>11, <1>13, <1>15 DEF Step, FoodInv

\* A new interaction: none of its kind between the two was active.
LEMMA CreateStep ==
    ASSUME FoodInv, NEW s \in todo, Create(s)
    PROVE  Step
<1>1. FoodTypeOK /\ ViewInv /\ CarcassInv /\ Decide(s) /\ UNCHANGED <<people, carcass>>
  BY DEF FoodInv, Create
<1>2. s.by \in Persons
  BY <1>1, Decided, ProposalOf DEF Create
<1>3. PICK c \in [kind : Kinds, to : Persons] :
        /\ ~ActiveEquivalent(inters, c.kind, s.by, c.to)
        /\ inters' = Append(inters, [kind |-> c.kind, from |-> s.by, to |-> c.to,
                                     age |-> 0, status |-> "pending"])
  BY DEF Create, Creatable
<1>4. PICK x \in Interaction : x = [kind |-> c.kind, from |-> s.by, to |-> c.to,
                                    age |-> 0, status |-> "pending"]
  <2>1. 0 \in 0..Expiry /\ "pending" \in Statuses
    BY FoodAssumption DEF Statuses, Active
  <2>2. [kind |-> c.kind, from |-> s.by, to |-> c.to, age |-> 0, status |-> "pending"]
            \in Interaction
    BY <1>2, <2>1 DEF Interaction
  <2>. QED  BY <2>2
<1>5. inters \in Seq(Interaction) /\ Len(inters) < MaxInter /\ Len(inters) \in Nat
  BY <1>1, LenProperties DEF FoodTypeOK, Create
<1>6. DEFINE n == Len(inters) + 1
<1>7. /\ inters' \in Seq(Interaction) /\ Len(inters') = n
      /\ DOMAIN inters = 1..Len(inters) /\ DOMAIN inters' = 1..n
      /\ \A i \in DOMAIN inters : inters'[i] = inters[i]
      /\ inters'[n] = x
  BY <1>3, <1>4, <1>5, AppendProperties, LenProperties
<1>8. FoodTypeOK'
  BY <1>1, <1>5, <1>7, DecidedType DEF FoodTypeOK
<1>9. ViewInv' /\ CarcassInv'
  BY <1>1, DecidedView, DecidedCarcass
<1>10. ASSUME NEW i \in DOMAIN inters,
              IsActive(inters[i]), inters[i].kind = x.kind,
              inters[i].from = x.from, inters[i].to = x.to
       PROVE  FALSE
  BY <1>3, <1>4, <1>10 DEF ActiveEquivalent
<1>11. \A i \in DOMAIN inters' : i \in DOMAIN inters \/ i = n
  BY <1>5, <1>7
<1>12. OneActive'
  BY <1>7, <1>10, <1>11 DEF FoodInv, OneActive
<1>13. Len(inters') <= MaxInter
  BY <1>5, <1>7, FoodAssumption
<1>14. [Ledger!LedgerNext]_(Ledger!ledgerVars)
  <2>1. \A i \in DOMAIN inters' \ DOMAIN inters : inters'[i].status # "fulfilled"
    BY <1>4, <1>7, <1>11
  <2>2. DOMAIN inters \subseteq DOMAIN inters'
    BY <1>5, <1>7
  <2>3. Settled' = Settled
    BY <1>7, <2>1, <2>2, SettledSame
  <2>. QED  BY <1>1, <2>3, LedgerStutters DEF Food, Living, Starving
<1>15. GatheredOff
  BY <1>1 DEF GatheredOff
<1>. QED  BY <1>8, <1>9, <1>12, <1>13, <1>14, <1>15 DEF Step, FoodInv

\* A unit goes from g to r, as validate_food_transfer has it.
LEMMA LedgerGives ==
    ASSUME people \in [Persons -> Person], people' \in [Persons -> Person],
           NEW g \in Persons, NEW r \in Persons,
           people[g].alive, people[r].alive, people[g].food >= Surplus, NeedsFood(people, r),
           \A p \in Persons : people'[p].alive = people[p].alive,
           \A p \in Persons \ {g} : people'[p].critical = people[p].critical,
           StillHungry(people[g], people'[g]),
           people'[g].food = people[g].food - 1, people'[r].food = 1,
           \A p \in Persons \ {g, r} : people'[p].food = people[p].food,
           carcass' = carcass,
           \/ Settled' = Settled
           \/ \E i \in 1..MaxInter \ {e.id : e \in Settled} :
                  Settled' = Settled \cup {[id |-> i, giver |-> g, receiver |-> r]}
    PROVE  Ledger!Give(g, r)
<1>1. people[g].food \in Nat /\ people[r].food = 0 /\ people[r].critical /\ g # r
  BY DEF Person, NeedsFood, Surplus
<1>2. Living' = Living /\ {g, r} \subseteq Living /\ r \in Starving
  BY <1>1 DEF Living, Starving
<1>3. Food' = [Food EXCEPT ![g] = @ - 1, ![r] = 1]
  BY <1>1 DEF Food
<1>4. Food[g] >= 2 /\ Food[r] = 0
  BY <1>1 DEF Food, Surplus
<1>5. Ledger!MayStarve(g)
  <2>1. Starving' \in {Starving, Starving \cup {g}}
    <3>1. CASE people'[g].critical
      BY <3>1 DEF Starving
    <3>2. CASE ~people'[g].critical
      BY <3>2 DEF Starving, StillHungry
    <3>. QED  BY <3>1, <3>2
  <2>. QED  BY <2>1 DEF Ledger!MayStarve, Starving
<1>. QED  BY <1>1, <1>2, <1>3, <1>4, <1>5
     DEF Ledger!Give, Food, Living, Starving, Settled

\* A fulfilment passes a unit between the parties of the interaction it settles.
LEMMA FulfilStep ==
    ASSUME FoodInv, NEW s \in todo, Fulfil(s)
    PROVE  Step
<1>1. FoodTypeOK /\ ViewInv /\ CarcassInv /\ OneActive /\ Decide(s) /\ UNCHANGED carcass
  BY DEF FoodInv, Fulfil
<1>2. inters \in Seq(Interaction) /\ Len(inters) <= MaxInter /\ Len(inters) \in Nat
      /\ DOMAIN inters = 1..Len(inters)
  BY <1>1, LenProperties DEF FoodInv, FoodTypeOK
<1>3. s.id \in DOMAIN inters
  BY <1>1, NamedInteraction DEF Fulfil
<1>4. PICK i \in DOMAIN inters : i = s.id
  BY <1>3
<1>5. PICK x \in Interaction : x = inters[i]
  BY <1>2, ElementOfSeq
<1>6. FulfilValid(x) /\ Becomes(i, "fulfilled")
      /\ people' = [people EXCEPT ![Giver(x)].food = @ - 1, ![Receiver(x)].food = 1]
  BY <1>4, <1>5 DEF Fulfil
<1>7. PICK g \in Persons, r \in Persons :
        /\ g = Giver(x) /\ r = Receiver(x) /\ {x.from, x.to} = {g, r}
  BY DEF Interaction, Giver, Receiver
<1>8. /\ people[x.from].alive /\ people[x.to].alive
      /\ ~(people[g].food < Surplus) /\ NeedsFood(people, r)
  BY <1>6, <1>7, NoneAssumption DEF FulfilValid, Reason
<1>9. people \in [Persons -> Person] /\ people[g] \in Person /\ people[r] \in Person
  BY <1>1 DEF FoodTypeOK
<1>10. /\ people[g].alive /\ people[r].alive /\ people[g].food >= Surplus
       /\ people[g].food > 0 /\ people[r].food = 0 /\ g # r
  <2>1. people[g].alive /\ people[r].alive
    <3>1. (x.from = g \/ x.to = g) /\ (x.from = r \/ x.to = r)
      BY <1>7
    <3>. QED  BY <1>8, <3>1
  <2>2. people[g].food \in Nat /\ people[r].food = 0
    BY <1>8, <1>9 DEF Person, NeedsFood
  <2>. QED  BY <1>8, <2>1, <2>2 DEF Surplus
<1>11. PICK giver \in Person :
         /\ giver = [people[g] EXCEPT !.food = @ - 1] /\ giver.food = people[g].food - 1
         /\ giver.alive = people[g].alive /\ giver.critical = people[g].critical
  BY <1>9, <1>10, FewerOf
<1>12. PICK fed \in Person :
         /\ fed = [people[r] EXCEPT !.food = 1] /\ fed.food = 1
         /\ fed.alive = people[r].alive /\ fed.critical = people[r].critical
  <2>1. [people[r] EXCEPT !.food = 1] \in Person
    BY <1>9 DEF Person
  <2>. QED  BY <1>9, <2>1 DEF Person
<1>13. people' = [people EXCEPT ![g] = giver, ![r] = fed]
  BY <1>6, <1>7, <1>9, <1>10, <1>11, <1>12
<1>14. /\ people' \in [Persons -> Person] /\ people'[g] = giver /\ people'[r] = fed
       /\ \A p \in Persons \ {g, r} : people'[p] = people[p]
  BY <1>9, <1>10, <1>13
<1>15. /\ inters' \in Seq(Interaction) /\ Len(inters') = Len(inters)
       /\ DOMAIN inters' = DOMAIN inters
       /\ \A j \in DOMAIN inters : j # i => inters'[j] = inters[j]
       /\ inters'[i].status = "fulfilled" /\ inters'[i].kind = inters[i].kind
       /\ inters'[i].from = inters[i].from /\ inters'[i].to = inters[i].to
  BY <1>2, <1>6, BecomesOf DEF Statuses
<1>16. FoodTypeOK'
  BY <1>1, <1>2, <1>14, <1>15, DecidedType DEF FoodTypeOK
<1>17. ViewInv'
  BY <1>1, <1>11, <1>12, <1>14, DecidedView
<1>18. CarcassInv'
  BY <1>1, DecidedCarcass
<1>19. OneActive'
  <2>1. ~IsActive(inters'[i])
    BY <1>15 DEF IsActive, Active
  <2>. QED  BY <1>1, <1>15, <2>1, StillOneActive
<1>20. Len(inters') <= MaxInter
  BY <1>2, <1>15
<1>21. Settled' = Settled \cup {[id |-> i, giver |-> g, receiver |-> r]}
  <2>. DEFINE Entry(j) == [id |-> j, giver |-> Giver(inters[j]), receiver |-> Receiver(inters[j])]
              done == {j \in DOMAIN inters : inters[j].status = "fulfilled"}
              done2 == {j \in DOMAIN inters' : inters'[j].status = "fulfilled"}
              Entry2(j) == [id |-> j, giver |-> Giver(inters'[j]),
                            receiver |-> Receiver(inters'[j])]
  <2>1. done2 = done \cup {i}
    BY <1>15
  <2>2. \A j \in DOMAIN inters : Entry2(j) = Entry(j)
    BY <1>15 DEF Giver, Receiver
  <2>3. Entry(i) = [id |-> i, giver |-> g, receiver |-> r]
    BY <1>5, <1>7
  <2>4. Settled = {Entry(j) : j \in done} /\ Settled' = {Entry2(j) : j \in done2}
    BY DEF Settled
  <2>5. done \subseteq DOMAIN inters /\ done2 \subseteq DOMAIN inters
    BY <1>15
  <2>. HIDE DEF Entry, Entry2, done, done2
  <2>. QED  BY <2>1, <2>2, <2>3, <2>4, <2>5
<1>22. i \in 1..MaxInter \ {e.id : e \in Settled}
  <2>1. inters[i].status # "fulfilled"
    BY <1>5, <1>6 DEF FulfilValid
  <2>2. i \in 1..MaxInter
    BY <1>2, FoodAssumption
  <2>. QED  BY <2>1, <2>2 DEF Settled
<1>23. Ledger!Give(g, r)
  <2>1. \A p \in Persons : people'[p].alive = people[p].alive
    BY <1>11, <1>12, <1>14
  <2>2. \A p \in Persons : people'[p].critical = people[p].critical
    BY <1>11, <1>12, <1>14
  <2>3. \A p \in Persons \ {g, r} : people'[p].food = people[p].food
    BY <1>14
  <2>4. people'[g].food = people[g].food - 1 /\ people'[r].food = 1
    BY <1>11, <1>12, <1>14
  <2>5. StillHungry(people[g], people'[g])
    BY <2>2 DEF StillHungry
  <2>6. NeedsFood(people, r) /\ people[g].food >= Surplus /\ carcass' = carcass
    BY <1>1, <1>8, <1>10
  <2>. QED  BY <1>9, <1>10, <1>14, <1>21, <1>22, <2>1, <2>2, <2>3, <2>4, <2>5, <2>6, LedgerGives
<1>24. [Ledger!LedgerNext]_(Ledger!ledgerVars)
  BY <1>23 DEF Ledger!LedgerNext
<1>25. GatheredOff
  BY <1>1 DEF GatheredOff
<1>. QED  BY <1>16, <1>17, <1>18, <1>19, <1>20, <1>24, <1>25 DEF Step, FoodInv

\* What p gets is what the carcass loses.
LEMMA LedgerHarvests ==
    ASSUME people \in [Persons -> Person], people' \in [Persons -> Person],
           carcass'.resource \in 0..carcass.resource, carcass.resource \in Nat,
           NEW p \in Persons, people[p].alive,
           \A q \in Persons : people'[q].alive = people[q].alive,
           \A q \in Persons \ {p} : people'[q].critical = people[q].critical,
           StillHungry(people[p], people'[p]),
           people'[p].food - people[p].food = carcass.resource - carcass'.resource,
           \A q \in Persons \ {p} : people'[q].food = people[q].food,
           UNCHANGED inters
    PROVE  Ledger!Harvest(p)
<1>1. Living' = Living /\ p \in Living /\ Settled' = Settled
  BY DEF Living, Settled
<1>2. PICK got \in Nat : got = carcass.resource - carcass'.resource
  OBVIOUS
<1>3. people'[p].food = people[p].food + got
  BY <1>2 DEF Person
<1>4. Food' = [Food EXCEPT ![p] = @ + got]
  BY <1>3 DEF Food
<1>5. Starving' \in {Starving, Starving \cup {p}}
  <2>1. CASE people'[p].critical
    BY <2>1 DEF Starving
  <2>2. CASE ~people'[p].critical
    BY <2>2 DEF Starving, StillHungry
  <2>. QED  BY <2>1, <2>2
<1>. QED  BY <1>1, <1>2, <1>4, <1>5
     DEF Ledger!Harvest, Ledger!MayStarve, Food, Living, Starving, Settled

\* p is no longer hungry, and has at most a unit of meat fewer.
LEMMA LedgerEats ==
    ASSUME people \in [Persons -> Person], people' \in [Persons -> Person],
           NEW p \in Persons, people[p].alive, ~people'[p].critical,
           \A q \in Persons : people'[q].alive = people[q].alive,
           \A q \in Persons \ {p} : people'[q].critical = people[q].critical,
           \/ people'[p].food = people[p].food
           \/ people[p].food > 0 /\ people'[p].food = people[p].food - 1,
           \A q \in Persons \ {p} : people'[q].food = people[q].food,
           UNCHANGED <<carcass, inters>>
    PROVE  Ledger!Eat(p)
<1>1. Living' = Living /\ p \in Living /\ Settled' = Settled
  BY DEF Living, Settled
<1>2. \/ Food' = Food
      \/ Food[p] > 0 /\ Food' = [Food EXCEPT ![p] = @ - 1]
  BY DEF Food
<1>3. Starving' = Starving \ {p}
  BY DEF Starving
<1>. QED  BY <1>1, <1>2, <1>3 DEF Ledger!Eat, Food, Living, Starving, Settled

\* An action: its outcome was computed from the view, but the person's food, life
\* and hunger are those of the view still.
LEMMA ActStep ==
    ASSUME FoodInv, NEW s \in todo, Act(s)
    PROVE  Step
<1>1. FoodTypeOK /\ ViewInv /\ CarcassInv /\ Decide(s) /\ s.type = "act" /\ UNCHANGED inters
  BY DEF FoodInv, Act
<1>2. /\ s.by \in Persons /\ s = [type |-> "act", by |-> s.by]
      /\ view # None /\ view \in World /\ [type |-> "decay"] \notin todo
  BY <1>1, Decided, ProposalOf DEF Environment
<1>3. PICK p \in Persons : p = s.by
  BY <1>2
<1>4. PICK me \in Person : me = view.people[p]
  BY <1>2 DEF World
<1>5. PICK a \in Actions(p) :
        /\ ActionValid(p, a)
        /\ people' = [q \in Persons |->
                        IF q = p THEN a.now
                        ELSE IF q = a.gift THEN [people[q] EXCEPT !.food = 1]
                        ELSE people[q]]
        /\ carcass' = IF a.act = "gather" /\ a.now.food - me.food > 0
                      THEN [resource |-> view.carcass.resource - (a.now.food - me.food),
                            claimed  |-> TRUE]
                      ELSE carcass
  BY <1>3, <1>4 DEF Act
<1>6. view.carcass \in Carcass
  BY <1>2 DEF World
<1>7. ActionBy(me, p, a)
  BY <1>4, <1>6, ActionOf
<1>8. people \in [Persons -> Person] /\ people[p] \in Person /\ carcass \in Carcass
  BY <1>1 DEF FoodTypeOK
<1>9. /\ people[p].alive = TRUE /\ me.alive = TRUE
      /\ people[p].food = me.food /\ people[p].critical = me.critical
      /\ me.food \in Nat
  BY <1>1, <1>2, <1>3, <1>4, <1>5, <1>8 DEF ViewInv, ActionValid, Person
<1>10. a.now \in Person /\ a.now.alive = TRUE /\ a.now.food \in Nat
  BY <1>7, <1>9 DEF ActionBy, Person
<1>11. /\ people' \in [Persons -> Person] /\ people'[p] = a.now
       /\ \A q \in Persons \ {p, a.gift} : people'[q] = people[q]
       /\ \A q \in Persons \ {p} :
            people'[q].alive = people[q].alive /\ people'[q].critical = people[q].critical
       /\ a.gift \in Persons \ {p} => people'[a.gift].food = 1
  <2>1. \A q \in Persons : LET t == [people[q] EXCEPT !.food = 1]
                           IN  /\ t \in Person /\ t.food = 1
                               /\ t.alive = people[q].alive /\ t.critical = people[q].critical
    BY <1>8 DEF Person
  <2>. QED  BY <1>5, <1>8, <1>10, <2>1
<1>12. PICK taken \in Int : taken = a.now.food - me.food
  BY <1>9, <1>10
<1>13. \A q \in Persons : people'[q].alive = people[q].alive
  BY <1>9, <1>10, <1>11
<1>14. ViewInv'
  <2>1. \A q \in Persons : \/ people'[q].critical = people[q].critical
                           \/ s = [type |-> "act", by |-> q]
    BY <1>2, <1>3, <1>11
  <2>. QED  BY <1>1, <1>13, <2>1, DecidedView
<1>15. OneActive' /\ Len(inters') <= MaxInter
  BY <1>1 DEF FoodInv, OneActive
<1>16. ASSUME carcass' \in Carcass
       PROVE  FoodTypeOK'
  <2>1. inters \in Seq(Interaction) /\ Len(inters) \in Nat
    BY <1>1, LenProperties DEF FoodTypeOK
  <2>. QED  BY <1>1, <1>11, <1>16, <2>1, DecidedType
<1>17. CASE a.act = "gather" /\ taken > 0
  <2>1. a.gift = None /\ None \notin Persons /\ StillHungry(me, a.now)
    BY <1>7, <1>17, NoneAssumption DEF ActionBy
  <2>2. \A q \in Persons \ {p} : people'[q] = people[q]
    BY <1>11, <2>1
  <2>3. ~carcass.claimed /\ carcass.resource \in Nat
    BY <1>5, <1>8, <1>17 DEF ActionValid, Carcass
  <2>4. PICK left \in Nat : left = view.carcass.resource - taken
    BY <1>6, <1>7, <1>12, <1>17 DEF ActionBy, Carcass
  <2>5. carcass' = [resource |-> left, claimed |-> TRUE]
    BY <1>5, <1>12, <1>17, <2>4
  <2>6. carcass' \in Carcass /\ carcass'.resource = left /\ carcass'.claimed
    BY <2>5 DEF Carcass
  <2>7. FoodTypeOK'
    BY <1>16, <2>6
  <2>8. CarcassInv'
    <3>1. [type |-> "decay"] \notin todo'
      BY <1>1, <1>2, Decided
    <3>. QED  BY <2>6, <3>1 DEF CarcassInv
  <2>9. Decay = 0 => left = carcass.resource - taken
    BY <1>1, <1>2, <2>3, <2>4 DEF CarcassInv
  <2>10. GatheredOff \/ Decay # 0
    <3>1. SUFFICES ASSUME Decay = 0, NEW q \in Persons, people'[q].food > people[q].food
                   PROVE  people'[q].food - people[q].food
                            = carcass.resource - carcass'.resource
      BY DEF GatheredOff
    <3>2. people[q].food \in Nat
      BY <1>8 DEF Person
    <3>3. q = p
      BY <2>2, <3>1, <3>2
    <3>4. people'[q].food - people[q].food = taken
      BY <1>9, <1>11, <1>12, <3>3
    <3>5. carcass.resource - carcass'.resource = taken
      BY <2>3, <2>6, <2>9, <3>1
    <3>. QED  BY <3>4, <3>5
  <2>11. Undisturbed => Ledger!Harvest(p)
    <3>1. SUFFICES ASSUME Undisturbed  PROVE Ledger!Harvest(p)
      OBVIOUS
    <3>2. Decay = 0
      BY <1>7, <1>17, <3>1 DEF Undisturbed, ActionBy
    <3>3. carcass'.resource \in 0..carcass.resource
      BY <1>17, <2>3, <2>6, <2>9, <3>2
    <3>4. people'[p].food - people[p].food = carcass.resource - carcass'.resource
      BY <1>9, <1>11, <1>12, <2>3, <2>6, <2>9, <3>2
    <3>5. StillHungry(people[p], people'[p])
      BY <1>9, <1>11, <2>1 DEF StillHungry
    <3>6. \A q \in Persons \ {p} : people'[q].food = people[q].food
      BY <2>2
    <3>. QED  BY <1>1, <1>8, <1>9, <1>11, <1>13, <2>3, <3>3, <3>4, <3>5, <3>6, LedgerHarvests
  <2>12. Undisturbed => [Ledger!LedgerNext]_(Ledger!ledgerVars)
    BY <2>11 DEF Ledger!LedgerNext
  <2>. QED  BY <1>14, <1>15, <2>7, <2>8, <2>10, <2>12 DEF Step, FoodInv
<1>18. CASE ~(a.act = "gather" /\ taken > 0)
  <2>1. UNCHANGED carcass
    BY <1>5, <1>12, <1>18
  <2>2. FoodTypeOK' /\ CarcassInv'
    BY <1>1, <1>8, <1>16, <2>1, DecidedCarcass
  <2>3. GatheredOff
    BY <2>1 DEF GatheredOff
  <2>4. carcass.resource \in Nat /\ carcass'.resource = carcass.resource
    BY <1>8, <2>1 DEF Carcass
  <2>5. CASE a.act = "give"
    <3>1. PICK r \in Persons : r = a.gift
      BY <1>7, <2>5 DEF ActionBy
    <3>2. Transferable(people, p, r)
      BY <1>5, <2>5, <3>1 DEF ActionValid
    <3>3. Settled' = Settled
      BY <1>1 DEF Settled
    <3>4. people'[p].food = people[p].food - 1 /\ StillHungry(people[p], people'[p])
      BY <1>7, <1>9, <1>11, <2>5 DEF ActionBy, StillHungry
    <3>5. people'[r].food = 1 /\ \A q \in Persons \ {p, r} : people'[q].food = people[q].food
      BY <1>11, <3>1, <3>2 DEF Transferable
    <3>6. Ledger!Give(p, r)
      BY <1>8, <1>11, <1>13, <2>1, <3>2, <3>3, <3>4, <3>5, LedgerGives DEF Transferable
    <3>7. [Ledger!LedgerNext]_(Ledger!ledgerVars)
      BY <3>6 DEF Ledger!LedgerNext
    <3>. QED  BY <1>14, <1>15, <2>2, <2>3, <3>7 DEF Step, FoodInv
  <2>6. CASE a.act # "give"
    <3>1. a.gift = None /\ None \notin Persons
      BY <1>7, <2>6, NoneAssumption DEF ActionBy
    <3>2. \A q \in Persons \ {p} : people'[q] = people[q]
      BY <1>11, <3>1
    <3>3. CASE a.act = "eat" /\ ~a.now.critical
      <4>1. a.now.food = me.food \/ (me.food > 0 /\ a.now.food = me.food - 1)
        BY <1>7, <3>3, FedOf DEF ActionBy
      <4>2. Ledger!Eat(p)
        BY <1>1, <1>8, <1>9, <1>11, <1>13, <2>1, <3>2, <3>3, <4>1, LedgerEats
      <4>. QED  BY <1>14, <1>15, <2>2, <2>3, <4>2 DEF Step, FoodInv, Ledger!LedgerNext
    <3>4. CASE ~(a.act = "eat" /\ ~a.now.critical)
      <4>1. a.now.food = me.food /\ StillHungry(me, a.now)
        <5>1. CASE a.act = "eat"
          BY <1>7, <3>4, <5>1, FedOf DEF ActionBy
        <5>2. CASE a.act = "gather"
          <6>1. taken \in 0..view.carcass.resource
            BY <1>7, <1>12, <5>2 DEF ActionBy
          <6>2. taken = 0
            BY <1>6, <1>18, <5>2, <6>1 DEF Carcass
          <6>. QED  BY <1>7, <1>9, <1>10, <1>12, <5>2, <6>2 DEF ActionBy
        <5>3. CASE a.act \notin {"eat", "gather"}
          BY <1>7, <2>6, <5>3 DEF ActionBy
        <5>. QED  BY <5>1, <5>2, <5>3
      <4>2. people'[p].food - people[p].food = carcass.resource - carcass'.resource
        BY <1>9, <1>11, <2>4, <4>1
      <4>3. StillHungry(people[p], people'[p])
        BY <1>9, <1>11, <4>1 DEF StillHungry
      <4>4. Ledger!Harvest(p)
        BY <1>1, <1>8, <1>9, <1>11, <1>13, <2>4, <3>2, <4>2, <4>3, LedgerHarvests
      <4>. QED  BY <1>14, <1>15, <2>2, <2>3, <4>4 DEF Step, FoodInv, Ledger!LedgerNext
    <3>. QED  BY <3>3, <3>4
  <2>. QED  BY <2>5, <2>6
<1>. QED  BY <1>17, <1>18

\* Every proposal is decided by one of these, and each is a step of the ledger.
LEMMA CommitStep ==
    ASSUME FoodInv, Commit
    PROVE  Step
<1>1. FoodTypeOK /\ inters \in Seq(Interaction)
  BY DEF FoodInv, FoodTypeOK
<1>2. PICK s \in todo :
        \/ Die(s)    \/ Live(s)      \/ Rot(s)   \/ Act(s)
        \/ Create(s) \/ CreateNot(s) \/ Accept(s) \/ Fulfil(s)
        \/ Expire(s) \/ Invalidate(s)
        \/ Reject(s)
  BY DEF Commit
<1>3. CASE Die(s)
  BY <1>3, DieStep
<1>4. CASE Live(s)
  BY <1>4, QuietStep DEF Live
<1>5. CASE Rot(s)
  BY <1>5, RotStep
<1>6. CASE Act(s)
  BY <1>6, ActStep
<1>7. CASE Create(s)
  BY <1>7, CreateStep
<1>8. CASE CreateNot(s)
  BY <1>8, QuietStep DEF CreateNot
<1>9. CASE Accept(s)
  <2>1. s.id \in DOMAIN inters
    BY <1>1, <1>9, NamedInteraction DEF Accept
  <2>2. IsActive(inters[s.id]) /\ Becomes(s.id, "accepted")
    BY <1>9 DEF Accept, AcceptValid, IsActive, Active
  <2>. QED  BY <1>9, <2>1, <2>2, StatusStep DEF Accept, Statuses, Active
<1>10. CASE Fulfil(s)
  BY <1>10, FulfilStep
<1>11. CASE Expire(s)
  <2>1. s.id \in DOMAIN inters
    BY <1>1, <1>11, NamedInteraction DEF Expire
  <2>2. IsActive(inters[s.id]) /\ Becomes(s.id, "expired")
    BY <1>11 DEF Expire, Expired, IsActive, Active
  <2>. QED  BY <1>11, <2>1, <2>2, StatusStep DEF Expire, Statuses, Active
<1>12. CASE Invalidate(s)
  <2>1. s.id \in DOMAIN inters
    BY <1>1, <1>12, NamedInteraction DEF Invalidate
  <2>2. IsActive(inters[s.id]) /\ Becomes(s.id, "invalidated")
    BY <1>12 DEF Invalidate, InvalidateValid
  <2>. QED  BY <1>12, <2>1, <2>2, StatusStep DEF Invalidate, Statuses, Active
<1>13. CASE Reject(s)
  BY <1>13, QuietStep DEF Reject
<1>. QED  BY <1>2, <1>3, <1>4, <1>5, <1>6, <1>7, <1>8, <1>9, <1>10, <1>11, <1>12, <1>13

-----------------------------------------------------------------------------
\* A tick begins.

\* Whoever speaks for an interaction is one of its people.
LEMMA MaintainerOf ==
    ASSUME NEW ppl, NEW x \in Interaction
    PROVE  Maintainer(ppl, x) \in Persons
<1>1. x.from \in Persons /\ x.to \in Persons
  BY DEF Interaction
<1>. DEFINE alive == {p \in {x.from, x.to} : ppl[p].alive}
<1>2. CASE alive = {}
  BY <1>1, <1>2 DEF Maintainer
<1>3. CASE alive # {}
  <2>1. (CHOOSE p \in alive : TRUE) \in alive
    BY <1>3
  <2>. QED  BY <1>1, <1>3, <2>1 DEF Maintainer
<1>. QED  BY <1>2, <1>3

\* What people propose: nothing of the carcass's decay, and of interactions there are.
LEMMA ProposalsOf ==
    ASSUME NEW ppl, NEW ints \in Seq(Interaction), NEW t, t \in Proposals(ppl, ints)
    PROVE  /\ t \in Proposal /\ t # [type |-> "decay"]
           /\ "id" \in DOMAIN t => t.id \in DOMAIN ints
<1>1. DOMAIN ints = 1..Len(ints) /\ Len(ints) \in Nat
  BY LenProperties
<1>. DEFINE living == {p \in Persons : ppl[p].alive}
<1>2. CASE t \in [type : {"live", "act"}, by : living]
  BY <1>2 DEF Proposal
<1>3. CASE t \in [type : {"create"}, by : {p \in living : Creatable(ppl, ints, p) # {}}]
  BY <1>3 DEF Proposal
<1>4. CASE t \in ProtocolSteps(ppl, ints)
  <2>1. t \in [type : {"accept", "fulfil", "expire", "invalidate"},
               by : Persons, id : DOMAIN ints]
    BY <1>4 DEF ProtocolSteps
  <2>. QED  BY <1>1, <2>1 DEF Proposal
<1>5. CASE t \in Maintenance(ppl, ints)
  <2>1. PICK i \in DOMAIN ints :
            t = [type |-> "invalidate", by |-> Maintainer(ppl, ints[i]), id |-> i]
    BY <1>5 DEF Maintenance
  <2>2. ints[i] \in Interaction
    BY ElementOfSeq, <1>1
  <2>3. PICK p \in Persons : p = Maintainer(ppl, ints[i])
    BY <2>2, MaintainerOf
  <2>4. t = [type |-> "invalidate", by |-> p, id |-> i]
    BY <2>1, <2>3
  <2>. QED  BY <1>1, <2>4 DEF Proposal
<1>. QED  BY <1>2, <1>3, <1>4, <1>5 DEF Proposals

\* Time passes for the interactions and for nothing else.
LEMMA ActivateStep ==
    ASSUME FoodInv, Activate
    PROVE  Step
<1>1. FoodTypeOK /\ OneActive /\ inters \in Seq(Interaction) /\ UNCHANGED people
      /\ people \in [Persons -> Person]
  BY DEF FoodInv, FoodTypeOK, Activate
<1>2. DOMAIN inters = 1..Len(inters) /\ Len(inters) \in Nat
  BY <1>1, LenProperties
<1>. DEFINE Older(x) == IF x.status = "pending" /\ x.age < Expiry
                        THEN [x EXCEPT !.age = @ + 1] ELSE x
<1>3. inters' = [i \in 1..Len(inters) |-> Older(inters[i])]
  BY <1>2 DEF Activate
<1>4. \A x \in Interaction : /\ Older(x) \in Interaction
                             /\ Older(x).kind = x.kind /\ Older(x).status = x.status
                             /\ Older(x).from = x.from /\ Older(x).to = x.to
  <2>1. SUFFICES ASSUME NEW x \in Interaction, x.status = "pending", x.age < Expiry
                 PROVE  /\ Older(x) \in Interaction
                        /\ Older(x).kind = x.kind /\ Older(x).status = x.status
                        /\ Older(x).from = x.from /\ Older(x).to = x.to
    OBVIOUS
  <2>2. PICK age \in 0..Expiry : age = x.age + 1
    BY <2>1, FoodAssumption DEF Interaction
  <2>3. Older(x) = [x EXCEPT !.age = age]
    BY <2>1, <2>2
  <2>. QED  BY <2>3 DEF Interaction
<1>5. \A i \in 1..Len(inters) : inters[i] \in Interaction
  BY <1>1, ElementOfSeq
<1>6. /\ inters' \in Seq(Interaction) /\ Len(inters') = Len(inters)
      /\ DOMAIN inters' = DOMAIN inters
      /\ \A i \in DOMAIN inters :
            /\ inters'[i].kind = inters[i].kind /\ inters'[i].status = inters[i].status
            /\ inters'[i].from = inters[i].from /\ inters'[i].to = inters[i].to
  <2>. HIDE DEF Older
  <2>. QED  BY <1>2, <1>3, <1>4, <1>5
<1>7. carcass' \in Carcass /\ carcass'.resource = carcass.resource
  BY <1>1 DEF FoodTypeOK, Carcass, Activate
<1>8. \A t \in todo' : \/ t \in Proposals(people, inters')
                       \/ Decay > 0 /\ t = [type |-> "decay"]
  BY DEF Activate, Decays
<1>9. \A t \in todo' : t \in Proposal /\ ("id" \in DOMAIN t => t.id \in DOMAIN inters')
  BY <1>6, <1>8, ProposalsOf DEF Proposal
<1>10. [type |-> "decay"] \in todo' => Decay > 0
  BY <1>6, <1>8, ProposalsOf
<1>11. [people |-> people, carcass |-> carcass', inters |-> inters'] \in World
  BY <1>1, <1>6, <1>7 DEF World
<1>12. PICK w \in World : w = [people |-> people, carcass |-> carcass', inters |-> inters']
  BY <1>11
<1>13. /\ view' = None <=> todo' = {}
       /\ view' # None => view' = w
  BY <1>12, NoneAssumption DEF Activate
<1>14. FoodTypeOK'
  <2>1. Len(w.inters) <= Len(inters') /\ DOMAIN w.inters = DOMAIN inters'
    BY <1>2, <1>6, <1>12
  <2>. QED  BY <1>1, <1>6, <1>7, <1>9, <1>13, <2>1 DEF FoodTypeOK
<1>15. OneActive'
  BY <1>1, <1>6, StillOneActive DEF IsActive
<1>16. Len(inters') <= MaxInter
  BY <1>6 DEF FoodInv
<1>17. ViewInv'
  BY <1>1, <1>12, <1>13 DEF ViewInv
<1>18. CarcassInv'
  <2>1. Decay \in Nat
    BY FoodAssumption
  <2>. QED  BY <1>10, <1>12, <1>13, <2>1 DEF CarcassInv
<1>19. [Ledger!LedgerNext]_(Ledger!ledgerVars)
  <2>1. Settled' = Settled
    BY <1>6, SettledSame
  <2>. QED  BY <1>1, <1>7, <2>1, LedgerStutters DEF Food, Living, Starving
<1>20. GatheredOff
  <2>1. \A p \in Persons : people[p].food \in Nat
    BY <1>1 DEF Person
  <2>. QED  BY <1>1, <2>1 DEF GatheredOff
<1>. QED  BY <1>14, <1>15, <1>16, <1>17, <1>18, <1>19, <1>20 DEF Step, FoodInv

-----------------------------------------------------------------------------
\* The theorems.

LEMMA FoodInit ==
    ASSUME Init
    PROVE  FoodInv /\ Ledger!LedgerInit
<1>1. people \in [Persons -> Person] /\ \A p \in Persons : people[p].alive
  BY FoodAssumption DEF Init
<1>2. carcass \in Carcass /\ inters = <<>> /\ view = None /\ todo = {}
  BY FoodAssumption DEF Init, Carcass
<1>3. FoodTypeOK /\ OneActive /\ ViewInv /\ CarcassInv
  BY <1>1, <1>2 DEF FoodTypeOK, OneActive, ViewInv, CarcassInv
<1>4. Len(inters) <= MaxInter
  BY <1>2, FoodAssumption
<1>5. Food \in [Persons -> Nat] /\ carcass.resource \in Nat /\ Living = Persons
      /\ Starving \in SUBSET Persons /\ Settled = {}
  BY <1>1, <1>2 DEF Food, Living, Starving, Settled, Carcass, Person
<1>. QED  BY <1>3, <1>4, <1>5
     DEF FoodInv, Ledger!LedgerInit, Food, Living, Starving, Settled

LEMMA FoodStep ==
    ASSUME FoodInv, [Next]_vars
    PROVE  Step
<1>1. CASE Activate
  BY <1>1, ActivateStep
<1>2. CASE Commit
  BY <1>2, CommitStep
<1>3. CASE UNCHANGED vars
  <2>1. FoodInv'
    BY <1>3 DEF vars, FoodInv, FoodTypeOK, OneActive, ViewInv, CarcassInv
  <2>2. [Ledger!LedgerNext]_(Ledger!ledgerVars)
    BY <1>3, LedgerStutters DEF vars, Food, Living, Starving, Settled
  <2>3. GatheredOff
    BY <1>3 DEF vars, GatheredOff
  <2>. QED  BY <2>1, <2>2, <2>3 DEF Step
<1>. QED  BY <1>1, <1>2, <1>3 DEF Next

\* The inductive invariant holds of every behaviour.
THEOREM FoodInvariance == Spec => []FoodInv
<1>1. Init => FoodInv
  BY FoodInit
<1>2. FoodInv /\ [Next]_vars => FoodInv'
  BY FoodStep DEF Step
<1>. QED  BY <1>1, <1>2, PTL DEF Spec

\* The entities of a run, the pinned view and its proposals stay well formed: no
\* proposal names an interaction the view has not got (run_commit_frame).
THEOREM FoodTypeCorrect == Spec => []FoodTypeOK
<1>1. FoodInv => FoodTypeOK
  BY DEF FoodInv
<1>. QED  BY <1>1, FoodInvariance, PTL

\* At most one interaction of a kind is active between two people: the Core asks
\* again what the domain asked of an older view (find_active_equivalent).
THEOREM OneActiveCorrect == Spec => []OneActive
<1>1. FoodInv => OneActive
  BY DEF FoodInv
<1>. QED  BY <1>1, FoodInvariance, PTL

\* What is committed moves food only as the ledger allows, whatever is proposed and
\* in whatever order it is decided (validate_food_transfer), unless someone gathers
\* off a carcass that decays.
THEOREM FoodRefinesLedger ==
    ASSUME Undisturbed
    PROVE  Spec => ImplementsLedger
<1>1. Init => Ledger!LedgerInit
  BY FoodInit
<1>2. FoodInv /\ [Next]_vars => [Ledger!LedgerNext]_(Ledger!ledgerVars)
  BY FoodStep DEF Step
<1>. QED  BY <1>1, <1>2, FoodInvariance, PTL DEF Spec, ImplementsLedger, Ledger!LedgerSpec

\* Where no carcass decays, what is gathered is what the carcass loses, however many
\* gather in a tick: one of them finds the carcass unclaimed (execute_action_tick).
THEOREM GatherWithoutDecay ==
    ASSUME Decay = 0
    PROVE  Spec => GatheredOffCarcass
<1>1. FoodInv /\ [Next]_vars => GatheredOff
  BY FoodStep DEF Step
<1>2. FoodInv /\ [Next]_vars => [GatheredOff]_vars
  BY <1>1
<1>. QED  BY <1>2, FoodInvariance, PTL DEF Spec, GatheredOffCarcass, GatheredOff
=============================================================================
