-------------------------- MODULE FoodInteraction --------------------------
(***************************************************************************)
(* The tick of a run as far as food among people goes.  Every living person*)
(* proposes an action and the steps of the food-interaction-v1 protocol    *)
(* from one pinned view of the world (domains/people_domain.py,            *)
(* domains/food_interaction_proposals.py); run_commit_frame                *)
(* (core/commit_pipeline.py) then decides the proposals one at a time, each*)
(* judged against what the ones before it have made of the world           *)
(* (core/food_interaction.py).  Deaths come first (lifecycle, phase        *)
(* "environment"); the order of the rest is that of content hashes, here   *)
(* any order.                                                              *)
(*                                                                         *)
(* A proposal's content is chosen when it is decided, always from the      *)
(* pinned view: nothing in between depends on it.  Places lie on a line,   *)
(* neighbours are adjacent.  hunger is kept as whether it has reached      *)
(* CRITICAL_THRESHOLD, inventory (wood and forage) as whether there is any,*)
(* food_inventory (meat) in units.  There is one carcass, in everybody's   *)
(* reach; ecology lets it decay, nobody hunts another.                     *)
(***************************************************************************)
EXTENDS Integers, Sequences, FiniteSets

CONSTANTS Persons,   \* the people of the run
          Places,    \* the tiles they walk on
          Expiry,    \* FOOD_INTERACTION_EXPIRY_TICKS
          Acts,      \* the actions people may take
          Yield,     \* CARCASS_HARVEST_YIELD
          Decay,     \* CARCASS_DECAY_AMOUNT; 0 without the ecology domain
          Stock,     \* bound: units of meat on the carcass at the start
          MaxInter,  \* bound: interactions created
          Worlds,    \* the people the run begins with
          None       \* Python's None

Person == [alive : BOOLEAN, place : Places, critical : BOOLEAN,
           food : Nat, inv : BOOLEAN]

ASSUME FoodAssumption ==
    /\ Places \subseteq Int
    /\ Acts \subseteq {"rest", "move", "gather", "forage", "build", "eat", "give"}
    /\ Expiry \in Nat \ {0}
    /\ Yield \in Nat \ {0}
    /\ Decay \in Nat
    /\ Stock \in Nat
    /\ MaxInter \in Nat
    /\ Worlds \subseteq [Persons -> {x \in Person : x.alive}]

Surplus == 2  \* FOOD_TRANSFER_SURPLUS

VARIABLES people,   \* the person entities
          carcass,  \* the carcass entity: resource, and whether claimed this tick
          inters,   \* the food_interaction entities, in the order of creation
          view,     \* the pinned view of the tick, or None between ticks
          todo      \* the proposals of the tick that are not decided yet

vars == <<people, carcass, inters, view, todo>>

Kinds    == {"request", "offer"}
Active   == {"pending", "accepted"}
Statuses == Active \cup {"fulfilled", "expired", "invalidated"}

\* age: ticks since creation, counted up to the expiry of a pending one.
Interaction == [kind : Kinds, from : Persons, to : Persons,
                age : 0..Expiry, status : Statuses]

Carcass == [resource : Nat, claimed : BOOLEAN]

World == [people : [Persons -> Person], carcass : Carcass, inters : Seq(Interaction)]

\* None is none of the things it may stand in the place of.
ASSUME NoneAssumption ==
    /\ None \notin Persons
    /\ None \notin World
    /\ None \notin {"not_living", "not_adjacent", "lost_supply", "ineligible"}

Proposal ==
    [type : {"decay"}]
    \cup [type : {"live", "act", "create"}, by : Persons]
    \cup [type : {"accept", "fulfil", "expire", "invalidate"}, by : Persons,
          id : Nat \ {0}]

Init ==
    /\ people \in Worlds
    /\ carcass = [resource |-> Stock, claimed |-> FALSE]
    /\ inters = <<>>
    /\ view = None
    /\ todo = {}

----------------------------------------------------------------------------
\* What the domain and the Core both ask of a world

Adjacent(ppl, a, b) == ppl[a].place - ppl[b].place \in {-1, 1}

\* giver_and_receiver
Giver(x)    == IF x.kind = "request" THEN x.to ELSE x.from
Receiver(x) == IF x.kind = "request" THEN x.from ELSE x.to

IsActive(x) == x.status \in Active

\* Mutant: an accepted interaction does not count.
PendingEquivalent(ints, kind, a, b) ==
    \E i \in DOMAIN ints : /\ ints[i].kind = kind
                           /\ ints[i].from = a /\ ints[i].to = b
                           /\ ints[i].status = "pending"

\* find_active_equivalent
ActiveEquivalent(ints, kind, a, b) ==
    \E i \in DOMAIN ints : /\ ints[i].kind = kind
                           /\ ints[i].from = a /\ ints[i].to = b
                           /\ IsActive(ints[i])

\* The receiver starves and carries nothing to eat.
NeedsFood(ppl, r) == ppl[r].critical /\ ppl[r].food = 0 /\ ~ppl[r].inv

\* validate_food_transfer, and eligible_food_recipient in the domain
Transferable(ppl, g, r) ==
    /\ g # r
    /\ ppl[g].alive /\ ppl[r].alive
    /\ Adjacent(ppl, g, r)
    /\ ppl[g].food >= Surplus
    /\ NeedsFood(ppl, r)

\* invalidation_reason, of an active interaction
Reason(ppl, x) ==
    IF ~(ppl[x.from].alive /\ ppl[x.to].alive) THEN "not_living"
    ELSE IF x.status = "pending"               THEN None
    ELSE IF ~Adjacent(ppl, x.from, x.to)       THEN "not_adjacent"
    ELSE IF ppl[Giver(x)].food < Surplus       THEN "lost_supply"
    ELSE IF ~NeedsFood(ppl, Receiver(x))       THEN "ineligible"
    ELSE None

\* is_expired_at; an accepted interaction never expires.
Expired(x) == x.status = "pending" /\ x.age >= Expiry

----------------------------------------------------------------------------
\* Activation: what people propose, from the pinned view

Steps(me) == {q \in Places : q - me.place \in {-1, 1}}

\* Hunger grows every tick, so it may become critical; only eating lessens it.
Hungry(me) == IF me.critical THEN {TRUE} ELSE BOOLEAN

Grown(me) == {[me EXCEPT !.critical = h] : h \in Hungry(me)}

\* Meat comes before forage; who has neither goes hungry.
Fed(me) ==
    IF me.food > 0 THEN {[me EXCEPT !.critical = FALSE, !.food = @ - 1]}
    ELSE IF me.inv THEN {[me EXCEPT !.critical = FALSE, !.inv = b] : b \in BOOLEAN}
    ELSE Grown(me)

LeastOf(m, n) == IF m < n THEN m ELSE n

\* execute_action_tick: the person as the action leaves it.  Gathering takes
\* several ticks, of which the last yields.
Outcomes(me, act) ==
    LET meat == view.carcass.resource
    IN  CASE act \in {"rest", "give"} -> Grown(me)
          [] act = "move"   -> {[o EXCEPT !.place = q] : o \in Grown(me), q \in Steps(me)}
          [] act = "gather" -> {[o EXCEPT !.food = @ + n] :
                                    o \in Grown(me), n \in {0, LeastOf(Yield, meat)}}
          [] act = "forage" -> {[o EXCEPT !.inv = TRUE] : o \in Grown(me)}
          [] act = "build"  -> {[o EXCEPT !.inv = b] : o \in Grown(me), b \in {me.inv, FALSE}}
          [] act = "eat"    -> Fed(me)

\* One unit of meat fewer.
Lessened(outcomes) == {[o EXCEPT !.food = @ - 1] : o \in outcomes}

\* _build_proposal: the actions p may propose: the person p will be, and to whom
\* it gives a unit.  With nothing on the carcass a gatherer gives up (a rest).
Actions(p) ==
    LET me   == view.people[p]
        needy == {r \in Persons : Transferable(view.people, p, r)}
        acts  == {act \in Acts \ {"give"} : act = "gather" => view.carcass.resource > 0}
    IN  (UNION {[act : {act}, gift : {None}, now : Outcomes(me, act)] : act \in acts})
        \cup [act : Acts \cap {"give"}, gift : needy, now : Lessened(Outcomes(me, "give"))]

\* _maybe_create: a request of a starving person to one who appears to carry
\* food, or an offer of one with a surplus to one who appears in need (thirst
\* and injury show as well as hunger, so anyone may).
Creatable(ppl, ints, p) ==
    {c \in [kind : Kinds, to : {q \in Persons \ {p} : ppl[q].alive}] :
        /\ Adjacent(ppl, p, c.to)
        /\ ~ActiveEquivalent(ints, c.kind, p, c.to)
        /\ \/ /\ c.kind = "request"
              /\ ppl[p].critical /\ ppl[p].food = 0
              /\ ppl[c.to].food > 0 \/ ppl[c.to].inv
           \/ c.kind = "offer" /\ ppl[p].food >= Surplus}

\* Mutant: only the responder lets a request or an offer expire.
DueByResponder(type, ppl, x, p) ==
    CASE type = "expire"     -> Expired(x) /\ p = x.to
      [] type = "invalidate" -> /\ ~Expired(x) /\ p \in {x.from, x.to}
                                /\ Reason(ppl, x) # None
      [] type = "accept"     -> /\ x.status = "pending" /\ ~Expired(x) /\ p = x.to
                                /\ Transferable(ppl, Giver(x), Receiver(x))
      [] type = "fulfil"     -> /\ x.status = "accepted" /\ p = Giver(x)
                                /\ Reason(ppl, x) = None

\* propose_protocol_steps_for_person: which step p takes in interaction x.
\* Nobody proposes to refuse.
Due(type, ppl, x, p) ==
    CASE type = "expire"     -> Expired(x) /\ p \in {x.from, x.to}
      [] type = "invalidate" -> /\ ~Expired(x) /\ p \in {x.from, x.to}
                                /\ Reason(ppl, x) # None
      [] type = "accept"     -> /\ x.status = "pending" /\ ~Expired(x) /\ p = x.to
                                /\ Transferable(ppl, Giver(x), Receiver(x))
      [] type = "fulfil"     -> /\ x.status = "accepted" /\ p = Giver(x)
                                /\ Reason(ppl, x) = None

ProtocolSteps(ppl, ints) ==
    {s \in [type : {"accept", "fulfil", "expire", "invalidate"},
            by : Persons, id : DOMAIN ints] :
        /\ ppl[s.by].alive
        /\ IsActive(ints[s.id])
        /\ Due(s.type, ppl, ints[s.id], s.by)}

\* Mutant: no one speaks for the dead.
MaintainerAlive(ppl, x) ==
    LET alive == {p \in {x.from, x.to} : ppl[p].alive}
    IN  IF alive = {} THEN None ELSE CHOOSE p \in alive : TRUE

\* maintenance_proposer: a living participant, else the initiator.
Maintainer(ppl, x) ==
    LET alive == {p \in {x.from, x.to} : ppl[p].alive}
    IN  IF alive = {} THEN x.from ELSE CHOOSE p \in alive : TRUE

\* Mutant: accepted interactions are left to their participants.
NoMaintenance(ppl, ints) == {}

\* propose_stranded_accepted_invalidations
Maintenance(ppl, ints) ==
    {[type |-> "invalidate", by |-> Maintainer(ppl, ints[i]), id |-> i] :
        i \in {i \in DOMAIN ints : /\ ints[i].status = "accepted"
                                   /\ Reason(ppl, ints[i]) # None}}

\* The proposals of a tick; every living person's life goes on or ends ("live")
\* and every living person acts.
Proposals(ppl, ints) ==
    LET living == {p \in Persons : ppl[p].alive}
    IN  [type : {"live", "act"}, by : living]
        \cup [type : {"create"}, by : {p \in living : Creatable(ppl, ints, p) # {}}]
        \cup ProtocolSteps(ppl, ints)
        \cup Maintenance(ppl, ints)

\* ecology's, when the tick is one of its own (CARCASS_DECAY_INTERVAL).
Decays == IF Decay > 0 /\ carcass.resource > 0 THEN {[type |-> "decay"]} ELSE {}

\* A tick passes and its proposals are made (run_tick).
Activate ==
    /\ view = None
    /\ inters' = [i \in DOMAIN inters |->
                    IF inters[i].status = "pending" /\ inters[i].age < Expiry
                    THEN [inters[i] EXCEPT !.age = @ + 1]
                    ELSE inters[i]]
    /\ todo' \in {Proposals(people, inters'), Proposals(people, inters') \cup Decays}
    /\ carcass' = [carcass EXCEPT !.claimed = FALSE]
    /\ view' = IF todo' = {} THEN None
               ELSE [people |-> people, carcass |-> carcass', inters |-> inters']
    /\ UNCHANGED people

----------------------------------------------------------------------------
\* Commit: run_commit_frame decides proposal s against people and inters

Environment == {"live", "decay"}

\* order_key: the environment's proposals first
Decide(s) ==
    /\ s \in todo
    /\ s.type \in Environment \/ \A t \in todo : t.type \notin Environment
    /\ todo' = todo \ {s}
    /\ view' = IF todo' = {} THEN None ELSE view

\* lifecycle's death proposal; or life goes on.
Die(s) ==
    /\ Decide(s)
    /\ s.type = "live"
    /\ people' = [people EXCEPT ![s.by].alive = FALSE]
    /\ UNCHANGED <<carcass, inters>>

\* _decay
Rot(s) ==
    /\ Decide(s)
    /\ s.type = "decay"
    /\ carcass' = [carcass EXCEPT !.resource =
                      IF view.carcass.resource > Decay
                      THEN view.carcass.resource - Decay ELSE 0]
    /\ UNCHANGED <<people, inters>>

Live(s) ==
    /\ Decide(s)
    /\ s.type = "live"
    /\ UNCHANGED <<people, carcass, inters>>

\* Mutant: an action does not ask that food_inventory is as it was.
ActionValidUnrevised(p, a) ==
    /\ people[p].alive
    /\ a.act = "give" => Transferable(people, p, a.gift)
    /\ a.act = "gather" => ~carcass.claimed /\ carcass.resource > 0

\* evaluate_preconditions and validate_food_transfer of an action
ActionValid(p, a) ==
    /\ people[p].alive
    /\ people[p].food = view.people[p].food
    /\ a.act = "give" => Transferable(people, p, a.gift)
    /\ a.act = "gather" => ~carcass.claimed /\ carcass.resource > 0

Act(s) ==
    /\ Decide(s)
    /\ s.type = "act"
    /\ \E a \in Actions(s.by) :
        /\ ActionValid(s.by, a)
        /\ people' = [p \in Persons |->
                        IF p = s.by THEN a.now
                        ELSE IF p = a.gift THEN [people[p] EXCEPT !.food = 1]
                        ELSE people[p]]
        /\ LET taken == a.now.food - view.people[s.by].food
           IN  carcass' = IF a.act = "gather" /\ taken > 0
                          THEN [resource |-> view.carcass.resource - taken,
                                claimed  |-> TRUE]
                          ELSE carcass
    /\ UNCHANGED inters

\* _validate_create; the knowledge the Core sees may be older than the view.
Create(s) ==
    /\ Decide(s)
    /\ s.type = "create"
    /\ Len(inters) < MaxInter
    /\ \E c \in Creatable(view.people, view.inters, s.by) :
        /\ ~ActiveEquivalent(inters, c.kind, s.by, c.to)
        /\ people[s.by].alive /\ people[c.to].alive
        /\ Adjacent(people, s.by, c.to)
        /\ IF c.kind = "request" THEN people[s.by].critical
                                 ELSE people[s.by].food >= Surplus
        /\ inters' = Append(inters, [kind |-> c.kind, from |-> s.by, to |-> c.to,
                                     age |-> 0, status |-> "pending"])
    /\ UNCHANGED <<people, carcass>>

CreateNot(s) ==
    /\ Decide(s)
    /\ s.type = "create"
    /\ UNCHANGED <<people, carcass, inters>>

Becomes(i, status) == inters' = [inters EXCEPT ![i].status = status]

\* _validate_respond, of an acceptance
AcceptValid(x) ==
    /\ x.status = "pending" /\ ~Expired(x)
    /\ people[x.from].alive /\ people[x.to].alive
    /\ Adjacent(people, x.from, x.to)

Accept(s) ==
    /\ Decide(s)
    /\ s.type = "accept"
    /\ AcceptValid(inters[s.id])
    /\ Becomes(s.id, "accepted")
    /\ UNCHANGED <<people, carcass>>

\* Mutant: what the domain saw is taken for granted.
FulfilValidBlind(x) ==
    /\ x.status = "accepted"
    /\ people[Giver(x)].food = view.people[Giver(x)].food

\* _validate_fulfil and validate_food_transfer: the amounts, computed from the
\* view, must still be right.
FulfilValid(x) ==
    /\ x.status = "accepted"
    /\ Reason(people, x) = None
    /\ people[Giver(x)].food = view.people[Giver(x)].food

Fulfil(s) ==
    /\ Decide(s)
    /\ s.type = "fulfil"
    /\ LET x == inters[s.id]
       IN  /\ FulfilValid(x)
           /\ people' = [people EXCEPT ![Giver(x)].food = @ - 1,
                                       ![Receiver(x)].food = 1]
    /\ Becomes(s.id, "fulfilled")
    /\ UNCHANGED carcass

Expire(s) ==
    /\ Decide(s)
    /\ s.type = "expire"
    /\ Expired(inters[s.id])
    /\ Becomes(s.id, "expired")
    /\ UNCHANGED <<people, carcass>>

\* _validate_invalidate: for the reason of the proposal, which is the view's.
InvalidateValid(i) ==
    /\ IsActive(inters[i])
    /\ Reason(people, inters[i]) # None
    /\ Reason(people, inters[i]) = Reason(view.people, view.inters[i])

Invalidate(s) ==
    /\ Decide(s)
    /\ s.type = "invalidate"
    /\ InvalidateValid(s.id)
    /\ Becomes(s.id, "invalidated")
    /\ UNCHANGED <<people, carcass>>

\* A rejected proposal leaves the world alone.
Reject(s) ==
    /\ Decide(s)
    /\ CASE s.type = "act"        -> \E a \in Actions(s.by) : ~ActionValid(s.by, a)
         [] s.type = "accept"     -> ~AcceptValid(inters[s.id])
         [] s.type = "fulfil"     -> ~FulfilValid(inters[s.id])
         [] s.type = "expire"     -> ~Expired(inters[s.id])
         [] s.type = "invalidate" -> ~InvalidateValid(s.id)
         [] OTHER                 -> FALSE
    /\ UNCHANGED <<people, carcass, inters>>

Commit ==
    \E s \in todo :
        \/ Die(s)    \/ Live(s)      \/ Rot(s)   \/ Act(s)
        \/ Create(s) \/ CreateNot(s) \/ Accept(s) \/ Fulfil(s)
        \/ Expire(s) \/ Invalidate(s)
        \/ Reject(s)

Next == Activate \/ Commit

\* The run is stepped on and on; a tick that has begun is decided to the end.
Spec == Init /\ [][Next]_vars /\ WF_vars(Next)

----------------------------------------------------------------------------
\* The state of the run is well formed: the interactions, the pinned view, and
\* proposals that speak of people and interactions of the view.
FoodTypeOK ==
    /\ people \in [Persons -> Person]
    /\ carcass \in Carcass
    /\ inters \in Seq(Interaction)
    /\ todo \subseteq Proposal
    /\ view = None <=> todo = {}
    /\ view # None => /\ view \in World
                      /\ Len(view.inters) <= Len(inters)
                      /\ \A s \in todo : "id" \in DOMAIN s =>
                                            s.id \in DOMAIN view.inters

\* Of a kind, between a person and another, at most one interaction is active,
\* though the domain looks for equivalents in a view that is older than the
\* Core's (find_active_equivalent, both sides).
OneActive ==
    \A i, j \in DOMAIN inters :
        /\ IsActive(inters[i]) /\ IsActive(inters[j])
        /\ inters[i].kind = inters[j].kind
        /\ inters[i].from = inters[j].from /\ inters[i].to = inters[j].to
        => i = j

\* Proposals computed from one view and committed in any order move food only
\* as the transfer contract allows: none appears, vanishes or is counted twice
\* (validate_food_transfer; the food_inventory precondition of every action,
\* people_domain.py).
Ledger == INSTANCE FoodLedger WITH
    People       <- Persons,
    Interactions <- 1..MaxInter,
    food         <- [p \in Persons |-> people[p].food],
    meat         <- carcass.resource,
    living       <- {p \in Persons : people[p].alive},
    starving     <- {p \in Persons : people[p].critical},
    settled      <- {[id |-> i, giver |-> Giver(inters[i]),
                      receiver |-> Receiver(inters[i])] :
                        i \in {i \in DOMAIN inters : inters[i].status = "fulfilled"}}

ImplementsLedger == Ledger!LedgerSpec

BothDead(x) == ~people[x.from].alive /\ ~people[x.to].alive

Has(i, status) == i \in DOMAIN inters /\ inters[i].status = status

\* A pending interaction does not stay so for ever: it is accepted, expires or
\* is invalidated, unless both its people are dead, after whom nobody asks
\* (propose_protocol_steps_for_person runs for the living).
PendingEnds ==
    \A i \in 1..MaxInter :
        Has(i, "pending") ~> (~Has(i, "pending") \/ BothDead(inters[i]))

\* An accepted interaction never expires, but the death of a participant, or of
\* both, releases it (propose_stranded_accepted_invalidations).
DeathReleases ==
    \A i \in 1..MaxInter :
        (Has(i, "accepted") /\ Reason(people, inters[i]) = "not_living")
            ~> ~Has(i, "accepted")

\* "No stranded accepted after maintenance": once the tick's invalidations of an
\* interaction are decided, it is not accepted and unable to go on.
Invalidating(i) == \E s \in todo : s.type = "invalidate" /\ s.id = i

NoneStranded ==
    [][\A i \in DOMAIN inters :
            Invalidating(i) /\ ~Invalidating(i)'
            => ~(Has(i, "accepted")' /\ Reason(people', inters'[i]) # None)]_vars

\* "The first proposal in order wins, and the second's precondition fails against
\* the now-updated state": what is gathered comes off the carcass as the earlier
\* proposals of the tick, its decay among them, have left it.
GatheredOffCarcass ==
    [][\A p \in Persons :
            carcass' # carcass /\ people'[p].food > people[p].food
            => people'[p].food - people[p].food
                 = carcass.resource - carcass'.resource]_vars
=============================================================================
