-------------------------------- MODULE Screen --------------------------------
(* What the user sees and clicks: the canvas (WorldCanvas.jsx), the strip of   *)
(* who needs attention (AttentionStrip.jsx), the summary of the selected       *)
(* entity (EntitySummary.jsx) and the feed of events (EventLog.jsx), all of    *)
(* one world as the server gave it.                                            *)
EXTENDS Overlay

CONSTANTS
    Worlds,      \* the worlds that may be drawn: a tick and its entities
    Feeds,       \* the events that may be listed, newest first
    Decisions,   \* the diagnostics the server may give of an entity
    Tiles

VARIABLES
    world,       \* worldState, None before the first
    previous,    \* previousEntitiesRef and tickRef: the world the effects start from
    effects,     \* effectsRef
    events,      \* EventLog: events
    sel,         \* selectedEntityId (the order of the entity)
    tile,        \* selectedTile
    pointer      \* where the canvas was clicked last

screenVars == <<world, previous, effects, events, sel, tile, pointer>>

-----------------------------------------------------------------------------
\* EntitySummary.

SoftColour(level) ==
    CASE level \in {"Critical", "Dead"} -> "red" [] level = "Urgent" -> "amber"
      [] level = "Attention" -> "yellow" [] OTHER -> "green"

BarNeeds(e) == {"hunger", "energy"} \cup (IF e.type = "person" THEN {"thirst", "health"} ELSE {})

SoftNeedBars(e) ==
    IF ~Living(e) \/ ~Alive(e) THEN {}
    ELSE {<<k, SoftColour(NeedSeverity(k, Get(e, k, IF k = "health" THEN 1000 ELSE 0)))>> :
                k \in BarNeeds(e)}

Risk(status) ==
    CASE status = "Safe" -> "no crisis" [] status = "Dead" -> "no longer active" [] OTHER -> status

EntitySummary(e, diagnostics) ==
    LET told == ExplainDecision(e, diagnostics) IN
    [badge |-> BadgeVariant(EntityStatus(e)),
     risk |-> Risk(EntityStatus(e)),
     need |-> MainNeed(e),
     bars |-> SoftNeedBars(e),
     texts |-> Activity(e) \cup Destination(e, FALSE) \cup Condition(e)
                \cup told.why \cup told.next
                \cup (UNION {told.alternatives[i].label : i \in DOMAIN told.alternatives})
                \cup (IF Get(Plan(e), "goal", None) = None THEN {} ELSE LabelGoal(Plan(e).goal))]

\* EntityInspector, Diagnostics: a bar of raw hunger, thirst or energy.  Much is
\* red, for energy too (and for health, from 400 on).
NeedBarColour(v) == IF v >= 700 THEN "red" ELSE IF v >= 420 THEN "yellow" ELSE "green"

-----------------------------------------------------------------------------
\* EventLog.

\* In Simple View: by priority, then the newest first, else as they came.
Feed(evs) ==
    LET Above(i, j) ==
            LET p == EventPriority(evs[i].type)
                q == EventPriority(evs[j].type)
            IN \/ p < q
               \/ p = q /\ evs[i].tick > evs[j].tick
               \/ p = q /\ evs[i].tick = evs[j].tick /\ i < j
        place == [i \in DOMAIN evs |-> 1 + Cardinality({j \in DOMAIN evs : Above(j, i)})]
    IN [n \in DOMAIN evs |-> evs[CHOOSE i \in DOMAIN evs : place[i] = n]]

RowBorder(event) ==
    LET p == EventPriority(event.type) IN
    IF p <= 1 THEN "red" ELSE IF p <= 3 THEN "amber" ELSE "grey"

-----------------------------------------------------------------------------
ScreenInit ==
    /\ world = None /\ previous = None
    /\ effects = <<>> /\ events = <<>>
    /\ sel = None /\ tile = None /\ pointer = None

\* A refresh: the world, then the feed; effects are those of a new tick, with
\* animations on.
Draw(w, evs) ==
    /\ world' = w /\ events' = evs
    /\ IF previous # None /\ previous.tick = w.tick
       THEN UNCHANGED <<previous, effects>>
       ELSE /\ effects' = AcceptedChangeEffects(
                            IF previous = None THEN None ELSE previous.entities, w.entities, TRUE)
            /\ previous' = w
    /\ UNCHANGED <<sel, tile, pointer>>

\* App: handleSelectEntity, handleSelectTile.
Select(e) == sel' = e /\ tile' = None
SelectTile(t) == tile' = t /\ sel' = None

ClickRank(e) ==
    CASE e.type = "person" -> 0 [] e.type = "animal" -> 1 [] e.type = "shelter" -> 2
      [] e.type = "carcass" -> 3 [] e.type = "tree" -> 4 [] OTHER -> 9

\* handleClick: the filter reads the position of every entity, and throws when
\* one has none.  Of equals the first in the answer of the server, any of them.
HandleClick(t) ==
    LET here == {e \in world.entities : e.position = t}
        top == {e \in here : \A f \in here : ClickRank(e) <= ClickRank(f)}
    IN IF \E e \in world.entities : ~Drawn(e) THEN UNCHANGED <<sel, tile>>
       ELSE IF here = {} THEN SelectTile(t)
       ELSE \E e \in top : Select(e.order)

ClickCanvas(t) ==
    /\ world # None
    /\ pointer' = t
    /\ HandleClick(t)
    /\ UNCHANGED <<world, previous, effects, events>>

ClickChip(e) ==
    /\ world # None
    /\ e \in AttentionStrip(world.entities)
    /\ Select(e.order)
    /\ UNCHANGED <<world, previous, effects, events, pointer>>

\* "Select entity" of an expanded row.
ClickRow(n) ==
    /\ n \in DOMAIN events
    /\ Select(Feed(events)[n].entity)
    /\ UNCHANGED <<world, previous, effects, events, pointer>>

ScreenNext ==
    \/ \E w \in Worlds, evs \in Feeds : Draw(w, evs)
    \/ \E t \in Tiles : ClickCanvas(t)
    \/ world # None /\ \E e \in world.entities : ClickChip(e)
    \/ \E n \in DOMAIN events : ClickRow(n)
-----------------------------------------------------------------------------
\* Properties.

\* The strip has the entity, or is full of others no better off.
InStrip(e, w) ==
    \/ e \in AttentionStrip(w)
    \/ /\ Cardinality(AttentionStrip(w)) = StripLength
       /\ \A f \in AttentionStrip(w) : EntityStatus(f) \in {"Critical", "Dead"}

\* The four places that raise an alarm about needs, each with thresholds of its
\* own, agree: a person the canvas rings (WorldCanvas.jsx:77) has the badge of
\* danger and, while alive, a red bar, and is in the strip unless the strip is full
\* of others in danger; and a need that is red in Diagnostics
\* (EntityInspector.jsx:18) is at least Urgent in Simple View.  Hunger and thirst
\* only: Diagnostics paints the bars of energy and health red when they are high.
AlarmsAgreeIn(w) ==
    \A e \in w :
        /\ Ringed(e) =>
            /\ BadgeVariant(EntityStatus(e)) = "danger"
            /\ Alive(e) => {<<"hunger", "red">>, <<"thirst", "red">>} \cap SoftNeedBars(e) # {}
            /\ InStrip(e, w)
        /\ Living(e) /\ "red" \in {NeedBarColour(Get(e, k, 0)) : k \in {"hunger", "thirst"}} =>
            Rank(EntityStatus(e)) >= Rank("Urgent")
AlarmsAgree == world # None => AlarmsAgreeIn(world.entities)

Raws(text) == {f \in text : f[1] = "raw"}
Only(tokens) == {Raw(t) : t \in tokens}

\* The steps of people (people_planning.py:521) that have a sentence of their own.
ToldSteps ==
    {"travel", "gather", "eat", "drink", "sleep", "build_shelter", "hunt_strike", "wander"}
Interventions == {"boost_need", "spawn_tree", "kill_entity"}

\* The tokens the server writes into the explanation of an event of another type:
\* the note on the decision to give (people_domain.py:119-125), the tick of a life
\* (lifecycle_domain.py:118-123, :173), an animal's need (animal_domain.py:89-93, :149),
\* an intervention (interventions.py:26-61) and the reason why an interaction is
\* stranded (food_interaction_proposals.py:365).  Names of entities are no tokens.
Carried(type) ==
    CASE type = "give_food" -> Softened \cup {"GIVE_FOOD", "score=", "travel="}
      [] type = "lifecycle_tick" -> {"age=", "stage=", "health="}
      [] type = "injury" -> {"health="}
      [] type = "death" -> {"age=", "stage=", "energy=", "hunger="}
      [] type = "rest" -> {"energy="}
      [] type = "graze" -> {"hunger="}
      [] type \in Interventions -> {"influence=", "(x,y)"}
      [] type = "invalidate_food_interaction" -> {"food_interaction.reason"}
      [] OTHER -> {}

\* What the server sends: events explained so, and of decisions that name no goal only
\* tokens sanitizeSimpleProse knows.
Explained ==
    /\ \A evs \in Feeds : \A n \in DOMAIN evs :
          \/ evs[n].type \in ToldSteps
          \/ Raws(evs[n].explanation) \subseteq Only(Carried(evs[n].type))
    /\ \A d \in Decisions :
          \/ d = None \/ Get(d, "selected_goal", None) # None
          \/ Raws(Get(d, "explanation", {})) \subseteq Only(Softened \cup NeedAssignments)

\* What gets through, by the type of the event: no list of sanitizeSimpleProse has it
\* and the type has no sentence.
Leaks(type) ==
    CASE type = "give_food" -> {"GIVE_FOOD", "score=", "travel="}
      [] type = "lifecycle_tick" -> {"age=", "stage="}
      [] type \in Interventions -> {"influence=", "(x,y)"}
      [] type = "invalidate_food_interaction" -> {"food_interaction.reason"}
      [] OTHER -> {}

\* Simple View shows no canonical token of the selected entity, whatever the decision
\* behind it, and of an event no more than the leaks of its type: sanitizeSimpleProse
\* (presentation.js:176) keeps the rest out.
OnlyKnownLeaks ==
    /\ world # None /\ Find(world.entities, sel) # None =>
        LET e == Find(world.entities, sel) IN
        /\ Raws(CanvasTooltip(e, TRUE)) = {}
        /\ \A d \in Decisions : Raws(EntitySummary(e, d).texts) = {}
    /\ \A n \in DOMAIN events :
        Raws(NarrateEvent(events[n])) \subseteq Only(Leaks(events[n].type))

\* A click on the canvas selects the tile or something that stands on it.
Clicked ==
    pointer' # pointer =>
        \/ tile' = pointer' /\ sel' = None
        \/ \E e \in world.entities : e.order = sel' /\ Get(e, "position", None) = pointer'
ClickSelects == [][Clicked]_screenVars
=============================================================================
