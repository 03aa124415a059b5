------------------------------- MODULE Overlay -------------------------------
(* lib/worldOverlay.js and the drawing of WorldCanvas.jsx: what is drawn over  *)
(* the tiles, as data; colours, strokes and the pulse are left out.            *)
EXTENDS Presentation, SequencesExt

CONSTANTS RoutePoints, GhostMarkers, DiscoveryPulses, MovementEffects, Labels

ASSUME OverlayAssumption ==
    {RoutePoints, GhostMarkers, DiscoveryPulses, MovementEffects, Labels} \subseteq Nat

Cut(s, n) == SubSeq(s, 1, IF Len(s) < n THEN Len(s) ELSE n)

Find(world, order) ==
    IF \E e \in world : e.order = order THEN CHOOSE e \in world : e.order = order ELSE None

-----------------------------------------------------------------------------
\* What a selected person knows of the tiles of the grid.

NoLayers ==
    [active |-> FALSE, perceived |-> {}, knownUnseen |-> {}, unknown |-> {},
     ghosts |-> <<>>, discoveries |-> <<>>]

Layers(grid, projection) ==
    LET perceived == Get(projection, "perceived", {})
        known == Get(projection, "known_tiles", {})
    IN [active |-> TRUE,
        perceived |-> perceived,
        knownUnseen |-> known \ perceived,
        unknown |-> {t \in grid : t \notin known /\ t \notin perceived},
        ghosts |-> Cut(Get(projection, "last_known_entities", <<>>), GhostMarkers),
        discoveries |-> Cut(Get(projection, "new_discoveries", <<>>), DiscoveryPulses)]

CognitiveLayers(grid, selected, projection, enabled) ==
    IF ~enabled \/ selected = None \/ projection = None THEN NoLayers
    ELSE IF selected.type # "person" THEN NoLayers
    ELSE Layers(grid, projection)

\* drawCognitiveOverlay: the first layer a tile is found in shades it.
Shade(tile, layers) ==
    IF ~layers.active THEN "none"
    ELSE IF tile \in layers.unknown THEN "dark"
    ELSE IF tile \in layers.knownUnseen THEN "slate"
    ELSE IF tile \in layers.perceived THEN "framed" ELSE "none"

-----------------------------------------------------------------------------
\* The planned route, from the projection or else from the action.  The path of
\* an action is its field path here; Presentation only counts it (remaining_path).

First(a, b) == IF a # None THEN a ELSE b

RouteOverlay(selected, projection, enabled) ==
    LET action == IF selected = None THEN <<>> ELSE Get(selected, "action", <<>>)
        asked == IF projection = None THEN None ELSE Get(projection, "route", None)
        route == First(asked, action)
        Of(field, actionField) == First(Get(route, field, None), Get(action, actionField, None))
        path == First(Get(route, "path", None), Get(action, "path", <<>>))
    IN IF ~enabled \/ Get(action, "type", None) # "travel" \/ Get(action, "status", None) = "completed"
       THEN None
       ELSE [status |-> Of("status", "status"),
             purpose |-> Of("purpose", "travel_purpose"),
             target |-> Of("target", "target_pos"),
             mode |-> Of("arrival_mode", "arrival_mode"),
             invalid |-> \/ Get(route, "unreachable", FALSE) \/ Get(action, "unreachable", FALSE)
                         \/ Of("invalidation_reason", "invalidation_reason") # None,
             path |-> Cut(path, RoutePoints),
             truncated |-> Get(route, "truncated", FALSE) \/ Len(path) >= RoutePoints]

\* drawRoute: the line of the route, where the person stands first, its dashes,
\* and the target with, for an adjacent arrival, the tiles beside it.
RouteLine(selected, route) ==
    IF route = None \/ selected = None THEN <<>>
    ELSE IF Get(selected, "position", None) = None THEN <<>>
    ELSE <<selected.position>> \o route.path

Dashed(route) == route.invalid \/ route.status = "paused"

Beside(t) == {<<t[1], t[2] - 1>>, <<t[1] + 1, t[2]>>, <<t[1], t[2] + 1>>, <<t[1] - 1, t[2]>>}

TargetMarks(selected, route) ==
    IF RouteLine(selected, route) = <<>> \/ route.target = None THEN {}
    ELSE {route.target} \cup (IF route.mode = "adjacent" THEN Beside(route.target) ELSE {})

-----------------------------------------------------------------------------
\* Marks on entities.

Drawn(e) == Get(e, "position", None) # None

Larger(a, b) == IF a < b THEN b ELSE a

\* The ring of drawIndicators.
Ringed(e) ==
    /\ e.type = "person" /\ Drawn(e)
    /\ Larger(Get(e, "hunger", 0), Get(e, "thirst", 0)) >= 900

Marks(e) ==
    IF ~Living(e) \/ ~Drawn(e) THEN {}
    ELSE (IF Ringed(e) THEN {"ring"} ELSE {})
            \cup (IF Injured(e) THEN {"plus"} ELSE {})
            \cup (IF ~Get(e, "alive", FALSE) THEN {"cross"} ELSE {})

\* entityIndicators: those that have a label.
Indicators(world, selected, mode) ==
    LET asked == {e \in world : Living(e) /\ (mode = "all" \/ (mode = "selected" /\ e.order = selected))}
    IN {e \in asked : Cardinality({f \in asked : f.order < e.order}) < Labels}

-----------------------------------------------------------------------------
\* Effects between the entities drawn before and now.

HasFood(e) == <<Get(e, "food_inventory", 0), Get(e, "inventory", 0)>>
Completed(e) == Act(e, "status") = "completed"

EffectsOf(b, e) ==
    (IF Drawn(b) /\ Drawn(e) /\ b.position # e.position THEN <<"move">> ELSE <<>>)
        \o (IF Alive(b) /\ ~Alive(e) THEN <<"death">> ELSE <<>>)
        \o (IF ~InjuredPerson(b) /\ InjuredPerson(e) THEN <<"injury">> ELSE <<>>)
        \o (IF ~Completed(b) /\ Completed(e) THEN <<"complete">> ELSE <<>>)
        \o (IF HasFood(e)[1] > HasFood(b)[1] \/ HasFood(e)[2] > HasFood(b)[2]
            THEN <<"resource">> ELSE <<>>)

\* previous is None before the first world is drawn; entities in order of id.
AcceptedChangeEffects(previous, world, enabled) ==
    LET both == {e \in world : Find(previous, e.order) # None}
        all == FlattenSeq([i \in 1..Cardinality(both) |->
                    LET e == CHOOSE x \in both : Cardinality({y \in both : y.order < x.order}) = i - 1
                        kinds == EffectsOf(Find(previous, e.order), e)
                    IN [k \in DOMAIN kinds |-> [type |-> kinds[k], entity |-> e.order]]])
    IN IF ~enabled \/ previous = None THEN <<>> ELSE Cut(all, MovementEffects)
=============================================================================
