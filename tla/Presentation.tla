---------------------------- MODULE Presentation -----------------------------
(* lib/presentation.js: what the console says of an entity or an event.        *)
(*                                                                             *)
(* A document is a record of the fields it has; Get reads one that may be      *)
(* absent.  A text is the set of what it is made of, its wording left out: a   *)
(* canonical token of the server may be in it translated, humanized (its       *)
(* underscores gone) or raw; the rest are numbers, names, and the plain        *)
(* words some expression of the code looks for.                                *)
EXTENDS Integers, Sequences, FiniteSets

CONSTANTS None, StripLength   \* of the attention strip: 8

ASSUME PresentationAssumption == StripLength \in Nat

Get(d, field, default) == IF field \in DOMAIN d THEN d[field] ELSE default

Translated(t) == <<"translated", t>>
Humanized(t) == <<"humanized", t>>
Raw(t) == <<"raw", t>>
Words(w) == <<"words", w>>
Count(n) == <<"count", n>>

-----------------------------------------------------------------------------
\* Labels.

GoalLabels ==
    {"SEEK_WATER", "SEEK_FOOD", "SLEEP", "BUILD_SHELTER", "GATHER_SURPLUS", "HUNT",
     "EXPLORE", "WANDER", "DEAD", "REST", "GRAZE", "FLEE"}
ActionTypeLabels ==
    {"travel", "gather", "eat", "drink", "sleep", "build_shelter", "hunt_strike",
     "wander", "graze", "rest", "flee", "idle", "death"}
TravelPurposeLabels ==
    {"TRAVEL_WATER", "TRAVEL_FOOD", "TRAVEL_TREE", "TRAVEL_SITE", "TRAVEL_SHELTER",
     "TRAVEL_FRONTIER", "TRAVEL_ANIMAL"}
DestinationConcept == TravelPurposeLabels
ArrivalNextLabels ==
    {"DRINK", "GATHER", "GATHER_FOOD", "BUILD", "SLEEP", "HUNT_STRIKE", "EAT"}
EventTypeLabels ==
    {"travel", "gather", "eat", "drink", "sleep", "build_shelter", "hunt_strike",
     "wander", "graze", "rest", "flee", "death", "spawn_entity", "boost_need",
     "kill_entity", "spawn_tree"}
ReasonLabels ==
    {"precondition.failed", "precondition.entity_missing",
     "conflict.resource_contention", "causality.missing_parent",
     "causality.invalid_parent", "participant_unavailable"}

Label(t, table, absent) ==
    IF t = None THEN absent ELSE {IF t \in table THEN Translated(t) ELSE Humanized(t)}

LabelGoal(g) == Label(g, GoalLabels, {Words("no active goal")})
LabelActionType(t) ==
    Label(t, ActionTypeLabels \cup ArrivalNextLabels \cup TravelPurposeLabels, {Words("idle")})
LabelTravelPurpose(p) == Label(p, TravelPurposeLabels, {})
LabelArrivalNext(a) == Label(a, ArrivalNextLabels, {})
LabelEventType(t) == Label(t, EventTypeLabels, {Words("something happened")})
LabelReasonCode(c) == Label(c, ReasonLabels, {Words("unknown reason")})

\* An id is the sequence of its parts: <<"person", 3>>, <<"carcass", 2, 40>>.
DisplayNameOfId(id) ==
    [base |-> id[1], number |-> IF Len(id) > 1 THEN id[2] + 1 ELSE None]
DisplayName(e) ==
    [base |-> e.type, number |-> IF Len(e.id) > 1 THEN e.id[Len(e.id)] + 1 ELSE None]

-----------------------------------------------------------------------------
\* Condition.

Status == {"Unknown", "Safe", "Attention", "Urgent", "Critical", "Dead"}

Rank(s) ==
    CASE s = "Dead" -> 5 [] s = "Critical" -> 4 [] s = "Urgent" -> 3
      [] s = "Attention" -> 2 [] s = "Safe" -> 1 [] OTHER -> 0

AtMost(v, critical, urgent, attention) ==
    IF v <= critical THEN "Critical"
    ELSE IF v <= urgent THEN "Urgent"
    ELSE IF v <= attention THEN "Attention" ELSE "Safe"

\* Mutant: the thresholds of hunger and thirst are exclusive.
NeedSeverityExclusive(kind, v) ==
    CASE kind = "energy" -> AtMost(v, 150, 300, 500)
      [] kind = "health" -> IF v <= 0 THEN "Dead" ELSE AtMost(v, 200, 400, 700)
      [] OTHER -> AtMost(-v, -901, -651, -401)

\* Of energy and health a little is bad, of hunger and thirst much.
NeedSeverity(kind, v) ==
    CASE kind = "energy" -> AtMost(v, 150, 300, 500)
      [] kind = "health" -> IF v <= 0 THEN "Dead" ELSE AtMost(v, 200, 400, 700)
      [] OTHER -> AtMost(-v, -900, -650, -400)

Alive(e) == Get(e, "alive", TRUE)
Living(e) == e.type \in {"person", "animal"}
InjuredPerson(e) == Get(Get(e, "injury", [injured |-> FALSE]), "injured", FALSE)
Injured(e) == InjuredPerson(e) \/ Get(e, "injured", FALSE)

NeedLevels(e) ==
    {NeedSeverity("thirst", Get(e, "thirst", 0)), NeedSeverity("hunger", Get(e, "hunger", 0)),
     NeedSeverity("energy", Get(e, "energy", 1000)), NeedSeverity("health", Get(e, "health", 1000))}
        \cup (IF Injured(e) THEN {"Urgent"} ELSE {})

EntityStatus(e) ==
    IF ~Alive(e) THEN "Dead"
    ELSE IF ~Living(e) THEN "Safe"
    ELSE CHOOSE l \in NeedLevels(e) : \A m \in NeedLevels(e) : Rank(m) <= Rank(l)

BadgeVariant(s) ==
    CASE s \in {"Dead", "Critical"} -> "danger" [] s = "Urgent" -> "warning"
      [] s = "Attention" -> "info" [] s = "Safe" -> "success" [] OTHER -> "default"

\* The needs that the line about the condition of a living entity names.
ConditionNeeds(e) ==
    IF e.type = "person" THEN {"thirst", "hunger", "energy", "health"} ELSE {"hunger", "energy"}

Condition(e) ==
    IF ~Living(e) THEN {}
    ELSE IF ~Alive(e) THEN {Words("dead")} \cup Label(Get(e, "death_cause", None), {}, {})
    ELSE {<<k, NeedSeverity(k, Get(e, k, IF k = "health" THEN 1000 ELSE 0))>> :
                k \in ConditionNeeds(e)}
            \cup (IF (IF e.type = "person" THEN InjuredPerson(e) ELSE Get(e, "injured", FALSE))
                  THEN {Words("injured")} ELSE {})

\* The most pressing need, by distance and not by severity; the first of equals.
Pressures(e) ==
    <<<<"Water", Get(e, "thirst", 0)>>, <<"Food", Get(e, "hunger", 0)>>,
      <<"Rest", 1000 - Get(e, "energy", 1000)>>>>
        \o (IF e.type = "person" THEN <<<<"Health", 1000 - Get(e, "health", 1000)>>>> ELSE <<>>)

MainNeed(e) ==
    LET p == Pressures(e)
        top == CHOOSE i \in DOMAIN p :
                    \A j \in DOMAIN p : p[j][2] < p[i][2] \/ (p[j][2] = p[i][2] /\ i <= j)
    IN IF ~Alive(e) \/ ~Living(e) THEN None ELSE p[top][1]

CountLiving(world) == Cardinality({e \in world : Living(e) /\ Alive(e)})
CountDead(world) == Cardinality({e \in world : Living(e) /\ ~Alive(e)})

-----------------------------------------------------------------------------
\* Action, destination, next step.

Act(e, field) == Get(Get(e, "action", <<>>), field, None)
NoPlan == [steps |-> <<>>]
Plan(e) == Get(e, "plan", NoPlan)
PlanSteps(e) == {Plan(e).steps[i] : i \in DOMAIN Plan(e).steps}

Steps(n) == IF n = None THEN {} ELSE {Count(n)}

Activity(e) ==
    LET type == Act(e, "type")
        purpose == Act(e, "travel_purpose")
        forFood == Act(e, "target_kind") = "carcass" \/ "GATHER_FOOD" \in PlanSteps(e)
    IN IF ~Alive(e) THEN {Words("died")} \cup Label(Get(e, "death_cause", None), {}, {})
       ELSE IF type = "travel"
       THEN (IF purpose = None THEN {Words("travelling")} ELSE LabelTravelPurpose(purpose))
                \cup LabelArrivalNext(Act(e, "arrival_action"))
       ELSE IF type = "gather" THEN {Translated(IF forFood THEN "GATHER_FOOD" ELSE "gather")}
       ELSE LabelActionType(type)
                \cup (IF Act(e, "status") \in {"failed", "paused"} THEN {Words(Act(e, "status"))} ELSE {})

Destination(e, diagnostics) ==
    LET purpose == Act(e, "travel_purpose")
        target == Act(e, "target_pos")
        n == Act(e, "remaining_path")
    IN IF diagnostics /\ target # None THEN {Raw("coordinates")} \cup Steps(n)
       ELSE IF target = None /\ n = None /\ purpose = None THEN {}
       ELSE {IF purpose \in DestinationConcept THEN Translated(purpose) ELSE Words("the destination")}
                \cup Steps(n)

NoNext == {Words("no next action")}

DescribeNext(e) ==
    LET type == Act(e, "type")
        n == Act(e, "remaining_path")
        required == Get(Get(e, "action", <<>>), "ticks_required", 0)
        next == Get(Plan(e), "step_index", 0) + 2
    IN IF ~Alive(e) THEN {Words("no longer active")}
       ELSE IF type = "travel" /\ n # None
       THEN {IF n = 0 THEN Words("arriving") ELSE Count(n)} \cup LabelArrivalNext(Act(e, "arrival_action"))
       ELSE IF type \in {"gather", "hunt_strike", "build_shelter"} /\ required > 0
       THEN {Count(Get(e.action, "ticks_spent", 0)), Count(required)}
       ELSE IF type = "sleep" THEN {Words("until rested")}
       ELSE IF next \in DOMAIN Plan(e).steps THEN LabelArrivalNext(Plan(e).steps[next])
       ELSE NoNext

-----------------------------------------------------------------------------
\* Explanations of the server, in Simple View.

Softened ==
    TravelPurposeLabels \cup
    {"GATHER_FOOD", "GATHER_SURPLUS", "HUNT_STRIKE", "BUILD_SHELTER", "SEEK_WATER",
     "SEEK_FOOD", "GATHER", "EXPLORE", "WANDER", "SLEEP", "HUNT", "DRINK", "EAT",
     "BUILD", "CRITICAL", "coordinates"}
NeedAssignments == {"hunger=", "thirst=", "energy=", "health=", "resource="}

SanitizeSimpleProse(text) ==
    {IF f[1] = "raw" /\ f[2] \in Softened THEN Translated(f[2]) ELSE f :
        f \in text \ {Raw(a) : a \in NeedAssignments}}

\* What buildWhySentence looks for, in this order: a goal, or what the action
\* shows of it.
Themes ==
    << <<"SEEK_FOOD", "TRAVEL_FOOD">>, <<"SEEK_WATER", "TRAVEL_WATER">>,
       <<"EXPLORE", "TRAVEL_FRONTIER">>, <<"HUNT", "TRAVEL_ANIMAL">>, <<"SLEEP", "sleep">>,
       <<"BUILD_SHELTER", None>>, <<"WANDER", "wander">> >>

\* TRAVEL_ purposes are matched with the purpose, the rest with the type.
ThemesOf(selected, e) ==
    {i \in DOMAIN Themes :
        \/ Themes[i][1] = selected
        \/ Themes[i][2] # None /\ Themes[i][2] \in {Act(e, "travel_purpose"), Act(e, "type")}}

GoalClause(selected, e) ==
    LET found == ThemesOf(selected, e) IN
    IF found # {} THEN {Translated(Themes[CHOOSE i \in found : \A j \in found : i <= j][1])}
    ELSE IF selected # None THEN LabelGoal(selected) ELSE {}

\* explanation: the set of what the server's sentence is made of; a number of
\* route steps in it counts before the length of the path.
WhySentence(e, selected, explanation) ==
    LET moving == Act(e, "type") = "travel" \/ Words("travelling") \in explanation
        told == {f \in explanation : f[1] = "count"}
        arrival == Act(e, "arrival_action")
        bits == GoalClause(selected, e)
                    \cup (explanation \cap {Words("learned")})
                    \cup (IF told # {} THEN told
                          ELSE IF Act(e, "remaining_path") # None THEN Steps(Act(e, "remaining_path"))
                          ELSE IF moving /\ Raw("coordinates") \in explanation
                          THEN {Words("planned route")} ELSE {})
                    \cup (IF moving THEN LabelArrivalNext(arrival) ELSE {})
        soft == SanitizeSimpleProse(explanation)
    IN IF bits # {} THEN bits ELSE IF soft # {} THEN soft ELSE {Words("no explanation")}

\* diagnostics: the goal and the explanation of the last decision, None if there
\* was none; the goals considered, best first, are cut to five.
ExplainDecision(e, diagnostics) ==
    LET diag == IF diagnostics = None THEN <<>> ELSE diagnostics
        goal == Get(diag, "selected_goal", None)
        selected == IF goal # None THEN goal ELSE Get(e, "current_goal", None)
        ranked == Get(diag, "candidates", <<>>)
    IN [why |-> WhySentence(e, selected, Get(diag, "explanation", {})),
        next |-> DescribeNext(e),
        alternatives |-> [i \in 1..(IF Len(ranked) < 5 THEN Len(ranked) ELSE 5) |->
                            [label |-> LabelGoal(ranked[i]), chosen |-> ranked[i] = selected]]]

-----------------------------------------------------------------------------
\* Events.

\* Mutant: no sentence for hunting.
HasSentenceNoHunt(event) ==
    \/ event.type \in {"graze", "rest", "death", "drink", "eat", "sleep",
                       "build_shelter", "gather", "travel", "wander", "spawn_entity"}
    \/ event.explanation \cap {Words("grazing"), Words("residual danger"), Words("learned")} # {}
    \/ event.type = "flee" /\ Words("fleeing") \in event.explanation
    \/ {Words("resting"), Raw("energy=")} \subseteq event.explanation

\* Events that have a sentence of their own.
HasSentence(event) ==
    \/ event.type \in {"graze", "rest", "death", "drink", "eat", "sleep", "build_shelter",
                       "gather", "hunt_strike", "travel", "wander", "spawn_entity"}
    \/ event.explanation \cap {Words("grazing"), Words("residual danger"), Words("learned")} # {}
    \/ event.type = "flee" /\ Words("fleeing") \in event.explanation
    \/ {Words("resting"), Raw("energy=")} \subseteq event.explanation

NarrateEvent(event) ==
    LET soft == SanitizeSimpleProse(event.explanation) IN
    IF HasSentence(event) THEN {Words(event.type)} \cup Label(Get(event, "death_cause", None), {}, {})
    ELSE IF soft # {} THEN soft
    ELSE LabelEventType(event.type)

EventPriority(type) ==
    CASE type = "death" -> 1 [] type = "flee" -> 2
      [] type \in {"travel", "wander", "graze", "rest"} -> 5 [] OTHER -> 4

-----------------------------------------------------------------------------
\* Collections.

\* Ids are compared last.
Before(f, e) ==
    \/ Rank(EntityStatus(f)) > Rank(EntityStatus(e))
    \/ EntityStatus(f) = EntityStatus(e) /\ f.order < e.order

\* Mutant: the order of worldAttentionList without its first key.
AttentionStripById(world) ==
    {e \in world : Living(e) /\
        Cardinality({f \in world : Living(f) /\ f.order < e.order}) < StripLength}

\* AttentionStrip: the first of worldAttentionList (its filter lets all of it pass).
AttentionStrip(world) ==
    {e \in world : Living(e) /\
        Cardinality({f \in world : Living(f) /\ Before(f, e)}) < StripLength}

\* The lines over the canvas.
CanvasTooltip(e, simple) ==
    IF simple
    THEN {Words(DisplayName(e).base)} \cup Activity(e) \cup {Words(EntityStatus(e))}
            \cup Destination(e, FALSE) \cup (DescribeNext(e) \ NoNext)
    ELSE {Raw(Get(e, "current_goal", None)), Raw(Act(e, "type"))}
            \cup (IF Act(e, "target_pos") = None THEN {} ELSE {Raw("coordinates")})
=============================================================================
