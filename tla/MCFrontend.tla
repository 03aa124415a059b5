------------------------------ MODULE MCFrontend ------------------------------
(* A small instance of the parts of the page for TLC.  They share no state     *)
(* (Console has what runs between them), so a behaviour exercises one of them, *)
(* the one in focus, and the instance is as large as their sum.                *)
EXTENDS Screen, Panels, Dialogs

VARIABLE focus

all == <<focus, screenVars, panelVars, dialogVars>>

Init == ScreenInit /\ PanelInit /\ DialogInit /\ focus \in {"screen", "panels", "dialogs"}

OnScreen == focus = "screen" /\ ScreenNext /\ UNCHANGED <<focus, panelVars, dialogVars>>
InPanels == focus = "panels" /\ PanelNext /\ UNCHANGED <<focus, screenVars, dialogVars>>
InDialogs == focus = "dialogs" /\ DialogNext /\ UNCHANGED <<focus, screenVars, panelVars>>

Next == OnScreen \/ InPanels \/ InDialogs

Spec == Init /\ [][Next]_all /\ PanelFairness

-----------------------------------------------------------------------------
\* The worlds drawn.  Order is the order of ids: animals before persons.

With(e, fields) == fields @@ e

Person(n) ==
    [type |-> "person", id |-> <<"person", n>>, order |-> 20 + n, position |-> <<n, 0>>,
     alive |-> TRUE, hunger |-> 100, thirst |-> 100, energy |-> 800, health |-> 1000,
     current_goal |-> "WANDER", action |-> [type |-> "wander", status |-> "performing"]]

Animal ==
    [type |-> "animal", id |-> <<"animal", 0>>, order |-> 10, position |-> <<0, 0>>,
     alive |-> TRUE, hunger |-> 100, energy |-> 800, health |-> 100,
     current_goal |-> "GRAZE", action |-> [type |-> "graze", status |-> "performing"]]

Tree == [type |-> "tree", id |-> <<"tree", 0>>, order |-> 40, position |-> <<0, 0>>]
Interaction ==
    [type |-> "food_interaction", id |-> <<"food_interaction", 0>>, order |-> 15,
     status |-> "pending"]

Walks ==
    [action |-> [type |-> "travel", status |-> "travelling", travel_purpose |-> "TRAVEL_FOOD",
                 arrival_action |-> "GATHER_FOOD", target_pos |-> <<3, 3>>, remaining_path |-> 2],
     plan |-> [goal |-> "SEEK_FOOD", steps |-> <<"TRAVEL_FOOD", "GATHER_FOOD", "EAT">>, step_index |-> 0]]
Starves(n) == [hunger |-> n, current_goal |-> "SEEK_FOOD"]
Thirsts(n) == [thirst |-> n, current_goal |-> "SEEK_WATER"]
Dies == [alive |-> FALSE, health |-> 0, death_cause |-> "starvation", current_goal |-> "DEAD",
         action |-> [type |-> "death", status |-> "completed"]]

At(t, entities) == [tick |-> t, entities |-> entities]

\* Quiet; a walk; hunger and thirst below, at and above each threshold; more in
\* danger than the strip has places; deaths; an interaction of two people.
WorldsValue ==
    {At(0, {Person(0), Person(1), Tree}),
     At(1, {With(Person(0), Walks @@ Starves(650)), Person(1), Animal}),
     At(1, {With(Person(0), Starves(699)), With(Person(1), Thirsts(700))}),
     At(1, {With(Person(0), Starves(899)), With(Person(1), Thirsts(900)), Person(2)}),
     At(1, {With(Person(0), Starves(650)), With(Person(1), Thirsts(650)), With(Person(2), Starves(900))}),
     At(2, {With(Person(0), Starves(1000)), With(Person(1), Dies), With(Person(2), Thirsts(900)), Animal}),
     At(2, {With(Person(0), Starves(899) @@ Dies), With(Person(1), Dies), Tree})}

WithInteraction == {At(1, {Person(0), Person(1), Interaction})}

Event(type, n, t, told) == [type |-> type, entity |-> 20 + n, tick |-> t, explanation |-> told]
Decided(goal) ==
    {Words("selected"), Raw(goal), Raw("score="), Raw("travel="), Words("over"), Raw("WANDER")}
Ages == {Raw("age="), Raw("stage="), Raw("health="), Words("regenerating")}
External == {Words("external intervention"), Raw("influence=")}

\* Newest first, as the server lists them: steps of people; their lives and a death;
\* interventions; an interaction about food, and a gift; animals.
FeedsValue ==
    {<<>>,
     <<Event("hunt_strike", 0, 2, Decided("HUNT")), Event("travel", 1, 2, Decided("SEEK_FOOD")),
       Event("drink", 0, 1, Decided("SEEK_WATER"))>>,
     <<Event("wander", 0, 2, Decided("WANDER")), Event("lifecycle_tick", 0, 2, Ages),
       Event("injury", 1, 2, {Words("newly injured"), Raw("health=")}),
       Event("death", 1, 2, {Words("critical"), Raw("age="), Raw("stage=")})>>,
     <<Event("boost_need", 0, 1, External \cup {Words("hunger")}),
       Event("spawn_tree", 0, 1, External \cup {Words("spawn tree"), Raw("(x,y)")}),
       Event("kill_entity", 0, 1, External)>>,
     <<Event("give_food", 0, 2, Decided("GIVE_FOOD")),
       Event("invalidate_food_interaction", 0, 2,
             {Words("stranded"), Raw("food_interaction.reason")}),
       Event("respond_food_interaction", 0, 1, {Words("auto-accept")}),
       Event("create_food_interaction", 0, 1, {Words("request food")})>>,
     <<Event("graze", 0, 1, {Raw("hunger="), Words("grazing")}),
       Event("rest", 0, 1, {Raw("energy="), Words("resting")}),
       Event("regrow", 0, 1, {Words("natural regrowth")})>>}

DecisionsValue ==
    {None,
     [selected_goal |-> "SEEK_FOOD", explanation |-> Decided("SEEK_FOOD") \cup {Raw("coordinates")},
      candidates |-> <<"SEEK_FOOD", "WANDER">>],
     [selected_goal |-> "HUNT", explanation |-> Decided("HUNT") \cup {Words("learned")},
      candidates |-> <<"HUNT", "SEEK_FOOD", "GIVE_FOOD">>]}

TilesValue == {<<0, 0>>, <<1, 0>>, <<3, 3>>}

ResponsesValue ==
    {Absent, [scenarios |-> Absent], [scenarios |-> <<>>], [scenarios |-> <<Absent>>],
     [scenarios |-> <<"small">>], [scenarios |-> <<Absent, "large", "small">>]}

\* The feeds and decisions above are such as the theorem on the texts assumes.
ASSUME AsExplained == Explained
=============================================================================
