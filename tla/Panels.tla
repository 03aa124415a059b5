-------------------------------- MODULE Panels --------------------------------
(* The tabs of App.js and the panel that is mounted in them: EntityInspector,  *)
(* TileInspector, TimelineTab, EventLog, RejectionsLog.  Each asks the server  *)
(* anew when its run, its subject or the refresh key changes, forgets no       *)
(* earlier question, and shows whichever answer came last.  A tab that is left *)
(* unmounts its panel: what it held is lost, what it waits for is ignored.     *)
EXTENDS Naturals

CONSTANTS
    PanelRuns, Subjects,   \* runs; entities that can be selected
    PanelTiles,            \* tiles that can be selected
    PanelSlots,            \* bound: requests in flight
    Nothing

ASSUME PanelAssumption ==
    /\ Subjects \cap PanelTiles = {}
    /\ Nothing \notin PanelRuns \cup Subjects \cup PanelTiles

VARIABLES
    tab,          \* the tab of the inspector that is open
    panelRun,     \* App: run, by its id
    subject,      \* App: selectedEntityId, or selectedTile, or Nothing
    milestones,   \* TimelineTab: milestoneOnly
    shown,        \* what the data of the mounted panel were asked for
    failed,       \* its error is shown instead
    asked         \* its requests in flight

panelVars == <<tab, panelRun, subject, milestones, shown, failed, asked>>

Tabs == {"entity", "timeline", "events", "rejections"}

-----------------------------------------------------------------------------
\* The panel in the tab t.
Panel(t, s) == IF t = "entity" /\ s \in PanelTiles THEN "tile" ELSE t

\* What its effect asks for: the dependencies but for the refresh key, Nothing
\* when the effect returns early.
Question(t, r, s, m) ==
    LET p == Panel(t, s)
        of == CASE p \in {"entity", "tile"} -> s [] p = "timeline" -> m [] OTHER -> FALSE
    IN IF r = Nothing \/ of = Nothing THEN Nothing ELSE <<p, r, of>>

Wanted == Question(tab, panelRun, subject, milestones)

FreePanelSlots(a) == {i \in PanelSlots : a[i] = Nothing}
NothingAsked == [i \in PanelSlots |-> Nothing]

\* The inspector and the feed show an error; it goes when they ask again.
ShowsError(p) == p \in {"entity", "events"}

\* The effect: it asks q, waiting already for a.
AskAgain(a, q) ==
    IF q = Nothing THEN asked' = a /\ UNCHANGED failed
    ELSE /\ FreePanelSlots(a) # {}
         /\ LET i == CHOOSE i \in FreePanelSlots(a) : TRUE IN asked' = [a EXCEPT ![i] = q]
         /\ failed' = FALSE

\* The panel stays, with what it shows and waits for, or another is mounted.
Remain(q) == UNCHANGED shown /\ AskAgain(asked, q)
Mount(q) ==
    /\ shown' = Nothing /\ failed' = FALSE
    /\ asked' = IF q = Nothing THEN NothingAsked
                ELSE [NothingAsked EXCEPT ![CHOOSE i \in PanelSlots : TRUE] = q]

\* The effect for the next tab, run, subject and filter, if one of them changed.
Effect ==
    LET q == Question(tab', panelRun', subject', milestones') IN
    IF Panel(tab', subject') # Panel(tab, subject) THEN Mount(q)
    ELSE IF q = Wanted THEN UNCHANGED <<shown, failed, asked>>
    ELSE Remain(q)

-----------------------------------------------------------------------------
PanelInit ==
    /\ tab = "entity" /\ panelRun = Nothing /\ subject = Nothing
    /\ milestones = FALSE
    /\ shown = Nothing /\ failed = FALSE /\ asked = NothingAsked

\* Mutant: the refresh key is no dependency of the effect.
RefreshUnused ==
    /\ panelRun # Nothing
    /\ UNCHANGED panelVars

\* A world was fetched: refreshKey is counted up.
Refresh ==
    /\ panelRun # Nothing
    /\ Remain(Wanted)
    /\ UNCHANGED <<tab, panelRun, subject, milestones>>

\* handleSelectEntity and handleSelectTile.
SelectSubject(s) ==
    /\ panelRun # Nothing
    /\ subject' = s
    /\ UNCHANGED <<tab, panelRun, milestones>>
    /\ Effect

\* handleRunReady.
SwitchRun(r) ==
    /\ r # panelRun
    /\ panelRun' = r /\ subject' = Nothing
    /\ UNCHANGED <<tab, milestones>>
    /\ Effect

\* The filter is a state of the timeline: it is lost with it.
SwitchTab(t) ==
    /\ t # tab
    /\ tab' = t /\ milestones' = FALSE
    /\ UNCHANGED <<panelRun, subject>>
    /\ Effect

ToggleMilestones ==
    /\ tab = "timeline"
    /\ milestones' = ~milestones
    /\ UNCHANGED <<tab, panelRun, subject>>
    /\ Effect

Receive(i) ==
    /\ asked[i] # Nothing
    /\ shown' = asked[i]
    /\ asked' = [asked EXCEPT ![i] = Nothing]
    /\ UNCHANGED <<tab, panelRun, subject, milestones, failed>>

FailPanel(i) ==
    /\ asked[i] # Nothing
    /\ asked' = [asked EXCEPT ![i] = Nothing]
    /\ failed' = (failed \/ ShowsError(Panel(tab, subject)))
    /\ UNCHANGED <<tab, panelRun, subject, milestones, shown>>

PanelNext ==
    \/ Refresh
    \/ \E s \in Subjects \cup PanelTiles : SelectSubject(s)
    \/ \E r \in PanelRuns : SwitchRun(r)
    \/ \E t \in Tabs : SwitchTab(t)
    \/ ToggleMilestones
    \/ \E i \in PanelSlots : Receive(i) \/ FailPanel(i)

\* The run keeps being stepped, and every request is answered or fails.
PanelFairness ==
    /\ WF_panelVars(Refresh)
    /\ \A i \in PanelSlots : WF_panelVars(Receive(i))
-----------------------------------------------------------------------------
\* Properties.

\* Whatever was selected, however late its answers: while the run goes on, and
\* once requests no longer fail, the panel comes to show what is selected, of the
\* run under the controls, for good and without an error (EntityInspector.jsx:42-50
\* and the like, none of which cancels a request).
Questions ==
    {Question(t, r, s, m) :
        t \in Tabs, r \in PanelRuns, s \in Subjects \cup PanelTiles, m \in BOOLEAN}
PanelConverges ==
    \A q \in Questions :
        /\ <>[](Wanted = q)
        /\ <>[][\A i \in PanelSlots : ~FailPanel(i)]_panelVars
        => <>[](shown = q /\ ~failed)
=============================================================================
