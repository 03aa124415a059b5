------------------------------- MODULE Console -------------------------------
(* The single-page console of a run: App.js with the buttons of ControlBar.    *)
(*                                                                             *)
(* The browser runs one handler at a time, and React 18 batches the state a    *)
(* handler sets into one render followed by its effects.  So an action is a    *)
(* handler with the effects its assignments trigger; between two awaits of a   *)
(* handler anything may happen.  Requests overlap freely: the server serves    *)
(* them in any order, their answers arrive in any order, any of them may fail  *)
(* before or after it was served.                                              *)
EXTENDS Naturals

CONSTANTS
    Runs,       \* the runs there may ever be
    Entities,   \* entity ids; the worlds of all runs use the same ones
    Persons,    \* those that are people, who have a cognitive projection
    MaxTick,    \* bound: ticks are counted up to this one
    Slots,      \* bound: requests in flight
    None

ASSUME ConsoleAssumption ==
    /\ Persons \subseteq Entities
    /\ MaxTick \in Nat
    /\ None \notin Runs \cup Entities \cup Nat

VARIABLES
    made,      \* the server: the runs that exist
    tick,      \* the server: the current tick of each run
    net,       \* requests in flight
    run,       \* App: the run under the controls
    world,     \* App: worldState, the run and tick it is a snapshot of
    sel,       \* App: selectedEntityId
    proj,      \* App: cognitiveProjection, with the run it was asked of
    playing,   \* App: isPlaying
    timer,     \* App: the run in the closure of the interval, None when cleared
    busy,      \* App: busyRef
    error      \* App: backendError is shown

server == <<made, tick>>
vars == <<made, tick, net, run, world, sel, proj, playing, timer, busy, error>>

-----------------------------------------------------------------------------
\* Requests: what is asked of which run, whether an iteration of autoplay waits
\* for it, and, for a projection, of whom and for which tick.  ans is None until
\* the server has served it, then the tick it read, if it read one.

Ask(kind, r, by) ==
    [kind |-> kind, run |-> r, by |-> by, ent |-> None, due |-> 0, ans |-> None]

AskProjection(r, e, t) == [Ask("proj", r, "user") EXCEPT !.ent = e, !.due = t]

\* A run at tick t: created at 0, loaded where it stands, forked from a tick.
AskRun(r, t) == [Ask("open", r, "user") EXCEPT !.due = t]

FreeSlots(n) == {s \in Slots : n[s] = None}

Put(n, q) == LET free == CHOOSE s \in FreeSlots(n) : TRUE IN [n EXCEPT ![free] = q]

Drop(n, s) == [n EXCEPT ![s] = None]

\* The user leaves the last free slot to autoplay.
RoomForUser == \E s, t \in FreeSlots(net) : s # t

-----------------------------------------------------------------------------
\* Effects of App, for the state r, w, e that a handler is about to render.

\* Mutant: the state of the run of the world that is drawn is asked.
FetchStateDrawn(n, r, by) ==
    Put(n, Ask("state", IF world = None THEN r ELSE world.run, by))

\* The effect of [run].
FetchState(n, r, by) == Put(n, Ask("state", r, by))

\* Mutant: the effect has no cleanup.
CancelNothing(n) == n

\* The effect of [run, worldState, selectedEntityId]: the cleanup cancels what
\* the previous one asked (whose answer then changes nothing: it is forgotten),
\* and the projection of a selected person is asked.
Cancel(n) == [s \in Slots |-> IF n[s] # None /\ n[s].kind = "proj" THEN None ELSE n[s]]

HasProjection(r, w, e) == r # None /\ w # None /\ e \in Persons

FetchProjection(n, r, w, e) ==
    IF HasProjection(r, w, e)
    THEN Put(Cancel(n), AskProjection(r, e, w.tick)) ELSE Cancel(n)

ProjectionKept(r, w, e) == IF HasProjection(r, w, e) THEN proj ELSE None

\* Mutant: an interval is set up, never cleared.
IntervalKept(p, r) == IF p /\ r # None THEN r ELSE timer

\* The effect of [isPlaying, speed, run].
Interval(p, r) == IF p /\ r # None THEN r ELSE None

-----------------------------------------------------------------------------
Init ==
    /\ \E m \in SUBSET Runs : m # Runs /\ made = m
    /\ tick = [r \in Runs |-> 0]
    /\ net = [s \in Slots |-> None]
    /\ run = None /\ world = None /\ sel = None /\ proj = None
    /\ playing = FALSE /\ timer = None /\ busy = FALSE /\ error = FALSE

\* The user.

SelectEntity(e) ==
    /\ world # None /\ e # sel
    /\ RoomForUser
    /\ sel' = e
    /\ net' = FetchProjection(net, run, world, e)
    /\ proj' = ProjectionKept(run, world, e)
    /\ UNCHANGED <<server, run, world, playing, timer, busy, error>>

\* The pause request changes no state of the console: its answer is ignored.
PlayPause ==
    /\ run # None
    /\ playing' = ~playing
    /\ timer' = Interval(playing', run)
    /\ UNCHANGED <<server, net, run, world, sel, proj, busy, error>>

StepOnce ==
    /\ run # None
    /\ RoomForUser
    /\ net' = Put(net, Ask("step", run, "user"))
    /\ UNCHANGED <<server, run, world, sel, proj, playing, timer, busy, error>>

\* submitIntervention, then onSubmitted of the render it was submitted from.  The
\* server may serve the refresh as late as it likes, so the wait for the
\* intervention before it needs no request of its own.
Intervene ==
    /\ run # None
    /\ RoomForUser
    /\ net' = FetchState(net, run, "user")
    /\ UNCHANGED <<server, run, world, sel, proj, playing, timer, busy, error>>

LoadRun(r) ==
    /\ r \in made
    /\ RoomForUser
    /\ net' = Put(net, AskRun(r, tick[r]))
    /\ UNCHANGED <<server, run, world, sel, proj, playing, timer, busy, error>>

CreateRun(r) ==
    /\ r \notin made
    /\ RoomForUser
    /\ net' = Put(net, AskRun(r, 0))
    /\ UNCHANGED <<server, run, world, sel, proj, playing, timer, busy, error>>

ForkRun(r) ==
    /\ run # None /\ r \notin made
    /\ RoomForUser
    /\ \E t \in 0..tick[run] : net' = Put(net, AskRun(r, t))
    /\ playing' = FALSE
    /\ timer' = Interval(FALSE, run)
    /\ UNCHANGED <<server, run, world, sel, proj, busy, error>>

-----------------------------------------------------------------------------
\* The interval fires: an iteration starts unless one is under way.
AutoTick ==
    /\ timer # None
    /\ ~busy
    /\ FreeSlots(net) # {}
    /\ busy' = TRUE
    /\ net' = Put(net, Ask("step", timer, "auto"))
    /\ UNCHANGED <<server, run, world, sel, proj, playing, timer, error>>

\* The server serves a request.
Serve(s) ==
    /\ net[s] # None /\ net[s].ans = None
    /\ LET q == net[s] IN
        /\ made' = IF q.kind = "open" THEN made \cup {q.run} ELSE made
        /\ tick' =
            [tick EXCEPT ![q.run] =
                IF q.kind = "step" /\ @ < MaxTick THEN @ + 1
                ELSE IF q.kind = "open" /\ q.run \notin made THEN q.due ELSE @]
        /\ net' = [net EXCEPT ![s].ans =
                        IF q.kind \in {"state", "proj"} THEN tick[q.run] ELSE 0]
    /\ UNCHANGED <<run, world, sel, proj, playing, timer, busy, error>>

\* An answer of this kind arrives.
Arrives(s, kind) == net[s] # None /\ net[s].kind = kind /\ net[s].ans # None

\* await refreshState(run.id)
ThenRefresh(s) ==
    /\ Arrives(s, "step")
    /\ net' = FetchState(Drop(net, s), net[s].run, net[s].by)
    /\ UNCHANGED <<server, run, world, sel, proj, playing, timer, busy, error>>

\* Mutant: an iteration that fails or ends does not reset busyRef.
ReleasedNever(s) == busy

Released(s) == IF net[s].by = "auto" THEN FALSE ELSE busy

SetWorldState(s) ==
    /\ Arrives(s, "state")
    /\ world' = [run |-> net[s].run, tick |-> net[s].ans]
    /\ error' = FALSE
    /\ busy' = Released(s)
    /\ net' = FetchProjection(Drop(net, s), run, world', sel)
    /\ proj' = ProjectionKept(run, world', sel)
    /\ UNCHANGED <<server, run, sel, playing, timer>>

\* projection.world_tick === expectedTick
Wanted(q) == q.ans = q.due

SetProjection(s) ==
    /\ Arrives(s, "proj")
    /\ net' = Drop(net, s)
    /\ proj' = IF Wanted(net[s])
               THEN [run |-> net[s].run, observer |-> net[s].ent, tick |-> net[s].ans]
               ELSE proj
    /\ UNCHANGED <<server, run, world, sel, playing, timer, busy, error>>

\* handleRunReady, for whatever run was asked last or first.
RunReady(s) ==
    /\ Arrives(s, "open")
    /\ run' = net[s].run
    /\ sel' = None /\ proj' = None /\ playing' = FALSE /\ error' = FALSE
    /\ timer' = Interval(FALSE, run')
    /\ net' = Cancel(FetchState(Drop(net, s), run', "user"))
    /\ UNCHANGED <<server, world, busy>>

\* The request fails, before or after the server served it.
Fail(s) ==
    /\ net[s] # None
    /\ net' = Drop(net, s)
    /\ busy' = Released(s)
    /\ playing' = (playing /\ ~(net[s].kind = "step" /\ net[s].by = "auto"))
    /\ timer' = Interval(playing', run)
    /\ error' = (error \/ net[s].kind \in {"step", "state"})
    /\ proj' = IF net[s].kind = "proj" THEN None ELSE proj
    /\ UNCHANGED <<server, run, world, sel>>

-----------------------------------------------------------------------------
UserStep ==
    \/ \E e \in Entities \cup {None} : SelectEntity(e)
    \/ PlayPause
    \/ StepOnce
    \/ Intervene
    \/ \E r \in Runs : LoadRun(r) \/ CreateRun(r) \/ ForkRun(r)

Answer(s) == ThenRefresh(s) \/ SetWorldState(s) \/ SetProjection(s) \/ RunReady(s)

Next ==
    \/ UserStep
    \/ AutoTick
    \/ \E s \in Slots : Serve(s) \/ Answer(s) \/ Fail(s)

Spec == Init /\ [][Next]_vars

\* The interval keeps firing, and the network answers or reports a failure.
Fairness ==
    /\ WF_vars(AutoTick)
    /\ \A s \in Slots : WF_vars(Serve(s) \/ Answer(s))

FairSpec == Spec /\ Fairness
-----------------------------------------------------------------------------
\* Properties.

Snapshot == [run : Runs, tick : 0..MaxTick]
Projection == [run : Runs, observer : Persons, tick : 0..MaxTick]
Request ==
    [kind : {"step", "state", "proj", "open"}, run : Runs,
     by : {"user", "auto"}, ent : Persons \cup {None}, due : 0..MaxTick,
     ans : 0..MaxTick \cup {None}]

\* None is none of the records it may stand in the place of.
ASSUME NoneAssumption == None \notin Request \cup Snapshot \cup Projection

\* The type of the console's state: a world and a projection are snapshots of
\* some run, and a request in flight has one of the kinds of api.js (App.js:18).
ConsoleTypeOK ==
    /\ made \subseteq Runs
    /\ tick \in [Runs -> 0..MaxTick]
    /\ net \in [Slots -> Request \cup {None}]
    /\ run \in Runs \cup {None}
    /\ world \in Snapshot \cup {None}
    /\ sel \in Entities \cup {None}
    /\ proj \in Projection \cup {None}
    /\ timer \in Runs \cup {None}
    /\ {playing, busy, error} \subseteq BOOLEAN

\* Autoplay never has two iterations under way, however often it is paused,
\* resumed or moved to another run while a step is in flight; and it is held back
\* only while one really is, so no failure leaves it stuck (App.js:74-84).
OneIteration ==
    /\ \A s, t \in Slots :
        net[s] # None /\ net[t] # None /\ net[s].by = "auto" /\ net[t].by = "auto" => s = t
    /\ busy <=> \E s \in Slots : net[s] # None /\ net[s].by = "auto"

\* A projection that is accepted is the one of the person selected by then, at the
\* tick of the world drawn by then and of the run under the controls, whatever was
\* selected, loaded or stepped since it was asked for (App.js:54-68).
AcceptedFits ==
    proj' # None /\ proj' # proj =>
        proj'.observer = sel' /\ proj'.tick = world'.tick /\ proj'.run = run'
AcceptedProjectionFits == [][AcceptedFits]_vars

\* Autoplay steps the run under the controls, and only while it is playing: once
\* the user has paused, left or forked a run, no tick is asked of it that was not
\* asked before (App.js:70-88).
NewAutoStep(s) ==
    net'[s] # None /\ net'[s] # net[s] /\ net'[s].by = "auto"
        /\ net'[s].kind = "step" /\ net'[s].ans = None
AutoplayFollows ==
    [][\A s \in Slots : NewAutoStep(s) => playing /\ net'[s].run = run]_vars

\* When a run keeps playing and no request fails any more, then answers of the
\* runs shown before die out: the world drawn is that run's for good, although
\* nothing cancels a refresh (App.js:38-52 and 70-88).
Calm == <>[][\A s \in Slots : ~Fail(s)]_vars
DisplayConverges ==
    \A r \in Runs :
        Calm /\ <>[](run = r /\ playing) => <>[](world # None /\ world.run = r)

\* What the overlay draws over a selected person is what that person knows
\* (worldOverlay.js:11-34: the knowledge of the selected person only).
OverlayOwnKnowledge ==
    proj # None /\ HasProjection(run, world, sel) => proj.observer = sel
=============================================================================
