---------------------------- MODULE ConsoleProofs ----------------------------
(* Proofs about Console, for any number of runs, entities, ticks and requests  *)
(* in flight.                                                                  *)
EXTENDS Console, TLAPS

Nets == [Slots -> Request \cup {None}]

Is(q, kind) == q # None /\ q.kind = kind
ByAuto(q) == q # None /\ q.by = "auto"

\* A projection in flight is the one the console now wants: whatever changes what
\* it wants has cancelled the others.
ProjInv ==
    \A s \in Slots : Is(net[s], "proj") =>
        /\ net[s].by = "user"
        /\ HasProjection(run, world, sel)
        /\ net[s].run = run /\ net[s].ent = sel /\ net[s].due = world.tick

\* Iterations of autoplay wait for a step or a state, and the interval is the one
\* of the run under the controls.
AutoInv ==
    /\ \A s \in Slots : ByAuto(net[s]) => net[s].kind \in {"step", "state"}
    /\ timer = Interval(playing, run)

\* The inductive invariant.
ConsoleInv == ConsoleTypeOK /\ ProjInv /\ AutoInv /\ OneIteration

-----------------------------------------------------------------------------
\* What the operators on requests in flight do.

\* A request that is sent takes a slot that was free, and only that one.
LEMMA PutLemma ==
    ASSUME NEW n \in Nets, NEW q \in Request, FreeSlots(n) # {}
    PROVE  \E f \in Slots : n[f] = None /\ Put(n, q) = [n EXCEPT ![f] = q] /\ Put(n, q) \in Nets
<1> DEFINE f == CHOOSE s \in FreeSlots(n) : TRUE
<1>1. f \in FreeSlots(n)
  OBVIOUS
<1>2. f \in Slots /\ n[f] = None
  BY <1>1 DEF FreeSlots
<1>3. Put(n, q) = [n EXCEPT ![f] = q]
  BY DEF Put
<1>4. Put(n, q) \in Nets
  BY <1>2, <1>3 DEF Nets
<1> QED
  BY <1>2, <1>3, <1>4

\* A request that ended leaves its slot free.
LEMMA DropLemma ==
    ASSUME NEW n \in Nets, NEW s \in Slots
    PROVE  /\ Drop(n, s) \in Nets
           /\ Drop(n, s)[s] = None
           /\ \A t \in Slots : t # s => Drop(n, s)[t] = n[t]
           /\ s \in FreeSlots(Drop(n, s))
BY DEF Drop, Nets, FreeSlots

\* Cancelling forgets projections and nothing else.
LEMMA CancelLemma ==
    ASSUME NEW n \in Nets
    PROVE  /\ Cancel(n) \in Nets
           /\ \A t \in Slots : Cancel(n)[t] = IF Is(n[t], "proj") THEN None ELSE n[t]
           /\ FreeSlots(n) \subseteq FreeSlots(Cancel(n))
BY DEF Cancel, Nets, FreeSlots, Is

LEMMA AskType ==
    ASSUME NEW r \in Runs, NEW by \in {"user", "auto"}, NEW kind \in {"step", "state"}
    PROVE  /\ Ask(kind, r, by) \in Request
           /\ Ask(kind, r, by).kind = kind /\ Ask(kind, r, by).by = by
           /\ Ask(kind, r, by).run = r /\ Ask(kind, r, by).ans = None
BY ConsoleAssumption DEF Ask, Request

LEMMA AskRunType ==
    ASSUME NEW r \in Runs, NEW t \in 0..MaxTick
    PROVE  AskRun(r, t) \in Request /\ AskRun(r, t).kind = "open" /\ AskRun(r, t).by = "user"
BY ConsoleAssumption DEF AskRun, Ask, Request

LEMMA AskProjectionType ==
    ASSUME NEW r \in Runs, NEW e \in Persons, NEW t \in 0..MaxTick
    PROVE  /\ AskProjection(r, e, t) \in Request
           /\ AskProjection(r, e, t).kind = "proj" /\ AskProjection(r, e, t).by = "user"
           /\ AskProjection(r, e, t).run = r /\ AskProjection(r, e, t).ent = e
           /\ AskProjection(r, e, t).due = t
BY ConsoleAssumption DEF AskProjection, Ask, Request

\* The effect of the selection: of the projections in flight at most the one that is
\* wanted now remains; other requests stay as they are.
LEMMA FetchProjectionLemma ==
    ASSUME NEW n \in Nets, NEW r \in Runs \cup {None}, NEW w \in Snapshot \cup {None},
           NEW e \in Entities \cup {None}, FreeSlots(n) # {}
    PROVE  /\ FetchProjection(n, r, w, e) \in Nets
           /\ \A t \in Slots :
                LET q == FetchProjection(n, r, w, e)[t] IN
                \/ q = n[t] /\ ~Is(q, "proj")
                \/ Is(n[t], "proj") /\ q = None
                \/ /\ ~Is(n[t], "step") /\ ~Is(n[t], "state") /\ ~Is(n[t], "open")
                   /\ Is(q, "proj") /\ HasProjection(r, w, e)
                   /\ q.by = "user" /\ q.run = r /\ q.ent = e /\ q.due = w.tick
<1>1. Cancel(n) \in Nets /\ FreeSlots(Cancel(n)) # {}
      /\ \A t \in Slots : Cancel(n)[t] = IF Is(n[t], "proj") THEN None ELSE n[t]
  BY CancelLemma
<1>2. CASE ~HasProjection(r, w, e)
  BY <1>1, <1>2 DEF FetchProjection, Is
<1>3. CASE HasProjection(r, w, e)
  <2>1. r \in Runs /\ e \in Persons /\ w \in Snapshot /\ w.tick \in 0..MaxTick
    BY <1>3 DEF HasProjection, Snapshot
  <2> DEFINE q == AskProjection(r, e, w.tick)
  <2>2. /\ q \in Request /\ q.kind = "proj" /\ q.by = "user" /\ q.run = r
        /\ q.ent = e /\ q.due = w.tick
    BY <2>1, AskProjectionType
  <2>3. q # None
    BY <2>2, NoneAssumption
  <2> HIDE DEF q
  <2>4. PICK f \in Slots : Cancel(n)[f] = None /\ Put(Cancel(n), q) = [Cancel(n) EXCEPT ![f] = q]
                            /\ Put(Cancel(n), q) \in Nets
    BY <1>1, <2>2, PutLemma
  <2>5. FetchProjection(n, r, w, e) = Put(Cancel(n), q)
    BY <1>3 DEF FetchProjection, q
  <2>6. ASSUME NEW t \in Slots
        PROVE  [Cancel(n) EXCEPT ![f] = q][t] = IF t = f THEN q ELSE Cancel(n)[t]
    BY <1>1, <2>4 DEF Nets
  <2>7. ~Is(n[f], "step") /\ ~Is(n[f], "state") /\ ~Is(n[f], "open")
    BY <1>1, <2>4 DEF Is
  <2> QED
    BY <1>1, <1>3, <2>2, <2>3, <2>4, <2>5, <2>6, <2>7 DEF Is
<1> QED
  BY <1>2, <1>3

-----------------------------------------------------------------------------
\* What every step keeps and does.

Steady == AcceptedFits /\ \A s \in Slots : NewAutoStep(s) => playing /\ net'[s].run = run

Step == ConsoleInv' /\ Steady

LEMMA NothingIsNone ==
    /\ \A q \in Request : q # None
    /\ \A w \in Snapshot : w # None
    /\ \A p \in Projection : p # None
    /\ \A r \in Runs : r # None
BY NoneAssumption, ConsoleAssumption

LEMMA IntervalType ==
    ASSUME NEW p \in BOOLEAN, NEW r \in Runs \cup {None}
    PROVE  Interval(p, r) \in Runs \cup {None}
BY DEF Interval

\* A handler of the user that only sends a request.
LEMMA UserAsks ==
    ASSUME ConsoleInv, NEW q \in Request, q.by = "user", q.kind # "proj",
           RoomForUser, net' = Put(net, q),
           playing' \in BOOLEAN, timer' = Interval(playing', run),
           UNCHANGED <<server, run, world, sel, proj, busy, error>>
    PROVE  Step
<1>1. FreeSlots(net) # {} /\ net \in Nets
  BY DEF RoomForUser, ConsoleInv, ConsoleTypeOK, Nets
<1>2. PICK f \in Slots : net[f] = None /\ net' = [net EXCEPT ![f] = q] /\ net' \in Nets
  BY <1>1, PutLemma
<1>3. \A s \in Slots : net'[s] = IF s = f THEN q ELSE net[s]
  BY <1>1, <1>2 DEF Nets
<1>4. q # None
  BY NothingIsNone
<1>5. ConsoleTypeOK'
  BY <1>2, IntervalType DEF ConsoleInv, ConsoleTypeOK, Nets, server
<1>6. ProjInv'
  BY <1>3 DEF ConsoleInv, ProjInv, Is, HasProjection
<1>7. AutoInv'
  BY <1>3 DEF ConsoleInv, AutoInv, ByAuto, Interval
<1>8. OneIteration'
  BY <1>2, <1>3, <1>4 DEF ConsoleInv, OneIteration
<1>9. Steady
  BY <1>3 DEF Steady, AcceptedFits, NewAutoStep
<1> QED
  BY <1>5, <1>6, <1>7, <1>8, <1>9 DEF Step, ConsoleInv

LEMMA StepOnceStep == ASSUME ConsoleInv, StepOnce PROVE Step
<1>1. run \in Runs /\ playing \in BOOLEAN /\ timer = Interval(playing, run)
  BY DEF ConsoleInv, ConsoleTypeOK, AutoInv, StepOnce
<1> QED
  BY <1>1, AskType, UserAsks DEF StepOnce, server

LEMMA IntervenedStep == ASSUME ConsoleInv, Intervene PROVE Step
<1>1. run \in Runs /\ playing \in BOOLEAN /\ timer = Interval(playing, run)
  BY DEF ConsoleInv, ConsoleTypeOK, AutoInv, Intervene
<1> QED
  BY <1>1, AskType, UserAsks DEF Intervene, FetchState, server

LEMMA LoadRunStep == ASSUME ConsoleInv, NEW r \in Runs, LoadRun(r) PROVE Step
<1>1. tick[r] \in 0..MaxTick /\ playing \in BOOLEAN /\ timer = Interval(playing, run)
  BY DEF ConsoleInv, ConsoleTypeOK, AutoInv
<1> QED
  BY <1>1, AskRunType, UserAsks DEF LoadRun, server

LEMMA CreateRunStep == ASSUME ConsoleInv, NEW r \in Runs, CreateRun(r) PROVE Step
<1>1. 0 \in 0..MaxTick /\ playing \in BOOLEAN /\ timer = Interval(playing, run)
  BY ConsoleAssumption DEF ConsoleInv, ConsoleTypeOK, AutoInv
<1> QED
  BY <1>1, AskRunType, UserAsks DEF CreateRun, server

LEMMA ForkRunStep == ASSUME ConsoleInv, NEW r \in Runs, ForkRun(r) PROVE Step
<1>1. run \in Runs /\ tick[run] \in 0..MaxTick
  BY DEF ConsoleInv, ConsoleTypeOK, ForkRun
<1>2. PICK t \in 0..tick[run] : net' = Put(net, AskRun(r, t))
  BY DEF ForkRun
<1>3. t \in 0..MaxTick
  BY <1>1, <1>2, ConsoleAssumption
<1> QED
  BY <1>2, <1>3, AskRunType, UserAsks DEF ForkRun, server

-----------------------------------------------------------------------------
LEMMA SelectEntityStep ==
    ASSUME ConsoleInv, NEW e \in Entities \cup {None}, SelectEntity(e) PROVE Step
<1> DEFINE m == FetchProjection(net, run, world, e)
<1>1. /\ net \in Nets /\ run \in Runs \cup {None} /\ world \in Snapshot \cup {None}
      /\ FreeSlots(net) # {} /\ net' = m /\ sel' = e
  BY DEF SelectEntity, RoomForUser, ConsoleInv, ConsoleTypeOK, Nets
<1>2. /\ m \in Nets
      /\ \A t \in Slots :
            \/ m[t] = net[t] /\ ~Is(m[t], "proj")
            \/ Is(net[t], "proj") /\ m[t] = None
            \/ /\ ~Is(net[t], "step") /\ ~Is(net[t], "state") /\ ~Is(net[t], "open")
               /\ Is(m[t], "proj") /\ HasProjection(run, world, e)
               /\ m[t].by = "user" /\ m[t].run = run /\ m[t].ent = e /\ m[t].due = world.tick
  BY <1>1, FetchProjectionLemma
<1>3. ASSUME NEW t \in Slots PROVE ByAuto(net'[t]) => net'[t] = net[t]
  BY <1>1, <1>2 DEF ByAuto
<1>4. ASSUME NEW t \in Slots PROVE ByAuto(net[t]) => net'[t] = net[t]
  BY <1>1, <1>2 DEF ByAuto, Is, ConsoleInv, AutoInv
<1>5. proj' \in Projection \cup {None} /\ (proj' = proj \/ proj' = None)
  BY DEF SelectEntity, ProjectionKept, ConsoleInv, ConsoleTypeOK
<1>6. ConsoleTypeOK'
  BY <1>1, <1>2, <1>5 DEF SelectEntity, ConsoleInv, ConsoleTypeOK, Nets, server
<1>7. ProjInv'
  BY <1>1, <1>2 DEF SelectEntity, ProjInv, Is, HasProjection
<1>8. AutoInv'
  BY <1>3 DEF SelectEntity, ConsoleInv, AutoInv, Interval
<1>9. OneIteration'
  BY <1>3, <1>4 DEF SelectEntity, ConsoleInv, OneIteration, ByAuto
<1>10. Steady
  BY <1>3, <1>5 DEF Steady, AcceptedFits, NewAutoStep, ByAuto
<1> QED
  BY <1>6, <1>7, <1>8, <1>9, <1>10 DEF Step, ConsoleInv

LEMMA PlayPauseStep == ASSUME ConsoleInv, PlayPause PROVE Step
<1>1. ConsoleTypeOK'
  BY IntervalType DEF PlayPause, ConsoleInv, ConsoleTypeOK, server
<1>2. ProjInv' /\ AutoInv' /\ OneIteration'
  BY DEF PlayPause, ConsoleInv, ProjInv, AutoInv, OneIteration, Interval, HasProjection
<1>3. Steady
  BY DEF PlayPause, Steady, AcceptedFits, NewAutoStep
<1> QED
  BY <1>1, <1>2, <1>3 DEF Step, ConsoleInv

\* The interval is set only while playing, for the run under the controls; and when
\* busyRef is free, no iteration is under way.
LEMMA AutoTickStep == ASSUME ConsoleInv, AutoTick PROVE Step
<1>1. /\ net \in Nets /\ FreeSlots(net) # {} /\ playing \in BOOLEAN
      /\ timer = Interval(playing, run) /\ timer # None /\ timer \in Runs
  BY DEF AutoTick, ConsoleInv, ConsoleTypeOK, AutoInv, Nets
<1>2. playing /\ timer = run
  BY <1>1 DEF Interval
<1> DEFINE q == Ask("step", timer, "auto")
<1>3. q \in Request /\ q.kind = "step" /\ q.by = "auto" /\ q.run = timer
  BY <1>1, AskType
<1>4. q # None /\ net' = Put(net, q)
  BY <1>3, NothingIsNone DEF AutoTick
<1> HIDE DEF q
<1>5. PICK f \in Slots : net[f] = None /\ net' = [net EXCEPT ![f] = q] /\ net' \in Nets
  BY <1>1, <1>3, <1>4, PutLemma
<1>6. \A s \in Slots : net'[s] = IF s = f THEN q ELSE net[s]
  BY <1>1, <1>5 DEF Nets
<1>7. \A s \in Slots : ~(net[s] # None /\ net[s].by = "auto")
  BY DEF AutoTick, ConsoleInv, OneIteration
<1>8. ConsoleTypeOK'
  BY <1>5 DEF AutoTick, ConsoleInv, ConsoleTypeOK, Nets, server
<1>9. ProjInv'
  BY <1>3, <1>6 DEF AutoTick, ConsoleInv, ProjInv, Is, HasProjection
<1>10. AutoInv'
  BY <1>3, <1>6 DEF AutoTick, ConsoleInv, AutoInv, ByAuto, Interval
<1>11. OneIteration'
  BY <1>3, <1>4, <1>5, <1>6, <1>7 DEF AutoTick, OneIteration
<1>12. Steady
  BY <1>2, <1>3, <1>6 DEF AutoTick, Steady, AcceptedFits, NewAutoStep
<1> QED
  BY <1>8, <1>9, <1>10, <1>11, <1>12 DEF Step, ConsoleInv

-----------------------------------------------------------------------------
LEMMA ServeStep == ASSUME ConsoleInv, NEW s \in Slots, Serve(s) PROVE Step
<1> DEFINE q == net[s]
<1>1. /\ q \in Request /\ q # None /\ net \in Nets /\ tick \in [Runs -> 0..MaxTick]
      /\ q.run \in Runs /\ q.due \in 0..MaxTick /\ tick[q.run] \in 0..MaxTick
  BY DEF Serve, ConsoleInv, ConsoleTypeOK, Nets, Request
<1>2. PICK a \in 0..MaxTick : net' = [net EXCEPT ![s].ans = a]
  <2>1. 0 \in 0..MaxTick
    BY ConsoleAssumption
  <2> QED
    BY <1>1, <2>1 DEF Serve
<1>3. /\ \A t \in Slots : t # s => net'[t] = net[t]
      /\ net'[s] = [q EXCEPT !.ans = a]
  BY <1>1, <1>2 DEF Nets
<1>4. /\ net'[s] \in Request /\ net'[s] # None
      /\ net'[s].kind = q.kind /\ net'[s].by = q.by /\ net'[s].run = q.run
      /\ net'[s].ent = q.ent /\ net'[s].due = q.due /\ net'[s].ans = a
  <2>1. [q EXCEPT !.ans = a] \in Request
    BY <1>1 DEF Request
  <2>2. [q EXCEPT !.ans = a] # None
    BY <2>1, NothingIsNone
  <2> QED
    BY <1>1, <1>3, <2>1, <2>2 DEF Request
<1>5. net' \in Nets
  BY <1>1, <1>2, <1>4 DEF Nets
<1>6. tick' \in [Runs -> 0..MaxTick]
  <2> DEFINE u == IF q.kind = "step" /\ tick[q.run] < MaxTick THEN tick[q.run] + 1
                  ELSE IF q.kind = "open" /\ q.run \notin made THEN q.due ELSE tick[q.run]
  <2>1. tick' = [tick EXCEPT ![q.run] = u]
    BY <1>1 DEF Serve
  <2>2. u \in 0..MaxTick
    BY <1>1, ConsoleAssumption
  <2> QED
    BY <1>1, <2>1, <2>2
<1>7. made' \subseteq Runs
  BY <1>1 DEF Serve, ConsoleInv, ConsoleTypeOK
<1>8. ConsoleTypeOK'
  BY <1>5, <1>6, <1>7 DEF Serve, ConsoleInv, ConsoleTypeOK, Nets
<1>9. ProjInv'
  BY <1>1, <1>3, <1>4 DEF Serve, ConsoleInv, ProjInv, Is, HasProjection
<1>10. AutoInv'
  BY <1>1, <1>3, <1>4 DEF Serve, ConsoleInv, AutoInv, ByAuto, Interval
<1>11. OneIteration'
  BY <1>1, <1>3, <1>4 DEF Serve, ConsoleInv, OneIteration
<1>12. Steady
  <2>1. a # None
    BY ConsoleAssumption
  <2> QED
    BY <1>3, <1>4, <2>1 DEF Serve, Steady, AcceptedFits, NewAutoStep
<1> QED
  BY <1>8, <1>9, <1>10, <1>11, <1>12 DEF Step, ConsoleInv

LEMMA ThenRefreshStep == ASSUME ConsoleInv, NEW s \in Slots, ThenRefresh(s) PROVE Step
<1>1. net \in Nets /\ net[s] \in Request /\ net[s] # None /\ net[s].kind = "step"
  BY DEF ThenRefresh, Arrives, ConsoleInv, ConsoleTypeOK, Nets
<1> DEFINE q == Ask("state", net[s].run, net[s].by)
           n == Drop(net, s)
<1>2. q \in Request /\ q.kind = "state" /\ q.by = net[s].by
  BY <1>1, AskType DEF Request
<1>3. q # None
  BY <1>2, NothingIsNone
<1>4. net' = Put(n, q)
  BY DEF ThenRefresh, FetchState
<1> HIDE DEF q
<1>5. /\ n \in Nets /\ FreeSlots(n) # {} /\ n[s] = None
      /\ \A t \in Slots : t # s => n[t] = net[t]
  BY <1>1, DropLemma
<1> HIDE DEF n
<1>6. PICK f \in Slots : n[f] = None /\ net' = [n EXCEPT ![f] = q] /\ net' \in Nets
  BY <1>2, <1>4, <1>5, PutLemma
<1>7. \A t \in Slots : net'[t] = IF t = f THEN q ELSE n[t]
  BY <1>5, <1>6 DEF Nets
<1>8. ConsoleTypeOK'
  BY <1>6 DEF ThenRefresh, ConsoleInv, ConsoleTypeOK, Nets, server
<1>9. ProjInv'
  BY <1>2, <1>5, <1>7 DEF ThenRefresh, ConsoleInv, ProjInv, Is, HasProjection
<1>10. AutoInv'
  BY <1>2, <1>5, <1>7 DEF ThenRefresh, ConsoleInv, AutoInv, ByAuto, Interval
<1>11. OneIteration'
  BY <1>1, <1>2, <1>3, <1>5, <1>6, <1>7 DEF ThenRefresh, ConsoleInv, OneIteration
<1>12. Steady
  BY <1>2, <1>5, <1>7 DEF ThenRefresh, Steady, AcceptedFits, NewAutoStep
<1> QED
  BY <1>8, <1>9, <1>10, <1>11, <1>12 DEF Step, ConsoleInv

\* busyRef is reset exactly when the last request of an iteration has ended.
LEMMA ReleasedLemma ==
    ASSUME ConsoleInv, NEW s \in Slots, net[s] # None, busy' = Released(s), net'[s] = None,
           \A t \in Slots : t # s /\ ByAuto(net[t]) => net'[t] = net[t],
           \A t \in Slots : ByAuto(net'[t]) => net'[t] = net[t]
    PROVE  OneIteration' /\ busy' \in BOOLEAN
<1>1. busy' \in BOOLEAN
  BY DEF Released, ConsoleInv, ConsoleTypeOK
<1>2. CASE net[s].by = "auto"
  BY <1>2 DEF Released, ConsoleInv, ConsoleTypeOK, OneIteration, ByAuto
<1>3. CASE net[s].by # "auto"
  <2>1. busy' = busy
    BY <1>3 DEF Released
  <2>2. \A t \in Slots : ByAuto(net[t]) => net'[t] = net[t]
    BY <1>3 DEF ByAuto
  <2>3. \A t \in Slots : ByAuto(net[t]) <=> ByAuto(net'[t])
    BY <2>2 DEF ByAuto
  <2>4. (\E t \in Slots : ByAuto(net[t])) <=> (\E t \in Slots : ByAuto(net'[t]))
    BY <2>3
  <2>5. \A t, u \in Slots : ByAuto(net'[t]) /\ ByAuto(net'[u]) => t = u
    BY <2>3 DEF ConsoleInv, OneIteration, ByAuto
  <2>6. busy <=> \E t \in Slots : ByAuto(net[t])
    BY DEF ConsoleInv, OneIteration, ByAuto
  <2>7. busy' <=> \E t \in Slots : ByAuto(net'[t])
    BY <2>1, <2>4, <2>6
  <2> QED
    BY <1>1, <2>5, <2>7 DEF OneIteration, ByAuto
<1> QED
  BY <1>1, <1>2, <1>3

LEMMA SetWorldStateStep == ASSUME ConsoleInv, NEW s \in Slots, SetWorldState(s) PROVE Step
<1> DEFINE n == Drop(net, s)
           m == FetchProjection(n, run, world', sel)
<1>1. /\ net \in Nets /\ net[s] \in Request /\ net[s] # None
      /\ net[s].kind = "state" /\ net[s].ans # None
  BY DEF SetWorldState, Arrives, ConsoleInv, ConsoleTypeOK, Nets
<1>2. world' \in Snapshot /\ world' # None
  BY <1>1, NothingIsNone DEF SetWorldState, Snapshot, Request
<1>3. /\ n \in Nets /\ FreeSlots(n) # {} /\ n[s] = None
      /\ \A t \in Slots : t # s => n[t] = net[t]
  BY <1>1, DropLemma
<1>4. run \in Runs \cup {None} /\ sel \in Entities \cup {None}
  BY DEF ConsoleInv, ConsoleTypeOK
<1>5. net' = m
  BY DEF SetWorldState
<1> HIDE DEF n
<1>6. /\ m \in Nets
      /\ \A t \in Slots :
            \/ m[t] = n[t] /\ ~Is(m[t], "proj")
            \/ Is(n[t], "proj") /\ m[t] = None
            \/ /\ ~Is(n[t], "step") /\ ~Is(n[t], "state") /\ ~Is(n[t], "open")
               /\ Is(m[t], "proj") /\ HasProjection(run, world', sel)
               /\ m[t].by = "user" /\ m[t].run = run /\ m[t].ent = sel /\ m[t].due = world'.tick
  BY <1>2, <1>3, <1>4, FetchProjectionLemma
<1> HIDE DEF m
<1>7. \A t \in Slots : ByAuto(net'[t]) => net'[t] = net[t]
  BY <1>3, <1>5, <1>6 DEF ByAuto
<1>8. \A t \in Slots : t # s /\ ByAuto(net[t]) => net'[t] = net[t]
  BY <1>3, <1>5, <1>6 DEF ByAuto, Is, ConsoleInv, AutoInv
<1>9. proj' \in Projection \cup {None} /\ (proj' = proj \/ proj' = None)
  BY DEF SetWorldState, ProjectionKept, ConsoleInv, ConsoleTypeOK
<1>10. OneIteration' /\ busy' \in BOOLEAN
  <2>1. ~ByAuto(net'[s])
    BY <1>3, <1>5, <1>6 DEF ByAuto
  <2>2. CASE net[s].by = "auto"
    BY <1>1, <1>7, <1>8, <2>1, <2>2 DEF SetWorldState, Released, ConsoleInv, OneIteration, ByAuto
  <2>3. CASE net[s].by # "auto"
    BY <1>1, <1>7, <1>8, <2>1, <2>3
    DEF SetWorldState, Released, ConsoleInv, ConsoleTypeOK, OneIteration, ByAuto
  <2> QED
    BY <2>2, <2>3 DEF SetWorldState, Released, ConsoleInv, ConsoleTypeOK
<1>11. ConsoleTypeOK'
  BY <1>2, <1>5, <1>6, <1>9, <1>10 DEF SetWorldState, ConsoleInv, ConsoleTypeOK, Nets, server
<1>12. ProjInv'
  BY <1>5, <1>6 DEF SetWorldState, ProjInv, Is, HasProjection
<1>13. AutoInv'
  BY <1>7 DEF SetWorldState, ConsoleInv, AutoInv, Interval, ByAuto
<1>14. Steady
  BY <1>7, <1>9 DEF Steady, AcceptedFits, NewAutoStep, ByAuto
<1> QED
  BY <1>10, <1>11, <1>12, <1>13, <1>14 DEF Step, ConsoleInv

\* The projection accepted is the one in flight, so ProjInv says whose it is.
LEMMA SetProjectionStep == ASSUME ConsoleInv, NEW s \in Slots, SetProjection(s) PROVE Step
<1>1. /\ net \in Nets /\ net[s] \in Request /\ net[s] # None
      /\ Is(net[s], "proj") /\ net[s].ans # None
  BY DEF SetProjection, Arrives, ConsoleInv, ConsoleTypeOK, Nets, Is
<1>2. /\ net[s].by = "user" /\ HasProjection(run, world, sel)
      /\ net[s].run = run /\ net[s].ent = sel /\ net[s].due = world.tick
  BY <1>1 DEF ConsoleInv, ProjInv
<1>3. /\ net' = Drop(net, s) /\ net' \in Nets /\ net'[s] = None
      /\ \A t \in Slots : t # s => net'[t] = net[t]
  BY <1>1, DropLemma DEF SetProjection
<1>4. proj' \in Projection \cup {None}
  <2>1. sel \in Persons /\ net[s].run \in Runs /\ net[s].ans \in 0..MaxTick
    BY <1>1, <1>2 DEF HasProjection, Request
  <2> QED
    BY <1>2, <2>1 DEF SetProjection, Projection, ConsoleInv, ConsoleTypeOK
<1>5. ConsoleTypeOK'
  BY <1>3, <1>4 DEF SetProjection, ConsoleInv, ConsoleTypeOK, Nets, server
<1>6. ProjInv'
  BY <1>3 DEF SetProjection, ConsoleInv, ProjInv, Is, HasProjection
<1>7. AutoInv'
  BY <1>3 DEF SetProjection, ConsoleInv, AutoInv, ByAuto, Interval
<1>8. OneIteration'
  BY <1>1, <1>2, <1>3 DEF SetProjection, ConsoleInv, OneIteration
<1>9. Steady
  <2>1. AcceptedFits
    BY <1>2 DEF SetProjection, AcceptedFits, Wanted
  <2>2. \A t \in Slots : ~NewAutoStep(t)
    BY <1>3 DEF NewAutoStep
  <2> QED
    BY <2>1, <2>2 DEF Steady
<1> QED
  BY <1>5, <1>6, <1>7, <1>8, <1>9 DEF Step, ConsoleInv

LEMMA RunReadyStep == ASSUME ConsoleInv, NEW s \in Slots, RunReady(s) PROVE Step
<1> DEFINE n == Drop(net, s)
           q == Ask("state", run', "user")
           p == Put(n, q)
<1>1. /\ net \in Nets /\ net[s] \in Request /\ net[s] # None /\ net[s].kind = "open"
      /\ run' = net[s].run /\ run' \in Runs
  BY DEF RunReady, Arrives, ConsoleInv, ConsoleTypeOK, Nets, Request
<1>2. q \in Request /\ q.kind = "state" /\ q.by = "user"
  BY <1>1, AskType
<1>3. net' = Cancel(p)
  BY DEF RunReady, FetchState
<1> HIDE DEF q
<1>4. /\ n \in Nets /\ FreeSlots(n) # {} /\ n[s] = None
      /\ \A t \in Slots : t # s => n[t] = net[t]
  BY <1>1, DropLemma
<1> HIDE DEF n
<1>5. PICK f \in Slots : n[f] = None /\ p = [n EXCEPT ![f] = q] /\ p \in Nets
  BY <1>2, <1>4, PutLemma
<1>6. \A t \in Slots : p[t] = IF t = f THEN q ELSE n[t]
  BY <1>4, <1>5 DEF Nets
<1> HIDE DEF p
<1>7. net' \in Nets /\ \A t \in Slots : net'[t] = IF Is(p[t], "proj") THEN None ELSE p[t]
  BY <1>3, <1>5, CancelLemma
<1>8. ~ByAuto(net[s])
  BY <1>1 DEF ConsoleInv, AutoInv
<1>9. \A t \in Slots : ByAuto(net'[t]) => net'[t] = net[t]
  BY <1>2, <1>4, <1>6, <1>7 DEF ByAuto
<1>10. \A t \in Slots : ByAuto(net[t]) => net'[t] = net[t]
  BY <1>4, <1>5, <1>6, <1>7, <1>8 DEF ByAuto, Is, ConsoleInv, AutoInv
<1>11. ConsoleTypeOK'
  BY <1>1, <1>7, IntervalType DEF RunReady, ConsoleInv, ConsoleTypeOK, Nets, server
<1>12. ProjInv'
  BY <1>7 DEF ProjInv, Is
<1>13. AutoInv'
  BY <1>9 DEF RunReady, ConsoleInv, AutoInv, ByAuto, Interval
<1>14. OneIteration'
  BY <1>9, <1>10 DEF RunReady, ConsoleInv, OneIteration, ByAuto
<1>15. Steady
  BY <1>9 DEF RunReady, Steady, AcceptedFits, NewAutoStep, ByAuto
<1> QED
  BY <1>11, <1>12, <1>13, <1>14, <1>15 DEF Step, ConsoleInv

LEMMA FailStep == ASSUME ConsoleInv, NEW s \in Slots, Fail(s) PROVE Step
<1>1. net \in Nets /\ net[s] # None
  BY DEF Fail, ConsoleInv, ConsoleTypeOK, Nets
<1>2. /\ net' = Drop(net, s) /\ net' \in Nets /\ net'[s] = None
      /\ \A t \in Slots : t # s => net'[t] = net[t]
  BY <1>1, DropLemma DEF Fail
<1>3. OneIteration' /\ busy' \in BOOLEAN
  BY <1>1, <1>2, ReleasedLemma DEF Fail, ByAuto
<1>4. playing' \in BOOLEAN /\ error' \in BOOLEAN
  BY DEF Fail, ConsoleInv, ConsoleTypeOK
<1>5. ConsoleTypeOK'
  BY <1>2, <1>3, <1>4, IntervalType DEF Fail, ConsoleInv, ConsoleTypeOK, Nets, server
<1>6. ProjInv'
  BY <1>2 DEF Fail, ConsoleInv, ProjInv, Is, HasProjection
<1>7. AutoInv'
  BY <1>2 DEF Fail, ConsoleInv, AutoInv, ByAuto, Interval
<1>8. Steady
  BY <1>2 DEF Fail, Steady, AcceptedFits, NewAutoStep
<1> QED
  BY <1>3, <1>5, <1>6, <1>7, <1>8 DEF Step, ConsoleInv

-----------------------------------------------------------------------------
LEMMA InitInv == Init => ConsoleInv
<1> SUFFICES ASSUME Init PROVE ConsoleInv
  OBVIOUS
<1>1. ConsoleTypeOK
  <2>1. made \subseteq Runs
    BY DEF Init
  <2>2. 0 \in 0..MaxTick
    BY ConsoleAssumption
  <2>3. tick \in [Runs -> 0..MaxTick]
    BY <2>2 DEF Init
  <2>4. net \in [Slots -> Request \cup {None}]
    BY DEF Init
  <2>5. /\ run \in Runs \cup {None} /\ world \in Snapshot \cup {None}
        /\ sel \in Entities \cup {None} /\ proj \in Projection \cup {None}
        /\ timer \in Runs \cup {None}
    BY DEF Init
  <2>6. {playing, busy, error} \subseteq BOOLEAN
    BY DEF Init
  <2> QED
    BY <2>1, <2>3, <2>4, <2>5, <2>6 DEF ConsoleTypeOK
<1> QED
  BY <1>1 DEF Init, ConsoleInv, ProjInv, AutoInv, OneIteration, Interval, Is, ByAuto

LEMMA NextStep == ConsoleInv /\ [Next]_vars => Step
<1> SUFFICES ASSUME ConsoleInv, [Next]_vars PROVE Step
  OBVIOUS
<1>1. CASE UserStep
  BY <1>1, SelectEntityStep, PlayPauseStep, StepOnceStep, IntervenedStep, LoadRunStep,
     CreateRunStep, ForkRunStep DEF UserStep
<1>2. CASE AutoTick
  BY <1>2, AutoTickStep
<1>3. ASSUME NEW s \in Slots, Serve(s) \/ Answer(s) \/ Fail(s) PROVE Step
  BY <1>3, ServeStep, ThenRefreshStep, SetWorldStateStep, SetProjectionStep, RunReadyStep,
     FailStep DEF Answer
<1>4. CASE UNCHANGED vars
  <2>1. ConsoleInv'
    BY <1>4 DEF vars, ConsoleInv, ConsoleTypeOK, ProjInv, AutoInv, OneIteration, HasProjection,
                Interval
  <2>2. Steady
    BY <1>4 DEF vars, Steady, AcceptedFits, NewAutoStep
  <2> QED
    BY <2>1, <2>2 DEF Step
<1> QED
  BY <1>1, <1>2, <1>3, <1>4 DEF Next

\* Everything below follows from it.
THEOREM ConsoleInvariance == Spec => []ConsoleInv
<1>1. ConsoleInv /\ [Next]_vars => ConsoleInv'
  BY NextStep DEF Step
<1> QED
  BY InitInv, <1>1, PTL DEF Spec

\* The state of the console keeps its type, whatever answers arrive and in which
\* order.
THEOREM ConsoleTypeCorrect == Spec => []ConsoleTypeOK
<1>1. ConsoleInv => ConsoleTypeOK
  BY DEF ConsoleInv
<1> QED
  BY ConsoleInvariance, <1>1, PTL

\* Autoplay has one iteration under way exactly when busyRef says so (App.js:74-84),
\* for any number of requests in flight.
THEOREM OneIterationCorrect == Spec => []OneIteration
<1>1. ConsoleInv => OneIteration
  BY DEF ConsoleInv
<1> QED
  BY ConsoleInvariance, <1>1, PTL

\* Only the projection of what is selected, drawn and under the controls is accepted
\* (App.js:54-68).
THEOREM AcceptedProjectionCorrect == Spec => AcceptedProjectionFits
<1>1. ConsoleInv /\ [Next]_vars => [AcceptedFits]_vars
  BY NextStep DEF Step, Steady
<1> QED
  BY ConsoleInvariance, <1>1, PTL DEF AcceptedProjectionFits, Spec

\* Autoplay asks a tick only of the run under the controls, and only while playing
\* (App.js:70-88).
THEOREM AutoplayCorrect == Spec => AutoplayFollows
<1>1. ConsoleInv /\ [Next]_vars =>
        [\A s \in Slots : NewAutoStep(s) => playing /\ net'[s].run = run]_vars
  BY NextStep DEF Step, Steady
<1> QED
  BY ConsoleInvariance, <1>1, PTL DEF AutoplayFollows, Spec
=============================================================================
