---------------------------- MODULE SerialProofs ----------------------------
(***************************************************************************)
(* Proofs about TickStore when step requests do not overlap: one request   *)
(* at a time, each of which may crash, lose its acknowledgement, retry or  *)
(* give up.  Then every frame replays, and the projection is what the      *)
(* accepted events give.  With two overlapping requests neither holds (see *)
(* the run StaleView): it rests on nobody else writing between the reads   *)
(* of one request.                                                         *)
(*                                                                         *)
(* AloneInv is about the request alone: what it holds in memory is what    *)
(* the store has, and what the events give if that is what the head's hash *)
(* says.  It is kept on any documents, however inconsistent.  SerialInv    *)
(* adds that the history is faithful; it says nothing of the entity        *)
(* documents except where a request is about to load them, so it is kept   *)
(* by what writes entities or the lease beside the requests.               *)
(***************************************************************************)
EXTENDS TickStoreProofs

\* The head's hash is that of what the events give.
HeadFaithful == head.hash = HashOf(head.tick, Replay(events))

\* The view is the run's, as far as the head's hash is the run's.
Knows(view) == HeadFaithful => view = Replay(events)

\* The frame under commit is the next one, computed on the run's view, ...
Pending(f) == /\ f.tick = head.tick + 1
              /\ f.end = HashOf(f.tick, f.view)
              /\ HeadFaithful => f.view = Apply(Replay(events), f.evts)

\* ... or it is stored, as the last one.
Done(f) == /\ Committed(head, f)
           /\ frames[f.tick] = DocOf(f)
           /\ f.end = HashOf(f.tick, f.view)

\* What the request holds in memory is what the store has.
InStep(r) ==
    /\ r.pc \in InspectPoints => SameRun(r.run, head)
    /\ r.pc = "inspectEvents" => (r.ok <=> FrameAgrees)
    /\ r.pc = "inspectEntities" => (r.ok <=> Agree)
    /\ r.pc = "load" => Knows(entities)
    /\ r.pc \in {"reload", "compute"} => Knows(r.view)
    /\ r.pc = "compute" => SameRun(r.run, head)
    /\ r.pc \in FramePoints => /\ r.frame.view = r.view
                               /\ Pending(r.frame) \/ Done(r.frame)
    /\ r.pc \in {"check", "transaction"} => Pending(r.frame)
    /\ r.pc = "resolveHead" /\ ~r.stored => Pending(r.frame)

\* Every frame document was written for the tick it is stored under.
Ticked == \A t \in 0..head.tick : frames[t].identity.tick = t

\* The inductive invariant of a request that is alone, on any documents.
AloneInv == RequestsInv /\ Ticked /\ \A s \in Steppers : InStep(req[s])

\* The inductive invariant of a store with one step request at a time.
SerialInv == AloneInv /\ InSync /\ ReplayFaithful /\ HeadFaithful

\* The entity documents are what the events give.
Projected == entities = Replay(events)

----------------------------------------------------------------------------
\* Events applied after a replay are events replayed.
LEMMA ReplayApply ==
    ASSUME NEW evts, NEW more
    PROVE  Apply(Replay(evts), more) = Replay(evts \cup more)
BY DEF Apply, Replay

LEMMA ReplayType ==
    ASSUME NEW evts \in SUBSET Event
    PROVE  Replay(evts) \in View
<1>1. [e \in Entities |-> {}] \in View
  BY DEF View
<1>. QED  BY <1>1, ApplyType DEF Replay

\* Replaying all events, from the frame of the head on.
LEMMA AllEvents ==
    ASSUME TypeOK, InSync
    PROVE  {ev \in events : ev.tick <= head.tick} = events
<1>1. head.tick \in Nat /\ \A ev \in events : ev.tick \in 0..head.tick
  BY DEF TypeOK, RunHead, InSync
<1>. QED  BY <1>1

\* Nobody has stored a frame for the next tick yet.
LEMMA PendingMissing ==
    ASSUME TypeOK, NEW f, Pending(f)
    PROVE  f.tick \notin DOMAIN frames
<1>1. head.tick \in Nat /\ DOMAIN frames = 0..head.tick /\ f.tick = head.tick + 1
  BY DEF TypeOK, RunHead, Pending
<1>. QED  BY <1>1

\* A stored frame's view is the run's.
LEMMA DoneKnows ==
    ASSUME NEW f, Done(f)
    PROVE  Knows(f.view)
BY DEF Done, Committed, Knows, HeadFaithful, HashOf

\* The genesis documents replay.
LEMMA InitSerialInv == Init => SerialInv /\ Projected
<1>. SUFFICES ASSUME Init
              PROVE  SerialInv /\ Projected
  OBVIOUS
<1>1. IndInv
  BY InitIndInv
<1>2. /\ head.tick = 0 /\ head.hash = GenesisHash /\ frames[0].end = GenesisHash
      /\ events = {GenesisEvent} /\ entities = GenesisView
  BY DEF Init, GenesisHead, DocOf, GenesisFrame
<1>3. RequestsInv /\ TypeOK /\ InSync
  BY <1>1, DocsInvInSync DEF IndInv, RequestsInv, TypeOK, DocsType
<1>4. HeadFaithful /\ Projected
  BY <1>2 DEF HeadFaithful, Projected, GenesisView, GenesisHash
<1>5. ReplayFaithful
  <2>1. {ev \in events : ev.tick <= 0} = events
    BY <1>2, <1>3, AllEvents
  <2>. QED  BY <1>2, <2>1 DEF ReplayFaithful, GenesisView, GenesisHash
<1>6. ASSUME NEW s \in Steppers
      PROVE  InStep(req[s])
  <2>1. req[s].pc = "idle" /\ req[s].result = "none"
    BY DEF Init, NoRequest
  <2>. QED  BY <2>1 DEF InStep, InspectPoints, FramePoints
<1>7. Ticked
  BY <1>3 DEF InSync, Ticked
<1>. QED  BY <1>3, <1>4, <1>5, <1>6, <1>7 DEF SerialInv, AloneInv

\* The transaction keeps head and chain faithful, when the frame was computed on
\* what the events give; and the projection, if it was.
LEMMA WriteFrameFaithful ==
    ASSUME TypeOK, InSync, InSync', ReplayFaithful, HeadFaithful, UNCHANGED world,
           NEW f \in Frame, FrameComputed(f), WriteFrame(f), Pending(f)
    PROVE  /\ ReplayFaithful' /\ HeadFaithful' /\ f.view = Replay(events')
           /\ Projected => Projected'
<1>1. /\ f.tick = head.tick + 1 /\ f.view = Apply(Replay(events), f.evts)
      /\ f.end = HashOf(f.tick, f.view)
  BY DEF Pending
<1>2. /\ events' = events \cup f.evts /\ head'.hash = f.end /\ head'.tick = f.tick
      /\ frames'[f.tick] = DocOf(f) /\ \A t \in 0..head.tick : frames'[t] = frames[t]
      /\ DocsType'
  BY WriteFrameGrows DEF TypeOK, DocsType
<1>3. f.view = Replay(events')
  BY <1>1, <1>2, ReplayApply
<1>4. HeadFaithful'
  BY <1>1, <1>2, <1>3 DEF HeadFaithful, Replay, Apply, HashOf
<1>5. head.tick \in Nat /\ f.tick \in Int
  BY <1>1 DEF TypeOK, RunHead
<1>6. ASSUME NEW t \in 0..f.tick
      PROVE  frames'[t].end = HashOf(t, Replay({ev \in events' : ev.tick <= t}))
  <2>1. CASE t = f.tick
    <3>1. \A ev \in events' : ev.tick \in 0..f.tick
      BY <1>2 DEF InSync
    <3>2. {ev \in events' : ev.tick <= t} = events'
      BY <2>1, <3>1
    <3>3. frames'[t].end = HashOf(t, f.view)
      BY <1>1, <1>2, <2>1 DEF DocOf
    <3>. QED  BY <1>3, <3>2, <3>3
  <2>2. CASE t # f.tick
    <3>1. t \in 0..head.tick /\ t < f.tick /\ t \in Int
      BY <1>1, <1>5, <2>2
    <3>2. \A ev \in f.evts : ev.tick = f.tick
      BY DEF FrameComputed, TickEvents
    <3>3. {ev \in events' : ev.tick <= t} = {ev \in events : ev.tick <= t}
      BY <1>2, <1>5, <3>1, <3>2
    <3>. QED  BY <1>2, <3>1, <3>3 DEF ReplayFaithful
  <2>. QED  BY <2>1, <2>2
<1>7. ReplayFaithful'
  BY <1>2, <1>6 DEF ReplayFaithful, Replay, Apply, HashOf
<1>8. ASSUME Projected
      PROVE  Projected'
  <2>1. entities \in View /\ f.view \in View /\ f.view = Apply(entities, f.evts)
    BY <1>1, <1>8 DEF TypeOK, Frame, Projected
  <2>2. ASSUME NEW e \in Entities, ~\E ev \in f.evts : e \in ev.touched
        PROVE  f.view[e] = entities[e]
    BY <2>1, <2>2 DEF Apply, View
  <2>3. \A e \in Entities : entities'[e] = f.view[e]
    BY <2>2 DEF WriteFrame
  <2>4. entities' \in View
    BY <1>2 DEF DocsType
  <2>5. entities' = f.view
    BY <2>1, <2>3, <2>4 DEF View
  <2>. QED  BY <1>3, <2>5 DEF Projected, Replay, Apply
<1>. QED  BY <1>3, <1>4, <1>7, <1>8

----------------------------------------------------------------------------
\* What a step makes of the only request.
InStepNext(s) == \E r \in Request : req' = [req EXCEPT ![s] = r] /\ InStep(r)

\* A request that moves on while the documents stay.
LEMMA GotoInStep ==
    ASSUME NEW s \in Steppers, NEW r \in Request, NEW pc \in Points, Goto(s, r, pc),
           r.result = "none",
           pc \in InspectPoints => SameRun(r.run, head),
           pc = "inspectEvents" => (r.ok <=> FrameAgrees),
           pc = "inspectEntities" => (r.ok <=> Agree),
           pc = "load" => Knows(entities),
           pc \in {"reload", "compute"} => Knows(r.view),
           pc = "compute" => SameRun(r.run, head),
           pc \in FramePoints => r.frame.view = r.view /\ (Pending(r.frame) \/ Done(r.frame)),
           pc \in {"check", "transaction"} => Pending(r.frame),
           pc = "resolveHead" /\ ~r.stored => Pending(r.frame)
    PROVE  InStepNext(s)
<1>1. PICK c \in Request : c = [r EXCEPT !.pc = pc]
  BY DEF Request
<1>2. /\ c.pc = pc /\ c.result = "none" /\ c.run = r.run /\ c.ok = r.ok
      /\ c.view = r.view /\ c.frame = r.frame /\ c.stored = r.stored
  BY <1>1 DEF Request
<1>3. InStep(c)
  BY <1>2 DEF InStep
<1>. QED  BY <1>1, <1>3 DEF Goto, InStepNext

\* A request that is answered.
LEMMA ReplyInStep ==
    ASSUME NEW s \in Steppers, NEW r \in Request, NEW result \in Results,
           Reply(s, r, result)
    PROVE  InStepNext(s)
<1>1. PICK c \in Request : c = [NoRequest EXCEPT !.frame = r.frame,
                                    !.reported = r.reported, !.result = result]
  BY GenesisType DEF Request
<1>2. c.pc = "idle" /\ c.result = result /\ c.frame = r.frame
  BY <1>1 DEF NoRequest
<1>3. InStep(c)
  BY <1>2 DEF InStep, InspectPoints, FramePoints
<1>. QED  BY <1>1, <1>3 DEF Reply, InStepNext

\* A request whose frame is stored has what the events give in memory.
LEMMA SucceedInStep ==
    ASSUME NEW s \in Steppers, req[s] \in Request, req[s].left \in Nat \ {0},
           req[s].result = "none", Knows(req[s].view), Succeed(s)
    PROVE  InStepNext(s)
<1>1. PICK r : r = [req[s] EXCEPT !.reported = Append(@, ReportOf(req[s].frame)),
                                  !.left = @ - 1]
  OBVIOUS
<1>2. r \in Request /\ r.result = "none" /\ r.view = req[s].view
  <2>1. ReportOf(req[s].frame) \in [tick : Nat, end : Hash]
    BY DEF ReportOf, Request, Frame
  <2>2. Append(req[s].reported, ReportOf(req[s].frame)) \in Seq([tick : Nat, end : Hash])
    BY <2>1, AppendProperties DEF Request
  <2>3. req[s].left - 1 \in Nat
    OBVIOUS
  <2>. QED  BY <1>1, <2>2, <2>3 DEF Request
<1>3. CASE Reply(s, r, "OK")
  BY <1>2, <1>3, ReplyInStep DEF Results
<1>4. CASE Goto(s, r, "reload")
  BY <1>2, <1>4, GotoInStep DEF Points, InspectPoints, FramePoints
<1>. QED  BY <1>1, <1>3, <1>4 DEF Succeed

\* Begin, crash, and the inspection's reads: the only request goes on knowing what
\* is stored.
LEMMA InspectInStep ==
    ASSUME AloneInv, NEW s \in Steppers, UNCHANGED <<world, docs>>,
           \/ BeginStep(s) \/ Crash(s) \/ InspectHead(s) \/ InspectFrame(s)
           \/ InspectEvents(s) \/ InspectEntities(s) \/ LoadEntities(s)
    PROVE  InStepNext(s)
<1>1. /\ TypeOK /\ req[s] \in Request /\ RequestInv(req[s]) /\ InStep(req[s])
      /\ head \in RunHead /\ entities \in View
  BY DEF AloneInv, RequestsInv, TypeOK
<1>2. ~At(s, "idle") => req[s].result = "none"
  BY <1>1 DEF RequestInv, At
<1>3. SameRun(head, head)
  BY DEF SameRun
<1>4. CASE BeginStep(s)
  <2>1. PICK n \in 1..MaxRequest :
          LET r == [NoRequest EXCEPT !.left = n, !.run = head]
          IN  \/ Reply(s, r, BlockedAs(head))
              \/ Goto(s, r, "inspectHead")
    BY <1>4 DEF BeginStep
  <2>. DEFINE r == [NoRequest EXCEPT !.left = n, !.run = head]
  <2>2. r \in Request /\ r.result = "none"
    <3>1. n \in Nat
      BY StoreAssumption DEF BoundsAssumption
    <3>. QED  BY <1>1, <3>1, GenesisType DEF Request, NoRequest
  <2>3. CASE Reply(s, r, BlockedAs(head))
    BY <2>2, <2>3, ReplyInStep DEF BlockedAs, Results
  <2>4. CASE Goto(s, r, "inspectHead")
    BY <2>2, <2>4, GotoInStep DEF Points, InspectPoints, FramePoints
  <2>. QED  BY <2>1, <2>3, <2>4
<1>5. CASE Crash(s)
  <2>1. PICK c \in Request : c = [NoRequest EXCEPT !.result = "CRASHED"]
    BY GenesisType DEF Request, Results
  <2>2. c.pc = "idle" /\ c.result = "CRASHED"
    BY <2>1 DEF NoRequest
  <2>3. InStep(c)
    BY <2>2 DEF InStep, InspectPoints, FramePoints
  <2>. QED  BY <1>5, <2>1, <2>3 DEF Crash, InStepNext
<1>6. CASE InspectHead(s)
  <2>. DEFINE r == [req[s] EXCEPT !.run = head]
  <2>1. r \in Request /\ r.result = req[s].result /\ r.run = head
    BY <1>1 DEF Request
  <2>2. CASE Reply(s, req[s], BlockedAs(head))
    BY <1>1, <2>2, ReplyInStep DEF BlockedAs, Results
  <2>3. CASE Goto(s, r, "inspectFrame")
    BY <1>2, <1>3, <1>6, <2>1, <2>3, GotoInStep
       DEF InspectHead, At, Points, InspectPoints, FramePoints
  <2>. QED  BY <1>6, <2>2, <2>3 DEF InspectHead
<1>7. CASE InspectFrame(s)
  <2>1. SameRun(req[s].run, head)
    BY <1>1, <1>7 DEF InspectFrame, At, InStep, InspectPoints
  <2>2. PICK b \in BOOLEAN :
          b = (LatestTick = req[s].run.tick /\ frames[LatestTick].end = req[s].run.hash)
    OBVIOUS
  <2>3. b <=> FrameAgrees
    BY <1>1, <2>1, <2>2, LatestTickIsHead DEF SameRun, FrameAgrees
  <2>4. PICK r \in Request : r = [req[s] EXCEPT !.ok = b]
    BY <1>1 DEF Request
  <2>5. r.result = req[s].result /\ r.run = req[s].run /\ r.ok = b
    BY <1>1, <2>4 DEF Request
  <2>6. Goto(s, r, "inspectEvents")
    BY <1>7, <2>2, <2>4 DEF InspectFrame
  <2>. QED  BY <1>2, <1>7, <2>1, <2>3, <2>5, <2>6, GotoInStep
            DEF InspectFrame, At, Points, InspectPoints, FramePoints
<1>8. CASE InspectEvents(s)
  <2>1. SameRun(req[s].run, head) /\ (req[s].ok <=> FrameAgrees)
    BY <1>1, <1>8 DEF InspectEvents, At, InStep, InspectPoints
  <2>2. PICK b \in BOOLEAN :
          b = (req[s].ok /\ \A ev \in events : ev.order < req[s].run.order)
    OBVIOUS
  <2>3. b <=> Agree
    BY <2>1, <2>2 DEF SameRun, Agree
  <2>4. PICK r \in Request : r = [req[s] EXCEPT !.ok = b]
    BY <1>1 DEF Request
  <2>5. r.result = req[s].result /\ r.run = req[s].run /\ r.ok = b
    BY <1>1, <2>4 DEF Request
  <2>6. Goto(s, r, "inspectEntities")
    BY <1>8, <2>2, <2>4 DEF InspectEvents
  <2>. QED  BY <1>2, <1>8, <2>1, <2>3, <2>5, <2>6, GotoInStep
            DEF InspectEvents, At, Points, InspectPoints, FramePoints
<1>9. CASE InspectEntities(s)
  <2>1. CASE HashOf(req[s].run.tick, entities) = req[s].run.hash /\ Goto(s, req[s], "load")
    <3>1. SameRun(req[s].run, head)
      BY <1>1, <1>9 DEF InspectEntities, At, InStep, InspectPoints
    <3>2. HashOf(head.tick, entities) = head.hash
      BY <2>1, <3>1 DEF SameRun
    <3>3. Knows(entities)
      BY <3>2 DEF Knows, HeadFaithful, HashOf
    <3>. QED  BY <1>1, <1>2, <1>9, <2>1, <3>3, GotoInStep
              DEF InspectEntities, At, Points, InspectPoints, FramePoints
  <2>2. CASE Reply(s, req[s], "RUN_INTEGRITY_MISMATCH")
    BY <1>1, <2>2, ReplyInStep DEF Results
  <2>. QED  BY <1>9, <2>1, <2>2 DEF InspectEntities
<1>10. CASE LoadEntities(s)
  <2>. DEFINE r == [req[s] EXCEPT !.view = entities]
  <2>1. r \in Request /\ r.result = req[s].result /\ r.view = entities
    BY <1>1 DEF Request
  <2>2. Knows(entities)
    BY <1>1, <1>10 DEF LoadEntities, At, InStep
  <2>. QED  BY <1>2, <1>10, <2>1, <2>2, GotoInStep
            DEF LoadEntities, At, Points, InspectPoints, FramePoints
<1>. QED  BY <1>4, <1>5, <1>6, <1>7, <1>8, <1>9, <1>10

\* The head is read again, and the frame computed on what the events give.
LEMMA ComputeInStep ==
    ASSUME AloneInv, NEW s \in Steppers, UNCHANGED <<world, docs>>,
           ReloadHead(s) \/ ComputeFrame(s) \/ ExceedCapacity(s)
    PROVE  InStepNext(s)
<1>1. /\ TypeOK /\ req[s] \in Request /\ InStep(req[s]) /\ head \in RunHead
      /\ req[s].result = "none"
  BY DEF AloneInv, RequestsInv, TypeOK, RequestInv, At, ReloadHead, ComputeFrame, ExceedCapacity
<1>2. SameRun(head, head)
  BY DEF SameRun
<1>3. CASE ReloadHead(s)
  <2>. DEFINE r == [req[s] EXCEPT !.run = head]
  <2>1. /\ r \in Request /\ r.result = req[s].result /\ r.run = head /\ r.view = req[s].view
        /\ Knows(req[s].view)
    BY <1>1, <1>3 DEF Request, ReloadHead, At, InStep
  <2>2. CASE Reply(s, req[s], BlockedAs(head))
    BY <1>1, <2>2, ReplyInStep DEF BlockedAs, Results
  <2>3. CASE Goto(s, r, "compute")
    BY <1>1, <1>2, <2>1, <2>3, GotoInStep DEF Points, InspectPoints, FramePoints
  <2>. QED  BY <1>3, <2>2, <2>3 DEF ReloadHead
<1>4. CASE ComputeFrame(s)
  <2>. DEFINE f == FrameFrom(req[s].run, req[s].view)
              r == [req[s] EXCEPT !.frame = f, !.view = f.view, !.attempt = 0]
  <2>1. f \in Frame /\ f.view \in View
    BY <1>1, <1>4, FrameFromType DEF TypeOK, Request, ComputeFrame, Frame
  <2>2. r \in Request /\ r.result = req[s].result /\ r.frame = f /\ r.view = f.view
    BY <1>1, <2>1 DEF Request
  <2>3. Knows(req[s].view) /\ SameRun(req[s].run, head)
    BY <1>1, <1>4 DEF ComputeFrame, At, InStep
  <2>4. Pending(f)
    BY <2>3 DEF FrameFrom, Pending, SameRun, Knows
  <2>. QED  BY <1>1, <1>4, <2>2, <2>4, GotoInStep DEF ComputeFrame, Points, InspectPoints
<1>5. CASE ExceedCapacity(s)
  BY <1>1, <1>5, ReplyInStep DEF ExceedCapacity, Results
<1>. QED  BY <1>3, <1>4, <1>5

\* The commit is checked, retried or resolved: the frame is pending until it is done,
\* and the resolution tells which.
LEMMA ResolveInStep ==
    ASSUME AloneInv, NEW s \in Steppers, UNCHANGED <<world, docs>>,
           \/ CheckHead(s) \/ LoseRace(s) \/ Abort(s) \/ CheckTransient(s)
           \/ ResolveFrame(s) \/ ResolveHead(s)
    PROVE  InStepNext(s)
<1>. DEFINE f == req[s].frame
<1>1. /\ TypeOK /\ Ticked /\ req[s] \in Request /\ RequestInv(req[s]) /\ InStep(req[s])
      /\ req[s].pc \in FramePoints
  BY DEF AloneInv, RequestsInv, TypeOK, FramePoints, At, CheckHead, LoseRace, Abort,
         CheckTransient, ResolveFrame, ResolveHead
<1>2. /\ req[s].result = "none" /\ req[s].left \in Nat \ {0}
      /\ f \in Frame /\ f.view = req[s].view /\ (Pending(f) \/ Done(f))
  BY <1>1 DEF RequestInv, InStep, FramePoints, Request
<1>3. /\ Pending(f) => f.tick \notin DOMAIN frames
      /\ Done(f) => f.tick \in DOMAIN frames /\ frames[f.tick] = DocOf(f)
      /\ HeadMatches(head, f) => Pending(f)
  <2>1. head.tick \in Nat /\ DOMAIN frames = 0..head.tick
    BY <1>1 DEF TypeOK, RunHead
  <2>2. Done(f) => head.tick = f.tick
    BY DEF Done, Committed
  <2>. QED  BY <1>1, <1>2, <2>1, <2>2, PendingMissing DEF Done, HeadMatches
<1>4. ASSUME NEW r \in Request, NEW pc \in FramePoints, Goto(s, r, pc),
             r.result = req[s].result, r.view = req[s].view, r.frame = f,
             pc \in {"check", "transaction"} => Pending(f),
             pc = "resolveHead" /\ ~r.stored => Pending(f)
      PROVE  InStepNext(s)
  <2>1. /\ r.result = "none" /\ r.frame.view = r.view
        /\ Pending(r.frame) \/ Done(r.frame)
    BY <1>2, <1>4
  <2>. QED  BY <1>4, <2>1, GotoInStep DEF Points, InspectPoints, FramePoints
<1>5. ASSUME Pending(f), RetryOrGiveUp(s) \/ Unresolved(s)
      PROVE  InStepNext(s)
  BY <1>1, <1>3, <1>4, <1>5, ReplyInStep DEF RetryOrGiveUp, Unresolved, FramePoints, Results
<1>6. ASSUME NEW why \in {"stale", "unknown", "transient"}, Resolve(s, why)
      PROVE  InStepNext(s)
  <2>. DEFINE r == [req[s] EXCEPT !.why = why]
  <2>1. r \in Request /\ r.result = req[s].result /\ r.view = req[s].view /\ r.frame = f
    BY <1>1 DEF Request
  <2>. QED  BY <1>4, <1>6, <2>1 DEF Resolve, FramePoints
<1>7. CASE CheckHead(s)
  <2>. DEFINE r == [req[s] EXCEPT !.attempt = @ + 1]
  <2>1. r \in Request /\ r.result = req[s].result /\ r.view = req[s].view /\ r.frame = f
    BY <1>1 DEF Request
  <2>2. (Goto(s, r, "transaction") /\ Pending(f)) \/ Resolve(s, "stale")
    BY <1>3, <1>7 DEF CheckHead
  <2>. QED  BY <1>4, <1>6, <2>1, <2>2 DEF FramePoints
<1>8. CASE LoseRace(s)
  BY <1>1, <1>8, ReplyInStep DEF LoseRace, Results
<1>9. CASE Abort(s)
  BY <1>1, <1>4, <1>6, <1>9, ReplyInStep DEF Abort, FramePoints, Results
<1>10. CASE CheckTransient(s)
  BY <1>3, <1>5, <1>6, <1>10 DEF CheckTransient
<1>11. CASE ResolveFrame(s)
  <2>. DEFINE r(b) == [req[s] EXCEPT !.stored = b]
  <2>1. \A b \in BOOLEAN : /\ r(b) \in Request /\ r(b).result = req[s].result
                           /\ r(b).view = req[s].view /\ r(b).frame = f /\ r(b).stored = b
    BY <1>1 DEF Request
  <2>2. \/ Goto(s, r(FALSE), "resolveHead") /\ f.tick \notin DOMAIN frames
        \/ Goto(s, r(TRUE), "resolveHead")
        \/ Unresolved(s) /\ f.tick \in DOMAIN frames /\ frames[f.tick] # DocOf(f)
    BY <1>11 DEF ResolveFrame
  <2>. QED  BY <1>2, <1>3, <1>4, <2>1, <2>2 DEF FramePoints
<1>12. CASE ResolveHead(s)
  <2>1. req[s].pc = "resolveHead"
    BY <1>12 DEF ResolveHead, At
  <2>2. CASE req[s].stored
    <3>1. f.tick \in DOMAIN frames
      BY <1>1, <2>1, <2>2 DEF RequestInv
    <3>2. Done(f)
      BY <1>2, <1>3, <3>1
    <3>3. Succeed(s) /\ Knows(req[s].view)
      BY <1>2, <1>12, <2>2, <3>2, DoneKnows DEF ResolveHead, Done
    <3>. QED  BY <1>1, <1>2, <3>3, SucceedInStep
  <2>3. CASE ~req[s].stored
    <3>1. Pending(f)
      BY <1>1, <2>1, <2>3 DEF InStep
    <3>2. RetryOrGiveUp(s) \/ Unresolved(s)
      BY <1>12, <2>3 DEF ResolveHead
    <3>. QED  BY <1>5, <3>1, <3>2
  <2>. QED  BY <2>2, <2>3
<1>. QED  BY <1>7, <1>8, <1>9, <1>10, <1>11, <1>12

\* A durable commit of the only request leaves in memory what it stored.
LEMMA CommitInStep ==
    ASSUME AloneInv, NEW s \in Steppers, Commit(s) \/ CommitUnacknowledged(s)
    PROVE  Ticked' /\ \E r \in Request : req' = [req EXCEPT ![s] = r] /\ InStep(r)'
<1>1. PICK f \in Frame : f = req[s].frame
  BY DEF AloneInv, RequestsInv, TypeOK, Request
<1>2. /\ TypeOK /\ DocsType /\ Ticked /\ req[s] \in Request
      /\ RequestInv(req[s]) /\ InStep(req[s])
      /\ req[s].pc = "transaction" /\ WriteFrame(f) /\ UNCHANGED world
  BY <1>1 DEF AloneInv, RequestsInv, TypeOK, DocsType, At, Commit, CommitUnacknowledged
<1>3. /\ FrameComputed(f) /\ f.view = req[s].view /\ Pending(f)
      /\ req[s].left \in Nat \ {0} /\ req[s].result = "none"
  BY <1>1, <1>2 DEF RequestInv, InStep, FramePoints
<1>4. /\ head'.tick = f.tick /\ head'.hash = f.end /\ head'.order = f.next
      /\ frames'[f.tick] = DocOf(f) /\ f.tick = head.tick + 1
      /\ \A t \in 0..head.tick : frames'[t] = frames[t]
  BY <1>2, WriteFrameGrows
<1>5. Ticked'
  BY <1>2, <1>4 DEF Ticked, DocOf, DocsType, RunHead
<1>6. Done(f)'
  BY <1>3, <1>4 DEF Pending, Done, Committed, DocOf, HashOf
<1>7. Knows(f.view)'
  BY <1>4, <1>6 DEF Done, Committed, Knows, HeadFaithful, HashOf
<1>8. ASSUME NEW q \in Request, NEW pc \in Points, Goto(s, q, pc),
             q.result = "none", q.view = f.view, q.frame = f,
             pc \in {"reload", "transient", "resolveFrame"}
      PROVE  \E r \in Request : req' = [req EXCEPT ![s] = r] /\ InStep(r)'
  <2>1. PICK r \in Request : r = [q EXCEPT !.pc = pc]
    BY DEF Request
  <2>2. r.pc = pc /\ r.result = "none" /\ r.view = f.view /\ r.frame = f
    BY <1>8, <2>1 DEF Request
  <2>3. InStep(r)'
    BY <1>6, <1>7, <1>8, <2>2 DEF InStep, InspectPoints, FramePoints
  <2>. QED  BY <1>8, <2>1, <2>3 DEF Goto
<1>9. \E r \in Request : req' = [req EXCEPT ![s] = r] /\ InStep(r)'
  <2>1. CASE Goto(s, req[s], "transient")
    BY <1>1, <1>2, <1>3, <1>8, <2>1 DEF Points
  <2>2. CASE Resolve(s, "unknown")
    <3>. DEFINE q == [req[s] EXCEPT !.why = "unknown"]
    <3>1. q \in Request /\ q.result = "none" /\ q.view = f.view /\ q.frame = f
      BY <1>1, <1>2, <1>3 DEF Request
    <3>. QED  BY <1>8, <2>2, <3>1 DEF Resolve, Points
  <2>3. CASE Succeed(s)
    <3>1. PICK q : q = [req[s] EXCEPT !.reported = Append(@, ReportOf(req[s].frame)),
                                      !.left = @ - 1]
      OBVIOUS
    <3>2. q \in Request /\ q.result = "none" /\ q.view = f.view /\ q.frame = f
      <4>1. ReportOf(req[s].frame) \in [tick : Nat, end : Hash]
        BY <1>2 DEF ReportOf, Request, Frame
      <4>2. Append(req[s].reported, ReportOf(req[s].frame)) \in Seq([tick : Nat, end : Hash])
        BY <1>2, <4>1, AppendProperties DEF Request
      <4>3. req[s].left - 1 \in Nat
        BY <1>3
      <4>. QED  BY <1>1, <1>2, <1>3, <3>1, <4>2, <4>3 DEF Request
    <3>3. CASE Goto(s, q, "reload")
      BY <1>8, <3>2, <3>3 DEF Points
    <3>4. CASE Reply(s, q, "OK")
      <4>1. PICK r \in Request : r = [NoRequest EXCEPT !.frame = q.frame,
                                        !.reported = q.reported, !.result = "OK"]
        BY <3>2, GenesisType DEF Request, Results
      <4>2. r.pc = "idle" /\ r.result = "OK"
        BY <4>1 DEF NoRequest
      <4>3. InStep(r)'
        BY <4>2 DEF InStep, InspectPoints, FramePoints
      <4>. QED  BY <3>4, <4>1, <4>3 DEF Reply
    <3>. QED  BY <2>3, <3>1, <3>3, <3>4 DEF Succeed
  <2>. QED  BY <2>1, <2>2, <2>3, <1>2 DEF Commit, CommitUnacknowledged
<1>. QED  BY <1>5, <1>9

\* A commit keeps a faithful history, and a projection that goes with it.
LEMMA CommitFaithful ==
    ASSUME SerialInv, InSync', NEW s \in Steppers, Commit(s) \/ CommitUnacknowledged(s)
    PROVE  ReplayFaithful' /\ HeadFaithful' /\ (Projected => Projected')
<1>1. PICK f \in Frame : f = req[s].frame
  BY DEF SerialInv, AloneInv, RequestsInv, TypeOK, Request
<1>2. /\ TypeOK /\ RequestInv(req[s]) /\ InStep(req[s])
      /\ req[s].pc = "transaction" /\ WriteFrame(f) /\ UNCHANGED world
  BY <1>1 DEF SerialInv, AloneInv, RequestsInv, TypeOK, At, Commit, CommitUnacknowledged
<1>3. FrameComputed(f) /\ Pending(f)
  BY <1>1, <1>2 DEF RequestInv, InStep, FramePoints
<1>. QED  BY <1>2, <1>3, WriteFrameFaithful DEF SerialInv

----------------------------------------------------------------------------
\* A status, a lease or entity documents change, nobody being about to load them or
\* to what the events give.
LEMMA SameHistoryAlone ==
    ASSUME AloneInv, SameHistory, UNCHANGED req,
           \/ entities' = entities
           \/ entities' = Replay(events)
           \/ \A s \in Steppers : At(s, "idle")
    PROVE  AloneInv' /\ (SerialInv => SerialInv')
<1>1. RequestsInv' /\ (InSync => InSync')
  BY SameHistoryKeeps DEF AloneInv, RequestsInv
<1>2. Ticked' /\ (ReplayFaithful => ReplayFaithful') /\ (HeadFaithful <=> HeadFaithful')
  BY DEF AloneInv, Ticked, SameHistory, ReplayFaithful, HeadFaithful, Replay, Apply, HashOf
<1>3. ASSUME NEW s \in Steppers
      PROVE  InStep(req[s])'
  <2>1. PICK r : r = req[s]
    OBVIOUS
  <2>2. Replay(events)' = Replay(events)
    BY DEF SameHistory, Replay, Apply
  <2>3. \A view : Knows(view)' <=> Knows(view)
    BY <1>2, <2>2 DEF Knows
  <2>4. InStep(r) /\ (r.pc = "load" => Knows(entities)') /\ req'[s] = r
    BY <2>1, <2>2, <2>3 DEF AloneInv, InStep, At, Knows
  <2>5. /\ \A a : SameRun(a, head)' <=> SameRun(a, head)
        /\ FrameAgrees' <=> FrameAgrees
        /\ Agree' <=> Agree
    BY DEF SameHistory, SameRun, FrameAgrees, Agree
  <2>6. /\ Pending(r.frame)' <=> Pending(r.frame)
        /\ Done(r.frame)' <=> Done(r.frame)
    BY <1>2, <2>2 DEF SameHistory, Pending, Done, Committed, DocOf, Apply, HashOf
  <2>. QED  BY <2>3, <2>4, <2>5, <2>6 DEF InStep
<1>. QED  BY <1>1, <1>2, <1>3 DEF AloneInv, SerialInv

\* What the steps of the only request amount to.
LEMMA AloneSteps ==
    ASSUME AloneInv, NEW one \in Steppers, BeginStep(one) \/ Continue(one) \/ Crash(one)
    PROVE  \/ UNCHANGED <<world, docs>> /\ InStepNext(one)
           \/ Commit(one) \/ CommitUnacknowledged(one)
<1>1. CASE \/ BeginStep(one) \/ Crash(one) \/ InspectHead(one) \/ InspectFrame(one)
           \/ InspectEvents(one) \/ InspectEntities(one) \/ LoadEntities(one)
  <2>1. UNCHANGED <<world, docs>>
    BY <1>1 DEF BeginStep, Crash, InspectHead, InspectFrame, InspectEvents,
                InspectEntities, LoadEntities
  <2>. QED  BY <1>1, <2>1, InspectInStep
<1>2. CASE ReloadHead(one) \/ ComputeFrame(one) \/ ExceedCapacity(one)
  <2>1. UNCHANGED <<world, docs>>
    BY <1>2 DEF ReloadHead, ComputeFrame, ExceedCapacity
  <2>. QED  BY <1>2, <2>1, ComputeInStep
<1>3. CASE \/ CheckHead(one) \/ LoseRace(one) \/ Abort(one) \/ CheckTransient(one)
           \/ ResolveFrame(one) \/ ResolveHead(one)
  <2>1. UNCHANGED <<world, docs>>
    BY <1>3 DEF CheckHead, LoseRace, Abort, CheckTransient, ResolveFrame, ResolveHead
  <2>. QED  BY <1>3, <2>1, ResolveInStep
<1>. QED  BY <1>1, <1>2, <1>3 DEF Continue

\* Every step preserves what the only request knows, on any documents.
LEMMA NextAloneInv ==
    ASSUME NEW one, Steppers = {one}
    PROVE  AloneInv /\ [Next]_vars => AloneInv'
<1>. SUFFICES ASSUME AloneInv, [Next]_vars
              PROVE  AloneInv'
  OBVIOUS
<1>1. RequestsInv /\ TypeOK /\ RequestsInv'
  BY NextRequestsInv DEF AloneInv, RequestsInv
<1>2. ASSUME NEW r \in Request, req' = [req EXCEPT ![one] = r], InStep(r)', Ticked'
      PROVE  AloneInv'
  <2>1. req'[one] = r
    BY <1>1, <1>2 DEF TypeOK
  <2>2. \A s \in Steppers : InStep(req[s])'
    BY <1>2, <2>1 DEF InStep
  <2>. QED  BY <1>1, <1>2, <2>2 DEF AloneInv
<1>3. CASE UNCHANGED <<world, docs>> /\ InStepNext(one)
  <2>1. PICK r \in Request : req' = [req EXCEPT ![one] = r] /\ InStep(r)
    BY <1>3 DEF InStepNext
  <2>2. InStep(r)'
    BY <1>3, <2>1 DEF InStep, SameRun, Pending, Done, Committed, DocOf, Knows,
                      HeadFaithful, FrameAgrees, Agree, Replay, Apply, HashOf, docs
  <2>3. Ticked'
    BY <1>3 DEF AloneInv, Ticked, docs
  <2>. QED  BY <1>2, <2>1, <2>2, <2>3
<1>4. CASE Commit(one) \/ CommitUnacknowledged(one)
  BY <1>2, <1>4, CommitInStep
<1>5. CASE Pause \/ UNCHANGED vars
  <2>1. SameHistory /\ UNCHANGED req /\ UNCHANGED entities
    BY <1>1, <1>5, PauseOrStutter DEF Pause, vars, docs
  <2>. QED  BY <2>1, SameHistoryAlone
<1>. QED  BY <1>3, <1>4, <1>5, AloneSteps DEF Next

\* And a faithful history, with the projection that goes with it.
LEMMA NextSerialInv ==
    ASSUME NEW one, Steppers = {one}
    PROVE  SerialInv /\ [Next]_vars => SerialInv' /\ (Projected => Projected')
<1>. SUFFICES ASSUME SerialInv, [Next]_vars
              PROVE  SerialInv' /\ (Projected => Projected')
  OBVIOUS
<1>1. AloneInv /\ TypeOK /\ AloneInv' /\ InSync'
  BY NextAloneInv, NextInSync DEF SerialInv, AloneInv, RequestsInv
<1>2. CASE UNCHANGED <<world, docs>>
  <2>1. ReplayFaithful' /\ HeadFaithful' /\ (Projected => Projected')
    BY <1>2 DEF SerialInv, ReplayFaithful, HeadFaithful, Projected, Replay, Apply, HashOf, docs
  <2>. QED  BY <1>1, <2>1 DEF SerialInv
<1>3. CASE Commit(one) \/ CommitUnacknowledged(one)
  BY <1>1, <1>3, CommitFaithful DEF SerialInv
<1>4. CASE Pause \/ UNCHANGED vars
  <2>1. SameHistory /\ UNCHANGED req /\ UNCHANGED entities
    BY <1>1, <1>4, PauseOrStutter DEF Pause, vars, docs
  <2>2. Projected => Projected'
    BY <2>1 DEF SameHistory, Projected, Replay, Apply
  <2>. QED  BY <1>1, <2>1, <2>2, SameHistoryAlone
<1>. QED  BY <1>1, <1>2, <1>3, <1>4, AloneSteps DEF Next

\* The invariant holds throughout.
LEMMA SerialInvariance ==
    ASSUME NEW one, Steppers = {one}
    PROVE  Spec => [](SerialInv /\ Projected)
<1>1. SerialInv /\ Projected /\ [Next]_vars => (SerialInv /\ Projected)'
  BY NextSerialInv
<1>. QED  BY <1>1, InitSerialInv, PTL DEF Spec

\* With one request at a time, every frame replays: verify_replay finds that the
\* accepted events give the hash each frame ended in, whatever was retried.
THEOREM SerialReplay ==
    ASSUME NEW one, Steppers = {one}
    PROVE  Spec => []ReplayFaithful
<1>1. SerialInv => ReplayFaithful
  BY DEF SerialInv
<1>. QED  BY <1>1, SerialInvariance, PTL

\* With one request at a time, the entity documents are what the accepted events
\* give and what the head's hash says, although step_run loads them only once.
THEOREM SerialProjection ==
    ASSUME NEW one, Steppers = {one}
    PROVE  Spec => []ProjectionFaithful
<1>1. SerialInv /\ Projected => ProjectionFaithful
  BY DEF SerialInv, Projected, HeadFaithful, ProjectionFaithful
<1>. QED  BY <1>1, SerialInvariance, PTL
=============================================================================
